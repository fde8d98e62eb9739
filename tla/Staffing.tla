------------------------------ MODULE Staffing ------------------------------
(* StaffingOptimizer of solver/staffing.py: before any timetable is made,     *)
(* share a year's lessons, centre activities and tutor groups among the       *)
(* teachers, in one CP-SAT model with one weighted objective.                 *)
(* An input p is a record of teachers, requirements, activities and groups,   *)
(* each a set.                                                                *)
EXTENDS Integers, FiniteSetsExt

CONSTANT Inputs       \* the inputs that are asked about

Nobody  == "nobody"
NoGroup == "no group"

\* Lists of a request: finitely many entries, minutes and staff are integers,
\* at most 3000 minutes are asked of a tutor and there are four preferences
\* (StaffingTeacherInput); no teacher is called Nobody.
ASSUME InputsAssumption ==
    \A p \in Inputs :
        /\ IsFiniteSet(p.teachers) /\ IsFiniteSet(p.requirements)
        /\ IsFiniteSet(p.activities) /\ IsFiniteSet(p.groups)
        /\ \A t \in p.teachers : /\ t.id # Nobody
                                 /\ t.minutes \in Int
                                 /\ t.minTutor \in Nat /\ t.minTutor <= 3000
                                 /\ t.preference \in {"preferente", "disponible", "evitar", "no"}
        /\ \A r \in p.requirements : r.minutes \in Int
        /\ \A a \in p.activities : a.minutes \in Int /\ a.staff \in Int

VARIABLES input, pc,
          status,     \* what CP-SAT answered
          choice,     \* the values of the model's variables
          report      \* StaffingSolution

vars == <<input, pc, status, choice, report>>

Ids(p) == {t.id : t \in p.teachers}

UniqueIds(some) == \A x, y \in some : x.id = y.id => x = y

\* _validate
Validates(p) ==
    /\ UniqueIds(p.teachers) /\ UniqueIds(p.requirements) /\ UniqueIds(p.activities)
    /\ \A t \in p.teachers : /\ t.minutes >= 0
                             /\ t.specialties \subseteq t.subjects
                             /\ t.fixedGroup \in p.groups \cup {NoGroup}
    /\ \A r \in p.requirements : /\ r.minutes > 0
                                 /\ r.group \in p.groups
                                 /\ r.fixed \in Ids(p) \cup {Nobody}
    /\ \A a \in p.activities : /\ a.minutes > 0 /\ a.staff > 0
                               /\ a.fixed \cup a.eligible \subseteq Ids(p)
                               /\ a.groups \subseteq p.groups

-----------------------------------------------------------------------------
(* The model: c.teaches[r] and c.tutor[g] are ids or Nobody, c.staff[a] is    *)
(* a set of ids                                                               *)

CanCover(t, r) == r.fixed = t.id \/ r.subject \in t.subjects

CanTutor(t, g) == t.preference # "no" \/ t.fixedGroup = g

\* required_slots
Slots(a) == Max({a.staff, Cardinality(a.fixed)})

Missing(c, a) == Slots(a) - Cardinality(c.staff[a])

TotalMinutes(S) == SumFunction([x \in S |-> x.minutes])

Lessons(p, c, t) == {r \in p.requirements : c.teaches[r] = t.id}
Duties(p, c, t)  == {a \in p.activities : t.id \in c.staff[a]}

\* (with a bug: the activities take no time)
FitsLessons(p, c, t) == TotalMinutes(Lessons(p, c, t)) <= t.minutes

Fits(p, c, t) ==
    TotalMinutes(Lessons(p, c, t)) + TotalMinutes(Duties(p, c, t)) <= t.minutes

\* (with a bug: a teacher may be the tutor of several groups)
AnyNumberOfGroups(p, c) == TRUE

OneGroupEach(p, c) ==
    \A g, h \in p.groups : g # h /\ c.tutor[g] # Nobody => c.tutor[g] # c.tutor[h]

\* (with a bug: only the fixed lessons are fixed)
KeepsFixedLessons(p, c) ==
    \A r \in p.requirements : r.fixed # Nobody => c.teaches[r] = r.fixed

KeepsFixed(p, c) ==
    /\ \A r \in p.requirements : r.fixed # Nobody => c.teaches[r] = r.fixed
    /\ \A a \in p.activities : a.fixed \subseteq c.staff[a]
    /\ \A t \in p.teachers : t.fixedGroup # NoGroup => c.tutor[t.fixedGroup] = t.id

\* (with a bug: no slack for an activity that finds too few)
StaffedInFull(p, c, a) ==
    /\ c.staff[a] \subseteq a.fixed \cup a.eligible
    /\ Missing(c, a) = 0

Staffed(p, c, a) ==
    /\ c.staff[a] \subseteq a.fixed \cup a.eligible
    /\ Missing(c, a) >= 0

Allocations(p) ==
    {c \in [teaches: [p.requirements -> Ids(p) \cup {Nobody}],
            staff: [p.activities -> SUBSET Ids(p)],
            tutor: [p.groups -> Ids(p) \cup {Nobody}]] :
        /\ KeepsFixed(p, c)
        /\ \A r \in p.requirements :
              c.teaches[r] # Nobody => \E t \in p.teachers : t.id = c.teaches[r] /\ CanCover(t, r)
        /\ \A a \in p.activities : Staffed(p, c, a)
        /\ \A g \in p.groups :
              c.tutor[g] # Nobody => \E t \in p.teachers : t.id = c.tutor[g] /\ CanTutor(t, g)
        /\ OneGroupEach(p, c)
        /\ \A t \in p.teachers : Fits(p, c, t)}

-----------------------------------------------------------------------------
(* The objective                                                             *)

Specialists(p, subject) == {t.id : t \in {s \in p.teachers : subject \in s.specialties}}

LessonCost(p, c, r) ==
    CASE c.teaches[r] = Nobody                          -> 10000 * r.minutes
      [] c.teaches[r] \in Specialists(p, r.subject)     -> -8 * r.minutes
      [] c.teaches[r] # Nobody /\ Specialists(p, r.subject) = {} -> 0
      [] OTHER                                          -> 35 * r.minutes

\* group_use_vars
Uses(p, c, id) == {r.group : r \in {s \in p.requirements : c.teaches[s] = id}}

DutyCost(p, c, a, t) ==
    (IF t.id \in a.fixed THEN 0
     ELSE CASE t.role = "especialista" -> 350 [] t.role = "mixto" -> 80 [] OTHER -> 0)
    - 1500 * Cardinality({g \in a.groups : c.tutor[g] = t.id})
    - 500 * Cardinality(a.groups \cap Uses(p, c, t.id))

Participants(p, c, a) == {t \in p.teachers : t.id \in c.staff[a]}

\* (with a bug: missing staff costs nothing)
ActivityCostOfStaff(p, c, a) ==
    SumFunction([t \in Participants(p, c, a) |-> DutyCost(p, c, a, t)])

ActivityCost(p, c, a) ==
    3000 * a.minutes * Missing(c, a)
    + SumFunction([t \in Participants(p, c, a) |-> DutyCost(p, c, a, t)])

\* How many minutes a tutor teaches too few in the tutor group.
Shortfall(p, c, t, g) ==
    Max({0, t.minTutor - TotalMinutes({r \in Lessons(p, c, t) : r.group = g})})

TutorCost(p, c, t, g) ==
    (CASE t.role = "especialista" -> 18000 [] t.role = "mixto" -> 3000 [] OTHER -> 0)
    + (CASE t.preference = "preferente" -> 0
         [] t.preference = "disponible" -> 600
         [] t.preference = "evitar"     -> 12000
         [] t.preference = "no"         -> 100000)
    + 40 * Shortfall(p, c, t, g)
    - (IF g \in Uses(p, c, t.id) THEN 2500 ELSE 0)

GroupCost(p, c, g) ==
    IF c.tutor[g] = Nobody THEN 500000
    ELSE SumFunction([t \in {u \in p.teachers : u.id = c.tutor[g]} |-> TutorCost(p, c, t, g)])

Objective(p, c) ==
    SumFunction([r \in p.requirements |-> LessonCost(p, c, r)])
    + SumFunction([a \in p.activities |-> ActivityCost(p, c, a)])
    + SumFunction([g \in p.groups |-> GroupCost(p, c, g)])
    + SumFunction([t \in p.teachers |-> 450 * Cardinality(Uses(p, c, t.id))])

-----------------------------------------------------------------------------
TypeOK ==
    /\ input \in Inputs
    /\ pc \in {"start", "solved", "reported", "invalid"}
    /\ status \in {"none", "OPTIMAL", "FEASIBLE", "INFEASIBLE", "UNKNOWN"}
    /\ pc \in {"solved", "reported"} <=> status \in {"OPTIMAL", "FEASIBLE"}

Init ==
    /\ input \in Inputs
    /\ pc = "start"
    /\ status = "none"
    /\ choice = <<>>
    /\ report = <<>>

\* ValueError: 422
RefuseInput ==
    /\ pc = "start"
    /\ ~ Validates(input)
    /\ pc' = "invalid"
    /\ UNCHANGED <<input, status, choice, report>>

\* The best choice, or at the time limit any.
Solve ==
    /\ pc = "start"
    /\ Validates(input)
    /\ LET choices == Allocations(input)
           IsBest(c) == \A d \in choices : Objective(input, c) <= Objective(input, d)
       IN  \E c \in choices :
              /\ choice' = c
              /\ status' \in {"FEASIBLE"} \cup (IF IsBest(c) THEN {"OPTIMAL"} ELSE {})
    /\ pc' = "solved"
    /\ UNCHANGED <<input, report>>

\* ValueError again, whether there is no choice or none was found in time.
NoSolution ==
    /\ pc = "start"
    /\ Validates(input)
    /\ status' \in {"UNKNOWN"} \cup (IF Allocations(input) = {} THEN {"INFEASIBLE"} ELSE {})
    /\ pc' = "invalid"
    /\ UNCHANGED <<input, choice, report>>

\* The loads are added up again from the lists that are returned.
Report ==
    /\ pc = "solved"
    /\ LET teaching == {q \in input.requirements \X input.teachers :
                           choice.teaches[q[1]] = q[2].id}
           duties   == {q \in input.activities \X input.teachers :
                           q[2].id \in choice.staff[q[1]]}
           Taken(t) == TotalMinutes({pair[1] : pair \in {q \in teaching : q[2] = t}})
                       + TotalMinutes({pair[1] : pair \in {q \in duties : q[2] = t}})
       IN  report' =
              [teaching  |-> teaching,
               duties    |-> duties,
               tutors    |-> {q \in input.groups \X input.teachers : choice.tutor[q[1]] = q[2].id},
               uncovered |-> {r \in input.requirements : choice.teaches[r] = Nobody},
               short     |-> {a \in input.activities : Missing(choice, a) > 0},
               untutored |-> {g \in input.groups : choice.tutor[g] = Nobody},
               taken     |-> [t \in input.teachers |-> Taken(t)],
               remaining |-> [t \in input.teachers |-> Max({0, t.minutes - Taken(t)})]]
    /\ pc' = "reported"
    /\ UNCHANGED <<input, status, choice>>

Next == RefuseInput \/ Solve \/ NoSolution \/ Report

Spec == Init /\ [][Next]_vars

-----------------------------------------------------------------------------
\* The loads add up: what a teacher is given and what remains is what there is;
\* the remaining minutes are never cut off at 0 to hide an overload.
LoadsAddUp ==
    pc = "reported" =>
        \A t \in input.teachers : report.taken[t] + report.remaining[t] = t.minutes

\* Every fixed teacher, participant and tutor is in the answer.
FixedDecisionsKept ==
    pc = "reported" =>
        /\ \A r \in input.requirements : r.fixed # Nobody =>
              \E t \in input.teachers : t.id = r.fixed /\ <<r, t>> \in report.teaching
        /\ \A a \in input.activities, t \in input.teachers :
              t.id \in a.fixed => <<a, t>> \in report.duties
        /\ \A t \in input.teachers :
              t.fixedGroup # NoGroup => <<t.fixedGroup, t>> \in report.tutors

\* An answer that calls itself complete is: each lesson has one teacher who may
\* give it, each activity its staff, each group a tutor of its own.
CompleteIsComplete ==
    pc = "reported" /\ report.uncovered = {} /\ report.short = {} /\ report.untutored = {} =>
        /\ \A r \in input.requirements : \E t \in input.teachers :
              CanCover(t, r) /\ {q \in report.teaching : q[1] = r} = {<<r, t>>}
        /\ \A a \in input.activities :
              Cardinality({q \in report.duties : q[1] = a}) >= a.staff
        /\ \A g \in input.groups : \E t \in input.teachers :
              {q \in report.tutors : q[1] = g \/ q[2] = t} = {<<g, t>>}

\* There is always an answer unless the fixed decisions exclude each other: too
\* many fixed minutes for a teacher, or two tutors fixed for one group.
FixedMinutes(t) ==
    TotalMinutes({r \in input.requirements : r.fixed = t.id})
    + TotalMinutes({a \in input.activities : t.id \in a.fixed})

InfeasibleOnlyIfFixed ==
    status = "INFEASIBLE" =>
        \/ \E t \in input.teachers : FixedMinutes(t) > t.minutes
        \/ \E s, t \in input.teachers : s # t /\ s.fixedGroup # NoGroup
                                              /\ s.fixedGroup = t.fixedGroup

\* In a finished plan nothing stays open for which somebody is still free: the
\* preferences never outweigh a lesson, a participant or a tutor.
OpenForWantOfStaff ==
    pc = "reported" /\ status = "OPTIMAL" =>
        \A t \in input.teachers :
            /\ \A r \in report.uncovered : CanCover(t, r) => report.remaining[t] < r.minutes
            /\ \A a \in report.short : t.id \in a.eligible /\ <<a, t>> \notin report.duties =>
                  report.remaining[t] < a.minutes
            /\ \A g \in report.untutored :
                  t.preference # "no" => \E h \in input.groups : <<h, t>> \in report.tutors

\* The optimum leaves no more minutes of lessons uncovered than it must:
\* "the solver protects curricular coverage [...] first".
CurriculumFirst ==
    pc = "reported" /\ status = "OPTIMAL" =>
        \A c \in Allocations(input) :
            TotalMinutes(report.uncovered)
               <= TotalMinutes({r \in input.requirements : c.teaches[r] = Nobody})
=============================================================================
