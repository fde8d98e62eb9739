---------------------------- MODULE DayOptimizer ----------------------------
(* SchoolDayOptimizer.solve and its flexible subclass: refuse bad input, ask  *)
(* CP-SAT for the best coverage, then for the least penalty at that coverage, *)
(* then report.  CP-SAT may stop at its time limit with some assignment       *)
(* (FEASIBLE) or none (UNKNOWN) in either round.                              *)
EXTENDS SchoolDay

CONSTANTS Days,       \* the days that are asked about
          Engines     \* subset of {"strict", "flexible"}

\* The activities of a school are finitely many, have different ids
\* (uq_activity_school_external) and one of the five priorities.
WellFormedLessons(activities) ==
    /\ IsFiniteSet(activities)
    /\ \A a, b \in activities : a.id = b.id => a = b
    /\ \A a \in activities : a.priority \in {Cancelable, Flexible, Normal, High, Critical}

\* The counts of a teacher are integers; no teacher is called Nobody.
WellFormedTeachers(teachers) ==
    \A t \in teachers : /\ t.id # Nobody
                        /\ t.count \in Int /\ t.last7 \in Int /\ t.last30 \in Int

\* Locked decisions are a list.
IsList(locked) == locked \in Seq(Range(locked))

\* As in IdsAssumption, for one day.
WellFormed(d) ==
    WellFormedLessons(d.activities) /\ WellFormedTeachers(d.teachers) /\ IsList(d.locked)

ASSUME IdsAssumption == \A d \in Days : WellFormed(d)

VARIABLES day,        \* the input of solve
          engine,     \* which optimizer
          pc,         \* how far solve has come
          status,     \* status[i]: what CP-SAT answered in round i
          minimum,    \* minimum_uncovered
          plan,       \* the assignment of the second round
          report      \* candidate_assessments: [need, teacher, status]

vars == <<day, engine, pc, status, minimum, plan, report>>

Statuses    == {"none", "OPTIMAL", "FEASIBLE", "UNKNOWN"}
Assessments == {"SELECTED", "VALID_ALTERNATIVE", "WARNING_ALTERNATIVE", "REJECTED"}

TypeOK ==
    /\ engine \in Engines
    /\ pc \in {"start", "coverage", "penalty", "solved", "reported", "invalid", "failed"}
    /\ status \in [1 .. 2 -> Statuses]
    /\ minimum \in 0 .. Cardinality(Needs(day))
    /\ pc \in {"solved", "reported"} => plan \in Assignments(engine, day)
    /\ \A a \in report : a.status \in Assessments
    /\ pc = "reported" => \A n \in Needs(day), t \in day.teachers :
                             \E a \in report : a.need = n /\ a.teacher = t.id

Init ==
    /\ day \in Days
    /\ engine \in Engines
    /\ pc = "start"
    /\ status = [i \in 1 .. 2 |-> "none"]
    /\ minimum = 0
    /\ plan = <<>>
    /\ report = {}

\* ValueError: 422
RefuseInput ==
    /\ pc = "start"
    /\ Refused(engine, day)
    /\ pc' = "invalid"
    /\ UNCHANGED <<day, engine, status, minimum, plan, report>>

BuildModel ==
    /\ pc = "start"
    /\ ~ Refused(engine, day)
    /\ pc' = "coverage"
    /\ UNCHANGED <<day, engine, status, minimum, plan, report>>

\* CP-SAT returns the best assignment, or some assignment at its time limit.
Answers(round, isBest) ==
    \E answer \in {"OPTIMAL", "FEASIBLE"} :
        /\ answer = "OPTIMAL" => isBest
        /\ status' = [status EXCEPT ![round] = answer]

CoversMore(g, f) == Cardinality(Uncovered(day, g)) < Cardinality(Uncovered(day, f))

\* (with a bug: the second round has no objective)
NothingCostsLess(g, f) == FALSE

CostsLess(g, f) == SoftPenalty(day, g) < SoftPenalty(day, f)

SolveCoverage(f) ==
    /\ pc = "coverage"
    /\ Answers(1, \A g \in Assignments(engine, day) : ~ CoversMore(g, f))
    /\ minimum' = Cardinality(Uncovered(day, f))
    /\ pc' = "penalty"
    /\ UNCHANGED <<day, engine, plan, report>>

\* (with a bug: the coverage of the first round is not required of the second)
AnyCoverage == Assignments(engine, day)

SameCoverage == {f \in Assignments(engine, day) : Cardinality(Uncovered(day, f)) = minimum}

SolvePenalty(f) ==
    /\ pc = "penalty"
    /\ f \in SameCoverage
    /\ Answers(2, \A g \in SameCoverage : ~ CostsLess(g, f))
    /\ plan' = f
    /\ pc' = "solved"
    /\ UNCHANGED <<day, engine, minimum, report>>

\* RuntimeError: no status but OPTIMAL and FEASIBLE is expected
TimeOut ==
    /\ pc \in {"coverage", "penalty"}
    /\ status' = [status EXCEPT ![IF pc = "coverage" THEN 1 ELSE 2] = "UNKNOWN"]
    /\ pc' = "failed"
    /\ UNCHANGED <<day, engine, minimum, plan, report>>

\* (with a bug: GLOBAL_CONFLICT is not looked at)
NeverTaken(teacher, slot) == FALSE

TakenInSlot(teacher, slot) == \E n \in Needs(day) : n.slot = slot /\ plan[n] = teacher

Usable(need, t) ==
    IF MissesSpecialty(need, t) THEN "WARNING_ALTERNATIVE" ELSE "VALID_ALTERNATIVE"

Assess(need, t) ==
    CASE ~ IsCandidate(engine, day, need, t) -> "REJECTED"
      [] plan[need] = t.id                   -> "SELECTED"
      [] OTHER -> IF TakenInSlot(t.id, need.slot) THEN "REJECTED" ELSE Usable(need, t)

Report ==
    /\ pc = "solved"
    /\ report' = {[need |-> n, teacher |-> t.id, status |-> Assess(n, t)] :
                     n \in Needs(day), t \in day.teachers}
    /\ pc' = "reported"
    /\ UNCHANGED <<day, engine, status, minimum, plan>>

Next ==
    \/ RefuseInput \/ BuildModel
    \/ /\ pc \in {"coverage", "penalty"}
       /\ \E f \in Assignments(engine, day) : SolveCoverage(f) \/ SolvePenalty(f)
    \/ TimeOut
    \/ Report

Spec == Init /\ [][Next]_vars

-----------------------------------------------------------------------------
Optimal     == status[1] = "OPTIMAL" /\ status[2] = "OPTIMAL"
Locked(n)   == \E i \in DOMAIN day.locked : day.locked[i].activity = n.id
Alternative == {"VALID_ALTERNATIVE", "WARNING_ALTERNATIVE"}

\* Whatever CP-SAT answered in time, the day can be held: nobody is in two places
\* at a time, no substitute is absent, and what a substitute leaves for a class
\* is not another class.
DayCanBeHeld ==
    pc = "reported" =>
        \A n \in Covered(day, plan) :
            /\ ~ Absent(day, plan[n], n.slot)
            /\ \A m \in Needs(day) : m.slot = n.slot /\ plan[m] = plan[n] => m = n
            /\ \A a \in day.activities :
                  a.teacher = plan[n] /\ a.slot = n.slot => ~ RequiresGroupCoverage(a)

\* A decision the planner has locked is in every plan that is computed.
LocksSurvive ==
    pc = "reported" =>
        \A i \in DOMAIN day.locked :
            \E n \in Needs(day) : /\ n.id = day.locked[i].activity
                                  /\ plan[n] = day.locked[i].teacher

\* A day that is not refused has a solution: CP-SAT never finds the model
\* infeasible, which solve would not turn into an answer.
NeverInfeasible ==
    /\ pc = "coverage" => Assignments(engine, day) # {}
    /\ pc = "penalty"  => SameCoverage # {}

\* What is offered as an alternative can be locked in, in place of a lock of its
\* own lesson: the next calculation does not refuse it and covers as much.
Locking(n, teacher) ==
    LET lock  == [activity |-> n.id, teacher |-> teacher]
        locks == IF Locked(n)
                 THEN [i \in DOMAIN day.locked |->
                         IF day.locked[i].activity = n.id THEN lock ELSE day.locked[i]]
                 ELSE Append(day.locked, lock)
    IN  [teachers |-> day.teachers, activities |-> day.activities,
         absences |-> day.absences, locked |-> locks]

AlternativesCanBeLocked ==
    \A a \in report : a.status \in Alternative =>
        LET next == Locking(a.need, a.teacher)
        IN  /\ ~ Refused(engine, next)
            /\ FewestUncovered(engine, next) <= minimum

\* A lesson is only left uncovered when nobody is offered for it, provided that
\* CP-SAT has finished its first round.
NobodyIdleForUncovered ==
    pc = "reported" /\ status[1] = "OPTIMAL" =>
        \A a \in report : a.need \in Uncovered(day, plan) => a.status = "REJECTED"

\* In a finished plan no alternative is better: a substitute without the specialty
\* is chosen only where every qualified one on offer has an even higher penalty.
SelectedIsCheapest ==
    pc = "reported" /\ Optimal =>
        \A n \in Covered(day, plan) : \A a \in report :
            a.need = n /\ a.status \in Alternative /\ ~ Locked(n) =>
                Penalty(day, n, Teacher(day, plan[n])) <= Penalty(day, n, Teacher(day, a.teacher))

\* The flexible engine never covers less than the strict one could.
FlexibleCoversMore ==
    pc = "reported" /\ engine = "flexible" /\ status[1] = "OPTIMAL" =>
        \A f \in Assignments("strict", day) :
            Cardinality(Uncovered(day, plan)) <= Cardinality(Uncovered(day, f))

\* Where a lesson is reported as uncovered, no assignment covers more lessons:
\* "no compatible simultaneous coverage exists without violating hard constraints".
UncoveredIsUnavoidable ==
    pc = "reported" /\ Uncovered(day, plan) # {} => minimum = FewestUncovered(engine, day)
=============================================================================
