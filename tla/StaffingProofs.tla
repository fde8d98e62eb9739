--------------------------- MODULE StaffingProofs ---------------------------
(* What holds of the staffing optimizer for inputs of any size and whatever   *)
(* CP-SAT answers within its time limit.                                      *)
EXTENDS Staffing, SumProofs, FunctionTheorems

\* The minutes a teacher is given.
Load(p, c, t) == TotalMinutes(Lessons(p, c, t)) + TotalMinutes(Duties(p, c, t))

\* What is being reported comes from valid input and satisfies the model.
ChoiceInv ==
    pc \in {"solved", "reported"} => Validates(input) /\ choice \in Allocations(input)

\* OPTIMAL is a choice that none of the others beats, INFEASIBLE is that there is none.
StatusInv ==
    /\ pc \in {"solved", "reported"} /\ status = "OPTIMAL" =>
          \A d \in Allocations(input) : Objective(input, choice) <= Objective(input, d)
    /\ status = "INFEASIBLE" => Validates(input) /\ Allocations(input) = {}

\* The lists of the answer are those of the choice.
ReportInv ==
    pc = "reported" =>
        /\ report.teaching = {q \in input.requirements \X input.teachers :
                                 choice.teaches[q[1]] = q[2].id}
        /\ report.duties = {q \in input.activities \X input.teachers :
                               q[2].id \in choice.staff[q[1]]}
        /\ report.tutors = {q \in input.groups \X input.teachers :
                               choice.tutor[q[1]] = q[2].id}
        /\ report.uncovered = {r \in input.requirements : choice.teaches[r] = Nobody}
        /\ report.short = {a \in input.activities : Missing(choice, a) > 0}
        /\ report.untutored = {g \in input.groups : choice.tutor[g] = Nobody}
        /\ \A t \in input.teachers : report.taken[t] = Load(input, choice, t)
        /\ \A t \in input.teachers :
              report.remaining[t] = Max({0, t.minutes - Load(input, choice, t)})

StaffingInv == ChoiceInv /\ StatusInv /\ ReportInv

LEMMA StaffingInit == Init => StaffingInv
  BY DEF Init, StaffingInv, ChoiceInv, StatusInv, ReportInv

\* Adding up from the lists that are returned gives the load of the choice.
LEMMA LoadFromLists ==
    ASSUME NEW p, NEW c, NEW t \in p.teachers
    PROVE  LET teaching == {q \in p.requirements \X p.teachers : c.teaches[q[1]] = q[2].id}
               duties   == {q \in p.activities \X p.teachers : q[2].id \in c.staff[q[1]]}
           IN  /\ {pair[1] : pair \in {q \in teaching : q[2] = t}} = Lessons(p, c, t)
               /\ {pair[1] : pair \in {q \in duties : q[2] = t}} = Duties(p, c, t)
<1> DEFINE teaching == {q \in p.requirements \X p.teachers : c.teaches[q[1]] = q[2].id}
           duties   == {q \in p.activities \X p.teachers : q[2].id \in c.staff[q[1]]}
<1>1. ASSUME NEW r \in Lessons(p, c, t)
      PROVE  r \in {pair[1] : pair \in {q \in teaching : q[2] = t}}
  <2>1. <<r, t>> \in teaching
      BY DEF Lessons
  <2> HIDE DEF teaching
  <2> QED
      BY <2>1
<1>2. ASSUME NEW a \in Duties(p, c, t)
      PROVE  a \in {pair[1] : pair \in {q \in duties : q[2] = t}}
  <2>1. <<a, t>> \in duties
      BY DEF Duties
  <2> HIDE DEF duties
  <2> QED
      BY <2>1
<1>3. {pair[1] : pair \in {q \in teaching : q[2] = t}} \subseteq Lessons(p, c, t)
    BY DEF Lessons
<1>4. {pair[1] : pair \in {q \in duties : q[2] = t}} \subseteq Duties(p, c, t)
    BY DEF Duties
<1> QED
    BY <1>1, <1>2, <1>3, <1>4

LEMMA ReportIsRight == ChoiceInv /\ Report => ReportInv'
<1> SUFFICES ASSUME Report PROVE ReportInv'
    OBVIOUS
<1>1. input' = input /\ choice' = choice
    BY DEF Report
<1>2. \A t \in input.teachers :
         /\ report'.taken[t] = Load(input, choice, t)
         /\ report'.remaining[t] = Max({0, t.minutes - Load(input, choice, t)})
  <2> TAKE t \in input.teachers
  <2> QED
      BY LoadFromLists DEF Report, Load
<1>3. \A a : Missing(choice, a)' = Missing(choice, a)
    BY <1>1 DEF Missing
<1>4. \A t : Load(input, choice, t)' = Load(input, choice, t)
    BY <1>1 DEF Load, Lessons, Duties
<1> QED
    BY <1>1, <1>2, <1>3, <1>4 DEF Report, ReportInv

LEMMA StaffingStep == StaffingInv /\ [Next]_vars => StaffingInv'
<1> SUFFICES ASSUME StaffingInv, [Next]_vars
             PROVE  StaffingInv'
    OBVIOUS
<1> USE DEF StaffingInv
<1>1. CASE RefuseInput
    BY <1>1 DEF RefuseInput, ChoiceInv, StatusInv, ReportInv
<1>2. CASE Solve
  <2>1. /\ pc' = "solved" /\ input' = input /\ Validates(input)
        /\ choice' \in Allocations(input)
        /\ status' \in {"OPTIMAL", "FEASIBLE"}
        /\ status' = "OPTIMAL" =>
              \A d \in Allocations(input) : Objective(input, choice') <= Objective(input, d)
      BY <1>2 DEF Solve
  <2>2. StatusInv'
    <3>1. Objective(input, choice)' = Objective(input, choice')
        BY <2>1
    <3>2. Allocations(input)' = Allocations(input) /\ \A d : Objective(input, d)' = Objective(input, d)
        BY <2>1
    <3> QED
        BY <2>1, <3>1, <3>2 DEF StatusInv
  <2> QED
      BY <2>1, <2>2 DEF ChoiceInv, ReportInv
<1>3. CASE NoSolution
    BY <1>3 DEF NoSolution, ChoiceInv, StatusInv, ReportInv
<1>4. CASE Report
  <2>1. /\ pc = "solved" /\ pc' = "reported" /\ input' = input /\ choice' = choice
        /\ status' = status
      BY <1>4 DEF Report
  <2>2. ChoiceInv' /\ StatusInv'
      BY <2>1 DEF ChoiceInv, StatusInv
  <2> QED
      BY <1>4, <2>2, ReportIsRight
<1>5. CASE UNCHANGED vars
  <2>1. \A t : Load(input, choice, t)' = Load(input, choice, t)
      BY <1>5 DEF vars, Load, Lessons, Duties
  <2> QED
      BY <1>5, <2>1 DEF vars, ChoiceInv, StatusInv, ReportInv, Missing
<1> QED
    BY <1>1, <1>2, <1>3, <1>4, <1>5 DEF Next

\* The answer is made of a choice the model allows, of valid input.
THEOREM AnswerIsAllowed == Spec => []StaffingInv
  BY StaffingInit, StaffingStep, PTL DEF Spec

-----------------------------------------------------------------------------
\* Fixed decisions are kept: validation guarantees that a fixed teacher or group
\* is there, and the model that the decision is part of the choice.
LEMMA InvKeepsFixed == StaffingInv => FixedDecisionsKept
<1> SUFFICES ASSUME StaffingInv, pc = "reported"
             PROVE  FixedDecisionsKept
    BY DEF FixedDecisionsKept
<1>1. Validates(input) /\ KeepsFixed(input, choice)
    BY DEF StaffingInv, ChoiceInv, Allocations
<1>2. ASSUME NEW r \in input.requirements, r.fixed # Nobody
      PROVE  \E t \in input.teachers : t.id = r.fixed /\ <<r, t>> \in report.teaching
  <2>1. PICK t \in input.teachers : t.id = r.fixed
      BY <1>1, <1>2 DEF Validates, Ids
  <2>2. choice.teaches[r] = t.id
      BY <1>1, <1>2, <2>1 DEF KeepsFixed
  <2> QED
      BY <2>1, <2>2 DEF StaffingInv, ReportInv
<1>3. ASSUME NEW a \in input.activities, NEW t \in input.teachers, t.id \in a.fixed
      PROVE  <<a, t>> \in report.duties
  <2>1. t.id \in choice.staff[a]
      BY <1>1, <1>3 DEF KeepsFixed
  <2> QED
      BY <2>1 DEF StaffingInv, ReportInv
<1>4. ASSUME NEW t \in input.teachers, t.fixedGroup # NoGroup
      PROVE  <<t.fixedGroup, t>> \in report.tutors
  <2>1. t.fixedGroup \in input.groups
      BY <1>1, <1>4 DEF Validates
  <2>2. choice.tutor[t.fixedGroup] = t.id
      BY <1>1, <1>4 DEF KeepsFixed
  <2> QED
      BY <2>1, <2>2 DEF StaffingInv, ReportInv
<1> QED
    BY <1>2, <1>3, <1>4 DEF FixedDecisionsKept

\* Fixed decisions are in every answer.
THEOREM FixedDecisionsAreKept == Spec => []FixedDecisionsKept
  BY AnswerIsAllowed, InvKeepsFixed, PTL

-----------------------------------------------------------------------------
(* A complete answer                                                          *)

\* The places of an activity are at least the staff asked for.
LEMMA SlotsForStaff ==
    ASSUME NEW a, a.staff \in Int, Cardinality(a.fixed) \in Int
    PROVE  Slots(a) \in Int /\ Slots(a) >= a.staff
<1> DEFINE S == {a.staff, Cardinality(a.fixed)}
<1>1. \E x \in S : \A y \in S : x >= y
    BY DEF S
<1>2. Max(S) \in S /\ \A y \in S : Max(S) >= y
    BY <1>1 DEF Max
<1> QED
    BY <1>2 DEF Slots

\* An answer has as many participants in an activity as the choice.
LEMMA DutiesOfActivity ==
    ASSUME NEW a \in input.activities, NEW duties,
           duties = {q \in input.activities \X input.teachers : q[2].id \in choice.staff[q[1]]},
           choice.staff[a] \in SUBSET Ids(input), UniqueIds(input.teachers),
           IsFiniteSet(choice.staff[a])
    PROVE  Cardinality({q \in duties : q[1] = a}) = Cardinality(choice.staff[a])
<1> DEFINE D == {q \in duties : q[1] = a}
           ToId == [q \in D |-> q[2].id]
<1>1. \A q \in D : /\ q[2] \in input.teachers /\ q = <<a, q[2]>>
                   /\ q[2].id \in choice.staff[a]
    OBVIOUS
<1>2. ToId \in [D -> choice.staff[a]]
    BY <1>1
<1>3. \A q, other \in D : ToId[q] = ToId[other] => q = other
    BY <1>1 DEF UniqueIds
<1>4. ASSUME NEW id \in choice.staff[a]
      PROVE  \E q \in D : ToId[q] = id
  <2>1. PICK t \in input.teachers : t.id = id
      BY DEF Ids
  <2>2. <<a, t>> \in D
      BY <2>1
  <2> QED
      BY <2>1, <2>2
<1> HIDE DEF ToId, D
<1>5. ToId \in Bijection(D, choice.staff[a])
    BY <1>2, <1>3, <1>4 DEF Bijection, Injection, Surjection, IsInjective
<1>6. IsFiniteSet(D) /\ Cardinality(D) <= Cardinality(choice.staff[a])
      /\ Cardinality(D) = Cardinality(choice.staff[a])
    BY <1>5, FS_Injection DEF Bijection
<1> QED
    BY <1>6 DEF D

LEMMA InvIsComplete == StaffingInv /\ input \in Inputs => CompleteIsComplete
<1> SUFFICES ASSUME StaffingInv, input \in Inputs, pc = "reported",
                    report.uncovered = {}, report.short = {}, report.untutored = {}
             PROVE  CompleteIsComplete
    BY DEF CompleteIsComplete
<1>1. Validates(input) /\ choice \in Allocations(input) /\ ReportInv
    BY DEF StaffingInv, ChoiceInv
<1>2. /\ UniqueIds(input.teachers)
      /\ \A t \in input.teachers : t.id # Nobody
      /\ IsFiniteSet(Ids(input))
  <2>1. IsFiniteSet(Ids(input))
    <3> DEFINE ToId == [t \in input.teachers |-> t.id]
    <3>1. ToId \in Surjection(input.teachers, Ids(input))
        BY DEF Surjection, Ids
    <3> QED
        BY <3>1, FS_Surjection, InputsAssumption
  <2> QED
      BY <1>1, <2>1, InputsAssumption DEF Validates
<1>3. ASSUME NEW r \in input.requirements
      PROVE  \E t \in input.teachers :
                CanCover(t, r) /\ {q \in report.teaching : q[1] = r} = {<<r, t>>}
  <2>1. choice.teaches[r] # Nobody
      BY <1>1 DEF ReportInv
  <2>2. PICK t \in input.teachers : t.id = choice.teaches[r] /\ CanCover(t, r)
      BY <1>1, <2>1 DEF Allocations
  <2>3. {q \in report.teaching : q[1] = r} = {<<r, t>>}
      BY <1>1, <1>2, <2>2 DEF ReportInv, UniqueIds
  <2> QED
      BY <2>2, <2>3
<1>4. ASSUME NEW a \in input.activities
      PROVE  Cardinality({q \in report.duties : q[1] = a}) >= a.staff
  <2>1. choice.staff[a] \in SUBSET Ids(input) /\ a.fixed \subseteq choice.staff[a]
      BY <1>1 DEF Allocations, KeepsFixed
  <2>2. /\ IsFiniteSet(choice.staff[a]) /\ IsFiniteSet(a.fixed)
        /\ Cardinality(choice.staff[a]) \in Nat /\ Cardinality(a.fixed) \in Nat
      BY <1>2, <2>1, FS_Subset, FS_CardinalityType
  <2>3. Slots(a) \in Int /\ Slots(a) >= a.staff /\ a.staff \in Int
      BY <2>2, SlotsForStaff, InputsAssumption
  <2>4. ~ (Missing(choice, a) > 0)
      BY <1>1 DEF ReportInv
  <2>5. Cardinality(choice.staff[a]) >= a.staff
      BY <2>2, <2>3, <2>4 DEF Missing
  <2>6. Cardinality({q \in report.duties : q[1] = a}) = Cardinality(choice.staff[a])
      BY <1>1, <1>2, <2>1, <2>2, DutiesOfActivity DEF ReportInv
  <2> QED
      BY <2>5, <2>6
<1>5. ASSUME NEW g \in input.groups
      PROVE  \E t \in input.teachers : {q \in report.tutors : q[1] = g \/ q[2] = t} = {<<g, t>>}
  <2>1. choice.tutor[g] # Nobody
      BY <1>1 DEF ReportInv
  <2>2. PICK t \in input.teachers : t.id = choice.tutor[g]
      BY <1>1, <2>1 DEF Allocations
  <2>3. \A q \in report.tutors : /\ q \in input.groups \X input.teachers
                                 /\ choice.tutor[q[1]] = q[2].id
      BY <1>1 DEF ReportInv
  <2>4. \A h \in input.groups : choice.tutor[h] = t.id => h = g
      BY <1>1, <1>2, <2>2 DEF Allocations, OneGroupEach
  <2>5. \A q \in report.tutors : q[1] = g \/ q[2] = t => q = <<g, t>>
      BY <1>2, <2>2, <2>3, <2>4 DEF UniqueIds
  <2>6. <<g, t>> \in report.tutors
      BY <1>1, <2>2 DEF ReportInv
  <2> QED
      BY <2>5, <2>6
<1> QED
    BY <1>3, <1>4, <1>5 DEF CompleteIsComplete

\* Every variable of the staffing optimizer keeps its type, and an answer is
\* reported with the statuses OPTIMAL and FEASIBLE only.
THEOREM StaffingIsTyped == Spec => []TypeOK
<1>1. Init => TypeOK
    BY DEF Init, TypeOK
<1>2. TypeOK /\ [Next]_vars => TypeOK'
  <2> SUFFICES ASSUME TypeOK, [Next]_vars PROVE TypeOK'
      OBVIOUS
  <2>1. CASE RefuseInput
      BY <2>1 DEF RefuseInput, TypeOK
  <2>2. CASE Solve
    <3>1. pc' = "solved" /\ input' = input
        BY <2>2 DEF Solve
    <3>2. status' \in {"OPTIMAL", "FEASIBLE"}
        BY <2>2 DEF Solve
    <3> QED
        BY <3>1, <3>2 DEF TypeOK
  <2>3. CASE NoSolution
      BY <2>3 DEF NoSolution, TypeOK
  <2>4. CASE Report
    <3>1. pc = "solved" /\ pc' = "reported" /\ UNCHANGED <<input, status>>
        BY <2>4 DEF Report
    <3> QED
        BY <3>1 DEF TypeOK
  <2>5. CASE UNCHANGED vars
      BY <2>5 DEF vars, TypeOK
  <2> QED
      BY <2>1, <2>2, <2>3, <2>4, <2>5 DEF Next
<1> QED
    BY <1>1, <1>2, PTL DEF Spec

\* An answer without open lessons, places or tutors is complete.
THEOREM CompleteAnswersAreComplete == Spec => []CompleteIsComplete
<1>1. StaffingInv /\ TypeOK => CompleteIsComplete
    BY InvIsComplete DEF TypeOK
<1> QED
    BY <1>1, AnswerIsAllowed, StaffingIsTyped, PTL

-----------------------------------------------------------------------------
(* Minutes add up                                                             *)

LEMMA TotalIsSum == \A S : TotalMinutes(S) = SumFunctionOnSet([x \in S |-> x.minutes], S)
  BY DEF TotalMinutes, SumFunction

LEMMA TotalType ==
    ASSUME NEW S, IsFiniteSet(S), \A x \in S : x.minutes \in Int
    PROVE  TotalMinutes(S) \in Int
<1> DEFINE f == [x \in S |-> x.minutes]
<1>1. \A x \in S : f[x] \in Int
    OBVIOUS
<1> HIDE DEF f
<1>2. SumFunctionOnSet(f, S) \in Int
    BY <1>1, SumType
<1> QED
    BY <1>2, TotalIsSum DEF f

LEMMA TotalAdds ==
    ASSUME NEW S, IsFiniteSet(S), NEW x, x \notin S, \A y \in S \cup {x} : y.minutes \in Int
    PROVE  TotalMinutes(S \cup {x}) = x.minutes + TotalMinutes(S)
<1> DEFINE T == S \cup {x}
           f == [y \in S |-> y.minutes]
           g == [y \in T |-> y.minutes]
<1>1. /\ \A y \in T : g[y] \in Int
      /\ \A y \in S : g[y] = f[y]
      /\ g[x] = x.minutes
    OBVIOUS
<1>2. TotalMinutes(T) = SumFunctionOnSet(g, T) /\ TotalMinutes(S) = SumFunctionOnSet(f, S)
    BY TotalIsSum
<1> HIDE DEF f, g
<1>3. SumFunctionOnSet(g, T) = g[x] + SumFunctionOnSet(g, S)
    BY <1>1, SumAdds
<1>4. SumFunctionOnSet(g, S) = SumFunctionOnSet(f, S)
    BY <1>1, SumSame
<1> QED
    BY <1>1, <1>2, <1>3, <1>4

\* More entries are not fewer minutes.
LEMMA TotalOfPart ==
    ASSUME NEW S, IsFiniteSet(S), NEW T \in SUBSET S, \A x \in S : x.minutes \in Nat
    PROVE  TotalMinutes(T) <= TotalMinutes(S)
<1> DEFINE f == [x \in T |-> x.minutes]
           g == [x \in S |-> x.minutes]
<1>1. /\ \A x \in S : g[x] \in Nat
      /\ \A x \in T : f[x] = g[x]
    OBVIOUS
<1>2. IsFiniteSet(T)
    BY FS_Subset
<1>3. TotalMinutes(T) = SumFunctionOnSet(f, T) /\ TotalMinutes(S) = SumFunctionOnSet(g, S)
    BY TotalIsSum
<1> HIDE DEF f, g
<1>4. SumFunctionOnSet(f, T) = SumFunctionOnSet(g, T)
    BY <1>1, <1>2, SumSame
<1>5. SumFunctionOnSet(g, T) <= SumFunctionOnSet(g, S)
    BY <1>1, SumOfPart
<1> QED
    BY <1>3, <1>4, <1>5

LEMMA TotalOfNone == TotalMinutes({}) = 0
<1> DEFINE f == [x \in {} |-> x.minutes]
<1>1. TotalMinutes({}) = SumFunctionOnSet(f, {})
    BY TotalIsSum
<1> HIDE DEF f
<1> QED
    BY <1>1, SumUnfolds, FS_EmptySet

\* The larger of 0 and a number.
LEMMA MaxWithZero ==
    ASSUME NEW n \in Int
    PROVE  Max({0, n}) = IF n >= 0 THEN n ELSE 0
<1>1. \E x \in {0, n} : \A y \in {0, n} : x >= y
    OBVIOUS
<1>2. Max({0, n}) \in {0, n} /\ \A y \in {0, n} : Max({0, n}) >= y
    BY <1>1 DEF Max
<1> QED
    BY <1>2

LEMMA LoadIsInteger ==
    ASSUME NEW p \in Inputs, NEW c, NEW t
    PROVE  /\ IsFiniteSet(Lessons(p, c, t)) /\ IsFiniteSet(Duties(p, c, t))
           /\ TotalMinutes(Lessons(p, c, t)) \in Int /\ TotalMinutes(Duties(p, c, t)) \in Int
<1>1. Lessons(p, c, t) \in SUBSET p.requirements /\ Duties(p, c, t) \in SUBSET p.activities
    BY DEF Lessons, Duties
<1>2. IsFiniteSet(Lessons(p, c, t)) /\ IsFiniteSet(Duties(p, c, t))
    BY <1>1, InputsAssumption, FS_Subset
<1>3. /\ \A x \in Lessons(p, c, t) : x.minutes \in Int
      /\ \A x \in Duties(p, c, t) : x.minutes \in Int
    BY <1>1, InputsAssumption
<1> QED
    BY <1>2, <1>3, TotalType

\* Nobody is overloaded, so nothing is cut off where the rest is reported.
LEMMA InvAddsUp ==
    ASSUME StaffingInv, input \in Inputs
    PROVE  LoadsAddUp
<1> SUFFICES ASSUME pc = "reported", NEW t \in input.teachers
             PROVE  report.taken[t] + report.remaining[t] = t.minutes
    BY DEF LoadsAddUp
<1> DEFINE load == Load(input, choice, t)
<1>1. report.taken[t] = load /\ report.remaining[t] = Max({0, t.minutes - load})
    BY DEF StaffingInv, ReportInv
<1>2. load \in Int /\ t.minutes \in Int
    BY LoadIsInteger, InputsAssumption DEF Load
<1>3. load <= t.minutes
    BY DEF StaffingInv, ChoiceInv, Allocations, Fits, Load
<1> HIDE DEF load
<1>4. Max({0, t.minutes - load}) = t.minutes - load
    BY <1>2, <1>3, MaxWithZero
<1> QED
    BY <1>1, <1>2, <1>4

\* For every teacher, what the answer gives and what it says remains is what there is.
THEOREM LoadsAlwaysAddUp == Spec => []LoadsAddUp
<1>1. StaffingInv /\ TypeOK => LoadsAddUp
    BY InvAddsUp DEF TypeOK
<1> QED
    BY <1>1, AnswerIsAllowed, StaffingIsTyped, PTL

-----------------------------------------------------------------------------
(* When there is no answer                                                    *)

\* The places of an activity are at least the ones that are fixed.
LEMMA SlotsForFixed ==
    ASSUME NEW a, a.staff \in Int, Cardinality(a.fixed) \in Int
    PROVE  Slots(a) \in Int /\ Slots(a) >= Cardinality(a.fixed)
<1> DEFINE S == {a.staff, Cardinality(a.fixed)}
<1>1. \E x \in S : \A y \in S : x >= y
    BY DEF S
<1>2. Max(S) \in S /\ \A y \in S : Max(S) >= y
    BY <1>1 DEF Max
<1> QED
    BY <1>2 DEF Slots

LEMMA IdsAreFinite ==
    ASSUME NEW p \in Inputs
    PROVE  IsFiniteSet(Ids(p))
<1> DEFINE ToId == [t \in p.teachers |-> t.id]
<1>1. ToId \in Surjection(p.teachers, Ids(p))
    BY DEF Surjection, Ids
<1> QED
    BY <1>1, FS_Surjection, InputsAssumption

\* The fixed decisions alone are a choice unless they exclude each other.
LEMMA FixedAreAllowed ==
    ASSUME NEW p \in Inputs, Validates(p),
           \A t \in p.teachers :
              TotalMinutes({r \in p.requirements : r.fixed = t.id})
              + TotalMinutes({a \in p.activities : t.id \in a.fixed}) <= t.minutes,
           \A s, t \in p.teachers :
              s # t /\ s.fixedGroup # NoGroup => s.fixedGroup # t.fixedGroup
    PROVE  Allocations(p) # {}
<1> DEFINE Tutors(g) == {t \in p.teachers : t.fixedGroup = g /\ g # NoGroup}
           teaches == [r \in p.requirements |-> r.fixed]
           staff   == [a \in p.activities |-> a.fixed]
           tutor   == [g \in p.groups |->
                         IF Tutors(g) = {} THEN Nobody ELSE (CHOOSE t \in Tutors(g) : TRUE).id]
           c == [teaches |-> teaches, staff |-> staff, tutor |-> tutor]
<1>1. /\ UniqueIds(p.teachers)
      /\ \A t \in p.teachers : t.id # Nobody /\ t.fixedGroup \in p.groups \cup {NoGroup}
      /\ \A r \in p.requirements : r.fixed \in Ids(p) \cup {Nobody}
      /\ \A a \in p.activities : a.fixed \in SUBSET Ids(p)
    BY InputsAssumption DEF Validates
<1>2. c.teaches = teaches /\ c.staff = staff /\ c.tutor = tutor
    OBVIOUS
<1>3. ASSUME NEW g \in p.groups, NEW t \in Tutors(g)
      PROVE  tutor[g] = t.id
  <2>1. \A u \in Tutors(g) : u = t
      OBVIOUS
  <2> QED
      BY <2>1
<1>4. \A g \in p.groups : tutor[g] # Nobody => \E t \in Tutors(g) : tutor[g] = t.id
    OBVIOUS
<1>5. tutor \in [p.groups -> Ids(p) \cup {Nobody}]
  <2>1. \A g \in p.groups : tutor[g] \in Ids(p) \cup {Nobody}
    <3> HIDE DEF tutor
    <3> QED
        BY <1>4 DEF Ids
  <2> QED
      BY <2>1
<1>6. teaches \in [p.requirements -> Ids(p) \cup {Nobody}] /\ staff \in [p.activities -> SUBSET Ids(p)]
    BY <1>1
<1>7. /\ \A r \in p.requirements : teaches[r] = r.fixed
      /\ \A a \in p.activities : staff[a] = a.fixed
    OBVIOUS
<1> HIDE DEF teaches, staff, tutor
<1>8. c \in [teaches: [p.requirements -> Ids(p) \cup {Nobody}],
             staff: [p.activities -> SUBSET Ids(p)],
             tutor: [p.groups -> Ids(p) \cup {Nobody}]]
    BY <1>5, <1>6
<1> HIDE DEF c
<1>9. KeepsFixed(p, c)
  <2>1. ASSUME NEW t \in p.teachers, t.fixedGroup # NoGroup
        PROVE  c.tutor[t.fixedGroup] = t.id
      BY <1>1, <1>2, <1>3, <2>1
  <2> QED
      BY <1>2, <1>7, <2>1 DEF KeepsFixed
<1>10. \A r \in p.requirements :
          c.teaches[r] # Nobody => \E t \in p.teachers : t.id = c.teaches[r] /\ CanCover(t, r)
    BY <1>1, <1>2, <1>7 DEF CanCover, Ids
<1>11. ASSUME NEW a \in p.activities
       PROVE  Staffed(p, c, a)
  <2>1. IsFiniteSet(a.fixed) /\ Cardinality(a.fixed) \in Nat
      BY <1>1, IdsAreFinite, FS_Subset, FS_CardinalityType
  <2>2. Slots(a) \in Int /\ Slots(a) >= Cardinality(a.fixed)
      BY <2>1, SlotsForFixed, InputsAssumption
  <2>3. c.staff[a] = a.fixed
      BY <1>2, <1>7
  <2> QED
      BY <2>1, <2>2, <2>3 DEF Staffed, Missing
<1>12. \A g \in p.groups :
          c.tutor[g] # Nobody => \E t \in p.teachers : t.id = c.tutor[g] /\ CanTutor(t, g)
    BY <1>2, <1>4 DEF CanTutor
<1>13. OneGroupEach(p, c)
    BY <1>1, <1>2, <1>4 DEF OneGroupEach, UniqueIds
<1>14. ASSUME NEW t \in p.teachers
       PROVE  Fits(p, c, t)
  <2>1. Lessons(p, c, t) = {r \in p.requirements : r.fixed = t.id}
      BY <1>2, <1>7 DEF Lessons
  <2>2. Duties(p, c, t) = {a \in p.activities : t.id \in a.fixed}
      BY <1>2, <1>7 DEF Duties
  <2> QED
      BY <2>1, <2>2 DEF Fits
<1> QED
    BY <1>8, <1>9, <1>10, <1>11, <1>12, <1>13, <1>14 DEF Allocations

LEMMA InvInfeasible ==
    ASSUME StaffingInv, input \in Inputs
    PROVE  InfeasibleOnlyIfFixed
<1> SUFFICES ASSUME status = "INFEASIBLE",
                    \A t \in input.teachers : ~ (FixedMinutes(t) > t.minutes),
                    \A s, t \in input.teachers :
                       s # t /\ s.fixedGroup # NoGroup => s.fixedGroup # t.fixedGroup
             PROVE  FALSE
    BY DEF InfeasibleOnlyIfFixed
<1>1. Validates(input) /\ Allocations(input) = {}
    BY DEF StaffingInv, StatusInv
<1>2. ASSUME NEW t \in input.teachers
      PROVE  FixedMinutes(t) <= t.minutes
  <2> DEFINE R == {r \in input.requirements : r.fixed = t.id}
             A == {a \in input.activities : t.id \in a.fixed}
  <2>1. IsFiniteSet(R) /\ IsFiniteSet(A)
      BY InputsAssumption, FS_Subset
  <2>2. TotalMinutes(R) \in Int /\ TotalMinutes(A) \in Int /\ t.minutes \in Int
      BY <2>1, TotalType, InputsAssumption
  <2>3. FixedMinutes(t) = TotalMinutes(R) + TotalMinutes(A)
      BY DEF FixedMinutes
  <2>4. ~ (FixedMinutes(t) > t.minutes)
      OBVIOUS
  <2> HIDE DEF R, A
  <2> QED
      BY <2>2, <2>3, <2>4
<1> QED
    BY <1>1, <1>2, FixedAreAllowed DEF FixedMinutes

\* Valid input has no answer only if its fixed decisions exclude each other.
THEOREM OnlyFixedDecisionsExclude == Spec => []InfeasibleOnlyIfFixed
<1>1. StaffingInv /\ TypeOK => InfeasibleOnlyIfFixed
    BY InvInfeasible DEF TypeOK
<1> QED
    BY <1>1, AnswerIsAllowed, StaffingIsTyped, PTL

-----------------------------------------------------------------------------
(* What a choice costs                                                        *)

\* The parts of the costs that do not depend on the choice.
DutyBase(a, t) ==
    IF t.id \in a.fixed THEN 0
    ELSE CASE t.role = "especialista" -> 350 [] t.role = "mixto" -> 80 [] OTHER -> 0

RoleBase(t) == CASE t.role = "especialista" -> 18000 [] t.role = "mixto" -> 3000 [] OTHER -> 0

PreferenceBase(t) ==
    CASE t.preference = "preferente" -> 0
      [] t.preference = "disponible" -> 600
      [] t.preference = "evitar"     -> 12000
      [] t.preference = "no"         -> 100000

LEMMA DutyBaseType ==
    ASSUME NEW a, NEW t
    PROVE  DutyBase(a, t) \in Int /\ DutyBase(a, t) <= 350
<1>1. DutyBase(a, t) \in {0, 80, 350}
    BY DEF DutyBase
<1> QED
    BY <1>1

LEMMA RoleBaseType ==
    ASSUME NEW t
    PROVE  RoleBase(t) \in Int /\ RoleBase(t) <= 18000
<1>1. RoleBase(t) \in {0, 3000, 18000}
    BY DEF RoleBase
<1> QED
    BY <1>1

LEMMA PreferenceBaseType ==
    ASSUME NEW p \in Inputs, NEW t \in p.teachers
    PROVE  /\ PreferenceBase(t) \in Int /\ PreferenceBase(t) <= 100000
           /\ t.preference # "no" => PreferenceBase(t) <= 12000
<1>1. t.preference \in {"preferente", "disponible", "evitar", "no"}
    BY InputsAssumption
<1>2. CASE t.preference = "no"
  <2>1. PreferenceBase(t) = 100000
      BY <1>2 DEF PreferenceBase
  <2> QED
      BY <1>2, <2>1
<1>3. CASE t.preference # "no"
  <2>1. PreferenceBase(t) \in {0, 600, 12000}
      BY <1>1, <1>3 DEF PreferenceBase
  <2> QED
      BY <2>1
<1> QED
    BY <1>2, <1>3

LEMMA DutyCostParts ==
    ASSUME NEW p, NEW c, NEW a, NEW t
    PROVE  DutyCost(p, c, a, t) =
              DutyBase(a, t) - 1500 * Cardinality({g \in a.groups : c.tutor[g] = t.id})
              - 500 * Cardinality(a.groups \cap Uses(p, c, t.id))
  BY DEF DutyCost, DutyBase

LEMMA TutorCostParts ==
    ASSUME NEW p, NEW c, NEW t, NEW g
    PROVE  TutorCost(p, c, t, g) =
              RoleBase(t) + PreferenceBase(t) + 40 * Shortfall(p, c, t, g)
              - (IF g \in Uses(p, c, t.id) THEN 2500 ELSE 0)
  BY DEF TutorCost, RoleBase, PreferenceBase

\* A choice for valid input.
IsChoice(p, c) == p \in Inputs /\ Validates(p) /\ c \in Allocations(p)

LEMMA UsesAreFinite ==
    ASSUME NEW p, NEW c, IsChoice(p, c), NEW id
    PROVE  /\ IsFiniteSet(Uses(p, c, id)) /\ Cardinality(Uses(p, c, id)) \in Nat
<1>1. Uses(p, c, id) \in SUBSET p.groups
    BY DEF Uses, IsChoice, Validates
<1> QED
    BY <1>1, InputsAssumption, FS_Subset, FS_CardinalityType DEF IsChoice

LEMMA LessonCostType ==
    ASSUME NEW p, NEW c, IsChoice(p, c), NEW r \in p.requirements
    PROVE  /\ LessonCost(p, c, r) \in Int
           /\ c.teaches[r] = Nobody => LessonCost(p, c, r) = 10000 * r.minutes
           /\ c.teaches[r] # Nobody => LessonCost(p, c, r) <= 35 * r.minutes
<1>1. r.minutes \in Nat /\ Nobody \notin Specialists(p, r.subject)
    BY InputsAssumption DEF IsChoice, Validates, Specialists
<1>2. CASE c.teaches[r] = Nobody
  <2>1. LessonCost(p, c, r) = 10000 * r.minutes
      BY <1>1, <1>2 DEF LessonCost
  <2> QED
      BY <1>1, <1>2, <2>1
<1>3. CASE c.teaches[r] # Nobody
  <2>1. LessonCost(p, c, r) \in {-8 * r.minutes, 0, 35 * r.minutes}
      BY <1>3 DEF LessonCost
  <2>2. /\ -8 * r.minutes \in Int /\ 35 * r.minutes \in Int
        /\ -8 * r.minutes <= 35 * r.minutes /\ 0 <= 35 * r.minutes
      BY <1>1
  <2> QED
      BY <1>3, <2>1, <2>2
<1> QED
    BY <1>2, <1>3

\* What a duty earns twice over only makes it cheaper.
LEMMA TwoBonuses ==
    ASSUME NEW base \in Int, NEW m \in Nat, NEW n \in Nat, NEW cost,
           cost = base - 1500 * m - 500 * n
    PROVE  cost \in Int /\ cost <= base
  OBVIOUS

LEMMA DutyCostType ==
    ASSUME NEW p, NEW c, IsChoice(p, c), NEW a \in p.activities, NEW t
    PROVE  DutyCost(p, c, a, t) \in Int /\ DutyCost(p, c, a, t) <= 350
<1>1. IsFiniteSet(a.groups)
    BY InputsAssumption, FS_Subset DEF IsChoice, Validates
<1>2. /\ Cardinality({g \in a.groups : c.tutor[g] = t.id}) \in Nat
      /\ Cardinality(a.groups \cap Uses(p, c, t.id)) \in Nat
    BY <1>1, FS_Subset, FS_CardinalityType
<1>3. DutyCost(p, c, a, t) =
         DutyBase(a, t) - 1500 * Cardinality({g \in a.groups : c.tutor[g] = t.id})
         - 500 * Cardinality(a.groups \cap Uses(p, c, t.id))
    BY DutyCostParts
<1>4. DutyBase(a, t) \in Int /\ DutyBase(a, t) <= 350
    BY DutyBaseType
<1> QED
    BY <1>2, <1>3, <1>4, TwoBonuses

LEMMA MoreBonuses ==
    ASSUME NEW base \in Int, NEW m \in Nat, NEW n \in Nat, NEW x \in Nat, NEW y \in Nat,
           m <= x, n <= y, NEW c, NEW d,
           c = base - 1500 * m - 500 * n, d = base - 1500 * x - 500 * y
    PROVE  d <= c
  OBVIOUS

\* Being the tutor of more groups, or teaching more of them, makes a duty cheaper.
LEMMA DutyCostFalls ==
    ASSUME NEW p, NEW c, IsChoice(p, c), NEW d, IsChoice(p, d), NEW a \in p.activities, NEW t,
           \A g \in a.groups : c.tutor[g] = t.id => d.tutor[g] = t.id,
           Uses(p, c, t.id) \subseteq Uses(p, d, t.id)
    PROVE  DutyCost(p, d, a, t) <= DutyCost(p, c, a, t)
<1> DEFINE Tc == {g \in a.groups : c.tutor[g] = t.id}
           Td == {g \in a.groups : d.tutor[g] = t.id}
           Uc == a.groups \cap Uses(p, c, t.id)
           Ud == a.groups \cap Uses(p, d, t.id)
<1>1. IsFiniteSet(a.groups)
    BY InputsAssumption, FS_Subset DEF IsChoice, Validates
<1>2. IsFiniteSet(Td) /\ IsFiniteSet(Ud) /\ Tc \in SUBSET Td /\ Uc \in SUBSET Ud
    BY <1>1, FS_Subset
<1>3. /\ DutyCost(p, c, a, t) = DutyBase(a, t) - 1500 * Cardinality(Tc) - 500 * Cardinality(Uc)
      /\ DutyCost(p, d, a, t) = DutyBase(a, t) - 1500 * Cardinality(Td) - 500 * Cardinality(Ud)
    BY DutyCostParts
<1> HIDE DEF Tc, Td, Uc, Ud
<1>4. /\ Cardinality(Tc) \in Nat /\ Cardinality(Td) \in Nat /\ Cardinality(Tc) <= Cardinality(Td)
      /\ Cardinality(Uc) \in Nat /\ Cardinality(Ud) \in Nat /\ Cardinality(Uc) <= Cardinality(Ud)
    BY <1>2, FS_Subset, FS_CardinalityType
<1>5. DutyBase(a, t) \in Int
    BY DutyBaseType
<1> QED
    BY <1>3, <1>4, <1>5, MoreBonuses

LEMMA MissingType ==
    ASSUME NEW p, NEW c, IsChoice(p, c), NEW a \in p.activities
    PROVE  /\ Missing(c, a) \in Nat /\ Slots(a) \in Int
           /\ IsFiniteSet(c.staff[a]) /\ Cardinality(c.staff[a]) \in Nat
           /\ Missing(c, a) = Slots(a) - Cardinality(c.staff[a])
<1>1. c.staff[a] \in SUBSET Ids(p) /\ a.fixed \subseteq c.staff[a] /\ Staffed(p, c, a)
    BY DEF IsChoice, Allocations, KeepsFixed
<1>2. /\ IsFiniteSet(c.staff[a]) /\ IsFiniteSet(a.fixed)
      /\ Cardinality(c.staff[a]) \in Nat /\ Cardinality(a.fixed) \in Nat
    BY <1>1, IdsAreFinite, FS_Subset, FS_CardinalityType DEF IsChoice
<1>3. Slots(a) \in Int
    BY <1>2, SlotsForStaff, InputsAssumption DEF IsChoice
<1> QED
    BY <1>1, <1>2, <1>3 DEF Staffed, Missing

\* What the participants of an activity cost together.
DutyCosts(p, c, a) == SumFunction([t \in Participants(p, c, a) |-> DutyCost(p, c, a, t)])

LEMMA DutyCostsType ==
    ASSUME NEW p, NEW c, IsChoice(p, c), NEW a \in p.activities
    PROVE  DutyCosts(p, c, a) \in Int
<1> DEFINE S == Participants(p, c, a)
           f == [t \in S |-> DutyCost(p, c, a, t)]
<1>1. IsFiniteSet(S)
    BY InputsAssumption, FS_Subset DEF IsChoice, Participants
<1>2. \A t \in S : f[t] \in Int
    BY DutyCostType
<1>3. DutyCosts(p, c, a) = SumFunctionOnSet(f, S)
    BY DEF DutyCosts, SumFunction
<1> HIDE DEF S, f
<1> QED
    BY <1>1, <1>2, <1>3, SumType

LEMMA ActivityCostType ==
    ASSUME NEW p, NEW c, IsChoice(p, c), NEW a \in p.activities
    PROVE  /\ ActivityCost(p, c, a) \in Int /\ DutyCosts(p, c, a) \in Int
           /\ ActivityCost(p, c, a) = 3000 * a.minutes * Missing(c, a) + DutyCosts(p, c, a)
<1>1. ActivityCost(p, c, a) = 3000 * a.minutes * Missing(c, a) + DutyCosts(p, c, a)
    BY DEF ActivityCost, DutyCosts
<1>2. a.minutes \in Int
    BY InputsAssumption DEF IsChoice
<1> QED
    BY <1>1, <1>2, MissingType, DutyCostsType

LEMMA ActivityCostFalls ==
    ASSUME NEW p, NEW c, IsChoice(p, c), NEW d, IsChoice(p, d), NEW a \in p.activities,
           d.staff[a] = c.staff[a],
           \A t \in p.teachers :
              /\ \A g \in a.groups : c.tutor[g] = t.id => d.tutor[g] = t.id
              /\ Uses(p, c, t.id) \subseteq Uses(p, d, t.id)
    PROVE  ActivityCost(p, d, a) <= ActivityCost(p, c, a)
<1> DEFINE S == Participants(p, c, a)
           f == [t \in S |-> DutyCost(p, d, a, t)]
           g == [t \in S |-> DutyCost(p, c, a, t)]
<1>1. IsFiniteSet(S) /\ S \subseteq p.teachers /\ Participants(p, d, a) = S
    BY InputsAssumption, FS_Subset DEF IsChoice, Participants
<1>2. \A t \in S : f[t] \in Int /\ g[t] \in Int /\ f[t] <= g[t]
    BY <1>1, DutyCostType, DutyCostFalls
<1>3. DutyCosts(p, d, a) = SumFunctionOnSet(f, S) /\ DutyCosts(p, c, a) = SumFunctionOnSet(g, S)
    BY <1>1 DEF DutyCosts, SumFunction
<1> HIDE DEF S, f, g
<1>4. DutyCosts(p, d, a) <= DutyCosts(p, c, a)
    BY <1>1, <1>2, <1>3, SumOrder
<1>5. Missing(d, a) = Missing(c, a) /\ Missing(c, a) \in Int /\ a.minutes \in Int
    BY MissingType, InputsAssumption DEF Missing, IsChoice
<1>6. 3000 * a.minutes * Missing(d, a) = 3000 * a.minutes * Missing(c, a)
      /\ 3000 * a.minutes * Missing(c, a) \in Int
    BY <1>5
<1> QED
    BY <1>4, <1>6, ActivityCostType

-----------------------------------------------------------------------------
(* Tutors                                                                     *)

\* A number that is cut off at 0.
LEMMA CutOff ==
    ASSUME NEW n \in Int, n <= 3000, NEW m \in Nat
    PROVE  /\ n - m \in Int
           /\ \A s : s = (IF n - m >= 0 THEN n - m ELSE 0) => s \in Int /\ s <= 3000
  OBVIOUS

LEMMA MinTutorType ==
    ASSUME NEW p \in Inputs, NEW t \in p.teachers
    PROVE  t.minTutor \in Int /\ t.minTutor <= 3000
  BY InputsAssumption

\* The shortfall of one who teaches more is not larger.
LEMMA CutOffFalls ==
    ASSUME NEW n \in Int, NEW x \in Nat, NEW y \in Nat, x <= y, NEW s, NEW u,
           s = (IF n - x >= 0 THEN n - x ELSE 0), u = (IF n - y >= 0 THEN n - y ELSE 0)
    PROVE  s \in Int /\ u \in Int /\ u <= s
  OBVIOUS

LEMMA TutorSum ==
    ASSUME NEW role \in Int, NEW pref \in Int, NEW short \in Int, NEW bonus \in Int, NEW cost,
           cost = role + pref + 40 * short - bonus
    PROVE  /\ cost \in Int
           /\ role <= 18000 /\ pref <= 12000 /\ short <= 3000 /\ bonus >= 0 => cost < 500000
  OBVIOUS

LEMMA TutorSumFalls ==
    ASSUME NEW role \in Int, NEW pref \in Int, NEW x \in Int, NEW y \in Int,
           NEW b \in Int, NEW e \in Int, x >= y, b <= e, NEW c, NEW d,
           c = role + pref + 40 * x - b, d = role + pref + 40 * y - e
    PROVE  d <= c
  OBVIOUS

LEMMA ShortfallParts ==
    ASSUME NEW p, NEW c, IsChoice(p, c), NEW t \in p.teachers, NEW g
    PROVE  /\ Shortfall(p, c, t, g) =
                 IF t.minTutor - TotalMinutes({r \in Lessons(p, c, t) : r.group = g}) >= 0
                 THEN t.minTutor - TotalMinutes({r \in Lessons(p, c, t) : r.group = g})
                 ELSE 0
           /\ TotalMinutes({r \in Lessons(p, c, t) : r.group = g}) \in Nat
<1> DEFINE S == {r \in Lessons(p, c, t) : r.group = g}
<1>1. IsFiniteSet(S) /\ \A r \in S : r.minutes \in Nat
  <2>1. S \in SUBSET p.requirements
      BY DEF Lessons
  <2> QED
      BY <2>1, InputsAssumption, FS_Subset DEF IsChoice, Validates
<1>2. TotalMinutes({}) <= TotalMinutes(S)
    BY <1>1, TotalOfPart
<1>3. TotalMinutes(S) \in Int
    BY <1>1, TotalType
<1>4. TotalMinutes(S) \in Nat
    BY <1>2, <1>3, TotalOfNone
<1>5. Shortfall(p, c, t, g) = Max({0, t.minTutor - TotalMinutes(S)})
    BY DEF Shortfall
<1>6. t.minTutor \in Int /\ t.minTutor <= 3000
    BY MinTutorType DEF IsChoice
<1> HIDE DEF S
<1>7. t.minTutor - TotalMinutes(S) \in Int
    BY <1>4, <1>6, CutOff
<1>8. Shortfall(p, c, t, g) = IF t.minTutor - TotalMinutes(S) >= 0 THEN t.minTutor - TotalMinutes(S) ELSE 0
    BY <1>5, <1>7, MaxWithZero
<1> QED
    BY <1>4, <1>8 DEF S

LEMMA ShortfallType ==
    ASSUME NEW p, NEW c, IsChoice(p, c), NEW t \in p.teachers, NEW g
    PROVE  Shortfall(p, c, t, g) \in Int /\ Shortfall(p, c, t, g) <= 3000
<1> DEFINE x == TotalMinutes({r \in Lessons(p, c, t) : r.group = g})
<1>1. x \in Nat /\ Shortfall(p, c, t, g) = IF t.minTutor - x >= 0 THEN t.minTutor - x ELSE 0
    BY ShortfallParts
<1>2. t.minTutor \in Int /\ t.minTutor <= 3000
    BY MinTutorType DEF IsChoice
<1> HIDE DEF x
<1> QED
    BY <1>1, <1>2, CutOff

LEMMA TutorCostType ==
    ASSUME NEW p, NEW c, IsChoice(p, c), NEW t \in p.teachers, NEW g
    PROVE  /\ TutorCost(p, c, t, g) \in Int
           /\ t.preference # "no" => TutorCost(p, c, t, g) < 500000
<1> DEFINE bonus == IF g \in Uses(p, c, t.id) THEN 2500 ELSE 0
<1>1. Shortfall(p, c, t, g) \in Int /\ Shortfall(p, c, t, g) <= 3000
    BY ShortfallType
<1>2. /\ PreferenceBase(t) \in Int
      /\ t.preference # "no" => PreferenceBase(t) <= 12000
    BY PreferenceBaseType DEF IsChoice
<1>3. RoleBase(t) \in Int /\ RoleBase(t) <= 18000
    BY RoleBaseType
<1>4. bonus \in Int /\ bonus >= 0
    OBVIOUS
<1>5. TutorCost(p, c, t, g) = RoleBase(t) + PreferenceBase(t) + 40 * Shortfall(p, c, t, g) - bonus
    BY TutorCostParts
<1> HIDE DEF bonus
<1> QED
    BY <1>1, <1>2, <1>3, <1>4, <1>5, TutorSum

\* More lessons make a tutor cheaper.
LEMMA TutorCostFalls ==
    ASSUME NEW p, NEW c, IsChoice(p, c), NEW d, IsChoice(p, d), NEW t \in p.teachers, NEW g,
           Lessons(p, c, t) \subseteq Lessons(p, d, t)
    PROVE  TutorCost(p, d, t, g) <= TutorCost(p, c, t, g)
<1> DEFINE Sc == {r \in Lessons(p, c, t) : r.group = g}
           Sd == {r \in Lessons(p, d, t) : r.group = g}
           xc == TotalMinutes(Sc)
           xd == TotalMinutes(Sd)
<1>1. IsFiniteSet(Sd) /\ (\A r \in Sd : r.minutes \in Nat) /\ Sc \in SUBSET Sd
  <2>1. Sd \in SUBSET p.requirements
      BY DEF Lessons
  <2> QED
      BY <2>1, InputsAssumption, FS_Subset DEF IsChoice, Validates
<1>2. xc <= xd
    BY <1>1, TotalOfPart
<1>3. /\ xc \in Nat /\ xd \in Nat
      /\ Shortfall(p, c, t, g) = IF t.minTutor - xc >= 0 THEN t.minTutor - xc ELSE 0
      /\ Shortfall(p, d, t, g) = IF t.minTutor - xd >= 0 THEN t.minTutor - xd ELSE 0
    BY ShortfallParts
<1>4. t.minTutor \in Int
    BY MinTutorType DEF IsChoice
<1> HIDE DEF xc, xd
<1>5. /\ Shortfall(p, d, t, g) <= Shortfall(p, c, t, g)
      /\ Shortfall(p, d, t, g) \in Int /\ Shortfall(p, c, t, g) \in Int
    BY <1>2, <1>3, <1>4, CutOffFalls
<1> DEFINE bc == IF g \in Uses(p, c, t.id) THEN 2500 ELSE 0
           bd == IF g \in Uses(p, d, t.id) THEN 2500 ELSE 0
<1>6. Uses(p, c, t.id) \subseteq Uses(p, d, t.id)
    BY DEF Uses, Lessons
<1>7. bc \in Int /\ bd \in Int /\ bc <= bd
    BY <1>6
<1>8. /\ TutorCost(p, c, t, g) = RoleBase(t) + PreferenceBase(t) + 40 * Shortfall(p, c, t, g) - bc
      /\ TutorCost(p, d, t, g) = RoleBase(t) + PreferenceBase(t) + 40 * Shortfall(p, d, t, g) - bd
    BY TutorCostParts
<1>9. RoleBase(t) \in Int /\ PreferenceBase(t) \in Int
    BY RoleBaseType, PreferenceBaseType DEF IsChoice
<1> HIDE DEF bc, bd
<1> QED
    BY <1>5, <1>7, <1>8, <1>9, TutorSumFalls

LEMMA GroupCostType ==
    ASSUME NEW p, NEW c, IsChoice(p, c), NEW g \in p.groups
    PROVE  /\ GroupCost(p, c, g) \in Int
           /\ c.tutor[g] = Nobody => GroupCost(p, c, g) = 500000
           /\ \A t \in p.teachers : c.tutor[g] = t.id => GroupCost(p, c, g) = TutorCost(p, c, t, g)
<1>1. CASE c.tutor[g] = Nobody
    BY <1>1, InputsAssumption DEF GroupCost, IsChoice
<1>2. CASE c.tutor[g] # Nobody
  <2>1. PICK t \in p.teachers : t.id = c.tutor[g]
      BY <1>2 DEF IsChoice, Allocations
  <2>2. {u \in p.teachers : u.id = c.tutor[g]} = {t}
      BY <2>1 DEF IsChoice, Validates, UniqueIds
  <2> DEFINE f == [u \in {t} |-> TutorCost(p, c, u, g)]
  <2>3. GroupCost(p, c, g) = SumFunctionOnSet(f, {t})
      BY <1>2, <2>2 DEF GroupCost, SumFunction
  <2>4. f[t] = TutorCost(p, c, t, g) /\ TutorCost(p, c, t, g) \in Int
      BY TutorCostType
  <2>5. IsFiniteSet({t}) /\ {t} \ {t} = {} /\ IsFiniteSet({}) /\ \A x \in {t} : x = t
      BY FS_Singleton, FS_EmptySet
  <2> HIDE DEF f
  <2>6. SumFunctionOnSet(f, {t}) = f[t] + SumFunctionOnSet(f, {t} \ {t})
      BY <2>4, <2>5, SumTakesOut
  <2>7. SumFunctionOnSet(f, {}) = 0
      BY <2>5, SumUnfolds
  <2>8. GroupCost(p, c, g) = TutorCost(p, c, t, g)
    <3>1. SumFunctionOnSet(f, {t} \ {t}) = 0
        BY <2>5, <2>7
    <3>2. TutorCost(p, c, t, g) + 0 = TutorCost(p, c, t, g)
        BY <2>4
    <3> QED
        BY <2>3, <2>4, <2>6, <3>1, <3>2
  <2>9. \A u \in p.teachers : c.tutor[g] = u.id => u = t
      BY <2>1 DEF IsChoice, Validates, UniqueIds
  <2> QED
      BY <1>2, <2>4, <2>8, <2>9
<1> QED
    BY <1>1, <1>2

LEMMA GroupCostFalls ==
    ASSUME NEW p, NEW c, IsChoice(p, c), NEW d, IsChoice(p, d), NEW g \in p.groups,
           d.tutor[g] = c.tutor[g],
           \A t \in p.teachers : Lessons(p, c, t) \subseteq Lessons(p, d, t)
    PROVE  GroupCost(p, d, g) <= GroupCost(p, c, g)
<1>1. CASE c.tutor[g] = Nobody
    BY <1>1, GroupCostType
<1>2. CASE c.tutor[g] # Nobody
  <2>1. PICK t \in p.teachers : t.id = c.tutor[g]
      BY <1>2 DEF IsChoice, Allocations
  <2>2. GroupCost(p, c, g) = TutorCost(p, c, t, g) /\ GroupCost(p, d, g) = TutorCost(p, d, t, g)
      BY <2>1, GroupCostType
  <2> QED
      BY <2>2, TutorCostFalls
<1> QED
    BY <1>1, <1>2

-----------------------------------------------------------------------------
(* The objective                                                              *)

LessonSum(p, c)   == SumFunctionOnSet([r \in p.requirements |-> LessonCost(p, c, r)], p.requirements)
ActivitySum(p, c) == SumFunctionOnSet([a \in p.activities |-> ActivityCost(p, c, a)], p.activities)
GroupSum(p, c)    == SumFunctionOnSet([g \in p.groups |-> GroupCost(p, c, g)], p.groups)
SpreadSum(p, c)   ==
    SumFunctionOnSet([t \in p.teachers |-> 450 * Cardinality(Uses(p, c, t.id))], p.teachers)

LEMMA ObjectiveParts ==
    ASSUME NEW p, NEW c, IsChoice(p, c)
    PROVE  /\ Objective(p, c) = LessonSum(p, c) + ActivitySum(p, c) + GroupSum(p, c) + SpreadSum(p, c)
           /\ LessonSum(p, c) \in Int /\ ActivitySum(p, c) \in Int
           /\ GroupSum(p, c) \in Int /\ SpreadSum(p, c) \in Int
<1> DEFINE l == [r \in p.requirements |-> LessonCost(p, c, r)]
           a == [x \in p.activities |-> ActivityCost(p, c, x)]
           h == [g \in p.groups |-> GroupCost(p, c, g)]
           s == [t \in p.teachers |-> 450 * Cardinality(Uses(p, c, t.id))]
<1>1. /\ IsFiniteSet(p.requirements) /\ IsFiniteSet(p.activities)
      /\ IsFiniteSet(p.groups) /\ IsFiniteSet(p.teachers)
    BY InputsAssumption DEF IsChoice
<1>2. \A r \in p.requirements : l[r] \in Int
    BY LessonCostType
<1>3. \A x \in p.activities : a[x] \in Int
    BY ActivityCostType
<1>4. \A g \in p.groups : h[g] \in Int
    BY GroupCostType
<1>5. \A t \in p.teachers : s[t] \in Int
    BY UsesAreFinite
<1>6. /\ LessonSum(p, c) = SumFunctionOnSet(l, p.requirements)
      /\ ActivitySum(p, c) = SumFunctionOnSet(a, p.activities)
      /\ GroupSum(p, c) = SumFunctionOnSet(h, p.groups)
      /\ SpreadSum(p, c) = SumFunctionOnSet(s, p.teachers)
    BY DEF LessonSum, ActivitySum, GroupSum, SpreadSum
<1>7. Objective(p, c) = LessonSum(p, c) + ActivitySum(p, c) + GroupSum(p, c) + SpreadSum(p, c)
    BY DEF Objective, SumFunction, LessonSum, ActivitySum, GroupSum, SpreadSum
<1> HIDE DEF l, a, h, s
<1>8. LessonSum(p, c) \in Int
    BY <1>1, <1>2, <1>6, SumType
<1>9. ActivitySum(p, c) \in Int
    BY <1>1, <1>3, <1>6, SumType
<1>10. GroupSum(p, c) \in Int
    BY <1>1, <1>4, <1>6, SumType
<1>11. SpreadSum(p, c) \in Int
    BY <1>1, <1>5, <1>6, SumType
<1> QED
    BY <1>7, <1>8, <1>9, <1>10, <1>11

\* Two choices with the same lessons cost the same for them.
LEMMA LessonSumSame ==
    ASSUME NEW p, NEW c, NEW d, d.teaches = c.teaches
    PROVE  LessonSum(p, d) = LessonSum(p, c) /\ SpreadSum(p, d) = SpreadSum(p, c)
<1>1. \A r : LessonCost(p, d, r) = LessonCost(p, c, r)
    BY DEF LessonCost
<1>2. \A id : Uses(p, d, id) = Uses(p, c, id)
    BY DEF Uses
<1> QED
    BY <1>1, <1>2 DEF LessonSum, SpreadSum

\* With the same participants, more lessons and more groups for each of them
\* make the activities and the tutors no dearer.
LEMMA ActivitySumFalls ==
    ASSUME NEW p, NEW c, IsChoice(p, c), NEW d, IsChoice(p, d), d.staff = c.staff,
           \A t \in p.teachers :
              /\ \A g \in p.groups : c.tutor[g] = t.id => d.tutor[g] = t.id
              /\ Uses(p, c, t.id) \subseteq Uses(p, d, t.id)
    PROVE  ActivitySum(p, d) <= ActivitySum(p, c)
<1> DEFINE f == [a \in p.activities |-> ActivityCost(p, d, a)]
           g == [a \in p.activities |-> ActivityCost(p, c, a)]
<1>1. IsFiniteSet(p.activities)
    BY InputsAssumption DEF IsChoice
<1>2. ASSUME NEW a \in p.activities
      PROVE  f[a] \in Int /\ g[a] \in Int /\ f[a] <= g[a]
  <2>1. a.groups \subseteq p.groups
      BY DEF IsChoice, Validates
  <2>2. ActivityCost(p, d, a) <= ActivityCost(p, c, a)
      BY <2>1, ActivityCostFalls
  <2> QED
      BY <2>2, ActivityCostType
<1>3. ActivitySum(p, d) = SumFunctionOnSet(f, p.activities)
      /\ ActivitySum(p, c) = SumFunctionOnSet(g, p.activities)
    BY DEF ActivitySum
<1> HIDE DEF f, g
<1> QED
    BY <1>1, <1>2, <1>3, SumOrder

LEMMA GroupSumFalls ==
    ASSUME NEW p, NEW c, IsChoice(p, c), NEW d, IsChoice(p, d), d.tutor = c.tutor,
           \A t \in p.teachers : Lessons(p, c, t) \subseteq Lessons(p, d, t)
    PROVE  GroupSum(p, d) <= GroupSum(p, c)
<1> DEFINE f == [g \in p.groups |-> GroupCost(p, d, g)]
           h == [g \in p.groups |-> GroupCost(p, c, g)]
<1>1. IsFiniteSet(p.groups)
    BY InputsAssumption DEF IsChoice
<1>2. \A g \in p.groups : f[g] \in Int /\ h[g] \in Int /\ f[g] <= h[g]
    BY GroupCostType, GroupCostFalls
<1>3. GroupSum(p, d) = SumFunctionOnSet(f, p.groups) /\ GroupSum(p, c) = SumFunctionOnSet(h, p.groups)
    BY DEF GroupSum
<1> HIDE DEF f, h
<1> QED
    BY <1>1, <1>2, <1>3, SumOrder

-----------------------------------------------------------------------------
(* Whoever is free can be given what is open, and that is cheaper             *)

WithLesson(c, r, t) == [c EXCEPT !.teaches[r] = t.id]
WithDuty(c, a, t)   == [c EXCEPT !.staff[a] = @ \cup {t.id}]
WithTutor(c, g, t)  == [c EXCEPT !.tutor[g] = t.id]

\* An uncovered lesson that t may give and has the time for.
FreeForLesson(p, c, r, t) ==
    /\ r \in p.requirements /\ t \in p.teachers
    /\ c.teaches[r] = Nobody /\ CanCover(t, r)
    /\ Load(p, c, t) + r.minutes <= t.minutes

LEMMA LessonGiven ==
    ASSUME NEW p, NEW c, IsChoice(p, c), NEW r, NEW t, FreeForLesson(p, c, r, t)
    PROVE  LET d == WithLesson(c, r, t)
           IN  /\ d \in [teaches: [p.requirements -> Ids(p) \cup {Nobody}],
                         staff: [p.activities -> SUBSET Ids(p)],
                         tutor: [p.groups -> Ids(p) \cup {Nobody}]]
               /\ d.staff = c.staff /\ d.tutor = c.tutor /\ d.teaches[r] = t.id
               /\ \A q \in p.requirements : q # r => d.teaches[q] = c.teaches[q]
               /\ Lessons(p, d, t) = Lessons(p, c, t) \cup {r} /\ r \notin Lessons(p, c, t)
               /\ \A u \in p.teachers : u # t => Lessons(p, d, u) = Lessons(p, c, u)
<1> DEFINE d == WithLesson(c, r, t)
<1>1. /\ c \in [teaches: [p.requirements -> Ids(p) \cup {Nobody}],
                staff: [p.activities -> SUBSET Ids(p)],
                tutor: [p.groups -> Ids(p) \cup {Nobody}]]
      /\ UniqueIds(p.teachers) /\ p \in Inputs
    BY DEF IsChoice, Allocations, Validates
<1>2. r \in p.requirements /\ t \in p.teachers /\ c.teaches[r] = Nobody /\ t.id \in Ids(p)
    BY DEF FreeForLesson, Ids
<1>3. \A u \in p.teachers : u.id # Nobody /\ (u # t => u.id # t.id)
    BY <1>1, <1>2, InputsAssumption DEF UniqueIds
<1>4. /\ d.teaches = [c.teaches EXCEPT ![r] = t.id] /\ d.staff = c.staff /\ d.tutor = c.tutor
      /\ d \in [teaches: [p.requirements -> Ids(p) \cup {Nobody}],
                staff: [p.activities -> SUBSET Ids(p)],
                tutor: [p.groups -> Ids(p) \cup {Nobody}]]
    BY <1>1, <1>2 DEF WithLesson
<1>5. d.teaches[r] = t.id /\ \A q \in p.requirements : q # r => d.teaches[q] = c.teaches[q]
    BY <1>1, <1>2, <1>4
<1> HIDE DEF d
<1>6. Lessons(p, d, t) = Lessons(p, c, t) \cup {r} /\ r \notin Lessons(p, c, t)
    BY <1>2, <1>3, <1>5 DEF Lessons
<1>7. \A u \in p.teachers : u # t => Lessons(p, d, u) = Lessons(p, c, u)
    BY <1>2, <1>3, <1>5 DEF Lessons
<1> QED
    BY <1>4, <1>5, <1>6, <1>7 DEF d

LEMMA LessonCanBeGiven ==
    ASSUME NEW p, NEW c, IsChoice(p, c), NEW r, NEW t, FreeForLesson(p, c, r, t)
    PROVE  IsChoice(p, WithLesson(c, r, t))
<1> DEFINE d == WithLesson(c, r, t)
<1>1. /\ d \in [teaches: [p.requirements -> Ids(p) \cup {Nobody}],
                staff: [p.activities -> SUBSET Ids(p)],
                tutor: [p.groups -> Ids(p) \cup {Nobody}]]
      /\ d.staff = c.staff /\ d.tutor = c.tutor /\ d.teaches[r] = t.id
      /\ \A q \in p.requirements : q # r => d.teaches[q] = c.teaches[q]
      /\ Lessons(p, d, t) = Lessons(p, c, t) \cup {r} /\ r \notin Lessons(p, c, t)
      /\ \A u \in p.teachers : u # t => Lessons(p, d, u) = Lessons(p, c, u)
    BY LessonGiven
<1>2. /\ r \in p.requirements /\ t \in p.teachers /\ c.teaches[r] = Nobody /\ CanCover(t, r)
      /\ Load(p, c, t) + r.minutes <= t.minutes
    BY DEF FreeForLesson
<1> HIDE DEF d
<1>3. KeepsFixed(p, d)
    BY <1>1, <1>2 DEF IsChoice, Allocations, KeepsFixed
<1>4. \A q \in p.requirements :
         d.teaches[q] # Nobody => \E u \in p.teachers : u.id = d.teaches[q] /\ CanCover(u, q)
    BY <1>1, <1>2 DEF IsChoice, Allocations
<1>5. \A a \in p.activities : Staffed(p, d, a)
    BY <1>1 DEF IsChoice, Allocations, Staffed, Missing
<1>6. \A g \in p.groups :
         d.tutor[g] # Nobody => \E u \in p.teachers : u.id = d.tutor[g] /\ CanTutor(u, g)
    BY <1>1 DEF IsChoice, Allocations
<1>7. OneGroupEach(p, d)
    BY <1>1 DEF IsChoice, Allocations, OneGroupEach
<1>8. ASSUME NEW u \in p.teachers
      PROVE  Fits(p, d, u)
  <2>1. Duties(p, d, u) = Duties(p, c, u)
      BY <1>1 DEF Duties
  <2>2. CASE u # t
      BY <1>1, <2>1, <2>2 DEF Fits, IsChoice, Allocations
  <2>3. CASE u = t
    <3>1. p \in Inputs /\ \A x \in p.requirements : x.minutes \in Int
        BY InputsAssumption DEF IsChoice
    <3>2. /\ IsFiniteSet(Lessons(p, c, t)) /\ TotalMinutes(Lessons(p, c, t)) \in Int
          /\ TotalMinutes(Duties(p, c, t)) \in Int
        BY <3>1, LoadIsInteger
    <3>3. \A x \in Lessons(p, c, t) \cup {r} : x.minutes \in Int
        BY <1>2, <3>1 DEF Lessons
    <3>4. TotalMinutes(Lessons(p, d, t)) = r.minutes + TotalMinutes(Lessons(p, c, t))
        BY <1>1, <3>2, <3>3, TotalAdds
    <3>5. TotalMinutes(Lessons(p, c, t)) + TotalMinutes(Duties(p, c, t)) + r.minutes <= t.minutes
        BY <1>2 DEF Load
    <3>6. r.minutes \in Int
        BY <1>2, <3>1
    <3>7. r.minutes + TotalMinutes(Lessons(p, c, t)) + TotalMinutes(Duties(p, c, t)) <= t.minutes
        BY <3>2, <3>5, <3>6
    <3> QED
        BY <2>1, <2>3, <3>4, <3>7 DEF Fits
  <2> QED
      BY <2>2, <2>3
<1> QED
    BY <1>1, <1>3, <1>4, <1>5, <1>6, <1>7, <1>8 DEF IsChoice, Allocations, d

LEMMA OneMoreGroup ==
    ASSUME NEW S, IsFiniteSet(S), NEW x
    PROVE  Cardinality(S \cup {x}) <= Cardinality(S) + 1
<1>1. Cardinality(S) \in Int
    BY FS_CardinalityType
<1>2. \/ Cardinality(S \cup {x}) = Cardinality(S)
      \/ Cardinality(S \cup {x}) = Cardinality(S) + 1
    BY FS_AddElement
<1> QED
    BY <1>1, <1>2

LEMMA CheaperWithLesson ==
    ASSUME NEW p, NEW c, IsChoice(p, c), NEW r, NEW t, FreeForLesson(p, c, r, t)
    PROVE  Objective(p, WithLesson(c, r, t)) < Objective(p, c)
<1> DEFINE d == WithLesson(c, r, t)
<1>1. IsChoice(p, d)
    BY LessonCanBeGiven
<1>2. /\ d.staff = c.staff /\ d.tutor = c.tutor /\ d.teaches[r] = t.id
      /\ \A q \in p.requirements : q # r => d.teaches[q] = c.teaches[q]
      /\ Lessons(p, d, t) = Lessons(p, c, t) \cup {r}
      /\ \A u \in p.teachers : u # t => Lessons(p, d, u) = Lessons(p, c, u)
    BY LessonGiven
<1>3. /\ r \in p.requirements /\ t \in p.teachers /\ c.teaches[r] = Nobody
      /\ t.id # Nobody /\ r.minutes \in Int /\ r.minutes > 0
    BY InputsAssumption DEF FreeForLesson, IsChoice, Validates
<1>4. /\ IsFiniteSet(p.requirements) /\ IsFiniteSet(p.teachers)
      /\ UniqueIds(p.teachers)
    BY InputsAssumption DEF IsChoice, Validates
<1> HIDE DEF d
<1>5. \A u \in p.teachers : Lessons(p, c, u) \subseteq Lessons(p, d, u)
    BY <1>2
<1>6. \A u \in p.teachers : Uses(p, c, u.id) \subseteq Uses(p, d, u.id)
    BY <1>5 DEF Uses, Lessons
<1>7. ActivitySum(p, d) <= ActivitySum(p, c)
    BY <1>1, <1>2, <1>6, ActivitySumFalls
<1>8. GroupSum(p, d) <= GroupSum(p, c)
    BY <1>1, <1>2, <1>5, GroupSumFalls
<1> DEFINE gain == - 9965 * r.minutes
<1>9. LessonSum(p, d) <= LessonSum(p, c) + gain
  <2> DEFINE f == [q \in p.requirements |-> LessonCost(p, d, q)]
             h == [q \in p.requirements |-> LessonCost(p, c, q)]
  <2>1. \A q \in p.requirements : f[q] \in Int /\ h[q] \in Int
      BY <1>1, LessonCostType
  <2>2. \A q \in p.requirements \ {r} : f[q] <= h[q]
    <3>1. \A q \in p.requirements \ {r} : f[q] = h[q]
        BY <1>2 DEF LessonCost
    <3> HIDE DEF f, h
    <3> QED
        BY <2>1, <3>1
  <2>3. f[r] <= 35 * r.minutes
      BY <1>1, <1>2, <1>3, LessonCostType
  <2>4. h[r] = 10000 * r.minutes
      BY <1>3, LessonCostType
  <2>5. LessonSum(p, d) = SumFunctionOnSet(f, p.requirements)
        /\ LessonSum(p, c) = SumFunctionOnSet(h, p.requirements)
      BY DEF LessonSum
  <2> HIDE DEF f, h
  <2>6. gain \in Int /\ f[r] <= h[r] + gain
      BY <1>3, <2>1, <2>3, <2>4
  <2> HIDE DEF gain
  <2> QED
      BY <1>3, <1>4, <2>1, <2>2, <2>5, <2>6, SumWithin
<1>10. SpreadSum(p, d) <= SpreadSum(p, c) + 450
  <2> DEFINE f == [u \in p.teachers |-> 450 * Cardinality(Uses(p, d, u.id))]
             h == [u \in p.teachers |-> 450 * Cardinality(Uses(p, c, u.id))]
  <2>1. \A u \in p.teachers : /\ Cardinality(Uses(p, c, u.id)) \in Nat
                              /\ Cardinality(Uses(p, d, u.id)) \in Nat
                              /\ IsFiniteSet(Uses(p, c, u.id))
      BY <1>1, UsesAreFinite
  <2>2. \A u \in p.teachers \ {t} : Uses(p, d, u.id) = Uses(p, c, u.id)
      BY <1>2 DEF Uses, Lessons
  <2>3. Uses(p, d, t.id) = Uses(p, c, t.id) \cup {r.group}
      BY <1>2, <1>3 DEF Uses, Lessons
  <2>4. Cardinality(Uses(p, d, t.id)) <= Cardinality(Uses(p, c, t.id)) + 1
      BY <1>3, <2>1, <2>3, OneMoreGroup
  <2>5. \A u \in p.teachers : f[u] \in Int /\ h[u] \in Int
      BY <2>1
  <2>6. \A u \in p.teachers \ {t} : f[u] <= h[u]
      BY <2>1, <2>2
  <2>7. f[t] <= h[t] + 450
      BY <1>3, <2>1, <2>4
  <2>8. SpreadSum(p, d) = SumFunctionOnSet(f, p.teachers)
        /\ SpreadSum(p, c) = SumFunctionOnSet(h, p.teachers)
      BY DEF SpreadSum
  <2> HIDE DEF f, h
  <2> QED
      BY <1>3, <1>4, <2>5, <2>6, <2>7, <2>8, SumWithin
<1>11. gain \in Int /\ gain + 450 < 0
    BY <1>3
<1>12. /\ Objective(p, c) = LessonSum(p, c) + ActivitySum(p, c) + GroupSum(p, c) + SpreadSum(p, c)
       /\ Objective(p, d) = LessonSum(p, d) + ActivitySum(p, d) + GroupSum(p, d) + SpreadSum(p, d)
       /\ LessonSum(p, c) \in Int /\ ActivitySum(p, c) \in Int
       /\ GroupSum(p, c) \in Int /\ SpreadSum(p, c) \in Int
       /\ LessonSum(p, d) \in Int /\ ActivitySum(p, d) \in Int
       /\ GroupSum(p, d) \in Int /\ SpreadSum(p, d) \in Int
    BY <1>1, ObjectiveParts
<1> HIDE DEF gain
<1>13. Objective(p, d) < Objective(p, c)
    BY <1>7, <1>8, <1>9, <1>10, <1>11, <1>12
<1> QED
    BY <1>13 DEF d

\* An activity with a place for t, who has the time for it.
FreeForDuty(p, c, a, t) ==
    /\ a \in p.activities /\ t \in p.teachers
    /\ Missing(c, a) > 0 /\ t.id \in a.eligible /\ t.id \notin c.staff[a]
    /\ Load(p, c, t) + a.minutes <= t.minutes

LEMMA DutyGiven ==
    ASSUME NEW p, NEW c, IsChoice(p, c), NEW a, NEW t, FreeForDuty(p, c, a, t)
    PROVE  LET d == WithDuty(c, a, t)
           IN  /\ d \in [teaches: [p.requirements -> Ids(p) \cup {Nobody}],
                         staff: [p.activities -> SUBSET Ids(p)],
                         tutor: [p.groups -> Ids(p) \cup {Nobody}]]
               /\ d.teaches = c.teaches /\ d.tutor = c.tutor
               /\ d.staff[a] = c.staff[a] \cup {t.id}
               /\ \A b \in p.activities : b # a => d.staff[b] = c.staff[b]
               /\ Duties(p, d, t) = Duties(p, c, t) \cup {a} /\ a \notin Duties(p, c, t)
               /\ \A u \in p.teachers : u # t => Duties(p, d, u) = Duties(p, c, u)
               /\ Missing(d, a) = Missing(c, a) - 1 /\ Missing(c, a) \in Int
<1> DEFINE d == WithDuty(c, a, t)
<1>1. /\ c \in [teaches: [p.requirements -> Ids(p) \cup {Nobody}],
                staff: [p.activities -> SUBSET Ids(p)],
                tutor: [p.groups -> Ids(p) \cup {Nobody}]]
      /\ UniqueIds(p.teachers)
    BY DEF IsChoice, Allocations, Validates
<1>2. a \in p.activities /\ t \in p.teachers /\ t.id \in Ids(p) /\ t.id \notin c.staff[a]
    BY DEF FreeForDuty, Ids
<1>3. \A u \in p.teachers : u # t => u.id # t.id
    BY <1>1, <1>2 DEF UniqueIds
<1>4. c.staff \in [p.activities -> SUBSET Ids(p)] /\ c.staff[a] \cup {t.id} \in SUBSET Ids(p)
    BY <1>1, <1>2
<1>5. /\ d.staff = [c.staff EXCEPT ![a] = c.staff[a] \cup {t.id}]
      /\ d.teaches = c.teaches /\ d.tutor = c.tutor
      /\ d \in [teaches: [p.requirements -> Ids(p) \cup {Nobody}],
                staff: [p.activities -> SUBSET Ids(p)],
                tutor: [p.groups -> Ids(p) \cup {Nobody}]]
    BY <1>1, <1>4 DEF WithDuty
<1>6. /\ d.staff[a] = c.staff[a] \cup {t.id}
      /\ \A b \in p.activities : b # a => d.staff[b] = c.staff[b]
    BY <1>2, <1>4, <1>5
<1> HIDE DEF d
<1>7. Duties(p, d, t) = Duties(p, c, t) \cup {a} /\ a \notin Duties(p, c, t)
    BY <1>2, <1>6 DEF Duties
<1>8. \A u \in p.teachers : u # t => Duties(p, d, u) = Duties(p, c, u)
    BY <1>2, <1>3, <1>6 DEF Duties
<1>9. Missing(d, a) = Missing(c, a) - 1 /\ Missing(c, a) \in Int
  <2>1. /\ Slots(a) \in Int /\ IsFiniteSet(c.staff[a]) /\ Cardinality(c.staff[a]) \in Nat
        /\ Missing(c, a) = Slots(a) - Cardinality(c.staff[a])
      BY <1>2, MissingType
  <2>2. Cardinality(d.staff[a]) = Cardinality(c.staff[a]) + 1
      BY <1>2, <1>6, <2>1, FS_AddElement
  <2>3. Missing(d, a) = Slots(a) - Cardinality(d.staff[a])
      BY DEF Missing
  <2> QED
      BY <2>1, <2>2, <2>3
<1> QED
    BY <1>5, <1>6, <1>7, <1>8, <1>9 DEF d

LEMMA DutyCanBeGiven ==
    ASSUME NEW p, NEW c, IsChoice(p, c), NEW a, NEW t, FreeForDuty(p, c, a, t)
    PROVE  IsChoice(p, WithDuty(c, a, t))
<1> DEFINE d == WithDuty(c, a, t)
<1>1. /\ d \in [teaches: [p.requirements -> Ids(p) \cup {Nobody}],
                staff: [p.activities -> SUBSET Ids(p)],
                tutor: [p.groups -> Ids(p) \cup {Nobody}]]
      /\ d.teaches = c.teaches /\ d.tutor = c.tutor
      /\ d.staff[a] = c.staff[a] \cup {t.id}
      /\ \A b \in p.activities : b # a => d.staff[b] = c.staff[b]
      /\ Duties(p, d, t) = Duties(p, c, t) \cup {a} /\ a \notin Duties(p, c, t)
      /\ \A u \in p.teachers : u # t => Duties(p, d, u) = Duties(p, c, u)
      /\ Missing(d, a) = Missing(c, a) - 1 /\ Missing(c, a) \in Int
    BY DutyGiven
<1>2. /\ a \in p.activities /\ t \in p.teachers /\ t.id \in a.eligible
      /\ Missing(c, a) > 0 /\ Load(p, c, t) + a.minutes <= t.minutes
    BY DEF FreeForDuty
<1> HIDE DEF d
<1>3. KeepsFixed(p, d)
    BY <1>1, <1>2 DEF IsChoice, Allocations, KeepsFixed
<1>4. \A q \in p.requirements :
         d.teaches[q] # Nobody => \E u \in p.teachers : u.id = d.teaches[q] /\ CanCover(u, q)
    BY <1>1 DEF IsChoice, Allocations
<1>5. ASSUME NEW b \in p.activities
      PROVE  Staffed(p, d, b)
  <2>1. Staffed(p, c, b)
      BY DEF IsChoice, Allocations
  <2>2. CASE b # a
      BY <1>1, <2>1, <2>2 DEF Staffed, Missing
  <2>3. CASE b = a
    <3>1. Missing(d, a) >= 0
        BY <1>1, <1>2
    <3>2. d.staff[a] \subseteq a.fixed \cup a.eligible
        BY <1>1, <1>2, <2>1, <2>3 DEF Staffed
    <3> QED
        BY <2>3, <3>1, <3>2 DEF Staffed
  <2> QED
      BY <2>2, <2>3
<1>6. \A g \in p.groups :
         d.tutor[g] # Nobody => \E u \in p.teachers : u.id = d.tutor[g] /\ CanTutor(u, g)
    BY <1>1 DEF IsChoice, Allocations
<1>7. OneGroupEach(p, d)
    BY <1>1 DEF IsChoice, Allocations, OneGroupEach
<1>8. ASSUME NEW u \in p.teachers
      PROVE  Fits(p, d, u)
  <2>1. Lessons(p, d, u) = Lessons(p, c, u)
      BY <1>1 DEF Lessons
  <2>2. CASE u # t
      BY <1>1, <2>1, <2>2 DEF Fits, IsChoice, Allocations
  <2>3. CASE u = t
    <3>1. p \in Inputs /\ \A x \in p.activities : x.minutes \in Int
        BY InputsAssumption DEF IsChoice
    <3>2. /\ IsFiniteSet(Duties(p, c, t)) /\ TotalMinutes(Lessons(p, c, t)) \in Int
          /\ TotalMinutes(Duties(p, c, t)) \in Int
        BY <3>1, LoadIsInteger
    <3>3. \A x \in Duties(p, c, t) \cup {a} : x.minutes \in Int
        BY <1>2, <3>1 DEF Duties
    <3>4. TotalMinutes(Duties(p, d, t)) = a.minutes + TotalMinutes(Duties(p, c, t))
        BY <1>1, <3>2, <3>3, TotalAdds
    <3>5. TotalMinutes(Lessons(p, c, t)) + TotalMinutes(Duties(p, c, t)) + a.minutes <= t.minutes
        BY <1>2 DEF Load
    <3>6. a.minutes \in Int
        BY <1>2, <3>1
    <3>7. TotalMinutes(Lessons(p, c, t)) + (a.minutes + TotalMinutes(Duties(p, c, t))) <= t.minutes
        BY <3>2, <3>5, <3>6
    <3> QED
        BY <2>1, <2>3, <3>4, <3>7 DEF Fits
  <2> QED
      BY <2>2, <2>3
<1> QED
    BY <1>1, <1>3, <1>4, <1>5, <1>6, <1>7, <1>8 DEF IsChoice, Allocations, d

\* The duty costs at most 350, the missing place 3000 for each minute.
LEMMA DutyPays ==
    ASSUME NEW minutes \in Int, minutes > 0, NEW missing \in Int, NEW duty \in Int, duty <= 350,
           NEW rest \in Int
    PROVE  3000 * minutes * (missing - 1) + (duty + rest) < 3000 * minutes * missing + rest
<1> DEFINE x == minutes * missing
<1>1. x \in Int /\ 3000 * minutes * missing = 3000 * x
    OBVIOUS
<1>2. 3000 * minutes * (missing - 1) = 3000 * x - 3000 * minutes
    OBVIOUS
<1> HIDE DEF x
<1> QED
    BY <1>1, <1>2

LEMMA CheaperWithDuty ==
    ASSUME NEW p, NEW c, IsChoice(p, c), NEW a, NEW t, FreeForDuty(p, c, a, t)
    PROVE  Objective(p, WithDuty(c, a, t)) < Objective(p, c)
<1> DEFINE d == WithDuty(c, a, t)
<1>1. IsChoice(p, d)
    BY DutyCanBeGiven
<1>2. /\ d.teaches = c.teaches /\ d.tutor = c.tutor
      /\ d.staff[a] = c.staff[a] \cup {t.id}
      /\ \A b \in p.activities : b # a => d.staff[b] = c.staff[b]
      /\ Missing(d, a) = Missing(c, a) - 1 /\ Missing(c, a) \in Int
    BY DutyGiven
<1>3. /\ a \in p.activities /\ t \in p.teachers /\ t.id \notin c.staff[a]
      /\ a.minutes \in Int /\ a.minutes > 0
    BY InputsAssumption DEF FreeForDuty, IsChoice, Validates
<1>4. /\ IsFiniteSet(p.activities) /\ IsFiniteSet(p.teachers) /\ UniqueIds(p.teachers)
    BY InputsAssumption DEF IsChoice, Validates
<1> HIDE DEF d
<1>5. \A b, u : DutyCost(p, d, b, u) = DutyCost(p, c, b, u)
    BY <1>2 DEF DutyCost, Uses
<1>6. LessonSum(p, d) = LessonSum(p, c) /\ SpreadSum(p, d) = SpreadSum(p, c)
    BY <1>2, LessonSumSame
<1>7. GroupSum(p, d) <= GroupSum(p, c)
  <2>1. \A u \in p.teachers : Lessons(p, c, u) \subseteq Lessons(p, d, u)
      BY <1>2 DEF Lessons
  <2> QED
      BY <1>1, <1>2, <2>1, GroupSumFalls
<1>8. DutyCosts(p, d, a) = DutyCost(p, c, a, t) + DutyCosts(p, c, a)
  <2> DEFINE S == Participants(p, c, a)
             T == S \cup {t}
             f == [u \in S |-> DutyCost(p, c, a, u)]
             h == [u \in T |-> DutyCost(p, d, a, u)]
  <2>1. /\ S \in SUBSET p.teachers /\ T \in SUBSET p.teachers
        /\ Participants(p, d, a) = T /\ t \notin S
      BY <1>2, <1>3, <1>4 DEF Participants, UniqueIds
  <2>2. \A u \in T : h[u] \in Int
      BY <1>1, <1>3, DutyCostType
  <2>3. (\A u \in S : h[u] = f[u]) /\ h[t] = DutyCost(p, c, a, t)
      BY <1>5
  <2>4. DutyCosts(p, d, a) = SumFunctionOnSet(h, T) /\ DutyCosts(p, c, a) = SumFunctionOnSet(f, S)
      BY <2>1 DEF DutyCosts, SumFunction
  <2>5. IsFiniteSet(S)
      BY <1>4, <2>1, FS_Subset
  <2> HIDE DEF S, f, h
  <2>6. SumFunctionOnSet(h, T) = h[t] + SumFunctionOnSet(h, S)
      BY <2>1, <2>2, <2>5, SumAdds
  <2>7. SumFunctionOnSet(h, S) = SumFunctionOnSet(f, S)
      BY <2>3, <2>5, SumSame
  <2> QED
      BY <2>3, <2>4, <2>6, <2>7
<1>9. ActivityCost(p, d, a) < ActivityCost(p, c, a)
  <2>1. /\ ActivityCost(p, c, a) = 3000 * a.minutes * Missing(c, a) + DutyCosts(p, c, a)
        /\ ActivityCost(p, d, a) = 3000 * a.minutes * Missing(d, a) + DutyCosts(p, d, a)
        /\ DutyCosts(p, c, a) \in Int
      BY <1>1, <1>3, ActivityCostType
  <2>2. DutyCost(p, c, a, t) \in Int /\ DutyCost(p, c, a, t) <= 350
      BY <1>3, DutyCostType
  <2>3. 3000 * a.minutes * (Missing(c, a) - 1) + (DutyCost(p, c, a, t) + DutyCosts(p, c, a))
           < 3000 * a.minutes * Missing(c, a) + DutyCosts(p, c, a)
      BY <1>2, <1>3, <2>1, <2>2, DutyPays
  <2> QED
      BY <1>2, <1>8, <2>1, <2>3
<1>10. ActivitySum(p, d) <= ActivitySum(p, c) + (-1)
  <2> DEFINE f == [b \in p.activities |-> ActivityCost(p, d, b)]
             h == [b \in p.activities |-> ActivityCost(p, c, b)]
  <2>1. \A b \in p.activities : f[b] \in Int /\ h[b] \in Int
      BY <1>1, ActivityCostType
  <2>2. ASSUME NEW b \in p.activities \ {a}
        PROVE  f[b] <= h[b]
    <3>1. d.staff[b] = c.staff[b]
        BY <1>2
    <3>2. \A u \in p.teachers : /\ \A g \in b.groups : c.tutor[g] = u.id => d.tutor[g] = u.id
                                /\ Uses(p, c, u.id) \subseteq Uses(p, d, u.id)
        BY <1>2 DEF Uses
    <3>3. ActivityCost(p, d, b) <= ActivityCost(p, c, b)
        BY <1>1, <3>1, <3>2, ActivityCostFalls
    <3> QED
        BY <3>3
  <2>3. f[a] < h[a]
      BY <1>3, <1>9
  <2>4. ActivitySum(p, d) = SumFunctionOnSet(f, p.activities)
        /\ ActivitySum(p, c) = SumFunctionOnSet(h, p.activities)
      BY DEF ActivitySum
  <2> HIDE DEF f, h
  <2>5. f[a] <= h[a] + (-1) /\ -1 \in Int
      BY <1>3, <2>1, <2>3
  <2> QED
      BY <1>3, <1>4, <2>1, <2>2, <2>4, <2>5, SumWithin
<1>11. /\ Objective(p, c) = LessonSum(p, c) + ActivitySum(p, c) + GroupSum(p, c) + SpreadSum(p, c)
       /\ Objective(p, d) = LessonSum(p, d) + ActivitySum(p, d) + GroupSum(p, d) + SpreadSum(p, d)
       /\ LessonSum(p, c) \in Int /\ ActivitySum(p, c) \in Int
       /\ GroupSum(p, c) \in Int /\ SpreadSum(p, c) \in Int
       /\ ActivitySum(p, d) \in Int /\ GroupSum(p, d) \in Int
    BY <1>1, ObjectiveParts
<1>12. Objective(p, d) < Objective(p, c)
    BY <1>6, <1>7, <1>10, <1>11
<1> QED
    BY <1>12 DEF d

\* A group without a tutor, and a teacher without a group who may be its tutor.
FreeForGroup(p, c, g, t) ==
    /\ g \in p.groups /\ t \in p.teachers
    /\ c.tutor[g] = Nobody /\ t.preference # "no"
    /\ \A h \in p.groups : c.tutor[h] # t.id

LEMMA TutorGiven ==
    ASSUME NEW p, NEW c, IsChoice(p, c), NEW g, NEW t, FreeForGroup(p, c, g, t)
    PROVE  LET d == WithTutor(c, g, t)
           IN  /\ d \in [teaches: [p.requirements -> Ids(p) \cup {Nobody}],
                         staff: [p.activities -> SUBSET Ids(p)],
                         tutor: [p.groups -> Ids(p) \cup {Nobody}]]
               /\ d.teaches = c.teaches /\ d.staff = c.staff /\ d.tutor[g] = t.id
               /\ \A h \in p.groups : h # g => d.tutor[h] = c.tutor[h]
<1> DEFINE d == WithTutor(c, g, t)
<1>1. c \in [teaches: [p.requirements -> Ids(p) \cup {Nobody}],
             staff: [p.activities -> SUBSET Ids(p)],
             tutor: [p.groups -> Ids(p) \cup {Nobody}]]
    BY DEF IsChoice, Allocations
<1>2. g \in p.groups /\ t.id \in Ids(p)
    BY DEF FreeForGroup, Ids
<1>3. /\ d.tutor = [c.tutor EXCEPT ![g] = t.id] /\ d.staff = c.staff /\ d.teaches = c.teaches
      /\ d \in [teaches: [p.requirements -> Ids(p) \cup {Nobody}],
                staff: [p.activities -> SUBSET Ids(p)],
                tutor: [p.groups -> Ids(p) \cup {Nobody}]]
    BY <1>1, <1>2 DEF WithTutor
<1>4. d.tutor[g] = t.id /\ \A h \in p.groups : h # g => d.tutor[h] = c.tutor[h]
    BY <1>1, <1>2, <1>3
<1> QED
    BY <1>3, <1>4

LEMMA TutorCanBeGiven ==
    ASSUME NEW p, NEW c, IsChoice(p, c), NEW g, NEW t, FreeForGroup(p, c, g, t)
    PROVE  IsChoice(p, WithTutor(c, g, t))
<1> DEFINE d == WithTutor(c, g, t)
<1>1. /\ d \in [teaches: [p.requirements -> Ids(p) \cup {Nobody}],
                staff: [p.activities -> SUBSET Ids(p)],
                tutor: [p.groups -> Ids(p) \cup {Nobody}]]
      /\ d.teaches = c.teaches /\ d.staff = c.staff /\ d.tutor[g] = t.id
      /\ \A h \in p.groups : h # g => d.tutor[h] = c.tutor[h]
    BY TutorGiven
<1>2. /\ g \in p.groups /\ t \in p.teachers /\ c.tutor[g] = Nobody /\ t.preference # "no"
      /\ \A h \in p.groups : c.tutor[h] # t.id
    BY DEF FreeForGroup
<1> HIDE DEF d
<1>3. KeepsFixed(p, d)
  <2>1. ASSUME NEW u \in p.teachers, u.fixedGroup # NoGroup
        PROVE  d.tutor[u.fixedGroup] = u.id
    <3>1. u.fixedGroup \in p.groups /\ c.tutor[u.fixedGroup] = u.id /\ u.id # Nobody
        BY <2>1, InputsAssumption DEF IsChoice, Allocations, KeepsFixed, Validates
    <3> QED
        BY <1>1, <1>2, <3>1
  <2> QED
      BY <1>1, <2>1 DEF IsChoice, Allocations, KeepsFixed
<1>4. \A q \in p.requirements :
         d.teaches[q] # Nobody => \E u \in p.teachers : u.id = d.teaches[q] /\ CanCover(u, q)
    BY <1>1 DEF IsChoice, Allocations
<1>5. \A a \in p.activities : Staffed(p, d, a)
    BY <1>1 DEF IsChoice, Allocations, Staffed, Missing
<1>6. \A h \in p.groups :
         d.tutor[h] # Nobody => \E u \in p.teachers : u.id = d.tutor[h] /\ CanTutor(u, h)
    BY <1>1, <1>2 DEF IsChoice, Allocations, CanTutor
<1>7. OneGroupEach(p, d)
    BY <1>1, <1>2 DEF IsChoice, Allocations, OneGroupEach
<1>8. \A u \in p.teachers : Fits(p, d, u)
    BY <1>1 DEF IsChoice, Allocations, Fits, Lessons, Duties
<1> QED
    BY <1>1, <1>3, <1>4, <1>5, <1>6, <1>7, <1>8 DEF IsChoice, Allocations, d

LEMMA CheaperWithTutor ==
    ASSUME NEW p, NEW c, IsChoice(p, c), NEW g, NEW t, FreeForGroup(p, c, g, t)
    PROVE  Objective(p, WithTutor(c, g, t)) < Objective(p, c)
<1> DEFINE d == WithTutor(c, g, t)
<1>1. IsChoice(p, d)
    BY TutorCanBeGiven
<1>2. /\ d.teaches = c.teaches /\ d.staff = c.staff /\ d.tutor[g] = t.id
      /\ \A h \in p.groups : h # g => d.tutor[h] = c.tutor[h]
    BY TutorGiven
<1>3. /\ g \in p.groups /\ t \in p.teachers /\ c.tutor[g] = Nobody /\ t.preference # "no"
      /\ t.id # Nobody /\ IsFiniteSet(p.groups)
    BY InputsAssumption DEF FreeForGroup, IsChoice
<1> HIDE DEF d
<1>4. LessonSum(p, d) = LessonSum(p, c) /\ SpreadSum(p, d) = SpreadSum(p, c)
    BY <1>2, LessonSumSame
<1>5. ActivitySum(p, d) <= ActivitySum(p, c)
  <2>1. \A u \in p.teachers :
           /\ \A h \in p.groups : c.tutor[h] = u.id => d.tutor[h] = u.id
           /\ Uses(p, c, u.id) \subseteq Uses(p, d, u.id)
      BY <1>2, <1>3, InputsAssumption DEF Uses, IsChoice
  <2> QED
      BY <1>1, <1>2, <2>1, ActivitySumFalls
<1>6. GroupSum(p, d) <= GroupSum(p, c) + (-1)
  <2> DEFINE f == [h \in p.groups |-> GroupCost(p, d, h)]
             k == [h \in p.groups |-> GroupCost(p, c, h)]
  <2>1. \A h \in p.groups : f[h] \in Int /\ k[h] \in Int
      BY <1>1, GroupCostType
  <2>2. \A u \in p.teachers : Lessons(p, c, u) \subseteq Lessons(p, d, u)
      BY <1>2 DEF Lessons
  <2>3. \A h \in p.groups \ {g} : f[h] <= k[h]
      BY <1>1, <1>2, <2>2, GroupCostFalls
  <2>4. f[g] < k[g]
    <3>1. GroupCost(p, d, g) = TutorCost(p, d, t, g)
        BY <1>1, <1>2, <1>3, GroupCostType
    <3>2. GroupCost(p, c, g) = 500000
        BY <1>3, GroupCostType
    <3>3. TutorCost(p, d, t, g) < 500000
        BY <1>1, <1>3, TutorCostType
    <3> QED
        BY <1>3, <3>1, <3>2, <3>3
  <2>5. GroupSum(p, d) = SumFunctionOnSet(f, p.groups) /\ GroupSum(p, c) = SumFunctionOnSet(k, p.groups)
      BY DEF GroupSum
  <2> HIDE DEF f, k
  <2>6. f[g] <= k[g] + (-1) /\ -1 \in Int
      BY <1>3, <2>1, <2>4
  <2> QED
      BY <1>3, <2>1, <2>3, <2>5, <2>6, SumWithin
<1>7. /\ Objective(p, c) = LessonSum(p, c) + ActivitySum(p, c) + GroupSum(p, c) + SpreadSum(p, c)
      /\ Objective(p, d) = LessonSum(p, d) + ActivitySum(p, d) + GroupSum(p, d) + SpreadSum(p, d)
      /\ LessonSum(p, c) \in Int /\ ActivitySum(p, c) \in Int
      /\ GroupSum(p, c) \in Int /\ SpreadSum(p, c) \in Int
      /\ ActivitySum(p, d) \in Int /\ GroupSum(p, d) \in Int
    BY <1>1, ObjectiveParts
<1>8. Objective(p, d) < Objective(p, c)
    BY <1>4, <1>5, <1>6, <1>7
<1> QED
    BY <1>8 DEF d

-----------------------------------------------------------------------------
LEMMA BestLeavesNobodyFree ==
    ASSUME NEW p, NEW c, IsChoice(p, c),
           \A d \in Allocations(p) : Objective(p, c) <= Objective(p, d)
    PROVE  /\ \A r, t : ~ FreeForLesson(p, c, r, t)
           /\ \A a, t : ~ FreeForDuty(p, c, a, t)
           /\ \A g, t : ~ FreeForGroup(p, c, g, t)
<1>1. ASSUME NEW d, IsChoice(p, d), Objective(p, d) < Objective(p, c) PROVE FALSE
  <2>1. Objective(p, d) \in Int /\ Objective(p, c) \in Int
      BY <1>1, ObjectiveParts
  <2>2. Objective(p, c) <= Objective(p, d)
      BY <1>1 DEF IsChoice
  <2> QED
      BY <1>1, <2>1, <2>2
<1>2. ASSUME NEW r, NEW t, FreeForLesson(p, c, r, t) PROVE FALSE
    BY <1>1, <1>2, LessonCanBeGiven, CheaperWithLesson
<1>3. ASSUME NEW a, NEW t, FreeForDuty(p, c, a, t) PROVE FALSE
    BY <1>1, <1>3, DutyCanBeGiven, CheaperWithDuty
<1>4. ASSUME NEW g, NEW t, FreeForGroup(p, c, g, t) PROVE FALSE
    BY <1>1, <1>4, TutorCanBeGiven, CheaperWithTutor
<1> QED
    BY <1>2, <1>3, <1>4

LEMMA InvOpen ==
    ASSUME StaffingInv, input \in Inputs
    PROVE  OpenForWantOfStaff
<1> SUFFICES ASSUME pc = "reported", status = "OPTIMAL", NEW t \in input.teachers
             PROVE  /\ \A r \in report.uncovered : CanCover(t, r) => report.remaining[t] < r.minutes
                    /\ \A a \in report.short : t.id \in a.eligible /\ <<a, t>> \notin report.duties =>
                          report.remaining[t] < a.minutes
                    /\ \A g \in report.untutored :
                          t.preference # "no" => \E h \in input.groups : <<h, t>> \in report.tutors
    BY DEF OpenForWantOfStaff
<1>1. IsChoice(input, choice)
    BY DEF StaffingInv, ChoiceInv, IsChoice
<1>2. \A d \in Allocations(input) : Objective(input, choice) <= Objective(input, d)
    BY DEF StaffingInv, StatusInv
<1>3. /\ \A r : ~ FreeForLesson(input, choice, r, t)
      /\ \A a : ~ FreeForDuty(input, choice, a, t)
      /\ \A g : ~ FreeForGroup(input, choice, g, t)
    BY <1>1, <1>2, BestLeavesNobodyFree
<1>4. /\ t.minutes \in Int /\ Load(input, choice, t) \in Int
      /\ report.remaining[t] = t.minutes - Load(input, choice, t)
  <2>1. TotalMinutes(Lessons(input, choice, t)) \in Int /\ TotalMinutes(Duties(input, choice, t)) \in Int
      BY LoadIsInteger
  <2>2. t.minutes \in Int
      BY InputsAssumption
  <2>3. Load(input, choice, t) \in Int
      BY <2>1 DEF Load
  <2>4. Load(input, choice, t) <= t.minutes
      BY <1>1 DEF IsChoice, Allocations, Fits, Load
  <2>5. report.remaining[t] = Max({0, t.minutes - Load(input, choice, t)})
      BY DEF StaffingInv, ReportInv
  <2>6. t.minutes - Load(input, choice, t) \in Int /\ t.minutes - Load(input, choice, t) >= 0
      BY <2>2, <2>3, <2>4
  <2> QED
      BY <2>2, <2>3, <2>5, <2>6, MaxWithZero
<1>5. ASSUME NEW r \in report.uncovered, CanCover(t, r)
      PROVE  report.remaining[t] < r.minutes
  <2>1. r \in input.requirements /\ choice.teaches[r] = Nobody
      BY DEF StaffingInv, ReportInv
  <2>2. ~ (Load(input, choice, t) + r.minutes <= t.minutes)
      BY <1>3, <1>5, <2>1 DEF FreeForLesson
  <2>3. r.minutes \in Int
      BY <2>1, InputsAssumption
  <2> QED
      BY <1>4, <2>2, <2>3
<1>6. ASSUME NEW a \in report.short, t.id \in a.eligible, <<a, t>> \notin report.duties
      PROVE  report.remaining[t] < a.minutes
  <2>1. a \in input.activities /\ Missing(choice, a) > 0 /\ t.id \notin choice.staff[a]
      BY <1>6 DEF StaffingInv, ReportInv
  <2>2. ~ (Load(input, choice, t) + a.minutes <= t.minutes)
      BY <1>3, <1>6, <2>1 DEF FreeForDuty
  <2>3. a.minutes \in Int
      BY <2>1, InputsAssumption
  <2> QED
      BY <1>4, <2>2, <2>3
<1>7. ASSUME NEW g \in report.untutored, t.preference # "no"
      PROVE  \E h \in input.groups : <<h, t>> \in report.tutors
  <2>1. g \in input.groups /\ choice.tutor[g] = Nobody
      BY DEF StaffingInv, ReportInv
  <2>2. PICK h \in input.groups : choice.tutor[h] = t.id
      BY <1>3, <1>7, <2>1 DEF FreeForGroup
  <2>3. <<h, t>> \in report.tutors
      BY <2>2 DEF StaffingInv, ReportInv
  <2> QED
      BY <2>3
<1> QED
    BY <1>5, <1>6, <1>7

\* In an optimal answer nothing stays open for which somebody is free: filling
\* it would be another choice, and a cheaper one whatever else changes with it.
THEOREM NothingOpenForTheFree == Spec => []OpenForWantOfStaff
<1>1. StaffingInv /\ TypeOK => OpenForWantOfStaff
    BY InvOpen DEF TypeOK
<1> QED
    BY <1>1, AnswerIsAllowed, StaffingIsTyped, PTL
=============================================================================
