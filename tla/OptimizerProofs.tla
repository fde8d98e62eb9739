--------------------------- MODULE OptimizerProofs ---------------------------
(* Proofs about DayOptimizer and WeekOptimizer, for days and weeks of any     *)
(* size and whatever CP-SAT answers within its time limit.                    *)
EXTENDS WeekOptimizer, SumProofs, SequenceTheorems

\* The input of solve is one of the days, a plan is only there for input that was
\* not refused, and it satisfies the constraints of the CP-SAT model.
PlanInv ==
    /\ day \in Days
    /\ pc \in {"coverage", "penalty", "solved", "reported"} => ~ Refused(engine, day)
    /\ pc = "penalty" => SameCoverage # {}
    /\ pc \in {"solved", "reported"} => plan \in Assignments(engine, day)

LEMMA PlanInvInit == Init => PlanInv
  BY DEF Init, PlanInv

LEMMA PlanInvStep == PlanInv /\ [Next]_vars => PlanInv'
<1> SUFFICES ASSUME PlanInv, [Next]_vars
             PROVE  PlanInv'
    OBVIOUS
<1>1. CASE RefuseInput
    BY <1>1 DEF RefuseInput, PlanInv, SameCoverage
<1>2. CASE BuildModel
    BY <1>2 DEF BuildModel, PlanInv, SameCoverage
<1>3. ASSUME NEW f \in Assignments(engine, day), SolveCoverage(f)
      PROVE  PlanInv'
    BY <1>3 DEF SolveCoverage, PlanInv, SameCoverage
<1>4. ASSUME NEW f \in Assignments(engine, day), SolvePenalty(f)
      PROVE  PlanInv'
    BY <1>4 DEF SolvePenalty, PlanInv, SameCoverage
<1>5. CASE TimeOut
    BY <1>5 DEF TimeOut, PlanInv, SameCoverage
<1>6. CASE Report
    BY <1>6 DEF Report, PlanInv, SameCoverage
<1>7. CASE UNCHANGED vars
    BY <1>7 DEF vars, PlanInv, SameCoverage
<1> QED
    BY <1>1, <1>2, <1>3, <1>4, <1>5, <1>6, <1>7 DEF Next

\* The invariant that carries the two theorems below.
THEOREM PlanIsFeasible == Spec => []PlanInv
  BY PlanInvInit, PlanInvStep, PTL DEF Spec

-----------------------------------------------------------------------------
\* The constraints of the model say enough: every assignment can be held.
LEMMA AssignmentCanBeHeld ==
    ASSUME NEW e, NEW d, NEW f \in Assignments(e, d), NEW n \in Covered(d, f)
    PROVE  /\ ~ Absent(d, f[n], n.slot)
           /\ \A m \in Needs(d) : m.slot = n.slot /\ f[m] = f[n] => m = n
           /\ \A a \in d.activities :
                 a.teacher = f[n] /\ a.slot = n.slot => ~ RequiresGroupCoverage(a)
<1>1. n \in Needs(d) /\ f[n] # Nobody
    BY DEF Covered
<1>2. PICK t \in Candidates(e, d, n) : t.id = f[n]
    BY <1>1 DEF Assignments
<1>3. IsCandidate(e, d, n, t)
    BY <1>2 DEF Candidates
<1>4. ~ Absent(d, f[n], n.slot)
    BY <1>2, <1>3 DEF IsCandidate
<1>5. ASSUME NEW m \in Needs(d), m.slot = n.slot, f[m] = f[n]
      PROVE  m = n
    BY <1>1, <1>5 DEF Assignments, OncePerSlot
<1>6. ASSUME NEW a \in d.activities, a.teacher = f[n], a.slot = n.slot
      PROVE  ~ RequiresGroupCoverage(a)
  <2>1. a \in Current(d, t.id, n.slot)
      BY <1>2, <1>6 DEF Current
  <2> QED
      BY <1>3, <2>1 DEF IsCandidate, CanDisplace, RequiresGroupCoverage
<1> QED
    BY <1>4, <1>5, <1>6

\* Input that is not refused has every lock on a need, and an assignment keeps it.
LEMMA AssignmentKeepsLocks ==
    ASSUME NEW e, NEW d, NEW f \in Assignments(e, d), ~ Refused(e, d),
           NEW i \in DOMAIN d.locked
    PROVE  \E n \in Needs(d) : /\ n.id = d.locked[i].activity
                               /\ f[n] = d.locked[i].teacher
<1>1. ~ LockRefused(e, d, d.locked[i])
    BY DEF Refused
<1>2. PICK n \in Needs(d) : n.id = d.locked[i].activity
    BY <1>1 DEF LockRefused
<1>3. f[n] = d.locked[i].teacher
    BY <1>2 DEF Assignments, KeepsLocks
<1> QED
    BY <1>2, <1>3

\* Input that is not refused leaves an assignment: the one that covers what is
\* locked and nothing else.
LEMMA AssignmentExists ==
    ASSUME NEW e, NEW d, ~ Refused(e, d),
           \A a, b \in d.activities : a.id = b.id => a = b
    PROVE  Assignments(e, d) # {}
<1> DEFINE L(n) == {i \in DOMAIN d.locked : d.locked[i].activity = n.id}
           f == [n \in Needs(d) |-> IF L(n) = {} THEN Nobody
                                    ELSE d.locked[CHOOSE i \in L(n) : TRUE].teacher]
<1>1. \A m, n \in Needs(d) : m.id = n.id => m = n
    BY DEF Needs
<1>2. ASSUME NEW n \in Needs(d), NEW i \in L(n)
      PROVE  f[n] = d.locked[i].teacher
  <2>1. \A j \in L(n) : j = i
      BY DEF Refused, LocksClash
  <2> QED
      BY <2>1
<1>3. ASSUME NEW n \in Needs(d), NEW i \in L(n)
      PROVE  \E t \in Candidates(e, d, n) : t.id = f[n]
  <2>1. ~ LockRefused(e, d, d.locked[i])
      BY DEF Refused
  <2>2. PICK m \in Needs(d) : /\ m.id = d.locked[i].activity
                              /\ \E t \in Candidates(e, d, m) : t.id = d.locked[i].teacher
      BY <2>1 DEF LockRefused
  <2>3. m = n
      BY <1>1, <2>2
  <2> HIDE DEF f
  <2> QED
      BY <1>2, <2>2, <2>3
<1>4. \A n \in Needs(d) : f[n] # Nobody => \E i \in DOMAIN d.locked : i \in L(n)
    OBVIOUS
<1>5. \A n \in Needs(d) : L(n) = {} => f[n] = Nobody
    OBVIOUS
<1> DEFINE T == {t.id : t \in d.teachers}
<1>6. f \in [Needs(d) -> T \cup {Nobody}]
  <2>1. ASSUME NEW n \in Needs(d)
        PROVE  f[n] \in T \cup {Nobody}
    <3> HIDE DEF f
    <3>1. CASE L(n) = {}
        BY <3>1, <1>5
    <3>2. CASE L(n) # {}
        BY <3>2, <1>3 DEF Candidates
    <3> QED
        BY <3>1, <3>2
  <2> HIDE DEF T, L
  <2> QED
      BY <2>1
<1>7. KeepsLocks(d, f)
  <2> HIDE DEF f
  <2> QED
      BY <1>2 DEF KeepsLocks
<1>8. OncePerSlot(d, f)
  <2> HIDE DEF f
  <2> SUFFICES ASSUME NEW m \in Needs(d), NEW n \in Needs(d), m # n, m.slot = n.slot,
                      f[m] # Nobody, f[m] = f[n]
               PROVE  FALSE
      BY DEF OncePerSlot
  <2>1. PICK i \in DOMAIN d.locked, j \in DOMAIN d.locked : i \in L(m) /\ j \in L(n)
      BY <1>4
  <2>2. d.locked[i].teacher = d.locked[j].teacher
      BY <1>2, <2>1
  <2>3. i # j
      BY <1>1, <2>1
  <2>4. SameSlot(d, d.locked[i], d.locked[j])
      BY <2>1 DEF SameSlot
  <2> QED
      BY <2>2, <2>3, <2>4 DEF Refused, LocksClash
<1>9. \A n \in Needs(d) : f[n] # Nobody => \E t \in Candidates(e, d, n) : t.id = f[n]
  <2> HIDE DEF f
  <2> QED
      BY <1>3, <1>4
<1> HIDE DEF f
<1> QED
    BY <1>6, <1>7, <1>8, <1>9 DEF Assignments

\* Every plan that solve reports, for any school, any absences and locks, either
\* engine, and with CP-SAT stopped at its time limit or not, can be held:
\* nobody is in two places and no class loses its teacher to another one.
THEOREM ReportedDayCanBeHeld == Spec => []DayCanBeHeld
<1>1. PlanInv => DayCanBeHeld
    BY AssignmentCanBeHeld DEF PlanInv, DayCanBeHeld
<1> QED
    BY <1>1, PlanIsFeasible, PTL

\* Input that is not refused always has a solution, in both rounds: the status
\* INFEASIBLE, which would be a RuntimeError, cannot come.
THEOREM ModelIsNeverInfeasible == Spec => []NeverInfeasible
<1>1. PlanInv => NeverInfeasible
    BY AssignmentExists, IdsAssumption
    DEF PlanInv, NeverInfeasible, WellFormed, WellFormedLessons
<1> QED
    BY <1>1, PlanIsFeasible, PTL

\* Every plan that solve reports keeps all the decisions that were locked.
THEOREM LockedDecisionsSurvive == Spec => []LocksSurvive
<1>1. PlanInv => LocksSurvive
    BY AssignmentKeepsLocks DEF PlanInv, LocksSurvive
<1> QED
    BY <1>1, PlanIsFeasible, PTL

-----------------------------------------------------------------------------
(* What optimal rounds mean                                                   *)

LEMMA NeedsAreFinite ==
    ASSUME NEW d, IsFiniteSet(d.activities)
    PROVE  IsFiniteSet(Needs(d)) /\ Cardinality(Needs(d)) \in Nat
<1>1. Needs(d) \in SUBSET d.activities
    BY DEF Needs
<1> QED
    BY <1>1, FS_Subset, FS_CardinalityType

LEMMA UncoveredIsFinite ==
    ASSUME NEW d, IsFiniteSet(d.activities), NEW f
    PROVE  /\ IsFiniteSet(Uncovered(d, f))
           /\ Cardinality(Uncovered(d, f)) \in 0 .. Cardinality(Needs(d))
<1>1. IsFiniteSet(Needs(d))
    BY NeedsAreFinite
<1>2. Uncovered(d, f) \in SUBSET Needs(d)
    BY DEF Uncovered
<1>3. IsFiniteSet(Uncovered(d, f)) /\ Cardinality(Uncovered(d, f)) <= Cardinality(Needs(d))
    BY <1>1, <1>2, FS_Subset
<1> QED
    BY <1>1, <1>3, FS_CardinalityType

\* A candidate who is free in the slot of an uncovered need can take it, and
\* this covers more.
LEMMA CoverOneMore ==
    ASSUME NEW e, NEW d, WellFormed(d), ~ Refused(e, d), NEW f \in Assignments(e, d),
           NEW n \in Uncovered(d, f), NEW t \in Candidates(e, d, n),
           \A m \in Needs(d) : m.slot = n.slot => f[m] # t.id
    PROVE  \E g \in Assignments(e, d) :
              Cardinality(Uncovered(d, g)) < Cardinality(Uncovered(d, f))
<1> DEFINE g == [f EXCEPT ![n] = t.id]
<1>1. /\ n \in Needs(d) /\ f[n] = Nobody
      /\ t \in d.teachers /\ t.id # Nobody
    BY DEF Uncovered, Candidates, WellFormed, WellFormedLessons, WellFormedTeachers
<1>2. f \in [Needs(d) -> {u.id : u \in d.teachers} \cup {Nobody}]
    BY DEF Assignments
<1>3. /\ g \in [Needs(d) -> {u.id : u \in d.teachers} \cup {Nobody}]
      /\ g[n] = t.id
      /\ \A m \in Needs(d) \ {n} : g[m] = f[m]
    BY <1>1, <1>2
<1> HIDE DEF g
<1>4. \A m \in Needs(d) : g[m] # Nobody => \E u \in Candidates(e, d, m) : u.id = g[m]
    BY <1>3 DEF Assignments
<1>5. KeepsLocks(d, g)
  <2>1. ASSUME NEW i \in DOMAIN d.locked, n.id = d.locked[i].activity
        PROVE  FALSE
    <3>1. PICK m \in Needs(d) : /\ m.id = d.locked[i].activity
                                /\ f[m] = d.locked[i].teacher
        BY AssignmentKeepsLocks
    <3>2. m = n
        BY <1>1, <2>1, <3>1 DEF WellFormed, WellFormedLessons, WellFormedTeachers, Needs
    <3>3. PICK k \in Needs(d) : /\ k.id = d.locked[i].activity
                                /\ \E u \in Candidates(e, d, k) : u.id = d.locked[i].teacher
        BY DEF Refused, LockRefused
    <3>4. d.locked[i].teacher # Nobody
        BY <3>3 DEF Candidates, WellFormed, WellFormedLessons, WellFormedTeachers
    <3> QED
        BY <1>1, <3>1, <3>2, <3>4
  <2>2. KeepsLocks(d, f)
      BY DEF Assignments
  <2> QED
      BY <1>3, <2>1, <2>2 DEF KeepsLocks
<1>6. OncePerSlot(d, g)
  <2>1. OncePerSlot(d, f)
      BY DEF Assignments
  <2> QED
      BY <1>3, <2>1 DEF OncePerSlot
<1>7. g \in Assignments(e, d)
    BY <1>3, <1>4, <1>5, <1>6 DEF Assignments
<1>8. Uncovered(d, g) = Uncovered(d, f) \ {n}
    BY <1>1, <1>3 DEF Uncovered
<1>9. /\ IsFiniteSet(Uncovered(d, f))
      /\ Cardinality(Uncovered(d, f)) \in Nat
    BY UncoveredIsFinite DEF WellFormed, WellFormedLessons, WellFormedTeachers
<1>10. Cardinality(Uncovered(d, g)) = Cardinality(Uncovered(d, f)) - 1
    BY <1>8, <1>9, FS_RemoveElement
<1> QED
    BY <1>7, <1>9, <1>10

\* The strict model allows nothing that the flexible one forbids.
LEMMA StrictIsFlexible ==
    ASSUME NEW d
    PROVE  Assignments("strict", d) \subseteq Assignments("flexible", d)
<1>1. \A n : Candidates("strict", d, n) \subseteq Candidates("flexible", d, n)
    BY DEF Candidates, IsCandidate
<1> QED
    BY <1>1 DEF Assignments

\* What the rounds leave behind: how much is covered, and at which penalty.
RoundsInv ==
    /\ status \in [1 .. 2 -> Statuses]
    /\ minimum \in 0 .. Cardinality(Needs(day))
    /\ pc \in {"penalty", "solved", "reported"} /\ status[1] = "OPTIMAL" =>
          \A g \in Assignments(engine, day) : ~ (Cardinality(Uncovered(day, g)) < minimum)
    /\ pc \in {"solved", "reported"} => plan \in SameCoverage
    /\ pc \in {"solved", "reported"} /\ status[2] = "OPTIMAL" =>
          \A g \in SameCoverage : ~ CostsLess(g, plan)
    /\ pc = "reported" =>
          report = {[need |-> n, teacher |-> t.id, status |-> Assess(n, t)] :
                       n \in Needs(day), t \in day.teachers}
    /\ pc # "reported" => report = {}

\* A day to start with.
StartsWith(d) ==
    /\ day = d /\ pc = "start" /\ minimum = 0 /\ report = {}
    /\ status = [i \in 1 .. 2 |-> "none"]

LEMMA RoundsAtStart ==
    ASSUME NEW d, IsFiniteSet(d.activities), StartsWith(d)
    PROVE  RoundsInv
<1>1. Cardinality(Needs(d)) \in Nat
    BY NeedsAreFinite
<1>2. /\ day = d /\ pc = "start" /\ minimum = 0 /\ report = {}
      /\ status = [i \in 1 .. 2 |-> "none"]
    BY DEF StartsWith
<1>3. minimum \in 0 .. Cardinality(Needs(day))
    BY <1>1, <1>2
<1>4. status \in [1 .. 2 -> Statuses]
    BY <1>2 DEF Statuses
<1> QED
    BY <1>2, <1>3, <1>4 DEF RoundsInv

\* The same for the next day of a week.
LEMMA RoundsRestart ==
    ASSUME IsFiniteSet(day'.activities), pc' = "start", minimum' = 0, report' = {},
           status' = [i \in 1 .. 2 |-> "none"]
    PROVE  RoundsInv'
<1>1. Cardinality(Needs(day')) \in Nat
    BY NeedsAreFinite
<1>2. minimum' \in 0 .. Cardinality(Needs(day'))
    BY <1>1
<1>3. status' \in [1 .. 2 -> Statuses]
    BY DEF Statuses
<1> QED
    BY <1>2, <1>3 DEF RoundsInv

\* Which day is solved, and by which engine, changes between days only.
LEMMA NextKeepsDay ==
    ASSUME Next
    PROVE  /\ UNCHANGED <<day, engine>>
           /\ pc' \in {"coverage", "penalty", "solved", "reported", "invalid", "failed"}
<1>1. CASE RefuseInput \/ BuildModel
    BY <1>1 DEF RefuseInput, BuildModel
<1>2. ASSUME NEW f, SolveCoverage(f)
      PROVE  UNCHANGED <<day, engine>> /\ pc' = "penalty"
    BY <1>2 DEF SolveCoverage
<1>3. ASSUME NEW f, SolvePenalty(f)
      PROVE  UNCHANGED <<day, engine>> /\ pc' = "solved"
    BY <1>3 DEF SolvePenalty
<1>4. CASE TimeOut \/ Report
    BY <1>4 DEF TimeOut, Report
<1> QED
    BY <1>1, <1>2, <1>3, <1>4 DEF Next

LEMMA RoundsStep ==
    ASSUME WellFormed(day), RoundsInv, Next
    PROVE  RoundsInv'
<1> USE DEF RoundsInv, Statuses
<1>1. CASE RefuseInput
    BY <1>1 DEF RefuseInput
<1>2. CASE BuildModel
    BY <1>2 DEF BuildModel
<1>3. ASSUME NEW f \in Assignments(engine, day), SolveCoverage(f)
      PROVE  RoundsInv'
  <2>1. PICK answer \in {"OPTIMAL", "FEASIBLE"} :
           /\ answer = "OPTIMAL" => \A g \in Assignments(engine, day) : ~ CoversMore(g, f)
           /\ status' = [status EXCEPT ![1] = answer]
      BY <1>3 DEF SolveCoverage, Answers
  <2>2. Cardinality(Uncovered(day, f)) \in 0 .. Cardinality(Needs(day))
      BY UncoveredIsFinite DEF WellFormed, WellFormedLessons, WellFormedTeachers
  <2>3. status' \in [1 .. 2 -> Statuses] /\ status'[1] = answer
      BY <2>1
  <2>4. /\ minimum' = Cardinality(Uncovered(day, f)) /\ pc = "coverage" /\ pc' = "penalty"
        /\ UNCHANGED <<day, engine, plan, report>>
      BY <1>3 DEF SolveCoverage
  <2> QED
      BY <2>1, <2>2, <2>3, <2>4 DEF CoversMore
<1>4. ASSUME NEW f \in Assignments(engine, day), SolvePenalty(f)
      PROVE  RoundsInv'
  <2>1. PICK answer \in {"OPTIMAL", "FEASIBLE"} :
           /\ answer = "OPTIMAL" => \A g \in SameCoverage : ~ CostsLess(g, f)
           /\ status' = [status EXCEPT ![2] = answer]
      BY <1>4 DEF SolvePenalty, Answers
  <2>2. status' \in [1 .. 2 -> Statuses] /\ status'[1] = status[1] /\ status'[2] = answer
      BY <2>1
  <2>3. /\ pc = "penalty" /\ pc' = "solved" /\ plan' \in SameCoverage /\ plan' = f
        /\ UNCHANGED <<day, engine, minimum, report>>
      BY <1>4 DEF SolvePenalty
  <2>4. SameCoverage' = SameCoverage /\ \A g : CostsLess(g, plan)' = CostsLess(g, f)
      BY <2>3 DEF SameCoverage, CostsLess
  <2> QED
      BY <2>1, <2>2, <2>3, <2>4
<1>5. CASE TimeOut
  <2>1. status' \in [1 .. 2 -> Statuses]
      BY <1>5 DEF TimeOut
  <2> QED
      BY <1>5, <2>1 DEF TimeOut
<1>6. CASE Report
    BY <1>6 DEF Report, SameCoverage, CostsLess, Assess, TakenInSlot
<1> QED
    BY <1>1, <1>2, <1>3, <1>4, <1>5, <1>6 DEF Next

LEMMA RoundsFrame ==
    ASSUME RoundsInv, UNCHANGED vars
    PROVE  RoundsInv'
  BY DEF vars, RoundsInv, SameCoverage, CostsLess, Assess, TakenInSlot

\* A better assignment than an optimal plan there is not, so nobody who could
\* take an uncovered need is free.
LEMMA OptimalLeavesNobodyIdle ==
    ASSUME WellFormed(day), RoundsInv, pc = "reported" => ~ Refused(engine, day)
    PROVE  NobodyIdleForUncovered
<1> SUFFICES ASSUME pc = "reported", status[1] = "OPTIMAL", NEW a \in report,
                    a.need \in Uncovered(day, plan), a.status # "REJECTED"
             PROVE  FALSE
    BY DEF NobodyIdleForUncovered
<1>1. PICK n \in Needs(day), t \in day.teachers :
         a = [need |-> n, teacher |-> t.id, status |-> Assess(n, t)]
    BY DEF RoundsInv
<1>2. n \in Uncovered(day, plan) /\ plan[n] = Nobody /\ Assess(n, t) # "REJECTED"
    BY <1>1 DEF Uncovered
<1>3. t.id # Nobody /\ plan[n] # t.id
    BY <1>2 DEF WellFormed, WellFormedLessons, WellFormedTeachers
<1>4. IsCandidate(engine, day, n, t) /\ ~ TakenInSlot(t.id, n.slot)
    BY <1>2, <1>3 DEF Assess
<1>5. plan \in Assignments(engine, day) /\ Cardinality(Uncovered(day, plan)) = minimum
    BY DEF RoundsInv, SameCoverage
<1>6. t \in Candidates(engine, day, n)
    BY <1>4 DEF Candidates
<1>7. \A m \in Needs(day) : m.slot = n.slot => plan[m] # t.id
    BY <1>4 DEF TakenInSlot
<1>8. \E g \in Assignments(engine, day) :
         Cardinality(Uncovered(day, g)) < Cardinality(Uncovered(day, plan))
    BY <1>2, <1>5, <1>6, <1>7, CoverOneMore
<1> QED
    BY <1>5, <1>8 DEF RoundsInv

LEMMA OptimalFlexibleCoversMore ==
    ASSUME WellFormed(day), RoundsInv
    PROVE  FlexibleCoversMore
<1> SUFFICES ASSUME pc = "reported", engine = "flexible", status[1] = "OPTIMAL",
                    NEW f \in Assignments("strict", day)
             PROVE  Cardinality(Uncovered(day, plan)) <= Cardinality(Uncovered(day, f))
    BY DEF FlexibleCoversMore
<1>1. f \in Assignments("flexible", day)
    BY StrictIsFlexible
<1>2. Cardinality(Uncovered(day, plan)) = minimum
    BY DEF RoundsInv, SameCoverage
<1>3. Cardinality(Uncovered(day, f)) \in Nat /\ minimum \in Nat
    BY UncoveredIsFinite DEF WellFormed, WellFormedLessons, WellFormedTeachers, RoundsInv
<1> QED
    BY <1>1, <1>2, <1>3 DEF RoundsInv

\* Every variable of a single day keeps its type; a reported day has a verdict on
\* every teacher for every need.
THEOREM DayIsTyped == Spec => []TypeOK
<1> DEFINE Inv == /\ day \in Days /\ engine \in Engines
                  /\ pc \in {"start", "coverage", "penalty", "solved", "reported", "invalid",
                             "failed"}
                  /\ RoundsInv
<1>1. Init => Inv
  <2>1. Init => \A d \in Days : d = day => StartsWith(d) /\ IsFiniteSet(d.activities)
      BY IdsAssumption DEF Init, StartsWith, WellFormed, WellFormedLessons
  <2> QED
      BY <2>1, RoundsAtStart DEF Init
<1>2. Inv /\ [Next]_vars => Inv'
  <2> SUFFICES ASSUME Inv, [Next]_vars PROVE Inv'
      OBVIOUS
  <2>1. WellFormed(day)
      BY IdsAssumption DEF WellFormed, WellFormedLessons, WellFormedTeachers
  <2>2. RoundsInv'
      BY <2>1, RoundsStep, RoundsFrame
  <2>3. /\ day' \in Days /\ engine' \in Engines
        /\ pc' \in {"start", "coverage", "penalty", "solved", "reported", "invalid", "failed"}
    <3>1. CASE UNCHANGED vars
        BY <3>1 DEF vars
    <3>2. CASE Next
        BY <3>2, NextKeepsDay
    <3> QED
        BY <3>1, <3>2
  <2> QED
      BY <2>2, <2>3
<1>3. Inv => TypeOK
  <2> SUFFICES ASSUME Inv PROVE TypeOK
      OBVIOUS
  <2>1. \A n \in Needs(day), t \in day.teachers : Assess(n, t) \in Assessments
      BY DEF Assess, Usable, Assessments
  <2>2. \A a \in report : a.status \in Assessments
      BY <2>1 DEF RoundsInv
  <2>3. pc = "reported" => \A n \in Needs(day), t \in day.teachers :
                              \E a \in report : a.need = n /\ a.teacher = t.id
    <3> SUFFICES ASSUME pc = "reported", NEW n \in Needs(day), NEW t \in day.teachers
                 PROVE  \E a \in report : a.need = n /\ a.teacher = t.id
        OBVIOUS
    <3> DEFINE a == [need |-> n, teacher |-> t.id, status |-> Assess(n, t)]
    <3>1. a \in report
        BY DEF RoundsInv
    <3>2. a.need = n /\ a.teacher = t.id
        OBVIOUS
    <3> QED
        BY <3>1, <3>2
  <2>4. /\ status \in [1 .. 2 -> Statuses]
        /\ minimum \in 0 .. Cardinality(Needs(day))
        /\ pc \in {"solved", "reported"} => plan \in Assignments(engine, day)
      BY DEF RoundsInv, SameCoverage
  <2> QED
      BY <2>2, <2>3, <2>4 DEF TypeOK
<1> QED
    BY <1>1, <1>2, <1>3, PTL DEF Spec

-----------------------------------------------------------------------------
(* Giving a need to a candidate who is free                                   *)

\* What an alternative of the report is.
LEMMA AlternativeIsFree ==
    ASSUME WellFormed(day), RoundsInv, NEW a \in report, a.status \in Alternative
    PROVE  \E n \in Needs(day), t \in day.teachers :
              /\ a.need = n /\ a.teacher = t.id /\ t.id # Nobody
              /\ t \in Candidates(engine, day, n)
              /\ plan[n] # t.id
              /\ \A m \in Needs(day) : m.slot = n.slot => plan[m] # t.id
<1>1. pc = "reported"
    BY DEF RoundsInv
<1>2. PICK n \in Needs(day), t \in day.teachers :
         a = [need |-> n, teacher |-> t.id, status |-> Assess(n, t)]
    BY <1>1 DEF RoundsInv
<1>3. Assess(n, t) \in Alternative
    BY <1>2
<1>4. IsCandidate(engine, day, n, t) /\ plan[n] # t.id /\ ~ TakenInSlot(t.id, n.slot)
    BY <1>3 DEF Assess, Alternative
<1>5. t.id # Nobody
    BY DEF WellFormed, WellFormedTeachers
<1>6. a.need = n /\ a.teacher = t.id
    BY <1>2
<1> QED
    BY <1>4, <1>5, <1>6 DEF Candidates, TakenInSlot

\* The plan in which such a candidate takes the need keeps what is locked for the
\* other needs, and nobody is in two places.
LEMMA GiveTo ==
    ASSUME NEW e, NEW d, NEW f \in Assignments(e, d), NEW n \in Needs(d),
           NEW t \in Candidates(e, d, n),
           \A m \in Needs(d) : m.slot = n.slot => f[m] # t.id
    PROVE  LET g == [f EXCEPT ![n] = t.id]
           IN  /\ g \in [Needs(d) -> {u.id : u \in d.teachers} \cup {Nobody}]
               /\ g[n] = t.id
               /\ \A m \in Needs(d) \ {n} : g[m] = f[m]
               /\ \A m \in Needs(d) :
                     g[m] # Nobody => \E u \in Candidates(e, d, m) : u.id = g[m]
               /\ OncePerSlot(d, g)
<1> DEFINE g == [f EXCEPT ![n] = t.id]
<1>1. t \in d.teachers
    BY DEF Candidates
<1>2. f \in [Needs(d) -> {u.id : u \in d.teachers} \cup {Nobody}]
    BY DEF Assignments
<1>3. /\ g \in [Needs(d) -> {u.id : u \in d.teachers} \cup {Nobody}]
      /\ g[n] = t.id
      /\ \A m \in Needs(d) \ {n} : g[m] = f[m]
    BY <1>1, <1>2
<1> HIDE DEF g
<1>4. \A m \in Needs(d) : g[m] # Nobody => \E u \in Candidates(e, d, m) : u.id = g[m]
    BY <1>3 DEF Assignments
<1>5. OncePerSlot(d, g)
  <2>1. OncePerSlot(d, f)
      BY DEF Assignments
  <2> QED
      BY <1>3, <2>1 DEF OncePerSlot
<1> QED
    BY <1>3, <1>4, <1>5 DEF g

\* The days before and after locking in an alternative differ in the locks only.
LEMMA LockingIsLocal ==
    ASSUME NEW n, NEW teacher
    PROVE  LET next == Locking(n, teacher)
           IN  /\ next.activities = day.activities /\ next.teachers = day.teachers
               /\ Needs(next) = Needs(day)
               /\ \A m : Candidates(engine, next, m) = Candidates(engine, day, m)
               /\ DoubleBooked(next) = DoubleBooked(day)
               /\ \A f : OncePerSlot(next, f) = OncePerSlot(day, f)
<1> DEFINE next == Locking(n, teacher)
<1>1. /\ next.activities = day.activities /\ next.teachers = day.teachers
      /\ next.absences = day.absences
    BY DEF Locking
<1> HIDE DEF next
<1>2. \A id, slot : Absent(next, id, slot) = Absent(day, id, slot)
    BY <1>1 DEF Absent
<1>3. Needs(next) = Needs(day)
    BY <1>1, <1>2 DEF Needs
<1>4. \A id, slot : Current(next, id, slot) = Current(day, id, slot)
    BY <1>1 DEF Current
<1>5. \A m, t : IsCandidate(engine, next, m, t) = IsCandidate(engine, day, m, t)
    BY <1>2, <1>4 DEF IsCandidate
<1>6. \A m : Candidates(engine, next, m) = Candidates(engine, day, m)
    BY <1>1, <1>5 DEF Candidates
<1>7. DoubleBooked(next) = DoubleBooked(day)
    BY <1>1 DEF DoubleBooked
<1>8. \A f : OncePerSlot(next, f) = OncePerSlot(day, f)
    BY <1>3 DEF OncePerSlot
<1> QED
    BY <1>1, <1>3, <1>6, <1>7, <1>8 DEF next

\* The locks then are those of the other activities, and one for this need.
LEMMA LockingLocks ==
    ASSUME IsList(day.locked), NEW n, NEW teacher, ~ LocksClash(day)
    PROVE  LET next == Locking(n, teacher)
           IN  \E k \in DOMAIN next.locked :
                  /\ next.locked[k] = [activity |-> n.id, teacher |-> teacher]
                  /\ \A i \in DOMAIN next.locked \ {k} :
                        /\ i \in DOMAIN day.locked
                        /\ next.locked[i] = day.locked[i]
                        /\ day.locked[i].activity # n.id
<1> DEFINE lock  == [activity |-> n.id, teacher |-> teacher]
           after == Locking(n, teacher).locked
<1>1. CASE Locked(n)
  <2>1. PICK k \in DOMAIN day.locked : day.locked[k].activity = n.id
      BY <1>1 DEF Locked
  <2>2. \A i \in DOMAIN day.locked : i # k => day.locked[i].activity # n.id
      BY <2>1 DEF LocksClash
  <2>3. after = [i \in DOMAIN day.locked |->
                   IF day.locked[i].activity = n.id THEN lock ELSE day.locked[i]]
      BY <1>1 DEF Locking
  <2> HIDE DEF lock, after
  <2>4. k \in DOMAIN after /\ after[k] = lock
      BY <2>1, <2>3
  <2>5. \A i \in DOMAIN after \ {k} : /\ i \in DOMAIN day.locked /\ after[i] = day.locked[i]
                                      /\ day.locked[i].activity # n.id
      BY <2>2, <2>3
  <2> QED
      BY <2>4, <2>5 DEF lock, after
<1>2. CASE ~ Locked(n)
  <2>1. after = Append(day.locked, lock)
      BY <1>2 DEF Locking
  <2>2. day.locked \in Seq(Range(day.locked) \cup {lock})
      BY DEF IsList
  <2> HIDE DEF lock, after
  <2>3. /\ DOMAIN after = 1 .. Len(day.locked) + 1 /\ DOMAIN day.locked = 1 .. Len(day.locked)
        /\ after[Len(day.locked) + 1] = lock
        /\ \A i \in 1 .. Len(day.locked) : after[i] = day.locked[i]
        /\ Len(day.locked) \in Nat
      BY <2>1, <2>2
  <2>4. \A i \in DOMAIN day.locked : day.locked[i].activity # n.id
      BY <1>2 DEF Locked
  <2>5. Len(day.locked) + 1 \in DOMAIN after
      BY <2>3
  <2>6. \A i \in DOMAIN after \ {Len(day.locked) + 1} :
           i \in DOMAIN day.locked /\ after[i] = day.locked[i] /\ day.locked[i].activity # n.id
      BY <2>3, <2>4
  <2> QED
      BY <2>3, <2>5, <2>6 DEF lock, after
<1> QED
    BY <1>1, <1>2

\* The best coverage of a day covers at least as much as any assignment.
LEMMA FewestIsFewest ==
    ASSUME NEW e, NEW d, IsFiniteSet(d.activities), NEW f \in Assignments(e, d)
    PROVE  /\ FewestUncovered(e, d) \in Nat
           /\ FewestUncovered(e, d) <= Cardinality(Uncovered(d, f))
<1> DEFINE Counts == {Cardinality(Uncovered(d, g)) : g \in Assignments(e, d)}
<1>1. Counts \subseteq Nat
    BY UncoveredIsFinite
<1>2. Counts # {}
    OBVIOUS
<1>3. Cardinality(Uncovered(d, f)) \in Counts
    OBVIOUS
<1>4. FewestUncovered(e, d) = Min(Counts)
    BY DEF FewestUncovered
<1> HIDE DEF Counts
<1>5. \E k \in Counts : \A m \in Counts : k <= m
    BY <1>1, <1>2, LeastNatural
<1>6. Min(Counts) \in Counts /\ \A m \in Counts : Min(Counts) <= m
    BY <1>5 DEF Min
<1> QED
    BY <1>1, <1>3, <1>4, <1>6

\* What is offered can be locked in.
LEMMA OffersCanBeLocked ==
    ASSUME WellFormed(day), RoundsInv, pc = "reported" => ~ Refused(engine, day)
    PROVE  AlternativesCanBeLocked
<1> SUFFICES ASSUME NEW a \in report, a.status \in Alternative
             PROVE  /\ ~ Refused(engine, Locking(a.need, a.teacher))
                    /\ FewestUncovered(engine, Locking(a.need, a.teacher)) <= minimum
    BY DEF AlternativesCanBeLocked
<1>1. PICK n \in Needs(day), t \in day.teachers :
         /\ a.need = n /\ a.teacher = t.id /\ t.id # Nobody
         /\ t \in Candidates(engine, day, n)
         /\ plan[n] # t.id
         /\ \A m \in Needs(day) : m.slot = n.slot => plan[m] # t.id
    BY AlternativeIsFree
<1>2. /\ pc = "reported" /\ ~ Refused(engine, day)
      /\ plan \in Assignments(engine, day) /\ Cardinality(Uncovered(day, plan)) = minimum
    BY DEF RoundsInv, SameCoverage
<1> DEFINE next == Locking(n, t.id)
           lock == [activity |-> n.id, teacher |-> t.id]
<1>3. /\ next.activities = day.activities /\ next.teachers = day.teachers
      /\ Needs(next) = Needs(day)
      /\ \A m : Candidates(engine, next, m) = Candidates(engine, day, m)
      /\ DoubleBooked(next) = DoubleBooked(day)
      /\ \A f : OncePerSlot(next, f) = OncePerSlot(day, f)
    BY LockingIsLocal
<1>4. PICK k \in DOMAIN next.locked :
         /\ next.locked[k] = lock
         /\ \A i \in DOMAIN next.locked \ {k} :
               /\ i \in DOMAIN day.locked
               /\ next.locked[i] = day.locked[i]
               /\ day.locked[i].activity # n.id
  <2>1. IsList(day.locked) /\ ~ LocksClash(day)
      BY <1>2 DEF WellFormed, Refused
  <2> QED
      BY <2>1, LockingLocks
<1>5. lock.activity = n.id /\ lock.teacher = t.id
    OBVIOUS
<1>6. \A m \in Needs(day) : m.id = n.id => m = n
    BY DEF WellFormed, WellFormedLessons, Needs
<1> HIDE DEF next, lock
\* No other lock wants this teacher in this slot, for the plan keeps the locks.
<1>7. ASSUME NEW i \in DOMAIN next.locked \ {k}
      PROVE  ~ (next.locked[i].teacher = t.id /\ SameSlot(next, next.locked[i], lock))
  <2> SUFFICES ASSUME next.locked[i].teacher = t.id, SameSlot(next, next.locked[i], lock)
               PROVE  FALSE
      OBVIOUS
  <2>1. PICK m \in Needs(day) : m.id = next.locked[i].activity /\ m.slot = n.slot
      BY <1>3, <1>5, <1>6 DEF SameSlot
  <2>2. plan[m] = next.locked[i].teacher
      BY <1>2, <1>4, <2>1 DEF Assignments, KeepsLocks
  <2> QED
      BY <1>1, <2>1, <2>2
<1>8. ~ LocksClash(next)
  <2> SUFFICES ASSUME NEW i \in DOMAIN next.locked, NEW j \in DOMAIN next.locked, i # j
               PROVE  /\ next.locked[i].activity # next.locked[j].activity
                      /\ ~ (/\ next.locked[i].teacher = next.locked[j].teacher
                            /\ SameSlot(next, next.locked[i], next.locked[j]))
      BY DEF LocksClash
  <2>1. \A x, y : SameSlot(next, x, y) = SameSlot(day, x, y) /\ (SameSlot(day, x, y) => SameSlot(day, y, x))
      BY <1>3 DEF SameSlot
  <2>2. CASE i = k
      BY <1>4, <1>5, <1>7, <2>1, <2>2
  <2>3. CASE j = k
      BY <1>4, <1>5, <1>7, <2>1, <2>3
  <2>4. CASE i # k /\ j # k
    <3>1. ~ LocksClash(day)
        BY <1>2 DEF Refused
    <3> QED
        BY <1>4, <2>1, <2>4, <3>1 DEF LocksClash
  <2> QED
      BY <2>2, <2>3, <2>4
<1>9. ASSUME NEW i \in DOMAIN next.locked
      PROVE  ~ LockRefused(engine, next, next.locked[i])
  <2>1. CASE i = k
      BY <1>1, <1>3, <1>4, <1>5, <2>1 DEF LockRefused
  <2>2. CASE i # k
    <3>1. ~ LockRefused(engine, day, day.locked[i])
        BY <1>2, <1>4, <2>2 DEF Refused
    <3> QED
        BY <1>3, <1>4, <2>2, <3>1 DEF LockRefused
  <2> QED
      BY <2>1, <2>2
<1>10. ~ Refused(engine, next)
    BY <1>2, <1>3, <1>8, <1>9 DEF Refused
<1> DEFINE g == [plan EXCEPT ![n] = t.id]
<1>11. /\ g \in [Needs(day) -> {u.id : u \in day.teachers} \cup {Nobody}]
       /\ g[n] = t.id
       /\ \A m \in Needs(day) \ {n} : g[m] = plan[m]
       /\ \A m \in Needs(day) :
             g[m] # Nobody => \E u \in Candidates(engine, day, m) : u.id = g[m]
       /\ OncePerSlot(day, g)
    BY <1>1, <1>2, GiveTo
<1> HIDE DEF g
<1>12. KeepsLocks(next, g)
  <2> SUFFICES ASSUME NEW i \in DOMAIN next.locked, NEW m \in Needs(day),
                      m.id = next.locked[i].activity
               PROVE  g[m] = next.locked[i].teacher
      BY <1>3 DEF KeepsLocks
  <2>1. CASE i = k
      BY <1>4, <1>5, <1>6, <1>11, <2>1
  <2>2. CASE i # k
    <3>1. m # n /\ g[m] = plan[m]
        BY <1>4, <1>11, <2>2
    <3>2. KeepsLocks(day, plan)
        BY <1>2 DEF Assignments
    <3> QED
        BY <1>4, <2>2, <3>1, <3>2 DEF KeepsLocks
  <2> QED
      BY <2>1, <2>2
<1>13. g \in Assignments(engine, next)
    BY <1>3, <1>11, <1>12 DEF Assignments
<1>14. Uncovered(next, g) \subseteq Uncovered(day, plan)
    BY <1>1, <1>3, <1>11 DEF Uncovered
<1>15. /\ IsFiniteSet(next.activities) /\ IsFiniteSet(day.activities)
    BY <1>3 DEF WellFormed, WellFormedLessons
<1>16. Cardinality(Uncovered(next, g)) <= Cardinality(Uncovered(day, plan))
    BY <1>14, <1>15, UncoveredIsFinite, FS_Subset
<1>17. /\ FewestUncovered(engine, next) \in Nat
       /\ FewestUncovered(engine, next) <= Cardinality(Uncovered(next, g))
    BY <1>13, <1>15, FewestIsFewest
<1>18. Cardinality(Uncovered(next, g)) \in Nat /\ Cardinality(Uncovered(day, plan)) \in Nat
    BY <1>15, UncoveredIsFinite
<1>19. FewestUncovered(engine, next) <= minimum
    BY <1>2, <1>16, <1>17, <1>18
<1> QED
    BY <1>1, <1>10, <1>19 DEF next

-----------------------------------------------------------------------------
(* Penalties                                                                  *)

LEMMA DisplacementIsInteger ==
    ASSUME NEW a, a.priority \in {Cancelable, Flexible, Normal, High, Critical}
    PROVE  DisplacementPenalty(a) \in Int
<1>1. PriorityPenalty(a) \in Int
  <2>1. CASE a.priority = Cancelable
      BY <2>1 DEF PriorityPenalty, Cancelable, Flexible, Normal, High, Critical, Weights
  <2>2. CASE a.priority = Flexible
      BY <2>2 DEF PriorityPenalty, Cancelable, Flexible, Normal, High, Critical, Weights
  <2>3. CASE a.priority = Normal
      BY <2>3 DEF PriorityPenalty, Cancelable, Flexible, Normal, High, Critical, Weights
  <2>4. CASE a.priority = High
      BY <2>4 DEF PriorityPenalty, Cancelable, Flexible, Normal, High, Critical, Weights
  <2>5. CASE a.priority = Critical
      BY <2>5 DEF PriorityPenalty, Cancelable, Flexible, Normal, High, Critical, Weights
  <2> QED
      BY <2>1, <2>2, <2>3, <2>4, <2>5
<1>2. Weights.ptAlMultiplier \in Int
    BY DEF Weights
<1> QED
    BY <1>1, <1>2 DEF DisplacementPenalty

\* What all duties cost together that a teacher leaves in a slot.
Displaced(d, id, slot) == SumFunction([a \in Current(d, id, slot) |-> DisplacementPenalty(a)])

LEMMA DisplacedIsInteger ==
    ASSUME NEW d, WellFormedLessons(d.activities), NEW id, NEW slot
    PROVE  Displaced(d, id, slot) \in Int
<1> DEFINE Cost == [a \in Current(d, id, slot) |-> DisplacementPenalty(a)]
<1>1. Current(d, id, slot) \in SUBSET d.activities
    BY DEF Current
<1>2. IsFiniteSet(Current(d, id, slot))
    BY <1>1, FS_Subset DEF WellFormedLessons
<1>3. \A a \in Current(d, id, slot) : Cost[a] \in Int
    BY <1>1, DisplacementIsInteger DEF WellFormedLessons
<1>4. DOMAIN Cost = Current(d, id, slot)
    OBVIOUS
<1> HIDE DEF Cost
<1>5. SumFunctionOnSet(Cost, Current(d, id, slot)) \in Int
    BY <1>2, <1>3, SumType
<1> QED
    BY <1>4, <1>5 DEF Displaced, SumFunction, Cost

\* The parts of a penalty.
LEMMA PenaltyParts ==
    ASSUME NEW d, NEW n, NEW t
    PROVE  Penalty(d, n, t) =
              t.count * 30 + t.last7 * 120 + t.last30 * 30
              + (IF t.emergency THEN 2000 ELSE 0)
              + Displaced(d, t.id, n.slot)
              + (IF MissesSpecialty(n, t) THEN 12000 ELSE 0)
  BY DEF Penalty, Displaced, Weights

LEMMA PenaltyIsInteger ==
    ASSUME NEW d, WellFormed(d), NEW n, NEW t \in d.teachers
    PROVE  Penalty(d, n, t) \in Int
<1>1. Displaced(d, t.id, n.slot) \in Int
    BY DisplacedIsInteger DEF WellFormed
<1>2. t.count \in Int /\ t.last7 \in Int /\ t.last30 \in Int
    BY DEF WellFormed, WellFormedTeachers
<1>3. (IF t.emergency THEN 2000 ELSE 0) \in Int /\ (IF MissesSpecialty(n, t) THEN 12000 ELSE 0) \in Int
    OBVIOUS
<1> QED
    BY <1>1, <1>2, <1>3, PenaltyParts

\* The teachers of a plan are there.
LEMMA TeacherOfPlan ==
    ASSUME NEW d, NEW id, \E t \in d.teachers : t.id = id
    PROVE  Teacher(d, id) \in d.teachers /\ Teacher(d, id).id = id
  BY DEF Teacher

\* In an optimal plan nobody on offer is cheaper: giving the need to somebody who
\* is covers as much, and the rest of the penalty stays.
LEMMA OptimalIsCheapest ==
    ASSUME WellFormed(day), RoundsInv
    PROVE  SelectedIsCheapest
<1> SUFFICES ASSUME pc = "reported", Optimal, NEW n \in Covered(day, plan), NEW a \in report,
                    a.need = n, a.status \in Alternative, ~ Locked(n)
             PROVE  Penalty(day, n, Teacher(day, plan[n]))
                       <= Penalty(day, n, Teacher(day, a.teacher))
    BY DEF SelectedIsCheapest
<1>1. PICK t \in day.teachers :
         /\ a.teacher = t.id /\ t.id # Nobody
         /\ t \in Candidates(engine, day, n)
         /\ \A m \in Needs(day) : m.slot = n.slot => plan[m] # t.id
    BY AlternativeIsFree
<1>2. n \in Needs(day) /\ plan[n] # Nobody
    BY DEF Covered
<1>3. /\ plan \in Assignments(engine, day) /\ Cardinality(Uncovered(day, plan)) = minimum
      /\ \A g \in SameCoverage : ~ CostsLess(g, plan)
    BY DEF RoundsInv, SameCoverage, Optimal
<1> DEFINE g == [plan EXCEPT ![n] = t.id]
<1>4. /\ g \in [Needs(day) -> {u.id : u \in day.teachers} \cup {Nobody}]
      /\ g[n] = t.id
      /\ \A m \in Needs(day) \ {n} : g[m] = plan[m]
      /\ \A m \in Needs(day) :
            g[m] # Nobody => \E u \in Candidates(engine, day, m) : u.id = g[m]
      /\ OncePerSlot(day, g)
    BY <1>1, <1>2, <1>3, GiveTo
<1> HIDE DEF g
<1>5. KeepsLocks(day, g)
    BY <1>3, <1>4 DEF Assignments, KeepsLocks, Locked
<1>6. g \in Assignments(engine, day)
    BY <1>4, <1>5 DEF Assignments
<1>7. Uncovered(day, g) = Uncovered(day, plan) /\ Covered(day, g) = Covered(day, plan)
    BY <1>1, <1>2, <1>4 DEF Uncovered, Covered
<1>8. ~ (SoftPenalty(day, g) < SoftPenalty(day, plan))
    BY <1>3, <1>6, <1>7 DEF SameCoverage, CostsLess
<1> DEFINE S == Covered(day, plan)
           Cost(f) == [m \in S |-> Penalty(day, m, Teacher(day, f[m]))]
           Before == Cost(plan)
           Then   == Cost(g)
<1>9. IsFiniteSet(S) /\ IsFiniteSet(S \ {n})
  <2>1. IsFiniteSet(Needs(day)) /\ S \in SUBSET Needs(day)
      BY NeedsAreFinite DEF WellFormed, WellFormedLessons, Covered
  <2> QED
      BY <2>1, FS_Subset
<1>10. ASSUME NEW f \in Assignments(engine, day), NEW m \in Covered(day, f)
       PROVE  Penalty(day, m, Teacher(day, f[m])) \in Int
  <2>1. \E u \in day.teachers : u.id = f[m]
      BY DEF Assignments, Covered, Candidates
  <2> QED
      BY <2>1, TeacherOfPlan, PenaltyIsInteger
<1>11. \A m \in S : Before[m] \in Int /\ Then[m] \in Int
    BY <1>3, <1>6, <1>7, <1>10
<1>12. \A m \in S \ {n} : Then[m] = Before[m]
    BY <1>4 DEF Covered
<1>13. /\ SoftPenalty(day, plan) = SumFunctionOnSet(Before, S)
       /\ SoftPenalty(day, g) = SumFunctionOnSet(Then, S)
    BY <1>7 DEF SoftPenalty, SumFunction
<1>14. /\ Before[n] = Penalty(day, n, Teacher(day, plan[n]))
       /\ Then[n] = Penalty(day, n, Teacher(day, a.teacher))
    BY <1>1, <1>4
<1> HIDE DEF S, Before, Then, Cost
<1>15. n \in S
    BY DEF S
<1>16. SumFunctionOnSet(Before, S) = Before[n] + SumFunctionOnSet(Before, S \ {n})
    BY <1>9, <1>11, <1>15, SumTakesOut
<1>17. SumFunctionOnSet(Then, S) = Then[n] + SumFunctionOnSet(Then, S \ {n})
    BY <1>9, <1>11, <1>15, SumTakesOut
<1>18. SumFunctionOnSet(Then, S \ {n}) = SumFunctionOnSet(Before, S \ {n})
    BY <1>9, <1>12, SumSame
<1>19. SumFunctionOnSet(Before, S \ {n}) \in Int
    BY <1>9, <1>11, SumType
<1>20. Before[n] <= Then[n]
    BY <1>8, <1>11, <1>13, <1>15, <1>16, <1>17, <1>18, <1>19
<1> QED
    BY <1>14, <1>20

-----------------------------------------------------------------------------
(* The days of a week                                                         *)

\* The counts change from day to day, the ids do not.
HaveFields(teachers) ==
    /\ WellFormedTeachers(teachers)
    /\ \A t \in teachers :
          {"id", "specialties", "emergency", "count", "last7", "last30"} \subseteq DOMAIN t

\* What PlanInv says, for the days of a week too, and what the rounds leave behind.
WeekInv ==
    /\ WellFormed(day)
    /\ HaveFields(evolving)
    /\ week # NoWeek => week \in Weeks
    /\ current # 0 => week \in Weeks
    /\ pc \in {"coverage", "penalty", "solved", "reported"} => ~ Refused(engine, day)
    /\ pc = "penalty" => SameCoverage # {}
    /\ RoundsInv

\* What adding to the counts of a teacher does, and that it adds up.
LEMMA AfterAdds ==
    ASSUME NEW t, {"id", "specialties", "emergency", "count", "last7", "last30"} \subseteq DOMAIN t,
           t.count \in Int, t.last7 \in Int, t.last30 \in Int, NEW added \in Int
    PROVE  /\ DOMAIN After(t, added) = DOMAIN t
           /\ After(t, added).id = t.id
           /\ After(t, added).specialties = t.specialties
           /\ After(t, added).emergency = t.emergency
           /\ After(t, added).count = t.count + added
           /\ After(t, added).last7 = t.last7 + added
           /\ After(t, added).last30 = t.last30 + added
  BY DEF After

LEMMA AfterTwice ==
    ASSUME NEW t, {"id", "specialties", "emergency", "count", "last7", "last30"} \subseteq DOMAIN t,
           t.count \in Int, t.last7 \in Int, t.last30 \in Int, NEW x \in Int, NEW y \in Int
    PROVE  After(After(t, x), y) = After(t, x + y)
<1>1. /\ (t.count + x) + y = t.count + (x + y) /\ (t.last7 + x) + y = t.last7 + (x + y)
      /\ (t.last30 + x) + y = t.last30 + (x + y)
    OBVIOUS
<1> QED
    BY <1>1 DEF After

LEMMA TakenIsNatural ==
    ASSUME NEW id, NEW d, IsFiniteSet(d.activities), NEW f
    PROVE  Taken(id, d, f) \in Nat
<1>1. {n \in Needs(d) : f[n] = id} \in SUBSET Needs(d)
    OBVIOUS
<1> QED
    BY <1>1, NeedsAreFinite, FS_Subset, FS_CardinalityType DEF Taken

LEMMA EvolvedHaveFields ==
    ASSUME HaveFields(evolving), WellFormed(day)
    PROVE  HaveFields(Evolved)
<1> SUFFICES ASSUME NEW t \in evolving
             PROVE  LET u == After(t, Taken(t.id, day, plan))
                    IN  /\ u.id # Nobody
                        /\ u.count \in Int /\ u.last7 \in Int /\ u.last30 \in Int
                        /\ DOMAIN u = DOMAIN t
    BY DEF Evolved, HaveFields, WellFormedTeachers
<1>1. Taken(t.id, day, plan) \in Int
    BY TakenIsNatural DEF WellFormed, WellFormedLessons
<1>2. /\ {"id", "specialties", "emergency", "count", "last7", "last30"} \subseteq DOMAIN t
      /\ t.id # Nobody /\ t.count \in Int /\ t.last7 \in Int /\ t.last30 \in Int
    BY DEF HaveFields, WellFormedTeachers
<1> QED
    BY <1>1, <1>2, AfterAdds

LEMMA DayOfWeekIsWellFormed ==
    ASSUME week \in Weeks, NEW i \in DOMAIN week.problems, NEW teachers, HaveFields(teachers)
    PROVE  WellFormed(DayOf(i, teachers))
  BY WeeksAssumption DEF DayOf, WellFormed, HaveFields

LEMMA WeekInvInit == WeekInit => WeekInv
<1> SUFFICES ASSUME WeekInit PROVE WeekInv
    OBVIOUS
<1>1. CASE week = NoWeek /\ current = 0 /\ evolving = {} /\ Init
  <2>1. WellFormed(day) /\ HaveFields(evolving) /\ IsFiniteSet(day.activities)
      BY <1>1, IdsAssumption
      DEF Init, WellFormed, WellFormedLessons, WellFormedTeachers, HaveFields
  <2>2. StartsWith(day) /\ pc = "start"
      BY <1>1 DEF Init, StartsWith
  <2> QED
      BY <1>1, <2>1, <2>2, RoundsAtStart DEF WeekInv
<1>2. CASE /\ week \in Weeks
           /\ IsNext(current, DOMAIN week.problems)
           /\ evolving = week.teachers
           /\ day = DayOf(current, week.teachers)
           /\ pc = "start" /\ status = [i \in 1 .. 2 |-> "none"]
           /\ minimum = 0 /\ report = {}
  <2>1. HaveFields(week.teachers)
      BY <1>2, WeeksAssumption DEF HaveFields, IsRecord
  <2>2. WellFormed(day)
      BY <1>2, <2>1, DayOfWeekIsWellFormed DEF IsNext
  <2>3. StartsWith(day)
      BY <1>2 DEF StartsWith
  <2>4. RoundsInv
      BY <2>2, <2>3, RoundsAtStart DEF WellFormed, WellFormedLessons
  <2> QED
      BY <1>2, <2>1, <2>2, <2>4 DEF WeekInv
<1> QED
    BY <1>1, <1>2 DEF WeekInit

LEMMA WeekInvStep == WeekInv /\ [WeekNext]_<<vars, weekVars>> => WeekInv'
<1> SUFFICES ASSUME WeekInv, [WeekNext]_<<vars, weekVars>>
             PROVE  WeekInv'
    OBVIOUS
<1>1. CASE Next /\ UNCHANGED weekVars
  <2>1. RoundsInv' /\ UNCHANGED <<day, engine, week, current, evolving>>
      BY <1>1, RoundsStep, NextKeepsDay DEF WeekInv, weekVars
  <2>2. /\ pc' \in {"coverage", "penalty", "solved", "reported"} => ~ Refused(engine, day)'
        /\ pc' = "penalty" => SameCoverage' # {}
    <3>1. CASE RefuseInput \/ BuildModel \/ TimeOut \/ Report
        BY <2>1, <3>1 DEF RefuseInput, BuildModel, TimeOut, Report, WeekInv
    <3>2. ASSUME NEW f \in Assignments(engine, day), SolveCoverage(f)
          PROVE  ~ Refused(engine, day)' /\ SameCoverage' # {}
        BY <3>2 DEF SolveCoverage, WeekInv, SameCoverage
    <3>3. ASSUME NEW f \in Assignments(engine, day), SolvePenalty(f)
          PROVE  ~ Refused(engine, day)' /\ pc' # "penalty"
        BY <3>3 DEF SolvePenalty, WeekInv
    <3> QED
        BY <1>1, <3>1, <3>2, <3>3 DEF Next
  <2> QED
      BY <2>1, <2>2 DEF WeekInv, WellFormed, HaveFields, WellFormedTeachers
<1>2. CASE CarryOver
  <2>1. HaveFields(evolving') /\ UNCHANGED week
      BY <1>2, EvolvedHaveFields DEF CarryOver, WeekInv
  <2>2. CASE UNCHANGED vars /\ current' = 0
      BY <2>1, <2>2, RoundsFrame DEF vars, WeekInv, SameCoverage
  <2>3. ASSUME NEW i \in Rest, day' = DayOf(i, Evolved), pc' = "start",
               status' = [j \in 1 .. 2 |-> "none"], minimum' = 0, report' = {}
        PROVE  WeekInv'
    <3>1. week \in Weeks /\ i \in DOMAIN week.problems
        BY <1>2, <2>3 DEF CarryOver, Rest, WeekInv
    <3>2. HaveFields(Evolved)
        BY EvolvedHaveFields DEF WeekInv
    <3>3. WellFormed(day')
        BY <2>3, <3>1, <3>2, DayOfWeekIsWellFormed
    <3>4. RoundsInv'
        BY <2>3, <3>3, RoundsRestart DEF WellFormed, WellFormedLessons
    <3> QED
        BY <2>1, <2>3, <3>1, <3>3, <3>4 DEF WeekInv
  <2> QED
      BY <1>2, <2>2, <2>3 DEF CarryOver
<1>3. CASE UNCHANGED <<vars, weekVars>>
  <2>1. RoundsInv'
      BY <1>3, RoundsFrame DEF WeekInv
  <2> QED
      BY <1>3, <2>1 DEF vars, weekVars, WeekInv, SameCoverage
<1> QED
    BY <1>1, <1>2, <1>3 DEF WeekNext

\* The invariant behind the theorems about weeks.
THEOREM WeekPlansAreFeasible == WeekSpec => []WeekInv
  BY WeekInvInit, WeekInvStep, PTL DEF WeekSpec

\* Every day of a week, however its counts have evolved, can be held.
THEOREM WeekCanBeHeld == WeekSpec => []DayCanBeHeld
<1>1. WeekInv => DayCanBeHeld
    BY AssignmentCanBeHeld DEF WeekInv, RoundsInv, SameCoverage, DayCanBeHeld
<1> QED
    BY <1>1, WeekPlansAreFeasible, PTL

\* Every day of a week that is not refused has a solution.
THEOREM WeekIsNeverInfeasible == WeekSpec => []NeverInfeasible
<1>1. WeekInv => NeverInfeasible
    BY AssignmentExists DEF WeekInv, NeverInfeasible, WellFormed, WellFormedLessons
<1> QED
    BY <1>1, WeekPlansAreFeasible, PTL

\* Every decision that is locked for a day of a week is in the plan of that day.
THEOREM WeekKeepsLocks == WeekSpec => []LocksSurvive
<1>1. WeekInv => LocksSurvive
    BY AssignmentKeepsLocks DEF WeekInv, RoundsInv, SameCoverage, LocksSurvive
<1> QED
    BY <1>1, WeekPlansAreFeasible, PTL

\* Whatever the counts of the days before: where a lesson of a day stays uncovered
\* after an optimal first round, nobody is offered for it.
THEOREM WeekLeavesNobodyIdle == WeekSpec => []NobodyIdleForUncovered
<1>1. WeekInv => NobodyIdleForUncovered
    BY OptimalLeavesNobodyIdle DEF WeekInv
<1> QED
    BY <1>1, WeekPlansAreFeasible, PTL

\* The flexible engine covers at least as much as any plan of the strict one.
THEOREM FlexibleNeverCoversLess == WeekSpec => []FlexibleCoversMore
<1>1. WeekInv => FlexibleCoversMore
    BY OptimalFlexibleCoversMore DEF WeekInv
<1> QED
    BY <1>1, WeekPlansAreFeasible, PTL

\* Whoever is offered for a lesson, on a single day or within a week and by either
\* engine, can be locked in next: the calculation is not refused and covers as much.
THEOREM EveryAlternativeCanBeLocked == WeekSpec => []AlternativesCanBeLocked
<1>1. WeekInv => AlternativesCanBeLocked
    BY OffersCanBeLocked DEF WeekInv
<1> QED
    BY <1>1, WeekPlansAreFeasible, PTL

\* In a plan of two optimal rounds nobody on offer has a lower penalty than the
\* substitute who is chosen.
THEOREM NobodyOnOfferIsCheaper == WeekSpec => []SelectedIsCheapest
<1>1. WeekInv => SelectedIsCheapest
    BY OptimalIsCheapest DEF WeekInv
<1> QED
    BY <1>1, WeekPlansAreFeasible, PTL

-----------------------------------------------------------------------------
(* How the counts are carried through a week                                  *)

\* The order in which the problems are solved.
Precedes(i, j) ==
    \/ week.problems[i].date < week.problems[j].date
    \/ week.problems[i].date = week.problems[j].date /\ i < j

\* The teachers of the week after some of its solved days.
Counted(some) == {After(t, TakenOn(t.id, some)) : t \in week.teachers}

\* Days are solved in order, and the current one with the counts so far.
OrderInv ==
    week # NoWeek =>
        /\ IsList(solved)
        /\ \A k \in DOMAIN solved : solved[k].problem \in DOMAIN week.problems
        /\ current # 0 =>
              /\ current \in DOMAIN week.problems
              /\ \A k \in DOMAIN solved : Precedes(solved[k].problem, current)
              /\ \A j \in Rest : Precedes(current, j)
              /\ day = DayOf(current, evolving)

CountsInv == WeekInv /\ OrderInv /\ CountsAreCarried

LEMMA ProblemsAreNumbered ==
    ASSUME week \in Weeks, NEW i \in DOMAIN week.problems
    PROVE  i \in Nat \ {0} /\ week.problems[i].date \in Int
<1>1. DOMAIN week.problems = 1 .. Len(week.problems) /\ Len(week.problems) \in Nat
    BY WeeksAssumption DEF IsList
<1> QED
    BY <1>1, WeeksAssumption

LEMMA PrecedesIsOrder ==
    ASSUME week \in Weeks, NEW i \in DOMAIN week.problems, NEW j \in DOMAIN week.problems,
           NEW k \in DOMAIN week.problems
    PROVE  /\ ~ (Precedes(i, j) /\ Precedes(j, i))
           /\ Precedes(i, j) /\ Precedes(j, k) => Precedes(i, k)
  BY ProblemsAreNumbered DEF Precedes

LEMMA EarlierPrecedes ==
    Earlier(current) = {k \in DOMAIN solved : Precedes(solved[k].problem, current)}
  BY DEF Earlier, Precedes

\* A solved day is a day of the week, and what is taken over on it is counted.
LEMMA SolvedIsCounted ==
    ASSUME week \in Weeks, OrderInv, week # NoWeek, NEW id, NEW k \in DOMAIN solved
    PROVE  Taken(id, DayOf(solved[k].problem, {}), solved[k].plan) \in Nat
<1>1. IsFiniteSet(DayOf(solved[k].problem, {}).activities)
    BY WeeksAssumption DEF DayOf, WellFormedLessons, OrderInv
<1> QED
    BY <1>1, TakenIsNatural

LEMMA SolvedIsFinite ==
    ASSUME IsList(solved)
    PROVE  /\ Len(solved) \in Nat /\ DOMAIN solved = 1 .. Len(solved)
           /\ \A some \in SUBSET DOMAIN solved : IsFiniteSet(some)
<1>1. Len(solved) \in Nat /\ DOMAIN solved = 1 .. Len(solved)
    BY DEF IsList
<1>2. IsFiniteSet(1 .. Len(solved))
    BY <1>1, FS_Interval
<1> QED
    BY <1>1, <1>2, FS_Subset

\* What is taken over on the solved days, one by one.
TakenEach(id) == [k \in DOMAIN solved |-> Taken(id, DayOf(solved[k].problem, {}), solved[k].plan)]

LEMMA TakenOnSums ==
    ASSUME NEW id, NEW some \in SUBSET DOMAIN solved, IsFiniteSet(some)
    PROVE  TakenOn(id, some) = SumFunctionOnSet(TakenEach(id), some)
<1> DEFINE Part == [k \in some |-> Taken(id, DayOf(solved[k].problem, {}), solved[k].plan)]
<1>1. TakenOn(id, some) = SumFunctionOnSet(Part, some)
    BY DEF TakenOn, SumFunction
<1>2. \A k \in some : Part[k] = TakenEach(id)[k]
    BY DEF TakenEach
<1> HIDE DEF Part
<1> QED
    BY <1>1, <1>2, SumSame

LEMMA TakenOnIsInteger ==
    ASSUME week \in Weeks, OrderInv, week # NoWeek, NEW id, NEW some \in SUBSET DOMAIN solved
    PROVE  TakenOn(id, some) \in Int
<1>1. IsFiniteSet(some)
    BY SolvedIsFinite DEF OrderInv
<1>2. \A k \in some : TakenEach(id)[k] \in Int
    BY SolvedIsCounted DEF TakenEach
<1> QED
    BY <1>1, <1>2, TakenOnSums, SumType

\* What is taken over on a day does not depend on its teachers.
LEMMA TakenOfProblem ==
    ASSUME NEW id, NEW i, NEW teachers, NEW f
    PROVE  Taken(id, DayOf(i, {}), f) = Taken(id, DayOf(i, teachers), f)
<1>1. /\ DayOf(i, {}).activities = DayOf(i, teachers).activities
      /\ DayOf(i, {}).absences = DayOf(i, teachers).absences
    BY DEF DayOf
<1>2. \A t, slot : Absent(DayOf(i, {}), t, slot) = Absent(DayOf(i, teachers), t, slot)
    BY <1>1 DEF Absent
<1>3. Needs(DayOf(i, {})) = Needs(DayOf(i, teachers))
    BY <1>1, <1>2 DEF Needs
<1> QED
    BY <1>3 DEF Taken

\* The sum over the days before is not changed by one more, and the sum over all of
\* them grows by what is taken over on it.
LEMMA TakenOnNext ==
    ASSUME CountsInv, CarryOver, NEW id
    PROVE  /\ DOMAIN solved' = DOMAIN solved \cup {Len(solved) + 1}
           /\ \A some \in SUBSET DOMAIN solved : TakenOn(id, some)' = TakenOn(id, some)
           /\ TakenOn(id, DOMAIN solved)' = TakenOn(id, DOMAIN solved) + Taken(id, day, plan)
<1>1. /\ week \in Weeks /\ week # NoWeek /\ current # 0 /\ week' = week
      /\ day = DayOf(current, evolving) /\ current \in DOMAIN week.problems /\ IsList(solved)
    BY WeeksAssumption DEF CarryOver, CountsInv, WeekInv, OrderInv
<1> DEFINE entry == [problem |-> current, plan |-> plan, teachers |-> day.teachers]
           last  == Len(solved) + 1
<1>2. solved' = Append(solved, entry)
    BY DEF CarryOver
<1>3. solved \in Seq(Range(solved) \cup {entry}) /\ Len(solved) \in Nat
    BY <1>1 DEF IsList
<1>4. /\ DOMAIN solved = 1 .. Len(solved)
      /\ DOMAIN solved' = 1 .. last
      /\ \A k \in 1 .. Len(solved) : solved'[k] = solved[k]
      /\ solved'[last] = entry
  <2> HIDE DEF entry
  <2> QED
      BY <1>2, <1>3
<1>5. /\ DOMAIN solved' = DOMAIN solved \cup {last} /\ last \notin DOMAIN solved
      /\ IsFiniteSet(DOMAIN solved) /\ IsFiniteSet(DOMAIN solved')
  <2>1. DOMAIN solved' = DOMAIN solved \cup {last} /\ last \notin DOMAIN solved
      BY <1>3, <1>4
  <2>2. IsFiniteSet(DOMAIN solved)
    <3>1. DOMAIN solved \in SUBSET DOMAIN solved
        OBVIOUS
    <3> QED
        BY <1>1, <3>1, SolvedIsFinite
  <2> QED
      BY <2>1, <2>2, FS_AddElement
<1> DEFINE Now  == TakenEach(id)
           Then == TakenEach(id)'
<1>6. Then = [k \in DOMAIN solved' |->
                 Taken(id, DayOf(solved'[k].problem, {}), solved'[k].plan)]
  <2>1. Then = [k \in DOMAIN solved' |-> Taken(id, DayOf(solved[k].problem, {})', solved'[k].plan)]
      BY DEF TakenEach
  <2>2. \A k \in DOMAIN solved' : DayOf(solved[k].problem, {})' = DayOf(solved'[k].problem, {})
      BY <1>1 DEF DayOf
  <2>3. \A k \in DOMAIN solved' : Then[k] = Taken(id, DayOf(solved'[k].problem, {}), solved'[k].plan)
      BY <2>1, <2>2
  <2>4. Then = [k \in DOMAIN solved' |-> Then[k]]
      BY <2>1
  <2> HIDE DEF Then
  <2> QED
      BY <2>3, <2>4
<1>7. \A k \in DOMAIN solved : Then[k] = Now[k] /\ Now[k] \in Nat
    BY <1>1, <1>4, <1>5, <1>6, SolvedIsCounted DEF TakenEach, CountsInv
<1>8. Then[last] = Taken(id, day, plan)
  <2>1. Then[last] = Taken(id, DayOf(current, {}), plan)
      BY <1>4, <1>5, <1>6
  <2> QED
      BY <1>1, <2>1, TakenOfProblem
<1>9. Taken(id, day, plan) \in Nat
    BY TakenIsNatural DEF CountsInv, WeekInv, WellFormed, WellFormedLessons
<1> HIDE DEF last, entry
<1>10. ASSUME NEW some \in SUBSET DOMAIN solved', IsFiniteSet(some)
       PROVE  TakenOn(id, some)' = SumFunctionOnSet(Then, some)
  <2> DEFINE Part == [k \in some |-> Taken(id, DayOf(solved'[k].problem, {}), solved'[k].plan)]
  <2>1. TakenOn(id, some)' = SumFunctionOnSet(Part, some)
      BY <1>1 DEF TakenOn, SumFunction, DayOf
  <2>2. \A k \in some : Part[k] = Then[k]
      BY <1>6
  <2> HIDE DEF Part, Then
  <2> QED
      BY <1>10, <2>1, <2>2, SumSame
<1> HIDE DEF Now, Then
<1>11. ASSUME NEW some \in SUBSET DOMAIN solved
       PROVE  TakenOn(id, some)' = TakenOn(id, some)
  <2>1. IsFiniteSet(some)
      BY <1>5, FS_Subset
  <2>2. TakenOn(id, some)' = SumFunctionOnSet(Then, some)
      BY <1>5, <1>10, <2>1
  <2>3. TakenOn(id, some) = SumFunctionOnSet(Now, some)
      BY <2>1, TakenOnSums DEF Now
  <2> QED
      BY <1>7, <2>1, <2>2, <2>3, SumSame
<1>12. TakenOn(id, DOMAIN solved)' = TakenOn(id, DOMAIN solved) + Taken(id, day, plan)
  <2>1. TakenOn(id, DOMAIN solved)' = SumFunctionOnSet(Then, DOMAIN solved \cup {last})
    <3> DEFINE all == DOMAIN solved \cup {last}
               Whole == [k \in all |-> Taken(id, DayOf(solved[k].problem, {})', solved'[k].plan)]
    <3>1. TakenOn(id, DOMAIN solved)' = SumFunctionOnSet(Whole, all)
        BY <1>5 DEF TakenOn, SumFunction
    <3>2. \A k \in all : Whole[k] = Then[k]
        BY <1>5 DEF Then, TakenEach
    <3> HIDE DEF Whole
    <3> QED
        BY <1>5, <3>1, <3>2, SumSame
  <2>2. \A k \in DOMAIN solved \cup {last} : Then[k] \in Int
      BY <1>7, <1>8, <1>9
  <2>3. SumFunctionOnSet(Then, DOMAIN solved \cup {last})
           = Then[last] + SumFunctionOnSet(Then, DOMAIN solved)
      BY <1>5, <2>2, SumAdds
  <2>4. SumFunctionOnSet(Then, DOMAIN solved) = SumFunctionOnSet(Now, DOMAIN solved)
      BY <1>5, <1>7, SumSame
  <2>5. TakenOn(id, DOMAIN solved) = SumFunctionOnSet(Now, DOMAIN solved)
      BY <1>5, TakenOnSums DEF Now
  <2>6. SumFunctionOnSet(Now, DOMAIN solved) \in Int
      BY <1>5, <1>7, SumType
  <2> QED
      BY <1>8, <1>9, <2>1, <2>3, <2>4, <2>5, <2>6
<1> QED
    BY <1>5, <1>11, <1>12 DEF last

\* The next problem comes after all that are solved and before all that are left.
LEMMA NextInOrder ==
    ASSUME CountsInv, CarryOver, NEW i \in Rest, IsNext(i, Rest), current' = i
    PROVE  /\ i \in DOMAIN week.problems /\ Precedes(current, i)
           /\ \A k \in DOMAIN solved : Precedes(solved[k].problem, i)
           /\ \A j \in Rest \ {i} : Precedes(i, j)
<1>1. /\ week \in Weeks /\ week # NoWeek /\ current # 0 /\ current \in DOMAIN week.problems
      /\ \A k \in DOMAIN solved : Precedes(solved[k].problem, current)
      /\ \A k \in DOMAIN solved : solved[k].problem \in DOMAIN week.problems
      /\ \A j \in Rest : Precedes(current, j)
    BY WeeksAssumption DEF CarryOver, CountsInv, WeekInv, OrderInv
<1>2. Rest \subseteq DOMAIN week.problems
    BY DEF Rest
<1>3. i \in DOMAIN week.problems /\ Precedes(current, i)
    BY <1>1, <1>2
<1>4. \A k \in DOMAIN solved : Precedes(solved[k].problem, i)
    BY <1>1, <1>3, PrecedesIsOrder
<1>5. \A j \in Rest \ {i} : Precedes(i, j)
    BY <1>1, <1>2, ProblemsAreNumbered DEF IsNext, Precedes
<1> QED
    BY <1>3, <1>4, <1>5

\* Order and counts are kept when a solved day is put aside.
LEMMA CarryOverKeepsCounts ==
    ASSUME CountsInv, CarryOver
    PROVE  OrderInv' /\ CountsAreCarried'
<1>1. /\ week \in Weeks /\ week # NoWeek /\ current # 0 /\ week' = week
      /\ day = DayOf(current, evolving) /\ current \in DOMAIN week.problems /\ IsList(solved)
      /\ \A k \in DOMAIN solved : Precedes(solved[k].problem, current)
      /\ \A k \in DOMAIN solved : solved[k].problem \in DOMAIN week.problems
    BY WeeksAssumption DEF CarryOver, CountsInv, WeekInv, OrderInv
<1> DEFINE entry == [problem |-> current, plan |-> plan, teachers |-> day.teachers]
           last  == Len(solved) + 1
<1>2. solved' = Append(solved, entry) /\ evolving' = Evolved
    BY DEF CarryOver
<1>3. solved \in Seq(Range(solved) \cup {entry}) /\ Len(solved) \in Nat
    BY <1>1 DEF IsList
<1>4. /\ DOMAIN solved = 1 .. Len(solved)
      /\ DOMAIN solved' = DOMAIN solved \cup {last} /\ last \notin DOMAIN solved
      /\ \A k \in DOMAIN solved : solved'[k] = solved[k]
      /\ solved'[last] = entry
  <2> HIDE DEF entry
  <2> QED
      BY <1>2, <1>3
<1>5. entry.problem = current /\ entry.teachers = evolving
    BY <1>1 DEF DayOf
<1>6. IsList(solved')
    BY <1>2, <1>3 DEF IsList, Range
<1> HIDE DEF entry, last
<1>7. \A i, j : Precedes(i, j)' = Precedes(i, j)
    BY <1>1 DEF Precedes
<1>8. OrderInv'
  <2>1. \A k \in DOMAIN solved' : solved'[k].problem \in DOMAIN week'.problems
      BY <1>1, <1>4, <1>5
  <2>2. CASE current' = 0
      BY <1>6, <2>1, <2>2 DEF OrderInv
  <2>3. ASSUME NEW i \in Rest, IsNext(i, Rest), current' = i, day' = DayOf(i, Evolved)
        PROVE  OrderInv'
    <3>1. /\ i \in DOMAIN week.problems /\ Precedes(current, i)
          /\ \A k \in DOMAIN solved : Precedes(solved[k].problem, i)
          /\ \A j \in Rest \ {i} : Precedes(i, j)
        BY <2>3, NextInOrder
    <3>2. \A k \in DOMAIN solved' : Precedes(solved'[k].problem, i)
        BY <1>4, <1>5, <3>1
    <3>3. Rest' \subseteq Rest \ {i}
        BY <1>1, <1>4, <1>5, <2>3 DEF Rest
    <3>4. day' = DayOf(i, evolving)'
        BY <1>1, <1>2, <2>3 DEF DayOf
    <3>5. \A k \in DOMAIN solved' : Precedes(solved[k].problem, current)'
        BY <1>1, <2>3, <3>2 DEF Precedes
    <3>6. \A j \in Rest' : Precedes(current, j)'
        BY <1>1, <2>3, <3>1, <3>3 DEF Precedes
    <3>7. current' \in DOMAIN week'.problems /\ day' = DayOf(current, evolving)'
        BY <1>1, <2>3, <3>1, <3>4 DEF DayOf
    <3> QED
        BY <1>6, <2>1, <3>5, <3>6, <3>7 DEF OrderInv
  <2> QED
      BY <2>2, <2>3 DEF CarryOver
\* The entries before a problem stay the same, and all are before the current one.
<1>9. ASSUME NEW k \in DOMAIN solved'
      PROVE  Earlier(solved[k].problem)' =
                IF k = last THEN DOMAIN solved ELSE Earlier(solved[k].problem)
  <2>1. Earlier(solved[k].problem)' = {m \in DOMAIN solved' : Precedes(solved'[m].problem, solved'[k].problem)}
      BY <1>1 DEF Earlier, Precedes
  <2>2. CASE k = last
    <3>1. ~ Precedes(current, current)
        BY <1>1, PrecedesIsOrder
    <3> QED
        BY <1>1, <1>4, <1>5, <2>1, <2>2, <3>1
  <2>3. CASE k # last
    <3>1. k \in DOMAIN solved /\ solved'[k] = solved[k]
        BY <1>4, <2>3
    <3>2. ~ Precedes(current, solved[k].problem)
        BY <1>1, <3>1, PrecedesIsOrder
    <3>3. Earlier(solved[k].problem) = {m \in DOMAIN solved : Precedes(solved[m].problem, solved[k].problem)}
        BY DEF Earlier, Precedes
    <3> QED
        BY <1>4, <1>5, <2>1, <2>3, <3>1, <3>2, <3>3
  <2> QED
      BY <2>2, <2>3
<1>10. Earlier(current) = DOMAIN solved
    BY <1>1, EarlierPrecedes
<1>11. CountsAreCarried
    BY DEF CountsInv
<1>12. \A some \in SUBSET DOMAIN solved :
          {After(t, TakenOn(t.id, some)) : t \in week.teachers}' = Counted(some)
  <2> TAKE some \in SUBSET DOMAIN solved
  <2>1. \A t \in week.teachers : TakenOn(t.id, some)' = TakenOn(t.id, some)
      BY TakenOnNext
  <2> QED
      BY <1>1, <2>1 DEF Counted
<1>13. ASSUME NEW k \in DOMAIN solved'
       PROVE  solved'[k].teachers =
                 {After(t, TakenOn(t.id, Earlier(solved[k].problem))) : t \in week.teachers}'
  <2>1. PICK some \in SUBSET DOMAIN solved :
           some = IF k = last THEN DOMAIN solved ELSE Earlier(solved[k].problem)
      BY DEF Earlier
  <2>2. Earlier(solved[k].problem)' = some
      BY <1>9, <2>1
  <2>3. solved'[k].teachers = Counted(some)
    <3>1. CASE k = last
        BY <1>4, <1>5, <1>11, <2>1, <3>1, <1>1 DEF CountsAreCarried, Counted
    <3>2. CASE k # last
        BY <1>1, <1>4, <1>11, <2>1, <3>2 DEF CountsAreCarried, Counted
    <3> QED
        BY <3>1, <3>2
  <2>4. \A t \in week.teachers :
           TakenOn(t.id, Earlier(solved[k].problem))' = TakenOn(t.id, some)
    <3> TAKE t \in week.teachers
    <3>1. TakenOn(t.id, Earlier(solved[k].problem))' = TakenOn(t.id, some)'
        BY <2>2 DEF TakenOn
    <3> QED
        BY <3>1, TakenOnNext
  <2> QED
      BY <1>1, <2>3, <2>4 DEF Counted
<1>14. evolving' = {After(t, TakenOn(t.id, DOMAIN solved)) : t \in week.teachers}'
  <2>1. \A t \in week.teachers :
           TakenOn(t.id, DOMAIN solved)' = TakenOn(t.id, DOMAIN solved) + Taken(t.id, day, plan)
      BY TakenOnNext
  <2>2. {After(t, TakenOn(t.id, DOMAIN solved)) : t \in week.teachers}'
           = {After(t, TakenOn(t.id, DOMAIN solved) + Taken(t.id, day, plan)) : t \in week.teachers}
      BY <1>1, <2>1
  <2>3. ASSUME NEW t \in week.teachers
        PROVE  /\ After(t, TakenOn(t.id, DOMAIN solved)).id = t.id
               /\ After(After(t, TakenOn(t.id, DOMAIN solved)), Taken(t.id, day, plan))
                    = After(t, TakenOn(t.id, DOMAIN solved) + Taken(t.id, day, plan))
    <3>1. TakenOn(t.id, DOMAIN solved) \in Int
        BY <1>1, TakenOnIsInteger DEF CountsInv
    <3>2. Taken(t.id, day, plan) \in Int
        BY TakenIsNatural DEF CountsInv, WeekInv, WellFormed, WellFormedLessons
    <3>3. /\ {"id", "specialties", "emergency", "count", "last7", "last30"} \subseteq DOMAIN t
          /\ t.count \in Int /\ t.last7 \in Int /\ t.last30 \in Int
        BY <1>1, WeeksAssumption DEF WellFormedTeachers, IsRecord
    <3> QED
        BY <3>1, <3>2, <3>3, AfterAdds, AfterTwice
  <2>4. evolving = {After(t, TakenOn(t.id, DOMAIN solved)) : t \in week.teachers}
      BY <1>1, <1>11 DEF CountsAreCarried
  <2>5. Evolved = {After(t, TakenOn(t.id, DOMAIN solved) + Taken(t.id, day, plan)) : t \in week.teachers}
      BY <2>3, <2>4 DEF Evolved
  <2> QED
      BY <1>2, <2>2, <2>5
<1> QED
    BY <1>1, <1>8, <1>13, <1>14 DEF CountsAreCarried

LEMMA NothingTaken == \A id : TakenOn(id, {}) = 0
<1> TAKE id
<1> DEFINE None == [k \in {} |-> Taken(id, DayOf(solved[k].problem, {}), solved[k].plan)]
<1>1. TakenOn(id, {}) = SumFunctionOnSet(None, {})
    BY DEF TakenOn, SumFunction
<1> HIDE DEF None
<1> QED
    BY <1>1, SumUnfolds, FS_EmptySet

LEMMA AfterNothing ==
    ASSUME NEW t, IsRecord(t), t.count \in Int, t.last7 \in Int, t.last30 \in Int
    PROVE  After(t, 0) = t
<1>1. t.count + 0 = t.count /\ t.last7 + 0 = t.last7 /\ t.last30 + 0 = t.last30
    OBVIOUS
<1>2. t = [field \in DOMAIN t |-> t[field]]
    BY DEF IsRecord
<1> QED
    BY <1>1, <1>2 DEF After

LEMMA CountsInit == WeekInit => CountsInv
<1> SUFFICES ASSUME WeekInit PROVE CountsInv
    OBVIOUS
<1>1. WeekInv
    BY WeekInvInit
<1>2. CASE week = NoWeek
    BY <1>1, <1>2 DEF CountsInv, OrderInv, CountsAreCarried
<1>3. CASE week # NoWeek
  <2>1. /\ solved = <<>> /\ week \in Weeks /\ IsNext(current, DOMAIN week.problems)
        /\ evolving = week.teachers /\ day = DayOf(current, evolving)
      BY <1>3 DEF WeekInit
  <2>2. DOMAIN solved = {} /\ IsList(solved)
      BY <2>1 DEF IsList
  <2>3. OrderInv
    <3>1. Rest = DOMAIN week.problems \ {current}
        BY <2>2 DEF Rest
    <3>2. \A j \in Rest : Precedes(current, j)
        BY <2>1, <3>1, ProblemsAreNumbered DEF IsNext, Precedes
    <3> QED
        BY <2>1, <2>2, <3>2 DEF OrderInv, IsNext
  <2>4. \A t \in week.teachers : After(t, TakenOn(t.id, {})) = t
      BY <2>1, NothingTaken, AfterNothing, WeeksAssumption DEF WellFormedTeachers
  <2>5. CountsAreCarried
      BY <2>1, <2>2, <2>4 DEF CountsAreCarried
  <2> QED
      BY <1>1, <2>3, <2>5 DEF CountsInv
<1> QED
    BY <1>2, <1>3

\* A week goes on without its bookkeeping as long as a day is being solved.
LEMMA CountsFrame ==
    ASSUME OrderInv, CountsAreCarried, UNCHANGED <<day, weekVars>>
    PROVE  OrderInv' /\ CountsAreCarried'
<1>1. UNCHANGED day /\ UNCHANGED week /\ UNCHANGED current /\ UNCHANGED evolving /\ UNCHANGED solved
    BY DEF weekVars
<1>2. OrderInv'
    BY <1>1 DEF OrderInv, Rest, Precedes, DayOf
<1>3. ASSUME NEW k \in DOMAIN solved, week # NoWeek
      PROVE  solved'[k].teachers =
                {After(t, TakenOn(t.id, Earlier(solved[k].problem))) : t \in week.teachers}'
  <2>1. \A t \in week.teachers : TakenOn(t.id, Earlier(solved[k].problem))'
                                    = TakenOn(t.id, Earlier(solved[k].problem))
      BY <1>1 DEF TakenOn, Earlier, DayOf
  <2> QED
      BY <1>1, <1>3, <2>1 DEF CountsAreCarried
<1>4. ASSUME week # NoWeek
      PROVE  evolving' = {After(t, TakenOn(t.id, DOMAIN solved)) : t \in week.teachers}'
  <2>1. \A t \in week.teachers : TakenOn(t.id, DOMAIN solved)' = TakenOn(t.id, DOMAIN solved)
      BY <1>1 DEF TakenOn, DayOf
  <2> QED
      BY <1>1, <1>4, <2>1 DEF CountsAreCarried
<1> QED
    BY <1>1, <1>2, <1>3, <1>4 DEF CountsAreCarried

LEMMA CountsStep == CountsInv /\ [WeekNext]_<<vars, weekVars>> => CountsInv'
<1> SUFFICES ASSUME CountsInv, [WeekNext]_<<vars, weekVars>> PROVE CountsInv'
    OBVIOUS
<1>1. WeekInv'
    BY WeekInvStep DEF CountsInv
<1>2. CASE CarryOver
    BY <1>1, <1>2, CarryOverKeepsCounts DEF CountsInv
<1>3. CASE (Next /\ UNCHANGED weekVars) \/ UNCHANGED <<vars, weekVars>>
  <2>1. UNCHANGED <<day, weekVars>>
      BY <1>3, NextKeepsDay DEF vars
  <2> QED
      BY <1>1, <2>1, CountsFrame DEF CountsInv
<1> QED
    BY <1>2, <1>3 DEF WeekNext

LEMMA WeekCounts == WeekSpec => []CountsInv
  BY CountsInit, CountsStep, PTL DEF WeekSpec

\* However the days are given, each is solved with the counts from before the week
\* and one more for every lesson taken over on the days before it.
THEOREM WeekCarriesCounts == WeekSpec => []CountsAreCarried
<1>1. CountsInv => CountsAreCarried
    BY DEF CountsInv
<1> QED
    BY <1>1, WeekCounts, PTL

\* A teacher of the current day is one of the week with what was taken over since.
LEMMA TeacherOfDay ==
    ASSUME CountsInv, week # NoWeek, current # 0, NEW t \in week.teachers
    PROVE  Teacher(day, t.id) = After(t, TakenOn(t.id, Earlier(current)))
<1>1. /\ week \in Weeks /\ current \in DOMAIN week.problems
      /\ \A k \in DOMAIN solved : Precedes(solved[k].problem, current)
    BY DEF CountsInv, WeekInv, OrderInv
<1>2. Earlier(current) = DOMAIN solved
    BY <1>1, EarlierPrecedes
<1>3. day.teachers = {After(u, TakenOn(u.id, Earlier(current))) : u \in week.teachers}
    BY <1>2 DEF CountsInv, OrderInv, CountsAreCarried, DayOf
<1>4. ASSUME NEW u \in week.teachers
      PROVE  After(u, TakenOn(u.id, Earlier(current))).id = u.id
  <2>1. TakenOn(u.id, Earlier(current)) \in Int
      BY <1>1, <1>2, TakenOnIsInteger DEF CountsInv
  <2> QED
      BY <1>1, <2>1, AfterAdds, WeeksAssumption DEF WellFormedTeachers, IsRecord
<1>5. \A u \in week.teachers : u.id = t.id => u = t
    BY <1>1, WeeksAssumption
<1>6. PICK v \in day.teachers : v.id = t.id /\ Teacher(day, t.id) = v
    BY <1>3, <1>4, TeacherOfPlan
<1>7. PICK u \in week.teachers : v = After(u, TakenOn(u.id, Earlier(current)))
    BY <1>3, <1>6
<1>8. u = t
    BY <1>4, <1>5, <1>6, <1>7
<1> QED
    BY <1>6, <1>7, <1>8

\* The penalty of a teacher without duties in the slot.
LEMMA PenaltyOfIdle ==
    ASSUME CountsInv, week # NoWeek, current # 0, NEW t \in week.teachers, NEW n,
           Current(day, t.id, n.slot) = {}
    PROVE  /\ t.count \in Int /\ t.last7 \in Int /\ t.last30 \in Int
           /\ TakenOn(t.id, Earlier(current)) \in Int
           /\ Penalty(day, n, Teacher(day, t.id)) =
                 (t.count + TakenOn(t.id, Earlier(current))) * 30
                 + (t.last7 + TakenOn(t.id, Earlier(current))) * 120
                 + (t.last30 + TakenOn(t.id, Earlier(current))) * 30
                 + (IF t.emergency THEN 2000 ELSE 0)
                 + (IF MissesSpecialty(n, t) THEN 12000 ELSE 0)
<1> DEFINE u == Teacher(day, t.id)
           x == TakenOn(t.id, Earlier(current))
<1>1. week \in Weeks /\ Earlier(current) \in SUBSET DOMAIN solved
    BY DEF CountsInv, WeekInv, Earlier
<1>2. x \in Int
    BY <1>1, TakenOnIsInteger DEF CountsInv
<1>3. /\ {"id", "specialties", "emergency", "count", "last7", "last30"} \subseteq DOMAIN t
      /\ t.count \in Int /\ t.last7 \in Int /\ t.last30 \in Int
    BY <1>1, WeeksAssumption DEF WellFormedTeachers, IsRecord
<1>4. u = After(t, x)
    BY TeacherOfDay
<1> HIDE DEF u, x
<1>5. /\ u.id = t.id /\ u.specialties = t.specialties /\ u.emergency = t.emergency
      /\ u.count = t.count + x /\ u.last7 = t.last7 + x /\ u.last30 = t.last30 + x
    BY <1>2, <1>3, <1>4, AfterAdds
<1>6. MissesSpecialty(n, u) = MissesSpecialty(n, t)
    BY <1>5 DEF MissesSpecialty
<1>7. Displaced(day, u.id, n.slot) = 0
  <2> DEFINE None == [a \in {} |-> DisplacementPenalty(a)]
  <2>1. Displaced(day, u.id, n.slot) = SumFunctionOnSet(None, {})
      BY <1>5 DEF Displaced, SumFunction
  <2> HIDE DEF None
  <2> QED
      BY <2>1, SumUnfolds, FS_EmptySet
<1>8. Penalty(day, n, u) =
         (t.count + x) * 30 + (t.last7 + x) * 120 + (t.last30 + x) * 30
         + (IF t.emergency THEN 2000 ELSE 0) + 0
         + (IF MissesSpecialty(n, t) THEN 12000 ELSE 0)
    BY <1>5, <1>6, <1>7, PenaltyParts
<1>9. (IF t.emergency THEN 2000 ELSE 0) \in Int /\ (IF MissesSpecialty(n, t) THEN 12000 ELSE 0) \in Int
    OBVIOUS
<1> QED
    BY <1>2, <1>3, <1>8, <1>9 DEF u, x

\* Of two who are alike but for their turns in this week the one with fewer is chosen.
LEMMA OptimalShares ==
    ASSUME CountsInv
    PROVE  WeekIsShared
<1> SUFFICES ASSUME current # 0, pc = "reported", Optimal, NEW n \in Covered(day, plan),
                    NEW a \in report, NEW s \in week.teachers, NEW t \in week.teachers,
                    a.need = n, a.status \in Alternative, ~ Locked(n),
                    s.id = plan[n], t.id = a.teacher, Interchangeable(s, t, n)
             PROVE  TakenOn(s.id, Earlier(current)) <= TakenOn(t.id, Earlier(current))
    BY DEF WeekIsShared
<1> DEFINE x == TakenOn(s.id, Earlier(current))
           y == TakenOn(t.id, Earlier(current))
<1>1. week \in Weeks /\ week # NoWeek
    BY WeeksAssumption DEF CountsInv, WeekInv
<1>2. Penalty(day, n, Teacher(day, s.id)) <= Penalty(day, n, Teacher(day, t.id))
    BY OptimalIsCheapest DEF SelectedIsCheapest, CountsInv, WeekInv
<1>3. /\ s.count = t.count /\ s.last7 = t.last7 /\ s.last30 = t.last30
      /\ s.emergency = t.emergency /\ s.specialties = t.specialties
    BY <1>1, WeeksAssumption DEF Interchangeable, IsRecord
<1>4. MissesSpecialty(n, s) = MissesSpecialty(n, t)
    BY <1>3 DEF MissesSpecialty
<1>5. /\ t.count \in Int /\ t.last7 \in Int /\ t.last30 \in Int /\ x \in Int /\ y \in Int
      /\ Penalty(day, n, Teacher(day, s.id)) =
            (t.count + x) * 30 + (t.last7 + x) * 120 + (t.last30 + x) * 30
            + (IF t.emergency THEN 2000 ELSE 0) + (IF MissesSpecialty(n, t) THEN 12000 ELSE 0)
      /\ Penalty(day, n, Teacher(day, t.id)) =
            (t.count + y) * 30 + (t.last7 + y) * 120 + (t.last30 + y) * 30
            + (IF t.emergency THEN 2000 ELSE 0) + (IF MissesSpecialty(n, t) THEN 12000 ELSE 0)
    BY <1>1, <1>3, <1>4, PenaltyOfIdle DEF Interchangeable
<1> HIDE DEF x, y
<1>6. x <= y
  <2> DEFINE e == IF t.emergency THEN 2000 ELSE 0
             m == IF MissesSpecialty(n, t) THEN 12000 ELSE 0
  <2>1. e \in Int /\ m \in Int
      OBVIOUS
  <2>2. (t.count + x) * 30 + (t.last7 + x) * 120 + (t.last30 + x) * 30 + e + m
          <= (t.count + y) * 30 + (t.last7 + y) * 120 + (t.last30 + y) * 30 + e + m
      BY <1>2, <1>5
  <2> HIDE DEF e, m
  <2> QED
      BY <1>5, <2>1, <2>2
<1> QED
    BY <1>6 DEF x, y

\* No lesson of a week goes to somebody who has already had more turns in it than
\* another one on offer who is alike.
THEOREM WeekSharesTurns == WeekSpec => []WeekIsShared
<1>1. CountsInv => WeekIsShared
    BY OptimalShares
<1> QED
    BY <1>1, WeekCounts, PTL
=============================================================================
