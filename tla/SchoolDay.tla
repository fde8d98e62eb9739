------------------------------ MODULE SchoolDay ------------------------------
(* One school day as solver/optimizer.py and solver/flexible_specialty.py see *)
(* it: which lessons need a substitute, who may take which lesson, at what    *)
(* penalty, and which assignments the constraints of the CP-SAT model allow.  *)
(* A day d is a record of teachers, activities, absences, each a set, and     *)
(* locked, the sequence of the decisions that must be kept.                   *)
EXTENDS Integers, Sequences, FiniteSetsExt

Nobody == "nobody"      \* the substitute of a lesson that stays uncovered
NoGroup == "no group"
NoSpecialty == "no specialty"

\* SolverWeights
Weights ==
    [uncovered |-> 100000, flexible |-> 120, normal |-> 800, high |-> 5000,
     history |-> 30, last7 |-> 120, last30 |-> 30, emergency |-> 2000,
     mismatch |-> 12000, ptAlMultiplier |-> 5]

\* Priority
Cancelable == 10
Flexible   == 20
Normal     == 30
High       == 40
Critical   == 50

Absent(d, teacher, slot) ==
    \E absence \in d.absences : absence.teacher = teacher /\ slot \in absence.slots

Current(d, teacher, slot) ==
    {a \in d.activities : a.teacher = teacher /\ a.slot = slot}

DoubleBooked(d) ==
    \E a, b \in d.activities : a # b /\ a.teacher = b.teacher /\ a.slot = b.slot

RequiresGroupCoverage(a) == a.group # NoGroup /\ a.type = "CLASS"

Needs(d) == {a \in d.activities : RequiresGroupCoverage(a) /\ Absent(d, a.teacher, a.slot)}

-----------------------------------------------------------------------------
(* The candidates of a need                                                  *)

\* (with a bug: a teacher may be called away from a class)
CanDisplaceAnything(a) == a.priority < High /\ (a.cancelable \/ a.movable)

CanDisplace(a) ==
    /\ a.type # "CLASS"
    /\ a.priority < High
    /\ a.cancelable \/ a.movable

MissesSpecialty(need, t) ==
    need.specialty # NoSpecialty /\ need.specialty \notin t.specialties

\* The flexible engine refuses a missing specialty to activities other than
\* classes only.
IsCandidate(engine, d, need, t) ==
    /\ t.id # need.teacher
    /\ ~ Absent(d, t.id, need.slot)
    /\ need.group \in t.groups
    /\ MissesSpecialty(need, t) => engine = "flexible" /\ need.type = "CLASS"
    /\ \A a \in Current(d, t.id, need.slot) : CanDisplace(a)

Candidates(engine, d, need) == {t \in d.teachers : IsCandidate(engine, d, need, t)}

PriorityPenalty(a) ==
    CASE a.priority = Cancelable -> 30
      [] a.priority = Flexible   -> Weights.flexible
      [] a.priority = Normal     -> Weights.normal
      [] a.priority = High       -> Weights.high
      [] a.priority = Critical   -> Weights.uncovered

DisplacementPenalty(a) ==
    PriorityPenalty(a) * IF a.type \in {"PT", "AL"} THEN Weights.ptAlMultiplier ELSE 1

\* Only the flexible engine has candidates that miss the specialty.
Penalty(d, need, t) ==
    t.count * Weights.history + t.last7 * Weights.last7 + t.last30 * Weights.last30
    + (IF t.emergency THEN Weights.emergency ELSE 0)
    + SumFunction([a \in Current(d, t.id, need.slot) |-> DisplacementPenalty(a)])
    + (IF MissesSpecialty(need, t) THEN Weights.mismatch ELSE 0)

-----------------------------------------------------------------------------
(* Locked decisions and the constraints of the model                         *)

\* The activity needs no substitute, or the teacher is no candidate for it.
LockRefused(engine, d, lock) ==
    \A n \in Needs(d) : n.id = lock.activity =>
        \A t \in Candidates(engine, d, n) : t.id # lock.teacher

SameSlot(d, lock, other) ==
    \E m, n \in Needs(d) : m.id = lock.activity /\ n.id = other.activity /\ m.slot = n.slot

\* (with a bug: one teacher may be locked twice in a slot)
LocksClashOnActivity(d) ==
    \E i, j \in DOMAIN d.locked : i # j /\ d.locked[i].activity = d.locked[j].activity

LocksClash(d) ==
    \E i, j \in DOMAIN d.locked :
        /\ i # j
        /\ \/ d.locked[i].activity = d.locked[j].activity
           \/ /\ d.locked[i].teacher = d.locked[j].teacher
              /\ SameSlot(d, d.locked[i], d.locked[j])

\* What solve raises a ValueError for.
Refused(engine, d) ==
    \/ DoubleBooked(d)
    \/ \E i \in DOMAIN d.locked : LockRefused(engine, d, d.locked[i])
    \/ LocksClash(d)

\* (with a bug: the locked decisions are checked but not added to the model)
LocksForgotten(d, f) == TRUE

KeepsLocks(d, f) ==
    \A i \in DOMAIN d.locked, n \in Needs(d) :
        n.id = d.locked[i].activity => f[n] = d.locked[i].teacher

OncePerSlot(d, f) ==
    \A m, n \in Needs(d) : m # n /\ m.slot = n.slot /\ f[m] # Nobody => f[m] # f[n]

\* f[n] is the id of the teacher who takes need n.
Assignments(engine, d) ==
    {f \in [Needs(d) -> {t.id : t \in d.teachers} \cup {Nobody}] :
        /\ \A n \in Needs(d) :
              f[n] # Nobody => \E t \in Candidates(engine, d, n) : t.id = f[n]
        /\ KeepsLocks(d, f)
        /\ OncePerSlot(d, f)}

Uncovered(d, f) == {n \in Needs(d) : f[n] = Nobody}
Covered(d, f)   == {n \in Needs(d) : f[n] # Nobody}

Teacher(d, id) == CHOOSE t \in d.teachers : t.id = id

SoftPenalty(d, f) ==
    SumFunction([n \in Covered(d, f) |-> Penalty(d, n, Teacher(d, f[n]))])

FewestUncovered(engine, d) ==
    Min({Cardinality(Uncovered(d, f)) : f \in Assignments(engine, d)})
=============================================================================
