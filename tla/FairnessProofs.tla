---------------------------- MODULE FairnessProofs ----------------------------
(* Proofs about FairnessHistory: the counts are those of the final runs, for  *)
(* any plans, dates and substitutions and whatever order the rows come in.    *)
EXTENDS FairnessHistory, FunctionTheorems, FiniteSetTheorems, TLAPS

Activities == UNION {{sub[1] : sub \in subs} : subs \in Outcomes}

\* What the SELECT returns, and the latest of some runs of each plan.
Window       == {run \in selected : day - 30 <= Date[run.plan] /\ Date[run.plan] < day}
Newest(some) == {run \in some : \A other \in some :
                                   other.plan = run.plan => other.version <= run.version}

\* A version of a plan is calculated once.
Distinct(some) == \A x, y \in some : x.plan = y.plan /\ x.version = y.version => x = y

\* What the teacher takes over in some runs of the last days.
Entries(t, length, some) ==
    {entry \in Plans \X Activities :
        \E run \in some : /\ run.plan = entry[1]
                          /\ <<entry[2], t>> \in run.subs
                          /\ day - Date[run.plan] \in 1 .. length}

\* The counts are those of the runs that are not in latest any more.
CountedSoFar(t, length, count) ==
    LET counted == Entries(t, length, Newest(Window) \ latest)
    IN  IsFiniteSet(counted) /\ count = Cardinality(counted)

\* No run that has been taken is later than the one in latest.
Represented ==
    \A x \in Window \ rows : \E y \in latest : y.plan = x.plan /\ x.version <= y.version

HistoryInv ==
    /\ runs \subseteq Run /\ Distinct(runs)
    /\ selected \subseteq Run /\ Distinct(selected)
    /\ day \in Asked \cup {0}
    /\ pc \in {"idle", "latest", "count", "done"}
    /\ counts7 \in [Teachers -> Nat] /\ counts30 \in [Teachers -> Nat]
    /\ pc = "idle" => rows = {} /\ latest = {}
    /\ pc = "latest" => /\ rows \subseteq Window
                        /\ latest = Newest(Window \ rows)
                        /\ Represented
                        /\ counts7 = Nobody /\ counts30 = Nobody
    /\ pc \in {"count", "done"} =>
          /\ rows = {}
          /\ latest \subseteq Newest(Window)
          /\ \A t \in Teachers : /\ CountedSoFar(t, 7, counts7[t])
                                 /\ CountedSoFar(t, 30, counts30[t])
    /\ pc = "done" => latest = {}

LEMMA WindowType ==
    ASSUME HistoryInv
    PROVE  /\ Window \subseteq Run /\ Distinct(Window)
           /\ \A run \in Run : /\ run.plan \in Plans /\ Date[run.plan] \in Int
                               /\ run.version \in Int /\ run.subs \in Outcomes
  BY HistoryAssumption DEF HistoryInv, Window, Run, Distinct

\* The runs left to count stay those of the snapshot.
LEMMA HistoryFrame ==
    ASSUME HistoryInv, UNCHANGED <<pc, counting>>, runs' \subseteq Run, Distinct(runs)'
    PROVE  HistoryInv'
<1>1. UNCHANGED <<day, rows, latest, counts7, counts30, selected, pc>>
    BY DEF counting
<1>2. Window' = Window
    BY <1>1 DEF Window
<1>3. \A some : Newest(some)' = Newest(some)
    BY DEF Newest
<1>4. \A t, length, count : CountedSoFar(t, length, count)' <=> CountedSoFar(t, length, count)
    BY <1>1, <1>2 DEF CountedSoFar, Entries, Newest
<1>5. (pc \in {"count", "done"} =>
          /\ rows = {}
          /\ latest \subseteq Newest(Window)
          /\ \A t \in Teachers : /\ CountedSoFar(t, 7, counts7[t])
                                 /\ CountedSoFar(t, 30, counts30[t]))'
    BY <1>1, <1>2, <1>4 DEF HistoryInv, Newest
<1>6. (pc = "latest" => /\ rows \subseteq Window
                        /\ latest = Newest(Window \ rows)
                        /\ Represented
                        /\ counts7 = Nobody /\ counts30 = Nobody)'
    BY <1>1, <1>2 DEF HistoryInv, Newest, Represented
<1> QED
    BY <1>1, <1>5, <1>6 DEF HistoryInv, Distinct

LEMMA SolveKeepsHistory ==
    ASSUME HistoryInv, NEW p \in Plans, NEW version \in 2 .. MaxVersion, NEW subs \in Outcomes,
           Solve(p, version, subs)
    PROVE  HistoryInv'
<1> DEFINE new == [plan |-> p, version |-> version, subs |-> subs]
<1>1. new \in Run /\ runs' = runs \cup {new}
    BY DEF Solve, Run
<1>2. \A run \in runs : run.plan = p => run.version # version
    BY WindowType DEF Solve, HistoryInv
<1>3. runs' \subseteq Run /\ Distinct(runs)'
    BY <1>1, <1>2 DEF HistoryInv, Distinct
<1> QED
    BY <1>3, HistoryFrame DEF Solve

LEMMA SelectKeepsHistory ==
    ASSUME HistoryInv, NEW asked \in Asked, Select(asked)
    PROVE  HistoryInv'
<1>1. /\ rows' = Window' /\ latest' = {} /\ day' = asked /\ selected' = runs /\ runs' = runs
      /\ counts7' = Nobody /\ counts30' = Nobody /\ pc' = "latest"
    BY DEF Select, Window
<1>2. Newest(Window \ rows)' = {} /\ Represented'
    BY <1>1 DEF Newest, Represented
<1>3. Nobody \in [Teachers -> Nat]
    BY DEF Nobody
<1> QED
    BY <1>1, <1>2, <1>3 DEF HistoryInv, Distinct

\* Of a set of runs and one more, Keep finds the latest.
LEMMA TakeRowKeepsHistory ==
    ASSUME HistoryInv, NEW run \in rows, TakeRow(run)
    PROVE  HistoryInv'
<1> DEFINE taken == Window \ rows
<1>1. /\ pc = "latest" /\ rows \subseteq Window /\ latest = Newest(taken)
      /\ rows' = rows \ {run} /\ latest' = Keep(run)
      /\ UNCHANGED <<runs, pc, day, counts7, counts30, selected>>
    BY DEF TakeRow, HistoryInv
<1>2. Window' = Window /\ (Window \ rows)' = taken \cup {run} /\ run \notin taken
    BY <1>1 DEF Window
<1>3. /\ taken \cup {run} \subseteq Run /\ Distinct(taken \cup {run})
      /\ \A x \in taken \cup {run} : x.version \in Int
    BY <1>1, WindowType DEF Distinct
<1>4. Keep(run) = Newest(taken \cup {run})
  <2>1. CASE \E other \in Newest(taken) : other.plan = run.plan /\ other.version >= run.version
    <3>1. PICK other \in Newest(taken) : other.plan = run.plan /\ other.version >= run.version
        BY <2>1
    <3>2. other \in taken /\ other.version # run.version
        BY <3>1, <1>2, <1>3 DEF Newest, Distinct
    <3>3. run \notin Newest(taken \cup {run})
        BY <3>1, <3>2, <1>3 DEF Newest
    <3>4. \A x \in Newest(taken) : x.plan = run.plan => run.version <= x.version
        BY <3>1, <3>2, <1>3 DEF Newest
    <3>5. Newest(taken \cup {run}) = Newest(taken)
        BY <3>3, <3>4 DEF Newest
    <3> QED
        BY <2>1, <3>5, <1>1 DEF Keep
  <2>2. CASE ~ \E other \in Newest(taken) : other.plan = run.plan /\ other.version >= run.version
    <3>1. Keep(run) = {other \in Newest(taken) : other.plan # run.plan} \cup {run}
        BY <2>2, <1>1 DEF Keep
    <3>2. ASSUME NEW x \in taken, x.plan = run.plan
          PROVE  x.version < run.version
      <4>1. PICK y \in latest : y.plan = x.plan /\ x.version <= y.version
          BY <1>1 DEF HistoryInv, Represented
      <4>2. y \in taken /\ ~ (y.version >= run.version)
          BY <2>2, <3>2, <4>1, <1>1 DEF Newest
      <4> QED
          BY <4>1, <4>2, <1>3
    <3> QED
        BY <3>1, <3>2, <1>3 DEF Newest
  <2> QED
      BY <2>1, <2>2
<1>5. latest' = Newest(Window \ rows)'
    BY <1>1, <1>2, <1>4 DEF Newest
<1>6. Represented'
  <2> SUFFICES ASSUME NEW x \in taken \cup {run}
               PROVE  \E y \in Keep(run) : y.plan = x.plan /\ x.version <= y.version
      BY <1>1, <1>2 DEF Represented
  <2>1. run \in Window /\ latest \subseteq taken
      BY <1>1 DEF Newest
  <2>2. CASE \E other \in latest : other.plan = run.plan /\ other.version >= run.version
    <3>1. Keep(run) = latest
        BY <2>2 DEF Keep
    <3>2. CASE x = run
        BY <2>1, <2>2, <3>1, <3>2, <1>3
    <3>3. CASE x # run
        BY <3>1, <3>3, <1>1 DEF HistoryInv, Represented
    <3> QED
        BY <3>2, <3>3
  <2>3. CASE ~ \E other \in latest : other.plan = run.plan /\ other.version >= run.version
    <3>1. Keep(run) = {other \in latest : other.plan # run.plan} \cup {run}
        BY <2>3 DEF Keep
    <3>2. CASE x = run
        BY <3>1, <3>2, <1>3
    <3>3. CASE x # run
      <4>1. PICK y \in latest : y.plan = x.plan /\ x.version <= y.version
          BY <3>3, <1>1 DEF HistoryInv, Represented
      <4>2. CASE y.plan # run.plan
          BY <4>1, <4>2, <3>1
      <4>3. CASE y.plan = run.plan
          BY <4>1, <4>3, <2>1, <2>3, <3>1, <1>3
      <4> QED
          BY <4>2, <4>3
    <3> QED
        BY <3>2, <3>3
  <2> QED
      BY <2>2, <2>3
<1> QED
    BY <1>1, <1>2, <1>5, <1>6 DEF HistoryInv, Distinct

LEMMA RowsTakenKeepsHistory ==
    ASSUME HistoryInv, RowsTaken
    PROVE  HistoryInv'
<1>1. /\ pc = "latest" /\ rows = {} /\ pc' = "count"
      /\ UNCHANGED <<runs, day, rows, latest, counts7, counts30, selected>>
    BY DEF RowsTaken, counting
<1>2. latest = Newest(Window) /\ Window' = Window
    BY <1>1 DEF HistoryInv, Window
<1>3. ASSUME NEW t, NEW length
      PROVE  CountedSoFar(t, length, 0)'
  <2>1. Entries(t, length, {})' = {}
      BY DEF Entries
  <2>2. (Newest(Window) \ latest)' = {}
      BY <1>1, <1>2 DEF Newest
  <2> QED
      BY <2>1, <2>2, FS_EmptySet DEF CountedSoFar
<1>4. \A t \in Teachers : counts7'[t] = 0 /\ counts30'[t] = 0
    BY <1>1 DEF HistoryInv, Nobody
<1>5. \A t \in Teachers : /\ CountedSoFar(t, 7, counts7[t])'
                          /\ CountedSoFar(t, 30, counts30[t])'
    BY <1>3, <1>4
<1> QED
    BY <1>1, <1>2, <1>5 DEF HistoryInv, Distinct, Newest

\* A run has one entry for each substitution of the teacher.
LEMMA EntriesOfRun ==
    ASSUME NEW run \in Run, NEW t, NEW length, day - Date[run.plan] \in 1 .. length
    PROVE  LET entries == Entries(t, length, {run})
           IN  /\ IsFiniteSet(entries)
               /\ Cardinality(entries) = Cardinality({sub \in run.subs : sub[2] = t})
<1> DEFINE own     == {sub \in run.subs : sub[2] = t}
           entries == Entries(t, length, {run})
           ToEntry == [sub \in own |-> <<run.plan, sub[1]>>]
<1>1. /\ run.plan \in Plans /\ IsFiniteSet(run.subs) /\ run.subs \in Outcomes
      /\ \A sub \in run.subs : sub = <<sub[1], sub[2]>> /\ sub[1] \in Activities
    BY HistoryAssumption DEF Run, Activities
<1>2. \A sub \in own : <<run.plan, sub[1]>> \in entries
    BY <1>1 DEF Entries
<1>3. \A x, y \in own : ToEntry[x] = ToEntry[y] => x = y
    BY <1>1
<1>4. \A entry \in entries : \E sub \in own : ToEntry[sub] = entry
  <2> SUFFICES ASSUME NEW entry \in entries
               PROVE  \E sub \in own : ToEntry[sub] = entry
      OBVIOUS
  <2>1. entry = <<run.plan, entry[2]>> /\ <<entry[2], t>> \in own
      BY DEF Entries
  <2> QED
      BY <2>1
<1>5. ToEntry \in Bijection(own, entries)
    BY <1>2, <1>3, <1>4 DEF Bijection, Injection, Surjection, IsInjective
<1>6. IsFiniteSet(own)
    BY <1>1, FS_Subset
<1> HIDE DEF ToEntry, own, entries
<1>7. IsFiniteSet(entries) /\ Cardinality(entries) = Cardinality(own)
    BY <1>5, <1>6, FS_Bijection DEF ExistsBijection
<1> QED
    BY <1>7 DEF own, entries

LEMMA CountRunKeepsHistory ==
    ASSUME HistoryInv, NEW run \in latest, CountRun(run)
    PROVE  HistoryInv'
<1> DEFINE counted == Newest(Window) \ latest
<1>1. /\ pc = "count" /\ latest' = latest \ {run}
      /\ counts30' = Plus(counts30, run.subs)
      /\ counts7' = IF From(Date[run.plan], 7) THEN Plus(counts7, run.subs) ELSE counts7
      /\ UNCHANGED <<runs, pc, day, rows, selected>>
    BY DEF CountRun
<1>2. run \in Newest(Window) /\ run \in Window /\ run \in Run
    BY <1>1, WindowType DEF HistoryInv, Newest
<1>3. Window' = Window /\ (Newest(Window) \ latest)' = counted \cup {run} /\ run \notin counted
    BY <1>1, <1>2 DEF Window, Newest
<1>4. /\ day \in Int /\ Date[run.plan] \in Int /\ run.subs \in Outcomes
      /\ day - 30 <= Date[run.plan] /\ Date[run.plan] < day
    BY <1>2, WindowType, HistoryAssumption DEF HistoryInv, Window
<1>5. ASSUME NEW t \in Teachers, NEW length, NEW count \in Nat, CountedSoFar(t, length, count)
      PROVE  /\ day - Date[run.plan] \in 1 .. length =>
                   CountedSoFar(t, length, count + Cardinality({sub \in run.subs : sub[2] = t}))'
             /\ day - Date[run.plan] \notin 1 .. length => CountedSoFar(t, length, count)'
  <2> DEFINE before == Entries(t, length, counted)
             added  == Entries(t, length, {run})
  <2>1. Entries(t, length, counted \cup {run}) = before \cup added
      BY DEF Entries
  <2>2. Entries(t, length, Newest(Window) \ latest)' = Entries(t, length, counted \cup {run})
      BY <1>1, <1>3 DEF Entries
  <2>3. IsFiniteSet(before) /\ count = Cardinality(before)
      BY <1>5 DEF CountedSoFar
  <2>4. before \cap added = {}
    <3>1. \A x \in counted : x.plan # run.plan
      <4>1. ASSUME NEW x \in counted, x.plan = run.plan
            PROVE  FALSE
        <5>1. x \in Window /\ x.version <= run.version /\ run.version <= x.version
            BY <4>1, <1>2 DEF Newest
        <5>2. x = run
            BY <4>1, <5>1, <1>2, WindowType DEF Distinct
        <5> QED
            BY <5>2, <1>3
      <4> QED
          BY <4>1
    <3> QED
        BY <3>1 DEF Entries
  <2>5. CASE day - Date[run.plan] \in 1 .. length
    <3>1. /\ IsFiniteSet(added)
          /\ Cardinality(added) = Cardinality({sub \in run.subs : sub[2] = t})
        BY <2>5, <1>2, EntriesOfRun
    <3>2. /\ IsFiniteSet(before \cup added)
          /\ Cardinality(before \cup added)
                = Cardinality(before) + Cardinality(added) - Cardinality(before \cap added)
        BY <2>3, <3>1, FS_Union
    <3>3. Cardinality(before \cap added) = 0 /\ Cardinality(added) \in Nat
        BY <2>4, <3>1, FS_EmptySet, FS_CardinalityType
    <3>4. Cardinality(before \cup added)
             = count + Cardinality({sub \in run.subs : sub[2] = t})
        BY <2>3, <3>1, <3>2, <3>3
    <3>5. CountedSoFar(t, length, count + Cardinality({sub \in run.subs : sub[2] = t}))'
        BY <2>1, <2>2, <3>2, <3>4 DEF CountedSoFar
    <3> QED
        BY <2>5, <3>5
  <2>6. CASE day - Date[run.plan] \notin 1 .. length
    <3>1. added = {}
        BY <2>6 DEF Entries
    <3>2. CountedSoFar(t, length, count)'
        BY <2>1, <2>2, <2>3, <3>1 DEF CountedSoFar
    <3> QED
        BY <2>6, <3>2
  <2> QED
      BY <2>5, <2>6
<1>6. \A t \in Teachers : Cardinality({sub \in run.subs : sub[2] = t}) \in Nat
  <2> SUFFICES ASSUME NEW t \in Teachers
               PROVE  Cardinality({sub \in run.subs : sub[2] = t}) \in Nat
      OBVIOUS
  <2>1. IsFiniteSet({sub \in run.subs : sub[2] = t})
      BY <1>4, HistoryAssumption, FS_Subset
  <2> QED
      BY <2>1, FS_CardinalityType
<1>7. \A t \in Teachers : counts7[t] \in Nat /\ counts30[t] \in Nat
    BY DEF HistoryInv
<1>8. counts30' \in [Teachers -> Nat] /\ \A t \in Teachers : CountedSoFar(t, 30, counts30[t])'
  <2>1. day - Date[run.plan] \in 1 .. 30
      BY <1>4
  <2>2. \A t \in Teachers :
           counts30'[t] = counts30[t] + Cardinality({sub \in run.subs : sub[2] = t})
      BY <1>1 DEF Plus
  <2>3. counts30' \in [Teachers -> Nat]
      BY <1>1, <1>6, <1>7 DEF Plus
  <2>4. ASSUME NEW t \in Teachers PROVE CountedSoFar(t, 30, counts30[t])'
    <3>1. CountedSoFar(t, 30, counts30[t])
        BY <1>1 DEF HistoryInv
    <3> QED
        BY <3>1, <2>1, <2>2, <1>5, <1>7
  <2> QED
      BY <2>3, <2>4
<1>9. counts7' \in [Teachers -> Nat] /\ \A t \in Teachers : CountedSoFar(t, 7, counts7[t])'
  <2>1. From(Date[run.plan], 7) <=> day - Date[run.plan] \in 1 .. 7
      BY <1>4 DEF From
  <2>2. \A t \in Teachers : CountedSoFar(t, 7, counts7[t])
      BY <1>1 DEF HistoryInv
  <2>3. CASE From(Date[run.plan], 7)
    <3>1. \A t \in Teachers :
             counts7'[t] = counts7[t] + Cardinality({sub \in run.subs : sub[2] = t})
        BY <2>3, <1>1 DEF Plus
    <3>2. counts7' \in [Teachers -> Nat]
        BY <2>3, <1>1, <1>6, <1>7 DEF Plus
    <3> QED
        BY <3>1, <3>2, <2>1, <2>2, <2>3, <1>5, <1>7
  <2>4. CASE ~ From(Date[run.plan], 7)
    <3>1. counts7' = counts7
        BY <2>4, <1>1
    <3>2. counts7' \in [Teachers -> Nat]
        BY <3>1 DEF HistoryInv
    <3> QED
        BY <3>1, <3>2, <2>1, <2>2, <2>4, <1>5, <1>7
  <2> QED
      BY <2>3, <2>4
<1>10. rows' = {} /\ latest' \subseteq Newest(Window)'
    BY <1>1, <1>3 DEF HistoryInv, Newest
<1> QED
    BY <1>1, <1>8, <1>9, <1>10 DEF HistoryInv, Distinct

LEMMA CountedKeepsHistory ==
    ASSUME HistoryInv, Counted
    PROVE  HistoryInv'
<1>1. /\ pc = "count" /\ latest = {} /\ pc' = "done"
      /\ UNCHANGED <<runs, day, rows, latest, counts7, counts30, selected>>
    BY DEF Counted, counting
<1>2. Window' = Window
    BY <1>1 DEF Window
<1>3. \A t, length, count : CountedSoFar(t, length, count)' <=> CountedSoFar(t, length, count)
    BY <1>1, <1>2 DEF CountedSoFar, Entries, Newest
<1>4. \A t \in Teachers : CountedSoFar(t, 7, counts7[t])' /\ CountedSoFar(t, 30, counts30[t])'
    BY <1>1, <1>3 DEF HistoryInv
<1> QED
    BY <1>1, <1>2, <1>4 DEF HistoryInv, Distinct, Newest

LEMMA InitHistory == Init => HistoryInv
  BY DEF Init, HistoryInv, Distinct, Nobody

LEMMA NextKeepsHistory == HistoryInv /\ [Next]_vars => HistoryInv'
<1> SUFFICES ASSUME HistoryInv, [Next]_vars PROVE HistoryInv'
    OBVIOUS
<1>1. CASE UNCHANGED vars
  <2>1. UNCHANGED <<pc, counting>> /\ UNCHANGED runs
      BY <1>1 DEF vars, counting
  <2> QED
      BY <2>1, HistoryFrame DEF HistoryInv, Distinct
<1>2. CASE Next
    BY <1>2, SolveKeepsHistory, SelectKeepsHistory, TakeRowKeepsHistory, RowsTakenKeepsHistory,
       CountRunKeepsHistory, CountedKeepsHistory DEF Next
<1> QED
    BY <1>1, <1>2

LEMMA HistoryIsKept == Spec => []HistoryInv
  BY InitHistory, NextKeepsHistory, PTL DEF Spec

-----------------------------------------------------------------------------
\* Every variable of the counting keeps its type: latest has at most one run of
\* each plan.
THEOREM CountingIsTyped == Spec => []TypeOK
<1>1. HistoryInv => TypeOK
  <2> SUFFICES ASSUME HistoryInv PROVE TypeOK
      OBVIOUS
  <2>1. rows \subseteq Run /\ latest \subseteq Run /\ latest \subseteq Newest(latest)
      BY WindowType DEF HistoryInv, Newest
  <2>2. ASSUME NEW p \in Plans
        PROVE  Cardinality({run \in latest : run.plan = p}) <= 1
    <3> DEFINE own == {run \in latest : run.plan = p}
    <3>1. \A x, y \in own : x = y
      <4> SUFFICES ASSUME NEW x \in own, NEW y \in own PROVE x = y
          OBVIOUS
      <4>1. x \in Run /\ y \in Run /\ x.version <= y.version /\ y.version <= x.version
          BY <2>1 DEF Newest
      <4>2. x.version = y.version /\ x.plan = y.plan
          BY <4>1 DEF Run
      <4>3. x \in selected /\ y \in selected
          BY DEF HistoryInv, Newest, Window
      <4> QED
          BY <4>2, <4>3 DEF HistoryInv, Distinct
    <3>2. CASE own = {}
        BY <3>2, FS_EmptySet
    <3>3. CASE own # {}
      <4>1. PICK x \in own : TRUE
          BY <3>3
      <4>2. own = {x}
          BY <3>1, <4>1
      <4>3. Cardinality({x}) = 1
          BY FS_Singleton
      <4> QED
          BY <4>2, <4>3
    <3> QED
        BY <3>2, <3>3
  <2> QED
      BY <2>1, <2>2 DEF HistoryInv, TypeOK
<1> QED
    BY <1>1, HistoryIsKept, PTL

\* The counts are those of the final runs, however often the days of the window
\* have been calculated and in whatever order the rows come.
THEOREM FinalRunsAreCounted == Spec => []CountsAreOfFinalRuns
<1>1. HistoryInv => CountsAreOfFinalRuns
  <2> SUFFICES ASSUME HistoryInv, pc = "done", NEW t \in Teachers
               PROVE  /\ counts7[t] = Cardinality(SubstitutionsOf(t, 7))
                      /\ counts30[t] = Cardinality(SubstitutionsOf(t, 30))
      BY DEF CountsAreOfFinalRuns
  <2>1. /\ counts7[t] = Cardinality(Entries(t, 7, Newest(Window)))
        /\ counts30[t] = Cardinality(Entries(t, 30, Newest(Window)))
    <3>1. Newest(Window) \ latest = Newest(Window)
        BY DEF HistoryInv
    <3> QED
        BY <3>1 DEF HistoryInv, CountedSoFar
  <2>2. ASSUME NEW length \in {7, 30}
        PROVE  SubstitutionsOf(t, length) = Entries(t, length, Newest(Window))
    <3>1. ASSUME NEW p \in Plans, day - Date[p] \in 1 .. length
          PROVE  Final(p) = {run \in Newest(Window) : run.plan = p}
      <4>1. \A run \in selected : run.plan = p => run \in Window
          BY <3>1, HistoryAssumption DEF HistoryInv, Window
      <4> QED
          BY <4>1 DEF Final, Newest, Window
    <3>2. \A entry \in Plans \X Activities :
             entry \in SubstitutionsOf(t, length) <=> entry \in Entries(t, length, Newest(Window))
        BY <3>1 DEF SubstitutionsOf, Entries, Activities
    <3> QED
        BY <3>2 DEF SubstitutionsOf, Entries, Activities
  <2> QED
      BY <2>1, <2>2
<1> QED
    BY <1>1, HistoryIsKept, PTL
=============================================================================
