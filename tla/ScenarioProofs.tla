---------------------------- MODULE ScenarioProofs ----------------------------
(* Years, scenarios and snapshots, proved for any number of requests.         *)
EXTENDS ScenarioSnapshots, TLAPS

\* Documents and rows are what the types say.
LEMMA SomeDocIsDoc == SomeDoc \in Docs
  BY DocsAssumption DEF SomeDoc

LEMMA DocsAreTyped == Docs \subseteq DocType
<1> SUFFICES ASSUME NEW d \in Docs PROVE d \in DocType
    OBVIOUS
<1>1. d = [c \in Columns |-> d[c]]
    BY DocsAssumption
<1>2. \A c \in Columns : d[c] \in UNION {{e[x] : x \in Columns} : e \in Docs}
    OBVIOUS
<1> QED
    BY <1>1, <1>2 DEF DocType

\* The rows that saves write.
Mixed(r) == [c \in Columns |-> IF c \in Changed(r) THEN sent[r][c] ELSE row.doc[c]]
New(r)   == IF copy[r] = Absent THEN [version |-> 1, doc |-> sent[r]]
                                ELSE [version |-> copy[r].version + 1, doc |-> Mixed(r)]

LEMMA AbsentVersion == Absent.version = 0 /\ Absent \in RowType
  BY DEF Absent, RowType

LEMMA RowVersions ==
    ASSUME NEW x \in RowType
    PROVE  /\ x.version \in Nat
           /\ x.version = 0 <=> x = Absent
  BY DEF RowType, Absent

LEMMA NewIsTyped ==
    ASSUME TypeOK, NEW r \in Saves,
           copy[r] # Absent => row # Absent
    PROVE  New(r) \in RowType /\ New(r).version >= 1
<1>1. copy[r] \in RowType /\ row \in RowType /\ sent[r] \in Docs
    BY DEF TypeOK
<1>2. CASE copy[r] = Absent
    BY <1>1, <1>2, DocsAreTyped DEF New, RowType
<1>3. CASE copy[r] # Absent
  <2>1. row.doc \in DocType /\ copy[r].version \in Nat
      BY <1>1, <1>3 DEF RowType, Absent
  <2>2. sent[r] \in DocType
      BY <1>1, DocsAreTyped
  <2>3. Mixed(r) \in DocType
      BY <2>1, <2>2 DEF Mixed, DocType
  <2> QED
      BY <1>3, <2>1, <2>3 DEF New, RowType
<1> QED
    BY <1>2, <1>3

-----------------------------------------------------------------------------
\* What a save knows between its read and its write, and how the committed row,
\* the number of commits and what each of them left belong together.
Counts ==
    /\ row = Absent <=> saves = 0
    /\ \A r \in Saves : savedAt[r] <= saves /\ loadedAt[r] <= saves
    /\ \A n \in 1..saves : \E q \in Saves : savedAt[q] = n
    /\ \A q \in Saves : savedAt[q] > 0 /\ savedAt[q] = saves => after[q] = row
    /\ \A q, r \in Saves : savedAt[q] > 0 /\ savedAt[q] = savedAt[r] => q = r

Copies ==
    \A r \in Saves :
        /\ pc[r] = "read" => /\ copy[r] = Absent <=> loadedAt[r] = 0
                             /\ loadedAt[r] = saves => copy[r] = row
        /\ pc[r] \in {"idle", "unsent", "sent", "read"} => savedAt[r] = 0

\* Only the first save gives the version 1.
Firsts == \A q \in Saves : savedAt[q] > 0 =>
             after[q].version >= 1 /\ (after[q].version = 1 => savedAt[q] = 1)

Conflicts == \A r \in Saves : pc[r] = "conflict" =>
                \E q \in Committed : loadedAt[r] < savedAt[q]

SaveInv == TypeOK /\ Counts /\ Copies /\ Firsts /\ Conflicts /\ UndisturbedSaveIsStored

\* The CHOOSE of VersionAfter has one candidate.
LEMMA VersionAfterSave ==
    ASSUME TypeOK, Counts, NEW n \in Nat \ {0}, NEW q \in Saves, savedAt[q] = n
    PROVE  VersionAfter(n) = after[q].version
<1> DEFINE p == CHOOSE x \in Saves : savedAt[x] = n
<1>1. p \in Saves /\ savedAt[p] = n
    OBVIOUS
<1>2. p = q
    BY <1>1 DEF Counts
<1> QED
    BY <1>2 DEF VersionAfter

\* The same in the state after a step.
LEMMA VersionAfterSaveNext ==
    ASSUME TypeOK', Counts', NEW n \in Nat \ {0}, NEW q \in Saves, savedAt'[q] = n
    PROVE  VersionAfter(n)' = after'[q].version
<1> DEFINE p == CHOOSE x \in Saves : savedAt'[x] = n
<1>1. p \in Saves /\ savedAt'[p] = n
    OBVIOUS
<1>2. p = q
    BY <1>1 DEF Counts
<1> QED
    BY <1>2 DEF VersionAfter

LEMMA InitSaveInv == Init => SaveInv
<1> SUFFICES ASSUME Init PROVE SaveInv
    OBVIOUS
<1>1. TypeOK
    BY SomeDocIsDoc, AbsentVersion DEF Init, TypeOK, YearRow, ScenarioRow
<1>2. Counts /\ Copies
    BY DEF Init, Counts, Copies
<1>3. Firsts /\ Conflicts /\ UndisturbedSaveIsStored
    BY DEF Init, Firsts, Conflicts, UndisturbedSaveIsStored, Committed
<1> QED
    BY <1>1, <1>2, <1>3 DEF SaveInv

\* A save that has read the row writes the next version of it.
LEMMA WritesKeepSaveInv ==
    ASSUME SaveInv, NEW r \in Saves, pc[r] = "read", copy[r] = Absent => row = Absent,
           Write(r, New(r))
    PROVE  SaveInv'
<1> USE DEF SaveInv
<1>1. copy[r] # Absent => row # Absent
    BY DEF Copies, Counts, TypeOK
<1>2. New(r) \in RowType /\ New(r).version >= 1
    BY <1>1, NewIsTyped
<1>3. TypeOK'
    BY <1>2 DEF TypeOK, Write, Goto, names, YearRow, ScenarioRow
<1>4. savedAt[r] = 0 /\ savedAt'[r] = saves + 1 /\ after'[r] = New(r) /\ row' = New(r)
      /\ saves \in Nat /\ saves' = saves + 1 /\ pc'[r] = "saved"
    BY DEF Copies, Write, Goto, TypeOK
<1>5. \A q \in Saves \ {r} : savedAt'[q] = savedAt[q] /\ after'[q] = after[q] /\ pc'[q] = pc[q]
    BY DEF Write, Goto, TypeOK
<1>6. loadedAt' = loadedAt /\ copy' = copy /\ sent' = sent
    BY DEF Write
<1>7. Counts'
  <2>1. row' # Absent /\ saves' # 0
      BY <1>2, <1>4, AbsentVersion
  <2>2. \A q \in Saves : savedAt'[q] <= saves' /\ loadedAt'[q] <= saves'
      BY <1>4, <1>5, <1>6 DEF Counts, TypeOK
  <2>3. \A n \in 1..saves' : \E q \in Saves : savedAt'[q] = n
    <3> SUFFICES ASSUME NEW n \in 1..saves' PROVE \E q \in Saves : savedAt'[q] = n
        OBVIOUS
    <3>1. CASE n = saves + 1
        BY <3>1, <1>4
    <3>2. CASE n # saves + 1
      <4>1. PICK q \in Saves : savedAt[q] = n
          BY <3>2, <1>4 DEF Counts
      <4>2. q # r
          BY <4>1, <1>4
      <4> QED
          BY <4>1, <4>2, <1>5
    <3> QED
        BY <3>1, <3>2
  <2>4. \A q \in Saves : savedAt'[q] > 0 /\ savedAt'[q] = saves' => after'[q] = row'
      BY <1>4, <1>5 DEF Counts, TypeOK
  <2>5. \A q, x \in Saves : savedAt'[q] > 0 /\ savedAt'[q] = savedAt'[x] => q = x
      BY <1>4, <1>5 DEF Counts, TypeOK
  <2> QED
      BY <2>1, <2>2, <2>3, <2>4, <2>5 DEF Counts
<1>8. Copies'
    BY <1>4, <1>5, <1>6 DEF Copies, Counts, TypeOK
<1>9. Firsts'
  <2>1. New(r).version = 1 => saves = 0
    <3>1. CASE copy[r] = Absent
        BY <3>1 DEF Counts
    <3>2. CASE copy[r] # Absent
      <4>1. copy[r].version \in Nat /\ copy[r].version # 0
          BY <3>2, RowVersions DEF TypeOK
      <4> QED
          BY <4>1, <3>2 DEF New
    <3> QED
        BY <3>1, <3>2
  <2> QED
      BY <2>1, <1>2, <1>4, <1>5 DEF Firsts, TypeOK
<1>10. Conflicts'
  <2> SUFFICES ASSUME NEW x \in Saves, pc'[x] = "conflict"
               PROVE  \E q \in Saves : savedAt'[q] > 0 /\ loadedAt'[x] < savedAt'[q]
      BY DEF Conflicts, Committed
  <2>1. x # r /\ pc[x] = "conflict"
      BY <1>4, <1>5
  <2>2. PICK q \in Saves : savedAt[q] > 0 /\ loadedAt[x] < savedAt[q]
      BY <2>1 DEF Conflicts, Committed
  <2>3. q # r
      BY <2>2, <1>4
  <2> QED
      BY <2>2, <2>3, <1>5, <1>6
<1>11. UndisturbedSaveIsStored'
  <2> SUFFICES ASSUME NEW x \in Saves, savedAt'[x] > 0, savedAt'[x] = loadedAt'[x] + 1,
                      NEW n \in Nat, n = savedAt'[x] - 1
               PROVE  /\ after'[x].doc = sent'[x]
                      /\ after'[x].version = 1 + VersionAfter(n)'
    <3>1. \A x \in Saves : savedAt'[x] > 0 => savedAt'[x] - 1 \in Nat
        BY <1>3 DEF TypeOK
    <3> QED
        BY <3>1 DEF UndisturbedSaveIsStored, Committed
  <2>1. CASE x = r
    <3>1. loadedAt[r] = saves
        BY <2>1, <1>4, <1>6 DEF TypeOK
    <3>2. copy[r] = row
        BY <3>1 DEF Copies
    <3>3. New(r).doc = sent[r]
      <4>1. CASE copy[r] = Absent
          BY <4>1 DEF New
      <4>2. CASE copy[r] # Absent
        <5>1. sent[r] \in Docs
            BY DEF TypeOK
        <5>2. sent[r] = [c \in Columns |-> sent[r][c]]
            BY <5>1, DocsAssumption
        <5>3. \A c \in Columns : (IF c \in Changed(r) THEN sent[r][c] ELSE row.doc[c]) = sent[r][c]
            BY <3>2 DEF Changed
        <5>4. Mixed(r) = [c \in Columns |-> sent[r][c]]
            BY <5>3 DEF Mixed
        <5> QED
            BY <4>2, <5>2, <5>4 DEF New
      <4> QED
          BY <4>1, <4>2
    <3>4. New(r).version = 1 + row.version
      <4>1. row.version \in Nat /\ (row = Absent => row.version = 0)
          BY RowVersions, AbsentVersion DEF TypeOK
      <4> QED
          BY <4>1, <3>2 DEF New
    <3>5. VersionAfter(n)' = row.version /\ n = saves
      <4>1. n = saves
          BY <2>1, <1>4
      <4>2. CASE saves = 0
          BY <4>1, <4>2, AbsentVersion DEF Counts, VersionAfter
      <4>3. CASE saves # 0
        <5>1. PICK q \in Saves : savedAt[q] = n
            BY <4>1, <4>3, <1>4 DEF Counts
        <5>2. q # r /\ savedAt'[q] = n /\ after'[q] = row /\ n \in Nat \ {0}
            BY <5>1, <4>1, <4>3, <1>4, <1>5 DEF Counts
        <5> QED
            BY <5>2, <4>1, <1>3, <1>7, VersionAfterSaveNext
      <4> QED
          BY <4>2, <4>3
    <3> QED
        BY <2>1, <3>3, <3>4, <3>5, <1>4, <1>6
  <2>2. CASE x # r
    <3>1. savedAt[x] > 0 /\ savedAt[x] = loadedAt[x] + 1 /\ savedAt[x] - 1 = n /\ n < saves
        BY <2>2, <1>5, <1>6 DEF TypeOK, Counts
    <3>2. after[x].doc = sent[x] /\ after[x].version = 1 + VersionAfter(n)
        BY <3>1 DEF UndisturbedSaveIsStored, Committed
    <3>3. VersionAfter(n)' = VersionAfter(n)
      <4>1. CASE n = 0
          BY <4>1 DEF VersionAfter
      <4>2. CASE n # 0
        <5>1. PICK q \in Saves : savedAt[q] = n
            BY <4>2, <3>1, <1>4 DEF Counts
        <5>2. q # r /\ n \in Nat \ {0}
            BY <5>1, <4>2, <1>4
        <5>3. savedAt'[q] = n /\ after'[q] = after[q]
            BY <5>1, <5>2, <1>5
        <5>4. VersionAfter(n) = after[q].version
            BY <5>1, <5>2, VersionAfterSave
        <5>5. VersionAfter(n)' = after'[q].version
            BY <5>2, <5>3, <1>3, <1>7, VersionAfterSaveNext
        <5> QED
            BY <5>3, <5>4, <5>5
      <4> QED
          BY <4>1, <4>2
    <3> QED
        BY <2>2, <3>2, <3>3, <1>5, <1>6
  <2> QED
      BY <2>1, <2>2
<1> QED
    BY <1>3, <1>7, <1>8, <1>9, <1>10, <1>11

\* Every other step of a request leaves the committed row and the commits alone.
LEMMA OtherSaveSteps ==
    ASSUME SaveInv, NEW r \in Saves,
           \/ \E doc \in Docs : Send(r, doc)
           \/ Read(r) \/ InsertConflict(r) \/ Answer(r) \/ Die(r)
    PROVE  SaveInv'
<1> USE DEF SaveInv
<1>1. TypeOK'
    BY DEF TypeOK, Send, Read, InsertConflict, Answer, Die, Goto, names, history, YearRow, ScenarioRow
<1>2. row' = row /\ saves' = saves /\ savedAt' = savedAt /\ after' = after
    BY DEF Send, Read, InsertConflict, Answer, Die, history
<1>3. \A q \in Saves \ {r} : /\ pc'[q] = pc[q] /\ copy'[q] = copy[q] /\ sent'[q] = sent[q]
                             /\ loadedAt'[q] = loadedAt[q]
    BY DEF TypeOK, Send, Read, InsertConflict, Answer, Die, Goto, history
<1>4. \/ /\ Read(r) /\ copy'[r] = row /\ loadedAt'[r] = saves /\ pc'[r] = "read" /\ savedAt[r] = 0
         /\ sent' = sent
      \/ /\ loadedAt' = loadedAt /\ pc'[r] # "read" /\ (pc'[r] = "sent" => savedAt[r] = 0)
         /\ pc'[r] \notin {"idle", "unsent"}
         /\ (sent'[r] = sent[r] \/ savedAt[r] = 0)
         /\ (pc'[r] = "conflict" => row # Absent /\ loadedAt[r] = 0)
    BY DEF TypeOK, Copies, Send, Read, InsertConflict, Answer, Die, Goto, history, ScenarioTaken
<1>5. Counts'
    BY <1>2, <1>3, <1>4 DEF Counts, TypeOK
<1>6. Copies'
    BY <1>2, <1>3, <1>4 DEF Copies, Counts, TypeOK
<1>7. Firsts'
    BY <1>2 DEF Firsts
<1>8. Conflicts'
  <2> SUFFICES ASSUME NEW x \in Saves, pc'[x] = "conflict"
               PROVE  \E q \in Saves : savedAt[q] > 0 /\ loadedAt'[x] < savedAt[q]
      BY <1>2 DEF Conflicts, Committed
  <2>1. CASE x = r
    <3>1. row # Absent /\ loadedAt'[r] = 0
        BY <2>1, <1>4
    <3>2. saves \in 1..saves
        BY <3>1 DEF Counts, TypeOK
    <3> QED
        BY <2>1, <3>1, <3>2 DEF Counts, TypeOK
  <2>2. CASE x # r
      BY <2>2, <1>3 DEF Conflicts, Committed
  <2> QED
      BY <2>1, <2>2
<1>9. UndisturbedSaveIsStored'
  <2> SUFFICES ASSUME NEW x \in Saves, savedAt[x] > 0, savedAt[x] = loadedAt'[x] + 1
               PROVE  /\ after[x].doc = sent'[x]
                      /\ after[x].version = 1 + VersionAfter(savedAt[x] - 1)
      BY <1>2 DEF UndisturbedSaveIsStored, Committed, VersionAfter
  <2>1. loadedAt'[x] = loadedAt[x] /\ sent'[x] = sent[x]
      BY <1>3, <1>4 DEF TypeOK
  <2> QED
      BY <2>1 DEF UndisturbedSaveIsStored, Committed
<1> QED
    BY <1>1, <1>5, <1>6, <1>7, <1>8, <1>9

LEMMA CreatesKeepSaveInv ==
    ASSUME SaveInv, NEW r \in Creates,
           \/ \E label \in Labels : CreateYear(r, label) \/ CreateScenario(r, label)
           \/ RefuseScenario(r)
    PROVE  SaveInv'
<1> USE DEF SaveInv
<1>1. TypeOK'
  <2>1. CASE RefuseScenario(r)
      BY <2>1 DEF TypeOK, RefuseScenario, Goto, names, history, YearRow, ScenarioRow
  <2>2. ASSUME NEW label \in Labels, CreateYear(r, label) \/ CreateScenario(r, label)
        PROVE  TypeOK'
    <3>1. [id |-> r, label |-> label] \in YearRow
          /\ [id |-> r, year |-> Year, label |-> label] \in ScenarioRow
        BY DEF YearRow, ScenarioRow
    <3>2. years' \subseteq YearRow /\ scenarios' \subseteq ScenarioRow
        BY <2>2, <3>1 DEF TypeOK, CreateYear, CreateScenario
    <3>3. wanted' \in [Creates -> {Nothing} \cup YearRow \cup ScenarioRow]
        BY <2>2, <3>1 DEF TypeOK, CreateYear, CreateScenario, Create
    <3>4. pc' \in [Saves \cup Creates -> {"idle", "unsent", "sent", "read", "saved", "answered",
                                          "missing", "conflict", "lost"}]
        BY <2>2 DEF TypeOK, CreateYear, CreateScenario, Create, Goto
    <3>5. UNCHANGED <<row, sent, copy, history>>
        BY <2>2 DEF CreateYear, CreateScenario, Create
    <3> QED
        BY <3>2, <3>3, <3>4, <3>5 DEF TypeOK, YearRow, ScenarioRow, history
  <2> QED
      BY <2>1, <2>2
<1>2. UNCHANGED <<row, sent, copy, history>>
    BY DEF CreateYear, CreateScenario, RefuseScenario, Create
<1>3. \A q \in Saves : pc'[q] = pc[q]
    BY RequestsAssumption DEF TypeOK, CreateYear, CreateScenario, RefuseScenario, Create, Goto
<1>4. Counts' /\ Copies' /\ Firsts' /\ Conflicts'
    BY <1>2, <1>3 DEF Counts, Copies, Firsts, Conflicts, Committed, history
<1>5. UndisturbedSaveIsStored'
    BY <1>2 DEF UndisturbedSaveIsStored, Committed, VersionAfter, history
<1> QED
    BY <1>1, <1>4, <1>5

LEMMA StepsKeepSaveInv == SaveInv /\ [Next]_vars => SaveInv'
<1> SUFFICES ASSUME SaveInv, [Next]_vars PROVE SaveInv'
    OBVIOUS
<1>1. ASSUME NEW r \in Saves, Insert(r) PROVE SaveInv'
  <2>1. Write(r, New(r)) /\ pc[r] = "read" /\ (copy[r] = Absent => row = Absent)
      BY <1>1 DEF Insert, New, ScenarioTaken
  <2> QED
      BY <2>1, WritesKeepSaveInv
<1>2. ASSUME NEW r \in Saves, Update(r) PROVE SaveInv'
  <2>1. Write(r, New(r)) /\ pc[r] = "read" /\ copy[r] # Absent
      BY <1>2 DEF Update, New, Mixed
  <2> QED
      BY <2>1, WritesKeepSaveInv
<1>3. CASE UNCHANGED vars
  <2>1. UNCHANGED <<names, row, pc, sent, copy, saves, loadedAt, savedAt, after>>
      BY <1>3 DEF vars, history
  <2>2. TypeOK'
      BY <2>1 DEF names, SaveInv, TypeOK
  <2>3. Counts' /\ Copies' /\ Firsts'
      BY <2>1 DEF SaveInv, Counts, Copies, Firsts
  <2>4. Conflicts'
      BY <2>1 DEF SaveInv, Conflicts, Committed
  <2>5. UndisturbedSaveIsStored'
      BY <2>1 DEF SaveInv, UndisturbedSaveIsStored, Committed, VersionAfter
  <2> QED
      BY <2>2, <2>3, <2>4, <2>5 DEF SaveInv
<1> QED
    BY <1>1, <1>2, <1>3, OtherSaveSteps, CreatesKeepSaveInv DEF Next

\* Every reachable state of the scenario handlers is well typed.
THEOREM ScenariosAreTyped == Spec => []TypeOK
  BY InitSaveInv, StepsKeepSaveInv, PTL DEF Spec, SaveInv

\* A save that nobody disturbed is stored whole, under the next number.
THEOREM UndisturbedSavesAreStored == Spec => []UndisturbedSaveIsStored
  BY InitSaveInv, StepsKeepSaveInv, PTL DEF Spec, SaveInv

\* Of racing first saves exactly one creates the row, and a 409 is told only to
\* those that lost to it.
THEOREM TheFirstSaveWins == Spec => []FirstSaveWins
<1>1. SaveInv => FirstSaveWins
  <2> SUFFICES ASSUME SaveInv PROVE FirstSaveWins
      OBVIOUS
  <2>1. \A q, r \in Committed : after[q].version = 1 /\ after[r].version = 1 => q = r
    <3>1. \A q \in Committed : after[q].version = 1 => savedAt[q] = 1
        BY DEF SaveInv, Firsts, Committed
    <3> QED
        BY <3>1 DEF SaveInv, Counts, Committed
  <2>2. \A r \in Saves : pc[r] = "conflict" => \E q \in Committed : loadedAt[r] < savedAt[q]
      BY DEF SaveInv, Conflicts
  <2> QED
      BY <2>1, <2>2 DEF FirstSaveWins
<1> QED
    BY <1>1, InitSaveInv, StepsKeepSaveInv, PTL DEF Spec

-----------------------------------------------------------------------------
\* A row that a request has created is there only after its 201.
Answered == \A x \in years \cup scenarios : x.id \in Creates => pc[x.id] = "answered"

NameInv == TypeOK /\ Answered /\ OneOfEachName

LEMMA RowsHaveTheirFields ==
    /\ \A y \in YearRow : DOMAIN y = {"id", "label"} /\ y.id \in Creates \cup {Year}
    /\ \A s \in ScenarioRow : DOMAIN s = {"id", "year", "label"} /\ s.id \in Creates \cup {Scenario}
  BY DEF YearRow, ScenarioRow

LEMMA InitNameInv == Init => NameInv
<1> SUFFICES ASSUME Init PROVE NameInv
    OBVIOUS
<1>1. TypeOK
    BY InitSaveInv DEF SaveInv
<1>2. Answered
    BY RequestsAssumption DEF Init, Answered
<1>3. OneOfEachName
    BY DEF Init, OneOfEachName
<1> QED
    BY <1>1, <1>2, <1>3 DEF NameInv

\* A new row gets in only when no row of its table has its name.
LEMMA CreatesKeepNameInv ==
    ASSUME NameInv, TypeOK', NEW r \in Creates, NEW label \in Labels,
           CreateYear(r, label) \/ CreateScenario(r, label)
    PROVE  NameInv'
<1> DEFINE y == [id |-> r, label |-> label]
           s == [id |-> r, year |-> Year, label |-> label]
<1>1. /\ y \in YearRow /\ s \in ScenarioRow
      /\ y.id = r /\ s.id = r /\ y.label = label /\ s.label = label
    BY DEF YearRow, ScenarioRow
<1> HIDE DEF y, s
<1>2. years \subseteq YearRow /\ scenarios \subseteq ScenarioRow
    BY DEF NameInv, TypeOK
<1>3. pc[r] = "idle" /\ \A q \in Creates \ {r} : pc'[q] = pc[q] /\ wanted'[q] = wanted[q]
    BY DEF NameInv, TypeOK, CreateYear, CreateScenario, Create, Goto
<1>4. \A x \in years \cup scenarios : x.id # r
    BY <1>3 DEF NameInv, Answered
<1>5. \/ /\ wanted'[r] = y /\ scenarios' = scenarios
         /\ \/ LabelTaken(years, y) /\ pc'[r] = "conflict" /\ years' = years
            \/ ~ LabelTaken(years, y) /\ pc'[r] = "answered" /\ years' = years \cup {y}
      \/ /\ wanted'[r] = s /\ years' = years
         /\ \/ LabelTaken(scenarios, s) /\ pc'[r] = "conflict" /\ scenarios' = scenarios
            \/ ~ LabelTaken(scenarios, s) /\ pc'[r] = "answered" /\ scenarios' = scenarios \cup {s}
    BY DEF NameInv, TypeOK, CreateYear, CreateScenario, Create, Goto, y, s
<1>6. Answered'
    BY <1>1, <1>3, <1>5 DEF NameInv, Answered
<1>7. ASSUME NEW q \in Creates, pc'[q] = "answered" PROVE wanted'[q] \in years' \cup scenarios'
    BY <1>3, <1>5, <1>7 DEF NameInv, OneOfEachName
<1>8. ASSUME NEW q \in Creates, pc'[q] = "conflict"
      PROVE  \E other \in years' \cup scenarios' :
                /\ DOMAIN other = DOMAIN wanted'[q]
                /\ other.label = wanted'[q].label /\ other.id # q
  <2>1. CASE q # r
    <3>1. PICK other \in years \cup scenarios :
             /\ DOMAIN other = DOMAIN wanted[q]
             /\ other.label = wanted[q].label /\ other.id # q
        BY <1>3, <1>8, <2>1 DEF NameInv, OneOfEachName
    <3>2. other \in years' \cup scenarios' /\ wanted'[q] = wanted[q]
        BY <3>1, <1>3, <1>5, <2>1
    <3> QED
        BY <3>1, <3>2
  <2>2. CASE q = r /\ wanted'[r] = y /\ LabelTaken(years, y) /\ years' = years
    <3>1. PICK other \in years : other.label = y.label
        BY <2>2 DEF LabelTaken
    <3>2. DOMAIN other = DOMAIN y /\ other.id # r
        BY <1>1, <1>2, <1>4, <3>1, RowsHaveTheirFields
    <3> QED
        BY <2>2, <3>1, <3>2
  <2>3. CASE q = r /\ wanted'[r] = s /\ LabelTaken(scenarios, s) /\ scenarios' = scenarios
    <3>1. PICK other \in scenarios : other.label = s.label
        BY <2>3 DEF LabelTaken
    <3>2. DOMAIN other = DOMAIN s /\ other.id # r
        BY <1>1, <1>2, <1>4, <3>1, RowsHaveTheirFields
    <3> QED
        BY <2>3, <3>1, <3>2
  <2> QED
      BY <1>5, <1>8, <2>1, <2>2, <2>3
<1>9. ASSUME NEW some \in {years', scenarios'}, NEW a \in some, NEW b \in some, a.label = b.label
      PROVE  a = b
    BY <1>1, <1>5, <1>9 DEF NameInv, OneOfEachName, LabelTaken
<1> QED
    BY <1>6, <1>7, <1>8, <1>9 DEF NameInv, OneOfEachName

LEMMA StepsKeepNameInv == SaveInv /\ NameInv /\ [Next]_vars => NameInv'
<1> SUFFICES ASSUME SaveInv, NameInv, [Next]_vars PROVE NameInv'
    OBVIOUS
<1>1. TypeOK'
    BY StepsKeepSaveInv DEF SaveInv
<1>2. ASSUME names' = names,
             \A q \in Creates : pc'[q] = pc[q] \/ (pc'[q] = "missing" /\ pc[q] = "idle")
      PROVE  NameInv'
  <2>1. years' = years /\ scenarios' = scenarios /\ wanted' = wanted
      BY <1>2 DEF names
  <2>2. Answered'
      BY <1>2, <2>1 DEF NameInv, Answered
  <2>3. OneOfEachName'
      BY <1>2, <2>1 DEF NameInv, OneOfEachName
  <2> QED
      BY <1>1, <2>2, <2>3 DEF NameInv
<1>3. ASSUME NEW r \in Saves, NEW label, Goto(r, label) PROVE \A q \in Creates : pc'[q] = pc[q]
    BY <1>3, RequestsAssumption DEF NameInv, TypeOK, Goto
<1>4. ASSUME NEW r \in Saves,
             \/ \E doc \in Docs : Send(r, doc)
             \/ Read(r)
             \/ Insert(r) \/ InsertConflict(r) \/ Update(r)
             \/ Answer(r) \/ Die(r)
      PROVE  NameInv'
  <2>1. names' = names
      BY <1>4 DEF Send, Read, Insert, InsertConflict, Update, Write, Answer, Die, names
  <2>2. \E label : Goto(r, label)
      BY <1>4 DEF Send, Read, Insert, InsertConflict, Update, Write, Answer, Die
  <2> QED
      BY <2>1, <2>2, <1>2, <1>3
<1>5. ASSUME NEW r \in Creates, RefuseScenario(r) PROVE NameInv'
  <2>1. names' = names
      BY <1>5 DEF RefuseScenario
  <2>2. \A q \in Creates : pc'[q] = pc[q] \/ (pc'[q] = "missing" /\ pc[q] = "idle")
      BY <1>5 DEF RefuseScenario, Goto, NameInv, TypeOK
  <2> QED
      BY <2>1, <2>2, <1>2
<1>6. CASE UNCHANGED vars
  <2>1. names' = names /\ pc' = pc
      BY <1>6 DEF vars
  <2> QED
      BY <2>1, <1>2
<1>7. ASSUME NEW r \in Creates, NEW label \in Labels, CreateYear(r, label) \/ CreateScenario(r, label)
      PROVE  NameInv'
    BY <1>1, <1>7, CreatesKeepNameInv
<1> QED
    BY <1>4, <1>5, <1>6, <1>7 DEF Next

\* A client told 201 finds its year or scenario, one told 409 another one of that
\* name, and no two rows of a table have one name.
THEOREM NamesAreUnique == Spec => []OneOfEachName
  BY InitSaveInv, StepsKeepSaveInv, InitNameInv, StepsKeepNameInv, PTL DEF Spec, NameInv
=============================================================================
