-------------------------- MODULE ConfigurationProofs --------------------------
(* Proofs about Configuration, for any requests and payloads: the types, what *)
(* duties and students may refer to while timetables are replaced, who waits  *)
(* for whom, that edits of one configuration never mix, and what a solver     *)
(* reads meanwhile.                                                           *)
EXTENDS Configuration, TLAPS

Active == {"delete", "deleting", "insert"}

Stages == {"idle", "delete", "deleting", "insert", "teachers", "unsent", "incomplete",
           "ok", "invalid", "conflict", "failed", "lost"}

\* The number of DELETEs.
Last(q) == Len(Deletes(q))

\* A request deletes one table after the other and inserts after the last.
Steps ==
    \A q \in Puts :
        /\ pc[q] \in {"idle", "unsent"} => step[q] = 0
        /\ pc[q] \in {"delete", "deleting"} => step[q] < Last(q)

\* Rows are visible to others once their writer has committed.
Owners ==
    /\ \A row \in rows : row.by \in Puts => pc[row.by] = "ok"
    /\ \A q \in Puts : \A row \in deleted[q] : row.by \in Puts => pc[row.by] = "ok"

\* Neither handler deletes teachers or groups.
OwnTables ==
    \A q \in Puts : \A row \in deleted[q] \cup snap[q] :
        /\ Kind[q] = "operations" => row.table \in {"shifts", "duties"}
        /\ Kind[q] = "roster"     => row.table \in {"students", "supports"}

\* The supports of a deleted student are deleted too.
Cascade ==
    \A q \in Puts : Kind[q] = "roster" =>
        /\ pc[q] = "deleting" /\ step[q] = 2 =>
              /\ \A row \in rows : Belongs(row, deleted[q]) => row \in snap[q]
              /\ \A row \in snap[q] : row.table = "supports"
        /\ pc[q] = "insert" =>
              \A row \in rows : Belongs(row, deleted[q]) => row \in deleted[q]

Resolved(ref, some) == \E o \in some : Key(o) = ref

Shared      == KnownTeachers \cup KnownGroups
Students(r) == {o \in rows : o.table = "students" /\ o.by = r}

\* What has been checked holds until a timetable is committed.
References ==
    \A r \in Puts \ Timetables : checked[r] = commits =>
        /\ pc[r] \in Active =>
              \A row \in RowsOf(r) : \A ref \in row.refs :
                  Resolved(ref, Shared \cup RowsIn(r, "students"))
        /\ \A row \in rows : row.by = r =>
              \A ref \in row.refs : Resolved(ref, Shared \cup Students(r))

ConfigurationInv ==
    /\ TypeOK
    /\ \A r \in Puts : checked[r] <= commits
    /\ Steps
    /\ Owners
    /\ OwnTables
    /\ Cascade
    /\ References

-----------------------------------------------------------------------------
LEMMA DeletesOf ==
    ASSUME NEW q \in Puts
    PROVE  /\ Len(Deletes(q)) \in 2 .. 5
           /\ Kind[q] = "operations" =>
                 Len(Deletes(q)) = 2 /\ Deletes(q)[1] = "shifts" /\ Deletes(q)[2] = "duties"
           /\ Kind[q] = "roster" =>
                 /\ Len(Deletes(q)) = 3
                 /\ Deletes(q)[1] = "supports" /\ Deletes(q)[2] = "students"
                 /\ Deletes(q)[3] = "cascade"
<1>1. Kind[q] \in {"academic", "legacy", "operations", "roster"}
    BY PayloadAssumption
<1>2. CASE Kind[q] = "academic"
    BY <1>2 DEF Deletes, AcademicDeletes
<1>3. CASE Kind[q] = "legacy"
    BY <1>3 DEF Deletes, LegacyDeletes
<1>4. CASE Kind[q] = "operations"
    BY <1>4 DEF Deletes, OperationsDeletes
<1>5. CASE Kind[q] = "roster"
    BY <1>5 DEF Deletes, RosterDeletes
<1> QED
    BY <1>1, <1>2, <1>3, <1>4, <1>5

LEMMA NumberOfDeletes ==
    ASSUME NEW q \in Puts
    PROVE  /\ Last(q) \in 2 .. 5
           /\ Kind[q] = "operations" => Last(q) = 2
           /\ Kind[q] = "roster" => Last(q) = 3
  BY DeletesOf DEF Last

\* Who has sent a row, and to which tables.
LEMMA RowsOfWriter ==
    ASSUME NEW w \in Writers, NEW row \in RowsOf(w)
    PROVE  /\ row.by = w /\ row \in AllRows /\ row.table \in Tables
           /\ \E item \in Payload[w][row.table] : row = Row(w, row.table, item)
<1>1. PICK t \in Tables : row \in RowsIn(w, t)
    BY DEF RowsOf, Submitted
<1>2. PICK item \in Payload[w][t] : row = Row(w, t, item)
    BY <1>1 DEF RowsIn
<1> QED
    BY <1>2 DEF Row, AllRows

LEMMA RowsAreSent ==
    ASSUME NEW row \in AllRows
    PROVE  row.by \in Writers /\ row \in RowsOf(row.by)
<1>1. PICK w \in Writers : row \in RowsOf(w)
    BY DEF AllRows
<1> QED
    BY <1>1, RowsOfWriter

\* A row of a request that refers to a student of it is a support.
LEMMA SupportsReferToStudents ==
    ASSUME NEW r \in Puts \ Timetables, NEW row \in AllRows, row.by = r,
           NEW o \in AllRows, o.by = r, o.table = "students", Key(o) \in row.refs
    PROVE  Kind[r] = "roster" /\ row.table = "supports"
<1>1. /\ row \in RowsOf(r) /\ o \in RowsOf(r) /\ r \in Writers
      /\ Kind[r] \in {"operations", "roster"}
    BY RowsAreSent, PayloadAssumption DEF Timetables, Writers
<1>2. PICK item \in Payload[r][row.table] : row = Row(r, row.table, item)
    BY <1>1, RowsOfWriter
<1>3. Payload[r]["students"] # {} /\ row.table \in Tables /\ "students" \in Tables
    BY <1>1, RowsOfWriter DEF Tables
<1>4. Kind[r] = "roster" /\ row.table \in {"students", "supports"}
    BY <1>1, <1>2, <1>3, PayloadAssumption
<1>5. row.table # "students"
  <2> SUFFICES ASSUME row.table = "students" PROVE FALSE
      OBVIOUS
  <2>1. row.refs = item.refs /\ item \in Payload[r]["students"]
      BY <1>2 DEF Row
  <2>2. Key(o)[1] = "groups"
      BY <2>1, <1>4, PayloadAssumption
  <2> QED
      BY <2>2 DEF Key
<1> QED
    BY <1>4, <1>5

-----------------------------------------------------------------------------
(* Steps that leave the tables alone                                          *)

\* A request that deletes, waits, fails or dies changes nothing for the others.
LEMMA QuietStep ==
    ASSUME ConfigurationInv, NEW r \in Puts, NEW label \in Stages,
           pc' = [pc EXCEPT ![r] = label], UNCHANGED <<rows, got, commits, checked>>,
           pc[r] # "ok", label \notin {"ok", "idle", "unsent"},
           label \in Active => pc[r] \in Active,
           TypeOK', Steps', OwnTables', Cascade',
           \A q \in Puts : \A row \in deleted'[q] : row.by \in Puts => pc[row.by] = "ok"
    PROVE  ConfigurationInv'
<1>1. \A q \in Puts : /\ pc[q] = "ok" => pc'[q] = "ok"
                      /\ pc'[q] \in Active => pc[q] \in Active
    BY DEF ConfigurationInv, TypeOK
<1>2. Owners'
    BY <1>1 DEF ConfigurationInv, Owners
<1>3. References'
    BY <1>1 DEF ConfigurationInv, References, Shared, Students, KnownTeachers, KnownGroups,
                Resolved
<1>4. \A q \in Puts : checked'[q] <= commits'
    BY DEF ConfigurationInv
<1> QED
    BY <1>2, <1>3, <1>4 DEF ConfigurationInv

LEMMA RefusedStep ==
    ASSUME ConfigurationInv, NEW r \in Puts, PutInvalid(r)
    PROVE  ConfigurationInv'
<1>1. /\ pc[r] = "idle" /\ pc' = [pc EXCEPT ![r] = "invalid"]
      /\ UNCHANGED <<rows, step, snap, deleted, inserted, got, commits, checked>>
    BY DEF PutInvalid, Goto, putVars, history
<1>2. \A q \in Puts : pc'[q] = IF q = r THEN "invalid" ELSE pc[q]
    BY <1>1 DEF ConfigurationInv, TypeOK
<1>3. TypeOK'
    BY <1>1 DEF ConfigurationInv, TypeOK
<1>4. Steps'
    BY <1>1, <1>2 DEF ConfigurationInv, Steps
<1>5. OwnTables'
    BY <1>1 DEF ConfigurationInv, OwnTables
<1>6. Cascade'
    BY <1>1, <1>2 DEF ConfigurationInv, Cascade
<1>7. \A q \in Puts : \A row \in deleted'[q] : row.by \in Puts => pc[row.by] = "ok"
    BY <1>1 DEF ConfigurationInv, Owners
<1> QED
    BY <1>1, <1>3, <1>4, <1>5, <1>6, <1>7, QuietStep DEF Stages, Active

\* What is sent refers to rows that are there.
LEMMA ValidStep ==
    ASSUME ConfigurationInv, NEW r \in Puts, PutValid(r)
    PROVE  ConfigurationInv'
<1>1. /\ pc[r] = "idle" /\ Validates(r) /\ pc' = [pc EXCEPT ![r] = "delete"]
      /\ checked' = [checked EXCEPT ![r] = commits]
      /\ UNCHANGED <<rows, step, snap, deleted, inserted, got, commits>>
    BY DEF PutValid, Goto, putVars
<1>2. \A q \in Puts : /\ pc'[q] = IF q = r THEN "delete" ELSE pc[q]
                      /\ checked'[q] = IF q = r THEN commits ELSE checked[q]
    BY <1>1 DEF ConfigurationInv, TypeOK
<1>3. TypeOK'
    BY <1>1 DEF ConfigurationInv, TypeOK
<1>4. Steps'
    BY <1>1, <1>2, NumberOfDeletes DEF ConfigurationInv, Steps
<1>5. OwnTables'
    BY <1>1 DEF ConfigurationInv, OwnTables
<1>6. Cascade'
    BY <1>1, <1>2 DEF ConfigurationInv, Cascade
<1>7. Owners'
    BY <1>1, <1>2 DEF ConfigurationInv, Owners
<1>8. \A q \in Puts : checked'[q] <= commits'
    BY <1>1, <1>2 DEF ConfigurationInv, TypeOK
<1>9. References'
  <2>1. Shared' = Shared /\ \A q : Students(q)' = Students(q)
      BY <1>1 DEF Shared, Students, KnownTeachers, KnownGroups
  <2>2. \A q \in (Puts \ Timetables) \ {r} : checked'[q] = commits' =>
           /\ pc'[q] \in Active =>
                 \A row \in RowsOf(q) : \A ref \in row.refs :
                     Resolved(ref, Shared \cup RowsIn(q, "students"))
           /\ \A row \in rows' : row.by = q =>
                 \A ref \in row.refs : Resolved(ref, Shared \cup Students(q))
      BY <1>1, <1>2 DEF ConfigurationInv, References
  <2>3. ASSUME r \notin Timetables
        PROVE  /\ \A row \in RowsOf(r) : \A ref \in row.refs :
                      Resolved(ref, Shared \cup RowsIn(r, "students"))
               /\ \A row \in rows' : row.by # r
    <3>1. Kind[r] \in {"operations", "roster"}
        BY <2>3, PayloadAssumption DEF Timetables
    <3>2. Known(r) \subseteq Shared \cup RowsIn(r, "students")
        BY <3>1 DEF Known, Shared
    <3>3. \A row \in rows' : row.by # r
        BY <1>1 DEF ConfigurationInv, Owners
    <3> QED
        BY <1>1, <3>2, <3>3 DEF Validates, Resolves, Resolved
  <2> QED
      BY <2>1, <2>2, <2>3 DEF References, Resolved
<1> QED
    BY <1>3, <1>4, <1>5, <1>6, <1>7, <1>8, <1>9 DEF ConfigurationInv

LEMMA StartDeleteStep ==
    ASSUME ConfigurationInv, NEW r \in Puts, StartDelete(r)
    PROVE  ConfigurationInv'
<1>1. /\ pc[r] = "delete" /\ pc' = [pc EXCEPT ![r] = "deleting"]
      /\ snap' = [snap EXCEPT ![r] = Seen(r)]
      /\ UNCHANGED <<rows, step, deleted, inserted, got, commits, checked>>
    BY DEF StartDelete, Goto, history
<1>2. \A q \in Puts : /\ pc'[q] = IF q = r THEN "deleting" ELSE pc[q]
                      /\ snap'[q] = IF q = r THEN Seen(r) ELSE snap[q]
    BY <1>1 DEF ConfigurationInv, TypeOK
<1>3. step[r] \in 0 .. 5 /\ step[r] < Last(r) /\ Seen(r) \subseteq rows
    BY <1>1 DEF ConfigurationInv, TypeOK, Steps, Seen
<1>4. TypeOK'
    BY <1>1, <1>3 DEF ConfigurationInv, TypeOK
<1>5. Steps'
    BY <1>1, <1>2 DEF ConfigurationInv, Steps
<1>6. \A row \in Seen(r) :
         /\ Kind[r] = "operations" => row.table \in {"shifts", "duties"}
         /\ Kind[r] = "roster"     => row.table \in {"students", "supports"}
  <2>1. CASE Kind[r] = "operations"
    <3>1. step[r] + 1 \in {1, 2}
        BY <2>1, <1>3, NumberOfDeletes
    <3> QED
        BY <2>1, <3>1, DeletesOf DEF Seen
  <2>2. CASE Kind[r] = "roster"
    <3>1. step[r] + 1 \in {1, 2, 3}
        BY <2>2, <1>3, NumberOfDeletes
    <3> QED
        BY <2>2, <3>1, DeletesOf DEF Seen, Belongs
  <2> QED
      BY <2>1, <2>2
<1>7. OwnTables'
    BY <1>1, <1>2, <1>6 DEF ConfigurationInv, OwnTables
<1>8. Cascade'
  <2>1. Kind[r] = "roster" /\ step[r] = 2 =>
           Seen(r) = {row \in rows : Belongs(row, deleted[r])}
      BY DeletesOf DEF Seen
  <2>2. \A row \in rows : Belongs(row, deleted[r]) => row.table = "supports"
      BY DEF Belongs
  <2> QED
      BY <1>1, <1>2, <2>1, <2>2 DEF ConfigurationInv, Cascade
<1>9. \A q \in Puts : \A row \in deleted'[q] : row.by \in Puts => pc[row.by] = "ok"
    BY <1>1 DEF ConfigurationInv, Owners
<1> QED
    BY <1>1, <1>4, <1>5, <1>7, <1>8, <1>9, QuietStep DEF Stages, Active

LEMMA EndDeleteStep ==
    ASSUME ConfigurationInv, NEW r \in Puts, EndDelete(r)
    PROVE  ConfigurationInv'
<1> DEFINE label == IF step[r] + 1 = Last(r) THEN "insert" ELSE "delete"
           gone  == deleted[r] \cup (snap[r] \cap rows)
<1>1. /\ pc[r] = "deleting" /\ pc' = [pc EXCEPT ![r] = label]
      /\ deleted' = [deleted EXCEPT ![r] = gone]
      /\ snap' = [snap EXCEPT ![r] = {}] /\ step' = [step EXCEPT ![r] = step[r] + 1]
      /\ UNCHANGED <<rows, inserted, got, commits, checked>>
    BY DEF EndDelete, Goto, history, Last
<1>2. /\ step[r] \in 0 .. 5 /\ step[r] < Last(r) /\ step[r] + 1 \in 0 .. 5
      /\ label \in {"insert", "delete"}
    BY <1>1, NumberOfDeletes DEF ConfigurationInv, TypeOK, Steps
<1> HIDE DEF label
<1>3. \A q \in Puts : /\ pc'[q] = IF q = r THEN label ELSE pc[q]
                      /\ deleted'[q] = IF q = r THEN gone ELSE deleted[q]
                      /\ snap'[q] = IF q = r THEN {} ELSE snap[q]
                      /\ step'[q] = IF q = r THEN step[r] + 1 ELSE step[q]
    BY <1>1 DEF ConfigurationInv, TypeOK
<1>4. TypeOK'
  <2>1. pc' \in [Puts \cup Solves -> Stages]
      BY <1>1, <1>2 DEF ConfigurationInv, TypeOK, Stages
  <2>2. step' \in [Puts -> 0 .. 5]
      BY <1>1, <1>2 DEF ConfigurationInv, TypeOK
  <2>3. snap' \in [Puts -> SUBSET AllRows] /\ deleted' \in [Puts -> SUBSET AllRows]
      BY <1>1 DEF ConfigurationInv, TypeOK
  <2> QED
      BY <1>1, <2>1, <2>2, <2>3 DEF ConfigurationInv, TypeOK, Stages
<1>5. Steps'
  <2>1. label = "delete" => step[r] + 1 < Last(r)
      BY <1>2, NumberOfDeletes DEF label
  <2> QED
      BY <1>2, <1>3, <2>1 DEF ConfigurationInv, Steps
<1>6. OwnTables'
    BY <1>3 DEF ConfigurationInv, OwnTables
<1>7. Cascade'
  <2>1. ASSUME Kind[r] = "roster", label = "insert", NEW row \in rows, Belongs(row, gone)
        PROVE  row \in gone
    <3>1. step[r] = 2
        BY <2>1, <1>2, NumberOfDeletes DEF label
    <3>2. \A o \in rows : Belongs(o, deleted[r]) => o \in snap[r]
        BY <2>1, <3>1, <1>1 DEF ConfigurationInv, Cascade
    <3>3. CASE Belongs(row, deleted[r])
        BY <3>2, <3>3
    <3>4. CASE \E o \in snap[r] \cap rows :
                  o.table = "students" /\ o.by = row.by /\ Key(o) \in row.refs
      <4>1. \A o \in snap[r] : o.table # "students"
          BY <3>1, <2>1, <1>1 DEF ConfigurationInv, Cascade
      <4> QED
          BY <3>4, <4>1
    <3> QED
        BY <2>1, <3>3, <3>4 DEF Belongs
  <2>2. pc'[r] # "deleting" /\ (pc'[r] = "insert" => label = "insert") /\ deleted'[r] = gone /\ rows' = rows
      BY <1>1, <1>2, <1>3
  <2>3. \A q \in Puts : q # r =>
           pc'[q] = pc[q] /\ step'[q] = step[q] /\ snap'[q] = snap[q] /\ deleted'[q] = deleted[q]
      BY <1>3
  <2> HIDE DEF gone
  <2>4. \A q \in Puts : Kind[q] = "roster" /\ pc'[q] = "insert" =>
           \A row \in rows : Belongs(row, deleted'[q]) => row \in deleted'[q]
      BY <2>1, <2>2, <2>3 DEF ConfigurationInv, Cascade
  <2>5. \A q \in Puts : Kind[q] = "roster" /\ pc'[q] = "deleting" /\ step'[q] = 2 =>
           /\ \A row \in rows : Belongs(row, deleted'[q]) => row \in snap'[q]
           /\ \A row \in snap'[q] : row.table = "supports"
      BY <2>2, <2>3 DEF ConfigurationInv, Cascade
  <2> QED
      BY <2>2, <2>4, <2>5 DEF Cascade
<1>8. \A q \in Puts : \A row \in deleted'[q] : row.by \in Puts => pc[row.by] = "ok"
    BY <1>3 DEF ConfigurationInv, Owners
<1> QED
    BY <1>1, <1>2, <1>4, <1>5, <1>6, <1>7, <1>8, QuietStep DEF Stages, Active

LEMMA InsertStep ==
    ASSUME ConfigurationInv, NEW r \in Puts, InsertRow(r)
    PROVE  ConfigurationInv'
<1>1. PICK row \in Upcoming(r) :
         /\ pc[r] = "insert" /\ inserted' = [inserted EXCEPT ![r] = inserted[r] \cup {row}]
         /\ UNCHANGED <<rows, pc, step, snap, deleted, got, commits, checked>>
    BY DEF InsertRow, history
<1>2. pc' = [pc EXCEPT ![r] = "insert"]
    BY <1>1 DEF ConfigurationInv, TypeOK
<1>3. TypeOK'
  <2>1. row \in AllRows
      BY RowsOfWriter DEF Upcoming, Writers
  <2>2. inserted' \in [Puts -> SUBSET AllRows]
      BY <1>1, <2>1 DEF ConfigurationInv, TypeOK
  <2> QED
      BY <1>1, <2>2 DEF ConfigurationInv, TypeOK
<1>4. Steps' /\ OwnTables' /\ Cascade'
    BY <1>1 DEF ConfigurationInv, Steps, OwnTables, Cascade
<1>5. \A q \in Puts : \A o \in deleted'[q] : o.by \in Puts => pc[o.by] = "ok"
    BY <1>1 DEF ConfigurationInv, Owners
<1> QED
    BY <1>1, <1>2, <1>3, <1>4, <1>5, QuietStep DEF Stages, Active

\* A transaction that is rolled back, for whatever reason.
LEMMA RollbackStep ==
    ASSUME ConfigurationInv, NEW r \in Puts, pc[r] \in Active,
           NEW label \in {"conflict", "failed", "lost"}, EndTransaction(r, label),
           UNCHANGED <<rows, step, got, history>>
    PROVE  ConfigurationInv'
<1>1. /\ pc' = [pc EXCEPT ![r] = label]
      /\ deleted' = [deleted EXCEPT ![r] = {}] /\ snap' = [snap EXCEPT ![r] = {}]
      /\ inserted' = [inserted EXCEPT ![r] = {}]
      /\ UNCHANGED <<rows, step, got, commits, checked>>
    BY DEF EndTransaction, Goto, history
<1>2. \A q \in Puts : /\ pc'[q] = IF q = r THEN label ELSE pc[q]
                      /\ deleted'[q] = IF q = r THEN {} ELSE deleted[q]
                      /\ snap'[q] = IF q = r THEN {} ELSE snap[q]
    BY <1>1 DEF ConfigurationInv, TypeOK
<1>3. TypeOK'
    BY <1>1 DEF ConfigurationInv, TypeOK
<1>4. Steps'
    BY <1>1, <1>2 DEF ConfigurationInv, Steps
<1>5. OwnTables'
    BY <1>1, <1>2 DEF ConfigurationInv, OwnTables
<1>6. Cascade'
    BY <1>1, <1>2 DEF ConfigurationInv, Cascade
<1>7. \A q \in Puts : \A row \in deleted'[q] : row.by \in Puts => pc[row.by] = "ok"
    BY <1>2 DEF ConfigurationInv, Owners
<1> QED
    BY <1>1, <1>3, <1>4, <1>5, <1>6, <1>7, QuietStep DEF Stages, Active

-----------------------------------------------------------------------------
(* The commit                                                                 *)

LEMMA CommitStep ==
    ASSUME ConfigurationInv, NEW r \in Puts, Commit(r)
    PROVE  ConfigurationInv'
<1>1. /\ pc[r] = "insert" /\ pc' = [pc EXCEPT ![r] = "ok"]
      /\ rows' = (rows \ deleted[r]) \cup RowsOf(r)
      /\ commits' = IF r \in Timetables THEN commits + 1 ELSE commits
      /\ deleted' = [deleted EXCEPT ![r] = {}] /\ snap' = [snap EXCEPT ![r] = {}]
      /\ inserted' = [inserted EXCEPT ![r] = {}]
      /\ UNCHANGED <<step, got, checked>>
    BY DEF Commit, EndTransaction, Goto
<1>2. \A q \in Puts : /\ pc'[q] = IF q = r THEN "ok" ELSE pc[q]
                      /\ deleted'[q] = IF q = r THEN {} ELSE deleted[q]
                      /\ snap'[q] = IF q = r THEN {} ELSE snap[q]
    BY <1>1 DEF ConfigurationInv, TypeOK
<1>3. \A row \in RowsOf(r) : row.by = r /\ row \in AllRows
    BY RowsOfWriter DEF Writers
<1>4. commits \in Nat /\ commits <= commits' /\ commits' \in Nat
    BY <1>1 DEF ConfigurationInv, TypeOK
<1>5. TypeOK'
    BY <1>1, <1>3, <1>4 DEF ConfigurationInv, TypeOK
<1>6. Steps'
    BY <1>1, <1>2 DEF ConfigurationInv, Steps
<1>7. Owners'
    BY <1>1, <1>2, <1>3 DEF ConfigurationInv, Owners
<1>8. OwnTables'
    BY <1>2 DEF ConfigurationInv, OwnTables
<1>9. \A q \in Puts : checked'[q] <= commits'
    BY <1>1, <1>4 DEF ConfigurationInv, TypeOK
<1>10. Cascade'
  <2> SUFFICES ASSUME NEW q \in Puts, q # r, Kind[q] = "roster",
                      NEW row \in RowsOf(r), Belongs(row, deleted[q])
               PROVE  FALSE
      BY <1>1, <1>2 DEF ConfigurationInv, Cascade
  <2>1. PICK o \in deleted[q] : o.by = r
      BY <1>3 DEF Belongs
  <2> QED
      BY <2>1, <1>1 DEF ConfigurationInv, Owners
<1>11. References'
  <2> SUFFICES ASSUME NEW q \in Puts \ Timetables, checked[q] = commits', r \notin Timetables
               PROVE  /\ pc'[q] \in Active =>
                            \A row \in RowsOf(q) : \A ref \in row.refs :
                                Resolved(ref, Shared \cup RowsIn(q, "students"))'
                      /\ \A row \in rows' : row.by = q =>
                            \A ref \in row.refs : Resolved(ref, Shared \cup Students(q))'
    <3>1. \A q \in Puts : r \in Timetables => checked[q] # commits'
        BY <1>1 DEF ConfigurationInv, TypeOK
    <3> QED
        BY <1>1, <3>1 DEF References
  <2>1. commits' = commits /\ Kind[r] \in {"operations", "roster"}
      BY <1>1, PayloadAssumption DEF Timetables
  <2>2. \A o \in deleted[r] : o.table \notin {"teachers", "groups"}
      BY <2>1 DEF ConfigurationInv, OwnTables
  <2>3. Shared \subseteq Shared'
      BY <1>1, <2>2 DEF Shared, KnownTeachers, KnownGroups
  <2>4. ASSUME pc'[q] \in Active, NEW row \in RowsOf(q), NEW ref \in row.refs
        PROVE  Resolved(ref, Shared \cup RowsIn(q, "students"))'
    <3>1. Resolved(ref, Shared \cup RowsIn(q, "students"))
        BY <1>2, <2>1, <2>4 DEF ConfigurationInv, References, Active
    <3> QED
        BY <3>1, <2>3 DEF Resolved, RowsIn
  <2>5. ASSUME NEW row \in rows', row.by = q, NEW ref \in row.refs
        PROVE  Resolved(ref, Shared \cup Students(q))'
    <3>1. CASE q = r
      <4>1. row \in RowsOf(r)
          BY <1>1, <2>5, <3>1 DEF ConfigurationInv, Owners
      <4>2. Resolved(ref, Shared \cup RowsIn(r, "students"))
          BY <1>1, <2>1, <3>1, <4>1 DEF ConfigurationInv, References, Active
      <4>3. RowsIn(r, "students") \subseteq Students(r)'
        <5>1. \A o \in RowsIn(r, "students") : o.table = "students" /\ o \in RowsOf(r)
            BY DEF RowsIn, RowsOf, Submitted, Writers, Row, Tables
        <5> QED
            BY <5>1, <1>1, <1>3 DEF Students
      <4> QED
          BY <3>1, <4>2, <4>3, <2>3 DEF Resolved
    <3>2. CASE q # r
      <4>1. row \in rows /\ row \notin deleted[r]
          BY <1>1, <1>3, <2>5, <3>2
      <4>2. Resolved(ref, Shared \cup Students(q))
          BY <2>1, <2>5, <4>1 DEF ConfigurationInv, References
      <4>3. PICK o \in Shared \cup Students(q) : Key(o) = ref
          BY <4>2 DEF Resolved
      <4>4. CASE o \in Shared
          BY <4>3, <4>4, <2>3 DEF Resolved
      <4>5. CASE o \in Students(q)
        <5>1. o \in rows /\ o.table = "students" /\ o.by = q
            BY <4>5 DEF Students
        <5>2. Kind[q] = "roster" /\ row.table = "supports"
            BY <2>5, <4>1, <4>3, <5>1, SupportsReferToStudents DEF ConfigurationInv, TypeOK
        <5>3. o \notin deleted[r]
          <6> SUFFICES ASSUME o \in deleted[r] PROVE FALSE
              OBVIOUS
          <6>1. Kind[r] = "roster"
              BY <2>1, <5>1 DEF ConfigurationInv, OwnTables
          <6>2. Belongs(row, deleted[r])
              BY <2>5, <4>3, <5>1, <5>2 DEF Belongs
          <6> QED
              BY <1>1, <4>1, <6>1, <6>2 DEF ConfigurationInv, Cascade
        <5>4. o \in Students(q)'
            BY <1>1, <5>1, <5>3 DEF Students
        <5> QED
            BY <4>3, <5>4 DEF Resolved
      <4> QED
          BY <4>3, <4>4, <4>5
    <3> QED
        BY <3>1, <3>2
  <2> QED
      BY <2>4, <2>5
<1> QED
    BY <1>5, <1>6, <1>7, <1>8, <1>9, <1>10, <1>11 DEF ConfigurationInv

-----------------------------------------------------------------------------
(* Solvers, and the whole                                                     *)

LEMMA UnchangedTables ==
    ASSUME ConfigurationInv, TypeOK', UNCHANGED <<rows, step, snap, deleted, inserted, commits, checked>>,
           \A q \in Puts : pc'[q] = pc[q]
    PROVE  ConfigurationInv'
<1>1. Steps' /\ Owners' /\ OwnTables' /\ Cascade'
    BY DEF ConfigurationInv, Steps, Owners, OwnTables, Cascade
<1>2. References'
    BY DEF ConfigurationInv, References, Shared, Students, KnownTeachers, KnownGroups, Resolved
<1> QED
    BY <1>1, <1>2 DEF ConfigurationInv

LEMMA SolverStep ==
    ASSUME ConfigurationInv, NEW s \in Solves, ReadTeachers(s) \/ ReadActivities(s)
    PROVE  ConfigurationInv'
<1>1. UNCHANGED <<rows, step, snap, deleted, inserted, commits, checked>>
    BY DEF ReadTeachers, ReadActivities, putVars, history
<1>2. \A q \in Puts : pc'[q] = pc[q]
    BY RequestsAssumption DEF ReadTeachers, ReadActivities, Goto, ConfigurationInv, TypeOK
<1>3. pc' \in [Puts \cup Solves -> Stages]
    BY DEF ReadTeachers, ReadActivities, Goto, ConfigurationInv, TypeOK, Stages
<1>4. got' \in [Solves -> [teachers: SUBSET AllRows, activities: SUBSET AllRows,
                           first: Nat, last: Nat]]
  <2>1. CASE ReadTeachers(s)
    <3>1. {row \in rows : row.table = "teachers"} \in SUBSET AllRows /\ commits \in Nat
        BY DEF ConfigurationInv, TypeOK
    <3> QED
        BY <2>1, <3>1 DEF ReadTeachers, ConfigurationInv, TypeOK
  <2>2. CASE ReadActivities(s)
    <3>1. PICK day \in Days :
             got' = [got EXCEPT ![s].activities =
                                   {row \in rows : row.table = "activities" /\ day \in row.days},
                                ![s].last = commits]
        BY <2>2 DEF ReadActivities
    <3>2. {row \in rows : row.table = "activities" /\ day \in row.days} \in SUBSET AllRows
          /\ commits \in Nat
        BY DEF ConfigurationInv, TypeOK
    <3> QED
        BY <3>1, <3>2 DEF ConfigurationInv, TypeOK
  <2> QED
      BY <2>1, <2>2
<1>5. TypeOK'
    BY <1>1, <1>3, <1>4 DEF ConfigurationInv, TypeOK, Stages
<1> QED
    BY <1>1, <1>2, <1>5, UnchangedTables

LEMMA HandleStep ==
    ASSUME ConfigurationInv, NEW r \in Puts, Handle(r) \/ Die(r)
    PROVE  ConfigurationInv'
<1>1. CASE PutInvalid(r) \/ PutValid(r)
    BY <1>1, RefusedStep, ValidStep
<1>2. CASE StartDelete(r) \/ EndDelete(r) \/ InsertRow(r) \/ Commit(r)
    BY <1>2, StartDeleteStep, EndDeleteStep, InsertStep, CommitStep
<1>3. CASE InsertConflict(r)
    BY <1>3, RollbackStep DEF InsertConflict, Active
<1>4. CASE DeadlockVictim(r)
  <2>1. pc[r] \in Active
      BY <1>4 DEF DeadlockVictim, WaitsForItself, Waits, WaitsFor, Active
  <2> QED
      BY <1>4, <2>1, RollbackStep DEF DeadlockVictim
<1>5. CASE Die(r)
    BY <1>5, RollbackStep DEF Die, Active
<1> QED
    BY <1>1, <1>2, <1>3, <1>4, <1>5 DEF Handle

LEMMA InitConfiguration == Init => ConfigurationInv
<1> SUFFICES ASSUME Init PROVE ConfigurationInv
    OBVIOUS
<1>1. \A row \in rows : row.by = Seed /\ row \in AllRows
  <2>1. rows \subseteq RowsOf(Seed) /\ Seed \in Writers
      BY DEF Init, Writers
  <2> QED
      BY <2>1, RowsOfWriter
<1>2. \A q \in Puts : /\ pc[q] \in {"idle", "unsent"} /\ step[q] = 0
                      /\ snap[q] = {} /\ deleted[q] = {} /\ checked[q] = 0
    BY DEF Init
<1>3. TypeOK
  <2>1. pc \in [Puts \cup Solves -> Stages]
      BY DEF Init, Stages
  <2>2. got \in [Solves -> [teachers: SUBSET AllRows, activities: SUBSET AllRows,
                            first: Nat, last: Nat]]
      BY DEF Init, NothingRead
  <2> QED
      BY <1>1, <2>1, <2>2 DEF Init, TypeOK, Stages
<1>4. Steps /\ Owners /\ OwnTables /\ Cascade
    BY <1>1, <1>2, RequestsAssumption DEF Steps, Owners, OwnTables, Cascade
<1>5. References
    BY <1>1, <1>2, RequestsAssumption DEF References, Active
<1>6. commits = 0
    BY DEF Init
<1> QED
    BY <1>2, <1>3, <1>4, <1>5, <1>6 DEF ConfigurationInv

LEMMA ConfigurationStep == ConfigurationInv /\ [Next]_vars => ConfigurationInv'
<1> SUFFICES ASSUME ConfigurationInv, [Next]_vars PROVE ConfigurationInv'
    OBVIOUS
<1>1. CASE UNCHANGED vars
  <2>1. UNCHANGED <<rows, pc, step, snap, deleted, inserted, got, commits, checked>>
      BY <1>1 DEF vars
  <2>2. TypeOK'
      BY <2>1 DEF ConfigurationInv, TypeOK
  <2> QED
      BY <2>1, <2>2, UnchangedTables
<1>2. CASE Next
    BY <1>2, HandleStep, SolverStep DEF Next
<1> QED
    BY <1>1, <1>2

LEMMA ConfigurationIsKept == Spec => []ConfigurationInv
  BY InitConfiguration, ConfigurationStep, PTL DEF Spec

\* Every variable of the replacements keeps its type.
THEOREM ConfigurationIsTyped == Spec => []TypeOK
<1>1. ConfigurationInv => TypeOK
    BY DEF ConfigurationInv
<1> QED
    BY <1>1, ConfigurationIsKept, PTL

\* Duties and students refer to what is there for as long as no timetable is
\* committed after they were checked, whatever else is replaced meanwhile.
THEOREM OnlyReplacementsDangle == Spec => []DanglingOnlyAfterReplacement
<1>1. ConfigurationInv => DanglingOnlyAfterReplacement
  <2> SUFFICES ASSUME ConfigurationInv, NEW r \in Puts \ Timetables, checked[r] = commits,
                      NEW row \in rows, row.by = r, NEW ref \in row.refs
               PROVE  \E o \in rows : Key(o) = ref
      BY DEF DanglingOnlyAfterReplacement, Resolves
  <2>1. Resolved(ref, Shared \cup Students(r))
      BY DEF ConfigurationInv, References
  <2> QED
      BY <2>1 DEF Resolved, Shared, Students, KnownTeachers, KnownGroups
<1> QED
    BY <1>1, ConfigurationIsKept, PTL

-----------------------------------------------------------------------------
(* What a step of a request does                                              *)

Same(q) == /\ pc'[q] = pc[q] /\ step'[q] = step[q] /\ snap'[q] = snap[q]
           /\ deleted'[q] = deleted[q] /\ inserted'[q] = inserted[q]

Began(r) == /\ pc[r] = "idle" /\ pc'[r] \in {"invalid", "delete"}
            /\ pc'[r] = "delete" => Validates(r)
            /\ step'[r] = step[r] /\ snap'[r] = snap[r]
            /\ deleted'[r] = deleted[r] /\ inserted'[r] = inserted[r]
            /\ UNCHANGED <<rows, commits>>

Looked(r) == /\ pc[r] = "delete" /\ pc'[r] = "deleting"
             /\ snap'[r] = Seen(r) /\ step'[r] = step[r]
             /\ deleted'[r] = deleted[r] /\ inserted'[r] = inserted[r]
             /\ UNCHANGED <<rows, commits>>

Removed(r) == /\ pc[r] = "deleting" /\ ~ Waits(r)
              /\ pc'[r] = IF step[r] + 1 = Last(r) THEN "insert" ELSE "delete"
              /\ snap'[r] = {} /\ step'[r] = step[r] + 1
              /\ deleted'[r] = deleted[r] \cup (snap[r] \cap rows) /\ inserted'[r] = inserted[r]
              /\ UNCHANGED <<rows, commits>>

Inserted(r) == /\ pc[r] = "insert" /\ pc'[r] = "insert" /\ ~ Waits(r) /\ ~ InsertCollides(r)
               /\ step'[r] = step[r] /\ snap'[r] = snap[r] /\ deleted'[r] = deleted[r]
               /\ \E row \in Upcoming(r) : inserted'[r] = inserted[r] \cup {row}
               /\ UNCHANGED <<rows, commits>>

RolledBack(r) == /\ pc[r] \in Active /\ pc'[r] \in {"conflict", "failed", "lost"}
                 /\ step'[r] = step[r] /\ snap'[r] = {} /\ deleted'[r] = {} /\ inserted'[r] = {}
                 /\ UNCHANGED <<rows, commits>>

Committed(r) == /\ pc[r] = "insert" /\ pc'[r] = "ok" /\ inserted[r] = RowsOf(r)
                /\ step'[r] = step[r] /\ snap'[r] = {} /\ deleted'[r] = {} /\ inserted'[r] = {}
                /\ rows' = (rows \ deleted[r]) \cup RowsOf(r)
                /\ commits' = IF r \in Timetables THEN commits + 1 ELSE commits

StepOf(r) == \/ Began(r) \/ Looked(r) \/ Removed(r) \/ Inserted(r)
             \/ RolledBack(r) \/ Committed(r)

LEMMA HandlerSteps ==
    ASSUME ConfigurationInv, NEW r \in Puts, Handle(r) \/ Die(r)
    PROVE  /\ StepOf(r)
           /\ \A q \in Puts : q # r => Same(q)
           /\ got' = got /\ \A s \in Solves : pc'[s] = pc[s]
<1> USE DEF Goto, putVars, history, EndTransaction
<1>1. /\ pc \in [Puts \cup Solves -> Stages] /\ step \in [Puts -> 0 .. 5]
      /\ snap \in [Puts -> SUBSET AllRows] /\ deleted \in [Puts -> SUBSET AllRows]
      /\ inserted \in [Puts -> SUBSET AllRows]
    BY DEF ConfigurationInv, TypeOK, Stages
<1>2. \A s \in Solves : s # r
    BY RequestsAssumption
<1>3. CASE PutInvalid(r)
    BY <1>1, <1>2, <1>3 DEF PutInvalid, StepOf, Began, Same
<1>4. CASE PutValid(r)
    BY <1>1, <1>2, <1>4 DEF PutValid, StepOf, Began, Same
<1>5. CASE StartDelete(r)
    BY <1>1, <1>2, <1>5 DEF StartDelete, StepOf, Looked, Same
<1>6. CASE EndDelete(r)
  <2>1. /\ pc[r] = "deleting" /\ ~ Waits(r)
        /\ pc' = [pc EXCEPT ![r] = IF step[r] + 1 = Last(r) THEN "insert" ELSE "delete"]
        /\ deleted' = [deleted EXCEPT ![r] = deleted[r] \cup (snap[r] \cap rows)]
        /\ snap' = [snap EXCEPT ![r] = {}] /\ step' = [step EXCEPT ![r] = step[r] + 1]
        /\ UNCHANGED <<rows, inserted, got, commits, checked>>
      BY <1>6 DEF EndDelete, Last
  <2> QED
      BY <1>1, <1>2, <2>1 DEF StepOf, Removed, Same
<1>7. CASE InsertRow(r)
    BY <1>1, <1>2, <1>7 DEF InsertRow, StepOf, Inserted, Same
<1>8. CASE InsertConflict(r)
    BY <1>1, <1>2, <1>8 DEF InsertConflict, StepOf, RolledBack, Same, Active
<1>9. CASE Commit(r)
    BY <1>1, <1>2, <1>9 DEF Commit, StepOf, Committed, Same
<1>10. CASE DeadlockVictim(r)
  <2>1. pc[r] \in Active
      BY <1>10 DEF DeadlockVictim, WaitsForItself, Waits, WaitsFor, Active
  <2> QED
      BY <1>1, <1>2, <1>10, <2>1 DEF DeadlockVictim, StepOf, RolledBack, Same
<1>11. CASE Die(r)
    BY <1>1, <1>2, <1>11 DEF Die, StepOf, RolledBack, Same, Active
<1> QED
    BY <1>3, <1>4, <1>5, <1>6, <1>7, <1>8, <1>9, <1>10, <1>11 DEF Handle

\* A step of a solver leaves the requests alone.
LEMMA SolverSteps ==
    ASSUME ConfigurationInv, NEW s \in Solves, ReadTeachers(s) \/ ReadActivities(s)
    PROVE  UNCHANGED <<rows, commits>> /\ \A q \in Puts : Same(q)
<1>1. UNCHANGED <<rows, step, snap, deleted, inserted, commits>>
    BY DEF ReadTeachers, ReadActivities, putVars, history
<1>2. \A q \in Puts : pc'[q] = pc[q]
    BY RequestsAssumption DEF ReadTeachers, ReadActivities, Goto, ConfigurationInv, TypeOK
<1> QED
    BY <1>1, <1>2 DEF Same

-----------------------------------------------------------------------------
(* Locks                                                                      *)

\* The tables whose DELETE has ended, and the one whose DELETE is next or runs.
Passed(q) == {Deletes(q)[i] : i \in 1 .. step[q]}
Table(q)  == Deletes(q)[step[q] + 1]

TimetableTables == {"activities", "subjects", "teachers", "slots", "groups"}

\* Only a transaction that is under way holds rows, of tables it has passed, that
\* nobody else holds; what it sees are committed rows of the table it is at.
LocksOf(q) ==
    /\ deleted[q] \cup snap[q] # {} => pc[q] \in Active
    /\ pc[q] # "deleting" => snap[q] = {}
    /\ \A row \in deleted[q] : row.table \in Passed(q)
    /\ pc[q] = "deleting" => \A row \in snap[q] : Table(q) # "cascade" => row.table = Table(q)
    /\ \A row \in snap[q] : row.by \in Puts => pc[row.by] = "ok"
    /\ pc[q] = "insert" => step[q] = Last(q)
    /\ inserted[q] \subseteq RowsOf(q)
    /\ pc[q] # "insert" => inserted[q] = {}
    /\ q \in Timetables /\ pc[q] \in Active \cup {"ok"} => Resolves(RowsOf(q), RowsOf(q))

LocksInv ==
    /\ \A q \in Puts : LocksOf(q)
    /\ \A q \in Puts : deleted[q] \subseteq rows
    /\ \A p, q \in Puts : p # q => deleted[p] \cap deleted[q] = {}

LEMMA InitLocks == Init => LocksInv
<1> SUFFICES ASSUME Init PROVE LocksInv
    OBVIOUS
<1>1. \A q \in Puts : pc[q] \in {"idle", "unsent"} /\ snap[q] = {} /\ deleted[q] = {} /\ inserted[q] = {}
    BY DEF Init
<1> QED
    BY <1>1 DEF LocksInv, LocksOf, Active

LEMMA PassedOne ==
    ASSUME ConfigurationInv, NEW r \in Puts, pc[r] \in {"delete", "deleting"}, step'[r] = step[r] + 1
    PROVE  Passed(r)' = Passed(r) \cup {Table(r)}
<1>1. step[r] \in Nat
    BY DEF ConfigurationInv, TypeOK
<1>2. 1 .. (step[r] + 1) = (1 .. step[r]) \cup {step[r] + 1}
    BY <1>1
<1> QED
    BY <1>2 DEF Passed, Table

LEMMA SeenTable ==
    ASSUME NEW r \in Puts, Table(r) # "cascade"
    PROVE  Seen(r) = {row \in rows : row.table = Table(r)}
  BY DEF Seen, Table

\* The cascade works on supports, after the DELETE of the supports.
LEMMA CascadeIsLast ==
    ASSUME ConfigurationInv, NEW r \in Puts, pc[r] \in {"delete", "deleting"}, Table(r) = "cascade"
    PROVE  Kind[r] = "roster" /\ step[r] = 2 /\ Passed(r) = {"supports", "students"}
<1>1. step[r] \in Nat /\ step[r] < Last(r)
    BY DEF ConfigurationInv, TypeOK, Steps
<1>2. Kind[r] \in {"academic", "legacy", "operations", "roster"}
    BY PayloadAssumption
<1>3. CASE Kind[r] = "roster"
  <2>1. /\ Last(r) = 3 /\ Deletes(r)[1] = "supports" /\ Deletes(r)[2] = "students"
        /\ Deletes(r)[3] = "cascade"
      BY <1>3, DeletesOf, NumberOfDeletes
  <2>2. step[r] \in {0, 1, 2}
      BY <1>1, <2>1
  <2>3. step[r] = 2
      BY <2>1, <2>2 DEF Table
  <2>4. 1 .. 2 = {1, 2}
      OBVIOUS
  <2> QED
      BY <1>3, <2>1, <2>3, <2>4 DEF Passed
<1>4. CASE Kind[r] = "operations"
  <2>1. /\ Last(r) = 2 /\ Deletes(r)[1] = "shifts" /\ Deletes(r)[2] = "duties"
      BY <1>4, DeletesOf, NumberOfDeletes
  <2>2. step[r] \in {0, 1}
      BY <1>1, <2>1
  <2> QED
      BY <2>1, <2>2 DEF Table
<1>5. CASE Kind[r] = "academic"
  <2>1. Last(r) = 5 /\ \A i \in 1 .. 5 : Deletes(r)[i] # "cascade"
      BY <1>5 DEF Last, Deletes, AcademicDeletes
  <2>2. step[r] + 1 \in 1 .. 5
      BY <1>1, <2>1
  <2> QED
      BY <2>1, <2>2 DEF Table
<1>6. CASE Kind[r] = "legacy"
  <2>1. Last(r) = 4 /\ \A i \in 1 .. 4 : Deletes(r)[i] # "cascade"
      BY <1>6 DEF Last, Deletes, LegacyDeletes
  <2>2. step[r] + 1 \in 1 .. 4
      BY <1>1, <2>1
  <2> QED
      BY <2>1, <2>2 DEF Table
<1> QED
    BY <1>2, <1>3, <1>4, <1>5, <1>6

LEMMA SnapTables ==
    ASSUME ConfigurationInv, LocksInv, NEW r \in Puts, pc[r] = "deleting", NEW row \in snap[r]
    PROVE  row.table \in Passed(r) \cup {Table(r)}
<1>1. CASE Table(r) # "cascade"
    BY <1>1 DEF LocksInv, LocksOf
<1>2. CASE Table(r) = "cascade"
  <2>1. Kind[r] = "roster" /\ Passed(r) = {"supports", "students"}
      BY <1>2, CascadeIsLast
  <2>2. row.table \in {"students", "supports"}
      BY <2>1 DEF ConfigurationInv, OwnTables
  <2> QED
      BY <2>1, <2>2
<1> QED
    BY <1>1, <1>2

LEMMA OthersKeepLocks ==
    ASSUME LocksInv, NEW q \in Puts, Same(q), \A p \in Puts : pc[p] = "ok" => pc'[p] = "ok"
    PROVE  LocksOf(q)'
<1>1. Passed(q)' = Passed(q) /\ Table(q)' = Table(q) /\ Last(q)' = Last(q)
    BY DEF Same, Passed, Table, Last
<1>2. /\ pc'[q] = pc[q] /\ step'[q] = step[q] /\ snap'[q] = snap[q] /\ deleted'[q] = deleted[q]
      /\ inserted'[q] = inserted[q]
    BY DEF Same
<1>3. LocksOf(q)
    BY DEF LocksInv
<1> QED
    BY <1>1, <1>2, <1>3 DEF LocksOf, Resolves

LEMMA OwnLocksKept ==
    ASSUME ConfigurationInv, LocksInv, NEW r \in Puts, StepOf(r),
           \A p \in Puts : pc[p] = "ok" => pc'[p] = "ok"
    PROVE  LocksOf(r)'
<1>1. LocksOf(r) /\ step[r] \in Nat
    BY DEF LocksInv, ConfigurationInv, TypeOK
<1>2. Last(r)' = Last(r) /\ (step'[r] = step[r] => Passed(r)' = Passed(r) /\ Table(r)' = Table(r))
    BY DEF Passed, Table, Last
<1>3. CASE Began(r)
  <2>1. /\ deleted'[r] = {} /\ snap'[r] = {} /\ inserted'[r] = {}
        /\ pc'[r] = "delete" \/ pc'[r] = "invalid"
      BY <1>1, <1>3 DEF Began, LocksOf, Active
  <2>2. r \in Timetables /\ Validates(r) => Resolves(RowsOf(r), RowsOf(r))
      BY DEF Validates, Known, Timetables
  <2>3. pc'[r] = "delete" => Validates(r)
      BY <1>3 DEF Began
  <2> QED
      BY <2>1, <2>2, <2>3 DEF LocksOf, Active, Resolves
<1>4. CASE Looked(r)
  <2>1. Seen(r) \subseteq rows
      BY DEF Seen
  <2>2. \A row \in Seen(r) : row.by \in Puts => pc[row.by] = "ok"
      BY <2>1 DEF ConfigurationInv, Owners
  <2>3. Table(r) # "cascade" => \A row \in Seen(r) : row.table = Table(r)
      BY SeenTable
  <2>4. pc'[r] = "deleting" /\ snap'[r] = Seen(r) /\ deleted'[r] = deleted[r] /\ step'[r] = step[r]
        /\ pc[r] = "delete" /\ inserted'[r] = {}
      BY <1>1, <1>4 DEF Looked, LocksOf
  <2> QED
      BY <1>1, <1>2, <2>2, <2>3, <2>4 DEF LocksOf, Active, Resolves
<1>5. CASE Removed(r)
  <2>1. /\ pc[r] = "deleting" /\ pc'[r] \in {"insert", "delete"}
        /\ pc'[r] = "insert" => step'[r] = Last(r)
        /\ snap'[r] = {} /\ step'[r] = step[r] + 1
        /\ deleted'[r] \subseteq deleted[r] \cup snap[r] /\ inserted'[r] = {}
      BY <1>1, <1>5 DEF Removed, LocksOf
  <2>2. Passed(r)' = Passed(r) \cup {Table(r)}
      BY <2>1, PassedOne
  <2>3. \A row \in deleted'[r] : row.table \in Passed(r)'
      BY <1>1, <2>1, <2>2, SnapTables DEF LocksOf
  <2> QED
      BY <1>1, <1>2, <2>1, <2>3 DEF LocksOf, Active, Resolves
<1>6. CASE Inserted(r)
  <2>1. Upcoming(r) \subseteq RowsOf(r)
      BY DEF Upcoming
  <2> QED
      BY <1>1, <1>2, <1>6, <2>1 DEF Inserted, LocksOf, Active, Resolves
<1>7. CASE RolledBack(r)
    BY <1>7 DEF RolledBack, LocksOf, Active
<1>8. CASE Committed(r)
  <2>1. /\ pc[r] = "insert" /\ pc'[r] = "ok" /\ snap'[r] = {} /\ deleted'[r] = {} /\ inserted'[r] = {}
      BY <1>8 DEF Committed
  <2>2. r \in Timetables => Resolves(RowsOf(r), RowsOf(r))
      BY <1>1, <2>1 DEF LocksOf, Active
  <2> QED
      BY <2>1, <2>2 DEF LocksOf, Active, Resolves
<1> QED
    BY <1>3, <1>4, <1>5, <1>6, <1>7, <1>8 DEF StepOf

LEMMA OkStaysOk ==
    ASSUME NEW r \in Puts, StepOf(r), \A q \in Puts : q # r => Same(q)
    PROVE  \A p \in Puts : pc[p] = "ok" => pc'[p] = "ok"
<1>1. pc[r] # "ok" \/ pc'[r] = "ok"
    BY DEF StepOf, Began, Looked, Removed, Inserted, RolledBack, Committed, Active
<1> QED
    BY <1>1 DEF Same

\* What is newly deleted was held by nobody else.
LEMMA HeldByOne ==
    ASSUME LocksInv, NEW r \in Puts, StepOf(r), NEW q \in Puts, q # r, Same(q)
    PROVE  deleted'[r] \cap deleted'[q] = {}
<1>1. deleted[r] \cap deleted[q] = {} /\ deleted'[q] = deleted[q]
    BY DEF LocksInv, Same
<1>2. CASE Removed(r)
  <2>1. snap[r] \cap deleted[q] = {}
      BY <1>2 DEF Removed, Waits, WaitsFor
  <2>2. deleted'[r] \subseteq deleted[r] \cup snap[r]
      BY <1>2 DEF Removed
  <2> QED
      BY <1>1, <2>1, <2>2
<1>3. CASE ~ Removed(r)
  <2>1. deleted'[r] \subseteq deleted[r]
      BY <1>3 DEF StepOf, Began, Looked, Inserted, RolledBack, Committed
  <2> QED
      BY <1>1, <2>1
<1> QED
    BY <1>2, <1>3

LEMMA HeldAreThere ==
    ASSUME LocksInv, NEW r \in Puts, StepOf(r), \A q \in Puts : q # r => Same(q), NEW q \in Puts
    PROVE  deleted'[q] \subseteq rows'
<1>1. deleted[q] \subseteq rows /\ (q # r => deleted'[q] = deleted[q] /\ deleted[r] \cap deleted[q] = {})
    BY DEF LocksInv, Same
<1>2. CASE Committed(r)
    BY <1>1, <1>2 DEF Committed
<1>3. CASE ~ Committed(r)
  <2>1. rows' = rows /\ deleted'[r] \subseteq deleted[r] \cup rows
      BY <1>3 DEF StepOf, Began, Looked, Removed, Inserted, RolledBack
  <2> QED
      BY <1>1, <2>1
<1> QED
    BY <1>2, <1>3

LEMMA LocksStep == ConfigurationInv /\ LocksInv /\ [Next]_vars => LocksInv'
<1> SUFFICES ASSUME ConfigurationInv, LocksInv, [Next]_vars PROVE LocksInv'
    OBVIOUS
<1>1. ASSUME NEW r \in Puts, Handle(r) \/ Die(r) PROVE LocksInv'
  <2>1. StepOf(r) /\ \A q \in Puts : q # r => Same(q)
      BY <1>1, HandlerSteps
  <2>2. \A p \in Puts : pc[p] = "ok" => pc'[p] = "ok"
      BY <2>1, OkStaysOk
  <2>3. ASSUME NEW q \in Puts PROVE LocksOf(q)'
      BY <2>1, <2>2, OwnLocksKept, OthersKeepLocks
  <2>4. ASSUME NEW p \in Puts, NEW q \in Puts, p # q PROVE deleted'[p] \cap deleted'[q] = {}
    <3>1. CASE p = r
        BY <2>1, <2>4, <3>1, HeldByOne
    <3>2. CASE q = r
        BY <2>1, <2>4, <3>2, HeldByOne
    <3>3. CASE p # r /\ q # r
        BY <2>1, <2>4, <3>3 DEF Same, LocksInv
    <3> QED
        BY <3>1, <3>2, <3>3
  <2>5. \A q \in Puts : deleted'[q] \subseteq rows'
      BY <2>1, HeldAreThere
  <2> QED
      BY <2>3, <2>4, <2>5 DEF LocksInv
<1>2. ASSUME rows' = rows, \A q \in Puts : Same(q) PROVE LocksInv'
  <2>1. \A q \in Puts : LocksOf(q)'
      BY <1>2, OthersKeepLocks DEF Same
  <2>2. \A q \in Puts : deleted'[q] = deleted[q]
      BY <1>2 DEF Same
  <2> QED
      BY <1>2, <2>1, <2>2 DEF LocksInv
<1>3. ASSUME NEW s \in Solves, ReadTeachers(s) \/ ReadActivities(s) PROVE LocksInv'
    BY <1>2, <1>3, SolverSteps
<1>4. CASE UNCHANGED vars
    BY <1>2, <1>4 DEF vars, Same
<1> QED
    BY <1>1, <1>3, <1>4 DEF Next

LEMMA LocksAreKept == Spec => []LocksInv
  BY InitLocks, LocksStep, ConfigurationIsKept, PTL DEF Spec

-----------------------------------------------------------------------------
(* Waiting in a circle                                                        *)

\* The tables of a timetable in the order of both handlers.
Place == [activities |-> 1, subjects |-> 2, teachers |-> 3, slots |-> 4, groups |-> 5]

LEMMA InOrder ==
    ASSUME NEW q \in Timetables
    PROVE  /\ \A i \in 1 .. Last(q) : Deletes(q)[i] \in TimetableTables
           /\ \A i, j \in 1 .. Last(q) : i < j => Place[Deletes(q)[i]] < Place[Deletes(q)[j]]
           /\ \A t \in Tables : Payload[q][t] # {} => \E i \in 1 .. Last(q) : Deletes(q)[i] = t
<1>1. CASE Kind[q] = "academic"
  <2>1. /\ Last(q) = 5 /\ Deletes(q)[1] = "activities" /\ Deletes(q)[2] = "subjects"
        /\ Deletes(q)[3] = "teachers" /\ Deletes(q)[4] = "slots" /\ Deletes(q)[5] = "groups"
      BY <1>1 DEF Last, Deletes, AcademicDeletes
  <2>2. 1 .. 5 = {1, 2, 3, 4, 5}
      OBVIOUS
  <2>3. \A t \in Tables : Payload[q][t] # {} => t \in TimetableTables
      BY <1>1, PayloadAssumption DEF Timetables, TimetableTables
  <2>4. \A t \in TimetableTables : \E i \in 1 .. 5 : Deletes(q)[i] = t
      BY <2>1 DEF TimetableTables
  <2> QED
      BY <2>1, <2>2, <2>3, <2>4 DEF TimetableTables, Place
<1>2. CASE Kind[q] = "legacy"
  <2>1. /\ Last(q) = 4 /\ Deletes(q)[1] = "activities" /\ Deletes(q)[2] = "teachers"
        /\ Deletes(q)[3] = "slots" /\ Deletes(q)[4] = "groups"
      BY <1>2 DEF Last, Deletes, LegacyDeletes
  <2>2. 1 .. 4 = {1, 2, 3, 4}
      OBVIOUS
  <2>3. \A t \in Tables : Payload[q][t] # {} => t \in {"activities", "teachers", "slots", "groups"}
      BY <1>2, PayloadAssumption DEF Timetables
  <2>4. \A t \in {"activities", "teachers", "slots", "groups"} : \E i \in 1 .. 4 : Deletes(q)[i] = t
      BY <2>1
  <2> QED
      BY <2>1, <2>2, <2>3, <2>4 DEF TimetableTables, Place
<1> QED
    BY <1>1, <1>2 DEF Timetables

\* Where a timetable is: in one of its tables, or past them all.
LEMMA Whereabouts ==
    ASSUME ConfigurationInv, LocksInv, NEW q \in Timetables, pc[q] \in Active
    PROVE  /\ step[q] \in Nat /\ step[q] <= Last(q) /\ Last(q) \in Nat
           /\ Passed(q) \subseteq TimetableTables
           /\ pc[q] \in {"delete", "deleting"} => Table(q) \in TimetableTables /\ step[q] + 1 \in 1 .. Last(q)
           /\ pc[q] = "insert" => step[q] = Last(q)
<1>1. /\ step[q] \in Nat /\ Last(q) \in Nat
      /\ pc[q] \in {"delete", "deleting"} => step[q] < Last(q)
      /\ pc[q] = "insert" => step[q] = Last(q)
    BY NumberOfDeletes DEF ConfigurationInv, TypeOK, Steps, LocksInv, LocksOf, Timetables
<1>2. step[q] <= Last(q)
    BY <1>1 DEF Active
<1>3. pc[q] \in {"delete", "deleting"} => step[q] + 1 \in 1 .. Last(q)
    BY <1>1
<1>4. \A i \in 1 .. step[q] : i \in 1 .. Last(q)
    BY <1>1, <1>2
<1> QED
    BY <1>1, <1>2, <1>3, <1>4, InOrder DEF Passed, Table

\* As long as no timetable has been committed, each one that is under way has
\* seen all of the table it is at and deleted all of those it has passed.
UndisturbedOf(q) ==
    /\ pc[q] \in Active => \A row \in rows : row.table \in Passed(q) => row \in deleted[q]
    /\ pc[q] = "deleting" => \A row \in rows : row.table = Table(q) => row \in snap[q]

Undisturbed == commits = 0 => \A q \in Timetables : UndisturbedOf(q)

\* Duties and students do not touch the tables of a timetable.
LEMMA OtherCommit ==
    ASSUME ConfigurationInv, NEW r \in Puts \ Timetables, Committed(r),
           NEW row, row.table \in TimetableTables
    PROVE  row \in rows' <=> row \in rows
<1>1. Kind[r] \in {"operations", "roster"} /\ r \in Writers
    BY PayloadAssumption DEF Timetables, Writers
<1>2. row \notin deleted[r]
    BY <1>1 DEF ConfigurationInv, OwnTables, TimetableTables
<1>3. row \notin RowsOf(r)
  <2> SUFFICES ASSUME row \in RowsOf(r) PROVE FALSE
      OBVIOUS
  <2>1. row.table \in Tables /\ Payload[r][row.table] # {}
      BY <1>1, RowsOfWriter
  <2>2. row.table \in {"shifts", "duties", "students", "supports"}
      BY <1>1, <2>1, PayloadAssumption
  <2> QED
      BY <2>2 DEF TimetableTables
<1> QED
    BY <1>2, <1>3 DEF Committed

LEMMA OwnUndisturbed ==
    ASSUME ConfigurationInv, LocksInv, NEW r \in Timetables, StepOf(r), ~ Committed(r), UndisturbedOf(r)
    PROVE  UndisturbedOf(r)'
<1>1. r \in Puts /\ rows' = rows
    BY DEF Timetables, StepOf, Began, Looked, Removed, Inserted, RolledBack
<1>2. step'[r] = step[r] => Passed(r)' = Passed(r) /\ Table(r)' = Table(r)
    BY DEF Passed, Table
<1>3. CASE Began(r)
  <2>1. step[r] = 0
      BY <1>1, <1>3 DEF Began, ConfigurationInv, Steps
  <2>2. 1 .. 0 = {}
      OBVIOUS
  <2>3. Passed(r) = {}
      BY <2>1, <2>2 DEF Passed
  <2> QED
      BY <1>2, <1>3, <2>3 DEF Began, UndisturbedOf
<1>4. CASE Looked(r)
  <2>1. Table(r) \in TimetableTables
      BY <1>4, Whereabouts DEF Looked, Active
  <2>2. Seen(r) = {row \in rows : row.table = Table(r)}
      BY <2>1, <1>1, SeenTable DEF TimetableTables
  <2> QED
      BY <1>1, <1>2, <1>4, <2>2 DEF Looked, UndisturbedOf, Active
<1>5. CASE Removed(r)
  <2>1. Passed(r)' = Passed(r) \cup {Table(r)}
      BY <1>1, <1>5, PassedOne DEF Removed
  <2>2. pc[r] = "deleting" /\ pc'[r] # "deleting" /\ deleted'[r] = deleted[r] \cup (snap[r] \cap rows)
      BY <1>5 DEF Removed
  <2> QED
      BY <1>1, <2>1, <2>2 DEF UndisturbedOf, Active
<1>6. CASE Inserted(r)
    BY <1>1, <1>2, <1>6 DEF Inserted, UndisturbedOf, Active
<1>7. CASE RolledBack(r)
    BY <1>7 DEF RolledBack, UndisturbedOf, Active
<1> QED
    BY <1>3, <1>4, <1>5, <1>6, <1>7 DEF StepOf

LEMMA OthersUndisturbed ==
    ASSUME ConfigurationInv, LocksInv, NEW q \in Timetables, Same(q), UndisturbedOf(q),
           \A row : row.table \in TimetableTables => (row \in rows' <=> row \in rows)
    PROVE  UndisturbedOf(q)'
<1>1. Passed(q)' = Passed(q) /\ Table(q)' = Table(q)
    BY DEF Same, Passed, Table
<1>2. CASE pc[q] \in Active
  <2>1. Passed(q) \subseteq TimetableTables /\ (pc[q] = "deleting" => Table(q) \in TimetableTables)
      BY <1>2, Whereabouts
  <2> QED
      BY <1>1, <2>1 DEF Same, UndisturbedOf
<1>3. CASE pc[q] \notin Active
    BY <1>3 DEF Same, UndisturbedOf, Active
<1> QED
    BY <1>2, <1>3

LEMMA UndisturbedStep == ConfigurationInv /\ LocksInv /\ Undisturbed /\ [Next]_vars => Undisturbed'
<1> SUFFICES ASSUME ConfigurationInv, LocksInv, Undisturbed, [Next]_vars, commits' = 0,
                    NEW q \in Timetables
             PROVE  UndisturbedOf(q)'
    BY DEF Undisturbed
<1>1. commits \in Nat
    BY DEF ConfigurationInv, TypeOK
<1>2. ASSUME UNCHANGED <<rows, commits>>, Same(q) PROVE UndisturbedOf(q)'
    BY <1>2, OthersUndisturbed DEF Undisturbed
<1>3. ASSUME NEW r \in Puts, Handle(r) \/ Die(r) PROVE UndisturbedOf(q)'
  <2>1. StepOf(r) /\ \A p \in Puts : p # r => Same(p)
      BY <1>3, HandlerSteps
  <2>2. CASE Committed(r)
    <3>1. r \notin Timetables /\ commits = 0
        BY <1>1, <2>2 DEF Committed
    <3>2. \A row : row.table \in TimetableTables => (row \in rows' <=> row \in rows)
        BY <2>2, <3>1, OtherCommit
    <3> QED
        BY <2>1, <3>1, <3>2, OthersUndisturbed DEF Undisturbed, Timetables
  <2>3. CASE ~ Committed(r)
    <3>1. UNCHANGED <<rows, commits>>
        BY <2>1, <2>3 DEF StepOf, Began, Looked, Removed, Inserted, RolledBack
    <3>2. CASE q = r
        BY <2>1, <2>3, <3>1, <3>2, OwnUndisturbed DEF Undisturbed
    <3>3. CASE q # r
        BY <1>2, <2>1, <3>1, <3>3 DEF Timetables
    <3> QED
        BY <3>2, <3>3
  <2> QED
      BY <2>2, <2>3
<1>4. ASSUME NEW s \in Solves, ReadTeachers(s) \/ ReadActivities(s) PROVE UndisturbedOf(q)'
    BY <1>2, <1>4, SolverSteps DEF Timetables
<1>5. CASE UNCHANGED vars
    BY <1>2, <1>5 DEF vars, Same
<1> QED
    BY <1>3, <1>4, <1>5 DEF Next

LEMMA InitUndisturbed == Init => Undisturbed
  BY DEF Init, Undisturbed, UndisturbedOf, Active, Timetables

LEMMA UndisturbedIsKept == Spec => []Undisturbed
  BY InitUndisturbed, UndisturbedStep, ConfigurationIsKept, LocksAreKept, PTL DEF Spec

\* How far a request that waits has come.
Rank(q) == IF pc[q] = "insert" THEN 6 ELSE Place[Table(q)]

LEMMA RankType ==
    ASSUME ConfigurationInv, LocksInv, NEW q \in Timetables, pc[q] \in {"deleting", "insert"}
    PROVE  Rank(q) \in Int /\ (pc[q] = "deleting" => Rank(q) < 6)
<1>1. CASE pc[q] = "insert"
    BY <1>1 DEF Rank
<1>2. CASE pc[q] = "deleting"
  <2>1. Table(q) \in TimetableTables
      BY <1>2, Whereabouts DEF Active
  <2>2. Place[Table(q)] \in Int /\ Place[Table(q)] < 6
      BY <2>1 DEF Place, TimetableTables
  <2> QED
      BY <1>2, <2>2 DEF Rank
<1> QED
    BY <1>1, <1>2

\* Whoever has touched a row of a timetable replaces timetables.
LEMMA TimetableRows ==
    ASSUME ConfigurationInv, LocksInv, NEW q \in Puts, NEW row \in deleted[q] \cup inserted[q],
           row.table \in TimetableTables
    PROVE  q \in Timetables
<1>1. Kind[q] \in {"academic", "legacy", "operations", "roster"} /\ q \in Writers
    BY PayloadAssumption DEF Writers
<1>2. CASE row \in deleted[q]
    BY <1>1, <1>2 DEF ConfigurationInv, OwnTables, TimetableTables, Timetables
<1>3. CASE row \in inserted[q]
  <2>1. row \in RowsOf(q)
      BY <1>3 DEF LocksInv, LocksOf
  <2>2. row.table \in Tables /\ Payload[q][row.table] # {}
      BY <1>1, <2>1, RowsOfWriter
  <2> QED
      BY <1>1, <2>2, PayloadAssumption DEF TimetableTables, Timetables
<1> QED
    BY <1>2, <1>3

\* An INSERT never waits for a row that was there from the start: what it is about
\* to insert another timetable has inserted.
LEMMA InsertWaits ==
    ASSUME ConfigurationInv, LocksInv, Undisturbed, commits = 0,
           NEW p \in Timetables, NEW q \in Puts, WaitsFor(p, q), pc[p] = "insert"
    PROVE  q \in Timetables /\ pc[q] = "insert"
<1>1. p \in Puts /\ p # q /\ p \in Writers
    BY DEF Timetables, WaitsFor, Writers
<1>2. PICK o \in inserted[q] \cup deleted[q], row \in RowsOf(p) : Key(o) = Key(row)
    BY DEF WaitsFor, Upcoming
<1>3. row.table \in Tables /\ Payload[p][row.table] # {} /\ o.table = row.table
    BY <1>1, <1>2, RowsOfWriter DEF Key
<1>4. step[p] = Last(p)
    BY Whereabouts DEF Active
<1>5. o.table \in Passed(p) /\ o.table \in TimetableTables
    BY <1>3, <1>4, InOrder DEF Passed
<1>6. o \notin deleted[q]
  <2> SUFFICES ASSUME o \in deleted[q] PROVE FALSE
      OBVIOUS
  <2>1. o \in rows /\ deleted[p] \cap deleted[q] = {}
      BY <1>1 DEF LocksInv
  <2>2. o \in deleted[p]
      BY <1>5, <2>1 DEF Undisturbed, UndisturbedOf, Active
  <2> QED
      BY <2>1, <2>2
<1> QED
    BY <1>2, <1>5, <1>6, TimetableRows DEF LocksInv, LocksOf

\* Who waits for another one that waits as well, waits for one that is further, or
\* at least as far where both insert.
LEMMA NextInLine ==
    ASSUME ConfigurationInv, LocksInv, Undisturbed, commits = 0,
           NEW p \in Timetables, NEW q \in Puts, WaitsFor(p, q), Waits(q)
    PROVE  /\ q \in Timetables /\ pc[q] \in {"deleting", "insert"}
           /\ Rank(q) >= Rank(p)
           /\ pc[p] = "deleting" => Rank(q) > Rank(p)
<1>1. p \in Puts /\ p # q /\ pc[q] \in {"deleting", "insert"} /\ pc[p] \in {"deleting", "insert"}
    BY DEF Timetables, Waits, WaitsFor
<1>2. CASE pc[p] = "insert"
  <2>1. q \in Timetables /\ pc[q] = "insert"
      BY <1>2, InsertWaits
  <2> QED
      BY <1>2, <2>1 DEF Rank
<1>3. CASE pc[p] = "deleting"
  <2>1. Table(p) \in TimetableTables
      BY <1>3, Whereabouts DEF Active
  <2>2. PICK row \in deleted[q] : row.table = Table(p)
      BY <1>1, <1>3, <2>1 DEF WaitsFor, LocksInv, LocksOf, TimetableTables
  <2>3. q \in Timetables
      BY <2>1, <2>2, TimetableRows
  <2>4. Table(p) \in Passed(q)
      BY <2>2 DEF LocksInv, LocksOf
  <2>5. Rank(p) = Place[Table(p)] /\ Rank(p) \in Int /\ Rank(p) < 6
      BY <1>3, RankType DEF Rank
  <2>6. CASE pc[q] = "insert"
      BY <2>3, <2>5, <2>6 DEF Rank
  <2>7. CASE pc[q] = "deleting"
    <3>1. step[q] \in Nat /\ Last(q) \in Nat /\ step[q] + 1 \in 1 .. Last(q)
        BY <2>3, <2>7, Whereabouts DEF Active
    <3>2. PICK i \in 1 .. step[q] : Deletes(q)[i] = Table(p)
        BY <2>4 DEF Passed
    <3>3. i \in 1 .. Last(q) /\ i < step[q] + 1
        BY <3>1, <3>2
    <3>4. Place[Deletes(q)[i]] < Place[Deletes(q)[step[q] + 1]]
        BY <2>3, <3>1, <3>3, InOrder
    <3>5. Rank(q) = Place[Deletes(q)[step[q] + 1]] /\ Rank(q) \in Int
        BY <2>3, <2>7, RankType DEF Rank, Table
    <3> QED
        BY <1>1, <2>3, <2>5, <3>2, <3>4, <3>5
  <2> QED
      BY <1>1, <2>3, <2>6, <2>7
<1> QED
    BY <1>1, <1>2, <1>3

\* A DELETE is in no circle.
LEMMA NoCircleOfDeletes ==
    ASSUME ConfigurationInv, LocksInv, Undisturbed, commits = 0,
           NEW r \in Timetables, WaitsForItself(r)
    PROVE  pc[r] = "insert"
<1> SUFFICES ASSUME pc[r] # "insert" PROVE FALSE
    OBVIOUS
<1> DEFINE further == {q \in Timetables : Waits(q) /\ Rank(q) > Rank(r)}
<1>1. Waits(r) /\ pc[r] = "deleting"
    BY DEF WaitsForItself, Waits, WaitsFor
<1>2. Rank(r) \in Int
    BY <1>1, RankType
<1>3. r \notin further
    BY <1>2
<1>4. ASSUME NEW p \in further \cup {r}, NEW q \in Puts, WaitsFor(p, q), Waits(q)
      PROVE  q \in further
  <2>1. p \in Timetables /\ (p # r => Rank(p) > Rank(r)) /\ pc[p] \in {"deleting", "insert"}
      BY <1>4 DEF WaitsFor
  <2>2. /\ q \in Timetables /\ pc[q] \in {"deleting", "insert"}
        /\ Rank(q) >= Rank(p) /\ (p = r => Rank(q) > Rank(p))
      BY <1>1, <1>4, <2>1, NextInLine
  <2>3. Rank(p) \in Int /\ Rank(q) \in Int
      BY <2>1, <2>2, RankType
  <2>4. Rank(q) > Rank(r)
      BY <1>2, <2>1, <2>2, <2>3
  <2> QED
      BY <1>4, <2>2, <2>4
<1>5. further \in SUBSET {q \in Puts : Waits(q)}
    BY DEF Timetables
<1> HIDE DEF further
<1> QED
    BY <1>1, <1>3, <1>4, <1>5 DEF WaitsForItself

\* Two that insert have both deleted all activities, so there are none.
LEMMA CircleOfImports ==
    ASSUME ConfigurationInv, LocksInv, Undisturbed, commits = 0,
           NEW r \in Timetables, pc[r] = "insert", Waits(r), NEW row \in rows
    PROVE  row.table # "activities"
<1> SUFFICES ASSUME row.table = "activities" PROVE FALSE
    OBVIOUS
<1>1. PICK q \in Puts : WaitsFor(r, q)
    BY DEF Waits
<1>2. q \in Timetables /\ pc[q] = "insert" /\ q # r
    BY <1>1, InsertWaits DEF WaitsFor
<1>3. \A p \in Timetables : pc[p] = "insert" => row \in deleted[p]
  <2> SUFFICES ASSUME NEW p \in Timetables, pc[p] = "insert" PROVE row \in deleted[p]
      OBVIOUS
  <2>1. step[p] = Last(p)
      BY Whereabouts DEF Active
  <2>2. "activities" \in Passed(p)
    <3>1. CASE Kind[p] = "academic"
        BY <2>1, <3>1 DEF Passed, Last, Deletes, AcademicDeletes
    <3>2. CASE Kind[p] = "legacy"
        BY <2>1, <3>2 DEF Passed, Last, Deletes, LegacyDeletes
    <3> QED
        BY <3>1, <3>2 DEF Timetables
  <2> QED
      BY <2>2 DEF Undisturbed, UndisturbedOf, Active
<1> QED
    BY <1>2, <1>3 DEF LocksInv, Timetables

\* Before the first commit, DELETEs never wait in a circle and edits of a stored
\* timetable take turns; only what is inserted into a school without activities can
\* be waited for in a circle.
THEOREM EditsTakeTurns == Spec => []OnlyFirstImportsDeadlock
<1>1. ConfigurationInv /\ LocksInv /\ Undisturbed => OnlyFirstImportsDeadlock
  <2> SUFFICES ASSUME ConfigurationInv, LocksInv, Undisturbed, NEW r \in Timetables,
                      WaitsForItself(r), ~ (commits > 0)
               PROVE  pc[r] = "insert" /\ \A row \in rows : row.table # "activities"
      BY DEF OnlyFirstImportsDeadlock
  <2>1. commits = 0
      BY DEF ConfigurationInv, TypeOK
  <2>2. pc[r] = "insert" /\ Waits(r)
      BY <2>1, NoCircleOfDeletes DEF WaitsForItself
  <2> QED
      BY <2>1, <2>2, CircleOfImports
<1> QED
    BY <1>1, ConfigurationIsKept, LocksAreKept, UndisturbedIsKept, PTL

-----------------------------------------------------------------------------
(* Edits of one configuration                                                 *)

\* The id that all requests for a family send, and the rows stored under it.
Common(lead)   == CHOOSE id \in CommonIds(lead) : TRUE
IsKey(o, lead) == Key(o) = <<lead, Common(lead)>>

Stored(lead)    == FamilyRows(rows, lead)
Replacing(lead) == {q \in Puts : Replaces(q, lead)}

\* The running DELETE of q sees a key row, or its transaction has deleted one.
Sees(q, lead)  == \E o \in snap[q] \cap rows : IsKey(o, lead)
Holds(q, lead) == \E o \in deleted[q] \cap rows : IsKey(o, lead)

\* No request has replaced the family yet.
Original(lead) == \A q \in Replacing(lead) : pc[q] # "ok"

\* All of a family is of one writer.
OneWriter(lead) ==
    \/ Stored(lead) = {} /\ Original(lead)
    \/ Stored(lead) = FamilyRows(RowsOf(Seed), lead) /\ Original(lead)
    \/ \E w \in Replacing(lead) : Stored(lead) = FamilyRows(RowsOf(w), lead)

\* Who sees a key row sees the table of it; who holds it, or works on the original,
\* has deleted all of the tables that it has passed, and sees the one it is at.
Surveys(q, lead) == Holds(q, lead) \/ (Original(lead) /\ pc[q] \in Active)

Overview(q, lead) ==
    /\ Sees(q, lead) => \A row \in rows : row.table = lead => row \in snap[q]
    /\ Surveys(q, lead) => \A row \in Stored(lead) :
          /\ row.table \in Passed(q) \ {"supports"} => row \in deleted[q]
          /\ pc[q] = "deleting" /\ row.table = Table(q) => row \in snap[q]

\* The one that has inserted a key row, as all do before they commit, has deleted
\* all there is.
Leading(q, lead) == \E o \in inserted[q] : IsKey(o, lead)

Replaced(lead) ==
    \A q \in Replacing(lead) : Leading(q, lead) =>
        /\ Stored(lead) \subseteq deleted[q]
        /\ \A p \in Replacing(lead) : Leading(p, lead) => p = q

FamilyOf(lead) == /\ OneWriter(lead)
                  /\ Replaced(lead)
                  /\ \A q \in Replacing(lead) : Overview(q, lead)

FamilyInv == EditsOfOne => \A lead \in DOMAIN Family : FamilyOf(lead)

LEMMA Leads ==
    ASSUME NEW lead \in DOMAIN Family
    PROVE  /\ lead \in {"activities", "shifts", "students"}
           /\ lead \in Family[lead] /\ Family[lead] \subseteq Tables
           /\ lead = "activities" => Family[lead] = {"activities", "teachers", "slots", "groups"}
           /\ lead = "shifts"     => Family[lead] = {"shifts", "duties"}
           /\ lead = "students"   => Family[lead] = {"students", "supports"}
  BY DEF Family, Tables

\* Whoever replaces a family has a key row.
LEMMA KeyRow ==
    ASSUME EditsOfOne, NEW lead \in DOMAIN Family, NEW w \in Replacing(lead)
    PROVE  \E o \in FamilyRows(RowsOf(w), lead) : IsKey(o, lead)
<1>1. Common(lead) \in CommonIds(lead)
    BY DEF EditsOfOne, Common, Replacing
<1>2. Common(lead) \in IdsIn(w, lead)
    BY <1>1 DEF CommonIds, Replacing
<1>3. PICK item \in Payload[w][lead] : item.id = Common(lead)
    BY <1>2 DEF IdsIn
<1>4. Row(w, lead, item) \in RowsOf(w)
    BY <1>3, Leads DEF RowsOf, Submitted, Writers, RowsIn, Replacing
<1>5. Row(w, lead, item).table = lead /\ IsKey(Row(w, lead, item), lead)
    BY <1>3 DEF Row, IsKey, Key
<1> QED
    BY <1>4, <1>5, Leads DEF FamilyRows

\* A handler takes all the tables of a family, starting with the one it is named
\* after (only the supports come before their students), or none of them.
LEMMA AllOrNone ==
    ASSUME NEW lead \in DOMAIN Family, NEW q \in Puts
    PROVE  /\ Replaces(q, lead) =>
                 /\ \A t \in Family[lead] : \E i \in 1 .. Last(q) : Deletes(q)[i] = t
                 /\ \A i, j \in 1 .. Last(q) : i < j /\ Deletes(q)[j] = lead => Deletes(q)[i] = "supports"
           /\ ~ Replaces(q, lead) =>
                 /\ \A i \in 1 .. Last(q) : Deletes(q)[i] \notin Family[lead]
                 /\ \A t \in Family[lead] : Payload[q][t] = {}
<1>1. Kind[q] \in {"academic", "legacy", "operations", "roster"}
    BY PayloadAssumption
<1>2. DOMAIN Deletes(q) = 1 .. Last(q)
  <2>1. CASE Kind[q] = "academic"
      BY <2>1 DEF Last, Deletes, AcademicDeletes
  <2>2. CASE Kind[q] = "legacy"
      BY <2>2 DEF Last, Deletes, LegacyDeletes
  <2>3. CASE Kind[q] = "operations"
      BY <2>3 DEF Last, Deletes, OperationsDeletes
  <2>4. CASE Kind[q] = "roster"
      BY <2>4 DEF Last, Deletes, RosterDeletes
  <2> QED
      BY <1>1, <2>1, <2>2, <2>3, <2>4
<1>3. Replaces(q, lead) <=> \E i \in 1 .. Last(q) : Deletes(q)[i] = lead
    BY <1>2 DEF Replaces
<1>4. \A t \in Family[lead] : t \in Tables
    BY Leads
<1>5. CASE Kind[q] = "academic"
  <2>1. /\ Last(q) = 5 /\ Deletes(q)[1] = "activities" /\ Deletes(q)[2] = "subjects"
        /\ Deletes(q)[3] = "teachers" /\ Deletes(q)[4] = "slots" /\ Deletes(q)[5] = "groups"
      BY <1>5 DEF Last, Deletes, AcademicDeletes
  <2>2. 1 .. 5 = {1, 2, 3, 4, 5}
      OBVIOUS
  <2>3. \A t \in Tables : Payload[q][t] # {} => t \in TimetableTables
      BY <1>5, PayloadAssumption DEF TimetableTables
  <2> QED
      BY <1>3, <1>4, <2>1, <2>2, <2>3, Leads DEF TimetableTables
<1>6. CASE Kind[q] = "legacy"
  <2>1. /\ Last(q) = 4 /\ Deletes(q)[1] = "activities" /\ Deletes(q)[2] = "teachers"
        /\ Deletes(q)[3] = "slots" /\ Deletes(q)[4] = "groups"
      BY <1>6 DEF Last, Deletes, LegacyDeletes
  <2>2. 1 .. 4 = {1, 2, 3, 4}
      OBVIOUS
  <2>3. \A t \in Tables : Payload[q][t] # {} => t \in TimetableTables
      BY <1>6, PayloadAssumption DEF TimetableTables
  <2> QED
      BY <1>3, <1>4, <2>1, <2>2, <2>3, Leads DEF TimetableTables
<1>7. CASE Kind[q] = "operations"
  <2>1. Last(q) = 2 /\ Deletes(q)[1] = "shifts" /\ Deletes(q)[2] = "duties"
      BY <1>7, DeletesOf, NumberOfDeletes
  <2>2. 1 .. 2 = {1, 2}
      OBVIOUS
  <2>3. \A t \in Tables : Payload[q][t] # {} => t \in {"shifts", "duties"}
      BY <1>7, PayloadAssumption
  <2> QED
      BY <1>3, <1>4, <2>1, <2>2, <2>3, Leads
<1>8. CASE Kind[q] = "roster"
  <2>1. /\ Last(q) = 3 /\ Deletes(q)[1] = "supports" /\ Deletes(q)[2] = "students"
        /\ Deletes(q)[3] = "cascade"
      BY <1>8, DeletesOf, NumberOfDeletes
  <2>2. 1 .. 3 = {1, 2, 3}
      OBVIOUS
  <2>3. \A t \in Tables : Payload[q][t] # {} => t \in {"students", "supports"}
      BY <1>8, PayloadAssumption
  <2> QED
      BY <1>3, <1>4, <2>1, <2>2, <2>3, Leads
<1> QED
    BY <1>1, <1>5, <1>6, <1>7, <1>8

\* What does not replace a family leaves it alone.
LEMMA ForeignRows ==
    ASSUME ConfigurationInv, LocksInv, NEW lead \in DOMAIN Family,
           NEW r \in Puts \ Replacing(lead), pc[r] = "insert"
    PROVE  /\ \A row \in deleted[r] : row.table \notin Family[lead]
           /\ \A row \in RowsOf(r) : row.table \notin Family[lead]
<1>1. ~ Replaces(r, lead) /\ r \in Writers
    BY DEF Replacing, Writers
<1>2. Passed(r) = {Deletes(r)[i] : i \in 1 .. Last(r)}
    BY DEF Passed, LocksInv, LocksOf
<1>3. \A row \in deleted[r] : row.table \in Passed(r)
    BY DEF LocksInv, LocksOf
<1>4. \A row \in RowsOf(r) : Payload[r][row.table] # {}
    BY <1>1, RowsOfWriter
<1> QED
    BY <1>1, <1>2, <1>3, <1>4, AllOrNone

\* A family that has been replaced has a key row.
LEMMA KeyIsStored ==
    ASSUME EditsOfOne, NEW lead \in DOMAIN Family, OneWriter(lead), ~ Original(lead)
    PROVE  \E o \in Stored(lead) : IsKey(o, lead)
  BY KeyRow DEF OneWriter

\* What surveys a family after the last DELETE holds all of it.
LEMMA HoldsAll ==
    ASSUME ConfigurationInv, LocksInv, NEW lead \in DOMAIN Family, OneWriter(lead),
           NEW r \in Replacing(lead), pc[r] = "insert", Surveys(r, lead), Overview(r, lead)
    PROVE  Stored(lead) \subseteq deleted[r]
<1>1. r \in Puts /\ Replaces(r, lead) /\ step[r] = Last(r)
    BY DEF Replacing, LocksInv, LocksOf
<1>2. \A t \in Family[lead] : t \in Passed(r)
    BY <1>1, AllOrNone DEF Passed
<1>3. \A row \in Stored(lead) : row.table # "supports" => row \in deleted[r]
    BY <1>2 DEF Overview, Stored, FamilyRows
<1>4. ASSUME NEW row \in Stored(lead), row.table = "supports" PROVE row \in deleted[r]
  <2>1. lead = "students" /\ row \in rows
      BY <1>4, Leads DEF Stored, FamilyRows
  <2>2. PICK w \in Writers : Stored(lead) = FamilyRows(RowsOf(w), lead)
      BY <1>4 DEF OneWriter, Replacing, Writers
  <2>3. row \in RowsOf(w)
      BY <2>2 DEF FamilyRows
  <2>4. PICK item \in Payload[w]["supports"] : row = Row(w, "supports", item)
      BY <1>4, <2>3, RowsOfWriter
  <2>5. PICK student \in Payload[w]["students"] : <<"students", student.id>> \in item.refs
      BY SupportAssumption
  <2> DEFINE o == Row(w, "students", student)
  <2>6. /\ o.table = "students" /\ o.by = row.by /\ Key(o) \in row.refs /\ o \in RowsOf(w)
    <3>1. o.table = "students" /\ o.by = w /\ Key(o) = <<"students", student.id>>
        BY DEF Row, Key
    <3>2. row.by = w /\ row.refs = item.refs
        BY <2>4 DEF Row
    <3>3. o \in RowsOf(w)
        BY <2>5 DEF RowsOf, Submitted, RowsIn, Tables
    <3> QED
        BY <2>5, <3>1, <3>2, <3>3
  <2> HIDE DEF o
  <2>7. o \in Stored(lead)
      BY <2>1, <2>2, <2>6, Leads DEF FamilyRows
  <2>8. Belongs(row, deleted[r])
      BY <1>3, <1>4, <2>6, <2>7 DEF Belongs
  <2>9. Kind[r] = "roster"
    <3>1. Kind[r] \in {"academic", "legacy", "operations", "roster"}
        BY <1>1, PayloadAssumption
    <3>2. PICK i \in 1 .. Last(r) : Deletes(r)[i] = "students"
        BY <1>1, <2>1, AllOrNone, Leads
    <3>3. Kind[r] = "operations" => Last(r) = 2 /\ Deletes(r)[1] = "shifts" /\ Deletes(r)[2] = "duties"
        BY <1>1, DeletesOf, NumberOfDeletes
    <3>4. r \in Timetables => Deletes(r)[i] \in TimetableTables
        BY InOrder
    <3> QED
        BY <1>1, <3>1, <3>2, <3>3, <3>4 DEF Timetables, TimetableTables
  <2> QED
      BY <1>1, <2>1, <2>8, <2>9 DEF ConfigurationInv, Cascade
<1> QED
    BY <1>3, <1>4

\* What a request sees and holds of a family, after a step of its own.
LEMMA OwnOverview ==
    ASSUME ConfigurationInv, LocksInv, NEW lead \in DOMAIN Family,
           NEW r \in Replacing(lead), StepOf(r), ~ Committed(r), \A q \in Puts : q # r => Same(q),
           Overview(r, lead)
    PROVE  Overview(r, lead)'
<1>1. r \in Puts /\ Replaces(r, lead) /\ rows' = rows /\ Stored(lead)' = Stored(lead)
    BY DEF Replacing, Stored, StepOf, Began, Looked, Removed, Inserted, RolledBack
<1>2. step'[r] = step[r] => Passed(r)' = Passed(r) /\ Table(r)' = Table(r)
    BY DEF Passed, Table
<1>3. LocksOf(r)
    BY <1>1 DEF LocksInv
<1>4. lead \notin {"supports", "cascade"} /\ \A row \in Stored(lead) : row.table # "cascade"
    BY Leads DEF Stored, FamilyRows, Tables
<1>5. \A o \in rows : IsKey(o, lead) => o.table = lead /\ o \in Stored(lead)
    BY Leads DEF IsKey, Key, Stored, FamilyRows
<1>6. pc[r] # "ok" /\ pc'[r] # "ok"
    BY DEF StepOf, Began, Looked, Removed, Inserted, RolledBack, Active
<1>7. Original(lead)' <=> Original(lead)
    BY <1>6 DEF Original, Replacing, Same
<1>8. CASE Began(r) \/ RolledBack(r)
  <2>1. deleted'[r] = {} /\ snap'[r] = {}
      BY <1>3, <1>8 DEF Began, RolledBack, LocksOf, Active
  <2>2. CASE Began(r)
    <3>1. step'[r] = 0 /\ pc'[r] # "deleting"
        BY <1>1, <2>2 DEF Began, ConfigurationInv, Steps
    <3>2. Passed(r)' = {}
        BY <3>1 DEF Passed
    <3> QED
        BY <2>1, <3>1, <3>2 DEF Overview, Sees, Holds
  <2>3. CASE RolledBack(r)
      BY <2>1, <2>3 DEF RolledBack, Overview, Surveys, Sees, Holds, Active
  <2> QED
      BY <1>8, <2>2, <2>3
<1>9. CASE Looked(r)
  <2>1. /\ pc[r] = "delete" /\ snap'[r] = Seen(r) /\ deleted'[r] = deleted[r]
        /\ Passed(r)' = Passed(r) /\ Table(r)' = Table(r)
      BY <1>2, <1>9 DEF Looked
  <2>2. CASE Table(r) # "cascade"
    <3>1. snap'[r] = {row \in rows : row.table = Table(r)}
        BY <1>1, <2>1, <2>2, SeenTable
    <3> QED
        BY <1>1, <1>5, <1>7, <2>1, <3>1
           DEF Overview, Surveys, Sees, Holds, Stored, FamilyRows, Active
  <2>3. CASE Table(r) = "cascade"
    <3>1. \A o \in Seen(r) : o.table = "supports"
        BY <2>3 DEF Seen, Table, Belongs
    <3>2. ~ Sees(r, lead)'
        BY <1>1, <1>4, <1>5, <2>1, <3>1 DEF Sees
    <3> QED
        BY <1>1, <1>4, <1>7, <2>1, <2>3, <3>2 DEF Overview, Surveys, Holds, Active
  <2> QED
      BY <2>2, <2>3
<1>10. CASE Removed(r)
  <2>1. /\ pc[r] = "deleting" /\ pc'[r] # "deleting" /\ snap'[r] = {}
        /\ deleted'[r] = deleted[r] \cup (snap[r] \cap rows)
      BY <1>10 DEF Removed
  <2>2. Passed(r)' = Passed(r) \cup {Table(r)}
      BY <1>1, <1>10, PassedOne DEF Removed
  <2>3. ASSUME Sees(r, lead), NEW row \in Stored(lead),
               row.table \in (Passed(r) \cup {Table(r)}) \ {"supports"}
        PROVE  row \in deleted'[r]
    <3>1. PICK o \in snap[r] \cap rows : IsKey(o, lead)
        BY <2>3 DEF Sees
    <3>2. o.table = lead
        BY <1>5, <3>1
    <3>3. Table(r) = lead
      <4>1. Table(r) # "cascade"
        <5> SUFFICES ASSUME Table(r) = "cascade" PROVE FALSE
            OBVIOUS
        <5>1. Kind[r] = "roster" /\ step[r] = 2
            BY <1>1, <2>1, CascadeIsLast
        <5>2. o.table = "supports"
            BY <1>1, <2>1, <3>1, <5>1 DEF ConfigurationInv, Cascade
        <5> QED
            BY <1>4, <3>2, <5>2
      <4> QED
          BY <1>3, <2>1, <3>1, <3>2, <4>1 DEF LocksOf
    <3>4. Passed(r) \subseteq {"supports"}
      <4>1. step[r] \in Nat /\ step[r] < Last(r) /\ Last(r) \in Nat
          BY <1>1, <2>1, NumberOfDeletes DEF ConfigurationInv, TypeOK, Steps
      <4>2. \A i \in 1 .. step[r] : i \in 1 .. Last(r) /\ i < step[r] + 1 /\ step[r] + 1 \in 1 .. Last(r)
          BY <4>1
      <4>3. \A i \in 1 .. step[r] : Deletes(r)[i] = "supports"
          BY <1>1, <3>3, <4>2, AllOrNone DEF Table
      <4> QED
          BY <4>3 DEF Passed
    <3>5. row.table = lead /\ row \in rows
        BY <2>3, <3>3, <3>4 DEF Stored, FamilyRows
    <3> QED
        BY <2>1, <2>3, <3>5 DEF Overview
  <2>4. ASSUME Surveys(r, lead), NEW row \in Stored(lead),
               row.table \in (Passed(r) \cup {Table(r)}) \ {"supports"}
        PROVE  row \in deleted'[r]
      BY <2>1, <2>4 DEF Overview, Stored, FamilyRows
  <2>5. Surveys(r, lead)' => Surveys(r, lead) \/ Sees(r, lead)
      BY <1>1, <1>7, <2>1 DEF Surveys, Holds, Sees, IsKey, Key, Common, Active
  <2>6. ~ Sees(r, lead)'
      BY <2>1 DEF Sees
  <2> QED
      BY <1>1, <2>1, <2>2, <2>3, <2>4, <2>5, <2>6 DEF Overview
<1>11. CASE Inserted(r)
    BY <1>1, <1>2, <1>3, <1>11, <1>7 DEF Inserted, Overview, Surveys, Sees, Holds, LocksOf, Active
<1> QED
    BY <1>8, <1>9, <1>10, <1>11 DEF StepOf

\* A step without a commit.
LEMMA FamilyWithoutCommit ==
    ASSUME ConfigurationInv, LocksInv, EditsOfOne, NEW lead \in DOMAIN Family, FamilyOf(lead),
           NEW r \in Puts, StepOf(r), ~ Committed(r), \A q \in Puts : q # r => Same(q)
    PROVE  FamilyOf(lead)'
<1>1. Original(lead)' <=> Original(lead)
  <2>1. pc[r] # "ok" /\ pc'[r] # "ok"
      BY DEF StepOf, Began, Looked, Removed, Inserted, RolledBack, Active
  <2> QED
      BY <2>1 DEF Original, Replacing, Same
<1>2. rows' = rows /\ Stored(lead)' = Stored(lead) /\ OneWriter(lead)'
  <2>1. rows' = rows
      BY DEF StepOf, Began, Looked, Removed, Inserted, RolledBack
  <2> QED
      BY <1>1, <2>1 DEF FamilyOf, OneWriter, Stored
<1>3. ASSUME NEW q \in Replacing(lead) PROVE Overview(q, lead)'
  <2>1. CASE q = r
      BY <2>1, OwnOverview DEF FamilyOf
  <2>2. CASE q # r
    <3>1. Same(q)
        BY <2>2 DEF Replacing
    <3>2. Passed(q)' = Passed(q) /\ Table(q)' = Table(q)
        BY <3>1 DEF Same, Passed, Table
    <3> QED
        BY <1>1, <1>2, <3>1, <3>2 DEF Same, FamilyOf, Overview, Surveys, Sees, Holds
  <2> QED
      BY <2>1, <2>2
<1>4. Replaced(lead)'
  <2>1. CASE r \in Replacing(lead) /\ Inserted(r)
    <3>1. PICK row \in Upcoming(r) :
             /\ pc[r] = "insert" /\ ~ Waits(r) /\ ~ InsertCollides(r) /\ deleted'[r] = deleted[r]
             /\ inserted'[r] = inserted[r] \cup {row}
        BY <2>1 DEF Inserted
    <3>2. \A p \in Replacing(lead) : p # r => (Leading(p, lead)' <=> Leading(p, lead)) /\ deleted'[p] = deleted[p]
        BY DEF Leading, Replacing, Same, IsKey, Common, CommonIds, IdsIn, Replaces
    <3>3. CASE ~ IsKey(row, lead)
      <4>1. Leading(r, lead)' <=> Leading(r, lead)
          BY <3>1, <3>3 DEF Leading, IsKey, Common, CommonIds, IdsIn, Replaces
      <4> QED
          BY <1>2, <3>1, <3>2, <4>1 DEF FamilyOf, Replaced, Replacing
    <3>4. CASE IsKey(row, lead)
      <4>1. Stored(lead) \subseteq deleted[r]
        <5>1. Surveys(r, lead)
          <6>1. CASE Original(lead)
              BY <3>1, <6>1 DEF Surveys, Active
          <6>2. CASE ~ Original(lead)
            <7>1. PICK o \in Stored(lead) : IsKey(o, lead)
                BY <6>2, KeyIsStored DEF FamilyOf
            <7>2. o \in rows /\ o \in deleted[r]
                BY <3>1, <3>4, <7>1 DEF InsertCollides, IsKey, Stored, FamilyRows
            <7> QED
                BY <7>1, <7>2 DEF Surveys, Holds
          <6> QED
              BY <6>1, <6>2
        <5> QED
            BY <2>1, <3>1, <5>1, HoldsAll DEF FamilyOf
      <4>2. ASSUME NEW p \in Replacing(lead), p # r PROVE ~ Leading(p, lead)
          BY <3>1, <3>4, <4>2 DEF Waits, WaitsFor, Leading, IsKey, Replacing
      <4> QED
          BY <1>2, <3>1, <3>2, <4>1, <4>2 DEF Replaced, Replacing
    <3> QED
        BY <3>3, <3>4
  <2>2. CASE r \in Replacing(lead) /\ ~ Inserted(r)
    <3>1. inserted'[r] = {} \/ (inserted'[r] = inserted[r] /\ deleted[r] \subseteq deleted'[r])
        BY <2>2 DEF StepOf, Began, Looked, Removed, RolledBack
    <3>2. Leading(r, lead)' => Leading(r, lead) /\ deleted[r] \subseteq deleted'[r]
        BY <3>1 DEF Leading, IsKey, Common, CommonIds, IdsIn, Replaces
    <3>3. \A p \in Replacing(lead) : p # r => (Leading(p, lead)' <=> Leading(p, lead)) /\ deleted'[p] = deleted[p]
        BY DEF Leading, Replacing, Same, IsKey, Common, CommonIds, IdsIn, Replaces
    <3> QED
        BY <1>2, <3>2, <3>3 DEF FamilyOf, Replaced, Replacing
  <2>3. CASE r \notin Replacing(lead)
    <3>1. \A p \in Replacing(lead) : (Leading(p, lead)' <=> Leading(p, lead)) /\ deleted'[p] = deleted[p]
        BY <2>3 DEF Leading, Replacing, Same, IsKey, Common, CommonIds, IdsIn, Replaces
    <3> QED
        BY <1>2, <3>1 DEF FamilyOf, Replaced, Replacing
  <2> QED
      BY <2>1, <2>2, <2>3
<1> QED
    BY <1>2, <1>3, <1>4 DEF FamilyOf, Replacing

\* A commit replaces all of a family or leaves it alone.
LEMMA FamilyAfterCommit ==
    ASSUME ConfigurationInv, LocksInv, EditsOfOne, NEW lead \in DOMAIN Family, FamilyOf(lead),
           NEW r \in Puts, Committed(r), \A q \in Puts : q # r => Same(q)
    PROVE  FamilyOf(lead)'
<1>1. /\ pc[r] = "insert" /\ pc'[r] = "ok" /\ snap'[r] = {} /\ deleted'[r] = {} /\ inserted'[r] = {}
      /\ rows' = (rows \ deleted[r]) \cup RowsOf(r) /\ inserted[r] = RowsOf(r)
    BY DEF Committed
<1>2. \A q \in Puts : q # r => /\ pc'[q] = pc[q] /\ snap'[q] = snap[q] /\ deleted'[q] = deleted[q]
                               /\ inserted'[q] = inserted[q]
                               /\ Passed(q)' = Passed(q) /\ Table(q)' = Table(q)
    BY DEF Same, Passed, Table
<1>3. CASE r \notin Replacing(lead)
  <2>1. \A row : row.table \in Family[lead] => (row \in rows' <=> row \in rows)
      BY <1>1, <1>3, ForeignRows
  <2>2. Stored(lead)' = Stored(lead)
      BY <2>1 DEF Stored, FamilyRows
  <2>3. lead \in Family[lead] /\ \A o : IsKey(o, lead) => o.table = lead
      BY Leads DEF IsKey, Key
  <2>4. \A q \in Replacing(lead) : q \in Puts /\ q # r
      BY <1>3 DEF Replacing
  <2>8. Original(lead)' <=> Original(lead)
      BY <1>2, <2>4 DEF Original
  <2>5. ASSUME NEW q \in Replacing(lead) PROVE Overview(q, lead)'
    <3>1. Overview(q, lead)
        BY DEF FamilyOf
    <3>2. (Sees(q, lead)' <=> Sees(q, lead)) /\ (Surveys(q, lead)' <=> Surveys(q, lead))
        BY <1>2, <2>1, <2>3, <2>4, <2>8 DEF Surveys, Sees, Holds
    <3> QED
        BY <1>2, <2>1, <2>2, <2>3, <2>4, <3>1, <3>2 DEF Overview
  <2>6. OneWriter(lead)'
      BY <2>2, <2>8 DEF FamilyOf, OneWriter
  <2>7. Replaced(lead)'
      BY <1>2, <2>2, <2>4 DEF FamilyOf, Replaced, Leading
  <2> QED
      BY <2>5, <2>6, <2>7 DEF FamilyOf
<1>4. CASE r \in Replacing(lead)
  <2>1. /\ Stored(lead) \subseteq deleted[r]
        /\ \A p \in Replacing(lead) : Leading(p, lead) => p = r
    <3>1. Leading(r, lead)
        BY <1>1, <1>4, KeyRow DEF Leading, FamilyRows
    <3> QED
        BY <1>4, <3>1 DEF FamilyOf, Replaced
  <2>2. Stored(lead)' = FamilyRows(RowsOf(r), lead)
      BY <1>1, <2>1 DEF Stored, FamilyRows
  <2>3. \A p \in Replacing(lead) : ~ Leading(p, lead)'
      BY <1>1, <1>2, <2>1 DEF Leading, Replacing
  <2>4. ASSUME NEW q \in Replacing(lead), NEW o \in deleted'[q] \cup snap'[q], o \in rows'
        PROVE  ~ IsKey(o, lead)
    <3> SUFFICES ASSUME IsKey(o, lead) PROVE FALSE
        OBVIOUS
    <3>1. q \in Puts /\ q # r
        BY <1>1, <2>4 DEF Replacing
    <3>2. o.by # r
        BY <1>1, <1>2, <2>4, <3>1 DEF LocksInv, LocksOf, ConfigurationInv, Owners
    <3>3. o \in rows \ deleted[r]
        BY <1>1, <2>4, <3>2, RowsOfWriter DEF Writers
    <3>4. o \in Stored(lead)
        BY <3>3, Leads DEF IsKey, Key, Stored, FamilyRows
    <3> QED
        BY <2>1, <3>3, <3>4
  <2>5. \A q \in Replacing(lead) : Overview(q, lead)'
    <3>1. ~ Original(lead)'
        BY <1>1, <1>4 DEF Original
    <3> QED
        BY <2>4, <3>1 DEF Overview, Surveys, Sees, Holds
  <2> QED
      BY <1>4, <2>2, <2>3, <2>5 DEF FamilyOf, OneWriter, Replaced
<1> QED
    BY <1>3, <1>4

LEMMA InitFamilies == Init => FamilyInv
<1> SUFFICES ASSUME Init, NEW lead \in DOMAIN Family PROVE FamilyOf(lead)
    BY DEF FamilyInv
<1>1. \A q \in Puts : pc[q] \in {"idle", "unsent"} /\ snap[q] = {} /\ deleted[q] = {} /\ inserted[q] = {}
    BY DEF Init
<1>2. rows = {} \/ rows = RowsOf(Seed)
    BY DEF Init
<1>3. OneWriter(lead)
    BY <1>1, <1>2 DEF OneWriter, Original, Stored, FamilyRows, Replacing
<1> QED
    BY <1>1, <1>3 DEF FamilyOf, Replaced, Leading, Overview, Surveys, Sees, Holds, Replacing, Active

LEMMA FamilyStep == ConfigurationInv /\ LocksInv /\ FamilyInv /\ [Next]_vars => FamilyInv'
<1> SUFFICES ASSUME ConfigurationInv, LocksInv, EditsOfOne, NEW lead \in DOMAIN Family,
                    FamilyOf(lead), [Next]_vars
             PROVE  FamilyOf(lead)'
    BY DEF FamilyInv, EditsOfOne, CommonIds, IdsIn, Replaces, FamilyRows
<1>1. ASSUME NEW r \in Puts, Handle(r) \/ Die(r) PROVE FamilyOf(lead)'
    BY <1>1, HandlerSteps, FamilyAfterCommit, FamilyWithoutCommit
<1>2. ASSUME rows' = rows, \A q \in Puts : Same(q) PROVE FamilyOf(lead)'
  <2>1. \A q \in Puts : Passed(q)' = Passed(q) /\ Table(q)' = Table(q)
      BY <1>2 DEF Same, Passed, Table
  <2>2. OneWriter(lead)'
      BY <1>2 DEF FamilyOf, OneWriter, Original, Replacing, Stored, Same
  <2>3. Replaced(lead)'
      BY <1>2 DEF FamilyOf, Replaced, Leading, Replacing, Stored, Same
  <2>4. \A q \in Replacing(lead) : Overview(q, lead)'
      BY <1>2, <2>1 DEF FamilyOf, Overview, Surveys, Original, Sees, Holds, Replacing, Stored, Same
  <2> QED
      BY <2>2, <2>3, <2>4 DEF FamilyOf
<1>3. ASSUME NEW s \in Solves, ReadTeachers(s) \/ ReadActivities(s) PROVE FamilyOf(lead)'
    BY <1>2, <1>3, SolverSteps
<1>4. CASE UNCHANGED vars
    BY <1>2, <1>4 DEF vars, Same
<1> QED
    BY <1>1, <1>3, <1>4 DEF Next

LEMMA FamiliesAreKept == Spec => []FamilyInv
  BY InitFamilies, FamilyStep, ConfigurationIsKept, LocksAreKept, PTL DEF Spec

\* Edits that have an id in common never mix, however they overlap, wait, fail or
\* die: each family of tables holds what one writer has sent for it.
THEOREM EditsNeverMix == Spec => []OneConfiguration
<1>1. FamilyInv => OneConfiguration
    BY DEF FamilyInv, FamilyOf, OneWriter, Replacing, Writers, Stored, OneConfiguration
<1> QED
    BY <1>1, FamiliesAreKept, PTL

-----------------------------------------------------------------------------
(* What a solver reads                                                        *)

HasTeachers(a, some) ==
    \A ref \in a.refs : ref[1] = "teachers" => \E t \in some : Key(t) = ref

\* Between its two SELECTs, a solver has the teachers that there are, unless a
\* timetable has been committed since.
SolverOf(s) ==
    /\ got[s].first <= commits
    /\ pc[s] = "teachers" /\ got[s].first = commits => got[s].teachers = KnownTeachers
    /\ pc[s] = "ok" /\ got[s].first = got[s].last =>
          \A a \in got[s].activities : HasTeachers(a, got[s].teachers)

SolverInv == EditsOfOne => \A s \in Solves : SolverOf(s)

\* The activities that are stored have their teachers.
LEMMA ActivitiesHaveTeachers ==
    ASSUME ConfigurationInv, LocksInv, FamilyOf("activities"),
           NEW a \in rows, a.table = "activities"
    PROVE  HasTeachers(a, KnownTeachers)
<1>1. /\ "activities" \in DOMAIN Family
      /\ Family["activities"] = {"activities", "teachers", "slots", "groups"}
    BY DEF Family
<1>2. a \in Stored("activities")
    BY <1>1 DEF Stored, FamilyRows
<1>3. PICK w \in Writers : Stored("activities") = FamilyRows(RowsOf(w), "activities")
    BY <1>2 DEF FamilyOf, OneWriter, Replacing, Writers
<1>4. a \in RowsOf(w) /\ a.by = w /\ Payload[w]["activities"] # {}
  <2>1. a \in RowsOf(w)
      BY <1>2, <1>3 DEF FamilyRows
  <2> QED
      BY <2>1, RowsOfWriter
<1>5. ASSUME NEW ref \in a.refs PROVE \E o \in RowsOf(w) : Key(o) = ref
  <2>1. CASE w = Seed
    <3>1. a \in RowsIn(Seed, "activities")
        BY <1>4, <2>1, RowsOfWriter DEF RowsIn
    <3> QED
        BY <2>1, <3>1, SeedAssumption DEF Resolves
  <2>2. CASE w \in Puts
    <3>1. w \in Timetables
        BY <1>4, <2>2, PayloadAssumption DEF Timetables, Tables
    <3>2. pc[w] = "ok"
        BY <1>4, <2>2 DEF ConfigurationInv, Owners
    <3>3. Resolves(RowsOf(w), RowsOf(w))
        BY <2>2, <3>1, <3>2 DEF LocksInv, LocksOf
    <3> QED
        BY <1>4, <3>3 DEF Resolves
  <2> QED
      BY <2>1, <2>2 DEF Writers
<1>6. ASSUME NEW ref \in a.refs, ref[1] = "teachers" PROVE \E t \in KnownTeachers : Key(t) = ref
  <2>1. PICK o \in RowsOf(w) : Key(o) = ref
      BY <1>5
  <2>2. o.table = "teachers"
      BY <1>6, <2>1 DEF Key
  <2>3. o \in Stored("activities")
      BY <1>1, <1>3, <2>2 DEF FamilyRows
  <2> QED
      BY <2>1, <2>2, <2>3 DEF Stored, FamilyRows, KnownTeachers
<1> QED
    BY <1>6 DEF HasTeachers

\* A step of a request.
LEMMA SolverWaits ==
    ASSUME ConfigurationInv, NEW s \in Solves, SolverOf(s), got' = got, pc'[s] = pc[s],
           NEW r \in Puts, StepOf(r)
    PROVE  SolverOf(s)'
<1>1. got[s].first \in Nat /\ commits \in Nat
    BY DEF ConfigurationInv, TypeOK
<1>2. CASE Committed(r) /\ r \in Timetables
  <2>1. commits' = commits + 1
      BY <1>2 DEF Committed
  <2>2. got[s].first <= commits' /\ got[s].first # commits'
      BY <1>1, <2>1 DEF SolverOf
  <2> QED
      BY <2>2 DEF SolverOf
<1>3. CASE Committed(r) /\ r \notin Timetables
  <2>1. commits' = commits
      BY <1>3 DEF Committed
  <2>2. \A row : row.table = "teachers" => (row \in rows' <=> row \in rows)
      BY <1>3, OtherCommit DEF TimetableTables
  <2>3. KnownTeachers' = KnownTeachers
      BY <2>2 DEF KnownTeachers
  <2> QED
      BY <2>1, <2>3 DEF SolverOf
<1>4. CASE ~ Committed(r)
  <2>1. UNCHANGED <<rows, commits>>
      BY <1>4 DEF StepOf, Began, Looked, Removed, Inserted, RolledBack
  <2> QED
      BY <2>1 DEF SolverOf, KnownTeachers
<1> QED
    BY <1>2, <1>3, <1>4

\* A step of a solver.
LEMMA SolverReads ==
    ASSUME ConfigurationInv, LocksInv, FamilyOf("activities"), \A s \in Solves : SolverOf(s),
           NEW r \in Solves, ReadTeachers(r) \/ ReadActivities(r), NEW s \in Solves
    PROVE  SolverOf(s)'
<1>1. UNCHANGED <<rows, commits>> /\ SolverOf(s)
    BY DEF ReadTeachers, ReadActivities, history
<1>2. KnownTeachers' = KnownTeachers
    BY <1>1 DEF KnownTeachers
<1>3. /\ pc \in [Puts \cup Solves -> Stages] /\ commits \in Nat
      /\ got \in [Solves -> [teachers: SUBSET AllRows, activities: SUBSET AllRows,
                             first: Nat, last: Nat]]
    BY DEF ConfigurationInv, TypeOK, Stages
<1>4. CASE s # r
  <2>1. got'[s] = got[s] /\ pc'[s] = pc[s]
      BY <1>3, <1>4 DEF ReadTeachers, ReadActivities, Goto
  <2> QED
      BY <1>1, <1>2, <2>1 DEF SolverOf
<1>5. CASE s = r /\ ReadTeachers(r)
  <2>1. pc'[s] = "teachers" /\ got'[s].teachers = KnownTeachers /\ got'[s].first = commits
      BY <1>3, <1>5 DEF ReadTeachers, Goto, KnownTeachers
  <2> QED
      BY <1>1, <1>2, <1>3, <2>1 DEF SolverOf
<1>6. CASE s = r /\ ReadActivities(r)
  <2>1. /\ pc[s] = "teachers" /\ pc'[s] \in {"incomplete", "ok"}
        /\ got'[s].first = got[s].first /\ got'[s].last = commits
        /\ got'[s].teachers = got[s].teachers
        /\ \A a \in got'[s].activities : a \in rows /\ a.table = "activities"
    <3>1. PICK some \in SUBSET {row \in rows : row.table = "activities"} :
             got' = [got EXCEPT ![s] = [got[s] EXCEPT !.activities = some, !.last = commits]]
      <4>1. PICK day \in Days :
               got' = [got EXCEPT ![s].activities =
                                     {row \in rows : row.table = "activities" /\ day \in row.days},
                                  ![s].last = commits]
          BY <1>6 DEF ReadActivities
      <4> DEFINE read == {row \in rows : row.table = "activities" /\ day \in row.days}
      <4>2. read \in SUBSET {row \in rows : row.table = "activities"}
          OBVIOUS
      <4>3. got' = [got EXCEPT ![s].activities = read, ![s].last = commits]
          BY <4>1
      <4> HIDE DEF read
      <4> QED
          BY <1>3, <4>2, <4>3
    <3>2. /\ got'[s].first = got[s].first /\ got'[s].last = commits
          /\ got'[s].teachers = got[s].teachers /\ got'[s].activities = some
        BY <1>3, <3>1
    <3>3. pc[s] = "teachers" /\ pc'[s] \in {"incomplete", "ok"}
        BY <1>3, <1>6 DEF ReadActivities, Goto
    <3> QED
        BY <3>1, <3>2, <3>3
  <2>2. \A a \in got'[s].activities : HasTeachers(a, KnownTeachers)
      BY <2>1, ActivitiesHaveTeachers
  <2> QED
      BY <1>1, <2>1, <2>2 DEF SolverOf
<1> QED
    BY <1>4, <1>5, <1>6

LEMMA SolverStepKept ==
    ConfigurationInv /\ LocksInv /\ FamilyInv /\ SolverInv /\ [Next]_vars => SolverInv'
<1> SUFFICES ASSUME ConfigurationInv, LocksInv, FamilyOf("activities"),
                    \A s \in Solves : SolverOf(s), [Next]_vars, NEW s \in Solves
             PROVE  SolverOf(s)'
    BY DEF FamilyInv, SolverInv, Family, EditsOfOne, CommonIds, IdsIn, Replaces, FamilyRows
<1>1. ASSUME NEW r \in Puts, Handle(r) \/ Die(r) PROVE SolverOf(s)'
    BY <1>1, HandlerSteps, SolverWaits
<1>2. ASSUME NEW r \in Solves, ReadTeachers(r) \/ ReadActivities(r) PROVE SolverOf(s)'
    BY <1>2, SolverReads
<1>3. CASE UNCHANGED vars
    BY <1>3 DEF vars, SolverOf, KnownTeachers
<1> QED
    BY <1>1, <1>2, <1>3 DEF Next

LEMMA InitSolver == Init => SolverInv
  BY DEF Init, NothingRead, SolverInv, SolverOf

LEMMA SolverIsKept == Spec => []SolverInv
  BY InitSolver, SolverStepKept, ConfigurationIsKept, LocksAreKept, FamiliesAreKept, PTL DEF Spec

\* Where no timetable was committed between the two SELECTs of a solver, it has a
\* teacher for each activity it has read.
THEOREM SolverInputIsWhole == Spec => []TornOnlyByOverlap
<1>1. SolverInv => TornOnlyByOverlap
    BY DEF SolverInv, SolverOf, HasTeachers, TornOnlyByOverlap
<1> QED
    BY <1>1, SolverIsKept, PTL

-----------------------------------------------------------------------------
(* Atomic replacement                                                         *)

\* What a commit does to the documents.
LEMMA CommitReplaces ==
    ASSUME ConfigurationInv, LocksInv, EditsOfOne, NEW lead \in DOMAIN Family, FamilyOf(lead),
           NEW r \in Puts, Committed(r)
    PROVE  Stored(lead)' = IF Replaces(r, lead) THEN FamilyRows(RowsOf(r), lead) ELSE Stored(lead)
<1>1. pc[r] = "insert" /\ inserted[r] = RowsOf(r) /\ rows' = (rows \ deleted[r]) \cup RowsOf(r)
    BY DEF Committed
<1>2. CASE Replaces(r, lead)
  <2>1. Stored(lead) \subseteq deleted[r]
    <3>1. r \in Replacing(lead) /\ Leading(r, lead)
        BY <1>1, <1>2, KeyRow DEF Leading, FamilyRows, Replacing
    <3> QED
        BY <3>1 DEF FamilyOf, Replaced
  <2> QED
      BY <1>1, <1>2, <2>1 DEF Stored, FamilyRows
<1>3. CASE ~ Replaces(r, lead)
  <2>1. \A row : row.table \in Family[lead] => (row \in rows' <=> row \in rows)
      BY <1>1, <1>3, ForeignRows DEF Replacing
  <2> QED
      BY <1>3, <2>1 DEF Stored, FamilyRows
<1> QED
    BY <1>2, <1>3

LEMMA FiledIsStored ==
    /\ Filed(rows) = [lead \in DOMAIN Family |-> Stored(lead)]
    /\ Filed(rows)' = [lead \in DOMAIN Family |-> Stored(lead)']
  BY DEF Filed, Stored

\* A step of a request is one of the promise, or none at all.
LEMMA HandlerReplaces ==
    ASSUME ConfigurationInv, LocksInv, EditsOfOne, \A lead \in DOMAIN Family : FamilyOf(lead),
           NEW r \in Puts, StepOf(r), \A q \in Puts : q # r => Same(q)
    PROVE  \/ promise!Accept(r) \/ promise!Refuse(r)
           \/ rows' = rows /\ \A q \in Puts : Outcome(q)' = Outcome(q)
<1>1. \A q \in Puts : q # r => Outcome(q)' = Outcome(q)
    BY DEF Same, Outcome
<1> DEFINE open == [q \in Puts |-> Outcome(q)]
<1>2. ASSUME NEW what, Outcome(r)' = what
      PROVE  open' = [open EXCEPT ![r] = what]
    BY <1>1, <1>2
<1>3. CASE Committed(r)
  <2>1. Outcome(r) = "open" /\ Outcome(r)' = "ok"
      BY <1>3 DEF Committed, Outcome
  <2>2. promise!Answer(r, "ok")
      BY <1>2, <2>1 DEF promise!Answer
  <2>3. Filed(rows)' = [lead \in DOMAIN Family |->
                           IF Replaces(r, lead) THEN FamilyRows(RowsOf(r), lead) ELSE Stored(lead)]
      BY <1>3, CommitReplaces, FiledIsStored
  <2> QED
      BY <2>2, <2>3, FiledIsStored DEF promise!Accept
<1>4. CASE RolledBack(r) \/ (Began(r) /\ pc'[r] = "invalid")
  <2>1. rows' = rows /\ Outcome(r) = "open" /\ Outcome(r)' = "refused"
      BY <1>4 DEF RolledBack, Began, Active, Outcome
  <2>2. promise!Answer(r, "refused")
      BY <1>2, <2>1 DEF promise!Answer
  <2>3. Filed(rows)' = Filed(rows)
      BY <2>1 DEF Filed
  <2> QED
      BY <2>2, <2>3 DEF promise!Refuse
<1>5. CASE (Began(r) /\ pc'[r] = "delete") \/ Looked(r) \/ Removed(r) \/ Inserted(r)
  <2>1. rows' = rows /\ Outcome(r)' = Outcome(r)
      BY <1>5 DEF Began, Looked, Removed, Inserted, Outcome
  <2> QED
      BY <1>1, <2>1
<1>6. Began(r) => pc'[r] = "invalid" \/ pc'[r] = "delete"
    BY DEF Began
<1> QED
    BY <1>3, <1>4, <1>5, <1>6 DEF StepOf

LEMMA StepReplaces ==
    ASSUME EditsOfOne
    PROVE  ConfigurationInv /\ LocksInv /\ FamilyInv /\ [Next]_vars => [promise!DocNext]_promise!docVars
<1> SUFFICES ASSUME ConfigurationInv, LocksInv, FamilyInv, [Next]_vars
             PROVE  [promise!DocNext]_promise!docVars
    OBVIOUS
<1>1. ASSUME rows' = rows, \A q \in Puts : Outcome(q)' = Outcome(q)
      PROVE  UNCHANGED promise!docVars
  <2>1. Filed(rows)' = Filed(rows)
      BY <1>1 DEF Filed
  <2>2. [q \in Puts |-> Outcome(q)]' = [q \in Puts |-> Outcome(q)]
      BY <1>1
  <2> QED
      BY <2>1, <2>2 DEF promise!docVars
<1>2. ASSUME NEW r \in Puts, Handle(r) \/ Die(r) PROVE [promise!DocNext]_promise!docVars
  <2>1. StepOf(r) /\ \A q \in Puts : q # r => Same(q)
      BY <1>2, HandlerSteps
  <2>2. \/ promise!Accept(r) \/ promise!Refuse(r)
        \/ rows' = rows /\ \A q \in Puts : Outcome(q)' = Outcome(q)
      BY <2>1, HandlerReplaces DEF FamilyInv
  <2> QED
      BY <1>1, <2>2 DEF promise!DocNext
<1>3. ASSUME NEW s \in Solves, ReadTeachers(s) \/ ReadActivities(s) PROVE UNCHANGED promise!docVars
    BY <1>1, <1>3, SolverSteps DEF Same, Outcome
<1>4. CASE UNCHANGED vars
    BY <1>1, <1>4 DEF vars, Outcome
<1> QED
    BY <1>2, <1>3, <1>4 DEF Next

LEMMA InitReplaces == Init => promise!DocInit
<1> SUFFICES ASSUME Init PROVE promise!DocInit
    OBVIOUS
<1>1. \A r \in Puts : Outcome(r) = "open"
    BY DEF Init, Outcome
<1>2. Filed(rows) \in {Filed({}), Filed(RowsOf(Seed))}
    BY DEF Init
<1> QED
    BY <1>1, <1>2 DEF promise!DocInit

\* Edits that have an id in common are atomic: each takes effect as a whole, in one
\* step, at its commit, or not at all.
THEOREM EditsAreAtomic ==
    ASSUME EditsOfOne
    PROVE  Spec => ReplacesAsAWhole
<1>1. Init => promise!DocInit
    BY InitReplaces
<1>2. ConfigurationInv /\ LocksInv /\ FamilyInv /\ [Next]_vars => [promise!DocNext]_promise!docVars
    BY StepReplaces
<1> QED
    BY <1>1, <1>2, ConfigurationIsKept, LocksAreKept, FamiliesAreKept, PTL
       DEF Spec, ReplacesAsAWhole, promise!DocSpec
=============================================================================
