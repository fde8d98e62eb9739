---------------------------- MODULE Configuration ----------------------------
(* Replacing what a school has sent before: put_academic_configuration and   *)
(* put_school_configuration replace its timetable,                           *)
(* put_operations_configuration its duties and put_roster its students, next *)
(* to each other and next to a solver that reads the tables.  A replacement  *)
(* is one transaction: a DELETE for each table, then the INSERTs.            *)
(* PostgreSQL at READ COMMITTED gives every statement a snapshot of its own: *)
(* a DELETE that waits for another replacement's row locks still works on    *)
(* the rows it saw when it started, and the DELETE after it sees what that   *)
(* replacement has committed.                                                *)
EXTENDS Integers, Sequences

CONSTANTS Puts,       \* the replacement requests, each made at most once
          Solves,     \* the solve requests that read the configuration
          Mixes,      \* sets of requests: those of one of them are made
          Seed,       \* the writer of a configuration that is there from the start
          Kind,       \* Kind[r]: the handler of r, "academic", "legacy", "operations" or "roster"
          Payload,    \* Payload[w][table]: the items writer w sends for a table, numbered
          Days        \* the weekdays

ASSUME RequestsAssumption == Seed \notin Puts /\ Puts \cap Solves = {}

Timetables == {r \in Puts : Kind[r] \in {"academic", "legacy"}}

Tables == {"activities", "subjects", "teachers", "slots", "groups",
           "shifts", "duties", "students", "supports"}
Writers == Puts \cup {Seed}

\* Each handler takes the tables it replaces and no others; a student names groups.
ASSUME PayloadAssumption ==
    \A r \in Puts :
        /\ Kind[r] \in {"academic", "legacy", "operations", "roster"}
        /\ \A t \in Tables : Payload[r][t] # {} =>
              /\ Kind[r] = "academic"   => t \in {"activities", "subjects", "teachers", "slots", "groups"}
              /\ Kind[r] = "legacy"     => t \in {"activities", "teachers", "slots", "groups"}
              /\ Kind[r] = "operations" => t \in {"shifts", "duties"}
              /\ Kind[r] = "roster"     => t \in {"students", "supports"}
        /\ Kind[r] = "roster" =>
              \A item \in Payload[r]["students"] : \A ref \in item.refs : ref[1] = "groups"

\* A support is sent as part of its student.
ASSUME SupportAssumption ==
    \A w \in Writers : \A item \in Payload[w]["supports"] :
        \E student \in Payload[w]["students"] : <<"students", student.id>> \in item.refs

\* An item has its number in the payload, an id, what it refers to as <<table, id>>,
\* and for an activity the days it is held on (all of them where weekday is None).
Row(w, t, item) == [table |-> t, nr |-> item.nr, id |-> item.id, refs |-> item.refs,
                    days |-> item.days, by |-> w]
RowsIn(w, t) == {Row(w, t, item) : item \in Payload[w][t]}
Submitted    == [w \in Writers |-> UNION {RowsIn(w, t) : t \in Tables}]
RowsOf(w)    == Submitted[w]
Key(row)     == <<row.table, row.id>>

VARIABLES rows,      \* the committed rows of the configuration tables
          pc,        \* pc[r]: how far request r has come
          step,      \* step[r]: how many DELETEs of r have ended
          snap,      \* snap[r]: the rows the running DELETE of r saw when it started
          deleted,   \* deleted[r]: the rows r's open transaction has deleted
          inserted,  \* inserted[r]: the rows it has inserted
          got,       \* got[s]: what solve request s has read so far
          commits,   \* history: how many timetables have been committed
          checked    \* history: checked[r]: how many had been when r was validated

vars    == <<rows, pc, step, snap, deleted, inserted, got, commits, checked>>
putVars == <<step, snap, deleted, inserted>>
history == <<commits, checked>>

AcademicDeletes == <<"activities", "subjects", "teachers", "slots", "groups">>

\* (with a bug: the legacy handler starts with the teachers)
LegacyDeletesTeachersFirst == <<"teachers", "activities", "slots", "groups">>

\* The legacy handler does not know the subjects.
LegacyDeletes == <<"activities", "teachers", "slots", "groups">>

OperationsDeletes == <<"shifts", "duties">>

\* Deleting students, the database deletes the supports of theirs that there
\* still are (ON DELETE CASCADE).
RosterDeletes == <<"supports", "students", "cascade">>

Deletes(r) ==
    CASE Kind[r] = "academic"   -> AcademicDeletes
      [] Kind[r] = "legacy"     -> LegacyDeletes
      [] Kind[r] = "operations" -> OperationsDeletes
      [] Kind[r] = "roster"     -> RosterDeletes

AllRows == UNION {RowsOf(w) : w \in Writers}
NothingRead == [teachers |-> {}, activities |-> {}, first |-> 0, last |-> 0]

TypeOK ==
    /\ rows \subseteq AllRows
    /\ pc \in [Puts \cup Solves -> {"idle", "delete", "deleting", "insert", "teachers",
                                    "unsent", "incomplete", "ok", "invalid", "conflict",
                                    "failed", "lost"}]
    /\ step \in [Puts -> 0 .. 5]
    /\ snap \in [Puts -> SUBSET AllRows]
    /\ deleted \in [Puts -> SUBSET AllRows]
    /\ inserted \in [Puts -> SUBSET AllRows]
    /\ got \in [Solves -> [teachers: SUBSET AllRows, activities: SUBSET AllRows,
                           first: Nat, last: Nat]]
    /\ commits \in Nat
    /\ checked \in [Puts -> Nat]

Init ==
    /\ rows \in {{}, RowsOf(Seed)}
    /\ \E mix \in Mixes :
          pc = [r \in Puts \cup Solves |-> IF r \in mix THEN "idle" ELSE "unsent"]
    /\ step = [r \in Puts |-> 0]
    /\ snap = [r \in Puts |-> {}]
    /\ deleted = [r \in Puts |-> {}]
    /\ inserted = [r \in Puts |-> {}]
    /\ got = [s \in Solves |-> NothingRead]
    /\ commits = 0
    /\ checked = [r \in Puts |-> 0]

Goto(r, label) == pc' = [pc EXCEPT ![r] = label]

-----------------------------------------------------------------------------
(* _validate_configuration and _validate_roster                              *)

IdsUnique(w) == \A t \in Tables : \A i, j \in Payload[w][t] : i.id = j.id => i = j

\* Two lessons of one teacher in one slot of one day.
Overlap(a, b) ==
    /\ a # b
    /\ a.days \cap b.days # {}
    /\ \A t \in {"teachers", "slots"} : \E ref \in a.refs \cap b.refs : ref[1] = t

DoubleBooking(some) ==
    \E a, b \in {row \in some : row.table = "activities"} : Overlap(a, b)

\* What a row may refer to: of a timetable, rows sent with it; of duties and
\* students, also the teachers and groups that are in the tables at the moment.
KnownTeachers == {row \in rows : row.table = "teachers"}
KnownGroups   == {row \in rows : row.table = "groups"}

Known(r) ==
    CASE Kind[r] = "operations" -> KnownTeachers
      [] Kind[r] = "roster"     -> KnownGroups \cup RowsIn(r, "students")
      [] OTHER                  -> RowsOf(r)

Resolves(some, known) == \A row \in some : \A ref \in row.refs : \E o \in known : Key(o) = ref

\* A timetable that is there from the start has been validated before.
ASSUME SeedAssumption ==
    \A t \in {"activities", "subjects", "teachers", "slots", "groups"} :
        Resolves(RowsIn(Seed, t), RowsOf(Seed))

\* (with a bug: no look at the references)
ReferencesIgnored(r) == IdsUnique(r) /\ (Kind[r] = "academic" => ~ DoubleBooking(RowsOf(r)))

\* Only the academic handler looks for overlaps.
Validates(r) ==
    /\ IdsUnique(r)
    /\ Resolves(RowsOf(r), Known(r))
    /\ Kind[r] = "academic" => ~ DoubleBooking(RowsOf(r))

PutInvalid(r) ==
    /\ pc[r] = "idle"
    /\ ~ Validates(r)
    /\ Goto(r, "invalid")
    /\ UNCHANGED <<rows, putVars, got, history>>

PutValid(r) ==
    /\ pc[r] = "idle"
    /\ Validates(r)
    /\ Goto(r, "delete")
    /\ checked' = [checked EXCEPT ![r] = commits]
    /\ UNCHANGED <<rows, putVars, got, commits>>

-----------------------------------------------------------------------------
(* The transaction                                                           *)

\* The flush takes the classes by their names and the objects of a class in the
\* order of the payload.  (A support has the key of its own student, which nobody
\* else knows, so it does not matter that it comes before the next student.)
FlushOrder == [activities |-> 1, groups |-> 2, subjects |-> 3, teachers |-> 4, slots |-> 5,
               shifts |-> 1, duties |-> 2, students |-> 1, supports |-> 2]

Before(o, row) ==
    \/ FlushOrder[o.table] < FlushOrder[row.table]
    \/ o.table = row.table /\ o.nr < row.nr

\* The row whose INSERT is next, or runs and waits.
Upcoming(r) ==
    LET left == RowsOf(r) \ inserted[r]
    IN  {row \in left : \A o \in left : ~ Before(o, row)}

\* A row is locked by the transaction that deleted it, a unique key by the one
\* that inserted or deleted it, also while that one waits for its next key.
WaitsFor(r, q) ==
    /\ r # q
    /\ \/ pc[r] = "deleting" /\ snap[r] \cap deleted[q] # {}
       \/ /\ pc[r] = "insert"
          /\ \E o \in inserted[q] \cup deleted[q] : \E row \in Upcoming(r) : Key(o) = Key(row)

Waits(r) == \E q \in Puts : WaitsFor(r, q)

\* Following the waits from r leads back to r.
WaitsForItself(r) ==
    /\ Waits(r)
    /\ \A reached \in SUBSET {q \in Puts : Waits(q)} :
          (\A p \in reached \cup {r}, q \in Puts : WaitsFor(p, q) /\ Waits(q) => q \in reached)
              => r \in reached

\* Belongs(o, some): the row o is of one of the students among some.
Belongs(o, some) == /\ o.table = "supports"
                    /\ \E row \in some : /\ row.table = "students" /\ row.by = o.by
                                         /\ Key(row) \in o.refs

\* (with a bug: the supports of the students stay)
SeenWithoutCascade(r) == {row \in rows : row.table = Deletes(r)[step[r] + 1]}

\* The rows that the next DELETE of r finds.
Seen(r) == LET table == Deletes(r)[step[r] + 1]
           IN  {row \in rows : IF table = "cascade" THEN Belongs(row, deleted[r])
                                                   ELSE row.table = table}

\* The statement starts: this is the last time it looks for rows.
StartDelete(r) ==
    /\ pc[r] = "delete"
    /\ snap' = [snap EXCEPT ![r] = Seen(r)]
    /\ Goto(r, "deleting")
    /\ UNCHANGED <<rows, step, deleted, inserted, got, history>>

\* Once no other transaction holds a row of it, those still there are deleted.
EndDelete(r) ==
    /\ pc[r] = "deleting"
    /\ ~ Waits(r)
    /\ deleted' = [deleted EXCEPT ![r] = @ \cup (snap[r] \cap rows)]
    /\ snap' = [snap EXCEPT ![r] = {}]
    /\ step' = [step EXCEPT ![r] = @ + 1]
    /\ Goto(r, IF step[r] + 1 = Len(Deletes(r)) THEN "insert" ELSE "delete")
    /\ UNCHANGED <<rows, inserted, got, history>>

InsertCollides(r) ==
    \E o \in rows \ deleted[r] : \E row \in Upcoming(r) : Key(o) = Key(row)

InsertRow(r) ==
    /\ pc[r] = "insert"
    /\ ~ Waits(r)
    /\ ~ InsertCollides(r)
    /\ \E row \in Upcoming(r) : inserted' = [inserted EXCEPT ![r] = @ \cup {row}]
    /\ UNCHANGED <<rows, pc, step, snap, deleted, got, history>>

\* Every end of a transaction gives its locks back.
EndTransaction(r, label) ==
    /\ Goto(r, label)
    /\ deleted' = [deleted EXCEPT ![r] = {}]
    /\ inserted' = [inserted EXCEPT ![r] = {}]
    /\ snap' = [snap EXCEPT ![r] = {}]

\* IntegrityError: rolled back and 409; put_roster flushes outside its try, so 500
InsertConflict(r) ==
    /\ pc[r] = "insert"
    /\ ~ Waits(r)
    /\ InsertCollides(r)
    /\ EndTransaction(r, IF Kind[r] = "roster" THEN "failed" ELSE "conflict")
    /\ UNCHANGED <<rows, step, got, history>>

Commit(r) ==
    /\ pc[r] = "insert" /\ inserted[r] = RowsOf(r)
    /\ rows' = (rows \ deleted[r]) \cup inserted[r]
    /\ commits' = IF r \in Timetables THEN commits + 1 ELSE commits
    /\ EndTransaction(r, "ok")
    /\ UNCHANGED <<step, got, checked>>

\* (with a bug: a dead connection keeps its locks)
DieHoldingLocks(r) ==
    /\ pc[r] \in {"delete", "deleting", "insert"}
    /\ Goto(r, "lost")
    /\ UNCHANGED <<rows, putVars, got, history>>

\* A crash or a broken connection.
Die(r) ==
    /\ pc[r] \in {"delete", "deleting", "insert"}
    /\ EndTransaction(r, "lost")
    /\ UNCHANGED <<rows, step, got, history>>

\* PostgreSQL ends a wait that has become a circle: deadlock_detected is an
\* OperationalError, which nothing catches, so the client gets a 500.
DeadlockVictim(r) ==
    /\ WaitsForItself(r)
    /\ EndTransaction(r, "failed")
    /\ UNCHANGED <<rows, step, got, history>>

-----------------------------------------------------------------------------
(* _load_solver_inputs and _solver_inputs: two SELECTs, two snapshots        *)

ReadTeachers(s) ==
    /\ pc[s] = "idle"
    /\ got' = [got EXCEPT ![s].teachers = {row \in rows : row.table = "teachers"},
                          ![s].first = commits]
    /\ Goto(s, "teachers")
    /\ UNCHANGED <<rows, putVars, history>>

ReadActivities(s) ==
    /\ pc[s] = "teachers"
    /\ \E day \in Days :
          got' = [got EXCEPT ![s].activities =
                                {row \in rows : row.table = "activities" /\ day \in row.days},
                             ![s].last = commits]
    /\ Goto(s, IF {} \in {got[s].teachers, got'[s].activities} THEN "incomplete" ELSE "ok")
    /\ UNCHANGED <<rows, putVars, history>>

-----------------------------------------------------------------------------
Handle(r) ==
    \/ PutInvalid(r) \/ PutValid(r)
    \/ StartDelete(r) \/ EndDelete(r)
    \/ InsertRow(r) \/ InsertConflict(r)
    \/ Commit(r) \/ DeadlockVictim(r)

Next ==
    \/ \E r \in Puts : Handle(r) \/ Die(r)
    \/ \E s \in Solves : ReadTeachers(s) \/ ReadActivities(s)

Spec == Init /\ [][Next]_vars

\* A handler waits for nothing but the locks of other transactions, and
\* PostgreSQL looks for deadlocks after deadlock_timeout: as long as some
\* request can go on, one does.
FairSpec == Spec /\ WF_vars(\E r \in Puts : Handle(r))

-----------------------------------------------------------------------------
\* The tables that a handler of a kind replaces in full, by one of them.
Family == [activities |-> {"activities", "teachers", "slots", "groups"},
           shifts     |-> {"shifts", "duties"},
           students   |-> {"students", "supports"}]

FamilyRows(some, lead) == {row \in some : row.table \in Family[lead]}

\* Who replaces such a family of tables.
Replaces(r, lead) == \E i \in DOMAIN Deletes(r) : Deletes(r)[i] = lead

IdsIn(r, lead)  == {item.id : item \in Payload[r][lead]}
CommonIds(lead) ==
    {id \in UNION {IdsIn(r, lead) : r \in Puts} :
        \A r \in Puts : Replaces(r, lead) => id \in IdsIn(r, lead)}

\* The requests that replace one family send an id in common, an activity, a shift
\* or a student: they are edits of one timetable, one set of duties, one roster.
EditsOfOne ==
    \A lead \in DOMAIN Family :
        (\E r \in Puts : Replaces(r, lead)) => CommonIds(lead) # {}

\* Racing edits never mix: the tables hold exactly what one of them sent.
OneConfiguration ==
    EditsOfOne =>
        \A lead \in DOMAIN Family :
            \/ FamilyRows(rows, lead) = {}
            \/ \E w \in Writers : FamilyRows(rows, lead) = FamilyRows(RowsOf(w), lead)

\* What was sent under a name is stored as a whole or not at all.
Filed(some) == [lead \in DOMAIN Family |-> FamilyRows(some, lead)]

Outcome(r) ==
    CASE pc[r] = "ok" -> "ok"
      [] pc[r] \in {"invalid", "conflict", "failed", "lost"} -> "refused"
      [] OTHER -> "open"

promise == INSTANCE Documents WITH
    Requests  <- Puts,
    Names     <- DOMAIN Family,
    Sent      <- [r \in Puts |-> [lead \in {n \in DOMAIN Family : Replaces(r, n)} |->
                                    FamilyRows(RowsOf(r), lead)]],
    Starts    <- {Filed({}), Filed(RowsOf(Seed))},
    documents <- Filed(rows),
    outcome   <- [r \in Puts |-> Outcome(r)]

\* Edits of one configuration are atomic: each request answered 200 replaces its
\* documents as a whole, at its commit, and all others change nothing.
ReplacesAsAWhole == promise!DocSpec

\* No foreign key ties duties and students to teachers and groups.  They refer
\* to one that is not there only if a timetable was committed after they had
\* been checked.
DanglingOnlyAfterReplacement ==
    \A r \in Puts \ Timetables :
        checked[r] = commits => Resolves({row \in rows : row.by = r}, rows)

\* A teacher has no two lessons at the same time, so the solver does not refuse
\* the school's timetable or lose one of the two.
NoTeacherDoubleBooked == ~ DoubleBooking(rows)

\* A solver that saw no replacement between its two SELECTs has a teacher for
\* every activity it read; only an overlapping edit can tear its input.
TornOnlyByOverlap ==
    EditsOfOne =>
        \A s \in Solves :
            pc[s] = "ok" /\ got[s].first = got[s].last =>
                \A a \in got[s].activities : \A ref \in a.refs :
                    ref[1] = "teachers" => \E t \in got[s].teachers : Key(t) = ref

\* Replacements that wait for each other all end, also where they wait in a
\* circle: time and again none is under way.
EveryPutEnds ==
    []<>(\A r \in Puts : pc[r] \notin {"delete", "deleting", "insert"})

\* Both handlers delete in a compatible order.  As long as no timetable has been
\* committed, their DELETEs never wait in a circle and edits of a stored timetable
\* take turns; only imports into a school without activities can deadlock, on
\* what they insert.
OnlyFirstImportsDeadlock ==
    \A r \in Timetables : WaitsForItself(r) =>
        \/ commits > 0
        \/ pc[r] = "insert" /\ \A row \in rows : row.table # "activities"
=============================================================================
