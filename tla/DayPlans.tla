------------------------------ MODULE DayPlans ------------------------------
(* The day-plan handlers of api/app.py, api/academic.py and                  *)
(* api/management.py as the thread pool runs them: every request has its own *)
(* database session, reads the plan without locking it, decides on that      *)
(* copy, and writes in a transaction whose UPDATE repeats the version it     *)
(* read (version_id_col).  The database is PostgreSQL at READ COMMITTED: a   *)
(* statement sees what is committed when it starts, a write waits for the    *)
(* row lock of the transaction that wrote the row before, and evaluates its  *)
(* WHERE clause again once it has the lock.                                  *)
EXTENDS Integers

CONSTANTS Plans,      \* the (school, date) pairs that may get a plan
          Requests,   \* the requests that may ever be made, each at most once
          Initial,    \* stands for whatever a client put in a new plan's payload
          Free        \* the value of a row lock nobody holds

ASSUME InitialAssumption == Initial \notin Requests
ASSUME FreeAssumption    == Free \notin Requests

VARIABLES plans,      \* table day_plans, as committed
          runs,       \* table day_plan_runs, as committed
          events,     \* table day_plan_events, as committed
          rowLock,    \* rowLock[p]: the request whose open transaction wrote row p
          pc,         \* pc[r]: how far the handler of request r has come
          call,       \* call[r]: operation and arguments the client sent
          row,        \* row[r]: the copy of the plan in r's session
          reply       \* reply[r]: what the client got back

ledger == INSTANCE PlanLedger WITH plans <- plans, entries <- runs \cup events

db      == <<plans, runs, events>>
vars    == <<plans, runs, events, rowLock, pc, call, row, reply>>
Entries == runs \cup events

NoRow   == ledger!NoRow
NewRow  == ledger!NewRow
PlanRow == ledger!PlanRow

Ops    == {"create", "solve", "solve-academic", "confirm", "reopen"}
Solves == {"solve", "solve-academic"}
PCs    == {"idle", "sent", "decided", "flushed", "committed", "done", "lost"}

\* expected = 0 when the request carries no expected_version; seen is the
\* solution the client was looking at when it took that version.
Call   == [op: Ops, plan: Plans, expected: Nat, seen: ledger!Solution]
NoCall == [op |-> "none"]

\* refused: 409 of a guard; rejected: no usable configuration (409) or a
\* ValueError of the solver (422); stale: 409 because the write lost a race
Codes == {"none", "ok", "missing", "refused", "rejected", "stale"}
Reply == [code: Codes, version: Nat, solution: ledger!Solution]
Answer(code) == [code |-> code, version |-> 0, solution |-> Initial]

TypeOK ==
    /\ plans \in [Plans -> PlanRow]
    /\ runs \subseteq ledger!Entry
    /\ events \subseteq ledger!Entry
    /\ rowLock \in [Plans -> Requests \cup {Free}]
    /\ pc \in [Requests -> PCs]
    /\ call \in [Requests -> Call \cup {NoCall}]
    /\ row \in [Requests -> PlanRow]
    /\ reply \in [Requests -> Reply]

Init ==
    /\ plans \in [Plans -> {NoRow, NewRow}]
    /\ runs = {}
    /\ events = {}
    /\ rowLock = [p \in Plans |-> Free]
    /\ pc = [r \in Requests |-> "idle"]
    /\ call = [r \in Requests |-> NoCall]
    /\ row = [r \in Requests |-> NoRow]
    /\ reply = [r \in Requests |-> Answer("none")]

-----------------------------------------------------------------------------
(* The client.  It sends a version it has read with GET, or none where the   *)
(* request body may leave expected_version out.                              *)
Send(r, op, p) ==
    /\ pc[r] = "idle"
    /\ \/ /\ op \in Solves \cup {"create"}
          /\ call' = [call EXCEPT ![r] =
                        [op |-> op, plan |-> p, expected |-> 0, seen |-> Initial]]
       \/ /\ op # "create"
          /\ plans[p].status # "ABSENT"
          /\ call' = [call EXCEPT ![r] =
                        [op |-> op, plan |-> p, expected |-> plans[p].version,
                         seen |-> plans[p].solution]]
    /\ pc' = [pc EXCEPT ![r] = "sent"]
    /\ UNCHANGED <<plans, runs, events, rowLock, row, reply>>

-----------------------------------------------------------------------------
(* The handlers, up to the point where they start to write.                  *)
Goto(r, label) == pc' = [pc EXCEPT ![r] = label]

Finish(r, answer) ==
    /\ Goto(r, "done")
    /\ reply' = [reply EXCEPT ![r] = answer]

\* create_school_day_plan reads no plan; its INSERT expects none to be there.
BuildPlan(r) ==
    /\ pc[r] = "sent"
    /\ call[r].op = "create"
    /\ row' = [row EXCEPT ![r] = NoRow]
    /\ Goto(r, "decided")
    /\ UNCHANGED <<db, rowLock, call, reply>>

\* (with a bug: an older version passes)
OlderVersionPasses(r, plan) == call[r].expected <= plan.version

\* _validate_expected_version
ExpectedVersionHolds(r, plan) == call[r].expected = plan.version

\* (with a bug: confirmed plans are solved again)
MaySolveConfirmed(r, plan) == call[r].expected # 0 => ExpectedVersionHolds(r, plan)

MaySolve(r, plan) ==
    /\ plan.status # "CONFIRMED"
    /\ call[r].expected # 0 => ExpectedVersionHolds(r, plan)

MayChangeStatus(r, plan, from) ==
    /\ ExpectedVersionHolds(r, plan)
    /\ plan.status = from

Accepts(r, plan) ==
    \/ call[r].op \in Solves  /\ MaySolve(r, plan)
    \/ call[r].op = "confirm" /\ MayChangeStatus(r, plan, "SOLVED")
    \/ call[r].op = "reopen"  /\ MayChangeStatus(r, plan, "CONFIRMED")

\* _require_school_day_plan finds no row: 404
LoadMissing(r) ==
    /\ pc[r] = "sent"
    /\ call[r].op # "create"
    /\ plans[call[r].plan].status = "ABSENT"
    /\ Finish(r, Answer("missing"))
    /\ UNCHANGED <<db, rowLock, call, row>>

LoadRefused(r) ==
    /\ pc[r] = "sent"
    /\ call[r].op # "create"
    /\ plans[call[r].plan].status # "ABSENT"
    /\ ~ Accepts(r, plans[call[r].plan])
    /\ Finish(r, Answer("refused"))
    /\ UNCHANGED <<db, rowLock, call, row>>

LoadAccepted(r) ==
    /\ pc[r] = "sent"
    /\ call[r].op # "create"
    /\ plans[call[r].plan].status # "ABSENT"
    /\ Accepts(r, plans[call[r].plan])
    /\ row' = [row EXCEPT ![r] = plans[call[r].plan]]
    /\ Goto(r, "decided")
    /\ UNCHANGED <<db, rowLock, call, reply>>

\* The solver works on the session's copies, for as long as it takes; it may
\* find no usable configuration or raise ValueError instead of a solution.
SolverFails(r) ==
    /\ pc[r] = "decided"
    /\ call[r].op \in Solves
    /\ Finish(r, Answer("rejected"))
    /\ UNCHANGED <<db, rowLock, call, row>>

-----------------------------------------------------------------------------
(* session.commit(): the flush (UPDATE .. WHERE version = <the version read>  *)
(* and the INSERT of the run or event, which nobody else sees yet), then      *)
(* COMMIT.  A second writer of the row waits in its flush for the lock.       *)
NextVersion(r) == row[r].version + 1

\* uq_day_plan_run_version, uq_day_plan_event_version
VersionTaken(r) ==
    LET table == IF call[r].op \in Solves THEN runs ELSE events
    IN  \E e \in table : e.plan = call[r].plan /\ e.version = NextVersion(r)

\* (with a bug: no version in the WHERE clause)
RowChangeIgnored(r) == FALSE

\* (with a bug: the client's version is compared, given or not)
RowNotAsExpected(r) == plans[call[r].plan].version # call[r].expected

\* The WHERE clause matches no row (or, for create, the unique key is taken).
RowChanged(r) == plans[call[r].plan].version # row[r].version

Conflict(r) == RowChanged(r) \/ VersionTaken(r)

Flush(r) ==
    /\ pc[r] = "decided"
    /\ rowLock[call[r].plan] = Free
    /\ ~ Conflict(r)
    /\ rowLock' = [rowLock EXCEPT ![call[r].plan] = r]
    /\ Goto(r, "flushed")
    /\ UNCHANGED <<db, call, row, reply>>

\* (with a bug: the failed UPDATE is not noticed and answered with 200)
FlushConflictSwallowed(r) ==
    /\ pc[r] = "decided"
    /\ rowLock[call[r].plan] = Free
    /\ Conflict(r)
    /\ Goto(r, "committed")
    /\ UNCHANGED <<db, rowLock, call, row, reply>>

FlushConflict(r) ==
    /\ pc[r] = "decided"
    /\ rowLock[call[r].plan] = Free
    /\ Conflict(r)
    /\ Finish(r, Answer("stale"))
    /\ UNCHANGED <<db, rowLock, call, row>>

NewEntry(r, kind) ==
    {[plan |-> call[r].plan, version |-> NextVersion(r), kind |-> kind, by |-> r]}

Unlock(r) == rowLock' = [rowLock EXCEPT ![call[r].plan] = Free]

CommitCreate(r) ==
    /\ pc[r] = "flushed"
    /\ call[r].op = "create"
    /\ plans' = [plans EXCEPT ![call[r].plan] = NewRow]
    /\ Unlock(r)
    /\ Goto(r, "committed")
    /\ UNCHANGED <<runs, events, call, row, reply>>

\* (with a bug: the status is not set)
CommitSolveKeepingStatus(r) ==
    /\ pc[r] = "flushed"
    /\ call[r].op \in Solves
    /\ plans' = [plans EXCEPT ![call[r].plan] =
                   [status |-> row[r].status, version |-> NextVersion(r), solution |-> r,
                    history |-> IF call[r].op = "solve" THEN r ELSE row[r].history]]
    /\ runs' = runs \cup NewEntry(r, "RUN")
    /\ Unlock(r)
    /\ Goto(r, "committed")
    /\ UNCHANGED <<events, call, row, reply>>

\* (with a bug: the old payload's keys win over the new input's)
CommitSolveOldInputWins(r) ==
    /\ pc[r] = "flushed"
    /\ call[r].op \in Solves
    /\ plans' = [plans EXCEPT ![call[r].plan] =
                   [status |-> "SOLVED", version |-> NextVersion(r), solution |-> r,
                    history |-> row[r].history]]
    /\ runs' = runs \cup NewEntry(r, "RUN")
    /\ Unlock(r)
    /\ Goto(r, "committed")
    /\ UNCHANGED <<events, call, row, reply>>

\* payload = {**plan.payload, **input_payload, "solution": ..}: fairness_history
\* is a key of input_payload for the legacy engine only.
CommitSolve(r) ==
    /\ pc[r] = "flushed"
    /\ call[r].op \in Solves
    /\ plans' = [plans EXCEPT ![call[r].plan] =
                   [status |-> "SOLVED", version |-> NextVersion(r), solution |-> r,
                    history |-> IF call[r].op = "solve" THEN r ELSE row[r].history]]
    /\ runs' = runs \cup NewEntry(r, "RUN")
    /\ Unlock(r)
    /\ Goto(r, "committed")
    /\ UNCHANGED <<events, call, row, reply>>

\* _change_plan_status writes the two columns it assigned and one event.
CommitStatus(r, op, to, kind) ==
    /\ pc[r] = "flushed"
    /\ call[r].op = op
    /\ plans' = [plans EXCEPT ![call[r].plan] =
                   [plans[call[r].plan] EXCEPT !.status = to, !.version = NextVersion(r)]]
    /\ events' = events \cup NewEntry(r, kind)
    /\ Unlock(r)
    /\ Goto(r, "committed")
    /\ UNCHANGED <<runs, call, row, reply>>

CommitConfirm(r) == CommitStatus(r, "confirm", "CONFIRMED", "CONFIRMED")
CommitReopen(r)  == CommitStatus(r, "reopen", "SOLVED", "REOPENED")

\* session.refresh(plan) is a new SELECT: the answer may already show a later
\* request's version.
Refresh(r) ==
    /\ pc[r] = "committed"
    /\ LET plan == plans[call[r].plan]
       IN  Finish(r, [code |-> "ok", version |-> plan.version, solution |-> plan.solution])
    /\ UNCHANGED <<db, rowLock, call, row>>

\* The process or the connection dies: PostgreSQL rolls an open transaction
\* back and releases its locks; the client gets no answer.
InFlight(r) == pc[r] \in {"sent", "decided", "flushed", "committed"}

\* (with a bug: the connection is kept, its transaction left open)
DieHoldingLock(r) ==
    /\ InFlight(r)
    /\ Goto(r, "lost")
    /\ row' = [row EXCEPT ![r] = NoRow]
    /\ UNCHANGED <<db, rowLock, call, reply>>

Die(r) ==
    /\ InFlight(r)
    /\ Goto(r, "lost")
    /\ rowLock' = [p \in Plans |-> IF rowLock[p] = r THEN Free ELSE rowLock[p]]
    /\ row' = [row EXCEPT ![r] = NoRow]
    /\ UNCHANGED <<db, call, reply>>

-----------------------------------------------------------------------------
Handle(r) ==
    \/ BuildPlan(r)
    \/ LoadMissing(r) \/ LoadRefused(r) \/ LoadAccepted(r)
    \/ SolverFails(r)
    \/ Flush(r) \/ FlushConflict(r)
    \/ CommitCreate(r) \/ CommitSolve(r) \/ CommitConfirm(r) \/ CommitReopen(r)
    \/ Refresh(r)

Next ==
    \E r \in Requests :
        \/ \E op \in Ops, p \in Plans : Send(r, op, p)
        \/ Handle(r)
        \/ Die(r)

Spec == Init /\ [][Next]_vars

\* A worker thread runs its handler to the end: no step of a handler waits for
\* anything but a row lock, and the solver has a time limit.
FairSpec == Spec /\ \A r \in Requests : WF_vars(Handle(r))

-----------------------------------------------------------------------------
EntriesOf(p) == {e \in Entries : e.plan = p}

\* s is what plan p showed at version v: the result of its latest run so far.
RunsUpTo(p, v)  == {e \in runs : e.plan = p /\ e.version <= v}
ShownAt(p, v, s) ==
    \/ RunsUpTo(p, v) = {} /\ s = Initial
    \/ \E e \in RunsUpTo(p, v) :
          e.by = s /\ \A f \in RunsUpTo(p, v) : f.version <= e.version

\* The ledger has no gap and no double entry: the two tables together hold
\* exactly one row for each version a plan has reached after its first, though
\* each table's unique constraint knows only its own versions.
LedgerComplete ==
    \A p \in Plans :
        /\ \A e \in EntriesOf(p) : e.version \in 2 .. plans[p].version
        /\ \A v \in 2 .. plans[p].version : \E e \in EntriesOf(p) : e.version = v
        /\ \A e, f \in EntriesOf(p) : e.version = f.version => e = f

\* The plan row agrees with its ledger: its status is the one its last entry
\* left it in, and its solution is that of its latest run.
PlanMatchesLedger ==
    \A p \in Plans :
        /\ ShownAt(p, plans[p].version, plans[p].solution)
        /\ \A e \in EntriesOf(p) :
              e.version = plans[p].version =>
                 plans[p].status = IF e.kind = "CONFIRMED" THEN "CONFIRMED" ELSE "SOLVED"

\* The fairness_history in the payload is that of the latest run of the legacy
\* engine, which need not be the run whose solution stands next to it.
HistoryOfLastLegacyRun ==
    \A p \in Plans :
        LET legacy == {e \in runs : e.plan = p /\ call[e.by].op = "solve"}
        IN  \/ legacy = {} /\ plans[p].history = Initial
            \/ \E e \in legacy : /\ plans[p].history = e.by
                                 /\ \A f \in legacy : f.version <= e.version

\* A request that carries a version changes exactly the state its client was
\* looking at: nothing slips in between the review and the write, so a
\* confirmation confirms the solution that was reviewed.
WrittenOnWhatWasReviewed ==
    \A e \in Entries :
        call[e.by].expected # 0 =>
            /\ e.version = call[e.by].expected + 1
            /\ ShownAt(e.plan, call[e.by].expected, call[e.by].seen)

\* The answers are honest: a 200 was recorded, once, and shows a state the plan
\* really was in at or after the request's own version; any error left no trace.
AnswersMatchLedger ==
    \A r \in Requests :
        LET mine == {e \in Entries : e.by = r}
        IN  /\ \A e, f \in mine : e = f
            /\ reply[r].code \notin {"none", "ok"} => mine = {}
            /\ reply[r].code = "ok" =>
                  /\ ShownAt(call[r].plan, reply[r].version, reply[r].solution)
                  /\ call[r].op # "create" => \E e \in mine : e.version <= reply[r].version

\* A 409 of the database is never spurious: another request took the version
\* this one was about to write (of two racing writers one always wins).
StaleMeansOvertaken ==
    \A r \in Requests :
        reply[r].code = "stale" =>
            IF call[r].op = "create"
            THEN plans[call[r].plan].status # "ABSENT"
            ELSE \E e \in EntriesOf(call[r].plan) : e.version = NextVersion(r) /\ e.by # r

\* While a plan is confirmed nothing about it changes but by a recorded reopening,
\* which keeps its solution: a solve that started before the confirmation and
\* ends after it cannot replace what was confirmed.
ConfirmedIsFrozen ==
    [][\A p \in Plans :
          plans[p].status = "CONFIRMED" /\ plans'[p] # plans[p] =>
             /\ plans'[p] = [plans[p] EXCEPT !.status = "SOLVED", !.version = @ + 1]
             /\ \E e \in events' \ events : e.plan = p /\ e.kind = "REOPENED"]_vars

\* The concurrent handlers implement the ledger: every request takes effect in
\* one indivisible step, at its commit, on the state it checked.
ImplementsLedger == ledger!LedgerSpec

\* No request hangs: not on the row lock of another, not on one that died.
EveryRequestEnds == \A r \in Requests : InFlight(r) ~> pc[r] \in {"done", "lost"}
=============================================================================
