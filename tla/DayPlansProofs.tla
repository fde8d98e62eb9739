--------------------------- MODULE DayPlansProofs ---------------------------
(* The day-plan protocol proved for any number of plans and requests.        *)
EXTENDS DayPlans, TLAPS

\* A request that has been sent has a call.
CallMade == \A r \in Requests : pc[r] # "idle" => call[r] \in Call

TypeInv == TypeOK /\ CallMade

\* What a handler knows about the plan between its read and its commit: its
\* copy is not newer than the row, is the row if the versions agree, and
\* passed the guards.  Once flushed the versions do agree, by the lock.
HoldsCopy(r) == pc[r] \in {"decided", "flushed"}

CopyOK(r) ==
    LET p == call[r].plan
    IN  /\ row[r].version <= plans[p].version
        /\ row[r].version = plans[p].version => row[r] = plans[p]
        /\ call[r].op = "create" => row[r] = NoRow
        /\ call[r].op # "create" => row[r].status # "ABSENT" /\ Accepts(r, row[r])

FlushedOK(r) ==
    /\ rowLock[call[r].plan] = r
    /\ row[r] = plans[call[r].plan]

CopyInv ==
    \A r \in Requests :
        /\ HoldsCopy(r) => CopyOK(r)
        /\ pc[r] = "flushed" => FlushedOK(r)

\* Version 0 is the missing row, version 1 the new one.
RowsInv ==
    \A p \in Plans :
        /\ plans[p].status = "ABSENT" <=> plans[p].version = 0
        /\ plans[p].version = 0 => plans[p] = NoRow

\* Only a request past its commit has an entry.
EntriesInv == \A e \in Entries : pc[e.by] \in {"committed", "done", "lost"}

IInv == TypeInv /\ CopyInv /\ RowsInv /\ EntriesInv /\ LedgerComplete

-----------------------------------------------------------------------------
(* Types                                                                      *)

\* The rows the handlers write, and the answers they give, are well formed.
LEMMA RowTypes ==
    /\ NoRow \in PlanRow
    /\ NewRow \in PlanRow
    /\ \A code \in Codes : Answer(code) \in Reply
  BY DEF NoRow, NewRow, PlanRow, ledger!NoRow, ledger!NewRow, ledger!PlanRow,
         ledger!Statuses, ledger!Solution, Answer, Reply, Codes

LEMMA InitTypeInv == Init => TypeInv
  <1> SUFFICES ASSUME Init PROVE TypeInv
    OBVIOUS
  <1>1. /\ plans \in [Plans -> PlanRow]
        /\ row \in [Requests -> PlanRow]
        /\ reply \in [Requests -> Reply]
    BY RowTypes DEF Init, Codes
  <1>2. QED
    BY <1>1 DEF Init, TypeInv, TypeOK, CallMade, PCs, Entries

\* Sending, reading and answering keep the types.
LEMMA BeforeWriteTypes ==
    ASSUME TypeInv, NEW r \in Requests,
           \/ \E op \in Ops, p \in Plans : Send(r, op, p)
           \/ BuildPlan(r) \/ LoadMissing(r) \/ LoadRefused(r) \/ LoadAccepted(r)
           \/ SolverFails(r) \/ Flush(r) \/ FlushConflict(r) \/ Refresh(r) \/ Die(r)
    PROVE  TypeInv'
  <1> USE DEF TypeInv, TypeOK, CallMade, PCs, db
  <1>1. ASSUME NEW op \in Ops, NEW p \in Plans, Send(r, op, p) PROVE TypeInv'
    <2>1. plans[p].version \in Nat /\ plans[p].solution \in ledger!Solution
      BY DEF PlanRow, ledger!PlanRow
    <2>2. call'[r] \in Call /\ call' \in [Requests -> Call \cup {NoCall}]
      BY <1>1, <2>1 DEF Send, Call, ledger!Solution
    <2>3. pc' \in [Requests -> PCs]
      BY <1>1 DEF Send
    <2>4. \A q \in Requests \ {r} : call'[q] = call[q] /\ pc'[q] = pc[q]
      BY <1>1 DEF Send
    <2>5. QED
      BY <1>1, <2>2, <2>3, <2>4 DEF Send
  <1>2. CASE BuildPlan(r)
    BY <1>2, RowTypes DEF BuildPlan, Goto
  <1>3. CASE LoadMissing(r) \/ LoadRefused(r) \/ SolverFails(r) \/ FlushConflict(r)
    <2>1. PICK code \in Codes : Finish(r, Answer(code))
      BY <1>3 DEF LoadMissing, LoadRefused, SolverFails, FlushConflict, Codes
    <2>2. pc[r] # "idle"
      BY <1>3 DEF LoadMissing, LoadRefused, SolverFails, FlushConflict
    <2>3. UNCHANGED <<plans, runs, events, rowLock, call, row>>
      BY <1>3 DEF LoadMissing, LoadRefused, SolverFails, FlushConflict
    <2>4. QED
      BY <2>1, <2>2, <2>3, RowTypes DEF Finish, Goto
  <1>4. CASE LoadAccepted(r)
    <2>1. call[r] \in Call /\ plans[call[r].plan] \in PlanRow
      BY <1>4 DEF LoadAccepted, Call
    <2>2. QED
      BY <1>4, <2>1 DEF LoadAccepted, Goto
  <1>5. CASE Flush(r)
    BY <1>5 DEF Flush, Goto
  <1>6. CASE Refresh(r)
    <2>1. call[r] \in Call /\ plans[call[r].plan] \in PlanRow
      BY <1>6 DEF Refresh, Call
    <2> DEFINE answer == [code |-> "ok", version |-> plans[call[r].plan].version,
                          solution |-> plans[call[r].plan].solution]
    <2>2. answer \in Reply
      BY <2>1 DEF Reply, Codes, PlanRow, ledger!PlanRow
    <2>3. Finish(r, answer)
      BY <1>6 DEF Refresh
    <2>4. QED
      BY <1>6, <2>2, <2>3 DEF Refresh, Finish, Goto
  <1>7. CASE Die(r)
    BY <1>7, RowTypes DEF Die, Goto, InFlight
  <1>8. QED
    BY <1>1, <1>2, <1>3, <1>4, <1>5, <1>6, <1>7

Commit(r) == CommitCreate(r) \/ CommitSolve(r) \/ CommitConfirm(r) \/ CommitReopen(r)

\* The committing steps keep the types.
LEMMA CommitTypes ==
    ASSUME TypeInv, NEW r \in Requests, Commit(r)
    PROVE  TypeInv'
  <1> DEFINE p == call[r].plan
  <1> USE DEF TypeInv, TypeOK, CallMade, PCs, db
  <1>0. /\ pc[r] = "flushed"
        /\ call[r] \in Call
        /\ p \in Plans
        /\ NextVersion(r) \in Nat
        /\ row[r].history \in ledger!Solution
        /\ r \in ledger!Solution
    BY DEF Commit, CommitCreate, CommitSolve, CommitConfirm, CommitReopen, CommitStatus,
           Call, NextVersion, PlanRow, ledger!PlanRow, ledger!Solution
  <1>1. \A kind \in ledger!Kinds : NewEntry(r, kind) \subseteq ledger!Entry
    BY <1>0 DEF NewEntry, ledger!Entry
  <1>2. CASE CommitCreate(r)
    BY <1>0, <1>2, RowTypes DEF CommitCreate, Unlock, Goto
  <1>3. CASE CommitSolve(r)
    <2>1. plans' \in [Plans -> PlanRow]
      BY <1>0, <1>3 DEF CommitSolve, PlanRow, ledger!PlanRow, ledger!Statuses
    <2>2. runs' \subseteq ledger!Entry
      BY <1>1, <1>3 DEF CommitSolve, ledger!Kinds
    <2>3. QED
      BY <1>0, <1>3, <2>1, <2>2 DEF CommitSolve, Unlock, Goto
  <1>4. ASSUME NEW op, NEW to \in ledger!Statuses, NEW kind \in ledger!Kinds,
               CommitStatus(r, op, to, kind)
        PROVE  TypeInv'
    <2>1. plans' \in [Plans -> PlanRow]
      BY <1>0, <1>4 DEF CommitStatus, PlanRow, ledger!PlanRow
    <2>2. events' \subseteq ledger!Entry
      BY <1>1, <1>4 DEF CommitStatus
    <2>3. QED
      BY <1>0, <1>4, <2>1, <2>2 DEF CommitStatus, Unlock, Goto
  <1>5. QED
    BY <1>2, <1>3, <1>4 DEF Commit, CommitConfirm, CommitReopen, ledger!Statuses, ledger!Kinds

LEMMA NextTypeInv == TypeInv /\ [Next]_vars => TypeInv'
  <1> SUFFICES ASSUME TypeInv, [Next]_vars PROVE TypeInv'
    OBVIOUS
  <1>1. CASE UNCHANGED vars
    BY <1>1 DEF vars, TypeInv, TypeOK, CallMade
  <1>2. CASE Next
    BY <1>2, BeforeWriteTypes, CommitTypes DEF Next, Handle, Commit
  <1>3. QED
    BY <1>1, <1>2

\* Every variable of the protocol keeps its type.
THEOREM TypeCorrect == Spec => []TypeOK
  <1>1. Init => TypeInv
    BY InitTypeInv
  <1>2. TypeInv /\ [Next]_vars => TypeInv'
    BY NextTypeInv
  <1>3. TypeInv => TypeOK
    BY DEF TypeInv
  <1>4. QED
    BY <1>1, <1>2, <1>3, PTL DEF Spec

-----------------------------------------------------------------------------
(* The inductive invariant                                                    *)

\* What a commit does, in terms of the plan as it stands: the version the
\* handler computed from its copy is the successor of the current one.
LEMMA CommitEffect ==
    ASSUME IInv, NEW r \in Requests, Commit(r)
    PROVE  LET p == call[r].plan
           IN  /\ p \in Plans
               /\ call[r] \in Call
               /\ pc[r] = "flushed" /\ pc' = [pc EXCEPT ![r] = "committed"]
               /\ rowLock[p] = r /\ rowLock' = [rowLock EXCEPT ![p] = Free]
               /\ row[r] = plans[p]
               /\ UNCHANGED <<call, row>>
               /\ plans' \in [Plans -> PlanRow]
               /\ \A q \in Plans \ {p} : plans'[q] = plans[q]
               /\ plans'[p].version = plans[p].version + 1
               /\ plans'[p].status # "ABSENT"
               /\ \/ call[r].op = "create" /\ plans[p].version = 0 /\ Entries' = Entries
                  \/ /\ call[r].op # "create" /\ plans[p].version >= 1
                     /\ \E kind \in ledger!Kinds :
                           Entries' = Entries \cup
                              {[plan |-> p, version |-> plans[p].version + 1,
                                kind |-> kind, by |-> r]}
  <1> DEFINE p == call[r].plan
  <1>1. pc[r] = "flushed" /\ call[r] \in Call /\ p \in Plans
    BY DEF Commit, CommitCreate, CommitSolve, CommitConfirm, CommitReopen, CommitStatus,
           IInv, TypeInv, CallMade, Call
  <1>2. rowLock[p] = r /\ row[r] = plans[p] /\ CopyOK(r)
    BY <1>1 DEF IInv, CopyInv, FlushedOK, HoldsCopy
  <1>3. plans[p] \in PlanRow /\ plans[p].version \in Nat
    BY <1>1 DEF IInv, TypeInv, TypeOK, PlanRow, ledger!PlanRow
  <1>4. plans' \in [Plans -> PlanRow] /\ plans \in [Plans -> PlanRow]
    BY CommitTypes DEF IInv, TypeInv, TypeOK
  <1>5. NextVersion(r) = plans[p].version + 1
    BY <1>2 DEF NextVersion
  <1>6. /\ pc' = [pc EXCEPT ![r] = "committed"]
        /\ rowLock' = [rowLock EXCEPT ![p] = Free]
        /\ UNCHANGED <<call, row>>
    BY DEF Commit, CommitCreate, CommitSolve, CommitConfirm, CommitReopen, CommitStatus,
           Goto, Unlock
  <1>7. CASE CommitCreate(r)
    <2>1. plans[p] = NoRow /\ plans[p].version = 0
      BY <1>2, <1>7 DEF CommitCreate, CopyOK, NoRow, ledger!NoRow
    <2>2. plans' = [plans EXCEPT ![p] = NewRow] /\ Entries' = Entries
      BY <1>7 DEF CommitCreate, Entries
    <2>3. plans'[p].version = 1 /\ plans'[p].status # "ABSENT"
      BY <1>1, <1>4, <2>2 DEF NewRow, ledger!NewRow
    <2>4. QED
      BY <1>1, <1>2, <1>4, <1>6, <1>7, <2>1, <2>2, <2>3 DEF CommitCreate
  <1>8. ASSUME call[r].op # "create" PROVE plans[p].version >= 1
    <2>1. plans[p].status # "ABSENT"
      BY <1>2, <1>8 DEF CopyOK
    <2>2. QED
      BY <1>1, <1>3, <2>1 DEF IInv, RowsInv
  <1>9. CASE CommitSolve(r)
    <2>1. call[r].op # "create"
      BY <1>9 DEF CommitSolve, Solves
    <2>2. plans'[p].version = plans[p].version + 1 /\ plans'[p].status # "ABSENT"
      BY <1>1, <1>4, <1>5, <1>9 DEF CommitSolve
    <2>3. \A q \in Plans \ {p} : plans'[q] = plans[q]
      BY <1>1, <1>4, <1>9 DEF CommitSolve
    <2>4. Entries' = Entries \cup {[plan |-> p, version |-> plans[p].version + 1,
                                    kind |-> "RUN", by |-> r]}
      BY <1>5, <1>9 DEF CommitSolve, Entries, NewEntry
    <2>5. QED
      BY <1>1, <1>2, <1>4, <1>6, <1>8, <2>1, <2>2, <2>3, <2>4 DEF ledger!Kinds
  <1>10. ASSUME NEW op \in Ops \ {"create"}, NEW to \in ledger!Statuses \ {"ABSENT"},
                NEW kind \in ledger!Kinds, CommitStatus(r, op, to, kind)
         PROVE  /\ call[r].op # "create"
                /\ \A q \in Plans \ {p} : plans'[q] = plans[q]
                /\ plans'[p].version = plans[p].version + 1
                /\ plans'[p].status # "ABSENT"
                /\ Entries' = Entries \cup {[plan |-> p, version |-> plans[p].version + 1,
                                             kind |-> kind, by |-> r]}
    <2>1. plans'[p] = [plans[p] EXCEPT !.status = to, !.version = NextVersion(r)]
      BY <1>1, <1>4, <1>10 DEF CommitStatus
    <2>2. plans'[p].version = NextVersion(r) /\ plans'[p].status = to
      BY <1>3, <2>1 DEF PlanRow, ledger!PlanRow
    <2>3. \A q \in Plans \ {p} : plans'[q] = plans[q]
      BY <1>1, <1>4, <1>10 DEF CommitStatus
    <2>4. Entries' = Entries \cup {[plan |-> p, version |-> plans[p].version + 1,
                                    kind |-> kind, by |-> r]}
      BY <1>5, <1>10 DEF CommitStatus, Entries, NewEntry
    <2>5. QED
      BY <1>5, <1>10, <2>2, <2>3, <2>4 DEF CommitStatus
  <1>11. CASE CommitConfirm(r) \/ CommitReopen(r)
    <2>1. PICK op \in Ops \ {"create"}, to \in ledger!Statuses \ {"ABSENT"},
               kind \in ledger!Kinds : CommitStatus(r, op, to, kind)
      BY <1>11 DEF CommitConfirm, CommitReopen, Ops, ledger!Statuses, ledger!Kinds
    <2>2. QED
      BY <1>1, <1>2, <1>4, <1>6, <1>8, <1>10, <2>1
  <1>12. QED
    BY <1>7, <1>9, <1>11 DEF Commit

\* A step that leaves the database alone.
Quiet(r) ==
    \/ \E op \in Ops, p \in Plans : Send(r, op, p)
    \/ BuildPlan(r) \/ LoadMissing(r) \/ LoadRefused(r) \/ LoadAccepted(r)
    \/ SolverFails(r) \/ Flush(r) \/ FlushConflict(r) \/ Refresh(r) \/ Die(r)

LEMMA QuietFrame ==
    ASSUME NEW r \in Requests, Quiet(r)
    PROVE  UNCHANGED db
  BY DEF Quiet, Send, BuildPlan, LoadMissing, LoadRefused, LoadAccepted, SolverFails,
         Flush, FlushConflict, Refresh, Die, db

LEMMA CommitKeepsLedger ==
    ASSUME IInv, NEW r \in Requests, Commit(r)
    PROVE  RowsInv' /\ EntriesInv' /\ LedgerComplete'
  <1> USE DEF IInv
  <1>p. PICK p \in Plans : p = call[r].plan
    BY CommitEffect
  <1>0. /\ pc[r] = "flushed" /\ pc' = [pc EXCEPT ![r] = "committed"]
        /\ \A q \in Plans \ {p} : plans'[q] = plans[q]
        /\ plans'[p].version = plans[p].version + 1
        /\ plans'[p].status # "ABSENT"
        /\ pc \in [Requests -> PCs]
        /\ \A q \in Plans : plans[q].version \in Nat
    BY <1>p, CommitEffect DEF TypeInv, TypeOK, PlanRow, ledger!PlanRow
  <1>1. RowsInv'
    BY <1>0 DEF RowsInv
  <1>2. CASE Entries' = Entries /\ plans[p].version = 0
    <2>1. EntriesInv'
      BY <1>0, <1>2 DEF EntriesInv
    <2>2. ASSUME NEW q \in Plans PROVE 2 .. plans'[q].version = 2 .. plans[q].version
      BY <1>0, <1>2
    <2>3. LedgerComplete'
      BY <1>2, <2>2 DEF LedgerComplete, EntriesOf
    <2>4. QED
      BY <1>1, <2>1, <2>3
  <1>3. ASSUME NEW kind \in ledger!Kinds, plans[p].version >= 1,
               Entries' = Entries \cup {[plan |-> p, version |-> plans[p].version + 1,
                                         kind |-> kind, by |-> r]}
        PROVE  EntriesInv' /\ LedgerComplete'
    <2> DEFINE new == [plan |-> p, version |-> plans[p].version + 1, kind |-> kind, by |-> r]
    <2>1. EntriesInv'
      BY <1>0, <1>3 DEF EntriesInv
    <2>2. ASSUME NEW q \in Plans \ {p}
          PROVE  EntriesOf(q)' = EntriesOf(q) /\ plans'[q] = plans[q]
      BY <1>0, <1>3 DEF EntriesOf
    <2>3. EntriesOf(p)' = EntriesOf(p) \cup {new}
      BY <1>3 DEF EntriesOf
    <2>4. /\ new.version = plans[p].version + 1
          /\ \A e \in EntriesOf(p) : e.version \in 2 .. plans[p].version
          /\ \A v \in 2 .. plans[p].version : \E e \in EntriesOf(p) : e.version = v
          /\ \A e, f \in EntriesOf(p) : e.version = f.version => e = f
      BY <1>0 DEF LedgerComplete
    <2> HIDE DEF new
    <2>5. \A e \in EntriesOf(p)' : e.version \in 2 .. plans'[p].version
      BY <1>0, <1>3, <2>3, <2>4
    <2>6. \A v \in 2 .. plans'[p].version : \E e \in EntriesOf(p)' : e.version = v
      BY <1>0, <1>3, <2>3, <2>4
    <2>7. \A e, f \in EntriesOf(p)' : e.version = f.version => e = f
      BY <1>0, <2>3, <2>4
    <2>9. LedgerComplete'
      <3>1. ASSUME NEW q \in Plans
            PROVE  /\ \A e \in EntriesOf(q)' : e.version \in 2 .. plans'[q].version
                   /\ \A v \in 2 .. plans'[q].version : \E e \in EntriesOf(q)' : e.version = v
                   /\ \A e, f \in EntriesOf(q)' : e.version = f.version => e = f
        <4>1. CASE q = p
          BY <2>5, <2>6, <2>7, <4>1
        <4>2. CASE q # p
          BY <2>2, <4>2 DEF LedgerComplete
        <4>3. QED
          BY <4>1, <4>2
      <3>2. QED
        BY <3>1 DEF LedgerComplete
    <2>10. QED
      BY <2>1, <2>9
  <1>4. QED
    BY <1>p, <1>1, <1>2, <1>3, CommitEffect

\* A commit makes every other copy of the plan out of date.
LEMMA CommitKeepsCopies ==
    ASSUME IInv, NEW r \in Requests, Commit(r)
    PROVE  CopyInv'
  <1> DEFINE p == call[r].plan
  <1>0. /\ p \in Plans /\ pc[r] = "flushed" /\ pc' = [pc EXCEPT ![r] = "committed"]
        /\ rowLock[p] = r /\ rowLock' = [rowLock EXCEPT ![p] = Free]
        /\ UNCHANGED <<call, row>>
        /\ \A q \in Plans \ {p} : plans'[q] = plans[q]
        /\ plans'[p].version = plans[p].version + 1
        /\ pc \in [Requests -> PCs]
        /\ rowLock \in [Plans -> Requests \cup {Free}]
        /\ \A q \in Plans : plans[q].version \in Nat
        /\ \A s \in Requests : row[s].version \in Nat
    BY CommitEffect DEF IInv, TypeInv, TypeOK, PlanRow, ledger!PlanRow
  <1>1. SUFFICES ASSUME NEW s \in Requests, HoldsCopy(s)'
                 PROVE  CopyOK(s)' /\ (pc'[s] = "flushed" => FlushedOK(s)')
    BY DEF CopyInv, HoldsCopy
  <1>2. s # r /\ pc'[s] = pc[s] /\ HoldsCopy(s)
    BY <1>0, <1>1 DEF HoldsCopy
  <1>3. CopyOK(s) /\ (pc[s] = "flushed" => FlushedOK(s)) /\ call[s].plan \in Plans
    BY <1>2 DEF IInv, CopyInv, TypeInv, CallMade, HoldsCopy, Call
  <1>4. CopyOK(s)'
    BY <1>0, <1>3 DEF CopyOK, Accepts, MaySolve, MayChangeStatus, ExpectedVersionHolds
  <1>5. ASSUME pc'[s] = "flushed" PROVE FlushedOK(s)'
    BY <1>0, <1>2, <1>3, <1>5 DEF FlushedOK
  <1>6. QED
    BY <1>4, <1>5

LEMMA QuietKeepsCopies ==
    ASSUME IInv, NEW r \in Requests, Quiet(r)
    PROVE  CopyInv'
  <1>0. /\ UNCHANGED <<plans, runs, events>>
        /\ pc \in [Requests -> PCs]
        /\ row \in [Requests -> PlanRow]
        /\ call \in [Requests -> Call \cup {NoCall}]
        /\ rowLock \in [Plans -> Requests \cup {Free}]
        /\ \A s \in Requests : pc[s] # "idle" => call[s] \in Call /\ call[s].plan \in Plans
        /\ \A q \in Plans : plans[q].version \in Nat
        /\ CopyInv /\ RowsInv
    BY QuietFrame DEF db, IInv, TypeInv, TypeOK, CallMade, Call, PlanRow, ledger!PlanRow
  <1>1. SUFFICES ASSUME NEW s \in Requests, HoldsCopy(s)'
                 PROVE  CopyOK(s)' /\ (pc'[s] = "flushed" => FlushedOK(s)')
    BY DEF CopyInv, HoldsCopy
  <1>2. CASE s # r
    <2>1. pc'[s] = pc[s] /\ call'[s] = call[s] /\ row'[s] = row[s]
      BY <1>0, <1>2 DEF Quiet, Send, BuildPlan, LoadMissing, LoadRefused, LoadAccepted,
         SolverFails, Flush, FlushConflict, Refresh, Die, Finish, Goto
    <2>2. CopyOK(s) /\ (pc[s] = "flushed" => FlushedOK(s)) /\ call[s].plan \in Plans
      BY <1>0, <1>1, <2>1 DEF CopyInv, HoldsCopy
    <2>3. CopyOK(s)'
      BY <1>0, <2>1, <2>2
         DEF CopyOK, Accepts, MaySolve, MayChangeStatus, ExpectedVersionHolds
    <2>4. ASSUME rowLock[call[s].plan] = s PROVE rowLock'[call[s].plan] = s
      BY <1>0, <1>2, <2>2, <2>4, FreeAssumption
         DEF Quiet, Send, BuildPlan, LoadMissing, LoadRefused, LoadAccepted,
             SolverFails, Flush, FlushConflict, Refresh, Die
    <2>5. QED
      BY <1>0, <2>1, <2>2, <2>3, <2>4 DEF FlushedOK
  <1>3. CASE s = r
    <2>1. BuildPlan(r) \/ LoadAccepted(r) \/ Flush(r)
      BY <1>0, <1>1, <1>3 DEF Quiet, Send, LoadMissing, LoadRefused, SolverFails,
         FlushConflict, Refresh, Die, Finish, Goto, HoldsCopy
    <2>2. CASE BuildPlan(r)
      <3>1. /\ row'[r] = NoRow /\ pc'[r] = "decided" /\ call'[r] = call[r]
            /\ call[r].op = "create" /\ call[r].plan \in Plans
        BY <1>0, <2>2 DEF BuildPlan, Goto
      <3>2. NoRow.version = 0
        BY DEF NoRow, ledger!NoRow
      <3>3. QED
        BY <1>0, <1>3, <3>1, <3>2 DEF CopyOK, RowsInv
    <2>3. CASE LoadAccepted(r)
      <3>1. /\ row'[r] = plans[call[r].plan] /\ pc'[r] = "decided" /\ call'[r] = call[r]
            /\ call[r].op # "create" /\ call[r].plan \in Plans
            /\ plans[call[r].plan].status # "ABSENT"
            /\ Accepts(r, plans[call[r].plan])
        BY <1>0, <2>3 DEF LoadAccepted, Goto
      <3>2. Accepts(r, row[r])'
        BY <3>1 DEF Accepts, MaySolve, MayChangeStatus, ExpectedVersionHolds
      <3>3. QED
        BY <1>0, <1>3, <3>1, <3>2 DEF CopyOK
    <2>4. CASE Flush(r)
      <3>1. /\ pc[r] = "decided" /\ call'[r] = call[r] /\ row'[r] = row[r]
            /\ call[r].plan \in Plans
            /\ rowLock'[call[r].plan] = r
            /\ plans[call[r].plan].version = row[r].version
        BY <1>0, <2>4 DEF Flush, Conflict, RowChanged
      <3>2. CopyOK(r)
        BY <1>0, <3>1 DEF CopyInv, HoldsCopy
      <3>3. CopyOK(r)'
        BY <1>0, <3>1, <3>2
           DEF CopyOK, Accepts, MaySolve, MayChangeStatus, ExpectedVersionHolds
      <3>4. FlushedOK(r)'
        BY <1>0, <3>1, <3>2 DEF CopyOK, FlushedOK
      <3>5. QED
        BY <1>3, <3>3, <3>4
    <2>5. QED
      BY <2>1, <2>2, <2>3, <2>4
  <1>4. QED
    BY <1>2, <1>3

LEMMA QuietKeepsLedger ==
    ASSUME IInv, NEW r \in Requests, Quiet(r)
    PROVE  RowsInv' /\ EntriesInv' /\ LedgerComplete'
  <1>1. UNCHANGED <<plans, runs, events>>
    BY QuietFrame DEF db
  <1>2. RowsInv' /\ LedgerComplete'
    BY <1>1 DEF IInv, RowsInv, LedgerComplete, EntriesOf, Entries
  <1>3. /\ pc \in [Requests -> PCs]
        /\ EntriesInv
    BY DEF IInv, TypeInv, TypeOK
  <1>4. \A s \in Requests : s # r => pc'[s] = pc[s]
    BY <1>3 DEF Quiet, Send, BuildPlan, LoadMissing, LoadRefused, LoadAccepted,
       SolverFails, Flush, FlushConflict, Refresh, Die, Finish, Goto
  <1>5. pc[r] \in {"committed", "done", "lost"} => pc'[r] \in {"committed", "done", "lost"}
    BY <1>3 DEF Quiet, Send, BuildPlan, LoadMissing, LoadRefused, LoadAccepted,
       SolverFails, Flush, FlushConflict, Refresh, Die, Finish, Goto, InFlight
  <1>6. \A e \in Entries : e.by \in Requests
    BY DEF IInv, TypeInv, TypeOK, Entries, ledger!Entry
  <1>7. EntriesInv'
    BY <1>1, <1>3, <1>4, <1>5, <1>6 DEF EntriesInv, Entries
  <1>8. QED
    BY <1>2, <1>7

\* Every step is a commit or leaves the database alone.
LEMMA NextSplit == Next => \E r \in Requests : Quiet(r) \/ Commit(r)
  BY DEF Next, Handle, Quiet, Commit

LEMMA InitIInv == Init => IInv
  <1> SUFFICES ASSUME Init PROVE IInv
    OBVIOUS
  <1>1. Entries = {} /\ \A r \in Requests : pc[r] = "idle"
    BY DEF Init, Entries
  <1>2. CopyInv /\ EntriesInv
    BY <1>1 DEF CopyInv, HoldsCopy, EntriesInv
  <1>3. /\ \A p \in Plans : plans[p] = NoRow \/ plans[p] = NewRow
        /\ NoRow.version = 0 /\ NoRow.status = "ABSENT"
        /\ NewRow.version = 1 /\ NewRow.status = "DRAFT"
    BY DEF Init, NoRow, NewRow, ledger!NoRow, ledger!NewRow
  <1>4. ASSUME NEW p \in Plans
        PROVE  /\ plans[p].status = "ABSENT" <=> plans[p].version = 0
               /\ plans[p].version = 0 => plans[p] = NoRow
               /\ 2 .. plans[p].version = {}
    <2>1. CASE plans[p] = NoRow
      <3>1. plans[p].version = 0 /\ plans[p].status = "ABSENT"
        BY <1>3, <2>1
      <3>2. QED
        BY <2>1, <3>1
    <2>2. CASE plans[p] = NewRow
      <3>1. plans[p].version = 1 /\ plans[p].status = "DRAFT"
        BY <1>3, <2>2
      <3>2. QED
        BY <3>1
    <2>3. QED
      BY <1>3, <2>1, <2>2
  <1>5. RowsInv
    BY <1>4 DEF RowsInv
  <1>6. LedgerComplete
    BY <1>1, <1>4 DEF LedgerComplete, EntriesOf
  <1>7. QED
    BY <1>2, <1>5, <1>6, InitTypeInv DEF IInv

LEMMA NextIInv == IInv /\ [Next]_vars => IInv'
  <1> SUFFICES ASSUME IInv, [Next]_vars PROVE IInv'
    OBVIOUS
  <1>1. TypeInv'
    BY NextTypeInv DEF IInv
  <1>2. CASE UNCHANGED vars
    BY <1>1, <1>2 DEF vars, IInv, CopyInv, CopyOK, FlushedOK, HoldsCopy, RowsInv, EntriesInv,
       LedgerComplete, EntriesOf, Entries, Accepts, MaySolve, MayChangeStatus,
       ExpectedVersionHolds
  <1>3. ASSUME NEW r \in Requests, Quiet(r) PROVE IInv'
    BY <1>1, <1>3, QuietKeepsCopies, QuietKeepsLedger DEF IInv
  <1>4. ASSUME NEW r \in Requests, Commit(r) PROVE IInv'
    BY <1>1, <1>4, CommitKeepsCopies, CommitKeepsLedger DEF IInv
  <1>5. QED
    BY <1>2, <1>3, <1>4, NextSplit

THEOREM Inductive == Spec => []IInv
  BY InitIInv, NextIInv, PTL DEF Spec

\* The ledger of every plan is complete: one run or event for each version.
THEOREM LedgerIsComplete == Spec => []LedgerComplete
  <1>1. IInv => LedgerComplete
    BY DEF IInv
  <1>2. QED
    BY <1>1, Inductive, PTL

-----------------------------------------------------------------------------
(* A confirmed plan is frozen                                                 *)

Frozen ==
    \A p \in Plans :
        plans[p].status = "CONFIRMED" /\ plans'[p] # plans[p] =>
           /\ plans'[p] = [plans[p] EXCEPT !.status = "SOLVED", !.version = @ + 1]
           /\ \E e \in events' \ events : e.plan = p /\ e.kind = "REOPENED"

\* What a commit needs of the plan it changes, from the guards it passed.
LEMMA CommitGuards ==
    ASSUME IInv, NEW r \in Requests, Commit(r)
    PROVE  LET p == call[r].plan
           IN  /\ NextVersion(r) = plans[p].version + 1
               /\ CommitCreate(r) => plans[p].status = "ABSENT"
               /\ CommitSolve(r) => plans[p].status \in {"DRAFT", "SOLVED"}
               /\ CommitConfirm(r) => plans[p].status = "SOLVED"
               /\ CommitReopen(r) => plans[p].status = "CONFIRMED"
  <1> DEFINE p == call[r].plan
  <1>1. row[r] = plans[p] /\ p \in Plans /\ pc[r] = "flushed"
    BY CommitEffect
  <1>2. CopyOK(r)
    BY <1>1 DEF IInv, CopyInv, HoldsCopy
  <1>3. plans[p].status \in {"ABSENT", "DRAFT", "SOLVED", "CONFIRMED"}
    BY <1>1 DEF IInv, TypeInv, TypeOK, PlanRow, ledger!PlanRow, ledger!Statuses
  <1>4. NextVersion(r) = plans[p].version + 1
    BY <1>1 DEF NextVersion
  <1>5. CommitCreate(r) => plans[p].status = "ABSENT"
    BY <1>1, <1>2 DEF CommitCreate, CopyOK, NoRow, ledger!NoRow
  <1>6. CommitSolve(r) => plans[p].status \in {"DRAFT", "SOLVED"}
    BY <1>1, <1>2, <1>3 DEF CommitSolve, CopyOK, Accepts, MaySolve, Solves
  <1>7. CommitConfirm(r) => plans[p].status = "SOLVED"
    BY <1>1, <1>2 DEF CommitConfirm, CommitStatus, CopyOK, Accepts, MayChangeStatus, Solves
  <1>8. CommitReopen(r) => plans[p].status = "CONFIRMED"
    BY <1>1, <1>2 DEF CommitReopen, CommitStatus, CopyOK, Accepts, MayChangeStatus, Solves
  <1>9. QED
    BY <1>4, <1>5, <1>6, <1>7, <1>8

\* The entry a commit writes is new.
LEMMA EntryIsNew ==
    ASSUME IInv, NEW r \in Requests, Commit(r)
    PROVE  \A e \in Entries : e.by # r
  <1>1. pc[r] = "flushed"
    BY CommitEffect
  <1>2. QED
    BY <1>1 DEF IInv, EntriesInv

LEMMA StepFrozen == IInv /\ [Next]_vars => [Frozen]_vars
  <1> SUFFICES ASSUME IInv, Next PROVE Frozen
    BY DEF vars
  <1>1. ASSUME NEW r \in Requests, Quiet(r) PROVE Frozen
    BY <1>1, QuietFrame DEF db, Frozen
  <1>2. ASSUME NEW r \in Requests, Commit(r) PROVE Frozen
    <2>1. SUFFICES ASSUME NEW p \in Plans, plans[p].status = "CONFIRMED", plans'[p] # plans[p]
                   PROVE  /\ plans'[p] = [plans[p] EXCEPT !.status = "SOLVED",
                                                          !.version = @ + 1]
                          /\ \E e \in events' \ events : e.plan = p /\ e.kind = "REOPENED"
      BY DEF Frozen
    <2>2. p = call[r].plan
      BY <1>2, <2>1, CommitEffect
    <2>3. CommitReopen(r) /\ NextVersion(r) = plans[p].version + 1
      BY <1>2, <2>1, <2>2, CommitGuards DEF Commit
    <2>4. plans'[p] = [plans[p] EXCEPT !.status = "SOLVED", !.version = @ + 1]
      <3>1. plans \in [Plans -> PlanRow]
        BY DEF IInv, TypeInv, TypeOK
      <3>2. QED
        BY <2>2, <2>3, <3>1 DEF CommitReopen, CommitStatus
    <2> DEFINE new == [plan |-> p, version |-> NextVersion(r), kind |-> "REOPENED", by |-> r]
    <2>5. events' = events \cup {new}
      BY <2>2, <2>3 DEF CommitReopen, CommitStatus, NewEntry
    <2>6. new \notin events
      BY <1>2, EntryIsNew DEF Entries
    <2>7. QED
      BY <2>4, <2>5, <2>6
  <1>3. QED
    BY <1>1, <1>2, NextSplit

\* No solve, however late it ends, changes a confirmed plan: only a recorded
\* reopening does, and it keeps the solution.
THEOREM ConfirmedStaysFrozen == Spec => ConfirmedIsFrozen
  <1>1. Spec => [][Frozen]_vars
    BY Inductive, StepFrozen, PTL DEF Spec
  <1>2. QED
    BY <1>1, PTL DEF ConfirmedIsFrozen, Frozen

-----------------------------------------------------------------------------
(* Refinement: each commit is a step of PlanLedger, anything else a stutter.  *)

LEMMA InitRefines == Init => ledger!LedgerInit
  BY DEF Init, ledger!LedgerInit, NoRow, NewRow

LEMMA CommitRefines ==
    ASSUME IInv, NEW r \in Requests, Commit(r)
    PROVE  ledger!LedgerNext
  <1> DEFINE p == call[r].plan
  <1>1. /\ p \in Plans /\ row[r] = plans[p]
        /\ plans \in [Plans -> PlanRow]
        /\ NextVersion(r) = plans[p].version + 1
        /\ row[r].history \in ledger!Solution
    BY CommitEffect, CommitGuards
       DEF IInv, TypeInv, TypeOK, PlanRow, ledger!PlanRow
  <1>2. ledger!Unused(r)
    BY EntryIsNew DEF ledger!Unused, Entries
  <1>3. CASE CommitCreate(r)
    <2>1. ledger!CreatePlan(p)
      BY <1>3, CommitGuards DEF CommitCreate, ledger!CreatePlan, NewRow
    <2>2. QED
      BY <1>1, <2>1 DEF ledger!LedgerNext
  <1>4. CASE CommitSolve(r)
    <2> DEFINE h == IF call[r].op = "solve" THEN r ELSE row[r].history
    <2>1. h \in ledger!Solution /\ h \in {r, plans[p].history}
      BY <1>1 DEF ledger!Solution
    <2>2. plans' = [plans EXCEPT ![p] = [status |-> "SOLVED", version |-> plans[p].version + 1,
                                         solution |-> r, history |-> h]]
      BY <1>1, <1>4 DEF CommitSolve
    <2>3. runs' \cup events' = (runs \cup events) \cup
             {[plan |-> p, version |-> plans[p].version + 1, kind |-> "RUN", by |-> r]}
      BY <1>1, <1>4 DEF CommitSolve, NewEntry
    <2>4. ledger!SolvePlan(p, r, h)
      BY <1>2, <1>4, <2>1, <2>2, <2>3, CommitGuards DEF ledger!SolvePlan, ledger!Record
    <2>5. QED
      BY <1>1, <2>1, <2>4 DEF ledger!LedgerNext
  <1>5. ASSUME NEW op, NEW from, NEW to, NEW kind,
               plans[p].status = from, CommitStatus(r, op, to, kind)
        PROVE  ledger!ChangeStatus(p, r, from, to, kind)
    <2>1. plans' = [plans EXCEPT ![p] =
                     [plans[p] EXCEPT !.status = to, !.version = @ + 1]]
      BY <1>1, <1>5 DEF CommitStatus
    <2>2. runs' \cup events' = (runs \cup events) \cup
             {[plan |-> p, version |-> plans[p].version + 1, kind |-> kind, by |-> r]}
      BY <1>1, <1>5 DEF CommitStatus, NewEntry
    <2>3. QED
      BY <1>2, <1>5, <2>1, <2>2 DEF ledger!ChangeStatus, ledger!Record
  <1>6. CASE CommitConfirm(r)
    <2>1. ledger!ChangeStatus(p, r, "SOLVED", "CONFIRMED", "CONFIRMED")
      BY <1>5, <1>6, CommitGuards DEF CommitConfirm
    <2>2. QED
      BY <1>1, <2>1 DEF ledger!LedgerNext
  <1>7. CASE CommitReopen(r)
    <2>1. ledger!ChangeStatus(p, r, "CONFIRMED", "SOLVED", "REOPENED")
      BY <1>5, <1>7, CommitGuards DEF CommitReopen
    <2>2. QED
      BY <1>1, <2>1 DEF ledger!LedgerNext
  <1>8. QED
    BY <1>3, <1>4, <1>6, <1>7 DEF Commit

LEMMA StepRefines == IInv /\ [Next]_vars => [ledger!LedgerNext]_ledger!ledgerVars
  <1> SUFFICES ASSUME IInv, [Next]_vars
               PROVE  ledger!LedgerNext \/ UNCHANGED ledger!ledgerVars
    OBVIOUS
  <1>1. CASE UNCHANGED vars
    BY <1>1 DEF vars, ledger!ledgerVars
  <1>2. ASSUME NEW r \in Requests, Quiet(r) PROVE UNCHANGED ledger!ledgerVars
    BY <1>2, QuietFrame DEF db, ledger!ledgerVars
  <1>3. ASSUME NEW r \in Requests, Commit(r) PROVE ledger!LedgerNext
    BY <1>3, CommitRefines
  <1>4. QED
    BY <1>1, <1>2, <1>3, NextSplit

\* Racing handlers on stale copies behave as the one-step ledger does.
THEOREM Refinement == Spec => ImplementsLedger
  <1>1. Init => ledger!LedgerInit
    BY InitRefines
  <1>2. IInv /\ [Next]_vars => [ledger!LedgerNext]_ledger!ledgerVars
    BY StepRefines
  <1>3. QED
    BY <1>1, <1>2, Inductive, PTL DEF Spec, ImplementsLedger, ledger!LedgerSpec

-----------------------------------------------------------------------------
(* What the answers a request can get promise, and what the ledger may say   *)
(* while another request is between its two transactions                      *)

\* What a client was looking at when it took its version, the plan still shows
\* for that version.
SeenInv ==
    \A r \in Requests :
        pc[r] # "idle" /\ call[r].expected # 0 =>
            /\ call[r].expected <= plans[call[r].plan].version
            /\ ShownAt(call[r].plan, call[r].expected, call[r].seen)

\* An entry is where its request wanted it.
WroteInv ==
    \A e \in Entries :
        /\ e.plan = call[e.by].plan
        /\ call[e.by].expected # 0 => e.version = call[e.by].expected + 1

\* A request has at most one entry, and has it when it is about to answer 200.
RecordInv ==
    /\ \A e, f \in Entries : e.by = f.by => e = f
    /\ \A r \in Requests :
          pc[r] = "committed" /\ call[r].op # "create" => \E e \in Entries : e.by = r

ReplyInv ==
    \A r \in Requests :
        /\ reply[r].code # "none" => pc[r] = "done"
        /\ reply[r].code = "ok" => reply[r].version <= plans[call[r].plan].version

\* Only create works on a missing row.
OldRowInv ==
    \A r \in Requests : HoldsCopy(r) /\ call[r].op # "create" => row[r].version >= 1

AnswerInv ==
    /\ PlanMatchesLedger /\ SeenInv /\ WroteInv /\ WrittenOnWhatWasReviewed
    /\ RecordInv /\ ReplyInv /\ AnswersMatchLedger
    /\ OldRowInv /\ StaleMeansOvertaken /\ HistoryOfLastLegacyRun

LEMMA InitAnswerInv == Init => AnswerInv
  <1> SUFFICES ASSUME Init PROVE AnswerInv
    OBVIOUS
  <1>1. /\ Entries = {} /\ runs = {} /\ events = {}
        /\ \A r \in Requests : pc[r] = "idle" /\ reply[r].code = "none"
    BY DEF Init, Entries, Answer
  <1>2. \A p \in Plans : /\ plans[p].solution = Initial
                         /\ plans[p].history = Initial
    <2>1. \A p \in Plans : plans[p] = NoRow \/ plans[p] = NewRow
      BY DEF Init
    <2>2. /\ NoRow.solution = Initial /\ NoRow.history = Initial
          /\ NewRow.solution = Initial /\ NewRow.history = Initial
      BY DEF NoRow, NewRow, ledger!NoRow, ledger!NewRow
    <2>3. QED
      BY <2>1, <2>2
  <1>3. PlanMatchesLedger /\ HistoryOfLastLegacyRun
    <2>1. \A p \in Plans : EntriesOf(p) = {} /\ RunsUpTo(p, plans[p].version) = {}
      BY <1>1 DEF EntriesOf, RunsUpTo
    <2>2. PlanMatchesLedger
      BY <1>2, <2>1 DEF PlanMatchesLedger, ShownAt
    <2>3. HistoryOfLastLegacyRun
      BY <1>1, <1>2 DEF HistoryOfLastLegacyRun
    <2>4. QED
      BY <2>2, <2>3
  <1>4. QED
    BY <1>1, <1>3 DEF AnswerInv, SeenInv, WroteInv, WrittenOnWhatWasReviewed, RecordInv,
       ReplyInv, AnswersMatchLedger, OldRowInv, HoldsCopy, StaleMeansOvertaken

-----------------------------------------------------------------------------
(* Commits                                                                    *)

\* The columns and the entry that a commit writes.
LEMMA CommitWrites ==
    ASSUME IInv, NEW r \in Requests, Commit(r)
    PROVE  LET p      == call[r].plan
               now(k) == [plan |-> p, version |-> plans[p].version + 1, kind |-> k, by |-> r]
           IN  \/ /\ call[r].op = "create"
                  /\ plans'[p] = NewRow
                  /\ UNCHANGED <<runs, events>>
               \/ /\ call[r].op \in Solves
                  /\ runs' = runs \cup {now("RUN")} /\ UNCHANGED events
                  /\ plans'[p].status = "SOLVED" /\ plans'[p].solution = r
                  /\ plans'[p].history = IF call[r].op = "solve" THEN r ELSE plans[p].history
               \/ \E kind \in {"CONFIRMED", "REOPENED"} :
                  /\ call[r].op \notin Solves \cup {"create"}
                  /\ events' = events \cup {now(kind)} /\ UNCHANGED runs
                  /\ plans'[p].status = IF kind = "CONFIRMED" THEN "CONFIRMED" ELSE "SOLVED"
                  /\ plans'[p].solution = plans[p].solution
                  /\ plans'[p].history = plans[p].history
  <1> DEFINE p == call[r].plan
             now(k) == [plan |-> p, version |-> plans[p].version + 1, kind |-> k, by |-> r]
  <1>1. /\ p \in Plans
        /\ row[r] = plans[p]
        /\ plans \in [Plans -> PlanRow]
        /\ NextVersion(r) = plans[p].version + 1
    BY CommitEffect, CommitGuards DEF IInv, TypeInv, TypeOK
  <1>2. CASE CommitCreate(r)
    BY <1>1, <1>2 DEF CommitCreate
  <1>3. CASE CommitSolve(r)
    BY <1>1, <1>3 DEF CommitSolve, NewEntry
  <1>4. ASSUME NEW op \in {"confirm", "reopen"}, NEW to, NEW kind,
               CommitStatus(r, op, to, kind)
        PROVE  /\ call[r].op \notin Solves \cup {"create"}
               /\ events' = events \cup {now(kind)} /\ UNCHANGED runs
               /\ plans'[p].status = to
               /\ plans'[p].solution = plans[p].solution
               /\ plans'[p].history = plans[p].history
    <2>1. plans'[p] = [plans[p] EXCEPT !.status = to, !.version = NextVersion(r)]
      BY <1>1, <1>4 DEF CommitStatus
    <2>2. plans[p] \in PlanRow
      BY <1>1
    <2>3. /\ plans'[p].status = to
          /\ plans'[p].solution = plans[p].solution
          /\ plans'[p].history = plans[p].history
      BY <2>1, <2>2 DEF PlanRow, ledger!PlanRow
    <2>4. QED
      BY <1>1, <1>4, <2>3 DEF CommitStatus, NewEntry, Solves
  <1>5. CASE CommitConfirm(r)
    BY <1>4, <1>5 DEF CommitConfirm
  <1>6. CASE CommitReopen(r)
    BY <1>4, <1>6 DEF CommitReopen
  <1>7. QED
    BY <1>2, <1>3, <1>5, <1>6 DEF Commit

\* What a plan showed at a version it has reached, no commit changes.
LEMMA ShownStable ==
    ASSUME IInv, NEW r \in Requests, Commit(r),
           NEW q \in Plans, NEW v \in Nat, v <= plans[q].version, NEW s
    PROVE  /\ RunsUpTo(q, v)' = RunsUpTo(q, v)
           /\ ShownAt(q, v, s) => ShownAt(q, v, s)'
  <1> DEFINE p == call[r].plan
  <1>1. /\ p \in Plans
        /\ \A x \in Plans : plans[x].version \in Nat
    BY CommitEffect DEF IInv, TypeInv, TypeOK, PlanRow, ledger!PlanRow
  <1>2. \/ runs' = runs
        \/ runs' = runs \cup {[plan |-> p, version |-> plans[p].version + 1,
                               kind |-> "RUN", by |-> r]}
    BY CommitWrites
  <1>3. RunsUpTo(q, v)' = RunsUpTo(q, v)
    <2>1. CASE runs' = runs
      BY <2>1 DEF RunsUpTo
    <2>2. CASE runs' = runs \cup {[plan |-> p, version |-> plans[p].version + 1,
                                   kind |-> "RUN", by |-> r]}
      <3>1. ~ (p = q /\ plans[p].version + 1 <= v)
        BY <1>1
      <3>2. QED
        BY <2>2, <3>1 DEF RunsUpTo
    <2>3. QED
      BY <1>2, <2>1, <2>2
  <1>4. QED
    BY <1>3 DEF ShownAt

\* All runs of a plan have versions the plan has reached.
LEMMA AllRunsReached ==
    ASSUME IInv, NEW q \in Plans
    PROVE  /\ plans[q].version \in Nat
           /\ \A e \in Entries : e.by \in Requests /\ e.plan \in Plans /\ e.version \in Nat
           /\ \A e \in EntriesOf(q) : e.version \in 2 .. plans[q].version
           /\ RunsUpTo(q, plans[q].version) = {e \in runs : e.plan = q}
  <1>1. /\ \A e \in EntriesOf(q) : e.version \in 2 .. plans[q].version
        /\ plans[q].version \in Nat
    BY DEF IInv, LedgerComplete, TypeInv, TypeOK, PlanRow, ledger!PlanRow
  <1>2. \A e \in runs : e.plan = q => e.version <= plans[q].version
    BY <1>1 DEF EntriesOf, Entries
  <1>3. \A e \in Entries : e.by \in Requests /\ e.plan \in Plans /\ e.version \in Nat
    BY DEF IInv, TypeInv, TypeOK, Entries, ledger!Entry
  <1>4. QED
    BY <1>1, <1>2, <1>3 DEF RunsUpTo

\* Committing keeps the row and the ledger in step.
LEMMA CommitKeepsMatch ==
    ASSUME IInv, AnswerInv, NEW r \in Requests, Commit(r)
    PROVE  PlanMatchesLedger'
  <1>p. PICK p \in Plans : p = call[r].plan
    BY CommitEffect
  <1> DEFINE now(k) == [plan |-> p, version |-> plans[p].version + 1, kind |-> k, by |-> r]
  <1>0. /\ p \in Plans
        /\ plans'[p].version = plans[p].version + 1
        /\ \A q \in Plans \ {p} : plans'[q] = plans[q]
        /\ \A q \in Plans : plans[q].version \in Nat
        /\ PlanMatchesLedger
    BY <1>p, CommitEffect DEF AnswerInv, IInv, TypeInv, TypeOK, PlanRow, ledger!PlanRow
  <1>1. SUFFICES ASSUME NEW q \in Plans
                 PROVE  /\ ShownAt(q, plans[q].version, plans[q].solution)'
                        /\ \A e \in EntriesOf(q)' :
                              e.version = plans'[q].version =>
                                plans'[q].status = IF e.kind = "CONFIRMED" THEN "CONFIRMED"
                                                                           ELSE "SOLVED"
    BY DEF PlanMatchesLedger
  <1>2. /\ ShownAt(q, plans[q].version, plans[q].solution)
        /\ \A e \in EntriesOf(q) :
              e.version = plans[q].version =>
                plans[q].status = IF e.kind = "CONFIRMED" THEN "CONFIRMED" ELSE "SOLVED"
    BY <1>0 DEF PlanMatchesLedger
  <1>3. CASE q # p
    <2>1. plans'[q] = plans[q]
      BY <1>0, <1>3
    <2>2. ShownAt(q, plans[q].version, plans[q].solution)'
      <3>1. ShownAt(q, plans[q].version, plans[q].solution) =>
              /\ RunsUpTo(q, plans[q].version) = {e \in runs : e.plan = q}
        BY AllRunsReached
      <3>2. {e \in runs' : e.plan = q} = {e \in runs : e.plan = q}
        BY <1>p, <1>3, CommitWrites
      <3>3. RunsUpTo(q, plans[q].version)' = RunsUpTo(q, plans[q].version)
        BY <2>1, <3>2 DEF RunsUpTo
      <3>4. QED
        BY <1>2, <2>1, <3>3 DEF ShownAt
    <2>3. EntriesOf(q)' = EntriesOf(q)
      BY <1>p, <1>3, CommitWrites DEF EntriesOf, Entries
    <2>4. QED
      BY <1>2, <2>1, <2>2, <2>3
  <1>4. CASE q = p
    <2>0. \A e \in EntriesOf(p) : e.version <= plans[p].version
      BY <1>0, AllRunsReached
    <2>1. CASE call[r].op = "create" /\ plans'[p] = NewRow /\ UNCHANGED <<runs, events>>
      <3>1. plans[p].version = 0 /\ NewRow.solution = Initial
        BY <1>p, <2>1, CommitEffect DEF NewRow, ledger!NewRow
      <3>2. EntriesOf(p) = {} /\ EntriesOf(p)' = {}
        BY <1>0, <2>1, <3>1, AllRunsReached DEF EntriesOf, Entries
      <3>3. RunsUpTo(p, plans[p].version)' = {}
        BY <3>2 DEF RunsUpTo, EntriesOf, Entries
      <3>4. QED
        BY <1>4, <2>1, <3>1, <3>2, <3>3 DEF ShownAt
    <2>2. CASE /\ call[r].op \in Solves
               /\ runs' = runs \cup {now("RUN")} /\ UNCHANGED events
               /\ plans'[p].status = "SOLVED" /\ plans'[p].solution = r
      <3>1. EntriesOf(p)' = EntriesOf(p) \cup {now("RUN")}
        BY <2>2 DEF EntriesOf, Entries
      <3>2. \A e \in EntriesOf(p)' : e.version = plans'[p].version => e = now("RUN")
        BY <1>0, <2>0, <3>1
      <3>3. /\ now("RUN") \in RunsUpTo(p, plans[p].version)'
            /\ \A f \in RunsUpTo(p, plans[p].version)' : f.version <= plans'[p].version
        BY <1>0, <2>2 DEF RunsUpTo
      <3>4. now("RUN").by = r /\ now("RUN").version = plans'[p].version
            /\ now("RUN").kind = "RUN"
        BY <1>0
      <3>5. ShownAt(p, plans[p].version, plans[p].solution)'
        <4> HIDE DEF now
        <4>1. QED
          BY <2>2, <3>3, <3>4 DEF ShownAt
      <3>6. QED
        BY <1>4, <2>2, <3>2, <3>4, <3>5
    <2>3. ASSUME NEW kind \in {"CONFIRMED", "REOPENED"},
                 events' = events \cup {now(kind)}, UNCHANGED runs,
                 plans'[p].status = (IF kind = "CONFIRMED" THEN "CONFIRMED" ELSE "SOLVED"),
                 plans'[p].solution = plans[p].solution
          PROVE  /\ ShownAt(p, plans[p].version, plans[p].solution)'
                 /\ \A e \in EntriesOf(p)' :
                       e.version = plans'[p].version =>
                         plans'[p].status = IF e.kind = "CONFIRMED" THEN "CONFIRMED"
                                                                    ELSE "SOLVED"
      <3>1. EntriesOf(p)' = EntriesOf(p) \cup {now(kind)}
        BY <2>3 DEF EntriesOf, Entries
      <3>2. \A e \in EntriesOf(p)' : e.version = plans'[p].version => e = now(kind)
        BY <1>0, <2>0, <3>1
      <3>3. RunsUpTo(p, plans[p].version)' = RunsUpTo(p, plans[p].version)
        <4>1. RunsUpTo(p, plans[p].version) = {e \in runs : e.plan = p}
          BY <1>0, AllRunsReached
        <4>2. \A e \in runs : e.plan = p => e.version <= plans[p].version + 1
          BY <1>0, <2>0, AllRunsReached DEF EntriesOf, Entries
        <4>3. QED
          BY <1>0, <2>3, <4>1, <4>2 DEF RunsUpTo
      <3>4. ShownAt(p, plans[p].version, plans[p].solution)'
        BY <1>2, <1>4, <2>3, <3>3 DEF ShownAt
      <3>5. QED
        BY <2>3, <3>2, <3>4
    <2>4. QED
      BY <1>p, <1>4, <2>1, <2>2, <2>3, CommitWrites
  <1>5. QED
    BY <1>3, <1>4

\* A legacy run brings its own history, any other write keeps the one there is.
LEMMA CommitKeepsHistory ==
    ASSUME IInv, AnswerInv, NEW r \in Requests, Commit(r)
    PROVE  HistoryOfLastLegacyRun'
  <1>p. PICK p \in Plans : p = call[r].plan
    BY CommitEffect
  <1> DEFINE now(k) == [plan |-> p, version |-> plans[p].version + 1, kind |-> k, by |-> r]
             Legacy(q) == {e \in runs : e.plan = q /\ call[e.by].op = "solve"}
             Kept(q) == \/ Legacy(q) = {} /\ plans[q].history = Initial
                        \/ \E e \in Legacy(q) : /\ plans[q].history = e.by
                                                /\ \A f \in Legacy(q) : f.version <= e.version
  <1>0. /\ call' = call
        /\ plans'[p].version = plans[p].version + 1
        /\ \A q \in Plans \ {p} : plans'[q] = plans[q]
        /\ \A q \in Plans : plans[q].version \in Nat
        /\ \A q \in Plans : Kept(q)
    BY <1>p, CommitEffect
       DEF AnswerInv, HistoryOfLastLegacyRun, IInv, TypeInv, TypeOK, PlanRow, ledger!PlanRow
  <1>1. SUFFICES ASSUME NEW q \in Plans PROVE Kept(q)'
    BY DEF HistoryOfLastLegacyRun
  <1>2. CASE Legacy(q)' = Legacy(q) /\ plans'[q].history = plans[q].history
    BY <1>0, <1>2
  <1>3. CASE q # p
    <2>1. Legacy(q)' = Legacy(q)
      BY <1>p, <1>0, <1>3, CommitWrites
    <2>2. QED
      BY <1>0, <1>2, <1>3, <2>1
  <1>4. CASE q = p
    <2>0. \A f \in Legacy(p) : f.version <= plans[p].version
      BY <1>0, AllRunsReached DEF EntriesOf, Entries
    <2>1. CASE call[r].op = "create" /\ plans'[p] = NewRow /\ UNCHANGED <<runs, events>>
      <3>1. plans[p].version = 0 /\ NewRow.history = Initial
        BY <1>p, <2>1, CommitEffect DEF NewRow, ledger!NewRow
      <3>2. Legacy(p)' = {}
        BY <1>0, <2>1, <3>1, AllRunsReached DEF EntriesOf, Entries
      <3>3. QED
        BY <1>4, <2>1, <3>1, <3>2
    <2>2. CASE /\ call[r].op \in Solves
               /\ runs' = runs \cup {now("RUN")}
               /\ plans'[p].history = IF call[r].op = "solve" THEN r ELSE plans[p].history
      <3>1. now("RUN").plan = p /\ now("RUN").by = r
            /\ now("RUN").version = plans[p].version + 1
        OBVIOUS
      <3> HIDE DEF now
      <3>2. CASE call[r].op = "solve"
        <4>1. Legacy(p)' = Legacy(p) \cup {now("RUN")}
          BY <1>0, <2>2, <3>1, <3>2
        <4>2. \A f \in Legacy(p)' : f.version <= now("RUN").version
          BY <1>0, <2>0, <3>1, <4>1, AllRunsReached DEF Entries
        <4>3. QED
          BY <1>4, <2>2, <3>1, <3>2, <4>1, <4>2
      <3>3. CASE call[r].op # "solve"
        <4>1. Legacy(p)' = Legacy(p)
          BY <1>0, <2>2, <3>1, <3>3
        <4>2. QED
          BY <1>2, <1>4, <2>2, <3>3, <4>1
      <3>4. QED
        BY <3>2, <3>3
    <2>3. CASE UNCHANGED runs /\ plans'[p].history = plans[p].history
      BY <1>0, <1>2, <1>4, <2>3
    <2>4. QED
      BY <1>p, <2>1, <2>2, <2>3, CommitWrites
  <1>5. QED
    BY <1>3, <1>4

\* The new entry of a commit, if it leaves one.
LEMMA CommitRecords ==
    ASSUME IInv, NEW r \in Requests, Commit(r)
    PROVE  \/ call[r].op = "create" /\ Entries' = Entries
           \/ /\ call[r].op # "create"
              /\ \E new : /\ Entries' = Entries \cup {new}
                          /\ new.plan = call[r].plan /\ new.by = r
                          /\ new.version = plans[call[r].plan].version + 1
  <1>1. CASE call[r].op = "create"
    BY <1>1, CommitEffect
  <1>2. CASE call[r].op # "create"
    <2>1. PICK kind \in ledger!Kinds :
             Entries' = Entries \cup {[plan |-> call[r].plan, kind |-> kind, by |-> r,
                                       version |-> plans[call[r].plan].version + 1]}
      BY <1>2, CommitEffect
    <2> DEFINE new == [plan |-> call[r].plan, kind |-> kind, by |-> r,
                       version |-> plans[call[r].plan].version + 1]
    <2>2. /\ new.plan = call[r].plan /\ new.by = r
          /\ new.version = plans[call[r].plan].version + 1
      OBVIOUS
    <2> HIDE DEF new
    <2>3. QED
      BY <1>2, <2>1, <2>2 DEF new
  <1>3. QED
    BY <1>1, <1>2

\* A commit of a request with a version replaces the version it reviewed.
LEMMA CommitExpected ==
    ASSUME IInv, NEW r \in Requests, Commit(r), call[r].expected # 0, call[r].op # "create"
    PROVE  call[r].expected = plans[call[r].plan].version
  <1>1. /\ row[r] = plans[call[r].plan]
        /\ pc[r] = "flushed"
    BY CommitEffect
  <1>2. Accepts(r, row[r])
    BY <1>1 DEF IInv, CopyInv, HoldsCopy, CopyOK
  <1>3. QED
    BY <1>1, <1>2 DEF Accepts, MaySolve, MayChangeStatus, ExpectedVersionHolds

LEMMA CommitKeepsReview ==
    ASSUME IInv, AnswerInv, NEW r \in Requests, Commit(r)
    PROVE  SeenInv' /\ WroteInv' /\ WrittenOnWhatWasReviewed'
  <1>0. /\ call' = call
        /\ pc[r] = "flushed" /\ pc' = [pc EXCEPT ![r] = "committed"]
        /\ \A s \in Requests : pc[s] # "idle" => call[s] \in Call
        /\ \A q \in Plans : plans[q].version \in Nat /\ plans'[q].version \in Nat
        /\ \A q \in Plans : plans[q].version <= plans'[q].version
        /\ pc \in [Requests -> PCs]
    BY CommitEffect DEF IInv, TypeInv, TypeOK, CallMade, PlanRow, ledger!PlanRow
  <1>1. ASSUME NEW s \in Requests, pc'[s] # "idle", call[s].expected # 0
        PROVE  /\ call[s].plan \in Plans /\ call[s].expected \in Nat
               /\ call[s].expected <= plans[call[s].plan].version
               /\ call[s].expected <= plans'[call[s].plan].version
               /\ ShownAt(call[s].plan, call[s].expected, call[s].seen)'
    <2>1. /\ pc[s] # "idle"
          /\ call[s].plan \in Plans
          /\ call[s].expected \in Nat
      BY <1>0, <1>1 DEF Call
    <2>2. /\ call[s].expected <= plans[call[s].plan].version
          /\ ShownAt(call[s].plan, call[s].expected, call[s].seen)
      BY <1>1, <2>1 DEF AnswerInv, SeenInv
    <2>3. ASSUME NEW q \in Plans, NEW v \in Nat, v <= plans[q].version, NEW t,
                 ShownAt(q, v, t)
          PROVE  ShownAt(q, v, t)'
      BY <2>3, ShownStable
    <2>4. PICK q \in Plans, v \in Nat, t \in ledger!Solution :
             q = call[s].plan /\ v = call[s].expected /\ t = call[s].seen
      BY <1>0, <2>1 DEF Call
    <2>5. ShownAt(q, v, t)'
      BY <2>2, <2>3, <2>4
    <2>6. QED
      BY <1>0, <2>1, <2>2, <2>4, <2>5
  <1>2. SeenInv'
    BY <1>0, <1>1 DEF SeenInv
  <1>3. \A e \in Entries : e.by \in Requests /\ pc'[e.by] # "idle"
    BY <1>0 DEF IInv, EntriesInv, TypeInv, TypeOK, Entries, ledger!Entry
  <1>4. WroteInv /\ WrittenOnWhatWasReviewed
    BY DEF AnswerInv
  <1>5. WroteInv'
    BY <1>0, <1>4, CommitRecords, CommitExpected DEF WroteInv
  <1>6. \A e \in Entries' : e.by \in Requests /\ pc'[e.by] # "idle"
    BY <1>0, <1>3, CommitRecords
  <1>7. WrittenOnWhatWasReviewed'
    <2>1. ASSUME NEW e \in Entries', call'[e.by].expected # 0
          PROVE  /\ e.version = call'[e.by].expected + 1
                 /\ ShownAt(e.plan, call[e.by].expected, call[e.by].seen)'
      <3>1. e.version = call'[e.by].expected + 1 /\ e.plan = call'[e.by].plan
        BY <1>5, <2>1 DEF WroteInv
      <3>2. PICK s \in Requests : s = e.by
        BY <1>6, <2>1
      <3>3. ShownAt(call[s].plan, call[s].expected, call[s].seen)'
        BY <1>0, <1>1, <1>6, <2>1, <3>2
      <3>4. QED
        BY <1>0, <3>1, <3>2, <3>3
    <2>2. QED
      BY <2>1 DEF WrittenOnWhatWasReviewed
  <1>8. QED
    BY <1>2, <1>5, <1>7

LEMMA CommitKeepsAnswers ==
    ASSUME IInv, AnswerInv, NEW r \in Requests, Commit(r)
    PROVE  RecordInv' /\ ReplyInv' /\ AnswersMatchLedger'
  <1>0. /\ call' = call /\ reply' = reply
        /\ pc[r] = "flushed" /\ pc' = [pc EXCEPT ![r] = "committed"]
        /\ pc \in [Requests -> PCs]
        /\ \A s \in Requests : pc[s] # "idle" => call[s] \in Call
        /\ \A q \in Plans : plans[q].version \in Nat /\ plans'[q].version \in Nat
        /\ \A q \in Plans : plans[q].version <= plans'[q].version
        /\ \A s \in Requests : reply[s].version \in Nat /\ reply[s].solution \in ledger!Solution
        /\ RecordInv /\ ReplyInv /\ AnswersMatchLedger
    <2>1. reply' = reply
      BY DEF Commit, CommitCreate, CommitSolve, CommitConfirm, CommitReopen, CommitStatus
    <2>2. /\ plans \in [Plans -> PlanRow] /\ plans' \in [Plans -> PlanRow]
          /\ pc \in [Requests -> PCs] /\ reply \in [Requests -> Reply]
          /\ \A s \in Requests : pc[s] # "idle" => call[s] \in Call
          /\ RecordInv /\ ReplyInv /\ AnswersMatchLedger
      BY CommitEffect DEF IInv, TypeInv, TypeOK, CallMade, AnswerInv
    <2>3. /\ \A q \in Plans : plans[q].version \in Nat /\ plans'[q].version \in Nat
          /\ \A s \in Requests : reply[s].version \in Nat /\ reply[s].solution \in ledger!Solution
      BY <2>2 DEF PlanRow, ledger!PlanRow, Reply
    <2>4. \A q \in Plans : plans[q].version <= plans'[q].version
      BY <2>3, CommitEffect
    <2>5. QED
      BY <2>1, <2>2, <2>3, <2>4, CommitEffect
  <1>1. Entries \subseteq Entries' /\ \A e \in Entries' \ Entries : e.by = r
    BY CommitRecords
  <1>2. RecordInv'
    <2>1. ASSUME NEW e \in Entries', NEW f \in Entries', e.by = f.by PROVE e = f
      <3>1. CASE Entries' = Entries
        BY <1>0, <2>1, <3>1 DEF RecordInv
      <3>2. ASSUME NEW new, Entries' = Entries \cup {new}, new.by = r PROVE e = f
        BY <1>0, <2>1, <3>2, EntryIsNew DEF RecordInv
      <3>3. QED
        BY <3>1, <3>2, CommitRecords
    <2>2. ASSUME NEW s \in Requests, pc'[s] = "committed", call'[s].op # "create"
          PROVE  \E e \in Entries' : e.by = s
      <3>1. CASE s = r
        BY <1>0, <2>2, <3>1, CommitRecords
      <3>2. CASE s # r
        BY <1>0, <1>1, <2>2, <3>2 DEF RecordInv
      <3>3. QED
        BY <3>1, <3>2
    <2>3. QED
      BY <2>1, <2>2 DEF RecordInv
  <1>3. \A s \in Requests : reply[s].code # "none" => s # r /\ pc[s] = "done"
    BY <1>0 DEF ReplyInv
  <1>4. ASSUME NEW s \in Requests, reply[s].code = "ok"
        PROVE  /\ call[s].plan \in Plans
               /\ reply[s].version <= plans[call[s].plan].version
    BY <1>0, <1>3, <1>4 DEF ReplyInv, Call
  <1>5. ReplyInv'
    <2>1. ASSUME NEW s \in Requests, reply[s].code # "none" PROVE pc'[s] = "done"
      BY <1>0, <1>3, <2>1
    <2>2. ASSUME NEW s \in Requests, reply[s].code = "ok"
          PROVE  reply[s].version <= plans'[call[s].plan].version
      BY <1>0, <1>4, <2>2
    <2>3. QED
      BY <1>0, <2>1, <2>2 DEF ReplyInv
  <1>6. AnswersMatchLedger'
    <2>1. ASSUME NEW s \in Requests
          PROVE  LET mine == {e \in Entries' : e.by = s}
                 IN  /\ \A e, f \in mine : e = f
                     /\ reply[s].code \notin {"none", "ok"} => mine = {}
                     /\ reply[s].code = "ok" =>
                          /\ ShownAt(call[s].plan, reply[s].version, reply[s].solution)'
                          /\ call[s].op # "create" => \E e \in mine : e.version <= reply[s].version
      <3>1. \A e, f \in {x \in Entries' : x.by = s} : e = f
        BY <1>2 DEF RecordInv
      <3>2. ASSUME reply[s].code # "none"
            PROVE  {e \in Entries' : e.by = s} = {e \in Entries : e.by = s}
        BY <1>1, <1>3, <3>2
      <3>3. ASSUME reply[s].code = "ok"
            PROVE  ShownAt(call[s].plan, reply[s].version, reply[s].solution)'
        <4>1. PICK q \in Plans, v \in Nat, t \in ledger!Solution :
                 q = call[s].plan /\ v = reply[s].version /\ t = reply[s].solution
          BY <1>0, <1>4, <3>3
        <4>2. ShownAt(q, v, t)
          BY <1>0, <3>3, <4>1 DEF AnswersMatchLedger
        <4>3. ShownAt(q, v, t)'
          BY <1>4, <3>3, <4>1, <4>2, ShownStable
        <4>4. QED
          BY <1>0, <4>1, <4>3
      <3>4. QED
        BY <1>0, <3>1, <3>2, <3>3 DEF AnswersMatchLedger
    <2>2. QED
      BY <1>0, <2>1 DEF AnswersMatchLedger
  <1>7. QED
    BY <1>2, <1>5, <1>6

LEMMA CommitKeepsConflicts ==
    ASSUME IInv, AnswerInv, NEW r \in Requests, Commit(r)
    PROVE  OldRowInv' /\ StaleMeansOvertaken'
  <1>0. /\ call' = call /\ reply' = reply /\ row' = row
        /\ pc[r] = "flushed" /\ pc' = [pc EXCEPT ![r] = "committed"]
        /\ pc \in [Requests -> PCs]
        /\ \A s \in Requests : pc[s] # "idle" => call[s] \in Call
        /\ \A q \in Plans \ {call[r].plan} : plans'[q] = plans[q]
        /\ plans'[call[r].plan].status # "ABSENT"
        /\ ReplyInv /\ OldRowInv /\ StaleMeansOvertaken
    <2>1. reply' = reply
      BY DEF Commit, CommitCreate, CommitSolve, CommitConfirm, CommitReopen, CommitStatus
    <2>2. QED
      BY <2>1, CommitEffect DEF IInv, TypeInv, TypeOK, CallMade, AnswerInv
  <1>1. OldRowInv'
    BY <1>0 DEF OldRowInv, HoldsCopy
  <1>2. Entries \subseteq Entries'
    BY CommitRecords
  <1>3. StaleMeansOvertaken'
    <2>1. ASSUME NEW s \in Requests, reply[s].code = "stale"
          PROVE  IF call[s].op = "create"
                 THEN plans'[call[s].plan].status # "ABSENT"
                 ELSE \E e \in EntriesOf(call[s].plan)' : e.version = NextVersion(s)'
                                                          /\ e.by # s
      <3>1. call[s].plan \in Plans
        BY <1>0, <2>1 DEF ReplyInv, Call
      <3>2. CASE call[s].op = "create"
        BY <1>0, <2>1, <3>1, <3>2 DEF StaleMeansOvertaken
      <3>3. CASE call[s].op # "create"
        <4>1. PICK e \in EntriesOf(call[s].plan) : e.version = NextVersion(s) /\ e.by # s
          BY <1>0, <2>1, <3>3 DEF StaleMeansOvertaken
        <4>2. e \in EntriesOf(call[s].plan)' /\ NextVersion(s)' = NextVersion(s)
          BY <1>0, <1>2 DEF EntriesOf, NextVersion
        <4>3. QED
          BY <3>3, <4>1, <4>2
      <3>4. QED
        BY <3>2, <3>3
    <2>2. QED
      BY <1>0, <2>1 DEF StaleMeansOvertaken
  <1>4. QED
    BY <1>1, <1>3

-----------------------------------------------------------------------------
(* Everything else                                                            *)

\* A step that leaves the database alone, seen from the requests: only its own
\* request moves, and a request keeps its call once it is sent.
LEMMA QuietMoves ==
    ASSUME IInv, NEW r \in Requests, Quiet(r)
    PROVE  /\ UNCHANGED <<plans, runs, events>>
           /\ pc \in [Requests -> PCs]
           /\ \A s \in Requests \ {r} : /\ pc'[s] = pc[s] /\ call'[s] = call[s]
                                        /\ row'[s] = row[s] /\ reply'[s] = reply[s]
           /\ pc[r] # "idle" => call'[r] = call[r]
           /\ pc[r] # "done" /\ pc'[r] # "idle" /\ pc'[r] # "committed"
  <1>1. UNCHANGED <<plans, runs, events>>
    BY QuietFrame DEF db
  <1>2. /\ pc \in [Requests -> PCs] /\ row \in [Requests -> PlanRow]
        /\ call \in [Requests -> Call \cup {NoCall}] /\ reply \in [Requests -> Reply]
    BY DEF IInv, TypeInv, TypeOK
  <1>3. CASE \E op \in Ops, p \in Plans : Send(r, op, p)
    BY <1>1, <1>2, <1>3 DEF Send
  <1>4. CASE BuildPlan(r) \/ LoadAccepted(r) \/ Flush(r)
    BY <1>1, <1>2, <1>4 DEF BuildPlan, LoadAccepted, Flush, Goto
  <1>5. CASE LoadMissing(r) \/ LoadRefused(r) \/ SolverFails(r) \/ FlushConflict(r) \/ Refresh(r)
    BY <1>1, <1>2, <1>5
       DEF LoadMissing, LoadRefused, SolverFails, FlushConflict, Refresh, Finish, Goto
  <1>6. CASE Die(r)
    BY <1>1, <1>2, <1>6 DEF Die, Goto, InFlight
  <1>7. QED
    BY <1>1, <1>2, <1>3, <1>4, <1>5, <1>6 DEF Quiet

LEMMA QuietKeepsLedgerFacts ==
    ASSUME IInv, AnswerInv, NEW r \in Requests, Quiet(r)
    PROVE  PlanMatchesLedger' /\ HistoryOfLastLegacyRun' /\ WroteInv'
           /\ WrittenOnWhatWasReviewed' /\ RecordInv'
  <1>1. /\ UNCHANGED <<plans, runs, events>>
        /\ PlanMatchesLedger /\ HistoryOfLastLegacyRun /\ WroteInv
        /\ WrittenOnWhatWasReviewed /\ RecordInv
    BY QuietMoves DEF AnswerInv
  <1>2. \A e \in Entries : call'[e.by] = call[e.by]
    <2>1. \A e \in Entries : e.by \in Requests /\ pc[e.by] # "idle"
      BY DEF IInv, EntriesInv, TypeInv, TypeOK, Entries, ledger!Entry
    <2>2. QED
      BY <2>1, QuietMoves
  <1>3. PlanMatchesLedger'
    BY <1>1 DEF PlanMatchesLedger, ShownAt, RunsUpTo, EntriesOf, Entries
  <1>4. HistoryOfLastLegacyRun'
    <2>1. \A p \in Plans : {e \in runs' : e.plan = p /\ call'[e.by].op = "solve"}
                             = {e \in runs : e.plan = p /\ call[e.by].op = "solve"}
      BY <1>1, <1>2 DEF Entries
    <2>2. QED
      BY <1>1, <2>1 DEF HistoryOfLastLegacyRun
  <1>5. WroteInv' /\ WrittenOnWhatWasReviewed'
    BY <1>1, <1>2 DEF WroteInv, WrittenOnWhatWasReviewed, ShownAt, RunsUpTo, Entries
  <1>6. RecordInv'
    <2>1. ASSUME NEW s \in Requests, pc'[s] = "committed", call'[s].op # "create"
          PROVE  \E e \in Entries' : e.by = s
      <3>1. s # r /\ pc[s] = "committed" /\ call[s].op # "create"
        BY <2>1, QuietMoves
      <3>2. QED
        BY <1>1, <3>1 DEF RecordInv, Entries
    <2>2. QED
      BY <1>1, <2>1 DEF RecordInv, Entries
  <1>7. QED
    BY <1>3, <1>4, <1>5, <1>6

\* A client sends what it has read; the plan shows that for this version.
LEMMA QuietKeepsSeen ==
    ASSUME IInv, AnswerInv, NEW r \in Requests, Quiet(r)
    PROVE  SeenInv'
  <1>1. SUFFICES ASSUME NEW s \in Requests, pc'[s] # "idle", call'[s].expected # 0
                 PROVE  /\ call'[s].expected <= plans[call'[s].plan].version
                        /\ ShownAt(call'[s].plan, call'[s].expected, call'[s].seen)
    BY QuietMoves DEF SeenInv, ShownAt, RunsUpTo
  <1>2. CASE pc[s] # "idle"
    <2>1. call'[s] = call[s]
      BY <1>2, QuietMoves
    <2>2. QED
      BY <1>1, <1>2, <2>1 DEF AnswerInv, SeenInv
  <1>3. CASE pc[s] = "idle"
    <2>1. s = r
      BY <1>1, <1>3, QuietMoves
    <2>2. PICK op \in Ops, p \in Plans : Send(r, op, p)
      BY <1>3, <2>1 DEF Quiet, BuildPlan, LoadMissing, LoadRefused, LoadAccepted, SolverFails,
         Flush, FlushConflict, Refresh, Die, InFlight
    <2>3. call'[r] = [op |-> op, plan |-> p, expected |-> plans[p].version,
                      seen |-> plans[p].solution]
      <3>1. call \in [Requests -> Call \cup {NoCall}]
        BY DEF IInv, TypeInv, TypeOK
      <3>2. QED
        BY <1>1, <2>1, <2>2, <3>1 DEF Send
    <2>4. ShownAt(p, plans[p].version, plans[p].solution) /\ plans[p].version \in Nat
      BY DEF AnswerInv, PlanMatchesLedger, IInv, TypeInv, TypeOK, PlanRow, ledger!PlanRow
    <2>5. QED
      BY <2>1, <2>3, <2>4
  <1>4. QED
    BY <1>2, <1>3

LEMMA QuietKeepsAnswers ==
    ASSUME IInv, AnswerInv, NEW r \in Requests, Quiet(r)
    PROVE  ReplyInv' /\ AnswersMatchLedger'
  <1>0. /\ UNCHANGED <<plans, runs, events>>
        /\ reply \in [Requests -> Reply]
        /\ RecordInv /\ ReplyInv /\ AnswersMatchLedger /\ PlanMatchesLedger
        /\ \A e \in Entries : pc[e.by] \in {"committed", "done", "lost"}
        /\ \A p \in Plans : plans[p].version \in Nat
        /\ \A e \in Entries : \A p \in Plans : e.plan = p => e.version <= plans[p].version
    BY QuietMoves, AllRunsReached
       DEF AnswerInv, IInv, TypeInv, TypeOK, EntriesInv, PlanRow, ledger!PlanRow, EntriesOf
  <1> DEFINE Honest(s) ==
               LET mine == {e \in Entries : e.by = s}
               IN  /\ reply[s].code # "none" => pc[s] = "done"
                   /\ reply[s].code \notin {"none", "ok"} => mine = {}
                   /\ reply[s].code = "ok" =>
                        /\ reply[s].version <= plans[call[s].plan].version
                        /\ ShownAt(call[s].plan, reply[s].version, reply[s].solution)
                        /\ call[s].op # "create" => \E e \in mine : e.version <= reply[s].version
  <1>1. ASSUME NEW s \in Requests PROVE Honest(s)
    BY <1>0 DEF ReplyInv, AnswersMatchLedger
  <1>2. Entries' = Entries
    BY <1>0 DEF Entries
  <1>3. ASSUME NEW s \in Requests \ {r} PROVE Honest(s)'
    <2>1. /\ pc'[s] = pc[s] /\ call'[s] = call[s] /\ reply'[s] = reply[s]
      BY QuietMoves
    <2>2. QED
      BY <1>0, <1>1, <1>2, <2>1 DEF ShownAt, RunsUpTo
  <1>4. Honest(r)'
    <2>1. CASE reply' = reply
      <3>1. reply[r].code = "none"
        BY <1>1, QuietMoves
      <3>2. QED
        BY <2>1, <3>1
    <2>2. CASE LoadMissing(r) \/ LoadRefused(r) \/ SolverFails(r) \/ FlushConflict(r)
      <3>1. PICK code \in Codes \ {"none", "ok"} : Finish(r, Answer(code))
        BY <2>2 DEF LoadMissing, LoadRefused, SolverFails, FlushConflict, Codes
      <3>2. /\ pc'[r] = "done" /\ reply'[r].code = code
        BY <1>0, <3>1, QuietMoves DEF Finish, Goto, Answer
      <3>3. pc[r] \in {"sent", "decided"}
        BY <2>2 DEF LoadMissing, LoadRefused, SolverFails, FlushConflict
      <3>4. {e \in Entries : e.by = r} = {}
        BY <1>0, <3>3
      <3>5. QED
        BY <1>2, <3>1, <3>2, <3>4
    <2>3. CASE Refresh(r)
      <3>1. PICK p \in Plans : p = call[r].plan
        BY <2>3 DEF Refresh, IInv, TypeInv, CallMade, Call
      <3>2. /\ pc[r] = "committed" /\ pc'[r] = "done" /\ call'[r] = call[r]
            /\ reply'[r].code = "ok" /\ reply'[r].version = plans[p].version
            /\ reply'[r].solution = plans[p].solution
        BY <1>0, <2>3, <3>1, QuietMoves DEF Refresh, Finish, Goto
      <3>3. ShownAt(p, plans[p].version, plans[p].solution)'
        BY <1>0 DEF PlanMatchesLedger, ShownAt, RunsUpTo
      <3>4. ASSUME call[r].op # "create"
            PROVE  \E e \in Entries : e.by = r /\ e.version <= plans[p].version
        <4>1. PICK e \in Entries : e.by = r
          BY <1>0, <3>2, <3>4 DEF RecordInv
        <4>2. e.plan = p
          BY <3>1, <4>1 DEF AnswerInv, WroteInv
        <4>3. QED
          BY <1>0, <4>1, <4>2
      <3>5. QED
        BY <1>0, <1>2, <3>1, <3>2, <3>3, <3>4 DEF ShownAt, RunsUpTo
    <2>4. QED
      BY <2>1, <2>2, <2>3
         DEF Quiet, Send, BuildPlan, LoadAccepted, Flush, Die
  <1>5. \A s \in Requests : Honest(s)'
    BY <1>3, <1>4
  <1>6. RecordInv'
    BY QuietKeepsLedgerFacts
  <1>7. ReplyInv'
    BY <1>5 DEF ReplyInv
  <1>8. AnswersMatchLedger'
    BY <1>5, <1>6 DEF AnswersMatchLedger, RecordInv
  <1>9. QED
    BY <1>7, <1>8

LEMMA QuietKeepsConflicts ==
    ASSUME IInv, AnswerInv, NEW r \in Requests, Quiet(r)
    PROVE  OldRowInv' /\ StaleMeansOvertaken'
  <1>0. /\ UNCHANGED <<plans, runs, events>> /\ Entries' = Entries
        /\ reply \in [Requests -> Reply] /\ row \in [Requests -> PlanRow]
        /\ pc \in [Requests -> PCs]
        /\ \A s \in Requests : pc[s] # "idle" => call[s] \in Call
        /\ ReplyInv /\ OldRowInv /\ StaleMeansOvertaken /\ RowsInv /\ CopyInv
        /\ \A p \in Plans : plans[p].version \in Nat
        /\ \A e \in Entries : pc[e.by] \in {"committed", "done", "lost"}
    BY QuietMoves
       DEF AnswerInv, IInv, TypeInv, TypeOK, CallMade, EntriesInv, Entries,
           PlanRow, ledger!PlanRow
  <1> DEFINE Works(s) == HoldsCopy(s) /\ call[s].op # "create" => row[s].version >= 1
             Overtaken(s) ==
               reply[s].code = "stale" =>
                 IF call[s].op = "create"
                 THEN plans[call[s].plan].status # "ABSENT"
                 ELSE \E e \in EntriesOf(call[s].plan) : e.version = NextVersion(s) /\ e.by # s
  <1>1. \A s \in Requests : Works(s) /\ Overtaken(s)
    BY <1>0 DEF OldRowInv, StaleMeansOvertaken
  <1>2. ASSUME NEW s \in Requests \ {r} PROVE Works(s)' /\ Overtaken(s)'
    <2>1. /\ pc'[s] = pc[s] /\ call'[s] = call[s]
          /\ row'[s] = row[s] /\ reply'[s] = reply[s]
      BY QuietMoves
    <2>2. QED
      BY <1>0, <1>1, <2>1 DEF HoldsCopy, EntriesOf, NextVersion
  <1>3. Works(r)'
    <2>1. CASE BuildPlan(r)
      BY <2>1 DEF BuildPlan
    <2>2. CASE LoadAccepted(r)
      <3>1. /\ row'[r] = plans[call[r].plan] /\ call' = call
            /\ call[r].plan \in Plans /\ plans[call[r].plan].status # "ABSENT"
        BY <1>0, <2>2 DEF LoadAccepted, Call
      <3>2. QED
        BY <1>0, <3>1 DEF RowsInv
    <2>3. CASE Flush(r)
      <3>1. HoldsCopy(r) /\ row' = row /\ call' = call
        BY <2>3 DEF Flush, HoldsCopy
      <3>2. QED
        BY <1>1, <3>1
    <2>4. CASE ~ HoldsCopy(r)'
      BY <2>4
    <2>5. QED
      BY <1>0, <2>1, <2>2, <2>3, <2>4
         DEF Quiet, Send, LoadMissing, LoadRefused, SolverFails, FlushConflict, Refresh, Die,
             Finish, Goto, HoldsCopy
  <1>4. Overtaken(r)'
    <2>1. CASE reply' = reply
      <3>1. reply[r].code = "none"
        BY <1>0, QuietMoves DEF ReplyInv
      <3>2. QED
        BY <2>1, <3>1
    <2>2. CASE LoadMissing(r) \/ LoadRefused(r) \/ SolverFails(r) \/ Refresh(r)
      <3>1. reply'[r].code # "stale"
        BY <1>0, <2>2 DEF LoadMissing, LoadRefused, SolverFails, Refresh, Finish, Answer
      <3>2. QED
        BY <3>1
    <2>3. CASE FlushConflict(r)
      <3>1. /\ pc[r] = "decided" /\ call' = call /\ row' = row /\ Conflict(r)
        BY <2>3 DEF FlushConflict
      <3>2. PICK p \in Plans : p = call[r].plan
        BY <1>0, <3>1 DEF Call
      <3>3. /\ CopyOK(r) /\ Works(r) /\ row[r].version \in Nat /\ plans[p].version \in Nat
        BY <1>0, <1>1, <3>1, <3>2 DEF CopyInv, HoldsCopy, PlanRow, ledger!PlanRow
      <3>4. \A e \in EntriesOf(p) : e.version \in 2 .. plans[p].version /\ e.by # r
        BY <1>0, <3>1, AllRunsReached DEF EntriesOf
      <3>5. CASE call[r].op = "create"
        <4>1. row[r] = NoRow /\ NoRow.version = 0
          BY <3>3, <3>5 DEF CopyOK, NoRow, ledger!NoRow
        <4>2. ~ VersionTaken(r)
          BY <3>2, <3>4, <4>1 DEF VersionTaken, NextVersion, EntriesOf, Entries
        <4>3. plans[p].version # 0
          BY <3>1, <3>2, <4>1, <4>2 DEF Conflict, RowChanged
        <4>4. plans[p].status # "ABSENT"
          BY <1>0, <4>3 DEF RowsInv
        <4>5. QED
          BY <1>0, <3>1, <3>2, <3>5, <4>4
      <3>6. CASE call[r].op # "create"
        <4>1. row[r].version >= 1 /\ row[r].version <= plans[p].version
          BY <3>1, <3>2, <3>3, <3>6 DEF CopyOK, HoldsCopy
        <4>2. \E e \in EntriesOf(p) : e.version = NextVersion(r)
          <5>1. CASE VersionTaken(r)
            BY <3>2, <5>1 DEF VersionTaken, EntriesOf, Entries
          <5>2. CASE RowChanged(r)
            <6>1. NextVersion(r) \in 2 .. plans[p].version
              BY <3>2, <3>3, <4>1, <5>2 DEF RowChanged, NextVersion
            <6>2. QED
              BY <6>1 DEF IInv, LedgerComplete
          <5>3. QED
            BY <3>1, <5>1, <5>2 DEF Conflict
        <4>3. PICK e \in EntriesOf(p) : e.version = NextVersion(r) /\ e.by # r
          BY <3>4, <4>2
        <4>4. e \in EntriesOf(call[r].plan)' /\ NextVersion(r)' = NextVersion(r)
          BY <1>0, <3>1, <3>2, <4>3 DEF EntriesOf, NextVersion
        <4>5. QED
          BY <3>1, <3>6, <4>3, <4>4
      <3>7. QED
        BY <3>5, <3>6
    <2>4. QED
      BY <2>1, <2>2, <2>3
         DEF Quiet, Send, BuildPlan, LoadAccepted, Flush, Die
  <1>5. \A s \in Requests : Works(s)' /\ Overtaken(s)'
    BY <1>2, <1>3, <1>4
  <1>6. QED
    BY <1>5 DEF OldRowInv, StaleMeansOvertaken

LEMMA NextAnswerInv == IInv /\ AnswerInv /\ [Next]_vars => AnswerInv'
  <1> SUFFICES ASSUME IInv, AnswerInv, [Next]_vars PROVE AnswerInv'
    OBVIOUS
  <1>1. ASSUME NEW r \in Requests, Commit(r) PROVE AnswerInv'
    BY <1>1, CommitKeepsMatch, CommitKeepsHistory, CommitKeepsReview, CommitKeepsAnswers,
       CommitKeepsConflicts DEF AnswerInv
  <1>2. ASSUME NEW r \in Requests, Quiet(r) PROVE AnswerInv'
    BY <1>2, QuietKeepsLedgerFacts, QuietKeepsSeen, QuietKeepsAnswers, QuietKeepsConflicts
       DEF AnswerInv
  <1>3. CASE UNCHANGED vars
    <2>1. /\ PlanMatchesLedger' /\ HistoryOfLastLegacyRun'
      BY <1>3 DEF AnswerInv, vars, PlanMatchesLedger, HistoryOfLastLegacyRun, ShownAt,
         RunsUpTo, EntriesOf, Entries
    <2>2. SeenInv' /\ WroteInv' /\ WrittenOnWhatWasReviewed'
      BY <1>3 DEF AnswerInv, vars, SeenInv, WroteInv, WrittenOnWhatWasReviewed, ShownAt,
         RunsUpTo, Entries
    <2>3. RecordInv' /\ ReplyInv' /\ AnswersMatchLedger'
      BY <1>3 DEF AnswerInv, vars, RecordInv, ReplyInv, AnswersMatchLedger, ShownAt,
         RunsUpTo, Entries
    <2>4. OldRowInv' /\ StaleMeansOvertaken'
      BY <1>3 DEF AnswerInv, vars, OldRowInv, HoldsCopy, StaleMeansOvertaken, EntriesOf,
         Entries, NextVersion
    <2>5. QED
      BY <2>1, <2>2, <2>3, <2>4 DEF AnswerInv
  <1>4. QED
    BY <1>1, <1>2, <1>3, NextSplit

\* What the answers, the reviews and the payload rest on.
THEOREM AnswersAreKept == Spec => []AnswerInv
  BY InitAnswerInv, NextAnswerInv, Inductive, PTL DEF Spec

\* The plan row is what its ledger says: status of the last entry, solution of
\* the latest run.
THEOREM RowMatchesLedger == Spec => []PlanMatchesLedger
  <1>1. AnswerInv => PlanMatchesLedger
    BY DEF AnswerInv
  <1>2. QED
    BY <1>1, AnswersAreKept, PTL

\* The fairness history in the payload is that of the latest legacy run.
THEOREM HistoryIsOfLastLegacyRun == Spec => []HistoryOfLastLegacyRun
  <1>1. AnswerInv => HistoryOfLastLegacyRun
    BY DEF AnswerInv
  <1>2. QED
    BY <1>1, AnswersAreKept, PTL

\* What carries a version changes exactly the state its client was looking at.
THEOREM NothingSlipsIn == Spec => []WrittenOnWhatWasReviewed
  <1>1. AnswerInv => WrittenOnWhatWasReviewed
    BY DEF AnswerInv
  <1>2. QED
    BY <1>1, AnswersAreKept, PTL

\* A 200 is recorded once and shows a state the plan was in; an error left no
\* trace.
THEOREM AnswersAreHonest == Spec => []AnswersMatchLedger
  <1>1. AnswerInv => AnswersMatchLedger
    BY DEF AnswerInv
  <1>2. QED
    BY <1>1, AnswersAreKept, PTL

\* A 409 of the database is given only to a request that another one overtook.
THEOREM StaleIsNeverSpurious == Spec => []StaleMeansOvertaken
  <1>1. AnswerInv => StaleMeansOvertaken
    BY DEF AnswerInv
  <1>2. QED
    BY <1>1, AnswersAreKept, PTL
=============================================================================
