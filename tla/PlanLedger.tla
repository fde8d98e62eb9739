----------------------------- MODULE PlanLedger -----------------------------
(* What the day-plan API promises: every plan is a little state machine       *)
(*        ABSENT -> DRAFT -> SOLVED <-> CONFIRMED      (SOLVED -> SOLVED too) *)
(* and each accepted request moves it by one version in one indivisible step *)
(* that also leaves one entry in the plan's ledger (the rows of             *)
(* day_plan_runs and day_plan_events).  DayPlans implements it with          *)
(* concurrent requests, stale copies and transactions.                       *)
EXTENDS Integers

CONSTANTS Plans,      \* the (school, date) pairs that may get a plan
          Requests,   \* the requests that may ever be made, each at most once
          Initial     \* stands for whatever a client put in a new plan's payload

VARIABLES plans,      \* plans[p]: the row of table day_plans for p
          entries     \* the rows of tables day_plan_runs and day_plan_events

ledgerVars == <<plans, entries>>

Statuses == {"ABSENT", "DRAFT", "SOLVED", "CONFIRMED"}
Kinds    == {"RUN", "CONFIRMED", "REOPENED"}

\* A solver result is named by the request that computed it.
Solution == Requests \cup {Initial}

PlanRow == [status: Statuses, version: Nat, solution: Solution, history: Solution]
NoRow   == [status |-> "ABSENT", version |-> 0, solution |-> Initial, history |-> Initial]
NewRow  == [status |-> "DRAFT", version |-> 1, solution |-> Initial, history |-> Initial]

Entry == [plan: Plans, version: Nat, kind: Kinds, by: Requests]

LedgerInit ==
    /\ plans \in [Plans -> {NoRow, NewRow}]
    /\ entries = {}

Unused(r) == \A e \in entries : e.by # r

Record(p, kind, r) ==
    /\ Unused(r)
    /\ entries' = entries \cup
         {[plan |-> p, version |-> plans[p].version + 1, kind |-> kind, by |-> r]}

CreatePlan(p) ==
    /\ plans[p].status = "ABSENT"
    /\ plans' = [plans EXCEPT ![p] = NewRow]
    /\ UNCHANGED entries

\* Only the legacy engine writes the payload's fairness_history.
SolvePlan(p, r, history) ==
    /\ plans[p].status \in {"DRAFT", "SOLVED"}
    /\ history \in {r, plans[p].history}
    /\ plans' = [plans EXCEPT ![p] =
                   [status |-> "SOLVED", version |-> plans[p].version + 1,
                    solution |-> r, history |-> history]]
    /\ Record(p, "RUN", r)

ChangeStatus(p, r, from, to, kind) ==
    /\ plans[p].status = from
    /\ plans' = [plans EXCEPT ![p] =
                   [plans[p] EXCEPT !.status = to, !.version = @ + 1]]
    /\ Record(p, kind, r)

LedgerNext ==
    \E p \in Plans :
        \/ CreatePlan(p)
        \/ \E r \in Requests :
              \/ \E h \in Solution : SolvePlan(p, r, h)
              \/ ChangeStatus(p, r, "SOLVED", "CONFIRMED", "CONFIRMED")
              \/ ChangeStatus(p, r, "CONFIRMED", "SOLVED", "REOPENED")

LedgerSpec == LedgerInit /\ [][LedgerNext]_ledgerVars
=============================================================================
