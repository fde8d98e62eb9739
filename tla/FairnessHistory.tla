--------------------------- MODULE FairnessHistory ---------------------------
(* How many substitutions a teacher has had in the 7 and the 30 days before a *)
(* date: _recent_substitution_counts of api/app.py and api/academic.py and    *)
(* substitution_statistics of api/plan_insights.py, the same loop three times.*)
(* One SELECT without ORDER BY returns the runs of the days in the window in  *)
(* whatever order; the loop keeps the latest run of each plan and counts.     *)
(* Plans are solved again while it runs.                                      *)
EXTENDS Integers, FiniteSets

CONSTANTS Plans,      \* the day plans of the school
          Date,       \* Date[p]: the day of plan p, as a number
          Teachers,   \* the teachers
          Outcomes,   \* the substitutions a run may have: sets of <<activity, teacher>>
          Asked,      \* the dates that are asked about
          MaxVersion  \* bound: the highest version a plan reaches

\* Dates are numbers of days; a run has finitely many substitutions.
ASSUME HistoryAssumption ==
    /\ \A p \in Plans : Date[p] \in Int
    /\ Asked \subseteq Int
    /\ \A subs \in Outcomes : IsFiniteSet(subs) /\ \A sub \in subs : sub = <<sub[1], sub[2]>>

VARIABLES runs,       \* table day_plan_runs: [plan, version, subs]
          pc,         \* how far the counting has come
          day,        \* plan_date of the request
          rows,       \* the rows of the SELECT that the first loop has still to take
          latest,     \* latest_by_plan, a set with at most one run of each plan
          counts7, counts30,
          selected    \* history: the table as the SELECT saw it

vars     == <<runs, pc, day, rows, latest, counts7, counts30, selected>>
counting == <<day, rows, latest, counts7, counts30, selected>>

Run    == [plan: Plans, version: 2 .. MaxVersion, subs: Outcomes]
Nobody == [t \in Teachers |-> 0]

TypeOK ==
    /\ runs \subseteq Run
    /\ pc \in {"idle", "latest", "count", "done"}
    /\ day \in Asked \cup {0}
    /\ rows \subseteq Run
    /\ latest \subseteq Run
    /\ \A p \in Plans : Cardinality({run \in latest : run.plan = p}) <= 1
    /\ counts7 \in [Teachers -> Nat]
    /\ counts30 \in [Teachers -> Nat]
    /\ selected \subseteq Run

Init ==
    /\ runs = {}
    /\ pc = "idle"
    /\ day = 0
    /\ rows = {}
    /\ latest = {}
    /\ counts7 = Nobody
    /\ counts30 = Nobody
    /\ selected = {}

\* A plan is solved, again; confirmations and reopenings in between have taken
\* versions of their own.
Solve(p, version, subs) ==
    /\ \A run \in runs : run.plan = p => run.version < version
    /\ runs' = runs \cup {[plan |-> p, version |-> version, subs |-> subs]}
    /\ UNCHANGED <<pc, counting>>

From(date, length) == date >= day - length

Select(asked) ==
    /\ pc \in {"idle", "done"}
    /\ day' = asked
    /\ rows' = {run \in runs : asked - 30 <= Date[run.plan] /\ Date[run.plan] < asked}
    /\ latest' = {}
    /\ counts7' = Nobody
    /\ counts30' = Nobody
    /\ selected' = runs
    /\ pc' = "latest"
    /\ UNCHANGED runs

\* (with a bug: the row that comes last is taken for the latest)
KeepsLastRow(run) == {other \in latest : other.plan # run.plan} \cup {run}

Keep(run) ==
    IF \E other \in latest : other.plan = run.plan /\ other.version >= run.version
    THEN latest
    ELSE {other \in latest : other.plan # run.plan} \cup {run}

TakeRow(run) ==
    /\ pc = "latest"
    /\ run \in rows
    /\ rows' = rows \ {run}
    /\ latest' = Keep(run)
    /\ UNCHANGED <<runs, pc, day, counts7, counts30, selected>>

RowsTaken ==
    /\ pc = "latest"
    /\ rows = {}
    /\ pc' = "count"
    /\ UNCHANGED <<runs, counting>>

Plus(counts, subs) ==
    [t \in Teachers |-> counts[t] + Cardinality({sub \in subs : sub[2] = t})]

CountRun(run) ==
    /\ pc = "count"
    /\ run \in latest
    /\ latest' = latest \ {run}
    /\ counts30' = Plus(counts30, run.subs)
    /\ counts7' = IF From(Date[run.plan], 7) THEN Plus(counts7, run.subs) ELSE counts7
    /\ UNCHANGED <<runs, pc, day, rows, selected>>

Counted ==
    /\ pc = "count"
    /\ latest = {}
    /\ pc' = "done"
    /\ UNCHANGED <<runs, counting>>

Next ==
    \/ \E p \in Plans, version \in 2 .. MaxVersion, subs \in Outcomes : Solve(p, version, subs)
    \/ \E asked \in Asked : Select(asked)
    \/ \E run \in rows : TakeRow(run)
    \/ RowsTaken
    \/ \E run \in latest : CountRun(run)
    \/ Counted

Spec == Init /\ [][Next]_vars

-----------------------------------------------------------------------------
\* The run a plan ended up with.
Final(p) ==
    {run \in selected : run.plan = p /\ \A other \in selected :
                           other.plan = p => other.version <= run.version}

SubstitutionsOf(t, length) ==
    {entry \in Plans \X UNION {{sub[1] : sub \in subs} : subs \in Outcomes} :
        /\ day - Date[entry[1]] \in 1 .. length
        /\ \E run \in Final(entry[1]) : <<entry[2], t>> \in run.subs}

\* The counts are those of the plans' final runs on the 7 and the 30 days before
\* the date, whatever order the rows came in and however often a day has been
\* recalculated: recalculating does not inflate a teacher's load.
CountsAreOfFinalRuns ==
    pc = "done" =>
        \A t \in Teachers :
            /\ counts7[t] = Cardinality(SubstitutionsOf(t, 7))
            /\ counts30[t] = Cardinality(SubstitutionsOf(t, 30))
=============================================================================
