# Formal models of GestorEscuela

GestorEscuela plans how a school covers the lessons of absent teachers. This
directory holds TLA+ models of its planning core and of its accounts, the TLC
configurations that check them on small instances, and TLAPS proofs of what matters
most for every size. Paths below are relative to the package `src/gestor_escuela/`.

## The system

A FastAPI application serves every request on a thread of a pool, with a
SQLAlchemy session (one database transaction at a time) of its own. The database
is PostgreSQL at its default isolation, READ COMMITTED. There is no other shared
state: requests interact only through rows, their locks and their unique keys.
The solvers (OR-Tools CP-SAT) run inside the request that asks for them.

| component | state | operations | meets |
|---|---|---|---|
| day plans (`api/app.py`, `api/academic.py`, `api/management.py`) | `day_plans`, `day_plan_runs`, `day_plan_events` | create, solve, solve-academic, confirm, reopen, read | reads the configuration and the fairness history, calls an optimizer |
| timetable configuration (`app.py`, `academic.py`) | groups, subjects, slots, teachers, activities | two replace-everything PUTs, reads | read by the optimizers' callers, validated against by operations and roster |
| operations plan, roster (`api/operations.py`, `api/roster.py`) | recess shifts, scheduled activities; students, supports | replace, read | refer to teachers and groups |
| fairness history (`app.py`, `academic.py`, `plan_insights.py`) | none; reads the runs | counts of the last 7 and 30 days | penalties of the optimizer |
| day optimizers (`solver/optimizer.py`, `solver/flexible_specialty.py`) | one call | refuse, coverage round, penalty round, report | CP-SAT |
| week optimizer (`solver/weekly.py`) | one call | a sequence of days | day optimizer |
| staffing optimizer (`solver/staffing.py`, `api/staffing.py`) | one call | assign subjects, tutors, activities of a year | CP-SAT |
| planning scenarios (`api/academic_context.py`) | years, scenarios, one snapshot a scenario | create, save, read | browser pages |
| accounts (`api/password_auth.py`, `auth_tokens.py`, `auth_rate_limit.py`, `auth.py`) | users, credentials, memberships, sessions, reset tokens, invitations, throttle | register, login, change, reset, revoke, invite, accept, assign a role | roles of every request |
| audit (`api/audit.py`, `account_audit.py`) | audit rows | append after an answer | everything |

### What makes each of them correct, and what is hard

* **Day plans.** A plan is DRAFT, SOLVED or CONFIRMED; each change takes one
  version number and leaves one run or event. Hard: a solve works on a copy for
  seconds; the version sequence is shared by two tables, each with a unique
  constraint of its own; the answer is read again after the commit; a worker may
  die at any point.
* **Configuration, operations, roster.** The tables are one document somebody sent,
  references resolve, nobody teaches two classes at once. Hard: a replacement is
  up to five DELETEs, each with its own snapshot, then INSERTs one
  row at a time; they interleave, and two can wait for each other; a solver reads between them. Duties and
  students refer to teachers and groups without a foreign key, and what they
  refer to may be replaced between the check and the commit.
* **Fairness history.** The counts are those of the final runs. Hard: no ORDER
  BY, days that are solved again, window boundaries, one loop written three times.
* **Optimizers.** The reported day can be held, locked decisions survive, what is
  offered can be chosen. Hard: two lexicographic rounds, each of which may end at
  a time limit; conflicts between lessons of one slot. A week must carry the counts
  from day to day by date, whatever order its days are given in.
* **Planning scenarios.** What was answered 200 is stored; the version tells saves
  apart; names are given once. Hard: racing first saves and creations; racing updates
  without a version check.
* **Staffing.** Fixed decisions are kept, nobody has more than their minutes, nothing
  stays open that could be covered. Hard: one weighted sum for everything.
* **Accounts.** A reset or a change of the password ends what the old one opened, a
  token works once, an invitation does not take an account over. Hard: everything is
  read in one statement and written in another; two locks (`FOR UPDATE`) protect
  tokens but not users or sessions; failed logins are counted by reading, adding
  and writing; requests for the tokens of one user can wait for each other.

## Modules

| module | models | extends |
|---|---|---|
| `PlanLedger` | what the day-plan API promises: one atomic step for each accepted request | |
| `DayPlans` | the five handlers, their sessions, row locks, conflicts, crashes | implements `PlanLedger` |
| `Documents` | what those PUTs promise to edits of one configuration: a request that is answered 200 replaces its document in one step, any other changes nothing | |
| `Configuration` | the PUTs of the timetable (two), the operations plan and the roster statement by statement; the solver's two SELECTs and its 409 for an incomplete timetable | implements `Documents` |
| `ScenarioSnapshots` | saving the snapshot of a scenario, creating years and scenarios | |
| `FairnessHistory` | the SELECT of the runs and the two loops, next to recalculations | |
| `Accounts` | every handler that writes an account table, time and broken connections | |
| `SchoolDay` | pure definitions: needs, candidates, penalties, assignments, locks | |
| `DayOptimizer` | `solve` of both day optimizers as steps, with CP-SAT's possible answers | `SchoolDay` |
| `WeekOptimizer` | `SchoolWeekOptimizer.solve`: days by date, counts carried over | `DayOptimizer` |
| `Staffing` | the yearly staffing optimizer: validation, model, objective, report | |
| `DayPlansProofs`, `ConfigurationProofs`, `ScenarioProofs`, `FairnessProofs`, `AccountsProofs`, `StaffingProofs` | theorems | the module they are named after |
| `OptimizerProofs` | theorems about both day optimizers and weeks | `WeekOptimizer` |
| `SumProofs` | facts about sums over finite sets, for both optimizer proofs | |
| `MC...` | small instances for TLC | the module they are named after |

A definition marked "with a bug" is a plausible mistake in the definition that
follows it. No specification uses it; it shows that the property named for it in
`PROJECT.json` can be broken by code.

### How the models correspond to the code

**DayPlans.** `plans`, `runs`, `events` are the committed tables. A request goes
`sent` (its arguments are with the server), `decided` (it has read its copy `row`
and passed its guards), `flushed` (UPDATE and INSERT are done and hold the row
lock), `committed`, `done`; or it is `lost` when its process or connection dies.
`Send` merges the client's GET with the request it leads to, so `expected` is a
version that was once read and `seen` the solution it was read with. The UPDATE
carries `WHERE version = <the version read>` (`version_id_col`); PostgreSQL
evaluates it again after waiting for the row lock, which is why `Flush` and
`FlushConflict` look at the committed row. Both kinds of conflict (StaleDataError
in `VersionedSession.commit`, IntegrityError in the handlers) are answers of
409, `stale`. `Refresh` is `session.refresh`, a new SELECT. What a solver computes
is named by the request that asked for it. A request is made at most once.
A payload that a client sends with a new plan is `Initial`.

**Configuration.** A replacement validates its payload (`Known`: a timetable alone,
duties and students against the teachers and groups that are committed), then runs its
DELETEs in the order of `Deletes`. `StartDelete` fixes the rows the statement
sees; `EndDelete` waits until no other open transaction has deleted one of them,
and then deletes those that are still there. Rows that were committed after
`StartDelete` are not deleted: the heart of READ COMMITTED. Then the INSERTs,
one row a step (`InsertRow`): `FlushOrder` takes the classes by name, as SQLAlchemy does
where no relationship orders them, and the objects of a class in the order of the payload. Each
waits for its unique key where another transaction has deleted or inserted it, keeping all
those it has taken already, and collides
with committed ones (IntegrityError, 409; 500 in `put_roster`, which flushes outside
its `try`), or succeeds. A DELETE, on the other hand, takes its rows in one step at its
end: two DELETEs of one table meet its rows in the same order, so which of them it holds
meanwhile makes no difference to what they do to the tables; where a replacement that inserts
wants one of those rows' keys, PostgreSQL may see a deadlock and the model gives a conflict, and both
leave the tables as they were. The foreign keys point to the school only, so the tables
constrain each other nowhere, but for the supports of a student, which go with it
(`ON DELETE CASCADE`, the third "DELETE" of a roster). `WaitsForItself` is a
circle of waits; PostgreSQL ends it with an error in one of its members, which
nothing in the code translates (`failed`, a 500). The SELECTs of the solver are steps of their
own. The uniqueness of `slot_order`, times, locations and categories are left out.
A `Family` is what one handler replaces in full: activities with teachers, slots and groups
(subjects only by the academic handler), shifts with duties, students with supports.
`EditsOfOne` says that the requests that replace a family have one id in common, as edits of one
timetable do; `promise` maps the rows of each family to a document of `Documents`.

**ScenarioSnapshots.** One row and the names of years and scenarios. SQLAlchemy's
UPDATE sets the columns whose value differs from the session's copy (`Changed`); the
version is one of them. A creation is one INSERT under a unique constraint: who
comes second to a name gets a 409. No year or scenario is ever deleted.

**FairnessHistory.** `latest` is `latest_by_plan`, filled row by row in any
order, then emptied run by run. `Solve` adds runs at any time; their versions may
skip numbers that confirmations took. Dates are numbers.

**Accounts.** A session, reset token or invitation is named by the request that makes
it; passwords are values of a small set; `Matches` is `verify_password`. A SELECT is a step, the
flush and the commit of what a handler has changed are one step, and an UPDATE writes only the
columns that changed (`Touched`, `Written`), so that two requests may both write
a row. `view` is what a request has read. (`Verify` reads the credential and the throttle row in one step.) `Authenticate` and `Enter` are
`authenticated_user`, `Admit` is the check of the membership by which `require_admin`
lets requests in. Time is what the code compares it with: a session is fresh, due for
a touch, idle or expired; a token usable or expired; a block never, past or future; a window of
failures over or not. `FOR UPDATE` is `WaitsFor`. A unique key that is taken
between the SELECT and the INSERT is an IntegrityError nobody catches (`failed`, a
500); so are the two errors of the throttle row and PostgreSQL's deadlock. The delivery
of a reset token, texts, hashes and the development headers (`X-Actor-Id`,
`X-Actor-Role`) are left out. Creating a school is one
INSERT that nothing else depends on; `Register` models the user it makes.

**SchoolDay and DayOptimizer.** A day is a record of teachers, activities,
absences and locked decisions. `Assignments` is the set of solutions of the
CP-SAT model: one substitute or nobody for each need, nobody twice in a slot, the
locks. `Answers` says what a round may return: an optimal assignment (OPTIMAL)
or any assignment (FEASIBLE, at the time limit); `TimeOut` is UNKNOWN, for
which `solve` raises RuntimeError. The flexible engine differs from the strict one
in `IsCandidate`, the mismatch penalty and the warning. The weights are those of
`SolverWeights`; rejection reasons other than the global conflict, texts and the
score are left out. CP-SAT itself is not modelled, only what it may answer.

**WeekOptimizer.** `IsNext` picks the days by date, those of one date in the order
given (`sorted` is stable); `CarryOver` adds a day's substitutions to the three
counts of each teacher and starts the next day; a day that is refused or times
out ends the week, as the exception does. `week = NoWeek` is a single day.

**Staffing.** `Allocations` is the set of solutions of the CP-SAT model: who gives
each lesson, who staffs each activity, who is the tutor of each group. The auxiliary
variables of the code (`group_use_vars`, `tutor_teaches_vars`, the products of
`_and_var`) are functions of these three; the shortfall of a tutor is the least one
its constraints allow, which is the one the objective takes. Group ids are a set. INFEASIBLE and UNKNOWN
are one ValueError in the code, and two values of `status` in the model.

Left out everywhere but in `Accounts`: roles and authentication (the models describe
requests that were let in). Left out everywhere: the audit row that is written after an answer, the school (all
rows are of one school, all statements filter by it), reads that change nothing.

## Runs

| run | question | instance and result |
|---|---|---|
| `day_plans_safety` | do racing requests keep plan, ledger and answers consistent, and implement `PlanLedger`? | 4 requests of any kind on one plan, 2 running at a time, 1 crash; holds |
| `day_plans_liveness` | does every request end? | 3 requests, all running, any of them may crash; holds |
| `configuration_edits` | do edits implement `Documents`, what may dangle, when do replacements deadlock, do all of them end? | 3 valid timetables (academic and legacy) sharing activity ids, two of them listing two lessons in opposite orders, with a solver; one with one that is refused; two with two operations plans; one with three rosters; any may crash; 193 215 states; holds |
| `configuration_new_timetables` | does validation keep double bookings out of the tables? | 2 replacements with new activity ids; **violated** |
| `scenario_snapshots` | what can a version, a 201 and a 409 be relied on for? | 3 saves of 3 documents, or 3 creations next to a save; holds |
| `scenario_lost_save` | is a save that was answered 200 stored? | the same; **violated** |
| `fairness_history` | are the counts those of the final runs? | 3 plans on and around both boundaries, 2 dates, versions to 3; 997 696 states; holds |
| `accounts` | what do a reset, a token, an invitation and a throttle guarantee, and is every request answered? | up to 3 requests on two people, connections that break, time; 178 783 states; holds |
| `day_optimizer` | is every reported day sound, whatever CP-SAT answers in time, and does a week carry its counts? | 61 single days with both engines, 7 weeks of up to 3 days with the strict one; holds |
| `day_optimizer_time_limit` | is an uncovered lesson one that cannot be covered? | the single days; **violated** |
| `staffing` | is every staffing answer sound, and when is there none? | 50 schools of 2 or 3 teachers, 2 groups; holds |
| `staffing_curriculum` | are lessons covered before activities? | the same; **violated** |

Why these bounds: every conflict on a plan is between a request and one that
commits between its read and its write; four requests leave room to create or
solve, confirm and reopen around a slow solve, and two that run at a time are
enough for a conflict as the others may come before, between and after their
steps. `MaxInFlight` and `MaxLost` bound the states TLC visits and are named in
`MCDayPlans`; the proofs need neither. Two first imports that list
two lessons in opposite orders are enough for a deadlock; a third one that commits makes the circles
in a school that has a timetable; the mixes of `MCConfiguration` are the kinds that meet in one table or
reference. The window boundaries need a day on, before and after each of
them, which the three plan dates and two asked dates give; `MaxVersion` bounds how
often a day is solved again. Every hazard of the accounts is between two requests
and a third that looks at what they leave; `TokenRuns`, `SessionRuns`, `LoginRuns` and
`PeopleRuns` name the triples that share a token, a session, a throttle row or a
person. Two reset tokens can be usable at once (two requests that overlap), so some
start that way; `MaxFailures = 2` is enough for a count that is lost or doubled. Time passes only where a
request is still going to look (`Brings`). The days of
`MCDayOptimizer` have two lessons in one slot that compete for one substitute,
displaceable and immovable activities, a missing specialty, locks that clash. The weeks
of `MCWeekOptimizer` have days out of order, days of one date, a lock against the counts and a
day that is refused.
The schools of `MCStaffing` are short of minutes, of tutors or of staff, and have fixed
decisions that exclude each other in both possible ways.
Deadlock is not checked: each request is made once, so every behaviour ends. That
requests do not wait for each other for ever is what the liveness properties say.

### Findings

* `configuration_new_timetables`: two concurrent replacements can both commit and
  leave the union of their activities. The second one's first DELETE waited for the
  first one's and does not see the activities it inserted, while its later DELETEs do
  see and remove the first one's teachers and slots; with different activity ids nothing collides.
  A teacher may then have two lessons in a slot, which the optimizer refuses (422)
  until the timetable is sent again. Where the timetables share an activity id (an
  edit), one of the two gets a 409, and edits are atomic (`ReplacesAsAWhole`).
* `scenario_lost_save`: of two concurrent saves both get 200 and the row may hold
  a blend: the payload of one with the `source_hash` of the other. Saves that do not
  overlap are safe (`UndisturbedSaveIsStored`). A version number does not tell
  which it was: after a slow save has written the number it had computed long ago, later saves
  that overlap with nobody are given numbers that were given before.
* `day_optimizer_time_limit`: at the time limit of the coverage round its
  incumbent is taken for the optimum and the lessons it leaves are reported as
  impossible to cover.
* `staffing_curriculum`: lessons and activities are weighed by the minute in one
  sum, so an activity more than 10/3 times as long as a lesson is preferred to it.
  What does hold is that nothing stays open for which somebody is still free
  (`OpenForWantOfStaff`).

Some races of the accounts contradict no text and are listed as hazards:
two overlapping reset requests leave two usable tokens, a login that has verified the
old password opens its session after the reset has closed the others, a taken unique
key is a 500. `OldTokensAreDead`, `OldSessionsAreGone` and
`LoginsKnowTheLastPassword` say how far the guarantees go: they are about what there was
when a request was sent.

## Fairness

`FairSpec` of `DayPlans`, `Configuration` and `Accounts` is weak fairness of the
handlers: a worker thread runs its handler to the end, waits for nothing but locks, and
the solver has a time limit (`max_time_seconds`). Locks are released at the end of a
transaction, and PostgreSQL rolls a dead connection back. `DeadlockVictim` is part
of the fair steps because PostgreSQL looks for deadlocks after `deadlock_timeout`.
Clients are never assumed to send anything, and crashes are never assumed to
happen. In `Configuration` and `Accounts` the fairness is of all handlers together: as
long as some request can go on, one does. That is weaker than fairness of each, and enough, as there are
finitely many requests of finitely many steps. In `DayPlans` it is of each request: several
writers may wait for one row, but each request writes once, so the lock is free for good in the end.

## Proofs

TLC checks the instances above; the theorems hold for any number of requests, plans,
people, teachers, activities and days. Each rests on an inductive invariant, as what is promised of an
answer follows from what a handler knew several steps before it. The steps are
split by action; lemmas about actions that leave the tables alone save most cases.

| module | assumed of the constants | inductive invariant | theorems |
|---|---|---|---|
| `DayPlansProofs` | `Initial`, `Free` are no requests | `IInv`, `AnswerInv` | types, `LedgerComplete`, `ConfirmedIsFrozen`, refinement of `PlanLedger`, `PlanMatchesLedger`, `HistoryOfLastLegacyRun`, `WrittenOnWhatWasReviewed`, `AnswersMatchLedger`, `StaleMeansOvertaken` |
| `ConfigurationProofs` | requests of different sorts differ; each kind sends its own tables, students refer to groups and supports to a student sent with them; a timetable there from the start resolves | `ConfigurationInv`, `LocksInv`, `Undisturbed`, `FamilyInv`, `SolverInv` | types, `DanglingOnlyAfterReplacement`, `OnlyFirstImportsDeadlock`, `OneConfiguration`, `TornOnlyByOverlap`, refinement of `Documents` |
| `ScenarioProofs` | requests and rows differ; documents have the columns | `SaveInv`, `NameInv` | types, `UndisturbedSaveIsStored`, `FirstSaveWins`, `OneOfEachName` |
| `FairnessProofs` | dates are integers, a run has finitely many substitutions | `HistoryInv` | types, `CountsAreOfFinalRuns` |
| `AccountsProofs` | the tables at the start are well formed, at least two failures are allowed | `IInv`, `ThrottleInv`, `LastSet` | types and all safety and action properties of the run |
| `OptimizerProofs` | the activities of a day are finitely many with different ids, counts are integers, locks are a list, no teacher is called `Nobody`; the teachers of a week have different ids | `PlanInv`, `RoundsInv`, `WeekInv`, `CountsInv` | types, and of a day alone and of every day of a week `DayCanBeHeld`, `NeverInfeasible`, `LocksSurvive`; `NobodyIdleForUncovered`, `FlexibleCoversMore`, `AlternativesCanBeLocked`, `SelectedIsCheapest`, `CountsAreCarried`, `WeekIsShared` |
| `StaffingProofs` | lists are finite, minutes and staff are integers, at most 3000 minutes are asked of a tutor, no teacher is called `Nobody` | `StaffingInv` | types, `FixedDecisionsKept`, `CompleteIsComplete`, `LoadsAddUp`, `InfeasibleOnlyIfFixed`, `OpenForWantOfStaff` |

* **DayPlans.** `LedgerComplete` alone is not inductive: that the version written is the
  one after the row's follows from what a flushed request holds (`CopyInv`: its
  copy is not newer than the row, equal to it where the versions agree, and the row itself once
  it holds the lock), and that nobody else changes the row meanwhile from
  the lock. An absent plan is `NoRow` (`RowsInv`), entries are of requests that have committed
  (`EntriesInv`). `AnswerInv` adds what a client was looking at (`SeenInv`), what an entry was
  meant to be (`WroteInv`), that a request has at most one (`RecordInv`), and what an
  answer may say (`ReplyInv`). In `Refinement` a commit is the step of `PlanLedger`, all others
  stutter.
* **Configuration.** What was checked resolves until a timetable commits
  (`References`): duties and rosters delete only tables of their own
  (`OwnTables`), rows are visible only of committed requests (`Owners`), and a
  student is deleted with the supports that belong to it (`Cascade`). `LocksInv`: an open
  transaction holds rows of the tables it has passed, which nobody else holds.
  * Waits: as long as no timetable has been committed, whoever is under way has deleted all
    of each table it has passed (`Undisturbed`), so who deletes and waits is
    behind the one it waits for in the one order both handlers take the tables in (`Rank`), and
    no chain of such waits comes back (`NoCircleOfDeletes`). An INSERT waits only for what another timetable
    has inserted (`InsertWaits`); both have deleted all activities by then, and two
    cannot have deleted the same ones, so there were none (`CircleOfImports`). Two first imports that list
    the same ids in opposite orders may deadlock: one gets a 500, the other one is stored.
  * Edits: `FamilyInv` is about the row with the common id. There is one as soon as a
    request has replaced the family. A DELETE that sees it sees all of its table, as nothing can
    have been committed in between; who has deleted it blocks the INSERT of every other edit by its unique key,
    so what it sees from then on is all there is; who has inserted it had deleted it, or
    would have collided, and is the only one (`Leading`).
    Before the first replacement (`Original`) whoever is under way has seen all there is
    anyhow. So who commits has deleted all of the family. Without the common id none of this
    holds (see the findings).
  * Solvers: unless a timetable was committed, the teachers read are those there are
    (`SolverInv`), and the activities are of one writer, whose references were checked.
* **ScenarioSnapshots.** `SaveInv` relates every save to the number of commits when it
  read and when it wrote (`Counts`, `Copies`): a copy read after the last commit is the row.
  `Firsts`: only the first save leaves version 1. `Conflicts`: whoever gets a 409 was
  overtaken.
* **FairnessHistory.** While rows are taken, `latest` is the newest of those taken; while
  it is emptied, a count is the number of entries of the runs that are gone
  from it (`CountedSoFar`).
* **Accounts.** `IInv` says of each request what it has read and is still so (`Reads`), that
  what it makes is not there yet (`Unmade`), and, between its reads and its commit, that every old token or
  session is one it is going to end or has ended already (`OldTokens`,
  `OldSessions`); `Locks` says that a row lock has one holder, which gives `TokensWorkOnce`.
  `ThrottleInv`: neither the row nor a copy of it counts more failures than there were.
  `LastSet`: the password is one that was set no earlier than any reset that is done, or
  next to it, and who has verified a password since has shown such a one.
* **Optimizers.** `PlanInv`: input past `BuildModel` was not refused, and the chosen plan is
  an assignment. `NeverInfeasible` needs a witness, the assignment that holds the
  locked decisions and covers nothing else (`AssignmentExists`), which exists because
  locks that clash are refused. `RoundsInv`: the minimum is one where the round was OPTIMAL, and no
  assignment of the same coverage costs less where the second one was. So whoever is idle and could cover one more
  lesson (`CoverOneMore`), or is on offer and cheaper than who was chosen, contradicts it. A strict
  assignment is a flexible one, so flexibility covers no less. An alternative that is
  offered, put in the place of who was chosen, makes an assignment: the witness that
  locking it in is not refused. `WeekInv` says the same of the days of a week;
  `CountsInv` that days are solved in their order (`OrderInv`), each with the counts of those
  before it. Counts and penalties are sums: of two teachers alike in all but the
  turns they have had, the one with fewer has the lower penalty (`WeekIsShared`).
* **Staffing.** What is being reported comes from valid input and satisfies the model, an
  OPTIMAL choice is beaten by none, and the lists are those of the choice. That a complete answer
  staffs each duty in full takes a bijection between the pairs reported and the staff.
  `InfeasibleOnlyIfFixed` has a witness, the choice that does what is fixed and nothing else.
  `OpenForWantOfStaff`: whoever is free takes the lesson, duty or group that is open, and the
  objective falls whatever the preferences, tutors and minutes of the others, as the weight of what is open
  exceeds all that the change can cost elsewhere.
* **Sums.** `SumProofs` has what the last two rest on: a sum changes with one summand, is
  monotone, and so on, for every finite set. The prover cannot use an induction
  theorem that takes an operator, so they are proved with a smallest set for which they
  fail (`SubsetInduction`), and the recursive function behind the library's fold is shown
  to exist first (`AddsUpExists`).

Every safety and action property of the passing runs and both refinements are proved. Only
model-checked, as liveness is beyond this prover: `EveryRequestEnds`, `EveryPutEnds`,
`EveryRequestIsAnswered`. What the four runs that expect a violation refute is, of course, not proved.

The one hypothesis in a theorem that the code does not enforce is `EditsOfOne`, in
`OneConfiguration`, `TornOnlyByOverlap` and the refinement of `Documents`: it is a fact about what a
school sends, true of the payloads of `configuration_edits` and not of those of
`configuration_new_timetables`, which shows what happens without it.

## What could follow

Modelled, checked and proved as above: every operation that writes the planning,
configuration, scenario or account tables, and the three optimizers. What is open is
liveness for any number of requests, and an abstract specification of the accounts like
`PlanLedger` and `Documents`.

### Not modelled

* The audit trail: one appended row after an answer, in a transaction of its
  own, read by nobody but an administrator.
* Explanations of a plan (`plan_insights.py` but for its counts) and the browser pages: text
  and forms about answers.
* Request and response schemas: types and lengths of fields. What the models need of them is in
  their assumptions.
* Web entry point, deployment, migrations, import of a configuration file: I/O and wiring.
* Simulation and benchmarks: sample data and measurements.
* CP-SAT, SQLAlchemy and PostgreSQL are modelled only by what the code relies on.
