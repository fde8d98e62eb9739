-------------------------- MODULE ScenarioSnapshots --------------------------
(* api/academic_context.py: academic years and their planning scenarios are   *)
(* created, and the one snapshot row of a scenario is saved, by requests that *)
(* run next to each other.  There is no version in the WHERE clause of the    *)
(* UPDATE of a snapshot, and SQLAlchemy writes only the columns whose value   *)
(* differs from the one the session has read.                                 *)
EXTENDS Integers

CONSTANTS Saves,      \* the PUT requests, each made at most once
          Docs,       \* what a PUT may carry, records over Columns
          Creates,    \* the POST requests, each made at most once
          Labels,     \* what a POST may call a year or a scenario
          Mixes,      \* sets of requests: those of one of them are made
          Year,       \* the year and the scenario the requests are about
          Scenario

ASSUME RequestsAssumption ==
    /\ Year \notin Creates /\ Scenario \notin Creates
    /\ Saves \cap Creates = {}

Columns == {"payload", "source_hash", "updated_by"}

ASSUME DocsAssumption == Docs # {} /\ \A d \in Docs : d = [c \in Columns |-> d[c]]

VARIABLES years,      \* the rows of academic_years: [id, label]
          scenarios,  \* the rows of planning_scenarios: [id, year, label]
          row,        \* the committed snapshot of Scenario: [version, doc]
          pc,         \* pc[r]: how far request r has come
          sent,       \* sent[r]: the document of request r
          copy,       \* copy[r]: the row in r's session
          wanted,     \* history: wanted[r], the row that POST r wants to create
          saves,      \* history: how many saves have been committed
          loadedAt,   \* history: loadedAt[r], the value of saves when r read the row
          savedAt,    \* history: savedAt[r], its value right after r's commit
          after       \* history: after[r], the row right after r's commit

names   == <<years, scenarios, wanted>>
history == <<saves, loadedAt, savedAt, after>>
vars    == <<names, row, pc, sent, copy, history>>

YearRow     == [id: Creates \cup {Year}, label: Labels]
ScenarioRow == [id: Creates \cup {Scenario}, year: {Year}, label: Labels]
Nothing     == [id |-> "nothing"]

SomeDoc == CHOOSE d \in Docs : TRUE
Absent  == [version |-> 0, doc |-> SomeDoc]
DocType == [Columns -> UNION {{d[c] : c \in Columns} : d \in Docs}]
RowType == {Absent} \cup [version: Nat \ {0}, doc: DocType]

TypeOK ==
    /\ years \subseteq YearRow
    /\ scenarios \subseteq ScenarioRow
    /\ wanted \in [Creates -> {Nothing} \cup YearRow \cup ScenarioRow]
    /\ row \in RowType
    /\ pc \in [Saves \cup Creates -> {"idle", "unsent", "sent", "read", "saved", "answered",
                                     "missing", "conflict", "lost"}]
    /\ sent \in [Saves -> Docs]
    /\ copy \in [Saves -> RowType]
    /\ saves \in Nat
    /\ loadedAt \in [Saves -> Nat]
    /\ savedAt \in [Saves -> Nat]
    /\ after \in [Saves -> RowType]

Init ==
    /\ years \in SUBSET [id: {Year}, label: Labels]
    /\ scenarios \in SUBSET [id: {Scenario}, year: {Year}, label: Labels]
    /\ \A y, z \in years : y = z
    /\ \A s, t \in scenarios : s = t
    /\ scenarios = {} \/ years # {}
    /\ wanted = [r \in Creates |-> Nothing]
    /\ row = Absent
    /\ \E mix \in Mixes :
          pc = [r \in Saves \cup Creates |-> IF r \in mix THEN "idle" ELSE "unsent"]
    /\ sent = [r \in Saves |-> SomeDoc]
    /\ copy = [r \in Saves |-> Absent]
    /\ saves = 0
    /\ loadedAt = [r \in Saves |-> 0]
    /\ savedAt = [r \in Saves |-> 0]
    /\ after = [r \in Saves |-> Absent]

Goto(r, label) == pc' = [pc EXCEPT ![r] = label]

(* create_academic_year and create_planning_scenario: the SELECT of the year, *)
(* then one INSERT under a unique constraint.                                 *)

\* (with a bug: no unique constraints)
AnyLabel(some, new) == FALSE

\* Years are unique by school, scenarios by year.
LabelTaken(some, new) == \E other \in some : other.label = new.label

Create(r, table, new) ==
    /\ wanted' = [wanted EXCEPT ![r] = new]
    /\ Goto(r, IF LabelTaken(table, new) THEN "conflict" ELSE "answered")
    /\ UNCHANGED <<row, sent, copy, history>>

CreateYear(r, label) ==
    LET new == [id |-> r, label |-> label]
    IN  /\ pc[r] = "idle"
        /\ Create(r, years, new)
        /\ years' = IF LabelTaken(years, new) THEN years ELSE years \cup {new}
        /\ UNCHANGED scenarios

HasYear == \E y \in years : y.id = Year

RefuseScenario(r) ==
    /\ pc[r] = "idle"
    /\ ~ HasYear
    /\ Goto(r, "missing")
    /\ UNCHANGED <<names, row, sent, copy, history>>

CreateScenario(r, label) ==
    LET new == [id |-> r, year |-> Year, label |-> label]
    IN  /\ pc[r] = "idle"
        /\ HasYear
        /\ Create(r, scenarios, new)
        /\ scenarios' = IF LabelTaken(scenarios, new) THEN scenarios ELSE scenarios \cup {new}
        /\ UNCHANGED years

-----------------------------------------------------------------------------
(* put_planning_scenario_snapshot                                             *)

HasScenario == \E s \in scenarios : s.id = Scenario

Send(r, doc) ==
    /\ pc[r] = "idle"
    /\ sent' = [sent EXCEPT ![r] = doc]
    /\ Goto(r, IF HasYear /\ HasScenario THEN "sent" ELSE "missing")
    /\ UNCHANGED <<names, row, copy, history>>

Read(r) ==
    /\ pc[r] = "sent"
    /\ copy' = [copy EXCEPT ![r] = row]
    /\ loadedAt' = [loadedAt EXCEPT ![r] = saves]
    /\ Goto(r, "read")
    /\ UNCHANGED <<names, row, sent, saves, savedAt, after>>

\* A transaction that writes the row while another one holds it waits, so the
\* flush and the COMMIT of a save are one step.
Write(r, new) ==
    /\ row' = new
    /\ saves' = saves + 1
    /\ savedAt' = [savedAt EXCEPT ![r] = saves + 1]
    /\ after' = [after EXCEPT ![r] = new]
    /\ Goto(r, "saved")
    /\ UNCHANGED <<names, sent, copy, loadedAt>>

\* (with a bug: scenario_id is not unique)
NothingTaken == FALSE

ScenarioTaken == row # Absent

Insert(r) ==
    /\ pc[r] = "read"
    /\ copy[r] = Absent
    /\ ~ ScenarioTaken
    /\ Write(r, [version |-> 1, doc |-> sent[r]])

\* IntegrityError: 409
InsertConflict(r) ==
    /\ pc[r] = "read"
    /\ copy[r] = Absent
    /\ ScenarioTaken
    /\ Goto(r, "conflict")
    /\ UNCHANGED <<names, row, sent, copy, history>>

\* The columns the UPDATE sets.
Changed(r) == {c \in Columns : sent[r][c] # copy[r].doc[c]}

\* (with a bug: the hash is not assigned)
UpdateKeepingHash(r) ==
    /\ pc[r] = "read"
    /\ copy[r] # Absent
    /\ Write(r, [version |-> copy[r].version + 1,
                 doc |-> [c \in Columns |-> IF c \in Changed(r) \ {"source_hash"}
                                            THEN sent[r][c] ELSE row.doc[c]]])

Update(r) ==
    /\ pc[r] = "read"
    /\ copy[r] # Absent
    /\ Write(r, [version |-> copy[r].version + 1,
                 doc |-> [c \in Columns |-> IF c \in Changed(r)
                                            THEN sent[r][c] ELSE row.doc[c]]])

\* session.refresh reads the row again, for the answer
Answer(r) ==
    /\ pc[r] = "saved"
    /\ copy' = [copy EXCEPT ![r] = row]
    /\ Goto(r, "answered")
    /\ UNCHANGED <<names, row, sent, history>>

Die(r) ==
    /\ pc[r] \in {"sent", "read", "saved"}
    /\ Goto(r, "lost")
    /\ UNCHANGED <<names, row, sent, copy, history>>

Next ==
    \/ \E r \in Saves :
          \/ \E doc \in Docs : Send(r, doc)
          \/ Read(r)
          \/ Insert(r) \/ InsertConflict(r) \/ Update(r)
          \/ Answer(r) \/ Die(r)
    \/ \E r \in Creates :
          \/ \E label \in Labels : CreateYear(r, label) \/ CreateScenario(r, label)
          \/ RefuseScenario(r)

Spec == Init /\ [][Next]_vars

-----------------------------------------------------------------------------
Committed == {r \in Saves : savedAt[r] > 0}
VersionAfter(n) ==
    IF n = 0 THEN 0 ELSE LET r == CHOOSE q \in Saves : savedAt[q] = n IN after[r].version

\* A save with no other save between its read and its write stores its whole
\* document and counts the version up by one.
UndisturbedSaveIsStored ==
    \A r \in Committed : savedAt[r] = loadedAt[r] + 1 =>
        /\ after[r].doc = sent[r]
        /\ after[r].version = 1 + VersionAfter(savedAt[r] - 1)

\* Of racing first saves exactly one creates the row; a 409 is told only to those
\* that lost to it.
FirstSaveWins ==
    /\ \A q, r \in Committed : after[q].version = 1 /\ after[r].version = 1 => q = r
    /\ \A r \in Saves : pc[r] = "conflict" => \E q \in Committed : loadedAt[r] < savedAt[q]

\* Of racing requests that create a year, or a scenario, of one name exactly one
\* is answered 201: a client told so finds its row, and a 409 means that there
\* is another one.
OneOfEachName ==
    \A r \in Creates :
        /\ pc[r] = "answered" => wanted[r] \in years \cup scenarios
        /\ pc[r] = "conflict" =>
              \E other \in years \cup scenarios : /\ DOMAIN other = DOMAIN wanted[r]
                                                /\ other.label = wanted[r].label /\ other.id # r
        /\ \A some \in {years, scenarios} : \A x, y \in some : x.label = y.label => x = y

\* What a client is told of a saved snapshot is what it sent: the row right after
\* the commit of a save holds the document of that save.
SavedIsStored == \A r \in Committed : after[r].doc = sent[r]
=============================================================================
