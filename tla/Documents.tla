------------------------------ MODULE Documents ------------------------------
(* What the PUTs of the configuration promise to edits of one configuration: *)
(* a school has documents (its timetable, its duties, its roster), and a      *)
(* request that is answered 200 has put its own in their place, in one        *)
(* indivisible step; one that is refused, fails or breaks off has done        *)
(* nothing.  Configuration implements it statement by statement.              *)

CONSTANTS Requests,   \* the replacement requests
          Names,      \* the names of the documents
          Sent,       \* Sent[r]: the documents that r replaces, by name
          Starts      \* what a school may have from the start

VARIABLES documents,  \* documents[n]: what is stored under the name n
          outcome     \* outcome[r]: "open" until r is answered

docVars == <<documents, outcome>>

DocInit ==
    /\ documents \in Starts
    /\ outcome = [r \in Requests |-> "open"]

Answer(r, what) ==
    /\ outcome[r] = "open"
    /\ outcome' = [outcome EXCEPT ![r] = what]

Accept(r) ==
    /\ Answer(r, "ok")
    /\ documents' = [n \in Names |-> IF n \in DOMAIN Sent[r] THEN Sent[r][n] ELSE documents[n]]

Refuse(r) ==
    /\ Answer(r, "refused")
    /\ UNCHANGED documents

DocNext == \E r \in Requests : Accept(r) \/ Refuse(r)

DocSpec == DocInit /\ [][DocNext]_docVars
=============================================================================
