------------------------ MODULE MCScenarioSnapshots ------------------------
(* Documents for TLC: two users, and a payload that is edited while the file  *)
(* it comes from, and so its source_hash, stays the same.                     *)
EXTENDS ScenarioSnapshots

Doc(payload, hash, user) ==
    [payload |-> payload, source_hash |-> hash, updated_by |-> user]

MCMixes == {Saves, Creates \cup {"r1"}}

MCDocs == {Doc("a", "h1", "u1"), Doc("b", "h1", "u2"), Doc("c", "h2", "u1")}
=============================================================================
