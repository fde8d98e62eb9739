------------------------- MODULE MCFairnessHistory -------------------------
(* Plans on the first day of the month before 41, on the first day of the     *)
(* week before 41, and on 41 itself; asked about 42, both windows move on by  *)
(* one day.                                                                   *)
EXTENDS FairnessHistory

MCPlans == {"p11", "p34", "p41"}
MCDate == [p \in MCPlans |-> CASE p = "p11" -> 11 [] p = "p34" -> 34 [] p = "p41" -> 41]
MCOutcomes == {{}, {<<"a1", "t1">>}, {<<"a1", "t2">>, <<"a2", "t1">>}}
=============================================================================
