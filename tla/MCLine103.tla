----------------------------- MODULE MCLine103 -----------------------------
(***************************************************************************)
(* Instances of Line103 for TLC: a device alone, and two on one line, and  *)
(* the same with answers that may come after their timeout.                *)
(***************************************************************************)
EXTENDS Line103
One == [order |-> <<1>>, commands |-> 2, losses |-> 2, requests |-> 1, late |-> FALSE]
Two == [order |-> <<1, 2>>, commands |-> 1, losses |-> 2, requests |-> 0, late |-> FALSE]
LateOne == [One EXCEPT !.late = TRUE, !.commands = 1, !.requests = 0]
LateTwo == [Two EXCEPT !.late = TRUE, !.losses = 1]
MCLines == {One, Two, LateOne, LateTwo}
=============================================================================
