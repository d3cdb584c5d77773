----------------------------- MODULE MCClient104 -----------------------------
(***************************************************************************)
(* Instances of Client104 for TLC.                                         *)
(***************************************************************************)
EXTENDS Client104

\* Two tasks wait for the activation: one may hold the lock while the other
\* waits.
MCWaiter == {"w1", "w2"}
==============================================================================
