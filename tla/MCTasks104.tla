----------------------------- MODULE MCTasks104 -----------------------------
(***************************************************************************)
(* Instances of Tasks104 for TLC.                                          *)
(***************************************************************************)
EXTENDS Tasks104

\* Timers: the peer sends I-frames and TESTFR con, or nothing; handlers return at once
\* or take their time.
Timed == [k |-> 1, w |-> 3, t1 |-> 1, t2 |-> 1, t3 |-> 1, timed |-> TRUE,
          peerMay |-> {"I", "TestFrCon"}, waits |-> FALSE, flight |-> 1]

\* Queues: the clock stands, handlers wait for room in the send queue, and the peer has
\* up to two frames under way and may close.
Crowded == [k |-> 1, w |-> 2, t1 |-> 1, t2 |-> 1, t3 |-> 1, timed |-> FALSE,
            peerMay |-> {"I", "S", "close"}, waits |-> TRUE, flight |-> 2]

MCSettings == {Timed, Crowded}

\* As in a station that sets t3 below t1.
T3BelowT1 == {[Timed EXCEPT !.t1 = 2]}
=============================================================================
