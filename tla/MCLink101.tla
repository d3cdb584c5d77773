------------------------------ MODULE MCLink101 ------------------------------
(***************************************************************************)
(* Instances of Link101 for TLC.                                           *)
(***************************************************************************)
EXTENDS Link101

\* Two stations on one line; a point-to-point line that is polled, and a
\* balanced one over TCP.
MultiDrop == [balanced |-> FALSE, order |-> <<1, 2>>, serial |-> TRUE,
              commands |-> 1, events |-> 1, losses |-> 2, requests |-> 0]
Polled == [balanced |-> FALSE, order |-> <<1>>, serial |-> TRUE,
           commands |-> 1, events |-> 2, losses |-> 2, requests |-> 1]
Balanced(s) == [balanced |-> TRUE, order |-> <<1>>, serial |-> s,
                commands |-> 1, events |-> 2, losses |-> 2, requests |-> 1]

MCLines == {MultiDrop, Polled, Balanced(FALSE)}
SerialLine == {Balanced(TRUE)}
==============================================================================
