------------------------------ MODULE MCLink104 ------------------------------
(***************************************************************************)
(* Instances of Link104 for TLC.                                           *)
(***************************************************************************)
EXTENDS Link104

MCConn == {"master", "station"}
MCRole == [c \in Conn |-> IF c = "master" THEN "Master" ELSE "Controlled"]
MCAsdu == 1 .. 4
MCCap  == [c \in Conn |-> 4]

\* Both ends stream, and both ends' numbers wrap past M; the station's window
\* is the largest M allows, and its w is above the master's k.
MCBothK       == [c \in Conn |-> 2]
MCBothW       == [c \in Conn |-> IF c = "master" THEN 1 ELSE 2]
MCBothMaxAsdu == [c \in Conn |-> IF c = "master" THEN 2 ELSE 4]

\* For liveness: w above k at both ends, so that only t2 acknowledges.
MCLiveK       == [c \in Conn |-> IF c = "master" THEN 1 ELSE 2]
MCLiveW       == [c \in Conn |-> 2]
MCLiveMaxAsdu == [c \in Conn |-> IF c = "master" THEN 1 ELSE 2]
==============================================================================
