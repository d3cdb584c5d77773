------------------------------ MODULE MCOpen104 ------------------------------
(***************************************************************************)
(* Instances of Open104 for TLC: a connection of each role.  They share    *)
(* nothing, so it is enough that one of them moves while the other stays.  *)
(* M = 4 lets the numbers wrap after four frames.  The station has k below *)
(* its w, which is the largest that Config::valid admits; the master's k   *)
(* is the largest, and it acknowledges every frame.                        *)
(***************************************************************************)
EXTENDS Open104

MCBoth    == {"station", "master"}
MCRole == [c \in Conn |-> IF c = "master" THEN "Master" ELSE "Controlled"]
MCK    == [c \in Conn |-> IF c = "master" THEN M - 1 ELSE 2]
MCW    == [c \in Conn |-> IF c = "master" THEN 1 ELSE M - 1]
MCCap  == [c \in Conn |-> 1]

Unmoved(c) == /\ connected[c] /\ ~active[c] /\ drv[c] = NewDriver
              /\ asduQ[c] = <<>> /\ ctrlQ[c] = <<>> /\ line[c] = <<>> /\ packs[c] = <<>>
OneMoves   == \E c \in Conn : \A x \in Conn \ {c} : Unmoved(x)
==============================================================================
