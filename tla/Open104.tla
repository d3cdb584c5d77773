------------------------------- MODULE Open104 -------------------------------
(***************************************************************************)
(* Connections whose peers are arbitrary: any APDU may arrive at any time, *)
(* whether or not the protocol allows it there, and the stream may end.    *)
(* What holds here, the driver guarantees by itself.  The APDUs of `line`  *)
(* are those the last step emitted, and the same for `packs`: an arbitrary *)
(* peer and an arbitrary dispatcher take them at once.                     *)
(***************************************************************************)
EXTENDS Connection104

CONSTANT MaxQueued    \* bound: control requests the application has queued

OpenInit ==
    /\ ConnInit
    /\ ctrlQ \in [Conn -> {<<>>, <<"StartDt">>}]       \* auto_start_dt
    /\ \A c \in Conn : ctrlQ[c] # <<>> => Role[c] = "Master"

Nothing == [c \in Conn |-> <<>>]

Application(c) ==
    \/ \E a \in Asdu \cup {Garbage} : TryEnqueue(c, a)
    \/ /\ Role[c] = "Master"
       /\ Len(ctrlQ[c]) < MaxQueued
       /\ \E ctrl \in {"StartDt", "StopDt"} : Request(c, ctrl)

Send(c) == SendAsdu(c, Nothing) \/ SendCtrl(c, Nothing)

Receive(c) == \E f \in Apdu : OnFrame(c, f, Nothing, Nothing)

Timers(c) == TickT1(c, Nothing) \/ \E t2, t3 \in BOOLEAN : Tick(c, t2, t3, Nothing)

End(c) == Shutdown(c, Nothing) \/ PeerClosed(c, Nothing)

Step(c) == Application(c) \/ Send(c) \/ Receive(c) \/ Timers(c) \/ End(c)

OpenNext == \E c \in Conn : Step(c) \/ Demote(c)
OpenSpec == OpenInit /\ [][OpenNext]_connVars

-----------------------------------------------------------------------------
\* Every variable has its type.
OpenTypeOK ==
    /\ connected \in [Conn -> BOOLEAN]
    /\ closedBy \in [Conn -> CloseReason]
    /\ active \in [Conn -> BOOLEAN]
    /\ drv \in [Conn -> Driver]
    /\ asduQ \in [Conn -> Seq(Asdu)]
    /\ ctrlQ \in [Conn -> Seq({"StartDt", "StopDt"})]
    /\ line \in [Conn -> Seq(Apdu)]
    /\ packs \in [Conn -> Seq(Asdu)]

\* Whatever the peer acknowledges, the list of pending I-frames (which t1 looks
\* at) and the send window stay the same thing.
PendingIsWindow == \A c \in Conn : WindowMatches(drv[c])

\* Whatever the peer acknowledges, never more than k I-frames are outstanding.
WindowBounded == \A c \in Conn : Outstanding(drv[c]) <= K[c]

\* Between two iterations fewer than w received I-frames are unacknowledged.
UnackedBelowW == \A c \in Conn : Unacked(drv[c]) < W[c]

\* A STOPDT con is held back only by a stopped station that still has I-frames
\* unacknowledged: it is never forgotten once they are, and never sent early.
HeldStopCon ==
    \A c \in Conn : drv[c].stopConPending =>
        /\ ~active[c]
        /\ drv[c].ackNoSend # drv[c].seqNoSend

\* The step numbers and emits an I-frame.
EmitsI(c) == drv'[c].seqNoSend # drv[c].seqNoSend

\* A session that was demoted while its driver waited may still emit one
\* I-frame, but no second one; a master, which nobody demotes, emits none.
LateIAtMostOnce ==
    [][\A c \in Conn : ~active[c] /\ EmitsI(c) =>
            Role[c] = "Controlled" /\ ~drv'[c].maySend]_connVars
==============================================================================
