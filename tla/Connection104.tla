---------------------------- MODULE Connection104 ----------------------------
(***************************************************************************)
(* One end of an IEC 60870-5-104 connection: the driver task of            *)
(* src/cs104/connection.rs, the application handle `Connection`, and the   *)
(* queues between them.  The module gives one action per branch of the     *)
(* driver's select loop and per method of the handle, for every connection *)
(* c of the set Conn; Open104 and Link104 compose them.                    *)
(*                                                                         *)
(* The reader and writer tasks, their two queues and the socket are one    *)
(* FIFO: line[c] holds the APDUs c has emitted and its peer's driver has   *)
(* not taken.  Time is abstracted: a timer that runs may expire at any     *)
(* tick.  The branches of the select are taken in any order although it is *)
(* `biased`, because a producer may fill a queue right after it was polled.*)
(***************************************************************************)
EXTENDS Apci104

CONSTANTS Conn,      \* the connections
          Role,      \* Role[c]: "Master" or "Controlled"
          K,         \* K[c]: send_unack_limit_k
          W,         \* W[c]: recv_unack_limit_w
          AsduCap    \* AsduCap[c]: capacity of the ASDU queue, 16 * k in the code

ASSUME ConnectionAssumption ==
    /\ Role \in [Conn -> {"Master", "Controlled"}]
    /\ K \in [Conn -> 1 .. (M - 1)]             \* Config::valid
    /\ W \in [Conn -> 1 .. (M - 1)]
    /\ AsduCap \in [Conn -> Nat \ {0}]

VARIABLES
    connected,   \* the AtomicBool of the handle: the driver has not left its loop
    closedBy,    \* why it left
    active,      \* the AtomicBool of the handle: data transfer is started
    drv,         \* the locals of the driver task
    asduQ,       \* tx_asdu: ASDUs accepted from the application, not yet sent
    ctrlQ,       \* tx_ctrl: start and stop requests of the application
    line,        \* APDUs emitted and not yet taken by the peer
    packs        \* ASDUs handed to the dispatcher

connVars == <<connected, closedBy, active, drv, asduQ, ctrlQ, line, packs>>

CloseReason == {"none", "shutdown", "peer", "ack", "sequence", "stopped", "t1"}

(***************************************************************************)
(* The driver's locals.  pending keeps the sequence numbers of the         *)
(* unacknowledged I-frames; the `..Since` fields say whether the timer of  *)
(* an unconfirmed U-frame is running.  maySend is the precondition of the  *)
(* ASDU branch, computed at the head of the loop and used until the select *)
(* completes.                                                              *)
(***************************************************************************)
Driver == [seqNoSend : SeqNo, ackNoSend : SeqNo,
           seqNoRcv  : SeqNo, ackNoRcv  : SeqNo,
           pending   : Seq(SeqNo),
           startDtSince : BOOLEAN, stopDtSince : BOOLEAN, testFrSince : BOOLEAN,
           stopping : BOOLEAN, stopConPending : BOOLEAN, maySend : BOOLEAN]

NewDriver == [seqNoSend |-> 0, ackNoSend |-> 0, seqNoRcv |-> 0, ackNoRcv |-> 0,
              pending |-> <<>>,
              startDtSince |-> FALSE, stopDtSince |-> FALSE, testFrSince |-> FALSE,
              stopping |-> FALSE, stopConPending |-> FALSE, maySend |-> FALSE]

ConnInit ==
    /\ connected = [c \in Conn |-> TRUE]
    /\ closedBy  = [c \in Conn |-> "none"]
    /\ active    = [c \in Conn |-> FALSE]
    /\ drv       = [c \in Conn |-> NewDriver]
    /\ asduQ     = [c \in Conn |-> <<>>]
    /\ line      = [c \in Conn |-> <<>>]
    /\ packs     = [c \in Conn |-> <<>>]

-----------------------------------------------------------------------------
(***************************************************************************)
(* What the driver does to its locals.                                     *)
(***************************************************************************)

\* I-frames sent and not acknowledged; received and not acknowledged.
Outstanding(d) == SeqNoCount(d.ackNoSend, d.seqNoSend)
Unacked(d)     == SeqNoCount(d.ackNoRcv, d.seqNoRcv)

\* An I-frame goes out: it acknowledges everything received.
Sent(d) ==
    [d EXCEPT !.ackNoRcv  = d.seqNoRcv,
              !.pending   = Append(d.pending, d.seqNoSend),
              !.seqNoSend = Succ(d.seqNoSend)]

\* update_ack_no_out: is the acknowledgement in the window?
AckAccepted(d, recvSn) ==
    \/ recvSn = d.ackNoSend
    \/ SeqNoCount(d.ackNoSend, d.seqNoSend) >= SeqNoCount(recvSn, d.seqNoSend)

\* Mutants: the acknowledged entry stays; the whole list goes.
DrainBefore(pending, last) ==
    IF \E i \in 1 .. Len(pending) : pending[i] = last
      THEN LET pos == CHOOSE i \in 1 .. Len(pending) : pending[i] = last
           IN  SubSeq(pending, pos, Len(pending))
      ELSE pending
DrainAll(pending, last) == <<>>

\* pending without everything up to the first entry equal to last.
DrainUpTo(pending, last) ==
    IF \E i \in 1 .. Len(pending) : pending[i] = last
      THEN LET pos == CHOOSE i \in 1 .. Len(pending) :
                         /\ pending[i] = last
                         /\ \A j \in 1 .. (i - 1) : pending[j] # last
           IN  SubSeq(pending, pos + 1, Len(pending))
      ELSE pending

\* update_ack_no_out: an acknowledgement in the window is applied.
Acknowledge(d, recvSn) ==
    IF recvSn = d.ackNoSend
      THEN d
      ELSE [d EXCEPT !.pending   = DrainUpTo(d.pending, Pred(recvSn)),
                     !.ackNoSend = recvSn]

\* An in-sequence I-frame is numbered.
Received(d) == [d EXCEPT !.seqNoRcv = Succ(d.seqNoRcv)]

\* Mutants: one frame too late; a single frame is not acknowledged.
AckDueLate(c, d) == Unacked(d) > W[c]
AckOwedLate(d)   == Unacked(d) > 1

\* w received I-frames await their acknowledgement; at least one does.
AckDue(c, d) == Unacked(d) >= W[c]
AckOwed(d)   == d.ackNoRcv # d.seqNoRcv

\* An S-frame acknowledging everything received goes out.
AckSent(d) == [d EXCEPT !.ackNoRcv = d.seqNoRcv]

\* Mutant: the stop is requested, but I-frames go on.
StopSentOnly(d) == [d EXCEPT !.stopDtSince = TRUE]

\* STARTDT act and STOPDT act go out: t1 runs until they are confirmed, and
\* from the latter on no I-frame may be sent.
StartSent(d) == [d EXCEPT !.stopping = FALSE, !.startDtSince = TRUE]
StopSent(d)  == [d EXCEPT !.stopping = TRUE,  !.stopDtSince = TRUE]

\* Mutant: the state of data transfer is not looked at.
LoopHeadStarted(c, d, act) ==
    [d EXCEPT !.maySend = ~d.stopping /\ Outstanding(d) < K[c]]

\* The head of the loop, for the select that follows.
LoopHead(c, d, act) ==
    [d EXCEPT !.maySend = act /\ ~d.stopping /\ Outstanding(d) < K[c]]

\* The retransmission list that t1 looks at is exactly the send window: one
\* entry per unacknowledged I-frame, in order, across the wraparound.
WindowMatches(d) ==
    /\ Len(d.pending) = Outstanding(d)
    /\ \A i \in 1 .. Len(d.pending) : d.pending[i] = (d.ackNoSend + i - 1) % M

-----------------------------------------------------------------------------
(***************************************************************************)
(* Ends of an iteration.  ln is the lines as this iteration finds them     *)
(* (the frame it handles already taken), out the APDUs it emits.           *)
(***************************************************************************)
Iterate(c, d, act, out, ln) ==
    /\ drv'    = [drv EXCEPT ![c] = LoopHead(c, d, act)]
    /\ active' = [active EXCEPT ![c] = act]
    /\ line'   = [ln EXCEPT ![c] = @ \o out]
    /\ UNCHANGED <<connected, closedBy>>

\* The driver leaves its loop, and the teardown follows.  Whatever is still
\* on its line may or may not reach the peer.
Close(c, why, ln) ==
    /\ connected' = [connected EXCEPT ![c] = FALSE]
    /\ closedBy'  = [closedBy EXCEPT ![c] = why]
    /\ active'    = [active EXCEPT ![c] = FALSE]
    /\ line'      = ln
    /\ UNCHANGED <<drv, asduQ, ctrlQ, packs>>

\* Mutant: STOPDT con is not held back.
StopConAtOnce(d) == d.stopConPending

\* Mutant: a held STOPDT con is forgotten.
FrameDoneForgets(c, d, act, out, ln) == Iterate(c, d, act, out, ln)

\* The end of the frame branch: a STOPDT con that was held back goes out as
\* soon as nothing this station sent is unacknowledged.
StopConDue(d) == d.stopConPending /\ d.ackNoSend = d.seqNoSend

FrameDone(c, d, act, out, ln) ==
    IF StopConDue(d)
      THEN Iterate(c, [d EXCEPT !.stopConPending = FALSE], act,
                   Append(out, UFrame("StopDtCon")), ln)
      ELSE Iterate(c, d, act, out, ln)

-----------------------------------------------------------------------------
(***************************************************************************)
(* The application's side of the handle.                                   *)
(***************************************************************************)

\* Connection::try_enqueue.  A refusal changes nothing; `marshal_binary` refuses
\* an ASDU that is longer than a frame carries, or wrong otherwise.
TryEnqueue(c, a) ==
    /\ connected[c]
    /\ Role[c] = "Master" => active[c]
    /\ a \in Asdu
    /\ Len(asduQ[c]) < AsduCap[c]
    /\ asduQ' = [asduQ EXCEPT ![c] = Append(@, a)]
    /\ UNCHANGED <<connected, closedBy, active, drv, ctrlQ, line, packs>>

\* Connection::send_start_dt and send_stop_dt.
Request(c, ctrl) ==
    /\ connected[c]
    /\ ctrlQ' = [ctrlQ EXCEPT ![c] = Append(@, ctrl)]
    /\ UNCHANGED <<connected, closedBy, active, drv, asduQ, line, packs>>

\* Connection::demote, called by the redundancy group of a controlled station.
\* It does not wake the driver.
Demote(c) ==
    /\ Role[c] = "Controlled"
    /\ active' = [active EXCEPT ![c] = FALSE]
    /\ UNCHANGED <<connected, closedBy, drv, asduQ, ctrlQ, line, packs>>

-----------------------------------------------------------------------------
(***************************************************************************)
(* The branches of the select.                                             *)
(***************************************************************************)
Shutdown(c, ln) == connected[c] /\ Close(c, "shutdown", ln)

\* An ASDU too long for a frame is dropped: the queue holds none as long as
\* try_enqueue lets none in.
SendAsdu(c, ln) ==
    LET d == drv[c] IN
    /\ connected[c]
    /\ d.maySend
    /\ asduQ[c] # <<>>
    /\ asduQ' = [asduQ EXCEPT ![c] = Tail(@)]
    /\ IF Head(asduQ[c]) \in Asdu
         THEN Iterate(c, Sent(d), active[c],
                      <<IFrame(d.seqNoSend, d.seqNoRcv, Head(asduQ[c]))>>, ln)
         ELSE Iterate(c, d, active[c], <<>>, ln)
    /\ UNCHANGED <<ctrlQ, packs>>

SendCtrl(c, ln) ==
    LET d == drv[c] IN
    /\ connected[c]
    /\ ctrlQ[c] # <<>>
    /\ ctrlQ' = [ctrlQ EXCEPT ![c] = Tail(@)]
    /\ \/ /\ Head(ctrlQ[c]) = "StartDt"
          /\ Iterate(c, StartSent(d), active[c], <<UFrame("StartDtAct")>>, ln)
       \/ /\ Head(ctrlQ[c]) = "StopDt"
          /\ Iterate(c, StopSent(d), active[c], <<UFrame("StopDtAct")>>, ln)
    /\ UNCHANGED <<asduQ, packs>>

\* The peer has closed the stream, or it broke.
PeerClosed(c, ln) == connected[c] /\ Close(c, "peer", ln)

(***************************************************************************)
(* The frame branch, by the kind of APDU.  pk is the dispatcher's queues   *)
(* as this iteration finds them.                                           *)
(***************************************************************************)
OnMalformed(c, f, ln, pk) ==
    /\ f = Malformed
    /\ Iterate(c, drv[c], active[c], <<>>, ln)
    /\ packs' = pk
    /\ UNCHANGED <<asduQ, ctrlQ>>

OnS(c, f, ln, pk) ==
    /\ f.fmt = "S"
    /\ IF AckAccepted(drv[c], f.recv)
         THEN /\ FrameDone(c, Acknowledge(drv[c], f.recv), active[c], <<>>, ln)
              /\ packs' = pk
              /\ UNCHANGED <<asduQ, ctrlQ>>
         ELSE Close(c, "ack", ln)

\* Why an I-frame closes the connection, or "none".  A controlled station
\* refuses one while stopped, a master takes it.
IFrameError(c, f) ==
    IF ~active[c] /\ Role[c] = "Controlled"   THEN "stopped"
    ELSE IF ~AckAccepted(drv[c], f.recv)      THEN "ack"
    ELSE IF f.send # drv[c].seqNoRcv          THEN "sequence"
    ELSE "none"

OnI(c, f, ln, pk) ==
    LET d    == Received(Acknowledge(drv[c], f.recv))
        full == AckDue(c, d)
    IN
    /\ f.fmt = "I"
    /\ \/ /\ IFrameError(c, f) # "none"
          /\ Close(c, IFrameError(c, f), ln)
       \/ /\ IFrameError(c, f) = "none"
          /\ packs' = IF f.asdu = Garbage THEN pk
                      ELSE [pk EXCEPT ![c] = Append(@, f.asdu)]
          /\ FrameDone(c, IF full THEN AckSent(d) ELSE d, active[c],
                       IF full THEN <<SFrame(d.seqNoRcv)>> ELSE <<>>, ln)
          /\ UNCHANGED <<asduQ, ctrlQ>>

\* Mutant: a held STOPDT con survives the start.
OnStartDtActHeld(c, ln) == FrameDone(c, drv[c], TRUE, <<UFrame("StartDtCon")>>, ln)

OnStartDtAct(c, ln) ==
    FrameDone(c, [drv[c] EXCEPT !.stopConPending = FALSE], TRUE,
              <<UFrame("StartDtCon")>>, ln)

OnStopDtAct(c, ln) ==
    LET d == drv[c] IN
    FrameDone(c, [AckSent(d) EXCEPT !.stopConPending = TRUE], FALSE,
              IF AckOwed(d) THEN <<SFrame(d.seqNoRcv)>> ELSE <<>>, ln)

OnStartDtCon(c, ln) ==
    FrameDone(c, [drv[c] EXCEPT !.startDtSince = FALSE], TRUE, <<>>, ln)

OnStopDtCon(c, ln) ==
    FrameDone(c, [drv[c] EXCEPT !.stopDtSince = FALSE, !.stopping = FALSE],
              FALSE, <<>>, ln)

OnTestFrAct(c, ln) ==
    FrameDone(c, drv[c], active[c], <<UFrame("TestFrCon")>>, ln)

OnTestFrCon(c, ln) ==
    FrameDone(c, [drv[c] EXCEPT !.testFrSince = FALSE], active[c], <<>>, ln)

\* The U-frames that are not valid for the role are ignored.
ForRole(func) == CASE func \in {"StartDtAct", "StopDtAct"} -> {"Controlled"}
                   [] func \in {"StartDtCon", "StopDtCon"} -> {"Master"}
                   [] OTHER -> {"Controlled", "Master"}

OnU(c, f, ln, pk) ==
    /\ f.fmt = "U"
    /\ IF Role[c] \notin ForRole(f.func)
         THEN FrameDone(c, drv[c], active[c], <<>>, ln)
         ELSE \/ f.func = "StartDtAct" /\ OnStartDtAct(c, ln)
              \/ f.func = "StopDtAct"  /\ OnStopDtAct(c, ln)
              \/ f.func = "StartDtCon" /\ OnStartDtCon(c, ln)
              \/ f.func = "StopDtCon"  /\ OnStopDtCon(c, ln)
              \/ f.func = "TestFrAct"  /\ OnTestFrAct(c, ln)
              \/ f.func = "TestFrCon"  /\ OnTestFrCon(c, ln)
    /\ packs' = pk
    /\ UNCHANGED <<asduQ, ctrlQ>>

OnFrame(c, f, ln, pk) ==
    /\ connected[c]
    /\ \/ OnMalformed(c, f, ln, pk)
       \/ OnS(c, f, ln, pk)
       \/ OnI(c, f, ln, pk)
       \/ OnU(c, f, ln, pk)

(***************************************************************************)
(* The ticker branch.  t1 may have expired if its timer runs; t2 says      *)
(* whether the acknowledgement of received frames is due, by t2 or by a    *)
(* tick of silence; t3 whether the line has been idle for t3.              *)
(***************************************************************************)
T1Running(d) ==
    \/ d.testFrSince \/ d.startDtSince \/ d.stopDtSince
    \/ d.ackNoSend # d.seqNoSend /\ d.pending # <<>>

TickT1(c, ln) ==
    /\ connected[c]
    /\ T1Running(drv[c])
    /\ Close(c, "t1", ln)

Tick(c, t2, t3, ln) ==
    LET d   == drv[c]
        ack == t2 /\ AckOwed(d)
        d1  == IF ack THEN AckSent(d) ELSE d
    IN
    /\ connected[c]
    /\ Iterate(c, IF t3 THEN [d1 EXCEPT !.testFrSince = TRUE] ELSE d1, active[c],
               (IF ack THEN <<SFrame(d.seqNoRcv)>> ELSE <<>>)
                 \o (IF t3 THEN <<UFrame("TestFrAct")>> ELSE <<>>), ln)
    /\ UNCHANGED <<asduQ, ctrlQ, packs>>
==============================================================================
