------------------------------- MODULE Link104 -------------------------------
(***************************************************************************)
(* A master and a controlled station, both running the driver of           *)
(* Connection104, at the two ends of one TCP connection.  Each end reads   *)
(* what the other has put on its line, in order.  A driver may leave its   *)
(* loop at any moment (shutdown); the other end then sees the end of the   *)
(* stream after any number of the APDUs still on the line.                 *)
(***************************************************************************)
EXTENDS Connection104, FiniteSets

CONSTANTS MaxAsdu,      \* bound: MaxAsdu[c] ASDUs are accepted from c's application
          MaxRequest,   \* bound: start and stop requests of the master's application
          MaxTestFr,    \* bound: test frames on the line of one end
          Patient       \* the master's application awaits each confirmation

ASSUME LinkAssumption ==
    /\ \E m, s \in Conn : m # s /\ Conn = {m, s}
                          /\ Role[m] = "Master" /\ Role[s] = "Controlled"
    /\ MaxAsdu \in [Conn -> Nat] /\ MaxRequest \in Nat /\ MaxTestFr \in Nat
    /\ \A c \in Conn : 1 .. MaxAsdu[c] \subseteq Asdu
    /\ Patient \in BOOLEAN

VARIABLES accepted,     \* accepted[c]: number of ASDUs accepted from c's application
          requests      \* number of start and stop requests made

vars == <<connVars, accepted, requests>>

Peer(c) == CHOOSE x \in Conn : x # c
Master  == CHOOSE c \in Conn : Role[c] = "Master"
Station == Peer(Master)

Init ==
    /\ ConnInit
    /\ ctrlQ \in [Conn -> {<<>>, <<"StartDt">>}]       \* auto_start_dt
    /\ ctrlQ[Station] = <<>>
    /\ accepted = [c \in Conn |-> 0]
    /\ requests = 0

-----------------------------------------------------------------------------
\* The application sends the ASDUs 1, 2, 3, ... of its own stream.
Submit(c) ==
    /\ accepted[c] < MaxAsdu[c]
    /\ TryEnqueue(c, accepted[c] + 1)
    /\ accepted' = [accepted EXCEPT ![c] = @ + 1]
    /\ UNCHANGED requests

\* A patient application asks for a start or a stop only when the one before
\* was confirmed.
MayRequest ==
    Patient => /\ ctrlQ[Master] = <<>>
               /\ ~drv[Master].startDtSince
               /\ ~drv[Master].stopDtSince

StartStop(ctrl) ==
    /\ requests < MaxRequest
    /\ MayRequest
    /\ Request(Master, ctrl)
    /\ requests' = requests + 1
    /\ UNCHANGED accepted

DriverSend(c) == (SendAsdu(c, line) \/ SendCtrl(c, line)) /\ UNCHANGED <<accepted, requests>>

Read(c) ==
    /\ line[Peer(c)] # <<>>
    /\ OnFrame(c, Head(line[Peer(c)]), [line EXCEPT ![Peer(c)] = Tail(@)], packs)
    /\ UNCHANGED <<accepted, requests>>

ReadEof(c) ==
    /\ ~connected[Peer(c)]
    /\ PeerClosed(c, line)
    /\ UNCHANGED <<accepted, requests>>

IsTestFr(f) == f.fmt = "U" /\ f.func \in {"TestFrAct", "TestFrCon"}
TestFrOnLine(c) == Cardinality({i \in 1 .. Len(line[c]) : IsTestFr(line[c][i])})

Timer(c) ==
    /\ \/ TickT1(c, line)
       \/ \E t2, t3 \in BOOLEAN :
             /\ t3 => TestFrOnLine(c) + TestFrOnLine(Peer(c)) < MaxTestFr
             /\ Tick(c, t2, t3, line)
    /\ UNCHANGED <<accepted, requests>>

Stop(c) == Shutdown(c, line) /\ UNCHANGED <<accepted, requests>>

Next ==
    \/ \E ctrl \in {"StartDt", "StopDt"} : StartStop(ctrl)
    \/ \E c \in Conn : \/ Submit(c) \/ DriverSend(c) \/ Read(c) \/ ReadEof(c)
                       \/ Timer(c)  \/ Stop(c)

\* The tick that finds the acknowledgement of received frames due: t2 always
\* runs out, and so does the tick of silence.
AckTick(c) ==
    /\ drv[c].ackNoRcv # drv[c].seqNoRcv
    /\ Tick(c, TRUE, FALSE, line)
    /\ UNCHANGED <<accepted, requests>>

\* The tasks of the runtime are scheduled: a driver that can send, take a
\* frame, see the end of the stream or acknowledge does so eventually.  The
\* applications, t1, t3 and the shutdown owe nothing.
Fairness ==
    \A c \in Conn : /\ WF_vars(SendAsdu(c, line) /\ UNCHANGED <<accepted, requests>>)
                    /\ WF_vars(SendCtrl(c, line) /\ UNCHANGED <<accepted, requests>>)
                    /\ WF_vars(Read(c))
                    /\ WF_vars(ReadEof(c))
                    /\ WF_vars(AckTick(c))

Spec == Init /\ [][Next]_vars /\ Fairness

-----------------------------------------------------------------------------
\* Every variable has its type.
TypeOK ==
    /\ connected \in [Conn -> BOOLEAN]
    /\ closedBy \in [Conn -> CloseReason]
    /\ active \in [Conn -> BOOLEAN]
    /\ drv \in [Conn -> Driver]
    /\ asduQ \in [Conn -> Seq(Asdu)]
    /\ ctrlQ \in [Conn -> Seq({"StartDt", "StopDt"})]
    /\ line \in [Conn -> Seq(Apdu)]
    /\ packs \in [Conn -> Seq(Asdu)]
    /\ accepted \in [Conn -> Nat]
    /\ requests \in Nat

\* Two conforming ends never give each other a reason to close: no
\* acknowledgement outside the window, no frame out of sequence, no I-frame
\* for a stopped station, whatever crosses on the line.
NoProtocolError ==
    \A c \in Conn : closedBy[c] \notin {"ack", "sequence", "stopped"}

\* The part of it that needs no patience of the application.
NoSequenceError == \A c \in Conn : closedBy[c] \notin {"ack", "sequence"}

\* I-frames of c that were acknowledged.
Acknowledged(c) == accepted[c] - Len(asduQ[c]) - Len(drv[c].pending)

\* "A master sends no more I-frames once it has sent STOPDT act": on the line
\* none follows a STOPDT act unless a STARTDT act came between.
NoIAfterStopDt ==
    \A i, j \in 1 .. Len(line[Master]) :
        /\ i < j
        /\ line[Master][i] = UFrame("StopDtAct")
        /\ line[Master][j].fmt = "I"
        => \E k \in i .. j : line[Master][k] = UFrame("StartDtAct")

\* The master's application has asked for nothing that is unconfirmed.
NothingAsked ==
    /\ ctrlQ[Master] = <<>>
    /\ ~drv[Master].startDtSince
    /\ ~drv[Master].stopDtSince

\* Once the master has no request outstanding the two ends agree whether data transfer
\* is on; and a stop has settled both directions: what either end sent is acknowledged.
StoppedIsSettled ==
    NothingAsked /\ connected[Master] /\ connected[Station] =>
        /\ active[Master] <=> active[Station]
        /\ ~active[Master] => \A c \in Conn : drv[c].pending = <<>>

\* Every start and every stop request is confirmed, unless the connection ends.
RequestsAreConfirmed ==
    /\ drv[Master].startDtSince ~> (~drv[Master].startDtSince \/ ~connected[Master])
    /\ drv[Master].stopDtSince ~> (~drv[Master].stopDtSince \/ ~connected[Master])

\* While data transfer lasts, everything accepted is delivered to the other
\* end and acknowledged.
InTransfer == /\ \A c \in Conn : connected[c] /\ active[c]
              /\ ~drv[Master].stopping

AllDelivered ==
    <>[]InTransfer =>
        <>[](\A c \in Conn : /\ Len(packs[Peer(c)]) = accepted[c]
                             /\ drv[c].pending = <<>>)

\* The link implements the abstract data transfer: each dispatcher is handed the other
\* end's stream in order, without a gap, a repetition or an invention, and an I-frame
\* leaves the window only once its ASDU was handed over, although the numbers wrap.
DataTransfer == INSTANCE DataTransfer104 WITH
    End       <- Conn,
    Other     <- Peer,
    open      <- connected,
    submitted <- accepted,
    delivered <- [c \in Conn |-> packs[Peer(c)]],
    confirmed <- [c \in Conn |-> Acknowledged(c)]

IsDataTransfer == DataTransfer!Spec
==============================================================================
