---------------------------- MODULE Secondary101 ----------------------------
(***************************************************************************)
(* The link of a controlled station, src/cs101/server.rs: SecondaryState,  *)
(* and the buffers its application fills.  A station s is a record         *)
(*                                                                         *)
(*   fcbExpected  the frame count bit the next counted frame must have     *)
(*   lastResp     the last response, repeated when a request is            *)
(*   sent, retry  balanced: the frame this station awaits the              *)
(*                confirmation of, and its repetitions                     *)
(*   fcb, active  balanced: frame count bit of its next frame, and whether *)
(*                its transmit direction was reset                         *)
(*                                                                         *)
(* and its buffers b a record with the queues class1, class2 and prim.     *)
(* An operation yields both, the frames written, and the ASDU handed to    *)
(* the application.                                                        *)
(***************************************************************************)
EXTENDS Frame101

CONSTANTS MaxRepetitions,      \* Config::max_repetitions
          SingleCharAckUsed,   \* Config::use_single_char_ack
          Broadcast,           \* the broadcast link address
          NoAsdu               \* `None` where an optional ASDU is kept

NewStation == [fcbExpected |-> TRUE, lastResp |-> NoFrame, sent |-> NoFrame,
               retry |-> 0, fcb |-> FALSE, active |-> FALSE]
NewBuffers == [class1 |-> <<>>, class2 |-> <<>>, prim |-> <<>>]

Step(s, b, out) == [station |-> s, buffers |-> b, out |-> out, asdu |-> NoAsdu]
Ignored(s, b) == Step(s, b, <<>>)

\* send_resp
Respond(s, b, f) == Step([s EXCEPT !.lastResp = f], b, <<f>>)

SecFrame(a, fun, acd) == Fixed(Secondary(fun, acd, FALSE), a)

\* ack_frame: E5 has no place for the access demand.
AckFrame(a, fun, acd) == IF SingleCharAckUsed /\ ~acd THEN SingleCharAck
                         ELSE SecFrame(a, fun, acd)

Class1Pending(b) == b.class1 # <<>>
LinkAck(s, b, a)    == Respond(s, b, AckFrame(a, CONF_ACK, Class1Pending(b)))
LinkStatus(s, b, a) == Respond(s, b, SecFrame(a, RESP_STATUS, Class1Pending(b)))

-----------------------------------------------------------------------------
\* Server::send puts an ASDU into the queue its cause selects.
QueueFor(cyclic, balanced) == IF balanced THEN "prim"
                              ELSE IF cyclic THEN "class2" ELSE "class1"

\* pop_class: the class asked for, or the other one when it has nothing.
PoppedFrom(b, class) ==
    LET first  == IF class = 2 THEN "class2" ELSE "class1"
        second == IF class = 2 THEN "class1" ELSE "class2"
    IN  IF b[first] # <<>> THEN first ELSE second

\* Mutant: the response is not kept for repetition.
ClassDataUnkept(s, b, a, class) ==
    LET q    == PoppedFrom(b, class)
        rest == [b EXCEPT ![q] = Tail(@)]
    IN  IF b[q] = <<>> THEN Respond(s, b, AckFrame(a, RESP_NO_DATA, FALSE))
        ELSE Step(s, rest, <<Variable(Secondary(RESP_DATA, Class1Pending(rest), FALSE),
                                      a, Head(b[q]))>>)

\* respond_class_data: the access demand tells of what is left.
ClassData(s, b, a, class) ==
    LET q    == PoppedFrom(b, class)
        rest == [b EXCEPT ![q] = Tail(@)]
    IN  IF b[q] = <<>> THEN Respond(s, b, AckFrame(a, RESP_NO_DATA, FALSE))
        ELSE Respond(s, rest, Variable(Secondary(RESP_DATA, Class1Pending(rest), FALSE),
                                       a, Head(b[q])))

-----------------------------------------------------------------------------
\* The frame's user data, if it has any, goes to the application.
Handing(o, f) == [o EXCEPT !.asdu = IF f.kind = "Variable" THEN f.asdu ELSE NoAsdu]

\* Mutant: the frame count goes on over a reset.
ServiceKeepsCount(s, b, a, f) ==
    CASE f.control.fun = RESET_LINK -> LinkAck([s EXCEPT !.lastResp = NoFrame], b, a)
      [] f.control.fun \in {RESET_USER, TEST_LINK} -> LinkAck(s, b, a)
      [] f.control.fun = USER_DATA_CONF    -> Handing(LinkAck(s, b, a), f)
      [] f.control.fun = USER_DATA_NO_CONF -> Handing(Ignored(s, b), f)
      [] f.control.fun \in {REQ_ACCESS, REQ_STATUS} -> LinkStatus(s, b, a)
      [] f.control.fun = REQ_DATA1 -> ClassData(s, b, a, 1)
      [] f.control.fun = REQ_DATA2 -> ClassData(s, b, a, 2)
      [] OTHER -> Respond(s, b, SecFrame(a, RESP_LINK_NI, FALSE))

\* What a new frame asks for.
Service(s, b, a, f) ==
    CASE f.control.fun = RESET_LINK ->
             LinkAck([s EXCEPT !.fcbExpected = TRUE, !.lastResp = NoFrame], b, a)
      [] f.control.fun \in {RESET_USER, TEST_LINK} -> LinkAck(s, b, a)
      [] f.control.fun = USER_DATA_CONF    -> Handing(LinkAck(s, b, a), f)
      [] f.control.fun = USER_DATA_NO_CONF -> Handing(Ignored(s, b), f)
      [] f.control.fun \in {REQ_ACCESS, REQ_STATUS} -> LinkStatus(s, b, a)
      [] f.control.fun = REQ_DATA1 -> ClassData(s, b, a, 1)
      [] f.control.fun = REQ_DATA2 -> ClassData(s, b, a, 2)
      [] OTHER -> Respond(s, b, SecFrame(a, RESP_LINK_NI, FALSE))

\* A repeated frame gets the response it got before, and is not acted on.
Repeated(s, b, a) == IF s.lastResp = NoFrame THEN LinkAck(s, b, a)
                     ELSE Step(s, b, <<s.lastResp>>)

\* Mutant: the frame count bit is not looked at.
PrimaryFrameUncounted(s, b, a, f) ==
    IF FcvWrong(f.control) THEN Ignored(s, b) ELSE Service(s, b, a, f)

PrimaryFrame(s, b, a, f) ==
    LET c == f.control IN
    CASE FcvWrong(c) -> Ignored(s, b)
      [] ~FcvWrong(c) /\ c.fcv /\ c.fcb # s.fcbExpected -> Repeated(s, b, a)
      [] ~FcvWrong(c) /\ c.fcv /\ c.fcb = s.fcbExpected ->
             Service([s EXCEPT !.fcbExpected = ~@], b, a, f)
      [] ~FcvWrong(c) /\ ~c.fcv -> Service(s, b, a, f)

\* Only unconfirmed user data is for every station at once.
BroadcastFrame(s, b, f) ==
    IF f.control.fun = USER_DATA_NO_CONF THEN Handing(Ignored(s, b), f)
                                         ELSE Ignored(s, b)

-----------------------------------------------------------------------------
\* Balanced mode, the primary role: prim_confirm
Freed(s) == [s EXCEPT !.sent = NoFrame, !.retry = 0]

PrimConfirm(s) ==
    LET c == s.sent.control IN
    IF s.sent = NoFrame THEN s
    ELSE IF c.fun = RESET_LINK THEN [Freed(s) EXCEPT !.active = TRUE, !.fcb = TRUE]
    ELSE IF c.fcv THEN [Freed(s) EXCEPT !.fcb = ~c.fcb] ELSE Freed(s)

\* handle_peer_secondary_frame; CONF_NACK leaves the frame outstanding.
PeerSecondaryFrame(s, fun) ==
    CASE fun \in {CONF_ACK, RESP_STATUS} -> PrimConfirm(s)
      [] fun \in {RESP_LINK_NF, RESP_LINK_NI} -> [Freed(s) EXCEPT !.active = FALSE]
      [] OTHER -> s

PrimSend(s, b, f) == Step([s EXCEPT !.sent = f, !.retry = 0], b, <<f>>)

\* prim_tick while a frame is outstanding and its deadline has passed.  The
\* ASDU of a frame that is given up is gone: it was taken off the queue.
PrimExhausted(s) == s.retry >= MaxRepetitions
PrimTimeout(s, b) ==
    IF PrimExhausted(s) THEN Ignored([Freed(s) EXCEPT !.active = FALSE], b)
    ELSE Step([s EXCEPT !.retry = @ + 1], b, <<s.sent>>)

\* prim_tick while nothing is; prim_next_init spaces out the resets only.
PrimTick(s, b, a) ==
    IF ~s.active
      THEN PrimSend(s, b, Fixed(Primary(RESET_LINK, FALSE, FALSE, FALSE), a))
      ELSE IF b.prim = <<>> THEN Ignored(s, b)
      ELSE PrimSend(s, [b EXCEPT !.prim = Tail(@)],
                    Variable(Primary(USER_DATA_CONF, TRUE, s.fcb, FALSE), a, Head(b.prim)))

-----------------------------------------------------------------------------
\* handle_frame of the station with link address a.
HandleFrame(s, b, a, f, balanced) ==
    IF f.kind = "SingleCharAck"
      THEN IF balanced THEN Ignored(PrimConfirm(s), b) ELSE Ignored(s, b)
    ELSE IF f.addr \notin {a, Broadcast} THEN Ignored(s, b)
    ELSE IF ~f.control.prm
      THEN IF balanced THEN Ignored(PeerSecondaryFrame(s, f.control.fun), b)
                       ELSE Ignored(s, b)
    ELSE IF f.addr = Broadcast THEN BroadcastFrame(s, b, f)
    ELSE PrimaryFrame(s, b, a, f)
=============================================================================
