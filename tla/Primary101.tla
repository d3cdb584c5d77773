----------------------------- MODULE Primary101 -----------------------------
(***************************************************************************)
(* The link of a primary station, src/cs101/client.rs: LinkState and what  *)
(* each of its operations does.  A link is a record                        *)
(*                                                                         *)
(*   secs         what is known of each station served                     *)
(*   order, idx   the stations in polling order, and whose turn it is      *)
(*   sent, retry  the frame awaiting its confirmation, and its repetitions *)
(*   fcbExpected  balanced: the frame count bit the peer's next frame has  *)
(*   dir          balanced: this station is station A and sets DIR         *)
(*                                                                         *)
(* An operation yields the new link, the frames written, the frame it      *)
(* found confirmed, and whether the received frame's ASDU is delivered.    *)
(* The channel to the writer always has room: at most three frames are     *)
(* written at a time, and it holds twenty.                                 *)
(***************************************************************************)
EXTENDS Frame101, FiniteSetsExt

CONSTANTS MaxRepetitions,      \* Config::max_repetitions
          SingleCharAckUsed    \* Config::use_single_char_ack

NewSecondary == [phase |-> "Status", fcb |-> FALSE,
                 wantClass1 |-> FALSE, busy |-> FALSE]

\* LinkState::new
NewLink(order, balanced) ==
    [secs |-> [a \in ToSet(order) |-> NewSecondary], order |-> order, idx |-> 1,
     sent |-> NoFrame, retry |-> 0, fcbExpected |-> TRUE, dir |-> balanced]

Idle(l) == l.sent = NoFrame
IsActive(l, a) == l.secs[a].phase = "Active"
AnyActive(l) == \E a \in DOMAIN l.secs : IsActive(l, a)

Outcome(l, out) == [link |-> l, out |-> out, done |-> NoFrame, deliver |-> FALSE]
Unmoved(l) == Outcome(l, <<>>)

\* A frame is sent and awaits its confirmation; t1 runs from now.
SendConfirmed(l, f) == Outcome([l EXCEPT !.sent = f, !.retry = 0], <<f>>)

SendPrim(l, a, fun, fcv) ==
    SendConfirmed(l, Fixed(Primary(fun, fcv, l.secs[a].fcb, l.dir), a))

-----------------------------------------------------------------------------
Released(l) == [l EXCEPT !.sent = NoFrame, !.retry = 0]

\* Mutant: the first counted frame after a reset carries FCB = 0.
ConfirmedStationFcb0(sec, c) ==
    LET counted == IF c.fcv THEN [sec EXCEPT !.fcb = ~c.fcb] ELSE sec
    IN CASE c.fun = RESET_LINK -> [counted EXCEPT !.phase = "Active"]
         [] c.fun = REQ_STATUS /\ sec.phase = "Status" ->
                [counted EXCEPT !.phase = "Reset"]
         [] c.fun = REQ_DATA1 -> [counted EXCEPT !.wantClass1 = FALSE]
         [] OTHER -> counted

\* What the confirmation of a frame with control field c says of its station.
ConfirmedStation(sec, c) ==
    LET counted == IF c.fcv THEN [sec EXCEPT !.fcb = ~c.fcb] ELSE sec
    IN CASE c.fun = RESET_LINK -> [counted EXCEPT !.phase = "Active", !.fcb = TRUE]
         [] c.fun = REQ_STATUS /\ sec.phase = "Status" ->
                [counted EXCEPT !.phase = "Reset"]
         [] c.fun = REQ_DATA1 -> [counted EXCEPT !.wantClass1 = FALSE]
         [] OTHER -> counted

\* confirm_positive; `from` holds the station that answered, or every station
\* when the answer is a single character, which has no address.
ConfirmPositive(l, from) ==
    IF Idle(l) \/ l.sent.addr \notin from THEN Unmoved(l)
    ELSE [Unmoved([Released(l) EXCEPT
                     !.secs[l.sent.addr] = ConfirmedStation(@, l.sent.control)])
          EXCEPT !.done = l.sent]

GivenUp(sec) == [sec EXCEPT !.phase = "Status", !.wantClass1 = FALSE, !.busy = FALSE]

\* fail_transaction
FailTransaction(l, a) ==
    IF Idle(l) \/ l.sent.addr # a THEN Unmoved(l)
    ELSE Unmoved([Released(l) EXCEPT !.secs[a] = GivenUp(@)])

-----------------------------------------------------------------------------
\* send_sec_fixed
SecFixed(l, fun, a) == IF fun = CONF_ACK /\ SingleCharAckUsed THEN SingleCharAck
                       ELSE Fixed(Secondary(fun, FALSE, l.dir), a)

Answer(l, fun, a) == Outcome(l, <<SecFixed(l, fun, a)>>)
Delivered(o) == [o EXCEPT !.deliver = TRUE]

\* What a new frame of the peer's primary role asks for.
PeerService(l, fun, a) ==
    CASE fun = RESET_LINK -> Answer([l EXCEPT !.fcbExpected = TRUE], CONF_ACK, a)
      [] fun \in {RESET_USER, TEST_LINK} -> Answer(l, CONF_ACK, a)
      [] fun = USER_DATA_CONF            -> Delivered(Answer(l, CONF_ACK, a))
      [] fun = USER_DATA_NO_CONF         -> Delivered(Unmoved(l))
      [] fun = REQ_STATUS                -> Answer(l, RESP_STATUS, a)
      [] OTHER                           -> Answer(l, RESP_LINK_NI, a)

\* handle_peer_primary_frame: a repeated frame is acknowledged again, and no more.
PeerPrimaryFrame(l, c, a) ==
    CASE FcvWrong(c) -> Unmoved(l)
      [] ~FcvWrong(c) /\ c.fcv /\ c.fcb # l.fcbExpected -> Answer(l, CONF_ACK, a)
      [] ~FcvWrong(c) /\ c.fcv /\ c.fcb = l.fcbExpected ->
             PeerService([l EXCEPT !.fcbExpected = ~@], c.fun, a)
      [] ~FcvWrong(c) /\ ~c.fcv -> PeerService(l, c.fun, a)

-----------------------------------------------------------------------------
\* Which answers of a station confirm the frame that is outstanding, and which
\* give it up.  A station that is busy (CONF_NACK) does neither.
Confirms(f) ==
    \/ f.kind = "Fixed" /\ f.control.fun \in {CONF_ACK, RESP_NO_DATA, RESP_STATUS}
    \/ f.kind = "Variable" /\ f.control.fun \in {RESP_DATA, RESP_NO_DATA, RESP_STATUS}
Refuses(f) == f.kind = "Fixed" /\ f.control.fun \in {RESP_LINK_NF, RESP_LINK_NI}

AnswersPoll(f, o) == /\ f.kind = "Variable" /\ f.control.fun = RESP_DATA
                     /\ o.done # NoFrame
                     /\ o.done.control.fun \in {REQ_DATA1, REQ_DATA2}

\* A secondary frame of a station that is served.
Answered(l, f) ==
    IF Confirms(f)
      THEN LET o == ConfirmPositive(l, {f.addr})
           IN  [o EXCEPT !.deliver = AnswersPoll(f, o)]
      ELSE IF Refuses(f) THEN FailTransaction(l, f.addr) ELSE Unmoved(l)

\* An access demand is met at once where the link is idle, else by a later poll.
AccessDemand(o, f, balanced) ==
    LET l == [o.link EXCEPT !.secs[f.addr].wantClass1 = TRUE]
    IN  IF ~f.control.acd \/ balanced THEN o
        ELSE IF IsActive(l, f.addr) /\ Idle(l)
          THEN [SendPrim(l, f.addr, REQ_DATA1, TRUE)
                EXCEPT !.done = o.done, !.deliver = o.deliver]
          ELSE [o EXCEPT !.link = l]

\* handle_frame
HandleFrame(l, f, balanced) ==
    IF f.kind = "SingleCharAck" THEN ConfirmPositive(l, DOMAIN l.secs)
    ELSE IF f.addr \notin DOMAIN l.secs THEN Unmoved(l)
    ELSE IF f.control.prm
      THEN IF balanced THEN PeerPrimaryFrame(l, f.control, f.addr) ELSE Unmoved(l)
    ELSE AccessDemand(Answered([l EXCEPT !.secs[f.addr].busy = f.control.dfc], f),
                      f, balanced)

-----------------------------------------------------------------------------
(***************************************************************************)
(* tick: queued user data first, then initialization and polling.  The     *)
(* queue holds records with an address and an ASDU.  An ASDU that cannot   *)
(* be encoded is dropped in the code; here every ASDU can.                 *)
(***************************************************************************)
Known(l, q) == IF \A i \in DOMAIN q : q[i].addr \in DOMAIN l.secs THEN q
               ELSE SelectSeq(q, LAMBDA e : e.addr \in DOMAIN l.secs)
Sendable(l, q) == {i \in DOMAIN q : /\ q[i].addr \in DOMAIN l.secs
                                    /\ IsActive(l, q[i].addr)
                                    /\ ~l.secs[q[i].addr].busy}

\* Those for unknown stations go on the way to the first that can be sent.
QueueAfter(l, q) ==
    IF Sendable(l, q) = {} THEN Known(l, q)
    ELSE LET i == Min(Sendable(l, q))
         IN  Known(l, SubSeq(q, 1, i - 1)) \o SubSeq(q, i + 1, Len(q))

SendQueued(l, q) ==
    LET e == q[Min(Sendable(l, q))]
    IN  SendConfirmed(l, Variable(Primary(USER_DATA_CONF, TRUE, l.secs[e.addr].fcb, l.dir),
                                  e.addr, e.asdu))

\* Mutant: the stations are always polled from the first.
TurnFirst(l, k) == 1 + (k % Len(l.order))

\* Positions in polling order, the one whose turn it is first (k = 0).
Turn(l, k) == 1 + ((l.idx - 1 + k) % Len(l.order))
Due(l, k, balanced) == IsActive(l, l.order[Turn(l, k)]) => ~balanced

PollStation(l, a) ==
    CASE l.secs[a].phase = "Status" -> SendPrim(l, a, REQ_STATUS, FALSE)
      [] l.secs[a].phase = "Reset"  -> SendPrim(l, a, RESET_LINK, FALSE)
      [] l.secs[a].phase = "Active" ->
             SendPrim(l, a, IF l.secs[a].wantClass1 THEN REQ_DATA1 ELSE REQ_DATA2, TRUE)

Poll(l, balanced) ==
    LET due == {k \in 0 .. Len(l.order) - 1 : Due(l, k, balanced)}
        k   == Min(due)
    IN  IF due = {} THEN Unmoved(l)
        ELSE PollStation([l EXCEPT !.idx = Turn(l, k + 1)], l.order[Turn(l, k)])

Tick(l, q, balanced) ==
    CASE ~Idle(l) -> Unmoved(l)
      [] Idle(l) /\ Sendable(l, q) # {} -> SendQueued(l, q)
      [] Idle(l) /\ Sendable(l, q) = {} -> Poll(l, balanced)

-----------------------------------------------------------------------------
\* on_t1_timeout with a frame outstanding; it fails the connection when the
\* only station is given up.
Exhausted(l) == l.retry >= MaxRepetitions
T1Timeout(l) ==
    IF Exhausted(l)
      THEN Unmoved([Released(l) EXCEPT !.secs[l.sent.addr] = GivenUp(@)])
      ELSE Outcome([l EXCEPT !.retry = @ + 1], <<l.sent>>)
T1Closes(l) == Exhausted(l) /\ Len(l.order) = 1

\* on_t3_timeout: the first station that is active is tested.
T3Timeout(l) ==
    LET up == {i \in DOMAIN l.order : IsActive(l, l.order[i])}
    IN  IF ~Idle(l) \/ up = {} THEN Unmoved(l)
        ELSE SendPrim(l, l.order[Min(up)], TEST_LINK, TRUE)

\* handle_link_request: what the application may ask of the default station.
LinkRequest(l, fun, balanced) ==
    LET a == Head(l.order) IN
    CASE Idle(l) /\ fun = RESET_LINK ->
             SendPrim([l EXCEPT !.secs[a].phase = "Reset"], a, RESET_LINK, FALSE)
      [] Idle(l) /\ fun = REQ_STATUS -> SendPrim(l, a, REQ_STATUS, FALSE)
      [] Idle(l) /\ fun = REQ_DATA2 /\ IsActive(l, a) /\ ~balanced ->
             SendPrim(l, a, REQ_DATA2, TRUE)
      [] OTHER -> Unmoved(l)
=============================================================================
