----------------------------- MODULE Primary103 -----------------------------
(***************************************************************************)
(* The link of an IEC 60870-5-103 primary station, src/cs103/client.rs:    *)
(* LinkState and what each of its operations does.  A link is a record     *)
(*                                                                         *)
(*   devs         what is known of each protection device                  *)
(*   order, idx   the devices in polling order, and whose turn it is       *)
(*   sent, retry  the frame awaiting its confirmation, and its repetitions *)
(*                                                                         *)
(* An operation yields the new link, the frames written, the frame it      *)
(* found confirmed, and whether the received frame's ASDU is delivered.    *)
(***************************************************************************)
EXTENDS Frame101, FiniteSetsExt

CONSTANT MaxRepetitions      \* Config::max_repetitions

RESET_FCB == 7               \* PRIM_FC_RESET_FCB
Resets == {RESET_LINK, RESET_FCB}
Polls  == {REQ_DATA1, REQ_DATA2}

NewDevice == [phase |-> "Status", fcb |-> FALSE, wantClass1 |-> FALSE, busy |-> FALSE]

\* LinkState::new
NewLink(order) == [devs |-> [a \in ToSet(order) |-> NewDevice], order |-> order,
                   idx |-> 1, sent |-> NoFrame, retry |-> 0]

Idle(l) == l.sent = NoFrame
IsActive(l, a) == l.devs[a].phase = "Active"
Released(l) == [l EXCEPT !.sent = NoFrame, !.retry = 0]

Outcome(l, out) == [link |-> l, out |-> out, done |-> NoFrame, deliver |-> FALSE]
Unmoved(l) == Outcome(l, <<>>)

\* A frame is written and t1 armed; 103 is never balanced, so DIR is not set.
SendConfirmed(l, f) == Outcome([l EXCEPT !.sent = f, !.retry = 0], <<f>>)
SendPrim(l, a, fun, fcv) ==
    SendConfirmed(l, Fixed(Primary(fun, fcv, l.devs[a].fcb, FALSE), a))

-----------------------------------------------------------------------------
\* What the confirmation of a frame with control field c says of its device.
ConfirmedDevice(d, c) ==
    LET counted == IF c.fcv THEN [d EXCEPT !.fcb = ~c.fcb] ELSE d
    IN CASE c.fun \in Resets -> [counted EXCEPT !.phase = "Active", !.fcb = TRUE]
         [] c.fun = REQ_STATUS /\ d.phase = "Status" -> [counted EXCEPT !.phase = "Reset"]
         [] c.fun = REQ_DATA1 -> [counted EXCEPT !.wantClass1 = FALSE]
         [] OTHER -> counted

\* confirm_positive; `from` holds the device that answered, or every device when
\* the answer is a single character, which has no address.
ConfirmPositive(l, from) ==
    IF Idle(l) \/ l.sent.addr \notin from THEN Unmoved(l)
    ELSE [Unmoved([Released(l) EXCEPT
                     !.devs[l.sent.addr] = ConfirmedDevice(@, l.sent.control)])
          EXCEPT !.done = l.sent]

GivenUp(d) == [d EXCEPT !.phase = "Status", !.wantClass1 = FALSE, !.busy = FALSE]

\* fail_transaction
FailTransaction(l, a) == IF Idle(l) \/ l.sent.addr # a THEN Unmoved(l)
                         ELSE Unmoved([Released(l) EXCEPT !.devs[a] = GivenUp(@)])

-----------------------------------------------------------------------------
Confirms(f) ==
    \/ f.kind = "Fixed" /\ f.control.fun \in {CONF_ACK, RESP_NO_DATA, RESP_STATUS}
    \/ f.kind = "Variable" /\ f.control.fun \in {RESP_DATA, RESP_NO_DATA, RESP_STATUS}
Refuses(f) == f.kind = "Fixed" /\ f.control.fun \in {RESP_LINK_NF, RESP_LINK_NI}

\* Mutant: user data is for the application whatever it answers.
AnswersAnything(f, o) == f.kind = "Variable" /\ f.control.fun = RESP_DATA

\* User data is for the application only as the answer to a poll.
AnswersPoll(f, o) == /\ f.kind = "Variable" /\ f.control.fun = RESP_DATA
                     /\ o.done # NoFrame /\ o.done.control.fun \in Polls

Answered(l, f) ==
    IF Confirms(f)
      THEN LET o == ConfirmPositive(l, {f.addr})
           IN  [o EXCEPT !.deliver = AnswersPoll(f, o)]
      ELSE IF Refuses(f) THEN FailTransaction(l, f.addr) ELSE Unmoved(l)

\* An access demand is met at once where the link is idle, else by a later poll.
AccessDemand(o, f) ==
    LET l == [o.link EXCEPT !.devs[f.addr].wantClass1 = TRUE]
    IN  IF ~f.control.acd THEN o
        ELSE IF IsActive(l, f.addr) /\ Idle(l)
          THEN [SendPrim(l, f.addr, REQ_DATA1, TRUE)
                EXCEPT !.done = o.done, !.deliver = o.deliver]
          ELSE [o EXCEPT !.link = l]

\* handle_frame
HandleFrame(l, f) ==
    IF f.kind = "SingleCharAck" THEN ConfirmPositive(l, DOMAIN l.devs)
    ELSE IF f.addr \notin DOMAIN l.devs \/ f.control.prm THEN Unmoved(l)
    ELSE AccessDemand(Answered([l EXCEPT !.devs[f.addr].busy = f.control.dfc], f), f)

-----------------------------------------------------------------------------
\* try_send_queued: the first ASDU whose device is active and not busy.  Those
\* for unknown devices on the way to it are dropped.
Known(l, q) == IF \A i \in DOMAIN q : q[i].addr \in DOMAIN l.devs THEN q
               ELSE SelectSeq(q, LAMBDA e : e.addr \in DOMAIN l.devs)
Sendable(l, q) == {i \in DOMAIN q : /\ q[i].addr \in DOMAIN l.devs
                                    /\ IsActive(l, q[i].addr)
                                    /\ ~l.devs[q[i].addr].busy}

QueueAfter(l, q) ==
    IF Sendable(l, q) = {} THEN Known(l, q)
    ELSE LET i == Min(Sendable(l, q))
         IN  Known(l, SubSeq(q, 1, i - 1)) \o SubSeq(q, i + 1, Len(q))

SendQueued(l, q) ==
    LET e == q[Min(Sendable(l, q))]
    IN  SendConfirmed(l, Variable(Primary(USER_DATA_CONF, TRUE, l.devs[e.addr].fcb, FALSE),
                                  e.addr, e.asdu))

PollDevice(l, a) ==
    CASE l.devs[a].phase = "Status" -> SendPrim(l, a, REQ_STATUS, FALSE)
      [] l.devs[a].phase = "Reset"  -> SendPrim(l, a, RESET_LINK, FALSE)
      [] l.devs[a].phase = "Active" ->
             SendPrim(l, a, IF l.devs[a].wantClass1 THEN REQ_DATA1 ELSE REQ_DATA2, TRUE)

\* tick: one device is served, and the turn passes to the next.
Tick(l, q) ==
    CASE ~Idle(l) -> Unmoved(l)
      [] Idle(l) /\ Sendable(l, q) # {} -> SendQueued(l, q)
      [] Idle(l) /\ Sendable(l, q) = {} ->
             PollDevice([l EXCEPT !.idx = 1 + (@ % Len(l.order))], l.order[l.idx])

-----------------------------------------------------------------------------
\* on_t1_timeout with a frame outstanding; it fails the connection when the
\* only device is given up.
Exhausted(l) == l.retry >= MaxRepetitions

\* Mutant: a repetition is counted like a new frame.
T1TimeoutCounts(l) ==
    LET again == [l.sent EXCEPT !.control.fcb = @ # l.sent.control.fcv]
    IN  IF Exhausted(l)
          THEN Unmoved([Released(l) EXCEPT !.devs[l.sent.addr] = GivenUp(@)])
          ELSE Outcome([l EXCEPT !.retry = @ + 1, !.sent = again], <<again>>)

T1Timeout(l) ==
    IF Exhausted(l)
      THEN Unmoved([Released(l) EXCEPT !.devs[l.sent.addr] = GivenUp(@)])
      ELSE Outcome([l EXCEPT !.retry = @ + 1], <<l.sent>>)
T1Closes(l) == Exhausted(l) /\ Len(l.order) = 1

\* on_t3_timeout: a class 2 poll of the first active device.
T3Timeout(l) ==
    LET up == {i \in DOMAIN l.order : IsActive(l, l.order[i])}
    IN  IF ~Idle(l) \/ up = {} THEN Unmoved(l)
        ELSE SendPrim(l, l.order[Min(up)], REQ_DATA2, TRUE)

\* handle_link_request: what the application may ask of any device it serves.
LinkRequest(l, fun, a) ==
    CASE Idle(l) /\ fun \in Resets ->
             SendPrim([l EXCEPT !.devs[a].phase = "Reset"], a, fun, FALSE)
      [] Idle(l) /\ fun = REQ_STATUS -> SendPrim(l, a, REQ_STATUS, FALSE)
      [] Idle(l) /\ fun = REQ_DATA2 /\ IsActive(l, a) -> SendPrim(l, a, REQ_DATA2, TRUE)
      [] OTHER -> Unmoved(l)
=============================================================================
