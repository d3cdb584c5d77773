------------------------------- MODULE Tasks104 -------------------------------
(***************************************************************************)
(* The four tasks of a cs104 connection, src/cs104/connection.rs: reader,  *)
(* writer, driver and dispatcher, the bounded queues between them, the     *)
(* clock that the driver's timers are read from, and the teardown.         *)
(*                                                                         *)
(* Which APDU carries which number is the subject of Connection104.  Here  *)
(* data transfer is started, a frame of the peer is one of I, S (which     *)
(* stands for any frame without an effect but its acknowledgement) and     *)
(* TESTFR con, and a frame to the peer is just a frame.                    *)
(*                                                                         *)
(* Time is counted in ticks.  The age of a stamp is the number of ticks    *)
(* that have become due since it was taken.                                *)
(***************************************************************************)
EXTENDS Integers, Sequences

CONSTANTS Settings,  \* the connections looked at: k, w, t1, t2 and t3 (in ticks) of
                     \* Config; timed: whether the clock goes; waits: whether
                     \* handlers wait; peerMay: what the peer does; flight: bound on the
                     \* frames that the peer has sent and the driver has not taken
          Cap,       \* capacity of the queues between the tasks
          MaxLate    \* bound: ticks by which a tick is taken late

ASSUME TasksAssumption ==
    /\ \A set \in Settings :
         /\ {set.k, set.w, set.t1, set.t2, set.t3, set.flight} \subseteq Nat \ {0}
         /\ {set.timed, set.waits} \subseteq BOOLEAN
         /\ set.peerMay \subseteq {"I", "S", "TestFrCon", "close"}
    /\ Cap \in Nat \ {0} /\ MaxLate \in Nat

VARIABLES
    set,         \* the settings of this connection
    driver,      \* "select", "busy" with the rest of an iteration, "left", "returned"
    todo,        \* that rest: what the driver will wait for, in order
    pending,     \* ages of the I-frames sent and not acknowledged
    unacked,     \* number of I-frames received and not acknowledged
    age,         \* ages of unack_rcv_since, idle_since and test_fr_since
    due, late,   \* whether a tick is due, and for how many ticks
    inbox,       \* frames of the peer that the reader has not read
    reader,      \* "read", "done", or the frame it is handing over
    frames,      \* tx_frame
    raw,         \* tx_raw, the number of frames in it
    writer,      \* "recv", "write" or "done"
    packs,       \* tx_pack, the number of ASDUs in it
    dispatcher,  \* "recv", "done", or its handler: "runs" or "waits" for the send queue
    asdus,       \* tx_asdu, the number of ASDUs in it
    peer,        \* whether the peer has the stream open
    quiet,       \* ticks the driver has taken since the last frame
    owed         \* ticks it has taken since the oldest unacknowledged I-frame

timers == <<pending, unacked, age>>
clock  == <<due, late>>
tasks  == <<reader, writer, dispatcher>>
queues == <<inbox, frames, raw, packs, asdus>>
past   == <<quiet, owed>>
vars   == <<set, driver, todo, timers, clock, tasks, queues, peer, past>>

Never == -1
Frame == {"I", "S", "TestFrCon"}

Init ==
    /\ set \in Settings
    /\ driver = "select" /\ todo = <<>>
    /\ pending = <<>> /\ unacked = 0
    /\ age = [unackRcv |-> Never, idle |-> 0, testFr |-> Never]
    /\ due = FALSE /\ late = 0
    /\ reader = "read" /\ writer = "recv" /\ dispatcher = "recv"
    /\ inbox = <<>> /\ frames = <<>> /\ raw = 0 /\ packs = 0 /\ asdus = 0
    /\ peer = "open"
    /\ quiet = 0 /\ owed = 0

-----------------------------------------------------------------------------
(***************************************************************************)
(* The clock.  A driver that waits for nothing but the tick takes it       *)
(* before the next is due; one that is held up takes it late.              *)
(***************************************************************************)
Longest == LET t == {set.t1, set.t2, set.t3} IN CHOOSE x \in t : \A y \in t : y <= x
Older(a) == IF a = Never \/ a > Longest + MaxLate THEN a ELSE a + 1

Advance ==
    /\ set.timed /\ driver \in {"select", "busy"}
    /\ due => driver = "busy" /\ late < MaxLate
    /\ due' = TRUE /\ late' = IF due THEN late + 1 ELSE 0
    /\ age' = [s \in DOMAIN age |-> Older(age[s])]
    /\ pending' = [i \in DOMAIN pending |-> Older(pending[i])]
    /\ UNCHANGED <<set, driver, todo, unacked, tasks, queues, peer, past>>

(***************************************************************************)
(* A stamp lies between two ticks: at its t-th tick, t has elapsed or not, *)
(* which `early` says.  The time of a tick is when it was due, not when it *)
(* is taken.                                                               *)
(***************************************************************************)
Limit(timer) == IF timer = "tick" THEN 1 ELSE set[timer]
Lapsed(a, timer, early) ==
    a # Never /\ (a - late > Limit(timer) \/ (timer \in early /\ a - late = Limit(timer)))

\* The stamp of the TESTFR act is the older one of two that were taken together.
Early == {e \in SUBSET {"t1", "t2", "t3", "tick"} :
            "t3" \in e /\ age.testFr = age.idle /\ set.t1 = set.t3 => "t1" \in e}

-----------------------------------------------------------------------------
(***************************************************************************)
(* The driver.                                                             *)
(***************************************************************************)
AtSelect == driver = "select"

\* The select is over: what has to be waited for comes before the next one.
Continue(steps) == todo' = steps /\ driver' = IF steps = <<>> THEN "select" ELSE "busy"

\* The driver leaves its loop, tells the other tasks to stop, and drops its ends of
\* tx_raw and tx_pack; what its variables hold is not looked at any more.
Leave ==
    /\ driver' = "left" /\ todo' = <<>>
    /\ pending' = <<>> /\ unacked' = 0 /\ age' = [s \in DOMAIN age |-> Never]
    /\ due' = FALSE /\ late' = 0 /\ quiet' = 0 /\ owed' = 0

Stopped == driver = "left"

\* shutdown, or a frame that breaks the protocol, or the last frame is taken.
Ends ==
    /\ AtSelect
    /\ Leave
    /\ UNCHANGED <<set, tasks, queues, peer>>

PeerEnded == AtSelect /\ reader = "done" /\ frames = <<>> /\ Ends

\* What was received is acknowledged: unack_rcv_since is not looked at any more.
Acknowledged == unacked' = 0 /\ owed' = 0 /\ age' = [age EXCEPT !.unackRcv = Never]

SendAsdu ==
    /\ AtSelect /\ asdus > 0 /\ Len(pending) < set.k
    /\ asdus' = asdus - 1
    /\ pending' = Append(pending, 0) /\ Acknowledged
    /\ Continue(<<"raw">>)
    /\ UNCHANGED <<set, clock, tasks, inbox, frames, raw, packs, peer, quiet>>

\* A frame restarts t3 and acknowledges any number of I-frames; the ASDU of an I-frame
\* goes to the dispatcher, unless it cannot be decoded, before the frame is numbered.
TakeFrame ==
    /\ AtSelect /\ frames # <<>>
    /\ LET f == Head(frames) IN
       /\ age' = [age EXCEPT !.idle = 0, !.testFr = IF f = "TestFrCon" THEN Never ELSE @]
       /\ \/ f # "I" /\ Continue(<<>>)
          \/ f = "I" /\ \E decoded \in BOOLEAN :
                Continue(IF decoded THEN <<"pack", "number">> ELSE <<"number">>)
       /\ \E n \in 0 .. Len(pending) :
            /\ n > 0 => f # "TestFrCon"
            /\ pending' = SubSeq(pending, n + 1, Len(pending))
    /\ frames' = Tail(frames)
    /\ quiet' = 0
    /\ UNCHANGED <<set, unacked, clock, tasks, inbox, raw, packs, asdus, peer, owed>>

\* Mutant: every frame begins a new unacknowledged run.
NumberedAnew == [age EXCEPT !.unackRcv = 0]

Numbered == IF unacked = 0 THEN [age EXCEPT !.unackRcv = 0] ELSE age

Number ==
    /\ todo # <<>> /\ Head(todo) = "number"
    /\ IF unacked + 1 = set.w
         THEN Acknowledged /\ Continue(<<"raw">>)
         ELSE /\ age' = Numbered
              /\ unacked' = unacked + 1 /\ UNCHANGED owed
              /\ Continue(<<>>)
    /\ UNCHANGED <<set, pending, clock, tasks, queues, peer, quiet>>

\* t3 has elapsed: the stamps are taken when TESTFR act is in the queue.
Probe ==
    /\ todo # <<>> /\ Head(todo) = "probe"
    /\ age' = [age EXCEPT !.testFr = 0, !.idle = 0]
    /\ Continue(Tail(todo))
    /\ UNCHANGED <<set, pending, unacked, clock, tasks, queues, peer, past>>

\* Mutant: t1 is not looked at where a new TESTFR act goes out.
ProbedFirst(early) == Lapsed(age.testFr, "t1", early) /\ ~Lapsed(age.idle, "t3", early)

\* t1 has elapsed for an unconfirmed TESTFR act, or for the oldest I-frame.
Unconfirmed(early) == Lapsed(age.testFr, "t1", early)
T1(early) == \/ Unconfirmed(early)
             \/ pending # <<>> /\ Lapsed(Head(pending), "t1", early)

\* t2 has elapsed, or the line was silent for a tick.
AckDue(early) == /\ unacked > 0
                 /\ Lapsed(age.unackRcv, "t2", early) \/ Lapsed(age.idle, "tick", early)

Tick(early) ==
    LET ack == AckDue(early)
    IN  /\ AtSelect /\ due
        /\ IF T1(early)
             THEN Leave
             ELSE /\ due' = FALSE /\ late' = 0
                  /\ quiet' = quiet + 1
                  /\ IF ack THEN Acknowledged
                     ELSE /\ owed' = IF unacked > 0 THEN owed + 1 ELSE 0
                          /\ UNCHANGED <<unacked, age>>
                  /\ Continue((IF ack THEN <<"raw">> ELSE <<>>)
                              \o IF Lapsed(age.idle, "t3", early)
                                   THEN <<"raw", "probe">> ELSE <<>>)
                  /\ UNCHANGED pending
        /\ UNCHANGED <<set, tasks, queues, peer>>

\* tx_pack.send and tx_raw.send: they wait for room, and fail once the receiver is gone.
PutPack ==
    /\ todo # <<>> /\ Head(todo) = "pack"
    /\ packs < Cap
    /\ packs' = packs + 1
    /\ Continue(Tail(todo))
    /\ UNCHANGED <<set, timers, clock, tasks, inbox, frames, raw, asdus, peer, past>>

PutRaw ==
    /\ todo # <<>> /\ Head(todo) = "raw"
    /\ IF writer = "done" THEN Leave /\ UNCHANGED raw
       ELSE /\ raw < Cap /\ raw' = raw + 1 /\ Continue(Tail(todo))
            /\ UNCHANGED <<timers, clock, past>>
    /\ UNCHANGED <<set, tasks, inbox, frames, packs, asdus, peer>>

\* The teardown waits for the other tasks, and run returns.
Returns ==
    /\ driver = "left"
    /\ reader = "done" /\ writer = "done" /\ dispatcher = "done"
    /\ driver' = "returned"
    /\ UNCHANGED <<set, todo, timers, clock, tasks, queues, peer, past>>

-----------------------------------------------------------------------------
(***************************************************************************)
(* The reader, the writer and the dispatcher.  Each looks at the stop      *)
(* signal where it waits for its next item, and nowhere else.              *)
(***************************************************************************)
ReaderReads ==
    /\ reader = "read" /\ inbox # <<>>
    /\ reader' = Head(inbox) /\ inbox' = Tail(inbox)
    /\ UNCHANGED <<set, driver, todo, timers, clock, writer, dispatcher, frames, raw,
                   packs, asdus, peer, past>>

ReaderPuts ==
    /\ reader \in Frame /\ Len(frames) < Cap
    /\ frames' = Append(frames, reader) /\ reader' = "read"
    /\ UNCHANGED <<set, driver, todo, timers, clock, writer, dispatcher, inbox, raw,
                   packs, asdus, peer, past>>

ReaderEnds ==
    /\ reader = "read"
    /\ Stopped \/ peer = "closed"
    /\ reader' = "done"
    /\ UNCHANGED <<set, driver, todo, timers, clock, writer, dispatcher, queues, peer, past>>

WriterTakes ==
    /\ writer = "recv" /\ raw > 0
    /\ writer' = "write" /\ raw' = raw - 1
    /\ UNCHANGED <<set, driver, todo, timers, clock, reader, dispatcher, inbox, frames,
                   packs, asdus, peer, past>>

\* write_all ends: the peer has read, or the stream is broken.
WriterWrites ==
    /\ writer = "write"
    /\ \/ writer' = "recv"
       \/ peer = "closed" /\ writer' = "done"
    /\ UNCHANGED <<set, driver, todo, timers, clock, reader, dispatcher, queues, peer, past>>

WriterEnds ==
    /\ writer = "recv" /\ Stopped
    /\ writer' = "done"
    /\ UNCHANGED <<set, driver, todo, timers, clock, reader, dispatcher, queues, peer, past>>

\* A handler answers at once, or waits for room in the send queue (server.rs, waiting).
Dispatch ==
    /\ dispatcher = "recv" /\ packs > 0
    /\ dispatcher' \in {"runs"} \cup (IF set.waits THEN {"waits"} ELSE {})
    /\ packs' = packs - 1
    /\ UNCHANGED <<set, driver, todo, timers, clock, reader, writer, inbox, frames, raw,
                   asdus, peer, past>>

\* Mutant: the handler waits until there is room.
GivesUpNever == Stopped

\* send_waiting ends at its deadline, which may be as far off as the handler likes, or
\* where the connection is closed.
GivesUp == TRUE

HandlerReturns ==
    /\ \/ /\ dispatcher = "runs" /\ UNCHANGED asdus
       \/ /\ dispatcher = "waits" /\ driver \in {"select", "busy"} /\ asdus < Cap
          /\ asdus' = asdus + 1
       \/ /\ dispatcher = "waits" /\ GivesUp /\ UNCHANGED asdus
    /\ dispatcher' = "recv"
    /\ UNCHANGED <<set, driver, todo, timers, clock, reader, writer, inbox, frames, raw,
                   packs, peer, past>>

DispatcherEnds ==
    /\ dispatcher = "recv" /\ Stopped
    /\ dispatcher' = "done"
    /\ UNCHANGED <<set, driver, todo, timers, clock, reader, writer, queues, peer, past>>

-----------------------------------------------------------------------------
(***************************************************************************)
(* The application and the peer.                                           *)
(***************************************************************************)
TryEnqueue ==
    /\ driver \in {"select", "busy"} /\ asdus < Cap
    /\ asdus' = asdus + 1
    /\ UNCHANGED <<set, driver, todo, timers, clock, tasks, inbox, frames, raw, packs,
                   peer, past>>

PeerSends(f) ==
    /\ peer = "open" /\ f \in set.peerMay
    /\ Len(inbox) + Len(frames) + (IF reader \in Frame THEN 1 ELSE 0) < set.flight
    /\ inbox' = Append(inbox, f)
    /\ UNCHANGED <<set, driver, todo, timers, clock, tasks, frames, raw, packs, asdus,
                   peer, past>>

PeerCloses ==
    /\ peer = "open" /\ "close" \in set.peerMay
    /\ peer' = "closed"
    /\ UNCHANGED <<set, driver, todo, timers, clock, tasks, queues, past>>

Waits == PutPack \/ PutRaw \/ Number \/ Probe
Ticks == \E early \in Early : Tick(early)

Next ==
    \/ Advance
    \/ Ends \/ SendAsdu \/ TakeFrame \/ Ticks \/ Waits \/ Returns
    \/ ReaderReads \/ ReaderPuts \/ ReaderEnds
    \/ WriterTakes \/ WriterWrites \/ WriterEnds
    \/ Dispatch \/ HandlerReturns \/ DispatcherEnds
    \/ TryEnqueue \/ PeerCloses \/ \E f \in Frame : PeerSends(f)

(***************************************************************************)
(* Every task goes on when it can.  A write ends because the peer reads or *)
(* the stream breaks; a handler returns.  The peer, the application and    *)
(* the clock owe nothing.                                                  *)
(***************************************************************************)
Fairness ==
    /\ WF_vars(Waits) /\ WF_vars(Returns) /\ WF_vars(PeerEnded)
    /\ WF_vars(ReaderReads \/ ReaderPuts) /\ WF_vars(ReaderEnds)
    /\ WF_vars(WriterTakes \/ WriterWrites) /\ WF_vars(WriterEnds)
    /\ WF_vars(Dispatch \/ HandlerReturns) /\ WF_vars(DispatcherEnds)

Spec == Init /\ [][Next]_vars /\ Fairness

-----------------------------------------------------------------------------
(***************************************************************************)
(* Properties.                                                             *)
(***************************************************************************)
\* "t3: the line has been idle, send a keep-alive", and "t1: an outstanding TestFR was
\* never confirmed": where t1 is not above t3, a driver that gets no frame leaves its
\* loop within t3 and t1, rounded up to ticks, whatever it sends in the meantime.
SilenceEndsIt ==
    driver \in {"select", "busy"} => quiet < (set.t3 + 2) + (set.t1 + 2)

\* An I-frame is acknowledged by t2, rounded up to ticks, however the frames that follow
\* it are spaced: the timer runs from the first of a run.
AckInTime ==
    driver = "select" /\ unacked > 0 => owed < set.t2 + 2

\* The reader holds a frame that nobody will take.
ReaderStuck == driver = "left" /\ reader \in Frame /\ Len(frames) = Cap

\* A driver that waits for the dispatcher or the writer goes on, although handlers wait for
\* room that only the driver makes; and once it has left its loop `run` returns, unless the
\* frame queue was full at that moment.
NobodyWaitsForEver ==
    /\ driver = "busy" ~> driver # "busy"
    /\ driver = "left" ~> driver = "returned" \/ ReaderStuck

\* "Returns when the peer disconnects, a protocol violation is detected, a timeout expires,
\* or `shutdown` is signalled" (connection.rs:214).
RunReturns == driver = "left" ~> driver = "returned"
==============================================================================
