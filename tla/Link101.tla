------------------------------- MODULE Link101 -------------------------------
(***************************************************************************)
(* A primary station and the controlled stations on its line, the protocol *)
(* tasks of src/cs101/client.rs and src/cs101/server.rs: unbalanced with   *)
(* one or more stations, or balanced with one.                             *)
(*                                                                         *)
(* Frames keep their order on the line but may be lost; a frame with a     *)
(* transmission error is discarded by read_frame and so is lost as well.   *)
(* A timer may strike once the answer it waits for is not under way any    *)
(* more, or, when Late, at any time.                                       *)
(*                                                                         *)
(* Commands and events are numbered in the order the applications hand     *)
(* them over.                                                              *)
(***************************************************************************)
EXTENDS Frame101, FiniteSetsExt

CONSTANTS Lines,           \* the lines looked at: records [balanced, order, serial]
                           \* and the bounds of the model: commands handed over,
                           \* events per station, losses, requests
          MaxRepetitions, SingleCharAckUsed,
          Broadcast, NoAsdu, NoCall,
          MaxQueue,        \* Config::max_send_queue_size
          Late             \* whether an answer may come after its timeout

ASSUME Link101Assumption ==
    /\ \A x \in Lines :
         /\ x.order \in Seq(Nat) \ {<<>>} /\ Broadcast \notin ToSet(x.order)
         /\ x.balanced \in BOOLEAN /\ x.serial \in BOOLEAN
         /\ x.balanced => Len(x.order) = 1
    /\ MaxRepetitions \in Nat /\ MaxQueue \in Nat \ {0}
    /\ SingleCharAckUsed \in BOOLEAN /\ Late \in BOOLEAN
    /\ NoAsdu \notin [cmd : Nat]

P == INSTANCE Primary101
S == INSTANCE Secondary101

VARIABLES
    line,        \* the line this behaviour is about
    link,        \* LinkState of the primary: see Primary101
    queue,       \* commands queued at the primary
    calling,     \* a send_to between its test of the connection and its push
    station,     \* station[a]: SecondaryState of the station with address a
    buffers,     \* buffers[a]: what its application has handed over
    down, up,    \* frames on the way from and to the primary
    commands,    \* number of commands accepted by send_to
    events,      \* events[a]: number of events accepted by station a
    acted,       \* acted[a]: commands handed to the application of a, in order
    received,    \* received[a]: events of a handed to the primary's application
    confirmed,   \* commands the primary has taken a confirmation for
    lost,        \* commands and events given up by a rule of the protocol
    losses, requests   \* frames lost, and tests and manual requests so far, for the bounds

vars == <<line, link, queue, calling, station, buffers, down, up, commands, events,
          acted, received, confirmed, lost, losses, requests>>
ends   == <<link, queue, station, buffers>>
history == <<commands, events, acted, received, confirmed, lost>>
bounds == <<losses, requests>>

Station == ToSet(line.order)
Cmd(n)      == [cmd |-> n]
Event(a, n, cyclic) == [from |-> a, event |-> n, cyclic |-> cyclic]

\* The user data a frame carries, as a set of at most one ASDU.
Carried(f) == IF f.kind = "Variable" THEN {f.asdu} ELSE {}

Init ==
    /\ line \in Lines
    /\ link = P!NewLink(line.order, line.balanced)
    /\ queue = <<>> /\ calling = NoCall
    /\ station = [a \in Station |-> S!NewStation]
    /\ buffers = [a \in Station |-> S!NewBuffers]
    /\ down = <<>> /\ up = <<>>
    /\ commands = 0
    /\ events   = [a \in Station |-> 0]
    /\ acted    = [a \in Station |-> <<>>]
    /\ received = [a \in Station |-> <<>>]
    /\ confirmed = {} /\ lost = {}
    /\ losses = 0 /\ requests = 0

-----------------------------------------------------------------------------
(***************************************************************************)
(* The applications.                                                       *)
(***************************************************************************)

\* Client::send_to tests that the line is open, and pushes later.
SendTo(a) ==
    /\ calling = NoCall /\ commands < line.commands
    /\ calling' = a
    /\ UNCHANGED <<line, ends, down, up, history, bounds>>

SendToPushes ==
    /\ calling # NoCall
    /\ IF Len(queue) < MaxQueue
         THEN /\ queue' = Append(queue, [addr |-> calling, asdu |-> Cmd(commands + 1)])
              /\ commands' = commands + 1
         ELSE UNCHANGED <<queue, commands>>
    /\ calling' = NoCall
    /\ UNCHANGED <<line, link, station, buffers, down, up, events, acted, received,
                   confirmed, lost, bounds>>

\* Server::send
Raise(a, cyclic) ==
    LET q == S!QueueFor(cyclic, line.balanced) IN
    /\ line.balanced => ~cyclic      \* the cause selects nothing there
    /\ events[a] < line.events /\ Len(buffers[a][q]) < MaxQueue
    /\ events' = [events EXCEPT ![a] = @ + 1]
    /\ buffers' = [buffers EXCEPT ![a][q] = Append(@, Event(a, events[a] + 1, cyclic))]
    /\ UNCHANGED <<line, link, queue, calling, station, down, up, commands, acted,
                   received, confirmed, lost, bounds>>

-----------------------------------------------------------------------------
(***************************************************************************)
(* The primary station.                                                    *)
(***************************************************************************)
PrimarySends(o) == link' = o.link /\ down' = down \o o.out

ClientTick ==
    /\ P!Idle(link)
    /\ PrimarySends(P!Tick(link, queue, line.balanced))
    /\ queue' = P!QueueAfter(link, queue)
    /\ <<link, queue>>' # <<link, queue>>
    /\ UNCHANGED <<line, calling, station, buffers, up, history, bounds>>

ClientReceives ==
    /\ up # <<>>
    /\ LET f == Head(up)
           o == P!HandleFrame(link, f, line.balanced)
       IN  /\ PrimarySends(o)
           /\ received' = IF o.deliver /\ f.kind = "Variable"
                            THEN [received EXCEPT ![f.addr] = Append(@, f.asdu)]
                            ELSE received
           /\ confirmed' = confirmed \cup Carried(o.done)
    /\ up' = Tail(up)
    /\ UNCHANGED <<line, queue, calling, station, buffers, commands, events, acted,
                   lost, bounds>>

\* Neither the frame nor an answer to it is under way.
AwaitedInVain(sent, there, back) ==
    \/ Late
    \/ /\ sent \notin ToSet(there)
       /\ \A f \in ToSet(back) : f.kind # "SingleCharAck" /\ f.control.prm

\* t1 strikes, and the link goes on.
ClientTimeout ==
    /\ ~P!Idle(link) /\ AwaitedInVain(link.sent, down, up) /\ ~P!T1Closes(link)
    /\ PrimarySends(P!T1Timeout(link))
    /\ lost' = lost \cup IF P!Exhausted(link) THEN Carried(link.sent) ELSE {}
    /\ UNCHANGED <<line, queue, calling, station, buffers, up, commands, events, acted,
                   received, confirmed, bounds>>

\* What a station holds for repetition, or awaits the confirmation of.
Held(s) == Carried(s.lastResp) \cup Carried(s.sent)

\* t1 strikes, the only station is given up, and the line is closed and opened
\* again (run_forever).  A station at the other end of a TCP connection starts
\* anew as well; one on a serial line does not notice.
Reopen ==
    /\ ~P!Idle(link) /\ AwaitedInVain(link.sent, down, up) /\ P!T1Closes(link)
    /\ link'  = P!NewLink(line.order, line.balanced)
    /\ queue' = <<>> /\ down' = <<>> /\ up' = <<>>
    /\ station' = IF line.serial THEN station ELSE [a \in Station |-> S!NewStation]
    /\ lost' = lost \cup Carried(link.sent) \cup {queue[i].asdu : i \in DOMAIN queue}
                    \cup UNION {IF line.serial THEN {} ELSE Held(station[a]) : a \in Station}
    /\ UNCHANGED <<line, calling, buffers, commands, events, acted, received, confirmed,
                   bounds>>

ClientTest ==
    /\ requests < line.requests
    /\ P!Idle(link) /\ P!AnyActive(link)
    /\ PrimarySends(P!T3Timeout(link))
    /\ requests' = requests + 1
    /\ UNCHANGED <<line, queue, calling, station, buffers, up, history, losses>>

\* send_reset_link, send_request_link_status, send_req_data_class2
Manual(fun) ==
    /\ requests < line.requests
    /\ PrimarySends(P!LinkRequest(link, fun, line.balanced))
    /\ link' # link
    /\ requests' = requests + 1
    /\ UNCHANGED <<line, queue, calling, station, buffers, up, history, losses>>

-----------------------------------------------------------------------------
(***************************************************************************)
(* The controlled stations.  Every station hears every frame, and all but  *)
(* the one addressed leave it alone.                                       *)
(***************************************************************************)
StationSends(a, o) ==
    /\ station' = [station EXCEPT ![a] = o.station]
    /\ buffers' = [buffers EXCEPT ![a] = o.buffers]
    /\ up' = up \o o.out

\* The event in the response kept by a station is not repeated any more once the
\* initialization of its link begins: the answer to its status or reset replaces it.
Discards(a, f) ==
    IF f.kind = "Fixed" /\ f.control.prm /\ f.control.fun \in {REQ_STATUS, RESET_LINK}
      THEN Carried(station[a].lastResp) ELSE {}

StationReceives(a) ==
    /\ down # <<>>
    /\ Head(down).kind # "SingleCharAck" => Head(down).addr = a
    /\ LET f == Head(down)
           o == S!HandleFrame(station[a], buffers[a], a, f, line.balanced)
       IN  /\ StationSends(a, o)
           /\ acted' = IF o.asdu # NoAsdu
                         THEN [acted EXCEPT ![a] = Append(@, o.asdu)] ELSE acted
           /\ lost' = lost \cup Discards(a, f)
    /\ down' = Tail(down)
    /\ UNCHANGED <<line, link, queue, calling, commands, events, received, confirmed,
                   bounds>>

\* prim_tick, and prim_tick after the deadline of its frame.
StationTick(a) ==
    /\ line.balanced /\ station[a].sent = NoFrame
    /\ StationSends(a, S!PrimTick(station[a], buffers[a], a))
    /\ station' # station
    /\ UNCHANGED <<line, link, queue, calling, down, history, bounds>>

StationTimeout(a) ==
    /\ line.balanced /\ station[a].sent # NoFrame
    /\ AwaitedInVain(station[a].sent, up, down)
    /\ StationSends(a, S!PrimTimeout(station[a], buffers[a]))
    /\ lost' = lost \cup IF S!PrimExhausted(station[a]) THEN Carried(station[a].sent) ELSE {}
    /\ UNCHANGED <<line, link, queue, calling, down, commands, events, acted, received,
                   confirmed, bounds>>

-----------------------------------------------------------------------------
\* The line loses a frame.
Lose ==
    /\ losses < line.losses
    /\ \/ down # <<>> /\ down' = Tail(down) /\ up' = up
       \/ up # <<>> /\ up' = Tail(up) /\ down' = down
    /\ losses' = losses + 1
    /\ UNCHANGED <<line, ends, calling, history, requests>>

Protocol == \/ SendToPushes \/ ClientTick \/ ClientReceives \/ ClientTimeout \/ Reopen
            \/ \E a \in Station : StationReceives(a) \/ StationTick(a) \/ StationTimeout(a)

Next ==
    \/ Protocol
    \/ \E a \in Station : SendTo(a)
    \/ \E a \in Station, cyclic \in BOOLEAN : Raise(a, cyclic)
    \/ ClientTest
    \/ \E fun \in {RESET_LINK, REQ_STATUS, REQ_DATA2} : Manual(fun)
    \/ Lose

\* Both protocol tasks run on timers and on what they receive.  A frame on the
\* line has one receiver, and a timer that strikes one outcome.
Fairness ==
    /\ WF_vars(SendToPushes)
    /\ WF_vars(ClientTick)
    /\ WF_vars(ClientReceives)
    /\ WF_vars(ClientTimeout \/ Reopen)
    /\ WF_vars(\E a \in Station : StationReceives(a))
    /\ WF_vars(\E a \in Station : StationTick(a) \/ StationTimeout(a))

Spec == Init /\ [][Next]_vars /\ Fairness
-----------------------------------------------------------------------------
(***************************************************************************)
(* Properties.                                                             *)
(***************************************************************************)
Asdu == [cmd : 1 .. line.commands]
        \cup [from : Station, event : 1 .. line.events, cyclic : BOOLEAN]

\* The variables have the types of LinkState and SecondaryState, and every ASDU
\* in a queue or a frame is one the applications handed over.
TypeOK ==
    /\ line \in Lines
    /\ \A a \in Station : link.secs[a] \in
         [phase : {"Status", "Reset", "Active"}, fcb : BOOLEAN,
          wantClass1 : BOOLEAN, busy : BOOLEAN]
    /\ link.idx \in DOMAIN line.order /\ link.retry \in 0 .. MaxRepetitions
    /\ \A f \in ToSet(down) \cup ToSet(up) : Carried(f) \subseteq Asdu
    /\ \A a \in Station : /\ ToSet(acted[a]) \subseteq Asdu
                          /\ ToSet(received[a]) \subseteq Asdu
                          /\ \A q \in {"class1", "class2", "prim"} :
                                 Len(buffers[a][q]) <= MaxQueue
    /\ Len(queue) <= MaxQueue /\ confirmed \cup lost \subseteq Asdu

\* Whatever is lost on the line and repeated, a station's application gets each
\* command at most once and in the order they were sent, and the primary's gets
\* each event at most once and in the order of its class (the frame count bit,
\* client.rs:997, server.rs:650).
AtMostOnce ==
    \A a \in Station :
        /\ \A i, j \in DOMAIN acted[a] : i < j => acted[a][i].cmd < acted[a][j].cmd
        /\ \A i, j \in DOMAIN received[a] :
               i < j /\ received[a][i].cyclic = received[a][j].cyclic
                  => received[a][i].event < received[a][j].event

\* A command is in the queue or under way until a station acts on it, and an
\* event is buffered or kept for repetition until the primary has it, unless a
\* rule of the protocol gave it up: the repetitions ran out, the link was reset
\* or the line was reopened.
NothingLost ==
    /\ \A n \in 1 .. commands :
         \/ Cmd(n) \in lost \cup Carried(link.sent)
         \/ \E i \in DOMAIN queue : queue[i].asdu = Cmd(n)
         \/ \E a \in Station : Cmd(n) \in ToSet(acted[a])
    /\ \A a \in Station : \A n \in 1 .. events[a] :
         \E c \in BOOLEAN : LET e == Event(a, n, c) IN
             \/ e \in lost \cup Held(station[a]) \cup ToSet(received[a])
             \/ \E q \in {"class1", "class2", "prim"} : e \in ToSet(buffers[a][q])

\* A command is confirmed to the primary only if a station has acted on it: no
\* confirmation is taken for that of another frame or another station
\* (confirm_positive, client.rs:790).
ConfirmedIsActed ==
    \A x \in confirmed : \E a \in Station : x \in ToSet(acted[a])

\* Where nothing is outstanding between two ends that hold their link active,
\* they agree on the frame count bit that comes next.
FcbInStep ==
    \A a \in Station :
        /\ P!IsActive(link, a) /\ (P!Idle(link) \/ link.sent.addr # a)
              => link.secs[a].fcb = station[a].fcbExpected
        /\ station[a].active /\ station[a].sent = NoFrame
              => station[a].fcb = link.fcbExpected

\* However frames are lost, there comes a time when every command and event
\* handed over has arrived or was given up, and again after every later one: no
\* station is forgotten by the poll, and no end waits for ever.
Settled ==
    /\ \A n \in 1 .. commands : \/ Cmd(n) \in lost
                                 \/ \E a \in Station : Cmd(n) \in ToSet(acted[a])
    /\ \A a \in Station : \A n \in 1 .. events[a] :
         \E c \in BOOLEAN : Event(a, n, c) \in lost \cup ToSet(received[a])
AllSettled == []<>Settled
=============================================================================
