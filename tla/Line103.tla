------------------------------- MODULE Line103 -------------------------------
(***************************************************************************)
(* The protocol task of src/cs103/client.rs and the protection devices on  *)
(* its line.  The crate has no 103 device; the devices here are the one    *)
(* its tests drive the client against, tests/common/relay.rs.              *)
(*                                                                         *)
(* Frames keep their order but may be lost.  t1 strikes once neither the   *)
(* frame nor its answer is under way any more or, on a line that is late,  *)
(* before that.                                                            *)
(* A class 1 message of a device is numbered when the device puts it into  *)
(* its queue.                                                              *)
(***************************************************************************)
EXTENDS Frame101, FiniteSetsExt

CONSTANTS Lines,             \* the lines looked at: records with the order of polling,
                             \* and the bounds of the model: commands handed over,
                             \* frames lost or late, tests and manual requests;
                             \* and whether answers may come after their timeout
          MaxRepetitions, MaxQueue, AutoInit   \* of Config

ASSUME Line103Assumption ==
    /\ MaxRepetitions \in Nat /\ MaxQueue \in Nat \ {0}
    /\ AutoInit \in BOOLEAN
    /\ \A x \in Lines : /\ x.order \in Seq(Nat) \ {<<>>} /\ IsInjective(x.order)
                       /\ x.late \in BOOLEAN

P == INSTANCE Primary103

VARIABLES
    line,        \* the line this behaviour is about
    link,        \* LinkState of the client: see Primary103
    queue,       \* ASDUs queued at the client
    device,      \* device[a]: the frame count bit a expects, its last response,
                 \* its class 1 queue, and the number of messages put there
    down, up,    \* frames on the way to and from the devices
    acted,       \* acted[a]: ASDUs a has taken as new
    received,    \* received[a]: class 1 messages of a that were dispatched
    owed,        \* devices that became active and were not interrogated since
    crowded,     \* those whose interrogation the send queue had no room for
    lost,        \* class 1 messages and commands a rule of the protocol gave up
    commands, losses, requests      \* so far, for the bounds

vars == <<line, link, queue, device, down, up, acted, received, owed, crowded, lost,
          commands, losses, requests>>
bounds == <<commands, losses, requests>>

Device == ToSet(line.order)
NewRelay(n) == [fcbExpected |-> TRUE, lastResp |-> NoFrame, class1 |-> <<>>, count |-> n]

TimeSync == [type |-> "TIME_SYNC"]
Interrogation == [type |-> "GENERAL_INTERROGATION"]
Command(n) == [type |-> "GENERAL_COMMAND", rii |-> n]
Message(t, n) == [type |-> t, n |-> n]
Measurands == [type |-> "MEASURANDS_I"]
Carried(f) == IF f.kind = "Variable" THEN {f.asdu} ELSE {}

Init ==
    /\ line \in Lines
    /\ link = P!NewLink(line.order) /\ queue = <<>>
    /\ device = [a \in Device |-> NewRelay(0)]
    /\ down = <<>> /\ up = <<>>
    /\ acted = [a \in Device |-> <<>>] /\ received = [a \in Device |-> <<>>]
    /\ owed = {} /\ crowded = {} /\ lost = {}
    /\ commands = 0 /\ losses = 0 /\ requests = 0

-----------------------------------------------------------------------------
(***************************************************************************)
(* The client.                                                             *)
(***************************************************************************)
Enqueued(q, a, asdu) == IF Len(q) < MaxQueue THEN Append(q, [addr |-> a, asdu |-> asdu])
                        ELSE q

\* Link::general_command
SendCommand(a) ==
    /\ commands < line.commands /\ Len(queue) < MaxQueue
    /\ queue' = Enqueued(queue, a, Command(commands + 1))
    /\ commands' = commands + 1
    /\ UNCHANGED <<line, link, device, down, up, acted, received, owed, crowded, lost,
                   losses, requests>>

Sends(o) == link' = o.link /\ down' = down \o o.out

ClientTick ==
    /\ P!Idle(link)
    /\ Sends(P!Tick(link, queue)) /\ queue' = P!QueueAfter(link, queue)
    /\ UNCHANGED <<line, device, up, acted, received, owed, crowded, lost, bounds>>

\* Mutant: the general interrogation is left out.
InitializedHalf(q, a) == IF AutoInit THEN Enqueued(q, a, TimeSync) ELSE q

\* What auto_init queues for a device that has become active; what the queue
\* has no room for is not queued, and no error is reported.
Initialized(q, a) == IF AutoInit THEN Enqueued(Enqueued(q, a, TimeSync), a, Interrogation)
                     ELSE q

\* The queue q has room for both.
Interrogates(q) == Len(q) + 1 < MaxQueue

\* The ASDU types dispatch has a handler method of its own for; the others go to
\* the general one.
Handler(type) == CASE type \in {"TIME_TAGGED", "TIME_TAGGED_REL"} -> "time_tagged"
                   [] type \in {"MEASURANDS_I", "MEASURANDS_II"}   -> "measurands"
                   [] type = "IDENTIFICATION" -> "identification"
                   [] type = "GI_TERMINATION" -> "gi_termination"
                   [] OTHER -> "asdu"

ClientReceives ==
    /\ up # <<>>
    /\ LET f == Head(up)
           o == P!HandleFrame(link, f)
           activated == o.done # NoFrame /\ o.done.control.fun \in P!Resets
       IN  /\ Sends(o)
           /\ queue' = IF activated THEN Initialized(queue, o.done.addr) ELSE queue
           /\ owed'  = IF activated /\ AutoInit THEN owed \cup {o.done.addr} ELSE owed
           /\ crowded' = CASE ~activated -> crowded
                           [] activated /\ Interrogates(queue)  -> crowded \ {o.done.addr}
                           [] activated /\ ~Interrogates(queue) -> crowded \cup {o.done.addr}
           /\ received' = IF o.deliver /\ f.kind = "Variable"
                                /\ Handler(f.asdu.type) # "measurands"
                            THEN [received EXCEPT ![f.addr] = Append(@, f.asdu)]
                            ELSE received
    /\ up' = Tail(up)
    /\ UNCHANGED <<line, device, acted, lost, bounds>>

\* Neither the frame nor an answer is under way.
AwaitedInVain == link.sent \notin ToSet(down) /\ up = <<>>

\* t1 has passed since the frame was last written.
T1Strikes ==
    /\ ~P!Idle(link)
    /\ \/ AwaitedInVain /\ losses' = losses
       \/ line.late /\ ~AwaitedInVain /\ losses < line.losses /\ losses' = losses + 1

ClientTimeout ==
    /\ T1Strikes /\ ~P!T1Closes(link)
    /\ Sends(P!T1Timeout(link))
    /\ lost' = lost \cup IF P!Exhausted(link) THEN Carried(link.sent) ELSE {}
    /\ UNCHANGED <<line, queue, device, up, acted, received, owed, crowded, commands,
                   requests>>

\* The only device is given up: the line is closed and opened again, and the
\* device serves a new connection from its initial state.
Reopen ==
    /\ T1Strikes /\ P!T1Closes(link)
    /\ link' = P!NewLink(line.order) /\ queue' = <<>> /\ down' = <<>> /\ up' = <<>>
    /\ lost' = lost \cup Carried(link.sent) \cup {queue[i].asdu : i \in DOMAIN queue}
                    \cup UNION {ToSet(device[a].class1) \cup Carried(device[a].lastResp) :
                                a \in Device}
    /\ device' = [a \in Device |-> NewRelay(device[a].count)]
    /\ UNCHANGED <<line, acted, received, owed, crowded, commands, requests>>

ClientTest ==
    /\ requests < line.requests
    /\ Sends(P!T3Timeout(link)) /\ link' # link
    /\ requests' = requests + 1
    /\ UNCHANGED <<line, queue, device, up, acted, received, owed, crowded, lost, commands,
                   losses>>

\* send_reset_cu, send_reset_fcb, send_request_link_status, send_req_data_class2
Manual(a, fun) ==
    /\ requests < line.requests
    /\ Sends(P!LinkRequest(link, fun, a)) /\ link' # link
    /\ requests' = requests + 1
    /\ UNCHANGED <<line, queue, device, up, acted, received, owed, crowded, lost, commands,
                   losses>>

-----------------------------------------------------------------------------
(***************************************************************************)
(* The devices.                                                            *)
(***************************************************************************)
Put(d, types) == [d EXCEPT !.class1 = @ \o [i \in DOMAIN types |->
                                              Message(types[i], d.count + i)],
                           !.count = @ + Len(types)]

\* react: an interrogation is answered with the process image (two messages in
\* the code, one here) and its termination.
Reaction(asdu) == CASE asdu.type = "TIME_SYNC" -> <<"TIME_SYNC">>
                    [] asdu.type = "GENERAL_INTERROGATION" ->
                           <<"TIME_TAGGED", "GI_TERMINATION">>
                    [] asdu.type = "GENERAL_COMMAND" -> <<"TIME_TAGGED">>

Responds(d, f) == [device |-> [d EXCEPT !.lastResp = f], out |-> <<f>>]
FixedResponse(d, a, fun, acd) == Responds(d, Fixed(Secondary(fun, acd, FALSE), a))
ClassResponse(d, a, asdu) ==
    Responds(d, Variable(Secondary(RESP_DATA, d.class1 # <<>>, FALSE), a, asdu))

Service(d, a, f) ==
    LET fun == f.control.fun
        more == d.class1 # <<>>
    IN CASE fun = REQ_STATUS -> FixedResponse(d, a, RESP_STATUS, more)
         [] fun \in {RESET_LINK, 7} ->
                FixedResponse(Put([d EXCEPT !.fcbExpected = TRUE], <<"IDENTIFICATION">>),
                              a, CONF_ACK, TRUE)
         [] fun = REQ_DATA1 /\ more ->
                ClassResponse([d EXCEPT !.class1 = Tail(@)], a, Head(d.class1))
         [] fun = REQ_DATA1 /\ ~more -> FixedResponse(d, a, RESP_NO_DATA, FALSE)
         [] fun = REQ_DATA2 -> ClassResponse(d, a, Measurands)
         [] fun = USER_DATA_CONF ->
                LET e == Put(d, Reaction(f.asdu))
                IN  FixedResponse(e, a, CONF_ACK, e.class1 # <<>>)

IsRepeated(d, f) == f.control.fcv /\ f.control.fcb # d.fcbExpected
Counting(d, f) == IF f.control.fcv THEN [d EXCEPT !.fcbExpected = ~@] ELSE d

DeviceReceives(a) ==
    /\ down # <<>> /\ Head(down).addr = a
    /\ LET f == Head(down)
           d == device[a]
           o == Service(Counting(d, f), a, f)
       IN  IF IsRepeated(d, f)
             THEN /\ up' = IF d.lastResp = NoFrame THEN up ELSE Append(up, d.lastResp)
                  /\ UNCHANGED <<device, acted, owed, crowded, lost>>
             ELSE /\ device' = [device EXCEPT ![a] = o.device]
                  /\ up' = up \o o.out
                  /\ acted' = IF f.kind = "Variable"
                                THEN [acted EXCEPT ![a] = Append(@, f.asdu)] ELSE acted
                  /\ owed' = IF Interrogation \in Carried(f) THEN owed \ {a} ELSE owed
                  /\ crowded' = IF Interrogation \in Carried(f) THEN crowded \ {a}
                                ELSE crowded
                  /\ lost' = IF f.control.fcv THEN lost ELSE lost \cup Carried(d.lastResp)
    /\ down' = Tail(down)
    /\ UNCHANGED <<line, link, queue, received, bounds>>

-----------------------------------------------------------------------------
Lose ==
    /\ losses < line.losses
    /\ \/ down # <<>> /\ down' = Tail(down) /\ up' = up
       \/ up # <<>> /\ up' = Tail(up) /\ down' = down
    /\ losses' = losses + 1
    /\ UNCHANGED <<line, link, queue, device, acted, received, owed, crowded, lost,
                   commands, requests>>

Next ==
    \/ ClientTick \/ ClientReceives \/ ClientTimeout \/ Reopen \/ ClientTest
    \/ \E a \in Device : DeviceReceives(a) \/ SendCommand(a)
    \/ \E a \in Device, fun \in P!Resets \cup {REQ_STATUS, REQ_DATA2} : Manual(a, fun)
    \/ Lose

\* The protocol task runs on its timers and on what it receives, and so do the
\* devices; applications and the line owe nothing.
Fairness ==
    /\ WF_vars(ClientTick) /\ WF_vars(ClientReceives)
    /\ WF_vars(ClientTimeout \/ Reopen)
    /\ WF_vars(\E a \in Device : DeviceReceives(a))

Spec == Init /\ [][Next]_vars /\ Fairness
-----------------------------------------------------------------------------
(***************************************************************************)
(* Properties.                                                             *)
(***************************************************************************)
Numbers(s) == [i \in DOMAIN s |-> s[i].n]
Ascending(s) == \A i, j \in DOMAIN s : i < j => s[i] < s[j]

\* Where no answer comes after its timeout, whatever is lost and repeated, the
\* application gets every class 1 message of a device once, in the order the device
\* put them out, with none left out but those a reset of the link made the device
\* forget; and a device acts on each command once, unless the client gave it up
\* (confirm_positive, client.rs:696, and on_t1_timeout, client.rs:954).
EachOnce ==
    ~line.late =>
      /\ \A a \in Device :
           /\ Ascending(Numbers(received[a]))
           /\ \A i \in 1 .. device[a].count :
                \E m \in ToSet(received[a]) \cup ToSet(device[a].class1)
                         \cup Carried(device[a].lastResp) \cup lost :
                    "n" \in DOMAIN m /\ m.n = i
           /\ \A i, j \in DOMAIN acted[a] :
                i # j /\ acted[a][i].type = "GENERAL_COMMAND" => acted[a][i] # acted[a][j]
      /\ \A n \in 1 .. commands :
           \/ Command(n) \in lost \cup Carried(link.sent)
           \/ \E i \in DOMAIN queue : queue[i].asdu = Command(n)
           \/ \E b \in Device : Command(n) \in ToSet(acted[b])

\* Where no answer comes after its timeout, every device that becomes active while
\* the send queue has room for its start-up is interrogated, and so again each time
\* it has lost its link, however often frames are lost and however the devices'
\* start-up procedures overlap (auto_init, client.rs:488).  A late answer may confirm
\* an interrogation that was lost.  A device that finds the queue full is not
\* covered, until it becomes active again.
StartUp == []<>(line.late \/ owed \subseteq crowded)

\* Every such device is interrogated, whatever the send queue holds:
\* "for every newly active device" (client.rs:10).
EveryStartUp == []<>(line.late \/ owed = {})

\* What answers that come late, after their request was repeated, never do.  The
\* second copy of a message is dispatched only where it meets a poll of its device,
\* for which it passes: one that finds the link idle, or a command, a reset or another
\* device's frame outstanding is discarded, and no message is dispatched after one
\* that the device put out later (handle_frame, client.rs:829).  And no device acts on
\* a command a second time: a repetition has the frame count bit of the frame it
\* repeats, and whatever a late answer confirms in its place, the device has had all
\* its copies before the next frame (on_t1_timeout, client.rs:954).
LateAnswers ==
    [][\A a \in Device :
         /\ received'[a] # received[a] =>
              /\ link.sent # NoFrame /\ link.sent.addr = a
              /\ link.sent.control.fun \in P!Polls
              /\ received[a] # <<>> => Last(received[a]).n <= Last(received'[a]).n
         /\ acted'[a] # acted[a] /\ Last(acted'[a]).type = "GENERAL_COMMAND" =>
              Last(acted'[a]) \notin ToSet(acted[a])]_vars

\* No event is reported twice: a late second copy of a response whose request was
\* repeated is discarded (handle_frame, client.rs:830).
NoEventTwice == \A a \in Device : Ascending(Numbers(received[a]))
==============================================================================
