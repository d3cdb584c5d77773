# A TLA+ model of rs-iec60870-5

rs-iec60870-5 implements IEC 60870-5-101, -103 and -104 in Rust: the protocols
by which a controlling station (client, master) and a controlled station
(server, outstation) exchange ASDUs. This directory holds TLA+ modules of its
protocol machines, the TLC configurations that check them on small instances,
and TLAPS proofs of what holds for every instance.

Paths below are relative to `src/src/`. Sections: [inventory](#inventory),
[modules](#modules), [what the runs check](#runs), [fairness](#fairness),
[proofs](#proofs), [findings](#findings), [not modelled](#not-modelled),
[plan](#plan).

## Inventory

| component | source | state | operations | correct when |
|---|---|---|---|---|
| 104 APCI | `cs104/apci.rs` | none | sequence arithmetic, frame kinds, octets, resynchronising reader | numbers stay in 15 bits; distances right across the wraparound; what is written is what is read, after any noise |
| 104 connection driver | `cs104/connection.rs` | sequence numbers, pending list, U-frame timers, `stopping`, `stop_con_pending`, the handle's `connected` and `active`, the ASDU and control queues | the branches of the select: shutdown, ASDU, control, frame, tick; `try_enqueue`, `send_start_dt`, `send_stop_dt`, `demote` | window at most k, unacknowledged below w, pending list = window, streams in order, STOPDT settles both directions, every request confirmed |
| 104 reader, writer, dispatcher | `cs104/connection.rs` | the frame queues, the dispatch queue, the stop signal | one loop each, teardown | FIFO; nobody waits for ever; `run` returns |
| 104 timers | `cs104/connection.rs`, `cs104/config.rs` | `t1`, `t2`, `t3` since-stamps | tick | a silent peer is detected within t3 + t1; I-frames are acknowledged by t2 |
| 104 redundancy groups | `cs104/redundancy.rs` | members, active member, buffer of each group | `admit`, `join`, `leave`, `activated`, `deactivated`, `route` | one member in data transfer, nothing lost, repeated or reordered by a switchover |
| 104 server | `cs104/server.rs` | session counter, shutdown channel, session tasks | `serve`, `serve_one`, `close`, `send`, `send_wait` | limit respected, outcomes true, close ends every session |
| 104 `ServerSpecial` | `cs104/server.rs` | as the client | reconnection loop of a station that connects out | as the client |
| 104 client | `cs104/client.rs` | running flag, published connection | `start`, `close`, `run_forever`, `wait_active`, `send` | reconnects exactly when it should, reachable while connected, `close` ends it |
| 104 dispatch | `cs104/handler.rs` | none | routing by type and cause, negative mirrors | each request is handed to its method or refused by an answer that arrives |
| 101 link | `cs101/client.rs`, `cs101/server.rs` | per-station phase, FCB, pending request, class queues, last response | primary and secondary of FT1.2, balanced and unbalanced | each ASDU acted on at most once, none lost while the link is up, nobody starved |
| 101 frames | `cs101/frame.rs` | none | encode, parse, resynchronise | every ASDU is carried |
| 101 handlers | `cs101/handler.rs` | none | routing by type and cause | as the 104 dispatch |
| 101 transport, configuration | `cs101/transport.rs`, `config.rs` | none | open a line | pure I/O |
| 103 client | `cs103/client.rs` | as the 101 primary, per device | polling, commands, DFC, automatic start-up | as the 101 primary; every device that comes up is interrogated |
| 103 ASDUs, handler | `cs103/asdu.rs`, `elements.rs`, `handler.rs`, `config.rs` | none | encode, decode, route | data, no control |
| file transfer | `filetransfer/*.rs` | active transfer, current section, buffers, busy mark | sender and receiver of files in sections and segments | file arrives whole; a transfer ends |
| ASDU codec | `asdu/*.rs` | none | builders, getters, headers, elements, time tags | what is read is what was written; sizes and layouts agree |
| display | `asdu/display.rs` | none | wording of log lines | no property is about it |
| network, errors | `net.rs`, `error.rs` | none | endpoints, TLS | pure I/O |

**How they interact.** A 104 connection is four tasks: reader, writer,
driver (with the ticker) and dispatcher. The application holds a handle
(`Connection`) whose `connected` and `active` are atomics, written by the
driver and, for `demote`, by other sessions. The driver takes ASDUs and
control requests from queues, frames from the reader, and hands ASDUs to the
dispatcher. A server runs one driver per session; a session's STARTDT and
STOPDT run callbacks that take the lock of the redundancy groups, and the
groups in turn demote other sessions and push a buffer into a session's queue.
Broadcasts take the same lock; the retries of `send_wait` do not. A 101 or 103
end is one protocol task that owns the state of its link; applications push
ASDUs into queues behind a lock and read flags the task publishes. The file
sender and receiver are called by the handlers of either protocol and answer
with ASDUs that the caller sends.

**What is hard.** State computed before the select and used after it; crossing
U- and I-frames of the two ends; sequence numbers that wrap; STOPDT con held
back; callbacks that run after the state they announce has changed; a session
that ends, is demoted or closed between two steps of a broadcast; a limit
tested and counted in two steps; a channel subscribed late; tasks that wait for
each other's queues; ticks taken late; frames lost, repeated and answered late,
with one bit to tell them apart; two ends that reset at different times.
`PROJECT.json`
lists each hazard at its line.

## Modules

```
Apci104 <- Connection104 <- Open104 <- MCOpen104      one 104 driver, any peer
                         <- Link104 <- MCLink104      master and station
                              |  implements
                         DataTransfer104              two ordered streams
Tasks104 <- MCTasks104                                tasks, queues and timers of a driver
Redundancy104 <- Server104 <- MCServer104             sessions, groups, broadcasts
Client104 <- MCClient104                              life of a master

Frame101 <- Primary101, Secondary101 <- Link101 <- MCLink101     a 101 line
Frame101 <- Primary103 <- Line103 <- MCLine103                   a 103 line
FileTransfer <- MCFileTransfer                                   files

TimeTag <- Elements, Layouts, Octets104, Frame101
        <- AsduCodec <- Dispatch <- MCAsduCodec       an ASDU from call to handler

Open104 <- Connection104Proofs <- Link104Proofs
Tasks104Proofs;  Server104Proofs;  Client104Proofs;  FileTransferProofs
Link101Proofs;  Line103Proofs
```

**Apci104** is the arithmetic modulo `M` (32768 in the code) and the set of
APDUs. Octets are abstracted; every frame that `parse` rejects is `Malformed`,
every ASDU that does not decode is `Garbage` (it still uses up a number).

**Connection104** is the driver, one action per branch of the select and per
method of the handle. `drv[c]` collects the locals of the task; `connected` and
`active` are the atomics. An iteration handles one event and ends in `Iterate`,
which computes `maySend` for the next select as the head of the loop does: that
the code computes it *before* it waits is why it is state. An ASDU too long for a
frame is dropped on the way out. `FrameDone` is the
end of the frame branch, where a held STOPDT con may leave. The conditions that
close the connection end in `Close`, with the reason in `closedBy`. The reader,
the writer, their queues and TCP are one FIFO per direction, `line[c]`; the
dispatch queue is `packs[c]`. Time is left out: a running t1 may expire at any
tick, and a tick may or may not find t2 and t3 due.

**Tasks104** is the same connection seen from the other side: four tasks, the
bounded queues between them, and a clock, while the numbers of the APDUs are
left to Connection104. `todo` is what an iteration of the driver still has to
wait for (`tx_pack.send`, `tx_raw.send`) before the next select; a driver that
waits takes no tick. Time is counted in ticks: `Advance` makes a tick due, or
the one that is due later still, and ages every stamp; a stamp lies between two
ticks, so whether a timer has lapsed at its tick is a choice (`early`). A tick
is judged by the time it was due, as the interval of tokio reports it, not by
the time it is taken. `Leave` is the end of the loop: the senders are dropped
and `Returns` joins the others, each of which looks at the stop signal only
where it waits for its next item. `quiet` and `owed` count ticks for the
properties.

**Open104** puts a connection against an *arbitrary* peer: any APDU, legal or
not, at any time, and, for a station, `demote` at any time. What holds there
the driver guarantees alone. `line` and `packs` hold what the last step emitted.

**Link104** composes a master and a station, each reading what the other put on
its line. A shutdown of one end is also how a broken connection is modelled:
the other end sees the end of the stream after any number of frames still on
the line. With `Patient` the application of the master awaits each
confirmation before the next start or stop request; without it, not.

**DataTransfer104** is what a connection promises: each end's ASDUs are a
stream that the other end takes in order; an ASDU is confirmed only when
delivered. Link104 implements it (`IsDataTransfer`), under the mapping
`delivered[c]` = the ASDUs handed to the peer's dispatcher, `confirmed[c]` =
accepted minus queued minus pending.

**Redundancy104** is `Groups`, one operator per critical section of its lock:
admission by mode and address, `Join`, `Leave`, `Activated` (demote the others,
replay the buffer as far as the queue takes it), `Deactivated`, `Route`. Of the
ASDUs, some may be `Unencodable`: a queue refuses them, a buffer takes them.

**Server104** adds the server around it: accept loops that test the limit and
count in a later step, handshakes, the life of a session, `close` and who hears
it, broadcasts and their outcomes, the retries of `send_wait`. A driver is
reduced to what the groups see: it sets `active`, then runs the callback
(`callback[s]` holds the one that is due; other tasks run in between), and
sends from its queue when `maySend`. `sent[s]`, `short` and `reported` are
histories for the properties. A session identity is used once. `Route` is one
step because the code holds the lock over all groups; retries are a set because
each is resolved independently of the others' order. A session whose loop has ended
departs, or is `stuck`: its `run` joins a reader that may never end (finding 9).

**Client104** is a master's life: `start` spawns the task of `run_forever`
(`task` says where in it the task is), `close` writes the watch channel, which
refuses a value as long as it has no receiver; a receiver that subscribes has
seen everything sent before (`taskUnseen`, `connUnseen`). A connection is
reduced to `active` and the callback that is due; consecutive ones are numbered
1, 2, 1, 2, ..., since only the current one and those before it must be told
apart, and so the model has unboundedly many reconnections in finitely many
states. With `TryPublish` the connection is published only if nobody reads the
handle at that moment (`try_write` of `Client`); without, the task waits
(`ServerSpecial`, whose loop is the same otherwise). The end of a connection's loop
and the return of its `run` are two steps, and as in Server104 the second may be
that it is stuck. `wait_active` is the
steps of the application's task: `Arm` (`notified()`), `Lock`, `Check`, `Await`
and `Wake`; other tasks run between any two of them.

**Frame101** has the control field and its rules, which both link models use
with frames as records, and the octets of a frame (`Marshal`, `ReadFrame`),
which AsduCodec uses. **Primary101** is `LinkState` of `cs101/client.rs` and
**Secondary101** is `SecondaryState` of `cs101/server.rs` with the class
queues, one operator per method, each yielding the new state, the frames
written and what is delivered. **Link101** puts a primary and its stations on a
line that keeps the order but loses frames, with the queues of the applications,
link requests, reopening, and the two steps of `send_to` (test, push). Each
behaviour takes one of the `Lines`: unbalanced with one station or several, or
balanced. A timer strikes once its answer is not under way any more; with
`Late` it strikes at any time. `lost` collects what a rule of the protocol gave
up: repetitions exhausted, link reset, line reopened.

**Primary103** and **Line103** do the same for `cs103/client.rs`. The crate has
no 103 device; the devices are those its tests drive the client against
(`tests/common/relay.rs`). A line that is `late` has answers that come after
their timeout. `owed` has the devices that came up and were not interrogated
since, `crowded` those whose interrogation the send queue had no room for.

**FileTransfer** is the sender of a station and the receiver of each master,
with connections that may break, sends that may fail, segments altered on the
way, aborts on either side, directories and deletions. A file is a sequence of
octets, cut by `SplitSections` and in segments as in the code, with its
checksums. `request_file` marks the transfer as active (`RequestFile`) and sends its
select afterwards (`SendSelect`), or fails to and aborts what is active then
(`SelectFails`). With `PromptSelect` the handler takes nothing in between; with
`QuietAbort` the applications abort only when nothing is under way;
with `Lossy` the connection may lose, double or alter a segment, which TCP does not.

**TimeTag**, **Elements**, **Layouts** and **AsduCodec** are the codec. Layouts
has one row for each builder (the causes it admits, how objects are counted,
their elements) and one for each getter; both are written from their own source,
so that RoundTrip compares them. Elements gives the octets of each element and
the value of octets. TimeTag gives CP56Time2a and CP24Time2a over zones with
summer time (months of 31 days: chrono's calendar is abstracted, the change of
the clocks is not), and a clock of the receiver, whose hour a CP24Time2a takes;
`TellsHour` says when that is the hour that was meant. AsduCodec takes an ASDU
through the stages build, marshal, unmarshal and get, or starts with the octets
of another implementation. **Octets104** has the octets of an APDU and the
resynchronising reader. **Dispatch** adds which method of the application the
ASDU is handed to, on both ends of both protocols, and what a 104 station
answers by itself.

The MC modules give the constants of the runs. The definitions marked
"Mutant:" are variants of a definition with a plausible bug; PROJECT.json pairs
each with a property that must then fail.

## Runs

| run | checks | shows |
|---|---|---|
| `open_any` | `TypeOK`, `PendingIsWindow`, `UnackedBelowW`, `HeldStopCon`, `LateIAtMostOnce` | no acknowledgement, repetition or U-frame a peer can send breaks the window, exceeds w or forgets a held STOPDT con; after a demotion at most one I-frame leaves, and a stopped master sends none |
| `link_impatient` | `NoSequenceError`, `IsDataTransfer` | both ends stream across starts, stops, closures and the wraparound: numbering survives an application that does not await confirmations, and the link implements DataTransfer104: streams in order, nothing acknowledged that was not delivered |
| `link_patient` | `NoProtocolError`, `StoppedIsSettled`, `NoIAfterStopDt`, `RequestsAreConfirmed`, `AllDelivered` | two conforming ends never close on each other; they agree on whether data transfer is on, and a stop has settled both directions; starts and stops are confirmed; everything accepted is delivered and acknowledged, even where w exceeds k and only t2 acknowledges |
| `tasks104` | `SilenceEndsIt`, `AckInTime`, `NobodyWaitsForEver` | a silent peer is noticed within t3 and t1 whatever is sent meanwhile and however late ticks are taken; an I-frame is acknowledged by t2 however later frames are spaced; the driver never waits for ever, and the teardown ends but for a reader at a full queue |
| `server_single` | `CurrentIsRight`, `ReportIsTrue`, `OrderedUnlessShort` | switchover between two masters, queues and buffers that fill, a broadcast that does not encode: one started member, the one the group sends to and never one that left, true reports, each broadcast held once, order unless a replay was cut short |
| `server_multiple` | `LimitRespected`, `ReportIsTrue` | two groups by address, catch-all included, with queues and buffers that refuse: partial outcomes, and retries that outlive switchovers; three masters and a limit of two |
| `server_live` | `BacklogIsSent`, `ClosedSessionDeparts` | a member that stays started gets the backlog, unless its replay was cut short; a session that hears the close is out of data transfer and leaves, unless its reader is stuck |
| `client` | `PublishedIsCurrent`, `HeardCloseEndsClient`, `WaitersReturn` | the application reaches the connection that runs, never an earlier one; a close that is heard ends the client, unless the reader of its connection is stuck; no wakeup of `wait_active` is lost |
| `link101` | `AtMostOnce`, `NothingLost`, `ConfirmedIsActed`, `FcbInStep`, `AllSettled` | commands and events on a lossy line are acted on at most once and in order, not lost but where a rule gives them up, and confirmed only if acted on; the frame count bits stay in step; every station gets its turn |
| `startup103` | `EachOnce`, `LateAnswers`, `StartUp` | with no answer later than its timeout, class 1 messages and commands once and in order, and a device that comes up while the queue has room for its start-up is interrogated; with late answers, no device acts on a command twice, and a second copy of a message is discarded unless it meets a poll of its device |
| `filetransfer` | `NoPanic`, `FileIntact`, `TransferEnds` | a file is handed over as the station has it or not at all; no index leaves the sections; on a sound connection a transfer ends; under quiet aborts and prompt selects |
| `codec` | `RoundTrip`, `NeverMisread`, `Carried`, `RequestsAreServed` | every ASDU the builders make, at the limits of its fields, is read as it was meant, through the frames of both links, a CP24 tag where the receiver's clock tells its hour; foreign ASDUs are never read past their end; requests are handed over or answered |

Behaviour in which the code departs from what it documents has configurations
that show it; TLC finds the property violated:

| to see it | violated | finding |
|---|---|---|
| `MCLink104_impatient_con.cfg` | `RequestsAreConfirmed` | 1 |
| `MCServer104_order.cfg` | `SessionInOrder` | 2 |
| `MCServer104_race.cfg` | `SwitchoverKeepsOne` | 3 |
| `MCServer104_close.cfg` | `CloseEndsSessions` | 4 |
| `MCServer104_encode.cfg`  | `ReplayIsWhole` | 15 |
| `MCClient104_close.cfg`  | `CloseEndsClient` | 16 |
| `MCClient104_once.cfg` | `NoRedial` | 5 |
| `MCLink101_timely.cfg` with `Late = TRUE` | `AtMostOnce` | 6 |
| `MCLink101_timely.cfg` with `Lines <- SerialLine` | `NothingLost` | 7 |
| `MCTasks104_tasks.cfg` with `Settings <- T3BelowT1` | `SilenceEndsIt` | 8 |
| `MCTasks104_tasks.cfg` with `PROPERTIES RunReturns` | `RunReturns` | 9 |
| `MCLine103_startup.cfg` with `MaxQueue = 2` and `PROPERTIES EveryStartUp` | `EveryStartUp` | 10 |
| `MCLine103_startup.cfg` with `INVARIANTS NoEventTwice` | `NoEventTwice` | 17 |
| `MCFileTransfer_one.cfg` with `QuietAbort = FALSE` | `FileIntact` | below |
| `MCFileTransfer_one.cfg` with `PromptSelect = FALSE` | `FileIntact` | below |
| `MCFileTransfer_one.cfg` with `Master = {m1, m2}` | `NoPanic` | below |

**Bounds, and why they are enough.** *Sequence numbers*: `M` is 4 in Open104 and
3 in Link104, so a few frames wrap them; windows reach their largest (`K = M -
1`) and both w below and w above k occur, as `Config::valid` admits. *Two
connections at once in Open104*: they share nothing, so the constraint
`OneMoves` explores each while the other is new; the station has k below w, the
master the reverse. *Frames*: in Open104 every APDU over the sequence numbers
and one ASDU. The queues of the application hold one ASDU in Open104, where only
emptiness matters, and four in Link104, all it will submit. *Streams*
(`MaxAsdu`): 2 from the master and 4 from the station in `link_impatient`, so
that the station's numbers lap the modulus while frames of the old lap are in
flight; 1 and 2 in `link_patient`, where the question is the order of starts,
stops and frames. *Requests* (`MaxRequest`): 2 after that of `auto_start_dt`, 3
in `MCLink104_impatient_con.cfg`: stop, start and stop are the shortest sequence
in which U-frames of different requests overlap. *Test frames* (`MaxTestFr`) are
bounded on the line, never in number: one in `link_patient`. *Sessions*: two per
group, since every operation concerns one session and "the others"; three in
`server_multiple`, two groups and one over the limit. *Broadcasts*
(`MaxPublish`): four in `server_single`, the second not encoding, to fill and
overflow a buffer and a queue of two; two in `server_multiple`, over queues and
buffers of one, so that the second finds them full, is refused, lost or waits
for room while sessions come, switch over and leave. There s1 and s2 are
symmetric, and the constraint `ServesOn` leaves out the close and the end of the
listener, which only keep sessions away or tell them to end, as they may at any
time. Queue and buffer sizes cover queue = buffer and the buffer above the queue
(`MCServer104_order.cfg`). *Waiters*: two, so that one may hold the lock while
the other waits. The runs use the modes Single and Multiple; the theorems cover
Connection too. *Tasks104*: queues of one, since a queue of n + 1 only delays
when somebody waits; two settings: with the clock, a t1, t2 and t3 of one tick,
which is where they collide, ticks up to one late, and a w of three, so that
frames may follow the first of a run; and without the clock, two frames under
way (one for the queue and one in the reader's hand), handlers that wait and a
peer that closes. *Link101*: three lines, two losses and one repetition (so that
a frame and its repetition may both be lost and the station given up), one
command, one event or two for each station, one test or manual request: enough
that each bit is used twice and that a request, its repetition and the next
request overlap. *Line103*: one device with two commands, and two with one, two
losses and one repetition. The same lines with late answers have one command
each, and two with one loss; a strike of t1 before its answer counts as a loss.
The send queue holds three, which two commands, or the start-up of one device
and a command, fill for the next start-up. *FileTransfer*: sections and segments
of one octet, a file of five octets in three sections (so that the sections had
to grow), an empty one and an unknown name, four requests and two faults.
*Codec*: every type in every shape with values at their edges, three sets of
parameters, counts on both sides of each limit, causes and addresses at theirs,
and times every ten minutes around the changes of the clocks and the turn of a
year in four zones, and CP24 tags four minutes ahead of to 54 behind receiver's
clocks that are before, at and after those changes.

`CHECK_DEADLOCK FALSE` is in every configuration because the systems stop: a
closed connection takes no step, a server whose sessions are all done and
whose listeners have ended has none left, and neither has a client that is
done once its waiters wait.

## Fairness

*Link104*: weak fairness of sending, reading, seeing the end of the stream and
the tick that acknowledges. The runtime schedules the tasks, TCP delivers or
breaks, t2 always runs out. Nothing is assumed of the applications, t1, t3 or
shutdown. The driver's select is biased, so a producer that never pauses could
starve the tick; the applications here submit finitely many ASDUs, and the
liveness is claimed for that only.

*Server104*: weak fairness of the callbacks, the loop heads and the steps of the
teardown, which are code that runs on; strong fairness of sending from the queue
and of hearing the close, because the select polls shutdown first and the ASDU
queue before the frames, so that frames that keep arriving do not starve them.
That `run` returns is assumed of no session whose reader is stuck: `JoinReader`
may take the place of `Depart`, and `ClosedSessionDeparts` allows for it.
Masters owe nothing: `BacklogIsSent` speaks of members that stay started. That
the masters acknowledge, so that k does not keep the window closed, is part of
the fairness of `SendAsdu`.

*Tasks104*: weak fairness of every task where it can go on. A write ends,
because the peer reads or the stream breaks; a handler returns. The clock, the
peer and the application owe nothing: `NobodyWaitsForEver` is about the queues.

*Link101*, *Line103*: weak fairness of each protocol task for what it receives
and for its timers, one condition for each kind since a task handles them in
turn. Losses are bounded, which stands for a line that does not lose every
frame; applications owe nothing.

*FileTransfer*: weak fairness of the two dispatchers, and of the send of a select.
`TransferEnds` is about
connections that hold; there is no timer.

*Client104*: weak fairness of the steps of the task, of the callback and of the
steps inside `wait_active`; a connect ends within t0. Strong fairness where the
task waits for the lock, which tokio's lock grants in order, and of the end of
a connection's loop that has a close to hear, because the driver's select polls
shutdown first. That `run` then returns is weakly fair, but for the reader that is
stuck (`JoinReader`). The network, the masters' activation and the application's
calls owe nothing: `WaitersReturn` speaks of a published connection that stays
active, `HeardCloseEndsClient` of a close that a receiver has not yet seen.

## Proofs

All theorems hold for every value of the constants that the named assumptions
admit (`ModulusAssumption`, `AsduAssumption`, `ConnectionAssumption`,
`LinkAssumption`, `TasksAssumption`, `RedundancyAssumption`, `ClientsAssumption`,
`ServerAssumption`, `ClientAssumption`, `Link101Assumption`, `Line103Assumption`,
`FileTransferAssumption`); TLC evaluates the
assumptions in the runs. A theorem with a further hypothesis (`Patient`,
`FixedGroups`, `OneListener`, `~Late`, `BalancedRestarts`, `OneMaster`, `QuietAbort`,
`PromptSelect`, `Trusted`, t1 at most t3) names
it in its ASSUME, and a finding or a run shows what happens without it.

*One connection against any peer* (`Connection104Proofs`). The invariant is
`CoreInv /\ QueuesInv`. `CoreInv` has these parts: types; `DriverInv`, for each
driver the window is matched by the pending list, `Outstanding <= K` and
`Unacked < W`; `HeldInv`; and that `maySend` implies `Outstanding < K`. The last
is the strengthening the window bound needs: an I-frame is sent on the strength
of `maySend`, computed one iteration earlier, and it is still true because only
the driver itself sends. `HeldInv` says that only a controlled station holds a
STOPDT con, and that it then is stopped and has frames outstanding.
`MasterMaySend` says that `maySend` of a connected master implies `active`,
since nobody demotes a master. The proof has arithmetic lemmas on `SeqNoCount`
and modulo `M`, lemmas on the drained list, one lemma per operation of the
driver, and one step per action. Theorems: `OpenInvariance`, `TypeCorrect`,
`WindowCorrect`, `UnackedCorrect`, `StopConCorrect`, and the action property
`LateICorrect`.

*The stream of a link* (`Link104Proofs`). The two ends take frames only from
each other, which are APDUs because both emit APDUs: `LinkInvariance`,
`LinkTypeCorrect`. `FlowInv` relates, for each direction, the two ends and what
is between them. Of the ASDUs that one end accepted, numbered in order, the
first d are delivered, those up to s are sent, the rest are in its queue. The
I-frames on the line are d + 1 to s, each once and in order, and the number of
each is its distance from the one the reader expects next; the acknowledgements
on the way back rise from what the sender has acknowledged to what the reader
expects. Everything is a distance within a window smaller than the modulus,
because the numbers themselves wrap. From it: `SequenceCorrect` (no end ever
closes on a sequence error) and `DataTransferCorrect`, the refinement of
DataTransfer104: the initial state maps to one, every step to a step of the
abstract specification or to none. DataTransfer104 states no liveness.

*The control of a link* (also `Link104Proofs`), under `Patient`. `CtrlInv` says
where things are: each start or stop request is in one place (queue, line,
held, or its con on the way back) and while it is out the master's timer for it
runs (`Tokens`, `Asked`); `maySend` of an end agrees with its being active
(`MaySends`); with no request out both ends agree on whether data transfer is
on (`Agreed`); a station that has stopped has had everything acknowledged, and
what follows its STOPDT con, or the master's STOPDT act, carries no I-frame
(`Settled`). Theorems: `CtrlInvariance`, `ProtocolCorrect`, `StopCorrect`,
`SettledCorrect`. An impatient application has the requests overlap, which is
finding 1.

*Timers* (`Tasks104Proofs`). A property counts ticks since the event that
starts a timer; the code keeps the time of that event. `TimerInv` says by how
many the two may differ (`Counted`, for stamps between two ticks and ticks
taken late), that an unacknowledged I-frame implies a running t2 that is at
least that old (`AckTimer`), and that silence is divided between t3 and the t1
of the test frame (`SilenceTimer`). `AckCorrect`, and `SilenceCorrect` for t1 at
most t3: with t3 below t1 it is false (finding 8).

*The groups* (`Server104Proofs`). `CurrentIsRight` (`StartedIsCurrent`, and
`CurrentIsMember`: nobody who left is sent to) is not inductive alone.
`SInv` adds: a session is in one group at most (so that an activation in its
group says everything about it); it is in one only while it runs and it is not
in data transfer before (so that it joins stopped); a session whose
deactivation callback is due is stopped (so that a late callback of STOPDT
clears nothing that is in use: the driver handles no STARTDT before the
callback has run); each tested connection is counted once. Theorems:
`ServerInvariance`, `CurrentCorrect`, for every number of
sessions, listeners and groups, every mode and every size. `LimitCorrect` is
proved under `OneListener`: with two accept loops, both may test the counter
before either has counted. Its invariant `LimitInv` says that `open` is the
number of open sessions and that no loop is between test and count unless
there is room.

*Broadcasts* (`Server104Proofs`). `OrderInv`: a group's buffer is in order, and
empty while a member is current; what a member has in its queue or sent is in
order and older than the buffer, unless a replay fell short; a retry is for the
newest broadcast and finds nothing buffered. `OrderCorrect` follows, in every
mode. `ReportInv` adds that a group has each broadcast in one place at most
(`HeldOnce`), that finished reports are true, and that those of a `send_wait`
still retrying count each group once: total = takers + owing + failed
(`Retried`). `ReportCorrect` follows under `FixedGroups`, the modes Single and
Multiple: in the mode Connection a group ends with its session, so that a report
of what it held stays true only as long as the session does.

*The client* (`Client104Proofs`): `PublishedCorrect`, from the invariant that
nothing is published while no connection runs, so that a publication that gives
up leaves nothing behind.

*The 101 line* (`Link101Proofs`), for every line the assumption allows, balanced
or not, with any number of stations, losses, commands and events. The theorems
are about a line where no answer comes after its deadline (`~Late`) and where a
balanced station starts anew when its line does (`BalancedRestarts`). Neither
is a property of the code: findings 6 and 7 show what goes wrong without them.
`FcbInStep` is not inductive, because a bit is out of step as long as a frame is
out. The invariant `IInv` has types and `LineInv`:
- `Exchange`, for the primary and for a balanced station: one request is out at
  most, and it is on its way, or its answer is on the way back, or either was
  lost. A timeout finds neither of them on the line (`InVain`, the one place
  where `~Late` is used), so that the repetition is again the only one.
- `Bits` relates the sender's frame count bit, the frame that is out and the bit
  the receiver expects: with nothing out they agree; with a counted frame out
  they still agree until the receiver has taken it, and differ from then on,
  whatever is repeated; an answer on its way says that it has.
- a command that is out to a station which has taken it was acted on, and an
  answer on its way is the one that station keeps for repetition.

The theorems `Invariance`, `CountsAgree` (`FcbInStep`) and
`NothingConfirmedUnheard` (`ConfirmedIsActed`) follow from it. `OnceInOrder`
(`AtMostOnce`) needs `OrderInv` beside it, which says of each station that
everything handed over is in order: what was acted on, then the command that is
out to it unless it has taken that (`Taken`, read off the bits), then what is
queued for it; and likewise what the primary has received, then what is under
way and new to it, then each buffer. Since a repetition leaves `Taken` as it is,
it cannot put anything in twice. A change of the link that takes no command is
`Quiet`, and keeps the order by one lemma (`QuietOrder`), so that only the steps
that move a command or an event have a proof of their own.

`NothingForgotten` (`NothingLost`) needs `KeptInv`, which says where each command
and event is: a command is given up, out, queued or acted on, an event of a
station given up or received, held for repetition or buffered. That is not
inductive: a station drops the event in the response it keeps when the next
request with the other bit comes, and a balanced one the event it has out when
its confirmation comes, and either must be with the primary by then. So
`KeptInv` also says that the event in a kept answer has arrived unless the
request it answers is still outstanding (`AnswerKept`, again read off `Taken`),
that this request is then one for data, and that an event a balanced station has
out has arrived once the primary expects the other bit (`RequestKept`). What
`KeptInv` relies on of the rest of the line is in `IInv`: the answer that the
primary takes is the one that the station keeps. `BalancedRestarts` is used
where the line is reopened: a serial station that does not start anew holds an
event that the primary, starting with the other bit, takes for one it knows
(finding 7).

*The 103 line* (`Line103Proofs`), for any devices polled in any order, and any
number of commands, losses, repetitions, tests, manual requests and reopenings.
`EachOnceCorrect` (`EachOnce`) is about a line where no answer comes after its
timeout, which is its premise (`~line.late`): t1 fires on time alone, so that
this is no property of the code, and finding 17 shows what goes wrong without
it. The order of polling names a device and none twice (`Line103Assumption`).
The invariant `IInv` has the parts of the 101 line's, with the differences that
103 makes:
- `Exchange`: one request is out at most, on its way there, answered on the way
  back by what its device keeps for repetition, or lost.
- `Bits`, `Kept`, `Ordered` and `Complete`, of each device by itself (`DeviceInv`).
  `Bits` holds only of a device that is active: while it is not, the client uses
  no bit, and a reset brings both ends to the same one before the device becomes
  active again. `Kept` says what a device may forget: the message in the answer it
  keeps has been received unless the request it answers is still out (`Taken`), is
  in `lost`, or the device is not active, in which case the next request it takes
  is one without a count, and what it then drops is lost by that rule. `Ordered`
  puts what was received before the message under way, and that before what the
  device still has; `Complete` says that no number is missing.
- `CommandsOnce` and `CommandsKept`: a command is queued, out, acted on or given
  up, and in one place unless its device has taken it and not been heard yet.

Every operation of the client is first shown to be one of four changes of the link
(`Launch`, `LinkConfirmed`, `LinkGivenUp`, `LinkSame`), and every service of a
device one that `Serves`; the lemmas from `LaunchKeeps` to `ReopenKeeps` say once
what such a change does to the whole invariant, and the proof of an action puts
them together.

*File transfer* (`FileTransferProofs`), for all files, sizes of sections and
segments, and numbers of requests and faults, with one master (`OneMaster`) that
aborts only what has nothing under way (`QuietAbort`) and whose handler takes nothing
between the mark of a request and its select (`PromptSelect`). Without `OneMaster`
or `QuietAbort` both theorems are false, without `PromptSelect` the second (see the
table of runs). `StationNeverPanics` (`NoPanic`) and
`FilesArriveIntact` (`FileIntact`) follow from `IInv`, whose core is the phase of
the transfer (`InPhase`). Before the sections (`Opening`) nothing of a section is
on its way, and a call that the station will answer with a section is the last
message to it. Then k sections have been received, the master's file is what they
make together (`Start`), the station, unless it gave up, is at section k, and one
of these holds: the next section is `Announced`, `Asked` for, on its way (`Sent`),
`Acknowledged` or `Rejected`, or the file is `Complete`; or the next message was
lost (`Stalled`), and nothing moves the transfer on until it is aborted. Each
phase says which one message of the two lines is about a section, so that an
acknowledgement, which the station takes for its current section whatever it
names, is for that one: this is why its index stays in range. While a section is
`Sent`, what was received and the segments in front of the marker spell (`Spells`)
a section x: they are the pieces between the values of some monotonic function.
Nothing but `SegmentFault` changes x, which then lacks a piece, has one twice or
has it altered (`Spoiled`). The marker has the checksum of the true section, so
that x is accepted only if it is that. Hence the hypothesis of `FilesArriveIntact`:
`Lossy => ChecksumsTell`. Over TCP there is none. On a connection that damages
segments the checksum, a sum modulo 256, must tell the damage: no piece of a
segment's length or less adds up to 0, as zeros would. That a section of a file
that is cut by `SplitSections` ends where the next begins, that there are at most
`MaxSections` of them (so that their numbers fit an octet), and that its segments
are the section, are lemmas about the operators (`SectionsAre`, `ChunksSpell`).

*Only model-checked*. All liveness, and the leads-to properties with it: the
prover has no rule for ENABLED, so that fairness cannot be used. What
`NobodyWaitsForEver` says is of that kind, and `StartUp` of the 103 line. Of the
103 line with late answers also `LateAnswers`. The codec: `RoundTrip`,
`NeverMisread`, `Carried` and `RequestsAreServed` compare recursive readers and
writers of octets, and what a recursive definition computes for every input
needs induction over data, which the installed provers cannot do.

## Findings

PROJECT.json quotes the lines; the [table above](#runs) says how to see them.

1. A STARTDT act that arrives while a STOPDT con is held makes the station
   forget it; the master's t1 then closes a healthy link.
2. What a replay could not queue is overtaken by later broadcasts.
3. Two masters that start at once can leave the group with no member in data
   transfer.
4. A connection in its handshake during `close` is never closed.
5. With automatic reconnection off, a connection that ended is dialled again
   all the same.
6. An answer of a 101 station that arrives after t1 is taken for the answer to
   the repetition, and what it carries is delivered twice.
7. A balanced 101 client that reopens a serial line expects FCB 1 again; the
   station keeps its own, and its next event is acknowledged and dropped.
8. With t3 below t1 a silent 104 peer is probed for ever and never given up.
9. A 104 connection whose reader waits with a frame for the full frame queue
   when the driver leaves its loop never returns from `run`.
10. A 103 device that comes up while the send queue is full is not interrogated.
11. While a handler waits for room in the send queue, its driver may wait for
    the dispatch queue and then handles neither acknowledgements nor ticks,
    although the wait is documented not to stall it.
12. The UnknownCA mirror for common address 0 cannot be sent.
13. `Params::orig_address` has no effect on what the builders make.
14. An error while a file request is encoded leaves the receiver busy.
15. A broadcast that does not encode is buffered and reported as taken; it then
    stops every later replay of its group.
16. A close between the connect and `run` of a 104 client does not end it.
17. A second copy of a 103 response that meets the next poll of its device is
    delivered as the answer to that: an event is reported twice.

Other behaviour of the code that the models contain, and that a property states
precisely or leaves open: a demoted session may still send one I-frame, because
`may_send` is computed before the select (`LateIAtMostOnce`: never two); with
stop, start and stop in flight the con of the first stop lets the master send
I-frames after the second STOPDT act (`NoIAfterStopDt` is checked for the
patient application only); a retry of `send_wait` may queue on a session that
has stopped meanwhile; two accept loops can exceed the limit; a `close` before
the task of `run_forever` has subscribed is lost (`HeardCloseEndsClient` says which
are heard); a publication that meets a reader gives up, and that connection is not
reachable through the client. A `request_file` whose select fails aborts what is
active by then, be it a transfer that the handler began from an offer of the station
after the request had marked its own; and one whose select is slow
sends it into that transfer. A file transfer has one state for all masters, and
acknowledgements are taken for the current section whatever they name: two
masters, or an abort and a new request while answers are under way, can skip a
section, hand over a file that is not the station's, or make the sender index
past its sections. The receiver ignores refusals that come as F_AF. The getters
of commands look at the first object only (`NeverMisread` says so), and the
builders of sequences ignore the addresses after the first. A CP24 tag in
the hour that is repeated when summer time ends is read in one of the two; one ahead
of the receiver's clock across the hour is read an hour too early, for all the five
minutes that decode_cp24 grants it within the hour; one about a change of the clocks
by half an hour may be misdated or not read at all. An
unset time is sent as an invalid one. The time in a 103 time synchronisation
is that of its queueing.

## Not modelled

`net.rs`, TLS, opening serial lines and sockets, `error.rs` and `display.rs`:
input, output and wording, without protocol state. The ranges and defaults of
configurations, whose results are constants here. The conversion of floats and
scaled values to octets (a float is its octets) and chrono's calendar. The
encoding of the 103 elements and the routing by type of `cs103/handler.rs`. The
reader, writer and dispatcher tasks of the 101 and 103 ends, which are those of
Tasks104 in form: there a queue between tasks never fills. Configuration
changes before `serve`. The application's handler callbacks, which are tasks of
their own. `ServerSpecial` is Client104 with `TryPublish = FALSE` and has no run
of its own. The stores of files on disk.

## Plan

Done: all modules above and the proofs above. What the prover cannot reach stays
with TLC: liveness, and the recursive definitions of the codec.
