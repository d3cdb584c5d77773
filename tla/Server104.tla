------------------------------ MODULE Server104 ------------------------------
(***************************************************************************)
(* The listening controlled station, src/cs104/server.rs: the accept loops *)
(* and their limit, the life of a session from its accept to its departure *)
(* from the groups, close, and the application's broadcasts.  A session's  *)
(* driver is Connection104 reduced to what the groups see of it: STARTDT   *)
(* and STOPDT set `active` first and run their callback, which takes the   *)
(* groups' lock, afterwards; in between other sessions and the application *)
(* go on.                                                                  *)
(***************************************************************************)
EXTENDS Redundancy104

CONSTANTS Listener,         \* calls of `serve`, each an accept loop of its own
          MaxConnections,   \* with_max_connections
          MaxPublish        \* bound: ASDUs the application broadcasts

ASSUME ServerAssumption ==
    /\ MaxConnections \in Nat
    /\ MaxPublish \in Nat

VARIABLES
    phase,        \* phase[s]: how far session s has come
    callback,     \* callback[s]: the callback the driver of s is about to run
    maySend,      \* maySend[s]: as in Connection104
    sent,         \* sent[s]: the ASDUs sent to the master of s
    admitting,    \* admitting[l]: the connection l has tested and not counted
    listening,    \* listening[l]: the accept loop runs
    open,         \* the counter `open` that the limit is tested against
    closed,       \* `close` has been called
    hears,        \* hears[s]: the receiver of s was subscribed before `close`
    published,    \* the last ASDU broadcast; they are numbered 1, 2, ...
    routes,       \* outcomes of the last broadcast: how many, how many failed
    retrying,     \* sessions that send_wait still retries
    reported,     \* reported[n]: what the application was told of ASDU n
    short         \* history: groups where a replay did not empty the buffer

sessionVars == <<phase, callback, maySend, sent, hears>>
acceptVars  == <<admitting, listening, open, closed>>
pubVars     == <<published, routes, retrying, reported>>
vars == <<groupVars, sessionVars, acceptVars, pubVars, short>>

Phase == {"free", "admitted", "accepted", "live", "closing", "ended", "stuck", "done"}

Init ==
    /\ GroupsInit
    /\ phase     = [s \in Session |-> "free"]
    /\ callback  = [s \in Session |-> "none"]
    /\ maySend   = [s \in Session |-> FALSE]
    /\ sent      = [s \in Session |-> <<>>]
    /\ hears     = [s \in Session |-> FALSE]
    /\ admitting = [l \in Listener |-> NoSession]
    /\ listening = [l \in Listener |-> TRUE]
    /\ open = 0
    /\ closed = FALSE
    /\ published = 0
    /\ routes = [total |-> 0, failed |-> 0]
    /\ retrying = {}
    /\ reported = <<>>
    /\ short = {}

-----------------------------------------------------------------------------
(***************************************************************************)
(* The accept loops.                                                       *)
(***************************************************************************)
\* Mutant: one connection too many.
RefusedLate(s) == open > MaxConnections \/ Admit(s) = {}

\* The limit is reached, or the master belongs to no group.
Refused(s) == open >= MaxConnections \/ Admit(s) = {}

Accept(l, s) ==
    /\ listening[l] /\ admitting[l] = NoSession
    /\ phase[s] = "free"
    /\ IF Refused(s)
         THEN /\ phase' = [phase EXCEPT ![s] = "done"]
              /\ UNCHANGED admitting
         ELSE /\ phase' = [phase EXCEPT ![s] = "admitted"]
              /\ admitting' = [admitting EXCEPT ![l] = s]
    /\ UNCHANGED <<groupVars, callback, maySend, sent, hears,
                   listening, open, closed, pubVars, short>>

\* The connection is counted and its task spawned.
Count(l) ==
    /\ admitting[l] # NoSession
    /\ open' = open + 1
    /\ phase' = [phase EXCEPT ![admitting[l]] = "accepted"]
    /\ admitting' = [admitting EXCEPT ![l] = NoSession]
    /\ UNCHANGED <<groupVars, callback, maySend, sent, hears,
                   listening, closed, pubVars, short>>

\* The loop ends: it heard of the close, or accept failed.
StopListening(l) ==
    /\ listening[l] /\ admitting[l] = NoSession
    /\ listening' = [listening EXCEPT ![l] = FALSE]
    /\ UNCHANGED <<groupVars, sessionVars, admitting, open, closed, pubVars, short>>

Close ==
    /\ ~closed
    /\ closed' = TRUE
    /\ UNCHANGED <<groupVars, sessionVars, admitting, listening, open, pubVars, short>>

-----------------------------------------------------------------------------
(***************************************************************************)
(* serve_one: the life of a session.                                       *)
(***************************************************************************)
HandshakeFails(s) ==
    /\ phase[s] = "accepted"
    /\ phase' = [phase EXCEPT ![s] = "done"]
    /\ open' = open - 1
    /\ UNCHANGED <<groupVars, callback, maySend, sent, hears,
                   admitting, listening, closed, pubVars, short>>

\* `run` is called with a receiver that marks an earlier close as seen, and
\* publishes the connection.
RunSession(s) ==
    /\ phase[s] = "accepted"
    /\ phase' = [phase EXCEPT ![s] = "live"]
    /\ hears' = [hears EXCEPT ![s] = ~closed]
    /\ \E g \in Admit(s) : Join(s, g)
    /\ UNCHANGED <<callback, maySend, sent, acceptVars, pubVars, short>>

\* The driver of s is at its select.
Waiting(s) == phase[s] = "live" /\ callback[s] = "none"

\* Mutant: the group is not told.
RecvStartDtUntold(s) ==
    /\ Waiting(s)
    /\ active'  = [active EXCEPT ![s] = TRUE]
    /\ maySend' = [maySend EXCEPT ![s] = TRUE]
    /\ UNCHANGED <<connected, asduQ, members, current, buffer,
                   phase, callback, sent, hears, acceptVars, pubVars, short>>

\* STARTDT act and STOPDT act; the callback follows.  A STOPDT act while
\* stopped runs none.
RecvStartDt(s) ==
    /\ Waiting(s)
    /\ active'   = [active EXCEPT ![s] = TRUE]
    /\ callback' = [callback EXCEPT ![s] = "activated"]
    /\ UNCHANGED <<connected, asduQ, members, current, buffer,
                   phase, maySend, sent, hears, acceptVars, pubVars, short>>

RecvStopDt(s) ==
    /\ Waiting(s)
    /\ active[s]
    /\ active'   = [active EXCEPT ![s] = FALSE]
    /\ callback' = [callback EXCEPT ![s] = "deactivated"]
    /\ UNCHANGED <<connected, asduQ, members, current, buffer,
                   phase, maySend, sent, hears, acceptVars, pubVars, short>>

OnActivated(s) ==
    /\ callback[s] = "activated"
    /\ Activated(s)
    /\ short' = short \cup {g \in Group : s \in members[g] /\ buffer'[g] # <<>>}
    /\ callback' = [callback EXCEPT ![s] = "none"]
    /\ maySend'  = [maySend EXCEPT ![s] = active'[s]]
    /\ UNCHANGED <<phase, sent, hears, acceptVars, pubVars>>

OnDeactivated(s) ==
    /\ callback[s] = "deactivated"
    /\ Deactivated(s)
    /\ callback' = [callback EXCEPT ![s] = "none"]
    /\ maySend'  = [maySend EXCEPT ![s] = active[s]]
    /\ UNCHANGED <<phase, sent, hears, acceptVars, pubVars, short>>

\* An ASDU of the queue goes out.  That k may close the window for a while is
\* the step not being taken.
SendAsdu(s) ==
    /\ Waiting(s)
    /\ maySend[s]
    /\ asduQ[s] # <<>>
    /\ sent'    = [sent EXCEPT ![s] = Append(@, Head(asduQ[s]))]
    /\ asduQ'   = [asduQ EXCEPT ![s] = Tail(@)]
    /\ maySend' = [maySend EXCEPT ![s] = active[s]]
    /\ UNCHANGED <<connected, active, members, current, buffer,
                   phase, callback, hears, acceptVars, pubVars, short>>

\* Any other branch of the select: the loop head looks at `active` again.
Iterate(s) ==
    /\ Waiting(s)
    /\ maySend' = [maySend EXCEPT ![s] = active[s]]
    /\ UNCHANGED <<groupVars, phase, callback, sent, hears, acceptVars, pubVars, short>>

\* Mutant: not while it is in data transfer.
DisconnectIdle(s) ==
    /\ Waiting(s)
    /\ ~active[s]
    /\ phase'     = [phase EXCEPT ![s] = "closing"]
    /\ connected' = [connected EXCEPT ![s] = FALSE]
    /\ UNCHANGED <<active, asduQ, members, current, buffer,
                   callback, maySend, sent, hears, acceptVars, pubVars, short>>

\* The driver leaves its loop, in two stores.  It may do so between a STOPDT act
\* and its callback, where it awaits the writer.
Disconnect(s) ==
    /\ phase[s] = "live"
    /\ callback[s] # "activated"
    /\ phase'     = [phase EXCEPT ![s] = "closing"]
    /\ callback'  = [callback EXCEPT ![s] = "none"]
    /\ connected' = [connected EXCEPT ![s] = FALSE]
    /\ UNCHANGED <<active, asduQ, members, current, buffer,
                   maySend, sent, hears, acceptVars, pubVars, short>>

SetInactive(s) ==
    /\ phase[s] = "closing"
    /\ phase'  = [phase EXCEPT ![s] = "ended"]
    /\ active' = [active EXCEPT ![s] = FALSE]
    /\ UNCHANGED <<connected, asduQ, members, current, buffer,
                   callback, maySend, sent, hears, acceptVars, pubVars, short>>

\* `run` joins the reader before it returns.  One that waits with a frame for the
\* full frame queue never ends (Tasks104, `Leave`), and neither does the session.
JoinReader(s) ==
    /\ phase[s] = "ended"
    /\ phase' = [phase EXCEPT ![s] = "stuck"]
    /\ UNCHANGED <<groupVars, callback, maySend, sent, hears, acceptVars, pubVars, short>>

\* After `run` returned, the session leaves its group and is no longer counted.
Depart(s) ==
    /\ phase[s] = "ended"
    /\ phase' = [phase EXCEPT ![s] = "done"]
    /\ open' = open - 1
    /\ Leave(s)
    /\ UNCHANGED <<callback, maySend, sent, hears,
                   admitting, listening, closed, pubVars, short>>

-----------------------------------------------------------------------------
(***************************************************************************)
(* Broadcasts, by one task of the application that awaits each.            *)
(***************************************************************************)

\* Mutant: a partial broadcast passes for a complete one.
OutcomeAnyOk(n, f) == CASE n = 0           -> "NotActive"
                        [] n # 0 /\ f # n  -> "Ok"
                        [] OTHER           -> "Failed"

\* `outcome`: what n outcomes of which f failed are reported as.
Outcome(n, f) == CASE n = 0           -> "NotActive"
                   [] n # 0 /\ f = 0  -> "Ok"
                   [] n # 0 /\ f = n  -> "Failed"
                   [] OTHER           -> "Partial"

Asked(a)        == {g \in Group : Exists(g) /\ RouteTo(g, a) # "Skipped"}
With(a, result) == {g \in Asked(a) : RouteTo(g, a) \in result}

\* Server::send, and send_wait up to its first retry.
Publish(wait) ==
    LET a      == published + 1
        full   == With(a, {"BufferFull"})
        lost   == With(a, {"Closed", "Unencodable", "Lost"})
        failed == Cardinality(IF wait THEN lost ELSE lost \cup full)
        retry  == IF wait THEN {Receiver(g) : g \in full} ELSE {}
        n      == Cardinality(Asked(a))
    IN
    /\ retrying = {} /\ published < MaxPublish
    /\ Route(a)
    /\ published' = a
    /\ routes'    = [total |-> n, failed |-> failed]
    /\ retrying'  = retry
    /\ reported'  = IF retry = {} THEN Append(reported, Outcome(n, failed)) ELSE reported
    /\ UNCHANGED <<sessionVars, acceptVars, short>>

\* The retry of s is over; the broadcast is reported after the last one.
Resolve(s, failures) ==
    /\ retrying' = retrying \ {s}
    /\ routes' = [routes EXCEPT !.failed = @ + failures]
    /\ reported' = IF retrying = {s}
                     THEN Append(reported, Outcome(routes.total, routes.failed + failures))
                     ELSE reported
    /\ UNCHANGED <<published, sessionVars, acceptVars, short,
                   connected, active, members, current, buffer>>

\* send_waiting succeeds, or gives up: the session ended or the time is over.
Retry(s) ==
    /\ s \in retrying
    /\ Enqueued(s, published) = "Sent"
    /\ asduQ' = [asduQ EXCEPT ![s] = Append(@, published)]
    /\ Resolve(s, 0)

GiveUp(s) ==
    /\ s \in retrying
    /\ Enqueued(s, published) # "Sent"
    /\ UNCHANGED asduQ
    /\ Resolve(s, 1)

-----------------------------------------------------------------------------
SessionStep(s) ==
    \/ HandshakeFails(s) \/ RunSession(s)
    \/ RecvStartDt(s) \/ RecvStopDt(s) \/ OnActivated(s) \/ OnDeactivated(s)
    \/ SendAsdu(s) \/ Iterate(s)
    \/ Disconnect(s) \/ SetInactive(s) \/ JoinReader(s) \/ Depart(s)

Next ==
    \/ \E l \in Listener : Count(l) \/ StopListening(l) \/ \E s \in Session : Accept(l, s)
    \/ Close
    \/ \E s \in Session : SessionStep(s) \/ Retry(s) \/ GiveUp(s)
    \/ \E wait \in BOOLEAN : Publish(wait)

\* The sessions' tasks are scheduled, their masters acknowledge, and a driver
\* that hears of the close leaves its loop.  The select is biased: both go before
\* the next frame, however many frames arrive.  `run` returns unless its reader is
\* stuck, which nothing rules out.
Fairness ==
    \A s \in Session :
        /\ WF_vars(RunSession(s))
        /\ WF_vars(OnActivated(s)) /\ WF_vars(OnDeactivated(s))
        /\ SF_vars(SendAsdu(s)) /\ WF_vars(Iterate(s))
        /\ SF_vars(closed /\ hears[s] /\ Disconnect(s))
        /\ WF_vars(SetInactive(s)) /\ WF_vars(Depart(s))

Spec == Init /\ [][Next]_vars /\ Fairness

-----------------------------------------------------------------------------
\* Every variable has its type, and no queue or buffer is over its size.
TypeOK ==
    /\ connected \in [Session -> BOOLEAN] /\ active \in [Session -> BOOLEAN]
    /\ asduQ \in [Session -> Seq(1 .. MaxPublish)]
    /\ sent \in [Session -> Seq(1 .. MaxPublish)]
    /\ members \in [Group -> SUBSET Session]
    /\ current \in [Group -> Session \cup {NoSession}]
    /\ buffer \in [Group -> Seq(1 .. MaxPublish)]
    /\ phase \in [Session -> Phase]
    /\ callback \in [Session -> {"none", "activated", "deactivated"}]
    /\ maySend \in [Session -> BOOLEAN] /\ hears \in [Session -> BOOLEAN]
    /\ admitting \in [Listener -> Session \cup {NoSession}]
    /\ listening \in [Listener -> BOOLEAN]
    /\ open \in Nat /\ closed \in BOOLEAN
    /\ published \in 0 .. MaxPublish
    /\ routes \in [total : Nat, failed : Nat]
    /\ retrying \in SUBSET Session
    /\ reported \in Seq({"Ok", "NotActive", "Failed", "Partial"})
    /\ short \in SUBSET Group
    /\ \A s \in Session : Len(asduQ[s]) <= QueueCap
    /\ \A g \in Group : Len(buffer[g]) <= BufferSize

\* "The member in data transfer, the only one sent spontaneous data": a member
\* in data transfer is the one its group sends to, or is about to become it.
\* So two members are in data transfer only while a switchover is under way.
StartedIsCurrent ==
    \A g \in Group : \A s \in members[g] :
        active[s] => current[g] = s \/ callback[s] = "activated"

\* A group never keeps a session that left it, which would take its broadcasts.
CurrentIsMember ==
    \A g \in Group : current[g] # NoSession => current[g] \in members[g]

\* Whom a group's broadcasts go to: the member in data transfer, never one that left
\* (Groups::activated, redundancy.rs:190; Groups::leave, redundancy.rs:234).
CurrentIsRight == StartedIsCurrent /\ CurrentIsMember

\* The sessions of group g, those that have left included.
Joined(g) == {s \in Session : g \in Admit(s)}

\* What session s was sent, and what is on its way to it.
Stream(s) == sent[s] \o asduQ[s]

\* Where group g holds ASDU n: in its buffer, or with one of its sessions.
Held(x, g)   == IF x = NoSession THEN buffer[g] ELSE Stream(x)
Copies(n, g) ==
    UNION {{x} \X {i \in 1 .. Len(Held(x, g)) : Held(x, g)[i] = n} :
              x \in Joined(g) \cup {NoSession}}

\* Through switchovers, replays, retries and departures, each group of a fixed
\* mode holds a broadcast at most once, and what the application was told of it
\* is true: "Ok" that every group asked took it, into its buffer whether or not it
\* encodes, "Partial" that some did, "Failed" and "NotActive" that none did.
ReportIsTrue ==
    \A n \in 1 .. Len(reported) :
        LET kept == {g \in Group : Copies(n, g) # {}} IN
        /\ \A g \in Group : \A c, d \in Copies(n, g) : c = d
        /\ reported[n] \in {"Ok", "Partial"} <=> kept # {}
        /\ reported[n] = "Ok" /\ BufferSize > 0 => kept = Group
        /\ reported[n] = "Partial" => kept # Group

\* "Replayed, oldest first": the stream of a session is in the order of the
\* broadcasts.
Ordered(q)     == \A i, j \in 1 .. Len(q) : i < j => q[i] < q[j]
SessionInOrder == \A s \in Session : Ordered(Stream(s))

\* It is unless a replay left something in the buffer, because the queue of the
\* session was too short for it or an ASDU did not encode.
OrderedUnlessShort ==
    \A s \in Session : Admit(s) \cap short = {} => Ordered(Stream(s))

\* "Events raised during an outage are delivered": the member that starts takes
\* the whole buffer if its queue has room for that.
ReplayIsWhole ==
    [][\A s \in Session : \A g \in Group :
        /\ s \in members[g] /\ connected[s]
        /\ callback[s] = "activated" /\ callback'[s] = "none"
        /\ Len(asduQ[s]) + Len(buffer[g]) <= QueueCap
        => buffer'[g] = <<>>]_vars

\* No more connections than the limit are open, from their accept on.
Open == {s \in Session : phase[s] \in {"accepted", "live", "closing", "ended", "stuck"}}
LimitRespected == Cardinality(Open) <= MaxConnections

\* "Exactly one of them is in data transfer": once the callbacks have run, the
\* member its group took as started has not been taken out of data transfer.
SwitchoverKeepsOne ==
    \A g \in Group : \A s \in members[g] :
        /\ current[g] = s /\ phase[s] = "live"
        /\ \A x \in members[g] : callback[x] = "none"
        => active[s]

\* "Stop serving and close every session."
CloseEndsSessions == closed ~> \A s \in Session : phase[s] # "live"

\* A session that listens to the close is taken out of data transfer for good, and
\* leaves its group and the count unless its reader is stuck: `close` reaches it
\* whatever it was doing.
Left(s) == phase[s] = "done" /\ \A g \in Group : s \notin members[g] /\ current[g] # s
ClosedSessionDeparts ==
    \A s \in Session :
        closed /\ hears[s] ~> ~active[s] /\ (Left(s) \/ phase[s] = "stuck")

\* While a member stays in data transfer, what its group holds reaches its
\* master, unless a replay was cut short: the replay of `activated` leaves
\* nothing behind that only a later activation would send.
StaysStarted(s) ==
    <>[](phase[s] = "live" /\ active[s])
BacklogIsSent ==
    \A s \in Session : \A g \in Group :
        StaysStarted(s) /\ g \in Admit(s) =>
            <>[](asduQ[s] = <<>> /\ (buffer[g] = <<>> \/ g \in short))
==============================================================================
