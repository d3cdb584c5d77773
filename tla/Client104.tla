------------------------------ MODULE Client104 ------------------------------
(***************************************************************************)
(* The life of a master, src/cs104/client.rs: start, close, the task       *)
(* `run_forever` that dials, runs one connection after another and makes   *)
(* each reachable, and the application's tasks in `wait_active`.           *)
(* ServerSpecial of src/cs104/server.rs, a station that dials out, has the *)
(* same task with a plain mutex around the published connection.           *)
(*                                                                         *)
(* A connection is Connection104 reduced to connected and active.  Only    *)
(* consecutive connections must be told apart, so they are numbered 1, 2,  *)
(* 1, 2, ...; the current one is conn, and those before have ended.        *)
(***************************************************************************)
EXTENDS Integers

CONSTANTS Waiter,          \* tasks of the application that call wait_active
          AutoReconnect,   \* with_auto_reconnect
          TryPublish       \* publish gives up when the lock is held: Client does

ASSUME ClientAssumption == AutoReconnect \in BOOLEAN /\ TryPublish \in BOOLEAN

VARIABLES
    task,          \* where run_forever is
    stop,          \* the value of the watch channel `shutdown`
    taskUnseen,    \* the receiver of run_forever has a value it has not seen
    connUnseen,    \* so has the receiver of the connection that runs
    conn,          \* number of the current or last connection, 0 before any
    active,        \* its data transfer is active
    callback,      \* its driver is about to run on_activated
    published,     \* the connection kept in `self.conn`, or 0
    waiter,        \* waiter[w]: where task w is in wait_active
    permit         \* permit[w]: the `notified` of w was notified

taskVars   == <<task, taskUnseen>>
connVars   == <<connUnseen, conn, active, callback, published>>
waiterVars == <<waiter, permit>>
vars == <<taskVars, stop, connVars, waiterVars>>

Init ==
    /\ task = "none"
    /\ stop = FALSE /\ taskUnseen = FALSE
    /\ connUnseen = FALSE /\ conn = 0 /\ active = FALSE /\ callback = FALSE
    /\ published = 0
    /\ waiter = [w \in Waiter |-> "idle"]
    /\ permit = [w \in Waiter |-> FALSE]

\* The readers of `self.conn`.
Locked == \E w \in Waiter : waiter[w] = "locked"

-----------------------------------------------------------------------------
(***************************************************************************)
(* The application: start and close.  A watch channel without a receiver   *)
(* refuses the value that is sent to it.                                   *)
(***************************************************************************)
Start ==
    /\ task = "none"
    /\ task' = "spawned"
    /\ UNCHANGED <<taskUnseen, stop, connVars, waiterVars>>

Subscribed == task \notin {"none", "spawned", "done"}

Close ==
    /\ IF Subscribed
         THEN /\ stop' = TRUE
              /\ taskUnseen' = TRUE
              /\ connUnseen' = (task = "running")
         ELSE UNCHANGED <<stop, taskUnseen, connUnseen>>
    /\ UNCHANGED <<task, conn, active, callback, published, waiterVars>>

-----------------------------------------------------------------------------
(***************************************************************************)
(* run_forever.                                                            *)
(***************************************************************************)
GoTo(place) == task' = place /\ UNCHANGED <<taskUnseen, stop, connVars, waiterVars>>

Subscribe ==
    /\ task = "spawned"
    /\ taskUnseen' = FALSE
    /\ task' = "head"
    /\ UNCHANGED <<stop, connVars, waiterVars>>

\* Mutant: the head of the loop does not look at the channel.
LoopHeadUnchecked == task = "head" /\ GoTo("connecting")

LoopHead == task = "head" /\ GoTo(IF stop THEN "done" ELSE "connecting")

\* The selects on `shutdown.changed()`.
HearClose ==
    /\ task \in {"connecting", "delay", "pause"}
    /\ taskUnseen
    /\ GoTo("done")

Connected     == task = "connecting" /\ GoTo("starting")
ConnectFailed == task = "connecting" /\ GoTo(IF AutoReconnect THEN "delay" ELSE "done")
Slept         == task \in {"delay", "pause"} /\ GoTo("head")

\* `run` is called with a receiver that has seen all that was sent before, and
\* publishes the connection.
RunConnection ==
    /\ task = "starting"
    /\ TryPublish \/ ~Locked
    /\ task' = "running"
    /\ connUnseen' = FALSE
    /\ conn' = (conn % 2) + 1
    /\ published' = IF Locked THEN published ELSE conn'
    /\ UNCHANGED <<taskUnseen, stop, active, callback, waiterVars>>

\* The master's STARTDT is confirmed; the callback follows.
Activate ==
    /\ task = "running" /\ ~callback
    /\ active' = TRUE
    /\ callback' = TRUE
    /\ UNCHANGED <<taskVars, stop, connUnseen, conn, published, waiterVars>>

\* on_activated wakes everybody who has called `notified`.
OnActivated ==
    /\ callback
    /\ callback' = FALSE
    /\ permit' = [w \in Waiter |-> waiter[w] \in {"armed", "locked", "checked", "waiting"}]
    /\ UNCHANGED <<taskVars, stop, connUnseen, conn, active, published, waiter>>

Deactivate ==
    /\ task = "running" /\ ~callback
    /\ active
    /\ active' = FALSE
    /\ UNCHANGED <<taskVars, stop, connUnseen, conn, callback, published, waiterVars>>

\* The driver leaves its loop: it heard of the close, or the connection ended.
EndConnection ==
    /\ task = "running" /\ ~callback
    /\ task' = "leaving"
    /\ active' = FALSE
    /\ UNCHANGED <<taskUnseen, stop, connUnseen, conn, callback, published, waiterVars>>

\* `run` joins the reader before it returns.  One that waits with a frame for the
\* full frame queue never ends (Tasks104, `Leave`), and neither does `run`.
RunReturns == task = "leaving" /\ GoTo("ended")
JoinReader == task = "leaving" /\ GoTo("stuck")

\* Mutant: the connection that ended stays published.
UnpublishNot ==
    /\ task = "ended" /\ ~Locked
    /\ task' = IF stop THEN "done" ELSE "pause"
    /\ UNCHANGED <<taskUnseen, stop, connVars, waiterVars>>

Unpublish ==
    /\ task = "ended" /\ ~Locked
    /\ published' = 0
    /\ task' = IF stop THEN "done" ELSE "pause"
    /\ UNCHANGED <<taskUnseen, stop, connUnseen, conn, active, callback, waiterVars>>

-----------------------------------------------------------------------------
(***************************************************************************)
(* wait_active.                                                            *)
(***************************************************************************)
Move(w, from, to) ==
    /\ waiter[w] = from
    /\ waiter' = [waiter EXCEPT ![w] = to]
    /\ UNCHANGED <<taskVars, stop, connVars>>

\* `let notified = self.activated.notified()`.
Arm(w) ==
    /\ Move(w, "idle", "armed")
    /\ permit' = [permit EXCEPT ![w] = FALSE]

\* `self.is_active().await`: the lock is taken, and given back with the answer.
Lock(w) == Move(w, "armed", "locked") /\ UNCHANGED permit

Check(w) ==
    /\ Move(w, "locked", IF published # 0 /\ active THEN "idle" ELSE "checked")
    /\ UNCHANGED permit

\* Mutant: `notified` is called after the check.
AwaitNew(w) ==
    /\ Move(w, "checked", "waiting")
    /\ permit' = [permit EXCEPT ![w] = FALSE]

\* `notified.await`: what was notified since Arm counts.
Await(w) == Move(w, "checked", "waiting") /\ UNCHANGED permit

Wake(w) ==
    /\ permit[w]
    /\ Move(w, "waiting", "armed")
    /\ permit' = [permit EXCEPT ![w] = FALSE]

-----------------------------------------------------------------------------
Next ==
    \/ Start \/ Close
    \/ Subscribe \/ LoopHead \/ HearClose \/ Connected \/ ConnectFailed \/ Slept
    \/ RunConnection \/ Activate \/ OnActivated \/ Deactivate \/ EndConnection
    \/ RunReturns \/ JoinReader \/ Unpublish
    \/ \E w \in Waiter : Arm(w) \/ Lock(w) \/ Check(w) \/ Await(w) \/ Wake(w)

\* The tasks are scheduled, a connect succeeds or fails within t0, a driver that
\* hears of the close leaves its loop, `run` returns unless its reader is stuck,
\* which nothing rules out, and the lock is fair.  The network and the application
\* owe nothing.
Fairness ==
    /\ WF_vars(Subscribe) /\ WF_vars(LoopHead) /\ WF_vars(HearClose)
    /\ WF_vars(Connected \/ ConnectFailed) /\ WF_vars(Slept)
    /\ SF_vars(RunConnection) /\ WF_vars(OnActivated)
    /\ SF_vars(connUnseen /\ EndConnection)
    /\ WF_vars(RunReturns) /\ SF_vars(Unpublish)
    /\ \A w \in Waiter : /\ WF_vars(Lock(w)) /\ WF_vars(Check(w))
                        /\ WF_vars(Await(w)) /\ WF_vars(Wake(w))

Spec == Init /\ [][Next]_vars /\ Fairness

-----------------------------------------------------------------------------
\* What the application reaches is the connection that runs, never the one
\* before it, and nothing between two connections.
PublishedIsCurrent ==
    published # 0 => published = conn /\ task \in {"running", "leaving", "ended", "stuck"}

\* A close that reaches the task anywhere but in a connect, or the connection
\* that runs, ends data transfer and the client, unless the reader of the
\* connection is stuck: then nobody dials again either.
CloseHeard ==
    \/ stop /\ task \in {"head", "delay", "leaving", "ended", "pause"}
    \/ connUnseen /\ task = "running"

HeardCloseEndsClient == CloseHeard ~> [](~active /\ task \in {"done", "stuck"})

\* "Stop the client and close the connection", whenever the channel takes it.
CloseEndsClient == stop ~> task \in {"done", "stuck"}

\* No wakeup is lost: while a published connection stays active, nobody stays
\* in wait_active, whenever the activation came.
WaitersReturn ==
    \A w \in Waiter :
        <>[](active /\ published # 0) => []<>(waiter[w] = "idle")

\* "Reconnecting on its own unless disabled": where it is disabled, no second
\* connection follows the first.
NoRedial == [][~AutoReconnect /\ conn # 0 => task' # "connecting"]_vars
==============================================================================
