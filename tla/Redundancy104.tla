---------------------------- MODULE Redundancy104 ----------------------------
(***************************************************************************)
(* The redundancy groups of a controlled station, src/cs104/redundancy.rs: *)
(* which sessions belong together, which of them is in data transfer, and  *)
(* where a broadcast goes.  Every action here is one critical section of   *)
(* the lock of `Groups`; the handles of the sessions (connected, active,   *)
(* asduQ) are shared with the sessions' drivers, which do not take it.     *)
(***************************************************************************)
EXTENDS Integers, Sequences, FiniteSetsExt

CONSTANTS Session,      \* the connections there may ever be
          Address,      \* Address[s]: the IP address s connects from
          Mode,         \* ServerMode: "Connection", "Single" or "Multiple"
          Clients,      \* Clients[i]: addresses of the i-th group of "Multiple"
          BufferSize,   \* ASDUs the buffer of a group holds
          QueueCap,     \* ASDUs the queue of a session holds, 16 * k in the code
          Unencodable,  \* the broadcasts that `marshal_binary` refuses
          NoSession     \* `None` where an optional session is kept

ASSUME RedundancyAssumption ==
    /\ NoSession \notin Session
    /\ Mode \in {"Connection", "Single", "Multiple"}
    /\ BufferSize \in Nat
    /\ QueueCap \in Nat \ {0}
ASSUME ClientsAssumption == Clients \in Seq({Clients[i] : i \in DOMAIN Clients})

VARIABLES
    connected, active, asduQ,    \* handles of the sessions: see Connection104
    members,     \* members[g]: the sessions of group g
    current,     \* current[g]: Group::active, the member sent broadcasts
    buffer       \* buffer[g]: ASDUs kept while no member is in data transfer

groupVars == <<connected, active, asduQ, members, current, buffer>>

\* A per-connection group is named by its session and lasts as long.
Group == IF Mode = "Connection" THEN Session
         ELSE IF Mode = "Single" THEN {1}
         ELSE 1 .. Len(Clients)

Exists(g) == Mode = "Connection" => members[g] # {}

\* Groups::admit: the first group that names the address, else the first
\* catch-all.  The set is empty when the master is refused.
Naming(s)  == {i \in 1 .. Len(Clients) : Address[s] \in Clients[i]}
CatchAll   == {i \in 1 .. Len(Clients) : Clients[i] = {}}
First(S)   == {i \in S : \A j \in S : i <= j}
Admit(s) == CASE Mode = "Connection" -> {s}
              [] Mode = "Single"     -> {1}
              [] Mode = "Multiple"   -> First(IF Naming(s) # {} THEN Naming(s)
                                              ELSE CatchAll)

GroupsInit ==
    /\ connected = [s \in Session |-> FALSE]
    /\ active    = [s \in Session |-> FALSE]
    /\ asduQ     = [s \in Session |-> <<>>]
    /\ members   = [g \in Group |-> {}]
    /\ current   = [g \in Group |-> NoSession]
    /\ buffer    = [g \in Group |-> <<>>]

-----------------------------------------------------------------------------
\* Connection::try_enqueue on a controlled station, which does not ask whether
\* data transfer is active: what becomes of ASDU a.
Enqueued(s, a) == CASE ~connected[s]                            -> "Closed"
                    [] connected[s] /\ a \in Unencodable       -> "Unencodable"
                    [] OTHER -> IF Len(asduQ[s]) < QueueCap THEN "Sent" ELSE "BufferFull"

\* Groups::join, when the session is published; it starts out stopped.
Join(s, g) ==
    /\ connected' = [connected EXCEPT ![s] = TRUE]
    /\ members'   = [members EXCEPT ![g] = @ \cup {s}]
    /\ UNCHANGED <<active, asduQ, current, buffer>>

\* current without session s.
Without(s) == [g \in Group |-> IF current[g] = s THEN NoSession ELSE current[g]]

\* Groups::leave; a per-connection group goes with what it buffered.
Leave(s) ==
    /\ members' = [g \in Group |-> members[g] \ {s}]
    /\ current' = Without(s)
    /\ buffer'  = [g \in Group |-> IF Mode = "Connection" /\ members[g] = {s}
                                     THEN <<>> ELSE buffer[g]]
    /\ UNCHANGED <<connected, active, asduQ>>

\* How much of group g's buffer session s takes, up to the first ASDU that
\* try_enqueue refuses: what does not encode stays in front of the rest.
Replayable(s, g) ==
    {n \in 0 .. Len(buffer[g]) :
        /\ n > 0 => connected[s]
        /\ n <= QueueCap - Len(asduQ[s])
        /\ \A i \in 1 .. n : buffer[g][i] \notin Unencodable}
Replayed(s, g) == Max(Replayable(s, g))

\* Mutants: nobody is demoted; what was replayed stays buffered; the newest ASDU
\* is replayed first.
ActivatedNoDemote(s, g) ==
    /\ current' = [current EXCEPT ![g] = s]
    /\ asduQ'   = [asduQ EXCEPT ![s] = @ \o SubSeq(buffer[g], 1, Replayed(s, g))]
    /\ buffer'  = [buffer EXCEPT ![g] = SubSeq(@, Replayed(s, g) + 1, Len(@))]
    /\ UNCHANGED <<active, connected, members>>
ActivatedKeeps(s, g) ==
    /\ active'  = [x \in Session |-> active[x] /\ x \notin members[g] \ {s}]
    /\ current' = [current EXCEPT ![g] = s]
    /\ asduQ'   = [asduQ EXCEPT ![s] = @ \o SubSeq(buffer[g], 1, Replayed(s, g))]
    /\ UNCHANGED <<buffer, connected, members>>
ActivatedNewestFirst(s, g) ==
    /\ active'  = [x \in Session |-> active[x] /\ x \notin members[g] \ {s}]
    /\ current' = [current EXCEPT ![g] = s]
    /\ asduQ'   = [asduQ EXCEPT ![s] = @ \o [i \in 1 .. Replayed(s, g) |->
                                                buffer[g][Len(buffer[g]) + 1 - i]]]
    /\ buffer'  = [buffer EXCEPT ![g] = SubSeq(@, 1, Len(@) - Replayed(s, g))]
    /\ UNCHANGED <<connected, members>>

\* Groups::activated: the other members are demoted, s becomes the member in
\* data transfer, and the buffer is replayed to it as far as its queue takes it.
ActivatedIn(s, g) ==
    /\ active'  = [x \in Session |-> active[x] /\ x \notin members[g] \ {s}]
    /\ current' = [current EXCEPT ![g] = s]
    /\ asduQ'   = [asduQ EXCEPT ![s] = @ \o SubSeq(buffer[g], 1, Replayed(s, g))]
    /\ buffer'  = [buffer EXCEPT ![g] = SubSeq(@, Replayed(s, g) + 1, Len(@))]
    /\ UNCHANGED <<connected, members>>

Activated(s) ==
    IF \E g \in Group : s \in members[g]
      THEN \E g \in Group : s \in members[g] /\ ActivatedIn(s, g)
      ELSE UNCHANGED groupVars

\* Groups::deactivated.
Deactivated(s) ==
    /\ current' = Without(s)
    /\ UNCHANGED <<connected, active, asduQ, members, buffer>>

-----------------------------------------------------------------------------
(***************************************************************************)
(* Groups::route.  Where a broadcast goes in group g: to the member in     *)
(* data transfer, unless that one has been stopped since, or else into the *)
(* buffer, which takes ASDUs unencoded.                                    *)
(***************************************************************************)
Receiver(g) == IF current[g] # NoSession /\ active[current[g]]
                 THEN current[g] ELSE NoSession

RouteTo(g, a) ==
    CASE Receiver(g) # NoSession -> Enqueued(Receiver(g), a)
      [] Receiver(g) = NoSession /\ BufferSize = 0 -> "Skipped"
      [] OTHER -> IF Len(buffer[g]) < BufferSize THEN "Buffered" ELSE "Lost"

Route(a) ==
    /\ current' = [g \in Group |-> IF Exists(g) THEN Receiver(g) ELSE current[g]]
    /\ asduQ' = [s \in Session |->
                   IF \E g \in Group : Exists(g) /\ Receiver(g) = s /\ RouteTo(g, a) = "Sent"
                     THEN Append(asduQ[s], a) ELSE asduQ[s]]
    /\ buffer' = [g \in Group |-> IF Exists(g) /\ RouteTo(g, a) = "Buffered"
                                    THEN Append(buffer[g], a) ELSE buffer[g]]
    /\ UNCHANGED <<connected, active, members>>
==============================================================================
