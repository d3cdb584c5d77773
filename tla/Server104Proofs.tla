--------------------------- MODULE Server104Proofs ---------------------------
(***************************************************************************)
(* The redundancy groups keep track of the sessions in data transfer: for  *)
(* every number of sessions, listeners and groups, every mode, buffer and  *)
(* queue size, and every order of the sessions' callbacks.                 *)
(***************************************************************************)
EXTENDS Server104, FiniteSetTheorems, SequenceTheorems, WellFoundedInduction, TLAPS

\* What the argument needs of the types.
GroupTypes ==
    /\ active \in [Session -> BOOLEAN]
    /\ members \in [Group -> SUBSET Session]
    /\ current \in [Group -> Session \cup {NoSession}]
    /\ phase \in [Session -> Phase]
    /\ callback \in [Session -> {"none", "activated", "deactivated"}]
    /\ admitting \in [Listener -> Session \cup {NoSession}]

\* A connection that was tested is counted once, by the loop that accepted it.
CountedOnce ==
    \A l, m \in Listener : admitting[l] # NoSession =>
        /\ phase[admitting[l]] = "admitted"
        /\ admitting[l] = admitting[m] => l = m

\* A session is in one group at most.
OneGroup ==
    \A g, h \in Group : members[g] \cap members[h] # {} => g = h

\* It is in one only from its publication to its departure.
MembersRun ==
    \A g \in Group : \A s \in members[g] : phase[s] \in {"live", "closing", "ended", "stuck"}

\* Before that it is not in data transfer.
NotYetActive ==
    \A s \in Session : phase[s] \in {"free", "admitted", "accepted"} => ~active[s]

\* A stopped session's callback finds it stopped: no STARTDT act is handled
\* between a STOPDT act and its callback.
StoppedStays ==
    \A s \in Session : callback[s] = "deactivated" => ~active[s]

\* The inductive invariant.
SInv ==
    /\ GroupTypes /\ CountedOnce
    /\ OneGroup /\ MembersRun /\ NotYetActive /\ StoppedStays
    /\ StartedIsCurrent /\ CurrentIsMember

\* What SInv is about.
sVars == <<active, members, current, phase, callback, admitting>>

\* SInv holds as long as nothing it speaks of changes.
LEMMA StutterInv == SInv /\ UNCHANGED sVars => SInv'
BY DEF SInv, sVars, GroupTypes, CountedOnce, OneGroup, MembersRun, NotYetActive, StoppedStays,
       StartedIsCurrent, CurrentIsMember

\* A master is admitted to groups that exist.
LEMMA AdmitGroups == \A s \in Session : Admit(s) \subseteq Group
BY RedundancyAssumption DEF Admit, Group, First, Naming, CatchAll

\* SInv holds initially.
LEMMA InitSInv == Init => SInv
BY RedundancyAssumption
   DEF Init, GroupsInit, SInv, GroupTypes, Phase, CountedOnce, OneGroup, MembersRun, NotYetActive,
       StoppedStays, StartedIsCurrent, CurrentIsMember

\* The accept loops work on sessions that are in no group yet.
LEMMA AcceptSInv ==
    ASSUME SInv, NEW l \in Listener, NEW s \in Session, Accept(l, s)
    PROVE  SInv'
<1>1. phase[s] = "free" /\ UNCHANGED <<active, members, current, callback>>
  BY DEF Accept, groupVars
<1>2. \/ phase' = [phase EXCEPT ![s] = "done"] /\ UNCHANGED admitting
      \/ phase' = [phase EXCEPT ![s] = "admitted"] /\ admitting' = [admitting EXCEPT ![l] = s]
  BY DEF Accept
<1>3. (GroupTypes /\ CountedOnce)'
  BY <1>1, <1>2, RedundancyAssumption DEF SInv, GroupTypes, Phase, CountedOnce
<1>4. (OneGroup /\ MembersRun /\ NotYetActive /\ StoppedStays)'
  BY <1>1, <1>2
     DEF SInv, GroupTypes, Phase, OneGroup, MembersRun, NotYetActive, StoppedStays
<1>5. (StartedIsCurrent /\ CurrentIsMember)'
  BY <1>1 DEF SInv, StartedIsCurrent, CurrentIsMember, Group
<1> QED
  BY <1>3, <1>4, <1>5 DEF SInv

\* The accept loop counts the connection.
LEMMA CountSInv ==
    ASSUME SInv, NEW l \in Listener, Count(l)
    PROVE  SInv'
<1> DEFINE s == admitting[l]
<1>1. s \in Session /\ phase[s] = "admitted"
  BY DEF Count, SInv, GroupTypes, CountedOnce
<1>2. /\ UNCHANGED <<active, members, current, callback>>
      /\ phase' = [phase EXCEPT ![s] = "accepted"]
      /\ admitting' = [admitting EXCEPT ![l] = NoSession]
  BY DEF Count, groupVars
<1>3. GroupTypes'
  BY <1>1, <1>2 DEF SInv, GroupTypes, Phase
<1>4. CountedOnce'
  BY <1>1, <1>2, RedundancyAssumption DEF SInv, GroupTypes, CountedOnce
<1>5. (OneGroup /\ MembersRun /\ NotYetActive /\ StoppedStays)'
  BY <1>1, <1>2
     DEF SInv, GroupTypes, Phase, OneGroup, MembersRun, NotYetActive, StoppedStays
<1>6. (StartedIsCurrent /\ CurrentIsMember)'
  BY <1>2 DEF SInv, StartedIsCurrent, CurrentIsMember
<1> QED
  BY <1>3, <1>4, <1>5, <1>6 DEF SInv

\* A session enters one group, stopped.
LEMMA RunSessionInv ==
    ASSUME SInv, NEW s \in Session, RunSession(s)
    PROVE  SInv'
<1>1. PICK g \in Admit(s) : Join(s, g)
  BY DEF RunSession
<1>2. g \in Group
  BY AdmitGroups
<1>3. /\ phase[s] = "accepted" /\ phase' = [phase EXCEPT ![s] = "live"]
      /\ UNCHANGED <<callback, admitting, active, current>>
      /\ members' = [members EXCEPT ![g] = @ \cup {s}]
  BY <1>1 DEF RunSession, acceptVars, Join
<1>4. /\ ~active[s]
      /\ \A h \in Group : s \notin members[h]
  BY <1>3 DEF SInv, NotYetActive, MembersRun
<1>5. (GroupTypes /\ CountedOnce)'
  BY <1>2, <1>3 DEF SInv, GroupTypes, Phase, CountedOnce
<1>6. \A h \in Group : members'[h] = IF h = g THEN members[h] \cup {s} ELSE members[h]
  BY <1>2, <1>3 DEF SInv, GroupTypes
<1>7. OneGroup'
  BY <1>2, <1>4, <1>6 DEF SInv, OneGroup
<1>8. (MembersRun /\ NotYetActive /\ StoppedStays)'
  BY <1>3, <1>4, <1>6 DEF SInv, GroupTypes, MembersRun, NotYetActive, StoppedStays
<1>9. (StartedIsCurrent /\ CurrentIsMember)'
  BY <1>3, <1>4, <1>6 DEF SInv, StartedIsCurrent, CurrentIsMember
<1> QED
  BY <1>5, <1>7, <1>8, <1>9 DEF SInv

\* What only moves the phase of a session that is in no group, or of one that
\* stays in its group, and stops it at most.
LEMMA PhaseInv ==
    ASSUME SInv, NEW s \in Session, NEW p \in Phase, NEW cb \in {"none", callback[s]},
           NEW a \in BOOLEAN,
           phase' = [phase EXCEPT ![s] = p],
           callback' = [callback EXCEPT ![s] = cb],
           active' = [active EXCEPT ![s] = a],
           UNCHANGED <<members, current, admitting>>,
           a => active[s] /\ (cb = callback[s] \/ callback[s] # "activated"),
           phase[s] # "admitted",
           p \in {"closing", "ended", "stuck"} \/ (p = "done" /\ phase[s] = "accepted")
    PROVE  SInv'
<1>1. (GroupTypes /\ CountedOnce)'
  BY DEF SInv, GroupTypes, Phase, CountedOnce
<1>2. (OneGroup /\ NotYetActive /\ StoppedStays)'
  BY DEF SInv, GroupTypes, Phase, OneGroup, NotYetActive, StoppedStays
<1>3. MembersRun'
  BY DEF SInv, GroupTypes, MembersRun
<1>4. (StartedIsCurrent /\ CurrentIsMember)'
  BY DEF SInv, GroupTypes, StartedIsCurrent, CurrentIsMember
<1> QED
  BY <1>1, <1>2, <1>3, <1>4 DEF SInv

\* The handshake fails, or the driver leaves its loop.
LEMMA EndingInv ==
    ASSUME SInv, NEW s \in Session,
           HandshakeFails(s) \/ Disconnect(s) \/ SetInactive(s) \/ JoinReader(s)
    PROVE  SInv'
<1>1. /\ active = [active EXCEPT ![s] = active[s]] /\ active[s] \in BOOLEAN
      /\ callback = [callback EXCEPT ![s] = callback[s]]
  BY DEF SInv, GroupTypes
<1>2. CASE HandshakeFails(s)
  <2>1. ~active[s]
    BY <1>2 DEF HandshakeFails, SInv, NotYetActive
  <2> QED
    BY <1>1, <1>2, <2>1, PhaseInv DEF HandshakeFails, groupVars, Phase
<1>3. CASE Disconnect(s)
  BY <1>1, <1>3, PhaseInv DEF Disconnect, acceptVars, Phase
<1>4. CASE SetInactive(s)
  BY <1>1, <1>4, PhaseInv DEF SetInactive, acceptVars, Phase
<1>5. CASE JoinReader(s)
  BY <1>1, <1>5, PhaseInv DEF JoinReader, groupVars, sessionVars, acceptVars, Phase
<1> QED
  BY <1>2, <1>3, <1>4, <1>5

\* The session's group forgets it.
LEMMA DepartInv ==
    ASSUME SInv, NEW s \in Session, Depart(s)
    PROVE  SInv'
<1>1. /\ phase[s] = "ended" /\ phase' = [phase EXCEPT ![s] = "done"]
      /\ UNCHANGED <<active, callback, admitting>>
      /\ members' = [g \in Group |-> members[g] \ {s}]
      /\ current' = Without(s)
  BY DEF Depart, Leave
<1>2. (GroupTypes /\ CountedOnce)'
  BY <1>1 DEF SInv, GroupTypes, Phase, CountedOnce, Without
<1>3. (OneGroup /\ NotYetActive /\ StoppedStays)'
  BY <1>1 DEF SInv, GroupTypes, OneGroup, NotYetActive, StoppedStays
<1>4. MembersRun'
  BY <1>1 DEF SInv, GroupTypes, MembersRun
<1>5. (StartedIsCurrent /\ CurrentIsMember)'
  BY <1>1, RedundancyAssumption
     DEF SInv, GroupTypes, StartedIsCurrent, CurrentIsMember, Without
<1> QED
  BY <1>2, <1>3, <1>4, <1>5 DEF SInv

\* STARTDT act and STOPDT act are handled; their callbacks are still to run.
LEMMA RecvInv ==
    ASSUME SInv, NEW s \in Session, RecvStartDt(s) \/ RecvStopDt(s)
    PROVE  SInv'
<1>1. /\ phase[s] = "live" /\ UNCHANGED <<phase, members, current, admitting>>
      /\ \/ /\ active' = [active EXCEPT ![s] = TRUE]
            /\ callback' = [callback EXCEPT ![s] = "activated"]
         \/ /\ active' = [active EXCEPT ![s] = FALSE]
            /\ callback' = [callback EXCEPT ![s] = "deactivated"]
  BY DEF RecvStartDt, RecvStopDt, Waiting, acceptVars
<1>2. (GroupTypes /\ CountedOnce)'
  BY <1>1 DEF SInv, GroupTypes, CountedOnce
<1>3. (OneGroup /\ MembersRun /\ NotYetActive /\ StoppedStays)'
  BY <1>1 DEF SInv, GroupTypes, OneGroup, MembersRun, NotYetActive, StoppedStays
<1>4. (StartedIsCurrent /\ CurrentIsMember)'
  BY <1>1 DEF SInv, GroupTypes, StartedIsCurrent, CurrentIsMember
<1> QED
  BY <1>2, <1>3, <1>4 DEF SInv

\* The callback of STARTDT: every other member of the group is demoted.
LEMMA OnActivatedInv ==
    ASSUME SInv, NEW s \in Session, OnActivated(s)
    PROVE  SInv'
<1>1. /\ UNCHANGED <<phase, members, admitting>>
      /\ callback' = [callback EXCEPT ![s] = "none"]
      /\ \/ (\A g \in Group : s \notin members[g]) /\ UNCHANGED <<active, current>>
         \/ \E g \in Group : s \in members[g] /\ ActivatedIn(s, g)
  BY DEF OnActivated, Activated, ActivatedIn, groupVars, acceptVars
<1>2. CASE (\A g \in Group : s \notin members[g]) /\ UNCHANGED <<active, current>>
  BY <1>1, <1>2
     DEF SInv, GroupTypes, CountedOnce, OneGroup, MembersRun, NotYetActive, StoppedStays,
         StartedIsCurrent, CurrentIsMember
<1>3. ASSUME NEW g \in Group, s \in members[g], ActivatedIn(s, g)
      PROVE  SInv'
  <2>1. /\ active' = [x \in Session |-> active[x] /\ x \notin members[g] \ {s}]
        /\ current' = [current EXCEPT ![g] = s]
    BY <1>3 DEF ActivatedIn
  <2>2. \A x \in Session : active'[x] => active[x] /\ (x \in members[g] => x = s)
    BY <2>1
  <2>3. (GroupTypes /\ CountedOnce)'
    BY <1>1, <2>1 DEF SInv, GroupTypes, CountedOnce
  <2>4. (OneGroup /\ MembersRun /\ NotYetActive /\ StoppedStays)'
    BY <1>1, <2>2 DEF SInv, GroupTypes, OneGroup, MembersRun, NotYetActive, StoppedStays
  <2>5. StartedIsCurrent'
    BY <1>1, <1>3, <2>1, <2>2 DEF SInv, GroupTypes, OneGroup, StartedIsCurrent
  <2>6. CurrentIsMember'
    BY <1>1, <1>3, <2>1 DEF SInv, GroupTypes, CurrentIsMember
  <2> QED
    BY <2>3, <2>4, <2>5, <2>6 DEF SInv
<1> QED
  BY <1>1, <1>2, <1>3

\* The callback of STOPDT.
LEMMA OnDeactivatedInv ==
    ASSUME SInv, NEW s \in Session, OnDeactivated(s)
    PROVE  SInv'
<1>1. /\ callback[s] = "deactivated" /\ callback' = [callback EXCEPT ![s] = "none"]
      /\ current' = Without(s)
      /\ UNCHANGED <<active, phase, members, admitting>>
  BY DEF OnDeactivated, Deactivated, acceptVars
<1>2. ~active[s]
  BY <1>1 DEF SInv, StoppedStays
<1>3. (GroupTypes /\ CountedOnce)'
  BY <1>1 DEF SInv, GroupTypes, CountedOnce, Without
<1>4. (OneGroup /\ MembersRun /\ NotYetActive /\ StoppedStays)'
  BY <1>1 DEF SInv, GroupTypes, OneGroup, MembersRun, NotYetActive, StoppedStays
<1>5. (StartedIsCurrent /\ CurrentIsMember)'
  BY <1>1, <1>2, RedundancyAssumption
     DEF SInv, GroupTypes, StartedIsCurrent, CurrentIsMember, Without
<1> QED
  BY <1>3, <1>4, <1>5 DEF SInv

\* A broadcast drops a stopped session from its group, and no other.
LEMMA PublishInv ==
    ASSUME SInv, NEW wait \in BOOLEAN, Publish(wait)
    PROVE  SInv'
<1>1. /\ current' = [g \in Group |-> IF Exists(g) THEN Receiver(g) ELSE current[g]]
      /\ UNCHANGED <<active, members, phase, callback, admitting>>
  BY DEF Publish, Route, sessionVars, acceptVars
<1>2. \A g \in Group :
        \/ current'[g] = current[g]
        \/ current'[g] = NoSession /\ ~(current[g] # NoSession /\ active[current[g]])
  BY <1>1 DEF Receiver
<1>3. (GroupTypes /\ CountedOnce)'
  BY <1>1, <1>2 DEF SInv, GroupTypes, CountedOnce
<1>4. (OneGroup /\ MembersRun /\ NotYetActive /\ StoppedStays)'
  BY <1>1 DEF SInv, OneGroup, MembersRun, NotYetActive, StoppedStays
<1>5. StartedIsCurrent'
  BY <1>1, <1>2, RedundancyAssumption DEF SInv, GroupTypes, StartedIsCurrent
<1>6. CurrentIsMember'
  BY <1>1, <1>2 DEF SInv, CurrentIsMember
<1> QED
  BY <1>3, <1>4, <1>5, <1>6 DEF SInv

\* Every step keeps SInv.
LEMMA NextSInv == SInv /\ [Next]_vars => SInv'
<1> SUFFICES ASSUME SInv, [Next]_vars PROVE SInv'
  OBVIOUS
<1>1. ASSUME NEW l \in Listener,
             Count(l) \/ StopListening(l) \/ \E s \in Session : Accept(l, s)
      PROVE  SInv'
  <2>1. CASE StopListening(l)
    BY <2>1, StutterInv DEF StopListening, groupVars, sessionVars, sVars
  <2> QED
    BY <1>1, <2>1, CountSInv, AcceptSInv
<1>2. ASSUME NEW s \in Session, SessionStep(s)
      PROVE  SInv'
  <2>1. CASE SendAsdu(s)
    BY <2>1, StutterInv DEF SendAsdu, acceptVars, sVars
  <2>2. CASE Iterate(s)
    BY <2>2, StutterInv DEF Iterate, acceptVars, groupVars, sVars
  <2> QED
    BY <1>2, <2>1, <2>2, RunSessionInv, EndingInv, DepartInv, RecvInv, OnActivatedInv,
       OnDeactivatedInv DEF SessionStep
<1>3. ASSUME NEW s \in Session, Retry(s) \/ GiveUp(s)
      PROVE  SInv'
  BY <1>3, StutterInv DEF Retry, GiveUp, Resolve, sessionVars, acceptVars, sVars
<1>4. CASE Close
  BY <1>4, StutterInv DEF Close, groupVars, sessionVars, sVars
<1>5. CASE UNCHANGED vars
  BY <1>5, StutterInv DEF vars, groupVars, sessionVars, acceptVars, sVars
<1> QED
  BY <1>1, <1>2, <1>3, <1>4, <1>5, PublishInv DEF Next

\* SInv is an invariant of the server.
THEOREM ServerInvariance == Spec => []SInv
<1> QED
  BY InitSInv, NextSInv, PTL DEF Spec

\* A member in data transfer is the one its group sends to, or is about to become it
\* (Groups::activated, Groups::deactivated), and a group never keeps a session that
\* left it (Groups::leave).
THEOREM CurrentCorrect == Spec => []CurrentIsRight
<1>1. SInv => CurrentIsRight
  BY DEF SInv, CurrentIsRight
<1> QED
  BY <1>1, ServerInvariance, PTL

-----------------------------------------------------------------------------
(***************************************************************************)
(* The limit of connections, where one accept loop runs.                   *)
(***************************************************************************)
OneListener == \A l, m \in Listener : l = m

\* The counter is the number of open connections, and the loop that is about to
\* count one still has room for it.
LimitInv ==
    /\ IsFiniteSet(Open) /\ open = Cardinality(Open)
    /\ open <= MaxConnections
    /\ \A l \in Listener : admitting[l] # NoSession => open < MaxConnections

\* LimitInv holds initially.
LEMMA InitLimit == Init => LimitInv
<1> SUFFICES ASSUME Init PROVE LimitInv
  OBVIOUS
<1>1. Open = {}
  BY DEF Init, Open
<1>2. IsFiniteSet(Open) /\ Cardinality(Open) = 0
  BY <1>1, FS_EmptySet
<1> QED
  BY <1>2, ServerAssumption DEF Init, LimitInv

\* A step that opens and closes nothing keeps it, unless it admits a connection.
LEMMA SameOpen ==
    ASSUME LimitInv, Open' = Open, open' = open,
           \A l \in Listener : admitting'[l] # NoSession =>
               admitting[l] # NoSession \/ open < MaxConnections
    PROVE  LimitInv'
BY DEF LimitInv

\* A connection is counted.
LEMMA OneMore ==
    ASSUME SInv, LimitInv, OneListener, NEW l \in Listener, Count(l)
    PROVE  LimitInv'
<1> DEFINE s == admitting[l]
<1>1. s \in Session /\ phase[s] = "admitted" /\ open < MaxConnections
  BY DEF Count, SInv, GroupTypes, CountedOnce, LimitInv
<1>2. /\ phase' = [phase EXCEPT ![s] = "accepted"] /\ open' = open + 1
      /\ admitting' = [admitting EXCEPT ![l] = NoSession]
  BY DEF Count
<1>3. Open' = Open \cup {s} /\ s \notin Open
  BY <1>1, <1>2 DEF Open, SInv, GroupTypes
<1>4. IsFiniteSet(Open') /\ Cardinality(Open') = Cardinality(Open) + 1
  BY <1>3, FS_AddElement DEF LimitInv
<1>5. \A m \in Listener : admitting'[m] = NoSession
  BY <1>2 DEF OneListener, SInv, GroupTypes
<1> QED
  BY <1>1, <1>2, <1>4, <1>5, FS_CardinalityType, ServerAssumption DEF LimitInv

\* A connection ends.
LEMMA OneLess ==
    ASSUME SInv, LimitInv, NEW s \in Session, HandshakeFails(s) \/ Depart(s)
    PROVE  LimitInv'
<1>1. /\ s \in Open /\ phase' = [phase EXCEPT ![s] = "done"]
      /\ open' = open - 1 /\ UNCHANGED admitting
  BY DEF HandshakeFails, Depart, Open
<1>2. Open' = Open \ {s}
  BY <1>1 DEF Open, SInv, GroupTypes
<1>3. IsFiniteSet(Open') /\ Cardinality(Open') = Cardinality(Open) - 1
  BY <1>1, <1>2, FS_RemoveElement DEF LimitInv
<1> QED
  BY <1>1, <1>3, FS_CardinalityType, ServerAssumption DEF LimitInv

\* Every step keeps LimitInv.
LEMMA NextLimit == OneListener /\ SInv /\ LimitInv /\ [Next]_vars => LimitInv'
<1> SUFFICES ASSUME OneListener, SInv, LimitInv, [Next]_vars PROVE LimitInv'
  OBVIOUS
<1>1. ASSUME NEW l \in Listener, NEW s \in Session, Accept(l, s)
      PROVE  LimitInv'
  <2>1. open' = open /\ phase[s] = "free"
    BY <1>1 DEF Accept
  <2>2. /\ phase' = [phase EXCEPT ![s] = "done"] \/ phase' = [phase EXCEPT ![s] = "admitted"]
        /\ UNCHANGED admitting \/ open < MaxConnections
    BY <1>1, FS_CardinalityType, ServerAssumption DEF Accept, Refused, LimitInv
  <2>3. Open' = Open
    BY <2>1, <2>2 DEF Open, SInv, GroupTypes
  <2> QED
    BY <2>1, <2>2, <2>3, SameOpen
<1>2. CASE Close \/ \E l \in Listener : StopListening(l)
  BY <1>2, SameOpen DEF StopListening, Close, sessionVars, Open
<1>3. ASSUME NEW s \in Session,
             RunSession(s) \/ Disconnect(s) \/ SetInactive(s) \/ JoinReader(s)
      PROVE  LimitInv'
  <2>1. /\ UNCHANGED <<open, admitting>>
        /\ phase[s] \in {"accepted", "live", "closing", "ended"}
        /\ \E p \in {"live", "closing", "ended", "stuck"} :
              phase' = [phase EXCEPT ![s] = p]
    BY <1>3 DEF RunSession, Disconnect, SetInactive, JoinReader, acceptVars
  <2>2. Open' = Open
    BY <2>1 DEF Open, SInv, GroupTypes
  <2> QED
    BY <2>1, <2>2, SameOpen
<1>4. ASSUME NEW s \in Session,
             RecvStartDt(s) \/ RecvStopDt(s) \/ OnActivated(s) \/ OnDeactivated(s)
               \/ SendAsdu(s) \/ Iterate(s) \/ Retry(s) \/ GiveUp(s)
      PROVE  LimitInv'
  <2>1. UNCHANGED <<phase, open, admitting>>
    BY <1>4 DEF RecvStartDt, RecvStopDt, OnActivated, OnDeactivated, SendAsdu, Iterate,
                Retry, GiveUp, Resolve, sessionVars, acceptVars
  <2> QED
    BY <2>1, SameOpen DEF Open
<1>5. ASSUME NEW wait \in BOOLEAN, Publish(wait)
      PROVE  LimitInv'
  BY <1>5, SameOpen DEF Publish, sessionVars, acceptVars, Open
<1>6. CASE UNCHANGED vars
  BY <1>6, SameOpen DEF vars, sessionVars, acceptVars, Open
<1> QED
  BY <1>1, <1>2, <1>3, <1>4, <1>5, <1>6, OneMore, OneLess DEF Next, SessionStep

\* With one accept loop, never more connections than the limit are open, however
\* handshakes fail and sessions end meanwhile (Server::serve counts on accept).
THEOREM LimitCorrect == OneListener => (Spec => []LimitRespected)
<1> SUFFICES ASSUME OneListener PROVE Spec => []LimitRespected
  OBVIOUS
<1>1. LimitInv => LimitRespected
  BY DEF LimitInv, LimitRespected
<1>2. Init => SInv /\ LimitInv
  BY InitSInv, InitLimit
<1>3. SInv /\ LimitInv /\ [Next]_vars => (SInv /\ LimitInv)'
  BY NextSInv, NextLimit
<1> QED
  BY <1>1, <1>2, <1>3, PTL DEF Spec

-----------------------------------------------------------------------------
(***************************************************************************)
(* The order in which broadcasts reach the sessions.                       *)
(***************************************************************************)

\* Every element of p is below every element of q, or below n.
Before(p, q) == \A i \in 1 .. Len(p), j \in 1 .. Len(q) : p[i] < q[j]
Below(p, n)  == \A i \in 1 .. Len(p) : p[i] < n

\* A sequence in order grows at its end.
LEMMA OrderedAppend ==
    ASSUME NEW q \in Seq(Nat), NEW n \in Nat, Ordered(q), Below(q, n)
    PROVE  /\ Append(q, n) \in Seq(Nat)
           /\ Ordered(Append(q, n))
           /\ \A m \in Nat : n < m => Below(Append(q, n), m)
<1> DEFINE t == Append(q, n)
<1>1. /\ t \in Seq(Nat) /\ Len(t) = Len(q) + 1 /\ Len(q) \in Nat
      /\ \A i \in 1 .. Len(t) : /\ i # Len(q) + 1 => i \in 1 .. Len(q) /\ t[i] = q[i]
                                /\ i = Len(q) + 1 => t[i] = n
      /\ \A i \in 1 .. Len(q) : q[i] \in Nat
  OBVIOUS
<1> HIDE DEF t
<1>2. Ordered(t)
  <2> SUFFICES ASSUME NEW i \in 1 .. Len(t), NEW j \in 1 .. Len(t), i < j
               PROVE  t[i] < t[j]
    BY DEF Ordered
  <2>1. i \in 1 .. Len(q) /\ t[i] = q[i]
    BY <1>1
  <2> QED
    BY <1>1, <2>1 DEF Ordered, Below
<1>3. \A m \in Nat : n < m => Below(t, m)
  <2> SUFFICES ASSUME NEW m \in Nat, n < m, NEW i \in 1 .. Len(t)
               PROVE  t[i] < m
    BY DEF Below
  <2>1. CASE i = Len(q) + 1
    BY <1>1, <2>1
  <2>2. CASE i # Len(q) + 1
    <3>1. i \in 1 .. Len(q) /\ t[i] = q[i] /\ q[i] \in Nat /\ q[i] < n
      BY <1>1, <2>2 DEF Below
    <3> QED
      BY <3>1
  <2> QED
    BY <2>1, <2>2
<1> QED
  BY <1>1, <1>2, <1>3 DEF t

\* A sequence that is before another is before what it becomes with a number at its
\* end that the first is below.
LEMMA BeforeAppend ==
    ASSUME NEW p, NEW q \in Seq(Nat), NEW n \in Nat, Before(p, q), Below(p, n)
    PROVE  Before(p, Append(q, n))
<1> SUFFICES ASSUME NEW i \in 1 .. Len(p), NEW j \in 1 .. Len(Append(q, n))
             PROVE  p[i] < Append(q, n)[j]
  BY DEF Before
<1>1. /\ Len(Append(q, n)) = Len(q) + 1 /\ Len(q) \in Nat
      /\ j # Len(q) + 1 => j \in 1 .. Len(q) /\ Append(q, n)[j] = q[j]
      /\ j = Len(q) + 1 => Append(q, n)[j] = n
  OBVIOUS
<1> QED
  BY <1>1 DEF Before, Below

\* Two sequences in order, the first before the second.
LEMMA OrderedJoin ==
    ASSUME NEW p \in Seq(Nat), NEW q \in Seq(Nat), Ordered(p), Ordered(q), Before(p, q)
    PROVE  /\ p \o q \in Seq(Nat)
           /\ Ordered(p \o q)
           /\ \A m \in Nat : Below(p, m) /\ Below(q, m) => Below(p \o q, m)
<1> DEFINE t == p \o q
           n == Len(p)
<1>1. /\ t \in Seq(Nat) /\ n \in Nat /\ Len(q) \in Nat /\ Len(t) = n + Len(q)
      /\ \A i \in 1 .. Len(t) : /\ i \in 1 .. n => t[i] = p[i]
                                /\ i \notin 1 .. n => i - n \in 1 .. Len(q) /\ t[i] = q[i - n]
  OBVIOUS
<1> HIDE DEF t, n
<1>2. Ordered(t)
  <2> SUFFICES ASSUME NEW i \in 1 .. Len(t), NEW j \in 1 .. Len(t), i < j
               PROVE  t[i] < t[j]
    BY DEF Ordered
  <2>1. CASE j \in 1 .. n
    <3>1. i \in 1 .. n
      BY <1>1, <2>1
    <3> QED
      BY <1>1, <2>1, <3>1 DEF Ordered, n
  <2>2. CASE i \in 1 .. n /\ j \notin 1 .. n
    BY <1>1, <2>2 DEF Before, n
  <2>3. CASE i \notin 1 .. n
    <3>1. j \notin 1 .. n /\ i - n < j - n
      BY <1>1, <2>3
    <3> QED
      BY <1>1, <2>3, <3>1 DEF Ordered
  <2> QED
    BY <2>1, <2>2, <2>3
<1>3. \A m \in Nat : Below(p, m) /\ Below(q, m) => Below(t, m)
  BY <1>1 DEF Below, n
<1> QED
  BY <1>1, <1>2, <1>3 DEF t

\* Where the elements of a concatenation are.
LEMMA ConcatAt ==
    ASSUME NEW p \in Seq(Nat), NEW q \in Seq(Nat)
    PROVE  /\ p \o q \in Seq(Nat) /\ Len(p \o q) = Len(p) + Len(q)
           /\ \A i \in 1 .. Len(p) + Len(q) :
                (p \o q)[i] = IF i <= Len(p) THEN p[i] ELSE q[i - Len(p)]
OBVIOUS

\* Three sequences are joined in one way.
LEMMA ConcatNat ==
    ASSUME NEW p \in Seq(Nat), NEW q \in Seq(Nat), NEW r \in Seq(Nat)
    PROVE  (p \o q) \o r = p \o (q \o r)
BY ConcatAssociative, SMTT(30)

\* What is appended to the second of two sequences is appended to the whole.
LEMMA AppendSecond ==
    ASSUME NEW p \in Seq(Nat), NEW q \in Seq(Nat), NEW n \in Nat
    PROVE  /\ Append(q, n) \in Seq(Nat)
           /\ p \o Append(q, n) = Append(p \o q, n)
<1>1. <<n>> \in Seq(Nat) /\ p \o q \in Seq(Nat)
  OBVIOUS
<1>2. Append(q, n) = q \o <<n>> /\ Append(p \o q, n) = (p \o q) \o <<n>>
  BY <1>1, AppendIsConcat
<1>3. (p \o q) \o <<n>> = p \o (q \o <<n>>)
  BY <1>1, ConcatNat
<1> QED
  BY <1>1, <1>2, <1>3, AppendProperties

\* An element moves from the head of one sequence to the end of the one before it.
LEMMA HeadMoves ==
    ASSUME NEW p \in Seq(Nat), NEW q \in Seq(Nat), q # <<>>
    PROVE  /\ Append(p, Head(q)) \in Seq(Nat) /\ Tail(q) \in Seq(Nat)
           /\ Append(p, Head(q)) \o Tail(q) = p \o q
<1> DEFINE r == Append(p, Head(q))
<1>1. /\ Head(q) \in Nat /\ Tail(q) \in Seq(Nat) /\ Len(Tail(q)) = Len(q) - 1
      /\ Head(q) = q[1] /\ \A i \in 1 .. Len(q) - 1 : Tail(q)[i] = q[i + 1]
      /\ Len(p) \in Nat /\ Len(q) \in Nat \ {0}
  OBVIOUS
<1>2. /\ r \in Seq(Nat) /\ Len(r) = Len(p) + 1
      /\ \A i \in 1 .. Len(p) : r[i] = p[i]
      /\ r[Len(p) + 1] = Head(q)
  BY <1>1, AppendProperties
<1> HIDE DEF r
<1>3. /\ r \o Tail(q) \in Seq(Nat) /\ Len(r \o Tail(q)) = Len(p) + Len(q)
      /\ \A i \in 1 .. Len(p) + Len(q) :
           (r \o Tail(q))[i] = IF i <= Len(r) THEN r[i] ELSE Tail(q)[i - Len(r)]
  <2> DEFINE u == Tail(q)
  <2>1. u \in Seq(Nat) /\ Len(u) = Len(q) - 1
    BY <1>1
  <2> HIDE DEF u
  <2>2. /\ r \o u \in Seq(Nat) /\ Len(r \o u) = Len(r) + Len(u)
        /\ \A i \in 1 .. Len(r) + Len(u) :
             (r \o u)[i] = IF i <= Len(r) THEN r[i] ELSE u[i - Len(r)]
    BY <1>2, <2>1, ConcatAt
  <2>3. Len(r) + Len(u) = Len(p) + Len(q)
    BY <1>1, <1>2, <2>1
  <2> QED
    BY <2>2, <2>3 DEF u
<1>4. /\ p \o q \in Seq(Nat) /\ Len(p \o q) = Len(p) + Len(q)
      /\ \A i \in 1 .. Len(p) + Len(q) :
           (p \o q)[i] = IF i <= Len(p) THEN p[i] ELSE q[i - Len(p)]
  BY ConcatAt
<1>5. ASSUME NEW i \in 1 .. Len(p) + Len(q)
      PROVE  (r \o Tail(q))[i] = (p \o q)[i]
  <2>1. CASE i \in 1 .. Len(p)
    BY <1>1, <1>2, <1>3, <1>4, <2>1
  <2>2. CASE i = Len(p) + 1
    <3>1. (r \o Tail(q))[i] = q[1]
      BY <1>1, <1>2, <1>3, <2>2
    <3>2. (p \o q)[i] = q[i - Len(p)] /\ i - Len(p) = 1
      BY <1>1, <1>4, <2>2
    <3> QED
      BY <3>1, <3>2
  <2>3. CASE i > Len(p) + 1
    <3>1. (r \o Tail(q))[i] = Tail(q)[i - Len(r)] /\ i - Len(r) \in 1 .. Len(q) - 1
      BY <1>1, <1>2, <1>3, <2>3
    <3>2. (p \o q)[i] = q[i - Len(p)] /\ i - Len(p) = (i - Len(r)) + 1
      BY <1>1, <1>2, <1>4, <2>3
    <3> QED
      BY <1>1, <3>1, <3>2
  <2>4. i \in 1 .. Len(p) \/ i = Len(p) + 1 \/ i > Len(p) + 1
    BY <1>1
  <2> QED
    BY <2>1, <2>2, <2>3, <2>4
<1>6. r \o Tail(q) = p \o q
  BY <1>3, <1>4, <1>5, SeqEqual
<1> QED
  BY <1>1, <1>2, <1>6 DEF r

\* What the argument needs of the types and sizes.
OrderTypes ==
    /\ asduQ \in [Session -> Seq(Nat)]
    /\ \A s \in Session : Len(asduQ[s]) <= QueueCap
    /\ sent \in [Session -> Seq(Nat)]
    /\ buffer \in [Group -> Seq(Nat)]
    /\ published \in Nat

\* A session is a member of the group it was admitted to.
Admitted == \A g \in Group : \A s \in members[g] : g \in Admit(s)

\* The buffer of a group is in order, and empty while a member is sent broadcasts.
GroupInOrder(g) ==
    /\ Ordered(buffer[g]) /\ Below(buffer[g], published + 1)
    /\ current[g] # NoSession => buffer[g] = <<>>

\* What a session was sent is in order, and older than what its group has buffered;
\* a retry is for the newest broadcast, with nothing buffered meanwhile.
StreamInOrder(s) ==
    /\ Ordered(Stream(s)) /\ Below(Stream(s), published + 1)
    /\ \A g \in Admit(s) : Before(Stream(s), buffer[g])
    /\ s \in retrying => /\ Below(Stream(s), published)
                         /\ \A g \in Admit(s) : buffer[g] = <<>>

OrderInv ==
    /\ OrderTypes
    /\ Admitted
    /\ \A g \in Group : g \notin short => GroupInOrder(g)
    /\ \A s \in Session : Admit(s) \cap short = {} => StreamInOrder(s)

\* A master is admitted to one group at most.
LEMMA AdmitOne ==
    ASSUME NEW s \in Session, NEW g \in Admit(s), NEW h \in Admit(s)
    PROVE  g = h
BY RedundancyAssumption DEF Admit, First, Naming, CatchAll

\* OrderInv holds initially.
LEMMA InitOrder == Init => OrderInv
<1> SUFFICES ASSUME Init PROVE OrderInv
  OBVIOUS
<1>1. OrderTypes /\ Admitted
  BY RedundancyAssumption DEF Init, GroupsInit, OrderTypes, Admitted
<1>2. \A s \in Session : Stream(s) = <<>>
  BY DEF Init, GroupsInit, Stream
<1>3. \A s \in Session : \A g \in Admit(s) : buffer[g] = <<>>
  BY AdmitGroups DEF Init, GroupsInit
<1>4. \A s \in Session : StreamInOrder(s)
  BY <1>2, <1>3 DEF StreamInOrder, Ordered, Below, Before
<1>5. \A g \in Group : GroupInOrder(g)
  BY DEF Init, GroupsInit, GroupInOrder, Ordered, Below
<1> QED
  BY <1>1, <1>4, <1>5 DEF OrderInv

\* What a session was sent, and what is on its way to it, is a sequence of numbers.
LEMMA StreamType == OrderTypes => \A s \in Session : Stream(s) \in Seq(Nat)
BY DEF OrderTypes, Stream

\* A step that adds nothing to a stream or a buffer, and makes no member the one
\* that is sent broadcasts, keeps OrderInv.
LEMMA NothingAdded ==
    ASSUME OrderInv, OrderTypes', Admitted',
           \A s \in Session : Stream(s)' = Stream(s),
           \A g \in Group : buffer'[g] = buffer[g] \/ buffer'[g] = <<>>,
           \A g \in Group : current'[g] = current[g] \/ current'[g] = NoSession,
           published' = published, retrying' \subseteq retrying, short \subseteq short'
    PROVE  OrderInv'
<1>1. ASSUME NEW g \in Group, g \notin short'
      PROVE  GroupInOrder(g)'
  <2>1. GroupInOrder(g)
    BY <1>1 DEF OrderInv
  <2>2. CASE buffer'[g] = <<>>
    BY <2>2 DEF GroupInOrder, Ordered, Below
  <2>3. CASE buffer'[g] = buffer[g]
    BY <2>1, <2>3 DEF GroupInOrder, Ordered, Below
  <2> QED
    BY <2>2, <2>3
<1>2. ASSUME NEW s \in Session, Admit(s) \cap short' = {}
      PROVE  StreamInOrder(s)'
  <2>1. StreamInOrder(s)
    BY <1>2 DEF OrderInv
  <2>2. Ordered(Stream(s))' /\ Below(Stream(s), published + 1)'
    BY <2>1 DEF StreamInOrder, Ordered, Below
  <2>3. \A g \in Admit(s) : Before(Stream(s), buffer[g])'
    <3> SUFFICES ASSUME NEW g \in Admit(s) PROVE Before(Stream(s), buffer[g])'
      OBVIOUS
    <3>1. g \in Group /\ Before(Stream(s), buffer[g])
      BY <2>1, AdmitGroups DEF StreamInOrder
    <3>2. CASE buffer'[g] = <<>>
      BY <3>2 DEF Before
    <3>3. CASE buffer'[g] = buffer[g]
      BY <3>1, <3>3 DEF Before
    <3> QED
      BY <3>1, <3>2, <3>3
  <2>4. ASSUME s \in retrying'
        PROVE  Below(Stream(s), published)' /\ \A g \in Admit(s) : buffer'[g] = <<>>
    <3>1. Below(Stream(s), published) /\ \A g \in Admit(s) : buffer[g] = <<>>
      BY <2>1, <2>4 DEF StreamInOrder
    <3> QED
      BY <3>1, AdmitGroups DEF Below
  <2> QED
    BY <2>2, <2>3, <2>4 DEF StreamInOrder
<1> QED
  BY <1>1, <1>2 DEF OrderInv

\* A driver takes the oldest ASDU of its queue and sends it.
LEMMA SendOrder ==
    ASSUME OrderInv, NEW s \in Session, SendAsdu(s)
    PROVE  OrderInv'
<1>1. /\ asduQ[s] # <<>> /\ asduQ' = [asduQ EXCEPT ![s] = Tail(@)]
      /\ sent' = [sent EXCEPT ![s] = Append(@, Head(asduQ[s]))]
      /\ UNCHANGED <<members, current, buffer, published, retrying, short>>
  BY DEF SendAsdu, pubVars
<1>2. asduQ[s] \in Seq(Nat) /\ sent[s] \in Seq(Nat)
  BY DEF OrderInv, OrderTypes
<1>3. /\ Append(sent[s], Head(asduQ[s])) \in Seq(Nat) /\ Tail(asduQ[s]) \in Seq(Nat)
      /\ Append(sent[s], Head(asduQ[s])) \o Tail(asduQ[s]) = sent[s] \o asduQ[s]
  BY <1>1, <1>2, HeadMoves
<1>4. OrderTypes' /\ Admitted'
  <2>1. Len(Tail(asduQ[s])) <= Len(asduQ[s]) /\ Len(Tail(asduQ[s])) \in Nat /\ Len(asduQ[s]) \in Nat
    BY <1>1, <1>2
  <2>2. Len(Tail(asduQ[s])) <= QueueCap
    BY <2>1, RedundancyAssumption DEF OrderInv, OrderTypes
  <2> QED
    BY <1>1, <1>3, <2>2 DEF OrderInv, OrderTypes, Admitted
<1>5. \A x \in Session : Stream(x)' = Stream(x)
  BY <1>1, <1>3 DEF OrderInv, OrderTypes, Stream
<1> QED
  BY <1>1, <1>4, <1>5, NothingAdded

\* A session joins the group it was admitted to.
LEMMA JoinOrder ==
    ASSUME OrderInv, NEW s \in Session, RunSession(s)
    PROVE  OrderInv'
<1>1. PICK g \in Admit(s) : Join(s, g)
  BY DEF RunSession
<1>2. /\ members' = [members EXCEPT ![g] = @ \cup {s}]
      /\ UNCHANGED <<asduQ, sent, current, buffer, published, retrying, short>>
  BY <1>1 DEF RunSession, pubVars, Join
<1>3. OrderTypes' /\ Admitted'
  BY <1>2 DEF OrderInv, OrderTypes, Admitted
<1> QED
  BY <1>2, <1>3, NothingAdded DEF Stream

\* A session leaves its group.
LEMMA DepartOrder ==
    ASSUME OrderInv, NEW s \in Session, Depart(s)
    PROVE  OrderInv'
<1>1. /\ members' = [g \in Group |-> members[g] \ {s}]
      /\ current' = Without(s)
      /\ buffer'  = [g \in Group |-> IF Mode = "Connection" /\ members[g] = {s}
                                       THEN <<>> ELSE buffer[g]]
      /\ UNCHANGED <<asduQ, sent, published, retrying, short>>
  BY DEF Depart, Leave, pubVars
<1>2. OrderTypes' /\ Admitted'
  BY <1>1 DEF OrderInv, OrderTypes, Admitted
<1> QED
  BY <1>1, <1>2, NothingAdded DEF Stream, Without

\* The callback of STOPDT.
LEMMA DeactivatedOrder ==
    ASSUME OrderInv, NEW s \in Session, OnDeactivated(s)
    PROVE  OrderInv'
<1>1. /\ current' = Without(s)
      /\ UNCHANGED <<members, buffer, asduQ, sent, published, retrying, short>>
  BY DEF OnDeactivated, Deactivated, pubVars
<1>2. OrderTypes' /\ Admitted'
  BY <1>1 DEF OrderInv, OrderTypes, Admitted
<1> QED
  BY <1>1, <1>2, NothingAdded DEF Stream, Without

\* A retry is given up.
LEMMA GiveUpOrder ==
    ASSUME OrderInv, NEW s \in Session, GiveUp(s)
    PROVE  OrderInv'
<1>1. /\ retrying' = retrying \ {s}
      /\ UNCHANGED <<members, current, buffer, asduQ, sent, published, short>>
  BY DEF GiveUp, Resolve, sessionVars
<1>2. OrderTypes' /\ Admitted'
  BY <1>1 DEF OrderInv, OrderTypes, Admitted
<1> QED
  BY <1>1, <1>2, NothingAdded DEF Stream

\* The other steps leave what OrderInv speaks of alone.
LEMMA SameOrder ==
    ASSUME OrderInv,
           UNCHANGED <<members, current, buffer, asduQ, sent, published, retrying, short>>
    PROVE  OrderInv'
<1>1. OrderTypes' /\ Admitted'
  BY DEF OrderInv, OrderTypes, Admitted
<1> QED
  BY <1>1, NothingAdded DEF Stream

\* A retry succeeds: the newest broadcast, with nothing buffered.
LEMMA RetryOrder ==
    ASSUME OrderInv, NEW s \in Session, Retry(s)
    PROVE  OrderInv'
<1>1. /\ s \in retrying /\ retrying' = retrying \ {s}
      /\ Len(asduQ[s]) < QueueCap
      /\ asduQ' = [asduQ EXCEPT ![s] = Append(@, published)]
      /\ UNCHANGED <<members, current, buffer, sent, published, short>>
  BY DEF Retry, Resolve, Enqueued, sessionVars
<1>2. asduQ[s] \in Seq(Nat) /\ sent[s] \in Seq(Nat) /\ published \in Nat
  BY DEF OrderInv, OrderTypes
<1>3. /\ Append(asduQ[s], published) \in Seq(Nat)
      /\ sent[s] \o Append(asduQ[s], published) = Append(sent[s] \o asduQ[s], published)
  BY <1>2, AppendSecond
<1>4. OrderTypes' /\ Admitted'
  <2>1. Len(Append(asduQ[s], published)) <= QueueCap
    BY <1>1, <1>2, RedundancyAssumption
  <2> QED
    BY <1>1, <1>3, <2>1 DEF OrderInv, OrderTypes, Admitted
<1>5. /\ Stream(s)' = Append(Stream(s), published)
      /\ \A x \in Session : x # s => Stream(x)' = Stream(x)
  BY <1>1, <1>3 DEF OrderInv, OrderTypes, Stream
<1>6. \A g \in Group : g \notin short' => GroupInOrder(g)'
  BY <1>1 DEF OrderInv, GroupInOrder, Ordered, Below
<1>7. ASSUME NEW x \in Session, x # s, Admit(x) \cap short' = {}
      PROVE  StreamInOrder(x)'
  <2>1. StreamInOrder(x) /\ Stream(x)' = Stream(x)
    BY <1>1, <1>5, <1>7 DEF OrderInv
  <2> QED
    BY <1>1, <2>1 DEF StreamInOrder, Ordered, Below, Before
<1>8. ASSUME Admit(s) \cap short' = {}
      PROVE  StreamInOrder(s)'
  <2>1. /\ Ordered(Stream(s)) /\ Below(Stream(s), published)
        /\ \A g \in Admit(s) : buffer[g] = <<>>
    BY <1>1, <1>8 DEF OrderInv, StreamInOrder
  <2>2. Stream(s) \in Seq(Nat)
    BY StreamType DEF OrderInv
  <2>3. Ordered(Stream(s))' /\ Below(Stream(s), published + 1)'
    BY <1>1, <1>2, <1>5, <2>1, <2>2, OrderedAppend
  <2>4. \A g \in Admit(s) : Before(Stream(s), buffer[g])'
    BY <1>1, <2>1 DEF Before
  <2>5. s \notin retrying'
    BY <1>1
  <2> QED
    BY <2>3, <2>4, <2>5 DEF StreamInOrder
<1> QED
  BY <1>4, <1>6, <1>7, <1>8 DEF OrderInv

\* The largest of some numbers that are bounded is one of them.
LEMMA MaxIsMember ==
    ASSUME NEW n \in Nat, NEW S \in SUBSET (0 .. n), S # {}
    PROVE  Max(S) \in S
<1> DEFINE R == OpToRel(<, Nat)
           T == {n - k : k \in S}
<1>1. IsWellFoundedOn(R, Nat)
  BY NatLessThanWellFounded
<1>2. T \subseteq Nat /\ T # {}
  <2>1. \A k \in S : n - k \in Nat
    OBVIOUS
  <2>2. PICK k \in S : TRUE
    OBVIOUS
  <2> QED
    BY <2>1, <2>2
<1>3. PICK x \in T : \A y \in T : <<y, x>> \notin R
  <2> HIDE DEF R, T
  <2> QED
    BY <1>1, <1>2, WFMin
<1>4. \A y \in T : ~(y < x)
  <2>1. \A i, j \in Nat : <<i, j>> \in R <=> i < j
    BY DEF OpToRel
  <2> HIDE DEF R, T
  <2> QED
    BY <1>2, <1>3, <2>1
<1>5. PICK k \in S : x = n - k
  BY <1>3
<1>6. \A j \in S : k >= j
  <2> SUFFICES ASSUME NEW j \in S PROVE k >= j
    OBVIOUS
  <2>1. n - j \in T /\ j \in 0 .. n /\ k \in 0 .. n
    BY <1>5
  <2>2. ~(n - j < n - k)
    BY <1>4, <1>5, <2>1
  <2> QED
    BY <2>1, <2>2
<1> QED
  BY <1>6 DEF Max

\* How much of a buffer the queue of a session takes.
LEMMA ReplayedFits ==
    ASSUME OrderTypes, NEW s \in Session, NEW g \in Group
    PROVE  /\ Replayed(s, g) \in 0 .. Len(buffer[g])
           /\ Len(asduQ[s]) + Replayed(s, g) <= QueueCap
<1> DEFINE m == Len(asduQ[s])
           n == Len(buffer[g])
<1>1. m \in Nat /\ n \in Nat /\ m <= QueueCap /\ QueueCap \in Nat
  BY RedundancyAssumption DEF OrderTypes
<1>2. /\ 0 \in Replayable(s, g) /\ Replayable(s, g) \subseteq 0 .. n
      /\ \A k \in Replayable(s, g) : k <= QueueCap - m
  BY <1>1 DEF Replayable
<1> HIDE DEF m, n
<1>3. Replayed(s, g) \in Replayable(s, g)
  BY <1>1, <1>2, MaxIsMember DEF Replayed
<1>4. Replayed(s, g) \in 0 .. n /\ m + Replayed(s, g) <= QueueCap
  BY <1>1, <1>2, <1>3
<1> QED
  BY <1>4 DEF m, n

\* The callback of STARTDT: the replay adds the whole buffer, which is in order and
\* newer than what the session was sent, or leaves something in it, which `short`
\* remembers.
LEMMA ActivatedOrder ==
    ASSUME OrderInv, NEW s \in Session, OnActivated(s)
    PROVE  OrderInv'
<1>1. UNCHANGED <<sent, published, retrying>> /\ Activated(s)
      /\ short' = short \cup {g \in Group : s \in members[g] /\ buffer'[g] # <<>>}
  BY DEF OnActivated, pubVars
<1>2. CASE ~ \E g \in Group : s \in members[g]
  BY <1>1, <1>2, SameOrder DEF Activated, groupVars
<1>3. ASSUME NEW g \in Group, s \in members[g], ActivatedIn(s, g)
      PROVE  OrderInv'
  <2> DEFINE r == Replayed(s, g)
             p == asduQ[s]
             b == buffer[g]
  <2>1. /\ current' = [current EXCEPT ![g] = s] /\ UNCHANGED members
        /\ asduQ' = [asduQ EXCEPT ![s] = p \o SubSeq(b, 1, r)]
        /\ buffer' = [buffer EXCEPT ![g] = SubSeq(b, r + 1, Len(b))]
    BY <1>3 DEF ActivatedIn
  <2>2. g \in Admit(s)
    BY <1>3 DEF OrderInv, Admitted
  <2>3. /\ p \in Seq(Nat) /\ b \in Seq(Nat) /\ sent[s] \in Seq(Nat)
        /\ Len(p) \in Nat /\ Len(b) \in Nat
    BY DEF OrderInv, OrderTypes
  <2>4. r \in 0 .. Len(b) /\ Len(p) + r <= QueueCap
    BY ReplayedFits DEF OrderInv
  <2> HIDE DEF r
  <2>5. /\ SubSeq(b, 1, r) \in Seq(Nat) /\ Len(SubSeq(b, 1, r)) = r
        /\ SubSeq(b, r + 1, Len(b)) \in Seq(Nat)
        /\ Len(SubSeq(b, r + 1, Len(b))) = Len(b) - r
        /\ r = Len(b) => SubSeq(b, 1, r) = b
    <3> HIDE DEF b
    <3> QED
      BY <2>3, <2>4, SubSeqProperties, SubSeqFull
  <2>6. OrderTypes' /\ Admitted'
    <3>1. p \o SubSeq(b, 1, r) \in Seq(Nat) /\ Len(p \o SubSeq(b, 1, r)) <= QueueCap
      <4> DEFINE q == SubSeq(b, 1, r)
      <4>1. q \in Seq(Nat) /\ Len(q) = r
        BY <2>5
      <4> HIDE DEF p, b, q
      <4>2. p \o q \in Seq(Nat) /\ Len(p \o q) = Len(p) + Len(q)
        BY <2>3, <4>1, ConcatAt
      <4> QED
        BY <2>3, <2>4, <4>1, <4>2 DEF q
    <3> QED
      BY <1>1, <2>1, <2>5, <3>1 DEF OrderInv, OrderTypes, Admitted
  <2>7. \A h \in Group \ {g} : h \notin short' => GroupInOrder(h)'
    <3> SUFFICES ASSUME NEW h \in Group, h # g, h \notin short' PROVE GroupInOrder(h)'
      OBVIOUS
    <3>1. GroupInOrder(h)
      BY <1>1 DEF OrderInv
    <3>2. buffer'[h] = buffer[h] /\ current'[h] = current[h]
      BY <2>1
    <3> QED
      BY <1>1, <3>1, <3>2 DEF GroupInOrder, Ordered, Below
  <2>8. ASSUME NEW x \in Session, x # s, Admit(x) \cap short' = {},
               buffer'[g] = <<>> \/ g \notin Admit(x)
        PROVE  StreamInOrder(x)'
    <3> HIDE DEF p, b
    <3>1. StreamInOrder(x) /\ Stream(x)' = Stream(x)
      <4>1. Admit(x) \cap short = {} /\ asduQ'[x] = asduQ[x]
        BY <1>1, <2>1, <2>8 DEF OrderInv, OrderTypes
      <4> QED
        BY <1>1, <4>1 DEF OrderInv, Stream
    <3>2. \A h \in Admit(x) : buffer'[h] = buffer[h] \/ buffer'[h] = <<>>
      BY <2>1, <2>8, AdmitGroups
    <3>3. \A h \in Admit(x) : Before(Stream(x), buffer[h])'
      BY <3>1, <3>2 DEF StreamInOrder, Before
    <3> QED
      BY <1>1, <3>1, <3>2, <3>3 DEF StreamInOrder, Ordered, Below
  <2>9. CASE buffer'[g] # <<>>
    <3>1. g \in short'
      BY <1>1, <1>3, <2>9
    <3>2. \A x \in Session : Admit(x) \cap short' = {} => x # s /\ g \notin Admit(x)
      BY <2>2, <3>1
    <3> QED
      BY <2>6, <2>7, <2>8, <3>1, <3>2 DEF OrderInv
  <2>10. CASE buffer'[g] = <<>>
    <3>1. r = Len(b)
      <4>1. SubSeq(b, r + 1, Len(b)) = <<>>
        BY <2>1, <2>10 DEF OrderInv, OrderTypes
      <4>2. Len(b) - r = 0
        BY <2>5, <4>1
      <4> QED
        BY <2>3, <2>4, <4>2
    <3>2. g \notin short' => GroupInOrder(g)'
      BY <2>10 DEF GroupInOrder, Ordered, Below
    <3>3. Stream(s)' = Stream(s) \o b
      <4>1. asduQ'[s] = p \o b
        BY <2>1, <2>5, <3>1 DEF OrderInv, OrderTypes
      <4>2. (sent[s] \o p) \o b = sent[s] \o (p \o b)
        <5> HIDE DEF p, b
        <5> QED
          BY <2>3, ConcatNat
      <4> QED
        BY <1>1, <4>1, <4>2 DEF Stream
    <3>4. ASSUME Admit(s) \cap short' = {}
          PROVE  StreamInOrder(s)'
      <4>1. GroupInOrder(g) /\ StreamInOrder(s)
        BY <1>1, <2>2, <3>4 DEF OrderInv
      <4>2. /\ Stream(s) \in Seq(Nat) /\ Ordered(Stream(s)) /\ Ordered(b)
            /\ Before(Stream(s), b)
            /\ Below(Stream(s), published + 1) /\ Below(b, published + 1)
            /\ published \in Nat
        BY <2>2, <4>1, StreamType DEF OrderInv, OrderTypes, StreamInOrder, GroupInOrder
      <4>3. /\ Ordered(Stream(s) \o b)
            /\ \A m \in Nat : Below(Stream(s), m) /\ Below(b, m) => Below(Stream(s) \o b, m)
        BY <2>3, <4>2, OrderedJoin
      <4>4. Ordered(Stream(s))' /\ Below(Stream(s), published + 1)'
        BY <1>1, <3>3, <4>2, <4>3
      <4>5. \A h \in Admit(s) : buffer'[h] = <<>>
        BY <2>2, <2>10, AdmitOne
      <4>6. s \in retrying' => Below(Stream(s), published)'
        <5>1. s \in retrying => Below(Stream(s), published) /\ b = <<>>
          BY <2>2, <4>1 DEF StreamInOrder
        <5>2. b = <<>> => Below(b, published)
          BY DEF Below
        <5> QED
          BY <1>1, <3>3, <4>2, <4>3, <5>1, <5>2
      <4> QED
        BY <4>4, <4>5, <4>6 DEF StreamInOrder, Before
    <3> QED
      BY <2>6, <2>7, <2>8, <2>10, <3>2, <3>4 DEF OrderInv
  <2> QED
    BY <2>9, <2>10
<1> QED
  BY <1>1, <1>2, <1>3 DEF Activated

\* A broadcast reaches a session from the group it was admitted to, which then
\* has nothing buffered; a group that buffers it sends it to nobody.
LEMMA PublishOrder ==
    ASSUME SInv, OrderInv, NEW wait \in BOOLEAN, Publish(wait)
    PROVE  OrderInv'
<1> DEFINE n == published + 1
           Takes(s, g) == Exists(g) /\ Receiver(g) = s /\ RouteTo(g, n) = "Sent"
           Keeps(g) == Exists(g) /\ RouteTo(g, n) = "Buffered"
<1>1. /\ asduQ' = [s \in Session |-> IF \E g \in Group : Takes(s, g)
                                       THEN Append(asduQ[s], n) ELSE asduQ[s]]
      /\ buffer' = [g \in Group |-> IF Keeps(g) THEN Append(buffer[g], n) ELSE buffer[g]]
      /\ current' = [g \in Group |-> IF Exists(g) THEN Receiver(g) ELSE current[g]]
      /\ published' = n /\ UNCHANGED <<members, sent, short>>
  BY DEF Publish, Route, sessionVars
<1>2. \A s \in retrying' : \E g \in Group : Receiver(g) = s /\ RouteTo(g, n) = "BufferFull"
  BY DEF Publish, With, Asked
<1>3. \A g \in Group :
        /\ Receiver(g) # NoSession => current[g] = Receiver(g) /\ g \in Admit(Receiver(g))
        /\ Keeps(g) => Receiver(g) = NoSession
        /\ current'[g] # NoSession => current[g] # NoSession
  BY <1>1 DEF Receiver, RouteTo, Enqueued, SInv, CurrentIsMember, OrderInv, Admitted
<1>4. \A s \in Session : \A g \in Group :
        Takes(s, g) => g \in Admit(s) /\ Len(asduQ[s]) < QueueCap
  BY <1>3, RedundancyAssumption DEF RouteTo, Enqueued
<1>5. n \in Nat /\ published \in Nat /\ published < n /\ n < n + 1
  BY DEF OrderInv, OrderTypes
<1> HIDE DEF n, Takes, Keeps
<1>6. OrderTypes' /\ Admitted'
  <2>1. ASSUME NEW s \in Session
        PROVE  asduQ'[s] \in Seq(Nat) /\ Len(asduQ'[s]) <= QueueCap
    <3>1. asduQ[s] \in Seq(Nat) /\ Len(asduQ[s]) <= QueueCap
      BY DEF OrderInv, OrderTypes
    <3>2. CASE \E g \in Group : Takes(s, g)
      <4>1. Len(asduQ[s]) < QueueCap /\ asduQ'[s] = Append(asduQ[s], n)
        BY <1>1, <1>4, <3>2
      <4> QED
        BY <1>5, <3>1, <4>1, RedundancyAssumption
    <3>3. CASE ~ \E g \in Group : Takes(s, g)
      BY <1>1, <3>1, <3>3
    <3> QED
      BY <3>2, <3>3
  <2>2. ASSUME NEW g \in Group
        PROVE  buffer'[g] \in Seq(Nat)
    <3>1. buffer[g] \in Seq(Nat)
      BY DEF OrderInv, OrderTypes
    <3> QED
      BY <1>1, <1>5, <3>1
  <2> QED
    BY <1>1, <1>5, <2>1, <2>2 DEF OrderInv, OrderTypes, Admitted
<1>7. ASSUME NEW g \in Group, g \notin short'
      PROVE  GroupInOrder(g)'
  <2>1. GroupInOrder(g) /\ buffer[g] \in Seq(Nat)
    BY <1>1, <1>7 DEF OrderInv, OrderTypes
  <2>2. CASE Keeps(g)
    <3>1. buffer'[g] = Append(buffer[g], n) /\ current'[g] = NoSession
      BY <1>1, <1>3, <2>2 DEF Keeps
    <3>2. Ordered(buffer[g]) /\ Below(buffer[g], n)
      BY <2>1 DEF GroupInOrder, n
    <3>3. Ordered(Append(buffer[g], n)) /\ Below(Append(buffer[g], n), n + 1)
      BY <1>5, <2>1, <3>2, OrderedAppend
    <3> QED
      BY <1>1, <3>1, <3>3 DEF GroupInOrder
  <2>3. CASE ~Keeps(g)
    <3>1. buffer'[g] = buffer[g] /\ (current'[g] # NoSession => current[g] # NoSession)
      BY <1>1, <1>3, <2>3
    <3>2. Ordered(buffer[g]) /\ Below(buffer[g], n)
          /\ (current[g] # NoSession => buffer[g] = <<>>)
      BY <2>1 DEF GroupInOrder, n
    <3>3. Below(buffer[g], n + 1)
      BY <1>5, <2>1, <3>2 DEF Below
    <3> QED
      BY <1>1, <3>1, <3>2, <3>3 DEF GroupInOrder
  <2> QED
    BY <2>2, <2>3
<1>8. ASSUME NEW s \in Session, Admit(s) \cap short' = {}
      PROVE  StreamInOrder(s)'
  <2>1. /\ StreamInOrder(s) /\ Stream(s) \in Seq(Nat)
        /\ asduQ[s] \in Seq(Nat) /\ sent[s] \in Seq(Nat)
    BY <1>1, <1>8, StreamType DEF OrderInv, OrderTypes
  <2>2. Ordered(Stream(s)) /\ Below(Stream(s), n)
    BY <2>1 DEF StreamInOrder, n
  <2>3. CASE \E g \in Group : Takes(s, g)
    <3>1. PICK g \in Group : Takes(s, g)
      BY <2>3
    <3>2. /\ g \in Admit(s) /\ current[g] = s /\ g \notin short
          /\ ~Keeps(g) /\ buffer[g] = <<>>
      BY <1>1, <1>3, <1>4, <1>8, <3>1, RedundancyAssumption
         DEF OrderInv, GroupInOrder, Takes
    <3>3. \A h \in Admit(s) : buffer'[h] = <<>>
      BY <1>1, <3>2, AdmitOne
    <3>4. Stream(s)' = Append(Stream(s), n)
      BY <1>1, <1>5, <2>1, <2>3, AppendSecond DEF Stream
    <3>5. Ordered(Stream(s))' /\ Below(Stream(s), published + 1)'
      BY <1>1, <1>5, <2>1, <2>2, <3>4, OrderedAppend
    <3>6. s \notin retrying'
      <4> SUFFICES ASSUME s \in retrying' PROVE FALSE
        OBVIOUS
      <4>1. PICK h \in Group : Receiver(h) = s /\ RouteTo(h, n) = "BufferFull"
        BY <1>2
      <4>2. h \in Admit(s)
        BY <1>3, <4>1, RedundancyAssumption
      <4>3. h = g
        BY <3>2, <4>2, AdmitOne
      <4> QED
        BY <3>1, <4>1, <4>3 DEF Takes
    <3> QED
      BY <3>3, <3>5, <3>6 DEF StreamInOrder, Before
  <2>4. CASE ~ \E g \in Group : Takes(s, g)
    <3>1. Stream(s)' = Stream(s)
      BY <1>1, <2>4 DEF Stream
    <3>2. Below(Stream(s), n + 1)
      BY <1>5, <2>1, <2>2 DEF Below
    <3>3. \A h \in Admit(s) : Before(Stream(s), buffer'[h])
      <4> SUFFICES ASSUME NEW h \in Admit(s) PROVE Before(Stream(s), buffer'[h])
        OBVIOUS
      <4>1. h \in Group /\ Before(Stream(s), buffer[h]) /\ buffer[h] \in Seq(Nat)
        BY <2>1, AdmitGroups DEF StreamInOrder, OrderInv, OrderTypes
      <4>2. CASE Keeps(h)
        <5>1. buffer'[h] = Append(buffer[h], n)
          BY <1>1, <4>1, <4>2
        <5> QED
          BY <1>5, <2>2, <4>1, <5>1, BeforeAppend
      <4>3. CASE ~Keeps(h)
        BY <1>1, <4>1, <4>3
      <4> QED
        BY <4>2, <4>3
    <3>4. s \in retrying' => \A h \in Admit(s) : buffer'[h] = <<>>
      <4> SUFFICES ASSUME s \in retrying', NEW h \in Admit(s) PROVE buffer'[h] = <<>>
        OBVIOUS
      <4>1. PICK g \in Group : Receiver(g) = s /\ RouteTo(g, n) = "BufferFull"
        BY <1>2
      <4>2. g \in Admit(s) /\ current[g] = s /\ ~Keeps(g)
        BY <1>3, <4>1, RedundancyAssumption DEF Keeps
      <4>3. g = h /\ g \notin short
        BY <1>1, <1>8, <4>2, AdmitOne
      <4> QED
        BY <1>1, <4>2, <4>3, RedundancyAssumption DEF OrderInv, GroupInOrder
    <3> QED
      BY <1>1, <2>2, <3>1, <3>2, <3>3, <3>4 DEF StreamInOrder
  <2> QED
    BY <2>3, <2>4
<1> QED
  BY <1>6, <1>7, <1>8 DEF OrderInv

\* Every step keeps OrderInv.
LEMMA NextOrder == SInv /\ OrderInv /\ [Next]_vars => OrderInv'
<1> SUFFICES ASSUME SInv, OrderInv, [Next]_vars PROVE OrderInv'
  OBVIOUS
<1>1. ASSUME NEW l \in Listener,
             Count(l) \/ StopListening(l) \/ \E s \in Session : Accept(l, s)
      PROVE  OrderInv'
  BY <1>1, SameOrder DEF Count, StopListening, Accept, groupVars, sessionVars, pubVars
<1>2. ASSUME NEW s \in Session, SessionStep(s)
      PROVE  OrderInv'
  <2>1. CASE HandshakeFails(s) \/ RecvStartDt(s) \/ RecvStopDt(s) \/ Iterate(s)
               \/ Disconnect(s) \/ SetInactive(s) \/ JoinReader(s)
    BY <2>1, SameOrder DEF HandshakeFails, RecvStartDt, RecvStopDt, Iterate, Disconnect,
                           SetInactive, JoinReader, groupVars, pubVars
  <2> QED
    BY <1>2, <2>1, JoinOrder, ActivatedOrder, DeactivatedOrder, SendOrder, DepartOrder
       DEF SessionStep
<1>3. CASE Close \/ UNCHANGED vars
  BY <1>3, SameOrder DEF Close, vars, groupVars, sessionVars, pubVars
<1> QED
  BY <1>1, <1>2, <1>3, PublishOrder, RetryOrder, GiveUpOrder DEF Next

\* What a master is sent is in the order of the broadcasts, through switchovers,
\* replays, retries and departures, unless a replay to its group was cut short
\* (Groups::activated, Groups::route, Server::send_wait).
THEOREM OrderCorrect == Spec => []OrderedUnlessShort
<1>1. OrderInv => OrderedUnlessShort
  BY DEF OrderInv, OrderedUnlessShort, StreamInOrder
<1>2. Init => SInv /\ OrderInv
  BY InitSInv, InitOrder
<1>3. SInv /\ OrderInv /\ [Next]_vars => (SInv /\ OrderInv)'
  BY NextSInv, NextOrder
<1> QED
  BY <1>1, <1>2, <1>3, PTL DEF Spec

-----------------------------------------------------------------------------
(***************************************************************************)
(* What the application is told of a broadcast, in the modes whose groups  *)
(* are fixed.                                                              *)
(***************************************************************************)

\* The ASDUs in a sequence; none is in it twice; none is in both.
Elems(q)       == {q[i] : i \in 1 .. Len(q)}
Distinct(q)    == \A i, j \in 1 .. Len(q) : q[i] = q[j] => i = j
Disjoint(p, q) == Elems(p) \cap Elems(q) = {}

\* Group g holds ASDU n.
Kept(n, g) == \/ n \in Elems(buffer[g])
              \/ \E s \in Joined(g) : n \in Elems(Stream(s))

\* It holds nothing twice, and nothing that was not broadcast.
HeldOnce(g) ==
    /\ Distinct(buffer[g])
    /\ \A s \in Joined(g) : Distinct(Stream(s)) /\ Disjoint(Stream(s), buffer[g])
    /\ \A s, x \in Joined(g) : s # x => Disjoint(Stream(s), Stream(x))
    /\ \A n \in Nat : Kept(n, g) => n <= published

\* The groups that took a broadcast; those whose session is still to take the newest.
Takers(n) == {g \in Group : Kept(n, g)}
Owing     == {g \in Group : \E s \in retrying : g \in Admit(s)}

\* An outcome is the true one, by the groups that took the broadcast.
TrueOutcome(o, K) ==
    /\ o \in {"Ok", "Partial"} <=> K # {}
    /\ o = "Ok" /\ BufferSize > 0 => K = Group
    /\ o = "Partial" => K # Group

\* A broadcast that is being retried: every group asked took it, has failed, or is
\* still to take it by the one session that retries.
Retried ==
    /\ published > 0 /\ Len(reported) = published - 1
    /\ routes.total = Cardinality(Takers(published)) + Cardinality(Owing) + routes.failed
    /\ routes.total <= Cardinality(Group)
    /\ BufferSize > 0 => routes.total = Cardinality(Group)
    /\ \A s \in retrying : \E g \in Group : g \in Admit(s) /\ ~Kept(published, g)
    /\ \A s, x \in retrying : Admit(s) \cap Admit(x) # {} => s = x

\* The inductive invariant.
ReportInv ==
    /\ \A g \in Group : HeldOnce(g)
    /\ reported \in Seq({"Ok", "NotActive", "Failed", "Partial"})
    /\ routes \in [total : Nat, failed : Nat] /\ retrying \subseteq Session
    /\ \A n \in 1 .. Len(reported) : TrueOutcome(reported[n], Takers(n))
    /\ IF retrying = {} THEN Len(reported) = published ELSE Retried

\* The groups are given by the configuration, not by the sessions there are.
FixedGroups == Mode # "Connection"
\* In the modes Single and Multiple the groups are finitely many.
LEMMA FinitelyMany == FixedGroups => IsFiniteSet(Group)
<1> SUFFICES ASSUME FixedGroups PROVE IsFiniteSet(Group)
  OBVIOUS
<1>1. Len(Clients) \in Nat
  BY ClientsAssumption
<1>2. Group = {1} \/ Group = 1 .. Len(Clients)
  BY DEF FixedGroups, Group
<1>3. IsFiniteSet(1 .. Len(Clients))
  BY <1>1, FS_Interval
<1> QED
  BY <1>2, <1>3, FS_Singleton

\* The ASDUs of a sequence with one more, and of two sequences joined.
LEMMA ElemsAppend ==
    ASSUME NEW q \in Seq(Nat), NEW n \in Nat
    PROVE  /\ Elems(Append(q, n)) = Elems(q) \cup {n}
           /\ Distinct(q) /\ n \notin Elems(q) => Distinct(Append(q, n))
<1> DEFINE t == Append(q, n)
<1>1. /\ Len(t) = Len(q) + 1 /\ Len(q) \in Nat
      /\ \A i \in 1 .. Len(q) : t[i] = q[i]
      /\ t[Len(q) + 1] = n
  OBVIOUS
<1> HIDE DEF t
<1>2. \A i \in 1 .. Len(t) : i \in 1 .. Len(q) \/ i = Len(q) + 1
  BY <1>1
<1>3. \A i \in 1 .. Len(q) : i \in 1 .. Len(t)
  BY <1>1
<1>4. Len(q) + 1 \in 1 .. Len(t)
  BY <1>1
<1>5. Elems(t) = Elems(q) \cup {n}
  BY <1>1, <1>2, <1>3, <1>4 DEF Elems
<1>6. Distinct(q) /\ n \notin Elems(q) => Distinct(t)
  BY <1>1, <1>2 DEF Elems, Distinct
<1> QED
  BY <1>5, <1>6 DEF t

\* The elements of two queues joined.
LEMMA ElemsConcat ==
    ASSUME NEW p \in Seq(Nat), NEW q \in Seq(Nat)
    PROVE  /\ Elems(p \o q) = Elems(p) \cup Elems(q)
           /\ Distinct(p \o q) <=> Distinct(p) /\ Distinct(q) /\ Disjoint(p, q)
<1> DEFINE t == p \o q
           n == Len(p)
<1>1. /\ n \in Nat /\ Len(q) \in Nat /\ Len(t) = n + Len(q)
      /\ \A i \in 1 .. Len(t) : /\ i \in 1 .. n => t[i] = p[i]
                                /\ i \notin 1 .. n => i - n \in 1 .. Len(q) /\ t[i] = q[i - n]
  OBVIOUS
<1> HIDE DEF t, n
<1>2. \A i \in 1 .. n : i \in 1 .. Len(t) /\ t[i] = p[i]
  BY <1>1
<1>3. \A i \in 1 .. Len(q) : i + n \in 1 .. Len(t) /\ t[i + n] = q[i]
  <2> SUFFICES ASSUME NEW i \in 1 .. Len(q)
               PROVE  i + n \in 1 .. Len(t) /\ t[i + n] = q[i]
    OBVIOUS
  <2>1. i + n \in 1 .. Len(t) /\ i + n \notin 1 .. n /\ (i + n) - n = i
    BY <1>1
  <2> QED
    BY <1>1, <2>1
<1>4. Elems(t) \subseteq Elems(p) \cup Elems(q)
  BY <1>1 DEF Elems, n
<1>5. Elems(p) \cup Elems(q) \subseteq Elems(t)
  BY <1>2, <1>3 DEF Elems, n
<1>6. ASSUME Distinct(p), Distinct(q), Disjoint(p, q)
      PROVE  Distinct(t)
  <2> SUFFICES ASSUME NEW i \in 1 .. Len(t), NEW j \in 1 .. Len(t), t[i] = t[j]
               PROVE  i = j
    BY DEF Distinct
  <2>1. CASE i \in 1 .. n /\ j \in 1 .. n
    BY <1>1, <1>6, <2>1 DEF Distinct, n
  <2>2. CASE i \in 1 .. n <=> j \notin 1 .. n
    <3>1. \A k \in 1 .. Len(t) : /\ k \in 1 .. n => t[k] \in Elems(p)
                                 /\ k \notin 1 .. n => t[k] \in Elems(q)
      BY <1>1 DEF Elems, n
    <3> QED
      BY <1>6, <2>2, <3>1 DEF Disjoint
  <2>3. CASE i \notin 1 .. n /\ j \notin 1 .. n
    <3>1. i - n = j - n
      BY <1>1, <1>6, <2>3 DEF Distinct
    <3> QED
      BY <1>1, <3>1
  <2> QED
    BY <2>1, <2>2, <2>3
<1>7. ASSUME Distinct(t)
      PROVE  Distinct(p) /\ Distinct(q) /\ Disjoint(p, q)
  <2>1. Distinct(p)
    BY <1>2, <1>7 DEF Distinct, n
  <2>2. Distinct(q)
    <3> SUFFICES ASSUME NEW i \in 1 .. Len(q), NEW j \in 1 .. Len(q), q[i] = q[j]
                 PROVE  i = j
      BY DEF Distinct
    <3>1. i + n = j + n
      BY <1>3, <1>7 DEF Distinct
    <3> QED
      BY <1>1, <3>1
  <2>3. ASSUME NEW i \in 1 .. n, NEW j \in 1 .. Len(q), p[i] = q[j]
        PROVE  FALSE
    <3>1. i = j + n
      BY <1>2, <1>3, <1>7, <2>3 DEF Distinct
    <3> QED
      BY <1>1, <3>1
  <2> QED
    BY <2>1, <2>2, <2>3 DEF Disjoint, Elems, n
<1> QED
  BY <1>4, <1>5, <1>6, <1>7 DEF t

\* A sequence is cut in two.
LEMMA ElemsCut ==
    ASSUME NEW b \in Seq(Nat), NEW r \in 0 .. Len(b)
    PROVE  LET p == SubSeq(b, 1, r)
               q == SubSeq(b, r + 1, Len(b))
           IN  /\ p \in Seq(Nat) /\ q \in Seq(Nat)
               /\ Elems(p) \cup Elems(q) = Elems(b)
               /\ Distinct(b) => Distinct(p) /\ Distinct(q) /\ Disjoint(p, q)
<1> DEFINE p == SubSeq(b, 1, r)
           q == SubSeq(b, r + 1, Len(b))
<1>1. p \in Seq(Nat) /\ q \in Seq(Nat)
  <2>1. \A i \in 1 .. r : b[i] \in Nat
    OBVIOUS
  <2>2. \A i \in r + 1 .. Len(b) : b[i] \in Nat
    OBVIOUS
  <2> QED
    BY <2>1, <2>2, SubSeqProperties
<1>2. p \o q = b
  <2>1. SubSeq(b, 1, Len(b)) = b
    BY SubSeqFull
  <2>2. p \o q = SubSeq(b, 1, Len(b))
    <3>1. /\ 1 \in 1 .. Len(b) + 1 /\ r \in 1 - 1 .. Len(b)
          /\ Len(b) \in r .. Len(b) /\ b \in Seq(Nat)
      OBVIOUS
    <3> QED
      BY <3>1, ConcatAdjacentSubSeq
  <2> QED
    BY <2>1, <2>2
<1> HIDE DEF p, q
<1> QED
  BY <1>1, <1>2, ElemsConcat DEF p, q

\* What the steps are argued from.
AllInv == SInv /\ OrderInv /\ ReportInv

\* A step that moves what the groups hold, and neither broadcasts nor retries.
LEMMA HeldTheSame ==
    ASSUME ReportInv, UNCHANGED <<published, routes, retrying, reported>>,
           \A g \in Group : HeldOnce(g)',
           \A g \in Group : \A n : Kept(n, g)' <=> Kept(n, g)
    PROVE  ReportInv'
<1>1. \A n : Takers(n)' = Takers(n)
  BY DEF Takers
<1>2. Owing' = Owing
  BY DEF Owing
<1>3. \A n \in 1 .. Len(reported) : TrueOutcome(reported[n], Takers(n))'
  BY <1>1 DEF ReportInv, TrueOutcome
<1>4. Retried => Retried'
  BY <1>1, <1>2 DEF Retried
<1> QED
  BY <1>3, <1>4 DEF ReportInv

\* A step that moves nothing.
LEMMA NothingMoves ==
    ASSUME ReportInv, UNCHANGED <<published, routes, retrying, reported>>,
           \A g \in Group : buffer'[g] = buffer[g],
           \A s \in Session : Stream(s)' = Stream(s)
    PROVE  ReportInv'
<1>1. \A g \in Group : \A n : Kept(n, g)' <=> Kept(n, g)
  BY DEF Kept, Joined
<1>2. ASSUME NEW g \in Group
      PROVE  HeldOnce(g)'
  <2>1. HeldOnce(g)
    BY DEF ReportInv
  <2>2. /\ Distinct(buffer[g])'
        /\ \A s \in Joined(g) : Distinct(Stream(s))' /\ Disjoint(Stream(s), buffer[g])'
        /\ \A s, x \in Joined(g) : s # x => Disjoint(Stream(s), Stream(x))'
    BY <2>1 DEF HeldOnce, Joined
  <2> QED
    BY <1>1, <2>1, <2>2 DEF HeldOnce
<1> QED
  BY <1>1, <1>2, HeldTheSame

\* The callback of STARTDT: what is replayed leaves the buffer.
LEMMA ActivatedReport ==
    ASSUME AllInv, NEW s \in Session, OnActivated(s)
    PROVE  ReportInv'
<1>1. UNCHANGED <<sent, published, routes, retrying, reported>> /\ Activated(s)
  BY DEF OnActivated, pubVars
<1>2. CASE ~ \E g \in Group : s \in members[g]
  BY <1>1, <1>2, NothingMoves DEF Activated, groupVars, Stream, AllInv
<1>3. ASSUME NEW g \in Group, s \in members[g], ActivatedIn(s, g)
      PROVE  ReportInv'
  <2> DEFINE r == Replayed(s, g)
             b == buffer[g]
             pre  == SubSeq(b, 1, r)
             post == SubSeq(b, r + 1, Len(b))
             q == Stream(s)
  <2>1. /\ asduQ' = [asduQ EXCEPT ![s] = asduQ[s] \o pre]
        /\ buffer' = [buffer EXCEPT ![g] = post]
    BY <1>3 DEF ActivatedIn
  <2>2. g \in Admit(s) /\ s \in Joined(g)
    BY <1>3 DEF AllInv, OrderInv, Admitted, Joined
  <2>3. /\ b \in Seq(Nat) /\ sent[s] \in Seq(Nat) /\ asduQ[s] \in Seq(Nat) /\ q \in Seq(Nat)
        /\ r \in 0 .. Len(b)
    BY ReplayedFits, StreamType DEF AllInv, OrderInv, OrderTypes
  <2>4. /\ pre \in Seq(Nat) /\ post \in Seq(Nat)
        /\ Elems(pre) \cup Elems(post) = Elems(b)
        /\ Distinct(b) => Distinct(pre) /\ Distinct(post) /\ Disjoint(pre, post)
    <3> HIDE DEF r, b
    <3> QED
      BY <2>3, ElemsCut
  <2> HIDE DEF r, pre, post
  <2>5. buffer'[g] = post /\ \A h \in Group : h # g => buffer'[h] = buffer[h]
    BY <2>1 DEF AllInv, OrderInv, OrderTypes
  <2>6. Stream(s)' = q \o pre /\ \A x \in Session : x # s => Stream(x)' = Stream(x)
    <3>1. (sent[s] \o asduQ[s]) \o pre = sent[s] \o (asduQ[s] \o pre)
      BY <2>3, <2>4, ConcatNat
    <3> QED
      BY <1>1, <2>1, <3>1 DEF Stream, AllInv, OrderInv, OrderTypes
  <2>7. \A h \in Group : h # g => s \notin Joined(h)
    BY <2>2, AdmitOne DEF Joined
  <2>8. HeldOnce(g)
    BY DEF AllInv, ReportInv
  <2>9. /\ Distinct(b) /\ Distinct(q) /\ Disjoint(q, b)
        /\ \A x \in Joined(g) : x # s => Disjoint(q, Stream(x)) /\ Disjoint(Stream(x), q)
                                         /\ Disjoint(Stream(x), b) /\ Distinct(Stream(x))
    BY <2>2, <2>8 DEF HeldOnce
  <2> HIDE DEF b, q
  <2>10. /\ Elems(q \o pre) = Elems(q) \cup Elems(pre)
         /\ Distinct(q \o pre)
    <3>1. Disjoint(q, pre)
      BY <2>4, <2>9 DEF Disjoint
    <3> QED
      BY <2>3, <2>4, <2>9, <3>1, ElemsConcat
  <2>11. ASSUME NEW n PROVE Kept(n, g)' <=> Kept(n, g)
    <3>1. Kept(n, g) <=> \/ n \in Elems(b) \/ n \in Elems(q)
                         \/ \E x \in Joined(g) : x # s /\ n \in Elems(Stream(x))
      BY <2>2 DEF Kept, b, q
    <3>2. Kept(n, g)' <=> \/ n \in Elems(post) \/ n \in Elems(q \o pre)
                          \/ \E x \in Joined(g) : x # s /\ n \in Elems(Stream(x))
      BY <2>2, <2>5, <2>6 DEF Kept, Joined
    <3> QED
      BY <2>4, <2>10, <3>1, <3>2
  <2>12. ASSUME NEW h \in Group, h # g, NEW n PROVE Kept(n, h)' <=> Kept(n, h)
    BY <2>5, <2>6, <2>7, <2>12 DEF Kept, Joined
  <2>13. HeldOnce(g)'
    <3>1. Distinct(buffer[g])'
      BY <2>4, <2>5, <2>9
    <3>2. Distinct(Stream(s))' /\ Disjoint(Stream(s), buffer[g])'
      BY <2>4, <2>5, <2>6, <2>9, <2>10 DEF Disjoint
    <3>3. \A x \in Joined(g) : x # s =>
            /\ Distinct(Stream(x))' /\ Disjoint(Stream(x), buffer[g])'
            /\ Disjoint(Stream(x), Stream(s))' /\ Disjoint(Stream(s), Stream(x))'
      BY <2>4, <2>5, <2>6, <2>9, <2>10 DEF Disjoint, Joined
    <3>4. \A x, y \in Joined(g) : x # y /\ x # s /\ y # s => Disjoint(Stream(x), Stream(y))'
      BY <2>6, <2>8 DEF HeldOnce, Joined
    <3>5. \A n \in Nat : Kept(n, g)' => n <= published'
      BY <1>1, <2>8, <2>11 DEF HeldOnce
    <3> QED
      BY <3>1, <3>2, <3>3, <3>4, <3>5 DEF HeldOnce
  <2>14. ASSUME NEW h \in Group, h # g PROVE HeldOnce(h)'
    <3>1. HeldOnce(h) /\ buffer'[h] = buffer[h]
          /\ \A x \in Joined(h) : Stream(x)' = Stream(x)
      BY <2>5, <2>6, <2>7, <2>14 DEF AllInv, ReportInv, Joined
    <3>2. \A n \in Nat : Kept(n, h)' => n <= published'
      BY <1>1, <2>12, <2>14, <3>1 DEF HeldOnce
    <3> QED
      BY <3>1, <3>2 DEF HeldOnce
  <2> QED
    BY <1>1, <2>11, <2>12, <2>13, <2>14, HeldTheSame DEF AllInv
<1> QED
  BY <1>1, <1>2, <1>3 DEF Activated

\* ReportInv holds initially.
LEMMA InitReport == Init => ReportInv
<1> SUFFICES ASSUME Init PROVE ReportInv
  OBVIOUS
<1>1. /\ \A g \in Group : buffer[g] = <<>>
      /\ \A s \in Session : Stream(s) = <<>>
      /\ reported = <<>> /\ published = 0 /\ retrying = {}
      /\ routes = [total |-> 0, failed |-> 0]
  BY DEF Init, GroupsInit, Stream
<1>2. \A g \in Group : \A n : ~Kept(n, g)
  BY <1>1 DEF Kept, Joined, Elems
<1>3. \A g \in Group : HeldOnce(g)
  BY <1>1, <1>2 DEF HeldOnce, Joined, Distinct, Disjoint, Elems
<1> QED
  BY <1>1, <1>3 DEF ReportInv

\* The steps that move no ASDU between what the groups hold.
LEMMA QuietReport ==
    ASSUME FixedGroups, AllInv, NEW s \in Session,
           SessionStep(s), ~OnActivated(s)
    PROVE  ReportInv'
<1>1. CASE SendAsdu(s)
  <2>1. /\ asduQ[s] # <<>> /\ asduQ' = [asduQ EXCEPT ![s] = Tail(@)]
        /\ sent' = [sent EXCEPT ![s] = Append(@, Head(asduQ[s]))]
        /\ UNCHANGED <<buffer, published, routes, retrying, reported>>
    BY <1>1 DEF SendAsdu, pubVars
  <2>2. asduQ[s] \in Seq(Nat) /\ sent[s] \in Seq(Nat)
    BY DEF AllInv, OrderInv, OrderTypes
  <2>3. Append(sent[s], Head(asduQ[s])) \o Tail(asduQ[s]) = sent[s] \o asduQ[s]
    BY <2>1, <2>2, HeadMoves
  <2>4. \A x \in Session : Stream(x)' = Stream(x)
    BY <2>1, <2>3 DEF AllInv, OrderInv, OrderTypes, Stream
  <2> QED
    BY <2>1, <2>4, NothingMoves DEF AllInv
<1>2. CASE Depart(s)
  <2>1. /\ UNCHANGED <<asduQ, sent, published, routes, retrying, reported>>
        /\ \A g \in Group : buffer'[g] = buffer[g]
    BY <1>2 DEF Depart, Leave, FixedGroups, pubVars
  <2> QED
    BY <2>1, NothingMoves DEF AllInv, Stream
<1>3. CASE \/ HandshakeFails(s) \/ RunSession(s) \/ RecvStartDt(s) \/ RecvStopDt(s)
           \/ OnDeactivated(s) \/ Iterate(s) \/ Disconnect(s) \/ SetInactive(s)
           \/ JoinReader(s)
  <2>1. UNCHANGED <<asduQ, sent, buffer, published, routes, retrying, reported>>
    BY <1>3 DEF HandshakeFails, RunSession, Join, RecvStartDt, RecvStopDt, OnDeactivated,
                Deactivated, Iterate, Disconnect, SetInactive, JoinReader, groupVars, pubVars
  <2> QED
    BY <2>1, NothingMoves DEF AllInv, Stream
<1> QED
  BY <1>1, <1>2, <1>3 DEF SessionStep

\* What is reported of n outcomes of which f failed is true of the groups that took
\* the broadcast, if each of the others asked has failed.
LEMMA OutcomeIsTrue ==
    ASSUME IsFiniteSet(Group), NEW K \in SUBSET Group, NEW n \in Nat, NEW f \in Nat,
           n = Cardinality(K) + f, n <= Cardinality(Group),
           BufferSize > 0 => n = Cardinality(Group)
    PROVE  /\ Outcome(n, f) \in {"Ok", "NotActive", "Failed", "Partial"}
           /\ TrueOutcome(Outcome(n, f), K)
<1> DEFINE k == Cardinality(K)
           c == Cardinality(Group)
<1>1. /\ IsFiniteSet(K) /\ k \in Nat /\ c \in Nat
      /\ k = c => K = Group
  BY FS_Subset, FS_CardinalityType
<1>2. k = 0 <=> K = {}
  BY <1>1, FS_EmptySet
<1>3. K = Group => k = c
  OBVIOUS
<1>4. n = k + f /\ n <= c /\ (BufferSize > 0 => n = c)
  OBVIOUS
<1> HIDE DEF k, c
<1>5. CASE n = 0
  BY <1>1, <1>2, <1>4, <1>5 DEF Outcome, TrueOutcome
<1>6. CASE n # 0 /\ f = 0
  <2>1. k = n
    BY <1>1, <1>4, <1>6
  <2> QED
    BY <1>1, <1>2, <1>4, <1>6, <2>1 DEF Outcome, TrueOutcome
<1>7. CASE n # 0 /\ f # 0 /\ f = n
  <2>1. k = 0
    BY <1>1, <1>4, <1>7
  <2> QED
    BY <1>2, <1>7, <2>1 DEF Outcome, TrueOutcome
<1>8. CASE n # 0 /\ f # 0 /\ f # n
  <2>1. k # 0 /\ k # c
    BY <1>1, <1>4, <1>8
  <2> QED
    BY <1>2, <1>3, <1>8, <2>1 DEF Outcome, TrueOutcome
<1> QED
  BY <1>5, <1>6, <1>7, <1>8

\* A group that takes nothing holds what it held.
LEMMA TakesNone ==
    ASSUME NEW g \in Group, HeldOnce(g), published \in Nat, published' \in Nat,
           published <= published', buffer'[g] = buffer[g],
           \A x \in Joined(g) : Stream(x)' = Stream(x)
    PROVE  HeldOnce(g)' /\ \A m : Kept(m, g)' <=> Kept(m, g)
<1>1. \A m : Kept(m, g)' <=> Kept(m, g)
  BY DEF Kept, Joined
<1>2. \A m \in Nat : Kept(m, g)' => m <= published'
  BY <1>1 DEF HeldOnce
<1> QED
  BY <1>1, <1>2 DEF HeldOnce, Joined

\* A group that takes an ASDU it did not hold holds it in one place.
LEMMA TakesOne ==
    ASSUME OrderTypes, NEW g \in Group, HeldOnce(g), NEW n \in Nat, ~Kept(n, g),
           published' \in Nat, published <= published', n <= published',
           \/ /\ buffer'[g] = Append(buffer[g], n)
              /\ \A x \in Joined(g) : Stream(x)' = Stream(x)
           \/ /\ buffer'[g] = buffer[g]
              /\ \E s \in Joined(g) : /\ Stream(s)' = Append(Stream(s), n)
                                      /\ \A x \in Joined(g) : x # s => Stream(x)' = Stream(x)
    PROVE  HeldOnce(g)' /\ \A m : Kept(m, g)' <=> Kept(m, g) \/ m = n
<1>1. published \in Nat /\ buffer[g] \in Seq(Nat) /\ \A x \in Joined(g) : Stream(x) \in Seq(Nat)
  BY StreamType DEF OrderTypes, Joined
<1>2. /\ n \notin Elems(buffer[g])
      /\ \A x \in Joined(g) : n \notin Elems(Stream(x))
  BY DEF Kept
<1>3. ASSUME \A m : Kept(m, g)' <=> Kept(m, g) \/ m = n
      PROVE  \A m \in Nat : Kept(m, g)' => m <= published'
  BY <1>1, <1>3 DEF HeldOnce
<1>4. CASE /\ buffer'[g] = Append(buffer[g], n)
           /\ \A x \in Joined(g) : Stream(x)' = Stream(x)
  <2>1. Elems(buffer'[g]) = Elems(buffer[g]) \cup {n} /\ Distinct(buffer'[g])
    BY <1>1, <1>2, <1>4, ElemsAppend DEF HeldOnce
  <2>2. \A m : Kept(m, g)' <=> Kept(m, g) \/ m = n
    BY <1>4, <2>1 DEF Kept, Joined
  <2>3. /\ \A s \in Joined(g) : Distinct(Stream(s))' /\ Disjoint(Stream(s), buffer[g])'
        /\ \A s, x \in Joined(g) : s # x => Disjoint(Stream(s), Stream(x))'
    BY <1>2, <1>4, <2>1 DEF HeldOnce, Disjoint, Joined
  <2> QED
    BY <1>3, <2>1, <2>2, <2>3 DEF HeldOnce
<1>5. ASSUME NEW s \in Joined(g), buffer'[g] = buffer[g],
             Stream(s)' = Append(Stream(s), n),
             \A x \in Joined(g) : x # s => Stream(x)' = Stream(x)
      PROVE  HeldOnce(g)' /\ \A m : Kept(m, g)' <=> Kept(m, g) \/ m = n
  <2>1. Elems(Stream(s))' = Elems(Stream(s)) \cup {n} /\ Distinct(Stream(s))'
    BY <1>1, <1>2, <1>5, ElemsAppend DEF HeldOnce
  <2>2. \A m : Kept(m, g)' <=> Kept(m, g) \/ m = n
    BY <1>5, <2>1 DEF Kept, Joined
  <2>3. \A x \in Joined(g) : /\ Distinct(Stream(x))'
                             /\ Elems(Stream(x))' \subseteq Elems(Stream(x)) \cup {n}
                             /\ x # s => Elems(Stream(x))' = Elems(Stream(x))
    BY <1>5, <2>1 DEF HeldOnce
  <2>4. \A x \in Joined(g) : Disjoint(Stream(x), buffer[g])'
    BY <1>2, <1>5, <2>3 DEF HeldOnce, Disjoint
  <2>5. \A x, y \in Joined(g) : x # y => Disjoint(Stream(x), Stream(y))'
    BY <1>2, <1>5, <2>3 DEF HeldOnce, Disjoint
  <2> QED
    BY <1>3, <1>5, <2>2, <2>3, <2>4, <2>5 DEF HeldOnce, Joined
<1> QED
  BY <1>4, <1>5

\* A retry ends: the session's group took the broadcast, or has failed.
LEMMA ResolvedReport ==
    ASSUME FixedGroups, AllInv, NEW s \in retrying, NEW f \in {0, 1}, Resolve(s, f),
           NEW g \in Group, g \in Admit(s),
           \A h \in Group : HeldOnce(h)',
           \A h \in Group : \A m : Kept(m, h)' <=>
                Kept(m, h) \/ (f = 0 /\ h = g /\ m = published)
    PROVE  ReportInv'
<1> DEFINE p == published
<1>1. /\ retrying' = retrying \ {s} /\ published' = p
      /\ routes' = [routes EXCEPT !.failed = routes.failed + f]
      /\ reported' = IF retrying = {s}
                       THEN Append(reported, Outcome(routes.total, routes.failed + f))
                       ELSE reported
  BY DEF Resolve
<1>2. /\ Retried /\ p \in Nat /\ Len(reported) = p - 1 /\ p > 0
      /\ reported \in Seq({"Ok", "NotActive", "Failed", "Partial"})
      /\ routes \in [total : Nat, failed : Nat] /\ retrying \subseteq Session
  BY DEF AllInv, ReportInv, OrderInv, OrderTypes, Retried
<1>3. ~Kept(p, g)
  BY <1>2, AdmitOne DEF Retried
<1>4. Takers(p)' = IF f = 0 THEN Takers(p) \cup {g} ELSE Takers(p)
  BY <1>1 DEF Takers
<1>5. \A m \in 1 .. Len(reported) : Takers(m)' = Takers(m)
  BY <1>2 DEF Takers
<1>6. \A x \in retrying : x # s => g \notin Admit(x)
  BY <1>2 DEF Retried
<1>7. Owing' = Owing \ {g} /\ g \in Owing
  BY <1>1, <1>2, <1>6, AdmitOne DEF Owing
<1>8. /\ routes.total \in Nat /\ routes.failed \in Nat /\ f \in Nat
      /\ routes'.total = routes.total /\ routes'.failed = routes.failed + f
      /\ routes' \in [total : Nat, failed : Nat]
  BY <1>1, <1>2
<1>9. /\ IsFiniteSet(Group) /\ IsFiniteSet(Takers(p)) /\ IsFiniteSet(Owing)
      /\ Takers(p) \subseteq Group /\ Takers(p)' \subseteq Group
  BY <1>4, FinitelyMany, FS_Subset DEF Takers, Owing
<1>10. routes.total = Cardinality(Takers(p)') + Cardinality(Owing') + (routes.failed + f)
  <2>1. Cardinality(Owing') = Cardinality(Owing) - 1 /\ Cardinality(Owing) \in Nat
    BY <1>7, <1>9, FS_RemoveElement, FS_CardinalityType
  <2>2. g \notin Takers(p)
    BY <1>3 DEF Takers
  <2>3. Cardinality(Takers(p) \cup {g}) = Cardinality(Takers(p)) + 1
        /\ Cardinality(Takers(p)) \in Nat
    BY <1>9, <2>2, FS_AddElement, FS_CardinalityType
  <2>4. routes.total = Cardinality(Takers(p)) + Cardinality(Owing) + routes.failed
    BY <1>2 DEF Retried
  <2>5. CASE f = 0
    BY <1>4, <1>8, <2>1, <2>3, <2>4, <2>5
  <2>6. CASE f = 1
    BY <1>4, <1>8, <2>1, <2>3, <2>4, <2>6
  <2> QED
    BY <2>5, <2>6
<1>11. CASE retrying = {s}
  <2> DEFINE o == Outcome(routes.total, routes.failed + f)
  <2>1. Owing' = {} /\ retrying' = {}
    BY <1>1, <1>11 DEF Owing
  <2>2. routes.total = Cardinality(Takers(p)') + (routes.failed + f)
    <3>1. Cardinality(Owing') = 0
      BY <2>1, FS_EmptySet
    <3>2. Cardinality(Takers(p)') \in Nat
      BY <1>9, FS_Subset, FS_CardinalityType
    <3> QED
      BY <1>8, <1>10, <3>1, <3>2
  <2>3. /\ o \in {"Ok", "NotActive", "Failed", "Partial"}
        /\ TrueOutcome(o, Takers(p)')
    <3> DEFINE K == Takers(p)'
               e == routes.failed + f
    <3>1. /\ e \in Nat /\ K \in SUBSET Group
          /\ routes.total <= Cardinality(Group)
          /\ BufferSize > 0 => routes.total = Cardinality(Group)
          /\ routes.total = Cardinality(K) + e
      BY <1>2, <1>8, <1>9, <2>2 DEF Retried
    <3> HIDE DEF K, e
    <3>2. /\ Outcome(routes.total, e) \in {"Ok", "NotActive", "Failed", "Partial"}
          /\ TrueOutcome(Outcome(routes.total, e), K)
      BY <1>8, <1>9, <3>1, OutcomeIsTrue
    <3> QED
      BY <3>2 DEF K, e
  <2> HIDE DEF o
  <2>4. /\ reported' = Append(reported, o) /\ Len(reported') = p
        /\ reported' \in Seq({"Ok", "NotActive", "Failed", "Partial"})
        /\ reported'[p] = o
        /\ \A m \in 1 .. Len(reported) : reported'[m] = reported[m]
    BY <1>1, <1>2, <1>11, <2>3 DEF o
  <2>5. \A m \in 1 .. Len(reported') : TrueOutcome(reported[m], Takers(m))'
    <3> SUFFICES ASSUME NEW m \in 1 .. Len(reported') PROVE TrueOutcome(reported[m], Takers(m))'
      OBVIOUS
    <3>1. CASE m = p
      BY <1>1, <2>3, <2>4, <3>1 DEF TrueOutcome, Takers
    <3>2. CASE m # p
      <4>1. m \in 1 .. Len(reported)
        BY <1>2, <2>4, <3>2
      <4>2. TrueOutcome(reported[m], Takers(m))
        BY <4>1 DEF AllInv, ReportInv
      <4> QED
        BY <1>5, <2>4, <4>1, <4>2 DEF TrueOutcome
    <3> QED
      BY <3>1, <3>2
  <2> QED
    BY <1>1, <1>2, <1>8, <2>1, <2>4, <2>5 DEF ReportInv
<1>12. CASE retrying # {s}
  <2>1. retrying' # {} /\ reported' = reported
    BY <1>1, <1>12
  <2>2. Retried'
    <3>1. \A x \in retrying' : \E h \in Group : h \in Admit(x) /\ ~Kept(published, h)'
      BY <1>1, <1>2, <1>6 DEF Retried
    <3>2. routes.total <= Cardinality(Group) /\ (BufferSize > 0 => routes.total = Cardinality(Group))
      BY <1>2 DEF Retried
    <3>3. \A x, y \in retrying' : Admit(x) \cap Admit(y) # {} => x = y
      BY <1>1, <1>2 DEF Retried
    <3> QED
      BY <1>1, <1>2, <1>8, <1>10, <2>1, <3>1, <3>2, <3>3 DEF Retried
  <2>3. \A m \in 1 .. Len(reported) : TrueOutcome(reported[m], Takers(m))'
    <3>1. \A m \in 1 .. Len(reported) : TrueOutcome(reported[m], Takers(m))
      BY DEF AllInv, ReportInv
    <3> QED
      BY <1>5, <2>1, <3>1 DEF TrueOutcome
  <2> QED
    BY <1>1, <1>2, <1>8, <2>1, <2>2, <2>3 DEF ReportInv
<1> QED
  BY <1>11, <1>12

\* A retry succeeds, and the session's group takes the broadcast; or it is given up.
LEMMA RetryReport ==
    ASSUME FixedGroups, AllInv, NEW s \in Session, Retry(s) \/ GiveUp(s)
    PROVE  ReportInv'
<1> DEFINE p == published
<1>1. s \in retrying /\ UNCHANGED <<buffer, sent, published>>
  BY DEF Retry, GiveUp, Resolve, sessionVars
<1>2. PICK g \in Group : g \in Admit(s) /\ ~Kept(p, g)
  BY <1>1 DEF AllInv, ReportInv, Retried
<1>3. p \in Nat /\ p <= p /\ OrderTypes /\ \A h \in Group : HeldOnce(h)
  BY DEF AllInv, OrderInv, OrderTypes, ReportInv
<1>4. s \in Joined(g) /\ \A h \in Group : h # g => s \notin Joined(h)
  BY <1>2, AdmitOne DEF Joined
<1>5. CASE Retry(s)
  <2>1. asduQ' = [asduQ EXCEPT ![s] = Append(@, p)] /\ Resolve(s, 0)
    BY <1>5 DEF Retry
  <2>2. /\ Stream(s)' = Append(Stream(s), p)
        /\ \A x \in Session : x # s => Stream(x)' = Stream(x)
    <3>1. asduQ[s] \in Seq(Nat) /\ sent[s] \in Seq(Nat)
      BY <1>3 DEF OrderTypes
    <3>2. sent[s] \o Append(asduQ[s], p) = Append(sent[s] \o asduQ[s], p)
      BY <1>3, <3>1, AppendSecond
    <3> QED
      BY <1>1, <1>3, <2>1, <3>2 DEF OrderTypes, Stream
  <2>3. HeldOnce(g)' /\ \A m : Kept(m, g)' <=> Kept(m, g) \/ m = p
    <3>1. \E x \in Joined(g) : /\ Stream(x)' = Append(Stream(x), p)
                               /\ \A y \in Joined(g) : y # x => Stream(y)' = Stream(y)
      BY <1>4, <2>2 DEF Joined
    <3> QED
      BY <1>1, <1>2, <1>3, <3>1, TakesOne
  <2>4. \A h \in Group : h # g => HeldOnce(h)' /\ \A m : Kept(m, h)' <=> Kept(m, h)
    <3> SUFFICES ASSUME NEW h \in Group, h # g
                 PROVE  HeldOnce(h)' /\ \A m : Kept(m, h)' <=> Kept(m, h)
      OBVIOUS
    <3>1. \A x \in Joined(h) : Stream(x)' = Stream(x)
      BY <1>4, <2>2 DEF Joined
    <3> QED
      BY <1>1, <1>3, <3>1, TakesNone
  <2> QED
    BY <1>1, <1>2, <2>1, <2>3, <2>4, ResolvedReport
<1>6. CASE GiveUp(s)
  <2>1. UNCHANGED asduQ /\ Resolve(s, 1)
    BY <1>6 DEF GiveUp
  <2>2. \A h \in Group : HeldOnce(h)' /\ \A m : Kept(m, h)' <=> Kept(m, h)
    <3> SUFFICES ASSUME NEW h \in Group
                 PROVE  HeldOnce(h)' /\ \A m : Kept(m, h)' <=> Kept(m, h)
      OBVIOUS
    <3>1. \A x \in Joined(h) : Stream(x)' = Stream(x)
      BY <1>1, <2>1 DEF Stream
    <3> QED
      BY <1>1, <1>3, <3>1, TakesNone
  <2> QED
    BY <1>1, <1>2, <2>1, <2>2, ResolvedReport
<1> QED
  BY <1>5, <1>6

\* The groups a broadcast is routed to: those that take it, those whose session has
\* a full queue, and those that lose it.
Taking == {g \in Group : RouteTo(g, published + 1) \in {"Sent", "Buffered"}}
Full   == {g \in Group : RouteTo(g, published + 1) = "BufferFull"}
Losing == {g \in Group : RouteTo(g, published + 1) \in {"Closed", "Unencodable", "Lost"}}

\* What a broadcast puts where: each group that takes it holds it in one place.
LEMMA PublishTakes ==
    ASSUME FixedGroups, AllInv, NEW wait \in BOOLEAN, Publish(wait), NEW g \in Group
    PROVE  /\ HeldOnce(g)'
           /\ \A m : Kept(m, g)' <=> Kept(m, g) \/ (g \in Taking /\ m = published + 1)
<1> DEFINE n == published + 1
           Takes(s, h) == Receiver(h) = s /\ RouteTo(h, n) = "Sent"
<1>1. /\ asduQ' = [s \in Session |-> IF \E h \in Group : Takes(s, h)
                                       THEN Append(asduQ[s], n) ELSE asduQ[s]]
      /\ buffer' = [h \in Group |-> IF RouteTo(h, n) = "Buffered"
                                      THEN Append(buffer[h], n) ELSE buffer[h]]
      /\ published' = n /\ UNCHANGED sent
  BY DEF Publish, Route, sessionVars, Exists, FixedGroups
<1>2. /\ n \in Nat /\ published \in Nat /\ published <= n /\ n <= n /\ ~(n <= published)
      /\ OrderTypes /\ HeldOnce(g)
  BY DEF AllInv, OrderInv, OrderTypes, ReportInv
<1> HIDE DEF n, Takes
<1>3. ~Kept(n, g)
  BY <1>2 DEF HeldOnce
<1>4. \A s \in Session : \A h \in Group : Takes(s, h) =>
        h \in Admit(s) /\ Receiver(h) # NoSession
  <2>1. \A h \in Group : Receiver(h) # NoSession => h \in Admit(Receiver(h))
    BY DEF Receiver, AllInv, SInv, CurrentIsMember, OrderInv, Admitted
  <2> QED
    BY <2>1, RedundancyAssumption DEF Takes
<1>5. \A s \in Session :
        /\ (\E h \in Group : Takes(s, h)) => Stream(s)' = Append(Stream(s), n)
        /\ ~(\E h \in Group : Takes(s, h)) => Stream(s)' = Stream(s)
  <2> SUFFICES ASSUME NEW s \in Session
               PROVE  /\ (\E h \in Group : Takes(s, h)) => Stream(s)' = Append(Stream(s), n)
                      /\ ~(\E h \in Group : Takes(s, h)) => Stream(s)' = Stream(s)
    OBVIOUS
  <2>1. asduQ[s] \in Seq(Nat) /\ sent[s] \in Seq(Nat)
    BY <1>2 DEF OrderTypes
  <2>2. sent[s] \o Append(asduQ[s], n) = Append(sent[s] \o asduQ[s], n)
    BY <1>2, <2>1, AppendSecond
  <2> QED
    BY <1>1, <2>2 DEF Stream
<1>6. \A x \in Joined(g) : \A h \in Group : Takes(x, h) => h = g
  BY <1>4, AdmitOne DEF Joined
<1>7. CASE RouteTo(g, n) = "Sent"
  <2>1. Receiver(g) # NoSession /\ Receiver(g) \in Session
    BY <1>7 DEF RouteTo, Enqueued, Receiver, AllInv, SInv, GroupTypes
  <2>2. PICK s \in Session : Takes(s, g)
    BY <1>7, <2>1 DEF Takes
  <2>3. s \in Joined(g) /\ Stream(s)' = Append(Stream(s), n)
    BY <1>4, <1>5, <2>2 DEF Joined
  <2>4. \A x \in Joined(g) : x # s => Stream(x)' = Stream(x)
    BY <1>5, <1>6, <2>2 DEF Joined, Takes
  <2>5. buffer'[g] = buffer[g]
    BY <1>1, <1>7
  <2>6. published' \in Nat /\ published <= published' /\ n <= published'
    BY <1>1, <1>2
  <2>7. HeldOnce(g)' /\ \A m : Kept(m, g)' <=> Kept(m, g) \/ m = n
    BY <1>2, <1>3, <2>3, <2>4, <2>5, <2>6, TakesOne
  <2> QED
    BY <1>7, <2>7 DEF Taking, n
<1>8. CASE RouteTo(g, n) = "Buffered"
  <2>1. \A x \in Joined(g) : Stream(x)' = Stream(x)
    BY <1>5, <1>6, <1>8 DEF Joined, Takes
  <2>2. buffer'[g] = Append(buffer[g], n)
    BY <1>1, <1>8
  <2>3. published' \in Nat /\ published <= published' /\ n <= published'
    BY <1>1, <1>2
  <2>4. HeldOnce(g)' /\ \A m : Kept(m, g)' <=> Kept(m, g) \/ m = n
    BY <1>2, <1>3, <2>1, <2>2, <2>3, TakesOne
  <2> QED
    BY <1>8, <2>4 DEF Taking, n
<1>9. CASE g \notin Taking
  <2>1. RouteTo(g, n) # "Sent" /\ RouteTo(g, n) # "Buffered"
    BY <1>9 DEF Taking, n
  <2>2. \A x \in Joined(g) : Stream(x)' = Stream(x)
    BY <1>5, <1>6, <2>1 DEF Joined, Takes
  <2>3. buffer'[g] = buffer[g] /\ published' \in Nat /\ published <= published'
    BY <1>1, <1>2, <2>1
  <2>4. HeldOnce(g)' /\ \A m : Kept(m, g)' <=> Kept(m, g)
    BY <1>2, <2>2, <2>3, TakesNone
  <2> QED
    BY <1>9, <2>4
<1> QED
  BY <1>7, <1>8, <1>9 DEF Taking, n

\* The groups asked are those that take, are full or lose.
LEMMA AskedAre ==
    ASSUME FixedGroups
    PROVE  /\ IsFiniteSet(Asked(published + 1)) /\ IsFiniteSet(Full) /\ IsFiniteSet(Losing)
           /\ Asked(published + 1) \subseteq Group /\ Taking \subseteq Group
           /\ With(published + 1, {"BufferFull"}) = Full /\ With(published + 1, {"Closed", "Unencodable", "Lost"}) = Losing
           /\ Cardinality(Asked(published + 1)) = Cardinality(Taking) + Cardinality(Full) + Cardinality(Losing)
           /\ Cardinality(Losing \cup Full) = Cardinality(Full) + Cardinality(Losing)
           /\ Cardinality(Asked(published + 1)) <= Cardinality(Group)
           /\ BufferSize > 0 => Asked(published + 1) = Group
<1>1. \A g \in Group : /\ Exists(g)
                       /\ RouteTo(g, published + 1) \in {"Closed", "Unencodable", "Sent", "BufferFull",
                                                      "Skipped", "Buffered", "Lost"}
                       /\ BufferSize > 0 => RouteTo(g, published + 1) # "Skipped"
  BY RedundancyAssumption DEF Exists, FixedGroups, RouteTo, Enqueued
<1>2. /\ Asked(published + 1) \subseteq Group /\ Asked(published + 1) = Taking \cup (Losing \cup Full)
      /\ Taking \cap (Losing \cup Full) = {} /\ Losing \cap Full = {}
      /\ Taking \subseteq Group /\ Full \subseteq Group /\ Losing \subseteq Group
  BY <1>1 DEF Asked, Taking, Full, Losing
<1>3. With(published + 1, {"BufferFull"}) = Full /\ With(published + 1, {"Closed", "Unencodable", "Lost"}) = Losing
  BY <1>1 DEF With, Asked, Full, Losing
<1>4. BufferSize > 0 => Asked(published + 1) = Group
  BY <1>1 DEF Asked
<1>5. /\ IsFiniteSet(Group) /\ IsFiniteSet(Asked(published + 1)) /\ IsFiniteSet(Taking) /\ IsFiniteSet(Full)
      /\ IsFiniteSet(Losing) /\ IsFiniteSet(Losing \cup Full)
      /\ Cardinality(Asked(published + 1)) <= Cardinality(Group)
  <2>1. IsFiniteSet(Group)
    BY FinitelyMany
  <2>2. Losing \cup Full \subseteq Group
    BY <1>2
  <2> QED
    BY <1>2, <2>1, <2>2, FS_Subset
<1>6. \A S : IsFiniteSet(S) => Cardinality(S) \in Nat
  BY FS_CardinalityType
<1>7. \A S, T : IsFiniteSet(S) /\ IsFiniteSet(T) /\ S \cap T = {} =>
        Cardinality(S \cup T) = Cardinality(S) + Cardinality(T)
  <2> SUFFICES ASSUME NEW S, NEW T, IsFiniteSet(S), IsFiniteSet(T), S \cap T = {}
               PROVE  Cardinality(S \cup T) = Cardinality(S) + Cardinality(T)
    OBVIOUS
  <2>1. /\ Cardinality(S \cup T) = Cardinality(S) + Cardinality(T) - Cardinality(S \cap T)
        /\ Cardinality(S) \in Nat /\ Cardinality(T) \in Nat
    BY FS_Union, FS_CardinalityType
  <2>2. Cardinality(S \cap T) = 0
    BY FS_EmptySet
  <2> QED
    BY <2>1, <2>2
<1>8. Cardinality(Losing \cup Full) = Cardinality(Losing) + Cardinality(Full)
  BY <1>2, <1>5, <1>7
<1>9. Cardinality(Asked(published + 1)) = Cardinality(Taking) + Cardinality(Losing \cup Full)
  BY <1>2, <1>5, <1>7
<1>10. /\ Cardinality(Losing) \in Nat /\ Cardinality(Full) \in Nat
       /\ Cardinality(Taking) \in Nat
  BY <1>5, <1>6
<1>11. /\ Cardinality(Asked(published + 1)) = Cardinality(Taking) + Cardinality(Full) + Cardinality(Losing)
       /\ Cardinality(Losing \cup Full) = Cardinality(Full) + Cardinality(Losing)
  BY <1>8, <1>9, <1>10
<1> QED
  BY <1>2, <1>3, <1>4, <1>5, <1>11

\* A broadcast is reported at once, truly, or retried by the sessions of the groups
\* that are full.
LEMMA PublishReport ==
    ASSUME FixedGroups, AllInv, NEW wait \in BOOLEAN, Publish(wait)
    PROVE  ReportInv'
<1> DEFINE p == published + 1
           c == Cardinality(Asked(published + 1))
           f == Cardinality(IF wait THEN Losing ELSE Losing \cup Full)
           retry == IF wait THEN {Receiver(g) : g \in Full} ELSE {}
           o == Outcome(c, f)
<1>1. /\ retrying = {} /\ published' = p
      /\ routes' = [total |-> c, failed |-> f] /\ retrying' = retry
      /\ reported' = IF retry = {} THEN Append(reported, o) ELSE reported
  BY AskedAre DEF Publish
<1>2. /\ published \in Nat /\ p \in Nat /\ p > 0 /\ Len(reported) = published
      /\ reported \in Seq({"Ok", "NotActive", "Failed", "Partial"})
      /\ \A n \in 1 .. Len(reported) : TrueOutcome(reported[n], Takers(n))
      /\ \A g \in Group : HeldOnce(g)
  BY <1>1 DEF AllInv, OrderInv, OrderTypes, ReportInv
<1>3. /\ IsFiniteSet(Asked(published + 1)) /\ IsFiniteSet(Full) /\ IsFiniteSet(Losing)
      /\ Taking \subseteq Group /\ IsFiniteSet(Group) /\ IsFiniteSet(Taking)
      /\ IsFiniteSet(Losing \cup Full)
  BY AskedAre, FinitelyMany, FS_Subset, FS_Union
<1>4. /\ c \in Nat /\ f \in Nat
      /\ Cardinality(Taking) \in Nat /\ Cardinality(Full) \in Nat
      /\ c <= Cardinality(Group) /\ (BufferSize > 0 => c = Cardinality(Group))
  BY <1>3, AskedAre, FS_CardinalityType
<1>5. c = Cardinality(Taking) + (IF wait THEN Cardinality(Full) ELSE 0) + f
  <2>1. Cardinality(Losing) \in Nat
    BY <1>3, FS_CardinalityType
  <2>2. CASE wait
    BY <2>2, AskedAre
  <2>3. CASE ~wait
    BY <1>4, <2>1, <2>3, AskedAre
  <2> QED
    BY <2>2, <2>3
<1>6. \A g \in Group : Receiver(g) # NoSession => Receiver(g) \in Session /\ g \in Admit(Receiver(g))
  BY DEF Receiver, AllInv, SInv, GroupTypes, CurrentIsMember, OrderInv, Admitted
<1>7. \A g \in Full : /\ g \in Group /\ g \notin Taking
                      /\ Receiver(g) \in Session /\ g \in Admit(Receiver(g))
  <2>1. \A g \in Full : Receiver(g) # NoSession
    BY DEF Full, RouteTo, Enqueued
  <2> QED
    BY <1>6, <2>1 DEF Full, Taking
<1>8. /\ \A g \in Group : HeldOnce(g)'
      /\ \A g \in Group : \A m : Kept(m, g)' <=> Kept(m, g) \/ (g \in Taking /\ m = p)
  BY PublishTakes
<1>9. \A m : m = p => \A g \in Group : Kept(m, g)' <=> g \in Taking
  <2>1. \A g \in Group : ~Kept(p, g)
    BY <1>2 DEF HeldOnce
  <2> QED
    BY <1>8, <2>1
<1> HIDE DEF p, c, f, o
<1>10. \A n \in 1 .. Len(reported) : {g \in Group : Kept(n, g)'} = Takers(n)
  <2>1. \A n \in 1 .. Len(reported) : n # p
    BY <1>2 DEF p
  <2> QED
    BY <1>8, <2>1 DEF Takers
<1>11. routes' \in [total : Nat, failed : Nat] /\ retrying' \subseteq Session
  BY <1>1, <1>4, <1>7
<1>12. CASE retry = {}
  <2>1. c = Cardinality(Taking) + f
    <3>1. wait => Full = {}
      BY <1>12
    <3>2. Full = {} => Cardinality(Full) = 0
      BY FS_EmptySet
    <3> QED
      BY <1>4, <1>5, <3>1, <3>2
  <2>2. o \in {"Ok", "NotActive", "Failed", "Partial"} /\ TrueOutcome(o, Taking)
    BY <1>3, <1>4, <2>1, OutcomeIsTrue DEF o
  <2>3. /\ reported' \in Seq({"Ok", "NotActive", "Failed", "Partial"})
        /\ Len(reported') = p /\ reported'[p] = o
        /\ \A n \in 1 .. Len(reported) : reported'[n] = reported[n]
    BY <1>1, <1>2, <1>12, <2>2 DEF p
  <2>4. ASSUME NEW n \in 1 .. Len(reported')
        PROVE  TrueOutcome(reported'[n], {g \in Group : Kept(n, g)'})
    <3>1. CASE n = p
      <4>1. {g \in Group : Kept(n, g)'} = Taking
        BY <1>3, <1>9, <3>1
      <4> QED
        BY <2>2, <2>3, <3>1, <4>1
    <3>2. CASE n # p
      <4>1. n \in 1 .. Len(reported)
        BY <1>2, <2>3, <3>2 DEF p
      <4> QED
        BY <1>2, <1>10, <2>3, <4>1
    <3> QED
      BY <3>1, <3>2
  <2>5. \A n \in 1 .. Len(reported') : TrueOutcome(reported[n], Takers(n))'
    BY <2>4 DEF TrueOutcome, Takers
  <2> QED
    BY <1>1, <1>8, <1>11, <1>12, <2>3, <2>5 DEF ReportInv
<1>13. CASE retry # {}
  <2>1. wait /\ reported' = reported /\ retry = {Receiver(g) : g \in Full}
    BY <1>1, <1>13
  <2>2. \A n \in 1 .. Len(reported) : TrueOutcome(reported[n], Takers(n))'
    BY <1>2, <1>10, <2>1 DEF TrueOutcome, Takers
  <2>3. Takers(published)' = Taking
    BY <1>1, <1>3, <1>9 DEF Takers
  <2>4. Owing' = Full
    <3>1. Owing' = {g \in Group : \E k \in Full : g \in Admit(Receiver(k))}
      BY <1>1, <2>1 DEF Owing
    <3>2. \A k \in Full : \A g \in Admit(Receiver(k)) : g = k
      BY <1>7, AdmitOne
    <3> QED
      BY <1>7, <3>1, <3>2
  <2>5. \A s \in retrying' : \E g \in Group : g \in Admit(s) /\ ~Kept(published, g)'
    BY <1>1, <1>7, <1>9, <2>1
  <2>6. \A s, x \in retrying' : Admit(s) \cap Admit(x) # {} => s = x
    <3> SUFFICES ASSUME NEW s \in retrying', NEW x \in retrying', NEW h \in Admit(s) \cap Admit(x)
                 PROVE  s = x
      OBVIOUS
    <3>1. PICK g \in Full : s = Receiver(g)
      BY <1>1, <2>1
    <3>2. PICK k \in Full : x = Receiver(k)
      BY <1>1, <2>1
    <3>3. g = h /\ k = h
      BY <1>7, <3>1, <3>2, AdmitOne
    <3> QED
      BY <3>1, <3>2, <3>3
  <2>7. /\ published' > 0 /\ Len(reported') = published' - 1
        /\ routes'.total = Cardinality(Takers(published)') + Cardinality(Owing') + routes'.failed
        /\ routes'.total <= Cardinality(Group)
        /\ BufferSize > 0 => routes'.total = Cardinality(Group)
    <3>1. routes'.total = c /\ routes'.failed = f
      BY <1>1
    <3>2. c = Cardinality(Taking) + Cardinality(Full) + f
      BY <1>5, <2>1
    <3> QED
      BY <1>1, <1>2, <1>4, <2>1, <2>3, <2>4, <3>1, <3>2 DEF p
  <2>8. Retried'
    BY <2>5, <2>6, <2>7 DEF Retried
  <2> QED
    BY <1>1, <1>2, <1>8, <1>11, <1>13, <2>1, <2>2, <2>8 DEF ReportInv
<1> QED
  BY <1>12, <1>13

\* Every step keeps ReportInv.
LEMMA NextReport == FixedGroups /\ AllInv /\ [Next]_vars => ReportInv'
<1> SUFFICES ASSUME FixedGroups, AllInv, [Next]_vars PROVE ReportInv'
  OBVIOUS
<1>1. ASSUME NEW l \in Listener,
             Count(l) \/ StopListening(l) \/ \E s \in Session : Accept(l, s)
      PROVE  ReportInv'
  <2>1. UNCHANGED <<asduQ, sent, buffer, published, routes, retrying, reported>>
    BY <1>1 DEF Count, StopListening, Accept, groupVars, sessionVars, pubVars
  <2> QED
    BY <2>1, NothingMoves DEF AllInv, Stream
<1>2. CASE Close \/ UNCHANGED vars
  <2>1. UNCHANGED <<asduQ, sent, buffer, published, routes, retrying, reported>>
    BY <1>2 DEF Close, vars, groupVars, sessionVars, pubVars
  <2> QED
    BY <2>1, NothingMoves DEF AllInv, Stream
<1>3. ASSUME NEW s \in Session, SessionStep(s)
      PROVE  ReportInv'
  BY <1>3, ActivatedReport, QuietReport
<1> QED
  BY <1>1, <1>2, <1>3, RetryReport, PublishReport DEF Next

\* A group holds an ASDU where one of its copies is, and two copies would break HeldOnce.
LEMMA CopiesAreKept ==
    ASSUME OrderTypes, NEW g \in Group, HeldOnce(g), NEW n
    PROVE  /\ Copies(n, g) # {} <=> Kept(n, g)
           /\ \A c, d \in Copies(n, g) : c = d
<1>1. NoSession \notin Joined(g)
  BY RedundancyAssumption DEF Joined
<1>2. \A c : c \in Copies(n, g) <=>
        \E x \in Joined(g) \cup {NoSession} : \E i \in 1 .. Len(Held(x, g)) :
            c = <<x, i>> /\ Held(x, g)[i] = n
  BY DEF Copies
<1>3. /\ Held(NoSession, g) = buffer[g]
      /\ \A x \in Joined(g) : Held(x, g) = Stream(x)
  BY <1>1 DEF Held
<1>4. Copies(n, g) # {} <=> \E x \in Joined(g) \cup {NoSession} : n \in Elems(Held(x, g))
  BY <1>2 DEF Elems
<1>5. Copies(n, g) # {} <=> Kept(n, g)
  BY <1>3, <1>4 DEF Kept
<1>6. \A x \in Joined(g) \cup {NoSession} : Distinct(Held(x, g))
  BY <1>3 DEF HeldOnce
<1>7. \A x, y \in Joined(g) \cup {NoSession} : x # y => Disjoint(Held(x, g), Held(y, g))
  BY <1>3 DEF HeldOnce, Disjoint
<1>8. ASSUME NEW c \in Copies(n, g), NEW d \in Copies(n, g)
      PROVE  c = d
  <2>1. PICK x \in Joined(g) \cup {NoSession} :
            \E i \in 1 .. Len(Held(x, g)) : c = <<x, i>> /\ Held(x, g)[i] = n
    BY <1>2
  <2>2. PICK y \in Joined(g) \cup {NoSession} :
            \E j \in 1 .. Len(Held(y, g)) : d = <<y, j>> /\ Held(y, g)[j] = n
    BY <1>2
  <2>3. n \in Elems(Held(x, g)) \cap Elems(Held(y, g))
    BY <2>1, <2>2 DEF Elems
  <2>4. x = y
    BY <1>7, <2>3 DEF Disjoint
  <2>5. Distinct(Held(x, g))
    BY <1>6
  <2> QED
    BY <2>1, <2>2, <2>4, <2>5 DEF Distinct
<1> QED
  BY <1>5, <1>8

\* Through switchovers, replays, retries and departures each group holds a broadcast
\* at most once, and what the application was told of it is true (Groups::route,
\* Groups::activated, Server::send and send_wait).
THEOREM ReportCorrect ==
    ASSUME FixedGroups
    PROVE  Spec => []ReportIsTrue
<1>1. AllInv => ReportIsTrue
  <2> SUFFICES ASSUME AllInv, NEW n \in 1 .. Len(reported)
               PROVE  LET kept == {g \in Group : Copies(n, g) # {}} IN
                      /\ \A g \in Group : \A c, d \in Copies(n, g) : c = d
                      /\ reported[n] \in {"Ok", "Partial"} <=> kept # {}
                      /\ reported[n] = "Ok" /\ BufferSize > 0 => kept = Group
                      /\ reported[n] = "Partial" => kept # Group
    BY DEF ReportIsTrue
  <2>1. \A g \in Group : /\ Copies(n, g) # {} <=> Kept(n, g)
                         /\ \A c, d \in Copies(n, g) : c = d
    BY CopiesAreKept DEF AllInv, OrderInv, ReportInv
  <2>2. {g \in Group : Copies(n, g) # {}} = Takers(n)
    BY <2>1 DEF Takers
  <2>3. TrueOutcome(reported[n], Takers(n))
    BY DEF AllInv, ReportInv
  <2> QED
    BY <2>1, <2>2, <2>3 DEF TrueOutcome
<1>2. Init => AllInv
  BY InitSInv, InitOrder, InitReport DEF AllInv
<1>3. AllInv /\ [Next]_vars => AllInv'
  BY NextSInv, NextOrder, NextReport DEF AllInv
<1> QED
  BY <1>1, <1>2, <1>3, PTL DEF Spec
==============================================================================
