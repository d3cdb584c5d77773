--------------------------- MODULE Client104Proofs ---------------------------
(***************************************************************************)
(* What a master or a ServerSpecial publishes is its current connection,   *)
(* for every number of tasks that read it and both kinds of lock.          *)
(***************************************************************************)
EXTENDS Client104, TLAPS

\* The inductive invariant: connections are numbered from 1, and only the task
\* between publication and retraction leaves one published.
CInv == conn \in 0 .. 2 /\ PublishedIsCurrent

\* CInv holds initially.
LEMMA InitCInv == Init => CInv
BY DEF Init, CInv, PublishedIsCurrent

\* A new connection finds nothing published.
LEMMA RunCInv == CInv /\ RunConnection => CInv'
<1> SUFFICES ASSUME CInv, RunConnection PROVE CInv'
  OBVIOUS
<1>1. published = 0
  BY DEF CInv, PublishedIsCurrent, RunConnection
<1>2. conn' = (conn % 2) + 1 /\ (conn % 2) \in 0 .. 1
  BY DEF CInv, RunConnection
<1> QED
  BY <1>1, <1>2 DEF CInv, PublishedIsCurrent, RunConnection

\* Every step keeps CInv.
LEMMA NextCInv == CInv /\ [Next]_vars => CInv'
<1> SUFFICES ASSUME CInv, [Next]_vars PROVE CInv'
  OBVIOUS
<1> USE DEF CInv, PublishedIsCurrent
<1>1. CASE \/ Start \/ Subscribe \/ LoopHead \/ HearClose \/ Connected \/ ConnectFailed
           \/ Slept \/ RunReturns \/ JoinReader
  BY <1>1
     DEF Start, Subscribe, LoopHead, HearClose, Connected, ConnectFailed, Slept, RunReturns,
         JoinReader, GoTo, connVars
<1>2. CASE Close
  BY <1>2 DEF Close
<1>3. CASE RunConnection
  BY <1>3, RunCInv
<1>4. CASE Activate \/ OnActivated \/ Deactivate \/ EndConnection \/ Unpublish
  BY <1>4 DEF Activate, OnActivated, Deactivate, EndConnection, Unpublish, taskVars
<1>5. CASE \E w \in Waiter : Arm(w) \/ Lock(w) \/ Check(w) \/ Await(w) \/ Wake(w)
  BY <1>5 DEF Arm, Lock, Check, Await, Wake, Move, taskVars, connVars
<1>6. CASE UNCHANGED vars
  BY <1>6 DEF vars, taskVars, connVars
<1> QED
  BY <1>1, <1>2, <1>3, <1>4, <1>5, <1>6 DEF Next

\* What the application reaches is the connection that runs: run_forever
\* retracts one before it dials the next.
THEOREM PublishedCorrect == Spec => []PublishedIsCurrent
<1>1. CInv => PublishedIsCurrent
  BY DEF CInv
<1> QED
  BY <1>1, InitCInv, NextCInv, PTL DEF Spec
==============================================================================
