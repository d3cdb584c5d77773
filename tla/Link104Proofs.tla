---------------------------- MODULE Link104Proofs ----------------------------
(***************************************************************************)
(* Safety of the two ends of a link, for every modulus, k, w and queue     *)
(* capacity, and every number of ASDUs and requests.                       *)
(***************************************************************************)
EXTENDS Link104, Connection104Proofs

\* The inductive invariant: that of the drivers, which needs nothing of the
\* peer, and the types of what Link104 adds.
IInv ==
    /\ CoreInv
    /\ QueuesInv
    /\ accepted \in [Conn -> Nat]
    /\ requests \in Nat

\* There are two ends, and each is the peer of the other.
LEMMA PeerType ==
    ASSUME NEW c \in Conn
    PROVE  Peer(c) \in Conn /\ Peer(c) # c
<1>1. \E x \in Conn : x # c
  BY LinkAssumption
<1> QED
  BY <1>1 DEF Peer

\* The master is one of them.
LEMMA MasterType == Master \in Conn
<1>1. \E c \in Conn : Role[c] = "Master"
  BY LinkAssumption
<1> QED
  BY <1>1 DEF Master

\* IInv holds initially.
LEMMA LinkInit == Init => IInv
BY ConnInitInv DEF Init, IInv

\* Every step keeps IInv.
LEMMA LinkNext == IInv /\ [Next]_vars => IInv'
<1> SUFFICES ASSUME IInv, [Next]_vars
             PROVE  IInv'
  OBVIOUS
<1> USE DEF IInv
<1>1. line \in Lines /\ packs \in [Conn -> Seq(Asdu)]
  BY DEF CoreInv, QueuesInv, Lines
<1>2. ASSUME NEW ctrl \in {"StartDt", "StopDt"}, StartStop(ctrl)
      PROVE  IInv'
  BY <1>2, MasterType, ApplicationInv DEF StartStop
<1>3. ASSUME NEW c \in Conn, Submit(c)
      PROVE  IInv'
  <2>1. accepted[c] + 1 \in Asdu
    <3>1. MaxAsdu[c] \in Nat /\ accepted[c] \in Nat /\ accepted[c] < MaxAsdu[c]
      BY <1>3, LinkAssumption DEF Submit
    <3> QED
      BY <3>1, LinkAssumption
  <2>2. CoreInv' /\ QueuesInv'
    BY <1>3, <2>1, ApplicationInv DEF Submit
  <2> QED
    BY <1>3, <2>2 DEF Submit
<1>4. ASSUME NEW c \in Conn, DriverSend(c)
      PROVE  IInv'
  BY <1>1, <1>4, SendAsduInv, SendCtrlInv DEF DriverSend
<1>5. ASSUME NEW c \in Conn, Read(c)
      PROVE  IInv'
  <2> DEFINE f  == Head(line[Peer(c)])
             ln == [line EXCEPT ![Peer(c)] = Tail(@)]
  <2>1. line[Peer(c)] \in Seq(Apdu) /\ line[Peer(c)] # <<>>
    BY <1>1, <1>5, PeerType DEF Read, Lines
  <2>2. f \in Apdu /\ ln \in Lines
    <3>1. f \in Apdu /\ Tail(line[Peer(c)]) \in Seq(Apdu)
      BY <2>1
    <3> QED
      BY <1>1, <3>1, PeerType DEF Lines
  <2>3. OnFrame(c, f, ln, packs) /\ UNCHANGED <<accepted, requests>>
    BY <1>5 DEF Read
  <2> HIDE DEF f, ln
  <2> QED
    BY <1>1, <2>2, <2>3, OnFrameInv
<1>6. ASSUME NEW c \in Conn, ReadEof(c)
      PROVE  IInv'
  BY <1>1, <1>6, CloseInv DEF ReadEof, PeerClosed, CloseReason
<1>7. ASSUME NEW c \in Conn, Timer(c)
      PROVE  IInv'
  <2>1. CASE TickT1(c, line) /\ UNCHANGED <<accepted, requests>>
    BY <1>1, <2>1, CloseInv DEF TickT1, CloseReason
  <2>2. CASE /\ \E t2, t3 \in BOOLEAN : Tick(c, t2, t3, line)
             /\ UNCHANGED <<accepted, requests>>
    BY <1>1, <2>2, TickInv
  <2> QED
    BY <1>7, <2>1, <2>2 DEF Timer
<1>8. ASSUME NEW c \in Conn, Stop(c)
      PROVE  IInv'
  BY <1>1, <1>8, CloseInv DEF Stop, Shutdown, CloseReason
<1>9. CASE UNCHANGED vars
  BY <1>9 DEF vars, connVars, CoreInv, QueuesInv
<1> QED
  BY <1>2, <1>3, <1>4, <1>5, <1>6, <1>7, <1>8, <1>9 DEF Next

\* IInv is an invariant of the link.
THEOREM LinkInvariance == Spec => []IInv
<1> QED
  BY LinkInit, LinkNext, PTL DEF Spec

\* Every variable of the link keeps its type.
THEOREM LinkTypeCorrect == Spec => []TypeOK
<1>1. IInv => TypeOK
  BY DEF IInv, CoreInv, QueuesInv, TypeOK
<1> QED
  BY <1>1, LinkInvariance, PTL

-----------------------------------------------------------------------------
(***************************************************************************)
(* One direction of data transfer.  The numbers on the line wrap, so each  *)
(* is measured from where its reader stands: the sequence number of an     *)
(* I-frame from the number expected next, an acknowledgement from the last *)
(* one applied.  Measured so, I-frames rise by one and acknowledgements    *)
(* never fall.                                                             *)
(***************************************************************************)

\* A number r inside the window from a to s is as far from s as is left.
LEMMA CountRest ==
    ASSUME NEW a \in SeqNo, NEW r \in SeqNo, NEW s \in SeqNo,
           SeqNoCount(a, r) <= SeqNoCount(a, s)
    PROVE  SeqNoCount(r, s) = SeqNoCount(a, s) - SeqNoCount(a, r)
BY ModulusAssumption DEF SeqNo, SeqNoCount

\* The I-frames on ln are the ASDUs after the d-th up to the s-th, in order and
\* each once, numbered on from rcv.
Ordered(ln, rcv, d, s) ==
    /\ \A i \in 1 .. Len(ln) : ln[i].fmt = "I" =>
           /\ ln[i].asdu \in (d + 1) .. s
           /\ SeqNoCount(rcv, ln[i].send) = ln[i].asdu - d - 1
    /\ \A i, j \in 1 .. Len(ln) :
           i < j /\ ln[i].fmt = "I" /\ ln[j].fmt = "I" => ln[i].asdu < ln[j].asdu
    /\ \A n \in (d + 1) .. s : \E i \in 1 .. Len(ln) : ln[i].fmt = "I" /\ ln[i].asdu = n

\* I-frames and S-frames acknowledge.
IsAck(f) == f.fmt \in {"I", "S"}

\* The acknowledgements on ln do not fall, and stay within n frames of ack.
AcksRise(ln, ack, n) ==
    /\ \A i \in 1 .. Len(ln) : IsAck(ln[i]) => SeqNoCount(ack, ln[i].recv) <= n
    /\ \A i, j \in 1 .. Len(ln) : i < j /\ IsAck(ln[i]) /\ IsAck(ln[j]) =>
           SeqNoCount(ack, ln[i].recv) <= SeqNoCount(ack, ln[j].recv)

\* What is first on the line of Apdus, and what remains.
LEMMA HeadTail ==
    ASSUME NEW ln \in Seq(Apdu), ln # <<>>
    PROVE  /\ Head(ln) \in Apdu /\ Head(ln) = ln[1] /\ 1 \in 1 .. Len(ln)
           /\ Tail(ln) \in Seq(Apdu) /\ Len(Tail(ln)) = Len(ln) - 1
           /\ Len(ln) \in Nat
           /\ \A i \in 1 .. Len(Tail(ln)) : Tail(ln)[i] = ln[i + 1] /\ i + 1 \in 1 .. Len(ln)
OBVIOUS

\* The parts of a line that was appended to.
LEMMA ConcatParts ==
    ASSUME NEW ln \in Seq(Apdu), NEW out \in Seq(Apdu)
    PROVE  /\ ln \o out \in Seq(Apdu) /\ Len(ln) \in Nat /\ Len(out) \in Nat
           /\ Len(ln \o out) = Len(ln) + Len(out)
           /\ \A i \in 1 .. Len(ln) : (ln \o out)[i] = ln[i] /\ i \in 1 .. Len(ln \o out)
           /\ \A i \in 1 .. Len(ln \o out) : i \notin 1 .. Len(ln) =>
                  /\ i - Len(ln) \in 1 .. Len(out)
                  /\ (ln \o out)[i] = out[i - Len(ln)]
OBVIOUS

\* The sequence number and acknowledgement an APDU carries.
LEMMA ApduFields ==
    ASSUME NEW f \in Apdu
    PROVE  /\ IsAck(f) => f.recv \in SeqNo
           /\ f.fmt = "I" => f.send \in SeqNo /\ f.asdu \in Nat
<1>1. CASE f \in [fmt : {"I"}, send : SeqNo, recv : SeqNo, asdu : Asdu \cup {Garbage}]
  <2>1. f.send \in SeqNo /\ f.recv \in SeqNo /\ f.asdu \in Asdu \cup {Garbage}
    BY <1>1
  <2>2. \A a \in Asdu \cup {Garbage} : a \in Nat
    BY AsduAssumption DEF Garbage
  <2> QED
    BY <2>1, <2>2
<1>2. CASE f \in [fmt : {"S"}, recv : SeqNo]
  BY <1>2
<1>3. CASE f \in [fmt : {"U"}, func : UFunction] \cup {Malformed}
  BY <1>3 DEF IsAck, Malformed
<1> QED
  BY <1>1, <1>2, <1>3 DEF Apdu

\* The first I-frame on the line is the one expected, and leaves the rest in order.
LEMMA OrderedHead ==
    ASSUME NEW ln \in Seq(Apdu), NEW rcv \in SeqNo, NEW d \in Nat, NEW s \in Nat,
           s - d <= M - 1, Ordered(ln, rcv, d, s), ln # <<>>, Head(ln).fmt = "I"
    PROVE  /\ Head(ln).asdu = d + 1 /\ d + 1 <= s
           /\ Head(ln).send = rcv
           /\ Ordered(Tail(ln), Succ(rcv), d + 1, s)
<1> USE HeadTail
<1> DEFINE h == Head(ln)
           t == Tail(ln)
<1>1. h \in Apdu /\ h.send \in SeqNo /\ h.asdu \in Nat
  BY ApduFields
<1>2. h.asdu \in (d + 1) .. s /\ SeqNoCount(rcv, h.send) = h.asdu - d - 1
  BY DEF Ordered
<1>3. h.asdu = d + 1
  <2>1. PICK i \in 1 .. Len(ln) : ln[i].fmt = "I" /\ ln[i].asdu = d + 1
    BY <1>1, <1>2 DEF Ordered
  <2>2. i # 1 => h.asdu < d + 1
    <3>1. 1 \in 1 .. Len(ln) /\ ln[1] = h
      OBVIOUS
    <3>2. \A j \in 1 .. Len(ln) : 1 < j /\ ln[j].fmt = "I" => h.asdu < ln[j].asdu
      BY <3>1 DEF Ordered
    <3>3. i # 1 => 1 < i
      BY <2>1
    <3> QED
      BY <2>1, <3>2, <3>3
  <2> QED
    BY <1>1, <1>2, <2>1, <2>2
<1>4. h.send = rcv
  BY <1>1, <1>2, <1>3, CountRange
<1>5. \A i \in 1 .. Len(t) : t[i].fmt = "I" =>
         /\ t[i].asdu \in (d + 2) .. s
         /\ SeqNoCount(Succ(rcv), t[i].send) = t[i].asdu - (d + 1) - 1
  <2> SUFFICES ASSUME NEW i \in 1 .. Len(t), t[i].fmt = "I"
               PROVE  /\ t[i].asdu \in (d + 2) .. s
                      /\ SeqNoCount(Succ(rcv), t[i].send) = t[i].asdu - (d + 1) - 1
    OBVIOUS
  <2>1. t[i] \in Apdu /\ t[i] = ln[i + 1] /\ i + 1 \in 1 .. Len(ln)
    OBVIOUS
  <2>2. /\ t[i].asdu \in (d + 1) .. s
        /\ SeqNoCount(rcv, t[i].send) = t[i].asdu - d - 1
    BY <2>1 DEF Ordered
  <2>3. h.asdu < t[i].asdu
    BY <2>1 DEF Ordered
  <2>4. t[i].send \in SeqNo /\ t[i].asdu \in Nat
    BY <2>1, ApduFields
  <2>5. SeqNoCount(rcv, Succ(rcv)) = 1 /\ Succ(rcv) \in SeqNo
    BY SuccCases, ModulusAssumption DEF SeqNo, SeqNoCount
  <2>6. SeqNoCount(Succ(rcv), t[i].send) = SeqNoCount(rcv, t[i].send) - 1
    BY <1>3, <2>2, <2>3, <2>4, <2>5, CountRest
  <2> QED
    BY <1>3, <2>2, <2>3, <2>4, <2>6
<1>6. \A i, j \in 1 .. Len(t) : i < j /\ t[i].fmt = "I" /\ t[j].fmt = "I" => t[i].asdu < t[j].asdu
  BY DEF Ordered
<1>7. \A n \in (d + 2) .. s : \E i \in 1 .. Len(t) : t[i].fmt = "I" /\ t[i].asdu = n
  <2> SUFFICES ASSUME NEW n \in (d + 2) .. s
               PROVE  \E i \in 1 .. Len(t) : t[i].fmt = "I" /\ t[i].asdu = n
    OBVIOUS
  <2>1. PICK i \in 1 .. Len(ln) : ln[i].fmt = "I" /\ ln[i].asdu = n
    BY DEF Ordered
  <2>2. i # 1
    BY <1>3, <2>1
  <2>3. i - 1 \in 1 .. Len(t) /\ t[i - 1] = ln[i]
    BY <2>2
  <2> QED
    BY <2>1, <2>3
<1>8. (d + 1) + 1 = d + 2 /\ d + 1 <= s
  BY <1>2, <1>3
<1>9. Ordered(t, Succ(rcv), d + 1, s)
  BY <1>5, <1>6, <1>7, <1>8 DEF Ordered
<1> QED
  BY <1>3, <1>4, <1>8, <1>9

\* Whatever else is taken first, the I-frames stay in order.
LEMMA OrderedSkip ==
    ASSUME NEW ln \in Seq(Apdu), NEW rcv, NEW d, NEW s,
           Ordered(ln, rcv, d, s), ln # <<>>, Head(ln).fmt # "I"
    PROVE  Ordered(Tail(ln), rcv, d, s)
<1> USE HeadTail
<1> DEFINE t == Tail(ln)
<1>1. \A n \in (d + 1) .. s : \E i \in 1 .. Len(t) : t[i].fmt = "I" /\ t[i].asdu = n
  <2> SUFFICES ASSUME NEW n \in (d + 1) .. s
               PROVE  \E i \in 1 .. Len(t) : t[i].fmt = "I" /\ t[i].asdu = n
    OBVIOUS
  <2>1. PICK i \in 1 .. Len(ln) : ln[i].fmt = "I" /\ ln[i].asdu = n
    BY DEF Ordered
  <2>2. i - 1 \in 1 .. Len(t) /\ t[i - 1] = ln[i]
    BY <2>1
  <2> QED
    BY <2>1, <2>2
<1>2. \A i, j \in 1 .. Len(t) : i < j /\ t[i].fmt = "I" /\ t[j].fmt = "I" => t[i].asdu < t[j].asdu
  BY DEF Ordered
<1> QED
  BY <1>1, <1>2 DEF Ordered

\* Emitting what is no I-frame leaves the I-frames in order.
LEMMA OrderedControl ==
    ASSUME NEW ln \in Seq(Apdu), NEW out \in Seq(Apdu), NEW r, ControlOnly(out, r),
           NEW rcv, NEW d, NEW s, Ordered(ln, rcv, d, s)
    PROVE  Ordered(ln \o out, rcv, d, s)
<1> DEFINE t == ln \o out
<1>1. \A i \in 1 .. Len(t) : t[i].fmt = "I" => i \in 1 .. Len(ln) /\ t[i] = ln[i]
  BY ConcatParts DEF ControlOnly
<1>2. \A i \in 1 .. Len(ln) : i \in 1 .. Len(t) /\ t[i] = ln[i]
  BY ConcatParts
<1> HIDE DEF t
<1> QED
  BY <1>1, <1>2 DEF Ordered, t

\* The next I-frame goes behind the others.
LEMMA OrderedAppend ==
    ASSUME NEW ln \in Seq(Apdu), NEW f \in Apdu, NEW rcv, NEW d \in Nat, NEW s \in Nat,
           d <= s, Ordered(ln, rcv, d, s),
           f.fmt = "I", f.asdu = s + 1, SeqNoCount(rcv, f.send) = s - d
    PROVE  Ordered(ln \o <<f>>, rcv, d, s + 1)
<1> DEFINE t == ln \o <<f>>
<1>1. \A i \in 1 .. Len(ln) : i \in 1 .. Len(t) /\ t[i] = ln[i]
  BY ConcatParts
<1>2. Len(t) \in 1 .. Len(t) /\ t[Len(t)] = f /\ Len(t) = Len(ln) + 1 /\ Len(ln) \in Nat
  OBVIOUS
<1>3. \A i \in 1 .. Len(t) : i # Len(t) => i \in 1 .. Len(ln)
  BY <1>2
<1> HIDE DEF t
<1>4. \A i \in 1 .. Len(t) : t[i].fmt = "I" =>
         /\ t[i].asdu \in (d + 1) .. (s + 1)
         /\ SeqNoCount(rcv, t[i].send) = t[i].asdu - d - 1
  <2> SUFFICES ASSUME NEW i \in 1 .. Len(t), t[i].fmt = "I"
               PROVE  /\ t[i].asdu \in (d + 1) .. (s + 1)
                      /\ SeqNoCount(rcv, t[i].send) = t[i].asdu - d - 1
    OBVIOUS
  <2>1. CASE i = Len(t)
    BY <1>2, <2>1
  <2>2. CASE i # Len(t)
    <3>1. i \in 1 .. Len(ln) /\ t[i] = ln[i]
      BY <1>1, <1>3, <2>2
    <3>2. ln[i].asdu \in (d + 1) .. s /\ SeqNoCount(rcv, ln[i].send) = ln[i].asdu - d - 1
      BY <3>1 DEF Ordered
    <3> QED
      BY <3>1, <3>2
  <2> QED
    BY <2>1, <2>2
<1>5. \A i, j \in 1 .. Len(t) : i < j /\ t[i].fmt = "I" /\ t[j].fmt = "I" => t[i].asdu < t[j].asdu
  <2> SUFFICES ASSUME NEW i \in 1 .. Len(t), NEW j \in 1 .. Len(t),
                      i < j, t[i].fmt = "I", t[j].fmt = "I"
               PROVE  t[i].asdu < t[j].asdu
    OBVIOUS
  <2>1. i \in 1 .. Len(ln) /\ t[i] = ln[i] /\ t[i].asdu \in (d + 1) .. s
    BY <1>1, <1>2, <1>3 DEF Ordered
  <2>2. CASE j = Len(t)
    BY <1>2, <2>1, <2>2
  <2>3. CASE j # Len(t)
    BY <1>1, <1>3, <2>1, <2>3 DEF Ordered
  <2> QED
    BY <2>2, <2>3
<1>6. \A n \in (d + 1) .. (s + 1) : \E i \in 1 .. Len(t) : t[i].fmt = "I" /\ t[i].asdu = n
  <2> SUFFICES ASSUME NEW n \in (d + 1) .. (s + 1)
               PROVE  \E i \in 1 .. Len(t) : t[i].fmt = "I" /\ t[i].asdu = n
    OBVIOUS
  <2>1. CASE n = s + 1
    BY <1>2, <2>1
  <2>2. CASE n # s + 1
    <3>1. n \in (d + 1) .. s
      BY <2>2
    <3> QED
      BY <1>1, <3>1 DEF Ordered
  <2> QED
    BY <2>1, <2>2
<1> QED
  BY <1>4, <1>5, <1>6 DEF Ordered, t

\* The first acknowledgement is at most n frames on, and the rest rise from it.
LEMMA AcksHead ==
    ASSUME NEW ln \in Seq(Apdu), NEW ack \in SeqNo, NEW n \in Nat,
           AcksRise(ln, ack, n), ln # <<>>, IsAck(Head(ln))
    PROVE  /\ SeqNoCount(ack, Head(ln).recv) <= n
           /\ AcksRise(Tail(ln), Head(ln).recv, n - SeqNoCount(ack, Head(ln).recv))
<1> USE HeadTail
<1> DEFINE h == Head(ln)
           t == Tail(ln)
           k == SeqNoCount(ack, h.recv)
<1>1. h.recv \in SeqNo /\ k <= n
  BY ApduFields DEF AcksRise
<1>2. ASSUME NEW i \in 1 .. Len(t), IsAck(t[i])
      PROVE  /\ t[i].recv \in SeqNo
             /\ SeqNoCount(h.recv, t[i].recv) = SeqNoCount(ack, t[i].recv) - k
             /\ SeqNoCount(ack, t[i].recv) <= n
  <2>1. t[i] \in Apdu /\ t[i] = ln[i + 1] /\ i + 1 \in 1 .. Len(ln)
    OBVIOUS
  <2>2. t[i].recv \in SeqNo
    BY <1>2, <2>1, ApduFields
  <2>3. k <= SeqNoCount(ack, t[i].recv) /\ SeqNoCount(ack, t[i].recv) <= n
    BY <1>2, <2>1 DEF AcksRise
  <2> QED
    BY <1>1, <2>2, <2>3, CountRest
<1>3. ASSUME NEW i \in 1 .. Len(t), IsAck(t[i])
      PROVE  SeqNoCount(ack, t[i].recv) \in Nat
  <2>1. t[i].recv \in SeqNo
    BY <1>2, <1>3
  <2> QED
    BY <2>1, CountRange
<1>4. k \in Nat
  BY <1>1, CountRange
<1>5. \A i, j \in 1 .. Len(t) : i < j /\ IsAck(t[i]) /\ IsAck(t[j]) =>
         SeqNoCount(ack, t[i].recv) <= SeqNoCount(ack, t[j].recv)
  BY DEF AcksRise
<1> HIDE DEF h, t, k
<1>6. AcksRise(t, h.recv, n - k)
  BY <1>2, <1>3, <1>4, <1>5 DEF AcksRise
<1> QED
  BY <1>1, <1>6 DEF h, t, k

\* Taking what acknowledges nothing leaves the acknowledgements as they are.
LEMMA AcksSkip ==
    ASSUME NEW ln \in Seq(Apdu), NEW ack, NEW n, AcksRise(ln, ack, n), ln # <<>>
    PROVE  AcksRise(Tail(ln), ack, n)
<1> USE HeadTail
<1> QED
  BY DEF AcksRise

\* One more frame is received and may be acknowledged.
LEMMA AcksGrow ==
    ASSUME NEW ln \in Seq(Apdu), NEW ack \in SeqNo, NEW n \in Nat, AcksRise(ln, ack, n)
    PROVE  AcksRise(ln, ack, n + 1)
<1>1. ASSUME NEW i \in 1 .. Len(ln), IsAck(ln[i])
      PROVE  SeqNoCount(ack, ln[i].recv) <= n + 1
  <2>1. ln[i].recv \in SeqNo
    BY <1>1, ApduFields
  <2>2. SeqNoCount(ack, ln[i].recv) \in Nat
    BY <2>1, CountRange
  <2> QED
    BY <1>1, <2>2 DEF AcksRise
<1> QED
  BY <1>1 DEF AcksRise

\* An end acknowledges up to what it has received, at least as much as before.
LEMMA AcksAppend ==
    ASSUME NEW ln \in Seq(Apdu), NEW out \in Seq(Apdu), NEW ack \in SeqNo, NEW r \in SeqNo,
           AcksRise(ln, ack, SeqNoCount(ack, r)),
           \A i \in 1 .. Len(out) : IsAck(out[i]) => out[i].recv = r
    PROVE  AcksRise(ln \o out, ack, SeqNoCount(ack, r))
<1> DEFINE t == ln \o out
<1>1. \A i \in 1 .. Len(t) : \/ i \in 1 .. Len(ln) /\ t[i] = ln[i]
                             \/ i > Len(ln) /\ (IsAck(t[i]) => t[i].recv = r)
  BY ConcatParts
<1>2. SeqNoCount(ack, r) \in Nat /\ Len(ln) \in Nat /\ Len(t) \in Nat
  BY CountRange, ConcatParts
<1>3. \A i \in 1 .. Len(t) : IsAck(t[i]) => SeqNoCount(ack, t[i].recv) <= SeqNoCount(ack, r)
  BY <1>1, <1>2 DEF AcksRise
<1> HIDE DEF t
<1>4. ASSUME NEW i \in 1 .. Len(t), NEW j \in 1 .. Len(t), i < j, IsAck(t[i]), IsAck(t[j])
      PROVE  SeqNoCount(ack, t[i].recv) <= SeqNoCount(ack, t[j].recv)
  <2>1. CASE j \in 1 .. Len(ln) /\ t[j] = ln[j]
    <3>1. i \in 1 .. Len(ln) /\ t[i] = ln[i]
      BY <1>1, <1>2, <1>4, <2>1
    <3> QED
      BY <1>4, <2>1, <3>1 DEF AcksRise
  <2>2. CASE t[j].recv = r
    BY <1>3, <1>4, <2>2
  <2> QED
    BY <1>1, <1>4, <2>1, <2>2
<1> QED
  BY <1>3, <1>4 DEF AcksRise, t

\* The numbers of one direction: d sends and e receives, q is d's queue, acc
\* ASDUs were accepted for it and e's dispatcher was handed del of them.
\* Acknowledged <= delivered <= sent, and the distance of the two numbers that
\* wrap is the distance of the two counts that do not.
Numbers(d, e, q, acc, del) ==
    LET s == acc - Len(q)
        a == s - Len(d.pending)
    IN  /\ 0 <= a /\ a <= del /\ del <= s
        /\ SeqNoCount(d.ackNoSend, e.seqNoRcv) = del - a
        /\ \A i \in 1 .. Len(q) : q[i] = s + i

\* Numbers looks at the windows only.
LEMMA NumbersSame ==
    ASSUME NEW d, NEW e, NEW q, NEW acc, NEW del, Numbers(d, e, q, acc, del),
           NEW d1, NEW e1, SameWindow(d1, d), SameWindow(e1, e)
    PROVE  Numbers(d1, e1, q, acc, del)
BY DEF Numbers, SameWindow

\* An ASDU is accepted.
LEMMA NumbersSubmit ==
    ASSUME NEW d \in Driver, NEW e \in Driver, NEW q \in Seq(Asdu), NEW acc \in Nat,
           NEW del \in Nat, Numbers(d, e, q, acc, del)
    PROVE  Numbers(d, e, Append(q, acc + 1), acc + 1, del)
<1> DEFINE r == Append(q, acc + 1)
<1>1. Len(q) \in Nat /\ Len(r) = Len(q) + 1
  OBVIOUS
<1>2. \A i \in 1 .. Len(r) : r[i] = IF i = Len(q) + 1 THEN acc + 1 ELSE q[i]
  OBVIOUS
<1>3. (acc + 1) - Len(r) = acc - Len(q)
  BY <1>1
<1>4. \A i \in 1 .. Len(r) : r[i] = (acc - Len(q)) + i
  BY <1>1, <1>2 DEF Numbers
<1> HIDE DEF r
<1> QED
  BY <1>3, <1>4 DEF Numbers, r

\* The length of the window, and of the part of it that is not delivered.
LEMMA NumbersWindow ==
    ASSUME NEW c \in Conn, NEW d, DriverInv(c, d), NEW e \in Driver, NEW q \in Seq(Asdu),
           NEW acc \in Nat, NEW del \in Nat, Numbers(d, e, q, acc, del)
    PROVE  /\ d \in Driver
           /\ Len(d.pending) \in 0 .. (M - 1) /\ Len(q) \in Nat
           /\ SeqNoCount(d.ackNoSend, d.seqNoSend) = Len(d.pending)
           /\ SeqNoCount(d.ackNoSend, e.seqNoRcv) \in 0 .. (M - 1)
           /\ SeqNoCount(e.seqNoRcv, d.seqNoSend) = (acc - Len(q)) - del
           /\ (acc - Len(q)) - del <= M - 1
<1>1. /\ d \in Driver /\ d.ackNoSend \in SeqNo /\ d.seqNoSend \in SeqNo /\ e.seqNoRcv \in SeqNo
      /\ SeqNoCount(d.ackNoSend, d.seqNoSend) = Len(d.pending)
  BY DEF DriverInv, WindowMatches, Outstanding, Driver
<1>2. /\ SeqNoCount(d.ackNoSend, d.seqNoSend) \in 0 .. (M - 1)
      /\ SeqNoCount(d.ackNoSend, e.seqNoRcv) \in 0 .. (M - 1)
  BY <1>1, CountRange
<1>3. Len(q) \in Nat
  OBVIOUS
<1>4. SeqNoCount(d.ackNoSend, e.seqNoRcv) <= SeqNoCount(d.ackNoSend, d.seqNoSend)
  BY <1>1, <1>2, <1>3 DEF Numbers
<1>5. SeqNoCount(e.seqNoRcv, d.seqNoSend)
         = SeqNoCount(d.ackNoSend, d.seqNoSend) - SeqNoCount(d.ackNoSend, e.seqNoRcv)
  BY <1>1, <1>4, CountRest
<1>6. SeqNoCount(d.ackNoSend, e.seqNoRcv) = del - ((acc - Len(q)) - Len(d.pending))
  BY DEF Numbers
<1> QED
  BY <1>1, <1>2, <1>3, <1>5, <1>6, ModulusAssumption

\* An I-frame goes out.
LEMMA NumbersSent ==
    ASSUME NEW c \in Conn, NEW d, DriverInv(c, d), Outstanding(d) < K[c],
           NEW e \in Driver, NEW q \in Seq(Asdu), q # <<>>,
           NEW acc \in Nat, NEW del \in Nat, Numbers(d, e, q, acc, del)
    PROVE  /\ Head(q) = (acc - Len(q)) + 1
           /\ acc - Len(Tail(q)) = (acc - Len(q)) + 1
           /\ Numbers(Sent(d), e, Tail(q), acc, del)
<1> DEFINE s == acc - Len(q)
           g == Sent(d)
<1>1. /\ Len(q) \in Nat \ {0} /\ Len(Tail(q)) = Len(q) - 1 /\ Head(q) = q[1]
      /\ 1 \in 1 .. Len(q)
      /\ \A i \in 1 .. Len(Tail(q)) : Tail(q)[i] = q[i + 1] /\ i + 1 \in 1 .. Len(q)
  OBVIOUS
<1>2. /\ d \in Driver /\ d.pending \in Seq(SeqNo) /\ d.seqNoSend \in SeqNo
      /\ Len(d.pending) \in Nat
  BY DEF DriverInv, Driver
<1>3. g.ackNoSend = d.ackNoSend /\ g.pending = Append(d.pending, d.seqNoSend)
  BY <1>2 DEF Sent, Driver
<1>4. Len(g.pending) = Len(d.pending) + 1
  BY <1>2, <1>3
<1>5. acc - Len(Tail(q)) = s + 1
  BY <1>1
<1>6. \A i \in 1 .. Len(q) : q[i] = s + i
  BY DEF Numbers
<1>7. \A i \in 1 .. Len(Tail(q)) : Tail(q)[i] = (s + 1) + i
  BY <1>1, <1>6
<1>8. 0 <= s - Len(d.pending) /\ s - Len(d.pending) <= del /\ del <= s
      /\ SeqNoCount(d.ackNoSend, e.seqNoRcv) = del - (s - Len(d.pending))
  BY DEF Numbers
<1>9. (s + 1) - Len(g.pending) = s - Len(d.pending)
  BY <1>1, <1>2, <1>4
<1> HIDE DEF g
<1>10. Numbers(g, e, Tail(q), acc, del)
  BY <1>1, <1>3, <1>5, <1>7, <1>8, <1>9 DEF Numbers
<1> QED
  BY <1>1, <1>5, <1>6, <1>10 DEF g

\* An acknowledgement of delivered frames only is accepted, and moves the
\* acknowledged count to where it points.
LEMMA NumbersAcknowledge ==
    ASSUME NEW c \in Conn, NEW d, DriverInv(c, d), NEW e \in Driver, NEW q \in Seq(Asdu),
           NEW acc \in Nat, NEW del \in Nat, Numbers(d, e, q, acc, del),
           NEW r \in SeqNo, SeqNoCount(d.ackNoSend, r) <= SeqNoCount(d.ackNoSend, e.seqNoRcv)
    PROVE  LET g == Acknowledge(d, r)
           IN  /\ AckAccepted(d, r)
               /\ DriverInv(c, g)
               /\ g.ackNoSend = r
               /\ Len(g.pending) <= Len(d.pending)
               /\ SeqNoCount(r, e.seqNoRcv)
                     = SeqNoCount(d.ackNoSend, e.seqNoRcv) - SeqNoCount(d.ackNoSend, r)
               /\ Numbers(g, e, q, acc, del)
<1> DEFINE g == Acknowledge(d, r)
           k == SeqNoCount(d.ackNoSend, r)
<1>1. /\ d \in Driver /\ d.ackNoSend \in SeqNo /\ d.seqNoSend \in SeqNo /\ e.seqNoRcv \in SeqNo
      /\ Len(d.pending) \in 0 .. (M - 1) /\ Len(q) \in Nat
      /\ SeqNoCount(d.ackNoSend, d.seqNoSend) = Len(d.pending)
      /\ SeqNoCount(d.ackNoSend, e.seqNoRcv) \in 0 .. (M - 1)
  BY NumbersWindow DEF Driver
<1>2. k \in 0 .. (M - 1)
  BY <1>1, CountRange
<1>3. k <= Len(d.pending)
  BY <1>1, <1>2 DEF Numbers
<1>4. SeqNoCount(r, d.seqNoSend) = Len(d.pending) - k
  BY <1>1, <1>3, CountRest
<1>5. AckAccepted(d, r)
  BY <1>1, <1>2, <1>4 DEF AckAccepted
<1>6. DriverInv(c, g)
  BY <1>5, AcknowledgeInv
<1>7. g.ackNoSend = r /\ g.seqNoSend = d.seqNoSend
  BY <1>1 DEF Acknowledge, Driver
<1>8. Len(g.pending) = Len(d.pending) - k
  BY <1>4, <1>6, <1>7 DEF DriverInv, WindowMatches, Outstanding
<1>9. SeqNoCount(r, e.seqNoRcv) = SeqNoCount(d.ackNoSend, e.seqNoRcv) - k
  <2>1. SeqNoCount(d.ackNoSend, r) <= SeqNoCount(d.ackNoSend, e.seqNoRcv)
    OBVIOUS
  <2> QED
    BY <1>1, <2>1, CountRest
<1> HIDE DEF g, k
<1>10. Numbers(g, e, q, acc, del)
  BY <1>1, <1>2, <1>3, <1>7, <1>8, <1>9 DEF Numbers, k
<1> QED
  BY <1>1, <1>2, <1>5, <1>6, <1>7, <1>8, <1>9, <1>10 DEF g, k

\* An I-frame that was sent is delivered.
LEMMA NumbersReceived ==
    ASSUME NEW c \in Conn, NEW d, DriverInv(c, d), NEW e \in Driver, NEW q \in Seq(Asdu),
           NEW acc \in Nat, NEW del \in Nat, Numbers(d, e, q, acc, del),
           del + 1 <= acc - Len(q)
    PROVE  /\ Numbers(d, Received(e), q, acc, del + 1)
           /\ SeqNoCount(d.ackNoSend, Received(e).seqNoRcv)
                 = SeqNoCount(d.ackNoSend, e.seqNoRcv) + 1
<1> DEFINE g == Received(e)
<1>1. /\ d \in Driver /\ d.ackNoSend \in SeqNo /\ e.seqNoRcv \in SeqNo
      /\ Len(d.pending) \in 0 .. (M - 1) /\ Len(q) \in Nat
      /\ SeqNoCount(d.ackNoSend, e.seqNoRcv) \in 0 .. (M - 1)
  BY NumbersWindow DEF Driver
<1>2. g.seqNoRcv = Succ(e.seqNoRcv)
  BY DEF Received, Driver
<1> HIDE DEF g
<1>3. SeqNoCount(d.ackNoSend, e.seqNoRcv) < M - 1
  BY <1>1, ModulusAssumption DEF Numbers
<1>4. SeqNoCount(d.ackNoSend, Succ(e.seqNoRcv)) = SeqNoCount(d.ackNoSend, e.seqNoRcv) + 1
  BY <1>1, <1>3, CountSucc
<1>5. SeqNoCount(d.ackNoSend, g.seqNoRcv) = SeqNoCount(d.ackNoSend, e.seqNoRcv) + 1
  BY <1>2, <1>4
<1>6. Numbers(d, g, q, acc, del + 1)
  <2> DEFINE s == acc - Len(q)
             a == s - Len(d.pending)
             k == SeqNoCount(d.ackNoSend, e.seqNoRcv)
  <2>1. /\ 0 <= a /\ a <= del /\ del <= s /\ k = del - a
        /\ \A i \in 1 .. Len(q) : q[i] = s + i
    BY DEF Numbers
  <2>2. s \in Int /\ a \in Int /\ del + 1 <= s /\ k \in Int
    BY <1>1
  <2> HIDE DEF s, a, k
  <2>3. 0 <= a /\ a <= del + 1 /\ del + 1 <= s /\ k + 1 = (del + 1) - a
    BY <2>1, <2>2
  <2> QED
    BY <1>5, <2>1, <2>3 DEF Numbers, s, a, k
<1> QED
  BY <1>5, <1>6 DEF g

\* One direction of the link: d sends to e, q, acc and pk are the queue, the
\* count of accepted ASDUs and e's dispatcher, out and back the lines from d and
\* to d, and dOn and eOn say who still reads.
FlowOf(d, e, q, acc, pk, out, back, dOn, eOn) ==
    /\ Numbers(d, e, q, acc, Len(pk))
    /\ eOn => Ordered(out, e.seqNoRcv, Len(pk), acc - Len(q))
    /\ dOn => AcksRise(back, d.ackNoSend, SeqNoCount(d.ackNoSend, e.seqNoRcv))

\* The sender emits S- and U-frames.
LEMMA FlowSenderEmits ==
    ASSUME NEW d, NEW e, NEW q, NEW acc, NEW pk, NEW out \in Seq(Apdu), NEW back, NEW dOn, NEW eOn,
           FlowOf(d, e, q, acc, pk, out, back, dOn, eOn),
           NEW d1, SameWindow(d1, d), NEW o \in Seq(Apdu), NEW r, ControlOnly(o, r)
    PROVE  FlowOf(d1, e, q, acc, pk, out \o o, back, dOn, eOn)
<1>1. Numbers(d1, e, q, acc, Len(pk))
  BY NumbersSame DEF FlowOf, SameWindow
<1>2. eOn => Ordered(out \o o, e.seqNoRcv, Len(pk), acc - Len(q))
  BY OrderedControl DEF FlowOf
<1> QED
  BY <1>1, <1>2 DEF FlowOf, SameWindow

\* The receiver emits, and acknowledges what it has received.
LEMMA FlowReceiverEmits ==
    ASSUME NEW d \in Driver, NEW e \in Driver, NEW q, NEW acc, NEW pk, NEW out,
           NEW back \in Seq(Apdu), NEW dOn, NEW eOn,
           FlowOf(d, e, q, acc, pk, out, back, dOn, eOn),
           NEW e1, e1.seqNoRcv = e.seqNoRcv, NEW o \in Seq(Apdu),
           \A i \in 1 .. Len(o) : IsAck(o[i]) => o[i].recv = e.seqNoRcv
    PROVE  FlowOf(d, e1, q, acc, pk, out, back \o o, dOn, eOn)
<1>1. d.ackNoSend \in SeqNo /\ e.seqNoRcv \in SeqNo
  BY DEF Driver
<1>2. dOn => AcksRise(back \o o, d.ackNoSend, SeqNoCount(d.ackNoSend, e.seqNoRcv))
  BY <1>1, AcksAppend DEF FlowOf
<1> QED
  BY <1>2 DEF FlowOf, Numbers

\* The sender takes the head of its peer's line: an acknowledgement is accepted.
LEMMA FlowSenderTakes ==
    ASSUME NEW c \in Conn, NEW d, DriverInv(c, d), NEW e \in Driver, NEW q \in Seq(Asdu),
           NEW acc \in Nat, NEW pk \in Seq(Asdu), NEW out, NEW back \in Seq(Apdu), NEW eOn,
           FlowOf(d, e, q, acc, pk, out, back, TRUE, eOn), back # <<>>
    PROVE  LET f == Head(back)
           IN  /\ IsAck(f) =>
                    /\ AckAccepted(d, f.recv)
                    /\ DriverInv(c, Acknowledge(d, f.recv))
                    /\ Len(Acknowledge(d, f.recv).pending) <= Len(d.pending)
                    /\ FlowOf(Acknowledge(d, f.recv), e, q, acc, pk, out, Tail(back), TRUE, eOn)
               /\ FlowOf(d, e, q, acc, pk, out, Tail(back), TRUE, eOn)
<1> DEFINE f == Head(back)
           g == Acknowledge(d, f.recv)
           n == SeqNoCount(d.ackNoSend, e.seqNoRcv)
<1>1. /\ d \in Driver /\ d.ackNoSend \in SeqNo
      /\ n \in Nat /\ Len(pk) \in Nat
  BY NumbersWindow DEF FlowOf, Driver
<1>2. FlowOf(d, e, q, acc, pk, out, Tail(back), TRUE, eOn)
  BY AcksSkip DEF FlowOf
<1>3. ASSUME IsAck(f)
      PROVE  /\ AckAccepted(d, f.recv) /\ DriverInv(c, g)
             /\ Len(g.pending) <= Len(d.pending)
             /\ FlowOf(g, e, q, acc, pk, out, Tail(back), TRUE, eOn)
  <2>1. f.recv \in SeqNo
    BY <1>3, HeadTail, ApduFields
  <2>2. /\ SeqNoCount(d.ackNoSend, f.recv) <= n
        /\ AcksRise(Tail(back), f.recv, n - SeqNoCount(d.ackNoSend, f.recv))
    BY <1>1, <1>3, AcksHead DEF FlowOf
  <2>3. /\ AckAccepted(d, f.recv) /\ DriverInv(c, g) /\ g.ackNoSend = f.recv
        /\ Len(g.pending) <= Len(d.pending)
        /\ SeqNoCount(f.recv, e.seqNoRcv) = n - SeqNoCount(d.ackNoSend, f.recv)
        /\ Numbers(g, e, q, acc, Len(pk))
    BY <1>1, <2>1, <2>2, NumbersAcknowledge DEF FlowOf
  <2> HIDE DEF f, g, n
  <2>4. FlowOf(g, e, q, acc, pk, out, Tail(back), TRUE, eOn)
    BY <2>2, <2>3 DEF FlowOf
  <2> QED
    BY <2>3, <2>4
<1> QED
  BY <1>2, <1>3

\* The I-frame f has the number that e expects and carries the ASDU after pk.
Due(f, e, q, acc, pk) ==
    /\ f.send = e.seqNoRcv
    /\ f.asdu = Len(pk) + 1
    /\ Len(pk) + 1 <= acc - Len(q)

\* The receiver takes the head of the sender's line: an I-frame is the one that
\* is expected and carries the ASDU that is due.
LEMMA FlowReceiverTakes ==
    ASSUME NEW c \in Conn, NEW d, DriverInv(c, d), NEW e \in Driver, NEW q \in Seq(Asdu),
           NEW acc \in Nat, NEW pk \in Seq(Asdu), NEW out \in Seq(Apdu), NEW back \in Seq(Apdu), NEW dOn,
           FlowOf(d, e, q, acc, pk, out, back, dOn, TRUE), out # <<>>
    PROVE  LET f == Head(out)
           IN  /\ f.fmt = "I" =>
                    /\ Due(f, e, q, acc, pk)
                    /\ FlowOf(d, Received(e), q, acc, Append(pk, f.asdu),
                              Tail(out), back, dOn, TRUE)
               /\ f.fmt # "I" => FlowOf(d, e, q, acc, pk, Tail(out), back, dOn, TRUE)
<1> DEFINE f == Head(out)
           n == Len(pk)
           s == acc - Len(q)
<1>1. n \in Nat /\ e.seqNoRcv \in SeqNo
  BY DEF Driver
<1>2. Numbers(d, e, q, acc, n) /\ Ordered(out, e.seqNoRcv, n, s)
  BY DEF FlowOf
<1>3. s \in Nat /\ s - n <= M - 1 /\ d \in Driver
  <2>1. Len(q) \in Nat /\ s - n <= M - 1 /\ d \in Driver
    BY <1>1, <1>2, NumbersWindow
  <2>2. n <= s
    BY <1>2 DEF Numbers
  <2> QED
    BY <1>1, <2>1, <2>2
<1>4. f.fmt # "I" => FlowOf(d, e, q, acc, pk, Tail(out), back, dOn, TRUE)
  BY OrderedSkip DEF FlowOf
<1>5. ASSUME f.fmt = "I"
      PROVE  /\ f.send = e.seqNoRcv /\ f.asdu = n + 1 /\ n + 1 <= s
             /\ FlowOf(d, Received(e), q, acc, Append(pk, f.asdu), Tail(out), back, dOn, TRUE)
  <2>1. /\ f.asdu = n + 1 /\ n + 1 <= s /\ f.send = e.seqNoRcv
        /\ Ordered(Tail(out), Succ(e.seqNoRcv), n + 1, s)
    BY <1>1, <1>2, <1>3, <1>5, OrderedHead
  <2>2. /\ Numbers(d, Received(e), q, acc, n + 1)
        /\ SeqNoCount(d.ackNoSend, Received(e).seqNoRcv) = SeqNoCount(d.ackNoSend, e.seqNoRcv) + 1
    BY <1>1, <1>2, <2>1, NumbersReceived
  <2>3. Received(e).seqNoRcv = Succ(e.seqNoRcv)
    BY DEF Received, Driver
  <2>4. Len(Append(pk, f.asdu)) = n + 1
    OBVIOUS
  <2>5. dOn => AcksRise(back, d.ackNoSend, SeqNoCount(d.ackNoSend, Received(e).seqNoRcv))
    <3>1. d.ackNoSend \in SeqNo /\ SeqNoCount(d.ackNoSend, e.seqNoRcv) \in Nat
      BY <1>1, <1>3, CountRange DEF Driver
    <3>2. dOn => AcksRise(back, d.ackNoSend, SeqNoCount(d.ackNoSend, e.seqNoRcv))
      BY DEF FlowOf
    <3> QED
      BY <2>2, <3>1, <3>2, AcksGrow
  <2> HIDE DEF f, n, s
  <2>6. FlowOf(d, Received(e), q, acc, Append(pk, f.asdu), Tail(out), back, dOn, TRUE)
    BY <2>1, <2>2, <2>3, <2>4, <2>5 DEF FlowOf, s
  <2> QED
    BY <2>1, <2>6 DEF n, s
<1>6. f.fmt = "I" => Due(f, e, q, acc, pk)
  BY <1>5 DEF Due
<1> QED
  BY <1>4, <1>5, <1>6

-----------------------------------------------------------------------------
(***************************************************************************)
(* Both directions of the link, step by step.                              *)
(***************************************************************************)

\* The direction from c to its peer.
Flow(c) ==
    FlowOf(drv[c], drv[Peer(c)], asduQ[c], accepted[c], packs[Peer(c)],
           line[c], line[Peer(c)], connected[c], connected[Peer(c)])

\* The inductive invariant of data transfer.
FlowInv ==
    /\ \A c \in Conn : Flow(c)
    /\ NoSequenceError

\* There are no other ends.
LEMMA TwoEnds ==
    ASSUME NEW c \in Conn
    PROVE  /\ Peer(c) \in Conn /\ Peer(c) # c /\ Peer(Peer(c)) = c
           /\ \A x \in Conn : x = c \/ x = Peer(c)
BY PeerType, LinkAssumption

\* Nothing has been sent at the start.
LEMMA FlowInit == Init => FlowInv
<1> SUFFICES ASSUME Init PROVE FlowInv
  OBVIOUS
<1>1. SeqNoCount(0, 0) = 0
  BY DEF SeqNoCount
<1>2. ASSUME NEW c \in Conn
      PROVE  Flow(c)
  <2>1. /\ drv[c] = NewDriver /\ drv[Peer(c)] = NewDriver
        /\ asduQ[c] = <<>> /\ accepted[c] = 0 /\ packs[Peer(c)] = <<>>
        /\ line[c] = <<>> /\ line[Peer(c)] = <<>>
    BY TwoEnds DEF Init, ConnInit
  <2>2. Numbers(NewDriver, NewDriver, <<>>, 0, 0)
    BY <1>1 DEF Numbers, NewDriver
  <2>3. Ordered(<<>>, NewDriver.seqNoRcv, 0, 0) /\ AcksRise(<<>>, NewDriver.ackNoSend, 0)
    BY DEF Ordered, AcksRise
  <2>4. SeqNoCount(NewDriver.ackNoSend, NewDriver.seqNoRcv) = 0
    BY <1>1 DEF NewDriver
  <2> QED
    BY <2>1, <2>2, <2>3, <2>4 DEF Flow, FlowOf
<1>3. NoSequenceError
  BY DEF Init, ConnInit, NoSequenceError
<1> QED
  BY <1>2, <1>3 DEF FlowInv

\* An end that has taken a frame, or none, and leaves with the window of d:
\* both directions go on from there.
LEMMA LeavesFlow ==
    ASSUME IInv, FlowInv, NEW x \in Conn, connected[x], NEW d \in Driver,
           NEW ln \in Lines, Leaves(x, d, ln), UNCHANGED accepted,
           packs'[Peer(x)] = packs[Peer(x)],
           FlowOf(d, drv[Peer(x)], asduQ[x], accepted[x], packs[Peer(x)],
                  ln[x], ln[Peer(x)], TRUE, connected[Peer(x)]),
           FlowOf(drv[Peer(x)], d, asduQ[Peer(x)], accepted[Peer(x)], packs'[x],
                  ln[Peer(x)], ln[x], connected[Peer(x)], TRUE)
    PROVE  FlowInv'
<1> DEFINE y == Peer(x)
<1>1. y \in Conn /\ y # x /\ Peer(y) = x /\ \A z \in Conn : z = x \/ z = y
  BY TwoEnds
<1>2. PICK e \in Driver, out \in Seq(Apdu) :
         /\ SameWindow(e, d)
         /\ ControlOnly(out, d.seqNoRcv)
         /\ drv' = [drv EXCEPT ![x] = e]
         /\ line' = [ln EXCEPT ![x] = @ \o out]
         /\ UNCHANGED <<connected, closedBy, asduQ>>
  BY DEF Leaves
<1> HIDE DEF y
<1>3. drv'[x] = e /\ drv'[y] = drv[y] /\ line'[x] = ln[x] \o out /\ line'[y] = ln[y]
  BY <1>1, <1>2 DEF IInv, CoreInv, Lines
<1>4. ln[x] \in Seq(Apdu) /\ ln[y] \in Seq(Apdu) /\ drv[y] \in Driver
  BY <1>1 DEF Lines, IInv, CoreInv
<1>5. Flow(x)'
  <2>1. FlowOf(e, drv[y], asduQ[x], accepted[x], packs[y], ln[x] \o out, ln[y], TRUE, connected[y])
    BY <1>2, <1>4, FlowSenderEmits DEF y
  <2> QED
    BY <1>2, <1>3, <2>1 DEF Flow, y
<1>6. Flow(y)'
  <2>1. \A i \in 1 .. Len(out) : IsAck(out[i]) => out[i].recv = d.seqNoRcv
    BY <1>2 DEF ControlOnly, IsAck
  <2>2. FlowOf(drv[y], e, asduQ[y], accepted[y], packs'[x], ln[y], ln[x] \o out, connected[y], TRUE)
    BY <1>2, <1>4, <2>1, FlowReceiverEmits DEF SameWindow, y
  <2> QED
    BY <1>1, <1>2, <1>3, <2>2 DEF Flow
<1>7. NoSequenceError'
  BY <1>2 DEF NoSequenceError, FlowInv
<1> QED
  BY <1>1, <1>5, <1>6, <1>7 DEF FlowInv

\* An end that closes reads no more; what it leaves on its line is still in order.
LEMMA CloseFlow ==
    ASSUME IInv, FlowInv, NEW x \in Conn, NEW ln, NEW why, Close(x, why, ln),
           why \notin {"ack", "sequence"}, ln[x] = line[x], UNCHANGED accepted
    PROVE  FlowInv'
<1> DEFINE y == Peer(x)
<1>1. y \in Conn /\ y # x /\ Peer(y) = x /\ \A z \in Conn : z = x \/ z = y
  BY TwoEnds
<1> HIDE DEF y
<1>2. /\ ~connected'[x] /\ connected'[y] = connected[y]
      /\ line'[x] = line[x]
      /\ UNCHANGED <<drv, asduQ, packs>>
  BY <1>1 DEF Close, IInv, CoreInv
<1>3. Flow(x) /\ Flow(y)
  BY <1>1 DEF FlowInv
<1>4. Flow(x)'
  BY <1>2, <1>3 DEF Flow, FlowOf, y
<1>5. Flow(y)'
  BY <1>1, <1>2, <1>3 DEF Flow, FlowOf
<1>6. NoSequenceError'
  BY DEF NoSequenceError, FlowInv, Close, IInv, CoreInv
<1> QED
  BY <1>1, <1>4, <1>5, <1>6 DEF FlowInv

\* The application submits an ASDU.
LEMMA SubmitFlow ==
    ASSUME IInv, FlowInv, NEW x \in Conn, Submit(x)
    PROVE  FlowInv'
<1> DEFINE y == Peer(x)
<1>1. y \in Conn /\ y # x /\ Peer(y) = x /\ \A z \in Conn : z = x \/ z = y
  BY TwoEnds
<1> HIDE DEF y
<1>2. /\ asduQ' = [asduQ EXCEPT ![x] = Append(@, accepted[x] + 1)]
      /\ accepted' = [accepted EXCEPT ![x] = @ + 1]
      /\ UNCHANGED <<connected, closedBy, drv, line, packs>>
  BY DEF Submit, TryEnqueue
<1>3. /\ asduQ[x] \in Seq(Asdu) /\ accepted[x] \in Nat
      /\ drv[x] \in Driver /\ drv[y] \in Driver /\ Len(packs[y]) \in Nat
  BY <1>1 DEF IInv, CoreInv, QueuesInv
<1>4. /\ asduQ'[x] = Append(asduQ[x], accepted[x] + 1) /\ accepted'[x] = accepted[x] + 1
      /\ asduQ'[y] = asduQ[y] /\ accepted'[y] = accepted[y]
  BY <1>1, <1>2 DEF IInv, QueuesInv
<1>5. Flow(x)'
  <2>1. FlowOf(drv[x], drv[y], asduQ[x], accepted[x], packs[y], line[x], line[y],
               connected[x], connected[y])
    BY DEF FlowInv, Flow, y
  <2>2. Numbers(drv[x], drv[y], asduQ'[x], accepted'[x], Len(packs[y]))
    BY <1>3, <1>4, <2>1, NumbersSubmit DEF FlowOf
  <2>3. accepted'[x] - Len(asduQ'[x]) = accepted[x] - Len(asduQ[x])
    BY <1>3, <1>4
  <2> QED
    BY <1>2, <2>1, <2>2, <2>3 DEF Flow, FlowOf, y
<1>6. Flow(y)'
  BY <1>1, <1>2, <1>4 DEF FlowInv, Flow
<1> QED
  BY <1>1, <1>2, <1>5, <1>6 DEF FlowInv, NoSequenceError

\* An I-frame goes out behind the others, and its window grows by it.
LEMMA SendAsduFlow ==
    ASSUME IInv, FlowInv, NEW x \in Conn, SendAsdu(x, line), UNCHANGED accepted
    PROVE  /\ FlowInv'
           /\ Len(asduQ'[x]) + Len(drv'[x].pending) = Len(asduQ[x]) + Len(drv[x].pending)
<1> DEFINE y == Peer(x)
           f == IFrame(drv[x].seqNoSend, drv[x].seqNoRcv, Head(asduQ[x]))
<1>1. y \in Conn /\ y # x /\ Peer(y) = x /\ \A z \in Conn : z = x \/ z = y
  BY TwoEnds
<1> HIDE DEF y
<1>2. PICK e \in Driver :
         /\ SameWindow(e, Sent(drv[x]))
         /\ drv' = [drv EXCEPT ![x] = e]
         /\ line' = [line EXCEPT ![x] = @ \o <<f>>]
         /\ UNCHANGED <<connected, closedBy>>
  BY SendAsduLeaves DEF IInv
<1>3. /\ asduQ[x] \in Seq(Asdu) /\ asduQ[x] # <<>> /\ Head(asduQ[x]) \in Asdu
      /\ Len(asduQ[x]) \in Nat /\ Len(Tail(asduQ[x])) = Len(asduQ[x]) - 1
      /\ asduQ' = [asduQ EXCEPT ![x] = Tail(@)] /\ UNCHANGED packs
  BY DEF SendAsdu, IInv, QueuesInv
<1>4. /\ DriverInv(x, drv[x]) /\ Outstanding(drv[x]) < K[x] /\ drv[x] \in Driver
      /\ DriverInv(y, drv[y]) /\ drv[y] \in Driver
      /\ accepted[x] \in Nat /\ Len(packs[y]) \in Nat
      /\ line[x] \in Seq(Apdu) /\ line[y] \in Seq(Apdu)
  BY <1>1 DEF SendAsdu, IInv, CoreInv, QueuesInv
<1>5. /\ drv'[x] = e /\ drv'[y] = drv[y]
      /\ line'[x] = line[x] \o <<f>> /\ line'[y] = line[y]
      /\ asduQ'[x] = Tail(asduQ[x]) /\ asduQ'[y] = asduQ[y]
  BY <1>1, <1>2, <1>3 DEF IInv, CoreInv, QueuesInv
<1>6. /\ f \in Apdu /\ f.fmt = "I" /\ f.asdu = Head(asduQ[x])
      /\ f.send = drv[x].seqNoSend /\ f.recv = drv[x].seqNoRcv
  BY <1>3, <1>4 DEF IFrame, Apdu, Driver
<1> HIDE DEF f
<1>7. Len(Sent(drv[x]).pending) = Len(drv[x].pending) + 1 /\ Len(drv[x].pending) \in Nat
      /\ Sent(drv[x]).ackNoSend = drv[x].ackNoSend /\ Sent(drv[x]).seqNoRcv = drv[x].seqNoRcv
  BY <1>4 DEF Sent, Driver
<1>8. Flow(x)'
  <2> DEFINE s == accepted[x] - Len(asduQ[x])
             n == Len(packs[y])
  <2>1. FlowOf(drv[x], drv[y], asduQ[x], accepted[x], packs[y], line[x], line[y],
               connected[x], connected[y])
    BY DEF FlowInv, Flow, y
  <2>2. /\ Head(asduQ[x]) = s + 1
        /\ accepted[x] - Len(Tail(asduQ[x])) = s + 1
        /\ Numbers(Sent(drv[x]), drv[y], Tail(asduQ[x]), accepted[x], n)
    BY <1>3, <1>4, <2>1, NumbersSent DEF FlowOf
  <2>3. SeqNoCount(drv[y].seqNoRcv, drv[x].seqNoSend) = s - n /\ n <= s /\ s \in Nat
    <3>1. SeqNoCount(drv[y].seqNoRcv, drv[x].seqNoSend) = s - n
      <4>1. Numbers(drv[x], drv[y], asduQ[x], accepted[x], n)
        BY <2>1 DEF FlowOf
      <4> DEFINE dx == drv[x]
                 dy == drv[y]
                 q == asduQ[x]
                 acc == accepted[x]
      <4>2. /\ DriverInv(x, dx) /\ dy \in Driver /\ q \in Seq(Asdu) /\ acc \in Nat /\ n \in Nat
            /\ Numbers(dx, dy, q, acc, n)
        BY <1>3, <1>4, <4>1
      <4>3. SeqNoCount(dy.seqNoRcv, dx.seqNoSend) = (acc - Len(q)) - n
        <5> HIDE DEF dx, dy, q, acc, n
        <5> QED
          BY <4>2, NumbersWindow
      <4> QED
        BY <4>3
    <3>2. n <= s
      <4>1. Numbers(drv[x], drv[y], asduQ[x], accepted[x], n)
        BY <2>1 DEF FlowOf
      <4> QED
        BY <4>1 DEF Numbers
    <3> QED
      BY <1>3, <1>4, <3>1, <3>2
  <2>4. connected[y] => Ordered(line[x] \o <<f>>, drv[y].seqNoRcv, n, s + 1)
    <3>1. connected[y] => Ordered(line[x], drv[y].seqNoRcv, n, s)
      BY <2>1 DEF FlowOf
    <3> HIDE DEF s, n
    <3> QED
      BY <1>4, <1>6, <2>2, <2>3, <3>1, OrderedAppend DEF n
  <2>5. Numbers(e, drv[y], Tail(asduQ[x]), accepted[x], n) /\ e.ackNoSend = drv[x].ackNoSend
    BY <1>2, <1>7, <2>2, NumbersSame DEF SameWindow
  <2>6. connected[x] => AcksRise(line[y], e.ackNoSend, SeqNoCount(e.ackNoSend, drv[y].seqNoRcv))
    BY <2>1, <2>5 DEF FlowOf
  <2> QED
    BY <1>2, <1>3, <1>5, <2>2, <2>4, <2>5, <2>6 DEF Flow, FlowOf, y
<1>9. Flow(y)'
  <2>1. FlowOf(drv[y], drv[x], asduQ[y], accepted[y], packs[x], line[y], line[x],
               connected[y], connected[x])
    BY <1>1 DEF FlowInv, Flow
  <2>2. e.seqNoRcv = drv[x].seqNoRcv
    BY <1>2, <1>7 DEF SameWindow
  <2>3. <<f>> \in Seq(Apdu) /\ \A i \in 1 .. Len(<<f>>) : <<f>>[i] = f
    BY <1>6
  <2>4. FlowOf(drv[y], e, asduQ[y], accepted[y], packs[x], line[y], line[x] \o <<f>>,
               connected[y], connected[x])
    BY <1>4, <1>6, <2>1, <2>2, <2>3, FlowReceiverEmits
  <2> QED
    BY <1>1, <1>2, <1>3, <1>5, <2>4 DEF Flow
<1>10. Len(asduQ'[x]) + Len(drv'[x].pending) = Len(asduQ[x]) + Len(drv[x].pending)
  <2>1. Len(e.pending) = Len(drv[x].pending) + 1
    BY <1>2, <1>7 DEF SameWindow
  <2> DEFINE p == Len(drv[x].pending)
             q == Len(asduQ[x])
  <2>2. Len(drv'[x].pending) = p + 1 /\ Len(asduQ'[x]) = q - 1
    BY <1>3, <1>5, <2>1
  <2>3. p \in Nat /\ q \in Nat
    BY <1>3, <1>7
  <2> HIDE DEF p, q
  <2>4. (q - 1) + (p + 1) = q + p
    BY <2>3
  <2> QED
    BY <2>2, <2>4 DEF p, q
<1> QED
  BY <1>1, <1>2, <1>8, <1>9, <1>10 DEF FlowInv, NoSequenceError

\* x took a frame: perhaps it handed over the ASDU that was due, perhaps its
\* own window shrank.
Took(x) ==
    /\ \/ UNCHANGED packs
       \/ /\ packs' = [packs EXCEPT ![x] = Append(@, Len(@) + 1)]
          /\ Len(packs[x]) + 1 <= accepted[Peer(x)] - Len(asduQ[Peer(x)])
    /\ Len(drv'[x].pending) <= Len(drv[x].pending)
    /\ \A z \in Conn : z # x => drv'[z] = drv[z]
    /\ UNCHANGED <<connected, asduQ>>

\* What Leaves says of the length of the window.
LEMMA LeavesTook ==
    ASSUME IInv, NEW x \in Conn, NEW d, NEW ln, Leaves(x, d, ln)
    PROVE  /\ Len(drv'[x].pending) = Len(d.pending)
           /\ \A z \in Conn : z # x => drv'[z] = drv[z]
           /\ UNCHANGED <<connected, asduQ>>
BY DEF Leaves, SameWindow, IInv, CoreInv

\* Every frame the peer can have emitted is taken, or finds a stopped station.
LEMMA ReadFlow ==
    ASSUME IInv, FlowInv, NEW x \in Conn, Read(x)
    PROVE  /\ FlowInv'
           /\ \/ Took(x)
              \/ \E ln : Close(x, "stopped", ln)
<1> DEFINE y == Peer(x)
           f == Head(line[y])
           ln == [line EXCEPT ![y] = Tail(@)]
           d == drv[x]
           a == Acknowledge(d, f.recv)
<1>1. y \in Conn /\ y # x /\ Peer(y) = x /\ \A z \in Conn : z = x \/ z = y
  BY TwoEnds
<1>2. connected[x] /\ line[y] # <<>> /\ OnFrame(x, f, ln, packs) /\ UNCHANGED accepted
  BY DEF Read, OnFrame
<1> HIDE DEF y
<1>3. /\ DriverInv(x, d) /\ d \in Driver
      /\ DriverInv(y, drv[y]) /\ drv[y] \in Driver
      /\ accepted[x] \in Nat /\ accepted[y] \in Nat
      /\ packs[x] \in Seq(Asdu) /\ packs[y] \in Seq(Asdu)
      /\ asduQ[x] \in Seq(Asdu) /\ asduQ[y] \in Seq(Asdu)
      /\ line[x] \in Seq(Apdu) /\ line[y] \in Seq(Apdu)
      /\ packs \in [Conn -> Seq(Asdu)] /\ CoreInv
  BY <1>1 DEF IInv, CoreInv, QueuesInv
<1>4. ln[x] = line[x] /\ ln[y] = Tail(line[y]) /\ ln \in Lines
  BY <1>1, <1>2, <1>3 DEF CoreInv, Lines
<1>5. f \in Apdu
  BY <1>2, <1>3
<1>6. connected[x] = TRUE
  BY <1>2 DEF IInv, CoreInv
<1>7. /\ FlowOf(d, drv[y], asduQ[x], accepted[x], packs[y], line[x], line[y],
                TRUE, connected[y])
      /\ FlowOf(drv[y], d, asduQ[y], accepted[y], packs[x], line[y], line[x],
                connected[y], TRUE)
  BY <1>1, <1>6 DEF FlowInv, Flow, y
<1> HIDE DEF d, ln
<1>8. /\ IsAck(f) =>
           /\ AckAccepted(d, f.recv) /\ DriverInv(x, a)
           /\ Len(a.pending) <= Len(d.pending)
           /\ FlowOf(a, drv[y], asduQ[x], accepted[x], packs[y], ln[x], ln[y],
                     TRUE, connected[y])
      /\ FlowOf(d, drv[y], asduQ[x], accepted[x], packs[y], ln[x], ln[y],
                TRUE, connected[y])
  <2>1. /\ DriverInv(x, d) /\ drv[y] \in Driver /\ asduQ[x] \in Seq(Asdu)
        /\ accepted[x] \in Nat /\ packs[y] \in Seq(Asdu) /\ line[y] \in Seq(Apdu)
        /\ line[y] # <<>>
    BY <1>2, <1>3
  <2>2. FlowOf(d, drv[y], asduQ[x], accepted[x], packs[y], line[x], line[y],
               TRUE, connected[y])
    BY <1>7
  <2> QED
    BY <1>4, <2>1, <2>2, FlowSenderTakes
<1>9. /\ f.fmt = "I" =>
           /\ Due(f, d, asduQ[y], accepted[y], packs[x])
           /\ FlowOf(drv[y], Received(d), asduQ[y], accepted[y],
                     Append(packs[x], f.asdu), ln[y], ln[x], connected[y], TRUE)
      /\ f.fmt # "I" => FlowOf(drv[y], d, asduQ[y], accepted[y], packs[x], ln[y], ln[x],
                               connected[y], TRUE)
  <2> DEFINE o == line[y]
             p == drv[y]
             q == asduQ[y]
             n == accepted[y]
             k == packs[x]
             b == line[x]
  <2>1. /\ DriverInv(y, p) /\ d \in Driver /\ q \in Seq(Asdu) /\ n \in Nat
        /\ k \in Seq(Asdu) /\ b \in Seq(Apdu) /\ o \in Seq(Apdu) /\ o # <<>>
    BY <1>2, <1>3
  <2>2. FlowOf(p, d, q, n, k, o, b, connected[y], TRUE)
    BY <1>7
  <2>3. f = Head(o) /\ ln[y] = Tail(o) /\ ln[x] = b
    BY <1>4
  <2> HIDE DEF f, o, p, q, n, k, b
  <2>4. /\ Head(o).fmt = "I" =>
             /\ Due(Head(o), d, q, n, k)
             /\ FlowOf(p, Received(d), q, n, Append(k, Head(o).asdu), Tail(o), b,
                       connected[y], TRUE)
        /\ Head(o).fmt # "I" => FlowOf(p, d, q, n, k, Tail(o), b, connected[y], TRUE)
    BY <1>1, <2>1, <2>2, FlowReceiverTakes
  <2> QED
    BY <2>3, <2>4 DEF p, q, n, k
<1>10. Len(d.pending) \in Nat
  BY <1>3 DEF Driver
<1> HIDE DEF f
<1>11. CASE \E why \in {"stopped", "ack", "sequence"} : Refuses(x, f, ln, why)
  <2>1. Close(x, "stopped", ln)
    BY <1>8, <1>9, <1>11 DEF Due, Refuses, IsAck, d
  <2> QED
    BY <1>2, <1>4, <2>1, CloseFlow
<1>12. CASE TakesOther(x, f, ln, packs)
  <2>1. Leaves(x, d, ln) /\ UNCHANGED packs /\ f.fmt # "I"
    BY <1>12 DEF TakesOther, d
  <2>2. FlowInv'
    BY <1>2, <1>3, <1>4, <1>8, <1>9, <2>1, LeavesFlow DEF y
  <2> QED
    BY <1>3, <1>10, <2>1, <2>2, LeavesTook DEF Took, d
<1>13. CASE TakesS(x, f, ln, packs)
  <2>1. Leaves(x, a, ln) /\ UNCHANGED packs /\ f.fmt = "S"
    BY <1>13 DEF TakesS, d
  <2>2. IsAck(f) /\ a \in Driver /\ SameWindow(a, a)
    BY <1>8, <2>1 DEF IsAck, DriverInv, SameWindow
  <2>3. a.seqNoRcv = d.seqNoRcv
    BY <1>3 DEF Acknowledge, Driver
  <2>4. FlowOf(drv[y], a, asduQ[y], accepted[y], packs[x], ln[y], ln[x], connected[y], TRUE)
    BY <1>9, <2>1, <2>3 DEF FlowOf, Numbers
  <2>5. FlowInv'
    BY <1>2, <1>4, <1>8, <2>1, <2>2, <2>4, LeavesFlow DEF y
  <2> QED
    BY <1>8, <2>1, <2>2, <2>5, LeavesTook DEF Took, d
<1>14. CASE TakesI(x, f, ln, packs)
  <2> DEFINE r == Received(a)
  <2>1. /\ Leaves(x, r, ln) /\ f.fmt = "I"
        /\ packs' = IF f.asdu = Garbage THEN packs ELSE [packs EXCEPT ![x] = Append(@, f.asdu)]
    BY <1>14 DEF TakesI, d
  <2>2. IsAck(f) /\ a \in Driver
    BY <1>8, <2>1 DEF IsAck, DriverInv
  <2>3. /\ r \in Driver
        /\ r.ackNoSend = a.ackNoSend /\ r.pending = a.pending /\ r.seqNoSend = a.seqNoSend
        /\ r.seqNoRcv = Succ(a.seqNoRcv)
    BY <2>2, SuccCases DEF Received, Driver
  <2>4. a.seqNoRcv = d.seqNoRcv /\ Received(d).seqNoRcv = Succ(d.seqNoRcv)
    BY <1>3 DEF Acknowledge, Received, Driver
  <2>5. f.asdu # Garbage /\ Len(packs[x]) \in Nat
    BY <1>3, <1>9, <2>1 DEF Due, Garbage
  <2>6. /\ packs' = [packs EXCEPT ![x] = Append(@, f.asdu)]
        /\ packs'[x] = Append(packs[x], f.asdu) /\ packs'[y] = packs[y]
    BY <1>1, <1>3, <2>1, <2>5
  <2> HIDE DEF a, r
  <2>7. FlowOf(r, drv[y], asduQ[x], accepted[x], packs[y], ln[x], ln[y], TRUE, connected[y])
    BY <1>8, <2>2, <2>3 DEF FlowOf, Numbers
  <2>8. FlowOf(drv[y], r, asduQ[y], accepted[y], packs'[x], ln[y], ln[x], connected[y], TRUE)
    BY <1>9, <2>1, <2>3, <2>4, <2>6 DEF FlowOf, Numbers
  <2>9. FlowInv'
    BY <1>2, <1>4, <2>1, <2>3, <2>6, <2>7, <2>8, LeavesFlow DEF y
  <2>10. packs' = [packs EXCEPT ![x] = Append(@, Len(@) + 1)]
    BY <1>9, <2>1, <2>6 DEF Due
  <2>11. /\ Len(drv'[x].pending) <= Len(d.pending)
         /\ \A z \in Conn : z # x => drv'[z] = drv[z]
         /\ UNCHANGED <<connected, asduQ>>
    <3>1. /\ Len(drv'[x].pending) = Len(r.pending)
          /\ \A z \in Conn : z # x => drv'[z] = drv[z]
          /\ UNCHANGED <<connected, asduQ>>
      BY <2>1, LeavesTook
    <3> QED
      BY <1>8, <2>2, <2>3, <3>1
  <2> QED
    BY <1>9, <2>1, <2>9, <2>10, <2>11 DEF Due, Took, d, y
<1> QED
  BY <1>2, <1>3, <1>5, <1>11, <1>12, <1>13, <1>14, OnFrameLeaves

\* A step the applications do not notice.
Quiet ==
    /\ UNCHANGED <<connected, accepted, packs>>
    /\ \A c \in Conn : Len(asduQ'[c]) + Len(drv'[c].pending)
                         = Len(asduQ[c]) + Len(drv[c].pending)

\* An iteration that takes no frame and keeps the window.
LEMMA QuietFlow ==
    ASSUME IInv, FlowInv, NEW x \in Conn, connected[x], Leaves(x, drv[x], line),
           UNCHANGED <<accepted, packs>>
    PROVE  FlowInv' /\ Quiet
<1> DEFINE y == Peer(x)
<1>1. y \in Conn /\ Peer(y) = x
  BY TwoEnds
<1>2. connected[x] = TRUE /\ drv[x] \in Driver /\ line \in Lines
  BY DEF IInv, CoreInv, Lines
<1>3. /\ FlowOf(drv[x], drv[y], asduQ[x], accepted[x], packs[y], line[x], line[y],
                TRUE, connected[y])
      /\ FlowOf(drv[y], drv[x], asduQ[y], accepted[y], packs[x], line[y], line[x],
                connected[y], TRUE)
  BY <1>1, <1>2 DEF FlowInv, Flow
<1>4. FlowInv'
  BY <1>2, <1>3, LeavesFlow
<1>5. /\ Len(drv'[x].pending) = Len(drv[x].pending)
      /\ \A z \in Conn : z # x => drv'[z] = drv[z]
      /\ UNCHANGED <<connected, asduQ>>
  BY LeavesTook
<1> QED
  BY <1>4, <1>5 DEF Quiet

\* The driver sends: an I-frame moves from the queue into the window, a U-frame
\* changes neither.
LEMMA DriverSendFlow ==
    ASSUME IInv, FlowInv, NEW x \in Conn, DriverSend(x)
    PROVE  FlowInv' /\ Quiet
<1>1. CASE SendAsdu(x, line) /\ UNCHANGED <<accepted, requests>>
  <2>1. /\ FlowInv'
        /\ Len(asduQ'[x]) + Len(drv'[x].pending) = Len(asduQ[x]) + Len(drv[x].pending)
    BY <1>1, SendAsduFlow
  <2>2. \E e : drv' = [drv EXCEPT ![x] = e] /\ UNCHANGED connected
    BY <1>1, SendAsduLeaves DEF IInv
  <2>3. asduQ' = [asduQ EXCEPT ![x] = Tail(@)] /\ UNCHANGED <<accepted, packs>>
    BY <1>1 DEF SendAsdu
  <2>4. \A c \in Conn : c # x => drv'[c] = drv[c] /\ asduQ'[c] = asduQ[c]
    BY <2>2, <2>3 DEF IInv, CoreInv, QueuesInv
  <2> QED
    BY <2>1, <2>2, <2>3, <2>4 DEF Quiet
<1>2. CASE SendCtrl(x, line) /\ UNCHANGED <<accepted, requests>>
  <2>1. Leaves(x, drv[x], line) /\ UNCHANGED <<accepted, packs>> /\ connected[x]
    BY <1>2, SendCtrlLeaves DEF SendCtrl, IInv, CoreInv, Lines
  <2> QED
    BY <2>1, QuietFlow
<1> QED
  BY <1>1, <1>2 DEF DriverSend

\* What a step of the link is to its applications.
Stepped ==
    \/ Quiet
    \/ \E x \in Conn : Submit(x)
    \/ \E x \in Conn : connected[x] /\ Took(x) /\ UNCHANGED accepted
    \/ \E x \in Conn : /\ connected[x]
                       /\ \E why, ln : Close(x, why, ln)
                       /\ UNCHANGED accepted

\* An end that closes for a reason of its own.
LEMMA LeaveFlow ==
    ASSUME IInv, FlowInv, NEW x \in Conn, connected[x], NEW why, Close(x, why, line),
           why \notin {"ack", "sequence"}, UNCHANGED accepted
    PROVE  FlowInv' /\ Stepped
BY CloseFlow DEF Stepped

\* Every step keeps FlowInv, and is a step of data transfer or none.
LEMMA FlowNext == IInv /\ FlowInv /\ [Next]_vars => FlowInv' /\ Stepped
<1> SUFFICES ASSUME IInv, FlowInv, [Next]_vars
             PROVE  FlowInv' /\ Stepped
  OBVIOUS
<1>1. ASSUME UNCHANGED <<connected, closedBy, drv, asduQ, line, packs, accepted>>
      PROVE  FlowInv' /\ Stepped
  BY <1>1 DEF FlowInv, Flow, NoSequenceError, Stepped, Quiet
<1>2. ASSUME NEW ctrl \in {"StartDt", "StopDt"}, StartStop(ctrl)
      PROVE  FlowInv' /\ Stepped
  BY <1>1, <1>2 DEF StartStop, Request
<1>3. ASSUME NEW x \in Conn, Submit(x)
      PROVE  FlowInv' /\ Stepped
  BY <1>3, SubmitFlow DEF Stepped
<1>4. ASSUME NEW x \in Conn, DriverSend(x)
      PROVE  FlowInv' /\ Stepped
  BY <1>4, DriverSendFlow DEF Stepped
<1>5. ASSUME NEW x \in Conn, Read(x)
      PROVE  FlowInv' /\ Stepped
  <2>1. connected[x] /\ UNCHANGED accepted
    BY <1>5 DEF Read, OnFrame
  <2>2. FlowInv' /\ (Took(x) \/ \E ln : Close(x, "stopped", ln))
    BY <1>5, ReadFlow
  <2> QED
    BY <2>1, <2>2 DEF Stepped
<1>6. ASSUME NEW x \in Conn, ReadEof(x)
      PROVE  FlowInv' /\ Stepped
  BY <1>6, LeaveFlow DEF ReadEof, PeerClosed
<1>7. ASSUME NEW x \in Conn, Timer(x)
      PROVE  FlowInv' /\ Stepped
  <2>1. CASE TickT1(x, line)
    BY <1>7, <2>1, LeaveFlow DEF TickT1, Timer
  <2>2. CASE \E t2, t3 \in BOOLEAN : Tick(x, t2, t3, line)
    <3>1. PICK t2 \in BOOLEAN, t3 \in BOOLEAN : Tick(x, t2, t3, line)
      BY <2>2
    <3>2. Leaves(x, drv[x], line) /\ connected[x] /\ UNCHANGED <<accepted, packs>>
      BY <1>7, <3>1, TickLeaves DEF Tick, Timer, IInv
    <3> QED
      BY <3>2, QuietFlow DEF Stepped
  <2> QED
    BY <1>7, <2>1, <2>2 DEF Timer
<1>8. ASSUME NEW x \in Conn, Stop(x)
      PROVE  FlowInv' /\ Stepped
  BY <1>8, LeaveFlow DEF Stop, Shutdown
<1>9. CASE UNCHANGED vars
  BY <1>1, <1>9 DEF vars, connVars
<1> QED
  BY <1>2, <1>3, <1>4, <1>5, <1>6, <1>7, <1>8, <1>9 DEF Next

\* FlowInv is an invariant of the link.
THEOREM FlowInvariance == Spec => [](IInv /\ FlowInv)
<1>1. Init => IInv /\ FlowInv
  BY LinkInit, FlowInit
<1>2. IInv /\ FlowInv /\ [Next]_vars => (IInv /\ FlowInv)'
  BY LinkNext, FlowNext
<1> QED
  BY <1>1, <1>2, PTL DEF Spec

\* Neither end ever finds an acknowledgement outside its window or an I-frame out
\* of sequence, whatever crosses on the line and however often the numbers wrap:
\* update_ack_no_out and the sequence check never close a link of two conforming ends.
THEOREM SequenceCorrect == Spec => []NoSequenceError
<1>1. FlowInv => NoSequenceError
  BY DEF FlowInv
<1> QED
  BY <1>1, FlowInvariance, PTL

-----------------------------------------------------------------------------
(***************************************************************************)
(* The link implements DataTransfer104.                                    *)
(***************************************************************************)

\* At the start nothing is submitted, delivered or confirmed.
LEMMA DataTransferInit == Init => DataTransfer!Init
BY TwoEnds DEF Init, ConnInit, NewDriver, Acknowledged, DataTransfer!Init

\* An end that takes a frame delivers the next ASDU or none, and confirms no
\* more than was delivered to its peer.
LEMMA TookTakes ==
    ASSUME IInv, FlowInv, FlowInv', IInv', NEW x \in Conn, connected[x], Took(x), UNCHANGED accepted
    PROVE  DataTransfer!Take(x)
<1> DEFINE y == Peer(x)
           delivered == [c \in Conn |-> packs[Peer(c)]]
           confirmed == [c \in Conn |-> Acknowledged(c)]
<1>1. y \in Conn /\ y # x /\ Peer(y) = x /\ \A z \in Conn : z = x \/ z = y
  BY TwoEnds
<1>2. \/ delivered' = delivered
      \/ /\ Len(delivered[y]) < accepted[y]
         /\ delivered' = [delivered EXCEPT ![y] = Append(@, Len(@) + 1)]
  <2>1. CASE UNCHANGED packs
    BY <2>1
  <2>2. CASE /\ packs' = [packs EXCEPT ![x] = Append(@, Len(@) + 1)]
             /\ Len(packs[x]) + 1 <= accepted[y] - Len(asduQ[y])
    <3>1. Len(packs[x]) \in Nat /\ accepted[y] \in Nat /\ Len(asduQ[y]) \in Nat
      BY <1>1 DEF IInv, QueuesInv
    <3>2. Len(delivered[y]) < accepted[y]
      BY <1>1, <2>2, <3>1
    <3>3. delivered' = [delivered EXCEPT ![y] = Append(@, Len(@) + 1)]
      BY <1>1, <2>2 DEF IInv, QueuesInv
    <3> QED
      BY <3>2, <3>3
  <2> QED
    BY <2>1, <2>2 DEF Took
<1>3. \E n \in confirmed[x] .. Len(delivered'[x]) : confirmed' = [confirmed EXCEPT ![x] = n]
  <2> DEFINE q == Len(asduQ[x])
             p == Len(drv[x].pending)
             r == Len(drv'[x].pending)
             k == Len(packs'[y])
             a == accepted[x]
  <2>1. q \in Nat /\ p \in Nat /\ r \in Nat /\ k \in Nat /\ a \in Nat
    <3>1. /\ asduQ[x] \in Seq(Asdu) /\ a \in Nat /\ packs'[y] \in Seq(Asdu)
          /\ drv[x] \in Driver /\ drv'[x] \in Driver
      BY <1>1 DEF IInv, CoreInv, QueuesInv
    <3> QED
      BY <3>1 DEF Driver
  <2>2. r <= p /\ asduQ' = asduQ /\ accepted' = accepted /\ \A z \in Conn : z # x => drv'[z] = drv[z]
    BY DEF Took
  <2>3. a - q - r <= k
    <3>1. Numbers(drv'[x], drv'[y], asduQ'[x], accepted'[x], k)
      BY <1>1 DEF FlowInv, Flow, FlowOf
    <3> QED
      BY <2>2, <3>1 DEF Numbers
  <2>4. Acknowledged(x) = a - q - p /\ Acknowledged(x)' = a - q - r
    BY <2>2 DEF Acknowledged
  <2>5. \A z \in Conn : z # x => Acknowledged(z)' = Acknowledged(z)
    BY <2>2 DEF Acknowledged
  <2>6. Len(delivered'[x]) = k
    BY <1>1
  <2> HIDE DEF q, p, r, k, a
  <2>7. a - q - r \in (a - q - p) .. k
    BY <2>1, <2>2, <2>3
  <2>8. confirmed' = [confirmed EXCEPT ![x] = a - q - r]
    BY <2>4, <2>5
  <2> QED
    BY <2>4, <2>6, <2>7, <2>8
<1>4. UNCHANGED <<connected, accepted>>
  BY DEF Took
<1> HIDE DEF delivered, confirmed
<1> QED
  BY <1>1, <1>2, <1>3, <1>4 DEF DataTransfer!Take, delivered, confirmed, y

\* Every step of the link is a step of DataTransfer104 or a stutter.
LEMMA DataTransferStep ==
    ASSUME IInv, IInv', FlowInv, FlowInv', Stepped
    PROVE  [DataTransfer!Next]_(DataTransfer!vars)
<1>1. CASE Quiet
  <2>1. ASSUME NEW c \in Conn
        PROVE  Acknowledged(c)' = Acknowledged(c)
    <3> DEFINE q == Len(asduQ[c])
               p == Len(drv[c].pending)
               r == Len(asduQ'[c])
               s == Len(drv'[c].pending)
               a == accepted[c]
    <3>1. /\ q \in Nat /\ p \in Nat /\ r \in Nat /\ s \in Nat /\ a \in Nat
          /\ r + s = q + p /\ accepted' = accepted
      BY <1>1 DEF IInv, CoreInv, QueuesInv, Driver, Quiet
    <3>2. Acknowledged(c) = a - q - p /\ Acknowledged(c)' = a - r - s
      BY <3>1 DEF Acknowledged
    <3> HIDE DEF q, p, r, s, a
    <3> QED
      BY <3>1, <3>2
  <2> QED
    BY <1>1, <2>1 DEF Quiet, DataTransfer!vars
<1>2. CASE \E x \in Conn : Submit(x)
  <2>1. PICK x \in Conn : Submit(x)
    BY <1>2
  <2>2. /\ connected[x]
        /\ asduQ' = [asduQ EXCEPT ![x] = Append(@, accepted[x] + 1)]
        /\ accepted' = [accepted EXCEPT ![x] = @ + 1]
        /\ UNCHANGED <<connected, drv, packs>>
    BY <2>1 DEF Submit, TryEnqueue
  <2>3. Acknowledged(x)' = Acknowledged(x)
    <3> DEFINE q == Len(asduQ[x])
               p == Len(drv[x].pending)
               a == accepted[x]
    <3>1. q \in Nat /\ p \in Nat /\ a \in Nat
      BY DEF IInv, CoreInv, QueuesInv, Driver
    <3>2. Acknowledged(x) = a - q - p /\ Acknowledged(x)' = (a + 1) - (q + 1) - p
      BY <2>2, <3>1 DEF Acknowledged, IInv, QueuesInv
    <3> HIDE DEF q, p, a
    <3> QED
      BY <3>1, <3>2
  <2>4. \A c \in Conn : c # x => Acknowledged(c)' = Acknowledged(c)
    BY <2>2 DEF Acknowledged, IInv, QueuesInv
  <2>5. DataTransfer!Submit(x)
    BY <2>2, <2>3, <2>4 DEF DataTransfer!Submit
  <2> QED
    BY <2>5 DEF DataTransfer!Next
<1>3. CASE \E x \in Conn : connected[x] /\ Took(x) /\ UNCHANGED accepted
  BY <1>3, TookTakes DEF DataTransfer!Next
<1>4. CASE \E x \in Conn : /\ connected[x]
                           /\ \E why, ln : Close(x, why, ln)
                           /\ UNCHANGED accepted
  <2>1. PICK x \in Conn : /\ connected[x]
                          /\ \E why, ln : Close(x, why, ln)
                          /\ UNCHANGED accepted
    BY <1>4
  <2>2. DataTransfer!Close(x)
    BY <2>1 DEF Close, Acknowledged, DataTransfer!Close
  <2> QED
    BY <2>2 DEF DataTransfer!Next
<1> QED
  BY <1>1, <1>2, <1>3, <1>4 DEF Stepped

\* The link implements the data transfer: whatever crosses, wraps or closes, each
\* dispatcher is handed a prefix of the other end's stream, and what left the
\* retransmission list of connection.rs was handed over.
THEOREM DataTransferCorrect == Spec => IsDataTransfer
<1>1. /\ IInv /\ FlowInv /\ [Next]_vars /\ (IInv /\ FlowInv)'
      => [DataTransfer!Next]_(DataTransfer!vars)
  BY FlowNext, DataTransferStep
<1> QED
  BY <1>1, DataTransferInit, FlowInvariance, PTL DEF Spec, IsDataTransfer, DataTransfer!Spec

-----------------------------------------------------------------------------
(***************************************************************************)
(* Starting and stopping data transfer over a link whose master awaits     *)
(* each confirmation: what the two ends believe of each other while        *)
(* requests, confirmations, I-frames and acknowledgements cross.           *)
(***************************************************************************)

-----------------------------------------------------------------------------
(***************************************************************************)
(* What is on a line.                                                      *)
(***************************************************************************)

\* Acknowledging formats, and the U-frames that start and stop.
Acks  == {"I", "S"}
CtrlU == {"StartDtAct", "StartDtCon", "StopDtAct", "StopDtCon"}

\* The U-frame u is on ln; it is there at most once.
Has(ln, u)  == \E i \in 1 .. Len(ln) : ln[i] = UFrame(u)
Lone(ln, u) == \A i, j \in 1 .. Len(ln) : ln[i] = UFrame(u) /\ ln[j] = UFrame(u) => i = j

\* No frame of the formats F is on ln; none follows the U-frame u.
None(ln, F)      == \A i \in 1 .. Len(ln) : ln[i].fmt \notin F
Silent(ln, u, F) == \A i, j \in 1 .. Len(ln) : i < j /\ ln[i] = UFrame(u) => ln[j].fmt \notin F

\* Who has applied the acknowledgement a and takes what is on ln ends up at r.
AcksEnd(ln, a, r) ==
    /\ \A i \in 1 .. Len(ln) :
           ln[i].fmt \in Acks /\ (\A j \in (i + 1) .. Len(ln) : ln[j].fmt \notin Acks)
           => ln[i].recv = r
    /\ None(ln, Acks) => a = r

\* What remains when the head is taken.
LEMMA TailParts ==
    ASSUME NEW ln \in Seq(Apdu), ln # <<>>, NEW u, NEW F
    PROVE  /\ Has(Tail(ln), u) => Has(ln, u)
           /\ Has(ln, u) => Head(ln) = UFrame(u) \/ Has(Tail(ln), u)
           /\ Lone(ln, u) => Lone(Tail(ln), u)
           /\ Lone(ln, u) /\ Head(ln) = UFrame(u) => ~Has(Tail(ln), u)
           /\ None(ln, F) => None(Tail(ln), F) /\ Head(ln).fmt \notin F
           /\ Silent(ln, u, F) => Silent(Tail(ln), u, F)
           /\ Silent(ln, u, F) /\ Head(ln) = UFrame(u) => None(Tail(ln), F)
<1> USE HeadTail
<1>1. Has(Tail(ln), u) => Has(ln, u)
  BY DEF Has
<1>2. Has(ln, u) => Head(ln) = UFrame(u) \/ Has(Tail(ln), u)
  <2> SUFFICES ASSUME NEW i \in 1 .. Len(ln), ln[i] = UFrame(u), i # 1
               PROVE  Has(Tail(ln), u)
    BY DEF Has
  <2>1. i - 1 \in 1 .. Len(Tail(ln)) /\ Tail(ln)[i - 1] = ln[(i - 1) + 1] /\ (i - 1) + 1 = i
    OBVIOUS
  <2> QED
    BY <2>1 DEF Has
<1>3. Lone(ln, u) => Lone(Tail(ln), u)
  BY DEF Lone
<1>4. Lone(ln, u) /\ Head(ln) = UFrame(u) => ~Has(Tail(ln), u)
  BY DEF Lone, Has
<1>5. None(ln, F) => None(Tail(ln), F) /\ Head(ln).fmt \notin F
  BY DEF None
<1>6. Silent(ln, u, F) => Silent(Tail(ln), u, F)
  BY DEF Silent
<1>7. Silent(ln, u, F) /\ Head(ln) = UFrame(u) => None(Tail(ln), F)
  BY DEF Silent, None
<1> QED
  BY <1>1, <1>2, <1>3, <1>4, <1>5, <1>6, <1>7

\* What is on a line that was appended to.
LEMMA JoinParts ==
    ASSUME NEW ln \in Seq(Apdu), NEW out \in Seq(Apdu), NEW u, NEW F
    PROVE  LET t == ln \o out
           IN  /\ t \in Seq(Apdu)
               /\ Has(t, u) <=> Has(ln, u) \/ Has(out, u)
               /\ Lone(ln, u) /\ ~Has(out, u) => Lone(t, u)
               /\ Lone(out, u) /\ ~Has(ln, u) => Lone(t, u)
               /\ None(t, F) <=> None(ln, F) /\ None(out, F)
               /\ Silent(ln, u, F) /\ None(out, F) => Silent(t, u, F)
               /\ ~Has(ln, u) /\ Silent(out, u, F) => Silent(t, u, F)
<1> DEFINE t == ln \o out
           n == Len(ln)
<1>1. /\ t \in Seq(Apdu) /\ n \in Nat /\ Len(out) \in Nat /\ Len(t) = n + Len(out)
      /\ \A i \in 1 .. n : t[i] = ln[i] /\ i \in 1 .. Len(t)
      /\ \A i \in 1 .. Len(t) : i \notin 1 .. n => i - n \in 1 .. Len(out) /\ t[i] = out[i - n]
      /\ \A i \in 1 .. Len(out) : i + n \in 1 .. Len(t) /\ t[i + n] = out[i]
  <2>1. \A i \in 1 .. Len(out) : /\ i + n \in 1 .. Len(t) /\ i + n \notin 1 .. n
                                 /\ (i + n) - n = i
    BY ConcatParts
  <2> QED
    BY <2>1, ConcatParts
<1> HIDE DEF t, n
<1>2. Has(t, u) <=> Has(ln, u) \/ Has(out, u)
  BY <1>1 DEF Has, n
<1>3. Lone(ln, u) /\ ~Has(out, u) => Lone(t, u)
  <2> SUFFICES ASSUME Lone(ln, u), ~Has(out, u), NEW i \in 1 .. Len(t), NEW j \in 1 .. Len(t),
                      t[i] = UFrame(u), t[j] = UFrame(u)
               PROVE  i = j
    BY DEF Lone
  <2>1. i \in 1 .. n /\ j \in 1 .. n
    BY <1>1 DEF Has
  <2>2. ln[i] = UFrame(u) /\ ln[j] = UFrame(u)
    BY <1>1, <2>1
  <2> QED
    BY <2>1, <2>2 DEF Lone, n
<1>4. Lone(out, u) /\ ~Has(ln, u) => Lone(t, u)
  <2> SUFFICES ASSUME Lone(out, u), ~Has(ln, u), NEW i \in 1 .. Len(t), NEW j \in 1 .. Len(t),
                      t[i] = UFrame(u), t[j] = UFrame(u)
               PROVE  i = j
    BY DEF Lone
  <2>1. i \notin 1 .. n /\ j \notin 1 .. n
    BY <1>1 DEF Has, n
  <2>2. /\ i - n \in 1 .. Len(out) /\ t[i] = out[i - n]
        /\ j - n \in 1 .. Len(out) /\ t[j] = out[j - n]
    BY <1>1, <2>1
  <2>3. i - n = j - n
    BY <2>2 DEF Lone
  <2> QED
    BY <1>1, <2>3
<1>5. None(t, F) <=> None(ln, F) /\ None(out, F)
  BY <1>1 DEF None, n
<1>6. Silent(ln, u, F) /\ None(out, F) => Silent(t, u, F)
  <2> SUFFICES ASSUME Silent(ln, u, F), None(out, F), NEW i \in 1 .. Len(t),
                      NEW j \in 1 .. Len(t), i < j, t[i] = UFrame(u)
               PROVE  t[j].fmt \notin F
    BY DEF Silent
  <2>1. CASE j \in 1 .. n
    <3>1. i \in 1 .. n
      BY <1>1, <2>1
    <3> QED
      BY <1>1, <2>1, <3>1 DEF Silent, n
  <2>2. CASE j \notin 1 .. n
    BY <1>1, <2>2 DEF None
  <2> QED
    BY <2>1, <2>2
<1>7. ~Has(ln, u) /\ Silent(out, u, F) => Silent(t, u, F)
  <2> SUFFICES ASSUME ~Has(ln, u), Silent(out, u, F), NEW i \in 1 .. Len(t), NEW j \in 1 .. Len(t),
                      i < j, t[i] = UFrame(u)
               PROVE  t[j].fmt \notin F
    BY DEF Silent
  <2>1. i \notin 1 .. n /\ j \notin 1 .. n
    BY <1>1 DEF Has, n
  <2>2. /\ i - n \in 1 .. Len(out) /\ t[i] = out[i - n]
        /\ j - n \in 1 .. Len(out) /\ t[j] = out[j - n]
    BY <1>1, <2>1
  <2>3. n \in Nat
    BY <1>1
  <2>4. i - n < j - n
    BY <2>3
  <2> QED
    BY <2>2, <2>4 DEF Silent
<1> QED
  BY <1>1, <1>2, <1>3, <1>4, <1>5, <1>6, <1>7 DEF t

\* Acknowledgements are taken from the front and added at the end.
LEMMA AcksEndTail ==
    ASSUME NEW ln \in Seq(Apdu), ln # <<>>, NEW a, NEW r, AcksEnd(ln, a, r)
    PROVE  AcksEnd(Tail(ln), IF Head(ln).fmt \in Acks THEN Head(ln).recv ELSE a, r)
<1> USE HeadTail
<1> DEFINE t == Tail(ln)
<1>1. ASSUME NEW i \in 1 .. Len(t), t[i].fmt \in Acks,
             \A j \in (i + 1) .. Len(t) : t[j].fmt \notin Acks
      PROVE  t[i].recv = r
  <2>1. ASSUME NEW j \in (i + 1) + 1 .. Len(ln)
        PROVE  ln[j].fmt \notin Acks
    <3>1. j - 1 \in (i + 1) .. Len(t) /\ j - 1 \in 1 .. Len(t) /\ (j - 1) + 1 = j
      OBVIOUS
    <3> QED
      BY <1>1, <3>1
  <2> QED
    BY <1>1, <2>1 DEF AcksEnd
<1>2. ASSUME None(t, Acks)
      PROVE  (IF Head(ln).fmt \in Acks THEN Head(ln).recv ELSE a) = r
  <2>1. ASSUME NEW j \in 1 .. Len(ln), j # 1
        PROVE  ln[j].fmt \notin Acks
    <3> HIDE DEF t
    <3>1. Len(t) = Len(ln) - 1 /\ Len(ln) \in Nat
      BY DEF t
    <3>2. j - 1 \in 1 .. Len(t) /\ (j - 1) + 1 = j
      BY <2>1, <3>1
    <3> QED
      BY <1>2, <3>2 DEF None, t
  <2> QED
    BY <2>1 DEF AcksEnd, None
<1> QED
  BY <1>1, <1>2 DEF AcksEnd

\* What acknowledges from a up to r, followed by what does so from r up to q.
LEMMA AcksEndJoin ==
    ASSUME NEW ln \in Seq(Apdu), NEW out \in Seq(Apdu), NEW a, NEW r, NEW q,
           AcksEnd(ln, a, r), AcksEnd(out, r, q)
    PROVE  AcksEnd(ln \o out, a, q)
<1> DEFINE t == ln \o out
           n == Len(ln)
<1>1. /\ t \in Seq(Apdu) /\ n \in Nat /\ Len(out) \in Nat /\ Len(t) = n + Len(out)
      /\ \A i \in 1 .. n : t[i] = ln[i] /\ i \in 1 .. Len(t)
      /\ \A i \in 1 .. Len(t) : i \notin 1 .. n => i - n \in 1 .. Len(out) /\ t[i] = out[i - n]
      /\ \A i \in 1 .. Len(out) : i + n \in 1 .. Len(t) /\ t[i + n] = out[i]
  <2>1. \A i \in 1 .. Len(out) : /\ i + n \in 1 .. Len(t) /\ i + n \notin 1 .. n
                                 /\ (i + n) - n = i
    BY ConcatParts
  <2> QED
    BY <2>1, ConcatParts
<1> HIDE DEF t, n
<1>2. ASSUME NEW i \in 1 .. Len(t), t[i].fmt \in Acks,
             \A j \in (i + 1) .. Len(t) : t[j].fmt \notin Acks
      PROVE  t[i].recv = q
  <2>1. CASE i \in 1 .. n
    <3>1. None(out, Acks)
      BY <1>1, <1>2, <2>1 DEF None
    <3>2. \A j \in (i + 1) .. n : ln[j].fmt \notin Acks
      BY <1>1, <1>2, <2>1
    <3> QED
      BY <1>1, <1>2, <2>1, <3>1, <3>2 DEF AcksEnd, n
  <2>2. CASE i \notin 1 .. n
    <3>1. i - n \in 1 .. Len(out) /\ t[i] = out[i - n]
      BY <1>1, <2>2
    <3>2. \A j \in ((i - n) + 1) .. Len(out) : out[j].fmt \notin Acks
      <4>1. \A j \in ((i - n) + 1) .. Len(out) : j \in 1 .. Len(out) /\ j + n \in (i + 1) .. Len(t)
        BY <1>1, <3>1
      <4> QED
        BY <1>1, <1>2, <4>1
    <3> QED
      BY <1>2, <3>1, <3>2 DEF AcksEnd
  <2> QED
    BY <2>1, <2>2
<1>3. None(t, Acks) => a = q
  BY JoinParts DEF AcksEnd, t
<1> QED
  BY <1>2, <1>3 DEF AcksEnd, t

-----------------------------------------------------------------------------
(***************************************************************************)
(* What an iteration of a driver does, seen from the peer: it emits out,   *)
(* which acknowledges on from r0 to r1, holds no I-frame and of the        *)
(* U-frames that start and stop at most u.                                 *)
(***************************************************************************)
Emits(out, r0, r1, u) ==
    /\ out \in Seq(Apdu)
    /\ None(out, {"I"})
    /\ AcksEnd(out, r0, r1)
    /\ r0 = r1 => None(out, Acks)
    /\ \A v \in CtrlU : Has(out, v) <=> v = u
    /\ \A v \in CtrlU : Lone(out, v) /\ Silent(out, v, Acks)

\* The function v, if it is one that starts or stops.
Named(v) == IF v \in CtrlU THEN v ELSE "none"

\* Nothing, an S-frame, a U-frame.
LEMMA EmitsNothing ==
    ASSUME NEW r
    PROVE  Emits(<<>>, r, r, "none")
BY DEF Emits, None, AcksEnd, Has, Lone, Silent, CtrlU

\* An S-frame is emitted.
LEMMA EmitsS ==
    ASSUME NEW r0, NEW r1 \in SeqNo, r0 # r1
    PROVE  Emits(<<SFrame(r1)>>, r0, r1, "none")
<1> DEFINE out == <<SFrame(r1)>>
<1>1. /\ out \in Seq(Apdu) /\ Len(out) = 1 /\ out[1] = SFrame(r1)
      /\ SFrame(r1).fmt = "S" /\ SFrame(r1).recv = r1
  BY DEF SFrame, Apdu
<1>2. \A v : SFrame(r1) # UFrame(v)
  BY DEF SFrame, UFrame
<1> HIDE DEF out
<1>3. AcksEnd(out, r0, r1)
  BY <1>1 DEF AcksEnd, None, Acks
<1> QED
  BY <1>1, <1>2, <1>3 DEF Emits, None, Has, Lone, Silent, CtrlU, out

\* A U-frame is emitted.
LEMMA EmitsU ==
    ASSUME NEW r, NEW v \in UFunction
    PROVE  Emits(<<UFrame(v)>>, r, r, Named(v))
<1> DEFINE out == <<UFrame(v)>>
<1>1. /\ out \in Seq(Apdu) /\ Len(out) = 1 /\ out[1] = UFrame(v) /\ UFrame(v).fmt = "U"
      /\ \A w : UFrame(w) = UFrame(v) => w = v
  BY DEF UFrame, Apdu
<1> HIDE DEF out
<1>2. None(out, {"I"}) /\ None(out, Acks) /\ AcksEnd(out, r, r)
  BY <1>1 DEF None, AcksEnd, Acks
<1>3. \A w \in CtrlU : Has(out, w) <=> w = Named(v)
  BY <1>1 DEF Has, CtrlU, Named
<1>4. \A w \in CtrlU : Lone(out, w) /\ Silent(out, w, Acks)
  BY <1>1 DEF Lone, Silent
<1> QED
  BY <1>1, <1>2, <1>3, <1>4 DEF Emits, out

\* First acknowledgements, then a U-frame.
LEMMA EmitsJoin ==
    ASSUME NEW r0, NEW r1, NEW o, Emits(o, r0, r1, "none"), NEW p, NEW u, Emits(p, r1, r1, u)
    PROVE  Emits(o \o p, r0, r1, u)
<1>1. o \in Seq(Apdu) /\ p \in Seq(Apdu)
  BY DEF Emits
<1>2. o \o p \in Seq(Apdu) /\ None(o \o p, {"I"}) /\ (r0 = r1 => None(o \o p, Acks))
  BY <1>1, JoinParts DEF Emits
<1>3. AcksEnd(o \o p, r0, r1)
  BY <1>1, AcksEndJoin DEF Emits
<1>4. \A v \in CtrlU : ~Has(o, v)
  BY DEF Emits, CtrlU
<1>5. \A v \in CtrlU : Has(o \o p, v) <=> v = u
  BY <1>1, <1>4, JoinParts DEF Emits
<1>6. \A v \in CtrlU : Lone(o \o p, v) /\ Silent(o \o p, v, Acks)
  BY <1>1, <1>4, JoinParts DEF Emits
<1> QED
  BY <1>2, <1>3, <1>5, <1>6 DEF Emits

-----------------------------------------------------------------------------
(***************************************************************************)
(* The iterations.                                                         *)
(***************************************************************************)

\* c goes round its loop once: it ends with the locals e, transfer on or off as
\* act says, and emits out.
Turn(c, e, act, out, u, ln) ==
    /\ e \in Driver /\ act \in BOOLEAN
    /\ e.maySend => act /\ ~e.stopping
    /\ Emits(out, drv[c].ackNoRcv, e.ackNoRcv, u)
    /\ drv' = [drv EXCEPT ![c] = e]
    /\ active' = [active EXCEPT ![c] = act]
    /\ line' = [ln EXCEPT ![c] = @ \o out]
    /\ UNCHANGED connected

\* The same numbers, and the same requests unconfirmed.
SameControl(e, d) ==
    /\ SameWindow(e, d)
    /\ e.ackNoRcv = d.ackNoRcv
    /\ e.startDtSince = d.startDtSince
    /\ e.stopDtSince = d.stopDtSince
    /\ e.stopping = d.stopping

\* A STOPDT con that is held (p) goes out once nothing sent is unacknowledged.
Releases(e, p, u) ==
    IF p /\ e.ackNoSend = e.seqNoSend
      THEN ~e.stopConPending /\ u = "StopDtCon"
      ELSE (e.stopConPending <=> p) /\ u = "none"

\* The end of an iteration, and of the frame branch.
LEMMA IterateTurn ==
    ASSUME NEW c \in Conn, NEW d \in Driver, NEW act \in BOOLEAN, NEW out, NEW u, NEW ln,
           Emits(out, drv[c].ackNoRcv, d.ackNoRcv, u), Iterate(c, d, act, out, ln)
    PROVE  \E e : /\ Turn(c, e, act, out, u, ln)
                  /\ SameControl(e, d)
                  /\ e.stopConPending = d.stopConPending
<1> DEFINE e == LoopHead(c, d, act)
<1>1. /\ e \in Driver /\ SameWindow(e, d)
      /\ e.maySend => act /\ ~d.stopping
  BY LoopHeadWindow
<1>2. SameControl(e, d) /\ e.stopConPending = d.stopConPending
  BY <1>1 DEF SameControl, LoopHead, Driver
<1>3. /\ drv' = [drv EXCEPT ![c] = e]
      /\ active' = [active EXCEPT ![c] = act]
      /\ line' = [ln EXCEPT ![c] = @ \o out]
      /\ UNCHANGED connected
  BY DEF Iterate
<1> HIDE DEF e
<1>4. Turn(c, e, act, out, u, ln)
  BY <1>1, <1>2, <1>3 DEF Turn, SameControl
<1> QED
  BY <1>2, <1>4

\* The end of a frame's handling is a turn, which releases a held con if one is due.
LEMMA FrameDoneTurn ==
    ASSUME NEW c \in Conn, NEW d \in Driver, NEW act \in BOOLEAN, NEW out, NEW ln,
           Emits(out, drv[c].ackNoRcv, d.ackNoRcv, "none"), FrameDone(c, d, act, out, ln)
    PROVE  \E e, o, u : /\ Turn(c, e, act, o, u, ln)
                        /\ SameControl(e, d)
                        /\ Releases(e, d.stopConPending, u)
<1>1. CASE ~StopConDue(d)
  <2>1. PICK e : /\ Turn(c, e, act, out, "none", ln)
                 /\ SameControl(e, d)
                 /\ e.stopConPending = d.stopConPending
    BY <1>1, IterateTurn DEF FrameDone
  <2>2. Releases(e, d.stopConPending, "none")
    BY <1>1, <2>1 DEF Releases, StopConDue, SameControl, SameWindow
  <2> QED
    BY <2>1, <2>2
<1>2. CASE StopConDue(d)
  <2> DEFINE g == [d EXCEPT !.stopConPending = FALSE]
             o == Append(out, UFrame("StopDtCon"))
  <2>1. g \in Driver /\ SameControl(g, d) /\ ~g.stopConPending
    BY DEF Driver, SameControl, SameWindow
  <2>2. Emits(o, drv[c].ackNoRcv, d.ackNoRcv, "StopDtCon")
    <3>1. Emits(<<UFrame("StopDtCon")>>, d.ackNoRcv, d.ackNoRcv, "StopDtCon")
      BY EmitsU DEF UFunction, Named, CtrlU
    <3>2. o = out \o <<UFrame("StopDtCon")>>
      BY DEF Emits
    <3> QED
      BY <3>1, <3>2, EmitsJoin
  <2>3. Iterate(c, g, act, o, ln)
    BY <1>2 DEF FrameDone
  <2> HIDE DEF g, o
  <2>4. PICK e : /\ Turn(c, e, act, o, "StopDtCon", ln)
                 /\ SameControl(e, g)
                 /\ e.stopConPending = g.stopConPending
    BY <2>1, <2>2, <2>3, IterateTurn DEF SameControl
  <2>5. SameControl(e, d) /\ Releases(e, d.stopConPending, "StopDtCon")
    BY <1>2, <2>1, <2>4 DEF Releases, StopConDue, SameControl, SameWindow
  <2> QED
    BY <2>4, <2>5
<1> QED
  BY <1>1, <1>2

\* What the frame f does to its reader c, unless c closes.
Effect(c, f, e, act, u) ==
    LET d       == drv[c]
        starts  == Role[c] = "Controlled" /\ f = UFrame("StartDtAct")
        stops   == Role[c] = "Controlled" /\ f = UFrame("StopDtAct")
        started == Role[c] = "Master" /\ f = UFrame("StartDtCon")
        stopped == Role[c] = "Master" /\ f = UFrame("StopDtCon")
    IN  /\ e.ackNoSend = IF f.fmt \in Acks THEN f.recv ELSE d.ackNoSend
        /\ e.startDtSince <=> d.startDtSince /\ ~started
        /\ e.stopDtSince <=> d.stopDtSince /\ ~stopped
        /\ e.stopping <=> d.stopping /\ ~stopped
        /\ act <=> (active[c] \/ starts \/ started) /\ ~stops /\ ~stopped
        /\ starts => ~e.stopConPending /\ u = "StartDtCon"
        /\ stops => Releases(e, TRUE, u)
        /\ ~starts /\ ~stops => Releases(e, d.stopConPending, u)
        /\ f.fmt = "I" => active[c] \/ Role[c] = "Master"
        /\ f.fmt # "I" => e.seqNoRcv = d.seqNoRcv
        /\ f.fmt # "I" /\ ~stops => e.ackNoRcv = d.ackNoRcv
        /\ stops => e.ackNoRcv = e.seqNoRcv

\* c takes f and goes on.
Reads(c, f, ln) == \E e, act, out, u : Turn(c, e, act, out, u, ln) /\ Effect(c, f, e, act, u)

\* A frame that neither starts nor stops anything.
LEMMA PlainEffect ==
    ASSUME CoreInv, NEW c \in Conn, NEW f, NEW e, NEW u,
           \A v \in CtrlU : f = UFrame(v) => Role[c] \notin ForRole(v),
           e.ackNoSend = IF f.fmt \in Acks THEN f.recv ELSE drv[c].ackNoSend,
           e.startDtSince = drv[c].startDtSince, e.stopDtSince = drv[c].stopDtSince,
           e.stopping = drv[c].stopping, Releases(e, drv[c].stopConPending, u),
           f.fmt = "I" => active[c] \/ Role[c] = "Master",
           f.fmt # "I" => e.seqNoRcv = drv[c].seqNoRcv /\ e.ackNoRcv = drv[c].ackNoRcv
    PROVE  Effect(c, f, e, active[c], u)
<1>1. active[c] \in BOOLEAN
  BY DEF CoreInv
<1>2. /\ Role[c] = "Controlled" => f # UFrame("StartDtAct") /\ f # UFrame("StopDtAct")
      /\ Role[c] = "Master" => f # UFrame("StartDtCon") /\ f # UFrame("StopDtCon")
  BY DEF CtrlU, ForRole
<1> QED
  BY <1>1, <1>2 DEF Effect

\* A malformed frame, an S-frame, an I-frame.
LEMMA OnMalformedReads ==
    ASSUME CoreInv, NEW c \in Conn, NEW f \in Apdu, NEW ln, NEW pk, OnMalformed(c, f, ln, pk)
    PROVE  Reads(c, f, ln)
<1> DEFINE d == drv[c]
<1>1. d \in Driver /\ active[c] \in BOOLEAN /\ HeldInv(c, d, active[c])
  BY DEF CoreInv
<1>2. PICK e : /\ Turn(c, e, active[c], <<>>, "none", ln)
               /\ SameControl(e, d)
               /\ e.stopConPending = d.stopConPending
  BY <1>1, EmitsNothing, IterateTurn DEF OnMalformed
<1>3. f.fmt = "malformed" /\ \A v : f # UFrame(v)
  BY DEF OnMalformed, Malformed, UFrame
<1>4. Releases(e, d.stopConPending, "none")
  BY <1>1, <1>2 DEF Releases, HeldInv, SameControl, SameWindow
<1>5. Effect(c, f, e, active[c], "none")
  BY <1>2, <1>3, <1>4, PlainEffect DEF SameControl, SameWindow, Acks
<1> QED
  BY <1>2, <1>5 DEF Reads

\* An S-frame is read.
LEMMA OnSReads ==
    ASSUME CoreInv, NEW c \in Conn, NEW f \in Apdu, NEW ln, NEW pk, OnS(c, f, ln, pk),
           UNCHANGED connected, connected[c]
    PROVE  Reads(c, f, ln)
<1> DEFINE d == drv[c]
           g == Acknowledge(d, f.recv)
<1>1. d \in Driver /\ active[c] \in BOOLEAN /\ DriverInv(c, d)
  BY DEF CoreInv
<1>2. f.fmt = "S" /\ f.recv \in SeqNo /\ \A v : f # UFrame(v)
  BY ApduFields DEF OnS, IsAck, UFrame
<1>3. AckAccepted(d, f.recv) /\ FrameDone(c, g, active[c], <<>>, ln)
  BY DEF OnS, Close, CoreInv
<1>4. g \in Driver
  BY <1>1, <1>2, <1>3, AcknowledgeInv DEF DriverInv
<1>5. /\ g.ackNoSend = f.recv /\ g.seqNoRcv = d.seqNoRcv /\ g.ackNoRcv = d.ackNoRcv
      /\ g.startDtSince = d.startDtSince /\ g.stopDtSince = d.stopDtSince
      /\ g.stopping = d.stopping /\ g.stopConPending = d.stopConPending
  BY <1>1 DEF Acknowledge, Driver
<1> HIDE DEF d, g
<1>6. PICK e, o, u : /\ Turn(c, e, active[c], o, u, ln)
                     /\ SameControl(e, g)
                     /\ Releases(e, g.stopConPending, u)
  BY <1>1, <1>3, <1>4, <1>5, EmitsNothing, FrameDoneTurn DEF d
<1>7. Effect(c, f, e, active[c], u)
  BY <1>2, <1>5, <1>6, PlainEffect DEF SameControl, SameWindow, Acks, d
<1> QED
  BY <1>6, <1>7 DEF Reads

\* An I-frame is read.
LEMMA OnIReads ==
    ASSUME CoreInv, NEW c \in Conn, NEW f \in Apdu, NEW ln, NEW pk, OnI(c, f, ln, pk),
           UNCHANGED connected, connected[c]
    PROVE  Reads(c, f, ln)
<1> DEFINE d == drv[c]
           a == Acknowledge(d, f.recv)
           g == Received(a)
           full == AckDue(c, g)
           h == IF full THEN AckSent(g) ELSE g
           o == IF full THEN <<SFrame(g.seqNoRcv)>> ELSE <<>>
<1>1. d \in Driver /\ active[c] \in BOOLEAN /\ DriverInv(c, d)
  BY DEF CoreInv
<1>2. f.fmt = "I" /\ f.recv \in SeqNo /\ \A v : f # UFrame(v)
  BY ApduFields DEF OnI, IsAck, UFrame
<1>3. IFrameError(c, f) = "none" /\ FrameDone(c, h, active[c], o, ln)
  BY DEF OnI, Close, CoreInv
<1>4. AckAccepted(d, f.recv) /\ (active[c] \/ Role[c] = "Master")
  BY <1>3, ConnectionAssumption DEF IFrameError
<1>5. a \in Driver
  BY <1>1, <1>2, <1>4, AcknowledgeInv DEF DriverInv
<1>6. /\ a.ackNoSend = f.recv /\ a.ackNoRcv = d.ackNoRcv
      /\ a.startDtSince = d.startDtSince /\ a.stopDtSince = d.stopDtSince
      /\ a.stopping = d.stopping /\ a.stopConPending = d.stopConPending
  BY <1>1 DEF Acknowledge, Driver
<1> HIDE DEF a
<1>7. g \in Driver
  BY <1>5, SuccCases DEF Received, Driver
<1>8. /\ g.ackNoSend = a.ackNoSend /\ g.ackNoRcv = a.ackNoRcv
      /\ g.startDtSince = a.startDtSince /\ g.stopDtSince = a.stopDtSince
      /\ g.stopping = a.stopping /\ g.stopConPending = a.stopConPending
  BY <1>5 DEF Received, Driver
<1> HIDE DEF g
<1>9. /\ h \in Driver /\ h.ackNoSend = g.ackNoSend
      /\ h.startDtSince = g.startDtSince /\ h.stopDtSince = g.stopDtSince
      /\ h.stopping = g.stopping /\ h.stopConPending = g.stopConPending
      /\ h.ackNoRcv = IF full THEN g.seqNoRcv ELSE g.ackNoRcv
  BY <1>7 DEF AckSent, Driver
<1>10. Emits(o, d.ackNoRcv, h.ackNoRcv, "none")
  <2>1. CASE full
    <3>1. g.ackNoRcv # g.seqNoRcv /\ g.seqNoRcv \in SeqNo
      BY <1>7, <2>1, CountRange, ConnectionAssumption DEF AckDue, Unacked, Driver
    <3> QED
      BY <1>6, <1>8, <1>9, <2>1, <3>1, EmitsS
  <2>2. CASE ~full
    BY <1>6, <1>8, <1>9, <2>2, EmitsNothing
  <2> QED
    BY <2>1, <2>2
<1> HIDE DEF full, h, o, d
<1>11. PICK e, p, u : /\ Turn(c, e, active[c], p, u, ln)
                      /\ SameControl(e, h)
                      /\ Releases(e, h.stopConPending, u)
  BY <1>1, <1>3, <1>9, <1>10, FrameDoneTurn DEF d
<1>12. Effect(c, f, e, active[c], u)
  BY <1>2, <1>4, <1>6, <1>7, <1>8, <1>9, <1>11, PlainEffect
  DEF SameControl, SameWindow, Acks, d
<1> QED
  BY <1>11, <1>12 DEF Reads

\* The U-frames, one by one.
LEMMA OnUReads ==
    ASSUME CoreInv, NEW c \in Conn, NEW f \in Apdu, NEW ln, NEW pk, OnU(c, f, ln, pk)
    PROVE  Reads(c, f, ln)
<1> DEFINE d == drv[c]
<1>1. /\ d \in Driver /\ active[c] \in BOOLEAN /\ Role[c] \in {"Master", "Controlled"}
      /\ d.ackNoRcv \in SeqNo /\ d.seqNoRcv \in SeqNo
  BY ConnectionAssumption DEF CoreInv, Driver
<1>2. f.fmt = "U" /\ f.fmt \notin Acks /\ f.fmt # "I"
  BY DEF OnU, Acks
<1>3. PICK func \in UFunction : f = UFrame(func) /\ f.func = func
  <2>1. f \in [fmt : {"U"}, func : UFunction]
    BY <1>2 DEF Apdu, Malformed
  <2> QED
    BY <2>1 DEF UFrame
<1>4. \A v, w : UFrame(v) = UFrame(w) => v = w
  BY DEF UFrame
<1>5. /\ Emits(<<>>, d.ackNoRcv, d.ackNoRcv, "none")
      /\ Emits(<<UFrame("TestFrCon")>>, d.ackNoRcv, d.ackNoRcv, "none")
      /\ Emits(<<UFrame("StartDtCon")>>, d.ackNoRcv, d.ackNoRcv, "StartDtCon")
  BY EmitsNothing, EmitsU DEF Named, CtrlU, UFunction
<1> HIDE DEF d
<1>6. ASSUME NEW g \in Driver, SameControl(g, d), g.stopConPending = d.stopConPending,
             NEW out, Emits(out, d.ackNoRcv, d.ackNoRcv, "none"),
             FrameDone(c, g, active[c], out, ln),
             func \in CtrlU => Role[c] \notin ForRole(func)
      PROVE  Reads(c, f, ln)
  <2>1. PICK e, o, u : /\ Turn(c, e, active[c], o, u, ln)
                       /\ SameControl(e, g)
                       /\ Releases(e, g.stopConPending, u)
    BY <1>1, <1>6, FrameDoneTurn DEF SameControl, d
  <2>2. Effect(c, f, e, active[c], u)
    BY <1>2, <1>3, <1>4, <1>6, <2>1, PlainEffect DEF SameControl, SameWindow, d
  <2> QED
    BY <2>1, <2>2 DEF Reads
<1>7. CASE Role[c] \notin ForRole(func)
  <2>1. FrameDone(c, d, active[c], <<>>, ln)
    BY <1>3, <1>7 DEF OnU, d
  <2> QED
    BY <1>1, <1>5, <1>6, <1>7, <2>1 DEF SameControl, SameWindow
<1>8. CASE Role[c] \in ForRole(func) /\ func = "TestFrAct"
  <2>1. FrameDone(c, d, active[c], <<UFrame("TestFrCon")>>, ln)
    BY <1>3, <1>8 DEF OnU, OnTestFrAct, d
  <2> QED
    BY <1>1, <1>5, <1>6, <1>8, <2>1 DEF SameControl, SameWindow, CtrlU
<1>9. CASE Role[c] \in ForRole(func) /\ func = "TestFrCon"
  <2> DEFINE g == [d EXCEPT !.testFrSince = FALSE]
  <2>1. FrameDone(c, g, active[c], <<>>, ln)
    BY <1>3, <1>9 DEF OnU, OnTestFrCon, d
  <2>2. g \in Driver /\ SameControl(g, d) /\ g.stopConPending = d.stopConPending
    BY <1>1 DEF Driver, SameControl, SameWindow
  <2> HIDE DEF g
  <2> QED
    BY <1>5, <1>6, <1>9, <2>1, <2>2 DEF CtrlU
<1>10. CASE Role[c] \in ForRole(func) /\ func = "StartDtAct"
  <2> DEFINE g == [d EXCEPT !.stopConPending = FALSE]
  <2>1. FrameDone(c, g, TRUE, <<UFrame("StartDtCon")>>, ln) /\ Role[c] = "Controlled"
    BY <1>1, <1>3, <1>10 DEF OnU, OnStartDtAct, ForRole, d
  <2>2. g \in Driver /\ SameControl(g, d) /\ ~g.stopConPending
    BY <1>1 DEF Driver, SameControl, SameWindow
  <2> HIDE DEF g
  <2> DEFINE out == <<UFrame("StartDtCon")>>
             on  == TRUE
  <2>3. /\ Iterate(c, g, on, out, ln) /\ on \in BOOLEAN
        /\ Emits(out, drv[c].ackNoRcv, g.ackNoRcv, "StartDtCon")
    BY <1>5, <2>1, <2>2 DEF FrameDone, StopConDue, SameControl, d
  <2> HIDE DEF out, on
  <2>4. PICK e : /\ Turn(c, e, on, out, "StartDtCon", ln)
                 /\ SameControl(e, g)
                 /\ e.stopConPending = g.stopConPending
    BY <2>2, <2>3, IterateTurn
  <2>5. Effect(c, f, e, on, "StartDtCon")
    BY <1>2, <1>3, <1>4, <1>10, <2>1, <2>2, <2>4 DEF Effect, SameControl, SameWindow, d, on
  <2> QED
    BY <2>4, <2>5 DEF Reads
<1>11. CASE Role[c] \in ForRole(func) /\ func = "StopDtAct"
  <2> DEFINE a == AckSent(d)
             g == [a EXCEPT !.stopConPending = TRUE]
             out == IF AckOwed(d) THEN <<SFrame(d.seqNoRcv)>> ELSE <<>>
  <2>1. FrameDone(c, g, FALSE, out, ln) /\ Role[c] = "Controlled"
    BY <1>1, <1>3, <1>11 DEF OnU, OnStopDtAct, ForRole, d
  <2>2. /\ g \in Driver /\ SameWindow(g, d) /\ g.stopConPending = TRUE
        /\ g.startDtSince = d.startDtSince /\ g.stopDtSince = d.stopDtSince
        /\ g.stopping = d.stopping /\ g.ackNoRcv = d.seqNoRcv
    BY <1>1 DEF AckSent, Driver, SameWindow
  <2>3. Emits(out, d.ackNoRcv, g.ackNoRcv, "none")
    BY <1>1, <2>2, EmitsS, EmitsNothing DEF AckOwed
  <2> HIDE DEF g, out
  <2>4. PICK e, o, u : /\ Turn(c, e, FALSE, o, u, ln)
                       /\ SameControl(e, g)
                       /\ Releases(e, TRUE, u)
    BY <2>1, <2>2, <2>3, FrameDoneTurn DEF d
  <2>5. Effect(c, f, e, FALSE, u)
    BY <1>2, <1>3, <1>4, <1>11, <2>1, <2>2, <2>4 DEF Effect, SameControl, SameWindow, d
  <2> QED
    BY <2>4, <2>5 DEF Reads
<1>12. CASE Role[c] \in ForRole(func) /\ func = "StartDtCon"
  <2> DEFINE g == [d EXCEPT !.startDtSince = FALSE]
  <2>1. FrameDone(c, g, TRUE, <<>>, ln) /\ Role[c] = "Master"
    BY <1>1, <1>3, <1>12 DEF OnU, OnStartDtCon, ForRole, d
  <2>2. /\ g \in Driver /\ SameWindow(g, d) /\ g.stopConPending = d.stopConPending
        /\ ~g.startDtSince /\ g.stopDtSince = d.stopDtSince
        /\ g.stopping = d.stopping /\ g.ackNoRcv = d.ackNoRcv
    BY <1>1 DEF Driver, SameWindow
  <2> HIDE DEF g
  <2>3. PICK e, o, u : /\ Turn(c, e, TRUE, o, u, ln)
                       /\ SameControl(e, g)
                       /\ Releases(e, d.stopConPending, u)
    BY <1>5, <2>1, <2>2, FrameDoneTurn DEF d
  <2>4. Effect(c, f, e, TRUE, u)
    BY <1>2, <1>3, <1>4, <1>12, <2>1, <2>2, <2>3 DEF Effect, SameControl, SameWindow, d
  <2> QED
    BY <2>3, <2>4 DEF Reads
<1>13. CASE Role[c] \in ForRole(func) /\ func = "StopDtCon"
  <2> DEFINE g == [d EXCEPT !.stopDtSince = FALSE, !.stopping = FALSE]
  <2>1. FrameDone(c, g, FALSE, <<>>, ln) /\ Role[c] = "Master"
    BY <1>1, <1>3, <1>13 DEF OnU, OnStopDtCon, ForRole, d
  <2>2. /\ g \in Driver /\ SameWindow(g, d) /\ g.stopConPending = d.stopConPending
        /\ g.startDtSince = d.startDtSince /\ ~g.stopDtSince
        /\ ~g.stopping /\ g.ackNoRcv = d.ackNoRcv
    BY <1>1 DEF Driver, SameWindow
  <2> HIDE DEF g
  <2>3. PICK e, o, u : /\ Turn(c, e, FALSE, o, u, ln)
                       /\ SameControl(e, g)
                       /\ Releases(e, d.stopConPending, u)
    BY <1>5, <2>1, <2>2, FrameDoneTurn DEF d
  <2>4. Effect(c, f, e, FALSE, u)
    BY <1>2, <1>3, <1>4, <1>13, <2>1, <2>2, <2>3 DEF Effect, SameControl, SameWindow, d
  <2> QED
    BY <2>3, <2>4 DEF Reads
<1> QED
  BY <1>3, <1>7, <1>8, <1>9, <1>10, <1>11, <1>12, <1>13 DEF UFunction

\* Any frame: c closes, or takes it and goes on.
LEMMA OnFrameReads ==
    ASSUME CoreInv, NEW c \in Conn, NEW f \in Apdu, NEW ln, NEW pk, OnFrame(c, f, ln, pk)
    PROVE  /\ UNCHANGED ctrlQ
           /\ \/ Reads(c, f, ln)
              \/ \E why : Close(c, why, ln)
<1>1. CASE OnMalformed(c, f, ln, pk)
  BY <1>1, OnMalformedReads DEF OnMalformed
<1>2. CASE OnS(c, f, ln, pk)
  <2>1. CASE AckAccepted(drv[c], f.recv)
    BY <1>2, <2>1, OnSReads DEF OnS, FrameDone, Iterate, OnFrame
  <2> QED
    BY <1>2, <2>1 DEF OnS, Close
<1>3. CASE OnI(c, f, ln, pk)
  <2>1. CASE IFrameError(c, f) = "none"
    BY <1>3, <2>1, OnIReads DEF OnI, FrameDone, Iterate, OnFrame
  <2> QED
    BY <1>3, <2>1 DEF OnI, Close
<1>4. CASE OnU(c, f, ln, pk)
  BY <1>4, OnUReads DEF OnU
<1> QED
  BY <1>1, <1>2, <1>3, <1>4 DEF OnFrame

\* The locals e differ from d in what a tick may change: the acknowledgement of
\* received frames, if one is owed.
Ticked(e, d) ==
    /\ SameWindow(e, d)
    /\ d.ackNoRcv = d.seqNoRcv => e.ackNoRcv = d.ackNoRcv
    /\ e.startDtSince = d.startDtSince
    /\ e.stopDtSince = d.stopDtSince
    /\ e.stopping = d.stopping
    /\ e.stopConPending = d.stopConPending

\* The ticker branch.
LEMMA TickTurn ==
    ASSUME CoreInv, NEW c \in Conn, NEW t2 \in BOOLEAN, NEW t3 \in BOOLEAN, NEW ln,
           Tick(c, t2, t3, ln)
    PROVE  \E e, out : Turn(c, e, active[c], out, "none", ln) /\ Ticked(e, drv[c])
<1> DEFINE d   == drv[c]
           ack == t2 /\ AckOwed(d)
           a   == IF ack THEN AckSent(d) ELSE d
           g   == IF t3 THEN [a EXCEPT !.testFrSince = TRUE] ELSE a
           o   == IF ack THEN <<SFrame(d.seqNoRcv)>> ELSE <<>>
           p   == IF t3 THEN <<UFrame("TestFrAct")>> ELSE <<>>
<1>1. d \in Driver /\ active[c] \in BOOLEAN /\ d.seqNoRcv \in SeqNo
  BY DEF CoreInv, Driver
<1>2. Iterate(c, g, active[c], o \o p, ln)
  BY DEF Tick
<1>3. /\ a \in Driver /\ Ticked(a, d)
      /\ a.ackNoRcv = IF ack THEN d.seqNoRcv ELSE d.ackNoRcv
  BY <1>1 DEF AckSent, AckOwed, Driver, Ticked, SameWindow
<1>4. Emits(o, d.ackNoRcv, a.ackNoRcv, "none")
  BY <1>1, <1>3, EmitsS, EmitsNothing DEF AckOwed
<1> HIDE DEF a, o
<1>5. g \in Driver /\ Ticked(g, d) /\ g.ackNoRcv = a.ackNoRcv
  BY <1>3 DEF Driver, Ticked, SameWindow
<1>6. Emits(p, a.ackNoRcv, a.ackNoRcv, "none")
  BY EmitsU, EmitsNothing DEF Named, CtrlU, UFunction
<1> HIDE DEF p, g, d
<1>7. Emits(o \o p, drv[c].ackNoRcv, g.ackNoRcv, "none")
  BY <1>4, <1>5, <1>6, EmitsJoin DEF d
<1>8. PICK e : /\ Turn(c, e, active[c], o \o p, "none", ln)
               /\ SameControl(e, g)
               /\ e.stopConPending = g.stopConPending
  BY <1>1, <1>2, <1>5, <1>7, IterateTurn
<1>9. Ticked(e, d)
  BY <1>5, <1>8 DEF Ticked, SameControl, SameWindow
<1> QED
  BY <1>8, <1>9 DEF d

\* The branch of start and stop requests.
LEMMA SendCtrlTurn ==
    ASSUME CoreInv, QueuesInv, NEW c \in Conn, NEW ln, SendCtrl(c, ln)
    PROVE  /\ ctrlQ' = [ctrlQ EXCEPT ![c] = Tail(@)]
           /\ \E e, out :
                /\ SameWindow(e, drv[c])
                /\ e.ackNoRcv = drv[c].ackNoRcv
                /\ e.stopConPending = drv[c].stopConPending
                /\ \/ /\ Turn(c, e, active[c], out, "StartDtAct", ln)
                      /\ e.startDtSince /\ ~e.stopping
                      /\ e.stopDtSince = drv[c].stopDtSince
                   \/ /\ Turn(c, e, active[c], out, "StopDtAct", ln)
                      /\ e.stopDtSince /\ e.stopping
                      /\ e.startDtSince = drv[c].startDtSince
<1> DEFINE d == drv[c]
           a == StartSent(d)
           o == StopSent(d)
<1>1. d \in Driver /\ active[c] \in BOOLEAN
  BY DEF CoreInv
<1>2. /\ Emits(<<UFrame("StartDtAct")>>, d.ackNoRcv, d.ackNoRcv, "StartDtAct")
      /\ Emits(<<UFrame("StopDtAct")>>, d.ackNoRcv, d.ackNoRcv, "StopDtAct")
  BY EmitsU DEF Named, CtrlU, UFunction
<1>3. /\ a \in Driver /\ SameWindow(a, d) /\ a.ackNoRcv = d.ackNoRcv
      /\ a.stopConPending = d.stopConPending
      /\ a.startDtSince /\ ~a.stopping /\ a.stopDtSince = d.stopDtSince
  BY <1>1 DEF StartSent, Driver, SameWindow
<1>4. /\ o \in Driver /\ SameWindow(o, d) /\ o.ackNoRcv = d.ackNoRcv
      /\ o.stopConPending = d.stopConPending
      /\ o.stopDtSince /\ o.stopping /\ o.startDtSince = d.startDtSince
  BY <1>1 DEF StopSent, Driver, SameWindow
<1>5. /\ ctrlQ' = [ctrlQ EXCEPT ![c] = Tail(@)]
      /\ \/ Iterate(c, a, active[c], <<UFrame("StartDtAct")>>, ln)
         \/ Iterate(c, o, active[c], <<UFrame("StopDtAct")>>, ln)
  BY DEF SendCtrl
<1> HIDE DEF a, o
<1>6. CASE Iterate(c, a, active[c], <<UFrame("StartDtAct")>>, ln)
  <2>1. PICK e : /\ Turn(c, e, active[c], <<UFrame("StartDtAct")>>, "StartDtAct", ln)
                 /\ SameControl(e, a)
                 /\ e.stopConPending = a.stopConPending
    BY <1>1, <1>2, <1>3, <1>6, IterateTurn
  <2> QED
    BY <1>3, <1>5, <2>1 DEF SameControl, SameWindow
<1>7. CASE Iterate(c, o, active[c], <<UFrame("StopDtAct")>>, ln)
  <2>1. PICK e : /\ Turn(c, e, active[c], <<UFrame("StopDtAct")>>, "StopDtAct", ln)
                 /\ SameControl(e, o)
                 /\ e.stopConPending = o.stopConPending
    BY <1>1, <1>2, <1>4, <1>7, IterateTurn
  <2> QED
    BY <1>4, <1>5, <2>1 DEF SameControl, SameWindow
<1> QED
  BY <1>5, <1>6, <1>7

\* c sends the I-frame f, which acknowledges everything received, and ends with
\* the locals e.
Sends(c, e, f, ln) ==
    /\ e.maySend => active[c] /\ ~e.stopping
    /\ f.fmt = "I" /\ f.recv = e.ackNoRcv
    /\ e.ackNoSend = drv[c].ackNoSend
    /\ e.startDtSince = drv[c].startDtSince
    /\ e.stopDtSince = drv[c].stopDtSince
    /\ e.stopping = drv[c].stopping
    /\ e.stopConPending = drv[c].stopConPending
    /\ drv' = [drv EXCEPT ![c] = e]
    /\ active' = [active EXCEPT ![c] = active[c]]
    /\ line' = [ln EXCEPT ![c] = @ \o <<f>>]
    /\ UNCHANGED <<connected, ctrlQ>>

\* The ASDU branch.
LEMMA SendAsduTurn ==
    ASSUME CoreInv, QueuesInv, NEW c \in Conn, NEW ln, SendAsdu(c, ln)
    PROVE  \E e \in Driver, f \in Apdu : Sends(c, e, f, ln)
<1> DEFINE d == drv[c]
           g == Sent(d)
           e == LoopHead(c, g, active[c])
           f == IFrame(d.seqNoSend, d.seqNoRcv, Head(asduQ[c]))
<1>1. d \in Driver /\ active[c] \in BOOLEAN /\ Head(asduQ[c]) \in Asdu
  BY DEF CoreInv, QueuesInv, SendAsdu
<1>2. /\ g \in Driver /\ g.ackNoSend = d.ackNoSend /\ g.ackNoRcv = d.seqNoRcv
      /\ g.startDtSince = d.startDtSince /\ g.stopDtSince = d.stopDtSince
      /\ g.stopping = d.stopping /\ g.stopConPending = d.stopConPending
  <2>1. Succ(d.seqNoSend) \in SeqNo /\ Append(d.pending, d.seqNoSend) \in Seq(SeqNo)
    BY <1>1, SuccCases DEF Driver
  <2> QED
    BY <1>1, <2>1 DEF Sent, Driver
<1>3. f \in Apdu /\ f.fmt = "I" /\ f.recv = d.seqNoRcv
  BY <1>1 DEF IFrame, Apdu, Driver
<1>4. Iterate(c, g, active[c], <<f>>, ln) /\ UNCHANGED ctrlQ
  BY <1>1 DEF SendAsdu
<1> HIDE DEF g, f
<1>5. e \in Driver /\ SameWindow(e, g)
  BY <1>1, <1>2, LoopHeadWindow
<1>6. /\ e.ackNoRcv = g.ackNoRcv /\ e.startDtSince = g.startDtSince
      /\ e.stopDtSince = g.stopDtSince /\ e.stopping = g.stopping
      /\ e.stopConPending = g.stopConPending
  BY <1>2 DEF LoopHead, Driver
<1>7. e.maySend => active[c] /\ ~e.stopping
  BY <1>1, <1>2, <1>6, LoopHeadWindow
<1>8. /\ drv' = [drv EXCEPT ![c] = e]
      /\ active' = [active EXCEPT ![c] = active[c]]
      /\ line' = [ln EXCEPT ![c] = @ \o <<f>>]
      /\ UNCHANGED connected
  BY <1>4 DEF Iterate
<1> HIDE DEF e
<1>9. f.recv = e.ackNoRcv /\ e.ackNoSend = d.ackNoSend
  BY <1>2, <1>3, <1>5, <1>6 DEF SameWindow
<1>10. Sends(c, e, f, ln)
  BY <1>2, <1>3, <1>4, <1>6, <1>7, <1>8, <1>9 DEF Sends
<1> QED
  BY <1>3, <1>5, <1>10

\* What the peer finds on the line after an iteration.
LEMMA EmitsOnto ==
    ASSUME NEW ln \in Seq(Apdu), NEW out, NEW r0, NEW r1, NEW u, Emits(out, r0, r1, u)
    PROVE  LET t == ln \o out
           IN  /\ None(t, {"I"}) <=> None(ln, {"I"})
               /\ r0 = r1 => (None(t, Acks) <=> None(ln, Acks))
               /\ \A a : AcksEnd(ln, a, r0) => AcksEnd(t, a, r1)
               /\ \A v \in CtrlU :
                     /\ Has(t, v) <=> Has(ln, v) \/ v = u
                     /\ Lone(ln, v) /\ (v = u => ~Has(ln, v)) => Lone(t, v)
                     /\ Silent(ln, v, {"I"}) => Silent(t, v, {"I"})
                     /\ Silent(ln, v, Acks) /\ r0 = r1 => Silent(t, v, Acks)
                     /\ ~Has(ln, v) => Silent(t, v, Acks)
<1> DEFINE t == ln \o out
<1>1. out \in Seq(Apdu)
  BY DEF Emits
<1>2. ASSUME NEW v \in CtrlU
      PROVE  /\ Has(t, v) <=> Has(ln, v) \/ v = u
             /\ Lone(ln, v) /\ (v = u => ~Has(ln, v)) => Lone(t, v)
             /\ Silent(ln, v, {"I"}) => Silent(t, v, {"I"})
             /\ Silent(ln, v, Acks) /\ r0 = r1 => Silent(t, v, Acks)
             /\ ~Has(ln, v) => Silent(t, v, Acks)
  BY <1>1, JoinParts DEF Emits
<1>3. /\ None(t, {"I"}) <=> None(ln, {"I"})
      /\ r0 = r1 => (None(t, Acks) <=> None(ln, Acks))
  BY <1>1, JoinParts DEF Emits
<1>4. \A a : AcksEnd(ln, a, r0) => AcksEnd(t, a, r1)
  BY <1>1, AcksEndJoin DEF Emits
<1> QED
  BY <1>2, <1>3, <1>4

-----------------------------------------------------------------------------
(***************************************************************************)
(* The inductive invariant.                                                *)
(***************************************************************************)

\* A request travels as the frame act on lm, may be held, and comes back as the
\* frame con on ls: it is in one place at most, and while it is anywhere the
\* master's timer runs.
Token(lm, act, ls, con, held, since) ==
    /\ Lone(lm, act) /\ Lone(ls, con)
    /\ Has(lm, act) => since /\ ~held /\ ~Has(ls, con)
    /\ held => since /\ ~Has(ls, con)
    /\ Has(ls, con) => since

Tokens ==
    /\ Token(line[Master], "StartDtAct", line[Station], "StartDtCon",
             FALSE, drv[Master].startDtSince)
    /\ Token(line[Master], "StopDtAct", line[Station], "StopDtCon",
             drv[Station].stopConPending, drv[Master].stopDtSince)

\* One request at a time; only a stop that is not confirmed holds back I-frames.
Asked ==
    /\ ctrlQ[Master] # <<>> => /\ Tail(ctrlQ[Master]) = <<>>
                               /\ ~drv[Master].startDtSince
                               /\ ~drv[Master].stopDtSince
    /\ ~(drv[Master].startDtSince /\ drv[Master].stopDtSince)
    /\ drv[Master].stopping <=> drv[Master].stopDtSince
    /\ ctrlQ[Station] = <<>>
    /\ ~drv[Station].stopping

\* The ASDU branch is open only in data transfer.
MaySends == \A c \in Conn : connected[c] /\ drv[c].maySend => active[c] /\ ~drv[c].stopping

NoneAsked == ~drv[Master].startDtSince /\ ~drv[Master].stopDtSince
Both      == connected[Master] /\ connected[Station]

\* What either end believes of the other.
Agreed ==
    /\ connected[Station] => /\ Has(line[Station], "StartDtCon") => active[Station]
                             /\ Has(line[Station], "StopDtCon") => ~active[Station]
    /\ Both => /\ active[Master] /\ ~drv[Master].stopping => active[Station]
               /\ NoneAsked \/ Has(line[Master], "StartDtAct") \/ Has(line[Master], "StopDtAct")
                  => (active[Master] <=> active[Station])

\* What a stopped station has settled, and that its acknowledgements come first.
Settled ==
    /\ connected[Station] /\ ~active[Station] =>
           /\ None(line[Master], {"I"})
           /\ drv[Station].ackNoRcv = drv[Station].seqNoRcv
           /\ drv[Station].stopConPending \/ drv[Station].pending = <<>>
    /\ Silent(line[Master], "StopDtAct", {"I"})
    /\ Silent(line[Station], "StopDtCon", Acks)
    /\ connected[Master] => AcksEnd(line[Station], drv[Master].ackNoSend, drv[Station].ackNoRcv)
    /\ Both /\ NoneAsked /\ ~active[Master] => None(line[Station], Acks)

CtrlInv ==
    /\ Tokens
    /\ Asked
    /\ MaySends
    /\ Agreed
    /\ Settled
    /\ NoProtocolError

\* Who they are.
LEMMA Ends ==
    /\ Master \in Conn /\ Station \in Conn /\ Master # Station
    /\ Peer(Master) = Station /\ Peer(Station) = Master
    /\ Role[Master] = "Master" /\ Role[Station] = "Controlled"
    /\ \A c \in Conn : c = Master \/ c = Station
<1>1. Role[Master] = "Master"
  <2>1. \E c \in Conn : Role[c] = "Master"
    BY LinkAssumption
  <2> QED
    BY <2>1 DEF Master
<1>2. Station \in Conn /\ Master # Station /\ Peer(Master) = Station /\ Peer(Station) = Master
  BY MasterType, TwoEnds DEF Station
<1> QED
  BY <1>1, <1>2, MasterType, LinkAssumption

\* Nothing is asked or on a line at the start.
LEMMA CtrlInit == Init => CtrlInv
<1> SUFFICES ASSUME Init PROVE CtrlInv
  OBVIOUS
<1>1. /\ drv[Master] = NewDriver /\ drv[Station] = NewDriver
      /\ line[Master] = <<>> /\ line[Station] = <<>>
      /\ active[Master] = FALSE /\ active[Station] = FALSE
      /\ ctrlQ[Master] \in {<<>>, <<"StartDt">>} /\ ctrlQ[Station] = <<>>
  BY Ends DEF Init, ConnInit
<1>2. /\ \A u : ~Has(<<>>, u) /\ Lone(<<>>, u)
      /\ \A u, F : None(<<>>, F) /\ Silent(<<>>, u, F)
      /\ AcksEnd(<<>>, 0, 0)
  BY DEF Has, Lone, None, Silent, AcksEnd
<1>3. Tokens
  BY <1>1, <1>2 DEF Tokens, Token, NewDriver
<1>4. Asked
  <2>1. Tail(<<"StartDt">>) = <<>>
    OBVIOUS
  <2>2. ctrlQ[Master] # <<>> => Tail(ctrlQ[Master]) = <<>>
    BY <1>1, <2>1
  <2>3. /\ ~drv[Master].startDtSince /\ ~drv[Master].stopDtSince /\ ~drv[Master].stopping
        /\ ~drv[Station].stopping
    BY <1>1 DEF NewDriver
  <2> QED
    BY <1>1, <2>2, <2>3 DEF Asked
<1>5. MaySends
  BY DEF Init, ConnInit, MaySends, NewDriver
<1>6. Agreed /\ Settled
  BY <1>1, <1>2 DEF Agreed, Settled, NewDriver
<1>7. NoProtocolError
  BY DEF Init, ConnInit, NoProtocolError
<1> QED
  BY <1>3, <1>4, <1>5, <1>6, <1>7 DEF CtrlInv

-----------------------------------------------------------------------------
(***************************************************************************)
(* The steps of the master.                                                *)
(***************************************************************************)

\* The master's own iterations, from the line ls of the station: what changes.
LEMMA MasterChanges ==
    ASSUME IInv, NEW e, NEW act, NEW out, NEW u, NEW ls \in Seq(Apdu),
           Turn(Master, e, act, out, u, [line EXCEPT ![Station] = ls])
    PROVE  /\ drv'[Master] = e /\ drv'[Station] = drv[Station]
           /\ active'[Master] = act /\ active'[Station] = active[Station]
           /\ line'[Master] = line[Master] \o out /\ line'[Station] = ls
           /\ connected'[Master] = connected[Master]
           /\ connected'[Station] = connected[Station]
           /\ e \in Driver /\ act \in BOOLEAN /\ active[Master] \in BOOLEAN
           /\ e.maySend => act /\ ~e.stopping
           /\ line[Master] \in Seq(Apdu) /\ line[Station] \in Seq(Apdu)
           /\ ~drv[Master].stopConPending
BY Ends DEF Turn, IInv, CoreInv, HeldInv

\* The master takes a frame: perhaps a confirmation comes home.
LEMMA MasterReads ==
    ASSUME IInv, CtrlInv, line[Station] # <<>>, connected[Master], UNCHANGED <<ctrlQ, closedBy>>,
           Reads(Master, Head(line[Station]), [line EXCEPT ![Station] = Tail(@)])
    PROVE  CtrlInv'
<1> DEFINE f == Head(line[Station])
           ls == Tail(line[Station])
           d == drv[Master]
<1>1. PICK e, act, out, u :
         /\ Turn(Master, e, act, out, u, [line EXCEPT ![Station] = ls])
         /\ Effect(Master, f, e, act, u)
  BY DEF Reads
<1>2. line[Station] \in Seq(Apdu) /\ ls \in Seq(Apdu)
  BY Ends, HeadTail DEF IInv, CoreInv
<1> DEFINE t == line[Master] \o out
<1>3. /\ drv'[Master] = e /\ drv'[Station] = drv[Station]
      /\ active'[Master] = act /\ active'[Station] = active[Station]
      /\ line'[Master] = t /\ line'[Station] = ls
      /\ connected'[Master] = connected[Master]
      /\ connected'[Station] = connected[Station]
      /\ active[Master] \in BOOLEAN
      /\ e.maySend => act /\ ~e.stopping
      /\ line[Master] \in Seq(Apdu)
      /\ ~d.stopConPending
  BY <1>1, <1>2, MasterChanges
<1> DEFINE started == f = UFrame("StartDtCon")
           stopped == f = UFrame("StopDtCon")
<1>4. /\ e.ackNoSend = IF f.fmt \in Acks THEN f.recv ELSE d.ackNoSend
      /\ e.startDtSince <=> d.startDtSince /\ ~started
      /\ e.stopDtSince <=> d.stopDtSince /\ ~stopped
      /\ e.stopping <=> d.stopping /\ ~stopped
      /\ act <=> (active[Master] \/ started) /\ ~stopped
      /\ u = "none"
  BY <1>1, <1>3, Ends DEF Effect, Releases
<1>5. Emits(out, d.ackNoRcv, e.ackNoRcv, "none")
  BY <1>1, <1>4 DEF Turn
<1>6. /\ None(t, {"I"}) <=> None(line[Master], {"I"})
      /\ \A v \in CtrlU :
            /\ Has(t, v) <=> Has(line[Master], v)
            /\ Lone(line[Master], v) => Lone(t, v)
            /\ Silent(line[Master], v, {"I"}) => Silent(t, v, {"I"})
  BY <1>3, <1>5, EmitsOnto DEF CtrlU
<1>7. /\ \A v : /\ Has(ls, v) => Has(line[Station], v)
                /\ Lone(line[Station], v) => Lone(ls, v)
                /\ Lone(line[Station], v) /\ f = UFrame(v) => ~Has(ls, v)
                /\ f = UFrame(v) => Has(line[Station], v)
      /\ None(line[Station], Acks) => None(ls, Acks)
      /\ Silent(line[Station], "StopDtCon", Acks) =>
             Silent(ls, "StopDtCon", Acks) /\ (stopped => None(ls, Acks))
  <2>1. \A v : f = UFrame(v) => Has(line[Station], v)
    BY <1>2, HeadTail DEF Has
  <2> QED
    BY <1>2, <2>1, TailParts
<1>8. AcksEnd(line[Station], d.ackNoSend, drv[Station].ackNoRcv)
        => AcksEnd(ls, e.ackNoSend, drv[Station].ackNoRcv)
  BY <1>2, <1>4, AcksEndTail
<1> HIDE DEF f, ls, t, started, stopped
<1>9. ~(started /\ stopped)
  BY DEF started, stopped, UFrame
<1>10. /\ started => d.startDtSince /\ ~Has(line[Master], "StartDtAct")
       /\ stopped => /\ d.stopDtSince /\ ~Has(line[Master], "StopDtAct")
                     /\ ~drv[Station].stopConPending
  BY <1>7 DEF CtrlInv, Tokens, Token, started, stopped
<1>11. Tokens'
  BY <1>3, <1>4, <1>6, <1>7, <1>10 DEF CtrlInv, Tokens, Token, CtrlU, started, stopped
<1>12. Asked'
  BY <1>3, <1>4, <1>10 DEF CtrlInv, Asked
<1>13. MaySends'
  BY <1>3, Ends DEF CtrlInv, MaySends
<1>14. Agreed'
  <2>1. /\ started => Has(line[Station], "StartDtCon")
        /\ stopped => Has(line[Station], "StopDtCon")
    BY <1>7 DEF started, stopped
  <2>2. d.startDtSince => ~Has(line[Master], "StopDtAct")
    BY DEF CtrlInv, Tokens, Token, Asked
  <2>3. d.stopDtSince => ~Has(line[Master], "StartDtAct")
    BY DEF CtrlInv, Tokens, Token, Asked
  <2>4. ~(d.startDtSince /\ d.stopDtSince) /\ (d.stopping <=> d.stopDtSince)
    BY DEF CtrlInv, Asked
  <2>5. /\ Has(t, "StartDtAct") <=> Has(line[Master], "StartDtAct")
        /\ Has(t, "StopDtAct") <=> Has(line[Master], "StopDtAct")
    BY <1>6 DEF CtrlU
  <2> QED
    BY <1>3, <1>4, <1>7, <1>9, <1>10, <2>1, <2>2, <2>3, <2>4, <2>5
    DEF CtrlInv, Agreed, Both, NoneAsked
<1>15. Settled'
  <2>1. Silent(t, "StopDtAct", {"I"})
    BY <1>6 DEF CtrlInv, Settled, CtrlU
  <2>2. ~(d.startDtSince /\ d.stopDtSince)
    BY DEF CtrlInv, Asked
  <2> QED
    BY <1>3, <1>4, <1>6, <1>7, <1>8, <1>9, <1>10, <2>1, <2>2
    DEF CtrlInv, Settled, Both, NoneAsked
<1>16. NoProtocolError'
  BY DEF CtrlInv, NoProtocolError
<1> QED
  BY <1>11, <1>12, <1>13, <1>14, <1>15, <1>16 DEF CtrlInv

\* The line as it is, in the form that the reading of a frame leaves it in.
LEMMA SameLine ==
    ASSUME IInv, NEW c \in Conn
    PROVE  line = [line EXCEPT ![c] = line[c]]
BY DEF IInv, CoreInv

\* The master's ticker.
LEMMA MasterTicks ==
    ASSUME IInv, CtrlInv, NEW t2 \in BOOLEAN, NEW t3 \in BOOLEAN, Tick(Master, t2, t3, line)
    PROVE  CtrlInv'
<1> DEFINE d == drv[Master]
<1>1. PICK e, out : Turn(Master, e, active[Master], out, "none", line) /\ Ticked(e, d)
  BY Ends, TickTurn DEF IInv
<1>2. line[Station] \in Seq(Apdu) /\ line = [line EXCEPT ![Station] = line[Station]]
  BY Ends, SameLine DEF IInv, CoreInv
<1> DEFINE t == line[Master] \o out
<1>3. /\ drv'[Master] = e /\ drv'[Station] = drv[Station]
      /\ active'[Master] = active[Master] /\ active'[Station] = active[Station]
      /\ line'[Master] = t /\ line'[Station] = line[Station]
      /\ connected'[Master] = connected[Master]
      /\ connected'[Station] = connected[Station]
      /\ e.maySend => active[Master] /\ ~e.stopping
      /\ line[Master] \in Seq(Apdu)
  BY <1>1, <1>2, MasterChanges
<1>4. Emits(out, d.ackNoRcv, e.ackNoRcv, "none") /\ UNCHANGED <<ctrlQ, closedBy>>
  BY <1>1 DEF Turn, Tick, Iterate
<1>5. /\ None(t, {"I"}) <=> None(line[Master], {"I"})
      /\ \A v \in CtrlU :
            /\ Has(t, v) <=> Has(line[Master], v)
            /\ Lone(line[Master], v) => Lone(t, v)
            /\ Silent(line[Master], v, {"I"}) => Silent(t, v, {"I"})
  BY <1>3, <1>4, EmitsOnto DEF CtrlU
<1>6. /\ e.ackNoSend = d.ackNoSend /\ e.startDtSince = d.startDtSince
      /\ e.stopDtSince = d.stopDtSince /\ e.stopping = d.stopping
  BY <1>1 DEF Ticked, SameWindow
<1> HIDE DEF t, d
<1>7. Tokens'
  BY <1>3, <1>5, <1>6 DEF CtrlInv, Tokens, Token, CtrlU, d
<1>8. Asked' /\ MaySends' /\ NoProtocolError'
  BY <1>3, <1>4, <1>6, Ends DEF CtrlInv, Asked, MaySends, NoProtocolError, d
<1>9. Agreed'
  BY <1>3, <1>5, <1>6 DEF CtrlInv, Agreed, Both, NoneAsked, CtrlU, d
<1>10. Settled'
  BY <1>3, <1>5, <1>6 DEF CtrlInv, Settled, Both, NoneAsked, CtrlU, d
<1> QED
  BY <1>7, <1>8, <1>9, <1>10 DEF CtrlInv

\* The master sends the request that was asked for: there is no other.
LEMMA MasterAsks ==
    ASSUME IInv, CtrlInv, SendCtrl(Master, line)
    PROVE  CtrlInv'
<1> DEFINE d == drv[Master]
<1>1. /\ ctrlQ' = [ctrlQ EXCEPT ![Master] = Tail(@)]
      /\ ctrlQ[Master] # <<>> /\ UNCHANGED closedBy
  BY Ends, SendCtrlTurn DEF IInv, SendCtrl, Iterate
<1>2. PICK e, out :
         /\ SameWindow(e, d)
         /\ e.ackNoRcv = d.ackNoRcv
         /\ \/ /\ Turn(Master, e, active[Master], out, "StartDtAct", line)
               /\ e.startDtSince /\ ~e.stopping
               /\ e.stopDtSince = d.stopDtSince
            \/ /\ Turn(Master, e, active[Master], out, "StopDtAct", line)
               /\ e.stopDtSince /\ e.stopping
               /\ e.startDtSince = d.startDtSince
  BY Ends, SendCtrlTurn DEF IInv
<1>3. line[Station] \in Seq(Apdu) /\ line = [line EXCEPT ![Station] = line[Station]]
  BY Ends, SameLine DEF IInv, CoreInv
<1>4. /\ ~d.startDtSince /\ ~d.stopDtSince /\ ~d.stopping /\ Tail(ctrlQ[Master]) = <<>>
      /\ ctrlQ'[Master] = <<>> /\ ctrlQ'[Station] = ctrlQ[Station]
  <2>1. ~d.startDtSince /\ ~d.stopDtSince /\ ~d.stopping /\ Tail(ctrlQ[Master]) = <<>>
    BY <1>1 DEF CtrlInv, Asked
  <2>2. ctrlQ[Master] \in Seq({"StartDt", "StopDt"}) /\ ctrlQ'[Master] = Tail(ctrlQ[Master])
        /\ ctrlQ'[Station] = ctrlQ[Station]
    BY <1>1, Ends DEF IInv, QueuesInv
  <2> QED
    BY <2>1, <2>2
<1>5. /\ \A v \in CtrlU : ~Has(line[Master], v) \/ v \in {"StartDtCon", "StopDtCon"}
      /\ ~Has(line[Station], "StartDtCon") /\ ~Has(line[Station], "StopDtCon")
      /\ ~drv[Station].stopConPending
  BY <1>4 DEF CtrlInv, Tokens, Token, CtrlU
<1> DEFINE t == line[Master] \o out
<1>6. PICK u \in {"StartDtAct", "StopDtAct"} :
         /\ Turn(Master, e, active[Master], out, u, line)
         /\ u = "StartDtAct" => e.startDtSince /\ ~e.stopping /\ ~e.stopDtSince
         /\ u = "StopDtAct" => e.stopDtSince /\ e.stopping /\ ~e.startDtSince
  BY <1>2, <1>4
<1>7. /\ drv'[Master] = e /\ drv'[Station] = drv[Station]
      /\ active'[Master] = active[Master] /\ active'[Station] = active[Station]
      /\ line'[Master] = t /\ line'[Station] = line[Station]
      /\ connected'[Master] = connected[Master]
      /\ connected'[Station] = connected[Station]
      /\ e.maySend => active[Master] /\ ~e.stopping
      /\ line[Master] \in Seq(Apdu)
  BY <1>3, <1>6, MasterChanges
<1>8. Emits(out, d.ackNoRcv, e.ackNoRcv, u)
  BY <1>6 DEF Turn
<1>9. /\ None(t, {"I"}) <=> None(line[Master], {"I"})
      /\ \A v \in CtrlU :
            /\ Has(t, v) <=> Has(line[Master], v) \/ v = u
            /\ Lone(line[Master], v) /\ (v = u => ~Has(line[Master], v)) => Lone(t, v)
            /\ Silent(line[Master], v, {"I"}) => Silent(t, v, {"I"})
  BY <1>7, <1>8, EmitsOnto
<1> HIDE DEF t, d
<1>10. Tokens'
  BY <1>4, <1>5, <1>6, <1>7, <1>9 DEF CtrlInv, Tokens, Token, CtrlU
<1>11. Asked'
  BY <1>4, <1>6, <1>7 DEF CtrlInv, Asked
<1>12. MaySends' /\ NoProtocolError'
  BY <1>1, <1>7, Ends DEF CtrlInv, MaySends, NoProtocolError
<1>13. Agreed'
  BY <1>4, <1>5, <1>6, <1>7 DEF CtrlInv, Agreed, Both, NoneAsked, d
<1>14. Settled'
  <2>1. e.ackNoSend = d.ackNoSend
    BY <1>2 DEF SameWindow
  <2> QED
    BY <1>4, <1>6, <1>7, <1>9, <2>1 DEF CtrlInv, Settled, Both, NoneAsked, CtrlU, d
<1> QED
  BY <1>10, <1>11, <1>12, <1>13, <1>14 DEF CtrlInv

\* The frame f, which is not a U-frame, goes onto a line.
LEMMA FrameOnto ==
    ASSUME NEW ln \in Seq(Apdu), NEW f \in Apdu, f.fmt # "U"
    PROVE  LET t == ln \o <<f>>
           IN  /\ \A v : /\ Has(t, v) <=> Has(ln, v)
                         /\ Lone(ln, v) => Lone(t, v)
                         /\ ~Has(ln, v) => \A F : Silent(t, v, F)
                         /\ \A F : Silent(ln, v, F) /\ f.fmt \notin F => Silent(t, v, F)
               /\ f.fmt \in Acks => \A a, r : AcksEnd(ln, a, r) => AcksEnd(t, a, f.recv)
<1> DEFINE o == <<f>>
<1>1. o \in Seq(Apdu) /\ Len(o) = 1 /\ o[1] = f
  OBVIOUS
<1> HIDE DEF o
<1>2. \A v : f # UFrame(v)
  BY DEF UFrame
<1>3. /\ \A v : ~Has(o, v)
      /\ \A v, F : Silent(o, v, F)
      /\ \A F : f.fmt \notin F => None(o, F)
  BY <1>1, <1>2 DEF Has, Silent, None
<1>4. f.fmt \in Acks => \A r : AcksEnd(o, r, f.recv)
  BY <1>1 DEF AcksEnd, None
<1>5. \A v : /\ Has(ln \o o, v) <=> Has(ln, v)
             /\ Lone(ln, v) => Lone(ln \o o, v)
  BY <1>1, <1>3, JoinParts
<1>6. \A v, F : /\ ~Has(ln, v) => Silent(ln \o o, v, F)
                /\ Silent(ln, v, F) /\ f.fmt \notin F => Silent(ln \o o, v, F)
  BY <1>1, <1>3, JoinParts
<1>7. f.fmt \in Acks => \A a, r : AcksEnd(ln, a, r) => AcksEnd(ln \o o, a, f.recv)
  BY <1>1, <1>4, AcksEndJoin
<1> QED
  BY <1>5, <1>6, <1>7 DEF o

\* The master sends an I-frame: the station is in data transfer, and no STOPDT
\* act is ahead of it.
LEMMA MasterSends ==
    ASSUME IInv, CtrlInv, SendAsdu(Master, line)
    PROVE  CtrlInv'
<1> DEFINE d == drv[Master]
<1>1. PICK e \in Driver, f \in Apdu : Sends(Master, e, f, line)
  BY Ends, SendAsduTurn DEF IInv
<1> DEFINE t == line[Master] \o <<f>>
<1>2. /\ drv'[Master] = e /\ drv'[Station] = drv[Station]
      /\ active'[Master] = active[Master] /\ active'[Station] = active[Station]
      /\ line'[Master] = t /\ line'[Station] = line[Station]
      /\ line[Master] \in Seq(Apdu) /\ UNCHANGED closedBy
  BY <1>1, Ends DEF IInv, CoreInv, Sends, SendAsdu, Iterate
<1>3. \A v : /\ Has(t, v) <=> Has(line[Master], v)
             /\ Lone(line[Master], v) => Lone(t, v)
             /\ ~Has(line[Master], v) => Silent(t, v, {"I"})
  BY <1>1, <1>2, FrameOnto DEF Sends
<1>4. connected[Master] /\ active[Master] /\ ~d.stopping
  BY Ends DEF SendAsdu, CtrlInv, MaySends
<1> HIDE DEF t, d
<1>5. Tokens'
  BY <1>1, <1>2, <1>3 DEF CtrlInv, Sends, Tokens, Token, d
<1>6. Asked' /\ MaySends' /\ NoProtocolError'
  BY <1>1, <1>2, Ends DEF CtrlInv, Sends, Asked, MaySends, NoProtocolError, d
<1>7. Agreed'
  BY <1>1, <1>2, <1>3 DEF CtrlInv, Sends, Agreed, Both, NoneAsked, d
<1>8. Settled'
  <2>1. connected[Station] => active[Station]
    BY <1>4 DEF CtrlInv, Agreed, Both, d
  <2>2. Silent(t, "StopDtAct", {"I"})
    BY <1>3, <1>4 DEF CtrlInv, Tokens, Token, Asked, d
  <2> QED
    BY <1>1, <1>2, <1>4, <2>1, <2>2 DEF CtrlInv, Sends, Settled, Both, NoneAsked, d
<1> QED
  BY <1>5, <1>6, <1>7, <1>8 DEF CtrlInv

-----------------------------------------------------------------------------
(***************************************************************************)
(* The steps of the station.                                               *)
(***************************************************************************)

\* The station's own iterations, from the line lm of the master: what changes.
LEMMA StationChanges ==
    ASSUME IInv, NEW e, NEW act, NEW out, NEW u, NEW lm \in Seq(Apdu),
           Turn(Station, e, act, out, u, [line EXCEPT ![Master] = lm])
    PROVE  /\ drv'[Station] = e /\ drv'[Master] = drv[Master]
           /\ active'[Station] = act /\ active'[Master] = active[Master]
           /\ line'[Station] = line[Station] \o out /\ line'[Master] = lm
           /\ connected'[Master] = connected[Master]
           /\ connected'[Station] = connected[Station]
           /\ e \in Driver /\ act \in BOOLEAN /\ active[Station] \in BOOLEAN
           /\ e.maySend => act /\ ~e.stopping
           /\ line[Master] \in Seq(Apdu) /\ line[Station] \in Seq(Apdu)
           /\ drv[Station].stopConPending => ~active[Station]
BY Ends DEF Turn, IInv, CoreInv, HeldInv

\* A window whose ends are equal is empty.
LEMMA WindowEmpty ==
    ASSUME IInv, NEW c \in Conn, drv[c].ackNoSend = drv[c].seqNoSend
    PROVE  drv[c].pending = <<>>
<1>1. drv[c] \in Driver /\ Len(drv[c].pending) = SeqNoCount(drv[c].ackNoSend, drv[c].seqNoSend)
  BY DEF IInv, CoreInv, DriverInv, WindowMatches, Outstanding
<1>2. SeqNoCount(drv[c].ackNoSend, drv[c].seqNoSend) = 0
  BY <1>1, CountRange DEF Driver
<1> QED
  BY <1>1, <1>2 DEF Driver

\* The station takes a frame: perhaps a request that it confirms, at once or when
\* everything it sent was acknowledged.
LEMMA StationReads ==
    ASSUME IInv, IInv', CtrlInv, line[Master] # <<>>, connected[Station],
           UNCHANGED <<ctrlQ, closedBy>>,
           Len(drv'[Station].pending) <= Len(drv[Station].pending),
           Reads(Station, Head(line[Master]), [line EXCEPT ![Master] = Tail(@)])
    PROVE  CtrlInv'
<1> DEFINE f == Head(line[Master])
           lm == Tail(line[Master])
           d == drv[Station]
           m == drv[Master]
<1>1. PICK e, act, out, u :
         /\ Turn(Station, e, act, out, u, [line EXCEPT ![Master] = lm])
         /\ Effect(Station, f, e, act, u)
  BY DEF Reads
<1>2. line[Master] \in Seq(Apdu) /\ lm \in Seq(Apdu)
  BY Ends, HeadTail DEF IInv, CoreInv
<1> DEFINE t == line[Station] \o out
<1>3. /\ drv'[Station] = e /\ drv'[Master] = m
      /\ active'[Station] = act /\ active'[Master] = active[Master]
      /\ line'[Station] = t /\ line'[Master] = lm
      /\ connected'[Master] = connected[Master]
      /\ connected'[Station] = connected[Station]
      /\ active[Station] \in BOOLEAN
      /\ e.maySend => act /\ ~e.stopping
      /\ line[Station] \in Seq(Apdu)
      /\ d.stopConPending => ~active[Station]
  BY <1>1, <1>2, StationChanges
<1> DEFINE starts == f = UFrame("StartDtAct")
           stops  == f = UFrame("StopDtAct")
<1>4. /\ e.stopping <=> d.stopping
      /\ act <=> (active[Station] \/ starts) /\ ~stops
      /\ starts => ~e.stopConPending /\ u = "StartDtCon"
      /\ stops => Releases(e, TRUE, u)
      /\ ~starts /\ ~stops => Releases(e, d.stopConPending, u)
      /\ f.fmt = "I" => active[Station]
      /\ f.fmt # "I" => e.seqNoRcv = d.seqNoRcv
      /\ f.fmt # "I" /\ ~stops => e.ackNoRcv = d.ackNoRcv
      /\ stops => e.ackNoRcv = e.seqNoRcv
  BY <1>1, Ends DEF Effect
<1>5. Emits(out, d.ackNoRcv, e.ackNoRcv, u)
  BY <1>1 DEF Turn
<1>6. /\ d.ackNoRcv = e.ackNoRcv => (None(t, Acks) <=> None(line[Station], Acks))
      /\ AcksEnd(line[Station], m.ackNoSend, d.ackNoRcv)
            => AcksEnd(t, m.ackNoSend, e.ackNoRcv)
      /\ \A v \in CtrlU :
            /\ Has(t, v) <=> Has(line[Station], v) \/ v = u
            /\ Lone(line[Station], v) /\ (v = u => ~Has(line[Station], v)) => Lone(t, v)
            /\ Silent(line[Station], v, Acks) /\ d.ackNoRcv = e.ackNoRcv => Silent(t, v, Acks)
            /\ ~Has(line[Station], v) => Silent(t, v, Acks)
  BY <1>3, <1>5, EmitsOnto
<1>7. /\ \A v : /\ Has(lm, v) => Has(line[Master], v)
                /\ Lone(line[Master], v) => Lone(lm, v)
                /\ Lone(line[Master], v) /\ f = UFrame(v) => ~Has(lm, v)
                /\ f = UFrame(v) => Has(line[Master], v)
      /\ None(line[Master], {"I"}) => None(lm, {"I"}) /\ f.fmt # "I"
      /\ Silent(line[Master], "StopDtAct", {"I"}) =>
             Silent(lm, "StopDtAct", {"I"}) /\ (stops => None(lm, {"I"}))
  <2>1. \A v : f = UFrame(v) => Has(line[Master], v)
    BY <1>2, HeadTail DEF Has
  <2> QED
    BY <1>2, <2>1, TailParts
<1>8. e.ackNoSend = e.seqNoSend => e.pending = <<>>
  <2>1. Station \in Conn
    BY Ends
  <2>2. e \in Driver /\ Len(e.pending) = SeqNoCount(e.ackNoSend, e.seqNoSend)
    BY <1>3, <2>1 DEF IInv, CoreInv, DriverInv, WindowMatches, Outstanding
  <2> QED
    BY <2>2, CountRange DEF Driver
<1>9. d.pending = <<>> => e.pending = <<>>
  <2>1. e \in Driver
    BY <1>1 DEF Turn
  <2> QED
    BY <1>3, <2>1 DEF Driver
<1>10. ~(starts /\ stops) /\ (starts \/ stops => f.fmt # "I")
  BY DEF UFrame
<1> HIDE DEF f, lm, t, starts, stops
<1>11. /\ starts => m.startDtSince /\ ~Has(line[Station], "StartDtCon")
       /\ stops => /\ m.stopDtSince /\ ~Has(line[Station], "StopDtCon")
                   /\ ~d.stopConPending
  BY <1>7 DEF CtrlInv, Tokens, Token, starts, stops
<1>12. /\ d.stopConPending => m.stopDtSince /\ ~Has(line[Station], "StopDtCon")
       /\ Has(line[Station], "StartDtCon") => m.startDtSince
       /\ Has(line[Station], "StopDtCon") => m.stopDtSince
       /\ ~(m.startDtSince /\ m.stopDtSince)
       /\ m.stopping <=> m.stopDtSince
  BY DEF CtrlInv, Tokens, Token, Asked
<1>13. /\ u \in {"none", "StartDtCon", "StopDtCon"}
       /\ u = "StartDtCon" <=> starts
       /\ u = "StopDtCon" <=> (stops \/ (~starts /\ d.stopConPending)) /\ e.ackNoSend = e.seqNoSend
       /\ e.stopConPending <=> (stops \/ (~starts /\ d.stopConPending)) /\ e.ackNoSend # e.seqNoSend
  <2>1. e.stopConPending \in BOOLEAN /\ d.stopConPending \in BOOLEAN
    BY <1>1, Ends DEF Turn, IInv, CoreInv, Driver
  <2>2. CASE starts
    BY <1>4, <1>10, <2>2
  <2> DEFINE p == stops \/ d.stopConPending
  <2>3. CASE ~starts /\ p /\ e.ackNoSend = e.seqNoSend
    BY <1>4, <2>3 DEF Releases
  <2>4. CASE ~starts /\ ~(p /\ e.ackNoSend = e.seqNoSend)
    <3>1. (e.stopConPending <=> p) /\ u = "none"
      BY <1>4, <2>1, <2>4 DEF Releases
    <3> QED
      BY <2>1, <2>4, <3>1
  <2> QED
    BY <2>2, <2>3, <2>4
<1>14. Tokens'
  <2>1. Token(lm, "StartDtAct", t, "StartDtCon", FALSE, m.startDtSince)
    BY <1>6, <1>7, <1>11, <1>13 DEF CtrlInv, Tokens, Token, CtrlU, starts
  <2>2. Token(lm, "StopDtAct", t, "StopDtCon", e.stopConPending, m.stopDtSince)
    BY <1>6, <1>7, <1>10, <1>11, <1>12, <1>13 DEF CtrlInv, Tokens, Token, CtrlU, stops
  <2> QED
    BY <1>3, <2>1, <2>2 DEF Tokens
<1>15. Asked' /\ MaySends' /\ NoProtocolError'
  BY <1>3, <1>4, Ends DEF CtrlInv, Asked, MaySends, NoProtocolError
<1>16. Agreed'
  <2>1. /\ Has(t, "StartDtCon") => act
        /\ Has(t, "StopDtCon") => ~act
    BY <1>3, <1>4, <1>6, <1>10, <1>11, <1>12, <1>13 DEF CtrlInv, Agreed, CtrlU
  <2>2. Both => /\ active[Master] /\ ~m.stopping => act
                /\ NoneAsked \/ Has(lm, "StartDtAct") \/ Has(lm, "StopDtAct")
                   => (active[Master] <=> act)
    <3>1. Has(lm, "StartDtAct") \/ Has(lm, "StopDtAct") => ~starts /\ ~stops
      BY <1>7, <1>11, <1>12 DEF CtrlInv, Tokens, Token, starts, stops
    <3> QED
      BY <1>4, <1>7, <1>11, <1>12, <3>1 DEF CtrlInv, Agreed, NoneAsked
  <2> QED
    BY <1>3, <2>1, <2>2 DEF Agreed, Both, NoneAsked
<1>17. Settled'
  <2>1. ~act => /\ None(lm, {"I"})
                /\ e.ackNoRcv = e.seqNoRcv
                /\ e.stopConPending \/ e.pending = <<>>
    <3>1. CASE stops
      <4>1. Silent(line[Master], "StopDtAct", {"I"})
        BY DEF CtrlInv, Settled
      <4>2. e.stopConPending \/ e.pending = <<>>
        BY <1>8, <1>13, <3>1
      <4> QED
        BY <1>4, <1>7, <3>1, <4>1, <4>2
    <3>2. CASE ~act /\ ~stops
      <4>1. /\ ~active[Station] /\ ~starts /\ None(lm, {"I"}) /\ f.fmt # "I"
            /\ d.ackNoRcv = d.seqNoRcv
            /\ d.stopConPending \/ d.pending = <<>>
        BY <1>3, <1>4, <1>7, <3>2 DEF CtrlInv, Settled
      <4> QED
        BY <1>4, <1>8, <1>9, <1>13, <3>2, <4>1
    <3> QED
      BY <3>1, <3>2
  <2>2. ~active[Station] /\ ~stops => d.ackNoRcv = e.ackNoRcv
    BY <1>4, <1>7 DEF CtrlInv, Settled
  <2>3. Silent(t, "StopDtCon", Acks)
    BY <1>6, <1>11, <2>2 DEF CtrlInv, Settled, Agreed, CtrlU
  <2>4. Both /\ NoneAsked /\ ~active[Master] => None(t, Acks)
    BY <1>6, <1>11, <2>2 DEF CtrlInv, Settled, Agreed, NoneAsked
  <2> QED
    BY <1>3, <1>6, <1>7, <2>1, <2>3, <2>4 DEF CtrlInv, Settled, Both, NoneAsked
<1> QED
  BY <1>14, <1>15, <1>16, <1>17 DEF CtrlInv

\* The station's ticker: a stopped station owes no acknowledgement.
LEMMA StationTicks ==
    ASSUME IInv, CtrlInv, NEW t2 \in BOOLEAN, NEW t3 \in BOOLEAN, Tick(Station, t2, t3, line)
    PROVE  CtrlInv'
<1> DEFINE d == drv[Station]
           m == drv[Master]
<1>1. PICK e, out : Turn(Station, e, active[Station], out, "none", line) /\ Ticked(e, d)
  BY Ends, TickTurn DEF IInv
<1>2. line[Master] \in Seq(Apdu) /\ line = [line EXCEPT ![Master] = line[Master]]
  BY Ends, SameLine DEF IInv, CoreInv
<1> DEFINE t == line[Station] \o out
<1>3. /\ drv'[Station] = e /\ drv'[Master] = m
      /\ active'[Station] = active[Station] /\ active'[Master] = active[Master]
      /\ line'[Station] = t /\ line'[Master] = line[Master]
      /\ connected'[Master] = connected[Master]
      /\ connected'[Station] = connected[Station]
      /\ e.maySend => active[Station] /\ ~e.stopping
      /\ line[Station] \in Seq(Apdu)
  BY <1>1, <1>2, StationChanges
<1>4. /\ Emits(out, d.ackNoRcv, e.ackNoRcv, "none") /\ UNCHANGED <<ctrlQ, closedBy>>
      /\ connected[Station]
  BY <1>1 DEF Turn, Tick, Iterate
<1>5. /\ d.ackNoRcv = e.ackNoRcv => (None(t, Acks) <=> None(line[Station], Acks))
      /\ AcksEnd(line[Station], m.ackNoSend, d.ackNoRcv)
            => AcksEnd(t, m.ackNoSend, e.ackNoRcv)
      /\ \A v \in CtrlU :
            /\ Has(t, v) <=> Has(line[Station], v)
            /\ Lone(line[Station], v) => Lone(t, v)
            /\ Silent(line[Station], v, Acks) /\ d.ackNoRcv = e.ackNoRcv => Silent(t, v, Acks)
            /\ ~Has(line[Station], v) => Silent(t, v, Acks)
  BY <1>3, <1>4, EmitsOnto DEF CtrlU
<1>6. /\ e.seqNoRcv = d.seqNoRcv /\ e.pending = d.pending
      /\ d.ackNoRcv = d.seqNoRcv => e.ackNoRcv = d.ackNoRcv
      /\ e.stopping = d.stopping /\ e.stopConPending = d.stopConPending
  BY <1>1 DEF Ticked, SameWindow
<1>7. ~active[Station] => d.ackNoRcv = e.ackNoRcv
  BY <1>4, <1>6 DEF CtrlInv, Settled
<1> HIDE DEF t, d, m
<1>8. Tokens'
  BY <1>3, <1>5, <1>6 DEF CtrlInv, Tokens, Token, CtrlU, d, m
<1>9. Asked' /\ MaySends' /\ NoProtocolError'
  BY <1>3, <1>4, <1>6, Ends DEF CtrlInv, Asked, MaySends, NoProtocolError, d, m
<1>10. Agreed'
  BY <1>3, <1>5 DEF CtrlInv, Agreed, Both, NoneAsked, CtrlU, m
<1>11. Settled'
  <2>1. Silent(t, "StopDtCon", Acks)
    BY <1>4, <1>5, <1>7 DEF CtrlInv, Settled, Agreed, CtrlU
  <2>2. Both /\ NoneAsked /\ ~active[Master] => None(t, Acks)
    BY <1>5, <1>7 DEF CtrlInv, Settled, Agreed
  <2> QED
    BY <1>3, <1>5, <1>6, <1>7, <2>1, <2>2 DEF CtrlInv, Settled, Both, NoneAsked, d, m
<1> QED
  BY <1>8, <1>9, <1>10, <1>11 DEF CtrlInv

\* The station sends an I-frame: it has held no STOPDT con and confirmed no stop
\* since data transfer began.
LEMMA StationSends ==
    ASSUME IInv, CtrlInv, SendAsdu(Station, line)
    PROVE  CtrlInv'
<1> DEFINE d == drv[Station]
           m == drv[Master]
<1>1. PICK e \in Driver, f \in Apdu : Sends(Station, e, f, line)
  BY Ends, SendAsduTurn DEF IInv
<1> DEFINE t == line[Station] \o <<f>>
<1>2. /\ drv'[Station] = e /\ drv'[Master] = m
      /\ active'[Station] = active[Station] /\ active'[Master] = active[Master]
      /\ line'[Station] = t /\ line'[Master] = line[Master]
      /\ line[Station] \in Seq(Apdu) /\ UNCHANGED closedBy
  BY <1>1, Ends DEF IInv, CoreInv, Sends, SendAsdu, Iterate
<1>3. /\ \A v : /\ Has(t, v) <=> Has(line[Station], v)
                /\ Lone(line[Station], v) => Lone(t, v)
                /\ ~Has(line[Station], v) => Silent(t, v, Acks)
      /\ AcksEnd(line[Station], m.ackNoSend, d.ackNoRcv)
            => AcksEnd(t, m.ackNoSend, f.recv)
  <2>1. f.fmt # "U" /\ f.fmt \in Acks
    BY <1>1 DEF Sends, Acks
  <2> QED
    BY <1>2, <2>1, FrameOnto
<1>4. connected[Station] /\ active[Station]
  BY Ends DEF SendAsdu, CtrlInv, MaySends
<1> HIDE DEF t, d, m
<1>5. Tokens'
  BY <1>1, <1>2, <1>3 DEF CtrlInv, Sends, Tokens, Token, d, m
<1>6. Asked' /\ MaySends' /\ NoProtocolError'
  BY <1>1, <1>2, Ends DEF CtrlInv, Sends, Asked, MaySends, NoProtocolError, d, m
<1>7. Agreed'
  BY <1>1, <1>2, <1>3 DEF CtrlInv, Sends, Agreed, Both, NoneAsked, d, m
<1>8. Settled'
  <2>1. Silent(t, "StopDtCon", Acks)
    BY <1>3, <1>4 DEF CtrlInv, Agreed
  <2>2. ~(Both /\ NoneAsked /\ ~active[Master])
    BY <1>4 DEF CtrlInv, Agreed
  <2> QED
    BY <1>1, <1>2, <1>3, <1>4, <2>1, <2>2 DEF CtrlInv, Sends, Settled, Both, NoneAsked, d, m
<1> QED
  BY <1>5, <1>6, <1>7, <1>8 DEF CtrlInv

-----------------------------------------------------------------------------
(***************************************************************************)
(* Every step.                                                             *)
(***************************************************************************)

\* An end that leaves for a reason of its own claims nothing any more.
LEMMA CloseCtrl ==
    ASSUME IInv, CtrlInv, NEW c \in Conn, NEW why, Close(c, why, line),
           why \notin {"ack", "sequence", "stopped"}
    PROVE  CtrlInv'
<1>1. /\ connected' = [connected EXCEPT ![c] = FALSE]
      /\ active' = [active EXCEPT ![c] = FALSE]
      /\ closedBy' = [closedBy EXCEPT ![c] = why]
      /\ UNCHANGED <<drv, ctrlQ, line>>
  BY DEF Close
<1>2. /\ connected'[c] = FALSE /\ active'[c] = FALSE /\ closedBy'[c] = why
      /\ \A x \in Conn : x # c => /\ connected'[x] = connected[x]
                                  /\ active'[x] = active[x]
                                  /\ closedBy'[x] = closedBy[x]
  BY <1>1 DEF IInv, CoreInv
<1>3. Tokens' /\ Asked'
  BY <1>1 DEF CtrlInv, Tokens, Token, Asked
<1>4. MaySends' /\ NoProtocolError'
  BY <1>1, <1>2 DEF CtrlInv, MaySends, NoProtocolError
<1>5. \/ connected'[Master] = FALSE /\ connected'[Station] = connected[Station]
         /\ active'[Station] = active[Station]
      \/ connected'[Station] = FALSE /\ connected'[Master] = connected[Master]
  BY <1>2, Ends
<1>6. Agreed'
  BY <1>1, <1>5 DEF CtrlInv, Agreed, Both, NoneAsked
<1>7. Settled'
  BY <1>1, <1>5 DEF CtrlInv, Settled, Both, NoneAsked
<1> QED
  BY <1>3, <1>4, <1>6, <1>7 DEF CtrlInv

\* The patient application asks for one thing.
LEMMA StartStopCtrl ==
    ASSUME Patient, IInv, CtrlInv, NEW ctrl \in {"StartDt", "StopDt"}, StartStop(ctrl)
    PROVE  CtrlInv'
<1>1. /\ ctrlQ' = [ctrlQ EXCEPT ![Master] = Append(@, ctrl)]
      /\ ctrlQ[Master] = <<>> /\ ~drv[Master].startDtSince /\ ~drv[Master].stopDtSince
      /\ UNCHANGED <<connected, closedBy, active, drv, line>>
  BY DEF StartStop, Request, MayRequest
<1>2. Tail(<<ctrl>>) = <<>> /\ Append(<<>>, ctrl) = <<ctrl>>
  OBVIOUS
<1>3. Tail(ctrlQ'[Master]) = <<>> /\ ctrlQ'[Station] = ctrlQ[Station]
  BY <1>1, <1>2, Ends DEF IInv, QueuesInv
<1>4. Asked'
  BY <1>1, <1>3 DEF CtrlInv, Asked
<1> QED
  BY <1>1, <1>4
  DEF CtrlInv, Tokens, Token, MaySends, Agreed, Settled, Both, NoneAsked, NoProtocolError

\* No frame the peer has sent closes the connection of its reader.
LEMMA ReadGoesOn ==
    ASSUME IInv, FlowInv, CtrlInv, NEW c \in Conn, Read(c)
    PROVE  /\ connected[c] /\ line[Peer(c)] # <<>>
           /\ UNCHANGED <<ctrlQ, closedBy>>
           /\ Len(drv'[c].pending) <= Len(drv[c].pending)
           /\ Reads(c, Head(line[Peer(c)]), [line EXCEPT ![Peer(c)] = Tail(@)])
<1> DEFINE y == Peer(c)
           f == Head(line[y])
           ln == [line EXCEPT ![y] = Tail(@)]
<1>1. y \in Conn /\ connected[c] /\ line[y] # <<>> /\ OnFrame(c, f, ln, packs)
  BY PeerType DEF Read, OnFrame
<1>2. CoreInv /\ line[y] \in Seq(Apdu) /\ f \in Apdu
  BY <1>1 DEF IInv, CoreInv
<1> HIDE DEF ln
<1>3. connected[c] = TRUE /\ connected \in [Conn -> BOOLEAN] /\ closedBy \in [Conn -> CloseReason]
  BY <1>1 DEF IInv, CoreInv
<1>4. ASSUME NEW why, Close(c, why, ln)
      PROVE  FALSE
  <2>1. connected'[c] = FALSE /\ closedBy'[c] = why
    BY <1>3, <1>4 DEF Close
  <2>2. ~Took(c)
    BY <1>3, <2>1 DEF Took
  <2>3. why = "stopped"
    <3>1. PICK l : Close(c, "stopped", l)
      BY <2>2, ReadFlow
    <3> QED
      BY <1>3, <2>1, <3>1 DEF Close
  <2>4. PICK w \in {"stopped", "ack", "sequence"} : Refuses(c, f, ln, w)
    <3>1. ~TakesS(c, f, ln, packs) /\ ~TakesI(c, f, ln, packs) /\ ~TakesOther(c, f, ln, packs)
      BY <1>3, <2>1 DEF TakesS, TakesI, TakesOther, Leaves
    <3> QED
      BY <1>1, <1>2, <3>1, OnFrameLeaves
  <2>5. closedBy'[c] = w
    BY <1>3, <2>4 DEF Refuses, Close
  <2>6. f.fmt = "I" /\ ~active[c] /\ Role[c] = "Controlled"
    BY <2>1, <2>3, <2>4, <2>5 DEF Refuses
  <2>7. c = Station /\ y = Master
    BY <2>6, Ends
  <2>8. None(line[Master], {"I"})
    BY <1>1, <2>6, <2>7 DEF CtrlInv, Settled
  <2> QED
    BY <1>1, <1>2, <2>6, <2>7, <2>8, HeadTail DEF None
<1>5. Reads(c, f, ln) /\ UNCHANGED ctrlQ
  BY <1>1, <1>2, <1>4, OnFrameReads
<1>6. UNCHANGED closedBy
  <2>1. \A w : ~Refuses(c, f, ln, w)
    BY <1>4 DEF Refuses
  <2> QED
    BY <1>1, <1>2, <2>1, OnFrameLeaves DEF TakesS, TakesI, TakesOther, Leaves
<1>7. Took(c)
  <2>1. \A l : ~Close(c, "stopped", l)
    BY <1>3, <1>5 DEF Reads, Turn, Close
  <2> QED
    BY <2>1, ReadFlow
<1> QED
  BY <1>1, <1>5, <1>6, <1>7 DEF Took, ln

\* Every step of a link whose master is patient keeps CtrlInv.
LEMMA CtrlNext ==
    ASSUME Patient
    PROVE  IInv /\ FlowInv /\ CtrlInv /\ [Next]_vars => CtrlInv'
<1> SUFFICES ASSUME IInv, FlowInv, CtrlInv, [Next]_vars
             PROVE  CtrlInv'
  OBVIOUS
<1>1. ASSUME UNCHANGED <<connected, closedBy, active, drv, ctrlQ, line>>
      PROVE  CtrlInv'
  BY <1>1 DEF CtrlInv, Tokens, Token, Asked, MaySends, Agreed, Settled, Both, NoneAsked,
              NoProtocolError
<1>2. ASSUME NEW ctrl \in {"StartDt", "StopDt"}, StartStop(ctrl)
      PROVE  CtrlInv'
  BY <1>2, StartStopCtrl
<1>3. ASSUME NEW c \in Conn, Submit(c)
      PROVE  CtrlInv'
  BY <1>1, <1>3 DEF Submit, TryEnqueue
<1>4. ASSUME NEW c \in Conn, DriverSend(c)
      PROVE  CtrlInv'
  <2>1. CASE SendAsdu(c, line)
    BY <2>1, Ends, MasterSends, StationSends
  <2>2. CASE SendCtrl(c, line)
    <3>1. c = Master
      BY <2>2, Ends DEF SendCtrl, CtrlInv, Asked
    <3> QED
      BY <2>2, <3>1, MasterAsks
  <2> QED
    BY <1>4, <2>1, <2>2 DEF DriverSend
<1>5. ASSUME NEW c \in Conn, Read(c)
      PROVE  CtrlInv'
  <2>1. /\ connected[c] /\ line[Peer(c)] # <<>>
        /\ UNCHANGED <<ctrlQ, closedBy>>
        /\ Len(drv'[c].pending) <= Len(drv[c].pending)
        /\ Reads(c, Head(line[Peer(c)]), [line EXCEPT ![Peer(c)] = Tail(@)])
    BY <1>5, ReadGoesOn
  <2>2. IInv'
    BY LinkNext
  <2>3. CASE c = Master
    BY <2>1, <2>3, Ends, MasterReads
  <2>4. CASE c = Station
    BY <2>1, <2>2, <2>4, Ends, StationReads
  <2> QED
    BY <2>3, <2>4, Ends
<1>6. ASSUME NEW c \in Conn, ReadEof(c)
      PROVE  CtrlInv'
  BY <1>6, CloseCtrl DEF ReadEof, PeerClosed
<1>7. ASSUME NEW c \in Conn, Timer(c)
      PROVE  CtrlInv'
  <2>1. CASE TickT1(c, line)
    BY <2>1, CloseCtrl DEF TickT1
  <2>2. CASE \E t2, t3 \in BOOLEAN : Tick(c, t2, t3, line)
    BY <2>2, Ends, MasterTicks, StationTicks
  <2> QED
    BY <1>7, <2>1, <2>2 DEF Timer
<1>8. ASSUME NEW c \in Conn, Stop(c)
      PROVE  CtrlInv'
  BY <1>8, CloseCtrl DEF Stop, Shutdown
<1>9. CASE UNCHANGED vars
  BY <1>1, <1>9 DEF vars, connVars
<1> QED
  BY <1>2, <1>3, <1>4, <1>5, <1>6, <1>7, <1>8, <1>9 DEF Next

\* CtrlInv is an invariant of a link whose master is patient.
THEOREM CtrlInvariance ==
    ASSUME Patient
    PROVE  Spec => [](IInv /\ FlowInv /\ CtrlInv)
<1>1. Init => CtrlInv
  BY CtrlInit
<1>2. IInv /\ FlowInv /\ CtrlInv /\ [Next]_vars => CtrlInv'
  BY CtrlNext
<1> QED
  BY <1>1, <1>2, FlowInvariance, PTL DEF Spec

\* Neither end of a link whose master awaits each confirmation ever gives the other
\* a reason to close: the check for an I-frame on a stopped station, on_iframe's first,
\* never fires, whatever crosses on the line.
THEOREM ProtocolCorrect ==
    ASSUME Patient
    PROVE  Spec => []NoProtocolError
<1>1. CtrlInv => NoProtocolError
  BY DEF CtrlInv
<1> QED
  BY <1>1, CtrlInvariance, PTL

\* A master that awaits each confirmation sends no I-frame after its STOPDT act:
\* what send_ctrl writes to `stopping` is read by every later ASDU branch.
THEOREM StopCorrect ==
    ASSUME Patient
    PROVE  Spec => []NoIAfterStopDt
<1>1. CtrlInv => NoIAfterStopDt
  BY DEF CtrlInv, Settled, Silent, NoIAfterStopDt
<1> QED
  BY <1>1, CtrlInvariance, PTL

\* What a confirmed stop has settled: with no request unconfirmed the two ends agree on
\* data transfer, and in a stopped one neither end retains an I-frame, so that every one
\* sent was delivered.
THEOREM SettledCorrect ==
    ASSUME Patient
    PROVE  Spec => []StoppedIsSettled
<1>1. ASSUME IInv, FlowInv, CtrlInv, NothingAsked, connected[Master], connected[Station]
      PROVE  active[Master] <=> active[Station]
  BY <1>1 DEF CtrlInv, Agreed, Both, NoneAsked, NothingAsked
<1>2. ASSUME IInv, FlowInv, CtrlInv, NothingAsked, connected[Master], connected[Station],
             ~active[Master]
      PROVE  drv[Master].pending = <<>> /\ drv[Station].pending = <<>>
  <2> DEFINE m == drv[Master]
             s == drv[Station]
  <2>1. ~active[Station] /\ NoneAsked /\ Both /\ ~s.stopConPending
    BY <1>1, <1>2 DEF CtrlInv, Tokens, Token, Both, NoneAsked, NothingAsked
  <2>2. s.pending = <<>>
    BY <1>2, <2>1 DEF CtrlInv, Settled
  <2>3. m.ackNoSend = s.seqNoRcv /\ None(line[Master], {"I"})
    BY <1>2, <2>1 DEF CtrlInv, Settled, AcksEnd
  <2> DEFINE q   == asduQ[Master]
             acc == accepted[Master]
             del == Len(packs[Station])
  <2>4. Numbers(m, s, q, acc, del) /\ Ordered(line[Master], s.seqNoRcv, del, acc - Len(q))
    BY <1>2, Ends DEF FlowInv, Flow, FlowOf
  <2>5. /\ m \in Driver /\ m.pending \in Seq(SeqNo) /\ m.ackNoSend \in SeqNo
        /\ q \in Seq(Asdu) /\ acc \in Nat /\ del \in Nat
    BY <1>2, Ends DEF IInv, CoreInv, QueuesInv, Driver
  <2>6. SeqNoCount(m.ackNoSend, s.seqNoRcv) = 0
    BY <2>3, <2>5, CountRange
  <2> HIDE DEF q, acc, del
  <2>7. del = acc - Len(q)
    <3> DEFINE sent == acc - Len(q)
    <3>1. \A n \in (del + 1) .. sent : FALSE
      BY <2>3, <2>4 DEF Ordered, None
    <3>2. del <= sent /\ sent \in Int
      BY <2>4, <2>5 DEF Numbers
    <3> HIDE DEF sent
    <3>3. ~(del + 1 <= sent)
      BY <2>5, <3>1, <3>2
    <3> QED
      BY <2>5, <3>2, <3>3 DEF sent
  <2>8. Len(m.pending) = 0
    BY <2>4, <2>5, <2>6, <2>7 DEF Numbers
  <2> QED
    BY <2>2, <2>5, <2>8
<1>3. IInv /\ FlowInv /\ CtrlInv => StoppedIsSettled
  BY <1>1, <1>2, Ends DEF StoppedIsSettled
<1> QED
  BY <1>3, CtrlInvariance, PTL
==============================================================================
