------------------------ MODULE Connection104Proofs -------------------------
(***************************************************************************)
(* The actions of Connection104 preserve CoreInv /\ QueuesInv, whatever    *)
(* APDUs arrive.  The theorems about Open104 at the end and those of       *)
(* Link104Proofs rest on these lemmas.                                     *)
(***************************************************************************)
EXTENDS Open104, TLAPS

-----------------------------------------------------------------------------
(***************************************************************************)
(* Sequence numbers.  All arithmetic modulo M is replaced by case          *)
(* distinctions here.                                                      *)
(***************************************************************************)

\* The number after n, by cases.
LEMMA SuccCases ==
    ASSUME NEW n \in SeqNo
    PROVE  /\ Succ(n) \in SeqNo
           /\ Succ(n) = IF n = M - 1 THEN 0 ELSE n + 1
BY ModulusAssumption DEF SeqNo, Succ

\* The number before n, by cases.
LEMMA PredCases ==
    ASSUME NEW n \in SeqNo
    PROVE  /\ Pred(n) \in SeqNo
           /\ Pred(n) = IF n = 0 THEN M - 1 ELSE n - 1
BY ModulusAssumption DEF SeqNo, Pred

\* A sum that passes M at most once, by cases.
LEMMA ModCases ==
    ASSUME NEW a \in SeqNo, NEW i \in 0 .. (M - 1)
    PROVE  (a + i) % M = IF a + i >= M THEN a + i - M ELSE a + i
BY ModulusAssumption DEF SeqNo

\* seq_no_count is a distance below M, zero only between equal numbers.
LEMMA CountRange ==
    ASSUME NEW a \in SeqNo, NEW s \in SeqNo
    PROVE  /\ SeqNoCount(a, s) \in 0 .. (M - 1)
           /\ SeqNoCount(a, s) = 0 <=> a = s
BY ModulusAssumption DEF SeqNo, SeqNoCount

\* One more frame makes seq_no_count one larger, unless it would wrap.
LEMMA CountSucc ==
    ASSUME NEW a \in SeqNo, NEW s \in SeqNo, SeqNoCount(a, s) < M - 1
    PROVE  SeqNoCount(a, Succ(s)) = SeqNoCount(a, s) + 1
BY ModulusAssumption, SuccCases DEF SeqNo, SeqNoCount

\* A number r inside the window from a to s splits its length in two.
LEMMA CountSplit ==
    ASSUME NEW a \in SeqNo, NEW r \in SeqNo, NEW s \in SeqNo,
           SeqNoCount(r, s) <= SeqNoCount(a, s)
    PROVE  SeqNoCount(a, r) + SeqNoCount(r, s) = SeqNoCount(a, s)
BY ModulusAssumption DEF SeqNo, SeqNoCount

\* The window that starts at a and has seq_no_count entries ends at s.
LEMMA CountEnd ==
    ASSUME NEW a \in SeqNo, NEW s \in SeqNo
    PROVE  (a + SeqNoCount(a, s)) % M = s
<1>1. SeqNoCount(a, s) \in 0 .. (M - 1)
  BY CountRange
<1>2. (a + SeqNoCount(a, s)) % M =
         IF a + SeqNoCount(a, s) >= M THEN a + SeqNoCount(a, s) - M
                                      ELSE a + SeqNoCount(a, s)
  BY <1>1, ModCases
<1> QED
  BY <1>2, ModulusAssumption DEF SeqNo, SeqNoCount

\* p lists the sequence numbers from a up to, and excluding, s.
Window(a, s, p) ==
    /\ Len(p) = SeqNoCount(a, s)
    /\ \A i \in 1 .. Len(p) : p[i] = (a + i - 1) % M

\* Sending an I-frame keeps pending equal to the send window.
LEMMA WindowAppend ==
    ASSUME NEW a \in SeqNo, NEW s \in SeqNo, NEW p \in Seq(SeqNo),
           Window(a, s, p), SeqNoCount(a, s) < M - 1
    PROVE  Window(a, Succ(s), Append(p, s))
<1>1. SeqNoCount(a, Succ(s)) = Len(p) + 1
  BY CountSucc DEF Window
<1>2. (a + Len(p)) % M = s
  BY CountEnd DEF Window
<1>3. a + (Len(p) + 1) - 1 = a + Len(p)
  BY DEF SeqNo
<1>4. \A i \in 1 .. Len(Append(p, s)) : Append(p, s)[i] = (a + i - 1) % M
  <2> SUFFICES ASSUME NEW i \in 1 .. (Len(p) + 1)
               PROVE  Append(p, s)[i] = (a + i - 1) % M
    OBVIOUS
  <2>1. CASE i = Len(p) + 1
    BY <2>1, <1>2, <1>3
  <2>2. CASE i # Len(p) + 1
    <3>1. i \in 1 .. Len(p)
      BY <2>2
    <3> QED
      BY <3>1 DEF Window
  <2> QED
    BY <2>1, <2>2
<1> QED
  BY <1>1, <1>4 DEF Window

\* update_ack_no_out keeps pending equal to the window: the entry before the
\* acknowledged number occurs exactly once, and draining up to it leaves the rest.
LEMMA WindowDrain ==
    ASSUME NEW a \in SeqNo, NEW s \in SeqNo, NEW p \in Seq(SeqNo),
           Window(a, s, p),
           NEW r \in SeqNo, r # a, SeqNoCount(r, s) <= SeqNoCount(a, s)
    PROVE  /\ DrainUpTo(p, Pred(r)) \in Seq(SeqNo)
           /\ Window(r, s, DrainUpTo(p, Pred(r)))
<1> DEFINE n == SeqNoCount(a, r)
<1>0. n = IF a > r THEN r + M - a ELSE r - a
  BY ModulusAssumption DEF SeqNo, SeqNoCount
<1>1. n \in 1 .. (M - 1) /\ n + SeqNoCount(r, s) = Len(p)
  BY CountRange, CountSplit, ModulusAssumption DEF Window
<1>2. SeqNoCount(r, s) \in 0 .. (M - 1) /\ Len(p) \in 0 .. (M - 1)
  BY CountRange DEF Window
<1> HIDE DEF n
<1>3. n \in 1 .. Len(p)
  BY <1>1, <1>2
<1>4. \A i \in 1 .. Len(p) : p[i] = IF a + i - 1 >= M THEN a + i - 1 - M ELSE a + i - 1
  <2> SUFFICES ASSUME NEW i \in 1 .. Len(p)
               PROVE  p[i] = IF a + i - 1 >= M THEN a + i - 1 - M ELSE a + i - 1
    OBVIOUS
  <2>1. i - 1 \in 0 .. (M - 1) /\ a + (i - 1) = a + i - 1
    BY <1>2, ModulusAssumption DEF SeqNo
  <2> QED
    BY <2>1, ModCases DEF Window
<1>5. p[n] = Pred(r)
  <2>1. p[n] = IF a + n - 1 >= M THEN a + n - 1 - M ELSE a + n - 1
    BY <1>3, <1>4
  <2>2. Pred(r) = IF a + n - 1 >= M THEN a + n - 1 - M ELSE a + n - 1
    <3>1. /\ a \in Int /\ r \in Int /\ M \in Int /\ 0 <= a /\ a < M /\ 0 <= r /\ r < M
          /\ n \in Int /\ 1 <= n
      BY <1>1, ModulusAssumption DEF SeqNo
    <3>2. Pred(r) = IF r = 0 THEN M - 1 ELSE r - 1
      BY PredCases
    <3>3. CASE a > r
      BY <1>0, <3>1, <3>2, <3>3
    <3>4. CASE ~(a > r)
      BY <1>0, <3>1, <3>2, <3>4
    <3> QED
      BY <3>3, <3>4
  <2> QED
    BY <2>1, <2>2
<1>6. \A i \in 1 .. Len(p) : p[i] = Pred(r) => i = n
  <2> SUFFICES ASSUME NEW i \in 1 .. Len(p), p[i] = p[n]
               PROVE  i = n
    BY <1>5
  <2>1. (IF a + i - 1 >= M THEN a + i - 1 - M ELSE a + i - 1)
           = (IF a + n - 1 >= M THEN a + n - 1 - M ELSE a + n - 1)
    BY <1>3, <1>4
  <2> QED
    BY <2>1, <1>2, <1>3, ModulusAssumption DEF SeqNo
<1>7. DrainUpTo(p, Pred(r)) = SubSeq(p, n + 1, Len(p))
  <2> DEFINE First(i) == /\ p[i] = Pred(r)
                         /\ \A j \in 1 .. (i - 1) : p[j] # Pred(r)
  <2>1. First(n)
    BY <1>3, <1>5, <1>6
  <2>2. \A i \in 1 .. Len(p) : First(i) => i = n
    BY <1>6
  <2>3. (CHOOSE i \in 1 .. Len(p) : First(i)) = n
    <3> HIDE DEF First
    <3> QED BY <1>3, <2>1, <2>2
  <2> QED
    BY <1>3, <1>5, <2>3 DEF DrainUpTo
<1>8. /\ SubSeq(p, n + 1, Len(p)) \in Seq(SeqNo)
      /\ Len(SubSeq(p, n + 1, Len(p))) = Len(p) - n
      /\ \A i \in 1 .. (Len(p) - n) : SubSeq(p, n + 1, Len(p))[i] = p[n + i]
  BY <1>1, <1>2, <1>3
<1>9. \A i \in 1 .. (Len(p) - n) : p[n + i] = (r + i - 1) % M
  <2> SUFFICES ASSUME NEW i \in 1 .. (Len(p) - n)
               PROVE  p[n + i] = (r + i - 1) % M
    OBVIOUS
  <2>1. i - 1 \in 0 .. (M - 1) /\ r + (i - 1) = r + i - 1
    BY <1>1, <1>2, ModulusAssumption DEF SeqNo
  <2>2. (r + i - 1) % M = IF r + i - 1 >= M THEN r + i - 1 - M ELSE r + i - 1
    BY <2>1, ModCases
  <2>3. n + i \in 1 .. Len(p)
    BY <1>1, <1>2
  <2>4. p[n + i] = IF a + (n + i) - 1 >= M THEN a + (n + i) - 1 - M
                                           ELSE a + (n + i) - 1
    BY <2>3, <1>4
  <2>5. (IF r + i - 1 >= M THEN r + i - 1 - M ELSE r + i - 1)
           = IF a + (n + i) - 1 >= M THEN a + (n + i) - 1 - M ELSE a + (n + i) - 1
    <3>1. /\ a \in Int /\ r \in Int /\ M \in Int /\ i \in Int /\ n \in Int /\ a < M /\ 0 <= r
          /\ 1 <= i /\ n + i <= M - 1
      BY <1>1, <1>2, ModulusAssumption DEF SeqNo
    <3>2. CASE a > r
      BY <1>0, <3>1, <3>2
    <3>3. CASE ~(a > r)
      BY <1>0, <3>1, <3>3
    <3> QED
      BY <3>2, <3>3
  <2> QED
    BY <2>2, <2>4, <2>5
<1>10. Len(SubSeq(p, n + 1, Len(p))) = SeqNoCount(r, s)
  BY <1>1, <1>2, <1>8
<1> QED
  BY <1>7, <1>8, <1>9, <1>10 DEF Window

-----------------------------------------------------------------------------
(***************************************************************************)
(* One driver.                                                             *)
(***************************************************************************)

\* What holds of the numbers of a driver at the head of its loop.
DriverInv(c, d) ==
    /\ d \in Driver
    /\ WindowMatches(d)
    /\ Outstanding(d) <= K[c]
    /\ Unacked(d) < W[c]

\* DriverInv depends on the sequence numbers and on pending only.
LEMMA SameNumbers ==
    ASSUME NEW c \in Conn, NEW d, NEW e \in Driver, DriverInv(c, d),
           e.seqNoSend = d.seqNoSend, e.ackNoSend = d.ackNoSend,
           e.seqNoRcv = d.seqNoRcv, e.ackNoRcv = d.ackNoRcv,
           e.pending = d.pending
    PROVE  DriverInv(c, e)
BY DEF DriverInv, WindowMatches, Outstanding, Unacked

\* Acknowledging everything received keeps DriverInv.
LEMMA AckSentInv ==
    ASSUME NEW c \in Conn, NEW d \in Driver, WindowMatches(d), Outstanding(d) <= K[c]
    PROVE  DriverInv(c, AckSent(d))
<1>1. AckSent(d) \in Driver
  BY DEF AckSent, Driver
<1>2. Unacked(AckSent(d)) = 0
  BY CountRange DEF AckSent, Driver, Unacked
<1>3. WindowMatches(AckSent(d)) /\ Outstanding(AckSent(d)) <= K[c]
  BY DEF AckSent, Driver, WindowMatches, Outstanding
<1> QED
  BY <1>1, <1>2, <1>3, ConnectionAssumption DEF DriverInv

\* Sending an I-frame with the window open keeps DriverInv, and leaves
\* something to be acknowledged.
LEMMA SentInv ==
    ASSUME NEW c \in Conn, NEW d, DriverInv(c, d), Outstanding(d) < K[c]
    PROVE  /\ DriverInv(c, Sent(d))
           /\ Sent(d).ackNoSend # Sent(d).seqNoSend
           /\ Sent(d).stopConPending = d.stopConPending
<1> DEFINE e == Sent(d)
<1>1. d \in Driver /\ Outstanding(d) < M - 1 /\ K[c] \in 1 .. (M - 1) /\ W[c] \in 1 .. (M - 1)
  <2>1. d \in Driver
    BY DEF DriverInv
  <2>2. K[c] \in 1 .. (M - 1) /\ W[c] \in 1 .. (M - 1) /\ M \in Nat
    BY ConnectionAssumption, ModulusAssumption
  <2>3. Outstanding(d) \in Nat
    BY <2>1, CountRange DEF Driver, Outstanding
  <2> HIDE DEF Outstanding
  <2> QED
    BY <2>1, <2>2, <2>3
<1>2. /\ Succ(d.seqNoSend) \in SeqNo
      /\ Append(d.pending, d.seqNoSend) \in Seq(SeqNo)
  BY <1>1, SuccCases DEF Driver
<1>3. /\ e \in Driver
      /\ e.ackNoRcv = d.seqNoRcv /\ e.seqNoRcv = d.seqNoRcv
      /\ e.ackNoSend = d.ackNoSend /\ e.seqNoSend = Succ(d.seqNoSend)
      /\ e.pending = Append(d.pending, d.seqNoSend)
      /\ e.stopConPending = d.stopConPending
  BY <1>1, <1>2 DEF Sent, Driver
<1>4. Outstanding(e) = Outstanding(d) + 1
  BY <1>1, <1>3, CountSucc DEF Driver, Outstanding
<1>5. Window(d.ackNoSend, Succ(d.seqNoSend), Append(d.pending, d.seqNoSend))
  BY <1>1, WindowAppend DEF DriverInv, Driver, WindowMatches, Outstanding, Window
<1>6. WindowMatches(e)
  BY <1>3, <1>5 DEF WindowMatches, Outstanding, Window
<1>7. Unacked(e) = 0
  BY <1>1, <1>3, CountRange DEF Driver, Unacked
<1>8. Outstanding(e) <= K[c]
  BY <1>1, <1>4, CountRange DEF Driver, Outstanding
<1>9. e.ackNoSend # e.seqNoSend
  <2>1. Outstanding(d) \in Nat /\ Outstanding(e) # 0
    BY <1>1, <1>4, CountRange DEF Driver, Outstanding
  <2>2. e.ackNoSend \in SeqNo /\ e.seqNoSend \in SeqNo
    BY <1>3 DEF Driver
  <2> HIDE DEF e
  <2> QED
    BY <2>1, <2>2, CountRange DEF Outstanding
<1> QED
  BY <1>1, <1>3, <1>6, <1>7, <1>8, <1>9 DEF DriverInv

\* An accepted acknowledgement keeps DriverInv.
LEMMA AcknowledgeInv ==
    ASSUME NEW c \in Conn, NEW d, DriverInv(c, d),
           NEW r \in SeqNo, AckAccepted(d, r)
    PROVE  /\ DriverInv(c, Acknowledge(d, r))
           /\ Acknowledge(d, r).stopConPending = d.stopConPending
<1>1. CASE r = d.ackNoSend
  BY <1>1 DEF Acknowledge
<1>2. CASE r # d.ackNoSend
  <2> DEFINE e == Acknowledge(d, r)
             p == DrainUpTo(d.pending, Pred(r))
  <2>1. d \in Driver /\ Window(d.ackNoSend, d.seqNoSend, d.pending)
    BY DEF DriverInv, WindowMatches, Window, Outstanding
  <2>2. SeqNoCount(r, d.seqNoSend) <= SeqNoCount(d.ackNoSend, d.seqNoSend)
    BY <1>2, <2>1, CountRange DEF AckAccepted, Driver
  <2>3. p \in Seq(SeqNo) /\ Window(r, d.seqNoSend, p)
    BY <1>2, <2>1, <2>2, WindowDrain DEF Driver
  <2>4. e = [d EXCEPT !.pending = p, !.ackNoSend = r]
    BY <1>2 DEF Acknowledge
  <2> HIDE DEF p
  <2>5. /\ e \in Driver
        /\ e.ackNoSend = r /\ e.seqNoSend = d.seqNoSend /\ e.pending = p
        /\ e.ackNoRcv = d.ackNoRcv /\ e.seqNoRcv = d.seqNoRcv
        /\ e.stopConPending = d.stopConPending
    BY <2>1, <2>3, <2>4 DEF Driver
  <2> HIDE DEF e
  <2>6. WindowMatches(e)
    BY <2>3, <2>5 DEF WindowMatches, Window, Outstanding
  <2>7. Outstanding(e) <= K[c]
    <3>1. /\ SeqNoCount(r, d.seqNoSend) \in 0 .. (M - 1)
          /\ SeqNoCount(d.ackNoSend, d.seqNoSend) \in 0 .. (M - 1)
          /\ K[c] \in 1 .. (M - 1)
      BY <2>1, CountRange, ConnectionAssumption DEF Driver
    <3>2. SeqNoCount(d.ackNoSend, d.seqNoSend) <= K[c]
      BY DEF DriverInv, Outstanding
    <3> QED
      BY <2>2, <2>5, <3>1, <3>2, ModulusAssumption DEF Outstanding
  <2>8. Unacked(e) < W[c]
    BY <2>5 DEF DriverInv, Unacked
  <2> QED
    BY <2>5, <2>6, <2>7, <2>8 DEF DriverInv, e
<1> QED
  BY <1>1, <1>2

\* Numbering an I-frame, and acknowledging at w, keeps DriverInv.
LEMMA ReceivedInv ==
    ASSUME NEW c \in Conn, NEW d, DriverInv(c, d)
    PROVE  LET e == Received(d)
               f == IF AckDue(c, e) THEN AckSent(e) ELSE e
           IN  DriverInv(c, f) /\ f.stopConPending = d.stopConPending
<1> DEFINE e == Received(d)
           f == IF AckDue(c, e) THEN AckSent(e) ELSE e
<1>1. d \in Driver
  BY DEF DriverInv
<1>2. /\ e \in Driver
      /\ e.ackNoSend = d.ackNoSend /\ e.seqNoSend = d.seqNoSend
      /\ e.pending = d.pending
      /\ e.stopConPending = d.stopConPending
  BY <1>1, SuccCases DEF Received, Driver
<1> HIDE DEF e
<1>3. WindowMatches(e) /\ Outstanding(e) <= K[c]
  BY <1>2 DEF DriverInv, WindowMatches, Outstanding
<1>4. CASE AckDue(c, e)
  <2>1. DriverInv(c, AckSent(e))
    BY <1>2, <1>3, AckSentInv
  <2>2. AckSent(e).stopConPending = e.stopConPending
    BY <1>2 DEF AckSent, Driver
  <2> QED
    BY <1>2, <1>4, <2>1, <2>2 DEF e
<1>5. CASE ~AckDue(c, e)
  <2>1. Unacked(e) < W[c]
    <3>1. W[c] \in Int
      BY ConnectionAssumption
    <3>2. Unacked(e) \in Int
      BY <1>2, CountRange DEF Driver, Unacked
    <3>3. ~(Unacked(e) >= W[c])
      BY <1>2, <1>5 DEF AckDue, Driver, Unacked
    <3> QED
      BY <3>1, <3>2, <3>3
  <2> QED
    BY <1>2, <1>3, <1>5, <2>1 DEF DriverInv, e
<1> QED
  BY <1>4, <1>5

-----------------------------------------------------------------------------
(***************************************************************************)
(* All drivers: the inductive invariant and the steps that keep it.        *)
(***************************************************************************)

\* A STOPDT con is held back only while the window is not empty.
HeldInv(c, d, act) ==
    d.stopConPending => /\ ~act
                        /\ Role[c] = "Controlled"
                        /\ d.ackNoSend # d.seqNoSend

\* The drivers and their lines.
CoreInv ==
    /\ connected \in [Conn -> BOOLEAN]
    /\ closedBy \in [Conn -> CloseReason]
    /\ active \in [Conn -> BOOLEAN]
    /\ drv \in [Conn -> Driver]
    /\ line \in [Conn -> Seq(Apdu)]
    /\ \A c \in Conn : /\ DriverInv(c, drv[c])
                       /\ HeldInv(c, drv[c], active[c])
                       /\ drv[c].maySend => Outstanding(drv[c]) < K[c]

\* The queues between the drivers and the application.
QueuesInv ==
    /\ asduQ \in [Conn -> Seq(Asdu)]
    /\ ctrlQ \in [Conn -> Seq({"StartDt", "StopDt"})]
    /\ packs \in [Conn -> Seq(Asdu)]

\* The lines an iteration may find.
Lines == [Conn -> Seq(Apdu)]

\* The head of the loop opens the ASDU branch only below k.
LEMMA LoopHeadInv ==
    ASSUME NEW c \in Conn, NEW d, DriverInv(c, d), NEW act \in BOOLEAN
    PROVE  LET e == LoopHead(c, d, act)
           IN  /\ DriverInv(c, e)
               /\ e.stopConPending = d.stopConPending
               /\ e.ackNoSend = d.ackNoSend
               /\ e.seqNoSend = d.seqNoSend
               /\ e.maySend => Outstanding(e) < K[c]
<1> DEFINE b == act /\ ~d.stopping /\ Outstanding(d) < K[c]
           e == LoopHead(c, d, act)
<1>1. d \in Driver
  BY DEF DriverInv
<1>2. b \in BOOLEAN
  OBVIOUS
<1>3. e = [d EXCEPT !.maySend = b]
  BY DEF LoopHead
<1>4. b => Outstanding(d) < K[c]
  OBVIOUS
<1> HIDE DEF b
<1>5. /\ e \in Driver
      /\ e.seqNoSend = d.seqNoSend /\ e.ackNoSend = d.ackNoSend
      /\ e.seqNoRcv = d.seqNoRcv /\ e.ackNoRcv = d.ackNoRcv
      /\ e.pending = d.pending /\ e.stopConPending = d.stopConPending
      /\ e.maySend = b
  BY <1>1, <1>2, <1>3 DEF Driver
<1> HIDE DEF e
<1>6. DriverInv(c, e)
  BY <1>5, SameNumbers
<1>7. Outstanding(e) = Outstanding(d)
  BY <1>5 DEF Outstanding
<1> QED
  BY <1>4, <1>5, <1>6, <1>7 DEF e

\* An iteration that leaves a good driver keeps CoreInv.
LEMMA IterateInv ==
    ASSUME CoreInv, NEW c \in Conn, NEW d, DriverInv(c, d),
           NEW act \in BOOLEAN, HeldInv(c, d, act),
           NEW out \in Seq(Apdu), NEW ln \in Lines,
           Iterate(c, d, act, out, ln)
    PROVE  CoreInv'
<1> DEFINE e == LoopHead(c, d, act)
<1>1. /\ DriverInv(c, e)
      /\ HeldInv(c, e, act)
      /\ e.maySend => Outstanding(e) < K[c]
  BY LoopHeadInv DEF HeldInv
<1>2. /\ drv' = [drv EXCEPT ![c] = e]
      /\ active' = [active EXCEPT ![c] = act]
      /\ line' = [ln EXCEPT ![c] = @ \o out]
      /\ UNCHANGED <<connected, closedBy>>
  BY DEF Iterate
<1> HIDE DEF e
<1>3. e \in Driver
  BY <1>1 DEF DriverInv
<1>4. drv' \in [Conn -> Driver] /\ active' \in [Conn -> BOOLEAN]
  BY <1>2, <1>3 DEF CoreInv
<1>5. line' \in [Conn -> Seq(Apdu)]
  <2>1. ln[c] \in Seq(Apdu)
    BY DEF Lines
  <2>2. ln[c] \o out \in Seq(Apdu)
    BY <2>1
  <2> QED
    BY <1>2, <2>2 DEF Lines
<1>6. \A x \in Conn : /\ DriverInv(x, drv'[x])
                      /\ HeldInv(x, drv'[x], active'[x])
                      /\ drv'[x].maySend => Outstanding(drv'[x]) < K[x]
  <2> SUFFICES ASSUME NEW x \in Conn
               PROVE  /\ DriverInv(x, drv'[x])
                      /\ HeldInv(x, drv'[x], active'[x])
                      /\ drv'[x].maySend => Outstanding(drv'[x]) < K[x]
    OBVIOUS
  <2>1. CASE x = c
    <3>1. drv'[x] = e /\ active'[x] = act
      BY <1>2, <2>1 DEF CoreInv
    <3> QED
      BY <1>1, <2>1, <3>1
  <2>2. CASE x # c
    <3>1. drv'[x] = drv[x] /\ active'[x] = active[x]
      BY <1>2, <2>2 DEF CoreInv
    <3> QED
      BY <3>1 DEF CoreInv
  <2> QED
    BY <2>1, <2>2
<1> QED
  BY <1>2, <1>4, <1>5, <1>6 DEF CoreInv

\* The end of the frame branch releases a held STOPDT con when it is due.
LEMMA FrameDoneInv ==
    ASSUME CoreInv, NEW c \in Conn, NEW d, DriverInv(c, d),
           NEW act \in BOOLEAN, d.stopConPending => ~act /\ Role[c] = "Controlled",
           NEW out \in Seq(Apdu), NEW ln \in Lines,
           FrameDone(c, d, act, out, ln)
    PROVE  CoreInv'
<1>1. CASE StopConDue(d)
  <2> DEFINE e == [d EXCEPT !.stopConPending = FALSE]
             o == Append(out, UFrame("StopDtCon"))
  <2>1. d \in Driver
    BY DEF DriverInv
  <2>2. /\ e \in Driver /\ ~e.stopConPending
        /\ e.seqNoSend = d.seqNoSend /\ e.ackNoSend = d.ackNoSend
        /\ e.seqNoRcv = d.seqNoRcv /\ e.ackNoRcv = d.ackNoRcv
        /\ e.pending = d.pending
    BY <2>1 DEF Driver
  <2>3. o \in Seq(Apdu)
    BY DEF Apdu, UFrame, UFunction
  <2>4. Iterate(c, e, act, o, ln)
    BY <1>1 DEF FrameDone
  <2> HIDE DEF e, o
  <2>5. DriverInv(c, e) /\ HeldInv(c, e, act)
    BY <2>2, SameNumbers DEF HeldInv
  <2> QED
    BY <2>3, <2>4, <2>5, IterateInv
<1>2. CASE ~StopConDue(d)
  <2>1. Iterate(c, d, act, out, ln)
    BY <1>2 DEF FrameDone
  <2>2. HeldInv(c, d, act)
    BY <1>2 DEF HeldInv, StopConDue
  <2> QED
    BY <2>1, <2>2, IterateInv
<1> QED
  BY <1>1, <1>2

\* Leaving the loop keeps the invariants, for whatever reason.
LEMMA CloseInv ==
    ASSUME CoreInv, QueuesInv, NEW c \in Conn, NEW why \in CloseReason, NEW ln \in Lines,
           Close(c, why, ln)
    PROVE  CoreInv' /\ QueuesInv'
<1>1. connected' \in [Conn -> BOOLEAN] /\ closedBy' \in [Conn -> CloseReason]
  BY DEF CoreInv, Close
<1>2. active' \in [Conn -> BOOLEAN] /\ line' \in [Conn -> Seq(Apdu)] /\ drv' \in [Conn -> Driver]
  BY DEF CoreInv, Close, Lines
<1>3. \A x \in Conn : /\ DriverInv(x, drv'[x])
                      /\ HeldInv(x, drv'[x], active'[x])
                      /\ drv'[x].maySend => Outstanding(drv'[x]) < K[x]
  BY DEF CoreInv, Close, HeldInv
<1>4. QueuesInv'
  BY DEF QueuesInv, Close
<1> QED
  BY <1>1, <1>2, <1>3, <1>4 DEF CoreInv

\* The ASDU branch keeps the invariants.
LEMMA SendAsduInv ==
    ASSUME CoreInv, QueuesInv, NEW c \in Conn, NEW ln \in Lines, SendAsdu(c, ln)
    PROVE  CoreInv' /\ QueuesInv'
<1> DEFINE d == drv[c]
           out == <<IFrame(d.seqNoSend, d.seqNoRcv, Head(asduQ[c]))>>
<1>1. /\ DriverInv(c, d) /\ d \in Driver
      /\ Outstanding(d) < K[c]
      /\ HeldInv(c, d, active[c])
      /\ active[c] \in BOOLEAN
  BY DEF CoreInv, SendAsdu
<1>2. /\ asduQ[c] \in Seq(Asdu) /\ asduQ[c] # <<>>
      /\ Head(asduQ[c]) \in Asdu /\ Tail(asduQ[c]) \in Seq(Asdu)
  BY DEF QueuesInv, SendAsdu
<1>3. out \in Seq(Apdu)
  BY <1>1, <1>2 DEF Driver, Apdu, IFrame
<1>4. Iterate(c, Sent(d), active[c], out, ln)
  BY <1>2 DEF SendAsdu
<1>5. DriverInv(c, Sent(d)) /\ HeldInv(c, Sent(d), active[c])
  BY <1>1, SentInv DEF HeldInv
<1> HIDE DEF d, out
<1>6. CoreInv'
  BY <1>1, <1>3, <1>4, <1>5, IterateInv
<1>7. QueuesInv'
  BY <1>2 DEF QueuesInv, SendAsdu
<1> QED
  BY <1>6, <1>7

\* The control branch keeps the invariants.
LEMMA SendCtrlInv ==
    ASSUME CoreInv, QueuesInv, NEW c \in Conn, NEW ln \in Lines, SendCtrl(c, ln)
    PROVE  CoreInv' /\ QueuesInv'
<1> DEFINE d == drv[c]
           dStart == StartSent(d)
           dStop  == StopSent(d)
<1>1. /\ DriverInv(c, d) /\ d \in Driver
      /\ HeldInv(c, d, active[c])
      /\ active[c] \in BOOLEAN
  BY DEF CoreInv
<1>2. /\ Head(ctrlQ[c]) \in {"StartDt", "StopDt"}
      /\ Tail(ctrlQ[c]) \in Seq({"StartDt", "StopDt"})
  BY DEF QueuesInv, SendCtrl
<1>3. /\ <<UFrame("StartDtAct")>> \in Seq(Apdu)
      /\ <<UFrame("StopDtAct")>> \in Seq(Apdu)
  BY DEF Apdu, UFrame, UFunction
<1>4. \/ Iterate(c, dStart, active[c], <<UFrame("StartDtAct")>>, ln)
      \/ Iterate(c, dStop, active[c], <<UFrame("StopDtAct")>>, ln)
  BY <1>2 DEF SendCtrl
<1>5. DriverInv(c, dStart) /\ HeldInv(c, dStart, active[c])
  <2>1. /\ dStart \in Driver
        /\ dStart.seqNoSend = d.seqNoSend /\ dStart.ackNoSend = d.ackNoSend
        /\ dStart.seqNoRcv = d.seqNoRcv /\ dStart.ackNoRcv = d.ackNoRcv
        /\ dStart.pending = d.pending /\ dStart.stopConPending = d.stopConPending
    BY <1>1 DEF Driver, StartSent, StopSent
  <2> HIDE DEF d, dStart
  <2> QED
    BY <1>1, <2>1, SameNumbers DEF HeldInv
<1>6. DriverInv(c, dStop) /\ HeldInv(c, dStop, active[c])
  <2>1. /\ dStop \in Driver
        /\ dStop.seqNoSend = d.seqNoSend /\ dStop.ackNoSend = d.ackNoSend
        /\ dStop.seqNoRcv = d.seqNoRcv /\ dStop.ackNoRcv = d.ackNoRcv
        /\ dStop.pending = d.pending /\ dStop.stopConPending = d.stopConPending
    BY <1>1 DEF Driver, StartSent, StopSent
  <2> HIDE DEF d, dStop
  <2> QED
    BY <1>1, <2>1, SameNumbers DEF HeldInv
<1> HIDE DEF d, dStart, dStop
<1>7. CoreInv'
  BY <1>1, <1>3, <1>4, <1>5, <1>6, IterateInv
<1>8. QueuesInv'
  BY <1>2 DEF QueuesInv, SendCtrl
<1> QED
  BY <1>7, <1>8

\* An S-frame from any peer keeps the invariants.
LEMMA OnSInv ==
    ASSUME CoreInv, QueuesInv, NEW c \in Conn, NEW f \in Apdu, NEW ln \in Lines,
           NEW pk \in [Conn -> Seq(Asdu)], OnS(c, f, ln, pk)
    PROVE  CoreInv' /\ QueuesInv'
<1>1. f.recv \in SeqNo
  BY DEF OnS, Apdu, Malformed
<1>2. CASE AckAccepted(drv[c], f.recv)
  <2> DEFINE d == Acknowledge(drv[c], f.recv)
  <2>1. DriverInv(c, d) /\ (d.stopConPending => ~active[c] /\ Role[c] = "Controlled")
    BY <1>1, <1>2, AcknowledgeInv DEF CoreInv, HeldInv
  <2>2. FrameDone(c, d, active[c], <<>>, ln) /\ packs' = pk /\ UNCHANGED <<asduQ, ctrlQ>>
    BY <1>2 DEF OnS
  <2> HIDE DEF d
  <2>3. active[c] \in BOOLEAN /\ <<>> \in Seq(Apdu)
    BY DEF CoreInv
  <2> QED
    BY <2>1, <2>2, <2>3, FrameDoneInv DEF QueuesInv
<1>3. CASE ~AckAccepted(drv[c], f.recv)
  <2>1. Close(c, "ack", ln)
    BY <1>3 DEF OnS
  <2> QED
    BY <2>1, CloseInv DEF CloseReason
<1> QED
  BY <1>2, <1>3

\* An I-frame from any peer keeps the invariants.
LEMMA OnIInv ==
    ASSUME CoreInv, QueuesInv, NEW c \in Conn, NEW f \in Apdu, NEW ln \in Lines,
           NEW pk \in [Conn -> Seq(Asdu)], OnI(c, f, ln, pk)
    PROVE  CoreInv' /\ QueuesInv'
<1>1. f.recv \in SeqNo /\ f.asdu \in Asdu \cup {Garbage}
  BY DEF OnI, Apdu, Malformed
<1>2. CASE IFrameError(c, f) # "none"
  <2>1. Close(c, IFrameError(c, f), ln)
    BY <1>2 DEF OnI
  <2>2. IFrameError(c, f) \in CloseReason
    BY DEF IFrameError, CloseReason
  <2> QED
    BY <2>1, <2>2, CloseInv
<1>3. CASE IFrameError(c, f) = "none"
  <2> DEFINE a == Acknowledge(drv[c], f.recv)
             d == Received(a)
             full == AckDue(c, d)
             e == IF full THEN AckSent(d) ELSE d
             out == IF full THEN <<SFrame(d.seqNoRcv)>> ELSE <<>>
  <2>1. AckAccepted(drv[c], f.recv)
    BY <1>3 DEF IFrameError
  <2>2. DriverInv(c, a) /\ a.stopConPending = drv[c].stopConPending
    BY <1>1, <2>1, AcknowledgeInv DEF CoreInv
  <2>3. DriverInv(c, e) /\ e.stopConPending = a.stopConPending
    BY <2>2, ReceivedInv
  <2>4. e.stopConPending => ~active[c] /\ Role[c] = "Controlled"
    BY <2>2, <2>3 DEF CoreInv, HeldInv
  <2>5. out \in Seq(Apdu)
    <3>1. a \in Driver
      BY <2>2 DEF DriverInv
    <3>2. d.seqNoRcv \in SeqNo
      BY <3>1, SuccCases DEF Received, Driver
    <3>3. SFrame(d.seqNoRcv) \in Apdu
      BY <3>2 DEF Apdu, SFrame
    <3> HIDE DEF d
    <3> QED
      BY <3>3
  <2>6. /\ FrameDone(c, e, active[c], out, ln)
        /\ packs' = IF f.asdu = Garbage THEN pk
                    ELSE [pk EXCEPT ![c] = Append(@, f.asdu)]
        /\ UNCHANGED <<asduQ, ctrlQ>>
    BY <1>3 DEF OnI
  <2> HIDE DEF e, out
  <2>7. CoreInv'
    <3>1. active[c] \in BOOLEAN
      BY DEF CoreInv
    <3> QED
      BY <2>3, <2>4, <2>5, <2>6, <3>1, FrameDoneInv
  <2>8. QueuesInv'
    BY <1>1, <2>6 DEF QueuesInv
  <2> QED
    BY <2>7, <2>8
<1> QED
  BY <1>2, <1>3

\* A frame that parse rejects keeps the invariants.
LEMMA OnMalformedInv ==
    ASSUME CoreInv, QueuesInv, NEW c \in Conn, NEW f, NEW ln \in Lines,
           NEW pk \in [Conn -> Seq(Asdu)], OnMalformed(c, f, ln, pk)
    PROVE  CoreInv' /\ QueuesInv'
<1>1. /\ DriverInv(c, drv[c]) /\ HeldInv(c, drv[c], active[c])
      /\ active[c] \in BOOLEAN /\ <<>> \in Seq(Apdu)
  BY DEF CoreInv
<1>2. /\ Iterate(c, drv[c], active[c], <<>>, ln)
      /\ packs' = pk /\ UNCHANGED <<asduQ, ctrlQ>>
  BY DEF OnMalformed
<1> QED
  BY <1>1, <1>2, IterateInv DEF QueuesInv

\* A U-frame from any peer, valid for the role or not, keeps the invariants.
LEMMA OnUInv ==
    ASSUME CoreInv, QueuesInv, NEW c \in Conn, NEW f \in Apdu, NEW ln \in Lines,
           NEW pk \in [Conn -> Seq(Asdu)], OnU(c, f, ln, pk)
    PROVE  CoreInv' /\ QueuesInv'
<1> DEFINE d == drv[c]
<1>1. /\ d \in Driver /\ DriverInv(c, d)
      /\ active[c] \in BOOLEAN
      /\ d.stopConPending => ~active[c] /\ Role[c] = "Controlled"
  BY DEF CoreInv, HeldInv
<1>2. SUFFICES CoreInv'
  BY DEF QueuesInv, OnU
<1>3. \A u \in UFunction : <<UFrame(u)>> \in Seq(Apdu)
  <2>1. \A u \in UFunction : UFrame(u) \in Apdu
    BY DEF Apdu, UFrame
  <2> QED
    BY <2>1
<1>4. <<>> \in Seq(Apdu)
  OBVIOUS
<1>5. CASE FrameDone(c, d, active[c], <<>>, ln)
  BY <1>1, <1>4, <1>5, FrameDoneInv
<1>6. CASE OnStartDtAct(c, ln)
  <2> DEFINE e == [d EXCEPT !.stopConPending = FALSE]
  <2>1. /\ e \in Driver /\ ~e.stopConPending
        /\ e.seqNoSend = d.seqNoSend /\ e.ackNoSend = d.ackNoSend
        /\ e.seqNoRcv = d.seqNoRcv /\ e.ackNoRcv = d.ackNoRcv
        /\ e.pending = d.pending
    BY <1>1 DEF Driver
  <2>2. FrameDone(c, e, TRUE, <<UFrame("StartDtCon")>>, ln)
    BY <1>6 DEF OnStartDtAct
  <2> HIDE DEF d, e
  <2>3. DriverInv(c, e)
    BY <1>1, <2>1, SameNumbers
  <2>4. <<UFrame("StartDtCon")>> \in Seq(Apdu)
    BY <1>3 DEF UFunction
  <2> QED
    BY <2>1, <2>2, <2>3, <2>4, FrameDoneInv
<1>7. CASE OnStopDtAct(c, ln) /\ Role[c] = "Controlled"
  <2> DEFINE a == AckSent(d)
             e == [a EXCEPT !.stopConPending = TRUE]
             out == IF AckOwed(d) THEN <<SFrame(d.seqNoRcv)>> ELSE <<>>
  <2>1. DriverInv(c, a) /\ a \in Driver
    BY <1>1, AckSentInv DEF DriverInv
  <2>2. FrameDone(c, e, FALSE, out, ln)
    BY <1>7 DEF OnStopDtAct
  <2>3. out \in Seq(Apdu)
    <3>1. d.seqNoRcv \in SeqNo
      BY <1>1 DEF Driver
    <3>2. SFrame(d.seqNoRcv) \in Apdu
      BY <3>1 DEF Apdu, SFrame
    <3> HIDE DEF d
    <3> QED
      BY <3>2
  <2> HIDE DEF a
  <2>4. /\ e \in Driver
        /\ e.seqNoSend = a.seqNoSend /\ e.ackNoSend = a.ackNoSend
        /\ e.seqNoRcv = a.seqNoRcv /\ e.ackNoRcv = a.ackNoRcv
        /\ e.pending = a.pending
    BY <2>1 DEF Driver
  <2> HIDE DEF d, e, out
  <2>5. DriverInv(c, e)
    BY <2>1, <2>4, SameNumbers
  <2> QED
    BY <1>7, <2>2, <2>3, <2>5, FrameDoneInv
<1>8. CASE OnStartDtCon(c, ln) /\ Role[c] = "Master"
  <2> DEFINE e == [d EXCEPT !.startDtSince = FALSE]
  <2>1. /\ e \in Driver
        /\ e.seqNoSend = d.seqNoSend /\ e.ackNoSend = d.ackNoSend
        /\ e.seqNoRcv = d.seqNoRcv /\ e.ackNoRcv = d.ackNoRcv
        /\ e.pending = d.pending /\ e.stopConPending = d.stopConPending
    BY <1>1 DEF Driver
  <2>2. FrameDone(c, e, TRUE, <<>>, ln)
    BY <1>8 DEF OnStartDtCon
  <2> HIDE DEF d, e
  <2>3. DriverInv(c, e)
    BY <1>1, <2>1, SameNumbers
  <2>4. e.stopConPending => FALSE
    BY <1>1, <1>8, <2>1
  <2> QED
    BY <1>4, <2>2, <2>3, <2>4, FrameDoneInv
<1>9. CASE OnStopDtCon(c, ln) /\ Role[c] = "Master"
  <2> DEFINE e == [d EXCEPT !.stopDtSince = FALSE, !.stopping = FALSE]
  <2>1. /\ e \in Driver
        /\ e.seqNoSend = d.seqNoSend /\ e.ackNoSend = d.ackNoSend
        /\ e.seqNoRcv = d.seqNoRcv /\ e.ackNoRcv = d.ackNoRcv
        /\ e.pending = d.pending /\ e.stopConPending = d.stopConPending
    BY <1>1 DEF Driver
  <2>2. FrameDone(c, e, FALSE, <<>>, ln)
    BY <1>9 DEF OnStopDtCon
  <2> HIDE DEF d, e
  <2>3. DriverInv(c, e)
    BY <1>1, <2>1, SameNumbers
  <2>4. e.stopConPending => FALSE
    BY <1>1, <1>9, <2>1
  <2> QED
    BY <1>4, <2>2, <2>3, <2>4, FrameDoneInv
<1>10. CASE OnTestFrAct(c, ln)
  <2>1. <<UFrame("TestFrCon")>> \in Seq(Apdu)
    BY <1>3 DEF UFunction
  <2>2. FrameDone(c, d, active[c], <<UFrame("TestFrCon")>>, ln)
    BY <1>10 DEF OnTestFrAct
  <2> HIDE DEF d
  <2> QED
    BY <1>1, <2>1, <2>2, FrameDoneInv
<1>11. CASE OnTestFrCon(c, ln)
  <2> DEFINE e == [d EXCEPT !.testFrSince = FALSE]
  <2>1. /\ e \in Driver
        /\ e.seqNoSend = d.seqNoSend /\ e.ackNoSend = d.ackNoSend
        /\ e.seqNoRcv = d.seqNoRcv /\ e.ackNoRcv = d.ackNoRcv
        /\ e.pending = d.pending /\ e.stopConPending = d.stopConPending
    BY <1>1 DEF Driver
  <2>2. FrameDone(c, e, active[c], <<>>, ln)
    BY <1>11 DEF OnTestFrCon
  <2> HIDE DEF d, e
  <2>3. DriverInv(c, e)
    BY <1>1, <2>1, SameNumbers
  <2> QED
    BY <1>1, <1>4, <2>1, <2>2, <2>3, FrameDoneInv
<1>12. \/ FrameDone(c, d, active[c], <<>>, ln)
       \/ OnStartDtAct(c, ln)
       \/ OnStopDtAct(c, ln) /\ Role[c] = "Controlled"
       \/ OnStartDtCon(c, ln) /\ Role[c] = "Master"
       \/ OnStopDtCon(c, ln) /\ Role[c] = "Master"
       \/ OnTestFrAct(c, ln)
       \/ OnTestFrCon(c, ln)
  BY DEF OnU, ForRole
<1> QED
  BY <1>5, <1>6, <1>7, <1>8, <1>9, <1>10, <1>11, <1>12

\* The frame branch keeps the invariants.
LEMMA OnFrameInv ==
    ASSUME CoreInv, QueuesInv, NEW c \in Conn, NEW f \in Apdu, NEW ln \in Lines,
           NEW pk \in [Conn -> Seq(Asdu)], OnFrame(c, f, ln, pk)
    PROVE  CoreInv' /\ QueuesInv'
BY OnMalformedInv, OnSInv, OnIInv, OnUInv DEF OnFrame

\* The ticker branch keeps the invariants, whichever timers have run out.
LEMMA TickInv ==
    ASSUME CoreInv, QueuesInv, NEW c \in Conn, NEW ln \in Lines,
           NEW t2 \in BOOLEAN, NEW t3 \in BOOLEAN, Tick(c, t2, t3, ln)
    PROVE  CoreInv' /\ QueuesInv'
<1> DEFINE d   == drv[c]
           ack == t2 /\ AckOwed(d)
           d1  == IF ack THEN AckSent(d) ELSE d
           d2  == IF t3 THEN [d1 EXCEPT !.testFrSince = TRUE] ELSE d1
           out == (IF ack THEN <<SFrame(d.seqNoRcv)>> ELSE <<>>)
                    \o (IF t3 THEN <<UFrame("TestFrAct")>> ELSE <<>>)
<1>1. /\ d \in Driver /\ DriverInv(c, d)
      /\ active[c] \in BOOLEAN
      /\ HeldInv(c, d, active[c])
  BY DEF CoreInv
<1>2. /\ Iterate(c, d2, active[c], out, ln)
      /\ UNCHANGED <<asduQ, ctrlQ, packs>>
  BY DEF Tick
<1>3. out \in Seq(Apdu)
  <2>1. SFrame(d.seqNoRcv) \in Apdu
    BY <1>1 DEF Driver, Apdu, SFrame
  <2>2. UFrame("TestFrAct") \in Apdu
    BY DEF Apdu, UFrame, UFunction
  <2> HIDE DEF d
  <2> QED
    BY <2>1, <2>2
<1>4. DriverInv(c, d1) /\ HeldInv(c, d1, active[c]) /\ d1 \in Driver
  <2>1. DriverInv(c, AckSent(d))
    BY <1>1, AckSentInv DEF DriverInv
  <2>2. /\ AckSent(d).stopConPending = d.stopConPending
        /\ AckSent(d).ackNoSend = d.ackNoSend
        /\ AckSent(d).seqNoSend = d.seqNoSend
    BY <1>1 DEF AckSent, Driver
  <2> HIDE DEF d, ack
  <2> QED
    BY <1>1, <2>1, <2>2 DEF HeldInv, DriverInv
<1> HIDE DEF d1
<1>5. DriverInv(c, d2) /\ HeldInv(c, d2, active[c])
  <2> DEFINE e == [d1 EXCEPT !.testFrSince = TRUE]
  <2>1. /\ e \in Driver
        /\ e.seqNoSend = d1.seqNoSend /\ e.ackNoSend = d1.ackNoSend
        /\ e.seqNoRcv = d1.seqNoRcv /\ e.ackNoRcv = d1.ackNoRcv
        /\ e.pending = d1.pending /\ e.stopConPending = d1.stopConPending
    BY <1>4 DEF Driver
  <2> HIDE DEF e
  <2>2. DriverInv(c, e) /\ HeldInv(c, e, active[c])
    BY <1>4, <2>1, SameNumbers DEF HeldInv
  <2> QED
    BY <1>4, <2>2 DEF e
<1> HIDE DEF out, d2
<1> QED
  BY <1>1, <1>2, <1>3, <1>5, IterateInv DEF QueuesInv

\* The methods of the handle keep the invariants.
LEMMA ApplicationInv ==
    ASSUME CoreInv, QueuesInv, NEW c \in Conn,
           \/ \E a \in Asdu \cup {Garbage} : TryEnqueue(c, a)
           \/ \E ctrl \in {"StartDt", "StopDt"} : Request(c, ctrl)
           \/ Demote(c)
    PROVE  CoreInv' /\ QueuesInv'
<1>1. ASSUME NEW a \in Asdu \cup {Garbage}, TryEnqueue(c, a)
      PROVE  CoreInv' /\ QueuesInv'
  <2>1. Append(asduQ[c], a) \in Seq(Asdu)
    BY <1>1 DEF QueuesInv, TryEnqueue
  <2> QED
    BY <1>1, <2>1 DEF TryEnqueue, CoreInv, QueuesInv
<1>2. ASSUME NEW ctrl \in {"StartDt", "StopDt"}, Request(c, ctrl)
      PROVE  CoreInv' /\ QueuesInv'
  <2>1. Append(ctrlQ[c], ctrl) \in Seq({"StartDt", "StopDt"})
    BY DEF QueuesInv
  <2> QED
    BY <1>2, <2>1 DEF Request, CoreInv, QueuesInv
<1>3. CASE Demote(c)
  BY <1>3 DEF Demote, CoreInv, QueuesInv, HeldInv
<1> QED
  BY <1>1, <1>2, <1>3

\* A driver that starts is good.
LEMMA NewDriverInv ==
    ASSUME NEW c \in Conn
    PROVE  DriverInv(c, NewDriver) /\ NewDriver \in Driver /\ ~NewDriver.stopConPending
           /\ ~NewDriver.maySend
<1>1. 0 \in SeqNo /\ SeqNoCount(0, 0) = 0
  BY ModulusAssumption DEF SeqNo, SeqNoCount
<1>2. NewDriver \in Driver
  BY <1>1 DEF NewDriver, Driver
<1>3. Outstanding(NewDriver) = 0 /\ Unacked(NewDriver) = 0
  BY <1>1 DEF NewDriver, Outstanding, Unacked
<1>4. K[c] \in 1 .. (M - 1) /\ W[c] \in 1 .. (M - 1)
  BY ConnectionAssumption
<1>5. WindowMatches(NewDriver)
  BY <1>3 DEF NewDriver, WindowMatches
<1> QED
  BY <1>2, <1>3, <1>4, <1>5, ModulusAssumption DEF DriverInv, NewDriver

\* The initial state is good, whether or not a start is requested at once.
LEMMA ConnInitInv ==
    ASSUME ConnInit, ctrlQ \in [Conn -> {<<>>, <<"StartDt">>}]
    PROVE  CoreInv /\ QueuesInv
<1>1. CoreInv
  <2>1. \A c \in Conn : /\ DriverInv(c, drv[c])
                        /\ HeldInv(c, drv[c], active[c])
                        /\ drv[c].maySend => Outstanding(drv[c]) < K[c]
    BY NewDriverInv DEF ConnInit, HeldInv
  <2>2. drv \in [Conn -> Driver]
    BY NewDriverInv DEF ConnInit
  <2>3. /\ connected \in [Conn -> BOOLEAN]
        /\ active \in [Conn -> BOOLEAN]
        /\ closedBy \in [Conn -> CloseReason]
    BY DEF ConnInit, CloseReason
  <2>4. line \in [Conn -> Seq(Apdu)]
    <3>1. <<>> \in Seq(Apdu)
      OBVIOUS
    <3> QED
      BY <3>1 DEF ConnInit
  <2> QED
    BY <2>1, <2>2, <2>3, <2>4 DEF CoreInv
<1>2. QueuesInv
  <2>1. <<"StartDt">> \in Seq({"StartDt", "StopDt"}) /\ <<>> \in Seq({"StartDt", "StopDt"})
    OBVIOUS
  <2>2. ctrlQ \in [Conn -> Seq({"StartDt", "StopDt"})]
    BY <2>1
  <2>3. <<>> \in Seq(Asdu)
    OBVIOUS
  <2>4. asduQ \in [Conn -> Seq(Asdu)] /\ packs \in [Conn -> Seq(Asdu)]
    BY <2>3 DEF ConnInit
  <2> QED
    BY <2>2, <2>4 DEF QueuesInv
<1> QED
  BY <1>1, <1>2

-----------------------------------------------------------------------------
(***************************************************************************)
(* What a step of one driver does to the other end: the numbers it leaves  *)
(* and the APDUs it emits, without the branch it took.                     *)
(***************************************************************************)

\* e numbers, expects and retains the I-frames that d does.
SameWindow(e, d) ==
    /\ e.seqNoSend = d.seqNoSend
    /\ e.ackNoSend = d.ackNoSend
    /\ e.seqNoRcv = d.seqNoRcv
    /\ e.pending = d.pending

\* No I-frame is among out, and every S-frame acknowledges up to r.
ControlOnly(out, r) ==
    \A i \in 1 .. Len(out) : /\ out[i].fmt # "I"
                             /\ out[i].fmt = "S" => out[i].recv = r

\* The iteration leaves c with the window of d and emits no I-frame.
Leaves(c, d, ln) ==
    \E e \in Driver, act \in BOOLEAN, out \in Seq(Apdu) :
        /\ SameWindow(e, d)
        /\ e.maySend => act
        /\ ControlOnly(out, d.seqNoRcv)
        /\ drv' = [drv EXCEPT ![c] = e]
        /\ active' = [active EXCEPT ![c] = act]
        /\ line' = [ln EXCEPT ![c] = @ \o out]
        /\ UNCHANGED <<connected, closedBy, asduQ>>

\* The head of the loop changes maySend only.
LEMMA LoopHeadWindow ==
    ASSUME NEW c \in Conn, NEW d \in Driver, NEW act \in BOOLEAN
    PROVE  LET e == LoopHead(c, d, act)
           IN  /\ e \in Driver
               /\ SameWindow(e, d)
               /\ e.maySend => act /\ ~d.stopping
<1> DEFINE b == act /\ ~d.stopping /\ Outstanding(d) < K[c]
<1>1. b \in BOOLEAN /\ (b => act /\ ~d.stopping)
  OBVIOUS
<1>2. LoopHead(c, d, act) = [d EXCEPT !.maySend = b]
  BY DEF LoopHead
<1> HIDE DEF b
<1> QED
  BY <1>1, <1>2 DEF Driver, SameWindow

\* An iteration that emits no I-frame leaves c with the window it computed.
LEMMA IterateLeaves ==
    ASSUME NEW c \in Conn, NEW d, NEW e \in Driver, SameWindow(e, d),
           NEW act \in BOOLEAN, NEW out \in Seq(Apdu), ControlOnly(out, d.seqNoRcv),
           NEW ln, Iterate(c, e, act, out, ln), UNCHANGED asduQ
    PROVE  Leaves(c, d, ln)
<1> DEFINE h == LoopHead(c, e, act)
<1>1. h \in Driver /\ SameWindow(h, d) /\ (h.maySend => act)
  BY LoopHeadWindow DEF SameWindow
<1>2. /\ drv' = [drv EXCEPT ![c] = h]
      /\ active' = [active EXCEPT ![c] = act]
      /\ line' = [ln EXCEPT ![c] = @ \o out]
      /\ UNCHANGED <<connected, closedBy, asduQ>>
  BY DEF Iterate
<1> HIDE DEF h
<1> QED
  BY <1>1, <1>2 DEF Leaves

\* So does the end of the frame branch, with or without a STOPDT con.
LEMMA FrameDoneLeaves ==
    ASSUME NEW c \in Conn, NEW d, NEW e \in Driver, SameWindow(e, d),
           NEW act \in BOOLEAN, NEW out \in Seq(Apdu), ControlOnly(out, d.seqNoRcv),
           NEW ln, FrameDone(c, e, act, out, ln), UNCHANGED asduQ
    PROVE  Leaves(c, d, ln)
<1>1. CASE StopConDue(e)
  <2> DEFINE g == [e EXCEPT !.stopConPending = FALSE]
             o == Append(out, UFrame("StopDtCon"))
  <2>1. g \in Driver /\ SameWindow(g, d)
    BY DEF Driver, SameWindow
  <2>2. UFrame("StopDtCon") \in Apdu /\ UFrame("StopDtCon").fmt = "U"
    BY DEF UFrame, Apdu, UFunction
  <2>3. o \in Seq(Apdu) /\ ControlOnly(o, d.seqNoRcv)
    BY <2>2 DEF ControlOnly
  <2>4. Iterate(c, g, act, o, ln)
    BY <1>1 DEF FrameDone
  <2> HIDE DEF g, o
  <2> QED
    BY <2>1, <2>3, <2>4, IterateLeaves
<1>2. CASE ~StopConDue(e)
  <2>1. Iterate(c, e, act, out, ln)
    BY <1>2 DEF FrameDone
  <2> QED
    BY <2>1, IterateLeaves
<1> QED
  BY <1>1, <1>2

\* The I-frame or S-frame f closes the connection for the reason why.
Refuses(c, f, ln, why) ==
    /\ Close(c, why, ln)
    /\ \/ why = "stopped" /\ f.fmt = "I" /\ ~active[c] /\ Role[c] = "Controlled"
       \/ why = "ack" /\ f.fmt \in {"I", "S"} /\ ~AckAccepted(drv[c], f.recv)
       \/ why = "sequence" /\ f.fmt = "I" /\ f.send # drv[c].seqNoRcv

\* The S-frame f, the I-frame f, any other frame is taken.
TakesS(c, f, ln, pk) ==
    /\ f.fmt = "S"
    /\ AckAccepted(drv[c], f.recv)
    /\ Leaves(c, Acknowledge(drv[c], f.recv), ln)
    /\ packs' = pk

TakesI(c, f, ln, pk) ==
    /\ f.fmt = "I"
    /\ AckAccepted(drv[c], f.recv)
    /\ f.send = drv[c].seqNoRcv
    /\ Leaves(c, Received(Acknowledge(drv[c], f.recv)), ln)
    /\ packs' = IF f.asdu = Garbage THEN pk ELSE [pk EXCEPT ![c] = Append(@, f.asdu)]

TakesOther(c, f, ln, pk) ==
    /\ f.fmt \notin {"I", "S"}
    /\ Leaves(c, drv[c], ln)
    /\ packs' = pk

\* What an S-frame does to its reader.
LEMMA OnSLeaves ==
    ASSUME CoreInv, NEW c \in Conn, NEW f \in Apdu, NEW ln, NEW pk, OnS(c, f, ln, pk)
    PROVE  TakesS(c, f, ln, pk) \/ Refuses(c, f, ln, "ack")
<1>1. f.recv \in SeqNo /\ f.fmt = "S"
  BY DEF OnS, Apdu, Malformed
<1>2. CASE AckAccepted(drv[c], f.recv)
  <2> DEFINE d == Acknowledge(drv[c], f.recv)
  <2>1. d \in Driver
    BY <1>1, <1>2, AcknowledgeInv DEF CoreInv, DriverInv
  <2>2. FrameDone(c, d, active[c], <<>>, ln) /\ packs' = pk /\ UNCHANGED asduQ
    BY <1>2 DEF OnS
  <2>3. active[c] \in BOOLEAN /\ <<>> \in Seq(Apdu)
    BY DEF CoreInv
  <2>4. ControlOnly(<<>>, d.seqNoRcv) /\ SameWindow(d, d)
    BY DEF ControlOnly, SameWindow
  <2> HIDE DEF d
  <2>5. Leaves(c, d, ln)
    BY <2>1, <2>2, <2>3, <2>4, FrameDoneLeaves
  <2> QED
    BY <1>1, <1>2, <2>2, <2>5 DEF TakesS, d
<1>3. CASE ~AckAccepted(drv[c], f.recv)
  BY <1>1, <1>3 DEF OnS, Refuses
<1> QED
  BY <1>2, <1>3

\* What an I-frame does to its reader.
LEMMA OnILeaves ==
    ASSUME CoreInv, NEW c \in Conn, NEW f \in Apdu, NEW ln, NEW pk, OnI(c, f, ln, pk)
    PROVE  \/ TakesI(c, f, ln, pk)
           \/ \E why \in {"stopped", "ack", "sequence"} : Refuses(c, f, ln, why)
<1>1. f.recv \in SeqNo /\ f.asdu \in Asdu \cup {Garbage} /\ f.fmt = "I"
  BY DEF OnI, Apdu, Malformed
<1>2. CASE IFrameError(c, f) # "none"
  <2>1. Close(c, IFrameError(c, f), ln)
    BY <1>2 DEF OnI
  <2>2. /\ IFrameError(c, f) \in {"stopped", "ack", "sequence"}
        /\ IFrameError(c, f) = "stopped" => ~active[c] /\ Role[c] = "Controlled"
        /\ IFrameError(c, f) = "ack" => ~AckAccepted(drv[c], f.recv)
        /\ IFrameError(c, f) = "sequence" => f.send # drv[c].seqNoRcv
    BY <1>2 DEF IFrameError
  <2> QED
    BY <1>1, <2>1, <2>2 DEF Refuses
<1>3. CASE IFrameError(c, f) = "none"
  <2> DEFINE a == Acknowledge(drv[c], f.recv)
             d == Received(a)
             full == AckDue(c, d)
             e == IF full THEN AckSent(d) ELSE d
             out == IF full THEN <<SFrame(d.seqNoRcv)>> ELSE <<>>
  <2>1. AckAccepted(drv[c], f.recv) /\ f.send = drv[c].seqNoRcv
    BY <1>3 DEF IFrameError
  <2>2. DriverInv(c, a)
    BY <1>1, <2>1, AcknowledgeInv DEF CoreInv
  <2>3. d \in Driver
    BY <2>2, SuccCases DEF DriverInv, Received, Driver
  <2>4. /\ FrameDone(c, e, active[c], out, ln)
        /\ packs' = IF f.asdu = Garbage THEN pk ELSE [pk EXCEPT ![c] = Append(@, f.asdu)]
        /\ UNCHANGED asduQ
    BY <1>3 DEF OnI
  <2> HIDE DEF d, full
  <2>5. e \in Driver /\ SameWindow(e, d)
    BY <2>3 DEF AckSent, Driver, SameWindow
  <2>6. out \in Seq(Apdu) /\ ControlOnly(out, d.seqNoRcv)
    <3>1. SFrame(d.seqNoRcv) \in Apdu
      BY <2>3 DEF SFrame, Apdu, Driver
    <3>2. <<SFrame(d.seqNoRcv)>> \in Seq(Apdu) /\ ControlOnly(<<SFrame(d.seqNoRcv)>>, d.seqNoRcv)
      BY <3>1 DEF ControlOnly, SFrame
    <3>3. <<>> \in Seq(Apdu) /\ ControlOnly(<<>>, d.seqNoRcv)
      BY DEF ControlOnly
    <3> QED
      BY <3>2, <3>3
  <2>7. active[c] \in BOOLEAN
    BY DEF CoreInv
  <2> HIDE DEF e, out
  <2>8. Leaves(c, d, ln)
    BY <2>4, <2>5, <2>6, <2>7, FrameDoneLeaves
  <2> QED
    BY <1>1, <2>1, <2>4, <2>8 DEF TakesI, d
<1> QED
  BY <1>2, <1>3

\* A U-frame leaves every number of its reader alone, valid for the role or not.
LEMMA OnULeaves ==
    ASSUME CoreInv, NEW c \in Conn, NEW f \in Apdu, NEW ln, NEW pk, OnU(c, f, ln, pk)
    PROVE  TakesOther(c, f, ln, pk)
<1> DEFINE d == drv[c]
<1>1. d \in Driver /\ active[c] \in BOOLEAN
  BY DEF CoreInv
<1>2. f.fmt \notin {"I", "S"} /\ packs' = pk /\ UNCHANGED asduQ
  BY DEF OnU
<1>3. ASSUME NEW u \in UFunction
      PROVE  <<UFrame(u)>> \in Seq(Apdu) /\ ControlOnly(<<UFrame(u)>>, d.seqNoRcv)
  <2>1. UFrame(u) \in Apdu /\ UFrame(u).fmt = "U"
    BY DEF Apdu, UFrame
  <2> QED
    BY <2>1 DEF ControlOnly
<1>4. <<>> \in Seq(Apdu) /\ ControlOnly(<<>>, d.seqNoRcv)
  BY DEF ControlOnly
<1>5. SUFFICES Leaves(c, d, ln)
  BY <1>2 DEF TakesOther
<1>6. CASE FrameDone(c, d, active[c], <<>>, ln)
  BY <1>1, <1>2, <1>4, <1>6, FrameDoneLeaves DEF SameWindow
<1>7. CASE OnStartDtAct(c, ln)
  <2> DEFINE e == [d EXCEPT !.stopConPending = FALSE]
  <2>1. e \in Driver /\ SameWindow(e, d)
    BY <1>1 DEF Driver, SameWindow
  <2>2. FrameDone(c, e, TRUE, <<UFrame("StartDtCon")>>, ln)
    BY <1>7 DEF OnStartDtAct
  <2> HIDE DEF d, e
  <2> QED
    BY <1>2, <1>3, <2>1, <2>2, FrameDoneLeaves DEF UFunction
<1>8. CASE OnStopDtAct(c, ln)
  <2> DEFINE e == [AckSent(d) EXCEPT !.stopConPending = TRUE]
             out == IF AckOwed(d) THEN <<SFrame(d.seqNoRcv)>> ELSE <<>>
  <2>1. e \in Driver /\ SameWindow(e, d)
    BY <1>1 DEF Driver, SameWindow, AckSent
  <2>2. FrameDone(c, e, FALSE, out, ln)
    BY <1>8 DEF OnStopDtAct
  <2>3. out \in Seq(Apdu) /\ ControlOnly(out, d.seqNoRcv)
    <3>1. SFrame(d.seqNoRcv) \in Apdu
      BY <1>1 DEF SFrame, Apdu, Driver
    <3> HIDE DEF d
    <3>2. <<SFrame(d.seqNoRcv)>> \in Seq(Apdu) /\ ControlOnly(<<SFrame(d.seqNoRcv)>>, d.seqNoRcv)
      BY <3>1 DEF ControlOnly, SFrame
    <3> QED
      BY <1>4, <3>2
  <2> HIDE DEF d, e, out
  <2> QED
    BY <1>2, <2>1, <2>2, <2>3, FrameDoneLeaves
<1>9. CASE OnStartDtCon(c, ln)
  <2> DEFINE e == [d EXCEPT !.startDtSince = FALSE]
  <2>1. e \in Driver /\ SameWindow(e, d)
    BY <1>1 DEF Driver, SameWindow
  <2>2. FrameDone(c, e, TRUE, <<>>, ln)
    BY <1>9 DEF OnStartDtCon
  <2> HIDE DEF d, e
  <2> QED
    BY <1>2, <1>4, <2>1, <2>2, FrameDoneLeaves
<1>10. CASE OnStopDtCon(c, ln)
  <2> DEFINE e == [d EXCEPT !.stopDtSince = FALSE, !.stopping = FALSE]
  <2>1. e \in Driver /\ SameWindow(e, d)
    BY <1>1 DEF Driver, SameWindow
  <2>2. FrameDone(c, e, FALSE, <<>>, ln)
    BY <1>10 DEF OnStopDtCon
  <2> HIDE DEF d, e
  <2> QED
    BY <1>2, <1>4, <2>1, <2>2, FrameDoneLeaves
<1>11. CASE OnTestFrAct(c, ln)
  <2>1. FrameDone(c, d, active[c], <<UFrame("TestFrCon")>>, ln)
    BY <1>11 DEF OnTestFrAct
  <2>2. SameWindow(d, d) /\ "TestFrCon" \in UFunction
    BY DEF SameWindow, UFunction
  <2> HIDE DEF d
  <2> QED
    BY <1>1, <1>2, <1>3, <2>1, <2>2, FrameDoneLeaves
<1>12. CASE OnTestFrCon(c, ln)
  <2> DEFINE e == [d EXCEPT !.testFrSince = FALSE]
  <2>1. e \in Driver /\ SameWindow(e, d)
    BY <1>1 DEF Driver, SameWindow
  <2>2. FrameDone(c, e, active[c], <<>>, ln)
    BY <1>12 DEF OnTestFrCon
  <2> HIDE DEF d, e
  <2> QED
    BY <1>1, <1>2, <1>4, <2>1, <2>2, FrameDoneLeaves
<1> QED
  BY <1>6, <1>7, <1>8, <1>9, <1>10, <1>11, <1>12 DEF OnU

\* What any frame does to its reader: it is taken, or it closes the connection
\* for one of three reasons.
LEMMA OnFrameLeaves ==
    ASSUME CoreInv, NEW c \in Conn, NEW f \in Apdu, NEW ln, NEW pk, OnFrame(c, f, ln, pk)
    PROVE  \/ TakesS(c, f, ln, pk)
           \/ TakesI(c, f, ln, pk)
           \/ TakesOther(c, f, ln, pk)
           \/ \E why \in {"stopped", "ack", "sequence"} : Refuses(c, f, ln, why)
<1>1. CASE OnMalformed(c, f, ln, pk)
  <2>1. drv[c] \in Driver /\ active[c] \in BOOLEAN /\ <<>> \in Seq(Apdu)
    BY DEF CoreInv
  <2>2. SameWindow(drv[c], drv[c]) /\ ControlOnly(<<>>, drv[c].seqNoRcv)
    BY DEF SameWindow, ControlOnly
  <2>3. Leaves(c, drv[c], ln)
    BY <1>1, <2>1, <2>2, IterateLeaves DEF OnMalformed
  <2> QED
    BY <1>1, <2>3 DEF OnMalformed, TakesOther, Malformed
<1> QED
  BY <1>1, OnSLeaves, OnILeaves, OnULeaves DEF OnFrame

\* A start or stop request leaves the numbers alone.
LEMMA SendCtrlLeaves ==
    ASSUME CoreInv, NEW c \in Conn, NEW ln, SendCtrl(c, ln)
    PROVE  Leaves(c, drv[c], ln)
<1> DEFINE d == drv[c]
<1>1. d \in Driver /\ active[c] \in BOOLEAN /\ UNCHANGED asduQ
  BY DEF CoreInv, SendCtrl
<1>2. ASSUME NEW u \in UFunction
      PROVE  <<UFrame(u)>> \in Seq(Apdu) /\ ControlOnly(<<UFrame(u)>>, d.seqNoRcv)
  <2>1. UFrame(u) \in Apdu /\ UFrame(u).fmt = "U"
    BY DEF Apdu, UFrame
  <2> QED
    BY <2>1 DEF ControlOnly
<1>3. /\ StartSent(d) \in Driver /\ SameWindow(StartSent(d), d)
      /\ StopSent(d) \in Driver /\ SameWindow(StopSent(d), d)
  BY <1>1 DEF StartSent, StopSent, Driver, SameWindow
<1>4. \/ Iterate(c, StartSent(d), active[c], <<UFrame("StartDtAct")>>, ln)
      \/ Iterate(c, StopSent(d), active[c], <<UFrame("StopDtAct")>>, ln)
  BY DEF SendCtrl
<1> HIDE DEF d
<1>5. Leaves(c, d, ln)
  BY <1>1, <1>2, <1>3, <1>4, IterateLeaves DEF UFunction
<1> QED
  BY <1>5 DEF d

\* A tick leaves the numbers alone that the peer's frames are checked against.
LEMMA TickLeaves ==
    ASSUME CoreInv, NEW c \in Conn, NEW t2 \in BOOLEAN, NEW t3 \in BOOLEAN, NEW ln,
           Tick(c, t2, t3, ln)
    PROVE  Leaves(c, drv[c], ln)
<1> DEFINE d   == drv[c]
           ack == t2 /\ AckOwed(d)
           d1  == IF ack THEN AckSent(d) ELSE d
           d2  == IF t3 THEN [d1 EXCEPT !.testFrSince = TRUE] ELSE d1
           out == (IF ack THEN <<SFrame(d.seqNoRcv)>> ELSE <<>>)
                    \o (IF t3 THEN <<UFrame("TestFrAct")>> ELSE <<>>)
<1>1. d \in Driver /\ active[c] \in BOOLEAN /\ UNCHANGED asduQ
  BY DEF CoreInv, Tick
<1>2. Iterate(c, d2, active[c], out, ln)
  BY DEF Tick
<1>3. out \in Seq(Apdu) /\ ControlOnly(out, d.seqNoRcv)
  <2>1. /\ SFrame(d.seqNoRcv) \in Apdu
        /\ SFrame(d.seqNoRcv).fmt = "S" /\ SFrame(d.seqNoRcv).recv = d.seqNoRcv
    BY <1>1 DEF Driver, Apdu, SFrame
  <2>2. UFrame("TestFrAct") \in Apdu /\ UFrame("TestFrAct").fmt = "U"
    BY DEF Apdu, UFrame, UFunction
  <2> HIDE DEF d
  <2> QED
    BY <2>1, <2>2 DEF ControlOnly
<1>4. d1 \in Driver /\ SameWindow(d1, d)
  <2>1. AckSent(d) \in Driver /\ SameWindow(AckSent(d), d)
    BY <1>1 DEF AckSent, Driver, SameWindow
  <2> HIDE DEF d, ack
  <2> QED
    BY <1>1, <2>1 DEF SameWindow
<1> HIDE DEF d1
<1>5. d2 \in Driver /\ SameWindow(d2, d)
  BY <1>4 DEF Driver, SameWindow
<1> HIDE DEF d, d2, out
<1>6. Leaves(c, d, ln)
  BY <1>1, <1>2, <1>3, <1>5, IterateLeaves
<1> QED
  BY <1>6 DEF d

\* What sending an I-frame does: one number is used, one ASDU goes out under it.
LEMMA SendAsduLeaves ==
    ASSUME CoreInv, QueuesInv, NEW c \in Conn, NEW ln, SendAsdu(c, ln)
    PROVE  \E e \in Driver :
               /\ SameWindow(e, Sent(drv[c]))
               /\ e.maySend => active[c]
               /\ drv' = [drv EXCEPT ![c] = e]
               /\ active' = [active EXCEPT ![c] = active[c]]
               /\ line' = [ln EXCEPT ![c] = @ \o
                     <<IFrame(drv[c].seqNoSend, drv[c].seqNoRcv, Head(asduQ[c]))>>]
               /\ UNCHANGED <<connected, closedBy>>
<1> DEFINE d == Sent(drv[c])
           h == LoopHead(c, d, active[c])
<1>1. d \in Driver /\ active[c] \in BOOLEAN
  BY SentInv DEF CoreInv, SendAsdu, DriverInv
<1>2. h \in Driver /\ SameWindow(h, d) /\ (h.maySend => active[c])
  BY <1>1, LoopHeadWindow
<1>3. Iterate(c, d, active[c],
              <<IFrame(drv[c].seqNoSend, drv[c].seqNoRcv, Head(asduQ[c]))>>, ln)
  <2>1. Head(asduQ[c]) \in Asdu
    BY DEF SendAsdu, QueuesInv
  <2> QED
    BY <2>1 DEF SendAsdu
<1> QED
  BY <1>2, <1>3 DEF Iterate

-----------------------------------------------------------------------------
(***************************************************************************)
(* Safety of a single connection against every peer, for every number of   *)
(* connections, modulus, k, w and queue capacity.                          *)
(***************************************************************************)

\* The inductive invariant.
OpenInv == CoreInv /\ QueuesInv

\* The lines and dispatcher queues of Open104 have their types.
LEMMA NothingTypes == Nothing \in Lines /\ Nothing \in [Conn -> Seq(Asdu)]
BY DEF Nothing, Lines

\* OpenInv holds initially.
LEMMA OpenInitInv == OpenInit => OpenInv
<1> SUFFICES ASSUME OpenInit PROVE CoreInv /\ QueuesInv
  BY DEF OpenInv
<1>1. ctrlQ \in [Conn -> {<<>>, <<"StartDt">>}]
  BY DEF OpenInit
<1> QED
  BY <1>1, ConnInitInv DEF OpenInit

\* Every step keeps OpenInv.
LEMMA OpenNextInv == OpenInv /\ [OpenNext]_connVars => OpenInv'
<1> SUFFICES ASSUME CoreInv, QueuesInv, [OpenNext]_connVars
             PROVE  CoreInv' /\ QueuesInv'
  BY DEF OpenInv
<1>1. ASSUME NEW c \in Conn, Application(c)
      PROVE  CoreInv' /\ QueuesInv'
  BY <1>1, ApplicationInv DEF Application
<1>2. ASSUME NEW c \in Conn, Send(c)
      PROVE  CoreInv' /\ QueuesInv'
  BY <1>2, SendAsduInv, SendCtrlInv, NothingTypes DEF Send
<1>3. ASSUME NEW c \in Conn, Receive(c)
      PROVE  CoreInv' /\ QueuesInv'
  BY <1>3, OnFrameInv, NothingTypes DEF Receive
<1>4. ASSUME NEW c \in Conn, Timers(c)
      PROVE  CoreInv' /\ QueuesInv'
  <2>1. CASE TickT1(c, Nothing)
    BY <2>1, CloseInv, NothingTypes DEF TickT1, CloseReason
  <2>2. CASE \E t2, t3 \in BOOLEAN : Tick(c, t2, t3, Nothing)
    BY <2>2, TickInv, NothingTypes
  <2> QED
    BY <1>4, <2>1, <2>2 DEF Timers
<1>5. ASSUME NEW c \in Conn, End(c)
      PROVE  CoreInv' /\ QueuesInv'
  BY <1>5, CloseInv, NothingTypes DEF End, Shutdown, PeerClosed, CloseReason
<1>6. ASSUME NEW c \in Conn, Demote(c)
      PROVE  CoreInv' /\ QueuesInv'
  BY <1>6, ApplicationInv
<1>7. CASE UNCHANGED connVars
  BY <1>7 DEF connVars, CoreInv, QueuesInv
<1> QED
  BY <1>1, <1>2, <1>3, <1>4, <1>5, <1>6, <1>7 DEF OpenNext, Step

\* OpenInv is an invariant of every connection, whatever its peer sends.
THEOREM OpenInvariance == OpenSpec => []OpenInv
<1> QED
  BY OpenInitInv, OpenNextInv, PTL DEF OpenSpec

\* Every variable keeps its type; in particular all sequence numbers stay
\* within the 15 bits of the code's SEQ_MASK.
THEOREM TypeCorrect == OpenSpec => []OpenTypeOK
<1>1. OpenInv => OpenTypeOK
  BY DEF OpenInv, CoreInv, QueuesInv, OpenTypeOK
<1> QED
  BY <1>1, OpenInvariance, PTL

\* The send window never exceeds k and the pending list is always the window: no
\* acknowledgement a peer can send breaks the bookkeeping of update_ack_no_out.
THEOREM WindowCorrect == OpenSpec => [](PendingIsWindow /\ WindowBounded)
<1>1. OpenInv => PendingIsWindow /\ WindowBounded
  BY DEF OpenInv, CoreInv, DriverInv, PendingIsWindow, WindowBounded
<1> QED
  BY <1>1, OpenInvariance, PTL

\* Between two iterations fewer than w received I-frames are unacknowledged: w
\* I-frames in a row always find their acknowledgement on its way.
THEOREM UnackedCorrect == OpenSpec => []UnackedBelowW
<1>1. OpenInv => UnackedBelowW
  BY DEF OpenInv, CoreInv, DriverInv, UnackedBelowW
<1> QED
  BY <1>1, OpenInvariance, PTL

\* A held STOPDT con is released by the very frame that empties the window.
THEOREM StopConCorrect == OpenSpec => []HeldStopCon
<1>1. OpenInv => HeldStopCon
  BY DEF OpenInv, CoreInv, HeldInv, HeldStopCon
<1> QED
  BY <1>1, OpenInvariance, PTL

-----------------------------------------------------------------------------
(***************************************************************************)
(* I-frames after a demotion.  A demotion clears the session's flag while  *)
(* its driver may wait with the ASDU branch open; nothing clears the flag  *)
(* of a master but its own driver.                                         *)
(***************************************************************************)

\* The ASDU branch of a master is open only while data transfer is on.
MasterMaySend ==
    \A c \in Conn : Role[c] = "Master" /\ connected[c] /\ drv[c].maySend => active[c]

\* An iteration keeps MasterMaySend and numbers no I-frame.
LEMMA LeavesMaySend ==
    ASSUME CoreInv, MasterMaySend, NEW c \in Conn, NEW d, NEW ln, Leaves(c, d, ln)
    PROVE  /\ MasterMaySend'
           /\ d.seqNoSend = drv[c].seqNoSend => \A x \in Conn : ~EmitsI(x)
<1>1. PICK e \in Driver, act \in BOOLEAN :
         /\ e.seqNoSend = d.seqNoSend
         /\ e.maySend => act
         /\ drv' = [drv EXCEPT ![c] = e]
         /\ active' = [active EXCEPT ![c] = act]
         /\ UNCHANGED connected
  BY DEF Leaves, SameWindow
<1>2. \A x \in Conn : /\ drv'[x] = IF x = c THEN e ELSE drv[x]
                      /\ active'[x] = IF x = c THEN act ELSE active[x]
  BY <1>1 DEF CoreInv
<1> QED
  BY <1>1, <1>2 DEF MasterMaySend, EmitsI

\* Acknowledging and receiving number no I-frame.
LEMMA TakesNumberNone ==
    ASSUME NEW d \in Driver, NEW r \in SeqNo
    PROVE  /\ Acknowledge(d, r).seqNoSend = d.seqNoSend
           /\ Received(Acknowledge(d, r)).seqNoSend = d.seqNoSend
BY DEF Acknowledge, Received, Driver

\* Closing keeps MasterMaySend and numbers no I-frame.
LEMMA CloseMaySend ==
    ASSUME CoreInv, MasterMaySend, NEW c \in Conn, NEW why, NEW ln, Close(c, why, ln)
    PROVE  MasterMaySend' /\ \A x \in Conn : ~EmitsI(x)
BY DEF CoreInv, MasterMaySend, Close, EmitsI

\* Every step keeps MasterMaySend, and one that numbers an I-frame while data
\* transfer is off closes the ASDU branch of a controlled station.
LEMMA LateIStep ==
    ASSUME OpenInv, MasterMaySend, [OpenNext]_connVars
    PROVE  /\ MasterMaySend'
           /\ \A c \in Conn : ~active[c] /\ EmitsI(c) =>
                  Role[c] = "Controlled" /\ ~drv'[c].maySend
<1> DEFINE Goal == /\ MasterMaySend'
                   /\ \A c \in Conn : ~active[c] /\ EmitsI(c) =>
                         Role[c] = "Controlled" /\ ~drv'[c].maySend
<1>0. CoreInv /\ QueuesInv /\ \A c \in Conn : drv[c] \in Driver
  BY DEF OpenInv, CoreInv
<1>1. ASSUME NEW c \in Conn, Application(c) \/ Demote(c)
      PROVE  Goal
  <2>1. UNCHANGED drv /\ UNCHANGED connected
    BY <1>1 DEF Application, TryEnqueue, Request, Demote
  <2>2. \A x \in Conn : Role[x] = "Master" => active'[x] = active[x]
    BY <1>0, <1>1 DEF Application, TryEnqueue, Request, Demote, CoreInv
  <2> QED
    BY <2>1, <2>2 DEF MasterMaySend, EmitsI
<1>2. ASSUME NEW c \in Conn, SendAsdu(c, Nothing)
      PROVE  Goal
  <2>1. PICK e \in Driver :
           /\ e.maySend => active[c]
           /\ drv' = [drv EXCEPT ![c] = e]
           /\ active' = [active EXCEPT ![c] = active[c]]
           /\ UNCHANGED connected
    BY <1>0, <1>2, SendAsduLeaves
  <2>2. \A x \in Conn : /\ drv'[x] = IF x = c THEN e ELSE drv[x]
                        /\ active'[x] = active[x]
    BY <1>0, <2>1 DEF CoreInv
  <2>3. MasterMaySend'
    BY <2>1, <2>2 DEF MasterMaySend
  <2>4. ~active[c] => Role[c] = "Controlled"
    BY <1>2, ConnectionAssumption DEF SendAsdu, MasterMaySend
  <2> QED
    BY <2>1, <2>2, <2>3, <2>4 DEF EmitsI
<1>3. ASSUME NEW c \in Conn, SendCtrl(c, Nothing)
      PROVE  Goal
  BY <1>0, <1>3, SendCtrlLeaves, LeavesMaySend
<1>4. ASSUME NEW c \in Conn, Receive(c)
      PROVE  Goal
  <2>1. PICK f \in Apdu : OnFrame(c, f, Nothing, Nothing)
    BY <1>4 DEF Receive
  <2>2. f.fmt \in {"I", "S"} => f.recv \in SeqNo
    BY DEF Apdu, Malformed
  <2>3. CASE \E why \in {"stopped", "ack", "sequence"} : Refuses(c, f, Nothing, why)
    BY <1>0, <2>3, CloseMaySend DEF Refuses
  <2>4. CASE TakesOther(c, f, Nothing, Nothing)
    BY <1>0, <2>4, LeavesMaySend DEF TakesOther
  <2>5. CASE TakesS(c, f, Nothing, Nothing) \/ TakesI(c, f, Nothing, Nothing)
    BY <1>0, <2>2, <2>5, LeavesMaySend, TakesNumberNone DEF TakesS, TakesI
  <2> QED
    BY <1>0, <2>1, <2>3, <2>4, <2>5, OnFrameLeaves
<1>5. ASSUME NEW c \in Conn, Timers(c)
      PROVE  Goal
  <2>1. CASE TickT1(c, Nothing)
    BY <1>0, <2>1, CloseMaySend DEF TickT1
  <2>2. CASE \E t2, t3 \in BOOLEAN : Tick(c, t2, t3, Nothing)
    BY <1>0, <2>2, TickLeaves, LeavesMaySend
  <2> QED
    BY <1>5, <2>1, <2>2 DEF Timers
<1>6. ASSUME NEW c \in Conn, End(c)
      PROVE  Goal
  BY <1>0, <1>6, CloseMaySend DEF End, Shutdown, PeerClosed
<1>7. CASE UNCHANGED connVars
  BY <1>7 DEF connVars, MasterMaySend, EmitsI
<1> QED
  BY <1>1, <1>2, <1>3, <1>4, <1>5, <1>6, <1>7 DEF OpenNext, Step, Send

\* A demotion never leads to more than one late I-frame, and a master never
\* emits one after data transfer ended.
THEOREM LateICorrect == OpenSpec => LateIAtMostOnce
<1>1. OpenInit => MasterMaySend
  BY NewDriverInv DEF OpenInit, ConnInit, MasterMaySend
<1>2. OpenInv /\ MasterMaySend /\ [OpenNext]_connVars => MasterMaySend'
  BY LateIStep
<1>3. OpenInv /\ MasterMaySend /\ [OpenNext]_connVars =>
         [\A c \in Conn : ~active[c] /\ EmitsI(c) =>
              Role[c] = "Controlled" /\ ~drv'[c].maySend]_connVars
  BY LateIStep
<1> QED
  BY <1>1, <1>2, <1>3, OpenInvariance, PTL DEF OpenSpec, LateIAtMostOnce
=============================================================================
