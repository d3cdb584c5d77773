---------------------------- MODULE Link101Proofs ----------------------------
(***************************************************************************)
(* Proofs about Link101: what the frame count bit achieves on a line that  *)
(* loses frames, for every number of stations, commands, events, losses    *)
(* and repetitions.                                                        *)
(***************************************************************************)
EXTENDS Link101, WellFoundedInduction, TLAPS

-----------------------------------------------------------------------------
(***************************************************************************)
(* Numbers and sequences.                                                  *)
(***************************************************************************)

\* A set of numbers that is not empty has a least one.
LEMMA MinOf ==
    ASSUME NEW T, T \subseteq Nat, T # {}
    PROVE  Min(T) \in T /\ \A y \in T : Min(T) <= y
<1> DEFINE R == OpToRel(<, Nat)
<1>1. IsWellFoundedOn(R, Nat)
  BY NatLessThanWellFounded
<1>2. \E x \in T : \A y \in T : ~(<<y, x>> \in R)
  <2> HIDE DEF R
  <2> QED
    BY <1>1, WFMin
<1>3. \A x, y \in Nat : <<y, x>> \in R <=> y < x
  BY DEF OpToRel
<1>4. \E x \in T : \A y \in T : x <= y
  <2> HIDE DEF R
  <2>1. PICK x \in T : \A y \in T : ~(<<y, x>> \in R)
    BY <1>2
  <2>2. x \in Nat /\ \A y \in T : y \in Nat
    OBVIOUS
  <2>3. \A y \in T : ~(y < x)
    BY <1>3, <2>1, <2>2
  <2> QED
    BY <2>2, <2>3
<1> QED
  BY <1>4 DEF Min

\* Primary101 has its own instance of Min.
LEMMA PMinOf ==
    ASSUME NEW T, T \subseteq Nat, T # {}
    PROVE  P!Min(T) \in T /\ \A y \in T : P!Min(T) <= y
<1>1. P!Min(T) = Min(T)
  BY DEF P!Min, Min
<1> QED
  BY <1>1, MinOf

-----------------------------------------------------------------------------
(***************************************************************************)
(* Frames.  A frame of a primary role is a request, which is answered by   *)
(* one frame of the secondary role.                                        *)
(***************************************************************************)
Command  == [cmd : Nat]
Eventful == [from : Nat, event : Nat, cyclic : BOOLEAN]
Frame == {SingleCharAck}
         \cup [kind : {"Fixed"}, control : ControlField, addr : Nat]
         \cup [kind : {"Variable"}, control : ControlField, addr : Nat,
               asdu : Command \cup Eventful]

IsPrim(f) == f.kind # "SingleCharAck" /\ f.control.prm

HasPrim(s)    == \E i \in 1 .. Len(s) : IsPrim(s[i])
HasAnswer(s)  == \E i \in 1 .. Len(s) : ~IsPrim(s[i])
LonePrim(s)   == \A i, j \in 1 .. Len(s) : IsPrim(s[i]) /\ IsPrim(s[j]) => i = j
LoneAnswer(s) == \A i, j \in 1 .. Len(s) : ~IsPrim(s[i]) /\ ~IsPrim(s[j]) => i = j

\* The requests of a link, and how they are counted.
Asks(f) ==
    /\ f \in Frame /\ IsPrim(f)
    /\ f.control.fun \in {RESET_LINK, REQ_STATUS, TEST_LINK, USER_DATA_CONF, REQ_DATA1, REQ_DATA2}
    /\ f.control.fcv <=> f.control.fun \in Counted
    /\ f.kind = "Variable" <=> f.control.fun = USER_DATA_CONF
    /\ f.kind # "Variable" => f.kind = "Fixed"

\* One request is out at most, and it is on its way there, answered on the way
\* back, or lost.
Exchange(sent, there, back) ==
    /\ LonePrim(there) /\ LoneAnswer(back)
    /\ \A i \in 1 .. Len(there) : IsPrim(there[i]) => there[i] = sent /\ sent # NoFrame
    /\ HasPrim(there) => ~HasAnswer(back)
    /\ HasAnswer(back) => sent # NoFrame

\* A record is no other kind of frame.
LEMMA Kinds ==
    ASSUME NEW f \in Frame
    PROVE  /\ f # NoFrame
           /\ f.kind \in {"SingleCharAck", "Fixed", "Variable"}
           /\ f.kind # "SingleCharAck" => f.control \in ControlField /\ f.addr \in Nat
           /\ f.kind = "Variable" => f.asdu \in Command \cup Eventful
BY DEF Frame, NoFrame, SingleCharAck

\* The first element of a line and the rest.
LEMMA HeadTail ==
    ASSUME NEW T, NEW s \in Seq(T), s # <<>>
    PROVE  /\ Head(s) \in T /\ Head(s) = s[1] /\ 1 \in 1 .. Len(s)
           /\ Tail(s) \in Seq(T) /\ Len(Tail(s)) = Len(s) - 1 /\ Len(s) \in Nat
           /\ \A i \in 1 .. Len(Tail(s)) : Tail(s)[i] = s[i + 1] /\ i + 1 \in 1 .. Len(s)
           /\ \A i \in 1 .. Len(s) : i # 1 => i - 1 \in 1 .. Len(Tail(s)) /\ s[i] = Tail(s)[i - 1]
OBVIOUS

\* A line with one more element.
LEMMA JoinOne ==
    ASSUME NEW T, NEW s \in Seq(T), NEW f \in T
    PROVE  /\ s \o <<f>> \in Seq(T) /\ Len(s \o <<f>>) = Len(s) + 1 /\ Len(s) \in Nat
           /\ Len(s) + 1 \in 1 .. Len(s \o <<f>>) /\ (s \o <<f>>)[Len(s) + 1] = f
           /\ \A i \in 1 .. Len(s) : (s \o <<f>>)[i] = s[i] /\ i \in 1 .. Len(s \o <<f>>)
           /\ \A i \in 1 .. Len(s \o <<f>>) : i = Len(s) + 1 \/ i \in 1 .. Len(s)
OBVIOUS

\* What is left on a line whose first frame is taken.
LEMMA TailParts ==
    ASSUME NEW s \in Seq(Frame), s # <<>>
    PROVE  LET h == Head(s)
               t == Tail(s)
           IN  /\ h \in Frame /\ t \in Seq(Frame)
               /\ LonePrim(s) => LonePrim(t)
               /\ LoneAnswer(s) => LoneAnswer(t)
               /\ HasPrim(s) <=> IsPrim(h) \/ HasPrim(t)
               /\ HasAnswer(s) <=> ~IsPrim(h) \/ HasAnswer(t)
               /\ IsPrim(h) /\ LonePrim(s) => ~HasPrim(t)
               /\ ~IsPrim(h) /\ LoneAnswer(s) => ~HasAnswer(t)
<1> DEFINE h == Head(s)
           t == Tail(s)
<1>1. /\ h \in Frame /\ h = s[1] /\ 1 \in 1 .. Len(s) /\ t \in Seq(Frame) /\ Len(s) \in Nat
      /\ \A i \in 1 .. Len(t) : t[i] = s[i + 1] /\ i + 1 \in 1 .. Len(s)
      /\ \A i \in 1 .. Len(s) : i # 1 => i - 1 \in 1 .. Len(t) /\ s[i] = t[i - 1]
  BY HeadTail
<1> HIDE DEF h, t
<1>2. LonePrim(s) => LonePrim(t)
  <2> SUFFICES ASSUME LonePrim(s), NEW i \in 1 .. Len(t), NEW j \in 1 .. Len(t),
                      IsPrim(t[i]), IsPrim(t[j])
               PROVE  i = j
    BY DEF LonePrim
  <2>1. i + 1 = j + 1
    BY <1>1 DEF LonePrim
  <2> QED
    BY <2>1
<1>3. LoneAnswer(s) => LoneAnswer(t)
  <2> SUFFICES ASSUME LoneAnswer(s), NEW i \in 1 .. Len(t), NEW j \in 1 .. Len(t),
                      ~IsPrim(t[i]), ~IsPrim(t[j])
               PROVE  i = j
    BY DEF LoneAnswer
  <2>1. i + 1 = j + 1
    BY <1>1 DEF LoneAnswer
  <2> QED
    BY <2>1
<1>4. HasPrim(s) <=> IsPrim(h) \/ HasPrim(t)
  BY <1>1 DEF HasPrim
<1>5. HasAnswer(s) <=> ~IsPrim(h) \/ HasAnswer(t)
  BY <1>1 DEF HasAnswer
<1>6. IsPrim(h) /\ LonePrim(s) => ~HasPrim(t)
  <2> SUFFICES ASSUME IsPrim(h), LonePrim(s), NEW i \in 1 .. Len(t), IsPrim(t[i]) PROVE FALSE
    BY DEF HasPrim
  <2>1. i + 1 = 1
    BY <1>1 DEF LonePrim
  <2> QED
    BY <2>1
<1>7. ~IsPrim(h) /\ LoneAnswer(s) => ~HasAnswer(t)
  <2> SUFFICES ASSUME ~IsPrim(h), LoneAnswer(s), NEW i \in 1 .. Len(t), ~IsPrim(t[i]) PROVE FALSE
    BY DEF HasAnswer
  <2>1. i + 1 = 1
    BY <1>1 DEF LoneAnswer
  <2> QED
    BY <2>1
<1> QED
  BY <1>1, <1>2, <1>3, <1>4, <1>5, <1>6, <1>7 DEF h, t

\* What is on a line with one more frame.
LEMMA JoinParts ==
    ASSUME NEW s \in Seq(Frame), NEW f \in Frame
    PROVE  LET t == s \o <<f>>
           IN  /\ t \in Seq(Frame)
               /\ HasPrim(t) <=> HasPrim(s) \/ IsPrim(f)
               /\ HasAnswer(t) <=> HasAnswer(s) \/ ~IsPrim(f)
               /\ LonePrim(s) /\ ~(HasPrim(s) /\ IsPrim(f)) => LonePrim(t)
               /\ LoneAnswer(s) /\ ~(HasAnswer(s) /\ ~IsPrim(f)) => LoneAnswer(t)
               /\ \A i \in 1 .. Len(t) : t[i] = f \/ (i \in 1 .. Len(s) /\ t[i] = s[i])
<1> DEFINE t == s \o <<f>>
<1>1. /\ t \in Seq(Frame) /\ Len(s) \in Nat /\ Len(s) + 1 \in 1 .. Len(t) /\ t[Len(s) + 1] = f
      /\ \A i \in 1 .. Len(s) : t[i] = s[i] /\ i \in 1 .. Len(t)
      /\ \A i \in 1 .. Len(t) : i = Len(s) + 1 \/ i \in 1 .. Len(s)
  BY JoinOne
<1> HIDE DEF t
<1>2. HasPrim(t) <=> HasPrim(s) \/ IsPrim(f)
  BY <1>1 DEF HasPrim
<1>3. HasAnswer(t) <=> HasAnswer(s) \/ ~IsPrim(f)
  BY <1>1 DEF HasAnswer
<1>4. LonePrim(s) /\ ~(HasPrim(s) /\ IsPrim(f)) => LonePrim(t)
  <2> SUFFICES ASSUME LonePrim(s), ~(HasPrim(s) /\ IsPrim(f)),
                      NEW i \in 1 .. Len(t), NEW j \in 1 .. Len(t), IsPrim(t[i]), IsPrim(t[j])
               PROVE  i = j
    BY DEF LonePrim
  <2>1. CASE i \in 1 .. Len(s) /\ j \in 1 .. Len(s)
    BY <1>1, <2>1 DEF LonePrim
  <2>2. CASE i = Len(s) + 1 \/ j = Len(s) + 1
    BY <1>1, <2>2 DEF HasPrim
  <2> QED
    BY <1>1, <2>1, <2>2
<1>5. LoneAnswer(s) /\ ~(HasAnswer(s) /\ ~IsPrim(f)) => LoneAnswer(t)
  <2> SUFFICES ASSUME LoneAnswer(s), ~(HasAnswer(s) /\ ~IsPrim(f)),
                      NEW i \in 1 .. Len(t), NEW j \in 1 .. Len(t), ~IsPrim(t[i]), ~IsPrim(t[j])
               PROVE  i = j
    BY DEF LoneAnswer
  <2>1. CASE i \in 1 .. Len(s) /\ j \in 1 .. Len(s)
    BY <1>1, <2>1 DEF LoneAnswer
  <2>2. CASE i = Len(s) + 1 \/ j = Len(s) + 1
    BY <1>1, <2>2 DEF HasAnswer
  <2> QED
    BY <1>1, <2>1, <2>2
<1>6. \A i \in 1 .. Len(t) : t[i] = f \/ (i \in 1 .. Len(s) /\ t[i] = s[i])
  BY <1>1
<1> QED
  BY <1>1, <1>2, <1>3, <1>4, <1>5, <1>6 DEF t

-----------------------------------------------------------------------------
(***************************************************************************)
(* What happens on an exchange: a request is sent, repeated or given up,   *)
(* arrives or is answered, a frame is lost, or the frames of the other     *)
(* exchange on the line come and go.                                       *)
(***************************************************************************)

\* A frame leaves the line to the secondary role.
LEMMA ThereTaken ==
    ASSUME NEW sent, NEW there \in Seq(Frame), NEW back \in Seq(Frame),
           Exchange(sent, there, back), there # <<>>
    PROVE  /\ Exchange(sent, Tail(there), back)
           /\ IsPrim(Head(there)) => /\ Head(there) = sent /\ sent # NoFrame
                                     /\ ~HasAnswer(back) /\ ~HasPrim(Tail(there))
<1> DEFINE h == Head(there)
           t == Tail(there)
<1>1. /\ LonePrim(t)
      /\ HasPrim(there) <=> IsPrim(h) \/ HasPrim(t)
      /\ IsPrim(h) => ~HasPrim(t)
  BY TailParts DEF Exchange
<1>2. /\ h = there[1] /\ 1 \in 1 .. Len(there)
      /\ \A i \in 1 .. Len(t) : t[i] = there[i + 1] /\ i + 1 \in 1 .. Len(there)
  BY HeadTail
<1> HIDE DEF h, t
<1>3. \A i \in 1 .. Len(t) : IsPrim(t[i]) => t[i] = sent /\ sent # NoFrame
  BY <1>2 DEF Exchange
<1>4. IsPrim(h) => h = sent /\ sent # NoFrame
  BY <1>2 DEF Exchange
<1> QED
  BY <1>1, <1>3, <1>4 DEF Exchange, h, t

\* A frame leaves the line back.
LEMMA BackTaken ==
    ASSUME NEW sent, NEW there \in Seq(Frame), NEW back \in Seq(Frame),
           Exchange(sent, there, back), back # <<>>
    PROVE  /\ Exchange(sent, there, Tail(back))
           /\ HasAnswer(Tail(back)) => HasAnswer(back)
           /\ ~IsPrim(Head(back)) => /\ sent # NoFrame /\ ~HasPrim(there)
                                     /\ HasAnswer(back) /\ ~HasAnswer(Tail(back))
<1>1. /\ LoneAnswer(Tail(back))
      /\ HasAnswer(back) <=> ~IsPrim(Head(back)) \/ HasAnswer(Tail(back))
      /\ ~IsPrim(Head(back)) => ~HasAnswer(Tail(back))
  BY TailParts DEF Exchange
<1> QED
  BY <1>1 DEF Exchange

\* A frame joins the line to the secondary role.
LEMMA ThereJoined ==
    ASSUME NEW sent, NEW there \in Seq(Frame), NEW back \in Seq(Frame), NEW f \in Frame,
           Exchange(sent, there, back),
           IsPrim(f) => f = sent /\ sent # NoFrame /\ ~HasPrim(there) /\ ~HasAnswer(back)
    PROVE  Exchange(sent, there \o <<f>>, back)
<1> DEFINE t == there \o <<f>>
<1>1. /\ HasPrim(t) <=> HasPrim(there) \/ IsPrim(f)
      /\ LonePrim(there) /\ ~(HasPrim(there) /\ IsPrim(f)) => LonePrim(t)
      /\ \A i \in 1 .. Len(t) : t[i] = f \/ (i \in 1 .. Len(there) /\ t[i] = there[i])
  BY JoinParts
<1> HIDE DEF t
<1>2. \A i \in 1 .. Len(t) : IsPrim(t[i]) => t[i] = sent /\ sent # NoFrame
  BY <1>1 DEF Exchange
<1>3. LonePrim(t) /\ (HasPrim(t) => ~HasAnswer(back))
  BY <1>1 DEF Exchange
<1> QED
  BY <1>2, <1>3 DEF Exchange, t

\* A frame joins the line back.
LEMMA BackJoined ==
    ASSUME NEW sent, NEW there \in Seq(Frame), NEW back \in Seq(Frame), NEW f \in Frame,
           Exchange(sent, there, back),
           ~IsPrim(f) => sent # NoFrame /\ ~HasPrim(there) /\ ~HasAnswer(back)
    PROVE  /\ Exchange(sent, there, back \o <<f>>)
           /\ HasAnswer(back \o <<f>>) <=> HasAnswer(back) \/ ~IsPrim(f)
<1>1. /\ HasAnswer(back \o <<f>>) <=> HasAnswer(back) \/ ~IsPrim(f)
      /\ LoneAnswer(back) /\ ~(HasAnswer(back) /\ ~IsPrim(f)) => LoneAnswer(back \o <<f>>)
  BY JoinParts
<1> QED
  BY <1>1 DEF Exchange

\* With nothing of it on the line an exchange may be taken up or given up.
LEMMA Settles ==
    ASSUME NEW sent, NEW there, NEW back, NEW f,
           Exchange(sent, there, back), ~HasPrim(there), ~HasAnswer(back)
    PROVE  Exchange(f, there, back)
BY DEF Exchange, HasPrim

\* Nothing is on the line of a link that is idle.
LEMMA IdleLine ==
    ASSUME NEW there, NEW back, Exchange(NoFrame, there, back)
    PROVE  ~HasPrim(there) /\ ~HasAnswer(back)
BY DEF Exchange, HasPrim

\* Nor is anything of a request that is awaited in vain.
LEMMA InVain ==
    ASSUME ~Late, NEW sent, NEW there \in Seq(Frame), NEW back \in Seq(Frame),
           Exchange(sent, there, back), AwaitedInVain(sent, there, back)
    PROVE  ~HasPrim(there) /\ ~HasAnswer(back)
<1>1. sent \notin ToSet(there) /\ \A f \in ToSet(back) : IsPrim(f)
  BY DEF AwaitedInVain, IsPrim
<1>2. /\ \A i \in 1 .. Len(there) : there[i] \in ToSet(there)
      /\ \A i \in 1 .. Len(back) : back[i] \in ToSet(back)
  BY DEF ToSet
<1> QED
  BY <1>1, <1>2 DEF Exchange, HasPrim, HasAnswer

-----------------------------------------------------------------------------
(***************************************************************************)
(* The operations of the primary station.                                  *)
(***************************************************************************)
Sec == [phase : {"Status", "Reset", "Active"}, fcb : BOOLEAN,
        wantClass1 : BOOLEAN, busy : BOOLEAN]
LinkRec(A) == [secs : [A -> Sec], order : Seq(A) \ {<<>>}, idx : Nat,
               sent : Frame \cup {NoFrame}, retry : Nat,
               fcbExpected : BOOLEAN, dir : BOOLEAN]

IsLink(A, l) ==
    /\ l \in LinkRec(A) /\ l.idx \in 1 .. Len(l.order)
    /\ l.sent # NoFrame => Asks(l.sent) /\ l.sent.addr \in A
    /\ l.sent # NoFrame /\ l.sent.kind = "Variable" => l.sent.asdu \in Command

On(l, a) == l.secs[a].phase = "Active"

\* An idle link l has sent f and become m; user data is of X.
Launch(A, l, m, f, X) ==
    /\ IsLink(A, m) /\ m.sent = f /\ Asks(f) /\ f.addr \in A
    /\ m.fcbExpected = l.fcbExpected
    /\ \A a \in A : /\ m.secs[a].fcb = l.secs[a].fcb
                    /\ On(m, a) => On(l, a)
                    /\ a # f.addr => (On(m, a) <=> On(l, a))
    /\ f.control.fcv => On(m, f.addr) /\ f.control.fcb = l.secs[f.addr].fcb
    /\ f.control.fun = RESET_LINK => ~On(m, f.addr)
    /\ f.kind = "Variable" => f.asdu \in X

CountedServices == {TEST_LINK, REQ_DATA1, REQ_DATA2}
PlainServices   == {RESET_LINK, REQ_STATUS}

\* c is the control field of a request with frame count bit fcb.
Counts(c, fun, fcb) ==
    /\ c \in ControlField /\ c.prm = TRUE /\ c.fun = fun /\ c.fcv = TRUE /\ c.fcb = fcb
    /\ fun \in Counted /\ fun # RESET_LINK

\* The control field of a request.
LEMMA CountedControl ==
    ASSUME NEW c, NEW fun \in CountedServices \cup {USER_DATA_CONF}, NEW fcb, NEW dir,
           fcb \in BOOLEAN, dir \in BOOLEAN,
           c = [dir |-> dir, prm |-> TRUE, fcb |-> fcb, fcv |-> TRUE,
                acd |-> FALSE, dfc |-> FALSE, fun |-> fun]
    PROVE  Counts(c, fun, fcb)
<1>3. fun \in 0 .. 15 /\ fun \in Counted /\ fun # RESET_LINK
  BY DEF CountedServices, TEST_LINK, USER_DATA_CONF, REQ_DATA1, REQ_DATA2, Counted, RESET_LINK
<1>4. c \in ControlField
  BY <1>3 DEF ControlField
<1>5. c.prm = TRUE /\ c.fun = fun /\ c.fcv = TRUE /\ c.fcb = fcb
  OBVIOUS
<1> QED
  BY <1>3, <1>4, <1>5 DEF Counts

\* That of a request without a frame count.
LEMMA PlainControl ==
    ASSUME NEW c, NEW fun \in PlainServices, NEW fcb, NEW dir,
           fcb \in BOOLEAN, dir \in BOOLEAN,
           c = [dir |-> dir, prm |-> TRUE, fcb |-> FALSE /\ fcb, fcv |-> FALSE,
                acd |-> FALSE, dfc |-> FALSE, fun |-> fun]
    PROVE  /\ c \in ControlField /\ c.prm = TRUE /\ c.fun = fun /\ c.fcv = FALSE
           /\ fun \notin Counted
<1>1. (FALSE /\ fcb) = FALSE
  OBVIOUS
<1>2. c = [dir |-> dir, prm |-> TRUE, fcb |-> FALSE, fcv |-> FALSE, acd |-> FALSE, dfc |-> FALSE,
           fun |-> fun]
  BY <1>1, Zenon
<1>3. fun \in 0 .. 15 /\ fun \notin Counted
  BY DEF PlainServices, TEST_LINK, USER_DATA_CONF, REQ_DATA1, REQ_DATA2, Counted, RESET_LINK,
         REQ_STATUS
<1>4. c \in ControlField
  BY <1>2, <1>3 DEF ControlField
<1>5. c.prm = TRUE /\ c.fun = fun /\ c.fcv = FALSE
  BY <1>2
<1> QED
  BY <1>3, <1>4, <1>5

\* A service frame is a request.
LEMMA FixedAsks ==
    ASSUME NEW c \in ControlField, c.prm = TRUE, c.fun \in CountedServices \cup PlainServices,
           c.fcv <=> c.fun \in Counted, NEW a \in Nat
    PROVE  LET f == Fixed(c, a)
           IN  Asks(f) /\ f \in Frame /\ f.addr = a /\ f.kind = "Fixed" /\ f.control = c
<1> DEFINE f == Fixed(c, a)
<1>2. c.fun # USER_DATA_CONF
  BY DEF CountedServices, PlainServices, RESET_LINK, REQ_STATUS, TEST_LINK, USER_DATA_CONF,
         REQ_DATA1, REQ_DATA2
<1>3. f \in Frame /\ f.kind = "Fixed" /\ f.control = c /\ f.addr = a
  BY DEF Fixed, Frame
<1> HIDE DEF f
<1>4. IsPrim(f)
  BY <1>3 DEF IsPrim
<1>5. Asks(f)
  BY <1>2, <1>3, <1>4 DEF Asks, CountedServices, PlainServices
<1> QED
  BY <1>3, <1>5 DEF f

\* User data is a request.
LEMMA VariableAsks ==
    ASSUME NEW f \in Frame, f.kind = "Variable", f.control.prm = TRUE,
           f.control.fun = USER_DATA_CONF, f.control.fcv = TRUE
    PROVE  Asks(f)
<1>1. USER_DATA_CONF \in Counted
  BY DEF Counted
<1>2. IsPrim(f)
  BY DEF IsPrim
<1> QED
  BY <1>1, <1>2 DEF Asks

\* An idle link asks station a for a service.
Sends(A, l, o, a, fun) ==
    /\ Launch(A, l, o.link, o.link.sent, {}) /\ o.out = <<o.link.sent>>
    /\ o.link.sent.kind = "Fixed" /\ o.link.sent.addr = a /\ o.link.sent.control.fun = fun
    /\ o.done = NoFrame /\ o.deliver = FALSE

\* send_prim_frame: what holds of it with any control field.
LEMMA SendFixed ==
    ASSUME NEW A \in SUBSET Nat, NEW l, IsLink(A, l), NEW a \in A,
           NEW c \in ControlField, c.prm = TRUE, c.fun \in CountedServices \cup PlainServices,
           c.fcv <=> c.fun \in Counted,
           c.fcv => On(l, a) /\ c.fcb = l.secs[a].fcb,
           c.fun = RESET_LINK => ~On(l, a),
           NEW o, o = P!SendConfirmed(l, Fixed(c, a))
    PROVE  Sends(A, l, o, a, c.fun)
<1> DEFINE f == Fixed(c, a)
           m == [l EXCEPT !.sent = f, !.retry = 0]
<1>1. Asks(f) /\ f \in Frame /\ f.addr = a /\ f.kind = "Fixed" /\ f.control = c
  BY FixedAsks
<1>2. o = [link |-> m, out |-> <<f>>, done |-> NoFrame, deliver |-> FALSE]
  BY DEF P!SendConfirmed, P!Outcome, P!NoFrame, NoFrame
<1> HIDE DEF f
<1>3. /\ m \in LinkRec(A) /\ m.sent = f /\ m.fcbExpected = l.fcbExpected /\ m.secs = l.secs
      /\ m.order = l.order /\ m.idx = l.idx
  BY <1>1 DEF IsLink, LinkRec
<1>4. o.link = m /\ o.out = <<f>> /\ o.done = NoFrame /\ o.deliver = FALSE
  BY <1>2
<1> HIDE DEF m
<1>5. IsLink(A, m)
  BY <1>1, <1>3 DEF IsLink
<1>6. Launch(A, l, m, f, {})
  BY <1>1, <1>3, <1>5 DEF Launch, On
<1> QED
  BY <1>1, <1>3, <1>4, <1>6 DEF Sends

\* send_prim, with and without a frame count.
LEMMA SendCounted ==
    ASSUME NEW A \in SUBSET Nat, NEW l, IsLink(A, l), NEW a \in A,
           NEW fun \in CountedServices, On(l, a), NEW o, o = P!SendPrim(l, a, fun, TRUE)
    PROVE  Sends(A, l, o, a, fun)
<1> DEFINE c == [dir |-> l.dir, prm |-> TRUE, fcb |-> TRUE /\ l.secs[a].fcb, fcv |-> TRUE,
                 acd |-> FALSE, dfc |-> FALSE, fun |-> fun]
<1>1. l.secs[a].fcb \in BOOLEAN /\ l.dir \in BOOLEAN /\ a \in Nat
  BY DEF IsLink, LinkRec, Sec
<1>2. o = P!SendConfirmed(l, Fixed(c, a))
  BY DEF P!SendPrim, P!Primary, P!Fixed, Fixed
<1>3. /\ c \in ControlField /\ c.prm = TRUE /\ c.fun = fun /\ c.fcv = TRUE
      /\ c.fcb = l.secs[a].fcb /\ fun \in Counted /\ fun # RESET_LINK
  <2> DEFINE fcb == l.secs[a].fcb
             dir == l.dir
  <2>0. (TRUE /\ fcb) = fcb
    BY <1>1
  <2>1. /\ fcb \in BOOLEAN /\ dir \in BOOLEAN /\ fun \in CountedServices \cup {USER_DATA_CONF}
        /\ c = [dir |-> dir, prm |-> TRUE, fcb |-> fcb, fcv |-> TRUE,
                acd |-> FALSE, dfc |-> FALSE, fun |-> fun]
    BY <1>1, <2>0, Zenon
  <2> HIDE DEF c, fcb, dir
  <2>2. Counts(c, fun, fcb)
    BY <2>1, CountedControl
  <2> QED
    BY <2>2 DEF Counts, fcb
<1> HIDE DEF c
<1>4. c.fun \in CountedServices \cup PlainServices /\ (c.fcv <=> c.fun \in Counted)
  BY <1>3
<1> QED
  BY <1>2, <1>3, <1>4, SendFixed

\* send_prim without a frame count.
LEMMA SendPlain ==
    ASSUME NEW A \in SUBSET Nat, NEW l, IsLink(A, l), NEW a \in A,
           NEW fun \in PlainServices, fun = RESET_LINK => ~On(l, a),
           NEW o, o = P!SendPrim(l, a, fun, FALSE)
    PROVE  Sends(A, l, o, a, fun)
<1> DEFINE c == [dir |-> l.dir, prm |-> TRUE, fcb |-> FALSE /\ l.secs[a].fcb, fcv |-> FALSE,
                 acd |-> FALSE, dfc |-> FALSE, fun |-> fun]
<1>1. l.secs[a].fcb \in BOOLEAN /\ l.dir \in BOOLEAN /\ a \in Nat
  BY DEF IsLink, LinkRec, Sec
<1>2. o = P!SendConfirmed(l, Fixed(c, a))
  BY DEF P!SendPrim, P!Primary, P!Fixed, Fixed
<1>3. /\ c \in ControlField /\ c.prm = TRUE /\ c.fun = fun /\ c.fcv = FALSE
      /\ fun \notin Counted
  BY <1>1, PlainControl
<1> HIDE DEF c
<1> QED
  BY <1>2, <1>3, SendFixed

\* It is all the same to the exchange whose turn it was, and whether the station
\* asked was made inactive before.
LEMMA SendsFrom ==
    ASSUME NEW A, NEW l, NEW k, NEW o, NEW a, NEW fun, Sends(A, k, o, a, fun),
           k.fcbExpected = l.fcbExpected,
           \A x \in A : /\ k.secs[x].fcb = l.secs[x].fcb /\ (On(k, x) => On(l, x))
                        /\ x # a => (On(k, x) <=> On(l, x))
    PROVE  Sends(A, l, o, a, fun)
BY DEF Launch, Sends

\* The stations in polling order.
LEMMA TurnRange ==
    ASSUME NEW A \in SUBSET Nat, NEW l, IsLink(A, l), NEW k \in Nat
    PROVE  P!Turn(l, k) \in 1 .. Len(l.order) /\ l.order[P!Turn(l, k)] \in A
<1>1. Len(l.order) \in Nat \ {0} /\ l.idx \in Nat \ {0} /\ l.order \in Seq(A)
  BY DEF IsLink, LinkRec
<1>2. (l.idx - 1 + k) % Len(l.order) \in 0 .. (Len(l.order) - 1)
  <2> DEFINE n == Len(l.order)
             x == l.idx - 1 + k
  <2>1. n \in Nat \ {0} /\ x \in Nat
    BY <1>1
  <2> HIDE DEF n, x
  <2>2. x % n \in 0 .. (n - 1)
    BY <2>1
  <2> QED
    BY <2>2 DEF n, x
<1>3. P!Turn(l, k) \in 1 .. Len(l.order)
  BY <1>1, <1>2 DEF P!Turn
<1> QED
  BY <1>1, <1>3

Item(A) == [addr : A, asdu : Command]

\* Every queued ASDU is for a station that is served.
LEMMA AllKnown ==
    ASSUME NEW l, NEW q, \A i \in DOMAIN q : q[i].addr \in DOMAIN l.secs
    PROVE  P!Known(l, q) = q
BY Zenon DEF P!Known

\* The first ASDU that can be sent is the first for its station.
LEMMA FirstSendable ==
    ASSUME NEW A \in SUBSET Nat, NEW l, IsLink(A, l), NEW q \in Seq(Item(A)),
           P!Sendable(l, q) # {}
    PROVE  LET i == P!Min(P!Sendable(l, q))
           IN  /\ i \in 1 .. Len(q) /\ q[i] \in Item(A) /\ On(l, q[i].addr)
               /\ \A j \in 1 .. (i - 1) : q[j].addr # q[i].addr
               /\ P!QueueAfter(l, q) = SubSeq(q, 1, i - 1) \o SubSeq(q, i + 1, Len(q))
<1> DEFINE T == P!Sendable(l, q)
           i == P!Min(T)
<1>1. DOMAIN q = 1 .. Len(q) /\ Len(q) \in Nat /\ DOMAIN l.secs = A
  BY DEF IsLink, LinkRec
<1>2. \A j : j \in T <=> /\ j \in 1 .. Len(q) /\ q[j].addr \in A
                         /\ l.secs[q[j].addr].phase = "Active" /\ ~l.secs[q[j].addr].busy
  BY <1>1 DEF P!Sendable, P!IsActive
<1>3. T \subseteq Nat
  BY <1>2
<1> HIDE DEF T
<1>4. i \in T /\ \A y \in T : i <= y
  BY <1>3, PMinOf DEF T
<1> HIDE DEF i
<1>5. i \in 1 .. Len(q) /\ q[i] \in Item(A) /\ On(l, q[i].addr)
  BY <1>2, <1>4 DEF On
<1>6. ASSUME NEW j \in 1 .. (i - 1), q[j].addr = q[i].addr
      PROVE  FALSE
  <2>1. j \in 1 .. Len(q) /\ ~(i <= j)
    BY <1>5
  <2>2. j \in T
    BY <1>2, <1>4, <1>6, <2>1
  <2> QED
    BY <1>4, <2>1, <2>2
<1>7. P!QueueAfter(l, q) = SubSeq(q, 1, i - 1) \o SubSeq(q, i + 1, Len(q))
  <2> DEFINE p == SubSeq(q, 1, i - 1)
  <2>1. \A j \in 1 .. Len(q) : q[j].addr \in A
    <3>1. \A j \in 1 .. Len(q) : q[j] \in Item(A)
      OBVIOUS
    <3> QED
      BY <3>1 DEF Item
  <2>2. DOMAIN p = 1 .. (i - 1) /\ \A j \in 1 .. (i - 1) : p[j] = q[j] /\ j \in 1 .. Len(q)
    BY <1>1, <1>5
  <2> HIDE DEF p
  <2>3. P!Known(l, p) = p
    BY <1>1, <2>1, <2>2, AllKnown
  <2> QED
    BY <2>3 DEF P!QueueAfter, T, i, p
<1> QED
  BY <1>5, <1>6, <1>7 DEF T, i

\* try_send_queued
LEMMA SendQueuedLaunches ==
    ASSUME NEW A \in SUBSET Nat, NEW l, IsLink(A, l), NEW q \in Seq(Item(A)),
           P!Sendable(l, q) # {}
    PROVE  LET i == P!Min(P!Sendable(l, q))
               o == P!SendQueued(l, q)
           IN  /\ Launch(A, l, o.link, o.link.sent, {q[i].asdu}) /\ o.out = <<o.link.sent>>
               /\ o.link.sent.addr = q[i].addr /\ o.link.sent.kind = "Variable"
<1> DEFINE i == P!Min(P!Sendable(l, q))
           e == q[i]
           f == Variable(Primary(USER_DATA_CONF, TRUE, l.secs[e.addr].fcb, l.dir), e.addr, e.asdu)
           m == [l EXCEPT !.sent = f, !.retry = 0]
           o == P!SendQueued(l, q)
<1>1. e \in Item(A) /\ On(l, e.addr)
  BY FirstSendable
<1>2. o = [link |-> m, out |-> <<f>>, done |-> NoFrame, deliver |-> FALSE]
  BY DEF P!SendQueued, P!SendConfirmed, P!Outcome, P!Variable, P!Primary, Variable, Primary,
         P!NoFrame, NoFrame, P!USER_DATA_CONF, USER_DATA_CONF
<1> HIDE DEF e, i, o
<1>3. l.secs[e.addr].fcb \in BOOLEAN /\ l.dir \in BOOLEAN /\ e.addr \in A /\ e.addr \in Nat
      /\ e.asdu \in Command /\ e.asdu \in Command \cup Eventful
  BY <1>1 DEF IsLink, LinkRec, Sec, Item
<1>4. /\ Asks(f) /\ f \in Frame /\ f.addr = e.addr /\ f.kind = "Variable" /\ f.asdu = e.asdu
      /\ f.control.fun = USER_DATA_CONF /\ f.control.fcv = TRUE
      /\ f.control.fcb = l.secs[e.addr].fcb
  <2> DEFINE c == [dir |-> l.dir, prm |-> TRUE, fcb |-> TRUE /\ l.secs[e.addr].fcb, fcv |-> TRUE,
                   acd |-> FALSE, dfc |-> FALSE, fun |-> USER_DATA_CONF]
  <2>1. f = Variable(c, e.addr, e.asdu)
    BY DEF Primary
  <2>2. /\ c \in ControlField /\ c.prm = TRUE /\ c.fun = USER_DATA_CONF /\ c.fcv = TRUE
        /\ c.fcb = l.secs[e.addr].fcb
    <3> DEFINE fcb == l.secs[e.addr].fcb
               dir == l.dir
    <3>1. (TRUE /\ fcb) = fcb
      BY <1>3
    <3>2. /\ fcb \in BOOLEAN /\ dir \in BOOLEAN
          /\ c = [dir |-> dir, prm |-> TRUE, fcb |-> fcb, fcv |-> TRUE,
                  acd |-> FALSE, dfc |-> FALSE, fun |-> USER_DATA_CONF]
      BY <1>3, <3>1, Zenon
    <3> HIDE DEF c, fcb, dir
    <3> QED
      BY <3>2, CountedControl DEF Counts, fcb
  <2> DEFINE x == e.addr
             b == e.asdu
  <2>3. x \in Nat /\ b \in Command \cup Eventful /\ f = Variable(c, x, b)
    BY <1>3, <2>1
  <2> HIDE DEF c, f, x, b
  <2>4. /\ Asks(f) /\ f \in Frame /\ f.addr = x /\ f.kind = "Variable" /\ f.asdu = b
        /\ f.control = c
    <3>1. /\ f \in Frame /\ f.addr = x /\ f.kind = "Variable" /\ f.asdu = b
          /\ f.control = c
      BY <2>2, <2>3 DEF Variable, Frame
    <3>2. Asks(f)
      BY <2>2, <3>1, VariableAsks
    <3> QED
      BY <3>1, <3>2
  <2> QED
    BY <2>2, <2>4 DEF x, b
<1> HIDE DEF f
<1>5. /\ m \in LinkRec(A) /\ m.sent = f /\ m.fcbExpected = l.fcbExpected /\ m.secs = l.secs
      /\ m.order = l.order /\ m.idx = l.idx
  BY <1>4 DEF IsLink, LinkRec
<1>6. o.link = m /\ o.out = <<f>>
  BY <1>2
<1> HIDE DEF m
<1>7. IsLink(A, m)
  BY <1>3, <1>4, <1>5 DEF IsLink
<1>8. f.control.fun # RESET_LINK
  BY <1>4 DEF USER_DATA_CONF, RESET_LINK
<1>9. Launch(A, l, m, f, {e.asdu})
  BY <1>1, <1>3, <1>4, <1>5, <1>7, <1>8 DEF Launch, On
<1>10. /\ Launch(A, l, o.link, o.link.sent, {e.asdu}) /\ o.out = <<o.link.sent>>
       /\ o.link.sent.addr = e.addr /\ o.link.sent.kind = "Variable"
  BY <1>4, <1>5, <1>6, <1>9
<1> QED
  BY <1>10 DEF e, i, o

\* The station whose turn it is is asked for what its phase calls for.
LEMMA PollLaunches ==
    ASSUME NEW A \in SUBSET Nat, NEW l, IsLink(A, l), NEW bal, NEW o, o = P!Poll(l, bal)
    PROVE  \/ o.link = l /\ o.out = <<>>
           \/ \E a \in A : \E f : Sends(A, l, o, a, f)
<1> DEFINE due == {k \in 0 .. Len(l.order) - 1 : P!Due(l, k, bal)}
           k == P!Min(due)
           x == [l EXCEPT !.idx = P!Turn(l, k + 1)]
           a == l.order[P!Turn(l, k)]
<1>1. CASE due = {}
  BY <1>1 DEF P!Poll, P!Unmoved, P!Outcome
<1>2. CASE due # {}
  <2>1. o = P!PollStation(x, a)
    BY <1>2, Zenon DEF P!Poll
  <2>2. k \in due /\ k \in Nat
    <3>1. due \subseteq Nat
      OBVIOUS
    <3> HIDE DEF due
    <3> QED
      BY <1>2, <3>1, PMinOf
  <2>3. a \in A /\ P!Turn(l, k + 1) \in 1 .. Len(l.order)
    <3>1. k + 1 \in Nat
      BY <2>2
    <3> HIDE DEF k
    <3> QED
      BY <2>2, <3>1, TurnRange
  <2> HIDE DEF k, a
  <2>5. /\ IsLink(A, x) /\ x.secs = l.secs /\ x.fcbExpected = l.fcbExpected
        /\ l.secs[a] \in Sec
    <3>1. l.secs[a] \in Sec /\ P!Turn(l, k + 1) \in Nat
      BY <2>3 DEF IsLink, LinkRec
    <3>2. /\ x \in LinkRec(A) /\ x.idx = P!Turn(l, k + 1) /\ x.order = l.order
          /\ x.sent = l.sent /\ x.secs = l.secs /\ x.fcbExpected = l.fcbExpected
      BY <3>1 DEF IsLink, LinkRec
    <3> HIDE DEF x
    <3> QED
      BY <2>3, <3>1, <3>2 DEF IsLink
  <2> HIDE DEF x
  <2>6. ASSUME NEW fun, Sends(A, x, o, a, fun)
        PROVE  \E f : Sends(A, l, o, a, f)
    BY <2>5, <2>6, SendsFrom DEF On
  <2>7. CASE x.secs[a].phase = "Status"
    <3>1. o = P!SendPrim(x, a, REQ_STATUS, FALSE)
      BY <2>1, <2>7 DEF P!PollStation, P!REQ_STATUS, REQ_STATUS
    <3>2. REQ_STATUS \in PlainServices /\ REQ_STATUS # RESET_LINK
      BY DEF PlainServices, REQ_STATUS, RESET_LINK
    <3> QED
      BY <2>3, <2>5, <2>6, <3>1, <3>2, SendPlain
  <2>8. CASE x.secs[a].phase = "Reset"
    <3>1. o = P!SendPrim(x, a, RESET_LINK, FALSE)
      BY <2>1, <2>8 DEF P!PollStation, P!RESET_LINK, RESET_LINK
    <3>2. RESET_LINK \in PlainServices
      BY DEF PlainServices
    <3>3. ~On(x, a)
      BY <2>8 DEF On
    <3> QED
      BY <2>3, <2>5, <2>6, <3>1, <3>2, <3>3, SendPlain
  <2>9. CASE x.secs[a].phase = "Active"
    <3> DEFINE fun == IF x.secs[a].wantClass1 THEN REQ_DATA1 ELSE REQ_DATA2
    <3>1. o = P!SendPrim(x, a, fun, TRUE)
      BY <2>1, <2>9 DEF P!PollStation, P!REQ_DATA1, REQ_DATA1, P!REQ_DATA2, REQ_DATA2
    <3>2. fun \in CountedServices
      BY DEF CountedServices
    <3>3. On(x, a)
      BY <2>9 DEF On
    <3> HIDE DEF fun
    <3> QED
      BY <2>3, <2>5, <2>6, <3>1, <3>2, <3>3, SendCounted
  <2> QED
    BY <2>3, <2>5, <2>7, <2>8, <2>9 DEF Sec
<1> QED
  BY <1>1, <1>2

-----------------------------------------------------------------------------
(***************************************************************************)
(* The invariant.  Each end counts what it sends with a bit, and the other *)
(* end expects one: Bits relates them over an exchange.                    *)
(***************************************************************************)

\* on: whether the sending end holds the direction active; fcb, sent: its frame
\* count bit and what it has out there; exp: the bit expected there.
Bits(on, fcb, sent, exp, answered) ==
    /\ sent # NoFrame /\ sent.control.fcv
          => on /\ sent.control.fcb = fcb /\ (answered => exp # fcb)
    /\ sent # NoFrame /\ sent.control.fun = RESET_LINK
          => ~on /\ (answered => exp = TRUE)
    /\ on /\ ~(sent # NoFrame /\ sent.control.fcv) => fcb = exp

StationRec == [fcbExpected : BOOLEAN, lastResp : Frame \cup {NoFrame},
               sent : Frame \cup {NoFrame}, retry : Nat, fcb : BOOLEAN, active : BOOLEAN]

\* An answer that confirms a request, and does not refuse it.
Affirms(f) ==
    /\ f \in Frame /\ ~IsPrim(f)
    /\ f.kind # "SingleCharAck" =>
         f.control.fun \in {CONF_ACK, RESP_STATUS, RESP_DATA, RESP_NO_DATA}
    /\ f.kind = "Variable" => f.asdu \in Eventful /\ f.control.fun = RESP_DATA

IsStation(bal, a, s) ==
    /\ s \in StationRec
    /\ s.lastResp # NoFrame => /\ Affirms(s.lastResp)
                               /\ s.lastResp.kind # "SingleCharAck" => s.lastResp.addr = a
    /\ s.sent # NoFrame => /\ bal /\ Asks(s.sent) /\ s.sent.addr = a
                           /\ s.sent.control.fun \in {RESET_LINK, USER_DATA_CONF}
                           /\ s.sent.kind = "Variable" => s.sent.asdu \in Eventful
    /\ s.active => bal

\* What is out to station a.
SentTo(l, a) == IF l.sent # NoFrame /\ l.sent.addr = a THEN l.sent ELSE NoFrame

\* Whether that was taken by the station, as far as its count shows.
Taken(l, s, a) == /\ l.sent # NoFrame /\ l.sent.addr = a /\ l.sent.control.fcv
                  /\ s.fcbExpected # l.sent.control.fcb

LineInv(A, bal, l, st, dn, u, act) ==
    /\ IsLink(A, l) /\ dn \in Seq(Frame) /\ u \in Seq(Frame)
    /\ \A a \in A : IsStation(bal, a, st[a])
    /\ Exchange(l.sent, dn, u)
    /\ \A a \in A : Exchange(st[a].sent, u, dn)
    /\ \A a \in A : Bits(On(l, a), l.secs[a].fcb, SentTo(l, a), st[a].fcbExpected, HasAnswer(u))
    /\ \A a \in A : Bits(st[a].active, st[a].fcb, st[a].sent, l.fcbExpected, HasAnswer(dn))
    /\ \A a \in A : Taken(l, st[a], a) => Carried(l.sent) \subseteq ToSet(act[a])
    /\ \A i \in 1 .. Len(u) : ~IsPrim(u[i]) => u[i] = st[l.sent.addr].lastResp
    /\ \A i \in 1 .. Len(dn) : ~IsPrim(dn[i]) => Affirms(dn[i])
    /\ bal => \A a, x \in A : a = x

BufferRec == [class1 : Seq(Eventful), class2 : Seq(Eventful), prim : Seq(Eventful)]

IInv ==
    /\ line \in Lines
    /\ LineInv(Station, line.balanced, link, station, down, up, acted)
    /\ queue \in Seq(Item(Station)) /\ (calling # NoCall => calling \in Station)
    /\ buffers \in [Station -> BufferRec] /\ station \in [Station -> StationRec]
    /\ commands \in Nat /\ events \in [Station -> Nat]
    /\ acted \in [Station -> Seq(Command)] /\ received \in [Station -> Seq(Eventful)]
    /\ ConfirmedIsActed

-----------------------------------------------------------------------------
(***************************************************************************)
(* What an answer makes of the primary station.                            *)
(***************************************************************************)

\* The two stations have their own copies of the names of Frame101.
LEMMA PNames ==
    /\ P!NoFrame = NoFrame /\ P!SingleCharAck = SingleCharAck
    /\ P!RESET_LINK = RESET_LINK /\ P!RESET_USER = RESET_USER /\ P!TEST_LINK = TEST_LINK
    /\ P!USER_DATA_CONF = USER_DATA_CONF /\ P!USER_DATA_NO_CONF = USER_DATA_NO_CONF
    /\ P!REQ_ACCESS = REQ_ACCESS /\ P!REQ_STATUS = REQ_STATUS
    /\ P!REQ_DATA1 = REQ_DATA1 /\ P!REQ_DATA2 = REQ_DATA2
    /\ P!CONF_ACK = CONF_ACK /\ P!RESP_DATA = RESP_DATA /\ P!RESP_NO_DATA = RESP_NO_DATA
    /\ P!RESP_STATUS = RESP_STATUS /\ P!RESP_LINK_NF = RESP_LINK_NF
    /\ P!RESP_LINK_NI = RESP_LINK_NI
BY DEF P!NoFrame, NoFrame, P!SingleCharAck, SingleCharAck, P!RESET_LINK, RESET_LINK,
       P!RESET_USER, RESET_USER, P!TEST_LINK, TEST_LINK, P!USER_DATA_CONF, USER_DATA_CONF,
       P!USER_DATA_NO_CONF, USER_DATA_NO_CONF, P!REQ_ACCESS, REQ_ACCESS, P!REQ_STATUS, REQ_STATUS,
       P!REQ_DATA1, REQ_DATA1, P!REQ_DATA2, REQ_DATA2, P!CONF_ACK, CONF_ACK, P!RESP_DATA,
       RESP_DATA, P!RESP_NO_DATA, RESP_NO_DATA, P!RESP_STATUS, RESP_STATUS, P!RESP_LINK_NF,
       RESP_LINK_NF, P!RESP_LINK_NI, RESP_LINK_NI

\* As far as the exchanges go, link l has not changed by becoming m.
LinkSame(A, l, m) ==
    /\ IsLink(A, m) /\ m.sent = l.sent /\ m.fcbExpected = l.fcbExpected
    /\ \A a \in A : m.secs[a].fcb = l.secs[a].fcb /\ (On(m, a) <=> On(l, a))

\* The request of link l is over, and the other stations are as they were.
Over(A, l, m) ==
    /\ IsLink(A, m) /\ l.sent # NoFrame /\ m.sent = NoFrame /\ m.fcbExpected = l.fcbExpected
    /\ \A a \in A : a # l.sent.addr => m.secs[a].fcb = l.secs[a].fcb /\ (On(m, a) <=> On(l, a))

\* The request was confirmed: what that says of its station.
LinkConfirmed(A, l, m) ==
    /\ Over(A, l, m)
    /\ LET a == l.sent.addr
           c == l.sent.control
       IN  /\ c.fcv => m.secs[a].fcb = ~c.fcb
           /\ c.fun = RESET_LINK => m.secs[a].fcb = TRUE
           /\ ~c.fcv /\ c.fun # RESET_LINK => /\ m.secs[a].fcb = l.secs[a].fcb
                                              /\ On(m, a) => On(l, a)

\* The request was refused or given up.
LinkGivenUp(A, l, m) == Over(A, l, m) /\ ~On(m, l.sent.addr)

\* What the confirmation of a request says of the bit and the phase.
LEMMA ConfirmedStationIs ==
    ASSUME NEW sec \in Sec, NEW c \in ControlField, c.fcv <=> c.fun \in Counted,
           NEW x, x = P!ConfirmedStation(sec, c)
    PROVE  /\ x \in Sec
           /\ c.fcv => x.fcb = ~c.fcb
           /\ c.fun = RESET_LINK => x.fcb = TRUE
           /\ ~c.fcv /\ c.fun # RESET_LINK => /\ x.fcb = sec.fcb
                                              /\ x.phase = "Active" => sec.phase = "Active"
<1> DEFINE y == IF c.fcv THEN [sec EXCEPT !.fcb = ~c.fcb] ELSE sec
<1>1. y \in Sec /\ y.phase = sec.phase /\ (c.fcv => y.fcb = ~c.fcb) /\ (~c.fcv => y.fcb = sec.fcb)
  <2>1. c.fcb \in BOOLEAN
    BY DEF ControlField
  <2>2. CASE c.fcv
    BY <2>1, <2>2 DEF Sec
  <2>3. CASE ~c.fcv
    BY <2>3 DEF Sec
  <2> QED
    BY <2>2, <2>3
<1>2. x = CASE c.fun = RESET_LINK -> [y EXCEPT !.phase = "Active", !.fcb = TRUE]
            [] c.fun = REQ_STATUS /\ sec.phase = "Status" -> [y EXCEPT !.phase = "Reset"]
            [] c.fun = REQ_DATA1 -> [y EXCEPT !.wantClass1 = FALSE]
            [] OTHER -> y
  BY PNames DEF P!ConfirmedStation
<1>3. RESET_LINK # REQ_STATUS /\ RESET_LINK # REQ_DATA1 /\ REQ_STATUS # REQ_DATA1
      /\ RESET_LINK \notin Counted /\ REQ_STATUS \notin Counted
  BY DEF RESET_LINK, REQ_STATUS, REQ_DATA1, Counted, TEST_LINK, USER_DATA_CONF, REQ_DATA2
<1> HIDE DEF y
<1>4. CASE c.fun = RESET_LINK
  <2>1. x = [y EXCEPT !.phase = "Active", !.fcb = TRUE] /\ ~c.fcv
    BY <1>2, <1>3, <1>4
  <2> QED
    BY <1>1, <1>4, <2>1 DEF Sec
<1>5. CASE c.fun = REQ_STATUS /\ sec.phase = "Status"
  <2>1. x = [y EXCEPT !.phase = "Reset"] /\ ~c.fcv /\ c.fun # RESET_LINK
    BY <1>2, <1>3, <1>5
  <2> QED
    BY <1>1, <2>1 DEF Sec
<1>6. CASE c.fun = REQ_DATA1
  <2>1. x = [y EXCEPT !.wantClass1 = FALSE] /\ c.fun # RESET_LINK
    BY <1>2, <1>3, <1>6
  <2> QED
    BY <1>1, <2>1 DEF Sec
<1>7. CASE c.fun # RESET_LINK /\ ~(c.fun = REQ_STATUS /\ sec.phase = "Status") /\ c.fun # REQ_DATA1
  <2>1. x = y
    BY <1>2, <1>7
  <2> QED
    BY <1>1, <1>7, <2>1
<1> QED
  BY <1>4, <1>5, <1>6, <1>7

\* confirm_positive
LEMMA ConfirmPositiveIs ==
    ASSUME NEW A \in SUBSET Nat, NEW l, IsLink(A, l), NEW from, NEW o, o = P!ConfirmPositive(l, from)
    PROVE  /\ o.out = <<>> /\ o.deliver = FALSE
           /\ \/ o.link = l /\ o.done = NoFrame
              \/ /\ LinkConfirmed(A, l, o.link) /\ o.done = l.sent /\ l.sent.addr \in from
<1>1. CASE l.sent = NoFrame \/ l.sent.addr \notin from
  <2>1. o = [link |-> l, out |-> <<>>, done |-> NoFrame, deliver |-> FALSE]
    BY <1>1, PNames DEF P!ConfirmPositive, P!Idle, P!Unmoved, P!Outcome
  <2> QED
    BY <2>1
<1>2. CASE l.sent # NoFrame /\ l.sent.addr \in from
  <2> DEFINE a == l.sent.addr
             x == P!ConfirmedStation(l.secs[a], l.sent.control)
             r == [l EXCEPT !.sent = NoFrame, !.retry = 0]
             m == [r EXCEPT !.secs[a] = x]
  <2>1. o = [link |-> m, out |-> <<>>, done |-> l.sent, deliver |-> FALSE]
    <3>1. r.secs = l.secs
      BY DEF IsLink, LinkRec
    <3>2. a \in DOMAIN l.secs
      BY <1>2 DEF IsLink, LinkRec
    <3> QED
      BY <1>2, <3>1, <3>2, PNames DEF P!ConfirmPositive, P!Idle, P!Unmoved, P!Outcome, P!Released
  <2>2. a \in A /\ Asks(l.sent) /\ l.sent \in Frame
    BY <1>2 DEF IsLink, Asks
  <2>3. l.sent.control \in ControlField /\ (l.sent.control.fcv <=> l.sent.control.fun \in Counted)
    BY <2>2, Kinds DEF Asks, IsPrim
  <2>4. l.secs[a] \in Sec
    BY <2>2 DEF IsLink, LinkRec
  <2> DEFINE c == l.sent.control
             sec == l.secs[a]
  <2>5. /\ x \in Sec
        /\ c.fcv => x.fcb = ~c.fcb
        /\ c.fun = RESET_LINK => x.fcb = TRUE
        /\ ~c.fcv /\ c.fun # RESET_LINK => /\ x.fcb = sec.fcb
                                           /\ x.phase = "Active" => sec.phase = "Active"
    <3>1. c \in ControlField /\ (c.fcv <=> c.fun \in Counted) /\ sec \in Sec
      BY <2>3, <2>4
    <3> HIDE DEF c, sec
    <3>2. x = P!ConfirmedStation(sec, c)
      BY DEF c, sec
    <3> HIDE DEF x
    <3> QED
      BY <3>1, <3>2, ConfirmedStationIs
  <2> HIDE DEF x
  <2>6. /\ m \in LinkRec(A) /\ m.sent = NoFrame /\ m.fcbExpected = l.fcbExpected
        /\ m.order = l.order /\ m.idx = l.idx /\ m.secs[a] = x
        /\ \A b \in A : b # a => m.secs[b] = l.secs[b]
    BY <2>2, <2>5 DEF IsLink, LinkRec
  <2>7. o.link = m /\ o.out = <<>> /\ o.done = l.sent /\ o.deliver = FALSE
    BY <2>1
  <2> HIDE DEF m
  <2>8. IsLink(A, m)
    BY <2>6 DEF IsLink
  <2>9. Over(A, l, m)
    BY <1>2, <2>6, <2>8 DEF Over, On
  <2>10. LinkConfirmed(A, l, m)
    BY <2>5, <2>6, <2>9 DEF LinkConfirmed, On
  <2> QED
    BY <1>2, <2>7, <2>10
<1> QED
  BY <1>1, <1>2

\* A station that is given up.
LEMMA GivenUpIs ==
    ASSUME NEW A \in SUBSET Nat, NEW l, IsLink(A, l), l.sent # NoFrame,
           NEW m, m = [P!Released(l) EXCEPT !.secs[l.sent.addr] = P!GivenUp(@)]
    PROVE  LinkGivenUp(A, l, m)
<1> DEFINE a == l.sent.addr
           r == [l EXCEPT !.sent = NoFrame, !.retry = 0]
           x == [l.secs[a] EXCEPT !.phase = "Status", !.wantClass1 = FALSE, !.busy = FALSE]
<1>1. a \in A /\ l.secs[a] \in Sec
  BY DEF IsLink, LinkRec
<1>2. x \in Sec /\ x.phase = "Status"
  BY <1>1 DEF Sec
<1>3. m = [r EXCEPT !.secs[a] = x]
  <2>1. r.secs = l.secs /\ a \in DOMAIN l.secs
    BY <1>1 DEF IsLink, LinkRec
  <2> QED
    BY <2>1, PNames DEF P!Released, P!GivenUp
<1> HIDE DEF x
<1>4. /\ m \in LinkRec(A) /\ m.sent = NoFrame /\ m.fcbExpected = l.fcbExpected
      /\ m.order = l.order /\ m.idx = l.idx /\ m.secs[a] = x
      /\ \A b \in A : b # a => m.secs[b] = l.secs[b]
  <2> DEFINE n == [r EXCEPT !.secs[a] = x]
  <2>1. /\ n \in LinkRec(A) /\ n.sent = NoFrame /\ n.fcbExpected = l.fcbExpected
        /\ n.order = l.order /\ n.idx = l.idx /\ n.secs[a] = x
        /\ \A b \in A : b # a => n.secs[b] = l.secs[b]
    BY <1>1, <1>2 DEF IsLink, LinkRec
  <2>2. n = m
    BY <1>3
  <2> HIDE DEF n
  <2> QED
    BY <2>1, <2>2
<1>5. IsLink(A, m)
  BY <1>4 DEF IsLink
<1>6. Over(A, l, m)
  BY <1>4, <1>5 DEF Over, On
<1> QED
  BY <1>2, <1>4, <1>6 DEF LinkGivenUp, On

\* What an answer f makes of link l, and the request it confirms.
Replied(A, l, f, m, done) ==
    \/ LinkSame(A, l, m) /\ done = NoFrame
    \/ /\ LinkConfirmed(A, l, m) /\ done = l.sent
       /\ f.kind # "SingleCharAck" => f.addr = l.sent.addr
    \/ LinkGivenUp(A, l, m) /\ done = NoFrame /\ ~Affirms(f)

\* User data that answers a request for it is delivered.
Delivers(f, done) == /\ f.kind = "Variable" /\ f.control.fun = RESP_DATA
                     /\ done # NoFrame /\ done.control.fun \in {REQ_DATA1, REQ_DATA2}

\* confirm_positive and fail_transaction, as the function code of the answer selects.
LEMMA AnsweredIs ==
    ASSUME NEW A \in SUBSET Nat, NEW l, IsLink(A, l), NEW f \in Frame, f.kind # "SingleCharAck",
           ~IsPrim(f), NEW o, o = P!Answered(l, f)
    PROVE  /\ o.out = <<>> /\ Replied(A, l, f, o.link, o.done)
           /\ o.deliver <=> Delivers(f, o.done)
<1> DEFINE k == P!ConfirmPositive(l, {f.addr})
<1>0. LinkSame(A, l, l)
  BY DEF LinkSame
<1>1. CASE P!Confirms(f)
  <2>1. o = [k EXCEPT !.deliver = P!AnswersPoll(f, k)]
    BY <1>1 DEF P!Answered
  <2>2. /\ k.out = <<>>
        /\ \/ k.link = l /\ k.done = NoFrame
           \/ LinkConfirmed(A, l, k.link) /\ k.done = l.sent /\ l.sent.addr \in {f.addr}
    BY ConfirmPositiveIs
  <2>3. k = [link |-> k.link, out |-> k.out, done |-> k.done, deliver |-> k.deliver]
    BY DEF P!ConfirmPositive, P!Unmoved, P!Outcome
  <2> HIDE DEF k
  <2>4. /\ o.link = k.link /\ o.out = k.out /\ o.done = k.done
        /\ o.deliver = P!AnswersPoll(f, k)
    BY <2>1, <2>3
  <2>5. Replied(A, l, f, o.link, o.done)
    BY <1>0, <2>2, <2>4 DEF Replied
  <2>6. P!AnswersPoll(f, k) <=> Delivers(f, k.done)
    BY PNames DEF P!AnswersPoll, Delivers
  <2> QED
    BY <2>2, <2>4, <2>5, <2>6
<1>2. CASE ~P!Confirms(f)
  <2>1. /\ ~Delivers(f, o.done) /\ (P!Refuses(f) => ~Affirms(f))
    <3>1. f.kind = "Fixed" \/ f.kind = "Variable"
      BY Kinds
    <3>2. f.kind = "Variable" => f.control.fun # RESP_DATA
      BY <1>2, PNames DEF P!Confirms
    <3>3. P!Refuses(f) => ~Affirms(f)
      BY PNames DEF P!Refuses, Affirms, CONF_ACK, RESP_STATUS, RESP_DATA, RESP_NO_DATA,
         RESP_LINK_NF, RESP_LINK_NI
    <3> QED
      BY <3>2, <3>3 DEF Delivers
  <2>2. CASE P!Refuses(f) /\ l.sent # NoFrame /\ l.sent.addr = f.addr
    <3> DEFINE m == [P!Released(l) EXCEPT !.secs[l.sent.addr] = P!GivenUp(@)]
    <3>1. o = [link |-> m, out |-> <<>>, done |-> NoFrame, deliver |-> FALSE]
      <4>1. o = P!FailTransaction(l, f.addr)
        BY <1>2, <2>2 DEF P!Answered
      <4>2. o = P!Unmoved([P!Released(l) EXCEPT !.secs[f.addr] = P!GivenUp(@)])
        BY <2>2, <4>1, PNames DEF P!FailTransaction, P!Idle
      <4> QED
        BY <2>2, <4>2, PNames DEF P!Unmoved, P!Outcome
    <3>2. LinkGivenUp(A, l, m)
      BY <2>2, GivenUpIs
    <3> HIDE DEF m
    <3>3. o.link = m /\ o.out = <<>> /\ o.done = NoFrame /\ o.deliver = FALSE
      BY <3>1
    <3> QED
      BY <2>1, <2>2, <3>2, <3>3 DEF Replied
  <2>3. CASE ~(P!Refuses(f) /\ l.sent # NoFrame /\ l.sent.addr = f.addr)
    <3>1. o = [link |-> l, out |-> <<>>, done |-> NoFrame, deliver |-> FALSE]
      BY <1>2, <2>3, PNames DEF P!Answered, P!FailTransaction, P!Idle, P!Unmoved, P!Outcome
    <3>2. o.link = l /\ o.out = <<>> /\ o.done = NoFrame /\ o.deliver = FALSE
      BY <3>1
    <3> QED
      BY <1>0, <2>1, <3>2 DEF Replied
  <2> QED
    BY <2>2, <2>3
<1> QED
  BY <1>1, <1>2

\* Link m has become n: nothing was sent, or m was idle and the frame of n was.
MovesOn(A, m, n, out) ==
    \/ LinkSame(A, m, n) /\ out = <<>>
    \/ m.sent = NoFrame /\ Launch(A, m, n, n.sent, {}) /\ out = <<n.sent>>

\* A field of a station that says nothing of the bit and the phase.
LEMMA SecSame ==
    ASSUME NEW A \in SUBSET Nat, NEW l, IsLink(A, l), NEW a \in A, NEW x \in Sec,
           x.fcb = l.secs[a].fcb, x.phase = l.secs[a].phase,
           NEW m, m = [l EXCEPT !.secs[a] = x]
    PROVE  LinkSame(A, l, m) /\ m.secs[a] = x /\ \A b \in A : b # a => m.secs[b] = l.secs[b]
<1>1. /\ m \in LinkRec(A) /\ m.sent = l.sent /\ m.fcbExpected = l.fcbExpected
      /\ m.order = l.order /\ m.idx = l.idx /\ m.secs[a] = x
      /\ \A b \in A : b # a => m.secs[b] = l.secs[b]
  BY DEF IsLink, LinkRec
<1>2. IsLink(A, m)
  BY <1>1 DEF IsLink
<1> QED
  BY <1>1, <1>2 DEF LinkSame, On

\* The access demand of an answer.
LEMMA AccessDemandIs ==
    ASSUME NEW A \in SUBSET Nat, NEW o, IsLink(A, o.link), o.out = <<>>,
           NEW f, f.addr \in A, NEW bal, NEW r, r = P!AccessDemand(o, f, bal),
           o = [link |-> o.link, out |-> o.out, done |-> o.done, deliver |-> o.deliver]
    PROVE  r.done = o.done /\ r.deliver = o.deliver /\ MovesOn(A, o.link, r.link, r.out)
<1> DEFINE a == f.addr
           x == [o.link.secs[a] EXCEPT !.wantClass1 = TRUE]
           l == [o.link EXCEPT !.secs[a] = x]
           k == o.link
<1>1. a \in A /\ k.secs[a] \in Sec
  BY DEF IsLink, LinkRec
<1>2. x \in Sec /\ x.fcb = k.secs[a].fcb /\ x.phase = k.secs[a].phase
  BY <1>1 DEF Sec
<1>3. l = [o.link EXCEPT !.secs[f.addr].wantClass1 = TRUE]
  OBVIOUS
<1>4. r = IF ~f.control.acd \/ bal THEN o
          ELSE IF P!IsActive(l, a) /\ P!Idle(l)
            THEN [P!SendPrim(l, a, REQ_DATA1, TRUE) EXCEPT !.done = o.done, !.deliver = o.deliver]
            ELSE [o EXCEPT !.link = l]
  BY <1>3, PNames DEF P!AccessDemand
<1>5. LinkSame(A, k, l)
  <2> HIDE DEF x
  <2>1. l = [k EXCEPT !.secs[a] = x]
    OBVIOUS
  <2> HIDE DEF l, k, a
  <2> QED
    <3>1. IsLink(A, k)
      BY DEF k
    <3> QED
      BY <1>1, <1>2, <2>1, <3>1, SecSame
<1> HIDE DEF l, x
<1>6. CASE ~f.control.acd \/ bal
  <2>1. r = o
    BY <1>4, <1>6
  <2>2. LinkSame(A, k, k)
    BY DEF LinkSame
  <2> QED
    BY <2>1, <2>2 DEF MovesOn
<1>7. CASE ~(~f.control.acd \/ bal) /\ P!IsActive(l, a) /\ P!Idle(l)
  <2> DEFINE p == P!SendPrim(l, a, REQ_DATA1, TRUE)
  <2>1. r = [p EXCEPT !.done = o.done, !.deliver = o.deliver]
    BY <1>4, <1>7
  <2>2. p = [link |-> p.link, out |-> p.out, done |-> p.done, deliver |-> p.deliver]
    BY DEF P!SendPrim, P!SendConfirmed, P!Outcome
  <2>3. Sends(A, l, p, a, REQ_DATA1)
    <3>1. REQ_DATA1 \in CountedServices /\ On(l, a) /\ IsLink(A, l)
      BY <1>5, <1>7 DEF CountedServices, P!IsActive, On, LinkSame
    <3> HIDE DEF p, a
    <3>2. p = P!SendPrim(l, a, REQ_DATA1, TRUE)
      BY DEF p
    <3> QED
      BY <1>1, <3>1, <3>2, SendCounted
  <2> HIDE DEF p
  <2>4. r.link = p.link /\ r.out = p.out /\ r.done = o.done /\ r.deliver = o.deliver
    BY <2>1, <2>2
  <2>5. Launch(A, k, r.link, r.link.sent, {}) /\ r.out = <<r.link.sent>> /\ k.sent = NoFrame
    BY <1>5, <1>7, <2>3, <2>4, PNames DEF Sends, Launch, LinkSame, P!Idle
  <2> QED
    BY <2>4, <2>5 DEF MovesOn
<1>8. CASE ~(~f.control.acd \/ bal) /\ ~(P!IsActive(l, a) /\ P!Idle(l))
  <2>1. r = [o EXCEPT !.link = l]
    BY <1>4, <1>8
  <2>2. r.link = l /\ r.out = o.out /\ r.done = o.done /\ r.deliver = o.deliver
    BY <2>1
  <2> QED
    BY <1>5, <2>2 DEF MovesOn
<1> QED
  BY <1>6, <1>7, <1>8

\* It is all the same whether a link is answered that has not changed.
LEMMA RepliedSame ==
    ASSUME NEW A, NEW l, IsLink(A, l), NEW k, LinkSame(A, l, k), NEW f, NEW m, NEW done,
           Replied(A, k, f, m, done)
    PROVE  Replied(A, l, f, m, done)
<1>1. k.sent = l.sent /\ k.fcbExpected = l.fcbExpected
  BY DEF LinkSame
<1>2. \A a \in A : k.secs[a].fcb = l.secs[a].fcb /\ (On(k, a) <=> On(l, a))
  BY DEF LinkSame
<1>3. Over(A, k, m) => Over(A, l, m)
  BY <1>1, <1>2 DEF Over
<1>4. l.sent # NoFrame => l.sent.addr \in A
  BY DEF IsLink
<1>5. CASE LinkSame(A, k, m) /\ done = NoFrame
  <2>1. LinkSame(A, l, m)
    BY <1>1, <1>2, <1>5 DEF LinkSame
  <2> QED
    BY <1>5, <2>1 DEF Replied
<1>6. CASE /\ LinkConfirmed(A, k, m) /\ done = k.sent
           /\ f.kind # "SingleCharAck" => f.addr = k.sent.addr
  <2>1. Over(A, k, m) /\ l.sent.addr \in A
    BY <1>1, <1>4, <1>6 DEF LinkConfirmed, Over
  <2>2. LinkConfirmed(A, l, m)
    BY <1>1, <1>2, <1>3, <1>6, <2>1 DEF LinkConfirmed
  <2> QED
    BY <1>1, <1>6, <2>2 DEF Replied
<1>7. CASE LinkGivenUp(A, k, m) /\ done = NoFrame /\ ~Affirms(f)
  <2>1. LinkGivenUp(A, l, m)
    BY <1>1, <1>3, <1>7 DEF LinkGivenUp
  <2> QED
    BY <1>7, <2>1 DEF Replied
<1> QED
  BY <1>5, <1>6, <1>7 DEF Replied

\* handle_frame with an answer.
LEMMA HandleAnswer ==
    ASSUME NEW A \in SUBSET Nat, NEW l, IsLink(A, l), NEW f \in Frame, ~IsPrim(f),
           NEW bal, NEW o, o = P!HandleFrame(l, f, bal)
    PROVE  /\ \E m : Replied(A, l, f, m, o.done) /\ MovesOn(A, m, o.link, o.out)
           /\ o.deliver <=> Delivers(f, o.done)
<1>0. LinkSame(A, l, l) /\ DOMAIN l.secs = A
  BY DEF LinkSame, IsLink, LinkRec
<1>1. CASE f.kind = "SingleCharAck"
  <2>1. o = P!ConfirmPositive(l, A)
    BY <1>0, <1>1 DEF P!HandleFrame
  <2>2. /\ o.out = <<>> /\ o.deliver = FALSE
        /\ \/ o.link = l /\ o.done = NoFrame
           \/ LinkConfirmed(A, l, o.link) /\ o.done = l.sent /\ l.sent.addr \in A
    BY <2>1, ConfirmPositiveIs
  <2>3. Replied(A, l, f, o.link, o.done) /\ ~Delivers(f, o.done)
    BY <1>0, <1>1, <2>2 DEF Replied, Delivers
  <2>4. IsLink(A, o.link)
    BY <2>2 DEF LinkConfirmed, Over
  <2>5. MovesOn(A, o.link, o.link, o.out)
    BY <2>2, <2>4 DEF MovesOn, LinkSame
  <2> QED
    BY <2>2, <2>3, <2>5
<1>2. CASE f.kind # "SingleCharAck" /\ f.addr \notin A
  <2>1. o = [link |-> l, out |-> <<>>, done |-> NoFrame, deliver |-> FALSE]
    BY <1>0, <1>2, PNames DEF P!HandleFrame, P!Unmoved, P!Outcome
  <2>2. o.link = l /\ o.out = <<>> /\ o.done = NoFrame /\ o.deliver = FALSE
    BY <2>1
  <2>3. Replied(A, l, f, l, o.done) /\ MovesOn(A, l, o.link, o.out) /\ ~Delivers(f, o.done)
    BY <1>0, <2>2 DEF Replied, MovesOn, Delivers
  <2> QED
    BY <2>2, <2>3
<1>3. CASE f.kind # "SingleCharAck" /\ f.addr \in A
  <2> DEFINE a == f.addr
             x == [l.secs[a] EXCEPT !.busy = f.control.dfc]
             k == [l EXCEPT !.secs[a] = x]
             p == P!Answered(k, f)
  <2>1. a \in A /\ l.secs[a] \in Sec /\ f.control \in ControlField /\ f.control.dfc \in BOOLEAN
    BY <1>3, Kinds DEF IsLink, LinkRec, ControlField
  <2>2. x \in Sec /\ x.fcb = l.secs[a].fcb /\ x.phase = l.secs[a].phase
    BY <2>1 DEF Sec
  <2>3. o = P!AccessDemand(p, f, bal)
    <3>1. k = [l EXCEPT !.secs[f.addr].busy = f.control.dfc]
      OBVIOUS
    <3>2. ~f.control.prm /\ f.kind # "SingleCharAck" /\ f.addr \in DOMAIN l.secs
      BY <1>0, <1>3 DEF IsPrim
    <3> HIDE DEF k
    <3> QED
      BY <3>1, <3>2 DEF P!HandleFrame
  <2> HIDE DEF x
  <2>4. LinkSame(A, l, k)
    <3>1. k = [l EXCEPT !.secs[a] = x]
      OBVIOUS
    <3> HIDE DEF k, a
    <3> QED
      BY <2>1, <2>2, <3>1, SecSame
  <2> HIDE DEF k
  <2>5. /\ p.out = <<>> /\ Replied(A, k, f, p.link, p.done)
        /\ p.deliver <=> Delivers(f, p.done)
    <3>1. IsLink(A, k)
      BY <2>4 DEF LinkSame
    <3> QED
      BY <1>3, <3>1, AnsweredIs
  <2>6. Replied(A, l, f, p.link, p.done)
    <3> HIDE DEF p
    <3> QED
      BY <2>4, <2>5, RepliedSame
  <2>7. p = [link |-> p.link, out |-> p.out, done |-> p.done, deliver |-> p.deliver]
    BY DEF P!Answered, P!ConfirmPositive, P!FailTransaction, P!Unmoved, P!Outcome
  <2>8. IsLink(A, p.link)
    BY <2>6 DEF Replied, LinkSame, LinkConfirmed, LinkGivenUp, Over
  <2> HIDE DEF p
  <2>9. o.done = p.done /\ o.deliver = p.deliver /\ MovesOn(A, p.link, o.link, o.out)
    BY <1>3, <2>3, <2>5, <2>7, <2>8, AccessDemandIs
  <2>10. Replied(A, l, f, p.link, o.done) /\ (o.deliver <=> Delivers(f, o.done))
    BY <2>5, <2>6, <2>9
  <2> QED
    BY <2>9, <2>10
<1> QED
  BY <1>1, <1>2, <1>3

-----------------------------------------------------------------------------
(***************************************************************************)
(* What else makes the primary station move.                               *)
(***************************************************************************)

\* on_t1_timeout
LEMMA T1TimeoutIs ==
    ASSUME NEW A \in SUBSET Nat, NEW l, IsLink(A, l), l.sent # NoFrame,
           NEW o, o = P!T1Timeout(l)
    PROVE  \/ P!Exhausted(l) /\ LinkGivenUp(A, l, o.link) /\ o.out = <<>>
           \/ ~P!Exhausted(l) /\ LinkSame(A, l, o.link) /\ o.out = <<l.sent>>
<1>1. CASE P!Exhausted(l)
  <2> DEFINE m == [P!Released(l) EXCEPT !.secs[l.sent.addr] = P!GivenUp(@)]
  <2>1. o = [link |-> m, out |-> <<>>, done |-> P!NoFrame, deliver |-> FALSE]
    BY <1>1 DEF P!T1Timeout, P!Unmoved, P!Outcome
  <2>2. LinkGivenUp(A, l, m)
    BY GivenUpIs
  <2> HIDE DEF m
  <2>3. o.link = m /\ o.out = <<>>
    BY <2>1
  <2> QED
    BY <1>1, <2>2, <2>3
<1>2. CASE ~P!Exhausted(l)
  <2> DEFINE m == [l EXCEPT !.retry = l.retry + 1]
  <2>1. o = [link |-> m, out |-> <<l.sent>>, done |-> P!NoFrame, deliver |-> FALSE]
    BY <1>2 DEF P!T1Timeout, P!Outcome
  <2>2. l.retry + 1 \in Nat
    BY DEF IsLink, LinkRec
  <2>3. /\ m \in LinkRec(A) /\ m.sent = l.sent /\ m.fcbExpected = l.fcbExpected
        /\ m.order = l.order /\ m.idx = l.idx /\ m.secs = l.secs
    BY <2>2 DEF IsLink, LinkRec
  <2> HIDE DEF m
  <2>4. LinkSame(A, l, m)
    BY <2>3 DEF LinkSame, IsLink, On
  <2>5. o.link = m /\ o.out = <<l.sent>>
    BY <2>1
  <2> QED
    BY <1>2, <2>4, <2>5
<1> QED
  BY <1>1, <1>2

\* A frame that is sent moves an idle link on.
LEMMA SendsMovesOn ==
    ASSUME NEW A, NEW l, l.sent = NoFrame, NEW o, NEW a, NEW fun, Sends(A, l, o, a, fun)
    PROVE  MovesOn(A, l, o.link, o.out)
BY DEF Sends, MovesOn

\* on_t3_timeout
LEMMA T3TimeoutIs ==
    ASSUME NEW A \in SUBSET Nat, NEW l, IsLink(A, l), NEW o, o = P!T3Timeout(l)
    PROVE  MovesOn(A, l, o.link, o.out)
<1> DEFINE T == {i \in DOMAIN l.order : P!IsActive(l, l.order[i])}
           a == l.order[P!Min(T)]
<1>0. LinkSame(A, l, l) /\ l.order \in Seq(A)
  BY DEF LinkSame, IsLink, LinkRec
<1>1. CASE l.sent # NoFrame \/ T = {}
  <2>1. o = [link |-> l, out |-> <<>>, done |-> NoFrame, deliver |-> FALSE]
    BY <1>1, PNames DEF P!T3Timeout, P!Idle, P!Unmoved, P!Outcome
  <2>2. o.link = l /\ o.out = <<>>
    BY <2>1
  <2> QED
    BY <1>0, <2>2 DEF MovesOn
<1>2. CASE l.sent = NoFrame /\ T # {}
  <2>1. o = P!SendPrim(l, a, TEST_LINK, TRUE)
    BY <1>2, PNames DEF P!T3Timeout, P!Idle
  <2>2. T \subseteq Nat
    BY <1>0
  <2>3. P!Min(T) \in T
    <3> HIDE DEF T
    <3> QED
      BY <1>2, <2>2, PMinOf
  <2>4. a \in A /\ On(l, a)
    <3> DEFINE i == P!Min(T)
    <3>1. i \in DOMAIN l.order /\ P!IsActive(l, l.order[i])
      BY <2>3
    <3> HIDE DEF i
    <3>2. l.order[i] \in A /\ On(l, l.order[i])
      BY <1>0, <3>1 DEF P!IsActive, On
    <3> QED
      BY <3>2 DEF i
  <2> HIDE DEF a
  <2>5. Sends(A, l, o, a, TEST_LINK)
    BY <2>1, <2>4, SendCounted DEF CountedServices
  <2> QED
    BY <1>2, <2>5, SendsMovesOn
<1> QED
  BY <1>1, <1>2

\* handle_link_request
LEMMA LinkRequestIs ==
    ASSUME NEW A \in SUBSET Nat, NEW l, IsLink(A, l), NEW fun, NEW bal,
           NEW o, o = P!LinkRequest(l, fun, bal)
    PROVE  MovesOn(A, l, o.link, o.out)
<1> DEFINE a == Head(l.order)
<1>0. LinkSame(A, l, l) /\ a \in A /\ l.secs[a] \in Sec
  <2>1. LinkSame(A, l, l)
    BY DEF LinkSame
  <2>2. l.order \in Seq(A) /\ l.order # <<>> /\ l.secs \in [A -> Sec]
    BY DEF IsLink, LinkRec
  <2>3. a \in A
    BY <2>2, HeadTail
  <2> QED
    BY <2>1, <2>2, <2>3
<1>1. RESET_LINK # REQ_STATUS /\ RESET_LINK # REQ_DATA2 /\ REQ_STATUS # REQ_DATA2
      /\ RESET_LINK \in PlainServices /\ REQ_STATUS \in PlainServices /\ REQ_DATA2 \in CountedServices
  BY DEF RESET_LINK, REQ_STATUS, REQ_DATA2, PlainServices, CountedServices
<1>2. CASE l.sent = NoFrame /\ fun = RESET_LINK
  <2> DEFINE x == [l.secs[a] EXCEPT !.phase = "Reset"]
             k == [l EXCEPT !.secs[a] = x]
  <2>1. o = P!SendPrim(k, a, RESET_LINK, FALSE)
    <3>1. k = [l EXCEPT !.secs[a].phase = "Reset"]
      OBVIOUS
    <3> HIDE DEF k
    <3> QED
      BY <1>1, <1>2, <3>1, PNames DEF P!LinkRequest, P!Idle
  <2>2. x \in Sec /\ x.fcb = l.secs[a].fcb /\ x.phase = "Reset"
    BY <1>0 DEF Sec
  <2> HIDE DEF x
  <2>3. /\ k \in LinkRec(A) /\ k.sent = l.sent /\ k.fcbExpected = l.fcbExpected
        /\ k.order = l.order /\ k.idx = l.idx /\ k.secs[a] = x
        /\ \A b \in A : b # a => k.secs[b] = l.secs[b]
    BY <1>0, <2>2 DEF IsLink, LinkRec
  <2> HIDE DEF k, a
  <2>4. IsLink(A, k) /\ ~On(k, a)
    BY <2>2, <2>3 DEF IsLink, On
  <2>5. Sends(A, k, o, a, RESET_LINK)
    BY <1>0, <1>1, <2>1, <2>4, SendPlain
  <2>6. \A y \in A : /\ k.secs[y].fcb = l.secs[y].fcb /\ (On(k, y) => On(l, y))
                     /\ y # a => (On(k, y) <=> On(l, y))
    BY <2>2, <2>3, <2>4 DEF On
  <2>7. Sends(A, l, o, a, RESET_LINK)
    BY <2>3, <2>5, <2>6, SendsFrom
  <2> QED
    BY <1>2, <2>7, SendsMovesOn
<1>3. CASE l.sent = NoFrame /\ fun = REQ_STATUS
  <2>1. o = P!SendPrim(l, a, REQ_STATUS, FALSE)
    BY <1>1, <1>3, PNames DEF P!LinkRequest, P!Idle
  <2> HIDE DEF a
  <2>2. Sends(A, l, o, a, REQ_STATUS)
    BY <1>0, <1>1, <2>1, SendPlain
  <2> QED
    BY <1>3, <2>2, SendsMovesOn
<1>4. CASE l.sent = NoFrame /\ fun = REQ_DATA2 /\ P!IsActive(l, a) /\ ~bal
  <2>1. o = P!SendPrim(l, a, REQ_DATA2, TRUE)
    BY <1>1, <1>4, PNames DEF P!LinkRequest, P!Idle
  <2>2. On(l, a)
    BY <1>4 DEF P!IsActive, On
  <2> HIDE DEF a
  <2>3. Sends(A, l, o, a, REQ_DATA2)
    BY <1>0, <1>1, <2>1, <2>2, SendCounted
  <2> QED
    BY <1>4, <2>3, SendsMovesOn
<1>5. CASE /\ ~(l.sent = NoFrame /\ fun = RESET_LINK)
           /\ ~(l.sent = NoFrame /\ fun = REQ_STATUS)
           /\ ~(l.sent = NoFrame /\ fun = REQ_DATA2 /\ P!IsActive(l, a) /\ ~bal)
  <2>1. o = P!Unmoved(l)
    BY <1>5, PNames DEF P!LinkRequest, P!Idle
  <2>2. o.link = l /\ o.out = <<>>
    BY <2>1 DEF P!Unmoved, P!Outcome
  <2> QED
    BY <1>0, <2>2 DEF MovesOn
<1> QED
  BY <1>2, <1>3, <1>4, <1>5

\* Link l with queue q has moved on to those of o and q2, or has sent the first
\* command of some station's.
Ticks(A, l, q, o, q2) ==
    \/ q2 = q /\ MovesOn(A, l, o.link, o.out)
    \/ \E i \in 1 .. Len(q) :
         /\ Launch(A, l, o.link, o.link.sent, {q[i].asdu}) /\ o.out = <<o.link.sent>>
         /\ o.link.sent.addr = q[i].addr /\ o.link.sent.kind = "Variable"
         /\ \A j \in 1 .. (i - 1) : q[j].addr # q[i].addr
         /\ q2 = SubSeq(q, 1, i - 1) \o SubSeq(q, i + 1, Len(q))

\* tick on an idle link: a queued command, or the poll.
LEMMA TickIs ==
    ASSUME NEW A \in SUBSET Nat, NEW l, IsLink(A, l), l.sent = NoFrame, NEW q \in Seq(Item(A)),
           NEW bal, bal \in BOOLEAN, NEW o, o = P!Tick(l, q, bal)
    PROVE  Ticks(A, l, q, o, P!QueueAfter(l, q))
<1>0. LinkSame(A, l, l) /\ DOMAIN l.secs = A
  BY DEF LinkSame, IsLink, LinkRec
<1>1. CASE P!Sendable(l, q) = {}
  <2>1. o = P!Poll(l, bal)
    BY <1>1, PNames DEF P!Tick, P!Idle
  <2>2. \A i \in DOMAIN q : q[i].addr \in DOMAIN l.secs
    <3>1. \A i \in DOMAIN q : q[i] \in Item(A)
      OBVIOUS
    <3> QED
      BY <1>0, <3>1 DEF Item
  <2>3. P!QueueAfter(l, q) = q
    BY <1>1, <2>2, AllKnown DEF P!QueueAfter
  <2>4. \/ o.link = l /\ o.out = <<>>
        \/ \E a \in A : \E f : Sends(A, l, o, a, f)
    BY <2>1, PollLaunches
  <2>5. MovesOn(A, l, o.link, o.out)
    BY <1>0, <2>4, SendsMovesOn DEF MovesOn
  <2> QED
    BY <2>3, <2>5 DEF Ticks
<1>2. CASE P!Sendable(l, q) # {}
  <2>1. o = P!SendQueued(l, q)
    BY <1>2, PNames DEF P!Tick, P!Idle
  <2> DEFINE i == P!Min(P!Sendable(l, q))
  <2>2. /\ i \in 1 .. Len(q) /\ \A j \in 1 .. (i - 1) : q[j].addr # q[i].addr
        /\ P!QueueAfter(l, q) = SubSeq(q, 1, i - 1) \o SubSeq(q, i + 1, Len(q))
    BY <1>2, FirstSendable
  <2>3. /\ Launch(A, l, o.link, o.link.sent, {q[i].asdu}) /\ o.out = <<o.link.sent>>
        /\ o.link.sent.addr = q[i].addr /\ o.link.sent.kind = "Variable"
    BY <1>2, <2>1, SendQueuedLaunches
  <2> HIDE DEF i
  <2> QED
    BY <2>2, <2>3 DEF Ticks
<1> QED
  BY <1>1, <1>2

\* A request of the peer's primary role, which waits for an answer.
PeerAsks(f) ==
    /\ Asks(f) /\ f.control.fun \in {RESET_LINK, USER_DATA_CONF}
    /\ f.kind = "Variable" => f.asdu \in Eventful

\* What a request f makes of a bit that is expected: it is new where it does not
\* count or has that bit, and is answered in any case.
NextBit(f, exp, exp2) ==
    /\ f.control.fcv => exp2 # f.control.fcb
    /\ f.control.fun = RESET_LINK => exp2 = TRUE
    /\ ~f.control.fcv /\ f.control.fun # RESET_LINK => exp2 = exp

\* Link l has answered request f of its peer with g, and become m.
PeerAnswered(A, l, f, m, g) ==
    /\ IsLink(A, m) /\ m.sent = l.sent
    /\ \A a \in A : m.secs[a].fcb = l.secs[a].fcb /\ (On(m, a) <=> On(l, a))
    /\ NextBit(f, l.fcbExpected, m.fcbExpected)
    /\ Affirms(g)

\* Another bit is expected, and no more.
LEMMA ExpectIs ==
    ASSUME NEW A \in SUBSET Nat, NEW l, IsLink(A, l), NEW x, x \in BOOLEAN,
           NEW m, m = [l EXCEPT !.fcbExpected = x]
    PROVE  /\ IsLink(A, m) /\ m.sent = l.sent /\ m.fcbExpected = x
           /\ \A a \in A : m.secs[a].fcb = l.secs[a].fcb /\ (On(m, a) <=> On(l, a))
<1>1. /\ m \in LinkRec(A) /\ m.sent = l.sent /\ m.fcbExpected = x
      /\ m.order = l.order /\ m.idx = l.idx /\ m.secs = l.secs
  BY DEF IsLink, LinkRec
<1> QED
  BY <1>1 DEF IsLink, On

\* send_sec_fixed with an acknowledgment.
LEMMA AckIs ==
    ASSUME NEW A \in SUBSET Nat, NEW l, IsLink(A, l), NEW a \in Nat
    PROVE  Affirms(P!SecFixed(l, CONF_ACK, a))
<1> DEFINE g == P!SecFixed(l, CONF_ACK, a)
           d == l.dir
           c == [dir |-> d, prm |-> FALSE, fcb |-> FALSE, fcv |-> FALSE,
                 acd |-> FALSE, dfc |-> FALSE, fun |-> CONF_ACK]
           x == [kind |-> "Fixed", control |-> c, addr |-> a]
<1>1. g = SingleCharAck \/ g = x
  BY PNames DEF P!SecFixed, P!Fixed, P!Secondary
<1>2. d \in BOOLEAN
  BY DEF IsLink, LinkRec
<1> HIDE DEF d
<1>3. c \in ControlField /\ c.prm = FALSE /\ c.fun = CONF_ACK
  BY <1>2 DEF ControlField, CONF_ACK
<1> HIDE DEF c
<1>4. x \in Frame /\ x.kind = "Fixed" /\ x.control = c
  BY <1>3 DEF Frame
<1> HIDE DEF x
<1>5. Affirms(x)
  BY <1>3, <1>4 DEF Affirms, IsPrim
<1>6. Affirms(SingleCharAck)
  BY DEF Affirms, IsPrim, SingleCharAck, Frame
<1> QED
  BY <1>1, <1>5, <1>6

\* That is all that has come of it, but for an event that is new.
PeerServed(A, l, f, o) ==
    /\ \E g : PeerAnswered(A, l, f, o.link, g) /\ o.out = <<g>>
    /\ o.done = NoFrame
    /\ o.deliver <=> f.kind = "Variable" /\ f.control.fcb = l.fcbExpected

\* handle_peer_primary_frame with a request of the only station.
LEMMA PeerPrimaryIs ==
    ASSUME NEW A \in SUBSET Nat, NEW l, IsLink(A, l), NEW f, PeerAsks(f), f.addr \in A,
           NEW bal, bal = TRUE, NEW o, o = P!HandleFrame(l, f, bal)
    PROVE  PeerServed(A, l, f, o)
<1> DEFINE c == f.control
           a == f.addr
           g == P!SecFixed(l, CONF_ACK, a)
<1>0. /\ IsPrim(f) /\ f \in Frame /\ f.kind # "SingleCharAck" /\ c \in ControlField
      /\ c.fcv <=> c.fun \in Counted
      /\ f.kind = "Variable" <=> c.fun = USER_DATA_CONF
  BY Kinds DEF PeerAsks, Asks, IsPrim
<1>1. c.fun \in {RESET_LINK, USER_DATA_CONF} /\ c.fcb \in BOOLEAN /\ l.fcbExpected \in BOOLEAN
      /\ a \in Nat /\ DOMAIN l.secs = A
  BY <1>0 DEF PeerAsks, ControlField, IsLink, LinkRec
<1>2. RESET_LINK \notin Counted /\ USER_DATA_CONF \in Counted /\ RESET_LINK # USER_DATA_CONF
      /\ RESET_LINK \in Uncounted /\ USER_DATA_CONF \notin Uncounted
      /\ USER_DATA_CONF \notin {RESET_USER, TEST_LINK, RESET_LINK, USER_DATA_NO_CONF, REQ_STATUS}
      /\ RESET_LINK \notin {RESET_USER, TEST_LINK, USER_DATA_NO_CONF, REQ_STATUS}
  BY DEF Counted, Uncounted, RESET_LINK, USER_DATA_CONF, TEST_LINK, REQ_DATA1, REQ_DATA2,
         RESET_USER, USER_DATA_NO_CONF, REQ_ACCESS, REQ_STATUS
<1>3. o = P!PeerPrimaryFrame(l, c, a) /\ ~P!FcvWrong(c)
  <2>1. o = P!PeerPrimaryFrame(l, c, a)
    BY <1>0, <1>1 DEF P!HandleFrame, IsPrim
  <2>2. P!Counted = Counted /\ P!Uncounted = Uncounted
    BY DEF P!Counted, Counted, P!Uncounted, Uncounted, P!RESET_LINK, RESET_LINK,
         P!USER_DATA_CONF, USER_DATA_CONF, P!TEST_LINK, TEST_LINK, P!REQ_DATA1, REQ_DATA1,
         P!REQ_DATA2, REQ_DATA2, P!RESET_USER, RESET_USER, P!USER_DATA_NO_CONF, USER_DATA_NO_CONF,
         P!REQ_ACCESS, REQ_ACCESS, P!REQ_STATUS, REQ_STATUS
  <2>3. ~P!FcvWrong(c)
    BY <1>0, <1>1, <1>2, <2>2 DEF P!FcvWrong
  <2> QED
    BY <2>1, <2>3
<1>4. Affirms(g)
  BY <1>1, AckIs
<1>5. ASSUME NEW x \in BOOLEAN
      PROVE  P!SecFixed([l EXCEPT !.fcbExpected = x], CONF_ACK, a) = g
  BY DEF P!SecFixed, IsLink, LinkRec
<1> HIDE DEF g
<1>6. CASE c.fun = RESET_LINK
  <2> DEFINE m == [l EXCEPT !.fcbExpected = TRUE]
  <2>1. o = [link |-> m, out |-> <<g>>, done |-> NoFrame, deliver |-> FALSE]
    <3>1. o = P!PeerService(l, c.fun, a)
      BY <1>0, <1>2, <1>3, <1>6 DEF P!PeerPrimaryFrame
    <3>2. o = P!Answer(m, CONF_ACK, a)
      <4> HIDE DEF c, a
      <4> QED
        BY <1>2, <1>6, <3>1, PNames DEF P!PeerService
    <3>3. P!SecFixed(m, CONF_ACK, a) = g
      BY <1>5
    <3> QED
      BY <3>2, <3>3, PNames DEF P!Answer, P!Outcome
  <2>2. /\ IsLink(A, m) /\ m.sent = l.sent /\ m.fcbExpected = TRUE
        /\ \A b \in A : m.secs[b].fcb = l.secs[b].fcb /\ (On(m, b) <=> On(l, b))
    BY ExpectIs
  <2> HIDE DEF m
  <2>3. o.link = m /\ o.out = <<g>> /\ o.done = NoFrame /\ o.deliver = FALSE
    BY <2>1
  <2>4. PeerAnswered(A, l, f, m, g)
    BY <1>0, <1>2, <1>4, <1>6, <2>2 DEF PeerAnswered, NextBit
  <2> QED
    BY <1>0, <1>2, <1>6, <2>3, <2>4 DEF PeerServed
<1>7. CASE c.fun = USER_DATA_CONF /\ c.fcb # l.fcbExpected
  <2>1. o = [link |-> l, out |-> <<g>>, done |-> NoFrame, deliver |-> FALSE]
    <3>1. o = P!Answer(l, CONF_ACK, a)
      BY <1>0, <1>2, <1>3, <1>7, PNames DEF P!PeerPrimaryFrame
    <3> QED
      BY <3>1, PNames DEF P!Answer, P!Outcome, g
  <2>2. o.link = l /\ o.out = <<g>> /\ o.done = NoFrame /\ o.deliver = FALSE
    BY <2>1
  <2>3. PeerAnswered(A, l, f, l, g)
    BY <1>2, <1>4, <1>7 DEF PeerAnswered, NextBit
  <2> QED
    BY <1>7, <2>2, <2>3 DEF PeerServed
<1>8. CASE c.fun = USER_DATA_CONF /\ c.fcb = l.fcbExpected
  <2> DEFINE m == [l EXCEPT !.fcbExpected = ~l.fcbExpected]
  <2>1. o = [link |-> m, out |-> <<g>>, done |-> NoFrame, deliver |-> TRUE]
    <3>1. o = P!PeerService(m, c.fun, a)
      BY <1>0, <1>2, <1>3, <1>8 DEF P!PeerPrimaryFrame
    <3>2. o = P!Delivered(P!Answer(m, CONF_ACK, a))
      <4> HIDE DEF c, a, m
      <4> QED
        BY <1>2, <1>8, <3>1, PNames DEF P!PeerService
    <3>3. P!SecFixed(m, CONF_ACK, a) = g
      BY <1>1, <1>5
    <3> QED
      BY <3>2, <3>3, PNames DEF P!Delivered, P!Answer, P!Outcome
  <2>2. /\ IsLink(A, m) /\ m.sent = l.sent /\ m.fcbExpected = ~l.fcbExpected
        /\ \A b \in A : m.secs[b].fcb = l.secs[b].fcb /\ (On(m, b) <=> On(l, b))
    <3> DEFINE y == ~l.fcbExpected
    <3>1. y \in BOOLEAN /\ m = [l EXCEPT !.fcbExpected = y]
      BY <1>1
    <3> HIDE DEF y, m
    <3>2. /\ IsLink(A, m) /\ m.sent = l.sent /\ m.fcbExpected = y
          /\ \A b \in A : m.secs[b].fcb = l.secs[b].fcb /\ (On(m, b) <=> On(l, b))
      BY <3>1, ExpectIs
    <3> QED
      BY <3>2 DEF y
  <2> HIDE DEF m
  <2>3. o.link = m /\ o.out = <<g>> /\ o.done = NoFrame /\ o.deliver = TRUE
    BY <2>1
  <2>4. PeerAnswered(A, l, f, m, g)
    BY <1>0, <1>1, <1>2, <1>4, <1>8, <2>2 DEF PeerAnswered, NextBit
  <2> QED
    BY <1>0, <1>8, <2>3, <2>4 DEF PeerServed
<1> QED
  BY <1>1, <1>6, <1>7, <1>8

-----------------------------------------------------------------------------
(***************************************************************************)
(* What a request makes of a controlled station.                           *)
(***************************************************************************)

\* The names of Frame101 in Secondary101.
LEMMA SNames ==
    /\ S!NoFrame = NoFrame /\ S!SingleCharAck = SingleCharAck
    /\ S!RESET_LINK = RESET_LINK /\ S!RESET_USER = RESET_USER /\ S!TEST_LINK = TEST_LINK
    /\ S!USER_DATA_CONF = USER_DATA_CONF /\ S!USER_DATA_NO_CONF = USER_DATA_NO_CONF
    /\ S!REQ_ACCESS = REQ_ACCESS /\ S!REQ_STATUS = REQ_STATUS
    /\ S!REQ_DATA1 = REQ_DATA1 /\ S!REQ_DATA2 = REQ_DATA2
    /\ S!CONF_ACK = CONF_ACK /\ S!RESP_DATA = RESP_DATA /\ S!RESP_NO_DATA = RESP_NO_DATA
    /\ S!RESP_STATUS = RESP_STATUS /\ S!RESP_LINK_NF = RESP_LINK_NF
    /\ S!RESP_LINK_NI = RESP_LINK_NI
    /\ S!Counted = Counted /\ S!Uncounted = Uncounted
BY DEF S!NoFrame, NoFrame, S!SingleCharAck, SingleCharAck, S!RESET_LINK, RESET_LINK,
       S!RESET_USER, RESET_USER, S!TEST_LINK, TEST_LINK, S!USER_DATA_CONF, USER_DATA_CONF,
       S!USER_DATA_NO_CONF, USER_DATA_NO_CONF, S!REQ_ACCESS, REQ_ACCESS, S!REQ_STATUS, REQ_STATUS,
       S!REQ_DATA1, REQ_DATA1, S!REQ_DATA2, REQ_DATA2, S!CONF_ACK, CONF_ACK, S!RESP_DATA,
       RESP_DATA, S!RESP_NO_DATA, RESP_NO_DATA, S!RESP_STATUS, RESP_STATUS, S!RESP_LINK_NF,
       RESP_LINK_NF, S!RESP_LINK_NI, RESP_LINK_NI, S!Counted, Counted, S!Uncounted, Uncounted

\* The service codes differ.
LEMMA Codes ==
    /\ RESET_LINK \notin {RESET_USER, TEST_LINK, USER_DATA_CONF, USER_DATA_NO_CONF, REQ_ACCESS,
                          REQ_STATUS, REQ_DATA1, REQ_DATA2}
    /\ TEST_LINK \notin {RESET_LINK, USER_DATA_CONF, USER_DATA_NO_CONF, REQ_ACCESS,
                         REQ_STATUS, REQ_DATA1, REQ_DATA2}
    /\ USER_DATA_CONF \notin {RESET_LINK, RESET_USER, TEST_LINK, USER_DATA_NO_CONF, REQ_ACCESS,
                              REQ_STATUS, REQ_DATA1, REQ_DATA2}
    /\ REQ_STATUS \notin {RESET_LINK, RESET_USER, TEST_LINK, USER_DATA_CONF, USER_DATA_NO_CONF,
                          REQ_DATA1, REQ_DATA2}
    /\ REQ_DATA1 \notin {RESET_LINK, RESET_USER, TEST_LINK, USER_DATA_CONF, USER_DATA_NO_CONF,
                         REQ_ACCESS, REQ_STATUS, REQ_DATA2}
    /\ REQ_DATA2 \notin {RESET_LINK, RESET_USER, TEST_LINK, USER_DATA_CONF, USER_DATA_NO_CONF,
                         REQ_ACCESS, REQ_STATUS, REQ_DATA1}
    /\ \A x \in {TEST_LINK, USER_DATA_CONF, REQ_DATA1, REQ_DATA2} : x \in Counted /\ x \notin Uncounted
    /\ \A x \in {RESET_LINK, REQ_STATUS} : x \notin Counted /\ x \in Uncounted
BY DEF RESET_LINK, RESET_USER, TEST_LINK, USER_DATA_CONF, USER_DATA_NO_CONF, REQ_ACCESS,
       REQ_STATUS, REQ_DATA1, REQ_DATA2, Counted, Uncounted

\* The frames of the secondary role.
LEMMA SecFrameIs ==
    ASSUME NEW a \in Nat, NEW fun \in {CONF_ACK, RESP_STATUS, RESP_NO_DATA}, NEW acd,
           acd \in BOOLEAN, NEW g, g = S!SecFrame(a, fun, acd)
    PROVE  Affirms(g) /\ g.kind = "Fixed" /\ g.addr = a
<1> DEFINE c == [dir |-> FALSE, prm |-> FALSE, fcb |-> FALSE, fcv |-> FALSE,
                 acd |-> acd, dfc |-> FALSE, fun |-> fun]
<1>1. g = [kind |-> "Fixed", control |-> c, addr |-> a]
  BY DEF S!SecFrame, S!Fixed, S!Secondary
<1>2. fun \in 0 .. 15
  BY DEF CONF_ACK, RESP_STATUS, RESP_NO_DATA
<1>3. c \in ControlField
  BY <1>2 DEF ControlField
<1>4. c.prm = FALSE /\ c.fun = fun
  OBVIOUS
<1> HIDE DEF c
<1>5. g \in Frame /\ g.kind = "Fixed" /\ g.control = c /\ g.addr = a
  BY <1>1, <1>3 DEF Frame
<1> QED
  BY <1>4, <1>5 DEF Affirms, IsPrim

\* What ack_frame makes is an answer in either form.
LEMMA AckFrameIs ==
    ASSUME NEW a \in Nat, NEW fun \in {CONF_ACK, RESP_NO_DATA}, NEW acd,
           acd \in BOOLEAN, NEW g, g = S!AckFrame(a, fun, acd)
    PROVE  /\ Affirms(g) /\ g.kind # "Variable"
           /\ g.kind # "SingleCharAck" => g.addr = a
<1>1. CASE g = SingleCharAck
  BY <1>1 DEF Affirms, IsPrim, SingleCharAck, Frame
<1>2. CASE g = S!SecFrame(a, fun, acd)
  <2>1. fun \in {CONF_ACK, RESP_STATUS, RESP_NO_DATA}
    OBVIOUS
  <2>2. Affirms(g) /\ g.kind = "Fixed" /\ g.addr = a
    BY <1>2, <2>1, SecFrameIs
  <2> QED
    BY <2>2
<1> QED
  BY <1>1, <1>2, SNames DEF S!AckFrame

\* Station s and its buffers b have answered with g and become those of o.
Responds(bal, a, s, b, o, g) ==
    /\ IsStation(bal, a, o.station) /\ o.station.lastResp = g /\ Affirms(g)
    /\ o.station.sent = s.sent /\ o.station.fcb = s.fcb /\ o.station.active = s.active
    /\ o.station.fcbExpected = s.fcbExpected
    /\ o.buffers = b /\ o.out = <<g>> /\ o.asdu = NoAsdu
    /\ o = [station |-> o.station, buffers |-> o.buffers, out |-> o.out, asdu |-> o.asdu]

\* send_resp
LEMMA RespondIs ==
    ASSUME NEW bal, NEW a, NEW s, IsStation(bal, a, s), NEW b, NEW g, Affirms(g),
           g.kind # "SingleCharAck" => g.addr = a, NEW o, o = S!Respond(s, b, g)
    PROVE  Responds(bal, a, s, b, o, g)
<1> DEFINE t == [s EXCEPT !.lastResp = g]
<1>1. o = [station |-> t, buffers |-> b, out |-> <<g>>, asdu |-> NoAsdu]
  BY DEF S!Respond, S!Step
<1>2. g \in Frame
  BY DEF Affirms
<1>3. /\ t \in StationRec /\ t.lastResp = g /\ t.sent = s.sent /\ t.fcb = s.fcb
      /\ t.active = s.active /\ t.fcbExpected = s.fcbExpected
  BY <1>2 DEF IsStation, StationRec
<1> HIDE DEF t
<1>4. IsStation(bal, a, t)
  BY <1>3 DEF IsStation
<1>5. o.station = t /\ o.buffers = b /\ o.out = <<g>> /\ o.asdu = NoAsdu
  BY <1>1
<1> QED
  BY <1>1, <1>3, <1>4, <1>5 DEF Responds

\* A station answers with an acknowledgement,
LEMMA LinkAckIs ==
    ASSUME NEW bal, NEW a \in Nat, NEW s, IsStation(bal, a, s), NEW b, NEW o, o = S!LinkAck(s, b, a)
    PROVE  \E g : Responds(bal, a, s, b, o, g) /\ g.kind # "Variable"
<1> DEFINE p == S!Class1Pending(b)
           g == S!AckFrame(a, CONF_ACK, p)
<1>1. o = S!Respond(s, b, g)
  BY SNames DEF S!LinkAck
<1>2. p \in BOOLEAN
  BY DEF S!Class1Pending
<1> HIDE DEF p
<1>3. /\ Affirms(g) /\ g.kind # "Variable"
      /\ g.kind # "SingleCharAck" => g.addr = a
  BY <1>2, AckFrameIs
<1> HIDE DEF g
<1> QED
  BY <1>1, <1>3, RespondIs

\* or with its status.
LEMMA LinkStatusIs ==
    ASSUME NEW bal, NEW a \in Nat, NEW s, IsStation(bal, a, s), NEW b, NEW o, o = S!LinkStatus(s, b, a)
    PROVE  \E g : Responds(bal, a, s, b, o, g) /\ g.kind # "Variable"
<1> DEFINE p == S!Class1Pending(b)
           g == S!SecFrame(a, RESP_STATUS, p)
<1>1. o = S!Respond(s, b, g)
  BY SNames DEF S!LinkStatus
<1>2. p \in BOOLEAN
  BY DEF S!Class1Pending
<1> HIDE DEF p
<1>3. Affirms(g) /\ g.kind = "Fixed" /\ g.addr = a
  BY <1>2, SecFrameIs
<1> HIDE DEF g
<1> QED
  BY <1>1, <1>3, RespondIs

\* A buffer that is not empty is read from its head.
LEMMA BufferHead ==
    ASSUME NEW b \in BufferRec, NEW q \in {"class1", "class2", "prim"}, b[q] # <<>>
    PROVE  /\ Head(b[q]) \in Eventful /\ Tail(b[q]) \in Seq(Eventful)
           /\ [b EXCEPT ![q] = Tail(@)] \in BufferRec
<1>1. b[q] \in Seq(Eventful)
  BY DEF BufferRec
<1>2. Head(b[q]) \in Eventful /\ Tail(b[q]) \in Seq(Eventful)
  BY <1>1, HeadTail
<1>3. [b EXCEPT ![q] = Tail(@)] \in BufferRec
  BY <1>2 DEF BufferRec
<1> QED
  BY <1>2, <1>3

\* An event of buffer q was answered with.
Pops(bal, a, s, b, o, q) ==
    \E g : /\ b[q] # <<>> /\ Responds(bal, a, s, [b EXCEPT ![q] = Tail(@)], o, g)
           /\ g.kind = "Variable" /\ g.asdu = Head(b[q])

\* respond_class_data
LEMMA ClassDataIs ==
    ASSUME NEW bal, NEW a \in Nat, NEW s, IsStation(bal, a, s), NEW b \in BufferRec, NEW class,
           NEW o, o = S!ClassData(s, b, a, class)
    PROVE  \/ \E g : Responds(bal, a, s, b, o, g) /\ g.kind # "Variable"
           \/ \E q \in {"class1", "class2"} : Pops(bal, a, s, b, o, q)
<1> DEFINE q == S!PoppedFrom(b, class)
           rest == [b EXCEPT ![q] = Tail(@)]
<1>1. q \in {"class1", "class2"}
  BY DEF S!PoppedFrom
<1>2. CASE b[q] = <<>>
  <2> DEFINE p == FALSE
             g == S!AckFrame(a, RESP_NO_DATA, p)
  <2>1. o = S!Respond(s, b, g)
    BY <1>2, SNames DEF S!ClassData
  <2>2. p \in BOOLEAN
    OBVIOUS
  <2> HIDE DEF p
  <2>3. /\ Affirms(g) /\ g.kind # "Variable"
        /\ g.kind # "SingleCharAck" => g.addr = a
    BY <2>2, AckFrameIs
  <2> HIDE DEF g
  <2> QED
    BY <2>1, <2>3, RespondIs
<1>3. CASE b[q] # <<>>
  <2> DEFINE p == S!Class1Pending(rest)
             e == Head(b[q])
             c == [dir |-> FALSE, prm |-> FALSE, fcb |-> FALSE, fcv |-> FALSE,
                   acd |-> p, dfc |-> FALSE, fun |-> RESP_DATA]
             g == [kind |-> "Variable", control |-> c, addr |-> a, asdu |-> e]
  <2>1. o = S!Respond(s, rest, g)
    BY <1>3, SNames DEF S!ClassData, S!Variable, S!Secondary
  <2>2. p \in BOOLEAN /\ e \in Eventful
    <3>1. p \in BOOLEAN
      BY DEF S!Class1Pending
    <3>2. q \in {"class1", "class2", "prim"}
      BY <1>1
    <3> HIDE DEF q, p
    <3>3. e \in Eventful
      BY <1>3, <3>2, BufferHead
    <3> QED
      BY <3>1, <3>3
  <2> HIDE DEF p, e, rest
  <2>3. c \in ControlField /\ c.prm = FALSE /\ c.fun = RESP_DATA
    BY <2>2 DEF ControlField, RESP_DATA
  <2> HIDE DEF c
  <2>4. g \in Frame /\ g.kind = "Variable" /\ g.control = c /\ g.addr = a /\ g.asdu = e
    BY <2>2, <2>3 DEF Frame
  <2> HIDE DEF g
  <2>5. Affirms(g)
    BY <2>2, <2>3, <2>4 DEF Affirms, IsPrim
  <2>6. Responds(bal, a, s, rest, o, g)
    BY <2>1, <2>4, <2>5, RespondIs
  <2>7. Pops(bal, a, s, b, o, q)
    BY <1>3, <2>4, <2>6 DEF Pops, rest, e
  <2> HIDE DEF q
  <2> QED
    BY <1>1, <2>7
<1> QED
  BY <1>2, <1>3

\* A counted request whose bit is not the one expected was answered before.
Old(f, s) == f.control.fcv /\ f.control.fcb # s.fcbExpected

\* Station s with buffers b has been asked for f, and they have become those of o.
Served(bal, a, s, b, f, o) ==
    /\ IsStation(bal, a, o.station)
    /\ o.station.sent = s.sent /\ o.station.fcb = s.fcb /\ o.station.active = s.active
    /\ NextBit(f, s.fcbExpected, o.station.fcbExpected)
    /\ o.out = <<o.station.lastResp>> /\ Affirms(o.station.lastResp)
    /\ o.asdu = IF f.kind = "Variable" /\ ~Old(f, s) THEN f.asdu ELSE NoAsdu
    /\ Old(f, s) => /\ o.buffers = b
                    /\ \/ o.station.lastResp = s.lastResp
                       \/ /\ s.lastResp = NoFrame
                          /\ o.station.lastResp.kind # "Variable"
    /\ ~Old(f, s) => \/ o.buffers = b /\ o.station.lastResp.kind # "Variable"
                     \/ /\ f.control.fun \in {REQ_DATA1, REQ_DATA2}
                        /\ \E q \in {"class1", "class2"} :
                             /\ b[q] # <<>> /\ o.buffers = [b EXCEPT ![q] = Tail(@)]
                             /\ o.station.lastResp.kind = "Variable"
                             /\ o.station.lastResp.asdu = Head(b[q])

\* What a new request asks for, with the bit that is expected after it.
LEMMA ServiceIs ==
    ASSUME NEW bal, NEW a \in Nat, NEW s, IsStation(bal, a, s), NEW t, IsStation(bal, a, t),
           t.sent = s.sent, t.fcb = s.fcb, t.active = s.active,
           NEW b \in BufferRec, NEW f, Asks(f), ~Old(f, s),
           f.control.fun # RESET_LINK => NextBit(f, s.fcbExpected, t.fcbExpected),
           NEW o, o = S!Service(t, b, a, f)
    PROVE  Served(bal, a, s, b, f, o)
<1> DEFINE c == f.control
<1>1. /\ c.fun \in {RESET_LINK, REQ_STATUS, TEST_LINK, USER_DATA_CONF, REQ_DATA1, REQ_DATA2}
      /\ c.fcv <=> c.fun \in Counted
      /\ f.kind = "Variable" <=> c.fun = USER_DATA_CONF
  BY DEF Asks
<1>2. CASE c.fun = RESET_LINK
  <2> DEFINE r == [t EXCEPT !.fcbExpected = TRUE, !.lastResp = NoFrame]
  <2>1. o = S!LinkAck(r, b, a)
    <3> HIDE DEF c
    <3>1. o = CASE c.fun = RESET_LINK -> S!LinkAck(r, b, a)
                [] c.fun \in {RESET_USER, TEST_LINK} -> S!LinkAck(t, b, a)
                [] c.fun = USER_DATA_CONF    -> S!Handing(S!LinkAck(t, b, a), f)
                [] c.fun = USER_DATA_NO_CONF -> S!Handing(S!Ignored(t, b), f)
                [] c.fun \in {REQ_ACCESS, REQ_STATUS} -> S!LinkStatus(t, b, a)
                [] c.fun = REQ_DATA1 -> S!ClassData(t, b, a, 1)
                [] c.fun = REQ_DATA2 -> S!ClassData(t, b, a, 2)
                [] OTHER -> S!Respond(t, b, S!SecFrame(a, S!RESP_LINK_NI, FALSE))
      BY SNames DEF S!Service, c
    <3> HIDE DEF r
    <3> QED
      BY <1>2, <3>1, Codes
  <2>2. /\ r \in StationRec /\ r.fcbExpected = TRUE /\ r.lastResp = NoFrame
        /\ r.sent = t.sent /\ r.fcb = t.fcb /\ r.active = t.active
    BY DEF IsStation, StationRec
  <2> HIDE DEF r
  <2>3. IsStation(bal, a, r)
    BY <2>2 DEF IsStation
  <2>4. PICK g : Responds(bal, a, r, b, o, g) /\ g.kind # "Variable"
    BY <2>1, <2>3, LinkAckIs
  <2>5. f.kind # "Variable" /\ ~c.fcv
    BY <1>1, <1>2, Codes
  <2>6. NextBit(f, s.fcbExpected, o.station.fcbExpected)
    BY <1>2, <2>2, <2>4, <2>5 DEF Responds, NextBit
  <2> QED
    BY <2>2, <2>4, <2>5, <2>6 DEF Served, Responds
<1>3. CASE c.fun = TEST_LINK
  <2>1. o = S!LinkAck(t, b, a)
    BY <1>3, SNames, Codes DEF S!Service
  <2>2. PICK g : Responds(bal, a, t, b, o, g) /\ g.kind # "Variable"
    BY <2>1, LinkAckIs
  <2>3. f.kind # "Variable" /\ c.fun # RESET_LINK
    BY <1>1, <1>3, Codes
  <2> QED
    BY <2>2, <2>3 DEF Served, Responds
<1>4. CASE c.fun = USER_DATA_CONF
  <2> DEFINE k == S!LinkAck(t, b, a)
  <2>1. o = [k EXCEPT !.asdu = f.asdu]
    <3>1. o = S!Handing(k, f)
      BY <1>4, SNames, Codes DEF S!Service
    <3> QED
      BY <1>1, <1>4, <3>1 DEF S!Handing
  <2>2. PICK g : Responds(bal, a, t, b, k, g) /\ g.kind # "Variable"
    BY LinkAckIs
  <2>3. f.kind = "Variable" /\ c.fun # RESET_LINK
    BY <1>1, <1>4, Codes
  <2> HIDE DEF k
  <2>4. k = [station |-> k.station, buffers |-> k.buffers, out |-> k.out, asdu |-> k.asdu]
    BY <2>2 DEF Responds
  <2>5. o.station = k.station /\ o.buffers = k.buffers /\ o.out = k.out /\ o.asdu = f.asdu
    BY <2>1, <2>4
  <2> QED
    BY <2>2, <2>3, <2>5 DEF Served, Responds
<1>5. CASE c.fun = REQ_STATUS
  <2>1. o = S!LinkStatus(t, b, a)
    BY <1>5, SNames, Codes DEF S!Service
  <2>2. PICK g : Responds(bal, a, t, b, o, g) /\ g.kind # "Variable"
    BY <2>1, LinkStatusIs
  <2>3. f.kind # "Variable" /\ c.fun # RESET_LINK
    BY <1>1, <1>5, Codes
  <2> QED
    BY <2>2, <2>3 DEF Served, Responds
<1>6. CASE c.fun = REQ_DATA1 \/ c.fun = REQ_DATA2
  <2>1. \E class : o = S!ClassData(t, b, a, class)
    BY <1>6, SNames, Codes DEF S!Service
  <2>2. \/ \E g : Responds(bal, a, t, b, o, g) /\ g.kind # "Variable"
        \/ \E q \in {"class1", "class2"} : Pops(bal, a, t, b, o, q)
    BY <2>1, ClassDataIs
  <2>3. f.kind # "Variable" /\ c.fun # RESET_LINK /\ c.fun \in {REQ_DATA1, REQ_DATA2}
    BY <1>1, <1>6, Codes
  <2>4. CASE \E g : Responds(bal, a, t, b, o, g) /\ g.kind # "Variable"
    <3>1. PICK g : Responds(bal, a, t, b, o, g) /\ g.kind # "Variable"
      BY <2>4
    <3> QED
      BY <2>3, <3>1 DEF Served, Responds
  <2>5. CASE \E q \in {"class1", "class2"} : Pops(bal, a, t, b, o, q)
    <3>1. PICK q \in {"class1", "class2"} : Pops(bal, a, t, b, o, q)
      BY <2>5
    <3> DEFINE rest == [b EXCEPT ![q] = Tail(@)]
    <3>2. PICK g : /\ b[q] # <<>> /\ Responds(bal, a, t, rest, o, g)
                   /\ g.kind = "Variable" /\ g.asdu = Head(b[q])
      BY <3>1 DEF Pops
    <3>3. o.buffers = rest /\ o.station.lastResp = g
      BY <3>2 DEF Responds
    <3>4. \E p \in {"class1", "class2"} :
             /\ b[p] # <<>> /\ o.buffers = [b EXCEPT ![p] = Tail(@)]
             /\ o.station.lastResp.kind = "Variable"
             /\ o.station.lastResp.asdu = Head(b[p])
      BY <3>2, <3>3
    <3> QED
      BY <2>3, <3>2, <3>4 DEF Served, Responds
  <2> QED
    BY <2>2, <2>4, <2>5
<1> QED
  BY <1>1, <1>2, <1>3, <1>4, <1>5, <1>6

\* handle_frame with a request.
LEMMA RequestIs ==
    ASSUME NEW bal, NEW a \in Nat, a # Broadcast, NEW s, IsStation(bal, a, s),
           NEW b \in BufferRec, NEW f, Asks(f), f.addr = a,
           NEW o, o = S!HandleFrame(s, b, a, f, bal)
    PROVE  Served(bal, a, s, b, f, o)
<1> DEFINE c == f.control
<1>1. /\ f.kind # "SingleCharAck" /\ c.prm /\ c \in ControlField
      /\ c.fun \in {RESET_LINK, REQ_STATUS, TEST_LINK, USER_DATA_CONF, REQ_DATA1, REQ_DATA2}
      /\ c.fcv <=> c.fun \in Counted
  BY Kinds DEF Asks, IsPrim
<1>2. c.fcb \in BOOLEAN /\ s.fcbExpected \in BOOLEAN
  BY <1>1 DEF ControlField, IsStation, StationRec
<1>3. o = S!PrimaryFrame(s, b, a, f)
  BY <1>1 DEF S!HandleFrame
<1>4. ~S!FcvWrong(c)
  BY <1>1, SNames, Codes DEF S!FcvWrong
<1>5. CASE Old(f, s)
  <2>1. o = S!Repeated(s, b, a)
    BY <1>3, <1>4, <1>5 DEF S!PrimaryFrame, Old
  <2>2. c.fun # RESET_LINK
    BY <1>1, <1>5, Codes DEF Old
  <2>3. CASE s.lastResp = NoFrame
    <3>1. o = S!LinkAck(s, b, a)
      BY <2>1, <2>3, SNames DEF S!Repeated
    <3>2. PICK g : Responds(bal, a, s, b, o, g) /\ g.kind # "Variable"
      BY <3>1, LinkAckIs
    <3>3. NextBit(f, s.fcbExpected, o.station.fcbExpected)
      BY <1>5, <2>2, <3>2 DEF Responds, NextBit, Old
    <3> QED
      BY <1>5, <2>3, <3>2, <3>3 DEF Served, Responds
  <2>4. CASE s.lastResp # NoFrame
    <3>1. o = [station |-> s, buffers |-> b, out |-> <<s.lastResp>>, asdu |-> NoAsdu]
      BY <2>1, <2>4, SNames DEF S!Repeated, S!Step
    <3>2. o.station = s /\ o.buffers = b /\ o.out = <<s.lastResp>> /\ o.asdu = NoAsdu
      BY <3>1
    <3>3. NextBit(f, s.fcbExpected, s.fcbExpected)
      BY <1>5, <2>2 DEF NextBit, Old
    <3>4. Affirms(s.lastResp)
      BY <2>4 DEF IsStation
    <3> QED
      BY <1>5, <3>2, <3>3, <3>4 DEF Served
  <2> QED
    BY <2>3, <2>4
<1>6. CASE c.fcv /\ c.fcb = s.fcbExpected
  <2> DEFINE t == [s EXCEPT !.fcbExpected = ~s.fcbExpected]
  <2>1. o = S!Service(t, b, a, f)
    BY <1>3, <1>4, <1>6 DEF S!PrimaryFrame
  <2>2. /\ t \in StationRec /\ t.lastResp = s.lastResp /\ t.sent = s.sent /\ t.fcb = s.fcb
        /\ t.active = s.active
    BY <1>2 DEF IsStation, StationRec
  <2>3. t.fcbExpected = ~s.fcbExpected
    BY DEF IsStation, StationRec
  <2>4. c.fcb # t.fcbExpected
    BY <1>2, <1>6, <2>3
  <2> HIDE DEF t
  <2>5. IsStation(bal, a, t)
    BY <2>2 DEF IsStation
  <2>6. c.fun # RESET_LINK /\ ~Old(f, s)
    BY <1>1, <1>6, Codes DEF Old
  <2>7. NextBit(f, s.fcbExpected, t.fcbExpected)
    BY <1>6, <2>4, <2>6 DEF NextBit
  <2> QED
    BY <2>1, <2>2, <2>5, <2>6, <2>7, ServiceIs
<1>7. CASE ~c.fcv
  <2>1. o = S!Service(s, b, a, f)
    BY <1>3, <1>4, <1>7 DEF S!PrimaryFrame
  <2>2. ~Old(f, s) /\ (c.fun # RESET_LINK => NextBit(f, s.fcbExpected, s.fcbExpected))
    BY <1>7 DEF Old, NextBit
  <2> QED
    BY <2>1, <2>2, ServiceIs
<1> QED
  BY <1>5, <1>6, <1>7 DEF Old

-----------------------------------------------------------------------------
(***************************************************************************)
(* The primary role of a station of a balanced line.                       *)
(***************************************************************************)

\* The request of station s is over.
StationOver(bal, a, s, t) ==
    /\ IsStation(bal, a, t) /\ s.sent # NoFrame /\ t.sent = NoFrame
    /\ t.fcbExpected = s.fcbExpected /\ t.lastResp = s.lastResp

StationConfirmed(bal, a, s, t) ==
    /\ StationOver(bal, a, s, t)
    /\ s.sent.control.fcv => t.fcb = ~s.sent.control.fcb
    /\ s.sent.control.fun = RESET_LINK => t.fcb = TRUE

StationGivenUp(bal, a, s, t) == StationOver(bal, a, s, t) /\ ~t.active

\* prim_confirm
LEMMA PrimConfirmIs ==
    ASSUME NEW bal, bal = TRUE, NEW a, NEW s, IsStation(bal, a, s), NEW t, t = S!PrimConfirm(s)
    PROVE  t = s \/ StationConfirmed(bal, a, s, t)
<1> DEFINE c == s.sent.control
           r == [s EXCEPT !.sent = NoFrame, !.retry = 0]
<1>1. CASE s.sent = NoFrame
  BY <1>1, SNames DEF S!PrimConfirm
<1>2. CASE s.sent # NoFrame
  <2>1. Asks(s.sent) /\ c \in ControlField /\ c.fcb \in BOOLEAN /\ (c.fcv <=> c.fun \in Counted)
    BY <1>2, Kinds DEF IsStation, Asks, IsPrim, ControlField
  <2>2. /\ r \in StationRec /\ r.lastResp = s.lastResp /\ r.sent = NoFrame /\ r.fcb = s.fcb
        /\ r.active = s.active /\ r.fcbExpected = s.fcbExpected
    BY DEF IsStation, StationRec
  <2>3. CASE c.fun = RESET_LINK
    <3> DEFINE x == [r EXCEPT !.active = TRUE, !.fcb = TRUE]
    <3>1. t = x
      BY <1>2, <2>3, SNames DEF S!PrimConfirm, S!Freed
    <3> HIDE DEF r
    <3>2. /\ x \in StationRec /\ x.lastResp = s.lastResp /\ x.sent = NoFrame /\ x.fcb = TRUE
          /\ x.fcbExpected = s.fcbExpected
      BY <2>2 DEF StationRec
    <3> HIDE DEF x
    <3>3. StationOver(bal, a, s, x)
      BY <1>2, <3>2 DEF StationOver, IsStation
    <3>4. ~c.fcv
      BY <2>1, <2>3, Codes
    <3> QED
      BY <3>1, <3>2, <3>3, <3>4 DEF StationConfirmed
  <2>4. CASE c.fun # RESET_LINK /\ c.fcv
    <3> DEFINE x == [r EXCEPT !.fcb = ~c.fcb]
    <3>1. t = x
      BY <1>2, <2>4, SNames DEF S!PrimConfirm, S!Freed
    <3> HIDE DEF r
    <3>2. /\ x \in StationRec /\ x.lastResp = s.lastResp /\ x.sent = NoFrame
          /\ x.fcbExpected = s.fcbExpected
      BY <2>1, <2>2 DEF StationRec
    <3>3. x.fcb = ~c.fcb
      BY <2>2 DEF StationRec
    <3> HIDE DEF x
    <3>4. StationOver(bal, a, s, x)
      BY <1>2, <3>2 DEF StationOver, IsStation
    <3> QED
      BY <2>4, <3>1, <3>3, <3>4 DEF StationConfirmed
  <2>5. CASE c.fun # RESET_LINK /\ ~c.fcv
    BY <1>2, <2>1, <2>5, Codes DEF IsStation
  <2> QED
    BY <2>3, <2>4, <2>5
<1> QED
  BY <1>1, <1>2

\* A station has taken an answer, or left it.
AnswerHeard(bal, a, s, b, o) ==
    /\ o.station = s \/ StationConfirmed(bal, a, s, o.station)
    /\ o.buffers = b /\ o.out = <<>> /\ o.asdu = NoAsdu

\* handle_frame with an answer that does not refuse.
LEMMA AnswerAtStationIs ==
    ASSUME NEW bal, bal = TRUE, NEW a, NEW s, IsStation(bal, a, s), NEW b, NEW f, Affirms(f),
           NEW o, o = S!HandleFrame(s, b, a, f, bal)
    PROVE  AnswerHeard(bal, a, s, b, o)
<1>1. ASSUME NEW t, o = S!Ignored(t, b)
      PROVE  o.station = t /\ o.buffers = b /\ o.out = <<>> /\ o.asdu = NoAsdu
  <2>1. o = [station |-> t, buffers |-> b, out |-> <<>>, asdu |-> NoAsdu]
    BY <1>1 DEF S!Ignored, S!Step
  <2> QED
    BY <2>1
<1>2. o = S!Ignored(s, b) \/ o = S!Ignored(S!PrimConfirm(s), b)
  <2>1. CASE f.kind = "SingleCharAck"
    BY <2>1 DEF S!HandleFrame
  <2>2. CASE f.kind # "SingleCharAck" /\ f.addr \notin {a, Broadcast}
    BY <2>2 DEF S!HandleFrame
  <2>3. CASE f.kind # "SingleCharAck" /\ f.addr \in {a, Broadcast}
    <3> DEFINE fun == f.control.fun
    <3>1. ~f.control.prm /\ fun \in {CONF_ACK, RESP_STATUS, RESP_DATA, RESP_NO_DATA}
      BY <2>3 DEF Affirms, IsPrim
    <3>2. o = S!Ignored(S!PeerSecondaryFrame(s, fun), b)
      BY <2>3, <3>1 DEF S!HandleFrame
    <3> HIDE DEF fun
    <3>3. fun \notin {RESP_LINK_NF, RESP_LINK_NI}
      BY <3>1 DEF CONF_ACK, RESP_STATUS, RESP_DATA, RESP_NO_DATA, RESP_LINK_NF, RESP_LINK_NI
    <3>4. S!PeerSecondaryFrame(s, fun) = S!PrimConfirm(s) \/ S!PeerSecondaryFrame(s, fun) = s
      BY <3>3, SNames DEF S!PeerSecondaryFrame
    <3> QED
      BY <3>2, <3>4
  <2> QED
    BY <2>1, <2>2, <2>3
<1> DEFINE t == S!PrimConfirm(s)
<1>3. t = s \/ StationConfirmed(bal, a, s, t)
  BY PrimConfirmIs
<1> HIDE DEF t
<1>4. o = S!Ignored(s, b) \/ o = S!Ignored(t, b)
  BY <1>2 DEF t
<1> QED
  BY <1>1, <1>3, <1>4 DEF AnswerHeard

\* Station s with buffers b has sent a request and they have become those of o.
StationAsks(bal, a, s, b, o) ==
    LET t == o.station
        f == t.sent
    IN  /\ IsStation(bal, a, t) /\ PeerAsks(f) /\ f.addr = a /\ o.out = <<f>>
        /\ t.fcbExpected = s.fcbExpected /\ t.lastResp = s.lastResp
        /\ t.fcb = s.fcb /\ t.active = s.active
        /\ f.control.fcv => s.active /\ f.control.fcb = s.fcb
        /\ f.control.fun = RESET_LINK => ~s.active
        /\ \/ f.kind # "Variable" /\ o.buffers = b
           \/ /\ f.kind = "Variable" /\ b["prim"] # <<>> /\ f.asdu = Head(b["prim"])
              /\ o.buffers = [b EXCEPT !["prim"] = Tail(@)]

\* A request that a station sends: what the frame needs.
LEMMA PrimSendIs ==
    ASSUME NEW bal, bal = TRUE, NEW a, NEW s, IsStation(bal, a, s), NEW b, NEW rest,
           NEW f, PeerAsks(f), f.addr = a,
           f.control.fcv => s.active /\ f.control.fcb = s.fcb,
           f.control.fun = RESET_LINK => ~s.active,
           \/ f.kind # "Variable" /\ rest = b
           \/ /\ f.kind = "Variable" /\ b["prim"] # <<>> /\ f.asdu = Head(b["prim"])
              /\ rest = [b EXCEPT !["prim"] = Tail(@)],
           NEW o, o = S!PrimSend(s, rest, f)
    PROVE  StationAsks(bal, a, s, b, o)
<1> DEFINE t == [s EXCEPT !.sent = f, !.retry = 0]
<1>1. o = [station |-> t, buffers |-> rest, out |-> <<f>>, asdu |-> NoAsdu]
  BY DEF S!PrimSend, S!Step
<1>2. f \in Frame
  BY DEF PeerAsks, Asks
<1>3. /\ t \in StationRec /\ t.lastResp = s.lastResp /\ t.sent = f /\ t.fcb = s.fcb
      /\ t.active = s.active /\ t.fcbExpected = s.fcbExpected
  BY <1>2 DEF IsStation, StationRec
<1> HIDE DEF t
<1>4. IsStation(bal, a, t)
  BY <1>3 DEF IsStation, PeerAsks
<1>5. o.station = t /\ o.buffers = rest /\ o.out = <<f>>
  BY <1>1
<1> QED
  BY <1>3, <1>4, <1>5 DEF StationAsks

\* prim_tick with nothing outstanding
LEMMA PrimTickIs ==
    ASSUME NEW bal, bal = TRUE, NEW a \in Nat, NEW s, IsStation(bal, a, s), NEW b \in BufferRec,
           NEW o, o = S!PrimTick(s, b, a)
    PROVE  \/ o.station = s /\ o.out = <<>> /\ o.buffers = b
           \/ StationAsks(bal, a, s, b, o)
<1>1. CASE s.active = FALSE
  <2> DEFINE c == [dir |-> FALSE, prm |-> TRUE, fcb |-> FALSE, fcv |-> FALSE,
                   acd |-> FALSE, dfc |-> FALSE, fun |-> RESET_LINK]
             f == [kind |-> "Fixed", control |-> c, addr |-> a]
  <2>1. o = S!PrimSend(s, b, f)
    <3>1. (FALSE /\ FALSE) = FALSE
      OBVIOUS
    <3>2. S!Primary(RESET_LINK, FALSE, FALSE, FALSE) = c
      BY <3>1, Zenon DEF S!Primary
    <3>3. o = S!PrimSend(s, b, S!Fixed(S!Primary(S!RESET_LINK, FALSE, FALSE, FALSE), a))
      BY <1>1 DEF S!PrimTick
    <3> HIDE DEF c
    <3> QED
      BY <3>2, <3>3, SNames DEF S!Fixed
  <2>2. c \in ControlField /\ c.prm = TRUE /\ c.fun = RESET_LINK /\ c.fcv = FALSE
    BY DEF ControlField, RESET_LINK
  <2> HIDE DEF c
  <2>3. f \in Frame /\ f.kind = "Fixed" /\ f.control = c /\ f.addr = a
    BY <2>2 DEF Frame
  <2> HIDE DEF f
  <2>4. PeerAsks(f)
    BY <2>2, <2>3, Codes DEF PeerAsks, Asks, IsPrim
  <2> QED
    BY <1>1, <2>1, <2>2, <2>3, <2>4, PrimSendIs
<1>2. CASE s.active # FALSE /\ b.prim = <<>>
  <2>1. o = [station |-> s, buffers |-> b, out |-> <<>>, asdu |-> NoAsdu]
    <3>1. s.active
      BY <1>2 DEF IsStation, StationRec
    <3> QED
      BY <1>2, <3>1 DEF S!PrimTick, S!Ignored, S!Step
  <2> QED
    BY <2>1
<1>3. CASE s.active # FALSE /\ b.prim # <<>>
  <2> DEFINE fcb == s.fcb
             e == Head(b.prim)
             c == [dir |-> FALSE, prm |-> TRUE, fcb |-> fcb, fcv |-> TRUE,
                   acd |-> FALSE, dfc |-> FALSE, fun |-> USER_DATA_CONF]
             f == [kind |-> "Variable", control |-> c, addr |-> a, asdu |-> e]
             rest == [b EXCEPT !.prim = Tail(@)]
  <2>1. s.active /\ fcb \in BOOLEAN /\ e \in Eventful
    <3>1. s.active /\ fcb \in BOOLEAN
      BY <1>3 DEF IsStation, StationRec
    <3>2. b["prim"] # <<>>
      BY <1>3
    <3>3. e \in Eventful
      BY <3>2, BufferHead
    <3> QED
      BY <3>1, <3>3
  <2>2. o = S!PrimSend(s, rest, f)
    <3>1. (TRUE /\ fcb) = fcb
      BY <2>1
    <3>2. S!Primary(USER_DATA_CONF, TRUE, fcb, FALSE) = c
      BY <3>1, Zenon DEF S!Primary
    <3>3. o = S!PrimSend(s, rest, S!Variable(S!Primary(S!USER_DATA_CONF, TRUE, fcb, FALSE), a, e))
      BY <1>3, <2>1 DEF S!PrimTick
    <3> HIDE DEF c, fcb, e, rest
    <3> QED
      BY <3>2, <3>3, SNames DEF S!Variable
  <2> HIDE DEF fcb, e
  <2>3. c \in ControlField
    BY <2>1 DEF ControlField, USER_DATA_CONF
  <2>4. c.prm = TRUE /\ c.fun = USER_DATA_CONF /\ c.fcv = TRUE /\ c.fcb = fcb
    BY <2>1
  <2> HIDE DEF c
  <2>5. f \in Frame /\ f.kind = "Variable" /\ f.control = c /\ f.addr = a /\ f.asdu = e
    BY <2>1, <2>3 DEF Frame
  <2> HIDE DEF f, rest
  <2>6. PeerAsks(f)
    BY <2>1, <2>4, <2>5, Codes DEF PeerAsks, Asks, IsPrim
  <2>7. /\ f.kind = "Variable" /\ b["prim"] # <<>> /\ f.asdu = Head(b["prim"])
        /\ rest = [b EXCEPT !["prim"] = Tail(@)]
    BY <1>3, <2>5 DEF e, rest
  <2>8. f.control.fcb = s.fcb /\ f.control.fun # RESET_LINK
    BY <2>4, <2>5, Codes DEF fcb
  <2> QED
    BY <2>1, <2>2, <2>5, <2>6, <2>7, <2>8, PrimSendIs
<1> QED
  BY <1>1, <1>2, <1>3

\* Station s has given its request up, exhausted, or repeated it.
StationTimesOut(bal, a, s, b, exhausted, o) ==
    /\ o.buffers = b
    /\ \/ exhausted /\ StationGivenUp(bal, a, s, o.station) /\ o.out = <<>>
       \/ /\ ~exhausted /\ IsStation(bal, a, o.station) /\ o.out = <<s.sent>>
          /\ o.station.sent = s.sent /\ o.station.fcb = s.fcb /\ o.station.active = s.active
          /\ o.station.fcbExpected = s.fcbExpected /\ o.station.lastResp = s.lastResp

\* prim_tick after the deadline of the frame outstanding
LEMMA PrimTimeoutIs ==
    ASSUME NEW bal, NEW a, NEW s, IsStation(bal, a, s), s.sent # NoFrame, NEW b,
           NEW o, o = S!PrimTimeout(s, b)
    PROVE  StationTimesOut(bal, a, s, b, S!PrimExhausted(s), o)
<1>1. CASE S!PrimExhausted(s)
  <2> DEFINE t == [s EXCEPT !.sent = NoFrame, !.retry = 0, !.active = FALSE]
  <2>1. o = [station |-> t, buffers |-> b, out |-> <<>>, asdu |-> NoAsdu]
    BY <1>1, SNames DEF S!PrimTimeout, S!Ignored, S!Step, S!Freed
  <2>2. /\ t \in StationRec /\ t.lastResp = s.lastResp /\ t.sent = NoFrame
        /\ t.active = FALSE /\ t.fcbExpected = s.fcbExpected
    BY DEF IsStation, StationRec
  <2> HIDE DEF t
  <2>3. StationGivenUp(bal, a, s, t)
    BY <2>2 DEF StationGivenUp, StationOver, IsStation
  <2>4. o.station = t /\ o.buffers = b /\ o.out = <<>>
    BY <2>1
  <2> QED
    BY <1>1, <2>3, <2>4 DEF StationTimesOut
<1>2. CASE ~S!PrimExhausted(s)
  <2> DEFINE t == [s EXCEPT !.retry = s.retry + 1]
  <2>1. o = [station |-> t, buffers |-> b, out |-> <<s.sent>>, asdu |-> NoAsdu]
    BY <1>2 DEF S!PrimTimeout, S!Step
  <2>2. s.retry + 1 \in Nat
    BY DEF IsStation, StationRec
  <2>3. /\ t \in StationRec /\ t.lastResp = s.lastResp /\ t.sent = s.sent
        /\ t.active = s.active /\ t.fcb = s.fcb /\ t.fcbExpected = s.fcbExpected
    BY <2>2 DEF IsStation, StationRec
  <2> HIDE DEF t
  <2>4. IsStation(bal, a, t)
    BY <2>3 DEF IsStation
  <2>5. o.station = t /\ o.buffers = b /\ o.out = <<s.sent>>
    BY <2>1
  <2> QED
    BY <1>2, <2>3, <2>4, <2>5 DEF StationTimesOut
<1> QED
  BY <1>1, <1>2

-----------------------------------------------------------------------------
(***************************************************************************)
(* The invariant is kept: first the primary station.                       *)
(***************************************************************************)

\* An idle link has nothing out to anyone.
LEMMA IdleSent ==
    ASSUME NEW l, l.sent = NoFrame, NEW a
    PROVE  SentTo(l, a) = NoFrame
BY DEF SentTo

\* What the invariant says of the answers on the way back.
LEMMA NoAnswerNone ==
    ASSUME NEW u, ~HasAnswer(u)
    PROVE  \A i \in 1 .. Len(u) : IsPrim(u[i])
BY DEF HasAnswer

\* No station has taken a request that has just been sent.
LEMMA LaunchedIsNew ==
    ASSUME NEW A \in SUBSET Nat, NEW bal, NEW l, NEW st, NEW dn, NEW u, NEW act,
           LineInv(A, bal, l, st, dn, u, act), l.sent = NoFrame,
           NEW m, NEW X, Launch(A, l, m, m.sent, X), NEW a \in A
    PROVE  ~Taken(m, st[a], a)
<1>1. Bits(On(l, a), l.secs[a].fcb, NoFrame, st[a].fcbExpected, HasAnswer(u))
  BY IdleSent DEF LineInv
<1>2. a = m.sent.addr /\ m.sent.control.fcv => On(l, a) /\ m.sent.control.fcb = l.secs[a].fcb
  BY DEF Launch
<1> QED
  BY <1>1, <1>2 DEF Bits, Taken

\* A request is sent.
LEMMA LaunchKeeps ==
    ASSUME NEW A \in SUBSET Nat, NEW bal, NEW l, NEW st, NEW dn, NEW u, NEW act,
           LineInv(A, bal, l, st, dn, u, act), l.sent = NoFrame,
           NEW m, NEW X, Launch(A, l, m, m.sent, X)
    PROVE  LineInv(A, bal, m, st, dn \o <<m.sent>>, u, act)
<1> DEFINE f == m.sent
           d == dn \o <<f>>
<1>0. /\ IsLink(A, m) /\ Asks(f) /\ f \in Frame /\ IsPrim(f) /\ f # NoFrame /\ f.addr \in A
      /\ m.fcbExpected = l.fcbExpected
  BY Kinds DEF Launch, Asks
<1>1. dn \in Seq(Frame) /\ u \in Seq(Frame)
  BY DEF LineInv
<1>2. ~HasPrim(dn) /\ ~HasAnswer(u)
  BY IdleLine DEF LineInv
<1>3. /\ d \in Seq(Frame)
      /\ HasAnswer(d) <=> HasAnswer(dn)
      /\ \A i \in 1 .. Len(d) : d[i] = f \/ (i \in 1 .. Len(dn) /\ d[i] = dn[i])
  BY <1>0, <1>1, JoinParts
<1>4. Exchange(f, d, u)
  <2>1. Exchange(f, dn, u)
    BY <1>2, Settles DEF LineInv
  <2> QED
    BY <1>0, <1>1, <1>2, <2>1, ThereJoined
<1> HIDE DEF f
<1>5. ASSUME NEW a \in A
      PROVE  Exchange(st[a].sent, u, d)
  <2>1. Exchange(st[a].sent, u, dn)
    BY DEF LineInv
  <2> QED
    BY <1>0, <1>1, <2>1, BackJoined
<1> HIDE DEF d
<1>6. ASSUME NEW a \in A
      PROVE  Bits(On(m, a), m.secs[a].fcb, SentTo(m, a), st[a].fcbExpected, HasAnswer(u))
  <2>1. Bits(On(l, a), l.secs[a].fcb, NoFrame, st[a].fcbExpected, HasAnswer(u))
    BY IdleSent DEF LineInv
  <2>2. m.secs[a].fcb = l.secs[a].fcb /\ (On(m, a) => On(l, a))
    BY DEF Launch, f
  <2>3. CASE a = f.addr
    <3>1. SentTo(m, a) = f
      BY <1>0, <2>3 DEF SentTo, f
    <3>2. /\ f.control.fcv => On(m, a) /\ f.control.fcb = l.secs[a].fcb
          /\ f.control.fun = RESET_LINK => ~On(m, a)
      BY <2>3 DEF Launch, f
    <3> QED
      BY <1>2, <2>1, <2>2, <3>1, <3>2 DEF Bits
  <2>4. CASE a # f.addr
    <3>1. SentTo(m, a) = NoFrame
      BY <2>4 DEF SentTo, f
    <3> QED
      BY <2>1, <2>2, <3>1 DEF Bits
  <2> QED
    BY <2>3, <2>4
<1>7. ASSUME NEW a \in A
      PROVE  Bits(st[a].active, st[a].fcb, st[a].sent, m.fcbExpected, HasAnswer(d))
  <2>1. Bits(st[a].active, st[a].fcb, st[a].sent, l.fcbExpected, HasAnswer(dn))
    BY DEF LineInv
  <2> QED
    BY <1>0, <1>3, <2>1 DEF Bits
<1>8. \A a \in A : ~Taken(m, st[a], a)
  BY LaunchedIsNew DEF f
<1>9. /\ \A i \in 1 .. Len(u) : IsPrim(u[i])
      /\ \A i \in 1 .. Len(d) : ~IsPrim(d[i]) => Affirms(d[i])
  BY <1>0, <1>2, <1>3, NoAnswerNone DEF LineInv
<1> QED
  <2>1. LineInv(A, bal, m, st, d, u, act)
    BY <1>0, <1>1, <1>3, <1>4, <1>5, <1>6, <1>7, <1>8, <1>9 DEF LineInv, f
  <2> QED
    BY <2>1 DEF d, f

\* A link that has not changed.
LEMMA SameKeeps ==
    ASSUME NEW A \in SUBSET Nat, NEW bal, NEW l, NEW st, NEW dn, NEW u, NEW act,
           LineInv(A, bal, l, st, dn, u, act), NEW m, LinkSame(A, l, m)
    PROVE  LineInv(A, bal, m, st, dn, u, act)
<1>1. /\ IsLink(A, m) /\ m.sent = l.sent /\ m.fcbExpected = l.fcbExpected
      /\ \A a \in A : m.secs[a].fcb = l.secs[a].fcb /\ (On(m, a) <=> On(l, a))
  BY DEF LinkSame
<1>2. ASSUME NEW a \in A
      PROVE  /\ Bits(On(m, a), m.secs[a].fcb, SentTo(m, a), st[a].fcbExpected, HasAnswer(u))
             /\ Taken(m, st[a], a) => Carried(m.sent) \subseteq ToSet(act[a])
  <2>1. Bits(On(l, a), l.secs[a].fcb, SentTo(l, a), st[a].fcbExpected, HasAnswer(u))
    BY DEF LineInv
  <2>2. SentTo(m, a) = SentTo(l, a) /\ (Taken(m, st[a], a) <=> Taken(l, st[a], a))
    BY <1>1 DEF SentTo, Taken
  <2>3. Taken(l, st[a], a) => Carried(l.sent) \subseteq ToSet(act[a])
    BY DEF LineInv
  <2> QED
    BY <1>1, <2>1, <2>2, <2>3 DEF Bits
<1> QED
  BY <1>1, <1>2 DEF LineInv

\* A frame to the primary station is lost.
LEMMA UpLost ==
    ASSUME NEW A \in SUBSET Nat, NEW bal, NEW l, NEW st, NEW dn, NEW u, NEW act,
           LineInv(A, bal, l, st, dn, u, act), u # <<>>
    PROVE  LineInv(A, bal, l, st, dn, Tail(u), act)
<1> DEFINE v == Tail(u)
<1>1. dn \in Seq(Frame) /\ u \in Seq(Frame)
  BY DEF LineInv
<1>2. /\ v \in Seq(Frame)
      /\ \A i \in 1 .. Len(v) : v[i] = u[i + 1] /\ i + 1 \in 1 .. Len(u)
  BY <1>1, HeadTail
<1>3. HasAnswer(v) => HasAnswer(u)
  BY <1>1, TailParts
<1>4. Exchange(l.sent, dn, v)
  <2>1. Exchange(l.sent, dn, u)
    BY DEF LineInv
  <2> QED
    BY <1>1, <2>1, BackTaken
<1>5. ASSUME NEW a \in A
      PROVE  Exchange(st[a].sent, v, dn)
  <2>1. Exchange(st[a].sent, u, dn)
    BY DEF LineInv
  <2> QED
    BY <1>1, <2>1, ThereTaken
<1> HIDE DEF v
<1>6. ASSUME NEW a \in A
      PROVE  Bits(On(l, a), l.secs[a].fcb, SentTo(l, a), st[a].fcbExpected, HasAnswer(v))
  <2>1. Bits(On(l, a), l.secs[a].fcb, SentTo(l, a), st[a].fcbExpected, HasAnswer(u))
    BY DEF LineInv
  <2> QED
    BY <1>3, <2>1 DEF Bits
<1>7. \A i \in 1 .. Len(v) : ~IsPrim(v[i]) => v[i] = st[l.sent.addr].lastResp
  BY <1>2 DEF LineInv
<1>8. LineInv(A, bal, l, st, dn, v, act)
  BY <1>1, <1>2, <1>4, <1>5, <1>6, <1>7 DEF LineInv
<1> QED
  BY <1>8 DEF v

\* A frame to the stations is lost.
LEMMA DownLost ==
    ASSUME NEW A \in SUBSET Nat, NEW bal, NEW l, NEW st, NEW dn, NEW u, NEW act,
           LineInv(A, bal, l, st, dn, u, act), dn # <<>>
    PROVE  LineInv(A, bal, l, st, Tail(dn), u, act)
<1> DEFINE d == Tail(dn)
<1>1. dn \in Seq(Frame) /\ u \in Seq(Frame)
  BY DEF LineInv
<1>2. /\ d \in Seq(Frame)
      /\ \A i \in 1 .. Len(d) : d[i] = dn[i + 1] /\ i + 1 \in 1 .. Len(dn)
  BY <1>1, HeadTail
<1>3. HasAnswer(d) => HasAnswer(dn)
  BY <1>1, TailParts
<1>4. Exchange(l.sent, d, u)
  <2>1. Exchange(l.sent, dn, u)
    BY DEF LineInv
  <2> QED
    BY <1>1, <2>1, ThereTaken
<1>5. ASSUME NEW a \in A
      PROVE  Exchange(st[a].sent, u, d)
  <2>1. Exchange(st[a].sent, u, dn)
    BY DEF LineInv
  <2> QED
    BY <1>1, <2>1, BackTaken
<1> HIDE DEF d
<1>6. ASSUME NEW a \in A
      PROVE  Bits(st[a].active, st[a].fcb, st[a].sent, l.fcbExpected, HasAnswer(d))
  <2>1. Bits(st[a].active, st[a].fcb, st[a].sent, l.fcbExpected, HasAnswer(dn))
    BY DEF LineInv
  <2> QED
    BY <1>3, <2>1 DEF Bits
<1>7. \A i \in 1 .. Len(d) : ~IsPrim(d[i]) => Affirms(d[i])
  BY <1>2 DEF LineInv
<1>8. LineInv(A, bal, l, st, d, u, act)
  BY <1>1, <1>2, <1>4, <1>5, <1>6, <1>7 DEF LineInv
<1> QED
  BY <1>8 DEF d

\* The answer on the way back is the last of the station asked, and none refuses.
LEMMA HeadAffirms ==
    ASSUME NEW A \in SUBSET Nat, NEW bal, NEW l, NEW st, NEW dn, NEW u, NEW act,
           LineInv(A, bal, l, st, dn, u, act), u # <<>>, ~IsPrim(Head(u))
    PROVE  /\ l.sent # NoFrame /\ l.sent.addr \in A
           /\ Head(u) = st[l.sent.addr].lastResp /\ Affirms(Head(u)) /\ Head(u) \in Frame
           /\ Head(u).kind # "SingleCharAck" => Head(u).addr = l.sent.addr
           /\ HasAnswer(u) /\ ~HasPrim(dn) /\ ~HasAnswer(Tail(u))
<1> DEFINE f == Head(u)
<1>1. dn \in Seq(Frame) /\ u \in Seq(Frame)
  BY DEF LineInv
<1>2. f = u[1] /\ 1 \in 1 .. Len(u) /\ f \in Frame
  BY <1>1, HeadTail
<1>3. l.sent # NoFrame /\ HasAnswer(u) /\ ~HasPrim(dn) /\ ~HasAnswer(Tail(u))
  <2>1. Exchange(l.sent, dn, u)
    BY DEF LineInv
  <2> QED
    BY <1>1, <2>1, BackTaken
<1> HIDE DEF f
<1>4. l.sent.addr \in A
  BY <1>3 DEF LineInv, IsLink
<1>5. f = st[l.sent.addr].lastResp /\ f # NoFrame
  BY <1>2, Kinds DEF LineInv, f
<1>6. Affirms(f) /\ (f.kind # "SingleCharAck" => f.addr = l.sent.addr)
  BY <1>4, <1>5 DEF LineInv, IsStation
<1> QED
  BY <1>2, <1>3, <1>4, <1>5, <1>6 DEF f

\* An answer is taken: the frame that it confirms was acted on.
LEMMA ReplyKeeps ==
    ASSUME NEW A \in SUBSET Nat, NEW bal, NEW l, NEW st, NEW dn, NEW u, NEW act,
           LineInv(A, bal, l, st, dn, u, act), u # <<>>, ~IsPrim(Head(u)),
           NEW m, NEW done, Replied(A, l, Head(u), m, done)
    PROVE  /\ LineInv(A, bal, m, st, dn, Tail(u), act)
           /\ \/ LinkSame(A, l, m) /\ done = NoFrame
              \/ LinkConfirmed(A, l, m) /\ done = l.sent
           /\ done # NoFrame => Carried(done) \subseteq ToSet(act[done.addr])
<1> DEFINE f == Head(u)
           v == Tail(u)
<1>0. /\ l.sent # NoFrame /\ l.sent.addr \in A /\ Affirms(f)
      /\ HasAnswer(u) /\ ~HasPrim(dn) /\ ~HasAnswer(v)
  BY HeadAffirms
<1>1. LineInv(A, bal, l, st, dn, v, act)
  BY UpLost
<1>2. CASE LinkSame(A, l, m) /\ done = NoFrame
  BY <1>1, <1>2, SameKeeps
<1>3. CASE LinkConfirmed(A, l, m) /\ done = l.sent
  <2> HIDE DEF f, v
  <2> DEFINE c == l.sent.control
             b == l.sent.addr
  <2>1. /\ IsLink(A, m) /\ m.sent = NoFrame /\ m.fcbExpected = l.fcbExpected
        /\ \A a \in A : a # b => m.secs[a].fcb = l.secs[a].fcb /\ (On(m, a) <=> On(l, a))
        /\ c.fcv => m.secs[b].fcb = ~c.fcb
        /\ c.fun = RESET_LINK => m.secs[b].fcb = TRUE
        /\ ~c.fcv /\ c.fun # RESET_LINK => m.secs[b].fcb = l.secs[b].fcb /\ (On(m, b) => On(l, b))
    BY <1>3 DEF LinkConfirmed, Over
  <2>2. Exchange(m.sent, dn, v)
    <3>1. Exchange(l.sent, dn, v)
      BY <1>1 DEF LineInv
    <3> QED
      BY <1>0, <3>1, Settles
  <2>3. Bits(On(l, b), l.secs[b].fcb, l.sent, st[b].fcbExpected, HasAnswer(u))
    <3>1. SentTo(l, b) = l.sent
      BY <1>0 DEF SentTo
    <3> QED
      BY <1>0, <3>1 DEF LineInv
  <2>4. c.fcb \in BOOLEAN /\ st[b].fcbExpected \in BOOLEAN
    <3>1. IsStation(bal, b, st[b]) /\ Asks(l.sent)
      BY <1>0 DEF LineInv, IsLink
    <3>2. c \in ControlField
      BY <3>1, Kinds DEF Asks, IsPrim
    <3> QED
      BY <3>1, <3>2 DEF IsStation, StationRec, ControlField
  <2>5. ASSUME NEW a \in A
        PROVE  Bits(On(m, a), m.secs[a].fcb, SentTo(m, a), st[a].fcbExpected, HasAnswer(v))
    <3>1. SentTo(m, a) = NoFrame
      BY <2>1, IdleSent
    <3>2. CASE a = b
      <4>1. CASE c.fcv
        <5>1. st[b].fcbExpected # c.fcb
          BY <1>0, <2>3, <4>1 DEF Bits
        <5>2. st[b].fcbExpected = ~c.fcb
          BY <2>4, <5>1
        <5> QED
          BY <2>1, <3>1, <3>2, <4>1, <5>2 DEF Bits
      <4>2. CASE ~c.fcv /\ c.fun = RESET_LINK
        BY <1>0, <2>1, <2>3, <3>1, <3>2, <4>2 DEF Bits
      <4>3. CASE ~c.fcv /\ c.fun # RESET_LINK
        BY <1>0, <2>1, <2>3, <3>1, <3>2, <4>3 DEF Bits
      <4> QED
        BY <4>1, <4>2, <4>3
    <3>3. CASE a # b
      <4>1. SentTo(l, a) = NoFrame
        BY <3>3 DEF SentTo
      <4>2. Bits(On(l, a), l.secs[a].fcb, NoFrame, st[a].fcbExpected, HasAnswer(u))
        BY <4>1 DEF LineInv
      <4> QED
        BY <2>1, <3>1, <3>3, <4>2 DEF Bits
    <3> QED
      BY <3>2, <3>3
  <2>6. \A i \in 1 .. Len(v) : IsPrim(v[i])
    BY <1>0, NoAnswerNone
  <2>7. \A a \in A : ~Taken(m, st[a], a)
    BY <2>1 DEF Taken
  <2>8. LineInv(A, bal, m, st, dn, v, act)
    BY <1>1, <2>1, <2>2, <2>5, <2>6, <2>7 DEF LineInv
  <2>9. Carried(l.sent) \subseteq ToSet(act[b])
    <3>1. CASE c.fcv
      <4>1. Taken(l, st[b], b)
        BY <1>0, <2>3, <3>1 DEF Bits, Taken
      <4> QED
        BY <1>0, <4>1 DEF LineInv
    <3>2. CASE ~c.fcv
      <4>1. Asks(l.sent)
        BY <1>0 DEF LineInv, IsLink
      <4>2. l.sent.kind # "Variable"
        BY <3>2, <4>1, Codes DEF Asks
      <4> QED
        BY <4>2 DEF Carried
    <3> QED
      BY <3>1, <3>2
  <2> QED
    BY <1>3, <2>8, <2>9 DEF v
<1>4. CASE LinkGivenUp(A, l, m) /\ done = NoFrame /\ ~Affirms(f)
  BY <1>0, <1>4
<1> QED
  BY <1>2, <1>3, <1>4 DEF Replied

\* The request out is repeated.
LEMMA RepeatKeeps ==
    ASSUME NEW A \in SUBSET Nat, NEW bal, NEW l, NEW st, NEW dn, NEW u, NEW act,
           LineInv(A, bal, l, st, dn, u, act), l.sent # NoFrame, ~HasPrim(dn), ~HasAnswer(u)
    PROVE  LineInv(A, bal, l, st, dn \o <<l.sent>>, u, act)
<1> DEFINE f == l.sent
           d == dn \o <<f>>
<1>0. Asks(f) /\ f \in Frame /\ IsPrim(f)
  BY DEF LineInv, IsLink, Asks
<1>1. dn \in Seq(Frame) /\ u \in Seq(Frame)
  BY DEF LineInv
<1>2. /\ d \in Seq(Frame)
      /\ HasAnswer(d) <=> HasAnswer(dn)
      /\ \A i \in 1 .. Len(d) : d[i] = f \/ (i \in 1 .. Len(dn) /\ d[i] = dn[i])
  BY <1>0, <1>1, JoinParts
<1>3. Exchange(f, d, u)
  <2>1. Exchange(f, dn, u)
    BY DEF LineInv
  <2> QED
    BY <1>0, <1>1, <2>1, ThereJoined
<1> HIDE DEF f
<1>4. ASSUME NEW a \in A
      PROVE  Exchange(st[a].sent, u, d)
  <2>1. Exchange(st[a].sent, u, dn)
    BY DEF LineInv
  <2> QED
    BY <1>0, <1>1, <2>1, BackJoined
<1> HIDE DEF d
<1>5. ASSUME NEW a \in A
      PROVE  Bits(st[a].active, st[a].fcb, st[a].sent, l.fcbExpected, HasAnswer(d))
  <2>1. Bits(st[a].active, st[a].fcb, st[a].sent, l.fcbExpected, HasAnswer(dn))
    BY DEF LineInv
  <2> QED
    BY <1>2, <2>1 DEF Bits
<1>6. \A i \in 1 .. Len(d) : ~IsPrim(d[i]) => Affirms(d[i])
  BY <1>0, <1>2 DEF LineInv
<1>7. LineInv(A, bal, l, st, d, u, act)
  BY <1>1, <1>2, <1>3, <1>4, <1>5, <1>6 DEF LineInv, f
<1> QED
  BY <1>7 DEF d, f

\* The request out is given up.
LEMMA GiveUpKeeps ==
    ASSUME NEW A \in SUBSET Nat, NEW bal, NEW l, NEW st, NEW dn, NEW u, NEW act,
           LineInv(A, bal, l, st, dn, u, act), ~HasPrim(dn), ~HasAnswer(u),
           NEW m, LinkGivenUp(A, l, m)
    PROVE  LineInv(A, bal, m, st, dn, u, act)
<1> DEFINE b == l.sent.addr
<1>1. /\ IsLink(A, m) /\ l.sent # NoFrame /\ m.sent = NoFrame /\ m.fcbExpected = l.fcbExpected
      /\ ~On(m, b)
      /\ \A a \in A : a # b => m.secs[a].fcb = l.secs[a].fcb /\ (On(m, a) <=> On(l, a))
  BY DEF LinkGivenUp, Over
<1>2. Exchange(m.sent, dn, u)
  BY Settles DEF LineInv
<1>3. ASSUME NEW a \in A
      PROVE  Bits(On(m, a), m.secs[a].fcb, SentTo(m, a), st[a].fcbExpected, HasAnswer(u))
  <2>1. SentTo(m, a) = NoFrame
    BY <1>1, IdleSent
  <2>2. CASE a = b
    BY <1>1, <2>1, <2>2 DEF Bits
  <2>3. CASE a # b
    <3>1. SentTo(l, a) = NoFrame
      BY <2>3 DEF SentTo
    <3>2. Bits(On(l, a), l.secs[a].fcb, NoFrame, st[a].fcbExpected, HasAnswer(u))
      BY <3>1 DEF LineInv
    <3> QED
      BY <1>1, <2>1, <2>3, <3>2 DEF Bits
  <2> QED
    BY <2>2, <2>3
<1>4. \A i \in 1 .. Len(u) : IsPrim(u[i])
  BY NoAnswerNone
<1>5. \A a \in A : ~Taken(m, st[a], a)
  BY <1>1 DEF Taken
<1> QED
  BY <1>1, <1>2, <1>3, <1>4, <1>5 DEF LineInv

\* A request of the peer on the way back is what its station has out.
LEMMA HeadPeer ==
    ASSUME NEW A \in SUBSET Nat, NEW bal, NEW l, NEW st, NEW dn, NEW u, NEW act,
           LineInv(A, bal, l, st, dn, u, act), u # <<>>, IsPrim(Head(u)), NEW a \in A
    PROVE  /\ Head(u) = st[a].sent /\ st[a].sent # NoFrame /\ PeerAsks(Head(u))
           /\ Head(u).addr = a /\ bal
           /\ ~HasAnswer(dn) /\ ~HasPrim(Tail(u))
<1>1. dn \in Seq(Frame) /\ u \in Seq(Frame) /\ Exchange(st[a].sent, u, dn)
  BY DEF LineInv
<1>2. Head(u) = st[a].sent /\ st[a].sent # NoFrame /\ ~HasAnswer(dn) /\ ~HasPrim(Tail(u))
  BY <1>1, ThereTaken
<1>3. IsStation(bal, a, st[a])
  BY DEF LineInv
<1> QED
  BY <1>2, <1>3 DEF IsStation, PeerAsks

\* A request of the peer is answered.
LEMMA PeerKeeps ==
    ASSUME NEW A \in SUBSET Nat, NEW bal, NEW l, NEW st, NEW dn, NEW u, NEW act,
           LineInv(A, bal, l, st, dn, u, act), u # <<>>, IsPrim(Head(u)),
           NEW m, NEW g, PeerAnswered(A, l, Head(u), m, g)
    PROVE  LineInv(A, bal, m, st, dn \o <<g>>, Tail(u), act)
<1> DEFINE f == Head(u)
           v == Tail(u)
           d == dn \o <<g>>
<1>0. /\ IsLink(A, m) /\ m.sent = l.sent
      /\ \A a \in A : m.secs[a].fcb = l.secs[a].fcb /\ (On(m, a) <=> On(l, a))
      /\ NextBit(f, l.fcbExpected, m.fcbExpected)
      /\ Affirms(g) /\ g \in Frame /\ ~IsPrim(g)
  BY DEF PeerAnswered, Affirms
<1>1. dn \in Seq(Frame) /\ u \in Seq(Frame)
  BY DEF LineInv
<1>2. /\ v \in Seq(Frame)
      /\ \A i \in 1 .. Len(v) : v[i] = u[i + 1] /\ i + 1 \in 1 .. Len(u)
  BY <1>1, HeadTail
<1>3. HasAnswer(v) => HasAnswer(u)
  BY <1>1, TailParts
<1>4. /\ d \in Seq(Frame)
      /\ HasAnswer(d)
      /\ \A i \in 1 .. Len(d) : d[i] = g \/ (i \in 1 .. Len(dn) /\ d[i] = dn[i])
  BY <1>0, <1>1, JoinParts
<1>5. ASSUME NEW a \in A
      PROVE  /\ f = st[a].sent /\ st[a].sent # NoFrame
             /\ f.control.fun \in {RESET_LINK, USER_DATA_CONF}
             /\ f.control.fcv <=> f.control.fun \in Counted
             /\ ~HasAnswer(dn) /\ ~HasPrim(v)
  BY HeadPeer DEF PeerAsks, Asks
<1>6. Exchange(m.sent, d, v)
  <2>1. Exchange(m.sent, dn, u)
    BY <1>0 DEF LineInv
  <2>2. Exchange(m.sent, dn, v)
    BY <1>1, <2>1, BackTaken
  <2> QED
    BY <1>0, <1>1, <1>2, <2>2, ThereJoined
<1>7. ASSUME NEW a \in A
      PROVE  Exchange(st[a].sent, v, d)
  <2>1. Exchange(st[a].sent, u, dn)
    BY DEF LineInv
  <2>2. Exchange(st[a].sent, v, dn)
    BY <1>1, <2>1, ThereTaken
  <2> QED
    BY <1>0, <1>1, <1>2, <1>5, <2>2, BackJoined
<1> HIDE DEF d, f, v
<1>8. ASSUME NEW a \in A
      PROVE  /\ Bits(On(m, a), m.secs[a].fcb, SentTo(m, a), st[a].fcbExpected, HasAnswer(v))
             /\ Taken(m, st[a], a) => Carried(m.sent) \subseteq ToSet(act[a])
  <2>1. Bits(On(l, a), l.secs[a].fcb, SentTo(l, a), st[a].fcbExpected, HasAnswer(u))
    BY DEF LineInv
  <2>2. SentTo(m, a) = SentTo(l, a) /\ (Taken(m, st[a], a) <=> Taken(l, st[a], a))
    BY <1>0 DEF SentTo, Taken
  <2>3. Taken(l, st[a], a) => Carried(l.sent) \subseteq ToSet(act[a])
    BY DEF LineInv
  <2> QED
    BY <1>0, <1>3, <2>1, <2>2, <2>3 DEF Bits
<1>9. ASSUME NEW a \in A
      PROVE  Bits(st[a].active, st[a].fcb, st[a].sent, m.fcbExpected, HasAnswer(d))
  <2>1. Bits(st[a].active, st[a].fcb, st[a].sent, l.fcbExpected, HasAnswer(dn))
    BY DEF LineInv
  <2> QED
    BY <1>0, <1>4, <1>5, <2>1, Codes DEF Bits, NextBit
<1>10. /\ \A i \in 1 .. Len(v) : ~IsPrim(v[i]) => v[i] = st[m.sent.addr].lastResp
       /\ \A i \in 1 .. Len(d) : ~IsPrim(d[i]) => Affirms(d[i])
  BY <1>0, <1>2, <1>4 DEF LineInv
<1>11. LineInv(A, bal, m, st, d, v, act)
  BY <1>0, <1>1, <1>2, <1>4, <1>6, <1>7, <1>8, <1>9, <1>10 DEF LineInv
<1> QED
  BY <1>11 DEF d, v

-----------------------------------------------------------------------------
(***************************************************************************)
(* The invariant is kept: the stations.                                    *)
(***************************************************************************)

\* A request on the way is what the primary station has out.
LEMMA HeadAsks ==
    ASSUME NEW A \in SUBSET Nat, NEW bal, NEW l, NEW st, NEW dn, NEW u, NEW act,
           LineInv(A, bal, l, st, dn, u, act), dn # <<>>, IsPrim(Head(dn))
    PROVE  /\ Head(dn) = l.sent /\ l.sent # NoFrame /\ Asks(l.sent) /\ l.sent.addr \in A
           /\ ~HasAnswer(u) /\ ~HasPrim(Tail(dn))
<1>1. dn \in Seq(Frame) /\ u \in Seq(Frame) /\ Exchange(l.sent, dn, u)
  BY DEF LineInv
<1>2. Head(dn) = l.sent /\ l.sent # NoFrame /\ ~HasAnswer(u) /\ ~HasPrim(Tail(dn))
  BY <1>1, ThereTaken
<1> QED
  BY <1>2 DEF LineInv, IsLink

\* Of stations st, a has become t.
Changes(A, a, st, st2, t) == st2[a] = t /\ \A x \in A : x # a => st2[x] = st[x]

\* Station a in state s acts on request f, if that is new user data.
ActsOn(A, a, f, s, act, act2) ==
    /\ \A x \in A : ToSet(act[x]) \subseteq ToSet(act2[x])
    /\ f.kind = "Variable" /\ ~Old(f, s) => f.asdu \in ToSet(act2[a])

\* A station answers a request.
LEMMA ServedKeeps ==
    ASSUME NEW A \in SUBSET Nat, NEW bal, NEW l, NEW st, NEW dn, NEW u, NEW act,
           LineInv(A, bal, l, st, dn, u, act), dn # <<>>, IsPrim(Head(dn)),
           NEW a \in A, l.sent.addr = a, NEW b, NEW o, Served(bal, a, st[a], b, l.sent, o),
           NEW st2, Changes(A, a, st, st2, o.station),
           NEW act2, ActsOn(A, a, l.sent, st[a], act, act2)
    PROVE  LineInv(A, bal, l, st2, Tail(dn), u \o o.out, act2)
<1> DEFINE f == l.sent
           s == st[a]
           t == st2[a]
           r == t.lastResp
           d == Tail(dn)
           v == u \o <<r>>
<1>0. /\ f # NoFrame /\ Asks(f) /\ IsPrim(f) /\ ~HasAnswer(u) /\ ~HasPrim(d)
      /\ f.control.fcv <=> f.control.fun \in Counted
  BY HeadAsks DEF Asks
<1>1. /\ IsStation(bal, a, t) /\ NextBit(f, s.fcbExpected, t.fcbExpected)
      /\ t.sent = s.sent /\ t.fcb = s.fcb /\ t.active = s.active
      /\ o.out = <<r>> /\ Affirms(r) /\ r \in Frame /\ ~IsPrim(r)
      /\ \A x \in A : x # a => st2[x] = st[x]
      /\ \A x \in A : ToSet(act[x]) \subseteq ToSet(act2[x])
      /\ f.kind = "Variable" /\ ~Old(f, s) => f.asdu \in ToSet(act2[a])
  BY DEF Served, Affirms, Changes, ActsOn
<1>2. dn \in Seq(Frame) /\ u \in Seq(Frame)
  BY DEF LineInv
<1>3. /\ d \in Seq(Frame)
      /\ \A i \in 1 .. Len(d) : d[i] = dn[i + 1] /\ i + 1 \in 1 .. Len(dn)
  BY <1>2, HeadTail
<1>4. HasAnswer(d) => HasAnswer(dn)
  BY <1>2, TailParts
<1> HIDE DEF r
<1>5. /\ v \in Seq(Frame)
      /\ HasAnswer(v)
      /\ \A i \in 1 .. Len(v) : v[i] = r \/ (i \in 1 .. Len(u) /\ v[i] = u[i])
  BY <1>1, <1>2, JoinParts
<1> HIDE DEF f, t
<1>6. Exchange(f, d, v)
  <2>1. Exchange(f, dn, u)
    BY DEF LineInv, f
  <2>2. Exchange(f, d, u)
    BY <1>2, <2>1, ThereTaken
  <2> QED
    BY <1>0, <1>1, <1>2, <1>3, <2>2, BackJoined
<1>7. \A x \in A : /\ st2[x].sent = st[x].sent /\ st2[x].fcb = st[x].fcb
                   /\ st2[x].active = st[x].active /\ IsStation(bal, x, st2[x])
  BY <1>1 DEF t, LineInv
<1>8. ASSUME NEW x \in A
      PROVE  Exchange(st2[x].sent, v, d)
  <2>1. Exchange(st[x].sent, u, dn)
    BY DEF LineInv
  <2>2. Exchange(st[x].sent, u, d)
    BY <1>2, <2>1, BackTaken
  <2>3. Exchange(st[x].sent, v, d)
    BY <1>1, <1>2, <1>3, <2>2, ThereJoined
  <2> QED
    BY <1>7, <2>3
<1> HIDE DEF d, v
<1>9. ASSUME NEW x \in A
      PROVE  /\ Bits(On(l, x), l.secs[x].fcb, SentTo(l, x), st2[x].fcbExpected, HasAnswer(v))
             /\ Taken(l, st2[x], x) => Carried(f) \subseteq ToSet(act2[x])
  <2>1. Bits(On(l, x), l.secs[x].fcb, SentTo(l, x), st[x].fcbExpected, HasAnswer(u))
    BY DEF LineInv
  <2>2. Taken(l, st[x], x) => Carried(f) \subseteq ToSet(act2[x])
    <3>1. Taken(l, st[x], x) => Carried(f) \subseteq ToSet(act[x])
      BY DEF LineInv, f
    <3> QED
      BY <1>1, <3>1
  <2>3. CASE x = a
    <3>1. SentTo(l, x) = f
      BY <1>0, <2>3 DEF SentTo, f
    <3>2. st2[x] = t
      BY <2>3 DEF t
    <3>3. f.control.fun = RESET_LINK => ~f.control.fcv
      BY <1>0, Codes
    <3>4. Bits(On(l, x), l.secs[x].fcb, f, t.fcbExpected, HasAnswer(v))
      BY <1>0, <1>1, <1>5, <2>1, <2>3, <3>1, <3>3 DEF Bits, NextBit
    <3>5. Taken(l, st2[x], x) => Carried(f) \subseteq ToSet(act2[x])
      <4> SUFFICES ASSUME f.control.fcv PROVE Carried(f) \subseteq ToSet(act2[x])
        BY DEF Taken, f
      <4>1. CASE Old(f, s)
        <5>1. Taken(l, s, x)
          BY <1>0, <2>3, <4>1 DEF Taken, Old, f
        <5> QED
          BY <1>1, <2>2, <2>3, <5>1
      <4>2. CASE ~Old(f, s)
        BY <1>1, <2>3, <4>2 DEF Carried
      <4> QED
        BY <4>1, <4>2
    <3> QED
      BY <3>1, <3>2, <3>4, <3>5
  <2>4. CASE x # a
    <3>1. SentTo(l, x) = NoFrame /\ st2[x] = st[x]
      BY <1>1, <2>4 DEF SentTo
    <3> QED
      BY <1>1, <2>1, <2>2, <2>4, <3>1 DEF Bits, Taken
  <2> QED
    BY <2>3, <2>4
<1>10. ASSUME NEW x \in A
       PROVE  Bits(st2[x].active, st2[x].fcb, st2[x].sent, l.fcbExpected, HasAnswer(d))
  <2>1. Bits(st[x].active, st[x].fcb, st[x].sent, l.fcbExpected, HasAnswer(dn))
    BY DEF LineInv
  <2> QED
    BY <1>4, <1>7, <2>1 DEF Bits
<1>11. /\ \A i \in 1 .. Len(v) : ~IsPrim(v[i]) => v[i] = st2[l.sent.addr].lastResp
       /\ \A i \in 1 .. Len(d) : ~IsPrim(d[i]) => Affirms(d[i])
  <2>1. \A i \in 1 .. Len(u) : IsPrim(u[i])
    BY <1>0, NoAnswerNone
  <2>2. st2[l.sent.addr].lastResp = r
    BY DEF r, t
  <2> QED
    BY <1>3, <1>5, <2>1, <2>2 DEF LineInv
<1>12. LineInv(A, bal, l, st2, d, v, act2)
  BY <1>3, <1>5, <1>6, <1>7, <1>8, <1>9, <1>10, <1>11 DEF LineInv, f
<1> QED
  BY <1>1, <1>12 DEF d, v

\* As far as the requests to it go, station s has not changed by becoming t.
ServesAlike(s, t) == t.fcbExpected = s.fcbExpected /\ t.lastResp = s.lastResp

\* The only station changes in its primary role.
LEMMA StationMoves ==
    ASSUME NEW A \in SUBSET Nat, NEW bal, NEW l, NEW st, NEW dn, NEW u, NEW act,
           LineInv(A, bal, l, st, dn, u, act), NEW a \in A, bal = TRUE,
           NEW st2, IsStation(bal, a, st2[a]), ServesAlike(st[a], st2[a]),
           Exchange(st2[a].sent, u, dn),
           Bits(st2[a].active, st2[a].fcb, st2[a].sent, l.fcbExpected, HasAnswer(dn))
    PROVE  LineInv(A, bal, l, st2, dn, u, act)
<1>1. \A x \in A : x = a
  BY DEF LineInv
<1>2. \A x \in A : st2[x].fcbExpected = st[x].fcbExpected
  BY <1>1 DEF ServesAlike
<1>3. ASSUME NEW x \in A
      PROVE  /\ Bits(On(l, x), l.secs[x].fcb, SentTo(l, x), st2[x].fcbExpected, HasAnswer(u))
             /\ Taken(l, st2[x], x) => Carried(l.sent) \subseteq ToSet(act[x])
  <2>1. st2[x].fcbExpected = st[x].fcbExpected
    BY <1>2
  <2> QED
    BY <2>1 DEF LineInv, Taken
<1>4. \A i \in 1 .. Len(u) : ~IsPrim(u[i]) => u[i] = st2[l.sent.addr].lastResp
  <2> SUFFICES ASSUME NEW i \in 1 .. Len(u), ~IsPrim(u[i])
               PROVE  u[i] = st2[l.sent.addr].lastResp
    OBVIOUS
  <2>1. l.sent # NoFrame
    BY DEF LineInv, Exchange, HasAnswer
  <2>2. l.sent.addr = a
    BY <1>1, <2>1 DEF LineInv, IsLink
  <2> QED
    BY <2>2 DEF LineInv, ServesAlike
<1> QED
  BY <1>1, <1>3, <1>4 DEF LineInv

\* An answer arrives at a station.
LEMMA StationAnswerKeeps ==
    ASSUME NEW A \in SUBSET Nat, NEW bal, NEW l, NEW st, NEW dn, NEW u, NEW act,
           LineInv(A, bal, l, st, dn, u, act), dn # <<>>, ~IsPrim(Head(dn)),
           NEW a \in A, bal = TRUE, NEW st2,
           st2[a] = st[a] \/ StationConfirmed(bal, a, st[a], st2[a])
    PROVE  LineInv(A, bal, l, st2, Tail(dn), u, act)
<1> DEFINE d == Tail(dn)
           s == st[a]
           t == st2[a]
<1>1. LineInv(A, bal, l, st, d, u, act)
  BY DownLost
<1>2. dn \in Seq(Frame) /\ u \in Seq(Frame) /\ Exchange(s.sent, u, dn)
  BY DEF LineInv
<1>3. s.sent # NoFrame /\ ~HasPrim(u) /\ HasAnswer(dn) /\ ~HasAnswer(d)
  BY <1>2, BackTaken
<1>4. /\ Bits(s.active, s.fcb, s.sent, l.fcbExpected, HasAnswer(dn))
      /\ Bits(s.active, s.fcb, s.sent, l.fcbExpected, HasAnswer(d))
      /\ IsStation(bal, a, s) /\ Exchange(s.sent, u, d) /\ l.fcbExpected \in BOOLEAN
  BY <1>1 DEF LineInv, IsLink, LinkRec
<1> HIDE DEF d
<1>5. CASE t = s
  <2>1. ServesAlike(s, t)
    BY <1>5 DEF ServesAlike
  <2> QED
    BY <1>1, <1>4, <1>5, <2>1, StationMoves DEF d
<1>6. CASE StationConfirmed(bal, a, s, t)
  <2> DEFINE c == s.sent.control
  <2>1. /\ IsStation(bal, a, t) /\ ServesAlike(s, t) /\ t.sent = NoFrame
        /\ c.fcv => t.fcb = ~c.fcb
        /\ c.fun = RESET_LINK => t.fcb = TRUE
    BY <1>6 DEF StationConfirmed, StationOver, ServesAlike
  <2>2. Exchange(t.sent, u, d)
    BY <1>3, <1>4, <2>1, Settles
  <2>3. /\ c.fcb \in BOOLEAN /\ c.fun \in {RESET_LINK, USER_DATA_CONF}
        /\ c.fcv <=> c.fun \in Counted
    <3>1. Asks(s.sent) /\ c.fun \in {RESET_LINK, USER_DATA_CONF}
      BY <1>3, <1>4 DEF IsStation
    <3> QED
      BY <3>1, Kinds DEF Asks, IsPrim, ControlField
  <2> HIDE DEF c
  <2>4. t.fcb = l.fcbExpected
    <3>1. CASE c.fun = RESET_LINK
      BY <1>3, <1>4, <2>1, <3>1 DEF Bits, c
    <3>2. CASE c.fun = USER_DATA_CONF
      <4>1. c.fcv
        BY <2>3, <3>2, Codes
      <4>2. l.fcbExpected # c.fcb
        BY <1>3, <1>4, <4>1 DEF Bits, c
      <4> QED
        BY <1>4, <2>1, <2>3, <4>1, <4>2
    <3> QED
      BY <2>3, <3>1, <3>2
  <2>5. Bits(t.active, t.fcb, t.sent, l.fcbExpected, HasAnswer(d))
    BY <2>1, <2>4 DEF Bits
  <2> QED
    BY <1>1, <2>1, <2>2, <2>5, StationMoves DEF d
<1> QED
  BY <1>5, <1>6

\* What a station has out is written to the line.
LEMMA AskedAgainKeeps ==
    ASSUME NEW A \in SUBSET Nat, NEW bal, NEW l, NEW st, NEW dn, NEW u, NEW act,
           LineInv(A, bal, l, st, dn, u, act), bal = TRUE, NEW a \in A, st[a].sent # NoFrame,
           ~HasPrim(u), ~HasAnswer(dn)
    PROVE  LineInv(A, bal, l, st, dn, u \o <<st[a].sent>>, act)
<1> DEFINE f == st[a].sent
           v == u \o <<f>>
<1>0. Asks(f) /\ f \in Frame /\ IsPrim(f)
  BY DEF LineInv, IsStation, Asks
<1>1. dn \in Seq(Frame) /\ u \in Seq(Frame)
  BY DEF LineInv
<1> HIDE DEF f
<1>2. /\ v \in Seq(Frame)
      /\ HasAnswer(v) <=> HasAnswer(u)
      /\ \A i \in 1 .. Len(v) : v[i] = f \/ (i \in 1 .. Len(u) /\ v[i] = u[i])
  BY <1>0, <1>1, JoinParts
<1>3. Exchange(l.sent, dn, v)
  <2>1. Exchange(l.sent, dn, u)
    BY DEF LineInv
  <2> QED
    BY <1>0, <1>1, <2>1, BackJoined
<1>4. ASSUME NEW x \in A
      PROVE  Exchange(st[x].sent, v, dn)
  <2>1. Exchange(f, u, dn) /\ f # NoFrame
    BY DEF LineInv, f
  <2>2. Exchange(f, v, dn)
    BY <1>0, <1>1, <2>1, ThereJoined
  <2>3. x = a
    BY DEF LineInv
  <2> QED
    BY <2>2, <2>3 DEF f
<1> HIDE DEF v
<1>5. ASSUME NEW x \in A
      PROVE  Bits(On(l, x), l.secs[x].fcb, SentTo(l, x), st[x].fcbExpected, HasAnswer(v))
  <2>1. Bits(On(l, x), l.secs[x].fcb, SentTo(l, x), st[x].fcbExpected, HasAnswer(u))
    BY DEF LineInv
  <2> QED
    BY <1>2, <2>1 DEF Bits
<1>6. \A i \in 1 .. Len(v) : ~IsPrim(v[i]) => v[i] = st[l.sent.addr].lastResp
  BY <1>0, <1>2 DEF LineInv
<1>7. LineInv(A, bal, l, st, dn, v, act)
  BY <1>1, <1>2, <1>3, <1>4, <1>5, <1>6 DEF LineInv
<1> QED
  BY <1>7 DEF v, f

\* A station sends a request.
LEMMA StationAsksKeeps ==
    ASSUME NEW A \in SUBSET Nat, NEW bal, NEW l, NEW st, NEW dn, NEW u, NEW act,
           LineInv(A, bal, l, st, dn, u, act), NEW a \in A, bal = TRUE, st[a].sent = NoFrame,
           NEW b, NEW o, StationAsks(bal, a, st[a], b, o), NEW st2, st2[a] = o.station
    PROVE  LineInv(A, bal, l, st2, dn, u \o o.out, act)
<1> DEFINE s == st[a]
           t == st2[a]
           f == t.sent
           v == u \o <<f>>
<1>0. /\ IsStation(bal, a, t) /\ PeerAsks(f) /\ o.out = <<f>> /\ ServesAlike(s, t)
      /\ t.fcb = s.fcb /\ t.active = s.active
      /\ f.control.fcv => s.active /\ f.control.fcb = s.fcb
      /\ f.control.fun = RESET_LINK => ~s.active
  BY DEF StationAsks, ServesAlike
<1>1. Asks(f) /\ f \in Frame /\ IsPrim(f) /\ f # NoFrame
  BY <1>0, Kinds DEF PeerAsks, Asks
<1>2. dn \in Seq(Frame) /\ u \in Seq(Frame) /\ Exchange(NoFrame, u, dn)
  BY DEF LineInv
<1>3. ~HasPrim(u) /\ ~HasAnswer(dn)
  BY <1>2, IdleLine
<1>4. Exchange(f, u, dn)
  BY <1>2, <1>3, Settles
<1>5. Bits(t.active, t.fcb, f, l.fcbExpected, HasAnswer(dn))
  <2>1. Bits(s.active, s.fcb, s.sent, l.fcbExpected, HasAnswer(dn))
    BY DEF LineInv
  <2> QED
    BY <1>0, <1>3, <2>1 DEF Bits
<1>6. LineInv(A, bal, l, st2, dn, u, act)
  BY <1>0, <1>4, <1>5, StationMoves
<1>7. LineInv(A, bal, l, st2, dn, v, act)
  BY <1>1, <1>3, <1>6, AskedAgainKeeps
<1> QED
  BY <1>0, <1>7

\* A station repeats its request.
LEMMA StationRepeatKeeps ==
    ASSUME NEW A \in SUBSET Nat, NEW bal, NEW l, NEW st, NEW dn, NEW u, NEW act,
           LineInv(A, bal, l, st, dn, u, act), bal = TRUE, NEW a \in A, st[a].sent # NoFrame,
           ~HasPrim(u), ~HasAnswer(dn), NEW st2, IsStation(bal, a, st2[a]),
           ServesAlike(st[a], st2[a]), st2[a].sent = st[a].sent, st2[a].fcb = st[a].fcb,
           st2[a].active = st[a].active
    PROVE  LineInv(A, bal, l, st2, dn, u \o <<st[a].sent>>, act)
<1>1. /\ Exchange(st2[a].sent, u, dn)
      /\ Bits(st2[a].active, st2[a].fcb, st2[a].sent, l.fcbExpected, HasAnswer(dn))
  BY DEF LineInv
<1>2. LineInv(A, bal, l, st2, dn, u, act)
  BY <1>1, StationMoves
<1>3. LineInv(A, bal, l, st2, dn, u \o <<st2[a].sent>>, act)
  BY <1>2, AskedAgainKeeps
<1> QED
  BY <1>3

\* A station gives its request up.
LEMMA StationGiveUpKeeps ==
    ASSUME NEW A \in SUBSET Nat, NEW bal, NEW l, NEW st, NEW dn, NEW u, NEW act,
           LineInv(A, bal, l, st, dn, u, act), bal = TRUE, NEW a \in A,
           ~HasPrim(u), ~HasAnswer(dn), NEW st2, StationGivenUp(bal, a, st[a], st2[a])
    PROVE  LineInv(A, bal, l, st2, dn, u, act)
<1>1. /\ IsStation(bal, a, st2[a]) /\ ServesAlike(st[a], st2[a]) /\ st2[a].sent = NoFrame
      /\ ~st2[a].active
  BY DEF StationGivenUp, StationOver, ServesAlike
<1>2. Exchange(st2[a].sent, u, dn)
  BY Settles DEF LineInv
<1>3. Bits(st2[a].active, st2[a].fcb, st2[a].sent, l.fcbExpected, HasAnswer(dn))
  BY <1>1 DEF Bits
<1> QED
  BY <1>1, <1>2, <1>3, StationMoves

-----------------------------------------------------------------------------
(***************************************************************************)
(* The invariant is kept: the line opens, and moves on.                    *)
(***************************************************************************)

\* A line that is opened knows nothing of what its stations did before, which
\* are new on a balanced line.
LEMMA OpenedLine ==
    ASSUME NEW order \in Seq(Nat) \ {<<>>}, NEW bal, bal \in BOOLEAN, bal => Len(order) = 1,
           NEW st, \A a \in ToSet(order) : IsStation(bal, a, st[a]),
           \A a \in ToSet(order) : bal => st[a].sent = NoFrame /\ ~st[a].active,
           NEW act, NEW l, l = P!NewLink(order, bal)
    PROVE  LineInv(ToSet(order), bal, l, st, <<>>, <<>>, act)
<1> DEFINE A == ToSet(order)
           n == [phase |-> "Status", fcb |-> FALSE, wantClass1 |-> FALSE, busy |-> FALSE]
<1>1. A \subseteq Nat /\ order \in Seq(A) /\ order # <<>> /\ Len(order) \in Nat \ {0}
  BY DEF ToSet
<1>2. l = [secs |-> [a \in A |-> n], order |-> order, idx |-> 1, sent |-> NoFrame,
           retry |-> 0, fcbExpected |-> TRUE, dir |-> bal]
  BY PNames DEF P!NewLink, P!NewSecondary, P!ToSet, ToSet
<1>3. bal => \A a, x \in A : a = x
  BY DEF ToSet
<1> HIDE DEF A
<1>4. n \in Sec /\ n.phase # "Active"
  BY DEF Sec
<1> HIDE DEF n
<1>5. /\ l \in LinkRec(A) /\ l.order = order /\ l.idx = 1 /\ l.sent = NoFrame
      /\ \A a \in A : l.secs[a] = n
  BY <1>1, <1>2, <1>4 DEF LinkRec
<1>6. IsLink(A, l)
  BY <1>1, <1>5 DEF IsLink
<1>7. \A a \in A : st[a].sent = NoFrame /\ ~st[a].active
  BY DEF IsStation, A
<1>8. /\ <<>> \in Seq(Frame) /\ Exchange(NoFrame, <<>>, <<>>)
      /\ Len(<<>>) = 0
  BY DEF Exchange, LonePrim, LoneAnswer, HasPrim, HasAnswer
<1>9. ASSUME NEW a \in A
      PROVE  /\ Bits(On(l, a), l.secs[a].fcb, SentTo(l, a), st[a].fcbExpected, HasAnswer(<<>>))
             /\ Bits(st[a].active, st[a].fcb, st[a].sent, l.fcbExpected, HasAnswer(<<>>))
             /\ ~Taken(l, st[a], a)
  BY <1>4, <1>5, <1>7 DEF Bits, SentTo, On, Taken
<1>10. \A a \in A : IsStation(bal, a, st[a])
  BY DEF A
<1>11. LineInv(A, bal, l, st, <<>>, <<>>, act)
  BY <1>3, <1>5, <1>6, <1>7, <1>8, <1>9, <1>10 DEF LineInv
<1> QED
  BY <1>11 DEF A

\* A station that starts.
LEMMA NewStationIs ==
    ASSUME NEW bal, NEW a
    PROVE  /\ IsStation(bal, a, S!NewStation) /\ S!NewStation \in StationRec
           /\ S!NewStation.sent = NoFrame /\ S!NewStation.lastResp = NoFrame
           /\ ~S!NewStation.active
<1> DEFINE s == S!NewStation
<1>1. s = [fcbExpected |-> TRUE, lastResp |-> NoFrame, sent |-> NoFrame,
           retry |-> 0, fcb |-> FALSE, active |-> FALSE]
  BY SNames DEF S!NewStation
<1>2. s \in StationRec /\ s.sent = NoFrame /\ s.lastResp = NoFrame /\ s.active = FALSE
  BY <1>1 DEF StationRec
<1> HIDE DEF s
<1>3. IsStation(bal, a, s)
  BY <1>2 DEF IsStation
<1> QED
  BY <1>2, <1>3 DEF s

\* A link moves on, with a request or without.
LEMMA MovesOnKeeps ==
    ASSUME NEW A \in SUBSET Nat, NEW bal, NEW l, NEW st, NEW dn, NEW u, NEW act,
           LineInv(A, bal, l, st, dn, u, act), NEW m, NEW out, MovesOn(A, l, m, out)
    PROVE  LineInv(A, bal, m, st, dn \o out, u, act)
<1>1. CASE LinkSame(A, l, m) /\ out = <<>>
  <2>1. LineInv(A, bal, m, st, dn, u, act)
    BY <1>1, SameKeeps
  <2>2. dn \o <<>> = dn
    BY DEF LineInv
  <2> QED
    BY <1>1, <2>1, <2>2
<1>2. CASE l.sent = NoFrame /\ Launch(A, l, m, m.sent, {}) /\ out = <<m.sent>>
  BY <1>2, LaunchKeeps
<1> QED
  BY <1>1, <1>2 DEF MovesOn

-----------------------------------------------------------------------------
(***************************************************************************)
(* The actions.                                                            *)
(***************************************************************************)

\* A station of a balanced line is at the other end of a TCP connection, and starts
\* anew when the line is opened again.
BalancedRestarts == \A x \in Lines : x.balanced => ~x.serial

\* What is known of the line in every state.
LEMMA LineIs ==
    ASSUME line \in Lines
    PROVE  /\ Station \subseteq Nat /\ line.order \in Seq(Nat) \ {<<>>} /\ Broadcast \notin Station
           /\ line.balanced \in BOOLEAN /\ (line.balanced => Len(line.order) = 1)
           /\ NoAsdu \notin Command
BY Link101Assumption DEF Station, ToSet, Command

\* The invariant holds at first.
LEMMA InitIInv == Init => IInv
<1> SUFFICES ASSUME Init PROVE IInv
  OBVIOUS
<1> DEFINE n == S!NewStation
           e == S!NewBuffers
<1>1. /\ line \in Lines /\ queue = <<>> /\ calling = NoCall /\ down = <<>> /\ up = <<>>
      /\ commands = 0 /\ confirmed = {}
      /\ link = P!NewLink(line.order, line.balanced)
      /\ station = [a \in Station |-> n] /\ buffers = [a \in Station |-> e]
      /\ events = [a \in Station |-> 0]
      /\ acted = [a \in Station |-> <<>>] /\ received = [a \in Station |-> <<>>]
  BY DEF Init
<1>2. \A a : /\ IsStation(line.balanced, a, n) /\ n \in StationRec
             /\ n.sent = NoFrame /\ ~n.active
  BY NewStationIs
<1>3. e \in BufferRec
  BY DEF S!NewBuffers, BufferRec
<1> HIDE DEF n, e
<1>4. LineInv(Station, line.balanced, link, station, <<>>, <<>>, acted)
  BY <1>1, <1>2, LineIs, OpenedLine DEF Station
<1>5. <<>> \in Seq(Item(Station)) /\ <<>> \in Seq(Command) /\ <<>> \in Seq(Eventful)
  OBVIOUS
<1>6. /\ station \in [Station -> StationRec] /\ buffers \in [Station -> BufferRec]
      /\ events \in [Station -> Nat] /\ commands \in Nat
      /\ acted \in [Station -> Seq(Command)] /\ received \in [Station -> Seq(Eventful)]
  BY <1>1, <1>2, <1>3, <1>5
<1>7. ConfirmedIsActed
  BY <1>1 DEF ConfirmedIsActed
<1> QED
  BY <1>1, <1>4, <1>5, <1>6, <1>7 DEF IInv

\* What a step must keep.
LEMMA Kept ==
    ASSUME IInv, line' = line,
           LineInv(Station, line.balanced, link', station', down', up', acted'),
           queue' \in Seq(Item(Station)), calling' # NoCall => calling' \in Station,
           buffers' \in [Station -> BufferRec], station' \in [Station -> StationRec],
           commands' \in Nat, events' \in [Station -> Nat],
           acted' \in [Station -> Seq(Command)], received' \in [Station -> Seq(Eventful)],
           \A x \in confirmed' : \E a \in Station : x \in ToSet(acted'[a])
    PROVE  IInv'
<1>1. Station' = Station
  BY DEF Station
<1>2. ConfirmedIsActed'
  BY <1>1 DEF ConfirmedIsActed
<1> QED
  BY <1>1, <1>2 DEF IInv

\* Nothing changes that the invariant speaks of.
LEMMA Untouched ==
    ASSUME IInv, UNCHANGED <<line, link, queue, calling, station, buffers, down, up, commands,
                             events, acted, received, confirmed>>
    PROVE  IInv'
<1>1. Station' = Station
  BY DEF Station
<1>2. ConfirmedIsActed'
  BY <1>1 DEF ConfirmedIsActed, IInv
<1> QED
  BY <1>1, <1>2 DEF IInv

\* The applications' part in a step.
LEMMA SendToKeeps ==
    ASSUME IInv, NEW a \in Station, SendTo(a) PROVE IInv'
<1>1. /\ line' = line /\ calling' = a
      /\ UNCHANGED <<link, queue, station, buffers, down, up, commands, events, acted, received,
                     confirmed>>
  BY DEF SendTo, ends, history
<1> QED
  BY <1>1, Kept DEF IInv, ConfirmedIsActed

\* A command is pushed.
LEMMA SendToPushesKeeps ==
    ASSUME IInv, SendToPushes PROVE IInv'
<1> DEFINE e == [addr |-> calling, asdu |-> Cmd(commands + 1)]
<1>1. /\ line' = line /\ calling # NoCall /\ calling' = NoCall
      /\ UNCHANGED <<link, station, buffers, down, up, events, acted, received, confirmed>>
      /\ \/ /\ queue' = Append(queue, e)
            /\ commands' = commands + 1
         \/ queue' = queue /\ commands' = commands
  BY DEF SendToPushes
<1>2. e \in Item(Station) /\ commands + 1 \in Nat
  BY <1>1 DEF IInv, Item, Cmd, Command
<1> HIDE DEF e
<1>3. queue \in Seq(Item(Station)) /\ commands \in Nat
  BY DEF IInv
<1>4. Append(queue, e) \in Seq(Item(Station))
  BY <1>2, <1>3
<1>5. queue' \in Seq(Item(Station)) /\ commands' \in Nat
  BY <1>1, <1>2, <1>3, <1>4
<1> QED
  BY <1>1, <1>5, Kept DEF IInv, ConfirmedIsActed

\* An event is pushed.
LEMMA RaiseKeeps ==
    ASSUME IInv, NEW a \in Station, NEW cyclic, cyclic \in BOOLEAN, Raise(a, cyclic) PROVE IInv'
<1> DEFINE q == S!QueueFor(cyclic, line.balanced)
           e == Event(a, events[a] + 1, cyclic)
<1>1. /\ line' = line /\ events' = [events EXCEPT ![a] = @ + 1]
      /\ buffers' = [buffers EXCEPT ![a][q] = Append(@, e)]
      /\ UNCHANGED <<link, queue, calling, station, down, up, commands, acted, received, confirmed>>
  BY DEF Raise
<1>2. q \in {"class1", "class2", "prim"}
  BY DEF S!QueueFor
<1>3. a \in Nat /\ events \in [Station -> Nat] /\ buffers \in [Station -> BufferRec]
  BY LineIs DEF IInv
<1>4. e \in Eventful
  BY <1>3 DEF Event, Eventful
<1> HIDE DEF e, q
<1>5. [buffers[a] EXCEPT ![q] = Append(@, e)] \in BufferRec
  <2>1. buffers[a] \in BufferRec
    BY <1>3
  <2>2. buffers[a][q] \in Seq(Eventful)
    BY <1>2, <2>1 DEF BufferRec
  <2>3. Append(buffers[a][q], e) \in Seq(Eventful)
    BY <1>4, <2>2
  <2> QED
    BY <1>2, <2>1, <2>3 DEF BufferRec
<1>6. buffers' \in [Station -> BufferRec] /\ events' \in [Station -> Nat]
  <2>1. buffers' = [buffers EXCEPT ![a] = [buffers[a] EXCEPT ![q] = Append(@, e)]]
    BY <1>1
  <2> QED
    BY <1>1, <1>3, <1>5, <2>1
<1> QED
  BY <1>1, <1>6, Kept DEF IInv, ConfirmedIsActed

\* tick
LEMMA ClientTickKeeps ==
    ASSUME IInv, ClientTick PROVE IInv'
<1> DEFINE o == P!Tick(link, queue, line.balanced)
           A == Station
           k == line.balanced
<1>1. /\ line' = line /\ link.sent = NoFrame
      /\ link' = o.link /\ down' = down \o o.out /\ queue' = P!QueueAfter(link, queue)
      /\ UNCHANGED <<calling, station, buffers, up, commands, events, acted, received, confirmed>>
  BY PNames DEF ClientTick, P!Idle, PrimarySends, history
<1>2. /\ LineInv(A, k, link, station, down, up, acted) /\ IsLink(A, link) /\ A \subseteq Nat
      /\ queue \in Seq(Item(A)) /\ k \in BOOLEAN
  BY LineIs DEF IInv, LineInv
<1> HIDE DEF o, A, k
<1>3. \/ P!QueueAfter(link, queue) = queue /\ MovesOn(A, link, o.link, o.out)
      \/ \E i \in 1 .. Len(queue) :
           /\ Launch(A, link, o.link, o.link.sent, {queue[i].asdu}) /\ o.out = <<o.link.sent>>
           /\ P!QueueAfter(link, queue) = SubSeq(queue, 1, i - 1) \o SubSeq(queue, i + 1, Len(queue))
  <2>1. o = P!Tick(link, queue, k)
    BY DEF o, k
  <2>2. Ticks(A, link, queue, o, P!QueueAfter(link, queue))
    BY <1>1, <1>2, <2>1, TickIs
  <2> QED
    BY <2>2 DEF Ticks
<1>4. CASE P!QueueAfter(link, queue) = queue /\ MovesOn(A, link, o.link, o.out)
  <2>1. LineInv(A, k, link', station, down', up, acted) /\ queue' = queue
    BY <1>1, <1>2, <1>4, MovesOnKeeps
  <2> QED
    BY <1>1, <2>1, Kept DEF IInv, ConfirmedIsActed, A, k
<1>5. ASSUME NEW i \in 1 .. Len(queue),
             Launch(A, link, o.link, o.link.sent, {queue[i].asdu}), o.out = <<o.link.sent>>,
             P!QueueAfter(link, queue) = SubSeq(queue, 1, i - 1) \o SubSeq(queue, i + 1, Len(queue))
      PROVE  IInv'
  <2>1. LineInv(A, k, link', station, down', up, acted)
    BY <1>1, <1>2, <1>5, LaunchKeeps
  <2>2. queue' \in Seq(Item(A))
    BY <1>1, <1>2, <1>5
  <2> QED
    BY <1>1, <2>1, <2>2, Kept DEF IInv, ConfirmedIsActed, A, k
<1> QED
  BY <1>3, <1>4, <1>5

\* on_t3_timeout
LEMMA ClientTestKeeps ==
    ASSUME IInv, ClientTest PROVE IInv'
<1> DEFINE o == P!T3Timeout(link)
           A == Station
           k == line.balanced
<1>1. /\ line' = line /\ link' = o.link /\ down' = down \o o.out
      /\ UNCHANGED <<queue, calling, station, buffers, up, commands, events, acted, received,
                     confirmed>>
  BY DEF ClientTest, PrimarySends, history
<1>2. LineInv(A, k, link, station, down, up, acted) /\ IsLink(A, link) /\ A \subseteq Nat
  BY LineIs DEF IInv, LineInv
<1>3. MovesOn(A, link, o.link, o.out)
  BY <1>2, T3TimeoutIs
<1> HIDE DEF o, A, k
<1>4. LineInv(A, k, link', station, down', up, acted)
  BY <1>1, <1>2, <1>3, MovesOnKeeps
<1> QED
  BY <1>1, <1>4, Kept DEF IInv, ConfirmedIsActed, A, k

\* handle_link_request
LEMMA ManualKeeps ==
    ASSUME IInv, NEW fun, Manual(fun) PROVE IInv'
<1> DEFINE o == P!LinkRequest(link, fun, line.balanced)
           A == Station
           k == line.balanced
<1>1. /\ line' = line /\ link' = o.link /\ down' = down \o o.out
      /\ UNCHANGED <<queue, calling, station, buffers, up, commands, events, acted, received,
                     confirmed>>
  BY DEF Manual, PrimarySends, history
<1>2. LineInv(A, k, link, station, down, up, acted) /\ IsLink(A, link) /\ A \subseteq Nat
  BY LineIs DEF IInv, LineInv
<1>3. MovesOn(A, link, o.link, o.out)
  BY <1>2, LinkRequestIs
<1> HIDE DEF o, A, k
<1>4. LineInv(A, k, link', station, down', up, acted)
  BY <1>1, <1>2, <1>3, MovesOnKeeps
<1> QED
  BY <1>1, <1>4, Kept DEF IInv, ConfirmedIsActed, A, k

\* The line loses a frame.
LEMMA LoseKeeps ==
    ASSUME IInv, Lose PROVE IInv'
<1> DEFINE A == Station
           k == line.balanced
<1>1. /\ line' = line
      /\ UNCHANGED <<link, queue, station, buffers, calling, commands, events, acted, received,
                     confirmed>>
      /\ \/ down # <<>> /\ down' = Tail(down) /\ up' = up
         \/ up # <<>> /\ up' = Tail(up) /\ down' = down
  BY DEF Lose, ends, history
<1>2. LineInv(A, k, link, station, down, up, acted) /\ A \subseteq Nat
  BY LineIs DEF IInv
<1> HIDE DEF A, k
<1>3. LineInv(A, k, link, station, down', up', acted)
  BY <1>1, <1>2, DownLost, UpLost
<1> QED
  BY <1>1, <1>3, Kept DEF IInv, ConfirmedIsActed, A, k

\* Station a has acted on x, unless that is nothing.
ActedOn(act, a, x, act2) ==
    act2 = IF x # NoAsdu THEN [act EXCEPT ![a] = Append(@, x)] ELSE act

ActsGrow(A, act, a, x, act2) ==
    /\ act2 \in [A -> Seq(Command)]
    /\ \A y \in A : ToSet(act[y]) \subseteq ToSet(act2[y])
    /\ x # NoAsdu => x \in ToSet(act2[a])

\* What a station has acted on, with one more command or none.
LEMMA ActedMore ==
    ASSUME NEW A, NEW act \in [A -> Seq(Command)], NEW a \in A, NEW x, x = NoAsdu \/ x \in Command,
           NEW act2, ActedOn(act, a, x, act2)
    PROVE  ActsGrow(A, act, a, x, act2)
<1>0. act2 = IF x # NoAsdu THEN [act EXCEPT ![a] = Append(@, x)] ELSE act
  BY DEF ActedOn
<1>1. CASE x = NoAsdu
  BY <1>0, <1>1 DEF ActsGrow
<1>2. CASE x # NoAsdu
  <2> DEFINE s == act[a]
             t == Append(s, x)
  <2>1. s \in Seq(Command) /\ t \in Seq(Command) /\ x \in Command
    BY <1>2
  <2>2. ToSet(s) \subseteq ToSet(t) /\ x \in ToSet(t)
    <3>1. /\ Len(t) = Len(s) + 1 /\ Len(s) \in Nat /\ t[Len(t)] = x
          /\ \A i \in 1 .. Len(s) : t[i] = s[i]
      BY <2>1
    <3>2. DOMAIN s = 1 .. Len(s) /\ DOMAIN t = 1 .. Len(t)
      BY <2>1
    <3> HIDE DEF s, t
    <3> QED
      BY <3>1, <3>2 DEF ToSet
  <2> HIDE DEF t
  <2>3. act2 = [act EXCEPT ![a] = t]
    BY <1>0, <1>2 DEF t
  <2> QED
    BY <2>1, <2>2, <2>3 DEF ActsGrow
<1> QED
  BY <1>1, <1>2

\* An event is taken out of a buffer.
LEMMA TakenOut ==
    ASSUME NEW b \in BufferRec, NEW q \in {"class1", "class2", "prim"}, b[q] # <<>>
    PROVE  [b EXCEPT ![q] = Tail(@)] \in BufferRec
<1>1. b[q] \in Seq(Eventful)
  BY DEF BufferRec
<1>2. Tail(b[q]) \in Seq(Eventful)
  BY <1>1
<1> QED
  BY <1>2 DEF BufferRec

\* A request takes an event out of a buffer or none.
LEMMA ServedBuffers ==
    ASSUME NEW bal, NEW a, NEW s, NEW b \in BufferRec, NEW f, NEW o, Served(bal, a, s, b, f, o)
    PROVE  o.buffers \in BufferRec
<1>1. \/ o.buffers = b
      \/ \E q \in {"class1", "class2"} : b[q] # <<>> /\ o.buffers = [b EXCEPT ![q] = Tail(@)]
  BY DEF Served
<1> QED
  BY <1>1, TakenOut

\* handle_frame: an answer is taken, and may set off a request, or a request of
\* the peer is answered.
LEMMA ClientReceivesKeeps ==
    ASSUME IInv, ClientReceives PROVE IInv'
<1> DEFINE A == Station
           k == line.balanced
           f == Head(up)
           o == P!HandleFrame(link, f, k)
<1>1. /\ line' = line /\ up # <<>> /\ up' = Tail(up)
      /\ link' = o.link /\ down' = down \o o.out
      /\ received' = IF o.deliver /\ f.kind = "Variable"
                       THEN [received EXCEPT ![f.addr] = Append(@, f.asdu)] ELSE received
      /\ confirmed' = confirmed \cup Carried(o.done)
      /\ UNCHANGED <<queue, calling, station, buffers, commands, events, acted>>
  BY DEF ClientReceives, PrimarySends
<1>2. /\ LineInv(A, k, link, station, down, up, acted) /\ IsLink(A, link) /\ A \subseteq Nat
      /\ k \in BOOLEAN /\ received \in [A -> Seq(Eventful)]
      /\ down \in Seq(Frame) /\ up \in Seq(Frame)
  BY LineIs DEF IInv, LineInv
<1>3. f \in Frame
  BY <1>1, <1>2, HeadTail
<1> SUFFICES /\ LineInv(A, k, link', station, down', up', acted)
             /\ f.kind = "Variable" => f.asdu \in Eventful /\ f.addr \in A
             /\ \A x \in Carried(o.done) : \E a \in A : x \in ToSet(acted[a])
  <2>1. received' \in [A -> Seq(Eventful)]
    <3> HIDE DEF f, o
    <3>1. CASE f.kind = "Variable"
      <4>1. received[f.addr] \in Seq(Eventful) /\ f.asdu \in Eventful
        BY <1>2, <3>1
      <4>2. Append(received[f.addr], f.asdu) \in Seq(Eventful)
        BY <4>1
      <4> QED
        BY <1>1, <1>2, <4>2
    <3>2. CASE f.kind # "Variable"
      BY <1>1, <1>2, <3>2
    <3> QED
      BY <3>1, <3>2
  <2>2. \A x \in confirmed' : \E a \in A : x \in ToSet(acted'[a])
    BY <1>1 DEF IInv, ConfirmedIsActed
  <2> HIDE DEF f, o
  <2> QED
    BY <1>1, <2>1, <2>2, Kept DEF IInv, A, k
<1> HIDE DEF A, k, f, o
<1>4. CASE ~IsPrim(f)
  <2>0. o = P!HandleFrame(link, f, k)
    BY DEF o
  <2>1. PICK m : Replied(A, link, f, m, o.done) /\ MovesOn(A, m, o.link, o.out)
    BY <1>2, <1>3, <1>4, <2>0, HandleAnswer
  <2>2. /\ LineInv(A, k, m, station, down, Tail(up), acted)
        /\ o.done = NoFrame \/ o.done = link.sent
        /\ o.done # NoFrame => Carried(o.done) \subseteq ToSet(acted[o.done.addr])
    BY <1>1, <1>2, <1>4, <2>1, ReplyKeeps DEF f
  <2>3. LineInv(A, k, link', station, down', up', acted)
    BY <1>1, <1>2, <2>1, <2>2, MovesOnKeeps
  <2>4. f.kind = "Variable" => f.asdu \in Eventful /\ f.addr \in A
    <3>1. /\ link.sent.addr \in A /\ Affirms(f)
          /\ f.kind # "SingleCharAck" => f.addr = link.sent.addr
      BY <1>1, <1>2, <1>4, HeadAffirms DEF f
    <3> QED
      BY <3>1 DEF Affirms
  <2>5. \A x \in Carried(o.done) : \E a \in A : x \in ToSet(acted[a])
    <3>1. CASE o.done = NoFrame
      BY <3>1 DEF Carried, NoFrame
    <3>2. CASE o.done # NoFrame
      <4>1. o.done.addr \in A
        BY <1>2, <2>2, <3>2 DEF IsLink
      <4> QED
        BY <2>2, <3>2, <4>1
    <3> QED
      BY <3>1, <3>2
  <2> QED
    BY <2>3, <2>4, <2>5
<1>5. CASE IsPrim(f)
  <2>1. PICK a \in A : TRUE
    <3>1. link.order \in Seq(A) /\ link.order # <<>>
      BY <1>2 DEF IsLink, LinkRec
    <3>2. Head(link.order) \in A
      BY <3>1, HeadTail
    <3> QED
      BY <3>2
  <2>2. PeerAsks(f) /\ f.addr = a /\ k = TRUE
    BY <1>1, <1>2, <1>5, HeadPeer DEF f
  <2>3. o = P!HandleFrame(link, f, k)
    BY DEF o
  <2>8. PeerServed(A, link, f, o)
    BY <1>2, <2>1, <2>2, <2>3, PeerPrimaryIs
  <2>4. PICK g : PeerAnswered(A, link, f, o.link, g) /\ o.out = <<g>>
    BY <2>8 DEF PeerServed
  <2>5. LineInv(A, k, link', station, down', up', acted)
    BY <1>1, <1>2, <1>5, <2>4, PeerKeeps DEF f
  <2>6. o.done = NoFrame
    BY <2>8 DEF PeerServed
  <2>7. Carried(o.done) = {}
    BY <2>6 DEF Carried, NoFrame
  <2> QED
    BY <2>2, <2>5, <2>7 DEF PeerAsks
<1> QED
  BY <1>4, <1>5

\* on_t1_timeout, and the link goes on.
LEMMA ClientTimeoutKeeps ==
    ASSUME IInv, ~Late, ClientTimeout PROVE IInv'
<1> DEFINE o == P!T1Timeout(link)
           A == Station
           k == line.balanced
<1>1. /\ line' = line /\ link.sent # NoFrame /\ AwaitedInVain(link.sent, down, up)
      /\ link' = o.link /\ down' = down \o o.out
      /\ UNCHANGED <<queue, calling, station, buffers, up, commands, events, acted, received,
                     confirmed>>
  BY PNames DEF ClientTimeout, P!Idle, PrimarySends
<1>2. /\ LineInv(A, k, link, station, down, up, acted) /\ IsLink(A, link) /\ A \subseteq Nat
      /\ down \in Seq(Frame) /\ up \in Seq(Frame) /\ Exchange(link.sent, down, up)
  BY LineIs DEF IInv, LineInv
<1>3. ~HasPrim(down) /\ ~HasAnswer(up)
  BY <1>1, <1>2, InVain
<1>4. \/ LinkGivenUp(A, link, o.link) /\ o.out = <<>>
      \/ LinkSame(A, link, o.link) /\ o.out = <<link.sent>>
  BY <1>1, <1>2, T1TimeoutIs
<1> HIDE DEF o, A, k
<1>5. LineInv(A, k, link', station, down', up, acted)
  <2>1. CASE LinkGivenUp(A, link, o.link) /\ o.out = <<>>
    <3>1. LineInv(A, k, o.link, station, down, up, acted)
      BY <1>2, <1>3, <2>1, GiveUpKeeps
    <3>2. down' = down
      BY <1>1, <1>2, <2>1
    <3> QED
      BY <1>1, <3>1, <3>2
  <2>2. CASE LinkSame(A, link, o.link) /\ o.out = <<link.sent>>
    <3>1. LineInv(A, k, link, station, down \o <<link.sent>>, up, acted)
      BY <1>1, <1>2, <1>3, RepeatKeeps
    <3> QED
      BY <1>1, <1>2, <2>2, <3>1, SameKeeps
  <2> QED
    BY <1>4, <2>1, <2>2
<1> QED
  BY <1>1, <1>5, Kept DEF IInv, ConfirmedIsActed, A, k

\* The line is closed and opened again.
LEMMA ReopenKeeps ==
    ASSUME IInv, BalancedRestarts, Reopen PROVE IInv'
<1> DEFINE n == S!NewStation
           A == Station
           k == line.balanced
<1>1. /\ line' = line /\ link' = P!NewLink(line.order, k)
      /\ queue' = <<>> /\ down' = <<>> /\ up' = <<>>
      /\ station' = IF line.serial THEN station ELSE [a \in A |-> n]
      /\ UNCHANGED <<calling, buffers, commands, events, acted, received, confirmed>>
  BY DEF Reopen
<1>2. /\ station \in [A -> StationRec] /\ \A a \in A : IsStation(k, a, station[a])
      /\ line.order \in Seq(Nat) \ {<<>>} /\ k \in BOOLEAN /\ (k => Len(line.order) = 1)
      /\ k => ~line.serial
  BY LineIs DEF IInv, LineInv, BalancedRestarts
<1>3. \A a : IsStation(k, a, n) /\ n \in StationRec /\ n.sent = NoFrame /\ ~n.active
  BY NewStationIs
<1> HIDE DEF n, k
<1>4. station' \in [A -> StationRec] /\ \A a \in A : IsStation(k, a, station'[a])
  BY <1>1, <1>2, <1>3
<1>5. \A a \in A : k => station'[a].sent = NoFrame /\ ~station'[a].active
  BY <1>1, <1>2, <1>3
<1>6. LineInv(A, k, link', station', down', up', acted)
  BY <1>1, <1>2, <1>4, <1>5, OpenedLine DEF Station
<1>7. queue' \in Seq(Item(A))
  BY <1>1
<1> QED
  BY <1>1, <1>4, <1>6, <1>7, Kept DEF IInv, ConfirmedIsActed, k

\* handle_frame at a station.
LEMMA StationReceivesKeeps ==
    ASSUME IInv, NEW a \in Station, StationReceives(a) PROVE IInv'
<1> DEFINE A == Station
           k == line.balanced
           f == Head(down)
           s == station[a]
           b == buffers[a]
           o == S!HandleFrame(s, b, a, f, k)
           x == o.asdu
<1>1. /\ line' = line /\ down # <<>> /\ down' = Tail(down)
      /\ f.kind # "SingleCharAck" => f.addr = a
      /\ station' = [station EXCEPT ![a] = o.station]
      /\ buffers' = [buffers EXCEPT ![a] = o.buffers] /\ up' = up \o o.out
      /\ ActedOn(acted, a, x, acted')
      /\ UNCHANGED <<link, queue, calling, commands, events, received, confirmed>>
  BY DEF StationReceives, StationSends, ActedOn
<1>2. /\ a \in A /\ LineInv(A, k, link, station, down, up, acted) /\ IsLink(A, link) /\ A \subseteq Nat
      /\ k \in BOOLEAN /\ acted \in [A -> Seq(Command)] /\ buffers \in [A -> BufferRec]
      /\ station \in [A -> StationRec] /\ IsStation(k, a, s) /\ b \in BufferRec
      /\ down \in Seq(Frame) /\ up \in Seq(Frame) /\ a \in Nat /\ a # Broadcast
      /\ NoAsdu \notin Command
  BY LineIs DEF IInv, LineInv
<1>3. f = down[1] /\ 1 \in 1 .. Len(down) /\ f \in Frame
  BY <1>1, <1>2, HeadTail
<1> SUFFICES /\ LineInv(A, k, link, station', down', up', acted')
             /\ o.station \in StationRec /\ o.buffers \in BufferRec
             /\ x = NoAsdu \/ x \in Command
  <2> HIDE DEF x, o, A, k
  <2>1. station' \in [A -> StationRec] /\ buffers' \in [A -> BufferRec]
    BY <1>1, <1>2
  <2>2. /\ acted' \in [A -> Seq(Command)]
        /\ \A y \in A : ToSet(acted[y]) \subseteq ToSet(acted'[y])
    <3>1. ActsGrow(A, acted, a, x, acted')
      BY <1>1, <1>2, ActedMore
    <3> QED
      BY <3>1 DEF ActsGrow
  <2>3. \A z \in confirmed' : \E y \in A : z \in ToSet(acted'[y])
    BY <1>1, <2>2 DEF IInv, ConfirmedIsActed, A
  <2> QED
    BY <1>1, <2>1, <2>2, <2>3, Kept DEF IInv, A, k
<1>0. o = S!HandleFrame(s, b, a, f, k) /\ x = o.asdu
  OBVIOUS
<1> HIDE DEF A, k, x, o, s, b
<1>4. CASE IsPrim(f)
  <2>1. f = link.sent /\ Asks(f) /\ f.addr = a
    <3>1. f = link.sent /\ Asks(f)
      BY <1>1, <1>2, <1>4, HeadAsks
    <3>2. f.kind # "SingleCharAck"
      BY <3>1 DEF Asks, IsPrim
    <3> QED
      BY <1>1, <3>1, <3>2
  <2> HIDE DEF f
  <2>2. Served(k, a, s, b, f, o)
    BY <1>0, <1>2, <2>1, RequestIs
  <2>3. f.kind = "Variable" => f.asdu \in Command
    BY <1>2, <1>3, <2>1, Kinds DEF IsLink
  <2>4. /\ x = IF f.kind = "Variable" /\ ~Old(f, s) THEN f.asdu ELSE NoAsdu
        /\ IsStation(k, a, o.station)
    BY <1>0, <2>2 DEF Served
  <2>5. x = NoAsdu \/ x \in Command
    BY <2>3, <2>4
  <2>6. o.buffers \in BufferRec
    BY <1>2, <2>2, ServedBuffers
  <2>7. /\ \A y \in A : ToSet(acted[y]) \subseteq ToSet(acted'[y])
        /\ x # NoAsdu => x \in ToSet(acted'[a])
    <3>1. ActsGrow(A, acted, a, x, acted')
      BY <1>1, <1>2, <2>5, ActedMore
    <3> QED
      BY <3>1 DEF ActsGrow
  <2>8. f.kind = "Variable" /\ ~Old(f, s) => f.asdu \in ToSet(acted'[a])
    <3> SUFFICES ASSUME f.kind = "Variable", ~Old(f, s) PROVE f.asdu \in ToSet(acted'[a])
      OBVIOUS
    <3>1. x = f.asdu /\ x # NoAsdu
      BY <1>2, <2>3, <2>4
    <3> QED
      BY <2>7, <3>1
  <2>9. Changes(A, a, station, station', o.station)
    BY <1>1, <1>2 DEF Changes
  <2>10. LineInv(A, k, link, station', Tail(down), up \o o.out, acted')
    <3>1. Served(k, a, station[a], b, link.sent, o) /\ link.sent.addr = a /\ a \in A
      BY <2>1, <2>2 DEF s, A
    <3>2. IsPrim(Head(down))
      BY <1>4 DEF f
    <3>3. ActsOn(A, a, link.sent, station[a], acted, acted')
      BY <2>1, <2>7, <2>8 DEF s, ActsOn
    <3> QED
      BY <1>1, <1>2, <2>9, <3>1, <3>2, <3>3, ServedKeeps
  <2>11. o.station \in StationRec
    BY <2>4 DEF IsStation
  <2> QED
    BY <1>1, <2>5, <2>6, <2>10, <2>11
<1>5. CASE ~IsPrim(f)
  <2> HIDE DEF f
  <2>1. Affirms(f)
    BY <1>2, <1>3, <1>5 DEF LineInv
  <2>2. k = TRUE
    <3>1. Exchange(s.sent, up, down)
      BY <1>2 DEF LineInv, s, A
    <3>2. s.sent # NoFrame
      BY <1>1, <1>2, <1>5, <3>1, BackTaken DEF f
    <3> QED
      BY <1>2, <3>2 DEF IsStation
  <2>3. /\ o.station = s \/ StationConfirmed(k, a, s, o.station)
        /\ o.buffers = b /\ o.out = <<>> /\ o.asdu = NoAsdu
    <3>1. o = S!HandleFrame(s, b, a, f, k)
      BY <1>0 DEF f
    <3>2. AnswerHeard(k, a, s, b, o)
      BY <1>2, <2>1, <2>2, <3>1, AnswerAtStationIs
    <3> QED
      BY <3>2 DEF AnswerHeard
  <2>4. station'[a] = o.station /\ up' = up /\ acted' = acted
    BY <1>0, <1>1, <1>2, <2>3 DEF ActedOn
  <2>5. LineInv(A, k, link, station', Tail(down), up, acted)
    <3>1. station'[a] = station[a] \/ StationConfirmed(k, a, station[a], station'[a])
      BY <2>3, <2>4 DEF s
    <3> QED
      BY <1>1, <1>2, <1>5, <2>2, <3>1, StationAnswerKeeps DEF f
  <2>6. o.station \in StationRec
    BY <1>2, <2>3 DEF StationConfirmed, StationOver, IsStation
  <2> QED
    BY <1>0, <1>1, <1>2, <2>3, <2>4, <2>5, <2>6
<1> QED
  BY <1>4, <1>5

\* prim_tick
LEMMA StationTickKeeps ==
    ASSUME IInv, NEW a \in Station, StationTick(a) PROVE IInv'
<1> DEFINE A == Station
           k == line.balanced
           s == station[a]
           b == buffers[a]
           o == S!PrimTick(s, b, a)
<1>1. /\ line' = line /\ k /\ s.sent = NoFrame
      /\ station' = [station EXCEPT ![a] = o.station]
      /\ buffers' = [buffers EXCEPT ![a] = o.buffers] /\ up' = up \o o.out
      /\ UNCHANGED <<link, queue, calling, down, commands, events, acted, received, confirmed>>
  BY DEF StationTick, StationSends, history
<1>2. /\ a \in A /\ LineInv(A, k, link, station, down, up, acted) /\ A \subseteq Nat
      /\ k \in BOOLEAN /\ buffers \in [A -> BufferRec]
      /\ station \in [A -> StationRec] /\ IsStation(k, a, s) /\ b \in BufferRec
      /\ up \in Seq(Frame) /\ a \in Nat
  BY LineIs DEF IInv, LineInv
<1>3. o = S!PrimTick(s, b, a) /\ k = TRUE
  BY <1>1, <1>2
<1> HIDE DEF A, k, s, b, o
<1>4. \/ o.station = s /\ o.out = <<>> /\ o.buffers = b
      \/ StationAsks(k, a, s, b, o)
  BY <1>2, <1>3, PrimTickIs
<1>5. station'[a] = o.station
  BY <1>1, <1>2
<1>6. /\ LineInv(A, k, link, station', down, up', acted)
      /\ o.station \in StationRec /\ o.buffers \in BufferRec
  <2>1. CASE o.station = s /\ o.out = <<>> /\ o.buffers = b
    <3>1. station' = station /\ up' = up
      BY <1>1, <1>2, <2>1 DEF s
    <3> QED
      BY <1>2, <2>1, <3>1 DEF IsStation
  <2>2. CASE StationAsks(k, a, s, b, o)
    <3>1. LineInv(A, k, link, station', down, up \o o.out, acted)
      BY <1>1, <1>2, <1>3, <1>5, <2>2, StationAsksKeeps DEF s
    <3>2. o.station \in StationRec
      BY <2>2 DEF StationAsks, IsStation
    <3>3. o.buffers = b \/ (b["prim"] # <<>> /\ o.buffers = [b EXCEPT !["prim"] = Tail(@)])
      BY <2>2 DEF StationAsks
    <3>4. o.buffers \in BufferRec
      BY <1>2, <3>3, TakenOut
    <3> QED
      BY <1>1, <3>1, <3>2, <3>4
  <2> QED
    BY <1>4, <2>1, <2>2
<1>7. station' \in [A -> StationRec] /\ buffers' \in [A -> BufferRec]
  BY <1>1, <1>2, <1>6
<1> QED
  BY <1>1, <1>6, <1>7, Kept DEF IInv, ConfirmedIsActed, A, k

\* prim_tick after the deadline of the frame outstanding
LEMMA StationTimeoutKeeps ==
    ASSUME IInv, ~Late, NEW a \in Station, StationTimeout(a) PROVE IInv'
<1> DEFINE A == Station
           k == line.balanced
           s == station[a]
           b == buffers[a]
           o == S!PrimTimeout(s, b)
<1>1. /\ line' = line /\ k /\ s.sent # NoFrame /\ AwaitedInVain(s.sent, up, down)
      /\ station' = [station EXCEPT ![a] = o.station]
      /\ buffers' = [buffers EXCEPT ![a] = o.buffers] /\ up' = up \o o.out
      /\ UNCHANGED <<link, queue, calling, down, commands, events, acted, received, confirmed>>
  BY DEF StationTimeout, StationSends
<1>2. /\ a \in A /\ LineInv(A, k, link, station, down, up, acted) /\ A \subseteq Nat
      /\ k \in BOOLEAN /\ buffers \in [A -> BufferRec]
      /\ station \in [A -> StationRec] /\ IsStation(k, a, s) /\ b \in BufferRec
      /\ up \in Seq(Frame) /\ down \in Seq(Frame) /\ Exchange(s.sent, up, down)
  BY LineIs DEF IInv, LineInv
<1>3. o = S!PrimTimeout(s, b) /\ k = TRUE
  BY <1>1, <1>2
<1> HIDE DEF A, k, s, b, o
<1>4. ~HasPrim(up) /\ ~HasAnswer(down)
  BY <1>1, <1>2, InVain
<1>5. /\ o.buffers = b
      /\ \/ StationGivenUp(k, a, s, o.station) /\ o.out = <<>>
         \/ /\ IsStation(k, a, o.station) /\ o.out = <<s.sent>>
            /\ o.station.sent = s.sent /\ o.station.fcb = s.fcb /\ o.station.active = s.active
            /\ ServesAlike(s, o.station)
  <2>1. StationTimesOut(k, a, s, b, S!PrimExhausted(s), o)
    BY <1>1, <1>2, <1>3, PrimTimeoutIs
  <2> QED
    BY <2>1 DEF StationTimesOut, ServesAlike
<1>6. station'[a] = o.station
  BY <1>1, <1>2
<1>7. LineInv(A, k, link, station', down, up', acted) /\ IsStation(k, a, o.station)
  <2>1. CASE StationGivenUp(k, a, s, o.station) /\ o.out = <<>>
    <3>1. up' = up
      BY <1>1, <1>2, <2>1
    <3>2. StationGivenUp(k, a, station[a], station'[a])
      BY <1>6, <2>1, Zenon DEF s
    <3>3. LineInv(A, k, link, station', down, up, acted)
      BY <1>2, <1>3, <1>4, <3>2, StationGiveUpKeeps
    <3> QED
      BY <2>1, <3>1, <3>3 DEF StationGivenUp, StationOver
  <2>2. CASE /\ IsStation(k, a, o.station) /\ o.out = <<s.sent>>
             /\ o.station.sent = s.sent /\ o.station.fcb = s.fcb /\ o.station.active = s.active
             /\ ServesAlike(s, o.station)
    <3>1. /\ IsStation(k, a, station'[a]) /\ ServesAlike(station[a], station'[a])
          /\ station'[a].sent = station[a].sent /\ station'[a].fcb = station[a].fcb
          /\ station'[a].active = station[a].active /\ station[a].sent # NoFrame
          /\ o.out = <<station[a].sent>>
      BY <1>1, <1>6, <2>2 DEF s
    <3>2. LineInv(A, k, link, station', down, up \o <<station[a].sent>>, acted)
      BY <1>2, <1>3, <1>4, <3>1, StationRepeatKeeps
    <3> QED
      BY <1>1, <2>2, <3>1, <3>2
  <2> QED
    BY <1>5, <2>1, <2>2
<1>8. station' \in [A -> StationRec] /\ buffers' = buffers
  BY <1>1, <1>2, <1>5, <1>7 DEF IsStation, b
<1> QED
  BY <1>1, <1>7, <1>8, Kept DEF IInv, ConfirmedIsActed, A, k

-----------------------------------------------------------------------------
(***************************************************************************)
(* The order of commands and events.                                       *)
(***************************************************************************)

\* What was handed over to station a is in order: first what it has acted on (act),
\* then the command that is out to it (sent) unless it has taken that, then the
\* commands for it that are queued.
CommandOrder(a, q, act, sent, taken, n) ==
    /\ \A i \in 1 .. Len(act) : act[i].cmd <= n
    /\ \A i, j \in 1 .. Len(act) : i < j => act[i].cmd < act[j].cmd
    /\ \A j \in 1 .. Len(q) : q[j].addr = a =>
         /\ q[j].asdu.cmd <= n
         /\ \A i \in 1 .. Len(act) : act[i].cmd < q[j].asdu.cmd
         /\ \A i \in 1 .. Len(q) : i < j /\ q[i].addr = a => q[i].asdu.cmd < q[j].asdu.cmd
    /\ \A x \in Carried(sent) :
         /\ x.cmd <= n
         /\ \A j \in 1 .. Len(q) : q[j].addr = a => x.cmd < q[j].asdu.cmd
         /\ taken \/ \A i \in 1 .. Len(act) : act[i].cmd < x.cmd

\* Events of one class are ordered, those of different classes are not.
Before(x, y) == x.cyclic = y.cyclic => x.event < y.event
InOrder(s) == \A i, j \in 1 .. Len(s) : i < j => Before(s[i], s[j])

\* Events of either class have a queue of their own, on a balanced line one.
Filed(bal, x, q) == (x.cyclic <=> q = "class2") /\ (bal <=> q = "prim")

\* What a station raised is in order: first what the primary has received of it (rec),
\* then what is on the way there and new to it (under), then what is buffered.
EventOrder(bal, b, rec, under, n) ==
    /\ InOrder(rec) /\ \A i \in 1 .. Len(rec) : rec[i].event <= n
    /\ \A q \in {"class1", "class2", "prim"} :
         /\ InOrder(b[q])
         /\ \A i \in 1 .. Len(b[q]) :
              /\ Filed(bal, b[q][i], q) /\ b[q][i].event <= n
              /\ \A j \in 1 .. Len(rec) : Before(rec[j], b[q][i])
              /\ \A x \in under : Before(x, b[q][i])
    /\ \A x \in under : x.event <= n /\ \A j \in 1 .. Len(rec) : Before(rec[j], x)

\* The events of station a, in state s, that are under way to link l.
UnderWay(l, s, a) ==
    {x \in Carried(s.lastResp) : Taken(l, s, a)}
    \cup {x \in Carried(s.sent) : l.fcbExpected = s.sent.control.fcb}

\* A balanced station sends its events as requests, and keeps none as an answer.
KeepsNone(bal, s) == bal => Carried(s.lastResp) = {}

Ordered(bal, a, l, s, b, q, act, rec, nc, ne) ==
    /\ CommandOrder(a, q, act, SentTo(l, a), Taken(l, s, a), nc)
    /\ EventOrder(bal, b, rec, UnderWay(l, s, a), ne)
    /\ KeepsNone(bal, s)

OrderInv ==
    \A a \in Station : Ordered(line.balanced, a, link, station[a], buffers[a], queue, acted[a],
                               received[a], commands, events[a])

\* The numbers of what is ordered.
LEMMA Numbers ==
    /\ \A A : \A q \in Seq(Item(A)) : \A i \in 1 .. Len(q) : q[i].asdu.cmd \in Nat /\ q[i].addr \in A
    /\ \A s \in Seq(Command) : \A i \in 1 .. Len(s) : s[i].cmd \in Nat
    /\ \A s \in Seq(Eventful) : \A i \in 1 .. Len(s) : s[i] \in Eventful
    /\ \A x \in Command : x.cmd \in Nat
    /\ \A x \in Eventful : x.event \in Nat /\ x.cyclic \in BOOLEAN
<1>1. ASSUME NEW A, NEW q \in Seq(Item(A)), NEW i \in 1 .. Len(q)
      PROVE  q[i].asdu.cmd \in Nat /\ q[i].addr \in A
  <2>1. q[i] \in Item(A)
    OBVIOUS
  <2> QED
    BY <2>1 DEF Item, Command
<1>2. ASSUME NEW s \in Seq(Command), NEW i \in 1 .. Len(s)
      PROVE  s[i].cmd \in Nat
  <2>1. s[i] \in Command
    OBVIOUS
  <2> QED
    BY <2>1 DEF Command
<1>3. ASSUME NEW s \in Seq(Eventful), NEW i \in 1 .. Len(s)
      PROVE  s[i] \in Eventful
  OBVIOUS
<1>4. (\A x \in Command : x.cmd \in Nat) /\ (\A x \in Eventful : x.event \in Nat /\ x.cyclic \in BOOLEAN)
  BY DEF Command, Eventful
<1> QED
  BY <1>1, <1>2, <1>3, <1>4

\* Nothing new is out to the station, or nothing any more.
LEMMA CommandOrderLess ==
    ASSUME NEW a, NEW q, NEW act, NEW sent, NEW taken, NEW n,
           CommandOrder(a, q, act, sent, taken, n),
           NEW sent2, NEW taken2, Carried(sent2) \subseteq Carried(sent),
           Carried(sent2) # {} => (taken => taken2)
    PROVE  CommandOrder(a, q, act, sent2, taken2, n)
BY DEF CommandOrder

\* The queue is given up.
LEMMA CommandOrderCleared ==
    ASSUME NEW a, NEW q, NEW act, NEW sent, NEW taken, NEW n,
           CommandOrder(a, q, act, sent, taken, n), NEW sent2, NEW taken2, Carried(sent2) = {}
    PROVE  CommandOrder(a, <<>>, act, sent2, taken2, n)
BY DEF CommandOrder

\* A command is queued.
LEMMA CommandOrderPushed ==
    ASSUME NEW A, NEW a, NEW q \in Seq(Item(A)), NEW act \in Seq(Command), NEW sent, NEW taken,
           NEW n \in Nat, \A x \in Carried(sent) : x \in Command,
           CommandOrder(a, q, act, sent, taken, n),
           NEW e \in Item(A), e.asdu.cmd = n + 1
    PROVE  CommandOrder(a, Append(q, e), act, sent, taken, n + 1)
<1> DEFINE p == Append(q, e)
<1>1. /\ Len(p) = Len(q) + 1 /\ Len(q) \in Nat /\ p[Len(q) + 1] = e
      /\ \A i \in 1 .. Len(q) : p[i] = q[i]
  OBVIOUS
<1> HIDE DEF p
<1>2. \A i \in 1 .. Len(p) : i \in 1 .. Len(q) \/ (i = Len(q) + 1 /\ p[i] = e)
  BY <1>1
<1>3. /\ \A i \in 1 .. Len(act) : act[i].cmd \in Nat
      /\ \A i \in 1 .. Len(q) : q[i].asdu.cmd \in Nat
      /\ \A x \in Carried(sent) : x.cmd \in Nat
  BY Numbers
<1>4. ASSUME NEW j \in 1 .. Len(p), p[j].addr = a
      PROVE  /\ p[j].asdu.cmd <= n + 1
             /\ \A i \in 1 .. Len(act) : act[i].cmd < p[j].asdu.cmd
             /\ \A i \in 1 .. Len(p) : i < j /\ p[i].addr = a => p[i].asdu.cmd < p[j].asdu.cmd
  <2>1. CASE j \in 1 .. Len(q)
    <3>1. p[j] = q[j] /\ q[j].addr = a
      BY <1>1, <1>4, <2>1
    <3>2. \A i \in 1 .. Len(p) : i < j => i \in 1 .. Len(q) /\ p[i] = q[i]
      BY <1>1, <2>1
    <3>3. /\ q[j].asdu.cmd <= n
          /\ \A i \in 1 .. Len(act) : act[i].cmd < q[j].asdu.cmd
          /\ \A i \in 1 .. Len(q) : i < j /\ q[i].addr = a => q[i].asdu.cmd < q[j].asdu.cmd
      BY <2>1, <3>1 DEF CommandOrder
    <3>4. p[j].asdu.cmd <= n + 1
      BY <1>3, <2>1, <3>1, <3>3
    <3> QED
      BY <3>1, <3>2, <3>3, <3>4
  <2>2. CASE j = Len(q) + 1
    <3>1. \A i \in 1 .. Len(p) : i < j => i \in 1 .. Len(q) /\ p[i] = q[i]
      BY <1>1, <2>2
    <3>2. \A i \in 1 .. Len(q) : q[i].addr = a => q[i].asdu.cmd <= n
      BY DEF CommandOrder
    <3>3. \A i \in 1 .. Len(act) : act[i].cmd <= n
      BY DEF CommandOrder
    <3> QED
      BY <1>1, <1>3, <2>2, <3>1, <3>2, <3>3
  <2> QED
    BY <1>2, <2>1, <2>2
<1>5. ASSUME NEW x \in Carried(sent)
      PROVE  /\ x.cmd <= n + 1
             /\ \A j \in 1 .. Len(p) : p[j].addr = a => x.cmd < p[j].asdu.cmd
             /\ taken \/ \A i \in 1 .. Len(act) : act[i].cmd < x.cmd
  BY <1>1, <1>2, <1>3 DEF CommandOrder
<1>6. \A i \in 1 .. Len(act) : act[i].cmd <= n + 1
  BY <1>3 DEF CommandOrder
<1>7. \A i, j \in 1 .. Len(act) : i < j => act[i].cmd < act[j].cmd
  BY DEF CommandOrder
<1> QED
  BY <1>4, <1>5, <1>6, <1>7 DEF CommandOrder, p

\* Two sequences are joined.
LEMMA Joined ==
    ASSUME NEW T, NEW u \in Seq(T), NEW v \in Seq(T)
    PROVE  u \o v \in Seq(T) /\ Len(u \o v) = Len(u) + Len(v)
OBVIOUS

\* A sequence without its i-th element keeps the others in their order.
Without(q, i, p) ==
    \E at \in [1 .. Len(p) -> 1 .. Len(q)] :
        /\ \A j \in 1 .. Len(p) : p[j] = q[at[j]] /\ at[j] # i
        /\ \A j, k \in 1 .. Len(p) : j < k => at[j] < at[k]

\* What is left of q without its i-th element, from the parts u before and v after it.
LEMMA WithoutParts ==
    ASSUME NEW T, NEW q \in Seq(T), NEW i \in 1 .. Len(q), NEW u \in Seq(T), NEW v \in Seq(T),
           Len(u) = i - 1, \A j \in 1 .. (i - 1) : u[j] = q[j],
           Len(v) = Len(q) - i, \A j \in 1 .. (Len(q) - i) : v[j] = q[j + i]
    PROVE  Without(q, i, u \o v)
<1> DEFINE p == u \o v
           at == [j \in 1 .. Len(p) |-> IF j < i THEN j ELSE j + 1]
<1>1. Len(q) \in Nat /\ i \in Nat /\ 1 <= i /\ i <= Len(q)
  OBVIOUS
<1>2. p \in Seq(T) /\ Len(p) = Len(q) - 1
  <2>1. p \in Seq(T) /\ Len(p) = Len(u) + Len(v)
    BY Joined
  <2> HIDE DEF p
  <2> QED
    BY <1>1, <2>1
<1>3. \A j \in 1 .. Len(p) : p[j] = IF j < i THEN u[j] ELSE v[j - (i - 1)]
  BY <1>1
<1> HIDE DEF p
<1>4. /\ at \in [1 .. Len(p) -> 1 .. Len(q)]
      /\ \A j \in 1 .. Len(p) : at[j] = IF j < i THEN j ELSE j + 1
  <2>1. \A j \in 1 .. Len(p) : (IF j < i THEN j ELSE j + 1) \in 1 .. Len(q)
    BY <1>1, <1>2
  <2> QED
    BY <2>1
<1> HIDE DEF at
<1>5. ASSUME NEW j \in 1 .. Len(p)
      PROVE  p[j] = q[at[j]] /\ at[j] # i
  <2>1. CASE j < i
    BY <1>1, <1>2, <1>3, <1>4, <2>1
  <2>2. CASE ~(j < i)
    <3> DEFINE w == j - (i - 1)
    <3>1. p[j] = v[w]
      BY <1>3, <2>2
    <3>2. w \in 1 .. (Len(q) - i) /\ w + i = j + 1
      BY <1>1, <1>2, <2>2
    <3> HIDE DEF w
    <3>3. p[j] = q[w + i]
      BY <3>1, <3>2
    <3> QED
      BY <1>1, <1>4, <2>2, <3>2, <3>3
  <2> QED
    BY <2>1, <2>2
<1>6. \A j, k \in 1 .. Len(p) : j < k => at[j] < at[k]
  BY <1>1, <1>2, <1>4
<1> QED
  BY <1>4, <1>5, <1>6 DEF Without, p

\* So does what is left when the i-th element is cut out.
LEMMA WithoutOne ==
    ASSUME NEW T, NEW q \in Seq(T), NEW i \in 1 .. Len(q)
    PROVE  Without(q, i, SubSeq(q, 1, i - 1) \o SubSeq(q, i + 1, Len(q)))
<1> DEFINE u == SubSeq(q, 1, i - 1)
           v == SubSeq(q, i + 1, Len(q))
<1>1. u \in Seq(T) /\ Len(u) = i - 1 /\ \A j \in 1 .. (i - 1) : u[j] = q[j]
  OBVIOUS
<1>2. v \in Seq(T) /\ Len(v) = Len(q) - i /\ \A j \in 1 .. (Len(q) - i) : v[j] = q[j + i]
  OBVIOUS
<1> HIDE DEF u, v
<1>3. Without(q, i, u \o v)
  BY <1>1, <1>2, WithoutParts
<1> QED
  BY <1>3 DEF u, v

\* The first command of a station leaves the queue, and is out to that station.
LEMMA CommandOrderTaken ==
    ASSUME NEW A, NEW a, NEW q \in Seq(Item(A)), NEW act \in Seq(Command), NEW sent, NEW taken,
           NEW n, CommandOrder(a, q, act, sent, taken, n),
           NEW i \in 1 .. Len(q), \A j \in 1 .. (i - 1) : q[j].addr # q[i].addr,
           NEW p, Without(q, i, p), NEW sent2, NEW taken2,
           Carried(sent2) # {} => q[i].addr = a /\ Carried(sent2) = {q[i].asdu}
    PROVE  CommandOrder(a, p, act, sent2, taken2, n)
<1>1. PICK at \in [1 .. Len(p) -> 1 .. Len(q)] :
        /\ \A j \in 1 .. Len(p) : p[j] = q[at[j]] /\ at[j] # i
        /\ \A j, k \in 1 .. Len(p) : j < k => at[j] < at[k]
  BY DEF Without
<1>2. \A j \in 1 .. Len(p) : at[j] \in 1 .. Len(q)
  OBVIOUS
<1>3. ASSUME NEW j \in 1 .. Len(p), p[j].addr = a
      PROVE  /\ p[j].asdu.cmd <= n
             /\ \A k \in 1 .. Len(act) : act[k].cmd < p[j].asdu.cmd
             /\ \A k \in 1 .. Len(p) : k < j /\ p[k].addr = a => p[k].asdu.cmd < p[j].asdu.cmd
  BY <1>1, <1>2, <1>3 DEF CommandOrder
<1>4. ASSUME NEW x \in Carried(sent2)
      PROVE  /\ x.cmd <= n
             /\ \A j \in 1 .. Len(p) : p[j].addr = a => x.cmd < p[j].asdu.cmd
             /\ taken2 \/ \A k \in 1 .. Len(act) : act[k].cmd < x.cmd
  <2>1. x = q[i].asdu /\ q[i].addr = a
    BY <1>4
  <2>2. \A j \in 1 .. Len(p) : p[j].addr = a => i < at[j]
    <3> SUFFICES ASSUME NEW j \in 1 .. Len(p), p[j].addr = a PROVE i < at[j]
      OBVIOUS
    <3>1. at[j] \notin 1 .. (i - 1)
      BY <1>1, <2>1
    <3> QED
      BY <1>1, <1>2, <3>1
  <2> QED
    BY <1>1, <1>2, <2>1, <2>2 DEF CommandOrder
<1>5. /\ \A k \in 1 .. Len(act) : act[k].cmd <= n
      /\ \A k, j \in 1 .. Len(act) : k < j => act[k].cmd < act[j].cmd
  BY DEF CommandOrder
<1> QED
  BY <1>3, <1>4, <1>5 DEF CommandOrder

\* The station acts on the command that is out to it.
LEMMA CommandOrderActed ==
    ASSUME NEW a, NEW q, NEW act \in Seq(Command), NEW sent, NEW n,
           NEW taken, CommandOrder(a, q, act, sent, taken, n), taken = FALSE,
           NEW x, Carried(sent) = {x}, NEW taken2, taken2 = TRUE
    PROVE  CommandOrder(a, q, Append(act, x), sent, taken2, n)
<1> DEFINE s == Append(act, x)
<1>1. /\ Len(s) = Len(act) + 1 /\ Len(act) \in Nat /\ s[Len(act) + 1] = x
      /\ \A i \in 1 .. Len(act) : s[i] = act[i]
  OBVIOUS
<1> HIDE DEF s
<1>2. \A i \in 1 .. Len(s) : i \in 1 .. Len(act) \/ (i = Len(act) + 1 /\ s[i] = x)
  BY <1>1
<1>3. /\ x.cmd <= n
      /\ \A j \in 1 .. Len(q) : q[j].addr = a => x.cmd < q[j].asdu.cmd
      /\ \A i \in 1 .. Len(act) : act[i].cmd < x.cmd
  BY DEF CommandOrder
<1>4. \A i, j \in 1 .. Len(s) : i < j => s[i].cmd < s[j].cmd
  <2> SUFFICES ASSUME NEW i \in 1 .. Len(s), NEW j \in 1 .. Len(s), i < j PROVE s[i].cmd < s[j].cmd
    OBVIOUS
  <2>1. i \in 1 .. Len(act) /\ s[i] = act[i]
    BY <1>1
  <2> QED
    BY <1>1, <1>2, <1>3, <2>1 DEF CommandOrder
<1>5. \A i \in 1 .. Len(s) : s[i].cmd <= n
  BY <1>1, <1>2, <1>3 DEF CommandOrder
<1>6. ASSUME NEW j \in 1 .. Len(q), q[j].addr = a
      PROVE  /\ q[j].asdu.cmd <= n
             /\ \A i \in 1 .. Len(s) : s[i].cmd < q[j].asdu.cmd
             /\ \A i \in 1 .. Len(q) : i < j /\ q[i].addr = a => q[i].asdu.cmd < q[j].asdu.cmd
  BY <1>1, <1>2, <1>3, <1>6 DEF CommandOrder
<1>7. \A y \in Carried(sent) : y.cmd <= n /\ \A j \in 1 .. Len(q) : q[j].addr = a => y.cmd < q[j].asdu.cmd
  BY <1>3
<1> QED
  BY <1>4, <1>5, <1>6, <1>7 DEF CommandOrder, s

\* Less is under way.
LEMMA EventOrderLess ==
    ASSUME NEW bal, NEW b, NEW rec, NEW under, NEW n, EventOrder(bal, b, rec, under, n),
           NEW under2, under2 \subseteq under
    PROVE  EventOrder(bal, b, rec, under2, n)
BY DEF EventOrder

\* One more element of a sequence in order.
LEMMA InOrderMore ==
    ASSUME NEW s \in Seq(Eventful), InOrder(s), NEW x \in Eventful,
           \A i \in 1 .. Len(s) : Before(s[i], x)
    PROVE  InOrder(Append(s, x))
<1> DEFINE t == Append(s, x)
<1>1. /\ Len(t) = Len(s) + 1 /\ Len(s) \in Nat /\ t[Len(s) + 1] = x
      /\ \A i \in 1 .. Len(s) : t[i] = s[i]
  OBVIOUS
<1> HIDE DEF t
<1>2. ASSUME NEW i \in 1 .. Len(t), NEW j \in 1 .. Len(t), i < j
      PROVE  Before(t[i], t[j])
  <2>1. i \in 1 .. Len(s) /\ t[i] = s[i]
    BY <1>1, <1>2
  <2>2. CASE j \in 1 .. Len(s)
    BY <1>1, <1>2, <2>1, <2>2 DEF InOrder
  <2>3. CASE j = Len(s) + 1
    BY <1>1, <2>1, <2>3
  <2> QED
    BY <1>1, <2>2, <2>3
<1> QED
  BY <1>2 DEF InOrder, t

\* An event is raised, and files at the end of its queue.
LEMMA EventOrderRaised ==
    ASSUME NEW bal, bal \in BOOLEAN, NEW b \in BufferRec, NEW rec \in Seq(Eventful),
           NEW under \in SUBSET Eventful, NEW n \in Nat, EventOrder(bal, b, rec, under, n),
           NEW x \in Eventful, x.event = n + 1, bal => ~x.cyclic,
           NEW q, q = S!QueueFor(x.cyclic, bal), NEW c, c = [b EXCEPT ![q] = Append(@, x)]
    PROVE  EventOrder(bal, c, rec, under, n + 1)
<1> DEFINE t == Append(b[q], x)
<1>1. q \in {"class1", "class2", "prim"} /\ Filed(bal, x, q) /\ x.cyclic \in BOOLEAN
  BY DEF S!QueueFor, Filed, Eventful
<1>2. \A p \in {"class1", "class2", "prim"} : b[p] \in Seq(Eventful)
  BY DEF BufferRec
<1>3. c[q] = t /\ \A p \in {"class1", "class2", "prim"} : p # q => c[p] = b[p]
  BY <1>1 DEF BufferRec
<1>4. /\ Len(t) = Len(b[q]) + 1 /\ Len(b[q]) \in Nat /\ t[Len(b[q]) + 1] = x
      /\ \A i \in 1 .. Len(b[q]) : t[i] = b[q][i]
  BY <1>1, <1>2
<1>5. \A y \in Eventful : y.event <= n => Before(y, x) /\ y.event <= n + 1
  BY Numbers DEF Before
<1>6. InOrder(t)
  <2>1. InOrder(b[q]) /\ \A i \in 1 .. Len(b[q]) : b[q][i].event <= n
    BY <1>1 DEF EventOrder
  <2>2. \A i \in 1 .. Len(b[q]) : b[q][i] \in Eventful
    BY <1>1, <1>2
  <2>3. \A i \in 1 .. Len(b[q]) : Before(b[q][i], x)
    BY <1>5, <2>1, <2>2
  <2> QED
    BY <1>1, <1>2, <2>1, <2>3, InOrderMore
<1> HIDE DEF t
<1>7. /\ \A j \in 1 .. Len(rec) : rec[j] \in Eventful /\ rec[j].event <= n
      /\ \A y \in under : y \in Eventful /\ y.event <= n
  BY DEF EventOrder
<1>8. /\ \A j \in 1 .. Len(rec) : Before(rec[j], x) /\ rec[j].event <= n + 1
      /\ \A y \in under : Before(y, x) /\ y.event <= n + 1
  BY <1>5, <1>7
<1>9. ASSUME NEW p \in {"class1", "class2", "prim"}
      PROVE  /\ InOrder(c[p])
             /\ \A i \in 1 .. Len(c[p]) :
                  /\ Filed(bal, c[p][i], p) /\ c[p][i].event <= n + 1
                  /\ \A j \in 1 .. Len(rec) : Before(rec[j], c[p][i])
                  /\ \A y \in under : Before(y, c[p][i])
  <2>1. /\ InOrder(b[p])
        /\ \A i \in 1 .. Len(b[p]) :
             /\ Filed(bal, b[p][i], p) /\ b[p][i].event <= n
             /\ \A j \in 1 .. Len(rec) : Before(rec[j], b[p][i])
             /\ \A y \in under : Before(y, b[p][i])
    BY DEF EventOrder
  <2>2. \A i \in 1 .. Len(b[p]) : b[p][i] \in Eventful
    BY <1>2
  <2>3. \A i \in 1 .. Len(b[p]) : b[p][i].event <= n + 1
    BY <1>5, <2>1, <2>2
  <2>4. CASE p # q
    BY <1>3, <2>1, <2>3, <2>4
  <2>5. CASE p = q
    <3>1. \A i \in 1 .. Len(t) : (i \in 1 .. Len(b[q]) /\ t[i] = b[q][i]) \/ t[i] = x
      BY <1>4
    <3>2. x.event <= n + 1
      OBVIOUS
    <3>3. c[p] = t
      BY <1>3, <2>5
    <3> QED
      BY <1>1, <1>6, <1>8, <2>1, <2>3, <2>5, <3>1, <3>2, <3>3
  <2> QED
    BY <2>4, <2>5
<1>10. InOrder(rec) /\ \A i, j \in 1 .. Len(rec) : rec[i].event <= n + 1
  BY <1>8 DEF EventOrder
<1>11. \A y \in under : y.event <= n + 1 /\ \A j \in 1 .. Len(rec) : Before(rec[j], y)
  BY <1>8 DEF EventOrder
<1> QED
  BY <1>9, <1>10, <1>11 DEF EventOrder

\* What was under way is received.
LEMMA EventOrderReceived ==
    ASSUME NEW bal, NEW b \in BufferRec, NEW rec \in Seq(Eventful), NEW under,
           NEW n, EventOrder(bal, b, rec, under, n), NEW x \in under, x \in Eventful
    PROVE  EventOrder(bal, b, Append(rec, x), {}, n)
<1> DEFINE t == Append(rec, x)
<1>1. \A i \in 1 .. Len(t) : (i \in 1 .. Len(rec) /\ t[i] = rec[i]) \/ t[i] = x
  OBVIOUS
<1>2. InOrder(t)
  <2>1. InOrder(rec) /\ \A j \in 1 .. Len(rec) : Before(rec[j], x)
    BY DEF EventOrder
  <2> QED
    BY <2>1, InOrderMore
<1> HIDE DEF t
<1>3. x.event <= n /\ \A i \in 1 .. Len(rec) : rec[i].event <= n
  BY DEF EventOrder
<1>4. ASSUME NEW q \in {"class1", "class2", "prim"}
      PROVE  /\ InOrder(b[q])
             /\ \A i \in 1 .. Len(b[q]) :
                  /\ Filed(bal, b[q][i], q) /\ b[q][i].event <= n
                  /\ \A j \in 1 .. Len(t) : Before(t[j], b[q][i])
  BY <1>1 DEF EventOrder
<1> QED
  BY <1>1, <1>2, <1>3, <1>4 DEF EventOrder, t

\* The first event of a buffer is under way, and nothing else.
LEMMA EventOrderTaken ==
    ASSUME NEW bal, bal \in BOOLEAN, NEW b \in BufferRec, NEW rec \in Seq(Eventful), NEW under,
           NEW n, EventOrder(bal, b, rec, under, n), NEW q \in {"class1", "class2", "prim"},
           b[q] # <<>>, NEW under2, under2 \subseteq {Head(b[q])},
           NEW c, c = [b EXCEPT ![q] = Tail(@)]
    PROVE  EventOrder(bal, c, rec, under2, n)
<1> DEFINE x == Head(b[q])
           t == Tail(b[q])
<1>1. \A p \in {"class1", "class2", "prim"} : b[p] \in Seq(Eventful)
  BY DEF BufferRec
<1>2. c[q] = t /\ \A p \in {"class1", "class2", "prim"} : p # q => c[p] = b[p]
  BY DEF BufferRec
<1>3. /\ x = b[q][1] /\ 1 \in 1 .. Len(b[q]) /\ x \in Eventful /\ Len(b[q]) \in Nat
      /\ \A i \in 1 .. Len(t) : t[i] = b[q][i + 1] /\ i + 1 \in 1 .. Len(b[q])
  BY <1>1, HeadTail
<1> HIDE DEF x, t
<1>4. \A p \in {"class1", "class2", "prim"} :
        /\ InOrder(b[p])
        /\ \A i \in 1 .. Len(b[p]) :
             /\ Filed(bal, b[p][i], p) /\ b[p][i].event <= n
             /\ \A j \in 1 .. Len(rec) : Before(rec[j], b[p][i])
  BY DEF EventOrder
<1>5. InOrder(t) /\ \A i \in 1 .. Len(t) : Before(x, t[i])
  <2>0. Len(t) \in Nat
    BY <1>1, <1>3, HeadTail DEF t
  <2>1. \A i, j \in 1 .. Len(b[q]) : i < j => Before(b[q][i], b[q][j])
    BY <1>4 DEF InOrder
  <2>2. \A i \in 1 .. Len(t) : Before(x, t[i])
    BY <1>3, <2>0, <2>1
  <2>3. \A i, j \in 1 .. Len(t) : i < j => Before(t[i], t[j])
    BY <1>3, <2>0, <2>1
  <2> QED
    BY <2>2, <2>3 DEF InOrder
<1>6. ASSUME NEW p \in {"class1", "class2", "prim"}
      PROVE  /\ InOrder(c[p])
             /\ \A i \in 1 .. Len(c[p]) :
                  /\ Filed(bal, c[p][i], p) /\ c[p][i].event <= n
                  /\ \A j \in 1 .. Len(rec) : Before(rec[j], c[p][i])
                  /\ Before(x, c[p][i])
  <2>1. CASE p = q
    <3>1. c[p] = t
      BY <1>2, <2>1
    <3> QED
      BY <1>3, <1>4, <1>5, <2>1, <3>1
  <2>2. CASE p # q
    <3>1. c[p] = b[p]
      BY <1>2, <2>2
    <3>2. Filed(bal, x, q)
      BY <1>3, <1>4
    <3>3. ASSUME NEW i \in 1 .. Len(b[p])
          PROVE  x.cyclic # b[p][i].cyclic
      <4>1. Filed(bal, b[p][i], p) /\ b[p][i] \in Eventful
        BY <1>1, <1>4
      <4> QED
        BY <1>3, <2>2, <3>2, <4>1, Numbers DEF Filed
    <3> QED
      BY <1>4, <3>1, <3>3 DEF Before
  <2> QED
    BY <2>1, <2>2
<1>7. x.event <= n /\ \A j \in 1 .. Len(rec) : Before(rec[j], x)
  BY <1>3, <1>4
<1>8. InOrder(rec) /\ \A i \in 1 .. Len(rec) : rec[i].event <= n
  BY DEF EventOrder
<1>9. \A y \in under2 : y = x
  BY DEF x
<1> QED
  BY <1>6, <1>7, <1>8, <1>9 DEF EventOrder

\* Link l has become m, and whatever may be out that was not is not user data and has
\* not been taken.
Quiet(A, l, m, st) ==
    /\ m.fcbExpected = l.fcbExpected
    /\ \A a \in A : \/ SentTo(m, a) = SentTo(l, a)
                    \/ Carried(SentTo(m, a)) = {} /\ ~Taken(m, st[a], a)

\* What a station has taken, and what is under way from it, depends on the link in as
\* far as that has to do with it.
LEMMA TakenIs ==
    ASSUME NEW l, NEW s, NEW a
    PROVE  Taken(l, s, a) <=> /\ SentTo(l, a) # NoFrame /\ SentTo(l, a).control.fcv
                              /\ s.fcbExpected # SentTo(l, a).control.fcb
BY DEF Taken, SentTo

\* Two such changes are one.
LEMMA QuietTrans ==
    ASSUME NEW A, NEW l, NEW m, NEW n, NEW st, Quiet(A, l, m, st), Quiet(A, m, n, st)
    PROVE  Quiet(A, l, n, st)
<1>1. ASSUME NEW a \in A, SentTo(n, a) = SentTo(m, a)
      PROVE  Taken(n, st[a], a) <=> Taken(m, st[a], a)
  BY <1>1, TakenIs
<1> QED
  BY <1>1 DEF Quiet

\* A link with nothing outstanding has nothing out to any station.
LEMMA NothingOut == ASSUME NEW l, l.sent = NoFrame, NEW a, NEW s
                    PROVE  SentTo(l, a) = NoFrame /\ Carried(SentTo(l, a)) = {} /\ ~Taken(l, s, a)
BY DEF SentTo, Taken, Carried, NoFrame

\* A link that keeps what is outstanding is quiet,
LEMMA SameIsQuiet ==
    ASSUME NEW A, NEW l, NEW m, LinkSame(A, l, m), NEW st
    PROVE  Quiet(A, l, m, st)
BY DEF LinkSame, Quiet, SentTo

\* so is one that has done with it,
LEMMA OverIsQuiet ==
    ASSUME NEW A, NEW l, NEW m, Over(A, l, m), NEW st
    PROVE  Quiet(A, l, m, st)
BY NothingOut DEF Over, Quiet

\* one that takes the answer to it,
LEMMA RepliedIsQuiet ==
    ASSUME NEW A, NEW l, NEW f, NEW m, NEW done, Replied(A, l, f, m, done), NEW st
    PROVE  Quiet(A, l, m, st)
BY SameIsQuiet, OverIsQuiet DEF Replied, LinkConfirmed, LinkGivenUp

\* and one that asks for a link or for events.
LEMMA MovesOnIsQuiet ==
    ASSUME NEW A \in SUBSET Nat, NEW bal, NEW l, NEW st, NEW dn, NEW u, NEW act,
           LineInv(A, bal, l, st, dn, u, act), NEW m, NEW out, MovesOn(A, l, m, out)
    PROVE  Quiet(A, l, m, st)
<1>1. CASE LinkSame(A, l, m)
  BY <1>1, SameIsQuiet
<1>2. CASE l.sent = NoFrame /\ Launch(A, l, m, m.sent, {})
  <2>1. \A a \in A : ~Taken(m, st[a], a)
    BY <1>2, LaunchedIsNew
  <2>2. m.fcbExpected = l.fcbExpected /\ m.sent.kind # "Variable"
    BY <1>2 DEF Launch
  <2>3. \A a \in A : Carried(SentTo(m, a)) = {}
    BY <2>2 DEF SentTo, Carried, NoFrame
  <2> QED
    BY <2>1, <2>2, <2>3 DEF Quiet
<1> QED
  BY <1>1, <1>2 DEF MovesOn

\* Such a change leaves everything in order.
LEMMA QuietOrder ==
    ASSUME NEW A, NEW a \in A, NEW l, NEW m, NEW st, Quiet(A, l, m, st),
           NEW bal, NEW b, NEW q, NEW act, NEW rec, NEW nc, NEW ne,
           Ordered(bal, a, l, st[a], b, q, act, rec, nc, ne)
    PROVE  Ordered(bal, a, m, st[a], b, q, act, rec, nc, ne)
<1> DEFINE s == st[a]
           t == Taken(l, s, a)
           u == Taken(m, s, a)
           x == SentTo(l, a)
           y == SentTo(m, a)
<1>1. CommandOrder(a, q, act, x, t, nc) /\ EventOrder(bal, b, rec, UnderWay(l, s, a), ne)
  BY DEF Ordered
<1>2. (y = x /\ (u <=> t)) \/ (Carried(y) = {} /\ ~u)
  BY TakenIs DEF Quiet
<1>3. UnderWay(m, s, a) \subseteq UnderWay(l, s, a)
  <2>1. m.fcbExpected = l.fcbExpected
    BY DEF Quiet
  <2> QED
    BY <1>2, <2>1 DEF UnderWay
<1> HIDE DEF t, u, x, y, s
<1>4. CommandOrder(a, q, act, y, u, nc)
  BY <1>1, <1>2, CommandOrderLess
<1>5. EventOrder(bal, b, rec, UnderWay(m, s, a), ne)
  BY <1>1, <1>3, EventOrderLess
<1> QED
  BY <1>4, <1>5 DEF Ordered, s, u, y

\* The types of what is ordered for a station.
LEMMA StationTypes ==
    ASSUME IInv, NEW a \in Station
    PROVE  /\ acted[a] \in Seq(Command) /\ received[a] \in Seq(Eventful)
           /\ buffers[a] \in BufferRec /\ IsStation(line.balanced, a, station[a])
           /\ commands \in Nat /\ events[a] \in Nat /\ queue \in Seq(Item(Station))
           /\ IsLink(Station, link) /\ line.balanced \in BOOLEAN /\ a \in Nat
           /\ Carried(SentTo(link, a)) \subseteq Command
           /\ UnderWay(link, station[a], a) \subseteq Eventful
<1>1. /\ line.balanced \in BOOLEAN /\ a \in Nat
      /\ LineInv(Station, line.balanced, link, station, down, up, acted)
  BY LineIs DEF IInv
<1>2. IsLink(Station, link) /\ IsStation(line.balanced, a, station[a])
  BY <1>1 DEF LineInv
<1>3. Carried(SentTo(link, a)) \subseteq Command
  BY <1>2 DEF IsLink, SentTo, Carried, NoFrame
<1>4. UnderWay(link, station[a], a) \subseteq Eventful
  BY <1>2 DEF IsStation, Affirms, UnderWay, Carried, NoFrame
<1> QED
  BY <1>1, <1>2, <1>3, <1>4 DEF IInv

\* A step keeps the order if it does so for every station.
LEMMA OrderKept ==
    ASSUME line' = line,
           \A a \in Station : Ordered(line.balanced, a, link', station'[a], buffers'[a], queue',
                                      acted'[a], received'[a], commands', events'[a])
    PROVE  OrderInv'
BY DEF OrderInv, Station

\* A step of the link that is quiet.
LEMMA QuietKeepsOrder ==
    ASSUME OrderInv, Quiet(Station, link, link', station),
           UNCHANGED <<line, station, buffers, queue, acted, received, commands, events>>
    PROVE  OrderInv'
<1>1. \A a \in Station : Ordered(line.balanced, a, link', station[a], buffers[a], queue,
                                 acted[a], received[a], commands, events[a])
  BY QuietOrder DEF OrderInv
<1> QED
  BY <1>1, OrderKept

\* At first nothing has been handed over or raised.
LEMMA InitOrder == Init => OrderInv
<1> SUFFICES ASSUME Init, NEW a \in Station
             PROVE  Ordered(line.balanced, a, link, station[a], buffers[a], queue, acted[a],
                            received[a], commands, events[a])
  BY DEF OrderInv
<1>1. /\ queue = <<>> /\ commands = 0 /\ events[a] = 0 /\ acted[a] = <<>> /\ received[a] = <<>>
      /\ link = P!NewLink(line.order, line.balanced)
      /\ station[a] = S!NewStation /\ buffers[a] = S!NewBuffers
  BY DEF Init
<1>2. link.sent = NoFrame
  BY <1>1, PNames DEF P!NewLink
<1>3. station[a].sent = NoFrame /\ station[a].lastResp = NoFrame
  BY <1>1, NewStationIs
<1>4. /\ Carried(station[a].sent) = {} /\ Carried(station[a].lastResp) = {}
      /\ SentTo(link, a) = NoFrame /\ Carried(SentTo(link, a)) = {}
  BY <1>2, <1>3 DEF Carried, NoFrame, SentTo
<1>5. \A q \in {"class1", "class2", "prim"} : buffers[a][q] = <<>>
  BY <1>1 DEF S!NewBuffers
<1>6. CommandOrder(a, queue, acted[a], SentTo(link, a), Taken(link, station[a], a), commands)
  BY <1>1, <1>4 DEF CommandOrder
<1>7. EventOrder(line.balanced, buffers[a], received[a], {}, events[a])
  <2>1. \A s : s = <<>> => 1 .. Len(s) = {}
    OBVIOUS
  <2> QED
    BY <1>1, <1>5, <2>1 DEF EventOrder, InOrder
<1>8. UnderWay(link, station[a], a) = {}
  BY <1>4 DEF UnderWay
<1> QED
  BY <1>4, <1>6, <1>7, <1>8 DEF Ordered, KeepsNone

\* A command is queued with the next number.
LEMMA SendToPushesOrder ==
    ASSUME IInv, OrderInv, SendToPushes PROVE OrderInv'
<1> DEFINE e == [addr |-> calling, asdu |-> Cmd(commands + 1)]
<1>1. /\ line' = line /\ calling # NoCall
      /\ UNCHANGED <<link, station, buffers, events, acted, received>>
      /\ \/ queue' = Append(queue, e) /\ commands' = commands + 1
         \/ queue' = queue /\ commands' = commands
  BY DEF SendToPushes
<1>2. e \in Item(Station) /\ e.asdu.cmd = commands + 1
  BY <1>1 DEF IInv, Item, Cmd, Command
<1> HIDE DEF e
<1> SUFFICES ASSUME NEW a \in Station
             PROVE  Ordered(line.balanced, a, link, station[a], buffers[a], queue', acted[a],
                            received[a], commands', events[a])
  BY <1>1, OrderKept
<1>3. /\ CommandOrder(a, queue, acted[a], SentTo(link, a), Taken(link, station[a], a), commands)
      /\ EventOrder(line.balanced, buffers[a], received[a], UnderWay(link, station[a], a), events[a])
      /\ KeepsNone(line.balanced, station[a])
  BY DEF OrderInv, Ordered
<1>4. CommandOrder(a, queue', acted[a], SentTo(link, a), Taken(link, station[a], a), commands')
  <2>1. \A x \in Carried(SentTo(link, a)) : x \in Command
    BY StationTypes
  <2>2. acted[a] \in Seq(Command) /\ commands \in Nat /\ queue \in Seq(Item(Station))
    BY StationTypes
  <2>3. CommandOrder(a, Append(queue, e), acted[a], SentTo(link, a), Taken(link, station[a], a),
                     commands + 1)
    BY <1>2, <1>3, <2>1, <2>2, CommandOrderPushed
  <2> QED
    BY <1>1, <1>3, <2>3
<1> QED
  BY <1>3, <1>4 DEF Ordered

\* An event is buffered with the next number of its station.
LEMMA RaiseOrder ==
    ASSUME IInv, OrderInv, NEW a \in Station, NEW cyclic, cyclic \in BOOLEAN, Raise(a, cyclic)
    PROVE  OrderInv'
<1> DEFINE q == S!QueueFor(cyclic, line.balanced)
           x == Event(a, events[a] + 1, cyclic)
<1>1. /\ line' = line /\ events' = [events EXCEPT ![a] = @ + 1]
      /\ buffers' = [buffers EXCEPT ![a][q] = Append(@, x)]
      /\ line.balanced => ~cyclic
      /\ UNCHANGED <<link, queue, station, commands, acted, received>>
  BY DEF Raise
<1>2. a \in Nat /\ events[a] \in Nat
  BY StationTypes
<1>3. x \in Eventful /\ x.event = events[a] + 1 /\ x.cyclic = cyclic
  BY <1>2 DEF Event, Eventful
<1>4. q = S!QueueFor(x.cyclic, line.balanced)
  BY <1>3
<1> HIDE DEF x, q
<1> SUFFICES ASSUME NEW y \in Station
             PROVE  Ordered(line.balanced, y, link, station[y], buffers'[y], queue, acted[y],
                            received[y], commands, events'[y])
  BY <1>1, OrderKept
<1>5. Ordered(line.balanced, y, link, station[y], buffers[y], queue, acted[y], received[y],
              commands, events[y])
  BY DEF OrderInv
<1>6. CASE y # a
  <2>1. buffers'[y] = buffers[y] /\ events'[y] = events[y]
    BY <1>1, <1>6 DEF IInv
  <2> QED
    BY <1>5, <2>1
<1>7. CASE y = a
  <2>1. buffers'[a] = [buffers[a] EXCEPT ![q] = Append(@, x)] /\ events'[a] = events[a] + 1
    BY <1>1 DEF IInv
  <2>2. EventOrder(line.balanced, buffers[a], received[a], UnderWay(link, station[a], a), events[a])
    BY <1>5, <1>7 DEF Ordered
  <2>3. /\ buffers[a] \in BufferRec /\ received[a] \in Seq(Eventful) /\ line.balanced \in BOOLEAN
        /\ UnderWay(link, station[a], a) \in SUBSET Eventful /\ events[a] \in Nat
    BY StationTypes
  <2>4. line.balanced => ~x.cyclic
    BY <1>1, <1>3
  <2> DEFINE k == line.balanced
             b == buffers[a]
             c == buffers'[a]
             rec == received[a]
             under == UnderWay(link, station[a], a)
             n == events[a]
  <2>5. EventOrder(k, c, rec, under, n + 1)
    <3> HIDE DEF k, b, c, rec, under, n
    <3>1. EventOrder(k, b, rec, under, n) /\ c = [b EXCEPT ![q] = Append(@, x)]
      BY <2>1, <2>2 DEF k, b, c, rec, under, n
    <3>2. /\ b \in BufferRec /\ rec \in Seq(Eventful) /\ k \in BOOLEAN
          /\ under \in SUBSET Eventful /\ n \in Nat /\ (k => ~x.cyclic)
          /\ x.event = n + 1 /\ q = S!QueueFor(x.cyclic, k)
      BY <1>3, <1>4, <2>3, <2>4 DEF k, b, rec, under, n
    <3> QED
      BY <1>3, <3>1, <3>2, EventOrderRaised
  <2> QED
    BY <1>5, <1>7, <2>1, <2>5 DEF Ordered
<1> QED
  BY <1>6, <1>7

\* The primary sends a command or moves on.
LEMMA ClientTickOrder ==
    ASSUME IInv, OrderInv, ClientTick PROVE OrderInv'
<1> DEFINE o == P!Tick(link, queue, line.balanced)
           A == Station
           k == line.balanced
           q2 == P!QueueAfter(link, queue)
<1>1. /\ line' = line /\ link.sent = NoFrame /\ link' = o.link /\ queue' = q2
      /\ UNCHANGED <<station, buffers, commands, events, acted, received>>
  BY PNames DEF ClientTick, P!Idle, PrimarySends, history
<1>2. /\ LineInv(A, k, link, station, down, up, acted) /\ IsLink(A, link) /\ A \subseteq Nat
      /\ queue \in Seq(Item(A)) /\ k \in BOOLEAN
  BY LineIs DEF IInv, LineInv
<1>3. o = P!Tick(link, queue, k) /\ q2 = P!QueueAfter(link, queue)
  OBVIOUS
<1> HIDE DEF o, A, k, q2
<1>4. Ticks(A, link, queue, o, q2)
  BY <1>1, <1>2, <1>3, TickIs
<1>5. CASE q2 = queue /\ MovesOn(A, link, o.link, o.out)
  <2>1. Quiet(A, link, o.link, station)
    BY <1>2, <1>5, MovesOnIsQuiet
  <2> QED
    BY <1>1, <1>5, <2>1, QuietKeepsOrder DEF A
<1>6. ASSUME NEW i \in 1 .. Len(queue), NEW m, m = link',
             Launch(A, link, m, m.sent, {queue[i].asdu}),
             m.sent.addr = queue[i].addr, m.sent.kind = "Variable",
             \A j \in 1 .. (i - 1) : queue[j].addr # queue[i].addr,
             Without(queue, i, q2)
      PROVE  OrderInv'
  <2> SUFFICES ASSUME NEW a \in A
               PROVE  Ordered(k, a, m, station[a], buffers[a], q2, acted[a], received[a],
                              commands, events[a])
    BY <1>1, <1>6, OrderKept DEF A, k
  <2>1. /\ CommandOrder(a, queue, acted[a], SentTo(link, a), Taken(link, station[a], a), commands)
        /\ EventOrder(k, buffers[a], received[a], UnderWay(link, station[a], a), events[a])
        /\ KeepsNone(k, station[a])
    BY DEF OrderInv, Ordered, A, k
  <2>2. ~Taken(m, station[a], a)
    BY <1>1, <1>2, <1>6, LaunchedIsNew
  <2>3. m.fcbExpected = link.fcbExpected /\ m.sent.asdu = queue[i].asdu
    BY <1>6 DEF Launch
  <2>4. Carried(SentTo(m, a)) # {} => /\ queue[i].addr = a
                                      /\ Carried(SentTo(m, a)) = {queue[i].asdu}
    BY <1>6, <2>3 DEF SentTo, Carried, NoFrame
  <2>5. CommandOrder(a, q2, acted[a], SentTo(m, a), Taken(m, station[a], a), commands)
    <3> DEFINE act == acted[a]
               x == SentTo(m, a)
               t == Taken(m, station[a], a)
               y == SentTo(link, a)
               u == Taken(link, station[a], a)
    <3>1. act \in Seq(Command)
      BY StationTypes DEF A
    <3>2. CommandOrder(a, queue, act, y, u, commands)
      BY <2>1
    <3>3. Carried(x) # {} => queue[i].addr = a /\ Carried(x) = {queue[i].asdu}
      BY <2>4
    <3> HIDE DEF act, x, t, y, u
    <3>4. CommandOrder(a, q2, act, x, t, commands)
      BY <1>2, <1>6, <3>1, <3>2, <3>3, CommandOrderTaken
    <3> QED
      BY <3>4 DEF act, x, t
  <2>6. UnderWay(m, station[a], a) \subseteq UnderWay(link, station[a], a)
    BY <2>2, <2>3 DEF UnderWay
  <2>7. EventOrder(k, buffers[a], received[a], UnderWay(m, station[a], a), events[a])
    BY <2>1, <2>6, EventOrderLess
  <2> QED
    BY <2>1, <2>5, <2>7 DEF Ordered
<1> QED
  <2>1. ASSUME NEW i \in 1 .. Len(queue),
               q2 = SubSeq(queue, 1, i - 1) \o SubSeq(queue, i + 1, Len(queue))
        PROVE  Without(queue, i, q2)
    BY <1>2, <2>1, WithoutOne
  <2> QED
    BY <1>1, <1>4, <1>5, <1>6, <2>1 DEF Ticks

\* The primary tests the link.
LEMMA ClientTestOrder ==
    ASSUME IInv, OrderInv, ClientTest PROVE OrderInv'
<1> DEFINE o == P!T3Timeout(link)
           A == Station
           k == line.balanced
<1>1. /\ link' = o.link
      /\ UNCHANGED <<line, queue, station, buffers, commands, events, acted, received>>
  BY DEF ClientTest, PrimarySends, history
<1>2. LineInv(A, k, link, station, down, up, acted) /\ IsLink(A, link) /\ A \subseteq Nat
  BY LineIs DEF IInv, LineInv
<1>3. MovesOn(A, link, o.link, o.out)
  BY <1>2, T3TimeoutIs
<1> HIDE DEF o, A, k
<1>4. Quiet(A, link, o.link, station)
  BY <1>2, <1>3, MovesOnIsQuiet
<1> QED
  BY <1>1, <1>4, QuietKeepsOrder DEF A

\* The application asks for a link service.
LEMMA ManualOrder ==
    ASSUME IInv, OrderInv, NEW fun, Manual(fun) PROVE OrderInv'
<1> DEFINE o == P!LinkRequest(link, fun, line.balanced)
           A == Station
           k == line.balanced
<1>1. /\ link' = o.link
      /\ UNCHANGED <<line, queue, station, buffers, commands, events, acted, received>>
  BY DEF Manual, PrimarySends, history
<1>2. LineInv(A, k, link, station, down, up, acted) /\ IsLink(A, link) /\ A \subseteq Nat
  BY LineIs DEF IInv, LineInv
<1>3. MovesOn(A, link, o.link, o.out)
  BY <1>2, LinkRequestIs
<1> HIDE DEF o, A, k
<1>4. Quiet(A, link, o.link, station)
  BY <1>2, <1>3, MovesOnIsQuiet
<1> QED
  BY <1>1, <1>4, QuietKeepsOrder DEF A

\* The primary repeats its frame or gives it up.
LEMMA ClientTimeoutOrder ==
    ASSUME IInv, OrderInv, ClientTimeout PROVE OrderInv'
<1> DEFINE o == P!T1Timeout(link)
           A == Station
<1>1. /\ link.sent # NoFrame /\ link' = o.link
      /\ UNCHANGED <<line, queue, station, buffers, commands, events, acted, received>>
  BY PNames DEF ClientTimeout, P!Idle, PrimarySends
<1>2. IsLink(A, link) /\ A \subseteq Nat
  BY LineIs DEF IInv, LineInv
<1>3. \/ LinkGivenUp(A, link, o.link) /\ o.out = <<>>
      \/ LinkSame(A, link, o.link) /\ o.out = <<link.sent>>
  BY <1>1, <1>2, T1TimeoutIs
<1> HIDE DEF o, A
<1>4. Quiet(A, link, o.link, station)
  BY <1>3, SameIsQuiet, OverIsQuiet DEF LinkGivenUp
<1> QED
  BY <1>1, <1>4, QuietKeepsOrder DEF A

\* The line starts anew, and the station of a balanced one with it.
LEMMA ReopenOrder ==
    ASSUME IInv, OrderInv, BalancedRestarts, Reopen PROVE OrderInv'
<1> DEFINE n == S!NewStation
           k == line.balanced
<1>1. /\ line' = line /\ link' = P!NewLink(line.order, k) /\ queue' = <<>>
      /\ station' = IF line.serial THEN station ELSE [a \in Station |-> n]
      /\ UNCHANGED <<buffers, commands, events, acted, received>>
  BY DEF Reopen
<1>2. k => ~line.serial
  BY DEF IInv, BalancedRestarts
<1>3. n.sent = NoFrame /\ n.lastResp = NoFrame
  BY NewStationIs
<1>4. link'.sent = NoFrame
  BY <1>1, PNames DEF P!NewLink
<1> HIDE DEF n, k
<1> SUFFICES ASSUME NEW a \in Station
             PROVE  Ordered(k, a, link', station'[a], buffers[a], <<>>, acted[a], received[a],
                            commands, events[a])
  BY <1>1, OrderKept DEF k
<1>5. /\ CommandOrder(a, queue, acted[a], SentTo(link, a), Taken(link, station[a], a), commands)
      /\ EventOrder(k, buffers[a], received[a], UnderWay(link, station[a], a), events[a])
      /\ KeepsNone(k, station[a])
  BY DEF OrderInv, Ordered, k
<1>6. station'[a].sent = NoFrame /\ (k => station'[a].lastResp = NoFrame)
  <2>1. IsStation(k, a, station[a])
    BY StationTypes DEF k
  <2> QED
    BY <1>1, <1>2, <1>3, <2>1 DEF IsStation
<1>7. Carried(SentTo(link', a)) = {} /\ ~Taken(link', station'[a], a)
  BY <1>4, NothingOut
<1>8. UnderWay(link', station'[a], a) = {} /\ KeepsNone(k, station'[a])
  BY <1>6, <1>7 DEF UnderWay, Carried, NoFrame, KeepsNone
<1>9. EventOrder(k, buffers[a], received[a], UnderWay(link', station'[a], a), events[a])
  BY <1>5, <1>8, EventOrderLess
<1>10. CommandOrder(a, <<>>, acted[a], SentTo(link', a), Taken(link', station'[a], a), commands)
  BY <1>5, <1>7, CommandOrderCleared
<1> QED
  BY <1>8, <1>9, <1>10 DEF Ordered

\* The event in frame f was under way from station a to link l, and is so no more to m.
Arrived(l, m, s, a, f) ==
    f.addr = a /\ f.asdu \in UnderWay(l, s, a) /\ UnderWay(m, s, a) = {}

\* An answer that is delivered was under way, and nothing else is after it.
LEMMA DeliveredWasUnderWay ==
    ASSUME NEW A \in SUBSET Nat, NEW bal, NEW l, NEW st, NEW dn, NEW u, NEW act,
           LineInv(A, bal, l, st, dn, u, act), u # <<>>, NEW f, f = Head(u), ~IsPrim(f),
           NEW m, NEW done, Replied(A, l, f, m, done), Delivers(f, done),
           NEW n, Quiet(A, m, n, st), NEW a, a = l.sent.addr, NEW s, s = st[a],
           KeepsNone(bal, s)
    PROVE  Arrived(l, n, s, a, f)
<1>1. /\ l.sent # NoFrame /\ a \in A /\ f = s.lastResp /\ HasAnswer(u)
      /\ f.kind = "Variable" /\ f.addr = a
  BY HeadAffirms DEF Delivers
<1>2. LinkConfirmed(A, l, m) /\ done = l.sent
  BY ReplyKeeps DEF Delivers
<1>3. Taken(l, s, a)
  <2>1. Asks(l.sent) /\ l.sent.control.fun \in {REQ_DATA1, REQ_DATA2}
    BY <1>1, <1>2 DEF LineInv, IsLink, Delivers
  <2>2. l.sent.control.fcv
    BY <2>1, Codes DEF Asks
  <2>3. SentTo(l, a) = l.sent
    BY <1>1 DEF SentTo
  <2>4. Bits(On(l, a), l.secs[a].fcb, l.sent, s.fcbExpected, HasAnswer(u))
    BY <1>1, <2>3 DEF LineInv
  <2> QED
    BY <1>1, <2>2, <2>4 DEF Bits, Taken
<1>4. s.lastResp.asdu \in Carried(s.lastResp)
  BY <1>1 DEF Carried
<1>5. ~Taken(n, s, a)
  <2>1. m.sent = NoFrame
    BY <1>2 DEF LinkConfirmed, Over
  <2>2. SentTo(m, a) = NoFrame
    BY <2>1, NothingOut
  <2> QED
    BY <1>1, <2>2, TakenIs DEF Quiet
<1>6. Carried(s.sent) = {}
  <2>1. ~bal
    BY <1>4 DEF KeepsNone
  <2>2. IsStation(bal, a, s)
    BY <1>1 DEF LineInv
  <2> QED
    BY <2>1, <2>2 DEF IsStation, Carried, NoFrame
<1> QED
  BY <1>1, <1>3, <1>4, <1>5, <1>6 DEF UnderWay, Arrived

\* What the only station sent is received or has been.
Hears(l, m, s, a, f) ==
    /\ SentTo(m, a) = SentTo(l, a) /\ (Taken(m, s, a) <=> Taken(l, s, a))
    /\ UnderWay(m, s, a) = {}
    /\ f.kind = "Variable" /\ f.control.fcb = l.fcbExpected => f.asdu \in UnderWay(l, s, a)

\* When the primary has answered a request of the only station, nothing is under way.
LEMMA PeerHeard ==
    ASSUME NEW A, NEW l, NEW m, NEW a \in A, NEW s, NEW f, f = s.sent, PeerAsks(f),
           NEW g, PeerAnswered(A, l, f, m, g), Carried(s.lastResp) = {}
    PROVE  Hears(l, m, s, a, f)
<1>1. m.sent = l.sent /\ NextBit(f, l.fcbExpected, m.fcbExpected)
  BY DEF PeerAnswered
<1>2. f.kind = "Variable" => m.fcbExpected # f.control.fcb
  <2>1. f.kind = "Variable" => f.control.fcv
    BY Codes DEF PeerAsks, Asks
  <2> QED
    BY <1>1, <2>1 DEF NextBit
<1> QED
  BY <1>1, <1>2 DEF SentTo, Taken, UnderWay, Carried, Hears

\* One event more is received, or none.
LEMMA ReceivedOrder ==
    ASSUME IInv, OrderInv, NEW a \in Station, NEW x \in UnderWay(link, station[a], a),
           UNCHANGED <<line, station, buffers, queue, acted, commands, events>>,
           received' = [received EXCEPT ![a] = Append(@, x)],
           \A y \in Station : Ordered(line.balanced, y, link', station[y], buffers[y], queue,
                                      acted[y], received[y], commands, events[y]),
           UnderWay(link', station[a], a) = {}
    PROVE  OrderInv'
<1> SUFFICES ASSUME NEW y \in Station
             PROVE  Ordered(line.balanced, y, link', station[y], buffers[y], queue, acted[y],
                            received'[y], commands, events[y])
  BY OrderKept
<1>1. received'[a] = Append(received[a], x) /\ (y # a => received'[y] = received[y])
  BY DEF IInv
<1>2. CASE y # a
  BY <1>1, <1>2
<1>3. CASE y = a
  <2>1. EventOrder(line.balanced, buffers[a], received[a], UnderWay(link, station[a], a), events[a])
    BY DEF OrderInv, Ordered
  <2>2. EventOrder(line.balanced, buffers[a], received'[a], {}, events[a])
    <3> DEFINE b == buffers[a]
               rec == received[a]
               under == UnderWay(link, station[a], a)
    <3>1. b \in BufferRec /\ rec \in Seq(Eventful) /\ x \in under /\ x \in Eventful
      BY StationTypes
    <3> HIDE DEF b, rec, under
    <3>2. EventOrder(line.balanced, b, rec, under, events[a])
      BY <2>1 DEF b, rec, under
    <3>3. EventOrder(line.balanced, b, Append(rec, x), {}, events[a])
      BY <3>1, <3>2, EventOrderReceived
    <3> QED
      BY <1>1, <3>3 DEF b, rec
  <2> QED
    BY <1>3, <2>2 DEF Ordered
<1> QED
  BY <1>2, <1>3

\* The primary takes an answer with an event, or a request of its peer.
LEMMA ClientReceivesOrder ==
    ASSUME IInv, OrderInv, ClientReceives PROVE OrderInv'
<1> DEFINE A == Station
           k == line.balanced
           f == Head(up)
           o == P!HandleFrame(link, f, k)
<1>1. /\ line' = line /\ up # <<>> /\ link' = o.link
      /\ received' = IF o.deliver /\ f.kind = "Variable"
                       THEN [received EXCEPT ![f.addr] = Append(@, f.asdu)] ELSE received
      /\ UNCHANGED <<station, queue, buffers, commands, events, acted>>
  BY DEF ClientReceives, PrimarySends
<1>2. /\ LineInv(A, k, link, station, down, up, acted) /\ IsLink(A, link) /\ A \subseteq Nat
      /\ k \in BOOLEAN /\ down \in Seq(Frame) /\ up \in Seq(Frame)
  BY LineIs DEF IInv, LineInv
<1>3. f \in Frame
  BY <1>1, <1>2, HeadTail
<1>4. o = P!HandleFrame(link, f, k)
  OBVIOUS
<1>5. \A a \in A : KeepsNone(k, station[a])
  BY DEF OrderInv, Ordered
<1> HIDE DEF A, k, f, o
<1>6. CASE ~IsPrim(f)
  <2>1. PICK m : Replied(A, link, f, m, o.done) /\ MovesOn(A, m, o.link, o.out)
    BY <1>2, <1>3, <1>4, <1>6, HandleAnswer
  <2>2. o.deliver <=> Delivers(f, o.done)
    BY <1>2, <1>3, <1>4, <1>6, HandleAnswer
  <2>3. LineInv(A, k, m, station, down, Tail(up), acted)
    BY <1>1, <1>2, <1>6, <2>1, ReplyKeeps DEF f
  <2>4. Quiet(A, link, m, station) /\ Quiet(A, m, link', station)
    BY <1>1, <1>2, <2>1, <2>3, RepliedIsQuiet, MovesOnIsQuiet
  <2>5. Quiet(A, link, link', station)
    BY <2>4, QuietTrans
  <2>6. CASE ~o.deliver \/ f.kind # "Variable"
    BY <1>1, <2>5, <2>6, QuietKeepsOrder DEF A
  <2>7. CASE o.deliver /\ f.kind = "Variable"
    <3> DEFINE a == link.sent.addr
    <3>1. a \in A
      BY <1>1, <1>2, <1>6, HeadAffirms DEF f
    <3>2. a = link.sent.addr /\ KeepsNone(k, station[a])
      BY <1>5, <3>1
    <3> HIDE DEF a
    <3>4. Arrived(link, link', station[a], a, f)
      <4> DEFINE done == o.done
                 n == link'
                 s == station[a]
      <4>1. /\ Replied(A, link, f, m, done) /\ Delivers(f, done) /\ Quiet(A, m, n, station)
            /\ f = Head(up) /\ KeepsNone(k, s)
        BY <2>1, <2>2, <2>4, <2>7, <3>2 DEF f
      <4>2. s = station[a] /\ a = link.sent.addr
        BY <3>2
      <4> HIDE DEF done, n, s
      <4>3. Arrived(link, n, s, a, f)
        BY <1>1, <1>2, <1>6, <4>1, <4>2, DeliveredWasUnderWay
      <4> QED
        BY <4>3 DEF n, s
    <3>3. \A y \in A : Ordered(k, y, link', station[y], buffers[y], queue, acted[y],
                               received[y], commands, events[y])
      BY <2>5, QuietOrder DEF OrderInv, A, k
    <3> QED
      BY <1>1, <2>7, <3>1, <3>3, <3>4, ReceivedOrder DEF A, k, Arrived
  <2> QED
    BY <2>6, <2>7
<1>7. CASE IsPrim(f)
  <2>1. PICK a \in A : TRUE
    <3>1. link.order \in Seq(A) /\ link.order # <<>>
      BY <1>2 DEF IsLink, LinkRec
    <3>2. Head(link.order) \in A
      BY <3>1, HeadTail
    <3> QED
      BY <3>2
  <2>2. /\ f = station[a].sent /\ PeerAsks(f) /\ f.addr = a /\ k = TRUE
        /\ \A y \in A : y = a
    <3>1. f = station[a].sent /\ PeerAsks(f) /\ f.addr = a /\ k
      BY <1>1, <1>2, <1>7, <2>1, HeadPeer DEF f
    <3>2. k => \A y, x \in A : y = x
      BY <1>2 DEF LineInv
    <3> QED
      BY <1>2, <2>1, <3>1, <3>2
  <2>3. PeerServed(A, link, f, o)
    BY <1>2, <1>4, <2>1, <2>2, PeerPrimaryIs
  <2>4. PICK g : PeerAnswered(A, link, f, o.link, g)
    BY <2>3 DEF PeerServed
  <2>5. o.deliver <=> f.kind = "Variable" /\ f.control.fcb = link.fcbExpected
    BY <2>3 DEF PeerServed
  <2>6. /\ SentTo(link', a) = SentTo(link, a)
        /\ Taken(link', station[a], a) <=> Taken(link, station[a], a)
        /\ UnderWay(link', station[a], a) = {}
        /\ o.deliver => f.asdu \in UnderWay(link, station[a], a)
    <3>1. Hears(link, o.link, station[a], a, f)
      BY <1>5, <2>1, <2>2, <2>4, PeerHeard DEF KeepsNone
    <3> QED
      BY <1>1, <2>5, <3>1 DEF Hears
  <2>7. \A y \in A : Ordered(k, y, link', station[y], buffers[y], queue, acted[y],
                             received[y], commands, events[y])
    <3> SUFFICES Ordered(k, a, link', station[a], buffers[a], queue, acted[a], received[a],
                         commands, events[a])
      BY <2>2
    <3>1. Ordered(k, a, link, station[a], buffers[a], queue, acted[a], received[a], commands,
                  events[a])
      BY <2>1 DEF OrderInv, A, k
    <3>2. CommandOrder(a, queue, acted[a], SentTo(link', a), Taken(link', station[a], a), commands)
      BY <2>6, <3>1, CommandOrderLess DEF Ordered
    <3>3. EventOrder(k, buffers[a], received[a], UnderWay(link', station[a], a), events[a])
      BY <2>6, <3>1, EventOrderLess DEF Ordered
    <3> QED
      BY <3>1, <3>2, <3>3 DEF Ordered
  <2>8. CASE ~o.deliver
    BY <1>1, <2>7, <2>8, OrderKept DEF A, k
  <2>9. CASE o.deliver
    <3>1. f.kind = "Variable" /\ f.asdu \in UnderWay(link, station[a], a)
      BY <2>5, <2>6, <2>9
    <3> QED
      BY <1>1, <2>1, <2>2, <2>6, <2>7, <2>9, <3>1, ReceivedOrder DEF A, k
  <2> QED
    BY <2>8, <2>9
<1> QED
  BY <1>6, <1>7

\* Station s has become t, and what is under way from it is what it was, or less.
FewerEvents(s, t) ==
    /\ t.fcbExpected = s.fcbExpected /\ t.lastResp = s.lastResp
    /\ t.sent = s.sent \/ t.sent = NoFrame

\* Such a change leaves everything in order, and so does the request that asks again.
LEMMA FewerEventsOrder ==
    ASSUME NEW bal, NEW a, NEW l, NEW s, NEW b, NEW q, NEW act, NEW rec, NEW nc, NEW ne,
           Ordered(bal, a, l, s, b, q, act, rec, nc, ne), NEW t, FewerEvents(s, t)
    PROVE  Ordered(bal, a, l, t, b, q, act, rec, nc, ne)
<1>1. /\ CommandOrder(a, q, act, SentTo(l, a), Taken(l, s, a), nc)
      /\ EventOrder(bal, b, rec, UnderWay(l, s, a), ne) /\ KeepsNone(bal, s)
  BY DEF Ordered
<1>2. Taken(l, t, a) <=> Taken(l, s, a)
  BY DEF FewerEvents, Taken
<1>3. UnderWay(l, t, a) \subseteq UnderWay(l, s, a)
  BY <1>2 DEF FewerEvents, UnderWay, Carried, NoFrame
<1>4. CommandOrder(a, q, act, SentTo(l, a), Taken(l, t, a), nc)
  BY <1>1, <1>2, CommandOrderLess
<1>5. EventOrder(bal, b, rec, UnderWay(l, t, a), ne)
  BY <1>1, <1>3, EventOrderLess
<1>6. KeepsNone(bal, t)
  BY <1>1 DEF FewerEvents, KeepsNone
<1> QED
  BY <1>4, <1>5, <1>6 DEF Ordered

\* What a station has acted on after x, unless that is nothing.
Acts(act, x, act2) == act2 = IF x # NoAsdu THEN Append(act, x) ELSE act

\* A station has answered the request f that is out to it.
LEMMA ServedOrder ==
    ASSUME NEW bal, bal \in BOOLEAN, NEW a, NEW l, NEW s, IsStation(bal, a, s),
           NEW b \in BufferRec, NEW q, NEW act \in Seq(Command), NEW rec \in Seq(Eventful),
           NEW nc, NEW ne, Ordered(bal, a, l, s, b, q, act, rec, nc, ne),
           NEW f, f = SentTo(l, a), Asks(f), f.kind = "Variable" => f.asdu # NoAsdu,
           NEW o, Served(bal, a, s, b, f, o), NEW act2, Acts(act, o.asdu, act2)
    PROVE  Ordered(bal, a, l, o.station, o.buffers, q, act2, rec, nc, ne)
<1> DEFINE t == o.station
           resp == t.lastResp
<1>1. /\ CommandOrder(a, q, act, f, Taken(l, s, a), nc)
      /\ EventOrder(bal, b, rec, UnderWay(l, s, a), ne) /\ KeepsNone(bal, s)
  BY DEF Ordered
<1>2. /\ t.sent = s.sent /\ NextBit(f, s.fcbExpected, t.fcbExpected)
      /\ o.asdu = IF f.kind = "Variable" /\ ~Old(f, s) THEN f.asdu ELSE NoAsdu
      /\ Old(f, s) => o.buffers = b /\ (resp = s.lastResp \/ resp.kind # "Variable")
      /\ ~Old(f, s) => \/ o.buffers = b /\ resp.kind # "Variable"
                       \/ \E p \in {"class1", "class2"} :
                            /\ b[p] # <<>> /\ o.buffers = [b EXCEPT ![p] = Tail(@)]
                            /\ resp.kind = "Variable" /\ resp.asdu = Head(b[p])
      /\ IsStation(bal, a, t)
  BY DEF Served
<1>3. f # NoFrame /\ f.kind \in {"Fixed", "Variable"} /\ (f.kind = "Variable" => f.control.fcv)
  BY Codes, Kinds DEF Asks, IsPrim
<1>4. /\ Taken(l, s, a) <=> Old(f, s)
      /\ Taken(l, t, a) <=> f.control.fcv
  BY <1>2, <1>3, TakenIs DEF Old, NextBit
<1> HIDE DEF t, resp
<1>5. CommandOrder(a, q, act2, f, Taken(l, t, a), nc)
  <2>1. CASE f.kind = "Variable" /\ ~Old(f, s)
    <3>1. act2 = Append(act, f.asdu) /\ Carried(f) = {f.asdu}
      BY <1>2, <2>1 DEF Acts, Carried
    <3> DEFINE x == f.asdu
               w == Taken(l, s, a)
               u == Taken(l, t, a)
    <3>2. CommandOrder(a, q, act, f, w, nc) /\ w = FALSE /\ u = TRUE /\ Carried(f) = {x}
      BY <1>1, <1>3, <1>4, <2>1, <3>1 DEF Taken
    <3> HIDE DEF x, w, u
    <3>3. CommandOrder(a, q, Append(act, x), f, u, nc)
      BY <3>2, CommandOrderActed
    <3> QED
      BY <3>1, <3>3 DEF x, u
  <2>2. CASE f.kind # "Variable" \/ Old(f, s)
    <3>1. act2 = act
      BY <1>2, <2>2 DEF Acts
    <3>2. Carried(f) # {} => (Taken(l, s, a) => Taken(l, t, a))
      BY <1>3, <1>4 DEF Carried
    <3> QED
      BY <1>1, <3>1, <3>2, CommandOrderLess
  <2> QED
    BY <2>1, <2>2
<1>6. CASE o.buffers = b /\ ((Old(f, s) /\ resp = s.lastResp) \/ resp.kind # "Variable")
  <2>1. UnderWay(l, t, a) \subseteq UnderWay(l, s, a)
    BY <1>2, <1>4, <1>6 DEF UnderWay, Carried, resp
  <2>2. EventOrder(bal, b, rec, UnderWay(l, t, a), ne)
    BY <1>1, <2>1, EventOrderLess
  <2>3. KeepsNone(bal, t)
    BY <1>1, <1>6 DEF KeepsNone, Carried, resp
  <2> QED
    BY <1>5, <1>6, <2>2, <2>3 DEF Ordered, t
<1>7. ASSUME NEW p \in {"class1", "class2"}, b[p] # <<>>, o.buffers = [b EXCEPT ![p] = Tail(@)],
             resp.kind = "Variable", resp.asdu = Head(b[p])
      PROVE  Ordered(bal, a, l, o.station, o.buffers, q, act2, rec, nc, ne)
  <2>1. ~bal
    <3>1. b[p] \in Seq(Eventful)
      BY DEF BufferRec
    <3>2. 1 \in 1 .. Len(b[p])
      BY <1>7, <3>1, HeadTail
    <3>3. Filed(bal, b[p][1], p)
      BY <1>1, <3>2 DEF EventOrder
    <3> QED
      BY <3>3 DEF Filed
  <2>2. s.sent = NoFrame
    BY <2>1 DEF IsStation
  <2>3. UnderWay(l, t, a) \subseteq {Head(b[p])}
    BY <1>2, <1>7, <2>2 DEF UnderWay, Carried, NoFrame, resp
  <2>4. EventOrder(bal, o.buffers, rec, UnderWay(l, t, a), ne)
    <3> DEFINE c == o.buffers
               under == UnderWay(l, s, a)
               under2 == UnderWay(l, t, a)
    <3>1. /\ EventOrder(bal, b, rec, under, ne) /\ under2 \subseteq {Head(b[p])}
          /\ c = [b EXCEPT ![p] = Tail(@)] /\ b[p] # <<>>
          /\ p \in {"class1", "class2", "prim"}
      BY <1>1, <1>7, <2>3
    <3> HIDE DEF c, under, under2
    <3>2. EventOrder(bal, c, rec, under2, ne)
      BY <3>1, EventOrderTaken
    <3> QED
      BY <3>2 DEF c, under2
  <2> QED
    BY <1>5, <2>1, <2>4 DEF Ordered, KeepsNone, t
<1> QED
  BY <1>2, <1>6, <1>7 DEF resp

\* The only station has sent a request, with an event or without.
LEMMA AsksOrder ==
    ASSUME NEW bal, bal = TRUE, NEW a, NEW l, NEW s, NEW b \in BufferRec, NEW q, NEW act,
           NEW rec \in Seq(Eventful), NEW nc, NEW ne,
           Ordered(bal, a, l, s, b, q, act, rec, nc, ne), NEW o, StationAsks(bal, a, s, b, o)
    PROVE  Ordered(bal, a, l, o.station, o.buffers, q, act, rec, nc, ne)
<1> DEFINE t == o.station
<1>1. /\ CommandOrder(a, q, act, SentTo(l, a), Taken(l, s, a), nc)
      /\ EventOrder(bal, b, rec, UnderWay(l, s, a), ne) /\ KeepsNone(bal, s)
  BY DEF Ordered
<1>2. /\ t.fcbExpected = s.fcbExpected /\ t.lastResp = s.lastResp
      /\ \/ t.sent.kind # "Variable" /\ o.buffers = b
         \/ /\ t.sent.kind = "Variable" /\ b["prim"] # <<>> /\ t.sent.asdu = Head(b["prim"])
            /\ o.buffers = [b EXCEPT !["prim"] = Tail(@)]
  BY DEF StationAsks
<1> HIDE DEF t
<1>3. (Taken(l, t, a) <=> Taken(l, s, a)) /\ KeepsNone(bal, t) /\ Carried(t.lastResp) = {}
  BY <1>1, <1>2 DEF Taken, KeepsNone
<1>4. CommandOrder(a, q, act, SentTo(l, a), Taken(l, t, a), nc)
  BY <1>1, <1>3, CommandOrderLess
<1>5. CASE t.sent.kind # "Variable" /\ o.buffers = b
  <2>1. UnderWay(l, t, a) \subseteq UnderWay(l, s, a)
    BY <1>3, <1>5 DEF UnderWay, Carried
  <2>2. EventOrder(bal, b, rec, UnderWay(l, t, a), ne)
    BY <1>1, <2>1, EventOrderLess
  <2> QED
    BY <1>3, <1>4, <1>5, <2>2 DEF Ordered, t
<1>6. CASE /\ t.sent.kind = "Variable" /\ b["prim"] # <<>> /\ t.sent.asdu = Head(b["prim"])
           /\ o.buffers = [b EXCEPT !["prim"] = Tail(@)]
  <2> DEFINE p == "prim"
             c == o.buffers
             under == UnderWay(l, s, a)
             under2 == UnderWay(l, t, a)
  <2>1. under2 \subseteq {Head(b[p])}
    BY <1>3, <1>6 DEF UnderWay, Carried
  <2>2. /\ EventOrder(bal, b, rec, under, ne) /\ b[p] # <<>> /\ p \in {"class1", "class2", "prim"}
        /\ c = [b EXCEPT ![p] = Tail(@)] /\ bal \in BOOLEAN
    BY <1>1, <1>6
  <2> HIDE DEF p, c, under, under2
  <2>3. EventOrder(bal, c, rec, under2, ne)
    BY <2>1, <2>2, EventOrderTaken
  <2> QED
    BY <1>3, <1>4, <2>3 DEF Ordered, t, c, under2
<1> QED
  BY <1>2, <1>5, <1>6

\* A step of station a, which leaves it in state s with buffers b.
LEMMA StationKeepsOrder ==
    ASSUME IInv, OrderInv, NEW a \in Station, NEW s, NEW b,
           station' = [station EXCEPT ![a] = s], buffers' = [buffers EXCEPT ![a] = b],
           \A y \in Station : y # a => acted'[y] = acted[y], NEW act, act = acted'[a],
           UNCHANGED <<line, link, queue, received, commands, events>>,
           Ordered(line.balanced, a, link, s, b, queue, act, received[a], commands, events[a])
    PROVE  OrderInv'
<1>1. station \in [Station -> StationRec] /\ buffers \in [Station -> BufferRec]
  BY DEF IInv
<1>2. ASSUME NEW y \in Station
      PROVE  Ordered(line.balanced, y, link, station'[y], buffers'[y], queue, acted'[y],
                     received[y], commands, events[y])
  <2>1. CASE y = a
    <3>1. station'[a] = s /\ buffers'[a] = b
      BY <1>1
    <3> QED
      BY <2>1, <3>1
  <2>2. CASE y # a
    <3>1. station'[y] = station[y] /\ buffers'[y] = buffers[y] /\ acted'[y] = acted[y]
      BY <1>1, <2>2
    <3>2. Ordered(line.balanced, y, link, station[y], buffers[y], queue, acted[y],
                  received[y], commands, events[y])
      BY DEF OrderInv
    <3> QED
      BY <3>1, <3>2
  <2> QED
    BY <2>1, <2>2
<1> QED
  BY <1>2, OrderKept

\* handle_frame of a station
LEMMA StationReceivesOrder ==
    ASSUME IInv, OrderInv, NEW a \in Station, StationReceives(a) PROVE OrderInv'
<1> DEFINE k == line.balanced
           f == Head(down)
           s == station[a]
           b == buffers[a]
           act == acted[a]
           rec == received[a]
           ne == events[a]
           o == S!HandleFrame(s, b, a, f, k)
<1>1. /\ line' = line /\ down # <<>> /\ (f.kind # "SingleCharAck" => f.addr = a)
      /\ station' = [station EXCEPT ![a] = o.station]
      /\ buffers' = [buffers EXCEPT ![a] = o.buffers]
      /\ ActedOn(acted, a, o.asdu, acted')
      /\ UNCHANGED <<link, queue, received, commands, events>>
  BY DEF StationReceives, StationSends, ActedOn
<1>2. /\ LineInv(Station, k, link, station, down, up, acted) /\ Station \subseteq Nat
      /\ IsLink(Station, link) /\ acted \in [Station -> Seq(Command)] /\ down \in Seq(Frame)
      /\ up \in Seq(Frame) /\ a \in Nat /\ a # Broadcast /\ NoAsdu \notin Command
  BY LineIs DEF IInv, LineInv
<1>7. /\ k \in BOOLEAN /\ IsStation(k, a, s) /\ b \in BufferRec /\ act \in Seq(Command)
      /\ rec \in Seq(Eventful)
  BY StationTypes
<1>8. f = down[1] /\ 1 \in 1 .. Len(down) /\ f \in Frame
  BY <1>1, <1>2, HeadTail
<1>3. Ordered(k, a, link, s, b, queue, act, rec, commands, ne)
  BY DEF OrderInv
<1>4. (\A y \in Station : y # a => acted'[y] = acted[y]) /\ Acts(act, o.asdu, acted'[a])
  <2> DEFINE x == o.asdu
  <2>1. ActedOn(acted, a, x, acted')
    BY <1>1
  <2> HIDE DEF o, x
  <2> QED
    BY <1>2, <2>1 DEF ActedOn, Acts, x
<1>0. o = S!HandleFrame(s, b, a, f, k)
  OBVIOUS
<1> DEFINE t == o.station
           c == o.buffers
           act2 == acted'[a]
<1> SUFFICES Ordered(k, a, link, t, c, queue, act2, rec, commands, ne)
  <2>1. /\ station' = [station EXCEPT ![a] = t] /\ buffers' = [buffers EXCEPT ![a] = c]
        /\ act2 = acted'[a] /\ \A y \in Station : y # a => acted'[y] = acted[y]
        /\ UNCHANGED <<line, link, queue, received, commands, events>>
    BY <1>1, <1>4
  <2> HIDE DEF t, c, act2, o, f, b, s, act
  <2> QED
    BY <2>1, StationKeepsOrder
<1> HIDE DEF k, s, b, act, rec, ne, o
<1>5. CASE IsPrim(f)
  <2>1. f = link.sent /\ Asks(f)
    BY <1>1, <1>2, <1>5, HeadAsks
  <2>2. f.addr = a /\ f # NoFrame
    BY <1>1, <2>1, Kinds DEF Asks, IsPrim, NoFrame
  <2>3. f.kind = "Variable" => f.asdu # NoAsdu
    BY <1>2, <2>1, <2>2 DEF IsLink
  <2> HIDE DEF f
  <2>4. f = SentTo(link, a)
    BY <2>1, <2>2 DEF SentTo
  <2>5. Served(k, a, s, b, f, o)
    BY <1>0, <1>2, <1>7, <2>1, <2>2, RequestIs
  <2>6. Acts(act, o.asdu, act2)
    BY <1>4
  <2> HIDE DEF act2
  <2> QED
    BY <1>3, <1>7, <2>1, <2>3, <2>4, <2>5, <2>6, ServedOrder
<1>6. CASE ~IsPrim(f)
  <2>1. Affirms(f)
    BY <1>2, <1>6, <1>8 DEF LineInv
  <2>2. k = TRUE
    <3>1. Exchange(s.sent, up, down)
      BY <1>2 DEF LineInv, s
    <3>2. s.sent # NoFrame
      BY <1>1, <1>2, <1>6, <3>1, BackTaken
    <3> QED
      BY <1>7, <3>2 DEF IsStation
  <2> HIDE DEF f
  <2>3. AnswerHeard(k, a, s, b, o)
    BY <1>0, <1>2, <1>7, <1>8, <2>1, <2>2, AnswerAtStationIs
  <2>4. o.station = s \/ StationConfirmed(k, a, s, o.station)
    BY <2>3 DEF AnswerHeard
  <2>5. o.buffers = b /\ acted'[a] = act
    BY <1>4, <2>3 DEF AnswerHeard, Acts
  <2>6. FewerEvents(s, o.station)
    BY <2>4 DEF FewerEvents, StationConfirmed, StationOver
  <2>7. FewerEvents(s, t)
    BY <2>6
  <2> HIDE DEF t
  <2>8. Ordered(k, a, link, t, b, queue, act, rec, commands, ne)
    BY <1>3, <2>7, FewerEventsOrder
  <2> QED
    BY <2>5, <2>8
<1> QED
  BY <1>5, <1>6

\* prim_tick
LEMMA StationTickOrder ==
    ASSUME IInv, OrderInv, NEW a \in Station, StationTick(a) PROVE OrderInv'
<1> DEFINE k == line.balanced
           s == station[a]
           b == buffers[a]
           act == acted[a]
           rec == received[a]
           ne == events[a]
           o == S!PrimTick(s, b, a)
<1>1. /\ line' = line /\ k /\ s.sent = NoFrame /\ acted' = acted
      /\ station' = [station EXCEPT ![a] = o.station]
      /\ buffers' = [buffers EXCEPT ![a] = o.buffers]
      /\ UNCHANGED <<link, queue, received, commands, events>>
  BY DEF StationTick, StationSends, history
<1>2. /\ k \in BOOLEAN /\ IsStation(k, a, s) /\ b \in BufferRec /\ a \in Nat
      /\ rec \in Seq(Eventful)
  BY LineIs, StationTypes DEF IInv
<1>3. Ordered(k, a, link, s, b, queue, act, rec, commands, ne)
  BY DEF OrderInv
<1> HIDE DEF k, s, b, act, rec, ne
<1>4. k = TRUE
  BY <1>1, <1>2
<1>5. \/ o.station = s /\ o.out = <<>> /\ o.buffers = b
      \/ StationAsks(k, a, s, b, o)
  BY <1>1, <1>2, <1>4, PrimTickIs
<1> HIDE DEF o
<1>6. Ordered(k, a, link, o.station, o.buffers, queue, act, rec, commands, ne)
  BY <1>2, <1>3, <1>4, <1>5, AsksOrder
<1> DEFINE t == o.station
           c == o.buffers
<1>7. /\ station' = [station EXCEPT ![a] = t] /\ buffers' = [buffers EXCEPT ![a] = c]
      /\ act = acted'[a] /\ Ordered(k, a, link, t, c, queue, act, rec, commands, ne)
  BY <1>1, <1>6 DEF act
<1> HIDE DEF t, c
<1> QED
  BY <1>1, <1>7, StationKeepsOrder DEF k, rec, ne

\* prim_tick after the deadline of the frame outstanding
LEMMA StationTimeoutOrder ==
    ASSUME IInv, OrderInv, NEW a \in Station, StationTimeout(a) PROVE OrderInv'
<1> DEFINE k == line.balanced
           s == station[a]
           b == buffers[a]
           act == acted[a]
           rec == received[a]
           ne == events[a]
           o == S!PrimTimeout(s, b)
<1>1. /\ line' = line /\ k /\ s.sent # NoFrame /\ acted' = acted
      /\ station' = [station EXCEPT ![a] = o.station]
      /\ buffers' = [buffers EXCEPT ![a] = o.buffers]
      /\ UNCHANGED <<link, queue, received, commands, events>>
  BY DEF StationTimeout, StationSends
<1>2. k \in BOOLEAN /\ IsStation(k, a, s)
  BY LineIs, StationTypes
<1>3. Ordered(k, a, link, s, b, queue, act, rec, commands, ne)
  BY DEF OrderInv
<1> HIDE DEF k, s, b, act, rec, ne
<1>4. k = TRUE
  BY <1>1, <1>2
<1>5. o.buffers = b /\ FewerEvents(s, o.station)
  <2>1. StationTimesOut(k, a, s, b, S!PrimExhausted(s), o)
    BY <1>1, <1>2, <1>4, PrimTimeoutIs
  <2> QED
    BY <2>1 DEF StationTimesOut, StationGivenUp, StationOver, FewerEvents
<1> DEFINE t == o.station
<1>6. FewerEvents(s, t)
  BY <1>5
<1> HIDE DEF o, t
<1>7. Ordered(k, a, link, t, b, queue, act, rec, commands, ne)
  BY <1>3, <1>6, FewerEventsOrder
<1>8. /\ station' = [station EXCEPT ![a] = t] /\ buffers' = [buffers EXCEPT ![a] = b]
      /\ act = acted'[a]
  BY <1>1, <1>5 DEF t, act
<1> QED
  BY <1>1, <1>7, <1>8, StationKeepsOrder DEF k, rec, ne

\* Nothing changes that is ordered.
LEMMA SameOrder ==
    ASSUME OrderInv,
           UNCHANGED <<line, link, station, buffers, queue, acted, received, commands, events>>
    PROVE  OrderInv'
BY OrderKept DEF OrderInv

-----------------------------------------------------------------------------
(***************************************************************************)
(* What becomes of commands and events.                                    *)
(***************************************************************************)

\* Where a command can be: given up, out, queued or acted on.
Waiting(q) == {q[i].asdu : i \in 1 .. Len(q)}
Acting(A, act) == UNION {ToSet(act[a]) : a \in A}
CommandPlaces(A, gone, l, q, act) == gone \cup Carried(l.sent) \cup Waiting(q) \cup Acting(A, act)

\* Where an event of a station can be: received or given up (got), held or buffered.
Buffered(b) == ToSet(b["class1"]) \cup ToSet(b["class2"]) \cup ToSet(b["prim"])
EventPlaces(s, b, got) == got \cup Held(s) \cup Buffered(b)

\* The event in the answer a station keeps has arrived unless it is asked for, and no
\* reset is answered with one; ans says whether an answer is on its way.
AnswerKept(l, s, a, ans, got) ==
    \A x \in Carried(s.lastResp) :
        /\ On(l, a) /\ ~Taken(l, s, a) => x \in got
        /\ Taken(l, s, a) => SentTo(l, a).control.fun \in {REQ_DATA1, REQ_DATA2}
        /\ ~(SentTo(l, a) # NoFrame /\ SentTo(l, a).control.fun = RESET_LINK /\ ans)

\* The event a balanced station has out has arrived once the primary expects the other bit.
RequestKept(l, s, got) == \A x \in Carried(s.sent) : l.fcbExpected # s.sent.control.fcb => x \in got

EventsKept(l, s, b, a, ans, got, n) ==
    /\ AnswerKept(l, s, a, ans, got) /\ RequestKept(l, s, got)
    /\ \A i \in 1 .. n : \E c \in BOOLEAN : Event(a, i, c) \in EventPlaces(s, b, got)

CommandsKept == \A n \in 1 .. commands : Cmd(n) \in CommandPlaces(Station, lost, link, queue, acted)

\* The events of station a that arrived or were given up.
Got(a) == lost \cup ToSet(received[a])

KeptInv ==
    /\ CommandsKept
    /\ \A a \in Station :
         EventsKept(link, station[a], buffers[a], a, HasAnswer(up), Got(a), events[a])

\* Link l has become m, and says of the answer that station a keeps what it said, or
\* awaits nothing of it.  ans, ans2: whether an answer is on its way.
Follows(l, m, s, a, ans, ans2) ==
    \/ /\ SentTo(m, a) = SentTo(l, a) /\ (On(m, a) => On(l, a))
       /\ \/ ans2 => ans
          \/ SentTo(m, a) = NoFrame
    \/ /\ ~Taken(m, s, a) /\ (On(m, a) => On(l, a) /\ ~Taken(l, s, a))
       /\ \/ ans2 = FALSE
          \/ SentTo(m, a) = NoFrame

\* Such a change leaves the station what it kept,
LEMMA AnswerStays ==
    ASSUME NEW l, NEW m, NEW s, NEW a, NEW ans, NEW ans2, Follows(l, m, s, a, ans, ans2),
           NEW got, NEW got2, got \subseteq got2, AnswerKept(l, s, a, ans, got)
    PROVE  AnswerKept(m, s, a, ans2, got2)
<1>1. CASE SentTo(m, a) = SentTo(l, a)
  <2>1. Taken(m, s, a) <=> Taken(l, s, a)
    BY <1>1, TakenIs
  <2> QED
    BY <1>1, <2>1, TakenIs DEF AnswerKept, Follows
<1>2. CASE SentTo(m, a) # SentTo(l, a)
  BY <1>2 DEF AnswerKept, Follows
<1> QED
  BY <1>1, <1>2

\* and all its events where they were.
LEMMA EventsStay ==
    ASSUME NEW l, NEW m, m.fcbExpected = l.fcbExpected, NEW s, NEW a, NEW ans, NEW ans2,
           Follows(l, m, s, a, ans, ans2), NEW got, NEW got2, got \subseteq got2, NEW b, NEW n,
           EventsKept(l, s, b, a, ans, got, n)
    PROVE  EventsKept(m, s, b, a, ans2, got2, n)
<1>1. AnswerKept(m, s, a, ans2, got2)
  BY AnswerStays DEF EventsKept
<1>2. RequestKept(m, s, got2)
  BY DEF EventsKept, RequestKept
<1>3. EventPlaces(s, b, got) \subseteq EventPlaces(s, b, got2)
  BY DEF EventPlaces
<1> QED
  BY <1>1, <1>2, <1>3 DEF EventsKept

\* A link that keeps what is outstanding follows itself,
LEMMA SameFollows ==
    ASSUME NEW A, NEW l, NEW m, LinkSame(A, l, m), NEW a \in A, NEW s, NEW ans, NEW ans2,
           ans2 => ans
    PROVE  Follows(l, m, s, a, ans, ans2) /\ m.fcbExpected = l.fcbExpected
BY DEF LinkSame, Follows, SentTo

\* so does one that has given its request up,
LEMMA GivenUpFollows ==
    ASSUME NEW A, NEW l, NEW m, LinkGivenUp(A, l, m), NEW a \in A, NEW s, NEW ans, NEW ans2
    PROVE  Follows(l, m, s, a, ans, ans2) /\ m.fcbExpected = l.fcbExpected
<1>1. SentTo(m, a) = NoFrame /\ ~Taken(m, s, a) /\ m.fcbExpected = l.fcbExpected
  BY NothingOut DEF LinkGivenUp, Over
<1>2. CASE a = l.sent.addr
  BY <1>1, <1>2 DEF LinkGivenUp, Follows
<1>3. CASE a # l.sent.addr
  BY <1>1, <1>3 DEF LinkGivenUp, Over, Follows, SentTo
<1> QED
  BY <1>2, <1>3

\* and one that sends a request, to which there is no answer yet.
LEMMA LaunchFollows ==
    ASSUME NEW l, l.sent = NoFrame, NEW m, NEW s, NEW a, On(m, a) => On(l, a), ~Taken(m, s, a),
           NEW ans, ans = FALSE
    PROVE  Follows(l, m, s, a, ans, ans)
BY NothingOut DEF Follows

\* Nothing answers a link that is idle.
LEMMA Unanswered ==
    ASSUME NEW A, NEW bal, NEW l, NEW st, NEW dn, NEW u, NEW act,
           LineInv(A, bal, l, st, dn, u, act), l.sent = NoFrame
    PROVE  HasAnswer(u) = FALSE
<1>1. Exchange(NoFrame, dn, u)
  BY DEF LineInv
<1> QED
  BY <1>1, IdleLine DEF HasAnswer

\* A link that asks for events or for a link follows itself as well.
LEMMA MovesOnFollows ==
    ASSUME NEW A \in SUBSET Nat, NEW bal, NEW l, NEW st, NEW dn, NEW u, NEW act,
           LineInv(A, bal, l, st, dn, u, act), NEW m, NEW out, MovesOn(A, l, m, out), NEW a \in A
    PROVE  Follows(l, m, st[a], a, HasAnswer(u), HasAnswer(u)) /\ m.fcbExpected = l.fcbExpected
<1> DEFINE s == st[a]
           h == HasAnswer(u)
<1>1. ASSUME LinkSame(A, l, m)
      PROVE  Follows(l, m, s, a, h, h) /\ m.fcbExpected = l.fcbExpected
  <2> HIDE DEF s, h
  <2> QED
    BY <1>1, SameFollows
<1>2. ASSUME l.sent = NoFrame, Launch(A, l, m, m.sent, {})
      PROVE  Follows(l, m, s, a, h, h) /\ m.fcbExpected = l.fcbExpected
  <2>1. ~Taken(m, s, a)
    BY <1>2, LaunchedIsNew
  <2>2. h = FALSE
    BY <1>2, Unanswered
  <2>3. (On(m, a) => On(l, a)) /\ m.fcbExpected = l.fcbExpected
    BY <1>2 DEF Launch
  <2> HIDE DEF s, h
  <2> QED
    BY <1>2, <2>1, <2>2, <2>3, LaunchFollows
<1> QED
  BY <1>1, <1>2 DEF MovesOn

\* What becomes of a command that is out.
LEMMA MovesOnCarries ==
    ASSUME NEW A, NEW l, NEW m, NEW out, MovesOn(A, l, m, out)
    PROVE  Carried(l.sent) \subseteq Carried(m.sent)
BY DEF MovesOn, LinkSame, Carried, NoFrame

\* At first there are none.
LEMMA InitKept == Init => KeptInv
<1> SUFFICES ASSUME Init PROVE KeptInv
  OBVIOUS
<1>1. CommandsKept
  <2>1. commands = 0
    BY DEF Init
  <2> QED
    BY <2>1 DEF CommandsKept
<1>2. ASSUME NEW a \in Station
      PROVE  EventsKept(link, station[a], buffers[a], a, HasAnswer(up), Got(a), events[a])
  <2>1. events[a] = 0 /\ station[a] = S!NewStation
    BY DEF Init
  <2>2. station[a].sent = NoFrame /\ station[a].lastResp = NoFrame
    BY <2>1, NewStationIs
  <2>3. Carried(station[a].sent) = {} /\ Carried(station[a].lastResp) = {}
    BY <2>2 DEF Carried, NoFrame
  <2> QED
    BY <2>1, <2>3 DEF EventsKept, AnswerKept, RequestKept
<1> QED
  BY <1>1, <1>2 DEF KeptInv

\* A step leaves every command in one of its places,
LEMMA CommandsStay ==
    ASSUME CommandsKept, line' = line, commands' = commands, lost \subseteq lost',
           Carried(link.sent) \cup Waiting(queue)
               \subseteq CommandPlaces(Station, lost', link', queue', acted'),
           \A a \in Station : ToSet(acted[a]) \subseteq ToSet(acted'[a])
    PROVE  CommandsKept'
<1>1. Station' = Station
  BY DEF Station
<1>2. CommandPlaces(Station, lost, link, queue, acted)
          \subseteq CommandPlaces(Station, lost', link', queue', acted')
  BY DEF CommandPlaces, Acting
<1> QED
  BY <1>1, <1>2 DEF CommandsKept, Cmd

\* and every event.
LEMMA AllKept ==
    ASSUME line' = line, CommandsKept',
           \A a \in Station : EventsKept(link', station'[a], buffers'[a], a, HasAnswer(up'),
                                         Got(a)', events'[a])
    PROVE  KeptInv'
BY DEF KeptInv, Station

\* A step of the link alone.
LEMMA LinkKept ==
    ASSUME KeptInv, CommandsKept', UNCHANGED <<line, station, buffers, events>>,
           lost \subseteq lost', \A a \in Station : ToSet(received[a]) \subseteq ToSet(received'[a]),
           \A a \in Station :
             /\ Follows(link, link', station[a], a, HasAnswer(up), HasAnswer(up'))
             /\ link'.fcbExpected = link.fcbExpected
    PROVE  KeptInv'
<1> SUFFICES ASSUME NEW a \in Station
             PROVE  EventsKept(link', station'[a], buffers'[a], a, HasAnswer(up'), Got(a)', events'[a])
  BY AllKept
<1> DEFINE s == station[a]
           m == link'
           ans == HasAnswer(up)
           ans2 == HasAnswer(up')
           got == Got(a)
           got2 == Got(a)'
           b == buffers[a]
           n == events[a]
<1>1. /\ EventsKept(link, s, b, a, ans, got, n) /\ Follows(link, m, s, a, ans, ans2)
      /\ m.fcbExpected = link.fcbExpected /\ got \subseteq got2
  BY DEF KeptInv, Got
<1> HIDE DEF s, m, ans, ans2, got, got2, b, n
<1>2. EventsKept(m, s, b, a, ans2, got2, n)
  BY <1>1, EventsStay
<1> QED
  BY <1>2 DEF s, m, ans2, got2, b, n

\* Nothing of a sequence is lost when an element is appended,
LEMMA InAppended ==
    ASSUME NEW T, NEW s \in Seq(T), NEW x \in T
    PROVE  ToSet(s) \cup {x} \subseteq ToSet(Append(s, x))
<1> DEFINE t == Append(s, x)
<1>1. DOMAIN s = 1 .. Len(s) /\ DOMAIN t = 1 .. (Len(s) + 1) /\ Len(s) \in Nat
  OBVIOUS
<1>2. (\A i \in 1 .. Len(s) : t[i] = s[i]) /\ t[Len(s) + 1] = x
  OBVIOUS
<1> HIDE DEF t
<1> QED
  BY <1>1, <1>2 DEF ToSet, t

\* nor when its head is taken, but for the head.
LEMMA InTaken ==
    ASSUME NEW T, NEW s \in Seq(T), s # <<>>
    PROVE  ToSet(s) \subseteq ToSet(Tail(s)) \cup {Head(s)}
<1> DEFINE t == Tail(s)
           h == Head(s)
<1>1. /\ t \in Seq(T) /\ h = s[1]
      /\ \A i \in 1 .. Len(s) : i # 1 => i - 1 \in 1 .. Len(t) /\ s[i] = t[i - 1]
  BY HeadTail
<1> HIDE DEF t, h
<1>2. DOMAIN s = 1 .. Len(s) /\ DOMAIN t = 1 .. Len(t)
  BY <1>1
<1> QED
  BY <1>1, <1>2 DEF ToSet, t, h

\* Buffers b with x appended to one, or with the head of one taken, are c.
Extended(b, q, x, c) == c = [b EXCEPT ![q] = Append(@, x)]
Shortened(b, q, c) == b[q] # <<>> /\ c = [b EXCEPT ![q] = Tail(@)]

\* The same of the buffers of a station.
LEMMA BufferedMore ==
    ASSUME NEW b \in BufferRec, NEW q \in {"class1", "class2", "prim"}, NEW x \in Eventful,
           NEW c, Extended(b, q, x, c)
    PROVE  Buffered(b) \cup {x} \subseteq Buffered(c)
<1>1. b[q] \in Seq(Eventful)
  BY DEF BufferRec
<1>2. ToSet(b[q]) \cup {x} \subseteq ToSet(Append(b[q], x))
  BY <1>1, InAppended
<1>3. /\ c[q] = Append(b[q], x)
      /\ \A p \in {"class1", "class2", "prim"} : p # q => c[p] = b[p]
  BY DEF BufferRec, Extended
<1> QED
  BY <1>2, <1>3 DEF Buffered

\* The event taken from a buffer is the only one that leaves it.
LEMMA BufferedTaken ==
    ASSUME NEW b \in BufferRec, NEW q \in {"class1", "class2", "prim"},
           NEW c, Shortened(b, q, c)
    PROVE  Buffered(b) \subseteq Buffered(c) \cup {Head(b[q])}
<1>1. b[q] \in Seq(Eventful)
  BY DEF BufferRec
<1>2. ToSet(b[q]) \subseteq ToSet(Tail(b[q])) \cup {Head(b[q])}
  BY <1>1, InTaken DEF Shortened
<1>3. /\ c[q] = Tail(b[q])
      /\ \A p \in {"class1", "class2", "prim"} : p # q => c[p] = b[p]
  BY DEF BufferRec, Shortened
<1> QED
  BY <1>2, <1>3 DEF Buffered

\* Nothing of the queue is lost when a command is pushed,
LEMMA WaitingMore ==
    ASSUME NEW T, NEW q \in Seq(T), NEW e \in T
    PROVE  Waiting(q) \cup {e.asdu} \subseteq Waiting(Append(q, e))
<1> DEFINE p == Append(q, e)
<1>1. /\ Len(p) = Len(q) + 1 /\ Len(q) \in Nat /\ p[Len(q) + 1] = e
      /\ \A i \in 1 .. Len(q) : p[i] = q[i]
  OBVIOUS
<1> HIDE DEF p
<1> QED
  BY <1>1 DEF Waiting, p

\* nor when one is cut out, but for that one.
LEMMA WaitingCut ==
    ASSUME NEW T, NEW q \in Seq(T), NEW i \in 1 .. Len(q)
    PROVE  Waiting(q) \subseteq Waiting(SubSeq(q, 1, i - 1) \o SubSeq(q, i + 1, Len(q)))
                                \cup {q[i].asdu}
<1> DEFINE u == SubSeq(q, 1, i - 1)
           v == SubSeq(q, i + 1, Len(q))
           p == u \o v
<1>0. Len(q) \in Nat /\ i \in Nat /\ 1 <= i /\ i <= Len(q)
  OBVIOUS
<1>1. u \in Seq(T) /\ Len(u) = i - 1 /\ \A j \in 1 .. (i - 1) : u[j] = q[j]
  OBVIOUS
<1>2. v \in Seq(T) /\ Len(v) = Len(q) - i /\ \A j \in 1 .. (Len(q) - i) : v[j] = q[j + i]
  OBVIOUS
<1> HIDE DEF u, v
<1>3. Len(p) = Len(q) - 1
  <2>1. Len(p) = Len(u) + Len(v)
    BY <1>1, <1>2, Joined
  <2> HIDE DEF p
  <2> QED
    BY <1>0, <1>1, <1>2, <2>1
<1>4. \A j \in 1 .. Len(p) : p[j] = IF j < i THEN u[j] ELSE v[j - (i - 1)]
  BY <1>0, <1>1, <1>2, <1>3
<1> HIDE DEF p
<1>5. ASSUME NEW j \in 1 .. Len(q), j # i
      PROVE  \E k \in 1 .. Len(p) : p[k] = q[j]
  <2>1. CASE j < i
    <3>1. j \in 1 .. Len(p) /\ p[j] = u[j] /\ u[j] = q[j]
      BY <1>0, <1>1, <1>3, <1>4, <2>1
    <3> QED
      BY <3>1
  <2>2. CASE i < j
    <3> DEFINE k == j - 1
               w == k - (i - 1)
    <3>1. k \in 1 .. Len(p) /\ ~(k < i) /\ w \in 1 .. (Len(q) - i) /\ w + i = j
      BY <1>0, <1>3, <2>2
    <3> HIDE DEF k
    <3>2. p[k] = v[w]
      BY <1>4, <3>1
    <3> HIDE DEF w
    <3>3. v[w] = q[j]
      BY <1>2, <3>1
    <3> QED
      BY <3>1, <3>2, <3>3
  <2> QED
    BY <1>0, <1>5, <2>1, <2>2
<1> QED
  BY <1>5 DEF Waiting, p, u, v

\* Nothing changes that is spoken of but the line back, which has no new answer.
LEMMA SameKept ==
    ASSUME KeptInv, UNCHANGED <<line, link, station, buffers, queue, acted, received, commands,
                                events, lost>>,
           HasAnswer(up') => HasAnswer(up)
    PROVE  KeptInv'
<1>1. CommandsKept'
  BY CommandsStay DEF KeptInv, CommandPlaces
<1>2. \A a \in Station : Follows(link, link', station[a], a, HasAnswer(up), HasAnswer(up'))
  BY DEF Follows
<1> QED
  BY <1>1, <1>2, LinkKept

\* A command is queued.
LEMMA SendToPushesKept ==
    ASSUME IInv, KeptInv, SendToPushes PROVE KeptInv'
<1> DEFINE e == [addr |-> calling, asdu |-> Cmd(commands + 1)]
<1>1. /\ line' = line /\ calling # NoCall
      /\ UNCHANGED <<link, station, buffers, up, events, acted, received, lost>>
      /\ \/ queue' = Append(queue, e) /\ commands' = commands + 1
         \/ queue' = queue /\ commands' = commands
  BY DEF SendToPushes
<1>2. e \in Item(Station) /\ e.asdu = Cmd(commands + 1)
  BY <1>1 DEF IInv, Item, Cmd, Command
<1>3. queue \in Seq(Item(Station)) /\ commands \in Nat
  BY DEF IInv
<1> HIDE DEF e
<1>4. CASE queue' = queue /\ commands' = commands
  BY <1>1, <1>4, SameKept
<1>5. CASE queue' = Append(queue, e) /\ commands' = commands + 1
  <2>1. Waiting(queue) \cup {Cmd(commands + 1)} \subseteq Waiting(queue')
    BY <1>2, <1>3, <1>5, WaitingMore
  <2>2. Station' = Station
    BY <1>1 DEF Station
  <2>3. CommandPlaces(Station, lost, link, queue, acted) \cup {Cmd(commands + 1)}
            \subseteq CommandPlaces(Station, lost, link, queue', acted)
    BY <2>1 DEF CommandPlaces
  <2>4. \A n \in 1 .. commands' : n \in 1 .. commands \/ n = commands + 1
    BY <1>3, <1>5
  <2>5. \A n \in 1 .. commands' : Cmd(n) \in CommandPlaces(Station, lost, link, queue', acted)
    BY <2>3, <2>4 DEF KeptInv, CommandsKept
  <2>6. CommandsKept'
    BY <1>1, <2>2, <2>5 DEF CommandsKept, Cmd
  <2>7. \A a \in Station : Follows(link, link', station[a], a, HasAnswer(up), HasAnswer(up'))
    BY <1>1 DEF Follows
  <2> QED
    BY <1>1, <2>6, <2>7, LinkKept
<1> QED
  BY <1>1, <1>4, <1>5

\* An event is buffered.
LEMMA RaiseKept ==
    ASSUME IInv, KeptInv, NEW a \in Station, NEW cyclic, cyclic \in BOOLEAN, Raise(a, cyclic)
    PROVE  KeptInv'
<1> DEFINE q == S!QueueFor(cyclic, line.balanced)
           x == Event(a, events[a] + 1, cyclic)
<1>1. /\ line' = line /\ events' = [events EXCEPT ![a] = @ + 1]
      /\ buffers' = [buffers EXCEPT ![a][q] = Append(@, x)]
      /\ UNCHANGED <<link, queue, station, up, commands, acted, received, lost>>
  BY DEF Raise
<1>2. a \in Nat /\ events[a] \in Nat /\ buffers[a] \in BufferRec
  BY StationTypes
<1>3. x \in Eventful /\ x = Event(a, events[a] + 1, cyclic)
  BY <1>2 DEF Event, Eventful
<1>4. q \in {"class1", "class2", "prim"}
  BY DEF S!QueueFor
<1>5. CommandsKept'
  BY <1>1, CommandsStay DEF KeptInv, CommandPlaces
<1> HIDE DEF x, q
<1> SUFFICES ASSUME NEW y \in Station
             PROVE  EventsKept(link, station[y], buffers'[y], y, HasAnswer(up), Got(y), events'[y])
  BY <1>1, <1>5, AllKept DEF Got
<1>6. EventsKept(link, station[y], buffers[y], y, HasAnswer(up), Got(y), events[y])
  BY DEF KeptInv
<1>7. CASE y # a
  <2>1. buffers'[y] = buffers[y] /\ events'[y] = events[y]
    BY <1>1, <1>7 DEF IInv
  <2> QED
    BY <1>6, <2>1
<1>8. CASE y = a
  <2> DEFINE n == events[a]
             s == station[a]
             got == Got(a)
             c == buffers'[a]
             b == buffers[a]
  <2>1. c = [b EXCEPT ![q] = Append(@, x)] /\ events'[a] = n + 1 /\ n \in Nat /\ b \in BufferRec
    BY <1>1, <1>2 DEF IInv
  <2>2. x = Event(a, n + 1, cyclic) /\ cyclic \in BOOLEAN
    BY <1>3
  <2>3. EventsKept(link, s, b, a, HasAnswer(up), got, n)
    BY <1>6, <1>8
  <2> HIDE DEF n, s, got, c, b
  <2>4. Buffered(b) \cup {x} \subseteq Buffered(c)
    <3>1. Extended(b, q, x, c)
      BY <2>1 DEF Extended
    <3> QED
      BY <1>3, <1>4, <2>1, <3>1, BufferedMore
  <2>5. EventPlaces(s, b, got) \cup {x} \subseteq EventPlaces(s, c, got)
    BY <2>4 DEF EventPlaces
  <2>6. \A i \in 1 .. (n + 1) : i \in 1 .. n \/ i = n + 1
    BY <2>1
  <2>7. \A i \in 1 .. (n + 1) : \E w \in BOOLEAN : Event(a, i, w) \in EventPlaces(s, c, got)
    BY <2>2, <2>3, <2>5, <2>6 DEF EventsKept
  <2>8. EventsKept(link, s, c, a, HasAnswer(up), got, n + 1)
    BY <2>3, <2>7 DEF EventsKept
  <2> QED
    BY <1>8, <2>1, <2>8 DEF s, got, c
<1> QED
  BY <1>7, <1>8

\* The link alone moves on.
LEMMA MovesOnKept ==
    ASSUME IInv, KeptInv, NEW o, link' = o.link, MovesOn(Station, link, o.link, o.out),
           UNCHANGED <<line, station, buffers, queue, up, acted, received, commands, events, lost>>
    PROVE  KeptInv'
<1> DEFINE A == Station
           k == line.balanced
           m == o.link
           out == o.out
<1>1. LineInv(A, k, link, station, down, up, acted) /\ A \subseteq Nat
  BY LineIs DEF IInv
<1>2. MovesOn(A, link, m, out)
  OBVIOUS
<1> HIDE DEF A, k, m, out
<1>3. \A a \in A : /\ Follows(link, m, station[a], a, HasAnswer(up), HasAnswer(up))
                   /\ m.fcbExpected = link.fcbExpected
  BY <1>1, <1>2, MovesOnFollows
<1>4. Carried(link.sent) \subseteq Carried(m.sent)
  BY <1>2, MovesOnCarries
<1>5. CommandsKept'
  BY <1>4, CommandsStay DEF KeptInv, CommandPlaces, m
<1> QED
  BY <1>3, <1>5, LinkKept DEF A, m

\* The primary tests the link.
LEMMA ClientTestKept ==
    ASSUME IInv, KeptInv, ClientTest PROVE KeptInv'
<1> DEFINE o == P!T3Timeout(link)
<1>1. /\ link' = o.link
      /\ UNCHANGED <<line, queue, station, buffers, up, commands, events, acted, received, lost>>
  BY DEF ClientTest, PrimarySends, history
<1>2. IsLink(Station, link) /\ Station \subseteq Nat
  BY LineIs DEF IInv, LineInv
<1>3. MovesOn(Station, link, o.link, o.out)
  BY <1>2, T3TimeoutIs
<1> HIDE DEF o
<1> QED
  BY <1>1, <1>3, MovesOnKept

\* The application asks for a link service.
LEMMA ManualKept ==
    ASSUME IInv, KeptInv, NEW fun, Manual(fun) PROVE KeptInv'
<1> DEFINE o == P!LinkRequest(link, fun, line.balanced)
<1>1. /\ link' = o.link
      /\ UNCHANGED <<line, queue, station, buffers, up, commands, events, acted, received, lost>>
  BY DEF Manual, PrimarySends, history
<1>2. IsLink(Station, link) /\ Station \subseteq Nat
  BY LineIs DEF IInv, LineInv
<1>3. MovesOn(Station, link, o.link, o.out)
  BY <1>2, LinkRequestIs
<1> HIDE DEF o
<1> QED
  BY <1>1, <1>3, MovesOnKept

\* The primary sends a command or moves on.
LEMMA ClientTickKept ==
    ASSUME IInv, KeptInv, ClientTick PROVE KeptInv'
<1> DEFINE o == P!Tick(link, queue, line.balanced)
           A == Station
           k == line.balanced
           q2 == P!QueueAfter(link, queue)
<1>1. /\ link.sent = NoFrame /\ link' = o.link /\ queue' = q2
      /\ UNCHANGED <<line, station, buffers, up, commands, events, acted, received, lost>>
  BY PNames DEF ClientTick, P!Idle, PrimarySends, history
<1>2. /\ LineInv(A, k, link, station, down, up, acted) /\ IsLink(A, link) /\ A \subseteq Nat
      /\ queue \in Seq(Item(A)) /\ k \in BOOLEAN
  BY LineIs DEF IInv, LineInv
<1>3. o = P!Tick(link, queue, k) /\ q2 = P!QueueAfter(link, queue)
  OBVIOUS
<1> HIDE DEF o, A, k, q2
<1>4. Ticks(A, link, queue, o, q2)
  BY <1>1, <1>2, <1>3, TickIs
<1>5. CASE q2 = queue /\ MovesOn(A, link, o.link, o.out)
  BY <1>1, <1>5, MovesOnKept DEF A
<1>6. ASSUME NEW i \in 1 .. Len(queue), NEW m, m = link',
             Launch(A, link, m, m.sent, {queue[i].asdu}), m.sent.kind = "Variable",
             q2 = SubSeq(queue, 1, i - 1) \o SubSeq(queue, i + 1, Len(queue))
      PROVE  KeptInv'
  <2>1. Waiting(queue) \subseteq Waiting(q2) \cup {queue[i].asdu}
    BY <1>2, <1>6, WaitingCut
  <2>2. Carried(m.sent) = {queue[i].asdu} /\ Carried(link.sent) = {}
    BY <1>1, <1>6 DEF Launch, Carried, NoFrame
  <2>3. CommandsKept'
    BY <1>1, <1>6, <2>1, <2>2, CommandsStay DEF KeptInv, CommandPlaces
  <2>4. \A a \in A : /\ Follows(link, m, station[a], a, HasAnswer(up), HasAnswer(up))
                     /\ m.fcbExpected = link.fcbExpected
    <3> SUFFICES ASSUME NEW a \in A
                 PROVE  /\ Follows(link, m, station[a], a, HasAnswer(up), HasAnswer(up))
                        /\ m.fcbExpected = link.fcbExpected
      OBVIOUS
    <3> DEFINE s == station[a]
               ans == HasAnswer(up)
    <3>1. ~Taken(m, s, a)
      BY <1>1, <1>2, <1>6, LaunchedIsNew
    <3>2. ans = FALSE
      BY <1>1, <1>2, Unanswered
    <3>3. (On(m, a) => On(link, a)) /\ m.fcbExpected = link.fcbExpected
      BY <1>6 DEF Launch
    <3> HIDE DEF s, ans
    <3>4. Follows(link, m, s, a, ans, ans)
      BY <1>1, <3>1, <3>2, <3>3, LaunchFollows
    <3> QED
      BY <3>3, <3>4 DEF s, ans
  <2> QED
    BY <1>1, <1>6, <2>3, <2>4, LinkKept DEF A
<1> QED
  BY <1>1, <1>4, <1>5, <1>6 DEF Ticks

\* The primary repeats its frame or gives it up, and then the command in it.
LEMMA ClientTimeoutKept ==
    ASSUME IInv, KeptInv, ClientTimeout PROVE KeptInv'
<1> DEFINE o == P!T1Timeout(link)
           A == Station
           x == P!Exhausted(link)
<1>1. /\ link.sent # NoFrame /\ link' = o.link
      /\ lost' = lost \cup IF x THEN Carried(link.sent) ELSE {}
      /\ UNCHANGED <<line, queue, station, buffers, up, commands, events, acted, received>>
  BY PNames DEF ClientTimeout, P!Idle, PrimarySends
<1>2. IsLink(A, link) /\ A \subseteq Nat
  BY LineIs DEF IInv, LineInv
<1>3. \/ x /\ LinkGivenUp(A, link, o.link) /\ o.out = <<>>
      \/ ~x /\ LinkSame(A, link, o.link) /\ o.out = <<link.sent>>
  BY <1>1, <1>2, T1TimeoutIs
<1> HIDE DEF o, A, x
<1>4. CommandsKept'
  <2>1. Carried(link.sent) \subseteq lost' \cup Carried(link'.sent)
    BY <1>1, <1>3 DEF LinkSame
  <2> QED
    BY <1>1, <2>1, CommandsStay DEF KeptInv, CommandPlaces
<1>5. ASSUME NEW a \in A
      PROVE  /\ Follows(link, link', station[a], a, HasAnswer(up), HasAnswer(up'))
             /\ link'.fcbExpected = link.fcbExpected
  <2> DEFINE m == o.link
             s == station[a]
             ans == HasAnswer(up)
  <2>1. LinkGivenUp(A, link, m) \/ LinkSame(A, link, m)
    BY <1>3
  <2> HIDE DEF m, s, ans
  <2>2. Follows(link, m, s, a, ans, ans) /\ m.fcbExpected = link.fcbExpected
    BY <2>1, GivenUpFollows, SameFollows
  <2> QED
    BY <1>1, <2>2 DEF m, s, ans
<1> QED
  BY <1>1, <1>4, <1>5, LinkKept DEF A

\* The line starts anew: what was queued or out is given up, and so is what a station
\* held that starts anew with it.
LEMMA ReopenKept ==
    ASSUME IInv, KeptInv, BalancedRestarts, Reopen PROVE KeptInv'
<1> DEFINE n == S!NewStation
           k == line.balanced
           given == UNION {IF line.serial THEN {} ELSE Held(station[a]) : a \in Station}
<1>1. /\ line' = line /\ link' = P!NewLink(line.order, k) /\ queue' = <<>> /\ up' = <<>>
      /\ station' = IF line.serial THEN station ELSE [a \in Station |-> n]
      /\ lost' = lost \cup Carried(link.sent) \cup {queue[i].asdu : i \in DOMAIN queue} \cup given
      /\ UNCHANGED <<buffers, commands, events, acted, received>>
  BY DEF Reopen
<1>2. k => ~line.serial
  BY DEF IInv, BalancedRestarts
<1>3. n.sent = NoFrame /\ n.lastResp = NoFrame
  BY NewStationIs
<1>4. link'.sent = NoFrame /\ \A a \in Station : ~On(link', a)
  <2>1. link' = P!NewLink(line.order, k) /\ Station = ToSet(line.order)
    BY <1>1 DEF Station
  <2> QED
    BY <2>1, PNames DEF P!NewLink, P!NewSecondary, P!ToSet, ToSet, On
<1>5. CommandsKept'
  <2>1. DOMAIN queue = 1 .. Len(queue)
    BY DEF IInv
  <2>2. Waiting(queue) \subseteq lost' /\ Carried(link.sent) \subseteq lost'
    BY <1>1, <2>1 DEF Waiting
  <2> QED
    BY <1>1, <2>2, CommandsStay DEF KeptInv, CommandPlaces
<1> HIDE DEF n, k
<1> SUFFICES ASSUME NEW a \in Station
             PROVE  EventsKept(link', station'[a], buffers[a], a, HasAnswer(up'), Got(a)', events[a])
  BY <1>1, <1>5, AllKept
<1> DEFINE s == station[a]
           t == station'[a]
           got == Got(a)
           got2 == Got(a)'
           b == buffers[a]
<1>6. EventsKept(link, s, b, a, HasAnswer(up), got, events[a]) /\ got \subseteq got2
  BY <1>1 DEF KeptInv, Got
<1>7. Carried(t.sent) = {} /\ Held(s) \subseteq got2 \cup Held(t)
  <2>1. CASE line.serial
    <3>1. t = s /\ ~k
      BY <1>1, <1>2, <2>1
    <3>2. IsStation(k, a, s)
      BY StationTypes DEF k
    <3> QED
      BY <3>1, <3>2 DEF IsStation, Carried, NoFrame
  <2>2. CASE ~line.serial
    <3>1. t = n
      BY <1>1, <2>2
    <3>2. Held(s) \subseteq given
      BY <2>2
    <3> QED
      BY <1>1, <1>3, <3>1, <3>2 DEF Carried, NoFrame, Got
  <2> QED
    BY <2>1, <2>2
<1> HIDE DEF s, t, got, got2, b, given
<1>8. ~Taken(link', t, a) /\ SentTo(link', a) = NoFrame
  BY <1>4, NothingOut
<1>9. AnswerKept(link', t, a, HasAnswer(up'), got2) /\ RequestKept(link', t, got2)
  BY <1>4, <1>7, <1>8 DEF AnswerKept, RequestKept
<1>10. EventPlaces(s, b, got) \subseteq EventPlaces(t, b, got2)
  BY <1>6, <1>7 DEF EventPlaces
<1> QED
  BY <1>6, <1>9, <1>10 DEF EventsKept, t, got2, b

\* A frame is lost.
LEMMA LoseKept ==
    ASSUME IInv, KeptInv, Lose PROVE KeptInv'
<1>1. /\ UNCHANGED <<line, link, queue, station, buffers, commands, events, acted, received, lost>>
      /\ up' = up \/ (up # <<>> /\ up' = Tail(up))
  BY DEF Lose, ends, history
<1>2. HasAnswer(up') => HasAnswer(up)
  <2>1. up \in Seq(Frame)
    BY DEF IInv, LineInv
  <2> QED
    BY <1>1, <2>1, HeadTail DEF HasAnswer
<1> QED
  BY <1>1, <1>2, SameKept

\* Of station b one more event x is received, or nothing.
ReceivedOf(rec, b, x, taken, rec2) ==
    rec2 = IF taken = TRUE THEN [rec EXCEPT ![b] = Append(@, x)] ELSE rec

ReceivedGrow(A, rec, b, x, taken, rec2) ==
    /\ \A a \in A : ToSet(rec[a]) \subseteq ToSet(rec2[a])
    /\ taken = TRUE => x \in ToSet(rec2[b])

\* Nothing that was received is forgotten.
LEMMA ReceivedMore ==
    ASSUME NEW A, NEW rec \in [A -> Seq(Eventful)], NEW b, NEW x, NEW taken,
           taken = TRUE => b \in A /\ x \in Eventful,
           NEW rec2, ReceivedOf(rec, b, x, taken, rec2)
    PROVE  ReceivedGrow(A, rec, b, x, taken, rec2)
<1>1. CASE taken = TRUE
  <2>1. rec[b] \in Seq(Eventful) /\ x \in Eventful
    BY <1>1
  <2>2. ToSet(rec[b]) \cup {x} \subseteq ToSet(Append(rec[b], x))
    BY <2>1, InAppended
  <2>3. rec2[b] = Append(rec[b], x) /\ \A a \in A : a # b => rec2[a] = rec[a]
    BY <1>1 DEF ReceivedOf
  <2> QED
    BY <2>2, <2>3 DEF ReceivedGrow
<1>2. CASE taken # TRUE
  BY <1>2 DEF ReceivedOf, ReceivedGrow
<1> QED
  BY <1>1, <1>2

\* The event in an answer f that is delivered to link l is in got if station a sent it.
Brings(l, a, f, got) == a = l.sent.addr /\ Delivers(f, l.sent) => f.asdu \in got

\* The primary takes an answer: the event in it arrives, and what the station asked
\* keeps is no longer asked for.
LEMMA ConfirmedKeeps ==
    ASSUME NEW A \in SUBSET Nat, NEW bal, NEW l, NEW st, NEW dn, NEW u, NEW act,
           LineInv(A, bal, l, st, dn, u, act), u # <<>>, NEW f, f = Head(u), ~IsPrim(f),
           NEW m, LinkConfirmed(A, l, m), NEW a \in A, NEW s, s = st[a],
           NEW got, NEW ans, ans = HasAnswer(u), AnswerKept(l, s, a, ans, got),
           NEW got2, got \subseteq got2, Brings(l, a, f, got2), NEW ans2
    PROVE  AnswerKept(m, s, a, ans2, got2)
<1>1. /\ l.sent # NoFrame /\ f = st[l.sent.addr].lastResp /\ Affirms(f) /\ HasAnswer(u)
      /\ Asks(l.sent)
  <2>1. IsLink(A, l)
    BY DEF LineInv
  <2> QED
    BY <2>1, HeadAffirms DEF IsLink
<1>2. SentTo(m, a) = NoFrame /\ ~Taken(m, s, a)
  BY NothingOut DEF LinkConfirmed, Over
<1> SUFFICES ASSUME NEW x \in Carried(s.lastResp), On(m, a)
             PROVE  x \in got2
  BY <1>2 DEF AnswerKept
<1>3. /\ On(l, a) /\ ~Taken(l, s, a) => x \in got
      /\ Taken(l, s, a) => SentTo(l, a).control.fun \in {REQ_DATA1, REQ_DATA2}
      /\ SentTo(l, a) # NoFrame => SentTo(l, a).control.fun # RESET_LINK
  BY <1>1 DEF AnswerKept
<1>4. CASE a # l.sent.addr
  <2>1. On(l, a) /\ ~Taken(l, s, a)
    BY <1>4 DEF LinkConfirmed, Over, Taken
  <2> QED
    BY <1>3, <2>1
<1>5. CASE a = l.sent.addr /\ l.sent.control.fcv
  <2>1. SentTo(l, a) = l.sent
    BY <1>1, <1>5 DEF SentTo
  <2>2. Bits(On(l, a), l.secs[a].fcb, l.sent, s.fcbExpected, HasAnswer(u))
    BY <2>1 DEF LineInv
  <2>3. Taken(l, s, a)
    BY <1>1, <1>5, <2>2 DEF Bits, Taken
  <2>4. f.kind = "Variable" /\ x = f.asdu
    BY <1>1, <1>5 DEF Carried
  <2>5. Delivers(f, l.sent)
    BY <1>1, <1>3, <2>1, <2>3, <2>4 DEF Delivers, Affirms
  <2> QED
    BY <1>5, <2>4, <2>5 DEF Brings
<1>6. CASE a = l.sent.addr /\ ~l.sent.control.fcv
  <2>1. SentTo(l, a) = l.sent
    BY <1>1, <1>6 DEF SentTo
  <2>2. l.sent.control.fun # RESET_LINK
    BY <1>1, <1>3, <2>1
  <2>3. On(l, a) /\ ~Taken(l, s, a)
    BY <1>6, <2>2 DEF LinkConfirmed, Taken
  <2> QED
    BY <1>3, <2>3
<1> QED
  BY <1>4, <1>5, <1>6

\* An answer to the link, and what the link sends next, leave a station its events.
LEMMA RepliedStays ==
    ASSUME NEW A \in SUBSET Nat, NEW bal, NEW l, NEW st, NEW dn, NEW u, NEW act,
           LineInv(A, bal, l, st, dn, u, act), u # <<>>, NEW f, f = Head(u), ~IsPrim(f),
           NEW m, NEW done, Replied(A, l, f, m, done), NEW n, NEW out, MovesOn(A, m, n, out),
           NEW a \in A, NEW s, s = st[a], NEW b, NEW k,
           NEW got, EventsKept(l, s, b, a, HasAnswer(u), got, k), NEW got2, got \subseteq got2,
           a = l.sent.addr /\ Delivers(f, done) => f.asdu \in got2
    PROVE  EventsKept(n, s, b, a, HasAnswer(Tail(u)), got2, k)
<1> DEFINE v == Tail(u)
           ans == HasAnswer(u)
           ans2 == HasAnswer(v)
<1>1. LineInv(A, bal, m, st, dn, v, act)
  BY ReplyKeeps
<1>2. LinkSame(A, l, m) \/ (LinkConfirmed(A, l, m) /\ done = l.sent)
  BY ReplyKeeps
<1>3. ans2 => ans
  BY HeadAffirms
<1>4. Follows(m, n, s, a, ans2, ans2) /\ n.fcbExpected = m.fcbExpected
  BY <1>1, MovesOnFollows
<1>5. m.fcbExpected = l.fcbExpected
  BY <1>2 DEF LinkSame, LinkConfirmed, Over
<1>6. ans = HasAnswer(u)
  OBVIOUS
<1> HIDE DEF v, ans, ans2
<1>7. AnswerKept(m, s, a, ans2, got2)
  <2>1. AnswerKept(l, s, a, ans, got)
    BY DEF EventsKept, ans
  <2>2. CASE LinkSame(A, l, m)
    <3>1. Follows(l, m, s, a, ans, ans2)
      BY <1>3, <2>2, SameFollows
    <3> QED
      BY <2>1, <3>1, AnswerStays
  <2>3. CASE LinkConfirmed(A, l, m) /\ done = l.sent
    <3>1. Brings(l, a, f, got2)
      BY <2>3 DEF Brings
    <3> QED
      BY <1>6, <2>1, <2>3, <3>1, ConfirmedKeeps
  <2> QED
    BY <1>2, <2>2, <2>3
<1>8. EventsKept(m, s, b, a, ans2, got2, k)
  BY <1>5, <1>7 DEF EventsKept, RequestKept, EventPlaces
<1> QED
  BY <1>4, <1>8, EventsStay DEF ans2, v

\* The event in a request f of its peer is in got if it is new to link l.
PeerBrings(l, f, got) == f.kind = "Variable" /\ f.control.fcb = l.fcbExpected => f.asdu \in got

\* The primary answers its peer, which has the event it asked with arrived.
LEMMA PeerStays ==
    ASSUME NEW A, NEW l, NEW m, NEW f, NEW g, PeerAnswered(A, l, f, m, g), NEW a \in A,
           NEW s, f = s.sent, NEW b, NEW k, NEW ans, NEW ans2, ans2 => ans,
           NEW got, EventsKept(l, s, b, a, ans, got, k), NEW got2, got \subseteq got2,
           PeerBrings(l, f, got2)
    PROVE  EventsKept(m, s, b, a, ans2, got2, k)
<1>1. Follows(l, m, s, a, ans, ans2)
  BY DEF PeerAnswered, Follows, SentTo
<1>2. AnswerKept(m, s, a, ans2, got2)
  BY <1>1, AnswerStays DEF EventsKept
<1>3. RequestKept(m, s, got2)
  <2> SUFFICES ASSUME NEW x \in Carried(s.sent)
               PROVE  x \in got2
    BY DEF RequestKept
  <2>1. f.kind = "Variable" /\ x = f.asdu
    BY DEF Carried
  <2>2. l.fcbExpected # f.control.fcb => x \in got
    BY DEF EventsKept, RequestKept
  <2> QED
    BY <2>1, <2>2 DEF PeerBrings
<1>4. EventPlaces(s, b, got) \subseteq EventPlaces(s, b, got2)
  BY DEF EventPlaces
<1> QED
  BY <1>2, <1>3, <1>4 DEF EventsKept

\* The primary takes an answer, or a request of its peer.
LEMMA ClientReceivesKept ==
    ASSUME IInv, KeptInv, ClientReceives PROVE KeptInv'
<1> DEFINE A == Station
           k == line.balanced
           f == Head(up)
           o == P!HandleFrame(link, f, k)
           taken == o.deliver /\ f.kind = "Variable"
           got2(a) == Got(a)'
<1>1. /\ up # <<>> /\ up' = Tail(up) /\ link' = o.link
      /\ received' = IF taken THEN [received EXCEPT ![f.addr] = Append(@, f.asdu)] ELSE received
      /\ UNCHANGED <<line, station, queue, buffers, commands, events, acted, lost>>
  BY DEF ClientReceives, PrimarySends
<1>2. /\ LineInv(A, k, link, station, down, up, acted) /\ IsLink(A, link) /\ A \subseteq Nat
      /\ k \in BOOLEAN /\ down \in Seq(Frame) /\ up \in Seq(Frame)
      /\ received \in [A -> Seq(Eventful)]
  BY LineIs DEF IInv, LineInv
<1>3. f \in Frame
  BY <1>1, <1>2, HeadTail
<1>4. o = P!HandleFrame(link, f, k) /\ f = Head(up)
  OBVIOUS
<1> HIDE DEF A, k, f, o
<1>5. ASSUME taken => f.addr \in A /\ f.asdu \in Eventful, NEW a \in A
      PROVE  /\ Got(a) \subseteq got2(a)
             /\ taken /\ f.addr = a => f.asdu \in got2(a)
  <2> DEFINE t == taken <=> TRUE
             b == f.addr
             x == f.asdu
             rec2 == received'
  <2>1. ReceivedOf(received, b, x, t, rec2) /\ (t = TRUE => b \in A /\ x \in Eventful)
    BY <1>1, <1>5 DEF ReceivedOf
  <2> HIDE DEF t, b, x, rec2
  <2>2. ReceivedGrow(A, received, b, x, t, rec2)
    BY <1>2, <2>1, ReceivedMore
  <2> QED
    BY <1>1, <2>2 DEF ReceivedGrow, Got, t, b, x, rec2
<1>6. \A a \in A : EventsKept(link, station[a], buffers[a], a, HasAnswer(up), Got(a), events[a])
  BY DEF KeptInv, A
<1> HIDE DEF taken, got2
<1>7. CASE ~IsPrim(f)
  <2>1. PICK m : Replied(A, link, f, m, o.done) /\ MovesOn(A, m, o.link, o.out)
    BY <1>2, <1>3, <1>4, <1>7, HandleAnswer
  <2>2. o.deliver <=> Delivers(f, o.done)
    BY <1>2, <1>3, <1>4, <1>7, HandleAnswer
  <2>3. /\ link.sent # NoFrame /\ link.sent.addr \in A /\ Affirms(f)
        /\ f.kind # "SingleCharAck" => f.addr = link.sent.addr
    BY <1>1, <1>2, <1>7, HeadAffirms DEF f
  <2>4. taken => f.addr = link.sent.addr /\ f.asdu \in Eventful
    BY <2>3 DEF Affirms, taken
  <2>5. CommandsKept'
    <3>1. \/ LinkSame(A, link, m)
          \/ LinkConfirmed(A, link, m) /\ Carried(link.sent) \subseteq ToSet(acted[link.sent.addr])
      <4>1. /\ \/ LinkSame(A, link, m)
               \/ LinkConfirmed(A, link, m) /\ o.done = link.sent
            /\ o.done # NoFrame => Carried(o.done) \subseteq ToSet(acted[o.done.addr])
        BY <1>1, <1>2, <1>7, <2>1, ReplyKeeps DEF f
      <4> QED
        BY <2>3, <4>1
    <3>2. Carried(link.sent) \subseteq Carried(m.sent) \cup Acting(A, acted)
      BY <2>3, <3>1 DEF LinkSame, Acting
    <3>3. Carried(m.sent) \subseteq Carried(link'.sent)
      BY <1>1, <2>1, MovesOnCarries
    <3> QED
      BY <1>1, <3>2, <3>3, CommandsStay DEF KeptInv, CommandPlaces, A
  <2>6. ASSUME NEW a \in A
        PROVE  EventsKept(link', station[a], buffers[a], a, HasAnswer(up'), got2(a), events[a])
    <3> DEFINE s == station[a]
               b == buffers[a]
               n == link'
               out == o.out
               got == Got(a)
               gotten == got2(a)
               c == events[a]
               done == o.done
    <3>1. got \subseteq gotten /\ (taken /\ f.addr = a => f.asdu \in gotten)
      BY <1>5, <2>3, <2>4
    <3>2. a = link.sent.addr /\ Delivers(f, done) => f.asdu \in gotten
      BY <2>2, <2>3, <3>1 DEF Delivers, taken
    <3>3. /\ Replied(A, link, f, m, done) /\ MovesOn(A, m, n, out) /\ s = station[a]
          /\ EventsKept(link, s, b, a, HasAnswer(up), got, c)
      BY <1>1, <1>6, <2>1
    <3> HIDE DEF s, b, n, out, got, gotten, c, done
    <3>4. EventsKept(n, s, b, a, HasAnswer(Tail(up)), gotten, c)
      BY <1>1, <1>2, <1>4, <1>7, <3>1, <3>2, <3>3, RepliedStays
    <3> QED
      BY <1>1, <3>4 DEF s, b, n, gotten, c
  <2> QED
    BY <1>1, <2>5, <2>6, AllKept DEF A, got2
<1>8. CASE IsPrim(f)
  <2>1. PICK a \in A : TRUE
    <3>1. link.order \in Seq(A) /\ link.order # <<>>
      BY <1>2 DEF IsLink, LinkRec
    <3>2. Head(link.order) \in A
      BY <3>1, HeadTail
    <3> QED
      BY <3>2
  <2>2. /\ f = station[a].sent /\ PeerAsks(f) /\ f.addr = a /\ k = TRUE
        /\ \A y \in A : y = a
    <3>1. f = station[a].sent /\ PeerAsks(f) /\ f.addr = a /\ k
      BY <1>1, <1>2, <1>8, <2>1, HeadPeer DEF f
    <3>2. k => \A y, x \in A : y = x
      BY <1>2 DEF LineInv
    <3> QED
      BY <1>2, <2>1, <3>1, <3>2
  <2>3. PeerServed(A, link, f, o)
    BY <1>2, <1>4, <2>1, <2>2, PeerPrimaryIs
  <2>4. PICK g : PeerAnswered(A, link, f, o.link, g)
    BY <2>3 DEF PeerServed
  <2>5. o.deliver <=> f.kind = "Variable" /\ f.control.fcb = link.fcbExpected
    BY <2>3 DEF PeerServed
  <2>6. CommandsKept'
    <3>1. link'.sent = link.sent
      BY <1>1, <2>4 DEF PeerAnswered
    <3> QED
      BY <1>1, <3>1, CommandsStay DEF KeptInv, CommandPlaces
  <2>7. HasAnswer(up') => HasAnswer(up)
    BY <1>1, <1>2, TailParts
  <2>8. EventsKept(link', station[a], buffers[a], a, HasAnswer(up'), got2(a), events[a])
    <3> DEFINE s == station[a]
               b == buffers[a]
               m == link'
               got == Got(a)
               gotten == got2(a)
               c == events[a]
               ans == HasAnswer(up)
               ans2 == HasAnswer(up')
    <3>1. taken => f.addr \in A /\ f.asdu \in Eventful
      BY <2>2 DEF PeerAsks, taken
    <3>2. got \subseteq gotten /\ (taken => f.asdu \in gotten)
      BY <1>5, <2>1, <2>2, <3>1
    <3>3. PeerBrings(link, f, gotten)
      BY <2>5, <3>2 DEF PeerBrings, taken
    <3>4. /\ PeerAnswered(A, link, f, m, g) /\ f = s.sent /\ EventsKept(link, s, b, a, ans, got, c)
          /\ (ans2 => ans)
      BY <1>1, <1>6, <2>1, <2>2, <2>4, <2>7
    <3> HIDE DEF s, b, m, got, gotten, c, ans, ans2
    <3>5. EventsKept(m, s, b, a, ans2, gotten, c)
      BY <2>1, <3>2, <3>3, <3>4, PeerStays
    <3> QED
      BY <3>5 DEF s, b, m, gotten, c, ans2
  <2> QED
    BY <1>1, <2>2, <2>6, <2>8, AllKept DEF A, got2
<1> QED
  BY <1>7, <1>8

\* A step of station a, which leaves it in state s with buffers b.
LEMMA StationKept ==
    ASSUME IInv, KeptInv, NEW a \in Station, NEW s, NEW b,
           station' = [station EXCEPT ![a] = s], buffers' = [buffers EXCEPT ![a] = b],
           UNCHANGED <<line, link, queue, received, commands, events>>, lost \subseteq lost',
           \A y \in Station : ToSet(acted[y]) \subseteq ToSet(acted'[y]),
           \A y \in Station : y # a => \/ HasAnswer(up') => HasAnswer(up)
                                       \/ SentTo(link, y) = NoFrame,
           NEW ans, ans = HasAnswer(up'), NEW got, got = Got(a)', NEW n, n = events[a],
           EventsKept(link, s, b, a, ans, got, n)
    PROVE  KeptInv'
<1>1. CommandsKept'
  BY CommandsStay DEF KeptInv, CommandPlaces, Acting
<1>2. ASSUME NEW y \in Station
      PROVE  EventsKept(link', station'[y], buffers'[y], y, HasAnswer(up'), Got(y)', events'[y])
  <2>1. CASE y = a
    <3>1. station'[a] = s /\ buffers'[a] = b
      BY DEF IInv
    <3> QED
      BY <2>1, <3>1
  <2>2. CASE y # a
    <3> DEFINE t == station[y]
               c == buffers[y]
               was == Got(y)
               is == Got(y)'
               h == HasAnswer(up)
               k == events[y]
    <3>1. station'[y] = t /\ buffers'[y] = c
      BY <2>2 DEF IInv
    <3>2. EventsKept(link, t, c, y, h, was, k) /\ was \subseteq is
      BY DEF KeptInv, Got
    <3>3. Follows(link, link, t, y, h, ans)
      BY <2>2 DEF Follows
    <3> HIDE DEF t, c, was, is, h, k
    <3>4. EventsKept(link, t, c, y, ans, is, k)
      BY <3>2, <3>3, EventsStay
    <3> QED
      BY <3>1, <3>4 DEF is, k
  <2> QED
    BY <2>1, <2>2
<1> QED
  BY <1>1, <1>2, AllKept

\* A station has answered the request f that is out to it: the answer it kept before
\* is the same again, or its event has arrived, or is given up as the link begins anew.
LEMMA ServedStays ==
    ASSUME NEW bal, NEW a, NEW l, NEW s, NEW b \in BufferRec, NEW f, f = SentTo(l, a), Asks(f),
           NEW o, Served(bal, a, s, b, f, o), NEW ans, NEW fcb,
           Bits(On(l, a), fcb, f, s.fcbExpected, ans),
           NEW got, NEW k, EventsKept(l, s, b, a, ans, got, k), NEW got2, got \subseteq got2,
           f.kind = "Fixed" /\ f.control.fun \in {REQ_STATUS, RESET_LINK}
               => Carried(s.lastResp) \subseteq got2,
           NEW ans2
    PROVE  EventsKept(l, o.station, o.buffers, a, ans2, got2, k)
<1> DEFINE t == o.station
           c == o.buffers
           resp == t.lastResp
           fun == f.control.fun
<1>1. /\ f # NoFrame /\ (f.control.fcv <=> fun \in Counted)
      /\ fun \in {RESET_LINK, REQ_STATUS, TEST_LINK, USER_DATA_CONF, REQ_DATA1, REQ_DATA2}
      /\ f.kind = "Variable" <=> fun = USER_DATA_CONF
      /\ f.kind # "Variable" => f.kind = "Fixed"
  BY Kinds DEF Asks
<1>2. /\ t.sent = s.sent /\ NextBit(f, s.fcbExpected, t.fcbExpected)
      /\ Old(f, s) => c = b /\ (resp = s.lastResp \/ (s.lastResp = NoFrame /\ resp.kind # "Variable"))
      /\ ~Old(f, s) => \/ c = b /\ resp.kind # "Variable"
                       \/ /\ fun \in {REQ_DATA1, REQ_DATA2}
                          /\ \E q \in {"class1", "class2"} :
                               /\ Shortened(b, q, c)
                               /\ resp.kind = "Variable" /\ resp.asdu = Head(b[q])
  BY DEF Served, Shortened
<1>3. /\ Taken(l, s, a) <=> Old(f, s)
      /\ Taken(l, t, a) <=> f.control.fcv
  BY <1>1, <1>2, TakenIs DEF Old, NextBit
<1>4. AnswerKept(l, s, a, ans, got) /\ RequestKept(l, s, got)
  BY DEF EventsKept
<1> HIDE DEF t, c, resp, fun
<1>5. Carried(s.lastResp) \subseteq Carried(resp) \cup got2
  <2>1. CASE Old(f, s)
    BY <1>2, <2>1 DEF Carried, NoFrame
  <2>2. CASE ~Old(f, s) /\ f.control.fcv
    <3>1. On(l, a) /\ ~Taken(l, s, a)
      BY <1>1, <1>3, <2>2 DEF Bits
    <3> QED
      BY <1>4, <3>1 DEF AnswerKept
  <2>3. CASE ~f.control.fcv
    <3>1. f.kind = "Fixed" /\ fun \in {REQ_STATUS, RESET_LINK}
      BY <1>1, <2>3, Codes
    <3> QED
      BY <3>1 DEF fun
  <2> QED
    BY <2>1, <2>2, <2>3
<1>6. Buffered(b) \subseteq Buffered(c) \cup Carried(resp)
  <2>1. ASSUME NEW q \in {"class1", "class2"}, Shortened(b, q, c), resp.kind = "Variable",
               resp.asdu = Head(b[q])
        PROVE  Buffered(b) \subseteq Buffered(c) \cup Carried(resp)
    <3>1. Buffered(b) \subseteq Buffered(c) \cup {Head(b[q])}
      BY <2>1, BufferedTaken
    <3> QED
      BY <2>1, <3>1 DEF Carried
  <2> QED
    BY <1>2, <2>1
<1>7. Held(t) = Carried(resp) \cup Carried(s.sent)
  BY <1>2 DEF Held, resp
<1>8. EventPlaces(s, b, got) \subseteq EventPlaces(t, c, got2)
  BY <1>5, <1>6, <1>7 DEF EventPlaces, Held
<1>9. AnswerKept(l, t, a, ans2, got2)
  <2> SUFFICES ASSUME NEW x \in Carried(resp)
               PROVE  /\ Taken(l, t, a) /\ fun \in {REQ_DATA1, REQ_DATA2}
                      /\ fun # RESET_LINK
    BY <1>1 DEF AnswerKept, resp, fun
  <2>1. resp.kind = "Variable"
    BY DEF Carried
  <2>2. CASE Old(f, s)
    <3>1. x \in Carried(s.lastResp) /\ Taken(l, s, a)
      BY <1>2, <1>3, <2>1, <2>2
    <3>2. fun \in {REQ_DATA1, REQ_DATA2}
      BY <1>4, <3>1 DEF AnswerKept, fun
    <3> QED
      BY <1>3, <2>2, <3>2, Codes DEF Old
  <2>3. CASE ~Old(f, s)
    <3>1. fun \in {REQ_DATA1, REQ_DATA2}
      BY <1>2, <2>1, <2>3
    <3> QED
      BY <1>1, <1>3, <3>1, Codes
  <2> QED
    BY <2>2, <2>3
<1>10. RequestKept(l, t, got2)
  BY <1>2, <1>4 DEF RequestKept
<1> QED
  BY <1>8, <1>9, <1>10 DEF EventsKept, t, c

\* The request of a station is over, and its event has arrived or is given up.
LEMMA OverStays ==
    ASSUME NEW l, NEW a, NEW s, NEW t, t.fcbExpected = s.fcbExpected, t.lastResp = s.lastResp,
           t.sent = s.sent \/ t.sent = NoFrame, NEW b, NEW k, NEW ans, NEW got,
           EventsKept(l, s, b, a, ans, got, k), NEW got2, got \subseteq got2,
           t.sent = NoFrame => Carried(s.sent) \subseteq got2, NEW ans2, ans2 => ans
    PROVE  EventsKept(l, t, b, a, ans2, got2, k)
<1>1. Taken(l, t, a) <=> Taken(l, s, a)
  BY DEF Taken
<1>2. AnswerKept(l, t, a, ans2, got2)
  BY <1>1 DEF EventsKept, AnswerKept
<1>3. RequestKept(l, t, got2)
  BY DEF EventsKept, RequestKept, Carried, NoFrame
<1>4. EventPlaces(s, b, got) \subseteq EventPlaces(t, b, got2)
  BY DEF EventPlaces, Held
<1> QED
  BY <1>2, <1>3, <1>4 DEF EventsKept

\* A station asks, with the next event or without.
LEMMA AsksStays ==
    ASSUME NEW bal, NEW a, NEW l, NEW s, s.sent = NoFrame, NEW b \in BufferRec, NEW o,
           StationAsks(bal, a, s, b, o), NEW h, Bits(s.active, s.fcb, s.sent, l.fcbExpected, h),
           NEW ans, NEW got, NEW k, EventsKept(l, s, b, a, ans, got, k), NEW ans2, ans2 => ans
    PROVE  EventsKept(l, o.station, o.buffers, a, ans2, got, k)
<1> DEFINE t == o.station
           c == o.buffers
           f == t.sent
<1>1. /\ t.fcbExpected = s.fcbExpected /\ t.lastResp = s.lastResp
      /\ f.control.fcv => s.active /\ f.control.fcb = s.fcb
      /\ \/ f.kind # "Variable" /\ c = b
         \/ f.kind = "Variable" /\ f.asdu = Head(b["prim"]) /\ Shortened(b, "prim", c)
      /\ f.kind = "Variable" => f.control.fcv
  BY Codes DEF StationAsks, PeerAsks, Asks, Shortened
<1> HIDE DEF t, c, f
<1>2. AnswerKept(l, t, a, ans2, got)
  <2>1. Taken(l, t, a) <=> Taken(l, s, a)
    BY <1>1 DEF Taken
  <2> QED
    BY <1>1, <2>1 DEF EventsKept, AnswerKept
<1>3. RequestKept(l, t, got)
  BY <1>1 DEF RequestKept, Carried, Bits, f
<1>4. Buffered(b) \subseteq Buffered(c) \cup Carried(f)
  <2> DEFINE q == "prim"
  <2>1. CASE c = b
    BY <2>1
  <2>2. CASE f.kind = "Variable" /\ f.asdu = Head(b[q]) /\ Shortened(b, q, c)
    <3>1. q \in {"class1", "class2", "prim"}
      OBVIOUS
    <3> HIDE DEF q
    <3>2. Buffered(b) \subseteq Buffered(c) \cup {Head(b[q])}
      BY <2>2, <3>1, BufferedTaken
    <3> QED
      BY <2>2, <3>2 DEF Carried
  <2> QED
    BY <1>1, <2>1, <2>2
<1>5. EventPlaces(s, b, got) \subseteq EventPlaces(t, c, got)
  BY <1>1, <1>4 DEF EventPlaces, Held, Carried, NoFrame, f
<1> QED
  BY <1>2, <1>3, <1>5 DEF EventsKept, t, c

\* handle_frame of a station
LEMMA StationReceivesKept ==
    ASSUME IInv, KeptInv, NEW a \in Station, StationReceives(a) PROVE KeptInv'
<1> DEFINE k == line.balanced
           f == Head(down)
           s == station[a]
           b == buffers[a]
           o == S!HandleFrame(s, b, a, f, k)
           x == o.asdu
           t == o.station
           c == o.buffers
           h == HasAnswer(up)
           ans == HasAnswer(up')
           got == Got(a)
           got2 == Got(a)'
           n == events[a]
           gone == Discards(a, f)
<1>1. /\ down # <<>> /\ (f.kind # "SingleCharAck" => f.addr = a)
      /\ station' = [station EXCEPT ![a] = t] /\ buffers' = [buffers EXCEPT ![a] = c]
      /\ up' = up \o o.out /\ ActedOn(acted, a, x, acted') /\ lost' = lost \cup gone
      /\ UNCHANGED <<line, link, queue, received, commands, events>>
  BY DEF StationReceives, StationSends, ActedOn
<1>2. /\ LineInv(Station, k, link, station, down, up, acted) /\ Station \subseteq Nat
      /\ IsLink(Station, link) /\ acted \in [Station -> Seq(Command)] /\ down \in Seq(Frame)
      /\ up \in Seq(Frame) /\ a \in Nat /\ a # Broadcast /\ NoAsdu \notin Command
      /\ k \in BOOLEAN /\ IsStation(k, a, s) /\ b \in BufferRec
  BY LineIs, StationTypes DEF IInv, LineInv
<1>3. f = down[1] /\ 1 \in 1 .. Len(down) /\ f \in Frame
  BY <1>1, <1>2, HeadTail
<1>4. /\ o = S!HandleFrame(s, b, a, f, k) /\ t = o.station /\ c = o.buffers /\ x = o.asdu
      /\ ans = HasAnswer(up') /\ got2 = Got(a)' /\ n = events[a]
  OBVIOUS
<1>5. /\ EventsKept(link, s, b, a, h, got, n) /\ got \subseteq got2 /\ lost \subseteq lost'
      /\ gone \subseteq got2
  BY <1>1 DEF KeptInv, Got
<1>6. ASSUME x = NoAsdu \/ x \in Command, EventsKept(link, t, c, a, ans, got2, n),
             (ans => h) \/ (SentTo(link, a) # NoFrame)
      PROVE  KeptInv'
  <2>1. \A y \in Station : ToSet(acted[y]) \subseteq ToSet(acted'[y])
    <3> HIDE DEF x
    <3>1. ActsGrow(Station, acted, a, x, acted')
      BY <1>1, <1>2, <1>6, ActedMore
    <3> QED
      BY <3>1 DEF ActsGrow
  <2>2. \A y \in Station : y # a => \/ HasAnswer(up') => HasAnswer(up)
                                    \/ SentTo(link, y) = NoFrame
    BY <1>6 DEF SentTo
  <2> HIDE DEF t, c, ans, got2, n, o, f, x, k
  <2> QED
    BY <1>1, <1>4, <1>5, <1>6, <2>1, <2>2, StationKept
<1> HIDE DEF k, s, b, o, x, t, c, ans, h, got, got2, n
<1>7. CASE IsPrim(f)
  <2>1. f = link.sent /\ Asks(f)
    BY <1>1, <1>2, <1>7, HeadAsks DEF f
  <2>2. f.addr = a /\ f # NoFrame
    BY <1>1, <2>1, Kinds DEF Asks, IsPrim, NoFrame
  <2>3. f.kind = "Variable" => f.asdu \in Command
    BY <1>2, <2>1, <2>2 DEF IsLink
  <2>4. f.kind = "Fixed" /\ f.control.fun \in {REQ_STATUS, RESET_LINK}
            => Carried(s.lastResp) \subseteq got2
    BY <1>5, <1>7 DEF gone, Discards, IsPrim, s
  <2> HIDE DEF f
  <2>5. f = SentTo(link, a)
    BY <2>1, <2>2 DEF SentTo
  <2>6. Served(k, a, s, b, f, o)
    BY <1>2, <1>4, <2>1, <2>2, RequestIs
  <2>7. x = NoAsdu \/ x \in Command
    BY <1>4, <2>3, <2>6 DEF Served
  <2> DEFINE fcb == link.secs[a].fcb
  <2>8. Bits(On(link, a), fcb, f, s.fcbExpected, h)
    BY <1>2, <2>5 DEF LineInv, s, h
  <2> HIDE DEF fcb
  <2>9. EventsKept(link, o.station, o.buffers, a, ans, got2, n)
    BY <1>2, <1>5, <2>1, <2>4, <2>5, <2>6, <2>8, ServedStays
  <2> QED
    BY <1>4, <1>6, <2>2, <2>5, <2>7, <2>9
<1>8. CASE ~IsPrim(f)
  <2>1. Affirms(f)
    BY <1>2, <1>3, <1>8 DEF LineInv
  <2>2. s.sent # NoFrame /\ HasAnswer(down)
    <3>1. Exchange(s.sent, up, down)
      BY <1>2 DEF LineInv, s
    <3> QED
      BY <1>1, <1>2, <1>8, <3>1, BackTaken DEF f
  <2>3. k = TRUE
    BY <1>2, <2>2 DEF IsStation
  <2> HIDE DEF f
  <2>4. AnswerHeard(k, a, s, b, o)
    BY <1>2, <1>4, <2>1, <2>3, AnswerAtStationIs
  <2>5. /\ t = s \/ StationConfirmed(k, a, s, t)
        /\ c = b /\ x = NoAsdu /\ o.out = <<>>
    BY <1>4, <2>4 DEF AnswerHeard
  <2>6. ans => h
    BY <1>1, <1>2, <2>5 DEF ans, h
  <2>7. Carried(s.sent) \subseteq got
    <3> SUFFICES ASSUME NEW y \in Carried(s.sent)
                 PROVE  y \in got
      OBVIOUS
    <3>1. s.sent.kind = "Variable" /\ Asks(s.sent)
      BY <1>2, <2>2 DEF Carried, IsStation
    <3>2. s.sent.control.fcv
      BY <3>1, Codes DEF Asks
    <3>3. Bits(s.active, s.fcb, s.sent, link.fcbExpected, HasAnswer(down))
      BY <1>2 DEF LineInv, s
    <3>4. link.fcbExpected # s.sent.control.fcb
      BY <2>2, <3>2, <3>3 DEF Bits
    <3> QED
      BY <1>5, <3>4 DEF EventsKept, RequestKept
  <2>8. /\ t.fcbExpected = s.fcbExpected /\ t.lastResp = s.lastResp
        /\ t.sent = s.sent \/ t.sent = NoFrame
        /\ t.sent = NoFrame => Carried(s.sent) \subseteq got2
    BY <1>5, <2>5, <2>7 DEF StationConfirmed, StationOver
  <2>9. EventsKept(link, t, b, a, ans, got2, n)
    BY <1>5, <2>6, <2>8, OverStays
  <2> QED
    BY <1>6, <2>5, <2>6, <2>9
<1> QED
  BY <1>7, <1>8

\* prim_tick
LEMMA StationTickKept ==
    ASSUME IInv, KeptInv, NEW a \in Station, StationTick(a) PROVE KeptInv'
<1> DEFINE k == line.balanced
           s == station[a]
           b == buffers[a]
           o == S!PrimTick(s, b, a)
           t == o.station
           c == o.buffers
           h == HasAnswer(up)
           ans == HasAnswer(up')
           got == Got(a)'
           n == events[a]
<1>1. /\ k /\ s.sent = NoFrame /\ up' = up \o o.out
      /\ station' = [station EXCEPT ![a] = t] /\ buffers' = [buffers EXCEPT ![a] = c]
      /\ UNCHANGED <<line, link, queue, acted, received, commands, events, lost>>
  BY DEF StationTick, StationSends, history
<1>2. /\ LineInv(Station, k, link, station, down, up, acted)
      /\ k \in BOOLEAN /\ IsStation(k, a, s) /\ b \in BufferRec /\ a \in Nat /\ up \in Seq(Frame)
  BY LineIs, StationTypes DEF IInv, LineInv
<1>3. EventsKept(link, s, b, a, h, got, n)
  BY <1>1 DEF KeptInv, Got
<1>4. Bits(s.active, s.fcb, s.sent, link.fcbExpected, HasAnswer(down))
  BY <1>2 DEF LineInv
<1>5. k = TRUE
  BY <1>1, <1>2
<1>6. ans = HasAnswer(up') /\ got = Got(a)' /\ n = events[a] /\ t = o.station /\ c = o.buffers
  OBVIOUS
<1> HIDE DEF k, s, b, n, got
<1>7. \/ o.station = s /\ o.out = <<>> /\ o.buffers = b
      \/ StationAsks(k, a, s, b, o)
  BY <1>1, <1>2, <1>5, PrimTickIs
<1> HIDE DEF o
<1>8. ans => h
  <2>1. CASE o.out = <<>>
    BY <1>1, <1>2, <2>1
  <2>2. CASE StationAsks(k, a, s, b, o)
    <3> DEFINE f == o.station.sent
    <3>1. o.out = <<f>> /\ f \in Frame /\ IsPrim(f)
      BY <2>2 DEF StationAsks, PeerAsks, Asks
    <3> HIDE DEF f
    <3>2. HasAnswer(up \o <<f>>) <=> HasAnswer(up) \/ ~IsPrim(f)
      BY <1>2, <3>1, JoinParts
    <3> QED
      BY <1>1, <3>1, <3>2
  <2> QED
    BY <1>7, <2>1, <2>2
<1> HIDE DEF ans, h, t, c
<1>9. EventsKept(link, t, c, a, ans, got, n)
  <2>1. CASE o.station = s /\ o.out = <<>> /\ o.buffers = b
    <3>1. t.sent = NoFrame => Carried(s.sent) \subseteq got
      BY <1>1 DEF Carried, NoFrame
    <3>2. t = s /\ c = b
      BY <1>6, <2>1
    <3>3. EventsKept(link, s, b, a, ans, got, n)
      BY <1>3, <1>8, <3>1, <3>2, OverStays
    <3> QED
      BY <3>2, <3>3
  <2>2. CASE StationAsks(k, a, s, b, o)
    <3>1. EventsKept(link, o.station, o.buffers, a, ans, got, n)
      BY <1>1, <1>2, <1>3, <1>4, <1>8, <2>2, AsksStays
    <3> QED
      BY <1>6, <3>1
  <2> QED
    BY <1>7, <2>1, <2>2
<1> QED
  BY <1>1, <1>6, <1>8, <1>9, StationKept DEF h

\* prim_tick after the deadline of the frame outstanding: the event in it is given up
\* with it.
LEMMA StationTimeoutKept ==
    ASSUME IInv, KeptInv, NEW a \in Station, StationTimeout(a) PROVE KeptInv'
<1> DEFINE k == line.balanced
           s == station[a]
           b == buffers[a]
           o == S!PrimTimeout(s, b)
           t == o.station
           h == HasAnswer(up)
           ans == HasAnswer(up')
           got == Got(a)
           got2 == Got(a)'
           n == events[a]
           e == S!PrimExhausted(s)
<1>1. /\ s.sent # NoFrame /\ up' = up \o o.out
      /\ station' = [station EXCEPT ![a] = t] /\ buffers' = [buffers EXCEPT ![a] = o.buffers]
      /\ lost' = lost \cup IF e THEN Carried(s.sent) ELSE {}
      /\ UNCHANGED <<line, link, queue, acted, received, commands, events>>
  BY DEF StationTimeout, StationSends
<1>2. k \in BOOLEAN /\ IsStation(k, a, s) /\ up \in Seq(Frame)
  BY LineIs, StationTypes DEF IInv, LineInv
<1>3. EventsKept(link, s, b, a, h, got, n) /\ got \subseteq got2 /\ (e => Carried(s.sent) \subseteq got2)
  BY <1>1 DEF KeptInv, Got
<1>4. ans = HasAnswer(up') /\ got2 = Got(a)' /\ n = events[a]
  OBVIOUS
<1> HIDE DEF k, s, b, got, got2, n
<1>5. StationTimesOut(k, a, s, b, e, o)
  BY <1>1, <1>2, PrimTimeoutIs
<1> HIDE DEF o, e
<1>6. /\ o.buffers = b
      /\ o.out = <<>> \/ o.out = <<s.sent>>
      /\ t.fcbExpected = s.fcbExpected /\ t.lastResp = s.lastResp
      /\ t.sent = s.sent \/ t.sent = NoFrame
      /\ (t.sent = NoFrame => Carried(s.sent) \subseteq got2)
  BY <1>1, <1>3, <1>5 DEF StationTimesOut, StationGivenUp, StationOver
<1>7. ans => h
  <2>1. CASE o.out = <<>>
    BY <1>1, <1>2, <2>1
  <2>2. CASE o.out = <<s.sent>>
    <3> DEFINE f == s.sent
    <3>1. f \in Frame /\ IsPrim(f)
      BY <1>1, <1>2 DEF IsStation, Asks
    <3> HIDE DEF f
    <3>2. HasAnswer(up \o <<f>>) <=> HasAnswer(up) \/ ~IsPrim(f)
      BY <1>2, <3>1, JoinParts
    <3> QED
      BY <1>1, <2>2, <3>1, <3>2 DEF f
  <2> QED
    BY <1>6, <2>1, <2>2
<1> HIDE DEF ans, h, t
<1>8. EventsKept(link, t, b, a, ans, got2, n)
  BY <1>3, <1>6, <1>7, OverStays
<1> QED
  BY <1>1, <1>4, <1>6, <1>7, <1>8, StationKept DEF h

-----------------------------------------------------------------------------
(***************************************************************************)
(* The theorems.  They are about a line where no answer comes after the    *)
(* deadline of its request, and a balanced station starts anew when its    *)
(* line does: without the one or the other they do not hold, as the        *)
(* findings show.                                                          *)
(***************************************************************************)

\* Every step keeps the invariant.
LEMMA NextIInv ==
    ASSUME ~Late, BalancedRestarts
    PROVE  IInv /\ [Next]_vars => IInv'
<1> SUFFICES ASSUME IInv, [Next]_vars PROVE IInv'
  OBVIOUS
<1>1. CASE UNCHANGED vars
  BY <1>1, Untouched DEF vars
<1>2. CASE SendToPushes
  BY <1>2, SendToPushesKeeps
<1>3. CASE ClientTick
  BY <1>3, ClientTickKeeps
<1>4. CASE ClientReceives
  BY <1>4, ClientReceivesKeeps
<1>5. CASE ClientTimeout
  BY <1>5, ClientTimeoutKeeps
<1>6. CASE Reopen
  BY <1>6, ReopenKeeps
<1>7. ASSUME NEW a \in Station, StationReceives(a)
      PROVE  IInv'
  BY <1>7, StationReceivesKeeps
<1>8. ASSUME NEW a \in Station, StationTick(a)
      PROVE  IInv'
  BY <1>8, StationTickKeeps
<1>9. ASSUME NEW a \in Station, StationTimeout(a)
      PROVE  IInv'
  BY <1>9, StationTimeoutKeeps
<1>10. ASSUME NEW a \in Station, SendTo(a)
       PROVE  IInv'
  BY <1>10, SendToKeeps
<1>11. ASSUME NEW a \in Station, NEW cyclic \in BOOLEAN, Raise(a, cyclic)
       PROVE  IInv'
  <2> DEFINE x == cyclic
  <2>1. x \in BOOLEAN /\ Raise(a, x)
    BY <1>11
  <2> HIDE DEF x
  <2> QED
    BY <2>1, RaiseKeeps
<1>12. CASE ClientTest
  BY <1>12, ClientTestKeeps
<1>13. ASSUME NEW fun, Manual(fun)
       PROVE  IInv'
  BY <1>13, ManualKeeps
<1>14. CASE Lose
  BY <1>14, LoseKeeps
<1> QED
  BY <1>1, <1>2, <1>3, <1>4, <1>5, <1>6, <1>7, <1>8, <1>9, <1>10, <1>11, <1>12, <1>13, <1>14
  DEF Next, Protocol

\* And every step keeps the order of commands and events.
LEMMA NextOrder ==
    ASSUME BalancedRestarts
    PROVE  IInv /\ OrderInv /\ [Next]_vars => OrderInv'
<1> SUFFICES ASSUME IInv, OrderInv, [Next]_vars PROVE OrderInv'
  OBVIOUS
<1>1. CASE UNCHANGED vars
  BY <1>1, SameOrder DEF vars, ends, history
<1>2. CASE SendToPushes
  BY <1>2, SendToPushesOrder
<1>3. CASE ClientTick
  BY <1>3, ClientTickOrder
<1>4. CASE ClientReceives
  BY <1>4, ClientReceivesOrder
<1>5. CASE ClientTimeout
  BY <1>5, ClientTimeoutOrder
<1>6. CASE Reopen
  BY <1>6, ReopenOrder
<1>7. ASSUME NEW a \in Station, StationReceives(a)
      PROVE  OrderInv'
  BY <1>7, StationReceivesOrder
<1>8. ASSUME NEW a \in Station, StationTick(a)
      PROVE  OrderInv'
  BY <1>8, StationTickOrder
<1>9. ASSUME NEW a \in Station, StationTimeout(a)
      PROVE  OrderInv'
  BY <1>9, StationTimeoutOrder
<1>10. ASSUME NEW a \in Station, SendTo(a)
       PROVE  OrderInv'
  BY <1>10, SameOrder DEF SendTo, ends, history
<1>11. ASSUME NEW a \in Station, NEW cyclic \in BOOLEAN, Raise(a, cyclic)
       PROVE  OrderInv'
  <2> DEFINE x == cyclic
  <2>1. x \in BOOLEAN /\ Raise(a, x)
    BY <1>11
  <2> HIDE DEF x
  <2> QED
    BY <2>1, RaiseOrder
<1>12. CASE ClientTest
  BY <1>12, ClientTestOrder
<1>13. ASSUME NEW fun, Manual(fun)
       PROVE  OrderInv'
  BY <1>13, ManualOrder
<1>14. CASE Lose
  BY <1>14, SameOrder DEF Lose, ends, history
<1> QED
  BY <1>1, <1>2, <1>3, <1>4, <1>5, <1>6, <1>7, <1>8, <1>9, <1>10, <1>11, <1>12, <1>13, <1>14
  DEF Next, Protocol

\* And every step leaves each command and event in some place.
LEMMA NextKept ==
    ASSUME BalancedRestarts
    PROVE  IInv /\ KeptInv /\ [Next]_vars => KeptInv'
<1> SUFFICES ASSUME IInv, KeptInv, [Next]_vars PROVE KeptInv'
  OBVIOUS
<1>1. CASE UNCHANGED vars
  BY <1>1, SameKept DEF vars, ends, history
<1>2. CASE SendToPushes
  BY <1>2, SendToPushesKept
<1>3. CASE ClientTick
  BY <1>3, ClientTickKept
<1>4. CASE ClientReceives
  BY <1>4, ClientReceivesKept
<1>5. CASE ClientTimeout
  BY <1>5, ClientTimeoutKept
<1>6. CASE Reopen
  BY <1>6, ReopenKept
<1>7. ASSUME NEW a \in Station, StationReceives(a)
      PROVE  KeptInv'
  BY <1>7, StationReceivesKept
<1>8. ASSUME NEW a \in Station, StationTick(a)
      PROVE  KeptInv'
  BY <1>8, StationTickKept
<1>9. ASSUME NEW a \in Station, StationTimeout(a)
      PROVE  KeptInv'
  BY <1>9, StationTimeoutKept
<1>10. ASSUME NEW a \in Station, SendTo(a)
       PROVE  KeptInv'
  BY <1>10, SameKept DEF SendTo, ends, history
<1>11. ASSUME NEW a \in Station, NEW cyclic \in BOOLEAN, Raise(a, cyclic)
       PROVE  KeptInv'
  <2> DEFINE x == cyclic
  <2>1. x \in BOOLEAN /\ Raise(a, x)
    BY <1>11
  <2> HIDE DEF x
  <2> QED
    BY <2>1, RaiseKept
<1>12. CASE ClientTest
  BY <1>12, ClientTestKept
<1>13. ASSUME NEW fun, Manual(fun)
       PROVE  KeptInv'
  BY <1>13, ManualKept
<1>14. CASE Lose
  BY <1>14, LoseKept
<1> QED
  BY <1>1, <1>2, <1>3, <1>4, <1>5, <1>6, <1>7, <1>8, <1>9, <1>10, <1>11, <1>12, <1>13, <1>14
  DEF Next, Protocol

\* The invariant holds throughout.
THEOREM Invariance ==
    ASSUME ~Late, BalancedRestarts
    PROVE  Spec => []IInv
<1>1. IInv /\ [Next]_vars => IInv'
  BY NextIInv
<1> QED
  BY <1>1, InitIInv, PTL DEF Spec

\* Between two ends that hold their link active and have nothing outstanding, the
\* one counts its next frame with the bit the other expects (the frame count bit,
\* client.rs:988, server.rs:650), however many frames are lost and repeated.
THEOREM CountsAgree ==
    ASSUME ~Late, BalancedRestarts
    PROVE  Spec => []FcbInStep
<1>1. IInv => FcbInStep
  <2> SUFFICES ASSUME IInv, NEW a \in Station
               PROVE  /\ P!IsActive(link, a) /\ (P!Idle(link) \/ link.sent.addr # a)
                            => link.secs[a].fcb = station[a].fcbExpected
                      /\ station[a].active /\ station[a].sent = NoFrame
                            => station[a].fcb = link.fcbExpected
    BY DEF FcbInStep
  <2>1. /\ Bits(On(link, a), link.secs[a].fcb, SentTo(link, a), station[a].fcbExpected,
                HasAnswer(up))
        /\ Bits(station[a].active, station[a].fcb, station[a].sent, link.fcbExpected,
                HasAnswer(down))
    BY DEF IInv, LineInv
  <2>2. P!Idle(link) \/ link.sent.addr # a => SentTo(link, a) = NoFrame
    BY PNames DEF P!Idle, SentTo
  <2> QED
    BY <2>1, <2>2 DEF Bits, On, P!IsActive
<1> QED
  BY <1>1, Invariance, PTL

\* A command confirmed to the primary has been handed to a station's application
\* (confirm_positive, client.rs:790): no confirmation is taken for that of another
\* frame or of another station.
THEOREM NothingConfirmedUnheard ==
    ASSUME ~Late, BalancedRestarts
    PROVE  Spec => []ConfirmedIsActed
<1>1. IInv => ConfirmedIsActed
  BY DEF IInv
<1> QED
  BY <1>1, Invariance, PTL

\* A station acts on the commands in the order they were handed over and on none
\* twice, and the primary receives each class of its events in the order they were
\* raised and none twice: a frame repeated after a lost answer is told from a new
\* one (the comparison of frame count bits, server.rs:650, client.rs:988), and the
\* answer to it is not taken twice.
THEOREM OnceInOrder ==
    ASSUME ~Late, BalancedRestarts
    PROVE  Spec => []AtMostOnce
<1>1. IInv /\ OrderInv => AtMostOnce
  <2> SUFFICES ASSUME IInv, OrderInv, NEW a \in Station
               PROVE  /\ \A i, j \in DOMAIN acted[a] : i < j => acted[a][i].cmd < acted[a][j].cmd
                      /\ \A i, j \in DOMAIN received[a] :
                             i < j /\ received[a][i].cyclic = received[a][j].cyclic
                                => received[a][i].event < received[a][j].event
    BY DEF AtMostOnce
  <2> DEFINE act == acted[a]
             rec == received[a]
  <2>1. DOMAIN act = 1 .. Len(act) /\ DOMAIN rec = 1 .. Len(rec)
    BY StationTypes
  <2>2. Ordered(line.balanced, a, link, station[a], buffers[a], queue, act, rec, commands,
                events[a])
    BY DEF OrderInv
  <2> HIDE DEF act, rec
  <2>3. \A i, j \in DOMAIN act : i < j => act[i].cmd < act[j].cmd
    BY <2>1, <2>2 DEF Ordered, CommandOrder
  <2>4. \A i, j \in DOMAIN rec : i < j /\ rec[i].cyclic = rec[j].cyclic
                                   => rec[i].event < rec[j].event
    BY <2>1, <2>2 DEF Ordered, EventOrder, InOrder, Before
  <2> QED
    BY <2>3, <2>4 DEF act, rec
<1>2. IInv /\ OrderInv /\ [Next]_vars => OrderInv'
  BY NextOrder
<1> QED
  BY <1>1, <1>2, InitOrder, Invariance, PTL DEF Spec
\* Every command accepted by send_to is queued, out or acted on, and every event
\* accepted by send is buffered, held for repetition or received, unless a rule of
\* the protocol gave it up: the queue gives a command up only to the frame that
\* carries it (try_send_queued, client.rs:1071), and a station replaces the event in
\* the response it keeps only once a request shows that it has arrived (server.rs:650).
THEOREM NothingForgotten ==
    ASSUME ~Late, BalancedRestarts
    PROVE  Spec => []NothingLost
<1>1. IInv /\ KeptInv => NothingLost
  <2> SUFFICES ASSUME IInv, KeptInv PROVE NothingLost
    OBVIOUS
  <2>1. ASSUME NEW n \in 1 .. commands
        PROVE  \/ Cmd(n) \in lost \cup Carried(link.sent)
               \/ \E i \in DOMAIN queue : queue[i].asdu = Cmd(n)
               \/ \E a \in Station : Cmd(n) \in ToSet(acted[a])
    <3> DEFINE x == Cmd(n)
    <3>1. x \in CommandPlaces(Station, lost, link, queue, acted)
      BY DEF KeptInv, CommandsKept
    <3>2. DOMAIN queue = 1 .. Len(queue)
      BY DEF IInv
    <3> HIDE DEF x
    <3>3. \/ x \in lost \cup Carried(link.sent)
          \/ \E i \in DOMAIN queue : queue[i].asdu = x
          \/ \E a \in Station : x \in ToSet(acted[a])
      BY <3>1, <3>2 DEF CommandPlaces, Waiting, Acting
    <3> QED
      BY <3>3 DEF x
  <2>2. ASSUME NEW a \in Station, NEW n \in 1 .. events[a]
        PROVE  \E c \in BOOLEAN :
                 \/ Event(a, n, c) \in lost \cup Held(station[a]) \cup ToSet(received[a])
                 \/ \E q \in {"class1", "class2", "prim"} :
                        Event(a, n, c) \in ToSet(buffers[a][q])
    <3>1. PICK c \in BOOLEAN : Event(a, n, c) \in EventPlaces(station[a], buffers[a], Got(a))
      BY DEF KeptInv, EventsKept
    <3> DEFINE x == Event(a, n, c)
               b == buffers[a]
    <3>2. x \in EventPlaces(station[a], b, Got(a))
      BY <3>1
    <3> HIDE DEF x, b
    <3>3. \/ x \in lost \cup Held(station[a]) \cup ToSet(received[a])
          \/ \E q \in {"class1", "class2", "prim"} : x \in ToSet(b[q])
      BY <3>2 DEF EventPlaces, Got, Buffered
    <3> QED
      BY <3>3 DEF x, b
  <2> QED
    BY <2>1, <2>2 DEF NothingLost
<1>2. IInv /\ KeptInv /\ [Next]_vars => KeptInv'
  BY NextKept
<1> QED
  BY <1>1, <1>2, InitKept, Invariance, PTL DEF Spec
==============================================================================
