---------------------------- MODULE Line103Proofs ----------------------------
(***************************************************************************)
(* Proofs about Line103: what the frame count bit achieves between the     *)
(* client and the devices on a line that loses frames, for every number of *)
(* devices, commands, losses, repetitions and requests, and every order of *)
(* polling.                                                                *)
(***************************************************************************)
EXTENDS Line103, WellFoundedInduction, TLAPS

-----------------------------------------------------------------------------
(***************************************************************************)
(* What is sent.  A request of the client is answered by one frame of the  *)
(* device it is for.                                                       *)
(***************************************************************************)
Requests == {TimeSync, Interrogation} \cup [type : {"GENERAL_COMMAND"}, rii : Nat]
Reports  == [type : {"IDENTIFICATION", "TIME_SYNC", "TIME_TAGGED", "GI_TERMINATION"}, n : Nat]

\* The messages of class 1 that frame f carries.
Reported(f) == {m \in Carried(f) : "n" \in DOMAIN m}

CountedServices == {REQ_DATA1, REQ_DATA2}
PlainServices   == P!Resets \cup {REQ_STATUS}

\* The requests to the devices of A, and how they are counted.
Ask(A) == [kind : {"Fixed"}, control : ControlField, addr : A]
          \cup [kind : {"Variable"}, control : ControlField, addr : A, asdu : Requests]

Asks(A, f) ==
    /\ f \in Ask(A) /\ f.control.prm
    /\ f.control.fun \in PlainServices \cup CountedServices \cup {USER_DATA_CONF}
    /\ f.kind = "Variable" <=> f.control.fun = USER_DATA_CONF
    /\ f.control.fcv <=> f.control.fun \notin PlainServices

\* The answers of device a, none of which refuses anything.
Answer(a) == [kind : {"Fixed"}, control : ControlField, addr : {a}]
             \cup [kind : {"Variable"}, control : ControlField, addr : {a},
                   asdu : Reports \cup {Measurands}]

Answers(a, f) ==
    /\ f \in Answer(a) /\ ~f.control.prm
    /\ f.kind = "Fixed" => f.control.fun \in {CONF_ACK, RESP_STATUS, RESP_NO_DATA}
    /\ f.kind = "Variable" => f.control.fun = RESP_DATA

-----------------------------------------------------------------------------
(***************************************************************************)
(* The invariant.                                                          *)
(***************************************************************************)
Dev == [phase : {"Status", "Reset", "Active"}, fcb : BOOLEAN,
        wantClass1 : BOOLEAN, busy : BOOLEAN]
LinkRec(A) == [devs : [A -> Dev], order : Seq(A) \ {<<>>}, idx : Nat,
               sent : Ask(A) \cup {NoFrame}, retry : Nat]

IsLink(A, l) ==
    /\ l \in LinkRec(A) /\ l.idx \in 1 .. Len(l.order)
    /\ l.sent # NoFrame => Asks(A, l.sent)

On(l, a) == l.devs[a].phase = "Active"

\* What is out to device a.
Out(l, a) == IF l.sent # NoFrame /\ l.sent.addr = a THEN l.sent ELSE NoFrame

\* The answers of every device, and no answer.
Keeps == (UNION {Answer(a) : a \in Nat}) \cup {NoFrame}

DeviceRec == [fcbExpected : BOOLEAN, lastResp : Keeps, class1 : Seq(Reports), count : Nat]
IsDevice(a, d) == d \in DeviceRec /\ (d.lastResp # NoFrame => Answers(a, d.lastResp))

Item(A) == [addr : A, asdu : Requests]

\* One request is out at most, and it is on its way there, answered on the way
\* back, or lost.
Exchange(sent, there, back, dev) ==
    /\ there = <<>> \/ (sent # NoFrame /\ there = <<sent>> /\ back = <<>>)
    /\ back = <<>> \/ (sent # NoFrame /\ dev[sent.addr].lastResp # NoFrame
                       /\ back = <<dev[sent.addr].lastResp>>)

\* The device has taken the request that is out to it, as far as its count shows.
Taken(out, d) == out # NoFrame /\ out.control.fcv /\ d.fcbExpected # out.control.fcb

\* on, fcb: what the client holds of the device; answered: an answer is on its way.
Bits(on, fcb, out, d, answered) ==
    /\ out # NoFrame /\ out.control.fcv
          => on /\ out.control.fcb = fcb /\ (answered => Taken(out, d))
    /\ out # NoFrame /\ out.control.fun \in P!Resets
          => ~on /\ (answered => d.fcbExpected = TRUE)
    /\ on /\ ~(out # NoFrame /\ out.control.fcv) => fcb = d.fcbExpected

\* What the device keeps for repetition: the answer to what it has taken, and
\* otherwise nothing that the client has not got.
Kept(on, out, d, answered, act, rec, gone) ==
    /\ Taken(out, d) => /\ d.lastResp # NoFrame
                        /\ d.lastResp.kind = "Variable" => out.control.fun \in P!Polls
                        /\ Carried(out) \subseteq ToSet(act)
    /\ out # NoFrame /\ ~out.control.fcv /\ answered => d.lastResp.kind = "Fixed"
    /\ on /\ ~Taken(out, d) => Reported(d.lastResp) \subseteq ToSet(rec) \cup gone

\* The messages of the device are in order: those received, the one that is under
\* way, and those it still has.
Ordered(out, d, rec) ==
    /\ \A i, j \in 1 .. Len(rec) : i < j => rec[i].n < rec[j].n
    /\ \A i, j \in 1 .. Len(d.class1) : i < j => d.class1[i].n < d.class1[j].n
    /\ \A i \in 1 .. Len(rec) : rec[i].n <= d.count
                                /\ \A j \in 1 .. Len(d.class1) : rec[i].n < d.class1[j].n
    /\ \A j \in 1 .. Len(d.class1) : d.class1[j].n <= d.count
    /\ Taken(out, d) =>
         \A m \in Reported(d.lastResp) :
             /\ m.n <= d.count
             /\ \A i \in 1 .. Len(rec) : rec[i].n < m.n
             /\ \A j \in 1 .. Len(d.class1) : m.n < d.class1[j].n

\* Message i is somewhere.
Somewhere(i, d, rec, gone) ==
    \E m \in ToSet(rec) \cup ToSet(d.class1) \cup Carried(d.lastResp) \cup gone :
        "n" \in DOMAIN m /\ m.n = i

Complete(d, rec, gone) == \A i \in 1 .. d.count : Somewhere(i, d, rec, gone)

DeviceInv(on, fcb, out, d, answered, act, rec, gone) ==
    /\ Bits(on, fcb, out, d, answered)
    /\ Kept(on, out, d, answered, act, rec, gone)
    /\ Ordered(out, d, rec)
    /\ Complete(d, rec, gone)

\* Command n is in one place at most: queued, out, or acted on.
IsCommand(x) == x.type = "GENERAL_COMMAND"

CommandsOnce(q, sent, taken, act, n) ==
    /\ \A i \in 1 .. Len(q) : IsCommand(q[i].asdu) =>
         /\ q[i].asdu.rii <= n
         /\ \A j \in 1 .. Len(q) : i # j => q[i].asdu # q[j].asdu
         /\ q[i].asdu \notin Carried(sent)
         /\ \A a \in DOMAIN act : q[i].asdu \notin ToSet(act[a])
    /\ \A x \in Carried(sent) : IsCommand(x) =>
         /\ x.rii <= n
         /\ ~taken => \A a \in DOMAIN act : x \notin ToSet(act[a])
    /\ \A a \in DOMAIN act : \A i \in 1 .. Len(act[a]) : IsCommand(act[a][i]) =>
         /\ act[a][i].rii <= n
         /\ \A j \in 1 .. Len(act[a]) : i # j => act[a][i] # act[a][j]

CommandsKept(q, sent, act, gone, n) ==
    \A k \in 1 .. n :
        \/ Command(k) \in gone \cup Carried(sent)
        \/ \E i \in DOMAIN q : q[i].asdu = Command(k)
        \/ \E a \in DOMAIN act : Command(k) \in ToSet(act[a])

SentTaken(l, dev) == l.sent # NoFrame /\ Taken(l.sent, dev[l.sent.addr])

LineTypes ==
    /\ line \in Lines
    /\ IsLink(Device, link)
    /\ queue \in Seq(Item(Device))
    /\ device \in [Device -> DeviceRec] /\ \A a \in Device : IsDevice(a, device[a])
    /\ acted \in [Device -> Seq(Requests)] /\ received \in [Device -> Seq(Reports)]
    /\ commands \in Nat

DevicesInv ==
    \A a \in Device : DeviceInv(On(link, a), link.devs[a].fcb, Out(link, a), device[a],
                                up # <<>>, acted[a], received[a], lost)

IInv ==
    /\ LineTypes
    /\ Exchange(link.sent, down, up, device)
    /\ DevicesInv
    /\ CommandsOnce(queue, link.sent, SentTaken(link, device), acted, commands)
    /\ CommandsKept(queue, link.sent, acted, lost, commands)

-----------------------------------------------------------------------------
(***************************************************************************)
(* Numbers, sequences and frames.                                          *)
(***************************************************************************)

\* A set of numbers that is not empty has a least one.
LEMMA PMinOf ==
    ASSUME NEW T, T \subseteq Nat, T # {}
    PROVE  P!Min(T) \in T /\ \A y \in T : P!Min(T) <= y
<1> DEFINE R == OpToRel(<, Nat)
<1>1. IsWellFoundedOn(R, Nat)
  BY NatLessThanWellFounded
<1>2. \E x \in T : \A y \in T : ~(<<y, x>> \in R)
  <2> HIDE DEF R
  <2> QED
    BY <1>1, WFMin
<1>3. \A x, y \in Nat : <<y, x>> \in R <=> y < x
  BY DEF OpToRel
<1>4. \E x \in T : \A y \in T : x <= y
  <2> HIDE DEF R
  <2>1. PICK x \in T : \A y \in T : ~(<<y, x>> \in R)
    BY <1>2
  <2>2. x \in Nat /\ \A y \in T : y \in Nat
    OBVIOUS
  <2>3. \A y \in T : ~(y < x)
    BY <1>3, <2>1, <2>2
  <2> QED
    BY <2>2, <2>3
<1> QED
  BY <1>4 DEF P!Min

\* The client has its own copies of the names of Frame101.
LEMMA PNames ==
    /\ P!NoFrame = NoFrame /\ P!SingleCharAck = SingleCharAck
    /\ P!RESET_LINK = RESET_LINK /\ P!USER_DATA_CONF = USER_DATA_CONF
    /\ P!REQ_STATUS = REQ_STATUS /\ P!REQ_DATA1 = REQ_DATA1 /\ P!REQ_DATA2 = REQ_DATA2
    /\ P!CONF_ACK = CONF_ACK /\ P!RESP_DATA = RESP_DATA /\ P!RESP_NO_DATA = RESP_NO_DATA
    /\ P!RESP_STATUS = RESP_STATUS /\ P!RESP_LINK_NF = RESP_LINK_NF
    /\ P!RESP_LINK_NI = RESP_LINK_NI
    /\ P!Resets = {RESET_LINK, 7} /\ P!Polls = {REQ_DATA1, REQ_DATA2}
BY DEF P!NoFrame, NoFrame, P!SingleCharAck, SingleCharAck, P!RESET_LINK, RESET_LINK,
       P!USER_DATA_CONF, USER_DATA_CONF, P!REQ_STATUS, REQ_STATUS, P!REQ_DATA1, REQ_DATA1,
       P!REQ_DATA2, REQ_DATA2, P!CONF_ACK, CONF_ACK, P!RESP_DATA, RESP_DATA, P!RESP_NO_DATA,
       RESP_NO_DATA, P!RESP_STATUS, RESP_STATUS, P!RESP_LINK_NF, RESP_LINK_NF, P!RESP_LINK_NI,
       RESP_LINK_NI, P!Resets, P!RESET_FCB, P!Polls

\* The function codes of the requests are different numbers.
LEMMA Codes ==
    /\ RESET_LINK = 0 /\ USER_DATA_CONF = 3 /\ REQ_STATUS = 9 /\ REQ_DATA1 = 10 /\ REQ_DATA2 = 11
    /\ CONF_ACK = 0 /\ RESP_DATA = 8 /\ RESP_NO_DATA = 9 /\ RESP_STATUS = 11
    /\ PlainServices = {0, 7, 9} /\ CountedServices = {10, 11}
    /\ P!Resets = {0, 7} /\ P!Polls = {10, 11}
BY PNames DEF RESET_LINK, USER_DATA_CONF, REQ_STATUS, REQ_DATA1, REQ_DATA2, CONF_ACK, RESP_DATA,
       RESP_NO_DATA, RESP_STATUS, PlainServices, CountedServices

\* A message of class 1 has a number and a handler; requests and measurands have none.
LEMMA Numbered ==
    /\ \A m \in Reports : "n" \in DOMAIN m /\ m.n \in Nat /\ Handler(m.type) # "measurands"
    /\ \A x \in Requests : "n" \notin DOMAIN x
    /\ "n" \notin DOMAIN Measurands /\ Handler(Measurands.type) = "measurands"
<1>1. ASSUME NEW m \in Reports
      PROVE  "n" \in DOMAIN m /\ m.n \in Nat /\ Handler(m.type) # "measurands"
  BY DEF Reports, Handler
<1>2. ASSUME NEW x \in Requests
      PROVE  "n" \notin DOMAIN x
  BY DEF Requests, TimeSync, Interrogation
<1>3. "n" \notin DOMAIN Measurands /\ Handler(Measurands.type) = "measurands"
  BY DEF Measurands, Handler
<1> QED
  BY <1>1, <1>2, <1>3

\* What kinds of frames there are.
LEMMA AskKinds ==
    ASSUME NEW A, NEW f, Asks(A, f)
    PROVE  /\ f # NoFrame /\ f.kind \in {"Fixed", "Variable"} /\ f.addr \in A
           /\ f.control \in ControlField /\ f.control.fcb \in BOOLEAN
           /\ f.kind = "Fixed" => Carried(f) = {}
           /\ f.kind = "Variable" => f.asdu \in Requests /\ Carried(f) = {f.asdu}
           /\ Carried(f) \subseteq Requests
BY DEF Asks, Ask, NoFrame, Carried, ControlField

\* The same of answers.
LEMMA AnswerKinds ==
    ASSUME NEW a, NEW f, Answers(a, f)
    PROVE  /\ f # NoFrame /\ f.kind \in {"Fixed", "Variable"} /\ f.addr = a
           /\ f.control \in ControlField
           /\ f.kind = "Fixed" => Carried(f) = {} /\ Reported(f) = {}
           /\ f.kind = "Variable" => /\ f.asdu \in Reports \cup {Measurands}
                                     /\ Carried(f) = {f.asdu}
           /\ Reported(f) \subseteq Reports /\ Reported(f) = Carried(f) \cap Reports
<1>1. /\ f # NoFrame /\ f.kind \in {"Fixed", "Variable"} /\ f.addr = a
      /\ f.control \in ControlField
      /\ f.kind = "Fixed" => Carried(f) = {}
      /\ f.kind = "Variable" => /\ f.asdu \in Reports \cup {Measurands}
                                /\ Carried(f) = {f.asdu}
  BY DEF Answers, Answer, NoFrame, Carried
<1>2. \A m \in Carried(f) : m \in Reports \cup {Measurands}
  BY <1>1
<1>3. \A m \in Carried(f) : "n" \in DOMAIN m <=> m \in Reports
  BY <1>2, Numbered
<1>4. Reported(f) = Carried(f) \cap Reports
  BY <1>3 DEF Reported
<1> QED
  BY <1>1, <1>4

\* A frame that is not there carries nothing.
LEMMA NothingCarried == Carried(NoFrame) = {} /\ Reported(NoFrame) = {}
BY DEF Carried, Reported, NoFrame

-----------------------------------------------------------------------------
(***************************************************************************)
(* What the client sends.                                                  *)
(***************************************************************************)

\* An idle link l has sent f and become m; user data is of X.
Launch(A, l, m, f, X) ==
    /\ l.sent = NoFrame /\ IsLink(A, m) /\ m.sent = f /\ Asks(A, f)
    /\ \A a \in A : /\ m.devs[a].fcb = l.devs[a].fcb
                    /\ On(m, a) => On(l, a)
                    /\ a # f.addr => (On(m, a) <=> On(l, a))
    /\ f.control.fcv => On(m, f.addr) /\ f.control.fcb = l.devs[f.addr].fcb
    /\ f.control.fun \in P!Resets => ~On(m, f.addr)
    /\ Carried(f) = X

\* A frame has the fields it is made of.
LEMMA FixedIs ==
    ASSUME NEW A, NEW a \in A, NEW c \in ControlField
    PROVE  /\ Fixed(c, a) \in Ask(A) /\ Fixed(c, a).kind = "Fixed"
           /\ Fixed(c, a).control = c /\ Fixed(c, a).addr = a
BY DEF Fixed, Ask

\* The same with an ASDU.
LEMMA VariableIs ==
    ASSUME NEW A, NEW a \in A, NEW c \in ControlField, NEW x \in Requests
    PROVE  /\ Variable(c, a, x) \in Ask(A) /\ Variable(c, a, x).kind = "Variable"
           /\ Variable(c, a, x).control = c /\ Variable(c, a, x).addr = a
           /\ Variable(c, a, x).asdu = x
BY DEF Variable, Ask

\* A control field of a request that is counted.
Counts(c, fun, fcb) == c \in ControlField /\ c.prm = TRUE /\ c.fun = fun /\ c.fcv = TRUE /\ c.fcb = fcb

\* The control field of a request that is counted.
LEMMA CountedControl ==
    ASSUME NEW fcb \in BOOLEAN, NEW fun \in CountedServices \cup {USER_DATA_CONF},
           NEW c, c = [dir |-> FALSE, prm |-> TRUE, fcb |-> fcb, fcv |-> TRUE,
                       acd |-> FALSE, dfc |-> FALSE, fun |-> fun]
    PROVE  Counts(c, fun, fcb)
<1>1. fun \in 0 .. 15
  BY Codes
<1> QED
  BY <1>1 DEF Counts, ControlField

\* A service frame is a request.
LEMMA FixedAsks ==
    ASSUME NEW A, NEW a \in A, NEW c \in ControlField, c.prm = TRUE,
           c.fun \in CountedServices \cup PlainServices,
           c.fcv <=> c.fun \notin PlainServices
    PROVE  LET f == Fixed(c, a)
           IN  /\ Asks(A, f) /\ f.kind = "Fixed" /\ f.addr = a /\ f.control = c
               /\ Carried(f) = {}
<1> DEFINE f == Fixed(c, a)
<1>1. f \in Ask(A) /\ f.kind = "Fixed" /\ f.control = c /\ f.addr = a
  BY FixedIs
<1> HIDE DEF f
<1>2. c.fun # USER_DATA_CONF
  BY Codes
<1>3. Asks(A, f)
  BY <1>1, <1>2 DEF Asks
<1>4. Carried(f) = {}
  BY <1>1 DEF Carried
<1> QED
  BY <1>1, <1>3, <1>4 DEF f

\* Frame f asks device a, with control field c, to take ASDU x.
IsUserData(A, f, a, c, x) ==
    Asks(A, f) /\ f.kind = "Variable" /\ f.addr = a /\ f.control = c /\ Carried(f) = {x}

\* User data is a request.
LEMMA VariableAsks ==
    ASSUME NEW A, NEW a \in A, NEW x \in Requests, NEW c, NEW fcb, Counts(c, USER_DATA_CONF, fcb),
           NEW f, f = Variable(c, a, x)
    PROVE  IsUserData(A, f, a, c, x)
<1>1. c \in ControlField /\ c.prm = TRUE /\ c.fun = USER_DATA_CONF /\ c.fcv = TRUE
  BY DEF Counts
<1>2. f \in Ask(A) /\ f.kind = "Variable" /\ f.control = c /\ f.addr = a /\ f.asdu = x
  BY <1>1, VariableIs
<1>3. USER_DATA_CONF \notin PlainServices
  BY Codes
<1>4. Asks(A, f)
  BY <1>1, <1>2, <1>3 DEF Asks
<1>5. Carried(f) = {x}
  BY <1>2 DEF Carried
<1> QED
  BY <1>2, <1>4, <1>5 DEF IsUserData

\* send_confirmed: link l sends frame f.
Sent(l, o, f) == /\ o.link = [l EXCEPT !.sent = f, !.retry = 0] /\ o.out = <<f>>
                 /\ o.done = NoFrame /\ o.deliver = FALSE

\* The device is in the phase for frame f, and f has its frame count bit.
Due(l, f) ==
    /\ f.control.fcv => On(l, f.addr) /\ f.control.fcb = l.devs[f.addr].fcb
    /\ f.control.fun \in P!Resets => ~On(l, f.addr)

\* A link of which a frame is sent.
LEMMA SentLaunches ==
    ASSUME NEW A, NEW l, IsLink(A, l), l.sent = NoFrame, NEW f, Asks(A, f), Due(l, f),
           NEW o, Sent(l, o, f)
    PROVE  Launch(A, l, o.link, f, Carried(f))
<1> DEFINE m == [l EXCEPT !.sent = f, !.retry = 0]
<1>1. f \in Ask(A)
  BY DEF Asks
<1>2. /\ m \in LinkRec(A) /\ m.sent = f /\ m.devs = l.devs
      /\ m.order = l.order /\ m.idx = l.idx
  BY <1>1 DEF IsLink, LinkRec
<1>3. o.link = m
  BY DEF Sent
<1> HIDE DEF m
<1>4. IsLink(A, m)
  BY <1>2 DEF IsLink
<1> QED
  BY <1>2, <1>3, <1>4 DEF Launch, On, Due

\* An idle link asks device a for a service.
AsksFor(A, l, o, a, fun) ==
    /\ Launch(A, l, o.link, o.link.sent, {}) /\ o.out = <<o.link.sent>>
    /\ o.link.sent.kind = "Fixed" /\ o.link.sent.addr = a /\ o.link.sent.control.fun = fun
    /\ o.done = NoFrame /\ o.deliver = FALSE

\* send_prim_frame: what holds of it with any control field.
LEMMA SendFixed ==
    ASSUME NEW A, NEW l, IsLink(A, l), l.sent = NoFrame, NEW a \in A,
           NEW c \in ControlField, c.prm = TRUE, c.fun \in CountedServices \cup PlainServices,
           c.fcv <=> c.fun \notin PlainServices,
           c.fcv => On(l, a) /\ c.fcb = l.devs[a].fcb,
           c.fun \in P!Resets => ~On(l, a),
           NEW o, o = P!SendConfirmed(l, Fixed(c, a))
    PROVE  AsksFor(A, l, o, a, c.fun)
<1> DEFINE f == Fixed(c, a)
<1>1. Asks(A, f) /\ f.addr = a /\ f.kind = "Fixed" /\ f.control = c /\ Carried(f) = {}
  BY FixedAsks
<1>2. Sent(l, o, f)
  BY PNames DEF P!SendConfirmed, P!Outcome, Sent
<1> HIDE DEF f
<1>3. Due(l, f)
  BY <1>1 DEF Due
<1>4. Asks(A, f)
  BY <1>1
<1>5. Launch(A, l, o.link, f, Carried(f))
  BY <1>2, <1>3, <1>4, SentLaunches, Zenon
<1>6. o.link.sent = f
  BY <1>5 DEF Launch
<1> QED
  BY <1>1, <1>2, <1>5, <1>6 DEF AsksFor, Sent

\* send_prim_frame with a frame count.
LEMMA SendCounted ==
    ASSUME NEW A, NEW l, IsLink(A, l), l.sent = NoFrame, NEW a \in A, NEW fun \in CountedServices,
           On(l, a), NEW o, o = P!SendPrim(l, a, fun, TRUE)
    PROVE  AsksFor(A, l, o, a, fun)
<1> DEFINE c == [dir |-> FALSE, prm |-> TRUE, fcb |-> TRUE /\ l.devs[a].fcb, fcv |-> TRUE,
                 acd |-> FALSE, dfc |-> FALSE, fun |-> fun]
<1>1. l.devs[a].fcb \in BOOLEAN
  BY DEF IsLink, LinkRec, Dev
<1>2. o = P!SendConfirmed(l, Fixed(c, a))
  BY DEF P!SendPrim, P!Primary, P!Fixed, Fixed
<1>3. Counts(c, fun, l.devs[a].fcb)
  <2> DEFINE fcb == l.devs[a].fcb
  <2>0. (TRUE /\ fcb) = fcb
    BY <1>1
  <2>1. /\ fcb \in BOOLEAN /\ fun \in CountedServices \cup {USER_DATA_CONF}
        /\ c = [dir |-> FALSE, prm |-> TRUE, fcb |-> fcb, fcv |-> TRUE,
                acd |-> FALSE, dfc |-> FALSE, fun |-> fun]
    BY <1>1, <2>0, Zenon
  <2> HIDE DEF c, fcb
  <2>2. Counts(c, fun, fcb)
    BY <2>1, CountedControl
  <2> QED
    BY <2>2 DEF fcb
<1> HIDE DEF c
<1>4. /\ c.fun \in CountedServices \cup PlainServices /\ c.fun \notin PlainServices
      /\ c.fun \notin P!Resets
  BY <1>3, Codes DEF Counts
<1> QED
  BY <1>2, <1>3, <1>4, SendFixed DEF Counts

\* send_prim_frame without one.
LEMMA SendPlain ==
    ASSUME NEW A, NEW l, IsLink(A, l), l.sent = NoFrame, NEW a \in A, NEW fun \in PlainServices,
           fun \in P!Resets => ~On(l, a), NEW o, o = P!SendPrim(l, a, fun, FALSE)
    PROVE  AsksFor(A, l, o, a, fun)
<1> DEFINE c == [dir |-> FALSE, prm |-> TRUE, fcb |-> FALSE /\ l.devs[a].fcb, fcv |-> FALSE,
                 acd |-> FALSE, dfc |-> FALSE, fun |-> fun]
<1>1. fun \in 0 .. 15
  BY Codes
<1>2. o = P!SendConfirmed(l, Fixed(c, a))
  BY DEF P!SendPrim, P!Primary, P!Fixed, Fixed
<1>3. c \in ControlField /\ c.prm = TRUE /\ c.fun = fun /\ c.fcv = FALSE
  BY <1>1 DEF ControlField
<1> HIDE DEF c
<1> QED
  BY <1>2, <1>3, SendFixed

\* As far as the exchanges go, link l has not changed by becoming m.
LinkSame(A, l, m) ==
    /\ IsLink(A, m) /\ m.sent = l.sent
    /\ \A a \in A : m.devs[a].fcb = l.devs[a].fcb /\ (On(m, a) <=> On(l, a))

\* It is all the same whose turn it was, and whether the device that is asked was
\* made inactive before.
LEMMA AsksForFrom ==
    ASSUME NEW A, NEW l, NEW k, NEW o, NEW a, NEW fun, AsksFor(A, k, o, a, fun), k.sent = l.sent,
           \A x \in A : /\ k.devs[x].fcb = l.devs[x].fcb /\ (On(k, x) => On(l, x))
                        /\ x # a => (On(k, x) <=> On(l, x))
    PROVE  AsksFor(A, l, o, a, fun)
<1> DEFINE m == o.link
           f == o.link.sent
<1>1. Launch(A, k, m, f, {}) /\ f.addr = a
  BY DEF AsksFor
<1>2. /\ l.sent = NoFrame /\ IsLink(A, m) /\ m.sent = f /\ Asks(A, f) /\ f.addr \in A
      /\ f.control.fcv => On(m, f.addr) /\ f.control.fcb = l.devs[f.addr].fcb
      /\ f.control.fun \in P!Resets => ~On(m, f.addr)
      /\ Carried(f) = {}
  BY <1>1, AskKinds DEF Launch
<1>3. \A x \in A : /\ m.devs[x].fcb = l.devs[x].fcb
                   /\ On(m, x) => On(l, x)
                   /\ x # f.addr => (On(m, x) <=> On(l, x))
  BY <1>1 DEF Launch
<1> HIDE DEF m, f
<1>4. Launch(A, l, m, f, {})
  BY <1>2, <1>3 DEF Launch
<1> QED
  BY <1>4 DEF AsksFor, m, f

\* A device's entry is changed.
LEMMA DevChanged ==
    ASSUME NEW A, NEW l, IsLink(A, l), NEW a \in A, NEW x \in Dev,
           NEW m, m = [l EXCEPT !.devs[a] = x]
    PROVE  /\ IsLink(A, m) /\ m.sent = l.sent /\ m.order = l.order /\ m.devs[a] = x
           /\ \A b \in A : b # a => m.devs[b] = l.devs[b]
           /\ x.fcb = l.devs[a].fcb /\ x.phase = l.devs[a].phase => LinkSame(A, l, m)
<1>1. /\ m \in LinkRec(A) /\ m.sent = l.sent /\ m.order = l.order /\ m.idx = l.idx
      /\ m.devs[a] = x /\ \A b \in A : b # a => m.devs[b] = l.devs[b]
  BY DEF IsLink, LinkRec
<1>2. IsLink(A, m)
  BY <1>1 DEF IsLink
<1> QED
  BY <1>1, <1>2 DEF LinkSame, On

-----------------------------------------------------------------------------
(***************************************************************************)
(* What the client makes of its timers and of an answer.                   *)
(***************************************************************************)

\* Every queued ASDU is for a device that is served.
LEMMA AllKnown ==
    ASSUME NEW l, NEW q, \A i \in DOMAIN q : q[i].addr \in DOMAIN l.devs
    PROVE  P!Known(l, q) = q
BY Zenon DEF P!Known

\* The first ASDU that can be sent.
LEMMA FirstSendable ==
    ASSUME NEW A, NEW l, IsLink(A, l), NEW q \in Seq(Item(A)), P!Sendable(l, q) # {}
    PROVE  LET i == P!Min(P!Sendable(l, q))
           IN  /\ i \in 1 .. Len(q) /\ q[i] \in Item(A) /\ On(l, q[i].addr)
               /\ P!QueueAfter(l, q) = SubSeq(q, 1, i - 1) \o SubSeq(q, i + 1, Len(q))
<1> DEFINE T == P!Sendable(l, q)
           i == P!Min(T)
<1>1. DOMAIN q = 1 .. Len(q) /\ Len(q) \in Nat /\ DOMAIN l.devs = A
  BY DEF IsLink, LinkRec
<1>2. \A j : j \in T <=> /\ j \in 1 .. Len(q) /\ q[j].addr \in A
                         /\ l.devs[q[j].addr].phase = "Active" /\ ~l.devs[q[j].addr].busy
  BY <1>1 DEF P!Sendable, P!IsActive
<1>3. T \subseteq Nat
  BY <1>2
<1> HIDE DEF T
<1>4. i \in T /\ \A y \in T : i <= y
  BY <1>3, PMinOf DEF T
<1> HIDE DEF i
<1>5. i \in 1 .. Len(q) /\ q[i] \in Item(A) /\ On(l, q[i].addr)
  BY <1>2, <1>4 DEF On
<1>7. P!QueueAfter(l, q) = SubSeq(q, 1, i - 1) \o SubSeq(q, i + 1, Len(q))
  <2> DEFINE p == SubSeq(q, 1, i - 1)
  <2>1. \A j \in 1 .. Len(q) : q[j].addr \in A
    <3>1. \A j \in 1 .. Len(q) : q[j] \in Item(A)
      OBVIOUS
    <3> QED
      BY <3>1 DEF Item
  <2>2. DOMAIN p = 1 .. (i - 1) /\ \A j \in 1 .. (i - 1) : p[j] = q[j] /\ j \in 1 .. Len(q)
    BY <1>1, <1>5
  <2> HIDE DEF p
  <2>3. P!Known(l, p) = p
    BY <1>1, <2>1, <2>2, AllKnown
  <2> QED
    BY <2>3 DEF P!QueueAfter, T, i, p
<1> QED
  BY <1>5, <1>7 DEF T, i

\* try_send_queued
LEMMA SendQueuedLaunches ==
    ASSUME NEW A, NEW l, IsLink(A, l), l.sent = NoFrame, NEW q \in Seq(Item(A)),
           P!Sendable(l, q) # {}
    PROVE  LET i == P!Min(P!Sendable(l, q))
               o == P!SendQueued(l, q)
           IN  Launch(A, l, o.link, o.link.sent, {q[i].asdu}) /\ o.out = <<o.link.sent>>
<1> DEFINE i == P!Min(P!Sendable(l, q))
           e == q[i]
           f == Variable(Primary(USER_DATA_CONF, TRUE, l.devs[e.addr].fcb, FALSE), e.addr, e.asdu)
           o == P!SendQueued(l, q)
<1>1. e \in Item(A) /\ On(l, e.addr)
  BY FirstSendable
<1>2. Sent(l, o, f)
  BY PNames DEF P!SendQueued, P!SendConfirmed, P!Outcome, P!Variable, P!Primary, Variable, Primary, Sent
<1> HIDE DEF e, i, o
<1>3. l.devs[e.addr].fcb \in BOOLEAN /\ e.addr \in A /\ e.asdu \in Requests
  BY <1>1 DEF IsLink, LinkRec, Dev, Item
<1>4. /\ Asks(A, f) /\ f.addr = e.addr /\ f.control.fun = USER_DATA_CONF /\ f.control.fcv = TRUE
      /\ f.control.fcb = l.devs[e.addr].fcb /\ Carried(f) = {e.asdu}
  <2> DEFINE c == [dir |-> FALSE, prm |-> TRUE, fcb |-> TRUE /\ l.devs[e.addr].fcb, fcv |-> TRUE,
                   acd |-> FALSE, dfc |-> FALSE, fun |-> USER_DATA_CONF]
             x == e.addr
             b == e.asdu
  <2>1. f = Variable(c, x, b)
    BY DEF Primary
  <2>2. Counts(c, USER_DATA_CONF, l.devs[e.addr].fcb)
    <3> DEFINE fcb == l.devs[e.addr].fcb
    <3>1. (TRUE /\ fcb) = fcb
      BY <1>3
    <3>2. /\ fcb \in BOOLEAN /\ USER_DATA_CONF \in CountedServices \cup {USER_DATA_CONF}
          /\ c = [dir |-> FALSE, prm |-> TRUE, fcb |-> fcb, fcv |-> TRUE,
                  acd |-> FALSE, dfc |-> FALSE, fun |-> USER_DATA_CONF]
      BY <1>3, <3>1, Zenon
    <3> HIDE DEF c, fcb
    <3>3. Counts(c, USER_DATA_CONF, fcb)
      BY <3>2, CountedControl
    <3> QED
      BY <3>3 DEF fcb
  <2>3. x \in A /\ b \in Requests
    BY <1>3
  <2> HIDE DEF c, f, x, b
  <2>5. IsUserData(A, f, x, c, b)
    BY <2>1, <2>2, <2>3, VariableAsks
  <2> QED
    BY <2>2, <2>5 DEF x, b, Counts, IsUserData
<1> HIDE DEF f
<1>5. f.control.fun \notin P!Resets
  BY <1>4, Codes
<1>6. Due(l, f) /\ Asks(A, f)
  BY <1>1, <1>4, <1>5 DEF Due
<1>7. Launch(A, l, o.link, f, Carried(f))
  BY <1>2, <1>6, SentLaunches, Zenon
<1>8. Launch(A, l, o.link, o.link.sent, {e.asdu}) /\ o.out = <<o.link.sent>>
  BY <1>2, <1>4, <1>7 DEF Launch, Sent
<1> QED
  BY <1>8 DEF e, i, o

\* The device whose turn it is is asked for what its phase calls for.
LEMMA PollLaunches ==
    ASSUME NEW A, NEW l, IsLink(A, l), l.sent = NoFrame,
           NEW o, o = P!PollDevice([l EXCEPT !.idx = 1 + (@ % Len(l.order))], l.order[l.idx])
    PROVE  \E a \in A : \E f : AsksFor(A, l, o, a, f)
<1> DEFINE x == [l EXCEPT !.idx = 1 + (l.idx % Len(l.order))]
           a == l.order[l.idx]
<1>1. a \in A /\ 1 + (l.idx % Len(l.order)) \in 1 .. Len(l.order)
  <2>1. l.order \in Seq(A) /\ Len(l.order) \in Nat \ {0} /\ l.idx \in 1 .. Len(l.order)
    BY DEF IsLink, LinkRec
  <2>2. l.idx % Len(l.order) \in 0 .. (Len(l.order) - 1)
    <3> DEFINE n == Len(l.order)
               k == l.idx
    <3>1. n \in Nat \ {0} /\ k \in Nat
      BY <2>1
    <3> HIDE DEF n, k
    <3>2. k % n \in 0 .. (n - 1)
      BY <3>1
    <3> QED
      BY <3>2 DEF n, k
  <2> QED
    BY <2>1, <2>2
<1>2. o = P!PollDevice(x, a)
  BY Zenon
<1> HIDE DEF a
<1>3. IsLink(A, x) /\ x.devs = l.devs /\ x.sent = NoFrame /\ l.devs[a] \in Dev
  <2>1. l.devs[a] \in Dev
    BY <1>1 DEF IsLink, LinkRec
  <2>2. /\ x \in LinkRec(A) /\ x.idx = 1 + (l.idx % Len(l.order)) /\ x.order = l.order
        /\ x.sent = l.sent /\ x.devs = l.devs
    BY <1>1 DEF IsLink, LinkRec
  <2> HIDE DEF x
  <2> QED
    BY <1>1, <2>1, <2>2 DEF IsLink
<1> HIDE DEF x
<1>4. ASSUME NEW fun, AsksFor(A, x, o, a, fun)
      PROVE  \E f : AsksFor(A, l, o, a, f)
  <2>1. /\ x.sent = l.sent
        /\ \A y \in A : /\ x.devs[y].fcb = l.devs[y].fcb /\ (On(x, y) => On(l, y))
                        /\ y # a => (On(x, y) <=> On(l, y))
    BY <1>3 DEF On
  <2> QED
    BY <1>4, <2>1, AsksForFrom
<1>5. CASE x.devs[a].phase = "Status"
  <2>1. o = P!SendPrim(x, a, REQ_STATUS, FALSE)
    BY <1>2, <1>5, PNames DEF P!PollDevice
  <2>2. REQ_STATUS \in PlainServices /\ REQ_STATUS \notin P!Resets
    BY Codes
  <2>3. AsksFor(A, x, o, a, REQ_STATUS)
    BY <1>1, <1>3, <2>1, <2>2, SendPlain
  <2> QED
    BY <1>1, <1>4, <2>3
<1>6. CASE x.devs[a].phase = "Reset"
  <2>1. o = P!SendPrim(x, a, RESET_LINK, FALSE)
    BY <1>2, <1>6, PNames DEF P!PollDevice
  <2>2. RESET_LINK \in PlainServices /\ ~On(x, a)
    BY <1>6, Codes DEF On
  <2>3. AsksFor(A, x, o, a, RESET_LINK)
    BY <1>1, <1>3, <2>1, <2>2, SendPlain
  <2> QED
    BY <1>1, <1>4, <2>3
<1>7. CASE x.devs[a].phase = "Active"
  <2> DEFINE fun == IF x.devs[a].wantClass1 THEN REQ_DATA1 ELSE REQ_DATA2
  <2>1. o = P!SendPrim(x, a, fun, TRUE)
    BY <1>2, <1>7, PNames DEF P!PollDevice
  <2>2. fun \in CountedServices /\ On(x, a)
    BY <1>7 DEF CountedServices, On
  <2> HIDE DEF fun
  <2>3. AsksFor(A, x, o, a, fun)
    BY <1>1, <1>3, <2>1, <2>2, SendCounted
  <2> QED
    BY <1>1, <1>4, <2>3
<1> QED
  BY <1>1, <1>3, <1>5, <1>6, <1>7 DEF Dev

\* The request of link l is over, and the other devices are as they were.
Over(A, l, m) ==
    /\ IsLink(A, m) /\ l.sent # NoFrame /\ m.sent = NoFrame
    /\ \A a \in A : a # l.sent.addr => m.devs[a].fcb = l.devs[a].fcb /\ (On(m, a) <=> On(l, a))

\* The request was confirmed: what that says of its device.
LinkConfirmed(A, l, m) ==
    /\ Over(A, l, m)
    /\ LET a == l.sent.addr
           c == l.sent.control
       IN  /\ c.fcv => m.devs[a].fcb = ~c.fcb
           /\ c.fun \in P!Resets => m.devs[a].fcb = TRUE
           /\ ~c.fcv /\ c.fun \notin P!Resets => /\ m.devs[a].fcb = l.devs[a].fcb
                                                 /\ On(m, a) => On(l, a)

\* The request was given up.
LinkGivenUp(A, l, m) == Over(A, l, m) /\ ~On(m, l.sent.addr)

\* What the confirmation of a request says of the bit and the phase.
LEMMA ConfirmedDeviceIs ==
    ASSUME NEW d \in Dev, NEW c \in ControlField, c.fcv <=> c.fun \notin PlainServices,
           NEW x, x = P!ConfirmedDevice(d, c)
    PROVE  /\ x \in Dev
           /\ c.fcv => x.fcb = ~c.fcb
           /\ c.fun \in P!Resets => x.fcb = TRUE
           /\ ~c.fcv /\ c.fun \notin P!Resets => /\ x.fcb = d.fcb
                                                 /\ x.phase = "Active" => d.phase = "Active"
<1> DEFINE y == IF c.fcv THEN [d EXCEPT !.fcb = ~c.fcb] ELSE d
<1>1. y \in Dev /\ y.phase = d.phase /\ (c.fcv => y.fcb = ~c.fcb) /\ (~c.fcv => y.fcb = d.fcb)
  <2>1. c.fcb \in BOOLEAN
    BY DEF ControlField
  <2>2. CASE c.fcv
    BY <2>1, <2>2 DEF Dev
  <2>3. CASE ~c.fcv
    BY <2>3 DEF Dev
  <2> QED
    BY <2>2, <2>3
<1>2. x = CASE c.fun \in P!Resets -> [y EXCEPT !.phase = "Active", !.fcb = TRUE]
            [] c.fun = REQ_STATUS /\ d.phase = "Status" -> [y EXCEPT !.phase = "Reset"]
            [] c.fun = REQ_DATA1 -> [y EXCEPT !.wantClass1 = FALSE]
            [] OTHER -> y
  BY PNames DEF P!ConfirmedDevice
<1>3. /\ REQ_STATUS \notin P!Resets /\ REQ_DATA1 \notin P!Resets /\ REQ_STATUS # REQ_DATA1
      /\ P!Resets \subseteq PlainServices /\ REQ_STATUS \in PlainServices
  BY Codes
<1> HIDE DEF y
<1>4. CASE c.fun \in P!Resets
  <2>1. x = [y EXCEPT !.phase = "Active", !.fcb = TRUE] /\ ~c.fcv
    BY <1>2, <1>3, <1>4
  <2> QED
    BY <1>1, <1>4, <2>1 DEF Dev
<1>5. CASE c.fun = REQ_STATUS /\ d.phase = "Status"
  <2>1. x = [y EXCEPT !.phase = "Reset"] /\ ~c.fcv /\ c.fun \notin P!Resets
    BY <1>2, <1>3, <1>5
  <2> QED
    BY <1>1, <2>1 DEF Dev
<1>6. CASE c.fun = REQ_DATA1
  <2>1. x = [y EXCEPT !.wantClass1 = FALSE] /\ c.fun \notin P!Resets
    BY <1>2, <1>3, <1>6
  <2> QED
    BY <1>1, <2>1 DEF Dev
<1>7. CASE c.fun \notin P!Resets /\ ~(c.fun = REQ_STATUS /\ d.phase = "Status") /\ c.fun # REQ_DATA1
  <2>1. x = y
    BY <1>2, <1>7
  <2> QED
    BY <1>1, <1>7, <2>1
<1> QED
  BY <1>4, <1>5, <1>6, <1>7

\* confirm_positive, when the device that was asked has answered.
LEMMA ConfirmPositiveIs ==
    ASSUME NEW A, NEW l, IsLink(A, l), l.sent # NoFrame, NEW from, l.sent.addr \in from,
           NEW o, o = P!ConfirmPositive(l, from)
    PROVE  /\ o.out = <<>> /\ LinkConfirmed(A, l, o.link) /\ o.done = l.sent
           /\ o = [link |-> o.link, out |-> o.out, done |-> o.done, deliver |-> o.deliver]
<1> DEFINE a == l.sent.addr
           x == P!ConfirmedDevice(l.devs[a], l.sent.control)
           r == [l EXCEPT !.sent = NoFrame, !.retry = 0]
           m == [r EXCEPT !.devs[a] = x]
<1>1. a \in A /\ Asks(A, l.sent)
  BY AskKinds DEF IsLink
<1>2. o = [link |-> m, out |-> <<>>, done |-> l.sent, deliver |-> FALSE]
  <2>1. r.devs = l.devs /\ a \in DOMAIN l.devs
    BY <1>1 DEF IsLink, LinkRec
  <2> QED
    BY <2>1, PNames DEF P!ConfirmPositive, P!Idle, P!Unmoved, P!Outcome, P!Released
<1>3. /\ l.sent.control \in ControlField
      /\ l.sent.control.fcv <=> l.sent.control.fun \notin PlainServices
  BY <1>1, AskKinds DEF Asks
<1>4. l.devs[a] \in Dev
  BY <1>1 DEF IsLink, LinkRec
<1> DEFINE c == l.sent.control
           d == l.devs[a]
<1>5. /\ x \in Dev
      /\ c.fcv => x.fcb = ~c.fcb
      /\ c.fun \in P!Resets => x.fcb = TRUE
      /\ ~c.fcv /\ c.fun \notin P!Resets => /\ x.fcb = d.fcb
                                            /\ x.phase = "Active" => d.phase = "Active"
  <2>1. c \in ControlField /\ (c.fcv <=> c.fun \notin PlainServices) /\ d \in Dev
    BY <1>3, <1>4
  <2> HIDE DEF c, d
  <2>2. x = P!ConfirmedDevice(d, c)
    BY DEF c, d
  <2> HIDE DEF x
  <2> QED
    BY <2>1, <2>2, ConfirmedDeviceIs
<1> HIDE DEF x
<1>6. /\ m \in LinkRec(A) /\ m.sent = NoFrame
      /\ m.order = l.order /\ m.idx = l.idx /\ m.devs[a] = x
      /\ \A b \in A : b # a => m.devs[b] = l.devs[b]
  BY <1>1, <1>5 DEF IsLink, LinkRec
<1>7. /\ o.link = m /\ o.out = <<>> /\ o.done = l.sent
      /\ o = [link |-> o.link, out |-> o.out, done |-> o.done, deliver |-> o.deliver]
  BY <1>2
<1> HIDE DEF m
<1>8. IsLink(A, m)
  BY <1>6 DEF IsLink
<1>9. Over(A, l, m)
  BY <1>6, <1>8 DEF Over, On
<1>10. LinkConfirmed(A, l, m)
  BY <1>5, <1>6, <1>9 DEF LinkConfirmed, On
<1> QED
  BY <1>7, <1>10

\* A device that is given up.
LEMMA GivenUpIs ==
    ASSUME NEW A, NEW l, IsLink(A, l), l.sent # NoFrame,
           NEW m, m = [P!Released(l) EXCEPT !.devs[l.sent.addr] = P!GivenUp(@)]
    PROVE  LinkGivenUp(A, l, m)
<1> DEFINE a == l.sent.addr
           r == [l EXCEPT !.sent = NoFrame, !.retry = 0]
           x == [l.devs[a] EXCEPT !.phase = "Status", !.wantClass1 = FALSE, !.busy = FALSE]
<1>1. a \in A /\ l.devs[a] \in Dev
  <2>1. a \in A
    BY AskKinds DEF IsLink
  <2> QED
    BY <2>1 DEF IsLink, LinkRec
<1>2. x \in Dev /\ x.phase = "Status"
  BY <1>1 DEF Dev
<1>3. m = [r EXCEPT !.devs[a] = x]
  <2>1. r.devs = l.devs /\ a \in DOMAIN l.devs
    BY <1>1 DEF IsLink, LinkRec
  <2> QED
    BY <2>1, PNames DEF P!Released, P!GivenUp
<1> HIDE DEF x
<1>4. /\ m \in LinkRec(A) /\ m.sent = NoFrame
      /\ m.order = l.order /\ m.idx = l.idx /\ m.devs[a] = x
      /\ \A b \in A : b # a => m.devs[b] = l.devs[b]
  <2> DEFINE n == [r EXCEPT !.devs[a] = x]
  <2>1. /\ n \in LinkRec(A) /\ n.sent = NoFrame
        /\ n.order = l.order /\ n.idx = l.idx /\ n.devs[a] = x
        /\ \A b \in A : b # a => n.devs[b] = l.devs[b]
    BY <1>1, <1>2 DEF IsLink, LinkRec
  <2>2. n = m
    BY <1>3
  <2> HIDE DEF n
  <2> QED
    BY <2>1, <2>2
<1>5. IsLink(A, m)
  BY <1>4 DEF IsLink
<1>6. Over(A, l, m)
  BY <1>4, <1>5 DEF Over, On
<1> QED
  BY <1>2, <1>4, <1>6 DEF LinkGivenUp, On

\* It is all the same whether a link is answered that has not changed.
LEMMA ConfirmedSame ==
    ASSUME NEW A, NEW l, IsLink(A, l), NEW k, LinkSame(A, l, k), NEW m, LinkConfirmed(A, k, m)
    PROVE  LinkConfirmed(A, l, m)
<1>1. k.sent = l.sent /\ \A a \in A : k.devs[a].fcb = l.devs[a].fcb /\ (On(k, a) <=> On(l, a))
  BY DEF LinkSame
<1>2. Over(A, k, m)
  BY DEF LinkConfirmed
<1>3. l.sent.addr \in A
  BY <1>1, <1>2, AskKinds DEF IsLink, Over
<1>4. Over(A, l, m)
  BY <1>1, <1>2 DEF Over
<1> QED
  BY <1>1, <1>3, <1>4 DEF LinkConfirmed

\* Link m has become n: nothing was sent, or m was idle and the frame of n was.
MovesOn(A, m, n, out) ==
    \/ LinkSame(A, m, n) /\ out = <<>>
    \/ Launch(A, m, n, n.sent, {}) /\ out = <<n.sent>>

\* A frame that is sent moves an idle link on.
LEMMA AsksForMovesOn ==
    ASSUME NEW A, NEW l, NEW o, NEW a, NEW fun, AsksFor(A, l, o, a, fun)
    PROVE  MovesOn(A, l, o.link, o.out)
BY DEF AsksFor, MovesOn

\* User data that answers a request for it is delivered.
Delivers(f, sent) == f.kind = "Variable" /\ sent.control.fun \in P!Polls

\* An answer of the device that was asked.
LEMMA AnsweredIs ==
    ASSUME NEW A, NEW l, IsLink(A, l), l.sent # NoFrame, NEW f, Answers(l.sent.addr, f),
           NEW o, o = P!Answered(l, f)
    PROVE  /\ o.out = <<>> /\ LinkConfirmed(A, l, o.link) /\ o.done = l.sent
           /\ o.deliver <=> Delivers(f, l.sent)
           /\ o = [link |-> o.link, out |-> o.out, done |-> o.done, deliver |-> o.deliver]
<1> DEFINE k == P!ConfirmPositive(l, {f.addr})
<1>1. f.addr = l.sent.addr
  BY AnswerKinds
<1>2. P!Confirms(f) /\ (f.kind = "Variable" => f.control.fun = RESP_DATA)
  <2>1. f.kind = "Fixed" \/ f.kind = "Variable"
    BY AnswerKinds
  <2> QED
    BY <2>1, PNames DEF Answers, P!Confirms
<1>3. /\ k.out = <<>> /\ LinkConfirmed(A, l, k.link) /\ k.done = l.sent
      /\ k = [link |-> k.link, out |-> k.out, done |-> k.done, deliver |-> k.deliver]
  <2> DEFINE s == {f.addr}
  <2>1. l.sent.addr \in s /\ k = P!ConfirmPositive(l, s)
    BY <1>1
  <2> HIDE DEF s, k
  <2> QED
    BY <2>1, ConfirmPositiveIs
<1>4. o = [k EXCEPT !.deliver = P!AnswersPoll(f, k)]
  BY <1>2 DEF P!Answered
<1> HIDE DEF k
<1>5. /\ o.link = k.link /\ o.out = k.out /\ o.done = k.done
      /\ o.deliver = P!AnswersPoll(f, k)
      /\ o = [link |-> o.link, out |-> o.out, done |-> o.done, deliver |-> o.deliver]
  BY <1>3, <1>4
<1>6. P!AnswersPoll(f, k) <=> Delivers(f, l.sent)
  BY <1>2, <1>3, PNames DEF P!AnswersPoll, Delivers
<1> QED
  BY <1>3, <1>5, <1>6

\* The access demand of an answer.
LEMMA AccessDemandIs ==
    ASSUME NEW A, NEW o, IsLink(A, o.link), o.out = <<>>,
           NEW f, f.addr \in A, NEW r, r = P!AccessDemand(o, f),
           o = [link |-> o.link, out |-> o.out, done |-> o.done, deliver |-> o.deliver]
    PROVE  r.done = o.done /\ r.deliver = o.deliver /\ MovesOn(A, o.link, r.link, r.out)
<1> DEFINE a == f.addr
           x == [o.link.devs[a] EXCEPT !.wantClass1 = TRUE]
           l == [o.link EXCEPT !.devs[a] = x]
           k == o.link
<1>1. a \in A /\ k.devs[a] \in Dev
  BY DEF IsLink, LinkRec
<1>2. x \in Dev /\ x.fcb = k.devs[a].fcb /\ x.phase = k.devs[a].phase
  BY <1>1 DEF Dev
<1>3. l = [o.link EXCEPT !.devs[f.addr].wantClass1 = TRUE]
  OBVIOUS
<1>4. r = IF ~f.control.acd THEN o
          ELSE IF P!IsActive(l, a) /\ P!Idle(l)
            THEN [P!SendPrim(l, a, REQ_DATA1, TRUE) EXCEPT !.done = o.done, !.deliver = o.deliver]
            ELSE [o EXCEPT !.link = l]
  BY <1>3, PNames DEF P!AccessDemand
<1>5. LinkSame(A, k, l)
  <2> HIDE DEF x
  <2>1. l = [k EXCEPT !.devs[a] = x]
    OBVIOUS
  <2> HIDE DEF l, k, a
  <2> QED
    <3>1. IsLink(A, k)
      BY DEF k
    <3> QED
      BY <1>1, <1>2, <2>1, <3>1, DevChanged
<1> HIDE DEF l, x
<1>6. CASE ~f.control.acd
  <2>1. r = o
    BY <1>4, <1>6
  <2>2. LinkSame(A, k, k)
    BY DEF LinkSame
  <2> QED
    BY <2>1, <2>2 DEF MovesOn
<1>7. CASE f.control.acd /\ P!IsActive(l, a) /\ P!Idle(l)
  <2> DEFINE p == P!SendPrim(l, a, REQ_DATA1, TRUE)
  <2>1. r = [p EXCEPT !.done = o.done, !.deliver = o.deliver]
    BY <1>4, <1>7
  <2>2. p = [link |-> p.link, out |-> p.out, done |-> p.done, deliver |-> p.deliver]
    BY DEF P!SendPrim, P!SendConfirmed, P!Outcome
  <2>3. AsksFor(A, l, p, a, REQ_DATA1)
    <3>1. REQ_DATA1 \in CountedServices /\ On(l, a) /\ IsLink(A, l) /\ l.sent = NoFrame
      BY <1>5, <1>7, PNames DEF CountedServices, P!IsActive, On, LinkSame, P!Idle
    <3> HIDE DEF p, a
    <3>2. p = P!SendPrim(l, a, REQ_DATA1, TRUE)
      BY DEF p
    <3> QED
      BY <1>1, <3>1, <3>2, SendCounted
  <2> HIDE DEF p
  <2>4. r.link = p.link /\ r.out = p.out /\ r.done = o.done /\ r.deliver = o.deliver
    BY <2>1, <2>2
  <2>5. AsksFor(A, k, p, a, REQ_DATA1)
    <3>1. /\ l.sent = k.sent
          /\ \A y \in A : /\ l.devs[y].fcb = k.devs[y].fcb /\ (On(l, y) => On(k, y))
                          /\ y # a => (On(l, y) <=> On(k, y))
      BY <1>5 DEF LinkSame
    <3> HIDE DEF k, a
    <3> QED
      BY <2>3, <3>1, AsksForFrom
  <2> QED
    BY <2>4, <2>5, AsksForMovesOn
<1>8. CASE f.control.acd /\ ~(P!IsActive(l, a) /\ P!Idle(l))
  <2>1. r = [o EXCEPT !.link = l]
    BY <1>4, <1>8
  <2>2. r.link = l /\ r.out = o.out /\ r.done = o.done /\ r.deliver = o.deliver
    BY <2>1
  <2> QED
    BY <1>5, <2>2 DEF MovesOn
<1> QED
  BY <1>6, <1>7, <1>8

\* handle_frame with an answer of the device that was asked.
LEMMA HandleAnswer ==
    ASSUME NEW A, NEW l, IsLink(A, l), l.sent # NoFrame, NEW f, Answers(l.sent.addr, f),
           NEW o, o = P!HandleFrame(l, f)
    PROVE  /\ \E m : LinkConfirmed(A, l, m) /\ MovesOn(A, m, o.link, o.out)
           /\ o.done = l.sent /\ (o.deliver <=> Delivers(f, l.sent))
<1> DEFINE a == f.addr
           x == [l.devs[a] EXCEPT !.busy = f.control.dfc]
           k == [l EXCEPT !.devs[a] = x]
           p == P!Answered(k, f)
<1>1. /\ a \in A /\ a = l.sent.addr /\ l.devs[a] \in Dev /\ f.control \in ControlField
      /\ f.control.dfc \in BOOLEAN /\ f.kind # "SingleCharAck" /\ ~f.control.prm /\ DOMAIN l.devs = A
  <2>1. a = l.sent.addr /\ f.control \in ControlField /\ f.kind # "SingleCharAck"
    BY AnswerKinds
  <2>2. l.sent.addr \in A
    BY AskKinds DEF IsLink
  <2> QED
    BY <2>1, <2>2 DEF IsLink, LinkRec, ControlField, Answers
<1>2. x \in Dev /\ x.fcb = l.devs[a].fcb /\ x.phase = l.devs[a].phase
  BY <1>1 DEF Dev
<1>3. o = P!AccessDemand(p, f)
  <2>1. k = [l EXCEPT !.devs[f.addr].busy = f.control.dfc]
    OBVIOUS
  <2> HIDE DEF k
  <2> QED
    BY <1>1, <2>1 DEF P!HandleFrame
<1> HIDE DEF x
<1>4. LinkSame(A, l, k)
  <2>1. k = [l EXCEPT !.devs[a] = x]
    OBVIOUS
  <2> HIDE DEF k, a
  <2> QED
    BY <1>1, <1>2, <2>1, DevChanged
<1> HIDE DEF k
<1>5. /\ p.out = <<>> /\ LinkConfirmed(A, k, p.link) /\ p.done = k.sent
      /\ p.deliver <=> Delivers(f, k.sent)
      /\ p = [link |-> p.link, out |-> p.out, done |-> p.done, deliver |-> p.deliver]
  <2>1. IsLink(A, k) /\ k.sent = l.sent
    BY <1>4 DEF LinkSame
  <2>2. k.sent # NoFrame /\ Answers(k.sent.addr, f)
    BY <2>1
  <2>3. p = P!Answered(k, f)
    OBVIOUS
  <2> HIDE DEF p
  <2> QED
    BY <2>1, <2>2, <2>3, AnsweredIs
<1> HIDE DEF p
<1>6. k.sent = l.sent /\ LinkConfirmed(A, l, p.link) /\ IsLink(A, p.link)
  <2>1. LinkConfirmed(A, k, p.link)
    BY <1>5
  <2>2. LinkConfirmed(A, l, p.link)
    BY <1>4, <2>1, ConfirmedSame, Zenon
  <2>3. IsLink(A, p.link)
    BY <2>1 DEF LinkConfirmed, Over
  <2> QED
    BY <1>4, <2>2, <2>3 DEF LinkSame
<1>7. o.done = p.done /\ o.deliver = p.deliver /\ MovesOn(A, p.link, o.link, o.out)
  BY <1>1, <1>3, <1>5, <1>6, AccessDemandIs
<1> QED
  BY <1>5, <1>6, <1>7

\* on_t1_timeout
LEMMA T1TimeoutIs ==
    ASSUME NEW A, NEW l, IsLink(A, l), l.sent # NoFrame, NEW o, o = P!T1Timeout(l)
    PROVE  \/ P!Exhausted(l) /\ LinkGivenUp(A, l, o.link) /\ o.out = <<>>
           \/ ~P!Exhausted(l) /\ LinkSame(A, l, o.link) /\ o.out = <<l.sent>>
<1>1. CASE P!Exhausted(l)
  <2> DEFINE m == [P!Released(l) EXCEPT !.devs[l.sent.addr] = P!GivenUp(@)]
  <2>1. o = [link |-> m, out |-> <<>>, done |-> P!NoFrame, deliver |-> FALSE]
    BY <1>1 DEF P!T1Timeout, P!Unmoved, P!Outcome
  <2>2. LinkGivenUp(A, l, m)
    BY GivenUpIs
  <2> HIDE DEF m
  <2>3. o.link = m /\ o.out = <<>>
    BY <2>1
  <2> QED
    BY <1>1, <2>2, <2>3
<1>2. CASE ~P!Exhausted(l)
  <2> DEFINE m == [l EXCEPT !.retry = l.retry + 1]
  <2>1. o = [link |-> m, out |-> <<l.sent>>, done |-> P!NoFrame, deliver |-> FALSE]
    BY <1>2 DEF P!T1Timeout, P!Outcome
  <2>2. l.retry + 1 \in Nat
    BY DEF IsLink, LinkRec
  <2>3. /\ m \in LinkRec(A) /\ m.sent = l.sent
        /\ m.order = l.order /\ m.idx = l.idx /\ m.devs = l.devs
    BY <2>2 DEF IsLink, LinkRec
  <2> HIDE DEF m
  <2>4. LinkSame(A, l, m)
    BY <2>3 DEF LinkSame, IsLink, On
  <2>5. o.link = m /\ o.out = <<l.sent>>
    BY <2>1
  <2> QED
    BY <1>2, <2>4, <2>5
<1> QED
  BY <1>1, <1>2

\* on_t3_timeout
LEMMA T3TimeoutIs ==
    ASSUME NEW A, NEW l, IsLink(A, l), NEW o, o = P!T3Timeout(l)
    PROVE  MovesOn(A, l, o.link, o.out)
<1> DEFINE T == {i \in DOMAIN l.order : P!IsActive(l, l.order[i])}
           a == l.order[P!Min(T)]
<1>0. LinkSame(A, l, l) /\ l.order \in Seq(A)
  BY DEF LinkSame, IsLink, LinkRec
<1>1. CASE l.sent # NoFrame \/ T = {}
  <2>1. o = [link |-> l, out |-> <<>>, done |-> NoFrame, deliver |-> FALSE]
    BY <1>1, PNames DEF P!T3Timeout, P!Idle, P!Unmoved, P!Outcome
  <2>2. o.link = l /\ o.out = <<>>
    BY <2>1
  <2> QED
    BY <1>0, <2>2 DEF MovesOn
<1>2. CASE l.sent = NoFrame /\ T # {}
  <2>1. o = P!SendPrim(l, a, REQ_DATA2, TRUE)
    BY <1>2, PNames DEF P!T3Timeout, P!Idle
  <2>2. T \subseteq Nat
    BY <1>0
  <2>3. P!Min(T) \in T
    <3> HIDE DEF T
    <3> QED
      BY <1>2, <2>2, PMinOf
  <2>4. a \in A /\ On(l, a)
    <3> DEFINE i == P!Min(T)
    <3>1. i \in DOMAIN l.order /\ P!IsActive(l, l.order[i])
      BY <2>3
    <3> HIDE DEF i
    <3>2. l.order[i] \in A /\ On(l, l.order[i])
      BY <1>0, <3>1 DEF P!IsActive, On
    <3> QED
      BY <3>2 DEF i
  <2> HIDE DEF a
  <2>5. AsksFor(A, l, o, a, REQ_DATA2)
    BY <1>2, <2>1, <2>4, SendCounted DEF CountedServices
  <2> QED
    BY <2>5, AsksForMovesOn
<1> QED
  BY <1>1, <1>2

\* handle_link_request
LEMMA LinkRequestIs ==
    ASSUME NEW A, NEW l, IsLink(A, l), NEW fun, NEW a \in A, NEW o, o = P!LinkRequest(l, fun, a)
    PROVE  MovesOn(A, l, o.link, o.out)
<1>0. LinkSame(A, l, l) /\ l.devs[a] \in Dev
  BY DEF LinkSame, IsLink, LinkRec
<1>1. /\ REQ_STATUS \notin P!Resets /\ REQ_DATA2 \notin P!Resets /\ REQ_STATUS # REQ_DATA2
      /\ P!Resets \subseteq PlainServices /\ REQ_STATUS \in PlainServices
      /\ REQ_DATA2 \in CountedServices
  BY Codes
<1>2. CASE l.sent = NoFrame /\ fun \in P!Resets
  <2> DEFINE x == [l.devs[a] EXCEPT !.phase = "Reset"]
             k == [l EXCEPT !.devs[a] = x]
  <2>1. o = P!SendPrim(k, a, fun, FALSE)
    <3>1. k = [l EXCEPT !.devs[a].phase = "Reset"]
      OBVIOUS
    <3> HIDE DEF k
    <3> QED
      BY <1>1, <1>2, <3>1, PNames DEF P!LinkRequest, P!Idle
  <2>2. x \in Dev /\ x.fcb = l.devs[a].fcb /\ x.phase = "Reset"
    BY <1>0 DEF Dev
  <2> HIDE DEF x
  <2>3. /\ IsLink(A, k) /\ k.sent = l.sent /\ k.devs[a] = x
        /\ \A b \in A : b # a => k.devs[b] = l.devs[b]
    <3>1. /\ k \in LinkRec(A) /\ k.sent = l.sent /\ k.order = l.order /\ k.idx = l.idx
          /\ k.devs[a] = x /\ \A b \in A : b # a => k.devs[b] = l.devs[b]
      BY <2>2 DEF IsLink, LinkRec
    <3> HIDE DEF k
    <3> QED
      BY <3>1 DEF IsLink
  <2> HIDE DEF k
  <2>4. ~On(k, a) /\ k.sent = NoFrame /\ fun \in PlainServices
    BY <1>1, <1>2, <2>2, <2>3 DEF On
  <2>5. AsksFor(A, k, o, a, fun)
    BY <2>1, <2>3, <2>4, SendPlain
  <2>6. \A y \in A : /\ k.devs[y].fcb = l.devs[y].fcb /\ (On(k, y) => On(l, y))
                     /\ y # a => (On(k, y) <=> On(l, y))
    BY <2>2, <2>3, <2>4 DEF On
  <2>7. AsksFor(A, l, o, a, fun)
    BY <2>3, <2>5, <2>6, AsksForFrom
  <2> QED
    BY <2>7, AsksForMovesOn
<1>3. CASE l.sent = NoFrame /\ fun = REQ_STATUS
  <2>1. o = P!SendPrim(l, a, REQ_STATUS, FALSE)
    BY <1>1, <1>3, PNames DEF P!LinkRequest, P!Idle
  <2>2. AsksFor(A, l, o, a, REQ_STATUS)
    BY <1>1, <1>3, <2>1, SendPlain
  <2> QED
    BY <2>2, AsksForMovesOn
<1>4. CASE l.sent = NoFrame /\ fun = REQ_DATA2 /\ P!IsActive(l, a)
  <2>1. o = P!SendPrim(l, a, REQ_DATA2, TRUE)
    BY <1>1, <1>4, PNames DEF P!LinkRequest, P!Idle
  <2>2. On(l, a)
    BY <1>4 DEF P!IsActive, On
  <2>3. AsksFor(A, l, o, a, REQ_DATA2)
    BY <1>1, <1>4, <2>1, <2>2, SendCounted
  <2> QED
    BY <2>3, AsksForMovesOn
<1>5. CASE /\ ~(l.sent = NoFrame /\ fun \in P!Resets)
           /\ ~(l.sent = NoFrame /\ fun = REQ_STATUS)
           /\ ~(l.sent = NoFrame /\ fun = REQ_DATA2 /\ P!IsActive(l, a))
  <2>1. o = P!Unmoved(l)
    BY <1>5, PNames DEF P!LinkRequest, P!Idle
  <2>2. o.link = l /\ o.out = <<>>
    BY <2>1 DEF P!Unmoved, P!Outcome
  <2> QED
    BY <1>0, <2>2 DEF MovesOn
<1> QED
  BY <1>2, <1>3, <1>4, <1>5

\* A tick has sent a request that was queued, or polled a device; q has become p.
Ticked(A, l, o, q, p) ==
    \/ MovesOn(A, l, o.link, o.out) /\ p = q
    \/ \E i \in 1 .. Len(q) :
         /\ Launch(A, l, o.link, o.link.sent, {q[i].asdu}) /\ o.out = <<o.link.sent>>
         /\ p = SubSeq(q, 1, i - 1) \o SubSeq(q, i + 1, Len(q))

\* tick on an idle link: a queued ASDU is sent, or a device is polled.
LEMMA TickIs ==
    ASSUME NEW A, NEW l, IsLink(A, l), l.sent = NoFrame, NEW q \in Seq(Item(A)),
           NEW o, o = P!Tick(l, q)
    PROVE  Ticked(A, l, o, q, P!QueueAfter(l, q))
<1>1. CASE P!Sendable(l, q) = {}
  <2>1. o = P!PollDevice([l EXCEPT !.idx = 1 + (@ % Len(l.order))], l.order[l.idx])
    BY <1>1, PNames DEF P!Tick, P!Idle
  <2>2. \A i \in DOMAIN q : q[i].addr \in DOMAIN l.devs
    <3>1. \A i \in DOMAIN q : q[i] \in Item(A)
      OBVIOUS
    <3>2. DOMAIN l.devs = A
      BY DEF IsLink, LinkRec
    <3> QED
      BY <3>1, <3>2 DEF Item
  <2>3. P!QueueAfter(l, q) = q
    BY <1>1, <2>2, AllKnown DEF P!QueueAfter
  <2>4. PICK a \in A : \E f : AsksFor(A, l, o, a, f)
    BY <2>1, PollLaunches
  <2> QED
    BY <2>3, <2>4, AsksForMovesOn DEF Ticked
<1>2. CASE P!Sendable(l, q) # {}
  <2>1. o = P!SendQueued(l, q)
    BY <1>2, PNames DEF P!Tick, P!Idle
  <2> DEFINE i == P!Min(P!Sendable(l, q))
  <2>2. /\ i \in 1 .. Len(q)
        /\ P!QueueAfter(l, q) = SubSeq(q, 1, i - 1) \o SubSeq(q, i + 1, Len(q))
    BY <1>2, FirstSendable
  <2>3. Launch(A, l, o.link, o.link.sent, {q[i].asdu}) /\ o.out = <<o.link.sent>>
    BY <1>2, <2>1, SendQueuedLaunches
  <2> HIDE DEF i
  <2> QED
    BY <2>2, <2>3 DEF Ticked
<1> QED
  BY <1>1, <1>2

-----------------------------------------------------------------------------
(***************************************************************************)
(* What a device makes of a request.                                       *)
(***************************************************************************)

\* Device d has become e by putting k new messages into its queue.
More(d, e, k) ==
    /\ e.class1 \in Seq(Reports) /\ Len(e.class1) = Len(d.class1) + k
    /\ e.count = d.count + k
    /\ \A i \in 1 .. Len(d.class1) : e.class1[i] = d.class1[i]
    /\ \A j \in 1 .. k : e.class1[Len(d.class1) + j].n = d.count + j

\* The types of the messages a device puts into its queue.
Types == {"IDENTIFICATION", "TIME_SYNC", "TIME_TAGGED", "GI_TERMINATION"}

\* Messages are numbered on from those before.
LEMMA PutIs ==
    ASSUME NEW d \in DeviceRec, NEW types \in Seq(Types), NEW e, e = Put(d, types)
    PROVE  /\ e \in DeviceRec /\ More(d, e, Len(types))
           /\ e.fcbExpected = d.fcbExpected
<1> DEFINE s == [i \in DOMAIN types |-> Message(types[i], d.count + i)]
           c == d.class1 \o s
<1>1. /\ d.class1 \in Seq(Reports) /\ d.count \in Nat /\ Len(types) \in Nat
      /\ DOMAIN types = 1 .. Len(types)
  BY DEF DeviceRec
<1>2. \A i \in 1 .. Len(types) : s[i] \in Reports /\ s[i].n = d.count + i
  <2> TAKE i \in 1 .. Len(types)
  <2>1. types[i] \in Types /\ d.count + i \in Nat
    BY <1>1
  <2>2. s[i] = [type |-> types[i], n |-> d.count + i]
    BY <1>1 DEF Message
  <2> HIDE DEF s
  <2> QED
    BY <2>1, <2>2 DEF Reports, Types
<1>3. s \in Seq(Reports) /\ Len(s) = Len(types)
  <2>1. s \in [1 .. Len(types) -> Reports]
    BY <1>1, <1>2
  <2> HIDE DEF s
  <2> QED
    BY <1>1, <2>1
<1>4. e = [d EXCEPT !.class1 = c, !.count = d.count + Len(types)]
  BY DEF Put
<1> HIDE DEF s
<1>5. /\ c \in Seq(Reports) /\ Len(c) = Len(d.class1) + Len(types)
      /\ \A i \in 1 .. Len(d.class1) : c[i] = d.class1[i]
      /\ \A j \in 1 .. Len(types) : c[Len(d.class1) + j] = s[j]
  BY <1>1, <1>3
<1> HIDE DEF c
<1>6. /\ e \in DeviceRec /\ e.class1 = c /\ e.count = d.count + Len(types)
      /\ e.fcbExpected = d.fcbExpected
  <2> DEFINE n == d.count + Len(types)
  <2>1. n \in Nat /\ c \in Seq(Reports) /\ e = [d EXCEPT !.class1 = c, !.count = n]
    BY <1>1, <1>4, <1>5
  <2> HIDE DEF n
  <2>2. e \in DeviceRec /\ e.class1 = c /\ e.count = n /\ e.fcbExpected = d.fcbExpected
    BY <2>1 DEF DeviceRec
  <2> QED
    BY <2>2 DEF n
<1> QED
  BY <1>1, <1>2, <1>5, <1>6 DEF More

\* The control field of an answer.
LEMMA SecondaryIs ==
    ASSUME NEW fun \in {CONF_ACK, RESP_DATA, RESP_NO_DATA, RESP_STATUS}, NEW acd, acd \in BOOLEAN,
           NEW c, c = Secondary(fun, acd, FALSE)
    PROVE  c \in ControlField /\ c.prm = FALSE /\ c.fun = fun
<1>1. fun \in 0 .. 15
  BY Codes
<1> QED
  BY <1>1 DEF Secondary, ControlField

\* Device d has become e by keeping the answer it gives, and nothing else of it has changed.
Replies(a, d, o) ==
    /\ o.device \in DeviceRec /\ o.out = <<o.device.lastResp>> /\ Answers(a, o.device.lastResp)
    /\ o.device.fcbExpected = d.fcbExpected /\ o.device.class1 = d.class1
    /\ o.device.count = d.count

\* An answer that is kept.
LEMMA RespondsIs ==
    ASSUME NEW a \in Nat, NEW d \in DeviceRec, NEW f, Answers(a, f), NEW o, o = Responds(d, f)
    PROVE  Replies(a, d, o) /\ o.device.lastResp = f
<1>1. o = [device |-> [d EXCEPT !.lastResp = f], out |-> <<f>>]
  BY DEF Responds
<1>2. f \in Keeps
  BY DEF Answers, Keeps
<1> QED
  BY <1>1, <1>2 DEF DeviceRec, Replies

\* An answer without an ASDU.
LEMMA FixedReplies ==
    ASSUME NEW a \in Nat, NEW d \in DeviceRec,
           NEW fun \in {CONF_ACK, RESP_NO_DATA, RESP_STATUS}, NEW acd, acd \in BOOLEAN,
           NEW o, o = FixedResponse(d, a, fun, acd)
    PROVE  Replies(a, d, o) /\ o.device.lastResp.kind = "Fixed"
<1> DEFINE c == Secondary(fun, acd, FALSE)
           f == Fixed(c, a)
<1>1. c \in ControlField /\ c.prm = FALSE /\ c.fun = fun
  BY SecondaryIs
<1>2. o = Responds(d, f)
  BY DEF FixedResponse
<1> HIDE DEF c
<1>3. f \in Answer(a) /\ f.kind = "Fixed" /\ f.control = c
  BY <1>1 DEF Fixed, Answer
<1> HIDE DEF f
<1>4. Answers(a, f)
  BY <1>1, <1>3 DEF Answers
<1>5. Replies(a, d, o) /\ o.device.lastResp = f
  BY <1>2, <1>4, RespondsIs
<1> QED
  BY <1>3, <1>5

\* An answer with one.
LEMMA ClassReplies ==
    ASSUME NEW a \in Nat, NEW d \in DeviceRec, NEW x \in Reports \cup {Measurands},
           NEW o, o = ClassResponse(d, a, x)
    PROVE  Replies(a, d, o) /\ Carried(o.device.lastResp) = {x}
<1> DEFINE more == d.class1 # <<>>
           c == Secondary(RESP_DATA, more, FALSE)
           f == Variable(c, a, x)
<1>1. c \in ControlField /\ c.prm = FALSE /\ c.fun = RESP_DATA
  <2>1. more \in BOOLEAN
    OBVIOUS
  <2> HIDE DEF more
  <2> QED
    BY <2>1, SecondaryIs
<1>2. o = Responds(d, f)
  BY DEF ClassResponse
<1> HIDE DEF c
<1>3. f \in Answer(a) /\ f.kind = "Variable" /\ f.control = c /\ Carried(f) = {x}
  BY <1>1 DEF Variable, Answer, Carried
<1> HIDE DEF f
<1>4. Answers(a, f)
  BY <1>1, <1>3 DEF Answers
<1>5. Replies(a, d, o) /\ o.device.lastResp = f
  BY <1>2, <1>4, RespondsIs
<1> QED
  BY <1>3, <1>5

\* Device d has taken request f as new and become e: it keeps the answer, which
\* carries the first message of its queue or none, and has put messages there.
Serves(a, d, f, e) ==
    /\ IsDevice(a, e) /\ e.lastResp # NoFrame
    /\ f.control.fcv => e.fcbExpected = ~d.fcbExpected
    /\ f.control.fun \in P!Resets => e.fcbExpected = TRUE
    /\ ~f.control.fcv /\ f.control.fun \notin P!Resets => e.fcbExpected = d.fcbExpected
    /\ e.lastResp.kind = "Variable" => f.control.fun \in P!Polls
    /\ \/ Reported(e.lastResp) = {} /\ \E k \in Nat : More(d, e, k)
       \/ /\ d.class1 # <<>> /\ Reported(e.lastResp) = {Head(d.class1)}
          /\ e.class1 = Tail(d.class1) /\ e.count = d.count

\* What a device does with a command.
LEMMA ReactionIs ==
    ASSUME NEW x \in Requests
    PROVE  Reaction(x) \in Seq(Types)
<1>1. /\ <<"TIME_SYNC">> \in Seq(Types) /\ <<"TIME_TAGGED">> \in Seq(Types)
      /\ <<"TIME_TAGGED", "GI_TERMINATION">> \in Seq(Types)
  BY DEF Types
<1>2. x.type \in {"TIME_SYNC", "GENERAL_INTERROGATION", "GENERAL_COMMAND"}
  BY DEF Requests, TimeSync, Interrogation
<1> QED
  BY <1>1, <1>2 DEF Reaction

\* An answer without an ASDU to a request by which messages were put into the queue.
LEMMA TookFixed ==
    ASSUME NEW a \in Nat, NEW d \in DeviceRec, NEW f, NEW k \in Nat,
           NEW m \in DeviceRec, More(d, m, k),
           f.control.fcv => m.fcbExpected = ~d.fcbExpected,
           f.control.fun \in P!Resets => m.fcbExpected = TRUE,
           ~f.control.fcv /\ f.control.fun \notin P!Resets => m.fcbExpected = d.fcbExpected,
           NEW o, Replies(a, m, o), o.device.lastResp.kind = "Fixed"
    PROVE  Serves(a, d, f, o.device)
<1> DEFINE e == o.device
<1>1. /\ e \in DeviceRec /\ Answers(a, e.lastResp) /\ e.fcbExpected = m.fcbExpected
      /\ e.class1 = m.class1 /\ e.count = m.count /\ e.lastResp.kind = "Fixed"
  BY DEF Replies
<1> HIDE DEF e
<1>2. Reported(e.lastResp) = {} /\ e.lastResp # NoFrame
  BY <1>1, AnswerKinds
<1>3. IsDevice(a, e) /\ More(d, e, k)
  BY <1>1 DEF IsDevice, More
<1> QED
  BY <1>1, <1>2, <1>3 DEF Serves, e

\* An answer with the ASDU x, when no message was put there.
LEMMA TookClass ==
    ASSUME NEW a \in Nat, NEW d \in DeviceRec, NEW f, f.control.fun \in P!Polls, f.control.fcv,
           NEW m \in DeviceRec, m.fcbExpected = ~d.fcbExpected, m.count = d.count,
           NEW x \in Reports \cup {Measurands},
           \/ x = Measurands /\ m.class1 = d.class1
           \/ x \in Reports /\ d.class1 # <<>> /\ x = Head(d.class1) /\ m.class1 = Tail(d.class1),
           NEW o, Replies(a, m, o), Carried(o.device.lastResp) = {x}
    PROVE  Serves(a, d, f, o.device)
<1> DEFINE e == o.device
<1>1. /\ e \in DeviceRec /\ Answers(a, e.lastResp) /\ e.fcbExpected = m.fcbExpected
      /\ e.class1 = m.class1 /\ e.count = m.count /\ Carried(e.lastResp) = {x}
  BY DEF Replies
<1> HIDE DEF e
<1>2. Reported(e.lastResp) = {x} \cap Reports /\ e.lastResp # NoFrame
  BY <1>1, AnswerKinds
<1>3. IsDevice(a, e) /\ f.control.fun \notin P!Resets
  BY <1>1, Codes DEF IsDevice
<1>4. \/ Reported(e.lastResp) = {} /\ \E k \in Nat : More(d, e, k)
      \/ /\ d.class1 # <<>> /\ Reported(e.lastResp) = {Head(d.class1)}
         /\ e.class1 = Tail(d.class1) /\ e.count = d.count
  <2>1. CASE x = Measurands /\ m.class1 = d.class1
    <3>1. Measurands \notin Reports
      BY Numbered
    <3>2. More(d, e, 0)
      BY <1>1, <2>1 DEF More, DeviceRec
    <3> QED
      BY <1>2, <2>1, <3>1, <3>2
  <2>2. CASE x \in Reports /\ d.class1 # <<>> /\ x = Head(d.class1) /\ m.class1 = Tail(d.class1)
    BY <1>1, <1>2, <2>2
  <2> QED
    BY <2>1, <2>2
<1> QED
  BY <1>1, <1>2, <1>3, <1>4 DEF Serves, e

\* react to a request that is new.
LEMMA ServiceIs ==
    ASSUME NEW A \in SUBSET Nat, NEW a \in A, NEW d, IsDevice(a, d), NEW f, Asks(A, f),
           NEW o, o = Service(Counting(d, f), a, f)
    PROVE  Serves(a, d, f, o.device) /\ o.out = <<o.device.lastResp>>
<1> DEFINE c == Counting(d, f)
           fun == f.control.fun
           more == c.class1 # <<>>
<1>1. /\ d \in DeviceRec /\ c \in DeviceRec /\ c.class1 = d.class1 /\ c.count = d.count
      /\ f.control.fcv => c.fcbExpected = ~d.fcbExpected
      /\ ~f.control.fcv => c.fcbExpected = d.fcbExpected
  <2>1. d \in DeviceRec
    BY DEF IsDevice
  <2>2. CASE f.control.fcv
    <3> DEFINE b == ~d.fcbExpected
    <3>1. b \in BOOLEAN /\ c = [d EXCEPT !.fcbExpected = b]
      BY <2>2 DEF Counting
    <3> HIDE DEF b, c
    <3>2. c \in DeviceRec /\ c.class1 = d.class1 /\ c.count = d.count /\ c.fcbExpected = b
      BY <2>1, <3>1 DEF DeviceRec
    <3> QED
      BY <2>1, <2>2, <3>2 DEF b
  <2>3. CASE ~f.control.fcv
    BY <2>1, <2>3 DEF Counting
  <2> QED
    BY <2>2, <2>3
<1>2. o = CASE fun = REQ_STATUS -> FixedResponse(c, a, RESP_STATUS, more)
            [] fun \in {RESET_LINK, 7} ->
                 FixedResponse(Put([c EXCEPT !.fcbExpected = TRUE], <<"IDENTIFICATION">>),
                               a, CONF_ACK, TRUE)
            [] fun = REQ_DATA1 /\ more ->
                 ClassResponse([c EXCEPT !.class1 = Tail(@)], a, Head(c.class1))
            [] fun = REQ_DATA1 /\ ~more -> FixedResponse(c, a, RESP_NO_DATA, FALSE)
            [] fun = REQ_DATA2 -> ClassResponse(c, a, Measurands)
            [] fun = USER_DATA_CONF ->
                 LET e == Put(c, Reaction(f.asdu))
                 IN  FixedResponse(e, a, CONF_ACK, e.class1 # <<>>)
  BY DEF Service
<1>3. /\ a \in Nat /\ fun \in {0, 3, 7, 9, 10, 11}
      /\ f.control.fcv <=> fun \in {3, 10, 11}
      /\ fun = 3 => f.asdu \in Requests
  <2>1. fun = USER_DATA_CONF => f.asdu \in Requests
    BY AskKinds DEF Asks
  <2> QED
    BY <2>1, Codes DEF Asks
<1> HIDE DEF c, fun
<1>4. Replies(a, c, o) /\ o.device.lastResp.kind = "Fixed" /\ fun \notin {0, 7}
        => Serves(a, d, f, o.device)
  <2> SUFFICES ASSUME Replies(a, c, o), o.device.lastResp.kind = "Fixed", fun \notin {0, 7}
               PROVE  Serves(a, d, f, o.device)
    OBVIOUS
  <2>1. More(d, c, 0)
    BY <1>1 DEF More, DeviceRec
  <2>2. f.control.fun \notin P!Resets
    BY Codes DEF fun
  <2> QED
    BY <1>1, <1>3, <2>1, <2>2, TookFixed
<1>5. ASSUME Serves(a, d, f, o.device), \E m : Replies(a, m, o)
      PROVE  Serves(a, d, f, o.device) /\ o.out = <<o.device.lastResp>>
  BY <1>5 DEF Replies
<1>6. more \in BOOLEAN
  OBVIOUS
<1>7. CASE fun = 9
  <2>1. o = FixedResponse(c, a, RESP_STATUS, more)
    BY <1>2, <1>7, Codes
  <2> HIDE DEF more
  <2>2. Replies(a, c, o) /\ o.device.lastResp.kind = "Fixed"
    BY <1>1, <1>3, <1>6, <2>1, FixedReplies
  <2> QED
    BY <1>4, <1>5, <1>7, <2>2
<1>8. CASE fun \in {0, 7}
  <2> DEFINE r == [c EXCEPT !.fcbExpected = TRUE]
             types == <<"IDENTIFICATION">>
             e == Put(r, types)
  <2>1. o = FixedResponse(e, a, CONF_ACK, TRUE)
    <3>1. /\ fun \in {RESET_LINK, 7} /\ fun # REQ_STATUS /\ fun # REQ_DATA1
          /\ fun # REQ_DATA2 /\ fun # USER_DATA_CONF
      BY <1>8, Codes
    <3> QED
      BY <1>2, <3>1, Zenon
  <2>2. /\ r \in DeviceRec /\ r.class1 = d.class1 /\ r.count = d.count /\ r.fcbExpected = TRUE
        /\ types \in Seq(Types) /\ Len(types) = 1
    <3>1. types \in Seq(Types) /\ Len(types) = 1
      BY DEF Types
    <3>2. r \in DeviceRec /\ r.class1 = c.class1 /\ r.count = c.count /\ r.fcbExpected = TRUE
      BY <1>1 DEF DeviceRec
    <3> QED
      BY <1>1, <3>1, <3>2
  <2> HIDE DEF r, types
  <2>3. e \in DeviceRec /\ More(r, e, 1) /\ e.fcbExpected = TRUE
    <3>1. e \in DeviceRec /\ More(r, e, Len(types)) /\ e.fcbExpected = r.fcbExpected
      BY <2>2, PutIs
    <3> QED
      BY <2>2, <3>1
  <2> HIDE DEF e
  <2>4. More(d, e, 1)
    BY <2>2, <2>3 DEF More
  <2>5. Replies(a, e, o) /\ o.device.lastResp.kind = "Fixed"
    BY <1>3, <2>1, <2>3, FixedReplies
  <2>6. ~f.control.fcv /\ f.control.fun \in P!Resets
    BY <1>3, <1>8, Codes DEF fun
  <2>7. Serves(a, d, f, o.device)
    BY <1>1, <1>3, <2>3, <2>4, <2>5, <2>6, TookFixed
  <2> QED
    BY <1>5, <2>5, <2>7
<1>9. CASE fun = 10 /\ more
  <2> DEFINE m == [c EXCEPT !.class1 = Tail(c.class1)]
             x == Head(c.class1)
  <2>1. o = ClassResponse(m, a, x)
    BY <1>2, <1>9, Codes
  <2>2. /\ x \in Reports /\ m \in DeviceRec /\ m.fcbExpected = ~d.fcbExpected /\ m.count = d.count
        /\ x = Head(d.class1) /\ m.class1 = Tail(d.class1) /\ d.class1 # <<>>
    <3>1. c.class1 \in Seq(Reports) /\ c.class1 # <<>>
      BY <1>1, <1>9 DEF DeviceRec
    <3>2. x \in Reports /\ Tail(c.class1) \in Seq(Reports)
      BY <3>1
    <3>3. /\ m \in DeviceRec /\ m.fcbExpected = c.fcbExpected /\ m.count = c.count
          /\ m.class1 = Tail(c.class1)
      BY <1>1, <3>2 DEF DeviceRec
    <3>4. f.control.fcv
      BY <1>3, <1>9
    <3> HIDE DEF m
    <3> QED
      BY <1>1, <3>1, <3>2, <3>3, <3>4
  <2> HIDE DEF m, x
  <2>3. Replies(a, m, o) /\ Carried(o.device.lastResp) = {x}
    BY <1>3, <2>1, <2>2, ClassReplies
  <2>4. f.control.fcv /\ f.control.fun \in P!Polls
    BY <1>3, <1>9, Codes DEF fun
  <2>5. Serves(a, d, f, o.device)
    BY <1>1, <1>3, <2>2, <2>3, <2>4, TookClass
  <2> QED
    BY <1>5, <2>3, <2>5
<1>10. CASE fun = 10 /\ ~more
  <2>1. o = FixedResponse(c, a, RESP_NO_DATA, FALSE)
    BY <1>2, <1>10, Codes
  <2>2. Replies(a, c, o) /\ o.device.lastResp.kind = "Fixed"
    BY <1>1, <1>3, <2>1, FixedReplies
  <2> QED
    BY <1>4, <1>5, <1>10, <2>2
<1>11. CASE fun = 11
  <2>1. o = ClassResponse(c, a, Measurands)
    BY <1>2, <1>11, Codes
  <2>2. Replies(a, c, o) /\ Carried(o.device.lastResp) = {Measurands}
    BY <1>1, <1>3, <2>1, ClassReplies
  <2>3. f.control.fcv /\ f.control.fun \in P!Polls
    BY <1>3, <1>11, Codes DEF fun
  <2>4. Serves(a, d, f, o.device)
    BY <1>1, <1>3, <2>2, <2>3, TookClass
  <2> QED
    BY <1>5, <2>2, <2>4
<1>12. CASE fun = 3
  <2> DEFINE types == Reaction(f.asdu)
             e == Put(c, types)
             full == e.class1 # <<>>
  <2>1. o = FixedResponse(e, a, CONF_ACK, full)
    BY <1>2, <1>12, Codes
  <2>2. types \in Seq(Types) /\ Len(types) \in Nat /\ full \in BOOLEAN
    BY <1>3, <1>12, ReactionIs
  <2> HIDE DEF types, full
  <2>3. e \in DeviceRec /\ More(c, e, Len(types)) /\ e.fcbExpected = c.fcbExpected
    BY <1>1, <2>2, PutIs
  <2> HIDE DEF e
  <2>4. More(d, e, Len(types))
    BY <1>1, <2>3 DEF More
  <2>5. Replies(a, e, o) /\ o.device.lastResp.kind = "Fixed"
    BY <1>3, <2>1, <2>2, <2>3, FixedReplies
  <2>6. f.control.fcv /\ f.control.fun \notin P!Resets
    BY <1>3, <1>12, Codes DEF fun
  <2>7. Serves(a, d, f, o.device)
    BY <1>1, <1>3, <2>2, <2>3, <2>4, <2>5, <2>6, TookFixed
  <2> QED
    BY <1>5, <2>5, <2>7
<1> QED
  BY <1>3, <1>7, <1>8, <1>9, <1>10, <1>11, <1>12

-----------------------------------------------------------------------------
(***************************************************************************)
(* What each step makes of a device's part of the invariant.               *)
(***************************************************************************)

\* The invariant of device a in state d, for link l and the answers u under way.
At(l, a, d, u, act, rec, gone) ==
    DeviceInv(On(l, a), l.devs[a].fcb, Out(l, a), d, u # <<>>, act, rec, gone)

\* Nothing is out to the device, and nothing changes for it but what is lost.
LEMMA OtherAt ==
    ASSUME NEW l, NEW a, NEW d, NEW u, NEW act, NEW rec, NEW gone, At(l, a, d, u, act, rec, gone),
           Out(l, a) = NoFrame, NEW m, Out(m, a) = NoFrame, m.devs[a].fcb = l.devs[a].fcb,
           On(m, a) => On(l, a), NEW v, NEW lose, gone \subseteq lose
    PROVE  At(m, a, d, v, act, rec, lose)
<1>1. /\ Bits(On(l, a), l.devs[a].fcb, NoFrame, d, u # <<>>)
      /\ Kept(On(l, a), NoFrame, d, u # <<>>, act, rec, gone)
      /\ Ordered(NoFrame, d, rec) /\ Complete(d, rec, gone)
  BY DEF At, DeviceInv
<1>2. ~Taken(NoFrame, d)
  BY DEF Taken
<1>3. Bits(On(m, a), m.devs[a].fcb, NoFrame, d, v # <<>>)
  BY <1>1 DEF Bits
<1>4. Kept(On(m, a), NoFrame, d, v # <<>>, act, rec, lose)
  BY <1>1, <1>2 DEF Kept
<1>5. Complete(d, rec, lose)
  BY <1>1 DEF Complete, Somewhere
<1> QED
  BY <1>1, <1>3, <1>4, <1>5 DEF At, DeviceInv

\* A frame is sent to the device, or to another.
LEMMA LaunchAt ==
    ASSUME NEW A, NEW l, NEW m, NEW f, NEW X, Launch(A, l, m, f, X), NEW a \in A, NEW d,
           NEW u, u = <<>>, NEW act, NEW rec, NEW gone, At(l, a, d, u, act, rec, gone)
    PROVE  At(m, a, d, u, act, rec, gone)
<1>1. Out(l, a) = NoFrame /\ m.devs[a].fcb = l.devs[a].fcb /\ (On(m, a) => On(l, a)) /\ m.sent = f
  BY DEF Out, Launch
<1>2. CASE a # f.addr
  <2>1. Out(m, a) = NoFrame
    BY <1>1, <1>2 DEF Out
  <2> QED
    BY <1>1, <2>1, OtherAt
<1>3. CASE a = f.addr
  <2>1. /\ Bits(On(l, a), l.devs[a].fcb, NoFrame, d, u # <<>>)
        /\ Kept(On(l, a), NoFrame, d, u # <<>>, act, rec, gone)
        /\ Ordered(NoFrame, d, rec) /\ Complete(d, rec, gone)
    BY <1>1 DEF At, DeviceInv
  <2>2. /\ f # NoFrame /\ (f.control.fcv => On(m, a) /\ f.control.fcb = l.devs[a].fcb)
        /\ (f.control.fun \in P!Resets => ~On(m, a))
    BY <1>3, AskKinds DEF Launch
  <2>3. Out(m, a) = f /\ ~Taken(NoFrame, d)
    BY <1>1, <1>3, <2>2 DEF Out, Taken
  <2>4. On(l, a) => l.devs[a].fcb = d.fcbExpected
    BY <2>1 DEF Bits
  <2>5. ~Taken(f, d)
    BY <1>1, <2>2, <2>4 DEF Taken
  <2>6. Bits(On(m, a), m.devs[a].fcb, f, d, u # <<>>)
    BY <1>1, <2>2, <2>4 DEF Bits
  <2>7. Kept(On(m, a), f, d, u # <<>>, act, rec, gone)
    BY <1>1, <2>1, <2>3, <2>5 DEF Kept
  <2>8. Ordered(f, d, rec)
    BY <2>1, <2>5 DEF Ordered
  <2> QED
    BY <2>1, <2>3, <2>6, <2>7, <2>8 DEF At, DeviceInv
<1> QED
  BY <1>2, <1>3

\* The link has not changed as far as the exchanges go, and an answer may be gone.
LEMMA SameAt ==
    ASSUME NEW A, NEW l, NEW m, LinkSame(A, l, m), NEW a \in A, NEW d, NEW u, NEW v,
           v # <<>> => u # <<>>,
           NEW act, NEW rec, NEW gone, At(l, a, d, u, act, rec, gone)
    PROVE  At(m, a, d, v, act, rec, gone)
<1>1. Out(m, a) = Out(l, a) /\ m.devs[a].fcb = l.devs[a].fcb /\ (On(m, a) <=> On(l, a))
  BY DEF LinkSame, Out
<1> DEFINE out == Out(l, a)
<1>2. /\ Bits(On(l, a), l.devs[a].fcb, out, d, u # <<>>)
      /\ Kept(On(l, a), out, d, u # <<>>, act, rec, gone)
      /\ Ordered(out, d, rec) /\ Complete(d, rec, gone)
  BY DEF At, DeviceInv
<1> HIDE DEF out
<1>3. Bits(On(m, a), m.devs[a].fcb, out, d, v # <<>>)
  BY <1>1, <1>2 DEF Bits
<1>4. Kept(On(m, a), out, d, v # <<>>, act, rec, gone)
  BY <1>1, <1>2 DEF Kept
<1> QED
  BY <1>1, <1>2, <1>3, <1>4 DEF At, DeviceInv, out

\* The request to the device is given up, or that to another.
LEMMA GivenUpAt ==
    ASSUME NEW A, NEW l, NEW m, LinkGivenUp(A, l, m), NEW a \in A, NEW d, NEW u, NEW v,
           NEW act, NEW rec, NEW gone, At(l, a, d, u, act, rec, gone),
           NEW lose, gone \subseteq lose
    PROVE  At(m, a, d, v, act, rec, lose)
<1>1. Out(m, a) = NoFrame /\ l.sent # NoFrame
  BY DEF LinkGivenUp, Over, Out
<1>2. CASE a # l.sent.addr
  <2>1. Out(l, a) = NoFrame
    BY <1>2 DEF Out
  <2>2. m.devs[a].fcb = l.devs[a].fcb /\ (On(m, a) => On(l, a))
    BY <1>2 DEF LinkGivenUp, Over
  <2> QED
    BY <1>1, <2>1, <2>2, OtherAt
<1>3. CASE a = l.sent.addr
  <2>1. ~On(m, a)
    BY <1>3 DEF LinkGivenUp
  <2>2. Ordered(Out(l, a), d, rec) /\ Complete(d, rec, gone)
    BY DEF At, DeviceInv
  <2>3. ~Taken(NoFrame, d)
    BY DEF Taken
  <2>4. Bits(On(m, a), m.devs[a].fcb, NoFrame, d, v # <<>>)
    BY <2>1 DEF Bits
  <2>5. Kept(On(m, a), NoFrame, d, v # <<>>, act, rec, lose)
    BY <2>1, <2>3 DEF Kept
  <2>6. Ordered(NoFrame, d, rec)
    BY <2>2, <2>3 DEF Ordered
  <2>7. Complete(d, rec, lose)
    BY <2>2 DEF Complete, Somewhere
  <2> QED
    BY <1>1, <2>4, <2>5, <2>6, <2>7 DEF At, DeviceInv
<1> QED
  BY <1>2, <1>3

\* A device that has taken a request as it is answers it again.
LEMMA RepeatAt ==
    ASSUME NEW l, l.sent # NoFrame, NEW a, a = l.sent.addr, NEW d, IsRepeated(d, l.sent),
           Asks({a}, l.sent),
           NEW u, NEW v, NEW act, NEW rec, NEW gone, At(l, a, d, u, act, rec, gone)
    PROVE  At(l, a, d, v, act, rec, gone) /\ d.lastResp # NoFrame
<1> DEFINE out == l.sent
<1>1. Out(l, a) = out
  BY DEF Out
<1>2. /\ Bits(On(l, a), l.devs[a].fcb, out, d, u # <<>>)
      /\ Kept(On(l, a), out, d, u # <<>>, act, rec, gone)
      /\ Ordered(out, d, rec) /\ Complete(d, rec, gone)
  BY <1>1 DEF At, DeviceInv
<1>3. out # NoFrame /\ out.control.fcv /\ d.fcbExpected # out.control.fcb /\ Taken(out, d)
  BY DEF IsRepeated, Taken
<1>4. out.control.fun \notin P!Resets
  BY <1>3, Codes DEF Asks
<1> HIDE DEF out
<1>5. Bits(On(l, a), l.devs[a].fcb, out, d, v # <<>>)
  BY <1>2, <1>3, <1>4 DEF Bits
<1>6. Kept(On(l, a), out, d, v # <<>>, act, rec, gone) /\ d.lastResp # NoFrame
  BY <1>2, <1>3 DEF Kept
<1> QED
  BY <1>1, <1>2, <1>5, <1>6 DEF At, DeviceInv

\* The line is opened again: what the device has is lost.
LEMMA ReopenAt ==
    ASSUME NEW l, NEW a, NEW d, IsDevice(a, d), NEW u, NEW act, NEW rec, NEW gone,
           At(l, a, d, u, act, rec, gone), NEW m, m.sent = NoFrame, ~On(m, a),
           NEW v, NEW lose, gone \cup ToSet(d.class1) \cup Carried(d.lastResp) \subseteq lose
    PROVE  At(m, a, NewRelay(d.count), v, act, rec, lose)
<1> DEFINE e == NewRelay(d.count)
<1>1. /\ e.fcbExpected = TRUE /\ e.lastResp = NoFrame /\ e.class1 = <<>> /\ e.count = d.count
  BY DEF NewRelay
<1> HIDE DEF e
<1>2. Ordered(Out(l, a), d, rec) /\ Complete(d, rec, gone)
  BY DEF At, DeviceInv
<1>3. ~Taken(NoFrame, e) /\ Out(m, a) = NoFrame
  BY DEF Taken, Out
<1>4. Bits(On(m, a), m.devs[a].fcb, NoFrame, e, v # <<>>)
  BY DEF Bits
<1>5. Kept(On(m, a), NoFrame, e, v # <<>>, act, rec, lose)
  BY <1>3 DEF Kept
<1>6. Ordered(NoFrame, e, rec)
  <2>1. Len(e.class1) = 0
    BY <1>1
  <2> QED
    BY <1>1, <1>2, <1>3, <2>1 DEF Ordered
<1>7. Complete(e, rec, lose)
  BY <1>1, <1>2 DEF Complete, Somewhere
<1> QED
  BY <1>3, <1>4, <1>5, <1>6, <1>7 DEF At, DeviceInv, e

\* The application gets the message that answer f carries to a poll.
Gets(f, sent, rec, rec2) ==
    IF Delivers(f, sent) /\ f.asdu \in Reports THEN rec2 = Append(rec, f.asdu) ELSE rec2 = rec

\* The answer d has given is received, or that of another device.
LEMMA ConfirmedAt ==
    ASSUME NEW A, NEW l, IsLink(A, l), NEW m, LinkConfirmed(A, l, m), NEW a \in A,
           NEW d, IsDevice(a, d),
           NEW u, u # <<>>, NEW v, NEW act, NEW rec \in Seq(Reports), NEW gone,
           At(l, a, d, u, act, rec, gone), a = l.sent.addr => d.lastResp # NoFrame,
           NEW rec2, a = l.sent.addr => Gets(d.lastResp, l.sent, rec, rec2),
           a # l.sent.addr => rec2 = rec
    PROVE  At(m, a, d, v, act, rec2, gone) /\ rec2 \in Seq(Reports)
<1>1. Out(m, a) = NoFrame /\ l.sent # NoFrame /\ Asks(A, l.sent)
  BY DEF LinkConfirmed, Over, Out, IsLink
<1>2. CASE a # l.sent.addr
  <2>1. Out(l, a) = NoFrame
    BY <1>2 DEF Out
  <2>2. m.devs[a].fcb = l.devs[a].fcb /\ (On(m, a) => On(l, a))
    BY <1>2 DEF LinkConfirmed, Over
  <2>3. At(m, a, d, v, act, rec, gone)
    BY <1>1, <2>1, <2>2, OtherAt
  <2> QED
    BY <1>2, <2>3
<1>3. CASE a = l.sent.addr
  <2> DEFINE out == l.sent
             f == d.lastResp
             c == out.control
  <2>1. /\ Bits(On(l, a), l.devs[a].fcb, out, d, u # <<>>)
        /\ Kept(On(l, a), out, d, u # <<>>, act, rec, gone)
        /\ Ordered(out, d, rec) /\ Complete(d, rec, gone)
    BY <1>1, <1>3 DEF At, DeviceInv, Out
  <2>2. Answers(a, f) /\ Gets(f, out, rec, rec2) /\ out # NoFrame
    BY <1>1, <1>3 DEF IsDevice
  <2>3. /\ out.control.fcv => m.devs[a].fcb = ~out.control.fcb
        /\ out.control.fun \in P!Resets => m.devs[a].fcb = TRUE
        /\ ~out.control.fcv /\ out.control.fun \notin P!Resets
             => m.devs[a].fcb = l.devs[a].fcb /\ (On(m, a) => On(l, a))
        /\ out.control.fcb \in BOOLEAN /\ d.fcbExpected \in BOOLEAN
        /\ out.control.fun \in P!Resets => ~out.control.fcv
    BY <1>1, <1>3, AskKinds, Codes DEF LinkConfirmed, IsDevice, DeviceRec, Asks
  <2>4. On(m, a) => m.devs[a].fcb = d.fcbExpected
    <3>1. CASE out.control.fcv
      BY <2>1, <2>2, <2>3, <3>1 DEF Bits, Taken
    <3>2. CASE out.control.fun \in P!Resets
      BY <2>1, <2>2, <2>3, <3>2 DEF Bits
    <3>3. CASE ~out.control.fcv /\ out.control.fun \notin P!Resets
      BY <2>1, <2>3, <3>3 DEF Bits
    <3> QED
      BY <3>1, <3>2, <3>3
  <2>5. f.kind = "Variable" => out.control.fcv /\ Taken(out, d) /\ out.control.fun \in P!Polls
    BY <2>1, <2>2 DEF Kept, Bits
  <2>6. /\ f.kind \in {"Fixed", "Variable"} /\ (f.kind = "Fixed" => Reported(f) = {})
        /\ f.kind = "Variable" => f.asdu \in Reports \cup {Measurands} /\ Carried(f) = {f.asdu}
        /\ Reported(f) = Carried(f) \cap Reports
    BY <2>2, AnswerKinds
  <2>7. ~Taken(NoFrame, d)
    BY DEF Taken
  <2> HIDE DEF out, c, f
  <2>8. CASE Delivers(f, out) /\ f.asdu \in Reports
    <3> DEFINE x == f.asdu
    <3>1. /\ rec2 = Append(rec, x) /\ x \in Reports /\ Reported(f) = {x} /\ Taken(out, d)
      BY <2>2, <2>5, <2>6, <2>8 DEF Gets, Delivers
    <3> HIDE DEF x
    <3>2. /\ rec2 \in Seq(Reports) /\ Len(rec2) = Len(rec) + 1 /\ Len(rec) \in Nat
          /\ rec2[Len(rec) + 1] = x /\ \A i \in 1 .. Len(rec) : rec2[i] = rec[i]
      BY <3>1
    <3>3. x \in ToSet(rec2) /\ ToSet(rec) \subseteq ToSet(rec2)
      BY <3>2 DEF ToSet
    <3>4. Bits(On(m, a), m.devs[a].fcb, NoFrame, d, v # <<>>)
      BY <2>4 DEF Bits
    <3>5. Kept(On(m, a), NoFrame, d, v # <<>>, act, rec2, gone)
      <4>1. Reported(d.lastResp) \subseteq ToSet(rec2)
        BY <3>1, <3>3 DEF f
      <4> QED
        BY <2>7, <4>1 DEF Kept
    <3>6. Ordered(NoFrame, d, rec2)
      <4>1. /\ \A i, j \in 1 .. Len(rec) : i < j => rec[i].n < rec[j].n
            /\ \A i, j \in 1 .. Len(d.class1) : i < j => d.class1[i].n < d.class1[j].n
            /\ \A i \in 1 .. Len(rec) : rec[i].n <= d.count
                                        /\ \A j \in 1 .. Len(d.class1) : rec[i].n < d.class1[j].n
            /\ \A j \in 1 .. Len(d.class1) : d.class1[j].n <= d.count
            /\ x.n <= d.count
            /\ \A i \in 1 .. Len(rec) : rec[i].n < x.n
            /\ \A j \in 1 .. Len(d.class1) : x.n < d.class1[j].n
        <5>1. x \in Reported(d.lastResp)
          BY <3>1 DEF f
        <5> QED
          BY <2>1, <3>1, <5>1 DEF Ordered
      <4>2. \A i \in 1 .. Len(rec2) : i \in 1 .. Len(rec) \/ i = Len(rec) + 1
        BY <3>2
      <4>3. \A i, j \in 1 .. Len(rec2) : i < j => rec2[i].n < rec2[j].n
        <5> TAKE i, j \in 1 .. Len(rec2)
        <5> HAVE i < j
        <5>1. i \in 1 .. Len(rec)
          BY <3>2
        <5>2. CASE j \in 1 .. Len(rec)
          BY <3>2, <4>1, <5>1, <5>2
        <5>3. CASE j = Len(rec) + 1
          BY <3>2, <4>1, <5>1, <5>3
        <5> QED
          BY <4>2, <5>2, <5>3
      <4>4. \A i \in 1 .. Len(rec2) : rec2[i].n <= d.count
                                      /\ \A j \in 1 .. Len(d.class1) : rec2[i].n < d.class1[j].n
        BY <3>2, <4>1, <4>2
      <4> QED
        BY <2>7, <4>1, <4>3, <4>4 DEF Ordered
    <3>7. Complete(d, rec2, gone)
      BY <2>1, <3>3 DEF Complete, Somewhere
    <3> QED
      BY <1>1, <3>2, <3>4, <3>5, <3>6, <3>7 DEF At, DeviceInv
  <2>9. CASE ~(Delivers(f, out) /\ f.asdu \in Reports)
    <3>1. rec2 = rec /\ Reported(f) = {}
      BY <2>2, <2>5, <2>6, <2>9 DEF Gets, Delivers
    <3>2. Bits(On(m, a), m.devs[a].fcb, NoFrame, d, v # <<>>)
      BY <2>4 DEF Bits
    <3>3. Kept(On(m, a), NoFrame, d, v # <<>>, act, rec, gone)
      BY <2>7, <3>1 DEF Kept, f
    <3>4. Ordered(NoFrame, d, rec)
      BY <2>1, <2>7 DEF Ordered
    <3> QED
      BY <1>1, <2>1, <3>1, <3>2, <3>3, <3>4 DEF At, DeviceInv
  <2> QED
    BY <2>8, <2>9
<1> QED
  BY <1>2, <1>3

\* The queue of a device that has put messages there is still in order.
LEMMA MoreInOrder ==
    ASSUME NEW a, NEW d, IsDevice(a, d), NEW e, NEW k \in Nat, More(d, e, k),
           NEW rec \in Seq(Reports), NEW out, Ordered(out, d, rec)
    PROVE  Ordered(NoFrame, e, rec)
<1> DEFINE n == Len(d.class1)
<1>1. /\ n \in Nat /\ d.count \in Nat /\ e.count = d.count + k /\ Len(e.class1) = n + k
      /\ \A i \in 1 .. n : e.class1[i] = d.class1[i] /\ d.class1[i].n \in Nat
      /\ \A j \in 1 .. k : e.class1[n + j].n = d.count + j
  <2>1. d.class1 \in Seq(Reports) /\ d.count \in Nat
    BY DEF IsDevice, DeviceRec
  <2>2. \A i \in 1 .. n : d.class1[i] \in Reports
    BY <2>1
  <2> QED
    BY <2>1, <2>2, Numbered DEF More
<1>2. /\ \A i, j \in 1 .. Len(rec) : i < j => rec[i].n < rec[j].n
      /\ \A i, j \in 1 .. n : i < j => d.class1[i].n < d.class1[j].n
      /\ \A i \in 1 .. Len(rec) : rec[i].n <= d.count /\ rec[i].n \in Nat
                                  /\ \A j \in 1 .. n : rec[i].n < d.class1[j].n
      /\ \A j \in 1 .. n : d.class1[j].n <= d.count
  <2>1. \A i \in 1 .. Len(rec) : rec[i] \in Reports
    OBVIOUS
  <2> QED
    BY <2>1, Numbered DEF Ordered
<1> HIDE DEF n
<1>3. \A j \in 1 .. n + k : \/ j \in 1 .. n /\ e.class1[j] = d.class1[j]
                            \/ j - n \in 1 .. k /\ e.class1[j].n = d.count + (j - n)
  <2> TAKE j \in 1 .. n + k
  <2>1. CASE j <= n
    BY <1>1, <2>1
  <2>2. CASE n < j
    <3>1. j - n \in 1 .. k /\ n + (j - n) = j
      BY <1>1, <2>2
    <3> QED
      BY <1>1, <3>1
  <2> QED
    BY <1>1, <2>1, <2>2
<1>4. \A i, j \in 1 .. n + k : i < j => e.class1[i].n < e.class1[j].n
  <2> TAKE i, j \in 1 .. n + k
  <2> HAVE i < j
  <2>1. CASE j \in 1 .. n /\ e.class1[j] = d.class1[j]
    <3>1. i \in 1 .. n
      BY <1>1, <2>1
    <3> QED
      BY <1>1, <1>2, <2>1, <3>1
  <2>2. CASE j - n \in 1 .. k /\ e.class1[j].n = d.count + (j - n)
    <3>1. CASE i \in 1 .. n /\ e.class1[i] = d.class1[i]
      <4>1. d.class1[i].n <= d.count /\ d.class1[i].n \in Nat
        BY <1>1, <1>2, <3>1
      <4> QED
        BY <1>1, <2>2, <3>1, <4>1
    <3>2. CASE i - n \in 1 .. k /\ e.class1[i].n = d.count + (i - n)
      BY <1>1, <2>2, <3>2
    <3> QED
      BY <1>3, <3>1, <3>2
  <2> QED
    BY <1>3, <2>1, <2>2
<1>5. \A j \in 1 .. n + k : e.class1[j].n <= e.count
  <2> TAKE j \in 1 .. n + k
  <2>1. CASE j \in 1 .. n /\ e.class1[j] = d.class1[j]
    BY <1>1, <1>2, <2>1
  <2>2. CASE j - n \in 1 .. k /\ e.class1[j].n = d.count + (j - n)
    BY <1>1, <2>2
  <2> QED
    BY <1>3, <2>1, <2>2
<1>6. ASSUME NEW i \in 1 .. Len(rec)
      PROVE  rec[i].n <= e.count /\ \A j \in 1 .. n + k : rec[i].n < e.class1[j].n
  <2>1. rec[i].n <= d.count /\ rec[i].n \in Nat
    BY <1>2
  <2>2. ASSUME NEW j \in 1 .. n + k
        PROVE  rec[i].n < e.class1[j].n
    <3>1. CASE j \in 1 .. n /\ e.class1[j] = d.class1[j]
      BY <1>2, <3>1
    <3>2. CASE j - n \in 1 .. k /\ e.class1[j].n = d.count + (j - n)
      BY SMTT(30), <1>1, <2>1, <3>2
    <3> QED
      BY <1>3, <3>1, <3>2
  <2> QED
    BY <1>1, <2>1, <2>2
<1>7. ~Taken(NoFrame, e)
  BY DEF Taken
<1> QED
  BY <1>1, <1>2, <1>4, <1>5, <1>6, <1>7 DEF Ordered

\* The first message of the queue was taken out of it: it is before the others.
LEMMA HeadInOrder ==
    ASSUME NEW a, NEW d, IsDevice(a, d), d.class1 # <<>>, NEW e,
           e.class1 = Tail(d.class1), e.count = d.count, Reported(e.lastResp) = {Head(d.class1)},
           NEW rec \in Seq(Reports), NEW out, Ordered(NoFrame, d, rec)
    PROVE  Ordered(out, e, rec)
<1> DEFINE n == Len(d.class1)
           h == Head(d.class1)
<1>1. /\ n \in Nat \ {0} /\ h = d.class1[1] /\ Len(e.class1) = n - 1
      /\ \A i \in 1 .. n - 1 : e.class1[i] = d.class1[i + 1] /\ i + 1 \in 1 .. n
  <2>1. d.class1 \in Seq(Reports)
    BY DEF IsDevice, DeviceRec
  <2> QED
    BY <2>1
<1>2. /\ \A i, j \in 1 .. Len(rec) : i < j => rec[i].n < rec[j].n
      /\ \A i, j \in 1 .. n : i < j => d.class1[i].n < d.class1[j].n
      /\ \A i \in 1 .. Len(rec) : rec[i].n <= d.count
                                  /\ \A j \in 1 .. n : rec[i].n < d.class1[j].n
      /\ \A j \in 1 .. n : d.class1[j].n <= d.count
  BY DEF Ordered
<1> HIDE DEF n, h
<1>3. /\ 1 \in 1 .. n /\ h.n <= e.count
      /\ \A i \in 1 .. Len(rec) : rec[i].n < h.n
      /\ \A j \in 1 .. n - 1 : h.n < e.class1[j].n
  BY <1>1, <1>2
<1>4. /\ \A i, j \in 1 .. n - 1 : i < j => e.class1[i].n < e.class1[j].n
      /\ \A i \in 1 .. Len(rec) : \A j \in 1 .. n - 1 : rec[i].n < e.class1[j].n
      /\ \A j \in 1 .. n - 1 : e.class1[j].n <= e.count
  BY <1>1, <1>2
<1>5. \A m \in Reported(e.lastResp) : m = h
  BY DEF h
<1> QED
  BY <1>1, <1>2, <1>3, <1>4, <1>5 DEF Ordered

\* No message is left out when a device answers: what it kept is with the application.
LEMMA ServedComplete ==
    ASSUME NEW a, NEW d, IsDevice(a, d), NEW f, NEW e, Serves(a, d, f, e), NEW rec, NEW gone,
           Complete(d, rec, gone), NEW lose, gone \subseteq lose,
           Reported(d.lastResp) \subseteq ToSet(rec) \cup lose
    PROVE  Complete(e, rec, lose)
<1>1. d.class1 \in Seq(Reports) /\ d.count \in Nat /\ DOMAIN d.class1 = 1 .. Len(d.class1)
      /\ Len(d.class1) \in Nat
  BY DEF IsDevice, DeviceRec
<1>2. \A m : m \in Carried(d.lastResp) /\ "n" \in DOMAIN m => m \in ToSet(rec) \cup lose
  BY DEF Reported
<1>3. CASE \E k \in Nat : More(d, e, k)
  <2>1. PICK k \in Nat : More(d, e, k)
    BY <1>3
  <2>2. /\ e.class1 \in Seq(Reports) /\ Len(e.class1) = Len(d.class1) + k
        /\ e.count = d.count + k
        /\ \A i \in 1 .. Len(d.class1) : e.class1[i] = d.class1[i]
        /\ \A j \in 1 .. k : e.class1[Len(d.class1) + j].n = d.count + j
    BY <2>1 DEF More
  <2>3. ToSet(d.class1) \subseteq ToSet(e.class1)
    BY SMTT(30), <1>1, <2>2 DEF ToSet
  <2>4. ASSUME NEW i \in 1 .. e.count
        PROVE  Somewhere(i, e, rec, lose)
    <3>1. CASE i <= d.count
      <4>1. Somewhere(i, d, rec, gone)
        BY <1>1, <2>4, <3>1 DEF Complete
      <4> QED
        BY <1>2, <2>3, <4>1 DEF Somewhere
    <3>2. CASE d.count < i
      <4> DEFINE j == i - d.count
                 m == e.class1[Len(d.class1) + j]
      <4>1. j \in 1 .. k /\ d.count + j = i /\ Len(d.class1) + j \in 1 .. Len(e.class1)
        BY SMTT(30), <1>1, <2>2, <3>2
      <4>2. m.n = i /\ m \in Reports /\ m \in ToSet(e.class1)
        BY <2>2, <4>1 DEF ToSet
      <4> HIDE DEF m
      <4>3. "n" \in DOMAIN m
        BY <4>2, Numbered
      <4> QED
        BY <4>2, <4>3 DEF Somewhere
    <3> QED
      BY <1>1, <2>2, <3>1, <3>2
  <2> QED
    BY <2>4 DEF Complete
<1>4. CASE /\ d.class1 # <<>> /\ Reported(e.lastResp) = {Head(d.class1)}
           /\ e.class1 = Tail(d.class1) /\ e.count = d.count
  <2>1. ToSet(d.class1) \subseteq {Head(d.class1)} \cup ToSet(e.class1)
    <3> DEFINE n == Len(d.class1)
               s == d.class1
    <3>1. /\ s \in Seq(Reports) /\ s # <<>> /\ e.class1 = Tail(s)
      BY <1>1, <1>4
    <3> HIDE DEF s
    <3>2. ASSUME NEW i \in 1 .. Len(s)
          PROVE  s[i] \in {Head(s)} \cup ToSet(e.class1)
      <4>1. CASE i = 1
        BY <3>1, <4>1
      <4>2. CASE i # 1
        <5>1. i - 1 \in 1 .. Len(e.class1) /\ e.class1[i - 1] = s[i]
          BY <3>1, <4>2
        <5>2. e.class1 \in Seq(Reports)
          BY <3>1
        <5> QED
          BY <5>1, <5>2 DEF ToSet
      <4> QED
        BY <4>1, <4>2
    <3>3. DOMAIN s = 1 .. Len(s)
      BY <3>1
    <3> QED
      BY <3>2, <3>3 DEF ToSet, s
  <2>2. Head(d.class1) \in Carried(e.lastResp)
    BY <1>4 DEF Reported
  <2>3. ASSUME NEW i \in 1 .. e.count
        PROVE  Somewhere(i, e, rec, lose)
    <3>1. Somewhere(i, d, rec, gone)
      BY <1>4, <2>3 DEF Complete
    <3> QED
      BY <1>2, <2>1, <2>2, <3>1 DEF Somewhere
  <2> QED
    BY <2>3 DEF Complete
<1> QED
  BY <1>3, <1>4 DEF Serves

\* A device takes a request as new.
LEMMA TakesAt ==
    ASSUME NEW A, NEW l, l.sent # NoFrame, NEW a, a = l.sent.addr, Asks(A, l.sent),
           NEW d, IsDevice(a, d), ~IsRepeated(d, l.sent), NEW e, Serves(a, d, l.sent, e),
           NEW u, NEW act, NEW rec \in Seq(Reports), NEW gone, At(l, a, d, u, act, rec, gone),
           NEW v, NEW act2, Carried(l.sent) \subseteq ToSet(act2),
           NEW lose, gone \subseteq lose,
           ~l.sent.control.fcv => Carried(d.lastResp) \subseteq lose
    PROVE  At(l, a, e, v, act2, rec, lose)
<1> DEFINE out == l.sent
           c == out.control
<1>1. Out(l, a) = out /\ out # NoFrame
  BY DEF Out
<1>2. /\ Bits(On(l, a), l.devs[a].fcb, out, d, u # <<>>)
      /\ Kept(On(l, a), out, d, u # <<>>, act, rec, gone)
      /\ Ordered(out, d, rec) /\ Complete(d, rec, gone)
  BY <1>1 DEF At, DeviceInv
<1>3. /\ out.control.fcv \in BOOLEAN /\ out.control.fcb \in BOOLEAN /\ d.fcbExpected \in BOOLEAN
      /\ out.control.fun \in P!Resets => ~out.control.fcv
      /\ ~out.control.fcv => out.control.fun \notin P!Polls
  BY AskKinds, Codes DEF Asks, IsDevice, DeviceRec, ControlField
<1>4. ~Taken(out, d)
  BY DEF Taken, IsRepeated
<1>5. /\ IsDevice(a, e) /\ e.lastResp # NoFrame
      /\ out.control.fcv => e.fcbExpected = ~d.fcbExpected
      /\ out.control.fun \in P!Resets => e.fcbExpected = TRUE
      /\ ~out.control.fcv /\ out.control.fun \notin P!Resets => e.fcbExpected = d.fcbExpected
      /\ e.lastResp.kind = "Variable" => out.control.fun \in P!Polls
      /\ \/ Reported(e.lastResp) = {} /\ \E k \in Nat : More(d, e, k)
         \/ /\ d.class1 # <<>> /\ Reported(e.lastResp) = {Head(d.class1)}
            /\ e.class1 = Tail(d.class1) /\ e.count = d.count
  BY DEF Serves
<1>6. Answers(a, e.lastResp) /\ e.lastResp.kind \in {"Fixed", "Variable"}
      /\ (e.lastResp.kind = "Fixed" => Reported(e.lastResp) = {})
  <2>1. Answers(a, e.lastResp)
    BY <1>5 DEF IsDevice
  <2> QED
    BY <2>1, AnswerKinds
<1> HIDE DEF out, c
<1>7. Taken(out, e) <=> out.control.fcv
  <2>1. CASE out.control.fcv
    BY <1>1, <1>3, <1>4, <1>5, <2>1 DEF Taken
  <2>2. CASE ~out.control.fcv
    BY <2>2 DEF Taken
  <2> QED
    BY <2>1, <2>2
<1>8. Bits(On(l, a), l.devs[a].fcb, out, e, v # <<>>)
  <2>1. out.control.fcv => On(l, a) /\ out.control.fcb = l.devs[a].fcb /\ Taken(out, e)
    BY <1>1, <1>2, <1>7 DEF Bits
  <2>2. out.control.fun \in P!Resets => ~On(l, a) /\ e.fcbExpected = TRUE
    BY <1>1, <1>2, <1>5 DEF Bits
  <2>3. On(l, a) /\ ~out.control.fcv => l.devs[a].fcb = e.fcbExpected
    <3>1. On(l, a) /\ ~out.control.fcv => l.devs[a].fcb = d.fcbExpected
      BY <1>2 DEF Bits
    <3> QED
      BY <1>5, <2>2, <3>1
  <2> QED
    BY <1>1, <2>1, <2>2, <2>3 DEF Bits
<1>9. ~out.control.fcv => e.lastResp.kind = "Fixed"
  BY <1>3, <1>5, <1>6
<1>10. Kept(On(l, a), out, e, v # <<>>, act2, rec, lose)
  <2>1. Carried(out) \subseteq ToSet(act2)
    BY DEF out
  <2> QED
    BY <1>5, <1>6, <1>7, <1>9, <2>1 DEF Kept
<1>11. Reported(d.lastResp) \subseteq ToSet(rec) \cup lose
  <2>1. CASE out.control.fcv
    <3>1. On(l, a)
      BY <1>1, <1>2, <2>1 DEF Bits
    <3> QED
      BY <1>2, <1>4, <3>1 DEF Kept
  <2>2. CASE ~out.control.fcv
    BY <2>2 DEF Reported, out
  <2> QED
    BY <2>1, <2>2
<1>12. Complete(e, rec, lose)
  BY <1>2, <1>11, ServedComplete
<1>13. Ordered(out, e, rec)
  <2>1. CASE Reported(e.lastResp) = {} /\ \E k \in Nat : More(d, e, k)
    <3>1. Ordered(NoFrame, e, rec)
      BY <1>2, <2>1, MoreInOrder
    <3> QED
      BY <2>1, <3>1 DEF Ordered
  <2>2. CASE /\ d.class1 # <<>> /\ Reported(e.lastResp) = {Head(d.class1)}
             /\ e.class1 = Tail(d.class1) /\ e.count = d.count
    <3>1. Ordered(NoFrame, d, rec)
      BY <1>2 DEF Ordered, Taken
    <3> QED
      BY <2>2, <3>1, HeadInOrder
  <2> QED
    BY <1>5, <2>1, <2>2
<1> QED
  BY <1>1, <1>8, <1>10, <1>12, <1>13 DEF At, DeviceInv

-----------------------------------------------------------------------------
(***************************************************************************)
(* What each step makes of the commands.                                   *)
(***************************************************************************)

\* Two sequences are joined.
LEMMA Joined ==
    ASSUME NEW T, NEW u \in Seq(T), NEW v \in Seq(T)
    PROVE  u \o v \in Seq(T) /\ Len(u \o v) = Len(u) + Len(v)
OBVIOUS

\* A sequence p is q without its i-th element.
Without(q, i, p) ==
    /\ \E at \in [1 .. Len(p) -> 1 .. Len(q)] :
         /\ \A j \in 1 .. Len(p) : p[j] = q[at[j]] /\ at[j] # i
         /\ \A j, k \in 1 .. Len(p) : j # k => at[j] # at[k]
    /\ \A k \in 1 .. Len(q) : k # i => \E j \in 1 .. Len(p) : p[j] = q[k]

\* It is what is left of q from the parts u before its i-th element and v after it.
LEMMA WithoutParts ==
    ASSUME NEW T, NEW q \in Seq(T), NEW i \in 1 .. Len(q), NEW u \in Seq(T), NEW v \in Seq(T),
           Len(u) = i - 1, \A j \in 1 .. (i - 1) : u[j] = q[j],
           Len(v) = Len(q) - i, \A j \in 1 .. (Len(q) - i) : v[j] = q[j + i]
    PROVE  Without(q, i, u \o v)
<1> DEFINE p == u \o v
           at == [j \in 1 .. Len(p) |-> IF j < i THEN j ELSE j + 1]
<1>1. Len(q) \in Nat /\ i \in Nat /\ 1 <= i /\ i <= Len(q)
  OBVIOUS
<1>2. p \in Seq(T) /\ Len(p) = Len(q) - 1
  <2>1. p \in Seq(T) /\ Len(p) = Len(u) + Len(v)
    BY Joined
  <2> HIDE DEF p
  <2> QED
    BY <1>1, <2>1
<1>3. \A j \in 1 .. Len(p) : p[j] = IF j < i THEN u[j] ELSE v[j - (i - 1)]
  BY <1>1
<1> HIDE DEF p
<1>4. /\ at \in [1 .. Len(p) -> 1 .. Len(q)]
      /\ \A j \in 1 .. Len(p) : at[j] = IF j < i THEN j ELSE j + 1
  <2>1. \A j \in 1 .. Len(p) : (IF j < i THEN j ELSE j + 1) \in 1 .. Len(q)
    BY <1>1, <1>2
  <2> QED
    BY <2>1
<1> HIDE DEF at
<1>5. ASSUME NEW j \in 1 .. Len(p)
      PROVE  p[j] = q[at[j]] /\ at[j] # i
  <2>1. CASE j < i
    <3>1. j \in 1 .. (i - 1) /\ j # i
      BY <1>1, <1>2, <2>1
    <3>2. p[j] = u[j] /\ at[j] = j
      BY <1>3, <1>4, <2>1
    <3> QED
      BY <3>1, <3>2
  <2>2. CASE ~(j < i)
    <3> DEFINE w == j - (i - 1)
    <3>1. p[j] = v[w]
      BY <1>3, <2>2
    <3>2. w \in 1 .. (Len(q) - i) /\ w + i = j + 1
      BY <1>1, <1>2, <2>2
    <3> HIDE DEF w
    <3>3. p[j] = q[w + i]
      BY <3>1, <3>2
    <3> QED
      BY <1>1, <1>4, <2>2, <3>2, <3>3
  <2> QED
    BY <2>1, <2>2
<1>6. \A j, k \in 1 .. Len(p) : j # k => at[j] # at[k]
  BY <1>1, <1>2, <1>4
<1>7. ASSUME NEW k \in 1 .. Len(q), k # i
      PROVE  \E j \in 1 .. Len(p) : p[j] = q[k]
  <2>1. CASE k < i
    <3>1. k \in 1 .. Len(p) /\ at[k] = k
      BY <1>1, <1>2, <1>4, <1>7, <2>1
    <3> QED
      BY <1>5, <3>1
  <2>2. CASE i < k
    <3> DEFINE j == k - 1
    <3>1. j \in 1 .. Len(p) /\ ~(j < i) /\ j + 1 = k
      BY <1>1, <1>2, <2>2
    <3> HIDE DEF j
    <3>2. at[j] = k
      BY <1>4, <3>1
    <3> QED
      BY <1>5, <3>1, <3>2
  <2> QED
    BY <1>1, <1>7, <2>1, <2>2
<1> QED
  BY <1>4, <1>5, <1>6, <1>7 DEF Without, p

\* So it is what is left when the i-th element is cut out.
LEMMA WithoutOne ==
    ASSUME NEW T, NEW q \in Seq(T), NEW i \in 1 .. Len(q), NEW p,
           p = SubSeq(q, 1, i - 1) \o SubSeq(q, i + 1, Len(q))
    PROVE  Without(q, i, p) /\ p \in Seq(T)
<1> DEFINE u == SubSeq(q, 1, i - 1)
           v == SubSeq(q, i + 1, Len(q))
<1>1. u \in Seq(T) /\ Len(u) = i - 1 /\ \A j \in 1 .. (i - 1) : u[j] = q[j]
  OBVIOUS
<1>2. v \in Seq(T) /\ Len(v) = Len(q) - i /\ \A j \in 1 .. (Len(q) - i) : v[j] = q[j + i]
  OBVIOUS
<1> HIDE DEF u, v
<1>3. Without(q, i, u \o v) /\ u \o v \in Seq(T)
  BY <1>1, <1>2, WithoutParts, Joined
<1> QED
  BY <1>3 DEF u, v

\* The commands of a link l and the devices dev.
Once(q, l, dev, act, n) == CommandsOnce(q, l.sent, SentTaken(l, dev), act, n)

\* Nothing that is a command is out any more, and none is queued but those that were.
LEMMA OnceQuiet ==
    ASSUME NEW A, NEW q \in Seq(Item(A)), NEW l, NEW dev, NEW act, NEW n, Once(q, l, dev, act, n),
           NEW m, Carried(m.sent) = {}, NEW dev2, NEW p, p = q \/ p = <<>>
    PROVE  Once(p, m, dev2, act, n)
<1>1. \A i \in 1 .. Len(p) : p = q
  OBVIOUS
<1> QED
  BY <1>1 DEF Once, CommandsOnce

\* A request that is no command joins the queue.
LEMMA OnceJoined ==
    ASSUME NEW A, NEW q \in Seq(Item(A)), NEW l, NEW dev, NEW act, NEW n, Once(q, l, dev, act, n),
           NEW x \in Item(A), ~IsCommand(x.asdu), NEW p, p = Append(q, x)
    PROVE  Once(p, l, dev, act, n) /\ p \in Seq(Item(A))
<1>1. /\ p \in Seq(Item(A)) /\ Len(p) = Len(q) + 1 /\ Len(q) \in Nat /\ p[Len(q) + 1] = x
      /\ \A i \in 1 .. Len(q) : p[i] = q[i]
  OBVIOUS
<1>2. \A i \in 1 .. Len(p) : i \in 1 .. Len(q) \/ i = Len(q) + 1
  BY <1>1
<1>3. ASSUME NEW i \in 1 .. Len(p), IsCommand(p[i].asdu)
      PROVE  /\ p[i].asdu.rii <= n
             /\ \A j \in 1 .. Len(p) : i # j => p[i].asdu # p[j].asdu
             /\ p[i].asdu \notin Carried(l.sent)
             /\ \A a \in DOMAIN act : p[i].asdu \notin ToSet(act[a])
  <2>1. i \in 1 .. Len(q) /\ IsCommand(q[i].asdu) /\ p[i] = q[i]
    BY <1>1, <1>2, <1>3
  <2>2. ASSUME NEW j \in 1 .. Len(p), i # j
        PROVE  p[i].asdu # p[j].asdu
    <3>1. CASE j \in 1 .. Len(q)
      BY <1>1, <2>1, <2>2, <3>1 DEF Once, CommandsOnce
    <3>2. CASE j = Len(q) + 1
      BY <1>1, <2>1, <3>2
    <3> QED
      BY <1>2, <3>1, <3>2
  <2> QED
    BY <2>1, <2>2 DEF Once, CommandsOnce
<1> QED
  BY <1>1, <1>3 DEF Once, CommandsOnce

\* A new command joins the queue.
LEMMA OnceCommanded ==
    ASSUME NEW A, NEW q \in Seq(Item(A)), NEW l, Carried(l.sent) \subseteq Requests, NEW dev,
           NEW act \in [A -> Seq(Requests)], NEW n \in Nat, Once(q, l, dev, act, n),
           NEW a \in A, NEW p, p = Append(q, [addr |-> a, asdu |-> Command(n + 1)])
    PROVE  Once(p, l, dev, act, n + 1) /\ p \in Seq(Item(A))
<1> DEFINE y == Command(n + 1)
           x == [addr |-> a, asdu |-> y]
<1>1. y \in Requests /\ y.rii = n + 1 /\ IsCommand(y)
  BY DEF Command, Requests, IsCommand
<1> HIDE DEF y
<1>2. x \in Item(A) /\ x.asdu = y
  BY <1>1 DEF Item
<1>3. p = Append(q, x)
  BY DEF y
<1> HIDE DEF x
<1>4. /\ p \in Seq(Item(A)) /\ Len(p) = Len(q) + 1 /\ Len(q) \in Nat /\ p[Len(q) + 1] = x
      /\ \A i \in 1 .. Len(q) : p[i] = q[i] /\ q[i].asdu \in Requests
  <2>1. /\ p \in Seq(Item(A)) /\ Len(p) = Len(q) + 1 /\ Len(q) \in Nat /\ p[Len(q) + 1] = x
        /\ \A i \in 1 .. Len(q) : p[i] = q[i] /\ q[i] \in Item(A)
    BY <1>2, <1>3
  <2> QED
    BY <2>1 DEF Item
<1>5. \A i \in 1 .. Len(p) : i \in 1 .. Len(q) \/ i = Len(q) + 1
  BY <1>4
<1>6. \A z \in Requests : IsCommand(z) => z.rii \in Nat
  BY DEF Requests, IsCommand, TimeSync, Interrogation
<1>7. \A b \in A : \A i \in 1 .. Len(act[b]) : act[b][i] \in Requests /\ DOMAIN act = A
  OBVIOUS
<1>8. /\ \A i \in 1 .. Len(q) : IsCommand(q[i].asdu) => q[i].asdu.rii <= n
      /\ \A z \in Carried(l.sent) : IsCommand(z) => z.rii <= n
      /\ \A b \in A : \A i \in 1 .. Len(act[b]) : IsCommand(act[b][i]) => act[b][i].rii <= n
  BY DEF Once, CommandsOnce
<1>9. /\ y \notin Carried(l.sent)
      /\ \A i \in 1 .. Len(q) : q[i].asdu # y
      /\ \A b \in A : y \notin ToSet(act[b])
  <2>1. \A z \in Requests : IsCommand(z) /\ z.rii <= n => z # y
    BY <1>1, <1>6
  <2>2. y \notin Carried(l.sent)
    BY <1>1, <1>8, <2>1
  <2>3. \A i \in 1 .. Len(q) : q[i].asdu # y
    BY <1>1, <1>4, <1>8, <2>1
  <2>4. ASSUME NEW b \in A
        PROVE  y \notin ToSet(act[b])
    <3>1. \A i \in 1 .. Len(act[b]) : act[b][i] # y
      BY <1>1, <1>7, <1>8, <2>1
    <3>2. DOMAIN act[b] = 1 .. Len(act[b])
      <4>1. act[b] \in Seq(Requests)
        OBVIOUS
      <4> QED
        BY <4>1
    <3> QED
      BY <3>1, <3>2 DEF ToSet
  <2> QED
    BY <2>2, <2>3, <2>4
<1>10. ASSUME NEW i \in 1 .. Len(p), IsCommand(p[i].asdu)
      PROVE  /\ p[i].asdu.rii <= n + 1
             /\ \A j \in 1 .. Len(p) : i # j => p[i].asdu # p[j].asdu
             /\ p[i].asdu \notin Carried(l.sent)
             /\ \A b \in DOMAIN act : p[i].asdu \notin ToSet(act[b])
  <2>1. CASE i \in 1 .. Len(q)
    <3>1. /\ p[i] = q[i] /\ q[i].asdu.rii <= n /\ q[i].asdu.rii \in Nat
          /\ q[i].asdu \notin Carried(l.sent)
          /\ \A b \in DOMAIN act : q[i].asdu \notin ToSet(act[b])
          /\ \A j \in 1 .. Len(q) : i # j => q[i].asdu # q[j].asdu
      BY <1>4, <1>6, <1>10, <2>1 DEF Once, CommandsOnce
    <3>2. \A j \in 1 .. Len(p) : i # j => q[i].asdu # p[j].asdu
      BY <1>2, <1>4, <1>5, <1>9, <2>1, <3>1
    <3> QED
      BY <3>1, <3>2
  <2>2. CASE i = Len(q) + 1
    <3>1. p[i].asdu = y
      BY <1>2, <1>4, <2>2
    <3>2. \A j \in 1 .. Len(p) : i # j => y # p[j].asdu
      BY <1>4, <1>5, <1>9, <2>2
    <3> QED
      BY <1>1, <1>7, <1>9, <3>1, <3>2
  <2> QED
    BY <1>5, <2>1, <2>2
<1>11. \A z \in Carried(l.sent) : IsCommand(z) => z.rii <= n + 1
  BY <1>6, <1>8
<1>12. \A b \in DOMAIN act : \A i \in 1 .. Len(act[b]) : IsCommand(act[b][i]) => act[b][i].rii <= n + 1
  BY <1>6, <1>7, <1>8
<1> QED
  BY <1>4, <1>10, <1>11, <1>12 DEF Once, CommandsOnce

\* A queued request goes out.
LEMMA OnceLaunched ==
    ASSUME NEW A, NEW q \in Seq(Item(A)), NEW l, NEW dev, NEW act, NEW n, Once(q, l, dev, act, n),
           NEW i \in 1 .. Len(q), NEW p, Without(q, i, p),
           NEW m, Carried(m.sent) = {q[i].asdu}
    PROVE  Once(p, m, dev, act, n)
<1>1. PICK at \in [1 .. Len(p) -> 1 .. Len(q)] :
        /\ \A j \in 1 .. Len(p) : p[j] = q[at[j]] /\ at[j] # i
        /\ \A j, k \in 1 .. Len(p) : j # k => at[j] # at[k]
  BY DEF Without
<1>2. \A j \in 1 .. Len(p) : at[j] \in 1 .. Len(q)
  BY <1>1
<1>3. \A k \in 1 .. Len(q) : IsCommand(q[k].asdu) =>
         /\ q[k].asdu.rii <= n
         /\ \A j \in 1 .. Len(q) : k # j => q[k].asdu # q[j].asdu
         /\ \A a \in DOMAIN act : q[k].asdu \notin ToSet(act[a])
  BY DEF Once, CommandsOnce
<1>4. ASSUME NEW j \in 1 .. Len(p), IsCommand(p[j].asdu)
      PROVE  /\ p[j].asdu.rii <= n
             /\ \A k \in 1 .. Len(p) : j # k => p[j].asdu # p[k].asdu
             /\ p[j].asdu \notin Carried(m.sent)
             /\ \A a \in DOMAIN act : p[j].asdu \notin ToSet(act[a])
  <2>1. at[j] \in 1 .. Len(q) /\ p[j] = q[at[j]] /\ at[j] # i
    BY <1>1, <1>2
  <2>2. \A k \in 1 .. Len(p) : j # k => p[j].asdu # p[k].asdu
    BY <1>1, <1>2, <1>3, <1>4, <2>1
  <2> QED
    BY <1>3, <1>4, <2>1, <2>2
<1>5. \A x \in Carried(m.sent) : IsCommand(x) =>
         /\ x.rii <= n
         /\ \A a \in DOMAIN act : x \notin ToSet(act[a])
  BY <1>3
<1> QED
  BY <1>4, <1>5 DEF Once, CommandsOnce

\* Device b acts on the request x.
ActsTo(act, b, x) == [act EXCEPT ![b] = Append(@, x)]

\* A device acts on the request that is out to it.
LEMMA OnceActed ==
    ASSUME NEW A, NEW q \in Seq(Item(A)), NEW l, NEW dev, NEW act \in [A -> Seq(Requests)], NEW n,
           Once(q, l, dev, act, n), ~SentTaken(l, dev), NEW x \in Requests, Carried(l.sent) = {x},
           NEW b \in A, NEW act2, act2 = ActsTo(act, b, x),
           NEW dev2, SentTaken(l, dev2)
    PROVE  Once(q, l, dev2, act2, n)
<1> DEFINE s == act[b]
           r == Append(s, x)
<1>1. /\ DOMAIN act = A /\ DOMAIN act2 = A /\ act2[b] = r
      /\ \A a \in A : a # b => act2[a] = act[a]
  BY DEF ActsTo
<1>2. /\ s \in Seq(Requests) /\ r \in Seq(Requests) /\ Len(r) = Len(s) + 1 /\ Len(s) \in Nat
      /\ r[Len(s) + 1] = x /\ \A i \in 1 .. Len(s) : r[i] = s[i]
      /\ DOMAIN s = 1 .. Len(s) /\ DOMAIN r = 1 .. Len(r)
  <2>1. s \in Seq(Requests)
    OBVIOUS
  <2> HIDE DEF s
  <2> QED
    BY <2>1
<1>3. /\ \A i \in 1 .. Len(q) : IsCommand(q[i].asdu) =>
           /\ q[i].asdu.rii <= n
           /\ \A j \in 1 .. Len(q) : i # j => q[i].asdu # q[j].asdu
           /\ q[i].asdu \notin Carried(l.sent)
           /\ \A a \in A : q[i].asdu \notin ToSet(act[a])
      /\ IsCommand(x) => x.rii <= n /\ \A a \in A : x \notin ToSet(act[a])
      /\ \A a \in A : \A i \in 1 .. Len(act[a]) : IsCommand(act[a][i]) =>
           /\ act[a][i].rii <= n
           /\ \A j \in 1 .. Len(act[a]) : i # j => act[a][i] # act[a][j]
  BY <1>1 DEF Once, CommandsOnce
<1>4. /\ IsCommand(x) => x \notin ToSet(s)
      /\ \A i \in 1 .. Len(s) : IsCommand(s[i]) =>
           /\ s[i].rii <= n
           /\ \A j \in 1 .. Len(s) : i # j => s[i] # s[j]
  BY <1>3
<1> HIDE DEF r, s
<1>5. \A i \in 1 .. Len(r) : i \in 1 .. Len(s) \/ i = Len(s) + 1
  BY <1>2
<1>6. ToSet(r) \subseteq ToSet(s) \cup {x}
  BY <1>2, <1>5 DEF ToSet
<1>7. \A i \in 1 .. Len(s) : s[i] \in ToSet(s)
  BY <1>2 DEF ToSet
<1>8. ASSUME NEW i \in 1 .. Len(r), IsCommand(r[i])
      PROVE  r[i].rii <= n /\ \A j \in 1 .. Len(r) : i # j => r[i] # r[j]
  <2>1. CASE i \in 1 .. Len(s)
    <3>1. r[i] = s[i] /\ IsCommand(s[i])
      BY <1>2, <1>8, <2>1
    <3>2. ASSUME NEW j \in 1 .. Len(r), i # j
          PROVE  s[i] # r[j]
      <4>1. CASE j \in 1 .. Len(s)
        BY <1>2, <1>4, <2>1, <3>1, <3>2, <4>1
      <4>2. CASE j = Len(s) + 1
        BY <1>2, <1>4, <1>7, <2>1, <3>1, <4>2
      <4> QED
        BY <1>5, <4>1, <4>2
    <3> QED
      BY <1>4, <2>1, <3>1, <3>2
  <2>2. CASE i = Len(s) + 1
    <3>1. r[i] = x /\ IsCommand(x)
      BY <1>2, <1>8, <2>2
    <3>2. ASSUME NEW j \in 1 .. Len(r), i # j
          PROVE  x # r[j]
      BY <1>2, <1>4, <1>5, <1>7, <2>2, <3>1, <3>2
    <3> QED
      BY <1>3, <3>1, <3>2
  <2> QED
    BY <1>5, <2>1, <2>2
<1>9. \A i \in 1 .. Len(q) : IsCommand(q[i].asdu) => \A a \in A : q[i].asdu \notin ToSet(act2[a])
  <2>1. \A i \in 1 .. Len(q) : IsCommand(q[i].asdu) => q[i].asdu # x /\ q[i].asdu \notin ToSet(s)
    BY <1>3 DEF s
  <2> QED
    BY <1>1, <1>3, <1>6, <2>1
<1> DEFINE Fine(z) == \A i \in 1 .. Len(z) : IsCommand(z[i]) =>
                        /\ z[i].rii <= n
                        /\ \A j \in 1 .. Len(z) : i # j => z[i] # z[j]
<1>10. \A a \in A : Fine(act2[a])
  <2>1. Fine(r)
    BY <1>8
  <2>2. \A a \in A : Fine(act[a])
    BY <1>3
  <2> HIDE DEF Fine
  <2> QED
    BY <1>1, <2>1, <2>2
<1> QED
  BY <1>1, <1>3, <1>9, <1>10 DEF Once, CommandsOnce

\* A command that was kept is kept, wherever it goes.
LEMMA KeptOn ==
    ASSUME NEW q, NEW sent, NEW act, NEW gone, NEW n, CommandsKept(q, sent, act, gone, n),
           NEW p, NEW sent2, NEW act2, NEW lose, gone \subseteq lose, DOMAIN act2 = DOMAIN act,
           \A a \in DOMAIN act : ToSet(act[a]) \subseteq ToSet(act2[a]),
           \A x \in Carried(sent) : \/ x \in lose \cup Carried(sent2)
                                    \/ \E a \in DOMAIN act : x \in ToSet(act2[a]),
           \A i \in DOMAIN q : \/ q[i].asdu \in lose \cup Carried(sent2)
                               \/ \E j \in DOMAIN p : p[j].asdu = q[i].asdu
    PROVE  CommandsKept(p, sent2, act2, lose, n)
<1> SUFFICES ASSUME NEW k \in 1 .. n
             PROVE  \/ Command(k) \in lose \cup Carried(sent2)
                    \/ \E i \in DOMAIN p : p[i].asdu = Command(k)
                    \/ \E a \in DOMAIN act2 : Command(k) \in ToSet(act2[a])
  BY DEF CommandsKept
<1> DEFINE x == Command(k)
<1>1. \/ x \in gone
      \/ x \in Carried(sent)
      \/ \E i \in DOMAIN q : q[i].asdu = x
      \/ \E a \in DOMAIN act : x \in ToSet(act[a])
  BY DEF CommandsKept
<1> HIDE DEF x
<1>2. CASE x \in gone \/ x \in Carried(sent)
  BY <1>2 DEF x
<1>3. CASE \E i \in DOMAIN q : q[i].asdu = x
  <2>1. PICK i \in DOMAIN q : q[i].asdu = x
    BY <1>3
  <2>2. \/ q[i].asdu \in lose \cup Carried(sent2)
        \/ \E j \in DOMAIN p : p[j].asdu = q[i].asdu
    OBVIOUS
  <2> QED
    BY <2>1, <2>2 DEF x
<1>4. CASE \E a \in DOMAIN act : x \in ToSet(act[a])
  BY <1>4 DEF x
<1> QED
  BY <1>1, <1>2, <1>3, <1>4

-----------------------------------------------------------------------------
(***************************************************************************)
(* What each step makes of the whole line.                                 *)
(***************************************************************************)

\* The invariant, of a link l with queue q, devices dv, frames dn and u under way,
\* and what was acted on, received and lost.
LineInv(A, l, q, dv, dn, u, act, rec, gone, n) ==
    /\ IsLink(A, l)
    /\ q \in Seq(Item(A)) /\ n \in Nat
    /\ dv \in [A -> DeviceRec] /\ \A a \in A : IsDevice(a, dv[a])
    /\ act \in [A -> Seq(Requests)] /\ rec \in [A -> Seq(Reports)]
    /\ Exchange(l.sent, dn, u, dv)
    /\ \A a \in A : At(l, a, dv[a], u, act[a], rec[a], gone)
    /\ Once(q, l, dv, act, n)
    /\ CommandsKept(q, l.sent, act, gone, n)

\* The invariant is that of the variables.
LEMMA InvIsLineInv ==
    IInv <=> /\ line \in Lines
             /\ LineInv(Device, link, queue, device, down, up, acted, received, lost, commands)
BY DEF IInv, LineTypes, DevicesInv, LineInv, At, Once

\* An idle link has nothing under way.
LEMMA IdleQuiet ==
    ASSUME NEW l, NEW dn, NEW u, NEW dv, Exchange(l.sent, dn, u, dv), l.sent = NoFrame
    PROVE  dn = <<>> /\ u = <<>>
BY DEF Exchange

\* A frame is sent that carries a queued request, or none.
LEMMA LaunchKeeps ==
    ASSUME NEW A \in SUBSET Nat, NEW l, NEW q, NEW dv, NEW dn, NEW u, NEW act, NEW rec, NEW gone,
           NEW n, LineInv(A, l, q, dv, dn, u, act, rec, gone, n),
           NEW m, NEW X, Launch(A, l, m, m.sent, X), NEW p \in Seq(Item(A)),
           \/ X = {} /\ p = q
           \/ \E i \in 1 .. Len(q) : X = {q[i].asdu} /\ Without(q, i, p)
    PROVE  LineInv(A, m, p, dv, dn \o <<m.sent>>, u, act, rec, gone, n)
<1>1. /\ l.sent = NoFrame /\ IsLink(A, m) /\ Asks(A, m.sent) /\ Carried(m.sent) = X
      /\ Carried(l.sent) = {}
  BY NothingCarried DEF Launch
<1>2. dn = <<>> /\ u = <<>>
  BY <1>1, IdleQuiet DEF LineInv
<1> DEFINE dn2 == dn \o <<m.sent>>
<1>3. dn2 = <<m.sent>>
  BY <1>2
<1> HIDE DEF dn2
<1>4. Exchange(m.sent, dn2, u, dv)
  <2>1. m.sent # NoFrame
    BY <1>1, AskKinds
  <2> QED
    BY <1>2, <1>3, <2>1 DEF Exchange
<1>5. \A a \in A : At(m, a, dv[a], u, act[a], rec[a], gone)
  <2> TAKE a \in A
  <2>1. At(l, a, dv[a], u, act[a], rec[a], gone)
    BY DEF LineInv
  <2> QED
    BY <1>2, <2>1, LaunchAt
<1>6. q \in Seq(Item(A)) /\ Once(q, l, dv, act, n) /\ CommandsKept(q, l.sent, act, gone, n)
  BY DEF LineInv
<1>7. Once(p, m, dv, act, n) /\ CommandsKept(p, m.sent, act, gone, n)
  <2>1. CASE X = {} /\ p = q
    <3>1. Once(p, m, dv, act, n)
      BY <1>1, <1>6, <2>1, OnceQuiet
    <3>2. CommandsKept(p, m.sent, act, gone, n)
      BY <1>1, <1>6, <2>1 DEF CommandsKept
    <3> QED
      BY <3>1, <3>2
  <2>2. CASE \E i \in 1 .. Len(q) : X = {q[i].asdu} /\ Without(q, i, p)
    <3>1. PICK i \in 1 .. Len(q) : X = {q[i].asdu} /\ Without(q, i, p)
      BY <2>2
    <3>2. Once(p, m, dv, act, n)
      BY <1>1, <1>6, <3>1, OnceLaunched
    <3>3. \A k \in DOMAIN q : \/ q[k].asdu \in gone \cup Carried(m.sent)
                              \/ \E j \in DOMAIN p : p[j].asdu = q[k].asdu
      <4>1. DOMAIN q = 1 .. Len(q) /\ DOMAIN p = 1 .. Len(p)
        BY <1>6
      <4>2. \A k \in 1 .. Len(q) : k # i => \E j \in 1 .. Len(p) : p[j] = q[k]
        BY <3>1 DEF Without
      <4>3. q[i].asdu \in Carried(m.sent)
        BY <1>1, <3>1
      <4> QED
        BY <4>1, <4>2, <4>3
    <3>4. CommandsKept(p, m.sent, act, gone, n)
      BY <1>1, <1>6, <3>3, KeptOn
    <3> QED
      BY <3>2, <3>4
  <2> QED
    BY <2>1, <2>2
<1> QED
  BY <1>1, <1>4, <1>5, <1>7 DEF LineInv, dn2

\* The link has not changed as far as the exchanges go.
LEMMA SameKeeps ==
    ASSUME NEW A \in SUBSET Nat, NEW l, NEW q, NEW dv, NEW dn, NEW u, NEW act, NEW rec, NEW gone,
           NEW n, LineInv(A, l, q, dv, dn, u, act, rec, gone, n),
           NEW m, LinkSame(A, l, m), NEW dn2, NEW u2, Exchange(l.sent, dn2, u2, dv),
           u2 # <<>> => u # <<>>
    PROVE  LineInv(A, m, q, dv, dn2, u2, act, rec, gone, n)
<1>1. m.sent = l.sent /\ IsLink(A, m)
  BY DEF LinkSame
<1>2. \A a \in A : At(m, a, dv[a], u2, act[a], rec[a], gone)
  <2> TAKE a \in A
  <2>1. At(l, a, dv[a], u, act[a], rec[a], gone)
    BY DEF LineInv
  <2> QED
    BY <2>1, SameAt
<1>3. Once(q, m, dv, act, n) /\ CommandsKept(q, m.sent, act, gone, n)
  BY <1>1 DEF LineInv, Once, SentTaken
<1> QED
  BY <1>1, <1>2, <1>3 DEF LineInv

\* A link moves on.
LEMMA MovesOnKeeps ==
    ASSUME NEW A \in SUBSET Nat, NEW l, NEW q, NEW dv, NEW dn, NEW u, NEW act, NEW rec, NEW gone,
           NEW n, LineInv(A, l, q, dv, dn, u, act, rec, gone, n),
           NEW m, NEW out, MovesOn(A, l, m, out)
    PROVE  LineInv(A, m, q, dv, dn \o out, u, act, rec, gone, n)
<1>1. CASE LinkSame(A, l, m) /\ out = <<>>
  <2>1. Exchange(l.sent, dn, u, dv)
    BY DEF LineInv
  <2>2. dn \o out = dn
    <3>1. dn = <<>> \/ dn = <<l.sent>>
      BY <2>1 DEF Exchange
    <3> QED
      BY <1>1, <3>1
  <2>3. LineInv(A, m, q, dv, dn, u, act, rec, gone, n)
    BY <1>1, <2>1, SameKeeps
  <2> QED
    BY <2>2, <2>3
<1>2. CASE Launch(A, l, m, m.sent, {}) /\ out = <<m.sent>>
  <2>1. q \in Seq(Item(A))
    BY DEF LineInv
  <2> QED
    BY <1>2, <2>1, LaunchKeeps
<1> QED
  BY <1>1, <1>2 DEF MovesOn

\* The request is given up.
LEMMA GiveUpKeeps ==
    ASSUME NEW A \in SUBSET Nat, NEW l, NEW q, NEW dv, NEW dn, dn = <<>>, NEW u, u = <<>>,
           NEW act, NEW rec, NEW gone,
           NEW n, LineInv(A, l, q, dv, dn, u, act, rec, gone, n),
           NEW m, LinkGivenUp(A, l, m)
    PROVE  LineInv(A, m, q, dv, dn, u, act, rec, gone \cup Carried(l.sent), n)
<1> DEFINE lose == gone \cup Carried(l.sent)
<1>1. m.sent = NoFrame /\ IsLink(A, m) /\ Carried(m.sent) = {}
  BY NothingCarried DEF LinkGivenUp, Over
<1>2. gone \subseteq lose /\ Carried(l.sent) \subseteq lose
  OBVIOUS
<1> HIDE DEF lose
<1>3. \A a \in A : At(m, a, dv[a], u, act[a], rec[a], lose)
  <2> TAKE a \in A
  <2>1. At(l, a, dv[a], u, act[a], rec[a], gone)
    BY DEF LineInv
  <2> QED
    BY <1>2, <2>1, GivenUpAt
<1>4. Exchange(m.sent, dn, u, dv)
  BY DEF Exchange
<1>5. q \in Seq(Item(A)) /\ Once(q, l, dv, act, n) /\ CommandsKept(q, l.sent, act, gone, n)
  BY DEF LineInv
<1>6. Once(q, m, dv, act, n)
  BY <1>1, <1>5, OnceQuiet
<1>7. CommandsKept(q, m.sent, act, lose, n)
  BY <1>2, <1>5, KeptOn
<1> QED
  BY <1>1, <1>3, <1>4, <1>6, <1>7 DEF LineInv, lose

\* The answer is received.
LEMMA ConfirmKeeps ==
    ASSUME NEW A \in SUBSET Nat, NEW l, NEW q, NEW dv, NEW dn, NEW u, u # <<>>,
           NEW act, NEW rec, NEW gone,
           NEW n, LineInv(A, l, q, dv, dn, u, act, rec, gone, n),
           NEW m, LinkConfirmed(A, l, m),
           NEW rec2 \in [A -> Seq(Reports)],
           Gets(dv[l.sent.addr].lastResp, l.sent, rec[l.sent.addr], rec2[l.sent.addr]),
           \A a \in A : a # l.sent.addr => rec2[a] = rec[a]
    PROVE  LineInv(A, m, q, dv, dn, <<>>, act, rec2, gone, n)
<1> DEFINE b == l.sent.addr
           f == dv[b].lastResp
<1>1. /\ m.sent = NoFrame /\ IsLink(A, m) /\ Carried(m.sent) = {} /\ l.sent # NoFrame
      /\ IsLink(A, l) /\ Asks(A, l.sent) /\ b \in A
  BY NothingCarried, AskKinds DEF LinkConfirmed, Over, LineInv, IsLink
<1>2. dn = <<>> /\ f # NoFrame
  BY DEF LineInv, Exchange
<1> HIDE DEF b, f
<1>3. \A a \in A : At(m, a, dv[a], <<>>, act[a], rec2[a], gone)
  <2> TAKE a \in A
  <2>1. /\ At(l, a, dv[a], u, act[a], rec[a], gone) /\ IsDevice(a, dv[a])
        /\ rec[a] \in Seq(Reports)
    BY DEF LineInv
  <2>2. a = l.sent.addr => dv[a].lastResp # NoFrame /\ Gets(dv[a].lastResp, l.sent, rec[a], rec2[a])
    BY <1>2 DEF f, b
  <2>3. a # l.sent.addr => rec2[a] = rec[a]
    OBVIOUS
  <2> DEFINE d == dv[a]
             r == rec[a]
             r2 == rec2[a]
             s == act[a]
  <2> HIDE DEF d, r, r2, s
  <2>4. At(m, a, d, <<>>, s, r2, gone)
    <3>1. At(l, a, d, u, s, r, gone) /\ IsDevice(a, d) /\ r \in Seq(Reports)
      BY <2>1 DEF d, r, s
    <3>2. a = l.sent.addr => d.lastResp # NoFrame
      BY <2>2 DEF d
    <3>3. a = l.sent.addr => Gets(d.lastResp, l.sent, r, r2)
      BY <2>2 DEF d, r, r2
    <3>4. a # l.sent.addr => r2 = r
      BY <2>3 DEF r, r2
    <3> QED
      BY <1>1, <3>1, <3>2, <3>3, <3>4, ConfirmedAt
  <2> QED
    BY <2>4 DEF d, r2, s
<1>4. Exchange(m.sent, dn, <<>>, dv)
  BY <1>2 DEF Exchange
<1>5. q \in Seq(Item(A)) /\ Once(q, l, dv, act, n) /\ CommandsKept(q, l.sent, act, gone, n)
  BY DEF LineInv
<1>6. Once(q, m, dv, act, n)
  BY <1>1, <1>5, OnceQuiet
<1>7. \A x \in Carried(l.sent) : \E a \in DOMAIN act : x \in ToSet(act[a])
  <2>1. At(l, b, dv[b], u, act[b], rec[b], gone) /\ DOMAIN act = A
    BY <1>1 DEF LineInv
  <2>2. Out(l, b) = l.sent
    BY <1>1 DEF Out, b
  <2>3. l.sent.control.fcv => Taken(l.sent, dv[b])
    BY <1>1, <2>1, <2>2 DEF At, DeviceInv, Bits
  <2>4. l.sent.control.fcv => Carried(l.sent) \subseteq ToSet(act[b])
    BY <2>1, <2>2, <2>3 DEF At, DeviceInv, Kept
  <2>5. ~l.sent.control.fcv => Carried(l.sent) = {}
    <3>1. ~l.sent.control.fcv => l.sent.kind # "Variable"
      BY <1>1, Codes DEF Asks
    <3> QED
      BY <3>1 DEF Carried
  <2> QED
    BY <1>1, <2>1, <2>4, <2>5
<1>8. CommandsKept(q, m.sent, act, gone, n)
  BY <1>5, <1>7, KeptOn
<1> QED
  BY <1>1, <1>3, <1>4, <1>6, <1>8 DEF LineInv

\* A request that is no command is queued.
LEMMA JoinedKeeps ==
    ASSUME NEW A \in SUBSET Nat, NEW l, NEW q, NEW dv, NEW dn, NEW u, NEW act, NEW rec, NEW gone,
           NEW n, LineInv(A, l, q, dv, dn, u, act, rec, gone, n),
           NEW a \in A, NEW x \in {TimeSync, Interrogation}, NEW p, p = Enqueued(q, a, x)
    PROVE  LineInv(A, l, p, dv, dn, u, act, rec, gone, n)
<1>1. CASE p = q
  BY <1>1
<1>2. CASE p # q
  <2> DEFINE y == [addr |-> a, asdu |-> x]
  <2>1. y \in Item(A) /\ ~IsCommand(y.asdu)
    BY DEF Item, Requests, IsCommand, TimeSync, Interrogation
  <2>2. p = Append(q, y)
    BY <1>2 DEF Enqueued
  <2> HIDE DEF y
  <2>3. q \in Seq(Item(A)) /\ Once(q, l, dv, act, n) /\ CommandsKept(q, l.sent, act, gone, n)
    BY DEF LineInv
  <2>4. Once(p, l, dv, act, n) /\ p \in Seq(Item(A))
    BY <2>1, <2>2, <2>3, OnceJoined
  <2>5. \A i \in DOMAIN q : i \in DOMAIN p /\ p[i] = q[i]
    BY <2>1, <2>2, <2>3
  <2>6. CommandsKept(p, l.sent, act, gone, n)
    BY <2>3, <2>5 DEF CommandsKept
  <2> QED
    BY <2>4, <2>6 DEF LineInv
<1> QED
  BY <1>1, <1>2

\* What auto_init queues.
LEMMA InitializedKeeps ==
    ASSUME NEW A \in SUBSET Nat, NEW l, NEW q, NEW dv, NEW dn, NEW u, NEW act, NEW rec, NEW gone,
           NEW n, LineInv(A, l, q, dv, dn, u, act, rec, gone, n),
           NEW a \in A, NEW p, p = Initialized(q, a) \/ p = q
    PROVE  LineInv(A, l, p, dv, dn, u, act, rec, gone, n)
<1>1. CASE p = q
  BY <1>1
<1>2. CASE p # q
  <2> DEFINE r == Enqueued(q, a, TimeSync)
  <2>1. p = Enqueued(r, a, Interrogation)
    BY <1>2 DEF Initialized
  <2>2. LineInv(A, l, r, dv, dn, u, act, rec, gone, n)
    BY JoinedKeeps
  <2> HIDE DEF r
  <2> QED
    BY <2>1, <2>2, JoinedKeeps
<1> QED
  BY <1>1, <1>2

\* An application hands over a command.
LEMMA CommandKeeps ==
    ASSUME NEW A \in SUBSET Nat, NEW l, NEW q, NEW dv, NEW dn, NEW u, NEW act, NEW rec, NEW gone,
           NEW n, LineInv(A, l, q, dv, dn, u, act, rec, gone, n),
           NEW a \in A, NEW p, p = Append(q, [addr |-> a, asdu |-> Command(n + 1)])
    PROVE  LineInv(A, l, p, dv, dn, u, act, rec, gone, n + 1)
<1>1. /\ q \in Seq(Item(A)) /\ Once(q, l, dv, act, n) /\ CommandsKept(q, l.sent, act, gone, n)
      /\ n \in Nat /\ act \in [A -> Seq(Requests)] /\ IsLink(A, l)
  BY DEF LineInv
<1>2. Carried(l.sent) \subseteq Requests
  <2>1. CASE l.sent = NoFrame
    BY <2>1, NothingCarried
  <2>2. CASE l.sent # NoFrame
    BY <1>1, <2>2, AskKinds DEF IsLink, Carried
  <2> QED
    BY <2>1, <2>2
<1>3. Once(p, l, dv, act, n + 1) /\ p \in Seq(Item(A))
  BY <1>1, <1>2, OnceCommanded
<1>4. CommandsKept(p, l.sent, act, gone, n + 1)
  <2> DEFINE x == [addr |-> a, asdu |-> Command(n + 1)]
  <2>1. /\ \A i \in DOMAIN q : i \in DOMAIN p /\ p[i] = q[i]
        /\ Len(q) + 1 \in DOMAIN p /\ p[Len(q) + 1] = x
    <3>1. x \in Item(A)
      BY <1>1 DEF Item, Requests, Command
    <3> HIDE DEF x
    <3>2. p = Append(q, x)
      BY DEF x
    <3> QED
      BY <1>1, <3>1, <3>2
  <2>2. x.asdu = Command(n + 1)
    OBVIOUS
  <2> HIDE DEF x
  <2>3. \A k \in 1 .. (n + 1) : k \in 1 .. n \/ k = n + 1
    BY <1>1
  <2> QED
    BY <1>1, <2>1, <2>2, <2>3 DEF CommandsKept
<1>5. n + 1 \in Nat
  BY <1>1
<1> QED
  BY <1>3, <1>4, <1>5 DEF LineInv

\* A device answers again.
LEMMA RepeatKeeps ==
    ASSUME NEW A \in SUBSET Nat, NEW l, NEW q, NEW dv, NEW u, NEW act, NEW rec, NEW gone,
           NEW n, LineInv(A, l, q, dv, <<l.sent>>, u, act, rec, gone, n), l.sent # NoFrame,
           NEW b, b = l.sent.addr, IsRepeated(dv[b], l.sent),
           NEW v, v = IF dv[b].lastResp = NoFrame THEN u ELSE Append(u, dv[b].lastResp)
    PROVE  LineInv(A, l, q, dv, <<>>, v, act, rec, gone, n)
<1>1. /\ IsLink(A, l) /\ Asks(A, l.sent) /\ b \in A /\ Exchange(l.sent, <<l.sent>>, u, dv)
  BY AskKinds DEF LineInv, IsLink
<1>2. u = <<>> /\ Asks({b}, l.sent)
  BY <1>1 DEF Exchange, Asks, Ask
<1>3. \A a \in A : At(l, a, dv[a], u, act[a], rec[a], gone)
  BY DEF LineInv
<1>4. \A w : At(l, b, dv[b], w, act[b], rec[b], gone) /\ dv[b].lastResp # NoFrame
  <2> TAKE w
  <2> DEFINE d == dv[b]
             s == act[b]
             r == rec[b]
  <2>1. At(l, b, d, u, s, r, gone) /\ IsRepeated(d, l.sent)
    BY <1>1, <1>3
  <2> HIDE DEF d, s, r
  <2>2. At(l, b, d, w, s, r, gone) /\ d.lastResp # NoFrame
    BY <1>2, <2>1, RepeatAt
  <2> QED
    BY <2>2 DEF d, s, r
<1>5. v = <<dv[b].lastResp>>
  BY <1>2, <1>4
<1>6. \A a \in A : At(l, a, dv[a], v, act[a], rec[a], gone)
  <2> TAKE a \in A
  <2>1. CASE a = b
    BY <1>4, <2>1
  <2>2. CASE a # b
    <3>1. Out(l, a) = NoFrame
      BY <2>2 DEF Out
    <3>2. At(l, a, dv[a], u, act[a], rec[a], gone)
      BY <1>3
    <3> QED
      BY <3>1, <3>2, OtherAt
  <2> QED
    BY <2>1, <2>2
<1>7. Exchange(l.sent, <<>>, v, dv)
  BY <1>4, <1>5 DEF Exchange
<1> QED
  BY <1>6, <1>7 DEF LineInv

\* Device b acts on frame f, if it is a request to act on.
ActsOn(act, f, b) == IF f.kind = "Variable" THEN ActsTo(act, b, f.asdu) ELSE act

ActedOnce(A, q, l, dv2, b, act, act2, n) ==
    /\ Once(q, l, dv2, act2, n) /\ act2 \in [A -> Seq(Requests)]
    /\ Carried(l.sent) \subseteq ToSet(act2[b])
    /\ \A a \in A : ToSet(act[a]) \subseteq ToSet(act2[a])

\* A device acts on what it has taken as new, which is out no more than it is acted on.
LEMMA OnceTaken ==
    ASSUME NEW A, NEW q \in Seq(Item(A)), NEW l, NEW dv, NEW act \in [A -> Seq(Requests)], NEW n,
           Once(q, l, dv, act, n), l.sent # NoFrame, Asks(A, l.sent),
           NEW b \in A, b = l.sent.addr, IsDevice(b, dv[b]), ~IsRepeated(dv[b], l.sent),
           NEW e, Serves(b, dv[b], l.sent, e), NEW dv2, dv2[b] = e,
           NEW act2, act2 = ActsOn(act, l.sent, b)
    PROVE  ActedOnce(A, q, l, dv2, b, act, act2, n)
<1>1. CASE l.sent.kind # "Variable"
  <2>1. Carried(l.sent) = {} /\ act2 = act
    BY <1>1 DEF Carried, ActsOn
  <2>2. Once(q, l, dv2, act, n)
    BY <2>1, OnceQuiet
  <2> QED
    BY <2>1, <2>2 DEF ActedOnce
<1>2. CASE l.sent.kind = "Variable"
  <2> DEFINE x == l.sent.asdu
  <2>1. x \in Requests /\ Carried(l.sent) = {x} /\ act2 = ActsTo(act, b, x)
    BY <1>2, AskKinds DEF Carried, ActsOn
  <2>2. /\ l.sent.control.fcv /\ l.sent.control.fcb \in BOOLEAN
        /\ dv[b].fcbExpected \in BOOLEAN
    BY <1>2, AskKinds, Codes DEF Asks, IsDevice, DeviceRec, ControlField
  <2>3. ~Taken(l.sent, dv[b]) /\ Taken(l.sent, dv2[b])
    BY <2>2 DEF Taken, IsRepeated, Serves
  <2>4. ~SentTaken(l, dv) /\ SentTaken(l, dv2)
    BY <2>3 DEF SentTaken
  <2> HIDE DEF x
  <2>5. Once(q, l, dv2, act2, n)
    BY <2>1, <2>4, OnceActed
  <2> DEFINE s == act[b]
  <2>6. s \in Seq(Requests)
    OBVIOUS
  <2> HIDE DEF s
  <2>7. /\ Append(s, x) \in Seq(Requests)
        /\ Append(s, x)[Len(s) + 1] = x /\ Len(s) + 1 \in DOMAIN Append(s, x)
        /\ \A i \in DOMAIN s : i \in DOMAIN Append(s, x) /\ Append(s, x)[i] = s[i]
    BY <2>1, <2>6
  <2>8. x \in ToSet(Append(s, x)) /\ ToSet(s) \subseteq ToSet(Append(s, x))
    BY <2>7 DEF ToSet
  <2>9. act2[b] = Append(s, x) /\ \A a \in A : a # b => act2[a] = act[a]
    BY <2>1 DEF s, ActsTo
  <2>10. act2 \in [A -> Seq(Requests)]
    BY <2>1, <2>7 DEF s, ActsTo
  <2>11. Carried(l.sent) \subseteq ToSet(act2[b])
    BY <2>1, <2>8, <2>9
  <2>12. \A a \in A : ToSet(act[a]) \subseteq ToSet(act2[a])
    BY <2>8, <2>9 DEF s
  <2> QED
    BY <2>5, <2>10, <2>11, <2>12 DEF ActedOnce
<1> QED
  BY <1>1, <1>2

\* A device takes the request that reaches it as new, and answers it.
LEMMA TakesKeeps ==
    ASSUME NEW A \in SUBSET Nat, NEW l, NEW q, NEW dv, NEW u, NEW act, NEW rec, NEW gone,
           NEW n, LineInv(A, l, q, dv, <<l.sent>>, u, act, rec, gone, n), l.sent # NoFrame,
           NEW b, b = l.sent.addr, ~IsRepeated(dv[b], l.sent),
           NEW e, Serves(b, dv[b], l.sent, e), NEW dv2, dv2 = [dv EXCEPT ![b] = e],
           NEW act2, act2 = ActsOn(act, l.sent, b),
           NEW lose, gone \subseteq lose,
           ~l.sent.control.fcv => Carried(dv[b].lastResp) \subseteq lose
    PROVE  LineInv(A, l, q, dv2, <<>>, u \o <<e.lastResp>>, act2, rec, lose, n)
<1>1. /\ IsLink(A, l) /\ Asks(A, l.sent) /\ b \in A /\ Exchange(l.sent, <<l.sent>>, u, dv)
      /\ \A a \in A : IsDevice(a, dv[a]) /\ rec[a] \in Seq(Reports)
      /\ dv \in [A -> DeviceRec] /\ act \in [A -> Seq(Requests)] /\ q \in Seq(Item(A))
      /\ Once(q, l, dv, act, n) /\ CommandsKept(q, l.sent, act, gone, n)
  BY AskKinds DEF LineInv, IsLink
<1>2. u = <<>> /\ IsDevice(b, e) /\ e.lastResp # NoFrame
  BY <1>1 DEF Exchange, Serves
<1>3. /\ dv2 \in [A -> DeviceRec] /\ dv2[b] = e /\ \A a \in A : a # b => dv2[a] = dv[a]
      /\ \A a \in A : IsDevice(a, dv2[a])
  BY <1>1, <1>2 DEF IsDevice
<1> DEFINE v == u \o <<e.lastResp>>
<1>4. v = <<e.lastResp>>
  BY <1>2
<1> HIDE DEF v
<1>5. /\ Once(q, l, dv2, act2, n) /\ act2 \in [A -> Seq(Requests)]
      /\ Carried(l.sent) \subseteq ToSet(act2[b])
      /\ \A a \in A : ToSet(act[a]) \subseteq ToSet(act2[a])
  <2>1. IsDevice(b, dv[b])
    BY <1>1
  <2>2. dv2[b] = e
    BY <1>3
  <2>3. ActedOnce(A, q, l, dv2, b, act, act2, n)
    BY <1>1, <2>1, <2>2, OnceTaken
  <2> QED
    BY <2>3 DEF ActedOnce
<1>6. \A a \in A : a # b => act2[a] = act[a]
  BY <1>1 DEF ActsOn, ActsTo
<1>7. \A a \in A : At(l, a, dv[a], u, act[a], rec[a], gone)
  BY DEF LineInv
<1>8. \A a \in A : At(l, a, dv2[a], v, act2[a], rec[a], lose)
  <2> TAKE a \in A
  <2>1. CASE a = b
    <3> DEFINE d == dv[b]
               s == act[b]
               r == rec[b]
               s2 == act2[b]
    <3>1. /\ At(l, b, d, u, s, r, gone) /\ IsDevice(b, d) /\ ~IsRepeated(d, l.sent)
          /\ Serves(b, d, l.sent, e) /\ r \in Seq(Reports)
          /\ Carried(l.sent) \subseteq ToSet(s2)
          /\ ~l.sent.control.fcv => Carried(d.lastResp) \subseteq lose
      BY <1>1, <1>5, <1>7
    <3> HIDE DEF d, s, r, s2
    <3>2. At(l, b, e, v, s2, r, lose)
      BY <1>1, <3>1, TakesAt
    <3> QED
      BY <1>3, <2>1, <3>2 DEF s2, r
  <2>2. CASE a # b
    <3>1. Out(l, a) = NoFrame
      BY <2>2 DEF Out
    <3>2. At(l, a, dv[a], u, act[a], rec[a], gone)
      BY <1>7
    <3>3. At(l, a, dv[a], v, act[a], rec[a], lose)
      BY <3>1, <3>2, OtherAt
    <3> QED
      BY <1>3, <1>6, <2>2, <3>3
  <2> QED
    BY <2>1, <2>2
<1>9. Exchange(l.sent, <<>>, v, dv2)
  BY <1>2, <1>3, <1>4 DEF Exchange
<1>10. CommandsKept(q, l.sent, act2, lose, n)
  <2>1. DOMAIN act2 = A /\ DOMAIN act = A
    BY <1>1, <1>5
  <2>2. /\ CommandsKept(q, l.sent, act, gone, n) /\ DOMAIN act2 = DOMAIN act
        /\ \A a \in DOMAIN act : ToSet(act[a]) \subseteq ToSet(act2[a])
        /\ \A x \in Carried(l.sent) : \/ x \in lose \cup Carried(l.sent)
                                      \/ \E a \in DOMAIN act : x \in ToSet(act2[a])
        /\ \A i \in DOMAIN q : \/ q[i].asdu \in lose \cup Carried(l.sent)
                               \/ \E j \in DOMAIN q : q[j].asdu = q[i].asdu
    BY <1>1, <1>5, <2>1
  <2> QED
    BY <2>2, KeptOn
<1> QED
  BY <1>3, <1>5, <1>8, <1>9, <1>10 DEF LineInv, v

\* What is lost with a connection, and the devices after it.
AllLost(A, l, q, dv, gone) ==
    gone \cup Carried(l.sent) \cup {q[i].asdu : i \in DOMAIN q}
    \cup UNION {ToSet(dv[a].class1) \cup Carried(dv[a].lastResp) : a \in A}
Renewed(A, dv) == [a \in A |-> NewRelay(dv[a].count)]

\* The line is closed and opened again.
LEMMA ReopenKeeps ==
    ASSUME NEW A \in SUBSET Nat, NEW l, NEW q, NEW dv, NEW dn, NEW u, NEW act, NEW rec, NEW gone,
           NEW n, LineInv(A, l, q, dv, dn, u, act, rec, gone, n),
           NEW m, IsLink(A, m), m.sent = NoFrame, \A a \in A : ~On(m, a),
           NEW dv2, dv2 = Renewed(A, dv), NEW lose, lose = AllLost(A, l, q, dv, gone)
    PROVE  LineInv(A, m, <<>>, dv2, <<>>, <<>>, act, rec, lose, n)
<1>1. /\ \A a \in A : /\ IsDevice(a, dv[a]) /\ dv[a] \in DeviceRec
                      /\ At(l, a, dv[a], u, act[a], rec[a], gone)
      /\ act \in [A -> Seq(Requests)] /\ q \in Seq(Item(A))
      /\ Once(q, l, dv, act, n) /\ CommandsKept(q, l.sent, act, gone, n)
  BY DEF LineInv
<1>2. /\ gone \subseteq lose /\ Carried(l.sent) \subseteq lose
      /\ \A i \in DOMAIN q : q[i].asdu \in lose
      /\ \A a \in A : gone \cup ToSet(dv[a].class1) \cup Carried(dv[a].lastResp) \subseteq lose
  BY DEF AllLost
<1>3. \A a \in A : IsDevice(a, dv2[a]) /\ dv2[a] = NewRelay(dv[a].count)
  BY <1>1 DEF Renewed, IsDevice, DeviceRec, NewRelay, Keeps
<1>4. dv2 \in [A -> DeviceRec]
  BY <1>3 DEF Renewed, IsDevice
<1>5. \A a \in A : At(m, a, dv2[a], <<>>, act[a], rec[a], lose)
  <2> TAKE a \in A
  <2> DEFINE d == dv[a]
             s == act[a]
             r == rec[a]
  <2>1. /\ IsDevice(a, d) /\ At(l, a, d, u, s, r, gone)
        /\ gone \cup ToSet(d.class1) \cup Carried(d.lastResp) \subseteq lose
    BY <1>1, <1>2
  <2>2. ~On(m, a)
    OBVIOUS
  <2> HIDE DEF d, s, r
  <2>3. At(m, a, NewRelay(d.count), <<>>, s, r, lose)
    BY <2>1, <2>2, ReopenAt
  <2> QED
    BY <1>3, <2>3 DEF d, s, r
<1>6. Exchange(m.sent, <<>>, <<>>, dv2)
  BY DEF Exchange
<1>7. Carried(m.sent) = {}
  BY NothingCarried
<1>8. Once(<<>>, m, dv2, act, n) /\ <<>> \in Seq(Item(A))
  BY <1>1, <1>7, OnceQuiet
<1>9. CommandsKept(<<>>, m.sent, act, lose, n)
  BY <1>1, <1>2, KeptOn
<1> QED
  BY <1>3, <1>4, <1>5, <1>6, <1>8, <1>9 DEF LineInv

-----------------------------------------------------------------------------
(***************************************************************************)
(* The invariant is one.                                                   *)
(***************************************************************************)

\* What is true of every line.
LEMMA LineIs ==
    ASSUME NEW x \in Lines
    PROVE  /\ ToSet(x.order) \in SUBSET Nat
           /\ x.order \in Seq(ToSet(x.order)) \ {<<>>}
<1> DEFINE s == x.order
<1>1. s \in Seq(Nat) /\ s # <<>>
  BY Line103Assumption
<1> HIDE DEF s
<1>2. \A i \in DOMAIN s : s[i] \in Nat /\ s[i] \in ToSet(s)
  BY <1>1 DEF ToSet
<1>3. ToSet(s) \subseteq Nat
  BY <1>2 DEF ToSet
<1>4. s \in [1 .. Len(s) -> ToSet(s)] /\ Len(s) \in Nat
  <2>1. s \in [1 .. Len(s) -> Nat] /\ Len(s) \in Nat /\ DOMAIN s = 1 .. Len(s)
    BY <1>1
  <2> QED
    BY <1>2, <2>1
<1>5. s \in Seq(ToSet(s))
  BY <1>4
<1> QED
  BY <1>1, <1>3, <1>5 DEF s

\* LinkState::new.
LEMMA NewLinkIs ==
    ASSUME NEW A, NEW s \in Seq(A) \ {<<>>}, A = ToSet(s), NEW m, m = P!NewLink(s)
    PROVE  IsLink(A, m) /\ m.sent = NoFrame /\ \A a \in A : ~On(m, a)
<1>1. P!NewDevice \in Dev /\ P!NewDevice.phase # "Active"
  BY DEF P!NewDevice, Dev
<1>2. /\ m.devs = [a \in A |-> P!NewDevice] /\ m.order = s /\ m.idx = 1
      /\ m.sent = NoFrame /\ m.retry = 0
      /\ m = [devs |-> m.devs, order |-> m.order, idx |-> m.idx,
              sent |-> m.sent, retry |-> m.retry]
  BY PNames DEF P!NewLink, P!ToSet, ToSet
<1>3. 1 \in 1 .. Len(s)
  OBVIOUS
<1>4. m \in LinkRec(A)
  BY <1>1, <1>2 DEF LinkRec
<1> QED
  BY <1>1, <1>2, <1>3, <1>4 DEF IsLink, On

\* The invariant after a step.
ThenInv == /\ line' = line
           /\ LineInv(Device, link', queue', device', down', up', acted', received', lost',
                      commands')

\* It is the invariant of the next state.
LEMMA ThenIs ==
    ASSUME line \in Lines, ThenInv
    PROVE  IInv'
<1>1. Device' = Device /\ line' \in Lines
  BY DEF ThenInv, Device
<1> QED
  BY <1>1 DEF ThenInv, IInv, LineTypes, DevicesInv, LineInv, At, Once

\* What holds of the line and its invariant.
LEMMA NowIs ==
    ASSUME IInv
    PROVE  /\ line \in Lines /\ Device \in SUBSET Nat
           /\ LineInv(Device, link, queue, device, down, up, acted, received, lost, commands)
BY InvIsLineInv, LineIs DEF Device

\* It holds at the start.
LEMMA InitIInv == Init => IInv
<1> SUFFICES ASSUME Init PROVE IInv
  OBVIOUS
<1>1. /\ line \in Lines /\ Device \in SUBSET Nat /\ line.order \in Seq(Device) \ {<<>>}
  BY LineIs DEF Init, Device
<1>2. IsLink(Device, link) /\ link.sent = NoFrame /\ \A a \in Device : ~On(link, a)
  <2>1. link = P!NewLink(line.order)
    BY DEF Init
  <2> QED
    BY <1>1, <2>1, NewLinkIs DEF Device
<1>3. /\ device = [a \in Device |-> NewRelay(0)] /\ queue = <<>> /\ down = <<>> /\ up = <<>>
      /\ acted = [a \in Device |-> <<>>] /\ received = [a \in Device |-> <<>>] /\ lost = {}
      /\ commands = 0
  BY DEF Init
<1>4. NewRelay(0) \in DeviceRec /\ NewRelay(0).lastResp = NoFrame
  BY DEF NewRelay, DeviceRec, Keeps
<1>5. device \in [Device -> DeviceRec] /\ \A a \in Device : IsDevice(a, device[a])
  BY <1>3, <1>4 DEF IsDevice
<1>6. \A a \in Device : At(link, a, device[a], up, acted[a], received[a], lost)
  <2> TAKE a \in Device
  <2> DEFINE e == NewRelay(0)
  <2>1. /\ e.fcbExpected = TRUE /\ e.lastResp = NoFrame /\ e.class1 = <<>> /\ e.count = 0
    BY DEF NewRelay
  <2> HIDE DEF e
  <2>2. ~Taken(NoFrame, e) /\ Out(link, a) = NoFrame /\ ~On(link, a)
    BY <1>2 DEF Taken, Out
  <2>3. Bits(On(link, a), link.devs[a].fcb, NoFrame, e, up # <<>>)
    BY <2>2 DEF Bits
  <2>4. Kept(On(link, a), NoFrame, e, up # <<>>, <<>>, <<>>, lost)
    BY <2>2 DEF Kept
  <2>5. Ordered(NoFrame, e, <<>>)
    <3>1. Len(e.class1) = 0 /\ 1 .. 0 = {}
      BY <2>1
    <3> QED
      BY <2>2, <3>1 DEF Ordered
  <2>6. Complete(e, <<>>, lost)
    BY <2>1 DEF Complete
  <2>7. At(link, a, e, up, <<>>, <<>>, lost)
    BY <2>2, <2>3, <2>4, <2>5, <2>6 DEF At, DeviceInv
  <2> QED
    BY <1>3, <2>7 DEF e
<1>7. Exchange(link.sent, down, up, device)
  BY <1>3 DEF Exchange
<1>8. Once(queue, link, device, acted, commands)
  <2>1. Carried(link.sent) = {}
    BY <1>2, NothingCarried
  <2>2. /\ \A i \in 1 .. Len(queue) : FALSE
        /\ \A a \in DOMAIN acted : \A i \in 1 .. Len(acted[a]) : FALSE
    BY <1>3
  <2> QED
    BY <2>1, <2>2 DEF Once, CommandsOnce
<1>9. CommandsKept(queue, link.sent, acted, lost, commands)
  BY <1>3 DEF CommandsKept
<1>10. /\ queue \in Seq(Item(Device)) /\ commands \in Nat
       /\ acted \in [Device -> Seq(Requests)] /\ received \in [Device -> Seq(Reports)]
  BY <1>3
<1> QED
  BY <1>1, <1>2, <1>5, <1>6, <1>7, <1>8, <1>9, <1>10, InvIsLineInv DEF LineInv

-----------------------------------------------------------------------------
(***************************************************************************)
(* Every step keeps it.                                                    *)
(***************************************************************************)

\* Link::general_command.
LEMMA SendCommandKeeps ==
    ASSUME IInv, NEW a \in Device, SendCommand(a)
    PROVE  IInv'
<1>1. /\ line \in Lines /\ Device \in SUBSET Nat
      /\ LineInv(Device, link, queue, device, down, up, acted, received, lost, commands)
  BY NowIs
<1>2. /\ queue' = Append(queue, [addr |-> a, asdu |-> Command(commands + 1)])
      /\ commands' = commands + 1
      /\ UNCHANGED <<line, link, device, down, up, acted, received, lost>>
  BY DEF SendCommand, Enqueued
<1>3. LineInv(Device, link, queue', device, down, up, acted, received, lost, commands + 1)
  BY <1>1, <1>2, CommandKeeps
<1>4. ThenInv
  BY <1>2, <1>3 DEF ThenInv
<1> QED
  BY <1>1, <1>4, ThenIs

\* tick.
LEMMA ClientTickKeeps ==
    ASSUME IInv, ClientTick
    PROVE  IInv'
<1> DEFINE o == P!Tick(link, queue)
<1>1. /\ line \in Lines /\ Device \in SUBSET Nat
      /\ LineInv(Device, link, queue, device, down, up, acted, received, lost, commands)
  BY NowIs
<1>2. /\ link.sent = NoFrame /\ link' = o.link /\ down' = down \o o.out
      /\ queue' = P!QueueAfter(link, queue)
      /\ UNCHANGED <<line, device, up, acted, received, lost, commands>>
  BY PNames DEF ClientTick, Sends, P!Idle, bounds
<1>3. IsLink(Device, link) /\ queue \in Seq(Item(Device))
  BY <1>1 DEF LineInv
<1>4. Ticked(Device, link, o, queue, P!QueueAfter(link, queue))
  BY <1>2, <1>3, TickIs
<1> HIDE DEF o
<1>5. CASE MovesOn(Device, link, o.link, o.out) /\ queue' = queue
  <2>1. MovesOn(Device, link, link', o.out) /\ down' = down \o o.out
    BY <1>2, <1>5
  <2>2. LineInv(Device, link', queue, device, down \o o.out, up, acted, received, lost, commands)
    BY <1>1, <2>1, MovesOnKeeps
  <2>3. ThenInv
    BY <1>2, <1>5, <2>1, <2>2 DEF ThenInv
  <2> QED
    BY <1>1, <2>3, ThenIs
<1>6. CASE \E i \in 1 .. Len(queue) :
             /\ Launch(Device, link, o.link, o.link.sent, {queue[i].asdu})
             /\ o.out = <<o.link.sent>>
             /\ queue' = SubSeq(queue, 1, i - 1) \o SubSeq(queue, i + 1, Len(queue))
  <2>1. PICK i \in 1 .. Len(queue) :
             /\ Launch(Device, link, o.link, o.link.sent, {queue[i].asdu})
             /\ o.out = <<o.link.sent>>
             /\ queue' = SubSeq(queue, 1, i - 1) \o SubSeq(queue, i + 1, Len(queue))
    BY <1>6
  <2>2. Without(queue, i, queue') /\ queue' \in Seq(Item(Device))
    BY <1>3, <2>1, WithoutOne
  <2>3. Launch(Device, link, link', link'.sent, {queue[i].asdu}) /\ down' = down \o <<link'.sent>>
    BY <1>2, <2>1
  <2>4. LineInv(Device, link', queue', device, down \o <<link'.sent>>, up, acted, received, lost,
                commands)
    BY <1>1, <2>2, <2>3, LaunchKeeps
  <2>5. ThenInv
    BY <1>2, <2>3, <2>4 DEF ThenInv
  <2> QED
    BY <1>1, <2>5, ThenIs
<1> QED
  BY <1>2, <1>4, <1>5, <1>6 DEF Ticked

\* on_t3_timeout.
LEMMA ClientTestKeeps ==
    ASSUME IInv, ClientTest
    PROVE  IInv'
<1> DEFINE o == P!T3Timeout(link)
<1>1. /\ line \in Lines /\ Device \in SUBSET Nat
      /\ LineInv(Device, link, queue, device, down, up, acted, received, lost, commands)
  BY NowIs
<1>2. /\ link' = o.link /\ down' = down \o o.out
      /\ UNCHANGED <<line, queue, device, up, acted, received, lost, commands>>
  BY DEF ClientTest, Sends
<1>3. MovesOn(Device, link, o.link, o.out)
  <2>1. IsLink(Device, link)
    BY <1>1 DEF LineInv
  <2> QED
    BY <2>1, T3TimeoutIs
<1> HIDE DEF o
<1>4. LineInv(Device, o.link, queue, device, down \o o.out, up, acted, received, lost, commands)
  BY <1>1, <1>3, MovesOnKeeps
<1>5. ThenInv
  BY <1>2, <1>4 DEF ThenInv
<1> QED
  BY <1>1, <1>5, ThenIs

\* handle_link_request.
LEMMA ManualKeeps ==
    ASSUME IInv, NEW a \in Device, NEW fun, Manual(a, fun)
    PROVE  IInv'
<1> DEFINE o == P!LinkRequest(link, fun, a)
<1>1. /\ line \in Lines /\ Device \in SUBSET Nat
      /\ LineInv(Device, link, queue, device, down, up, acted, received, lost, commands)
  BY NowIs
<1>2. /\ link' = o.link /\ down' = down \o o.out
      /\ UNCHANGED <<line, queue, device, up, acted, received, lost, commands>>
  BY DEF Manual, Sends
<1>3. MovesOn(Device, link, o.link, o.out)
  <2>1. IsLink(Device, link)
    BY <1>1 DEF LineInv
  <2> QED
    BY <2>1, LinkRequestIs
<1> HIDE DEF o
<1>4. LineInv(Device, o.link, queue, device, down \o o.out, up, acted, received, lost, commands)
  BY <1>1, <1>3, MovesOnKeeps
<1>5. ThenInv
  BY <1>2, <1>4 DEF ThenInv
<1> QED
  BY <1>1, <1>5, ThenIs

\* on_t1_timeout, of a line that stays open.
LEMMA ClientTimeoutKeeps ==
    ASSUME IInv, ~line.late, ClientTimeout
    PROVE  IInv'
<1> DEFINE o == P!T1Timeout(link)
<1>1. /\ line \in Lines /\ Device \in SUBSET Nat
      /\ LineInv(Device, link, queue, device, down, up, acted, received, lost, commands)
  BY NowIs
<1>2. /\ T1Strikes /\ link' = o.link /\ down' = down \o o.out
      /\ lost' = lost \cup IF P!Exhausted(link) THEN Carried(link.sent) ELSE {}
      /\ UNCHANGED <<line, queue, device, up, acted, received, commands>>
  BY DEF ClientTimeout, Sends, bounds
<1>3. link.sent # NoFrame /\ up = <<>> /\ link.sent \notin ToSet(down)
  BY <1>2, PNames DEF T1Strikes, AwaitedInVain, P!Idle
<1>4. IsLink(Device, link) /\ Exchange(link.sent, down, up, device)
  BY <1>1 DEF LineInv
<1>5. down = <<>>
  <2>1. link.sent \in ToSet(<<link.sent>>)
    BY DEF ToSet
  <2> QED
    BY <1>3, <1>4, <2>1 DEF Exchange
<1>6. \/ P!Exhausted(link) /\ LinkGivenUp(Device, link, o.link) /\ o.out = <<>>
      \/ ~P!Exhausted(link) /\ LinkSame(Device, link, o.link) /\ o.out = <<link.sent>>
  BY <1>3, <1>4, T1TimeoutIs
<1> HIDE DEF o
<1>7. CASE P!Exhausted(link) /\ LinkGivenUp(Device, link, o.link) /\ o.out = <<>>
  <2>1. LinkGivenUp(Device, link, link') /\ down' = down /\ lost' = lost \cup Carried(link.sent)
    BY <1>2, <1>5, <1>7
  <2>2. LineInv(Device, link', queue, device, down, up, acted, received,
                lost \cup Carried(link.sent), commands)
    BY <1>1, <1>3, <1>5, <2>1, GiveUpKeeps
  <2> QED
    BY <1>1, <1>2, <2>1, <2>2, ThenIs DEF ThenInv
<1>8. CASE ~P!Exhausted(link) /\ LinkSame(Device, link, o.link) /\ o.out = <<link.sent>>
  <2>1. LinkSame(Device, link, link') /\ down' = <<link.sent>> /\ lost' = lost
    BY <1>2, <1>5, <1>8
  <2>2. Exchange(link.sent, <<link.sent>>, up, device)
    BY <1>3 DEF Exchange
  <2>3. LineInv(Device, link', queue, device, <<link.sent>>, up, acted, received, lost, commands)
    BY <1>1, <2>1, <2>2, SameKeeps
  <2> QED
    BY <1>1, <1>2, <2>1, <2>3, ThenIs DEF ThenInv
<1> QED
  BY <1>6, <1>7, <1>8

\* on_t1_timeout, of a line with one device, that is given up.
LEMMA ReopenStepKeeps ==
    ASSUME IInv, Reopen
    PROVE  IInv'
<1>1. /\ line \in Lines /\ Device \in SUBSET Nat /\ line.order \in Seq(Device) \ {<<>>}
      /\ LineInv(Device, link, queue, device, down, up, acted, received, lost, commands)
  BY NowIs, LineIs DEF Device
<1>2. /\ link' = P!NewLink(line.order) /\ queue' = <<>> /\ down' = <<>> /\ up' = <<>>
      /\ lost' = AllLost(Device, link, queue, device, lost)
      /\ device' = Renewed(Device, device)
      /\ UNCHANGED <<line, acted, received, commands>>
  BY DEF Reopen, bounds, AllLost, Renewed
<1>3. IsLink(Device, link') /\ link'.sent = NoFrame /\ \A a \in Device : ~On(link', a)
  BY <1>1, <1>2, NewLinkIs DEF Device
<1>4. LineInv(Device, link', <<>>, device', <<>>, <<>>, acted, received, lost', commands)
  BY <1>1, <1>2, <1>3, ReopenKeeps
<1> QED
  BY <1>1, <1>2, <1>4, ThenIs DEF ThenInv

\* A frame is lost.
LEMMA LoseKeeps ==
    ASSUME IInv, Lose
    PROVE  IInv'
<1>1. /\ line \in Lines /\ Device \in SUBSET Nat
      /\ LineInv(Device, link, queue, device, down, up, acted, received, lost, commands)
  BY NowIs
<1>2. /\ UNCHANGED <<line, link, queue, device, acted, received, lost, commands>>
      /\ \/ down # <<>> /\ down' = Tail(down) /\ up' = up
         \/ up # <<>> /\ up' = Tail(up) /\ down' = down
  BY DEF Lose
<1>3. IsLink(Device, link) /\ Exchange(link.sent, down, up, device)
  BY <1>1 DEF LineInv
<1>4. \A x : Tail(<<x>>) = <<>>
  OBVIOUS
<1>5. Exchange(link.sent, down', up', device) /\ (up' # <<>> => up # <<>>)
  <2>1. CASE down # <<>> /\ down' = Tail(down) /\ up' = up
    <3>1. down' = <<>>
      BY <1>3, <1>4, <2>1 DEF Exchange
    <3> QED
      BY <1>3, <2>1, <3>1 DEF Exchange
  <2>2. CASE up # <<>> /\ up' = Tail(up) /\ down' = down
    <3>1. up' = <<>>
      BY <1>3, <1>4, <2>2 DEF Exchange
    <3> QED
      BY <1>3, <2>2, <3>1 DEF Exchange
  <2> QED
    BY <1>2, <2>1, <2>2
<1>6. LinkSame(Device, link, link)
  BY <1>3 DEF LinkSame
<1>7. LineInv(Device, link, queue, device, down', up', acted, received, lost, commands)
  BY <1>1, <1>5, <1>6, SameKeeps
<1> QED
  BY <1>1, <1>2, <1>7, ThenIs DEF ThenInv

\* What is under way back to the client is the answer of the device it asked.
LEMMA AnswerUnderWay ==
    ASSUME IInv, up # <<>>
    PROVE  /\ link.sent # NoFrame /\ link.sent.addr \in Device
           /\ device[link.sent.addr].lastResp # NoFrame
           /\ Head(up) = device[link.sent.addr].lastResp /\ Tail(up) = <<>>
           /\ Answers(link.sent.addr, device[link.sent.addr].lastResp)
<1>1. LineInv(Device, link, queue, device, down, up, acted, received, lost, commands)
  BY NowIs
<1> DEFINE f == device[link.sent.addr].lastResp
<1>2. link.sent # NoFrame /\ f # NoFrame /\ up = <<f>>
  BY <1>1 DEF LineInv, Exchange
<1>3. link.sent.addr \in Device
  BY <1>1, <1>2, AskKinds DEF LineInv, IsLink
<1>4. Answers(link.sent.addr, f)
  BY <1>1, <1>2, <1>3 DEF LineInv, IsDevice
<1> HIDE DEF f
<1>5. Head(up) = f /\ Tail(up) = <<>>
  BY <1>2
<1> QED
  BY <1>2, <1>3, <1>4, <1>5 DEF f

\* dispatch: what the application has got after frame f, with outcome o of handle_frame.
Dispatched(rec, f, o) ==
    IF o.deliver /\ f.kind = "Variable" /\ Handler(f.asdu.type) # "measurands"
      THEN [rec EXCEPT ![f.addr] = Append(@, f.asdu)] ELSE rec

GotBy(A, b, f, sent, rec, rec2) ==
    /\ rec2 \in [A -> Seq(Reports)] /\ Gets(f, sent, rec[b], rec2[b])
    /\ \A a \in A : a # b => rec2[a] = rec[a]

\* That is the message the device was asked for, if it is one.
LEMMA DispatchIs ==
    ASSUME NEW A, NEW b \in A, NEW f, Answers(b, f), NEW sent,
           NEW rec \in [A -> Seq(Reports)], NEW o, o.deliver <=> Delivers(f, sent),
           NEW rec2, rec2 = Dispatched(rec, f, o)
    PROVE  GotBy(A, b, f, sent, rec, rec2)
<1>1. f.addr = b /\ (f.kind = "Variable" => f.asdu \in Reports \cup {Measurands})
  BY AnswerKinds
<1>2. Measurands \notin Reports
  BY Numbered
<1>3. f.kind = "Variable" => (Handler(f.asdu.type) # "measurands" <=> f.asdu \in Reports)
  BY <1>1, <1>2, Numbered
<1>4. CASE Delivers(f, sent) /\ f.asdu \in Reports
  <2> DEFINE s == rec[b]
             r == Append(s, f.asdu)
  <2>1. s \in Seq(Reports)
    OBVIOUS
  <2> HIDE DEF s
  <2>2. r \in Seq(Reports)
    BY <1>4, <2>1
  <2>3. rec2 = [rec EXCEPT ![b] = r]
    BY <1>1, <1>3, <1>4 DEF Delivers, s, Dispatched
  <2>4. rec2[b] = r /\ \A a \in A : a # b => rec2[a] = rec[a]
    BY <2>3
  <2> HIDE DEF r
  <2>5. rec2 \in [A -> Seq(Reports)]
    BY <2>2, <2>3
  <2> QED
    BY <1>4, <2>4, <2>5 DEF Gets, s, r, GotBy
<1>5. CASE ~(Delivers(f, sent) /\ f.asdu \in Reports)
  <2>1. rec2 = rec
    BY <1>3, <1>5 DEF Delivers, Dispatched
  <2> QED
    BY <1>5, <2>1 DEF Gets, GotBy
<1> QED
  BY <1>4, <1>5

\* handle_frame.
LEMMA ClientReceivesKeeps ==
    ASSUME IInv, ClientReceives
    PROVE  IInv'
<1> DEFINE f == Head(up)
           o == P!HandleFrame(link, f)
           b == link.sent.addr
           q2 == queue'
           r2 == received'
<1>1. /\ line \in Lines /\ Device \in SUBSET Nat
      /\ LineInv(Device, link, queue, device, down, up, acted, received, lost, commands)
  BY NowIs
<1>2. /\ up # <<>> /\ link' = o.link /\ down' = down \o o.out
      /\ queue' = queue \/ queue' = Initialized(queue, o.done.addr)
      /\ received' = Dispatched(received, f, o)
      /\ up' = Tail(up)
      /\ UNCHANGED <<line, device, acted, lost, commands>>
  BY DEF ClientReceives, Sends, bounds, Dispatched
<1>3. /\ link.sent # NoFrame /\ b \in Device /\ f = device[b].lastResp /\ Tail(up) = <<>>
      /\ Answers(b, f)
  BY <1>2, AnswerUnderWay
<1>4. IsLink(Device, link) /\ received \in [Device -> Seq(Reports)]
  BY <1>1 DEF LineInv
<1>5. /\ \E m : LinkConfirmed(Device, link, m) /\ MovesOn(Device, m, o.link, o.out)
      /\ o.done = link.sent /\ (o.deliver <=> Delivers(f, link.sent))
  BY <1>3, <1>4, HandleAnswer
<1> HIDE DEF f, o
<1>6. PICK m : LinkConfirmed(Device, link, m) /\ MovesOn(Device, m, o.link, o.out)
  BY <1>5
<1>7. /\ r2 \in [Device -> Seq(Reports)] /\ Gets(f, link.sent, received[b], r2[b])
      /\ \A a \in Device : a # b => r2[a] = received[a]
  <2>1. GotBy(Device, b, f, link.sent, received, r2)
    BY <1>2, <1>3, <1>4, <1>5, DispatchIs
  <2> QED
    BY <2>1 DEF GotBy
<1>8. queue' = queue \/ queue' = Initialized(queue, b)
  BY <1>2, <1>5
<1> HIDE DEF r2
<1>9. LineInv(Device, m, queue, device, down, <<>>, acted, r2, lost, commands)
  <2>1. Gets(device[link.sent.addr].lastResp, link.sent, received[link.sent.addr],
             r2[link.sent.addr])
    BY <1>3, <1>7
  <2>2. \A a \in Device : a # link.sent.addr => r2[a] = received[a]
    BY <1>7
  <2> QED
    BY <1>1, <1>2, <1>6, <1>7, <2>1, <2>2, ConfirmKeeps
<1>10. LineInv(Device, o.link, queue, device, down \o o.out, <<>>, acted, r2, lost, commands)
  BY <1>1, <1>6, <1>9, MovesOnKeeps
<1> HIDE DEF b
<1>11. LineInv(Device, o.link, queue', device, down \o o.out, <<>>, acted, r2, lost, commands)
  BY <1>1, <1>3, <1>8, <1>10, InitializedKeeps
<1>12. ThenInv
  BY <1>2, <1>3, <1>11 DEF ThenInv, r2
<1> QED
  BY <1>1, <1>12, ThenIs

\* A device receives a frame.
LEMMA DeviceReceivesKeeps ==
    ASSUME IInv, NEW a \in Device, DeviceReceives(a)
    PROVE  IInv'
<1> DEFINE f == Head(down)
           d == device[a]
           o == Service(Counting(d, f), a, f)
<1>1. /\ line \in Lines /\ Device \in SUBSET Nat
      /\ LineInv(Device, link, queue, device, down, up, acted, received, lost, commands)
  BY NowIs
<1>2. /\ down # <<>> /\ f.addr = a /\ down' = Tail(down)
      /\ UNCHANGED <<line, link, queue, received, commands>>
      /\ IsRepeated(d, f) =>
           /\ up' = IF d.lastResp = NoFrame THEN up ELSE Append(up, d.lastResp)
           /\ UNCHANGED <<device, acted, lost>>
      /\ ~IsRepeated(d, f) =>
           /\ device' = [device EXCEPT ![a] = o.device] /\ up' = up \o o.out
           /\ acted' = ActsOn(acted, f, a)
           /\ lost' = IF f.control.fcv THEN lost ELSE lost \cup Carried(d.lastResp)
  BY DEF DeviceReceives, bounds, ActsOn, ActsTo
<1>3. link.sent # NoFrame /\ down = <<link.sent>> /\ IsLink(Device, link) /\ IsDevice(a, d)
  BY <1>1, <1>2 DEF LineInv, Exchange
<1>4. f = link.sent /\ Tail(down) = <<>>
  BY <1>3
<1>5. Asks(Device, link.sent) /\ a = link.sent.addr
  BY <1>2, <1>3, <1>4 DEF IsLink
<1> HIDE DEF f
<1>6. Serves(a, d, link.sent, o.device) /\ o.out = <<o.device.lastResp>>
  <2>1. o = Service(Counting(d, link.sent), a, link.sent)
    BY <1>4
  <2> DEFINE g == link.sent
  <2>2. Device \in SUBSET Nat /\ a \in Device /\ IsDevice(a, d) /\ Asks(Device, g)
    BY <1>1, <1>3, <1>5
  <2>3. o = Service(Counting(d, g), a, g)
    BY <2>1
  <2> HIDE DEF o, d, g
  <2>4. Serves(a, d, g, o.device) /\ o.out = <<o.device.lastResp>>
    BY <2>2, <2>3, ServiceIs
  <2> QED
    BY <2>4 DEF g
<1> HIDE DEF o
<1>7. LineInv(Device, link, queue, device, <<link.sent>>, up, acted, received, lost, commands)
  BY <1>1, <1>3
<1>8. CASE IsRepeated(d, f)
  <2>1. IsRepeated(device[a], link.sent)
    BY <1>4, <1>8
  <2>2. up' = IF device[a].lastResp = NoFrame THEN up ELSE Append(up, device[a].lastResp)
    BY <1>2, <1>8
  <2>3. LineInv(Device, link, queue, device, <<>>, up', acted, received, lost, commands)
    BY <1>1, <1>3, <1>5, <1>7, <2>1, <2>2, RepeatKeeps
  <2> QED
    BY <1>1, <1>2, <1>4, <1>8, <2>3, ThenIs DEF ThenInv
<1>9. CASE ~IsRepeated(d, f)
  <2> DEFINE e == o.device
  <2>1. /\ ~IsRepeated(device[a], link.sent) /\ Serves(a, device[a], link.sent, e)
        /\ device' = [device EXCEPT ![a] = e] /\ acted' = ActsOn(acted, link.sent, a)
        /\ up' = up \o <<e.lastResp>>
    BY <1>2, <1>4, <1>6, <1>9
  <2>2. /\ lost \subseteq lost'
        /\ ~link.sent.control.fcv => Carried(device[a].lastResp) \subseteq lost'
    BY <1>2, <1>4, <1>9
  <2> HIDE DEF e
  <2>3. LineInv(Device, link, queue, device', <<>>, up \o <<e.lastResp>>, acted', received, lost',
                commands)
    BY <1>1, <1>3, <1>5, <1>7, <2>1, <2>2, TakesKeeps
  <2> QED
    BY <1>1, <1>2, <1>4, <2>1, <2>3, ThenIs DEF ThenInv
<1> QED
  BY <1>8, <1>9

\* So every step keeps it, on a line where no answer is late.
LEMMA NextIInv ==
    ASSUME ~line.late
    PROVE  IInv /\ [Next]_vars => IInv'
<1> SUFFICES ASSUME IInv, [Next]_vars PROVE IInv'
  OBVIOUS
<1>1. CASE UNCHANGED vars
  <2>1. LineInv(Device, link, queue, device, down, up, acted, received, lost, commands)
    BY NowIs
  <2> QED
    BY <1>1, <2>1, NowIs, ThenIs DEF vars, ThenInv
<1>2. CASE ClientTick
  BY <1>2, ClientTickKeeps
<1>3. CASE ClientReceives
  BY <1>3, ClientReceivesKeeps
<1>4. CASE ClientTimeout
  BY <1>4, ClientTimeoutKeeps
<1>5. CASE Reopen
  BY <1>5, ReopenStepKeeps
<1>6. CASE ClientTest
  BY <1>6, ClientTestKeeps
<1>7. ASSUME NEW a \in Device, DeviceReceives(a) PROVE IInv'
  BY <1>7, DeviceReceivesKeeps
<1>8. ASSUME NEW a \in Device, SendCommand(a) PROVE IInv'
  BY <1>8, SendCommandKeeps
<1>9. ASSUME NEW a \in Device, NEW fun, Manual(a, fun) PROVE IInv'
  BY <1>9, ManualKeeps
<1>10. CASE Lose
  BY <1>10, LoseKeeps
<1> QED
  BY <1>1, <1>2, <1>3, <1>4, <1>5, <1>6, <1>7, <1>8, <1>9, <1>10 DEF Next

\* The invariant says that everything is once where it should be.
LEMMA InvEachOnce == IInv => EachOnce
<1> SUFFICES ASSUME IInv PROVE EachOnce
  OBVIOUS
<1>1. LineInv(Device, link, queue, device, down, up, acted, received, lost, commands)
  BY NowIs
<1>2. ASSUME NEW a \in Device
      PROVE  /\ Ascending(Numbers(received[a]))
             /\ \A i \in 1 .. device[a].count :
                  \E m \in ToSet(received[a]) \cup ToSet(device[a].class1)
                           \cup Carried(device[a].lastResp) \cup lost :
                    "n" \in DOMAIN m /\ m.n = i
             /\ \A i, j \in DOMAIN acted[a] :
                  i # j /\ acted[a][i].type = "GENERAL_COMMAND" => acted[a][i] # acted[a][j]
  <2>1. /\ Ordered(Out(link, a), device[a], received[a])
        /\ Complete(device[a], received[a], lost)
    BY <1>1 DEF LineInv, At, DeviceInv
  <2> DEFINE r == received[a]
             s == acted[a]
  <2>2. r \in Seq(Reports) /\ s \in Seq(Requests)
    BY <1>1 DEF LineInv
  <2>3. \A i, j \in 1 .. Len(r) : i < j => r[i].n < r[j].n
    BY <2>1 DEF Ordered
  <2>4. \A i \in 1 .. Len(s) : IsCommand(s[i]) => \A j \in 1 .. Len(s) : i # j => s[i] # s[j]
    <3>1. DOMAIN acted = Device
      BY <1>1 DEF LineInv
    <3> QED
      BY <1>1, <3>1 DEF LineInv, Once, CommandsOnce
  <2> HIDE DEF r, s
  <2>5. Ascending(Numbers(r))
    BY <2>2, <2>3 DEF Ascending, Numbers
  <2>6. \A i, j \in DOMAIN s : i # j /\ s[i].type = "GENERAL_COMMAND" => s[i] # s[j]
    BY <2>2, <2>4 DEF IsCommand
  <2>7. \A i \in 1 .. device[a].count : Somewhere(i, device[a], received[a], lost)
    BY <2>1 DEF Complete
  <2> QED
    BY <2>5, <2>6, <2>7 DEF r, s, Somewhere
<1>3. \A n \in 1 .. commands :
         \/ Command(n) \in lost \cup Carried(link.sent)
         \/ \E i \in DOMAIN queue : queue[i].asdu = Command(n)
         \/ \E b \in Device : Command(n) \in ToSet(acted[b])
  <2>1. DOMAIN acted = Device /\ CommandsKept(queue, link.sent, acted, lost, commands)
    BY <1>1 DEF LineInv
  <2> QED
    BY <2>1 DEF CommandsKept
<1> QED
  BY <1>2, <1>3 DEF EachOnce

-----------------------------------------------------------------------------
(***************************************************************************)
(* The theorem.                                                            *)
(***************************************************************************)

\* The line stays the one it is.
LEMMA LineStays == [Next]_vars => line' = line
<1> SUFFICES ASSUME [Next]_vars PROVE line' = line
  OBVIOUS
<1>1. CASE UNCHANGED vars
  BY <1>1 DEF vars
<1>2. CASE ClientTick
  BY <1>2 DEF ClientTick
<1>3. CASE ClientReceives
  BY <1>3 DEF ClientReceives
<1>4. CASE ClientTimeout
  BY <1>4 DEF ClientTimeout
<1>5. CASE Reopen
  BY <1>5 DEF Reopen
<1>6. CASE ClientTest
  BY <1>6 DEF ClientTest
<1>7. ASSUME NEW a \in Device, DeviceReceives(a) PROVE line' = line
  BY <1>7 DEF DeviceReceives
<1>8. ASSUME NEW a \in Device, SendCommand(a) PROVE line' = line
  BY <1>8 DEF SendCommand
<1>9. ASSUME NEW a \in Device, NEW fun, Manual(a, fun) PROVE line' = line
  BY <1>9 DEF Manual
<1>10. CASE Lose
  BY <1>10 DEF Lose
<1> QED
  BY <1>1, <1>2, <1>3, <1>4, <1>5, <1>6, <1>7, <1>8, <1>9, <1>10 DEF Next

\* On every line where no answer comes after its timeout, with any number of devices
\* in any order of polling, whatever is lost and repeated and whatever the
\* application asks for, the application gets every class 1 message of a device once
\* and in order, with none left out but those a rule of the protocol gave up, and a
\* device acts on a command once (EachOnce: confirm_positive, client.rs:696, and
\* on_t1_timeout).  Of a line that is late it says nothing: there an answer can be
\* taken for that of the next poll, and be dispatched again (NoEventTwice).
THEOREM EachOnceCorrect == Spec => []EachOnce
<1> DEFINE TimelyInv == ~line.late => IInv
<1>1. TimelyInv => EachOnce
  <2>1. CASE line.late
    BY <2>1 DEF EachOnce
  <2>2. CASE ~line.late
    BY <2>2, InvEachOnce
  <2> QED
    BY <2>1, <2>2
<1>2. Init => TimelyInv
  BY InitIInv
<1>3. TimelyInv /\ [Next]_vars => TimelyInv'
  <2>1. CASE line.late
    BY <2>1, LineStays
  <2>2. CASE ~line.late
    BY <2>2, LineStays, NextIInv
  <2> QED
    BY <2>1, <2>2
<1> HIDE DEF TimelyInv
<1> QED
  BY <1>1, <1>2, <1>3, PTL DEF Spec
==============================================================================
