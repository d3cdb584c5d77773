------------------------------ MODULE AsduCodec ------------------------------
(***************************************************************************)
(* An ASDU from the values a caller hands to a send helper to the values a *)
(* handler at the other end gets out of it: asdu/codec.rs with             *)
(* identifier.rs and params.rs, over the layouts of Layouts and the octets *)
(* of Elements, and through the frames of both link layers.                *)
(*                                                                         *)
(* One ASDU runs through the stages                                        *)
(*   call --Build--> built --Marshal--> wire --Unmarshal--> parsed --Get--> got *)
(* and stops in refused where a step returns an error.  A Foreign ASDU     *)
(* starts on the wire: octets some other implementation sent.              *)
(***************************************************************************)
EXTENDS Elements, Layouts, Octets104, SequencesExt

FT12 == INSTANCE Frame101

CONSTANTS Calls,    \* the calls of the send helpers, and the receiver's clock in minutes:
                    \* [params, zone, type, seq, coa, ca, objs, now]
          Foreign,  \* ASDUs of other senders: [params, zone, octets, now]
          Pads      \* octets that reach the receiver after the ASDU

VARIABLES stage,    \* how far the ASDU is
          call,     \* the call or the foreign ASDU it began with
          asdu,     \* the Asdu value of the sender, then of the receiver
          wire,     \* its octets
          got       \* what the getter returned

vars == <<stage, call, asdu, wire, got>>

None == [none |-> TRUE]

\* An information object: its address, and the values of its elements.
Info(ioa, v) == [ioa |-> ioa, v |-> v]

GLOBAL_COMMON_ADDR == 65535
INVALID_COMMON_ADDR == 0

-----------------------------------------------------------------------------
\* params.rs, identifier.rs.
valid(p) == p.cause_size \in 1 .. 2 /\ p.ca_size \in 1 .. 2 /\ p.ioa_size \in 1 .. 3
identifier_size(p) == 2 + p.cause_size + p.ca_size

VariableStruct(b) == [number |-> b % 128, seq |-> Bit(b, 128)]
variable_value(n, seq) == n + If(seq, 128)

coa_value(c) == Low(c.cause, 64) + If(c.negative, 64) + If(c.test, 128)
coa_parse(b) == [cause |-> Low(b, 64), negative |-> Bit(b, 64), test |-> Bit(b, 128)]

\* The octets of one object after its address; 0 where it has none of a
\* fixed size, which is an error of the code for every type but a segment's.
SizeOf ==
  [s \in 0 .. 13 |->
    CASE s = 0 -> {102}
      [] s = 1 -> {1, 3} \cup (45 .. 47) \cup {70, 100, 101, 105, 113}
      [] s = 2 -> {5, 21, 104, 106}
      [] s = 3 -> {9, 11, 48, 49, 110, 111}
      [] s = 4 -> {2, 4, 51, 122, 124}
      [] s = 5 -> {6, 7, 13, 15, 20, 50, 112, 123}
      [] s = 6 -> {10, 12, 17, 120}
      [] s = 7 -> {18, 19, 103, 121}
      [] s = 8 -> {8, 14, 16, 30, 31} \cup (58 .. 60)
      [] s = 9 -> {32, 107}
      [] s = 10 -> {34, 35, 38, 61, 62}
      [] s = 11 -> {39, 40, 64}
      [] s = 12 -> {33, 36, 37, 63}
      [] s = 13 -> {126}]
HasSize(t) == \E s \in 0 .. 13 : t \in SizeOf[s]

\* Mutant: a type with time taken for the one without.
SizeWithoutTime(t) == CHOOSE s \in 0 .. 13 : (IF t = 37 THEN 15 ELSE t) \in SizeOf[s]

info_obj_size(t) == CHOOSE s \in 0 .. 13 : t \in SizeOf[s]

-----------------------------------------------------------------------------
(* Building: the check of the cause, check_valid for a list, and the       *)
(* objects in wire order.                                                  *)
AddrFits(p, ioa) == ioa < 256 ^ p.ioa_size
AddrOctets(p, ioa) ==
  SubSeq(<<ioa % 256, (ioa \div 256) % 256, ioa \div 65536>>, 1, p.ioa_size)

Cause(c) == IF Write[c.type].forced
            THEN [c.coa EXCEPT !.cause = CHOOSE x \in Write[c.type].causes : TRUE]
            ELSE c.coa

\* What check_valid and set_variable_number say of n objects.
ListLength(c) ==
  LET p == c.params
      n == Len(c.objs)
      size == info_obj_size(c.type)
  IN  identifier_size(p) + IF c.seq THEN n * size + p.ioa_size
                                    ELSE n * (size + p.ioa_size)
check_valid(c) ==
  Len(c.objs) \in 1 .. 127 /\ ListLength(c) <= ASDU_SIZE_MAX

max_segment_size(p) == ASDU_SIZE_MAX - (identifier_size(p) + p.ioa_size + 4)

ObjectOctets(c, v) ==
  FlattenSeq([j \in DOMAIN v |-> Encode(c.zone, Write[c.type].elems[j], v[j])])

Ioa(c, i) == IF Write[c.type].shape = "system" THEN 0 ELSE c.objs[i].ioa
WritesAddr(c, i) == ~c.seq \/ i = 1

Body(c) ==
  FlattenSeq([i \in DOMAIN c.objs |->
    (IF WritesAddr(c, i) THEN AddrOctets(c.params, Ioa(c, i)) ELSE <<>>)
      \o ObjectOctets(c, c.objs[i].v)])

Buildable(c) ==
  LET row == Write[c.type]
  IN  /\ valid(c.params)
      /\ row.forced \/ c.coa.cause \in row.causes
      /\ row.shape \in {"seq", "list"} => check_valid(c)
      /\ row.shape = "segment" => Len(c.objs[1].v[3]) <= max_segment_size(c.params)
      /\ \A i \in DOMAIN c.objs : WritesAddr(c, i) => AddrFits(c.params, Ioa(c, i))

Build ==
  /\ stage = "call"
  /\ IF Buildable(call)
     THEN /\ asdu' = [type |-> call.type, number |-> Len(call.objs), seq |-> call.seq,
                      coa |-> Cause(call), orig |-> 0, ca |-> call.ca, body |-> Body(call)]
          /\ stage' = "built"
     ELSE stage' = "refused" /\ UNCHANGED asdu
  /\ UNCHANGED <<call, wire, got>>

-----------------------------------------------------------------------------
\* The size the type and the qualifier imply; -1 where it cannot be told yet.
Implied(p, a) ==
  IF a.type = T.F_SG_NA
  THEN IF Len(a.body) < p.ioa_size + 4 THEN -1
       ELSE p.ioa_size + 4 + a.body[p.ioa_size + 4]
  ELSE IF a.seq THEN p.ioa_size + a.number * info_obj_size(a.type)
                ELSE a.number * (p.ioa_size + info_obj_size(a.type))

IsFile(t) == t \in 120 .. 126

QualifierFits(a) ==
  /\ a.number \in 1 .. 127
  /\ IsFile(a.type) => ~a.seq /\ (a.type = T.F_DR_TA \/ a.number = 1)

\* fix_info_obj_size: the error, or "fits", or "long" for surplus octets.
Sized(p, a) ==
  IF ~QualifierFits(a) THEN "InfoObjIndexFit"
  ELSE IF a.type # T.F_SG_NA /\ ~HasSize(a.type) THEN "TypeIdentifier"
  ELSE LET n == Implied(p, a)
       IN  CASE n = -1 \/ n > Len(a.body) -> "UnexpectedEof"
             [] n = Len(a.body) -> "fits"
             [] n \in 0 .. Len(a.body) - 1 -> "long"

CaOctets(p, ca) == SubSeq(<<ca % 256, ca \div 256>>, 1, p.ca_size)
CaFits(p, ca) ==
  /\ ca # INVALID_COMMON_ADDR
  /\ p.ca_size = 1 => ca < 255 \/ ca = GLOBAL_COMMON_ADDR

LengthFits(p, a) == identifier_size(p) + Len(a.body) <= ASDU_SIZE_MAX

Marshallable(p, a) ==
  /\ valid(p)
  /\ a.type # 0 /\ a.number \in 1 .. 127
  /\ a.coa.cause # UNUSED
  /\ CaFits(p, a.ca)
  /\ LengthFits(p, a)
  /\ HasSize(a.type) \/ a.type = T.F_SG_NA => Sized(p, a) = "fits"

Header(p, a) ==
  <<a.type, variable_value(a.number, a.seq), coa_value(a.coa)>>
    \o (IF p.cause_size = 2 THEN <<a.orig>> ELSE <<>>) \o CaOctets(p, a.ca)

Marshal ==
  /\ stage = "built"
  /\ IF Marshallable(call.params, asdu)
     THEN wire' = Header(call.params, asdu) \o asdu.body /\ stage' = "wire"
     ELSE stage' = "refused" /\ UNCHANGED wire
  /\ UNCHANGED <<call, asdu, got>>

-----------------------------------------------------------------------------
CaOf(p, raw) ==
  LET n == identifier_size(p)
  IN  IF p.ca_size = 2 THEN raw[n - 1] + 256 * raw[n]
      ELSE IF raw[n] = 255 THEN GLOBAL_COMMON_ADDR ELSE raw[n]

Parsed(p, raw) ==
  LET v == VariableStruct(raw[2])
  IN  [type |-> raw[1], number |-> v.number, seq |-> v.seq,
       coa |-> coa_parse(raw[3]), orig |-> IF p.cause_size = 1 THEN 0 ELSE raw[4],
       ca |-> CaOf(p, raw), body |-> SubSeq(raw, identifier_size(p) + 1, Len(raw))]

Truncated(p, a) == [a EXCEPT !.body = SubSeq(@, 1, Implied(p, a))]

\* The octets arrive, with pad surplus ones, at a receiver that may be lenient.
Unmarshal ==
  /\ stage = "wire"
  /\ \E pad \in Pads, lenient \in BOOLEAN :
       LET raw == wire \o [i \in 1 .. pad |-> 0]
           a == Parsed(call.params, raw)
           sized == Sized(call.params, a)
       IN  IF /\ Len(raw) \in identifier_size(call.params) .. ASDU_SIZE_MAX
              /\ sized = "fits" \/ (sized = "long" /\ lenient)
           THEN stage' = "parsed" /\ asdu' = Truncated(call.params, a)
           ELSE stage' = (IF pad = 0 THEN "lost" ELSE "refused") /\ UNCHANGED asdu
  /\ UNCHANGED <<call, wire, got>>

-----------------------------------------------------------------------------
Width(k, b, at) == IF k = "LOS" THEN 1 + (IF at <= Len(b) THEN b[at] ELSE 0) ELSE Size(k)

(* The reader is a cursor: [at, vs] is where it stands and what it has read. *)
ReadElement(a, r, k) ==
  LET end == r.at + Width(k, a.body, r.at)
  IN  IF end - 1 > Len(a.body) THEN [r EXCEPT !.at = end]
      ELSE [at |-> end,
            vs |-> Append(r.vs, Decode(call.zone, k, SubSeq(a.body, r.at, end - 1),
                                 call.now))]
ReadObject(a, at) ==
  FoldLeft(LAMBDA r, k : ReadElement(a, r, k), [at |-> at, vs |-> <<>>], Read[a.type].elems)

AddrOf(p, b) == FoldLeft(LAMBDA x, y : x + y, 0, [i \in DOMAIN b |-> b[i] * 256 ^ (i - 1)])

\* next_obj_addr: only the first object of a sequence carries its address.
NextObject(a, r, i) ==
  LET p == call.params
      implied == Read[a.type].shape = "many" /\ a.seq /\ i > 1
      at == r.end + (IF implied THEN 0 ELSE p.ioa_size)
      ioa == IF implied THEN r.objs[i - 1].ioa + 1
             ELSE AddrOf(p, SubSeq(a.body, r.end, at - 1))
      o == ReadObject(a, at)
  IN  CASE ~r.ok -> r
        [] r.ok /\ o.at - 1 > Len(a.body) -> [ok |-> FALSE, why |-> "UnexpectedEof"]
        [] r.ok /\ o.at - 1 <= Len(a.body) ->
             [ok |-> TRUE, end |-> o.at, objs |-> Append(r.objs, Info(ioa, o.vs))]

(* The getter of the type: every object of a list, the first of an ASDU    *)
(* that is taken for a single one.                                         *)
Objects(a) ==
  LET shape == Read[a.type].shape
      n == IF shape \in {"many", "list"} THEN a.number ELSE 1
  IN  IF shape = "strict" /\ (a.seq \/ a.number # 1)
      THEN [ok |-> FALSE, why |-> "InfoObjIndexFit"]
      ELSE FoldLeft(LAMBDA r, i : NextObject(a, r, i),
                    [ok |-> TRUE, end |-> 1, objs |-> <<>>], [i \in 1 .. n |-> i])

Get ==
  /\ stage = "parsed"
  /\ got' = Objects(asdu)
  /\ stage' = "got"
  /\ UNCHANGED <<call, asdu, wire>>

-----------------------------------------------------------------------------
IsCall(c) == "objs" \in DOMAIN c

Init ==
  /\ asdu = None /\ got = None
  /\ \/ call \in Calls /\ stage = "call" /\ wire = <<>>
     \/ call \in Foreign /\ stage = "wire" /\ wire = call.octets

Next == Build \/ Marshal \/ Unmarshal \/ Get

Spec == Init /\ [][Next]_vars

-----------------------------------------------------------------------------
(* What the value v of an element means to the other end: an event time is *)
(* a time only if it is valid, a qualifier keeps the bits that are its.    *)
Trusted(t) == IF t[2].invalid THEN <<NoTime, t[2]>> ELSE t

Meaning(k, v) ==
  CASE k \in {"SIQ", "DIQ"} -> <<v[1], High(v[2], 16)>>
    [] k = "SEP" -> <<v[1], High(v[2], 8)>>
    [] k = "QDP" -> High(v, 8)
    [] k = "QDSF" -> High(v, 16) + (v % 2)
    [] k = "FBP" -> TRUE
    [] k = "CP56" /\ v[1] = NoTime -> <<NoTime, [v[2] EXCEPT !.invalid = TRUE]>>
    [] k = "CP24" -> Trusted(IF v[1] = NoTime THEN <<NoTime, [v[2] EXCEPT !.invalid = TRUE]>>
                                              ELSE v)
    [] OTHER -> v

\* What the value v means survives: a tag without the hour may lack it.
Tells(k, v) ==
  k = "CP24" => v[1] = NoTime \/ TellsHour(call.zone, call.now, v[1].at)

\* The readings the handler may rely on.
Relied(k, v) == IF k = "CP24" THEN Trusted(v) ELSE v

(* What a caller put into an ASDU is what the handler gets out of it: each *)
(* object at its address, with its value, quality and time, under the type,*)
(* cause and station the caller meant.  A time without its hour is that    *)
(* time where the receiver's clock tells the hour (time.rs decode_cp24): it*)
(* does not for a tag ahead of it in the next hour, while the clocks show  *)
(* an hour for the second time, nor about a change of the clocks that is   *)
(* not by whole hours.  An ASDU that the sender's marshal_binary lets out  *)
(* is never refused by a receiver with the same parameters (codec.rs       *)
(* marshal_binary, unmarshal_binary).                                      *)
RoundTrip ==
  IsCall(call) =>
    /\ stage # "lost"
    /\ stage = "got" =>
         /\ got.ok
         /\ asdu.type = call.type /\ asdu.ca = call.ca /\ asdu.coa = Cause(call)
         /\ Len(got.objs) = Len(call.objs)
         /\ \A i \in DOMAIN got.objs :
              /\ got.objs[i].ioa = Ioa(call, i)
              /\ \A j \in DOMAIN call.objs[i].v :
                   LET k == Write[call.type].elems[j]
                   IN  Tells(k, call.objs[i].v[j]) =>
                         Relied(k, got.objs[i].v[j]) = Meaning(k, call.objs[i].v[j])

(* Whatever octets arrive: an ASDU that unmarshal_binary accepts is read   *)
(* by the getter of its type without running out of octets, and to the     *)
(* last octet, unless the getter is one that takes the first object only   *)
(* of an ASDU of several.  The table of sizes and the getters agree.       *)
NeverMisread ==
  stage = "got" =>
    \/ /\ got.ok
       /\ \/ got.end = Len(asdu.body) + 1
          \/ (Read[asdu.type].shape = "one" /\ asdu.number > 1)
    \/ ~got.ok /\ got.why = "InfoObjIndexFit"

(* An ASDU that marshal_binary lets out reaches the other end unchanged    *)
(* through either link layer: inside an FT1.2 frame with every size of     *)
(* link address, and inside an I format APDU, after noise that the reader  *)
(* has to drop (frame.rs marshal and read_frame, apci.rs).                 *)
Carried ==
  stage = "wire" /\ IsCall(call) =>
    /\ \A size \in 0 .. 2 :
         LET f == FT12!Variable(FT12!Primary(3, TRUE, TRUE, FALSE), If(size > 0, 7), wire)
             octets == FT12!Marshal(f, size)
         IN  octets # <<>> /\ FT12!ReadFrame(octets, size) = FT12!Took(f, Len(octets))
    /\ \A n \in {0, 127, 128, 32767} :
         parse(read_apdu(<<0, START_FRAME, 3>> \o new_i_frame(n, 32767 - n, wire)))
           = [fmt |-> "I", send |-> n, recv |-> 32767 - n, asdu |-> wire]
=============================================================================
