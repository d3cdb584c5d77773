------------------------------ MODULE Frame101 ------------------------------
(***************************************************************************)
(* FT1.2 frames, src/cs101/frame.rs: the control field, the frame count    *)
(* rule, and the octets of a frame with its length and check sum.          *)
(*                                                                         *)
(* In the link models the ASDU of a frame is an opaque value; Marshal and  *)
(* ReadFrame are for ASDUs that are sequences of octets.                   *)
(***************************************************************************)
EXTENDS Integers, Sequences, SequencesExt

Octet == 0 .. 255

\* prim_fc: function codes of the primary station.
RESET_LINK == 0
RESET_USER == 1
TEST_LINK == 2
USER_DATA_CONF == 3
USER_DATA_NO_CONF == 4
REQ_ACCESS == 8
REQ_STATUS == 9
REQ_DATA1 == 10
REQ_DATA2 == 11

\* sec_fc: function codes of the secondary station.
CONF_ACK == 0
CONF_NACK == 1
RESP_DATA == 8
RESP_NO_DATA == 9
RESP_STATUS == 11
RESP_LINK_NF == 14
RESP_LINK_NI == 15

\* The codes that count frames, and those that do not; 7 is the reset of the
\* frame count bit of IEC 60870-5-103.
Counted   == {TEST_LINK, USER_DATA_CONF, REQ_DATA1, REQ_DATA2}
Uncounted == {RESET_LINK, RESET_USER, USER_DATA_NO_CONF, 7, REQ_ACCESS, REQ_STATUS}

\* A frame whose FCV contradicts its function code.
FcvWrong(c) == \/ c.fun \in Counted /\ ~c.fcv
               \/ c.fun \in Uncounted /\ c.fcv

-----------------------------------------------------------------------------
ControlField == [dir : BOOLEAN, prm : BOOLEAN, fcb : BOOLEAN, fcv : BOOLEAN,
                 acd : BOOLEAN, dfc : BOOLEAN, fun : 0 .. 15]

Primary(fun, fcv, fcb, dir) ==
    [dir |-> dir, prm |-> TRUE, fcb |-> fcv /\ fcb, fcv |-> fcv,
     acd |-> FALSE, dfc |-> FALSE, fun |-> fun]

Secondary(fun, acd, dir) ==
    [dir |-> dir, prm |-> FALSE, fcb |-> FALSE, fcv |-> FALSE,
     acd |-> acd, dfc |-> FALSE, fun |-> fun]

Bit(b, n) == (b \div n) % 2 = 1

ParseControl(b) ==
    LET prm == Bit(b, 64) IN
    [dir |-> Bit(b, 128), prm |-> prm,
     fcb |-> prm /\ Bit(b, 32), fcv |-> prm /\ Bit(b, 16),
     acd |-> ~prm /\ Bit(b, 32), dfc |-> ~prm /\ Bit(b, 16),
     fun |-> b % 16]

If(p, n) == IF p THEN n ELSE 0

ControlValue(c) ==
    If(c.dir, 128) + If(c.prm, 64) + c.fun +
        IF c.prm THEN If(c.fcb, 32) + If(c.fcv, 16)
                 ELSE If(c.acd, 32) + If(c.dfc, 16)

-----------------------------------------------------------------------------
NoFrame == [kind |-> "None"]
SingleCharAck == [kind |-> "SingleCharAck"]
Fixed(c, addr) == [kind |-> "Fixed", control |-> c, addr |-> addr]
Variable(c, addr, asdu) ==
    [kind |-> "Variable", control |-> c, addr |-> addr, asdu |-> asdu]

ACK == 229
START_FIXED == 16
START_VARIABLE == 104
END_CHAR == 22
MAX_LENGTH_FIELD == 255

EncodeLinkAddr(addr, size) == CASE size = 0 -> <<>>
                                [] size = 1 -> <<addr % 256>>
                                [] size = 2 -> <<addr % 256, addr \div 256>>

DecodeLinkAddr(b) == CASE Len(b) = 0 -> 0
                       [] Len(b) = 1 -> b[1]
                       [] Len(b) = 2 -> b[1] + 256 * b[2]

Checksum(octets) == FoldSeq(+, 0, octets) % 256

\* The octets of a frame; <<>> where marshal refuses it.
Marshal(f, size) ==
    IF f.kind = "SingleCharAck" THEN <<ACK>>
    ELSE LET addr == EncodeLinkAddr(f.addr, size)
             head == <<ControlValue(f.control)>> \o addr
             body == head \o f.asdu
             n    == Len(body)
         IN CASE f.kind = "Fixed" ->
                     <<START_FIXED>> \o head \o <<Checksum(head), END_CHAR>>
              [] f.kind = "Variable" /\ n > MAX_LENGTH_FIELD -> <<>>
              [] f.kind = "Variable" /\ n <= MAX_LENGTH_FIELD ->
                     <<START_VARIABLE, n, n, START_VARIABLE>> \o body
                         \o <<Checksum(body), END_CHAR>>

-----------------------------------------------------------------------------
(***************************************************************************)
(* read_frame takes octets off a stream: the frame it yields, or an error, *)
(* and how many octets it used.  Where the stream holds too few it waits:  *)
(* it yields nothing yet.                                                  *)
(***************************************************************************)
Wait == [kind |-> "Wait"]
Bad  == [kind |-> "Error"]
Took(f, n) == [frame |-> f, used |-> n]

Tail2(b) == SubSeq(b, 1, Len(b) - 2)    \* without check sum and end character
Closed(b) == b[Len(b)] = END_CHAR /\ b[Len(b) - 1] = Checksum(Tail2(b))

ReadFixed(s, size) ==
    LET n == 4 + size
        b == SubSeq(s, 2, n)
    IN CASE Len(s) < n -> Took(Wait, 0)
         [] Len(s) >= n /\ ~Closed(b) -> Took(Bad, n)
         [] Len(s) >= n /\ Closed(b) ->
                Took(Fixed(ParseControl(b[1]), DecodeLinkAddr(SubSeq(b, 2, 1 + size))), n)

\* Mutant: an ASDU of the maximum length is refused.
HeaderWrongAtMost249(s, size) ==
    s[2] # s[3] \/ s[4] # START_VARIABLE \/ s[2] < 1 + size \/ s[2] > 249

HeaderWrong(s, size) == s[2] # s[3] \/ s[4] # START_VARIABLE \/ s[2] < 1 + size

ReadVariable(s, size) ==
    LET n == s[2] + 6
        b == SubSeq(s, 5, n)
        f == Variable(ParseControl(b[1]), DecodeLinkAddr(SubSeq(b, 2, 1 + size)),
                      SubSeq(b, 2 + size, Len(b) - 2))
    IN IF Len(s) < 5 THEN Took(Wait, 0)
       ELSE IF HeaderWrong(s, size) THEN Took(Bad, 5)
       ELSE IF Len(s) < n THEN Took(Wait, 0)
       ELSE IF Closed(b) THEN Took(f, n) ELSE Took(Bad, n)

ReadFrame(s, size) ==
    CASE s = <<>> -> Took(Wait, 0)
      [] s # <<>> /\ s[1] = ACK -> Took(SingleCharAck, 1)
      [] s # <<>> /\ s[1] = START_FIXED -> ReadFixed(s, size)
      [] s # <<>> /\ s[1] = START_VARIABLE -> ReadVariable(s, size)
      [] s # <<>> /\ s[1] \notin {ACK, START_FIXED, START_VARIABLE} -> Took(Bad, 1)
==============================================================================
