------------------------------- MODULE Apci104 -------------------------------
(***************************************************************************)
(* The Application Protocol Control Information of IEC 60870-5-104, as     *)
(* src/cs104/apci.rs defines it: sequence numbers modulo M, and the three  *)
(* APDU formats.  The octets of an APDU are abstracted to a record; a      *)
(* frame that `parse` rejects is the one value Malformed, because the      *)
(* connection treats all of them alike.                                    *)
(***************************************************************************)
EXTENDS Integers, Sequences

CONSTANTS M,      \* number of sequence numbers: SEQ_MASK + 1, 32768 in the code
          Asdu    \* the ASDUs an I-frame can carry

ASSUME ModulusAssumption == M \in Nat /\ M >= 2
ASSUME AsduAssumption == Asdu \subseteq Nat \ {0}   \* 0 is Garbage

SeqNo == 0 .. (M - 1)

\* Mutants: the mask is missing; the wraparound is missing.
SuccUnmasked(n) == n + 1
SeqNoCountNoWrap(nextAck, nextSeq) ==
    IF nextAck > nextSeq THEN 0 ELSE nextSeq - nextAck

\* `(n + 1) & SEQ_MASK`: the sequence number that follows n.
Succ(n) == (n + 1) % M

\* `n.wrapping_sub(1) & SEQ_MASK`: the sequence number before n.
Pred(n) == (n - 1) % M

\* `seq_no_count`: how many frames are numbered from nextAck up to, and
\* excluding, nextSeq.  The code adds 32768 in a u16; nextSeq is then at most
\* 32766, so the sum stays below 65536 and needs no wrapping here.
SeqNoCount(nextAck, nextSeq) ==
    (IF nextAck > nextSeq THEN nextSeq + M ELSE nextSeq) - nextAck

-----------------------------------------------------------------------------
(***************************************************************************)
(* APDUs.  The asdu of an I-frame is a member of Asdu, or Garbage when     *)
(* `Asdu::unmarshal_binary` would reject it: such a frame still uses up a  *)
(* sequence number.                                                        *)
(***************************************************************************)
UFunction == {"StartDtAct", "StartDtCon", "StopDtAct", "StopDtCon",
              "TestFrAct", "TestFrCon"}

Garbage == 0

IFrame(sendSn, recvSn, asdu) ==
    [fmt |-> "I", send |-> sendSn, recv |-> recvSn, asdu |-> asdu]
SFrame(recvSn)   == [fmt |-> "S", recv |-> recvSn]
UFrame(function) == [fmt |-> "U", func |-> function]
Malformed        == [fmt |-> "malformed"]

\* Every APDU the reader can hand to the driver, from whatever peer.
Apdu == [fmt : {"I"}, send : SeqNo, recv : SeqNo, asdu : Asdu \cup {Garbage}]
           \cup [fmt : {"S"}, recv : SeqNo]
           \cup [fmt : {"U"}, func : UFunction]
           \cup {Malformed}
==============================================================================
