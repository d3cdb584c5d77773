------------------------------ MODULE Octets104 ------------------------------
(***************************************************************************)
(* The octets of an APDU, cs104/apci.rs: the three formats, what parse     *)
(* takes them for, and how read_apdu finds an APDU in a stream.            *)
(***************************************************************************)
EXTENDS Integers, Sequences

ASDU_SIZE_MAX == 249
APCI_CTL_FIELD_SIZE == 4
APDU_FIELD_SIZE_MAX == APCI_CTL_FIELD_SIZE + ASDU_SIZE_MAX
START_FRAME == 104

UFunction == [StartDtActive |-> 4, StartDtConfirm |-> 8, StopDtActive |-> 16,
              StopDtConfirm |-> 32, TestFrActive |-> 64, TestFrConfirm |-> 128]

\* A sequence number of 15 bits above the format bit of its two octets.
NumberOctets(n) == <<(2 * n) % 256, (n \div 128) % 256>>
NumberOf(lo, hi) == (lo \div 2) + 128 * hi

\* new_i_frame; <<>> where it refuses.
new_i_frame(send, recv, asdu) ==
  IF Len(asdu) > ASDU_SIZE_MAX THEN <<>>
  ELSE <<START_FRAME, Len(asdu) + APCI_CTL_FIELD_SIZE>>
         \o NumberOctets(send) \o NumberOctets(recv) \o asdu
new_s_frame(recv) == <<START_FRAME, 4, 1, 0>> \o NumberOctets(recv)
new_u_frame(which) == <<START_FRAME, 4, UFunction[which] + 3, 0, 0, 0>>

Illegal == [fmt |-> "illegal"]

ParseI(b) ==
  IF b[2] <= APCI_CTL_FIELD_SIZE \/ b[5] % 2 = 1 THEN Illegal
  ELSE [fmt |-> "I", send |-> NumberOf(b[3], b[4]), recv |-> NumberOf(b[5], b[6]),
        asdu |-> SubSeq(b, 7, Len(b))]
ParseS(b) ==
  IF b[2] # APCI_CTL_FIELD_SIZE \/ b[3] # 1 \/ b[4] # 0 \/ b[5] % 2 = 1 THEN Illegal
  ELSE [fmt |-> "S", recv |-> NumberOf(b[5], b[6])]
ParseU(b) ==
  LET which == {u \in DOMAIN UFunction : UFunction[u] = b[3] - 3}
  IN  IF b[2] # APCI_CTL_FIELD_SIZE \/ <<b[4], b[5], b[6]>> # <<0, 0, 0>> \/ which = {}
      THEN Illegal
      ELSE [fmt |-> "U", function |-> CHOOSE u \in which : TRUE]

parse(b) ==
  IF Len(b) < 6 \/ b[2] # Len(b) - 2 THEN Illegal
  ELSE CASE b[3] % 2 = 0 -> ParseI(b)
         [] b[3] % 4 = 1 -> ParseS(b)
         [] b[3] % 4 = 3 -> ParseU(b)

(* read_apdu on the stream s: octets before a start character are dropped, *)
(* a start character with a length out of range is dropped with it.  The   *)
(* octets of the APDU; <<>> while they are not all there.                  *)
read_apdu(s) ==
  LET Starts(n) == n < Len(s) /\ s[n] = START_FRAME
      InRange(n) == s[n + 1] \in APCI_CTL_FIELD_SIZE .. APDU_FIELD_SIZE_MAX
      from[n \in 1 .. Len(s) + 2] ==
        IF n >= Len(s) THEN Len(s)
        ELSE IF ~Starts(n) THEN from[n + 1]
        ELSE IF InRange(n) THEN n ELSE from[n + 2]
      start == from[1]
      end == start + s[start + 1] + 1
  IN  IF s = <<>> \/ start >= Len(s) \/ end > Len(s) THEN <<>>
      ELSE SubSeq(s, start, end)
=============================================================================
