------------------------------ MODULE Elements ------------------------------
(***************************************************************************)
(* The information elements of asdu/info.rs and asdu/filet.rs, and what    *)
(* the Encoder and the InfoObjReader of asdu/codec.rs make of them: the    *)
(* octets of a value, and the value of octets.  A value is a tuple of the  *)
(* element's fields; a number of several octets is its octets, least       *)
(* significant first.                                                      *)
(***************************************************************************)
EXTENDS TimeTag

Low(b, n)  == b % n
High(b, n) == b - (b % n)

\* The octets an element takes on the wire; LOS, the length of a segment, is
\* followed by as many octets as it says.
Size(k) ==
  CASE k \in {"SIQ", "DIQ", "VTI", "QDS", "QDSF", "SEP", "OCT", "QDP", "SCO",
              "DCO", "RCO", "QOS", "COI", "QCC", "QPM", "QRQ", "SCQ", "SOF"} -> 1
    [] k \in {"R2", "FBP"} -> 2
    [] k \in {"R3", "CP24"} -> 3
    [] k = "R4" -> 4
    [] k = "BCR" -> 5
    [] k \in {"CP56", "TIME"} -> 7

(* The values of points and commands, in the low bits of their octet, and  *)
(* the quality in the high ones.                                           *)
SinglePoint(b) == Low(b, 2)
DoublePoint(b) == Low(b, 4)
SingleEvent(b) == Low(b, 4)
SingleCommand(b) == Low(b, 2)
DoubleCommand(b) == Low(b, 4)
StepCommand(b) == Low(b, 4)
QualityDescriptor(b) == High(b, 16)
QualityDescriptorProtection(b) == High(b, 8)

(* One bit flag above a qualifier: StepPosition, CauseOfInitial, the       *)
(* qualifiers of a set point, of a file and of a section.                  *)
Flagged(v) == Low(v[1], 128) + If(v[2], 128)
Unflagged(b) == <<Low(b, 128), Bit(b, 128)>>

\* StepPosition: a signed value of seven bits.
vti_value(v) == Flagged(v)
vti_parse(b) ==
  LET raw == Low(b, 128) IN <<IF raw < 64 THEN raw ELSE raw - 128, Bit(b, 128)>>

\* CauseOfInitial does not mask its cause.
coi_value(v) == IF v[2] THEN Low(v[1], 128) + 128 ELSE v[1]

\* QualifierOfCommand around the value of a single, double or step command.
qoc_value(v) == 4 * Low(v[2], 32) + If(v[3], 128)
qoc_parse(b) == <<Low(b \div 4, 32), Bit(b, 128)>>

qcc_value(v) == Low(v[1], 64) + High(v[2], 64)
qcc_parse(b) == <<Low(b, 64), High(b, 64)>>

qpm_value(v) == Low(v[1], 64) + If(v[2], 64) + If(v[3], 128)
qpm_parse(b) == <<Low(b, 64), Bit(b, 64), Bit(b, 128)>>

\* SelectAndCallQualifier and AckFileOrSectionQualifier: action and error.
scq_value(v) == Low(v[1], 16) + ((16 * v[2]) % 256)
scq_parse(b) == <<Low(b, 16), b \div 16>>

sof_value(v) == Low(v[1], 32) + If(v[2], 32) + If(v[3], 64) + If(v[4], 128)
sof_parse(b) == <<Low(b, 32), Bit(b, 32), Bit(b, 64), Bit(b, 128)>>

\* BinaryCounterReading: the count, then sequence number and flags.
bcr_write(v) ==
  v[1] \o <<Low(v[2], 32) + If(v[3], 32) + If(v[4], 64) + If(v[5], 128)>>
bcr_read(b) ==
  <<SubSeq(b, 1, 4), Low(b[5], 32), Bit(b[5], 32), Bit(b[5], 64), Bit(b[5], 128)>>

\* The value of a single or double point below its quality, whose low bits
\* are not the point's to send.
siq_value(v) == v[1] + High(v[2], 16)

FBP_TEST_WORD == <<170, 85>>

\* The octets the Encoder appends for the value v of an element of kind k.
Encode(z, k, v) ==
  CASE k \in {"SIQ", "DIQ"} -> <<siq_value(v)>>
    [] k = "VTI" -> <<vti_value(v)>>
    [] k \in {"QDS", "OCT"} -> <<v>>
    [] k = "QDSF" -> <<High(v, 16) + (v % 2)>>
    [] k = "SEP" -> <<v[1] + High(v[2], 8)>>
    [] k = "QDP" -> <<High(v, 8)>>
    [] k \in {"R2", "R3", "R4"} -> v
    [] k = "LOS" -> <<Len(v)>> \o v
    [] k = "BCR" -> bcr_write(v)
    [] k \in {"SCO", "DCO", "RCO"} -> <<qoc_value(v) + v[1]>>
    [] k \in {"QOS", "QRQ"} -> <<Flagged(v)>>
    [] k = "COI" -> <<coi_value(v)>>
    [] k = "QCC" -> <<qcc_value(v)>>
    [] k = "QPM" -> <<qpm_value(v)>>
    [] k = "SCQ" -> <<scq_value(v)>>
    [] k = "SOF" -> <<sof_value(v)>>
    [] k = "FBP" -> FBP_TEST_WORD
    [] k = "CP24" -> cp24time2a_tag(z, v[1], v[2])
    [] k = "CP56" -> cp56time2a_tag(z, v[1], v[2])
    [] k = "TIME" -> cp56time2a_tag(z, v, Good)

\* The value the InfoObjReader makes of the octets b; now is its clock.
Decode(z, k, b, now) ==
  CASE k = "SIQ" -> <<SinglePoint(b[1]), QualityDescriptor(b[1])>>
    [] k = "DIQ" -> <<DoublePoint(b[1]), QualityDescriptor(b[1])>>
    [] k = "VTI" -> vti_parse(b[1])
    [] k \in {"QDS", "OCT"} -> b[1]
    [] k = "QDSF" -> QualityDescriptor(b[1]) + (b[1] % 2)
    [] k = "SEP" -> <<SingleEvent(b[1]), QualityDescriptorProtection(b[1])>>
    [] k = "QDP" -> QualityDescriptorProtection(b[1])
    [] k \in {"R2", "R3", "R4"} -> b
    [] k = "LOS" -> Tail(b)
    [] k = "BCR" -> bcr_read(b)
    [] k = "SCO" -> <<SingleCommand(b[1])>> \o qoc_parse(b[1])
    [] k = "DCO" -> <<DoubleCommand(b[1])>> \o qoc_parse(b[1])
    [] k = "RCO" -> <<StepCommand(b[1])>> \o qoc_parse(b[1])
    [] k \in {"QOS", "COI", "QRQ"} -> Unflagged(b[1])
    [] k = "QCC" -> qcc_parse(b[1])
    [] k = "QPM" -> qpm_parse(b[1])
    [] k = "SCQ" -> scq_parse(b[1])
    [] k = "SOF" -> sof_parse(b[1])
    [] k = "FBP" -> b = FBP_TEST_WORD
    [] k = "CP24" -> parse_cp24time2a_tag(z, b, now)
    [] k = "CP56" -> parse_cp56time2a_tag(z, b)
    [] k = "TIME" -> parse_cp56time2a(z, b)
=============================================================================
