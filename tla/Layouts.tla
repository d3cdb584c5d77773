------------------------------- MODULE Layouts -------------------------------
(***************************************************************************)
(* What the send helpers write into an information object and what the     *)
(* getters read out of it, per type identification: the ASDUs of           *)
(* asdu/mproc.rs, cproc.rs, csys.rs, cpara.rs and filet.rs.                *)
(*                                                                         *)
(* A row of a builder is [causes, shape, elems]: the causes it lets pass,  *)
(* how its objects are counted, and the elements of one object after its   *)
(* address.  A builder with a set of one cause gives the ASDU that cause,  *)
(* whatever its caller asked for, if forced.  Shapes:                      *)
(*   "seq"     a list, optionally as a sequence under one address          *)
(*   "list"    a list of objects with an address each                      *)
(*   "one"     one object                                                  *)
(*   "system"  one object at the irrelevant address 0                      *)
(*   "segment" one object that carries its own length                      *)
(* A row of a getter is [shape, elems]; "strict" is a getter of one object *)
(* that refuses an ASDU of several, where "one" looks at the first only.   *)
(***************************************************************************)
EXTENDS Integers, Sequences, TLC

\* The type identifications, identifier.rs.
T == [M_SP_NA |-> 1, M_SP_TA |-> 2, M_DP_NA |-> 3, M_DP_TA |-> 4,
      M_ST_NA |-> 5, M_ST_TA |-> 6, M_BO_NA |-> 7, M_BO_TA |-> 8,
      M_ME_NA |-> 9, M_ME_TA |-> 10, M_ME_NB |-> 11, M_ME_TB |-> 12,
      M_ME_NC |-> 13, M_ME_TC |-> 14, M_IT_NA |-> 15, M_IT_TA |-> 16,
      M_EP_TA |-> 17, M_EP_TB |-> 18, M_EP_TC |-> 19, M_PS_NA |-> 20,
      M_ME_ND |-> 21, M_SP_TB |-> 30, M_DP_TB |-> 31, M_ST_TB |-> 32,
      M_BO_TB |-> 33, M_ME_TD |-> 34, M_ME_TE |-> 35, M_ME_TF |-> 36,
      M_IT_TB |-> 37, M_EP_TD |-> 38, M_EP_TE |-> 39, M_EP_TF |-> 40,
      C_SC_NA |-> 45, C_DC_NA |-> 46, C_RC_NA |-> 47, C_SE_NA |-> 48,
      C_SE_NB |-> 49, C_SE_NC |-> 50, C_BO_NA |-> 51, C_SC_TA |-> 58,
      C_DC_TA |-> 59, C_RC_TA |-> 60, C_SE_TA |-> 61, C_SE_TB |-> 62,
      C_SE_TC |-> 63, C_BO_TA |-> 64, M_EI_NA |-> 70, C_IC_NA |-> 100,
      C_CI_NA |-> 101, C_RD_NA |-> 102, C_CS_NA |-> 103, C_TS_NA |-> 104,
      C_RP_NA |-> 105, C_CD_NA |-> 106, C_TS_TA |-> 107, P_ME_NA |-> 110,
      P_ME_NB |-> 111, P_ME_NC |-> 112, P_AC_NA |-> 113, F_FR_NA |-> 120,
      F_SR_NA |-> 121, F_SC_NA |-> 122, F_LS_NA |-> 123, F_AF_NA |-> 124,
      F_SG_NA |-> 125, F_DR_TA |-> 126]

\* Causes of transmission, identifier.rs.
Causes == 0 .. 63
UNUSED == 0
PERIODIC == 1
BACKGROUND == 2
SPONTANEOUS == 3
INITIALIZED == 4
REQUEST == 5
ACTIVATION == 6
DEACTIVATION == 8
RETURN_INFO_REMOTE == 11
RETURN_INFO_LOCAL == 12
FILE_TRANSFER == 13
IsInterrogation == 20 .. 36
IsCounterRequest == 37 .. 41

Tagged   == {SPONTANEOUS, REQUEST, RETURN_INFO_REMOTE, RETURN_INFO_LOCAL}
Untagged == Tagged \cup {BACKGROUND} \cup IsInterrogation
Measured == Untagged \cup {PERIODIC}
Counter  == {SPONTANEOUS, REQUEST} \cup IsCounterRequest
Command  == {ACTIVATION, DEACTIVATION}
File     == {FILE_TRANSFER}

Row(causes, shape, elems) ==
  [causes |-> causes, shape |-> shape, elems |-> elems, forced |-> FALSE]
Forced(cause, shape, elems) ==
  [causes |-> {cause}, shape |-> shape, elems |-> elems, forced |-> TRUE]
Reads(shape, elems) == [shape |-> shape, elems |-> elems]

\* A point without time, with CP24Time2a and with CP56Time2a.
Points(plain, cp24, cp56, causes, tagged, elems) ==
     plain :> Row(causes, "seq", elems)
  @@ cp24 :> Row(tagged, "list", elems \o <<"CP24">>)
  @@ cp56 :> Row(tagged, "list", elems \o <<"CP56">>)

ReadPoints(plain, cp24, cp56, elems) ==
     plain :> Reads("many", elems)
  @@ cp24 :> Reads("many", elems \o <<"CP24">>)
  @@ cp56 :> Reads("many", elems \o <<"CP56">>)

-----------------------------------------------------------------------------
\* asdu/mproc.rs: process information in monitoring direction.
WriteSingle == Points(T.M_SP_NA, T.M_SP_TA, T.M_SP_TB, Untagged, Tagged, <<"SIQ">>)
ReadSingle  == ReadPoints(T.M_SP_NA, T.M_SP_TA, T.M_SP_TB, <<"SIQ">>)

WriteDouble == Points(T.M_DP_NA, T.M_DP_TA, T.M_DP_TB, Untagged, Tagged, <<"DIQ">>)
ReadDouble  == ReadPoints(T.M_DP_NA, T.M_DP_TA, T.M_DP_TB, <<"DIQ">>)

WriteStep == Points(T.M_ST_NA, T.M_ST_TA, T.M_ST_TB, Untagged, Tagged, <<"VTI", "QDS">>)
ReadStep  == ReadPoints(T.M_ST_NA, T.M_ST_TA, T.M_ST_TB, <<"VTI", "QDS">>)

WriteBitstring ==
  Points(T.M_BO_NA, T.M_BO_TA, T.M_BO_TB,
         {BACKGROUND, SPONTANEOUS, REQUEST} \cup IsInterrogation, Tagged, <<"R4", "QDS">>)
ReadBitstring == ReadPoints(T.M_BO_NA, T.M_BO_TA, T.M_BO_TB, <<"R4", "QDS">>)

WriteNormal ==
     Points(T.M_ME_NA, T.M_ME_TA, T.M_ME_TD, Measured, Tagged, <<"R2", "QDS">>)
  @@ T.M_ME_ND :> Row(Measured, "seq", <<"R2">>)
ReadNormal == ReadPoints(T.M_ME_NA, T.M_ME_TA, T.M_ME_TD, <<"R2", "QDS">>)
              @@ T.M_ME_ND :> Reads("many", <<"R2">>)

WriteScaled == Points(T.M_ME_NB, T.M_ME_TB, T.M_ME_TE, Measured, Tagged, <<"R2", "QDS">>)
ReadScaled  == ReadPoints(T.M_ME_NB, T.M_ME_TB, T.M_ME_TE, <<"R2", "QDS">>)

WriteFloat == Points(T.M_ME_NC, T.M_ME_TC, T.M_ME_TF, Measured, Tagged, <<"R4", "QDSF">>)
ReadFloat  == ReadPoints(T.M_ME_NC, T.M_ME_TC, T.M_ME_TF, <<"R4", "QDSF">>)

WriteTotals == Points(T.M_IT_NA, T.M_IT_TA, T.M_IT_TB, Counter, Counter, <<"BCR">>)
ReadTotals  == ReadPoints(T.M_IT_NA, T.M_IT_TA, T.M_IT_TB, <<"BCR">>)

\* Events of protection equipment, with CP24Time2a and with CP56Time2a.
Protection(cp24, cp56, shape, elems) ==
     cp24 :> Row({SPONTANEOUS}, shape, elems \o <<"CP24">>)
  @@ cp56 :> Row({SPONTANEOUS}, shape, elems \o <<"CP56">>)
ReadProtection(cp24, cp56, shape, elems) ==
     cp24 :> Reads(shape, elems \o <<"CP24">>)
  @@ cp56 :> Reads(shape, elems \o <<"CP56">>)

WriteProtection == Protection(T.M_EP_TA, T.M_EP_TD, "list", <<"SEP", "R2">>)
ReadProtectionEvent == ReadProtection(T.M_EP_TA, T.M_EP_TD, "many", <<"SEP", "R2">>)

WriteStartEvents == Protection(T.M_EP_TB, T.M_EP_TE, "one", <<"OCT", "QDP", "R2">>)
ReadStartEvents ==
  ReadProtection(T.M_EP_TB, T.M_EP_TE, "strict", <<"OCT", "QDP", "R2">>)

WriteOutputCircuit == Protection(T.M_EP_TC, T.M_EP_TF, "one", <<"OCT", "QDP", "R2">>)
ReadOutputCircuit ==
  ReadProtection(T.M_EP_TC, T.M_EP_TF, "strict", <<"OCT", "QDP", "R2">>)

WritePackedSingle == T.M_PS_NA :> Row(Untagged, "seq", <<"R4", "QDS">>)
ReadPackedSingle  == T.M_PS_NA :> Reads("many", <<"R4", "QDS">>)

-----------------------------------------------------------------------------
\* asdu/cproc.rs: commands, without time and with CP56Time2a.
Commands(plain, cp56, elems) ==
     plain :> Row(Command, "one", elems)
  @@ cp56 :> Row(Command, "one", elems \o <<"CP56">>)
ReadCommands(plain, cp56, elems) ==
  plain :> Reads("one", elems) @@ cp56 :> Reads("one", elems \o <<"CP56">>)

WriteSingleCmd == Commands(T.C_SC_NA, T.C_SC_TA, <<"SCO">>)
ReadSingleCmd  == ReadCommands(T.C_SC_NA, T.C_SC_TA, <<"SCO">>)
WriteDoubleCmd == Commands(T.C_DC_NA, T.C_DC_TA, <<"DCO">>)
ReadDoubleCmd  == ReadCommands(T.C_DC_NA, T.C_DC_TA, <<"DCO">>)
WriteStepCmd   == Commands(T.C_RC_NA, T.C_RC_TA, <<"RCO">>)
ReadStepCmd    == ReadCommands(T.C_RC_NA, T.C_RC_TA, <<"RCO">>)
WriteSetNormal == Commands(T.C_SE_NA, T.C_SE_TA, <<"R2", "QOS">>)
ReadSetNormal  == ReadCommands(T.C_SE_NA, T.C_SE_TA, <<"R2", "QOS">>)
WriteSetScaled == Commands(T.C_SE_NB, T.C_SE_TB, <<"R2", "QOS">>)
ReadSetScaled  == ReadCommands(T.C_SE_NB, T.C_SE_TB, <<"R2", "QOS">>)
WriteSetFloat  == Commands(T.C_SE_NC, T.C_SE_TC, <<"R4", "QOS">>)
ReadSetFloat   == ReadCommands(T.C_SE_NC, T.C_SE_TC, <<"R4", "QOS">>)
WriteBitsCmd   == Commands(T.C_BO_NA, T.C_BO_TA, <<"R4">>)
ReadBitsCmd    == ReadCommands(T.C_BO_NA, T.C_BO_TA, <<"R4">>)

-----------------------------------------------------------------------------
\* asdu/csys.rs: system information.  The test command with time is the one
\* builder there that neither checks nor forces its cause.
WriteInterrogation == T.C_IC_NA :> Row(Command, "system", <<"OCT">>)
ReadInterrogation  == T.C_IC_NA :> Reads("one", <<"OCT">>)
WriteCounters == T.C_CI_NA :> Forced(ACTIVATION, "system", <<"QCC">>)
ReadCounters  == T.C_CI_NA :> Reads("one", <<"QCC">>)
WriteReadCmd == T.C_RD_NA :> Forced(REQUEST, "one", <<>>)
ReadReadCmd  == T.C_RD_NA :> Reads("one", <<>>)
WriteClock == T.C_CS_NA :> Forced(ACTIVATION, "system", <<"TIME">>)
ReadClock  == T.C_CS_NA :> Reads("one", <<"TIME">>)
WriteTest == T.C_TS_NA :> Forced(ACTIVATION, "system", <<"FBP">>)
ReadTest  == T.C_TS_NA :> Reads("one", <<"FBP">>)
WriteTestTimed == T.C_TS_TA :> Row(Causes, "system", <<"FBP", "TIME">>)
ReadTestTimed  == T.C_TS_TA :> Reads("one", <<"FBP", "TIME">>)
WriteReset == T.C_RP_NA :> Forced(ACTIVATION, "system", <<"OCT">>)
ReadReset  == T.C_RP_NA :> Reads("one", <<"OCT">>)
WriteDelay == T.C_CD_NA :> Row({SPONTANEOUS, ACTIVATION}, "system", <<"R2">>)
ReadDelay  == T.C_CD_NA :> Reads("one", <<"R2">>)
WriteEndOfInit == T.M_EI_NA :> Forced(INITIALIZED, "one", <<"COI">>)
ReadEndOfInit  == T.M_EI_NA :> Reads("one", <<"COI">>)

\* asdu/cpara.rs: parameters.
WriteParameterNormal == T.P_ME_NA :> Row({ACTIVATION}, "one", <<"R2", "QPM">>)
ReadParameterNormal  == T.P_ME_NA :> Reads("one", <<"R2", "QPM">>)
WriteParameterScaled == T.P_ME_NB :> Row({ACTIVATION}, "one", <<"R2", "QPM">>)
ReadParameterScaled  == T.P_ME_NB :> Reads("one", <<"R2", "QPM">>)
WriteParameterFloat == T.P_ME_NC :> Row({ACTIVATION}, "one", <<"R4", "QPM">>)
ReadParameterFloat  == T.P_ME_NC :> Reads("one", <<"R4", "QPM">>)
WriteParameterAct == T.P_AC_NA :> Row(Command, "one", <<"OCT">>)
ReadParameterAct  == T.P_AC_NA :> Reads("one", <<"OCT">>)

-----------------------------------------------------------------------------
\* asdu/filet.rs: file transfer.  R2 is a name, R3 a length.
WriteFileReady    == T.F_FR_NA :> Row(File, "one", <<"R2", "R3", "QRQ">>)
ReadFileReady     == T.F_FR_NA :> Reads("one", <<"R2", "R3", "QRQ">>)
WriteSectionReady == T.F_SR_NA :> Row(File, "one", <<"R2", "OCT", "R3", "QRQ">>)
ReadSectionReady  == T.F_SR_NA :> Reads("one", <<"R2", "OCT", "R3", "QRQ">>)
WriteCall == T.F_SC_NA :> Row({REQUEST, FILE_TRANSFER}, "one", <<"R2", "OCT", "SCQ">>)
ReadCall  == T.F_SC_NA :> Reads("one", <<"R2", "OCT", "SCQ">>)
WriteLast == T.F_LS_NA :> Row(File, "one", <<"R2", "OCT", "OCT", "OCT">>)
ReadLast  == T.F_LS_NA :> Reads("one", <<"R2", "OCT", "OCT", "OCT">>)
WriteAck  == T.F_AF_NA :> Row(File, "one", <<"R2", "OCT", "SCQ">>)
ReadAck   == T.F_AF_NA :> Reads("one", <<"R2", "OCT", "SCQ">>)
WriteSegment == T.F_SG_NA :> Row(File, "segment", <<"R2", "OCT", "LOS">>)
ReadSegment  == T.F_SG_NA :> Reads("segment", <<"R2", "OCT", "LOS">>)
WriteDirectory ==
  T.F_DR_TA :> Row({SPONTANEOUS, REQUEST}, "list", <<"R2", "R3", "SOF", "CP56">>)
ReadDirectory == T.F_DR_TA :> Reads("list", <<"R2", "R3", "SOF", "CP56">>)

-----------------------------------------------------------------------------
\* The send helpers a Connect offers (asdu/connect.rs), group by group: each
\* builds the ASDU with the parameters of its connection and sends it.
SendPoints == WriteSingle @@ WriteDouble @@ WriteStep @@ WriteBitstring
SendMeasured == WriteNormal @@ WriteScaled @@ WriteFloat
SendEvents == WriteTotals @@ WriteProtection @@ WriteStartEvents
           @@ WriteOutputCircuit @@ WritePackedSingle @@ WriteEndOfInit
SendCommands == WriteSingleCmd @@ WriteDoubleCmd @@ WriteStepCmd
             @@ WriteSetNormal @@ WriteSetScaled @@ WriteSetFloat @@ WriteBitsCmd
SendSystem == WriteInterrogation @@ WriteCounters @@ WriteReadCmd @@ WriteClock
           @@ WriteTest @@ WriteTestTimed @@ WriteReset @@ WriteDelay
SendFile == WriteFileReady @@ WriteSectionReady @@ WriteCall @@ WriteLast
         @@ WriteAck @@ WriteSegment @@ WriteDirectory
SendParameter == WriteParameterNormal @@ WriteParameterScaled
              @@ WriteParameterFloat @@ WriteParameterAct

Write == SendPoints @@ SendMeasured @@ SendEvents @@ SendCommands @@ SendSystem
      @@ SendFile @@ SendParameter

Read ==
     ReadSingle @@ ReadDouble @@ ReadStep @@ ReadBitstring @@ ReadNormal
  @@ ReadScaled @@ ReadFloat @@ ReadTotals @@ ReadProtectionEvent
  @@ ReadStartEvents @@ ReadOutputCircuit @@ ReadPackedSingle
  @@ ReadSingleCmd @@ ReadDoubleCmd @@ ReadStepCmd @@ ReadSetNormal
  @@ ReadSetScaled @@ ReadSetFloat @@ ReadBitsCmd
  @@ ReadInterrogation @@ ReadCounters @@ ReadReadCmd @@ ReadClock
  @@ ReadTest @@ ReadTestTimed @@ ReadReset @@ ReadDelay @@ ReadEndOfInit
  @@ ReadParameterNormal @@ ReadParameterScaled @@ ReadParameterFloat
  @@ ReadParameterAct @@ ReadFileReady @@ ReadSectionReady @@ ReadCall
  @@ ReadLast @@ ReadAck @@ ReadSegment @@ ReadDirectory

TypeIds == DOMAIN Write
=============================================================================
