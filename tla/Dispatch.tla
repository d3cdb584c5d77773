------------------------------ MODULE Dispatch ------------------------------
(***************************************************************************)
(* Which method of the application a received ASDU is handed to, and what  *)
(* a cs104 station answers by itself: the dispatchers of cs104/handler.rs  *)
(* and cs101/handler.rs, over the ASDU and the objects of AsduCodec.       *)
(***************************************************************************)
EXTENDS AsduCodec

ACTIVATION_CON  == 7
UNKNOWN_TYPE_ID == 44
UNKNOWN_COT     == 45
UNKNOWN_CA      == 46
UNKNOWN_IOA     == 47

\* The types that have a method of their own in every handler.
Method == T.C_IC_NA :> "interrogation" @@ T.C_CI_NA :> "counter_interrogation"
       @@ T.C_RD_NA :> "read" @@ T.C_CS_NA :> "clock_sync"
       @@ T.C_TS_NA :> "test_command" @@ T.C_RP_NA :> "reset_process"
       @@ T.C_CD_NA :> "delay_acquisition"

reply_mirror(a, cause) == [a EXCEPT !.coa.cause = cause]

(* What became of a request: the method it was handed to and the ASDU that *)
(* the session sent back by itself.                                        *)
HandedTo(method) == [to |-> method, answer |-> None]
Answered(a, cause) == [to |-> "nobody", answer |-> reply_mirror(a, cause)]
Failed == [to |-> "nobody", answer |-> None]

-----------------------------------------------------------------------------
\* cs104 station.
Permitted == T.C_IC_NA :> Command @@ T.C_CI_NA :> {ACTIVATION}
          @@ T.C_RD_NA :> {REQUEST} @@ T.C_CS_NA :> {ACTIVATION}
          @@ T.C_TS_NA :> {ACTIVATION} @@ T.C_RP_NA :> {ACTIVATION}
          @@ T.C_CD_NA :> {ACTIVATION, SPONTANEOUS}

(* The cause and the common address are looked at before the object is     *)
(* decoded; o is what its getter returned.                                 *)
precheck_header(a) == IF a.coa.cause \notin Permitted[a.type] THEN UNKNOWN_COT
                      ELSE IF a.ca = INVALID_COMMON_ADDR THEN UNKNOWN_CA
                      ELSE UNUSED

\* Mutant: a read command, too, must carry the irrelevant address.
PrecheckIoaOfAll(a, o) == o.objs[1].ioa = 0
precheck_ioa(a, o) == a.type = T.C_RD_NA \/ o.objs[1].ioa = 0

\* taken: whether the application's `asdu` method returns no error.
Route104(a, o, taken) ==
  IF a.type \notin DOMAIN Method
  THEN [to |-> "asdu",
        answer |-> IF taken THEN None ELSE reply_mirror(a, UNKNOWN_TYPE_ID)]
  ELSE CASE precheck_header(a) # UNUSED -> Answered(a, precheck_header(a))
         [] precheck_header(a) = UNUSED /\ ~o.ok -> Failed
         [] precheck_header(a) = UNUSED /\ o.ok ->
              CASE ~precheck_ioa(a, o) -> Answered(a, UNKNOWN_IOA)
                [] precheck_ioa(a, o) /\ a.type = T.C_TS_NA -> Answered(a, ACTIVATION_CON)
                [] OTHER -> HandedTo(Method[a.type])

\* cs104 master: the methods are for the answers to its commands.
Dispatch104(a) == IF a.type \in DOMAIN Method THEN Method[a.type] ELSE "asdu"

-----------------------------------------------------------------------------
\* cs101 station: no checks, and no answer of its own to a test command.
DispatchServer101(a, o) ==
  IF a.type \notin DOMAIN Method \ {T.C_TS_NA} THEN HandedTo("asdu")
  ELSE IF o.ok THEN HandedTo(Method[a.type]) ELSE Failed

is_monitor_type(t) == t \in T.M_SP_NA .. T.M_ME_ND \/ t \in T.M_SP_TB .. T.M_EP_TF
is_counter_type(t) == t \in {T.M_IT_NA, T.M_IT_TA, T.M_IT_TB}

\* cs101 master: the data an interrogation asked for goes where its
\* confirmation goes.
DispatchClient101(a) ==
  LET cause == a.coa.cause
  IN  CASE a.type \in DOMAIN Method -> Method[a.type]
        [] cause \in IsInterrogation /\ is_monitor_type(a.type) -> "interrogation"
        [] cause \in IsCounterRequest /\ is_counter_type(a.type) -> "counter_interrogation"
        [] OTHER -> "asdu"

-----------------------------------------------------------------------------
(* What a send helper built is no protocol error to a cs104 station: the   *)
(* causes and addresses of the builders (csys.rs) agree with those that    *)
(* route() permits, and both kinds of station take it for the same.        *)
BuiltIsAccepted ==
  stage = "got" /\ IsCall(call) =>
    LET r == Route104(asdu, got, TRUE)
    IN  IF asdu.type = T.C_TS_NA
        THEN r.answer = reply_mirror(asdu, ACTIVATION_CON)
        ELSE r = DispatchServer101(asdu, got)

(* A request that is not handed to the application is answered, and the    *)
(* answer arrives: it is marshalled, accepted by a master with the same    *)
(* parameters as it was sent, and handed to the method that waits for the  *)
(* confirmation of that command.  Not so for common address 0, which no    *)
(* ASDU may be sent to: that mirror is refused by marshal_binary.          *)
AnswersArrive ==
  stage = "got" =>
    \A taken \in BOOLEAN :
      LET p == call.params
          r == Route104(asdu, got, taken)
          back == Parsed(p, Header(p, r.answer) \o r.answer.body)
      IN  /\ got.ok => r # Failed
          /\ r.answer # None /\ asdu.ca # INVALID_COMMON_ADDR =>
               /\ Marshallable(p, r.answer)
               /\ Sized(p, back) = "fits" /\ back = r.answer
               /\ Dispatch104(back) = Dispatch104(asdu)

(* The process data that a builder lets through as an answer to an         *)
(* interrogation or a counter interrogation reaches the master's method    *)
(* for that request, whatever its type (cs101/handler.rs dispatch_client). *)
ReportsAreRouted ==
  stage = "got" /\ IsCall(call) /\ asdu.type \notin T.C_SC_NA .. T.P_AC_NA =>
    /\ asdu.coa.cause \in IsInterrogation => DispatchClient101(asdu) = "interrogation"
    /\ asdu.coa.cause \in IsCounterRequest =>
         DispatchClient101(asdu) = "counter_interrogation"

(* Every request is served: handed to the method meant for it or answered  *)
(* with a refusal that arrives, and so are the data it asked for.          *)
RequestsAreServed == BuiltIsAccepted /\ AnswersArrive /\ ReportsAreRouted
=============================================================================
