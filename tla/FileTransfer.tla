---------------------------- MODULE FileTransfer ----------------------------
(***************************************************************************)
(* Files fetched from a controlled station, src/filetransfer: the Sender   *)
(* of the station, the Receiver of each master, and the connections the    *)
(* file ASDUs travel on, in order, as long as a connection lasts.          *)
(*                                                                         *)
(* A file is a sequence of octets; an ASDU is a record of the fields the   *)
(* two components look at.  An object address and a name of file together  *)
(* are a name here, and there is one common address.                       *)
(***************************************************************************)
EXTENDS Integers, Sequences, SequencesExt, FiniteSetsExt

CONSTANTS Master,        \* the masters that share the station's Sender
          Name,          \* names of files, with their object addresses
          Nof,           \* Nof[n]: the name without the address
          Content,       \* Content[n]: the octets of a file in the store at first
          SectionSize,   \* Sender::section_size
          MaxSections,   \* sections one octet can name, 255 in the code
          MaxSegment,    \* Params::max_segment_size
          Unencodable,   \* names whose object address does not fit into an ASDU
          None,
          QuietAbort,    \* whether abort is called only when nothing is under way
          PromptSelect,  \* whether a select is sent before the master's handler goes on
          Lossy,         \* whether a segment may be lost, doubled or altered on its way
          MaxRequests, MaxFaults   \* bounds of the model

ASSUME FileTransferAssumption ==
    /\ MaxSections \in 1 .. 255
    /\ MaxSegment \in Nat \ {0} /\ SectionSize \in Nat \ {0}
    /\ \A n \in DOMAIN Content : Content[n] \in Seq(0 .. 255)
    /\ None \notin [name : Name, nos : Nat, called : BOOLEAN,
                   section : Seq(Nat), file : Seq(Nat)]
    /\ QuietAbort \in BOOLEAN /\ PromptSelect \in BOOLEAN /\ Lossy \in BOOLEAN

VARIABLES
    store,       \* the files of the station, a function on their names
    serving,     \* Sender::active
    fetching,    \* fetching[m]: Receiver::active of master m
    selecting,   \* selecting[m]: the transfer request_file of m has yet to send the
                 \* select of, or None
    toStation,   \* toStation[m], toMaster[m]: ASDUs on the connection of m
    toMaster,
    delivered,   \* delivered[m]: what was handed to the file handler
    panicked,    \* the Sender indexed past its sections, and its lock is poisoned
    disturbed,   \* disturbed[m]: the connection broke, or a send failed
    requests, faults   \* counted for the bounds

vars == <<store, serving, fetching, selecting, toStation, toMaster, delivered,
          panicked, disturbed, requests, faults>>

-----------------------------------------------------------------------------
(***************************************************************************)
(* Data: sections, segments and checksums.                                 *)
(***************************************************************************)
CeilDiv(a, b) == (a + b - 1) \div b
Larger(a, b) == IF a > b THEN a ELSE b

\* data in pieces of `size` octets, the last one shorter (slice::chunks).
Chunks(data, size) ==
    [i \in 1 .. CeilDiv(Len(data), size) |->
        SubSeq(data, (i - 1) * size + 1,
               IF i * size > Len(data) THEN Len(data) ELSE i * size)]

\* split_sections: sections grow where MaxSections would not do.
SplitSections(data, size) ==
    IF data = <<>> THEN <<data>>
    ELSE Chunks(data, Larger(size, CeilDiv(Len(data), MaxSections)))

\* A section's number on the wire: MaxSections is the largest that fits.
Nos(n) == n % (MaxSections + 1)

FileChecksum(octets) == FoldSeq(+, 0, octets) % 256

-----------------------------------------------------------------------------
(***************************************************************************)
(* ASDUs: F_SC and F_AF to the station; F_FR, F_SR, F_SG, F_LS, and the    *)
(* refusals, to the master.                                                *)
(***************************************************************************)
CallOrSelect(action, name, nos) ==
    [type |-> "F_SC", action |-> action, name |-> name, nos |-> nos]
Ack(action, name, nos) ==
    [type |-> "F_AF", action |-> action, name |-> name, nos |-> nos]
FileReady(name) == [type |-> "F_FR", name |-> name]
SectionReady(t) == [type |-> "F_SR", name |-> t.name, nos |-> Nos(t.cur + 1)]
Segment(t, octets) ==
    [type |-> "F_SG", name |-> t.name, nos |-> Nos(t.cur + 1), octets |-> octets]
LastSegment(t) ==
    [type |-> "F_LS", name |-> t.name, nos |-> Nos(t.cur + 1), eof |-> FALSE,
     chs |-> FileChecksum(t.sections[t.cur + 1])]
LastSection(t) ==
    [type |-> "F_LS", name |-> t.name, nos |-> Nos(Len(t.sections)), eof |-> TRUE,
     chs |-> FileChecksum(FlattenSeq(t.sections))]
Directory == [type |-> "F_DR"]
Refusal(name) == [type |-> "F_SC_NEG", name |-> name]

\* MemStore: the files it lists, one of them, and the rest without it.
Listing == DOMAIN store
Has(name) == name \in Listing
Without(name) == [n \in Listing \ {name} |-> store[n]]

-----------------------------------------------------------------------------
(***************************************************************************)
(* Sender.  A reply is the state after it and the ASDUs sent.              *)
(***************************************************************************)
Reply(t, s, out) == [serving |-> t, store |-> s, out |-> out, panic |-> FALSE]
Keeping(t, out) == Reply(t, store, out)
Panic == [Keeping(serving, <<>>) EXCEPT !.panic = TRUE]

\* section_data: the segments of the current section and its last-segment marker.
SectionData(t) ==
    IF t.cur >= Len(t.sections) THEN Panic
    ELSE LET pieces == Chunks(t.sections[t.cur + 1], MaxSegment)
         IN  Keeping(t, [i \in DOMAIN pieces |-> Segment(t, pieces[i])]
                            \o <<LastSegment(t)>>)

Transfer(name) == [name |-> name, cur |-> 0,
                   sections |-> SplitSections(store[name], SectionSize)]

\* SELECT_FILE and REQUEST_FILE: the call of the selected file starts it over.
OnSelectFile(name, select) ==
    LET restarted == [serving EXCEPT !.cur = 0] IN
    IF ~select /\ serving # None /\ serving.name = name
      THEN Keeping(restarted, <<SectionReady(restarted)>>)
    ELSE IF ~Has(name) THEN Keeping(serving, <<Refusal(name)>>)
    ELSE Keeping(Transfer(name), <<IF select THEN FileReady(name)
                                   ELSE SectionReady(Transfer(name))>>)

\* SELECT_SECTION and REQUEST_SECTION: 0 asks for the data of the section announced.
OnSelectSection(a, requesting) ==
    LET current == requesting /\ a.nos = 0
        t == IF current THEN serving ELSE [serving EXCEPT !.cur = a.nos - 1]
    IN  IF serving = None \/ Nof[serving.name] # Nof[a.name]
          THEN Keeping(serving, <<Ack("NEG_ACK_FILE", a.name, a.nos)>>)
        ELSE IF ~current /\ a.nos \notin DOMAIN serving.sections
          THEN Keeping(serving, <<Ack("NEG_ACK_SECTION", a.name, a.nos)>>)
        ELSE IF requesting THEN SectionData(t) ELSE Keeping(t, <<SectionReady(t)>>)

OnDelete(name) ==
    IF ~Has(name)
      THEN Keeping(serving, <<Ack("NEG_ACK_FILE", name, 0)>>)
      ELSE Reply(IF serving # None /\ serving.name = name THEN None ELSE serving,
                 Without(name), <<>>)

\* on_call_or_select
OnCallOrSelect(a) ==
    CASE a.action = "DEFAULT" ->
             Keeping(serving, IF Listing = {} THEN <<>> ELSE <<Directory>>)
      [] a.action = "SELECT_FILE"     -> OnSelectFile(a.name, TRUE)
      [] a.action = "REQUEST_FILE"    -> OnSelectFile(a.name, FALSE)
      [] a.action = "SELECT_SECTION"  -> OnSelectSection(a, FALSE)
      [] a.action = "REQUEST_SECTION" -> OnSelectSection(a, TRUE)
      [] a.action \in {"DEACTIVATE_FILE", "DEACTIVATE_SECTION"} -> Keeping(None, <<>>)
      [] a.action = "DELETE_FILE"     -> OnDelete(a.name)

\* Mutant: one section too many is announced.
OnAckLate(a) ==
    LET next == [serving EXCEPT !.cur = @ + 1] IN
    CASE serving = None -> Keeping(None, <<>>)
      [] serving # None /\ a.action = "POS_ACK_SECTION" ->
             Keeping(next, <<IF next.cur <= Len(next.sections) THEN SectionReady(next)
                             ELSE LastSection(next)>>)
      [] serving # None /\ a.action = "NEG_ACK_SECTION" -> SectionData(serving)
      [] serving # None /\ a.action \in {"POS_ACK_FILE", "NEG_ACK_FILE"} ->
             Keeping(None, <<>>)

\* on_ack: which section the acknowledgement names is not looked at.
OnAck(a) ==
    LET next == [serving EXCEPT !.cur = @ + 1] IN
    CASE serving = None -> Keeping(None, <<>>)
      [] serving # None /\ a.action = "POS_ACK_SECTION" ->
             Keeping(next, <<IF next.cur < Len(next.sections) THEN SectionReady(next)
                             ELSE LastSection(next)>>)
      [] serving # None /\ a.action = "NEG_ACK_SECTION" -> SectionData(serving)
      [] serving # None /\ a.action \in {"POS_ACK_FILE", "NEG_ACK_FILE"} ->
             Keeping(None, <<>>)

StationReply(a) == IF a.type = "F_SC" THEN OnCallOrSelect(a) ELSE OnAck(a)

-----------------------------------------------------------------------------
(***************************************************************************)
(* Receiver.  t is the transfer that runs, or None.                        *)
(***************************************************************************)
Got(t, out) == [fetching |-> t, out |-> out, file |-> None]

NewTransfer(name) == [name |-> name, nos |-> 0, called |-> FALSE,
                      section |-> <<>>, file |-> <<>>]
Runs(t, name) == t # None /\ t.name = name

\* on_file_ready: the confirmation of the select is answered with the call; an
\* offer is accepted (auto_accept) with a select.
OnFileReady(t, a) ==
    CASE t = None -> Got(NewTransfer(a.name), <<CallOrSelect("SELECT_FILE", a.name, 0)>>)
      [] Runs(t, a.name) /\ ~t.called ->
             Got([t EXCEPT !.called = TRUE], <<CallOrSelect("REQUEST_FILE", a.name, 0)>>)
      [] OTHER -> Got(t, <<>>)

OnSectionReady(t, a) ==
    IF Runs(t, a.name)
      THEN Got([t EXCEPT !.nos = a.nos, !.called = TRUE, !.section = <<>>],
               <<CallOrSelect("REQUEST_SECTION", a.name, a.nos)>>)
      ELSE Got(t, <<>>)

OnSegment(t, a) ==
    IF Runs(t, a.name) /\ t.nos = a.nos
      THEN Got([t EXCEPT !.section = @ \o a.octets], <<>>) ELSE Got(t, <<>>)

\* Mutant: a section is taken whatever its checksum says.
OnLastUnchecked(t, a) ==
    CASE ~Runs(t, a.name) -> Got(t, <<>>)
      [] Runs(t, a.name) /\ a.eof ->
             [Got(None, <<Ack("POS_ACK_FILE", a.name, a.nos)>>)
              EXCEPT !.file = [name |-> a.name, data |-> t.file]]
      [] Runs(t, a.name) /\ ~a.eof ->
             Got([t EXCEPT !.section = <<>>, !.file = @ \o t.section],
                 <<Ack("POS_ACK_SECTION", a.name, t.nos)>>)

\* on_last_section_or_segment: a section whose checksum does not fit is rejected.
\* Neither its number nor the checksum of the whole file is looked at.
OnLast(t, a) ==
    CASE ~Runs(t, a.name) -> Got(t, <<>>)
      [] Runs(t, a.name) /\ a.eof ->
             [Got(None, <<Ack("POS_ACK_FILE", a.name, a.nos)>>)
              EXCEPT !.file = [name |-> a.name, data |-> t.file]]
      [] Runs(t, a.name) /\ ~a.eof /\ FileChecksum(t.section) # a.chs ->
             Got([t EXCEPT !.section = <<>>], <<Ack("NEG_ACK_SECTION", a.name, t.nos)>>)
      [] Runs(t, a.name) /\ ~a.eof /\ FileChecksum(t.section) = a.chs ->
             Got([t EXCEPT !.section = <<>>, !.file = @ \o t.section],
                 <<Ack("POS_ACK_SECTION", a.name, t.nos)>>)

\* Mutant: a refusal leaves the transfer active.
OnRefusedKeeps(t, a) == Got(t, <<>>)

OnRefused(t, a) == Got(IF Runs(t, a.name) THEN None ELSE t, <<>>)

\* Receiver::step; an F_AF from the station is an error, and no more.
MasterReply(t, a) == CASE a.type = "F_FR" -> OnFileReady(t, a)
                       [] a.type = "F_SR" -> OnSectionReady(t, a)
                       [] a.type = "F_SG" -> OnSegment(t, a)
                       [] a.type = "F_LS" -> OnLast(t, a)
                       [] a.type = "F_SC_NEG" -> OnRefused(t, a)
                       [] a.type \in {"F_DR", "F_AF"} -> Got(t, <<>>)
-----------------------------------------------------------------------------
(***************************************************************************)
(* What happens.                                                           *)
(***************************************************************************)
Init ==
    /\ store = Content
    /\ serving = None
    /\ fetching  = [m \in Master |-> None]
    /\ selecting = [m \in Master |-> None]
    /\ toStation = [m \in Master |-> <<>>]
    /\ toMaster  = [m \in Master |-> <<>>]
    /\ delivered = [m \in Master |-> <<>>]
    /\ panicked = FALSE
    /\ disturbed = [m \in Master |-> FALSE]
    /\ requests = 0 /\ faults = 0

Asks == requests < MaxRequests /\ requests' = requests + 1
Fault == faults < MaxFaults /\ faults' = faults + 1
Tell(m, asdus) == toStation' = [toStation EXCEPT ![m] = @ \o asdus]

\* Receiver::request_file, up to its await: busy from now on, although an address
\* that does not fit returns before anything is sent.  One call runs at a time.
RequestFile(m, name) ==
    /\ Asks /\ fetching[m] = None /\ selecting[m] = None
    /\ fetching' = [fetching EXCEPT ![m] = NewTransfer(name)]
    /\ selecting' = [selecting EXCEPT ![m] = IF name \in Unencodable THEN None
                                             ELSE NewTransfer(name)]
    /\ UNCHANGED <<store, serving, toStation, toMaster, delivered, panicked, disturbed,
                   faults>>

\* The rest of it: the select is sent,
SendSelect(m) ==
    /\ selecting[m] # None
    /\ Tell(m, <<CallOrSelect("SELECT_FILE", selecting[m].name, 0)>>)
    /\ selecting' = [selecting EXCEPT ![m] = None]
    /\ UNCHANGED <<store, serving, fetching, toMaster, delivered, panicked, disturbed,
                   requests, faults>>

\* or is not, and what is active then is aborted.
SelectFails(m) ==
    /\ Fault /\ selecting[m] # None
    /\ fetching'  = [fetching EXCEPT ![m] = None]
    /\ selecting' = [selecting EXCEPT ![m] = None]
    /\ UNCHANGED <<store, serving, toStation, toMaster, delivered, panicked, disturbed,
                   requests>>

\* The handler of m may take what arrives.
Attends(m) == toMaster[m] # <<>> /\ (PromptSelect => selecting[m] = None)

\* Requests of the application beside a transfer: the directory, and by ASDUs of
\* its own the end of a transfer and the removal of a file.
OtherRequest(m, action, name) ==
    /\ Asks /\ fetching[m] = None
    /\ Tell(m, <<CallOrSelect(action, name, 0)>>)
    /\ UNCHANGED <<store, serving, fetching, selecting, toMaster, delivered, panicked,
                   disturbed, faults>>

\* Sender::offer
Offer(m, name) ==
    /\ Asks /\ Has(name)
    /\ toMaster' = [toMaster EXCEPT ![m] = Append(@, FileReady(name))]
    /\ UNCHANGED <<store, serving, fetching, selecting, toStation, delivered, panicked,
                   disturbed, faults>>

\* The handler of the station passes an ASDU to Sender::handle.
StationHandles(m) ==
    /\ ~panicked /\ toStation[m] # <<>>
    /\ LET r == StationReply(Head(toStation[m]))
       IN  /\ serving' = r.serving /\ store' = r.store /\ panicked' = r.panic
           /\ toMaster' = [toMaster EXCEPT ![m] = @ \o r.out]
    /\ toStation' = [toStation EXCEPT ![m] = Tail(@)]
    /\ UNCHANGED <<fetching, selecting, delivered, disturbed, requests, faults>>

\* A send of the reply fails: what follows it is not sent, and the transfer is
\* aborted.
StationSendFails(m) ==
    /\ Fault /\ ~panicked /\ toStation[m] # <<>>
    /\ LET r == StationReply(Head(toStation[m]))
       IN  /\ \E n \in 0 .. Len(r.out) - 1 :
                toMaster' = [toMaster EXCEPT ![m] = @ \o SubSeq(r.out, 1, n)]
           /\ store' = r.store
    /\ serving' = None
    /\ toStation' = [toStation EXCEPT ![m] = Tail(@)]
    /\ disturbed' = [x \in Master |-> TRUE]
    /\ UNCHANGED <<fetching, selecting, delivered, panicked, requests>>

\* The handler of master m passes an ASDU to Receiver::handle: a file that is
\* complete is handed over before the reply is sent.
Hands(m, file) ==
    delivered' = IF file = None THEN delivered
                 ELSE [delivered EXCEPT ![m] = Append(@, file)]

MasterHandles(m) ==
    /\ Attends(m)
    /\ LET r == MasterReply(fetching[m], Head(toMaster[m]))
       IN  /\ fetching' = [fetching EXCEPT ![m] = r.fetching]
           /\ Tell(m, r.out)
           /\ Hands(m, r.file)
    /\ toMaster' = [toMaster EXCEPT ![m] = Tail(@)]
    /\ UNCHANGED <<store, serving, selecting, panicked, disturbed, requests, faults>>

MasterSendFails(m) ==
    /\ Fault /\ Attends(m)
    /\ LET r == MasterReply(fetching[m], Head(toMaster[m]))
       IN  r.out # <<>> /\ Hands(m, r.file)
    /\ fetching' = [fetching EXCEPT ![m] = None]
    /\ toMaster' = [toMaster EXCEPT ![m] = Tail(@)]
    /\ UNCHANGED <<store, serving, selecting, toStation, panicked, disturbed, requests>>

\* Receiver::abort
Abort(m) ==
    /\ fetching[m] # None
    /\ QuietAbort => /\ disturbed[m] /\ selecting[m] = None
                     /\ toStation[m] = <<>> /\ toMaster[m] = <<>>
    /\ fetching'  = [fetching EXCEPT ![m] = None]
    /\ disturbed' = [disturbed EXCEPT ![m] = FALSE]
    /\ UNCHANGED <<store, serving, selecting, toStation, toMaster, delivered, panicked,
                   requests, faults>>

\* Sender::abort
SenderAbort ==
    /\ Fault /\ serving # None
    /\ serving' = None
    /\ disturbed' = [m \in Master |-> TRUE]
    /\ UNCHANGED <<store, fetching, selecting, toStation, toMaster, delivered, panicked,
                   requests>>

\* The connection is lost with what is under way on it; both ends go on.
Break(m) ==
    /\ Fault
    /\ toStation' = [toStation EXCEPT ![m] = <<>>]
    /\ toMaster'  = [toMaster EXCEPT ![m] = <<>>]
    /\ disturbed' = [disturbed EXCEPT ![m] = TRUE]
    /\ UNCHANGED <<store, serving, fetching, selecting, delivered, panicked, requests>>

\* What the checksums are for: a segment is lost, doubled or altered.  One is: two
\* alterations may cancel out in a sum modulo 256.
Altered(a) == [a EXCEPT !.octets = [i \in DOMAIN @ |-> @[i] + 1]]

SegmentFault(m) ==
    /\ Lossy /\ Fault /\ faults = 0
    /\ \E i \in DOMAIN toMaster[m] :
         /\ toMaster[m][i].type = "F_SG"
         /\ \E new \in {<<>>, <<toMaster[m][i], toMaster[m][i]>>, <<Altered(toMaster[m][i])>>} :
              toMaster' = [toMaster EXCEPT ![m] =
                              SubSeq(@, 1, i - 1) \o new \o SubSeq(@, i + 1, Len(@))]
    /\ UNCHANGED <<store, serving, fetching, selecting, toStation, delivered, panicked,
                   disturbed, requests>>

Next ==
    \/ \E m \in Master :
         \/ \E name \in Name : RequestFile(m, name) \/ Offer(m, name)
         \/ \E name \in Name, action \in {"DEACTIVATE_FILE", "DELETE_FILE", "DEFAULT"} :
                OtherRequest(m, action, name)
         \/ SendSelect(m) \/ SelectFails(m)
         \/ StationHandles(m) \/ StationSendFails(m)
         \/ MasterHandles(m) \/ MasterSendFails(m)
         \/ Abort(m) \/ Break(m) \/ SegmentFault(m)
    \/ SenderAbort

\* The dispatcher of each end passes on what arrives, and a call of request_file sends.
Fairness == \A m \in Master : /\ WF_vars(StationHandles(m)) /\ WF_vars(MasterHandles(m))
                             /\ WF_vars(SendSelect(m))

Spec == Init /\ [][Next]_vars /\ Fairness

-----------------------------------------------------------------------------
(***************************************************************************)
(* What is assumed where no master may get a wrong file.                   *)
(***************************************************************************)

\* There is one Sender, with one transfer, for all masters: two disturb each other.
OneMaster == \A m, x \in Master : m = x

Sections(n) == SplitSections(Content[n], SectionSize)

\* A section that misses a piece (at most a segment), has it twice, or altered.
Lacking(s, i, j)  == SubSeq(s, 1, i) \o SubSeq(s, j + 1, Len(s))
Doubling(s, i, j) == SubSeq(s, 1, j) \o SubSeq(s, i + 1, Len(s))
Raised(s, i, j)   == [p \in 1 .. Len(s) |-> IF p \in i + 1 .. j THEN s[p] + 1 ELSE s[p]]
Damaged(s, i, j)  == {Lacking(s, i, j), Doubling(s, i, j), Raised(s, i, j)}

\* The checksum of a section is that of no damaged one: no such piece has octets that
\* add up to 0 modulo 256.
ChecksumsTell ==
    \A n \in DOMAIN Content : \A k \in 1 .. Len(Sections(n)) :
        \A i, j \in 0 .. Len(Sections(n)[k]) :
            i < j /\ j - i <= MaxSegment =>
                \A x \in Damaged(Sections(n)[k], i, j) :
                    FileChecksum(x) # FileChecksum(Sections(n)[k])

Trusted == Lossy => ChecksumsTell

-----------------------------------------------------------------------------
(***************************************************************************)
(* Properties.                                                             *)
(***************************************************************************)

\* The file handler is given the file as the station has it: no section twice, left
\* out or from another attempt, and nothing a checksum would have told of
\* ("a corrupted file is never assembled silently", receiver.rs:491-493).
FileIntact ==
    \A m \in Master : \A i \in DOMAIN delivered[m] :
        delivered[m][i].data = Content[delivered[m][i].name]

\* The two ends are never so far apart that the station reads a section it does
\* not have (sender.rs:455, whose index is not checked).
NoPanic == ~panicked

\* While the connection holds, a transfer that began ends: with the file, or with a
\* refusal.  There is no timeout that would end it otherwise.
TransferEnds ==
    \A m \in Master :
        fetching[m] # None ~> fetching[m] = None \/ disturbed[m]
=============================================================================
