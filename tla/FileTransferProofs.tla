------------------------- MODULE FileTransferProofs -------------------------
(***************************************************************************)
(* One master and the station it fetches files from, whatever the files,   *)
(* their number, the sizes of sections and segments, and the number of     *)
(* requests and faults: the station never reads past its sections, and     *)
(* what the master assembles is the file.                                  *)
(***************************************************************************)
EXTENDS FileTransfer, SequenceTheorems, TLAPS

Data == Seq(Nat)

-----------------------------------------------------------------------------
(***************************************************************************)
(* Files and their sections.                                               *)
(***************************************************************************)

\* Where the first k pieces of this size end in len octets.
Bound(k, size, len) == IF k * size > len THEN len ELSE k * size

\* The sizes of the sections of a file, and the octets of its first k sections.
SizeOf(n) == Larger(SectionSize, CeilDiv(Len(Content[n]), MaxSections))
Start(n, k) == SubSeq(Content[n], 1, Bound(k, SizeOf(n), Len(Content[n])))

-----------------------------------------------------------------------------
(***************************************************************************)
(* Messages and transfers.                                                 *)
(***************************************************************************)
Checksums == {FileChecksum(x) : x \in Data} \cup {FileChecksum(FlattenSeq(s)) : s \in Seq(Data)}

SC == [type : {"F_SC"}, name : Name, nos : Nat,
       action : {"SELECT_FILE", "REQUEST_FILE", "REQUEST_SECTION", "DEACTIVATE_FILE",
                 "DELETE_FILE", "DEFAULT"}]
AF == [type : {"F_AF"}, name : Name, nos : Nat,
       action : {"POS_ACK_SECTION", "NEG_ACK_SECTION", "POS_ACK_FILE", "NEG_ACK_FILE"}]
FR == [type : {"F_FR"}, name : Name]
SR == [type : {"F_SR"}, name : Name, nos : Nat]
SG == [type : {"F_SG"}, name : Name, nos : Nat, octets : Data]
LS == [type : {"F_LS"}, name : Name, nos : Nat, eof : BOOLEAN, chs : Checksums]
DR == [type : {"F_DR"}]
NEG == [type : {"F_SC_NEG"}, name : Name]
Down == SC \cup AF
Up == FR \cup SR \cup SG \cup LS \cup DR \cup NEG \cup AF

Transfers == [name : Name, nos : Nat, called : BOOLEAN, section : Data, file : Data]
Called(n) == [NewTransfer(n) EXCEPT !.called = TRUE]
Serving(n, k) == [name |-> n, cur |-> k, sections |-> Sections(n)]

\* Messages that move the transfer of sections on.
Moves(a) == a.action \in {"REQUEST_SECTION", "POS_ACK_SECTION", "NEG_ACK_SECTION"}
Section(a) == a.type \in {"F_SR", "F_SG", "F_LS"}
NoSection(u) == \A i \in 1 .. Len(u) : ~Section(u[i])
OneSection(u, h) == h \in 1 .. Len(u) /\ \A i \in 1 .. Len(u) : i # h => ~Section(u[i])

\* What arrives as x for the section s is s, or the checksum tells.
Told(x, s, fresh) == /\ fresh => x = s
                     /\ Trusted /\ FileChecksum(x) = FileChecksum(s) => x = s

\* A segment holds the octets of x from a to b; of other messages there are none.
PieceIs(f, x, a, b) ==
    IF f.type = "F_SG" THEN b - a <= MaxSegment /\ f.octets = SubSeq(x, a + 1, b) ELSE a = b

\* The section received so far ends at cut[0] of x, and the segments in front of h, one
\* after the other, at the rest of its values.
Cuts(cut, section, u, h, x) ==
    /\ cut \in [0 .. h - 1 -> 0 .. Len(x)]
    /\ cut[0] = Len(section) /\ section = SubSeq(x, 1, Len(section))
    /\ cut[h - 1] = Len(x) /\ \A i, j \in 0 .. h - 1 : i <= j => cut[i] <= cut[j]
    /\ \A i \in 1 .. h - 1 : PieceIs(u[i], x, cut[i - 1], cut[i])

\* Together they spell x.
Spells(section, u, h, x) == \E cut : Cuts(cut, section, u, h, x)

-----------------------------------------------------------------------------
(***************************************************************************)
(* The invariant.  t is the transfer of the master, dn and u are the ASDUs *)
(* under way, v is the station's, L the files it lists.                    *)
(***************************************************************************)

\* Before the sections: a call that stands for a file of the station is the last message.
Opening(t, dn, u, L) ==
    /\ t = None \/ \E n \in Name : t = NewTransfer(n) \/ t = Called(n)
    /\ NoSection(u)
    /\ \A i \in 1 .. Len(dn) :
         /\ ~Moves(dn[i])
         /\ dn[i].action = "REQUEST_FILE" =>
              dn[i].name \notin L \/ (i = Len(dn) /\ t = Called(dn[i].name))

\* The station, if it goes on, is at section k of the file.
At(v, n, k) == v = None \/ v = Serving(n, k)

\* k sections are received, and the next is announced,
Announced(t, dn, u, v, k) ==
    /\ dn = <<>> /\ k < Len(Sections(t.name)) /\ At(v, t.name, k)
    /\ \E h \in 1 .. Len(u) : /\ OneSection(u, h) /\ u[h].type = "F_SR"
                              /\ u[h].name = t.name /\ u[h].nos = k + 1

\* asked for,
Asked(t, dn, u, v, k) ==
    /\ k < Len(Sections(t.name)) /\ At(v, t.name, k) /\ NoSection(u)
    /\ dn = <<CallOrSelect("REQUEST_SECTION", t.name, k + 1)>>
    /\ t.nos = k + 1 /\ t.section = <<>>

\* on its way,
Sent(t, dn, u, v, k, fresh) ==
    /\ dn = <<>> /\ k < Len(Sections(t.name)) /\ At(v, t.name, k) /\ t.nos = k + 1
    /\ \E h \in 1 .. Len(u) :
         /\ \A i \in 1 .. Len(u) :
              /\ i < h /\ Section(u[i]) => /\ u[i].type = "F_SG" /\ u[i].name = t.name
                                           /\ u[i].nos = k + 1
              /\ i > h => ~Section(u[i])
         /\ u[h].type = "F_LS" /\ u[h].name = t.name /\ ~u[h].eof
         /\ u[h].chs = FileChecksum(Sections(t.name)[k + 1])
         /\ \E x \in Data : /\ Spells(t.section, u, h, x)
                            /\ Told(x, Sections(t.name)[k + 1], fresh)

\* acknowledged, which makes one more, or rejected;
Acknowledged(t, dn, u, v, k) ==
    /\ k > 0 /\ At(v, t.name, k - 1) /\ NoSection(u)
    /\ \E i \in Nat : dn = <<Ack("POS_ACK_SECTION", t.name, i)>>
Rejected(t, dn, u, v, k) ==
    /\ k < Len(Sections(t.name)) /\ At(v, t.name, k) /\ NoSection(u)
    /\ \E i \in Nat : dn = <<Ack("NEG_ACK_SECTION", t.name, i)>>
    /\ t.nos = k + 1 /\ t.section = <<>>

\* all sections are received.
Complete(t, dn, u, v, k) ==
    /\ dn = <<>> /\ k = Len(Sections(t.name)) /\ At(v, t.name, k)
    /\ \E h \in 1 .. Len(u) : /\ OneSection(u, h) /\ u[h].type = "F_LS"
                              /\ u[h].name = t.name /\ u[h].eof

\* The next message is lost, and nothing moves the transfer on.
Stalled(dn, u) == dn = <<>> /\ \A i \in 1 .. Len(u) : u[i].type \notin {"F_SR", "F_LS"}

Fetching(t, dn, u, v, L, fresh) ==
    /\ t # None /\ t.name \in L /\ t.called
    /\ \/ Stalled(dn, u)
       \/ \E k \in 0 .. Len(Sections(t.name)) :
            /\ Trusted => t.file = Start(t.name, k)
            /\ \/ Announced(t, dn, u, v, k) \/ Asked(t, dn, u, v, k)
               \/ Sent(t, dn, u, v, k, fresh)
               \/ Acknowledged(t, dn, u, v, k) \/ Rejected(t, dn, u, v, k)
               \/ Complete(t, dn, u, v, k)

\* fresh: nothing went wrong so far.
InPhase(t, dn, u, v, L, fresh) == Opening(t, dn, u, L) \/ Fetching(t, dn, u, v, L, fresh)

Types ==
    /\ Listing \subseteq DOMAIN Content /\ \A n \in Listing : store[n] = Content[n]
    /\ serving = None \/ \E n \in Listing, k \in Nat : serving = Serving(n, k)
    /\ fetching \in [Master -> {None} \cup Transfers]
    /\ toStation \in [Master -> Seq(Down)] /\ toMaster \in [Master -> Seq(Up)]
    /\ \A m \in Master : \A i \in 1 .. Len(toMaster[m]) :
         toMaster[m][i].type = "F_SC_NEG" => toMaster[m][i].name \notin Listing
    /\ panicked = FALSE
    /\ delivered \in [Master -> Seq([name : Name, data : Data])]
    /\ faults \in Nat

IInv ==
    /\ Types /\ (Trusted => FileIntact)
    /\ \A m \in Master :
         InPhase(fetching[m], toStation[m], toMaster[m], serving, Listing, faults = 0)

\* A select that is yet to be sent is that of the transfer that has not begun.
Selects ==
    /\ selecting \in [Master -> {None} \cup Transfers]
    /\ \A m \in Master : selecting[m] # None =>
         \E n \in Name : fetching[m] = NewTransfer(n) /\ selecting[m] = NewTransfer(n)

-----------------------------------------------------------------------------
(***************************************************************************)
(* A file in sections, and a section in segments.                          *)
(***************************************************************************)

\* Products are monotonic.
LEMMA Products ==
    ASSUME NEW a \in Int, NEW b \in Int, NEW c \in Nat, a <= b PROVE a * c <= b * c
<1>1. (b - a) * c >= 0
  OBVIOUS
<1>2. (b - a) * c = b * c - a * c
  OBVIOUS
<1> QED
  BY <1>1, <1>2

\* a octets fill so many pieces of b.
LEMMA CeilDivIs ==
    ASSUME NEW a \in Nat, NEW b \in Nat \ {0}
    PROVE  /\ CeilDiv(a, b) \in Nat /\ a <= CeilDiv(a, b) * b
           /\ a = 0 => CeilDiv(a, b) = 0
           /\ a > 0 => CeilDiv(a, b) > 0 /\ (CeilDiv(a, b) - 1) * b < a
<1> DEFINE c == a + b - 1
           q == c \div b
<1>1. c \in Nat /\ q \in Int /\ b * q <= c /\ c < b * q + b
  OBVIOUS
<1>2. q >= 0
  <2>1. CASE q <= -1
    <3>1. q * b <= (-1) * b
      BY <1>1, <2>1, Products
    <3> QED
      BY <1>1, <3>1
  <2> QED
    BY <1>1, <2>1
<1>3. a = 0 => q = 0
  <2>1. CASE a = 0 /\ q >= 1
    <3>1. 1 * b <= q * b
      BY <1>1, <2>1, Products
    <3> QED
      BY <1>1, <2>1, <3>1
  <2> QED
    BY <1>1, <1>2, <2>1
<1>4. a > 0 => q > 0
  BY <1>1, <1>2
<1>5. (q - 1) * b = b * q - b
  BY <1>1
<1> QED
  BY <1>1, <1>2, <1>3, <1>4, <1>5 DEF CeilDiv

\* The bounds of the pieces.
LEMMA BoundIs ==
    ASSUME NEW len \in Nat, NEW size \in Nat \ {0}, NEW k \in 1 .. CeilDiv(len, size)
    PROVE  /\ Bound(k - 1, size, len) = (k - 1) * size
           /\ Bound(k, size, len) \in Nat /\ Bound(k, size, len) <= len
           /\ Bound(k - 1, size, len) < Bound(k, size, len)
           /\ Bound(k, size, len) - Bound(k - 1, size, len) <= size
<1> DEFINE K == CeilDiv(len, size)
<1>1. k \in 1 .. K /\ K \in Nat
  BY CeilDivIs
<1>2. (len = 0 => K = 0) /\ (len > 0 => (K - 1) * size < len)
  BY CeilDivIs
<1> HIDE DEF K
<1>3. (k - 1) * size <= (K - 1) * size
  BY <1>1, Products
<1>4. (k - 1) * size \in Nat /\ k * size = (k - 1) * size + size
  BY <1>1
<1> QED
  BY <1>1, <1>2, <1>3, <1>4 DEF Bound

\* The first and the last of them.
LEMMA BoundEnds ==
    ASSUME NEW len \in Nat, NEW size \in Nat \ {0}
    PROVE  Bound(0, size, len) = 0 /\ Bound(CeilDiv(len, size), size, len) = len
<1> DEFINE K == CeilDiv(len, size)
<1>1. K \in Nat /\ len <= K * size
  BY CeilDivIs
<1>2. 0 * size = 0 /\ K * size \in Int
  BY <1>1
<1> HIDE DEF K
<1>3. Bound(0, size, len) = 0 /\ Bound(K, size, len) = len
  BY <1>1, <1>2 DEF Bound
<1> QED
  BY <1>3 DEF K

\* Chunks are the pieces between these bounds.
LEMMA ChunksAre ==
    ASSUME NEW data \in Data, NEW size \in Nat \ {0}
    PROVE  /\ Chunks(data, size) \in Seq(Data)
           /\ Len(Chunks(data, size)) = CeilDiv(Len(data), size)
           /\ \A k \in 1 .. CeilDiv(Len(data), size) :
                Chunks(data, size)[k] = SubSeq(data, Bound(k - 1, size, Len(data)) + 1,
                                               Bound(k, size, Len(data)))
<1> DEFINE len == Len(data)
           K == CeilDiv(len, size)
           P(k) == SubSeq(data, Bound(k - 1, size, len) + 1, Bound(k, size, len))
<1>1. len \in Nat /\ K \in Nat
  BY CeilDivIs DEF Data
<1>2. ASSUME NEW k \in 1 .. K
      PROVE  /\ SubSeq(data, (k - 1) * size + 1, IF k * size > len THEN len ELSE k * size) = P(k)
             /\ P(k) \in Data
  <2>1. /\ Bound(k - 1, size, len) = (k - 1) * size
        /\ Bound(k, size, len) \in Nat /\ Bound(k, size, len) <= len
        /\ Bound(k - 1, size, len) < Bound(k, size, len)
    BY <1>1, BoundIs
  <2>2. (k - 1) * size \in Nat
    BY <1>1
  <2> HIDE DEF len
  <2>3. P(k) \in Data
    BY <2>1, <2>2 DEF Data, len
  <2> QED
    BY <2>1, <2>3 DEF Bound
<1>3. Chunks(data, size) = [k \in 1 .. K |-> P(k)]
  BY <1>2 DEF Chunks
<1> HIDE DEF K, P, len
<1>4. [k \in 1 .. K |-> P(k)] \in Seq(Data)
  BY <1>1, <1>2
<1>5. Chunks(data, size) \in Seq(Data) /\ Len(Chunks(data, size)) = K
  BY <1>1, <1>3, <1>4
<1>6. \A k \in 1 .. K : Chunks(data, size)[k] = P(k)
  BY <1>3
<1> QED
  BY <1>5, <1>6 DEF K, P, len
\* A file grows by its sections, of which there are few enough to be numbered.
LEMMA SectionsAre ==
    ASSUME NEW n \in DOMAIN Content
    PROVE  /\ Sections(n) \in Seq(Data) /\ Len(Sections(n)) \in 1 .. MaxSections
           /\ Start(n, 0) = <<>> /\ Start(n, Len(Sections(n))) = Content[n]
           /\ \A k \in 0 .. Len(Sections(n)) - 1 :
                Start(n, k) \in Data /\ Start(n, k) \o Sections(n)[k + 1] = Start(n, k + 1)
<1> DEFINE d == Content[n]
           len == Len(d)
           size == SizeOf(n)
           K == CeilDiv(len, size)
           few == CeilDiv(len, MaxSections)
<1>1. d \in Data /\ len \in Nat /\ MaxSections \in Nat \ {0} /\ SectionSize \in Nat \ {0}
  <2> DEFINE O == 0 .. 255
  <2>1. d \in Seq(O) /\ O \subseteq Nat
    BY FileTransferAssumption
  <2> HIDE DEF d, O
  <2>2. len \in Nat /\ d \in Seq(Nat)
    <3>1. Len(d) \in Nat /\ d \in [1 .. Len(d) -> O]
      BY <2>1, LenProperties
    <3>2. d \in [1 .. Len(d) -> Nat]
      BY <2>1, <3>1
    <3> QED
      BY <3>1, <3>2
  <2> USE DEF d
  <2> QED
    BY <2>2, FileTransferAssumption DEF Data
<1>2. few \in Nat /\ len <= few * MaxSections
  BY <1>1, CeilDivIs
<1>3. size \in Nat \ {0} /\ few <= size
  BY <1>1, <1>2 DEF SizeOf, Larger
<1>4. /\ K \in Nat /\ (len = 0 => K = 0) /\ (len > 0 => K > 0 /\ (K - 1) * size < len)
      /\ Bound(0, size, len) = 0 /\ Bound(K, size, len) = len
  BY <1>1, <1>3, CeilDivIs, BoundEnds
<1>5. Start(n, 0) = <<>>
  BY <1>4 DEF Start
<1>6. CASE d = <<>>
  <2>1. Sections(n) = <<d>> /\ len = 0
    BY <1>6 DEF Sections, SplitSections
  <2>2. Bound(1, size, len) = 0
    BY <1>3, <2>1 DEF Bound
  <2>3. Start(n, 1) = <<>>
    BY <2>2 DEF Start
  <2>4. /\ Sections(n) \in Seq(Data) /\ Len(Sections(n)) = 1 /\ Sections(n)[1] = d
    <3> HIDE DEF d
    <3> QED
      BY <1>1, <2>1
  <2>5. <<>> \o d = <<>> /\ <<>> \in Data
    BY <1>1, <1>6 DEF Data
  <2>6. Start(n, 0) \in Data /\ Start(n, 0) \o Sections(n)[0 + 1] = Start(n, 0 + 1)
    <3>1. Sections(n)[0 + 1] = <<>> /\ 0 + 1 = 1
      BY <1>6, <2>4
    <3>2. <<>> \o <<>> = <<>> /\ <<>> \in Data
      BY <1>6, <2>5
    <3> HIDE DEF d
    <3>3. Start(n, 0 + 1) = <<>>
      BY <2>3
    <3> QED
      BY <1>5, <3>1, <3>2, <3>3
  <2>7. ASSUME NEW k \in 0 .. Len(Sections(n)) - 1
        PROVE  Start(n, k) \in Data /\ Start(n, k) \o Sections(n)[k + 1] = Start(n, k + 1)
    BY <2>4, <2>6
  <2> QED
    BY <1>1, <1>5, <1>6, <2>3, <2>4, <2>7
<1>7. CASE d # <<>>
  <2>1. Sections(n) = Chunks(d, size) /\ len > 0
    BY <1>1, <1>7 DEF Sections, SplitSections, SizeOf, Data
  <2>2. /\ Chunks(d, size) \in Seq(Data) /\ Len(Chunks(d, size)) = K
        /\ \A k \in 1 .. K : Chunks(d, size)[k] = SubSeq(d, Bound(k - 1, size, len) + 1,
                                                         Bound(k, size, len))
    BY <1>1, <1>3, ChunksAre
  <2>3. K <= MaxSections
    <3>1. CASE K - 1 >= MaxSections
      <4>1. MaxSections * size <= (K - 1) * size /\ few * MaxSections <= size * MaxSections
        BY <1>1, <1>2, <1>3, <1>4, <3>1, Products
      <4>2. size * MaxSections = MaxSections * size /\ (K - 1) * size \in Int
            /\ few * MaxSections \in Int /\ MaxSections * size \in Int
        BY <1>1, <1>2, <1>3, <1>4
      <4> HIDE DEF K, few, size, len
      <4> QED
        BY <1>1, <1>2, <1>4, <2>1, <4>1, <4>2
    <3> QED
      BY <1>1, <1>4, <3>1
  <2>4. Start(n, K) = d
    BY <1>1, <1>4, SubSeqFull DEF Start, Data
  <2>5. ASSUME NEW k \in 0 .. K - 1
        PROVE  Start(n, k) \in Data /\ Start(n, k) \o Sections(n)[k + 1] = Start(n, k + 1)
    <3> DEFINE b == Bound(k, size, len)
               c == Bound(k + 1, size, len)
    <3>0. k + 1 \in 1 .. K /\ (k + 1) - 1 = k
      BY <1>4
    <3>1. b \in Int /\ c \in Nat /\ c <= len /\ b < c /\ b = k * size
      <4> DEFINE j == k + 1
      <4>1. j \in 1 .. CeilDiv(len, size) /\ j - 1 = k
        BY <3>0
      <4> HIDE DEF j
      <4>2. /\ Bound(j - 1, size, len) = (j - 1) * size
            /\ Bound(j, size, len) \in Nat /\ Bound(j, size, len) <= len
            /\ Bound(j - 1, size, len) < Bound(j, size, len)
        BY <1>1, <1>3, <4>1, BoundIs
      <4>3. k * size \in Int
        BY <1>3
      <4> QED
        BY <4>1, <4>2, <4>3 DEF j
    <3>2. b >= 0
      BY <1>3, <3>1
    <3>3. Sections(n)[k + 1] = SubSeq(d, b + 1, c)
      BY <2>1, <2>2, <3>0
    <3> HIDE DEF b, c, d
    <3>4. SubSeq(d, 1, b) \o SubSeq(d, b + 1, c) = SubSeq(d, 1, c)
      <4>1. 1 \in 1 .. Len(d) + 1 /\ b \in 1 - 1 .. Len(d) /\ c \in b .. Len(d)
        BY <1>1, <3>1, <3>2
      <4> QED
        BY <1>1, <4>1, ConcatAdjacentSubSeq DEF Data
    <3>5. SubSeq(d, 1, b) \in Data
      BY <1>1, <3>1, <3>2 DEF Data
    <3> QED
      BY <3>3, <3>4, <3>5 DEF Start, b, c, d
  <2> HIDE DEF K
  <2> QED
    BY <1>4, <1>5, <2>1, <2>2, <2>3, <2>4, <2>5
<1> QED
  BY <1>6, <1>7
-----------------------------------------------------------------------------
(***************************************************************************)
(* What a section and its segments spell.                                  *)
(***************************************************************************)

\* Without segments the section is all there is.
LEMMA SpelledOut ==
    ASSUME NEW section \in Data, NEW u, NEW x \in Data, Spells(section, u, 1, x)
    PROVE  section = x
<1>1. PICK cut : Cuts(cut, section, u, 1, x)
  BY DEF Spells
<1>2. Len(section) = Len(x) /\ section = SubSeq(x, 1, Len(section))
  BY <1>1 DEF Cuts
<1> QED
  BY <1>2, SubSeqFull DEF Data

\* A segment that is taken goes on with the section,
LEMMA SegmentSpells ==
    ASSUME NEW section \in Data, NEW u \in Seq(Up), NEW h \in 2 .. Len(u), NEW x \in Data,
           Spells(section, u, h, x), Head(u).type = "F_SG"
    PROVE  Spells(section \o Head(u).octets, Tail(u), h - 1, x)
<1>1. PICK cut : Cuts(cut, section, u, h, x)
  BY DEF Spells
<1> DEFINE c == [j \in 0 .. (h - 1) - 1 |-> cut[j + 1]]
           o == Head(u).octets
           d == cut[1]
           e == Len(section)
           w == Tail(u)
<1>2. /\ cut \in [0 .. h - 1 -> 0 .. Len(x)] /\ e \in Nat /\ Len(x) \in Nat
      /\ cut[0] = e /\ section = SubSeq(x, 1, e) /\ cut[h - 1] = Len(x)
  BY <1>1 DEF Cuts, Data
<1>3. /\ Head(u) = u[1] /\ Len(w) = Len(u) - 1 /\ \A i \in 1 .. Len(u) - 1 : w[i] = u[i + 1]
  BY HeadTailProperties
<1>4. e <= d /\ o = SubSeq(x, e + 1, d) /\ d \in 0 .. Len(x)
  <2>1. PieceIs(u[1], x, cut[1 - 1], cut[1]) /\ cut[0] <= cut[1]
    BY <1>1 DEF Cuts
  <2> QED
    BY <1>2, <1>3, <2>1, SMTT(30) DEF PieceIs
<1>5. section \o o = SubSeq(x, 1, d)
  <2>1. 1 \in 1 .. Len(x) + 1 /\ e \in 1 - 1 .. Len(x) /\ d \in e .. Len(x)
    BY <1>2, <1>4
  <2> HIDE DEF d, e, o
  <2>2. SubSeq(x, 1, e) \o SubSeq(x, e + 1, d) = SubSeq(x, 1, d)
    BY <2>1, ConcatAdjacentSubSeq DEF Data
  <2> QED
    BY <1>2, <1>4, <2>2
<1>6. Len(SubSeq(x, 1, d)) = d
  BY <1>4 DEF Data
<1>7. /\ c \in [0 .. (h - 1) - 1 -> 0 .. Len(x)] /\ c[0] = d /\ c[(h - 1) - 1] = Len(x)
      /\ \A i, j \in 0 .. (h - 1) - 1 : i <= j => c[i] <= c[j]
  BY <1>1, <1>2 DEF Cuts
<1>8. ASSUME NEW i \in 1 .. (h - 1) - 1
      PROVE  PieceIs(w[i], x, c[i - 1], c[i])
  <2>1. c[i] = cut[i + 1] /\ c[i - 1] = cut[i] /\ w[i] = u[i + 1] /\ i + 1 \in 1 .. h - 1
    BY <1>3
  <2>2. PieceIs(u[i + 1], x, cut[(i + 1) - 1], cut[i + 1]) /\ (i + 1) - 1 = i
    BY <1>1, <2>1 DEF Cuts
  <2> QED
    BY <2>1, <2>2
<1> DEFINE s2 == section \o o
<1>9. s2 = SubSeq(x, 1, Len(s2)) /\ Len(s2) = d
  BY <1>5, <1>6
<1> HIDE DEF c, d, s2, w
<1>10. Cuts(c, s2, w, h - 1, x)
  BY <1>7, <1>8, <1>9 DEF Cuts
<1> QED
  BY <1>10 DEF Spells, s2, w

\* another message leaves it as it is,
LEMMA OtherSpells ==
    ASSUME NEW section \in Data, NEW u \in Seq(Up), NEW h \in 2 .. Len(u), NEW x \in Data,
           Spells(section, u, h, x), Head(u).type # "F_SG"
    PROVE  Spells(section, Tail(u), h - 1, x)
<1>1. PICK cut : Cuts(cut, section, u, h, x)
  BY DEF Spells
<1> DEFINE c == [j \in 0 .. (h - 1) - 1 |-> cut[j + 1]]
           w == Tail(u)
<1>2. /\ cut \in [0 .. h - 1 -> 0 .. Len(x)]
      /\ cut[0] = Len(section) /\ section = SubSeq(x, 1, Len(section)) /\ cut[h - 1] = Len(x)
  BY <1>1 DEF Cuts
<1>3. /\ Head(u) = u[1] /\ Len(w) = Len(u) - 1 /\ \A i \in 1 .. Len(u) - 1 : w[i] = u[i + 1]
  BY HeadTailProperties
<1>4. cut[1] = cut[0]
  <2>1. PieceIs(u[1], x, cut[1 - 1], cut[1])
    BY <1>1 DEF Cuts
  <2> QED
    BY <1>3, <2>1 DEF PieceIs
<1>5. /\ c \in [0 .. (h - 1) - 1 -> 0 .. Len(x)] /\ c[0] = Len(section) /\ c[(h - 1) - 1] = Len(x)
      /\ \A i, j \in 0 .. (h - 1) - 1 : i <= j => c[i] <= c[j]
  BY <1>1, <1>2, <1>4 DEF Cuts
<1>6. ASSUME NEW i \in 1 .. (h - 1) - 1
      PROVE  PieceIs(w[i], x, c[i - 1], c[i])
  <2>1. c[i] = cut[i + 1] /\ c[i - 1] = cut[i] /\ w[i] = u[i + 1] /\ i + 1 \in 1 .. h - 1
    BY <1>3, SMTT(30)
  <2>2. PieceIs(u[i + 1], x, cut[(i + 1) - 1], cut[i + 1]) /\ (i + 1) - 1 = i
    BY <1>1, <2>1 DEF Cuts
  <2> QED
    BY <2>1, <2>2
<1> HIDE DEF c, w
<1>7. Cuts(c, section, w, h - 1, x)
  BY <1>2, <1>5, <1>6 DEF Cuts
<1> QED
  BY <1>7 DEF Spells, w

\* and so does what comes after h.
LEMMA FrontSpells ==
    ASSUME NEW section, NEW u, NEW w, NEW h \in Nat, NEW x, Spells(section, u, h, x),
           \A i \in 1 .. h - 1 : w[i] = u[i]
    PROVE  Spells(section, w, h, x)
BY DEF Spells, Cuts
\* A section that is sent is spelled by its segments.
LEMMA ChunksSpell ==
    ASSUME NEW u \in Seq(Up), NoSection(u), NEW s \in Data, NEW w, NEW K,
           K = CeilDiv(Len(s), MaxSegment), \A i \in 1 .. Len(u) : w[i] = u[i],
           \A i \in 1 .. K : /\ w[Len(u) + i].type = "F_SG"
                             /\ w[Len(u) + i].octets = Chunks(s, MaxSegment)[i]
    PROVE  Spells(<<>>, w, Len(u) + K + 1, s)
<1> DEFINE n == Len(u)
           len == Len(s)
           B(i) == Bound(i, MaxSegment, len)
           cut == [j \in 0 .. n + K |-> IF j <= n THEN 0 ELSE B(j - n)]
<1>1. n \in Nat /\ len \in Nat /\ MaxSegment \in Nat \ {0} /\ K \in Nat
  <2>1. n \in Nat /\ len \in Nat
    BY DEF Data
  <2>2. MaxSegment \in Nat \ {0}
    BY FileTransferAssumption
  <2> HIDE DEF len, n
  <2>3. CeilDiv(len, MaxSegment) \in Nat
    BY <2>1, <2>2, CeilDivIs
  <2> QED
    BY <2>1, <2>2, <2>3 DEF len
<1>2. B(0) = 0 /\ B(K) = len
  BY <1>1, BoundEnds
<1>3. ASSUME NEW i \in 1 .. K
      PROVE  /\ B(i) \in 0 .. len /\ B(i - 1) \in 0 .. len /\ B(i) - B(i - 1) <= MaxSegment
             /\ Chunks(s, MaxSegment)[i] = SubSeq(s, B(i - 1) + 1, B(i))
  <2>1. i \in 1 .. CeilDiv(len, MaxSegment)
    OBVIOUS
  <2>2. /\ Bound(i - 1, MaxSegment, len) = (i - 1) * MaxSegment
        /\ B(i) \in Nat /\ B(i) <= len /\ B(i - 1) < B(i) /\ B(i) - B(i - 1) <= MaxSegment
    BY <1>1, <2>1, BoundIs
  <2>3. Chunks(s, MaxSegment)[i] = SubSeq(s, B(i - 1) + 1, B(i))
    BY <1>1, <2>1, ChunksAre
  <2>4. (i - 1) * MaxSegment \in Nat
    BY <1>1
  <2>5. B(i - 1) \in Nat
    BY <2>2, <2>4
  <2> HIDE DEF len, B
  <2> QED
    BY <1>1, <2>2, <2>3, <2>5
<1>4. ASSUME NEW i \in 0 .. K, NEW j \in 0 .. K, i <= j
      PROVE  B(i) <= B(j)
  <2> DEFINE p == i * MaxSegment
             q == j * MaxSegment
  <2>1. p <= q /\ p \in Int /\ q \in Int
    BY <1>1, <1>4, Products
  <2>2. B(i) = (IF p > len THEN len ELSE p) /\ B(j) = (IF q > len THEN len ELSE q)
    BY DEF Bound
  <2> HIDE DEF p, q, B, len
  <2> QED
    BY <1>1, <2>1, <2>2
<1>5. \A i \in 0 .. K : B(i) \in 0 .. len
  BY <1>1, <1>2, <1>3
<1> HIDE DEF B, n, len
<1>6. /\ cut \in [0 .. n + K -> 0 .. len] /\ cut[0] = 0 /\ cut[n + K] = len
      /\ \A i, j \in 0 .. n + K : i <= j => cut[i] <= cut[j]
  <2>1. cut \in [0 .. n + K -> 0 .. len]
    BY <1>1, <1>5
  <2>2. cut[0] = 0 /\ cut[n + K] = len
    BY <1>1, <1>2
  <2>3. ASSUME NEW i \in 0 .. n + K, NEW j \in 0 .. n + K, i <= j
        PROVE  cut[i] <= cut[j]
    <3>1. CASE i <= n
      BY <1>1, <2>1, <3>1
    <3>2. CASE i > n
      <4>1. i - n \in 0 .. K /\ j - n \in 0 .. K /\ i - n <= j - n /\ ~(i <= n) /\ ~(j <= n)
        BY <1>1, <2>3, <3>2
      <4>2. B(i - n) <= B(j - n)
        BY <1>4, <4>1
      <4>3. cut[i] = B(i - n) /\ cut[j] = B(j - n)
        BY <4>1
      <4> QED
        BY <4>2, <4>3
    <3> QED
      BY <1>1, <3>1, <3>2
  <2> QED
    BY <2>1, <2>2, <2>3
<1>7. ASSUME NEW i \in 1 .. n + K
      PROVE  PieceIs(w[i], s, cut[i - 1], cut[i])
  <2>1. CASE i <= n
    <3>1. w[i].type # "F_SG"
      BY <1>1, <2>1 DEF NoSection, Section, n
    <3>2. cut[i - 1] = cut[i]
      BY <1>1, <2>1
    <3> QED
      BY <3>1, <3>2 DEF PieceIs
  <2>2. CASE i > n
    <3> DEFINE k == i - n
    <3>1. k \in 1 .. K /\ i = n + k
      BY <1>1, <2>2
    <3>2. cut[i] = B(k) /\ cut[i - 1] = B(k - 1)
      BY <1>1, <1>2, <2>2, SMTT(30)
    <3>3. w[i].type = "F_SG" /\ w[i].octets = Chunks(s, MaxSegment)[k]
      BY <3>1 DEF n
    <3> HIDE DEF cut, k
    <3> QED
      BY <1>3, <3>1, <3>2, <3>3 DEF PieceIs
  <2> QED
    BY <1>1, <2>1, <2>2
<1>8. <<>> = SubSeq(s, 1, 0)
  OBVIOUS
<1> DEFINE h == n + K + 1
<1>9. h - 1 = n + K
  BY <1>1
<1> HIDE DEF cut, h
<1>10. Cuts(cut, <<>>, w, h, s)
  BY <1>6, <1>7, <1>8, <1>9 DEF Cuts, len
<1> QED
  BY <1>10 DEF Spells, h, n

-----------------------------------------------------------------------------
(***************************************************************************)
(* What leaves a phase as it is.                                           *)
(***************************************************************************)

\* What is under way to the master, one message later.
LEMMA Shorter ==
    ASSUME NEW u \in Seq(Up), u # <<>>
    PROVE  /\ Head(u) = u[1] /\ Head(u) \in Up /\ Tail(u) \in Seq(Up)
           /\ Len(u) \in Nat \ {0} /\ Len(Tail(u)) = Len(u) - 1
           /\ \A i \in 1 .. Len(u) - 1 : Tail(u)[i] = u[i + 1] /\ i + 1 \in 1 .. Len(u)
           /\ NoSection(u) => NoSection(Tail(u))
           /\ \A h \in 2 .. Len(u) : Tail(u)[h - 1] = u[h] /\ h - 1 \in 1 .. Len(Tail(u))
           /\ \A h \in 2 .. Len(u) : OneSection(u, h) => OneSection(Tail(u), h - 1)
           /\ OneSection(u, 1) => NoSection(Tail(u))
<1> DEFINE w == Tail(u)
<1>1. /\ Head(u) = u[1] /\ Head(u) \in Up /\ w \in Seq(Up)
      /\ Len(w) = Len(u) - 1 /\ \A i \in 1 .. Len(u) - 1 : w[i] = u[i + 1]
  BY HeadTailProperties
<1>2. Len(u) \in Nat \ {0}
  BY EmptySeq
<1> HIDE DEF w
<1>3. \A i \in 1 .. Len(u) - 1 : w[i] = u[i + 1] /\ i + 1 \in 1 .. Len(u)
  BY <1>1, <1>2
<1>4. NoSection(u) => NoSection(w)
  BY <1>1, <1>2, <1>3 DEF NoSection
<1>5. \A h \in 2 .. Len(u) : w[h - 1] = u[h] /\ h - 1 \in 1 .. Len(w)
  BY <1>1, <1>2
<1>6. \A h \in 2 .. Len(u) : OneSection(u, h) => OneSection(w, h - 1)
  BY <1>1, <1>2, <1>3 DEF OneSection
<1>7. OneSection(u, 1) => NoSection(w)
  BY <1>1, <1>2, <1>3 DEF OneSection, NoSection
<1> QED
  BY <1>1, <1>2, <1>3, <1>4, <1>5, <1>6, <1>7 DEF w

\* What is under way to the master, and something else behind it.
LEMMA Longer ==
    ASSUME NEW u \in Seq(Up), NEW o \in Seq(Up)
    PROVE  /\ u \o o \in Seq(Up) /\ Len(u \o o) = Len(u) + Len(o)
           /\ Len(u) \in Nat /\ Len(o) \in Nat
           /\ \A i \in 1 .. Len(u) : (u \o o)[i] = u[i] /\ i \in 1 .. Len(u \o o)
           /\ \A i \in 1 .. Len(o) : (u \o o)[Len(u) + i] = o[i]
           /\ \A i \in 1 .. Len(u \o o) :
                i \in 1 .. Len(u) \/ (i - Len(u) \in 1 .. Len(o) /\ (u \o o)[i] = o[i - Len(u)])
           /\ NoSection(u) /\ NoSection(o) => NoSection(u \o o)
           /\ \A h \in 1 .. Len(u) : OneSection(u, h) /\ NoSection(o) => OneSection(u \o o, h)
           /\ NoSection(u) /\ Len(o) = 1 => OneSection(u \o o, Len(u) + 1)
<1> DEFINE w == u \o o
<1>1. /\ w \in Seq(Up) /\ Len(w) = Len(u) + Len(o) /\ Len(u) \in Nat /\ Len(o) \in Nat
      /\ \A i \in 1 .. Len(u) + Len(o) : w[i] = IF i <= Len(u) THEN u[i] ELSE o[i - Len(u)]
  BY ConcatProperties
<1> HIDE DEF w
<1>2. \A i \in 1 .. Len(u) : w[i] = u[i] /\ i \in 1 .. Len(w)
  BY <1>1
<1>3. \A i \in 1 .. Len(o) : w[Len(u) + i] = o[i]
  <2>1. ASSUME NEW i \in 1 .. Len(o)
        PROVE  w[Len(u) + i] = o[i]
    <3>1. Len(u) + i \in 1 .. Len(u) + Len(o) /\ ~(Len(u) + i <= Len(u))
          /\ (Len(u) + i) - Len(u) = i
      BY <1>1
    <3> QED
      BY <1>1, <3>1
  <2> QED
    BY <2>1
<1>4. \A i \in 1 .. Len(w) :
         i \in 1 .. Len(u) \/ (i - Len(u) \in 1 .. Len(o) /\ w[i] = o[i - Len(u)])
  BY <1>1
<1>5. NoSection(u) /\ NoSection(o) => NoSection(w)
  BY <1>2, <1>4 DEF NoSection
<1>6. \A h \in 1 .. Len(u) : OneSection(u, h) /\ NoSection(o) => OneSection(w, h)
  BY <1>2, <1>4 DEF NoSection, OneSection
<1>7. NoSection(u) /\ Len(o) = 1 => OneSection(w, Len(u) + 1)
  BY <1>1, <1>2, <1>4 DEF NoSection, OneSection
<1> QED
  BY <1>1, <1>2, <1>3, <1>4, <1>5, <1>6, <1>7 DEF w

\* The master takes a message that is of no section;
LEMMA PassedIsSent ==
    ASSUME NEW t \in Transfers, NEW dn, NEW u \in Seq(Up), u # <<>>, NEW v, NEW k \in Nat,
           NEW fresh, Sent(t, dn, u, v, k, fresh), ~Section(Head(u))
    PROVE  Sent(t, dn, Tail(u), v, k, fresh)
<1> DEFINE w == Tail(u)
           n == t.name
<1>1. PICK h \in 1 .. Len(u) :
         /\ \A i \in 1 .. Len(u) :
              /\ i < h /\ Section(u[i]) => /\ u[i].type = "F_SG" /\ u[i].name = n
                                           /\ u[i].nos = k + 1
              /\ i > h => ~Section(u[i])
         /\ u[h].type = "F_LS" /\ u[h].name = n /\ ~u[h].eof
         /\ u[h].chs = FileChecksum(Sections(n)[k + 1])
         /\ \E x \in Data : Spells(t.section, u, h, x) /\ Told(x, Sections(n)[k + 1], fresh)
  BY DEF Sent
<1>2. PICK x \in Data : Spells(t.section, u, h, x) /\ Told(x, Sections(n)[k + 1], fresh)
  BY <1>1
<1>3. /\ Head(u) = u[1] /\ Len(u) \in Nat \ {0} /\ Len(w) = Len(u) - 1
      /\ \A i \in 1 .. Len(u) - 1 : w[i] = u[i + 1] /\ i + 1 \in 1 .. Len(u)
  BY Shorter
<1>4. h \in 2 .. Len(u) /\ Head(u).type # "F_SG"
  BY <1>1, <1>3 DEF Section
<1>5. t.section \in Data
  BY DEF Transfers
<1>6. Spells(t.section, w, h - 1, x)
  BY <1>2, <1>4, <1>5, OtherSpells
<1>7. h - 1 \in 1 .. Len(w) /\ w[h - 1] = u[h]
  BY <1>3, <1>4
<1> HIDE DEF w, n
<1>8. \A i \in 1 .. Len(w) :
         /\ i < h - 1 /\ Section(w[i]) => /\ w[i].type = "F_SG" /\ w[i].name = n
                                          /\ w[i].nos = k + 1
         /\ i > h - 1 => ~Section(w[i])
  <2> SUFFICES ASSUME NEW i \in 1 .. Len(w)
               PROVE  /\ i < h - 1 /\ Section(w[i]) => /\ w[i].type = "F_SG" /\ w[i].name = n
                                                        /\ w[i].nos = k + 1
                      /\ i > h - 1 => ~Section(w[i])
    OBVIOUS
  <2>1. w[i] = u[i + 1] /\ i + 1 \in 1 .. Len(u)
    BY <1>3
  <2>2. (i < h - 1 => i + 1 < h) /\ (i > h - 1 => i + 1 > h)
    BY <1>4
  <2> QED
    BY <1>1, <2>1, <2>2
<1>9. Sent(t, dn, w, v, k, fresh)
  BY <1>1, <1>2, <1>6, <1>7, <1>8 DEF Sent, n
<1> QED
  BY <1>9 DEF w

\* this changes nothing else.
LEMMA Passed ==
    ASSUME NEW t \in {None} \cup Transfers, NEW dn, NEW u \in Seq(Up), u # <<>>, NEW v, NEW L,
           NEW fresh, InPhase(t, dn, u, v, L, fresh),
           ~Section(Head(u)) \/ Stalled(dn, u)
    PROVE  InPhase(t, dn, Tail(u), v, L, fresh)
<1> DEFINE w == Tail(u)
<1>1. /\ Head(u) = u[1] /\ Len(u) \in Nat \ {0} /\ Len(w) = Len(u) - 1
      /\ \A i \in 1 .. Len(u) - 1 : w[i] = u[i + 1] /\ i + 1 \in 1 .. Len(u)
      /\ NoSection(u) => NoSection(w)
      /\ \A h \in 2 .. Len(u) : w[h - 1] = u[h] /\ h - 1 \in 1 .. Len(w)
      /\ \A h \in 2 .. Len(u) : OneSection(u, h) => OneSection(w, h - 1)
  BY Shorter
<1>2. ASSUME Stalled(dn, u) PROVE Stalled(dn, w)
  <2> HIDE DEF w
  <2> QED
    BY <1>1, <1>2 DEF Stalled
<1>3. CASE Opening(t, dn, u, L)
  BY <1>1, <1>3 DEF Opening, InPhase
<1>4. CASE Fetching(t, dn, u, v, L, fresh) /\ Stalled(dn, u)
  BY <1>2, <1>4 DEF Fetching, InPhase
<1>5. CASE ~Opening(t, dn, u, L) /\ ~Stalled(dn, u)
  <2>1. /\ t # None /\ t \in Transfers /\ t.name \in L /\ t.called
        /\ \E k \in 0 .. Len(Sections(t.name)) :
            /\ Trusted => t.file = Start(t.name, k)
            /\ \/ Announced(t, dn, u, v, k) \/ Asked(t, dn, u, v, k)
               \/ Sent(t, dn, u, v, k, fresh)
               \/ Acknowledged(t, dn, u, v, k) \/ Rejected(t, dn, u, v, k)
               \/ Complete(t, dn, u, v, k)
    BY <1>5 DEF InPhase, Fetching
  <2>2. PICK k \in 0 .. Len(Sections(t.name)) :
            /\ Trusted => t.file = Start(t.name, k)
            /\ \/ Announced(t, dn, u, v, k) \/ Asked(t, dn, u, v, k)
               \/ Sent(t, dn, u, v, k, fresh)
               \/ Acknowledged(t, dn, u, v, k) \/ Rejected(t, dn, u, v, k)
               \/ Complete(t, dn, u, v, k)
    BY <2>1
  <2>3. ~Section(u[1])
    BY <1>1, <1>5
  <2>4. k \in Nat
    BY <2>2
  <2>5. Announced(t, dn, u, v, k) => Announced(t, dn, w, v, k)
    <3> SUFFICES ASSUME Announced(t, dn, u, v, k) PROVE Announced(t, dn, w, v, k)
      OBVIOUS
    <3>1. PICK h \in 1 .. Len(u) : /\ OneSection(u, h) /\ u[h].type = "F_SR"
                                   /\ u[h].name = t.name /\ u[h].nos = k + 1
      BY DEF Announced
    <3>2. h \in 2 .. Len(u)
      BY <1>1, <2>3, <3>1 DEF Section
    <3> HIDE DEF w
    <3>3. OneSection(w, h - 1) /\ w[h - 1] = u[h] /\ h - 1 \in 1 .. Len(w)
      BY <1>1, <3>1, <3>2
    <3> QED
      BY <3>1, <3>3 DEF Announced
  <2>6. Complete(t, dn, u, v, k) => Complete(t, dn, w, v, k)
    <3> SUFFICES ASSUME Complete(t, dn, u, v, k) PROVE Complete(t, dn, w, v, k)
      OBVIOUS
    <3>1. PICK h \in 1 .. Len(u) : /\ OneSection(u, h) /\ u[h].type = "F_LS"
                                   /\ u[h].name = t.name /\ u[h].eof
      BY DEF Complete
    <3>2. h \in 2 .. Len(u)
      BY <1>1, <2>3, <3>1 DEF Section
    <3> HIDE DEF w
    <3>3. OneSection(w, h - 1) /\ w[h - 1] = u[h] /\ h - 1 \in 1 .. Len(w)
      BY <1>1, <3>1, <3>2
    <3> QED
      BY <3>1, <3>3 DEF Complete
  <2>7. Sent(t, dn, u, v, k, fresh) => Sent(t, dn, w, v, k, fresh)
    BY <1>5, <2>1, <2>4, PassedIsSent
  <2>8. /\ Asked(t, dn, u, v, k) => Asked(t, dn, w, v, k)
        /\ Acknowledged(t, dn, u, v, k) => Acknowledged(t, dn, w, v, k)
        /\ Rejected(t, dn, u, v, k) => Rejected(t, dn, w, v, k)
    <3> HIDE DEF w
    <3> QED
      BY <1>1 DEF Asked, Acknowledged, Rejected
  <2> HIDE DEF w
  <2>9. Fetching(t, dn, w, v, L, fresh)
    BY <2>1, <2>2, <2>5, <2>6, <2>7, <2>8 DEF Fetching
  <2> QED
    BY <2>9 DEF InPhase, w
<1> QED
  BY <1>3, <1>4, <1>5 DEF InPhase

\* So do messages of no section behind the others,
LEMMA AppendedIsSent ==
    ASSUME NEW t, NEW dn, NEW u \in Seq(Up), NEW o \in Seq(Up), NoSection(o), NEW v,
           NEW k \in Nat, NEW fresh, Sent(t, dn, u, v, k, fresh)
    PROVE  Sent(t, dn, u \o o, v, k, fresh)
<1> DEFINE w == u \o o
           n == t.name
           Good(a) == a.type = "F_SG" /\ a.name = n /\ a.nos = k + 1
<1>1. PICK h \in 1 .. Len(u) :
         /\ \A i \in 1 .. Len(u) : /\ i < h /\ Section(u[i]) => Good(u[i])
                                   /\ i > h => ~Section(u[i])
         /\ u[h].type = "F_LS" /\ u[h].name = n /\ ~u[h].eof
         /\ u[h].chs = FileChecksum(Sections(n)[k + 1])
         /\ \E x \in Data : Spells(t.section, u, h, x) /\ Told(x, Sections(n)[k + 1], fresh)
  BY DEF Sent
<1>2. PICK x \in Data : Spells(t.section, u, h, x) /\ Told(x, Sections(n)[k + 1], fresh)
  BY <1>1
<1>3. /\ Len(u) \in Nat /\ \A i \in 1 .. Len(u) : w[i] = u[i] /\ i \in 1 .. Len(w)
      /\ \A i \in 1 .. Len(w) :
           i \in 1 .. Len(u) \/ (i - Len(u) \in 1 .. Len(o) /\ w[i] = o[i - Len(u)])
  BY Longer
<1> HIDE DEF w, n, Good
<1>4. h \in Nat /\ \A i \in 1 .. h - 1 : w[i] = u[i]
  BY <1>3
<1>5. Spells(t.section, w, h, x)
  BY <1>2, <1>4, FrontSpells
<1>6. ASSUME NEW i \in 1 .. Len(w)
      PROVE  /\ i < h /\ Section(w[i]) => Good(w[i])
             /\ i > h => ~Section(w[i])
  BY <1>1, <1>3 DEF NoSection
<1>7. Sent(t, dn, w, v, k, fresh)
  BY <1>1, <1>2, <1>3, <1>5, <1>6 DEF Sent, n, Good
<1> QED
  BY <1>7 DEF w

\* whatever the phase.
LEMMA Appended ==
    ASSUME NEW t, NEW dn, NEW u \in Seq(Up), NEW o \in Seq(Up), NoSection(o), NEW v, NEW L,
           NEW fresh, InPhase(t, dn, u, v, L, fresh)
    PROVE  InPhase(t, dn, u \o o, v, L, fresh)
<1> DEFINE w == u \o o
<1>1. /\ Len(u) \in Nat /\ \A i \in 1 .. Len(u) : w[i] = u[i] /\ i \in 1 .. Len(w)
      /\ \A i \in 1 .. Len(w) :
           i \in 1 .. Len(u) \/ (i - Len(u) \in 1 .. Len(o) /\ w[i] = o[i - Len(u)])
      /\ NoSection(u) => NoSection(w)
      /\ \A h \in 1 .. Len(u) : OneSection(u, h) => OneSection(w, h)
  BY Longer
<1>2. \A k \in Nat : Sent(t, dn, u, v, k, fresh) => Sent(t, dn, w, v, k, fresh)
  BY AppendedIsSent
<1> HIDE DEF w
<1>3. CASE Opening(t, dn, u, L)
  BY <1>1, <1>3 DEF Opening, InPhase, w
<1>4. ASSUME Stalled(dn, u) PROVE Stalled(dn, w)
  BY <1>1, <1>4 DEF Stalled, NoSection, Section
<1>5. ASSUME NEW k \in Nat
      PROVE  /\ Announced(t, dn, u, v, k) => Announced(t, dn, w, v, k)
             /\ Complete(t, dn, u, v, k) => Complete(t, dn, w, v, k)
             /\ Asked(t, dn, u, v, k) => Asked(t, dn, w, v, k)
             /\ Acknowledged(t, dn, u, v, k) => Acknowledged(t, dn, w, v, k)
             /\ Rejected(t, dn, u, v, k) => Rejected(t, dn, w, v, k)
  <2>1. Announced(t, dn, u, v, k) => Announced(t, dn, w, v, k)
    BY <1>1 DEF Announced
  <2>2. Complete(t, dn, u, v, k) => Complete(t, dn, w, v, k)
    BY <1>1 DEF Complete
  <2> QED
    BY <1>1, <2>1, <2>2 DEF Asked, Acknowledged, Rejected
<1>6. ASSUME Fetching(t, dn, u, v, L, fresh) PROVE Fetching(t, dn, w, v, L, fresh)
  <2>1. CASE Stalled(dn, u)
    BY <1>4, <1>6, <2>1 DEF Fetching
  <2>2. CASE ~Stalled(dn, u)
    <3>1. PICK k \in 0 .. Len(Sections(t.name)) :
            /\ Trusted => t.file = Start(t.name, k)
            /\ \/ Announced(t, dn, u, v, k) \/ Asked(t, dn, u, v, k)
               \/ Sent(t, dn, u, v, k, fresh)
               \/ Acknowledged(t, dn, u, v, k) \/ Rejected(t, dn, u, v, k)
               \/ Complete(t, dn, u, v, k)
      BY <1>6, <2>2 DEF Fetching
    <3>2. k \in Nat
      BY <3>1
    <3> QED
      BY <1>2, <1>5, <1>6, <3>1, <3>2 DEF Fetching
  <2> QED
    BY <2>1, <2>2
<1> QED
  BY <1>3, <1>6 DEF InPhase, w

\* The station may give up, and something may have gone wrong.
LEMMA Weaker ==
    ASSUME NEW t, NEW dn, NEW u, NEW v, NEW w, w = None \/ w = v, NEW L, NEW fresh, NEW calm,
           calm => fresh, InPhase(t, dn, u, v, L, fresh)
    PROVE  InPhase(t, dn, u, w, L, calm)
<1>1. ASSUME NEW k
      PROVE  /\ Announced(t, dn, u, v, k) => Announced(t, dn, u, w, k)
             /\ Complete(t, dn, u, v, k) => Complete(t, dn, u, w, k)
             /\ Asked(t, dn, u, v, k) => Asked(t, dn, u, w, k)
             /\ Acknowledged(t, dn, u, v, k) => Acknowledged(t, dn, u, w, k)
             /\ Rejected(t, dn, u, v, k) => Rejected(t, dn, u, w, k)
  BY DEF Announced, Complete, Asked, Acknowledged, Rejected, At
<1>2. ASSUME NEW k, Sent(t, dn, u, v, k, fresh)
      PROVE  Sent(t, dn, u, w, k, calm)
  <2> DEFINE Told1(x) == Told(x, Sections(t.name)[k + 1], fresh)
             Told2(x) == Told(x, Sections(t.name)[k + 1], calm)
  <2>1. \A x : Told1(x) => Told2(x)
    BY DEF Told
  <2>2. At(v, t.name, k) => At(w, t.name, k)
    BY DEF At
  <2> HIDE DEF Told1, Told2
  <2>3. Sent(t, dn, u, v, k, fresh)
    BY <1>2
  <2>4. PICK h \in 1 .. Len(u) :
         /\ \A i \in 1 .. Len(u) :
              /\ i < h /\ Section(u[i]) => /\ u[i].type = "F_SG" /\ u[i].name = t.name
                                           /\ u[i].nos = k + 1
              /\ i > h => ~Section(u[i])
         /\ u[h].type = "F_LS" /\ u[h].name = t.name /\ ~u[h].eof
         /\ u[h].chs = FileChecksum(Sections(t.name)[k + 1])
         /\ \E x \in Data : Spells(t.section, u, h, x) /\ Told1(x)
    BY <2>3 DEF Sent, Told1
  <2>5. \E x \in Data : Spells(t.section, u, h, x) /\ Told2(x)
    BY <2>1, <2>4
  <2> QED
    BY <2>2, <2>3, <2>4, <2>5 DEF Sent, Told2
<1>3. ASSUME Fetching(t, dn, u, v, L, fresh) PROVE Fetching(t, dn, u, w, L, calm)
  <2>1. CASE Stalled(dn, u)
    BY <1>3, <2>1 DEF Fetching
  <2>2. CASE ~Stalled(dn, u)
    <3>1. PICK k \in 0 .. Len(Sections(t.name)) :
            /\ Trusted => t.file = Start(t.name, k)
            /\ \/ Announced(t, dn, u, v, k) \/ Asked(t, dn, u, v, k)
               \/ Sent(t, dn, u, v, k, fresh)
               \/ Acknowledged(t, dn, u, v, k) \/ Rejected(t, dn, u, v, k)
               \/ Complete(t, dn, u, v, k)
      BY <1>3, <2>2 DEF Fetching
    <3> QED
      BY <1>1, <1>2, <1>3, <3>1 DEF Fetching
  <2> QED
    BY <2>1, <2>2
<1> QED
  BY <1>3 DEF InPhase

\* The connection may break.
LEMMA Broken ==
    ASSUME NEW t, NEW dn, NEW u, NEW v, NEW L, NEW fresh, InPhase(t, dn, u, v, L, fresh)
    PROVE  InPhase(t, <<>>, <<>>, v, L, FALSE)
<1>1. Len(<<>>) = 0 /\ \A i \in 1 .. 0 : FALSE
  OBVIOUS
<1>2. Stalled(<<>>, <<>>)
  BY DEF Stalled
<1>3. NoSection(<<>>)
  BY DEF NoSection
<1>4. Opening(t, dn, u, L) => Opening(t, <<>>, <<>>, L)
  BY <1>3 DEF Opening
<1>5. Fetching(t, dn, u, v, L, fresh) => Fetching(t, <<>>, <<>>, v, L, FALSE)
  BY <1>2 DEF Fetching
<1> QED
  BY <1>4, <1>5 DEF InPhase

-----------------------------------------------------------------------------
(***************************************************************************)
(* What the master takes.                                                  *)
(***************************************************************************)

\* A reply of the master keeps the phases, whether it is sent or not, and the file it
\* hands over is the station's.
Taken(r, dn, w, v, L, fresh) ==
    /\ InPhase(r.fetching, dn \o r.out, w, v, L, fresh)
    /\ r.out # <<>> => InPhase(None, dn, w, v, L, FALSE)
    /\ r.fetching \in {None} \cup Transfers /\ r.out \in Seq(Down)
    /\ r.file = None \/ /\ r.file \in [name : Name, data : Data]
                        /\ Trusted => r.file.data = Content[r.file.name]

\* A transfer is not the absence of one.
LEMMA NoneIsNone ==
    /\ None \notin Transfers
    /\ \A n \in Name : /\ NewTransfer(n) \in Transfers /\ Called(n) \in Transfers
                       /\ NewTransfer(n).name = n /\ ~NewTransfer(n).called
                       /\ Called(n).name = n /\ Called(n).called
                       /\ Called(n).file = <<>> /\ Called(n).section = <<>>
                       /\ \A x \in Name : NewTransfer(n) # Called(x)
<1>1. None \notin Transfers
  BY FileTransferAssumption DEF Transfers, Data
<1>2. ASSUME NEW n \in Name
      PROVE  /\ NewTransfer(n) \in Transfers /\ Called(n) \in Transfers
             /\ NewTransfer(n).name = n /\ ~NewTransfer(n).called
             /\ Called(n).name = n /\ Called(n).called
             /\ Called(n).file = <<>> /\ Called(n).section = <<>>
  <2>1. <<>> \in Data
    BY DEF Data
  <2> QED
    BY <2>1 DEF NewTransfer, Called, Transfers
<1>3. \A n, x \in Name : NewTransfer(n) # Called(x)
  BY <1>2
<1> QED
  BY <1>1, <1>2, <1>3

\* Messages are of their types.
LEMMA Kinds ==
    /\ \A a \in Up : /\ a.type \in {"F_FR", "F_SR", "F_SG", "F_LS", "F_DR", "F_SC_NEG", "F_AF"}
                     /\ a.type # "F_DR" => a.name \in Name
                     /\ a.type = "F_SR" => a.nos \in Nat
                     /\ a.type = "F_SG" => a \in SG /\ a.nos \in Nat /\ a.octets \in Data
                     /\ a.type = "F_LS" => a.nos \in Nat /\ a.eof \in BOOLEAN
    /\ \A n \in Name, i \in Nat :
         /\ \A x \in {"SELECT_FILE", "REQUEST_FILE", "REQUEST_SECTION", "DEACTIVATE_FILE",
                      "DELETE_FILE", "DEFAULT"} : CallOrSelect(x, n, i) \in Down
         /\ \A x \in {"POS_ACK_SECTION", "NEG_ACK_SECTION", "POS_ACK_FILE", "NEG_ACK_FILE"} :
              Ack(x, n, i) \in Down \cap Up
<1>1. \A a \in Up : /\ a.type \in {"F_FR", "F_SR", "F_SG", "F_LS", "F_DR", "F_SC_NEG", "F_AF"}
                    /\ a.type # "F_DR" => a.name \in Name
                    /\ a.type = "F_SR" => a.nos \in Nat
                    /\ a.type = "F_SG" => a \in SG /\ a.nos \in Nat /\ a.octets \in Data
                    /\ a.type = "F_LS" => a.nos \in Nat /\ a.eof \in BOOLEAN
  BY DEF Up, FR, SR, SG, LS, DR, NEG, AF
<1>2. \A n \in Name, i \in Nat :
         /\ \A x \in {"SELECT_FILE", "REQUEST_FILE", "REQUEST_SECTION", "DEACTIVATE_FILE",
                      "DELETE_FILE", "DEFAULT"} : CallOrSelect(x, n, i) \in Down
         /\ \A x \in {"POS_ACK_SECTION", "NEG_ACK_SECTION", "POS_ACK_FILE", "NEG_ACK_FILE"} :
              Ack(x, n, i) \in Down \cap Up
  BY DEF Up, Down, SC, AF, CallOrSelect, Ack
<1> QED
  BY <1>1, <1>2

\* The select, of any file.
LEMMA SelectIs ==
    ASSUME NEW n \in Name
    PROVE  LET a == CallOrSelect("SELECT_FILE", n, 0)
           IN  a \in Down /\ ~Moves(a) /\ a.action # "REQUEST_FILE"
<1> DEFINE a == CallOrSelect("SELECT_FILE", n, 0)
<1>1. a.action = "SELECT_FILE"
  BY DEF CallOrSelect
<1>2. a \in Down
  BY Kinds
<1> HIDE DEF a
<1>3. ~Moves(a) /\ a.action # "REQUEST_FILE"
  BY <1>1 DEF Moves
<1> QED
  BY <1>2, <1>3 DEF a

\* A message that changes nothing.
LEMMA NothingTaken ==
    ASSUME NEW t \in {None} \cup Transfers, NEW dn \in Seq(Down), NEW w, NEW v, NEW L, NEW fresh,
           InPhase(t, dn, w, v, L, fresh)
    PROVE  Taken(Got(t, <<>>), dn, w, v, L, fresh)
<1> DEFINE r == Got(t, <<>>)
<1>1. r.fetching = t /\ r.out = <<>> /\ r.file = None
  BY DEF Got
<1>2. dn \o <<>> = dn /\ <<>> \in Seq(Down)
  BY ConcatEmptySeq
<1> HIDE DEF r
<1>3. Taken(r, dn, w, v, L, fresh)
  BY <1>1, <1>2 DEF Taken
<1> QED
  BY <1>3 DEF r

\* Before the sections, one more message of a master that does not wait for a file.
LEMMA Calls ==
    ASSUME NEW t, NEW dn \in Seq(Down), NEW u, NEW L, Opening(t, dn, u, L),
           \A n \in Name : t # Called(n), NEW w, NoSection(w),
           NEW z, z = None \/ \E n \in Name : z = NewTransfer(n) \/ z = Called(n), NEW a \in Down,
           ~Moves(a), a.action = "REQUEST_FILE" => z = Called(a.name)
    PROVE  Opening(None, dn, w, L) /\ Opening(z, dn, w, L) /\ Opening(z, dn \o <<a>>, w, L)
<1> DEFINE d == dn \o <<a>>
<1>0. \A i \in 1 .. Len(dn) : dn[i] \in Down /\ (dn[i].action = "REQUEST_FILE" => dn[i].name \in Name)
  BY DEF Down, SC, AF
<1>1. \A i \in 1 .. Len(dn) : ~Moves(dn[i]) /\ (dn[i].action = "REQUEST_FILE" => dn[i].name \notin L)
  BY <1>0 DEF Opening
<1>2. /\ Len(dn) \in Nat /\ Len(d) = Len(dn) + 1
      /\ \A i \in 1 .. Len(d) : (i \in 1 .. Len(dn) /\ d[i] = dn[i]) \/ (i = Len(d) /\ d[i] = a)
  BY DEF Down
<1> HIDE DEF d
<1>3. Opening(None, dn, w, L) /\ Opening(z, dn, w, L)
  BY <1>1 DEF Opening
<1>4. Opening(z, d, w, L)
  BY <1>1, <1>2 DEF Opening
<1> QED
  BY <1>3, <1>4 DEF d

\* F_FR: the call follows the select, an offer is accepted.
LEMMA TakesFileReady ==
    ASSUME NEW t \in {None} \cup Transfers, NEW dn \in Seq(Down), NEW u \in Seq(Up), u # <<>>,
           NEW v, NEW L, NEW fresh, InPhase(t, dn, u, v, L, fresh), Head(u).type = "F_FR"
    PROVE  Taken(OnFileReady(t, Head(u)), dn, Tail(u), v, L, fresh)
<1> DEFINE w == Tail(u)
           n == Head(u).name
           r == OnFileReady(t, Head(u))
<1>1. InPhase(t, dn, w, v, L, fresh)
  BY Passed DEF Section
<1>2. Head(u) \in Up /\ n \in Name
  BY Shorter, Kinds
<1>3. Opening(t, dn, w, L) => NoSection(w)
  BY DEF Opening
<1> DEFINE calls == t # None /\ t.name = n /\ ~t.called
<1>4. CASE t = None
  <2> DEFINE z == NewTransfer(n)
             a == CallOrSelect("SELECT_FILE", n, 0)
  <2>1. r.fetching = z /\ r.out = <<a>> /\ r.file = None
    <3>1. r = Got(z, <<a>>)
      BY <1>4 DEF OnFileReady, Runs
    <3> QED
      BY <3>1 DEF Got
  <2>2. Opening(t, dn, w, L)
    BY <1>1, <1>4 DEF InPhase, Fetching
  <2>3. a \in Down /\ ~Moves(a) /\ a.action # "REQUEST_FILE"
    BY <1>2, Kinds DEF CallOrSelect, Moves
  <2>4. z \in Transfers /\ \A x \in Name : t # Called(x)
    BY <1>2, <1>4, NoneIsNone
  <2>5. \E x \in Name : z = NewTransfer(x) \/ z = Called(x)
    BY <1>2
  <2> HIDE DEF z, a, r, w
  <2>6. Opening(None, dn, w, L) /\ Opening(z, dn \o <<a>>, w, L)
    BY <1>3, <2>2, <2>3, <2>4, <2>5, Calls
  <2>7. <<a>> \in Seq(Down)
    BY <2>3
  <2>8. Taken(r, dn, w, v, L, fresh)
    BY <2>1, <2>4, <2>6, <2>7 DEF Taken, InPhase
  <2> QED
    BY <2>8 DEF r, w
<1>5. CASE calls
  <2> DEFINE z == Called(n)
             a == CallOrSelect("REQUEST_FILE", n, 0)
  <2>1. ~Fetching(t, dn, w, v, L, fresh)
    BY <1>5 DEF Fetching
  <2>2. Opening(t, dn, w, L) /\ t # None /\ t.name = n /\ ~t.called
    BY <1>1, <1>5, <2>1 DEF InPhase
  <2>3. t = NewTransfer(n) /\ \A x \in Name : t # Called(x)
    <3>1. PICK x \in Name : t = NewTransfer(x) \/ t = Called(x)
      BY <2>2 DEF Opening
    <3> QED
      BY <2>2, <3>1, NoneIsNone
  <2>4. [t EXCEPT !.called = TRUE] = z
    BY <2>3 DEF Called
  <2>5. r.fetching = z /\ r.out = <<a>> /\ r.file = None
    <3>1. r = Got(z, <<a>>)
      BY <2>2, <2>4 DEF OnFileReady, Runs
    <3> QED
      BY <3>1 DEF Got
  <2>6. a \in Down /\ ~Moves(a) /\ a.name = n
    BY <1>2, Kinds DEF CallOrSelect, Moves
  <2>7. z \in Transfers /\ z = Called(a.name)
    BY <1>2, <2>6, NoneIsNone
  <2>8. \E x \in Name : z = NewTransfer(x) \/ z = Called(x)
    BY <1>2
  <2> HIDE DEF z, a, r, w
  <2>9. Opening(None, dn, w, L) /\ Opening(z, dn \o <<a>>, w, L)
    BY <1>3, <2>2, <2>3, <2>6, <2>7, <2>8, Calls
  <2>10. <<a>> \in Seq(Down)
    BY <2>6
  <2>11. Taken(r, dn, w, v, L, fresh)
    BY <2>5, <2>7, <2>9, <2>10 DEF Taken, InPhase
  <2> QED
    BY <2>11 DEF r, w
<1>6. CASE ~calls /\ t # None
  <2>1. OnFileReady(t, Head(u)) = Got(t, <<>>)
    BY <1>6 DEF OnFileReady, Runs
  <2> HIDE DEF w
  <2>2. Taken(Got(t, <<>>), dn, w, v, L, fresh)
    BY <1>1, NothingTaken
  <2> QED
    BY <2>1, <2>2 DEF w
<1> QED
  BY <1>4, <1>5, <1>6

\* F_SC with the negative bit: the file called for is not there, and its transfer is over.
LEMMA TakesRefusal ==
    ASSUME NEW t \in {None} \cup Transfers, NEW dn \in Seq(Down), NEW u \in Seq(Up), u # <<>>,
           NEW v, NEW L, NEW fresh, InPhase(t, dn, u, v, L, fresh),
           Head(u).type = "F_SC_NEG", Head(u).name \notin L
    PROVE  Taken(OnRefused(t, Head(u)), dn, Tail(u), v, L, fresh)
<1> DEFINE w == Tail(u)
           n == Head(u).name
           r == OnRefused(t, Head(u))
<1>1. InPhase(t, dn, w, v, L, fresh)
  BY Passed DEF Section
<1>2. Head(u) \in Up /\ n \in Name
  BY Shorter, Kinds
<1>3. CASE ~Runs(t, n)
  <2>1. r = Got(t, <<>>)
    BY <1>3 DEF OnRefused
  <2> HIDE DEF w, r
  <2>2. Taken(Got(t, <<>>), dn, w, v, L, fresh)
    BY <1>1, NothingTaken
  <2> QED
    BY <2>1, <2>2 DEF w, r
<1>4. CASE Runs(t, n)
  <2>1. r = Got(None, <<>>)
    BY <1>4 DEF OnRefused
  <2>2. Opening(t, dn, w, L) /\ t.name = n /\ t # None
    BY <1>1, <1>4 DEF InPhase, Fetching, Runs
  <2>3. Opening(None, dn, w, L)
    <3>1. ASSUME NEW i \in 1 .. Len(dn)
          PROVE  ~Moves(dn[i]) /\ (dn[i].action = "REQUEST_FILE" => dn[i].name \notin L)
      <4>1. ~Moves(dn[i]) /\ (dn[i].action = "REQUEST_FILE" =>
                                dn[i].name \notin L \/ t = Called(dn[i].name))
        BY <2>2 DEF Opening
      <4>2. dn[i].action = "REQUEST_FILE" => dn[i].name \in Name
        BY DEF Down, SC, AF
      <4> QED
        BY <2>2, <4>1, <4>2, NoneIsNone
    <3> QED
      BY <2>2, <3>1 DEF Opening
  <2>4. InPhase(None, dn, w, v, L, fresh)
    BY <2>3 DEF InPhase
  <2> HIDE DEF w, r
  <2>5. Taken(Got(None, <<>>), dn, w, v, L, fresh)
    BY <2>4, NothingTaken
  <2> QED
    BY <2>1, <2>5 DEF w, r
<1> QED
  BY <1>3, <1>4

\* With a message of a section first there is a transfer of sections.
LEMMA SectionFirst ==
    ASSUME NEW t, NEW dn, NEW u \in Seq(Up), u # <<>>, NEW v, NEW L, NEW fresh,
           InPhase(t, dn, u, v, L, fresh), Section(Head(u))
    PROVE  /\ t # None /\ t.name \in L /\ t.called /\ NoSection(<<>>)
           /\ \/ Stalled(dn, u)
              \/ \E k \in 0 .. Len(Sections(t.name)) :
                   /\ Trusted => t.file = Start(t.name, k)
                   /\ dn = <<>> /\ At(v, t.name, k)
                   /\ \/ /\ Announced(t, dn, u, v, k) /\ OneSection(u, 1)
                         /\ Head(u).type = "F_SR" /\ Head(u).name = t.name
                         /\ Head(u).nos = k + 1
                      \/ Sent(t, dn, u, v, k, fresh) /\ Head(u).type \in {"F_SG", "F_LS"}
                      \/ /\ Complete(t, dn, u, v, k) /\ OneSection(u, 1)
                         /\ Head(u).type = "F_LS" /\ Head(u).name = t.name /\ Head(u).eof
<1>1. Head(u) = u[1] /\ Len(u) \in Nat \ {0}
  BY Shorter
<1>2. 1 \in 1 .. Len(u) /\ ~NoSection(u) /\ \A h \in 1 .. Len(u) : OneSection(u, h) => h = 1
  BY <1>1 DEF NoSection, OneSection
<1>3. ~Opening(t, dn, u, L)
  BY <1>2 DEF Opening
<1>4. NoSection(<<>>)
  BY DEF NoSection
<1>5. CASE ~Stalled(dn, u)
  <2>1. PICK k \in 0 .. Len(Sections(t.name)) :
            /\ Trusted => t.file = Start(t.name, k)
            /\ \/ Announced(t, dn, u, v, k) \/ Asked(t, dn, u, v, k)
               \/ Sent(t, dn, u, v, k, fresh)
               \/ Acknowledged(t, dn, u, v, k) \/ Rejected(t, dn, u, v, k)
               \/ Complete(t, dn, u, v, k)
    BY <1>3, <1>5 DEF InPhase, Fetching
  <2>2. ~Asked(t, dn, u, v, k) /\ ~Acknowledged(t, dn, u, v, k) /\ ~Rejected(t, dn, u, v, k)
    BY <1>2 DEF Asked, Acknowledged, Rejected
  <2>3. CASE Announced(t, dn, u, v, k)
    <3>1. dn = <<>> /\ At(v, t.name, k)
      BY <2>3 DEF Announced
    <3>2. /\ OneSection(u, 1) /\ u[1].type = "F_SR" /\ u[1].name = t.name /\ u[1].nos = k + 1
      BY <1>2, <2>3 DEF Announced
    <3> QED
      BY <1>1, <1>3, <1>4, <2>1, <2>3, <3>1, <3>2 DEF InPhase, Fetching
  <2>4. CASE Complete(t, dn, u, v, k)
    <3>1. dn = <<>> /\ At(v, t.name, k)
      BY <2>4 DEF Complete
    <3>2. /\ OneSection(u, 1) /\ u[1].type = "F_LS" /\ u[1].name = t.name /\ u[1].eof
      BY <1>2, <2>4 DEF Complete
    <3> QED
      BY <1>1, <1>3, <1>4, <2>1, <2>4, <3>1, <3>2 DEF InPhase, Fetching
  <2>5. CASE Sent(t, dn, u, v, k, fresh)
    <3>1. dn = <<>> /\ At(v, t.name, k)
      BY <2>5 DEF Sent
    <3>2. PICK h \in 1 .. Len(u) :
            /\ \A i \in 1 .. Len(u) : /\ i < h /\ Section(u[i]) => u[i].type = "F_SG"
                                      /\ i > h => ~Section(u[i])
            /\ u[h].type = "F_LS"
      BY <2>5 DEF Sent
    <3>3. u[1].type \in {"F_SG", "F_LS"}
      BY <1>1, <1>2, <3>2
    <3> QED
      BY <1>1, <1>3, <1>4, <2>1, <2>5, <3>1, <3>3 DEF InPhase, Fetching
  <2> QED
    BY <2>1, <2>2, <2>3, <2>4, <2>5
<1>6. CASE Stalled(dn, u)
  BY <1>3, <1>4, <1>6 DEF InPhase, Fetching
<1> QED
  BY <1>5, <1>6

\* F_SR: the section announced is asked for.
LEMMA TakesSectionReady ==
    ASSUME NEW t \in {None} \cup Transfers, NEW dn \in Seq(Down), NEW u \in Seq(Up), u # <<>>,
           NEW v, NEW L, NEW fresh, InPhase(t, dn, u, v, L, fresh), Head(u).type = "F_SR"
    PROVE  Taken(OnSectionReady(t, Head(u)), dn, Tail(u), v, L, fresh)
<1> DEFINE w == Tail(u)
           n == Head(u).name
           i == Head(u).nos
           z == [t EXCEPT !.nos = i, !.called = TRUE, !.section = <<>>]
           a == CallOrSelect("REQUEST_SECTION", n, i)
           r == OnSectionReady(t, Head(u))
<1>1. Head(u) = u[1] /\ Head(u) \in Up /\ Len(u) \in Nat \ {0} /\ Section(Head(u))
  BY Shorter DEF Section
<1>2. ~Stalled(dn, u)
  BY <1>1 DEF Stalled
<1>3. /\ t # None /\ t.name \in L /\ t.called
      /\ \E k \in 0 .. Len(Sections(t.name)) :
           /\ Trusted => t.file = Start(t.name, k)
           /\ dn = <<>> /\ At(v, t.name, k) /\ Announced(t, dn, u, v, k)
           /\ OneSection(u, 1) /\ n = t.name /\ i = k + 1
  <2>1. /\ t # None /\ t.name \in L /\ t.called /\ NoSection(<<>>)
        /\ \/ Stalled(dn, u)
           \/ \E k \in 0 .. Len(Sections(t.name)) :
                /\ Trusted => t.file = Start(t.name, k)
                /\ dn = <<>> /\ At(v, t.name, k)
                /\ \/ /\ Announced(t, dn, u, v, k) /\ OneSection(u, 1)
                      /\ Head(u).type = "F_SR" /\ Head(u).name = t.name
                      /\ Head(u).nos = k + 1
                   \/ Sent(t, dn, u, v, k, fresh) /\ Head(u).type \in {"F_SG", "F_LS"}
                   \/ /\ Complete(t, dn, u, v, k) /\ OneSection(u, 1)
                      /\ Head(u).type = "F_LS" /\ Head(u).name = t.name /\ Head(u).eof
    <3> HIDE DEF w, n, i, z, a, r
    <3> QED
      BY <1>1, SectionFirst, ZenonT(30)
  <2>2. PICK k \in 0 .. Len(Sections(t.name)) :
                /\ Trusted => t.file = Start(t.name, k)
                /\ dn = <<>> /\ At(v, t.name, k)
                /\ Announced(t, dn, u, v, k) /\ OneSection(u, 1)
                /\ n = t.name /\ i = k + 1
    <3> HIDE DEF w, z, a, r
    <3> QED
      BY <1>2, <2>1
  <2> QED
    BY <2>1, <2>2
<1>4. PICK k \in 0 .. Len(Sections(t.name)) :
           /\ Trusted => t.file = Start(t.name, k)
           /\ dn = <<>> /\ At(v, t.name, k) /\ Announced(t, dn, u, v, k)
           /\ OneSection(u, 1) /\ n = t.name /\ i = k + 1
  BY <1>3
<1>5. NoSection(w) /\ n \in Name /\ i \in Nat
  BY <1>1, <1>4, Shorter, Kinds
<1>6. a \in Down /\ <<a>> \in Seq(Down)
  BY <1>5, Kinds
<1>7. /\ z \in Transfers /\ z.name = t.name /\ z.called /\ z.nos = i /\ z.section = <<>>
      /\ z.file = t.file
  <2>1. t \in Transfers /\ <<>> \in Data
    BY <1>3 DEF Data
  <2> QED
    BY <1>5, <2>1 DEF Transfers
<1>8. r.fetching = z /\ r.out = <<a>> /\ r.file = None
  <2>1. r = Got(z, <<a>>)
    BY <1>3, <1>4 DEF OnSectionReady, Runs
  <2> QED
    BY <2>1 DEF Got
<1>9. dn \o <<a>> = <<a>>
  BY <1>4, <1>6
<1>10. k < Len(Sections(t.name))
  BY <1>4 DEF Announced
<1>11. Opening(None, <<>>, w, L)
  BY <1>5 DEF Opening
<1>12. z # None
  BY <1>7, NoneIsNone
<1> HIDE DEF z, r, w
<1>13. Asked(z, dn \o <<a>>, w, v, k)
  BY <1>4, <1>5, <1>7, <1>9, <1>10 DEF Asked
<1>14. Fetching(z, dn \o <<a>>, w, v, L, fresh)
  BY <1>3, <1>4, <1>7, <1>12, <1>13 DEF Fetching
<1> HIDE DEF a
<1>15. Taken(r, dn, w, v, L, fresh)
  BY <1>4, <1>6, <1>7, <1>8, <1>11, <1>14 DEF Taken, InPhase
<1> QED
  BY <1>15 DEF r, w

\* F_SG: a segment is added to its section.
LEMMA TakesSegment ==
    ASSUME NEW t \in {None} \cup Transfers, NEW dn \in Seq(Down), NEW u \in Seq(Up), u # <<>>,
           NEW v, NEW L, NEW fresh, InPhase(t, dn, u, v, L, fresh), Head(u).type = "F_SG"
    PROVE  Taken(OnSegment(t, Head(u)), dn, Tail(u), v, L, fresh)
<1> DEFINE w == Tail(u)
           n == t.name
           o == Head(u).octets
           z == [t EXCEPT !.section = @ \o o]
           r == OnSegment(t, Head(u))
<1>1. Head(u) = u[1] /\ Head(u) \in Up /\ Len(u) \in Nat \ {0} /\ Section(Head(u))
  BY Shorter DEF Section
<1>2. t # None /\ n \in L /\ t.called /\ t \in Transfers
  BY <1>1, SectionFirst
<1>3. o \in Data
  BY <1>1, Kinds
<1>4. /\ z \in Transfers /\ z.name = n /\ z.called /\ z.file = t.file /\ z.nos = t.nos
      /\ z.section = t.section \o o
  <2>1. \A s, x \in Data : s \o x \in Data
    BY DEF Data
  <2> HIDE DEF o
  <2> QED
    BY <1>2, <1>3, <2>1 DEF Transfers
<1>5. z # None
  BY <1>4, NoneIsNone
<1>6. dn \o <<>> = dn /\ <<>> \in Seq(Down)
  BY ConcatEmptySeq
<1>7. r = Got(t, <<>>) \/ r = Got(z, <<>>)
  BY DEF OnSegment
<1>8. CASE Stalled(dn, u)
  <2>1. InPhase(t, dn, w, v, L, fresh) /\ Stalled(dn, w)
    <3>1. \A i \in 1 .. Len(u) - 1 : w[i] = u[i + 1] /\ i + 1 \in 1 .. Len(u)
      BY Shorter
    <3>2. Len(w) = Len(u) - 1
      BY Shorter
    <3> QED
      BY <1>8, <3>1, <3>2, Passed DEF Stalled
  <2> HIDE DEF w, z, r
  <2>2. InPhase(z, dn, w, v, L, fresh)
    BY <1>2, <1>4, <1>5, <2>1 DEF InPhase, Fetching
  <2>3. Taken(Got(t, <<>>), dn, w, v, L, fresh) /\ Taken(Got(z, <<>>), dn, w, v, L, fresh)
    BY <1>4, <2>1, <2>2, NothingTaken
  <2> QED
    BY <1>7, <2>3 DEF w, r
<1>9. CASE ~Stalled(dn, u)
  <2>1. PICK k \in 0 .. Len(Sections(n)) :
           /\ Trusted => t.file = Start(n, k)
           /\ dn = <<>> /\ At(v, n, k) /\ Sent(t, dn, u, v, k, fresh)
    BY <1>1, <1>9, SectionFirst
  <2> DEFINE s == Sections(n)[k + 1]
             Good(b) == b.type = "F_SG" /\ b.name = n /\ b.nos = k + 1
  <2>2. PICK h \in 1 .. Len(u) :
         /\ \A i \in 1 .. Len(u) : /\ i < h /\ Section(u[i]) => Good(u[i])
                                   /\ i > h => ~Section(u[i])
         /\ u[h].type = "F_LS" /\ u[h].name = n /\ ~u[h].eof /\ u[h].chs = FileChecksum(s)
         /\ \E x \in Data : Spells(t.section, u, h, x) /\ Told(x, s, fresh)
    BY <2>1 DEF Sent
  <2>3. PICK x \in Data : Spells(t.section, u, h, x) /\ Told(x, s, fresh)
    BY <2>2
  <2>4. h \in 2 .. Len(u)
    BY <1>1, <2>2
  <2>5. Good(u[1])
    BY <1>1, <2>2, <2>4
  <2>6. t.nos = k + 1 /\ k < Len(Sections(n))
    BY <2>1 DEF Sent
  <2>7. r = Got(z, <<>>)
    BY <1>1, <1>2, <2>5, <2>6 DEF OnSegment, Runs
  <2>8. t.section \in Data
    BY <1>2 DEF Transfers
  <2>9. Spells(z.section, w, h - 1, x)
    <3> HIDE DEF z
    <3>1. Spells(t.section \o o, w, h - 1, x)
      BY <2>3, <2>4, <2>8, SegmentSpells
    <3> QED
      BY <1>4, <3>1
  <2>10. /\ Len(w) = Len(u) - 1 /\ h - 1 \in 1 .. Len(w) /\ w[h - 1] = u[h]
         /\ \A i \in 1 .. Len(u) - 1 : w[i] = u[i + 1] /\ i + 1 \in 1 .. Len(u)
    BY <2>4, Shorter
  <2> HIDE DEF w, z, r, Good
  <2>11. ASSUME NEW i \in 1 .. Len(w)
         PROVE  (i < h - 1 /\ Section(w[i]) => Good(w[i])) /\ (i > h - 1 => ~Section(w[i]))
    <3>1. w[i] = u[i + 1] /\ i + 1 \in 1 .. Len(u)
      BY <2>10
    <3>2. (i < h - 1 => i + 1 < h) /\ (i > h - 1 => i + 1 > h)
      BY <2>4
    <3> QED
      BY <2>2, <3>1, <3>2
  <2> HIDE DEF s, n
  <2>12. Sent(z, dn, w, v, k, fresh)
    <3> DEFINE j == h - 1
    <3>1. dn = <<>> /\ At(v, n, k) /\ z.name = n /\ z.nos = k + 1 /\ k < Len(Sections(n))
      BY <1>4, <2>1, <2>6
    <3>2. /\ j \in 1 .. Len(w) /\ w[j].type = "F_LS" /\ w[j].name = n /\ ~w[j].eof
          /\ w[j].chs = FileChecksum(s)
      BY <2>2, <2>10
    <3>3. \E y \in Data : Spells(z.section, w, j, y) /\ Told(y, s, fresh)
      BY <2>3, <2>9
    <3>4. \A i \in 1 .. Len(w) : (i < j /\ Section(w[i]) => Good(w[i])) /\ (i > j => ~Section(w[i]))
      BY <2>11
    <3> HIDE DEF j
    <3> QED
      BY <3>1, <3>2, <3>3, <3>4 DEF Sent, Good, s
  <2>13. InPhase(z, dn, w, v, L, fresh)
    BY <1>2, <1>4, <1>5, <2>1, <2>12 DEF InPhase, Fetching
  <2>14. Taken(Got(z, <<>>), dn, w, v, L, fresh)
    BY <1>4, <2>13, NothingTaken
  <2> QED
    BY <2>7, <2>14 DEF w, r
<1> QED
  BY <1>8, <1>9

\* F_LS: a section is acknowledged if its checksum fits,
LEMMA TakesLastSegment ==
    ASSUME NEW t \in {None} \cup Transfers, NEW dn \in Seq(Down), NEW u \in Seq(Up), u # <<>>,
           NEW v, NEW L, L \subseteq DOMAIN Content, NEW fresh, InPhase(t, dn, u, v, L, fresh),
           NEW k \in 0 .. Len(Sections(t.name)), Trusted => t.file = Start(t.name, k),
           Sent(t, dn, u, v, k, fresh), t # None, t.name \in L, t.called, dn = <<>>,
           Head(u).type = "F_LS"
    PROVE  Taken(OnLast(t, Head(u)), dn, Tail(u), v, L, fresh)
<1> DEFINE w == Tail(u)
           n == t.name
           s == Sections(n)[k + 1]
           b == Head(u)
           r == OnLast(t, b)
           fits == FileChecksum(t.section) = b.chs
<1>1. /\ b = u[1] /\ b \in Up /\ Len(u) \in Nat \ {0} /\ Section(b)
      /\ t \in Transfers /\ t.section \in Data /\ t.file \in Data /\ n \in Name
  BY Shorter DEF Section, Transfers
<1>2. /\ t.nos = k + 1 /\ k < Len(Sections(n)) /\ At(v, n, k)
      /\ \E h \in 1 .. Len(u) :
         /\ \A i \in 1 .. Len(u) : /\ i < h /\ Section(u[i]) => u[i].type = "F_SG"
                                   /\ i > h => ~Section(u[i])
         /\ u[h].name = n /\ ~u[h].eof /\ u[h].chs = FileChecksum(s)
         /\ \E x \in Data : Spells(t.section, u, h, x) /\ Told(x, s, fresh)
  BY DEF Sent
<1>3. /\ \A i \in 2 .. Len(u) : ~Section(u[i])
      /\ b.name = n /\ ~b.eof /\ b.chs = FileChecksum(s)
      /\ \E x \in Data : Spells(t.section, u, 1, x) /\ Told(x, s, fresh)
  BY <1>1, <1>2
<1>4. NoSection(w)
  <2>1. OneSection(u, 1)
    BY <1>1, <1>3 DEF OneSection
  <2> QED
    BY <2>1, Shorter
<1>5. Told(t.section, s, fresh)
  BY <1>1, <1>3, SpelledOut
<1>6. n \in DOMAIN Content /\ k \in 0 .. Len(Sections(n)) - 1 /\ k + 1 \in 0 .. Len(Sections(n))
  BY <1>2
<1>7. Opening(None, <<>>, w, L)
  BY <1>4 DEF Opening
<1>8. <<>> \in Data
  BY DEF Data
<1>9. CASE ~fits
  <2> DEFINE z == [t EXCEPT !.section = <<>>]
             a == Ack("NEG_ACK_SECTION", n, t.nos)
  <2>1. r = Got(z, <<a>>)
    BY <1>3, <1>9 DEF OnLast, Runs
  <2>2. r.fetching = z /\ r.out = <<a>> /\ r.file = None
    <3> HIDE DEF r, z, a
    <3> QED
      BY <2>1 DEF Got
  <2>3. /\ z \in Transfers /\ z.name = n /\ z.called /\ z.nos = k + 1 /\ z.section = <<>>
        /\ z.file = t.file
    BY <1>1, <1>2, <1>8 DEF Transfers
  <2>4. a \in Down /\ <<a>> \in Seq(Down) /\ dn \o <<a>> = <<a>> /\ t.nos \in Nat
    <3>1. t.nos \in Nat
      BY <1>2
    <3>2. a \in Down
      BY <1>1, <3>1, Kinds
    <3> HIDE DEF a
    <3> QED
      BY <3>1, <3>2
  <2>5. z # None
    BY <2>3, NoneIsNone
  <2> HIDE DEF z, r, w
  <2>6. Rejected(z, dn \o <<a>>, w, v, k)
    BY <1>2, <1>4, <2>3, <2>4 DEF Rejected
  <2>7. Fetching(z, dn \o <<a>>, w, v, L, fresh)
    BY <2>3, <2>5, <2>6 DEF Fetching
  <2> HIDE DEF a
  <2>8. Taken(r, dn, w, v, L, fresh)
    BY <1>7, <2>2, <2>3, <2>4, <2>7 DEF Taken, InPhase
  <2> QED
    BY <2>8 DEF r, w
<1>10. CASE fits
  <2> DEFINE f == t.file \o t.section
             z == [t EXCEPT !.section = <<>>, !.file = f]
             a == Ack("POS_ACK_SECTION", n, t.nos)
             j == k + 1
  <2>1. r = Got(z, <<a>>)
    BY <1>3, <1>10 DEF OnLast, Runs
  <2>2. r.fetching = z /\ r.out = <<a>> /\ r.file = None
    <3> HIDE DEF r, z, a
    <3> QED
      BY <2>1 DEF Got
  <2>3. f \in Data
    BY <1>1 DEF Data
  <2>4. z \in Transfers /\ z.name = n /\ z.called /\ z.file = f
    <3> HIDE DEF f
    <3> QED
      BY <1>1, <1>8, <2>3 DEF Transfers
  <2>5. a \in Down /\ <<a>> \in Seq(Down) /\ dn \o <<a>> = <<a>> /\ t.nos \in Nat
    <3>1. t.nos \in Nat
      BY <1>2
    <3>2. a \in Down
      BY <1>1, <3>1, Kinds
    <3> HIDE DEF a
    <3> QED
      BY <3>1, <3>2
  <2>6. z # None
    BY <2>4, NoneIsNone
  <2>7. Trusted => f = Start(n, j)
    <3> SUFFICES ASSUME Trusted PROVE f = Start(n, j)
      OBVIOUS
    <3>1. t.section = s
      BY <1>3, <1>5, <1>10 DEF Told
    <3>2. t.file = Start(n, k)
      OBVIOUS
    <3>3. Start(n, k) \o s = Start(n, j)
      BY <1>6, SectionsAre
    <3> QED
      BY <3>1, <3>2, <3>3
  <2>8. j > 0 /\ j - 1 = k /\ j \in 0 .. Len(Sections(n))
    BY <1>6
  <2> HIDE DEF z, r, w, f, j
  <2>9. Acknowledged(z, dn \o <<a>>, w, v, j)
    BY <1>2, <1>4, <2>4, <2>5, <2>8 DEF Acknowledged
  <2>10. Fetching(z, dn \o <<a>>, w, v, L, fresh)
    BY <2>4, <2>6, <2>7, <2>8, <2>9 DEF Fetching
  <2> HIDE DEF a
  <2>11. Taken(r, dn, w, v, L, fresh)
    BY <1>7, <2>2, <2>4, <2>5, <2>10 DEF Taken, InPhase
  <2> QED
    BY <2>11 DEF r, w
<1> QED
  BY <1>9, <1>10

\* and after the last one the file is handed over.
LEMMA TakesLast ==
    ASSUME NEW t \in {None} \cup Transfers, NEW dn \in Seq(Down), NEW u \in Seq(Up), u # <<>>,
           NEW v, NEW L, L \subseteq DOMAIN Content, NEW fresh, InPhase(t, dn, u, v, L, fresh),
           Head(u).type = "F_LS"
    PROVE  Taken(OnLast(t, Head(u)), dn, Tail(u), v, L, fresh)
<1> DEFINE w == Tail(u)
           n == t.name
           b == Head(u)
           r == OnLast(t, b)
<1>1. b = u[1] /\ b \in Up /\ Len(u) \in Nat \ {0} /\ Section(b)
  BY Shorter DEF Section
<1>2. ~Stalled(dn, u)
  BY <1>1 DEF Stalled
<1>3. t # None /\ n \in L /\ t.called /\ t \in Transfers
  BY <1>1, SectionFirst
<1>4. PICK k \in 0 .. Len(Sections(n)) :
         /\ Trusted => t.file = Start(n, k)
         /\ dn = <<>>
         /\ \/ Sent(t, dn, u, v, k, fresh)
            \/ Complete(t, dn, u, v, k) /\ OneSection(u, 1) /\ b.name = n /\ b.eof
  BY <1>1, <1>2, SectionFirst
<1>5. CASE Sent(t, dn, u, v, k, fresh)
  <2> HIDE DEF r, w
  <2>1. Taken(OnLast(t, Head(u)), dn, Tail(u), v, L, fresh)
    BY <1>3, <1>4, <1>5, TakesLastSegment
  <2> QED
    BY <2>1
<1>6. CASE Complete(t, dn, u, v, k) /\ OneSection(u, 1) /\ b.name = n /\ b.eof
  <2> DEFINE a == Ack("POS_ACK_FILE", n, b.nos)
             f == [name |-> n, data |-> t.file]
  <2>1. r = [Got(None, <<a>>) EXCEPT !.file = f]
    BY <1>3, <1>6 DEF OnLast, Runs
  <2>2. r.fetching = None /\ r.out = <<a>> /\ r.file = f
    <3> HIDE DEF r, a, f
    <3> QED
      BY <2>1 DEF Got
  <2>3. b.nos \in Nat /\ n \in Name /\ t.file \in Data
    BY <1>1, <1>3, Kinds DEF Transfers
  <2>4. a \in Down /\ ~Moves(a) /\ a.action # "REQUEST_FILE"
    BY <2>3, Kinds DEF Ack, Moves
  <2>5. NoSection(w)
    BY <1>6, Shorter
  <2>6. Trusted => t.file = Content[n]
    BY <1>3, <1>4, <1>6, SectionsAre DEF Complete
  <2> HIDE DEF a
  <2>7. <<a>> \in Seq(Down) /\ dn \o <<a>> = <<a>>
    BY <1>4, <2>4
  <2>8. Opening(None, <<a>>, w, L) /\ Opening(None, <<>>, w, L)
    <3>1. Len(<<a>>) = 1 /\ <<a>>[1] = a
      OBVIOUS
    <3> HIDE DEF w
    <3> QED
      BY <2>4, <2>5, <3>1 DEF Opening
  <2>9. f \in [name : Name, data : Data] /\ f.data = t.file /\ f.name = n
    BY <2>3
  <2> HIDE DEF f, r, w
  <2>10. Taken(r, dn, w, v, L, fresh)
    BY <1>4, <2>2, <2>6, <2>7, <2>8, <2>9 DEF Taken, InPhase
  <2> QED
    BY <2>10 DEF r, w
<1> QED
  BY <1>4, <1>5, <1>6

\* Receiver::step, whatever the message.
LEMMA MasterTakes ==
    ASSUME NEW t \in {None} \cup Transfers, NEW dn \in Seq(Down), NEW u \in Seq(Up), u # <<>>,
           NEW v, NEW L, L \subseteq DOMAIN Content, NEW fresh, InPhase(t, dn, u, v, L, fresh),
           Head(u).type = "F_SC_NEG" => Head(u).name \notin L
    PROVE  Taken(MasterReply(t, Head(u)), dn, Tail(u), v, L, fresh)
<1> DEFINE a == Head(u)
           w == Tail(u)
<1>1. a.type \in {"F_FR", "F_SR", "F_SG", "F_LS", "F_DR", "F_SC_NEG", "F_AF"}
  BY Shorter, Kinds
<1>2. CASE a.type = "F_FR"
  BY <1>2, TakesFileReady DEF MasterReply
<1>3. CASE a.type = "F_SR"
  BY <1>3, TakesSectionReady DEF MasterReply
<1>4. CASE a.type = "F_SG"
  BY <1>4, TakesSegment DEF MasterReply
<1>5. CASE a.type = "F_LS"
  BY <1>5, TakesLast DEF MasterReply
<1>6. CASE a.type = "F_SC_NEG"
  BY <1>6, TakesRefusal DEF MasterReply
<1>7. CASE a.type \in {"F_DR", "F_AF"}
  <2>1. MasterReply(t, a) = Got(t, <<>>)
    BY <1>7 DEF MasterReply
  <2>2. InPhase(t, dn, w, v, L, fresh)
    BY <1>7, Passed DEF Section
  <2> HIDE DEF w
  <2>3. Taken(Got(t, <<>>), dn, w, v, L, fresh)
    BY <2>2, NothingTaken
  <2> QED
    BY <2>1, <2>3 DEF w
<1> QED
  BY <1>1, <1>2, <1>3, <1>4, <1>5, <1>6, <1>7

-----------------------------------------------------------------------------
(***************************************************************************)
(* What the station answers.                                               *)
(***************************************************************************)

\* A reply keeps the phases, whether it is sent or the sending fails, and the station's
\* section is one of a file it lists.
Phases(t, d, u, o, v, L, fresh) ==
    /\ o \in Seq(Up) /\ InPhase(t, d, u \o o, v, L, fresh)
    /\ \A n \in 0 .. Len(o) - 1 : InPhase(t, d, u \o SubSeq(o, 1, n), None, L, FALSE)

Held(v, s) ==
    /\ DOMAIN s \subseteq DOMAIN Content /\ \A n \in DOMAIN s : s[n] = Content[n]
    /\ v = None \/ \E n \in DOMAIN s, k \in Nat : v = Serving(n, k)

Refuses(o, L) == \A i \in 1 .. Len(o) : o[i].type = "F_SC_NEG" => o[i].name \notin L

Answered(r, t, d, u, fresh) ==
    /\ r.panic = FALSE /\ Held(r.serving, r.store) /\ DOMAIN r.store \subseteq Listing
    /\ Phases(t, d, u, r.out, r.serving, DOMAIN r.store, fresh)
    /\ Refuses(r.out, DOMAIN r.store)

\* What is under way to the station, one message later.
LEMMA Fewer ==
    ASSUME NEW dn \in Seq(Down), dn # <<>>
    PROVE  /\ Head(dn) = dn[1] /\ Head(dn) \in Down /\ Tail(dn) \in Seq(Down)
           /\ Len(dn) \in Nat \ {0} /\ Len(Tail(dn)) = Len(dn) - 1
           /\ \A i \in 1 .. Len(dn) - 1 : Tail(dn)[i] = dn[i + 1] /\ i + 1 \in 1 .. Len(dn)
           /\ \A a : dn = <<a>> => Head(dn) = a /\ Tail(dn) = <<>>
<1>1. /\ Head(dn) = dn[1] /\ Head(dn) \in Down /\ Tail(dn) \in Seq(Down)
      /\ Len(Tail(dn)) = Len(dn) - 1 /\ \A i \in 1 .. Len(dn) - 1 : Tail(dn)[i] = dn[i + 1]
  BY HeadTailProperties
<1>2. Len(dn) \in Nat \ {0}
  BY EmptySeq
<1>3. \A i \in 1 .. Len(dn) - 1 : Tail(dn)[i] = dn[i + 1] /\ i + 1 \in 1 .. Len(dn)
  BY <1>1, <1>2
<1>4. ASSUME NEW a, dn = <<a>> PROVE Head(dn) = a /\ Tail(dn) = <<>>
  BY <1>1, <1>4, EmptySeq
<1> QED
  BY <1>1, <1>2, <1>3, <1>4

\* An answer of at most one message, when it is sent and when that fails.
LEMMA AtMostOne ==
    ASSUME NEW t, NEW d, NEW u \in Seq(Up), NEW o, o = <<>> \/ \E a \in Up : o = <<a>>, NEW v,
           NEW L, NEW fresh, InPhase(t, d, u \o o, v, L, fresh), InPhase(t, d, u, None, L, FALSE)
    PROVE  Phases(t, d, u, o, v, L, fresh)
<1>1. u \o <<>> = u
  BY ConcatEmptySeq
<1>2. o \in Seq(Up) /\ Len(o) \in 0 .. 1
  <2>1. CASE o = <<>>
    BY <2>1
  <2>2. CASE \E a \in Up : o = <<a>>
    BY <2>2
  <2> QED
    BY <2>1, <2>2
<1>3. ASSUME NEW n \in 0 .. Len(o) - 1 PROVE u \o SubSeq(o, 1, n) = u
  <2>1. n = 0
    <3> DEFINE l == Len(o)
    <3>1. l = 0 \/ l = 1
      BY <1>2
    <3>2. n \in 0 .. l - 1
      OBVIOUS
    <3> HIDE DEF l
    <3> QED
      BY <3>1, <3>2
  <2>2. SubSeq(o, 1, 0) = <<>>
    BY <1>2
  <2> QED
    BY <1>1, <2>1, <2>2
<1> QED
  BY <1>2, <1>3 DEF Phases

\* Before the sections,
LEMMA QuietAnswer ==
    ASSUME NEW t, NEW dn \in Seq(Down), dn # <<>>, NEW u \in Seq(Up), NEW L, Opening(t, dn, u, L),
           NEW M, M \subseteq L, NEW o, o = <<>> \/ \E a \in Up : o = <<a>> /\ ~Section(a),
           NEW v, NEW fresh
    PROVE  Phases(t, Tail(dn), u, o, v, M, fresh)
<1> DEFINE d == Tail(dn)
<1>1. /\ Len(dn) \in Nat \ {0} /\ Len(d) = Len(dn) - 1
      /\ \A i \in 1 .. Len(dn) - 1 : d[i] = dn[i + 1] /\ i + 1 \in 1 .. Len(dn)
  BY Fewer
<1>2. o \in Seq(Up) /\ NoSection(o)
  <2>1. CASE o = <<>>
    BY <2>1, EmptySeq DEF NoSection
  <2>2. CASE \E a \in Up : o = <<a>> /\ ~Section(a)
    BY <2>2 DEF NoSection
  <2> QED
    BY <2>1, <2>2
<1>3. NoSection(u \o o)
  BY <1>2, Longer DEF Opening
<1> DEFINE w == u \o o
<1> HIDE DEF d, w
<1>4. ASSUME NEW i \in 1 .. Len(d)
      PROVE  /\ ~Moves(d[i])
             /\ d[i].action = "REQUEST_FILE" =>
                  d[i].name \notin M \/ (i = Len(d) /\ t = Called(d[i].name))
  <2>1. d[i] = dn[i + 1] /\ i + 1 \in 1 .. Len(dn) /\ (i + 1 = Len(dn) => i = Len(d))
    BY <1>1
  <2> QED
    BY <2>1 DEF Opening
<1>5. Opening(t, d, w, M)
  BY <1>3, <1>4 DEF Opening, w
<1>6. Opening(t, d, u, M)
  BY <1>4 DEF Opening
<1>7. Phases(t, d, u, o, v, M, fresh)
  BY <1>5, <1>6, AtMostOne DEF InPhase, w
<1> QED
  BY <1>7 DEF d

\* A transfer that goes on, is announced, or is over.
Ongoing(t, L, k) == /\ t \in Transfers /\ t.name \in L /\ t.called
                    /\ Trusted => t.file = Start(t.name, k)

\* With nothing under way the transfer does not go on.
LEMMA Rests ==
    ASSUME NEW t \in Transfers, NEW L, t.name \in L, t.called, NEW u, NoSection(u), NEW v,
           NEW fresh
    PROVE  InPhase(t, <<>>, u, v, L, fresh)
<1>1. Stalled(<<>>, u)
  BY DEF Stalled, NoSection, Section
<1>2. t # None
  BY NoneIsNone
<1> QED
  BY <1>1, <1>2 DEF InPhase, Fetching

\* An answer that says nothing of a section, or its part that does not,
LEMMA Stays ==
    ASSUME NEW t \in Transfers, NEW L, t.name \in L, t.called, NEW u \in Seq(Up), NoSection(u),
           NEW o \in Seq(Up), \A i \in 1 .. Len(o) : o[i].type \notin {"F_SR", "F_LS"},
           NEW v, NEW fresh
    PROVE  InPhase(t, <<>>, u \o o, v, L, fresh)
<1> DEFINE w == u \o o
<1>1. \A i \in 1 .. Len(w) :
         (i \in 1 .. Len(u) /\ w[i] = u[i]) \/ (i - Len(u) \in 1 .. Len(o) /\ w[i] = o[i - Len(u)])
  BY Longer
<1> HIDE DEF w
<1>2. Stalled(<<>>, w)
  BY <1>1 DEF Stalled, NoSection, Section
<1>3. t # None
  BY NoneIsNone
<1> QED
  BY <1>2, <1>3 DEF InPhase, Fetching, w

\* one that announces a section,
LEMMA AnnouncingAnswer ==
    ASSUME NEW k \in Nat, NEW t, NEW L, L \subseteq DOMAIN Content, Ongoing(t, L, k),
           k < Len(Sections(t.name)), NEW u \in Seq(Up), NoSection(u), NEW fresh
    PROVE  /\ Phases(t, <<>>, u, <<SectionReady(Serving(t.name, k))>>, Serving(t.name, k), L, fresh)
           /\ SectionReady(Serving(t.name, k)) \in Up
           /\ SectionReady(Serving(t.name, k)).type = "F_SR"
<1> DEFINE n == t.name
           z == Serving(n, k)
           a == SectionReady(z)
           o == <<a>>
           w == u \o o
           h == Len(u) + 1
<1>1. t \in Transfers /\ n \in Name /\ n \in DOMAIN Content /\ t # None
  BY NoneIsNone DEF Ongoing, Transfers
<1>2. Len(Sections(n)) \in 1 .. MaxSections /\ MaxSections \in Nat
  <2>1. MaxSections \in Nat
    BY FileTransferAssumption
  <2> HIDE DEF n
  <2> QED
    BY <1>1, <2>1, SectionsAre
<1>3. Nos(k + 1) = k + 1
  BY <1>2 DEF Nos
<1>4. a.type = "F_SR" /\ a.name = n /\ a.nos = k + 1 /\ a \in Up
  BY <1>1, <1>3 DEF SectionReady, Serving, Up, SR
<1> HIDE DEF a, z
<1>5. o \in Seq(Up) /\ Len(o) = 1 /\ o[1] = a
  BY <1>4
<1>6. OneSection(w, h) /\ w[h] = a /\ h \in 1 .. Len(w) /\ Len(u) \in Nat
  <2> HIDE DEF o
  <2> QED
    BY <1>5, Longer
<1> HIDE DEF w, h
<1>7. k \in 0 .. Len(Sections(n))
  BY <1>2
<1>8. Announced(t, <<>>, w, z, k)
  BY <1>4, <1>6 DEF Announced, At, z
<1>9. InPhase(t, <<>>, w, z, L, fresh)
  BY <1>1, <1>7, <1>8 DEF InPhase, Fetching, Ongoing
<1>10. InPhase(t, <<>>, u, None, L, FALSE)
  BY <1>1, Rests DEF Ongoing
<1>11. Phases(t, <<>>, u, o, z, L, fresh)
  BY <1>4, <1>9, <1>10, AtMostOne DEF w
<1> QED
  BY <1>4, <1>11 DEF z, a

\* one that says it was the last,
LEMMA CompletingAnswer ==
    ASSUME NEW k \in Nat, NEW t, NEW L, L \subseteq DOMAIN Content, Ongoing(t, L, k),
           k = Len(Sections(t.name)), NEW u \in Seq(Up), NoSection(u), NEW fresh
    PROVE  /\ Phases(t, <<>>, u, <<LastSection(Serving(t.name, k))>>, Serving(t.name, k), L, fresh)
           /\ LastSection(Serving(t.name, k)) \in Up
           /\ LastSection(Serving(t.name, k)).type = "F_LS"
<1> DEFINE n == t.name
           z == Serving(n, k)
           a == LastSection(z)
           o == <<a>>
           w == u \o o
           h == Len(u) + 1
           c == FileChecksum(FlattenSeq(Sections(n)))
<1>1. t \in Transfers /\ n \in Name /\ n \in DOMAIN Content /\ t # None
  BY NoneIsNone DEF Ongoing, Transfers
<1>2. /\ Len(Sections(n)) \in 1 .. MaxSections /\ MaxSections \in Nat
      /\ Sections(n) \in Seq(Data)
  <2>1. MaxSections \in Nat
    BY FileTransferAssumption
  <2> HIDE DEF n
  <2> QED
    BY <1>1, <2>1, SectionsAre
<1>3. Nos(k) = k
  BY <1>2 DEF Nos
<1>4. c \in Checksums
  BY <1>2 DEF Checksums
<1> HIDE DEF c
<1>5. a = [type |-> "F_LS", name |-> n, nos |-> k, eof |-> TRUE, chs |-> c]
  BY <1>3 DEF LastSection, Serving, c
<1>6. a.type = "F_LS" /\ a.name = n /\ a.eof /\ a \in Up
  BY <1>1, <1>4, <1>5 DEF Up, LS
<1> HIDE DEF a, z
<1>7. o \in Seq(Up) /\ Len(o) = 1 /\ o[1] = a
  BY <1>6
<1>8. OneSection(w, h) /\ w[h] = a /\ h \in 1 .. Len(w) /\ Len(u) \in Nat
  <2> HIDE DEF o
  <2> QED
    BY <1>7, Longer
<1> HIDE DEF w, h
<1>9. k \in 0 .. Len(Sections(n))
  OBVIOUS
<1>10. Complete(t, <<>>, w, z, k)
  BY <1>6, <1>8 DEF Complete, At, z
<1>11. InPhase(t, <<>>, w, z, L, fresh)
  BY <1>1, <1>9, <1>10 DEF InPhase, Fetching, Ongoing
<1>12. InPhase(t, <<>>, u, None, L, FALSE)
  BY <1>1, Rests DEF Ongoing
<1>13. Phases(t, <<>>, u, o, z, L, fresh)
  BY <1>6, <1>11, <1>12, AtMostOne DEF w
<1> QED
  BY <1>6, <1>13 DEF z, a

\* One message behind others.
LEMMA OneMore ==
    ASSUME NEW p \in Seq(Up), NEW a \in Up
    PROVE  /\ p \o <<a>> \in Seq(Up) /\ Len(p \o <<a>>) = Len(p) + 1
           /\ \A i \in 1 .. Len(p) : (p \o <<a>>)[i] = p[i]
           /\ (p \o <<a>>)[Len(p) + 1] = a
OBVIOUS

\* or one with its data.
LEMMA DataAnswer ==
    ASSUME NEW k \in Nat, NEW t, NEW L, L \subseteq DOMAIN Content, Ongoing(t, L, k),
           k < Len(Sections(t.name)), t.nos = k + 1, t.section = <<>>,
           NEW u \in Seq(Up), NoSection(u), NEW fresh
    PROVE  LET z == Serving(t.name, k)
               r == SectionData(z)
           IN  /\ r.panic = FALSE /\ r.serving = z /\ r.store = store
               /\ Phases(t, <<>>, u, r.out, z, L, fresh) /\ Refuses(r.out, L)
<1> DEFINE n == t.name
           z == Serving(n, k)
           r == SectionData(z)
           s == Sections(n)[k + 1]
           pieces == Chunks(s, MaxSegment)
           K == CeilDiv(Len(s), MaxSegment)
           a == LastSegment(z)
           p == [i \in 1 .. K |-> Segment(z, pieces[i])]
           o == p \o <<a>>
           w == u \o o
           h == Len(u) + K + 1
<1>1. t \in Transfers /\ n \in Name /\ n \in DOMAIN Content /\ t # None
  BY NoneIsNone DEF Ongoing, Transfers
<1>2. Len(Sections(n)) \in 1 .. MaxSections /\ Sections(n) \in Seq(Data)
  <2> HIDE DEF n
  <2> QED
    BY <1>1, SectionsAre
<1>3. MaxSections \in Nat /\ MaxSegment \in Nat \ {0}
  BY FileTransferAssumption
<1>4. s \in Data /\ k + 1 \in 1 .. Len(Sections(n))
  <2> HIDE DEF n
  <2>1. k + 1 \in 1 .. Len(Sections(n))
    BY <1>2 DEF n
  <2> QED
    BY <1>2, <2>1
<1>5. Nos(k + 1) = k + 1
  BY <1>2, <1>3 DEF Nos
<1>6. z.name = n /\ z.cur = k /\ z.sections = Sections(n)
  BY DEF Serving
<1> HIDE DEF s, z
<1>7. K \in Nat /\ Len(s) \in Nat
  <2>1. Len(s) \in Nat
    BY <1>4 DEF Data
  <2> QED
    BY <1>3, <2>1, CeilDivIs
<1>8. Len(pieces) = K /\ DOMAIN pieces = 1 .. K /\ \A i \in 1 .. K : pieces[i] \in Data
  <2>1. pieces \in Seq(Data) /\ Len(pieces) = K
    BY <1>3, <1>4, ChunksAre
  <2> HIDE DEF pieces
  <2> QED
    BY <1>7, <2>1
<1> HIDE DEF pieces, K
<1>9. a = [type |-> "F_LS", name |-> n, nos |-> k + 1, eof |-> FALSE, chs |-> FileChecksum(s)]
  BY <1>5, <1>6 DEF LastSegment, s
<1>10. FileChecksum(s) \in Checksums
  BY <1>4 DEF Checksums
<1>11. a \in Up /\ a.type = "F_LS" /\ a.name = n /\ ~a.eof /\ a.chs = FileChecksum(s)
  BY <1>1, <1>9, <1>10 DEF Up, LS
<1> HIDE DEF a, n
<1>12. ASSUME NEW i \in 1 .. K
       PROVE  /\ p[i] \in Up /\ p[i].type = "F_SG" /\ p[i].name = n /\ p[i].nos = k + 1
              /\ p[i].octets = pieces[i]
  <2>1. p[i] = [type |-> "F_SG", name |-> n, nos |-> k + 1, octets |-> pieces[i]]
    BY <1>5, <1>6 DEF Segment
  <2> HIDE DEF p
  <2> QED
    BY <1>1, <1>8, <2>1 DEF Up, SG, n
<1>13. p \in Seq(Up) /\ Len(p) = K
  <2>1. p \in [1 .. K -> Up]
    BY <1>12
  <2> HIDE DEF p
  <2> QED
    BY <1>7, <2>1
<1>14. r = Keeping(z, o)
  <2>1. ~(z.cur >= Len(z.sections)) /\ z.sections[z.cur + 1] = s
    BY <1>1, <1>2, <1>6 DEF n, s
  <2>2. DOMAIN pieces = 1 .. K
    BY <1>8
  <2> QED
    BY <2>1, <2>2 DEF SectionData, pieces, a
<1> HIDE DEF p, r
<1>15. /\ o \in Seq(Up) /\ Len(o) = K + 1 /\ \A i \in 1 .. K : o[i] = p[i]
       /\ o[K + 1] = a
  BY <1>7, <1>11, <1>13, OneMore
<1> HIDE DEF o
<1>16. /\ Len(u) \in Nat /\ Len(w) = Len(u) + K + 1
       /\ \A i \in 1 .. Len(u) : w[i] = u[i]
       /\ \A i \in 1 .. K + 1 : w[Len(u) + i] = o[i]
       /\ \A i \in 1 .. Len(w) :
            i \in 1 .. Len(u) \/ (i - Len(u) \in 1 .. K + 1 /\ w[i] = o[i - Len(u)])
  <2>1. /\ Len(u) \in Nat /\ Len(w) = Len(u) + Len(o)
        /\ \A i \in 1 .. Len(u) : w[i] = u[i] /\ i \in 1 .. Len(w)
        /\ \A i \in 1 .. Len(o) : w[Len(u) + i] = o[i]
        /\ \A i \in 1 .. Len(w) :
             i \in 1 .. Len(u) \/ (i - Len(u) \in 1 .. Len(o) /\ w[i] = o[i - Len(u)])
    BY <1>15, Longer, ZenonT(30)
  <2> HIDE DEF w
  <2> QED
    BY <1>7, <1>15, <2>1
<1> HIDE DEF w
<1>17. Spells(<<>>, w, h, s)
  <2>1. ASSUME NEW i \in 1 .. K
        PROVE  w[Len(u) + i].type = "F_SG" /\ w[Len(u) + i].octets = pieces[i]
    <3>1. i \in 1 .. K + 1
      BY <1>7
    <3>2. w[Len(u) + i] = p[i]
      BY <1>15, <1>16, <3>1
    <3> QED
      BY <1>12, <3>2
  <2> QED
    BY <1>4, <1>16, <2>1, ChunksSpell DEF K, pieces
<1>18. h \in 1 .. Len(w) /\ w[h] = a
  <2>1. K + 1 \in 1 .. K + 1 /\ Len(u) + (K + 1) = h
    BY <1>7, <1>16
  <2>2. w[Len(u) + (K + 1)] = o[K + 1]
    BY <1>16, <2>1
  <2> QED
    BY <1>7, <1>15, <1>16, <2>1, <2>2
<1>19. ASSUME NEW i \in 1 .. Len(w)
       PROVE  /\ i < h /\ Section(w[i]) => /\ w[i].type = "F_SG" /\ w[i].name = n
                                           /\ w[i].nos = k + 1
              /\ i > h => ~Section(w[i])
  <2>1. CASE i \in 1 .. Len(u)
    BY <1>7, <1>16, <2>1 DEF NoSection
  <2>2. CASE i - Len(u) \in 1 .. K + 1 /\ w[i] = o[i - Len(u)]
    <3>1. CASE i - Len(u) \in 1 .. K
      BY <1>7, <1>12, <1>15, <1>16, <2>2, <3>1, SMTT(30)
    <3>2. CASE i - Len(u) = K + 1
      BY <1>7, <1>16, <3>2
    <3> QED
      BY <1>7, <1>16, <2>2, <3>1, <3>2
  <2> QED
    BY <1>16, <2>1, <2>2
<1>20. Told(s, s, fresh)
  BY DEF Told
<1> HIDE DEF h
<1>21. Sent(t, <<>>, w, z, k, fresh)
  <2>1. \E x \in Data : Spells(t.section, w, h, x) /\ Told(x, s, fresh)
    BY <1>4, <1>17, <1>20
  <2>2. At(z, n, k)
    BY DEF At, z, n
  <2> QED
    BY <1>11, <1>18, <1>19, <2>1, <2>2 DEF Sent, n, s
<1>22. InPhase(t, <<>>, w, z, L, fresh)
  <2>1. k \in 0 .. Len(Sections(t.name))
    BY <1>2 DEF n
  <2> QED
    BY <1>1, <1>21, <2>1 DEF InPhase, Fetching, Ongoing
<1>23. ASSUME NEW j \in 0 .. Len(o) - 1
       PROVE  InPhase(t, <<>>, u \o SubSeq(o, 1, j), None, L, FALSE)
  <2> DEFINE q == SubSeq(o, 1, j)
  <2>1. q \in Seq(Up) /\ Len(q) = j /\ \A i \in 1 .. j : q[i] = o[i]
    BY <1>7, <1>15
  <2> HIDE DEF q
  <2>2. \A i \in 1 .. Len(q) : q[i].type \notin {"F_SR", "F_LS"}
    BY <1>7, <1>12, <1>15, <2>1
  <2>3. InPhase(t, <<>>, u \o q, None, L, FALSE)
    BY <1>1, <2>1, <2>2, Stays DEF Ongoing
  <2> QED
    BY <2>3 DEF q
<1>24. Phases(t, <<>>, u, o, z, L, fresh)
  BY <1>15, <1>22, <1>23 DEF Phases, w
<1>25. Refuses(o, L)
  BY <1>7, <1>11, <1>12, <1>15 DEF Refuses
<1>26. r.panic = FALSE /\ r.serving = z /\ r.store = store /\ r.out = o
  BY <1>14 DEF Keeping, Reply
<1> QED
  BY <1>24, <1>25, <1>26 DEF r, z, n

\* An answer before the sections.
LEMMA QuietReply ==
    ASSUME NEW t, NEW dn \in Seq(Down), dn # <<>>, NEW u \in Seq(Up), Opening(t, dn, u, Listing),
           NEW z, NEW s, Held(z, s), DOMAIN s \subseteq Listing, NEW o,
           o = <<>> \/ \E a \in Up : o = <<a>> /\ ~Section(a)
                                     /\ (a.type = "F_SC_NEG" => a.name \notin DOMAIN s),
           NEW fresh
    PROVE  Answered(Reply(z, s, o), t, Tail(dn), u, fresh)
<1> DEFINE r == Reply(z, s, o)
           M == DOMAIN s
<1>1. r.panic = FALSE /\ r.serving = z /\ r.store = s /\ r.out = o
  BY DEF Reply
<1>2. Refuses(o, M)
  <2>1. CASE o = <<>>
    BY <2>1 DEF Refuses
  <2>2. CASE \E a \in Up : o = <<a>> /\ (a.type = "F_SC_NEG" => a.name \notin M)
    <3>1. PICK a \in Up : o = <<a>> /\ (a.type = "F_SC_NEG" => a.name \notin M)
      BY <2>2
    <3>2. \A i \in 1 .. Len(o) : o[i] = a
      BY <3>1
    <3> QED
      BY <3>1, <3>2 DEF Refuses
  <2> QED
    BY <2>1, <2>2
<1>3. o = <<>> \/ \E a \in Up : o = <<a>> /\ ~Section(a)
  OBVIOUS
<1> HIDE DEF r, M
<1>4. Phases(t, Tail(dn), u, o, z, M, fresh)
  BY <1>3, QuietAnswer DEF M
<1>5. Answered(r, t, Tail(dn), u, fresh)
  BY <1>1, <1>2, <1>4 DEF Answered, M
<1> QED
  BY <1>5 DEF r

\* A file that is served starts with its first section.
LEMMA Started ==
    ASSUME NEW n \in Listing, NEW v, Held(v, store)
    PROVE  Transfer(n) = Serving(n, 0) /\ Held(Transfer(n), store)
<1>1. Transfer(n) = Serving(n, 0)
  BY DEF Transfer, Serving, Sections, Held, Listing
<1> QED
  BY <1>1 DEF Held, Listing

\* SELECT_FILE and REQUEST_FILE.
LEMMA FileAnswered ==
    ASSUME NEW t, NEW dn \in Seq(Down), dn # <<>>, NEW u \in Seq(Up), Opening(t, dn, u, Listing),
           Held(serving, store), NEW fresh, NEW select, select \in BOOLEAN,
           \/ select /\ Head(dn).action = "SELECT_FILE"
           \/ ~select /\ Head(dn).action = "REQUEST_FILE"
    PROVE  Answered(OnSelectFile(Head(dn).name, select), t, Tail(dn), u, fresh)
<1> DEFINE a == Head(dn)
           n == a.name
           d == Tail(dn)
           again == ~select /\ serving # None /\ serving.name = n
           r == OnSelectFile(n, select)
<1>1. a = dn[1] /\ a \in Down /\ Len(dn) \in Nat \ {0} /\ Len(d) = Len(dn) - 1 /\ d \in Seq(Down)
  BY Fewer
<1>2. n \in Name
  BY <1>1 DEF Down, SC, AF
<1>3. again => n \in Listing /\ [serving EXCEPT !.cur = 0] = Serving(n, 0)
  <2> SUFFICES ASSUME again PROVE n \in Listing /\ [serving EXCEPT !.cur = 0] = Serving(n, 0)
    OBVIOUS
  <2>1. PICK x \in Listing, k \in Nat : serving = Serving(x, k)
    BY DEF Held, Listing
  <2> QED
    BY <2>1 DEF Serving
<1>4. CASE ~again /\ ~Has(n)
  <2>1. r = Reply(serving, store, <<Refusal(n)>>)
    BY <1>4 DEF OnSelectFile, Keeping
  <2>2. /\ Refusal(n) \in Up /\ ~Section(Refusal(n)) /\ Refusal(n).name = n
        /\ n \notin DOMAIN store
    BY <1>2, <1>4 DEF Refusal, Up, NEG, Section, Has, Listing
  <2> HIDE DEF r, n
  <2>3. Answered(Reply(serving, store, <<Refusal(n)>>), t, Tail(dn), u, fresh)
    BY <2>2, QuietReply DEF Listing
  <2> QED
    BY <2>1, <2>3 DEF r, n
<1>5. CASE select /\ Has(n)
  <2>1. n \in Listing
    BY <1>5 DEF Has
  <2>2. Held(Transfer(n), store)
    BY <2>1, Started
  <2>3. r = Reply(Transfer(n), store, <<FileReady(n)>>)
    BY <1>5 DEF OnSelectFile, Keeping
  <2>4. FileReady(n) \in Up /\ ~Section(FileReady(n)) /\ FileReady(n).type # "F_SC_NEG"
    BY <1>2 DEF FileReady, Up, FR, Section
  <2> HIDE DEF r, n
  <2>5. Answered(Reply(Transfer(n), store, <<FileReady(n)>>), t, Tail(dn), u, fresh)
    BY <2>2, <2>4, QuietReply DEF Listing
  <2> QED
    BY <2>3, <2>5 DEF r, n
<1>6. CASE ~select /\ (again \/ Has(n))
  <2> DEFINE z == Serving(n, 0)
             o == <<SectionReady(z)>>
  <2>1. n \in Listing /\ n \in DOMAIN Content
    BY <1>3, <1>6 DEF Has, Held, Listing
  <2>2. Transfer(n) = z /\ Held(z, store)
    BY <2>1, Started
  <2>3. r = Reply(z, store, o)
    <3>1. CASE again
      BY <1>3, <3>1 DEF OnSelectFile, Keeping
    <3>2. CASE ~again
      BY <1>6, <2>2, <3>2 DEF OnSelectFile, Keeping
    <3> QED
      BY <3>1, <3>2
  <2>4. Len(dn) = 1 /\ t = Called(n) /\ NoSection(u)
    <3>1. a.action = "REQUEST_FILE" /\ 1 \in 1 .. Len(dn)
      BY <1>1, <1>6
    <3> QED
      BY <1>1, <2>1, <3>1 DEF Opening
  <2>5. d = <<>>
    <3> HIDE DEF d
    <3>1. d \in Seq(Down) /\ Len(d) = 0
      BY <1>1, <2>4
    <3> QED
      BY <3>1
  <2>6. t \in Transfers /\ t.name = n /\ t.called /\ t.file = <<>>
    BY <1>2, <2>4, NoneIsNone
  <2>7. Start(n, 0) = <<>> /\ 0 < Len(Sections(n)) /\ Listing \subseteq DOMAIN Content
    <3> HIDE DEF n
    <3>1. Start(n, 0) = <<>> /\ Len(Sections(n)) \in 1 .. MaxSections
      BY <2>1, SectionsAre
    <3>2. MaxSections \in Nat
      BY FileTransferAssumption
    <3> QED
      BY <3>1, <3>2 DEF Held, Listing
  <2>8. Ongoing(t, Listing, 0)
    BY <2>1, <2>6, <2>7 DEF Ongoing
  <2>9. 0 \in Nat
    OBVIOUS
  <2> HIDE DEF r, d, n, z
  <2>10. /\ Phases(t, <<>>, u, o, z, Listing, fresh)
         /\ SectionReady(z) \in Up /\ SectionReady(z).type = "F_SR"
    BY <2>4, <2>6, <2>7, <2>8, <2>9, AnnouncingAnswer DEF z
  <2>11. Refuses(o, Listing)
    BY <2>10 DEF Refuses
  <2>12. r.panic = FALSE /\ r.serving = z /\ r.store = store /\ r.out = o
    BY <2>3 DEF Reply
  <2> HIDE DEF o
  <2>13. Answered(r, t, d, u, fresh)
    BY <2>2, <2>5, <2>10, <2>11, <2>12 DEF Answered, Listing
  <2> QED
    BY <2>13 DEF r, d, n
<1> QED
  BY <1>4, <1>5, <1>6

\* Whatever is asked before the sections.
LEMMA OpeningAnswered ==
    ASSUME NEW t, NEW dn \in Seq(Down), dn # <<>>, NEW u \in Seq(Up), Opening(t, dn, u, Listing),
           Held(serving, store), NEW fresh
    PROVE  Answered(StationReply(Head(dn)), t, Tail(dn), u, fresh)
<1> DEFINE a == Head(dn)
           r == StationReply(a)
           n == a.name
<1>1. a = dn[1] /\ a \in Down /\ Len(dn) \in Nat \ {0}
  BY Fewer
<1>2. ~Moves(a)
  BY <1>1 DEF Opening
<1>3. /\ n \in Name
      /\ \/ a.type = "F_AF" /\ a.action \in {"POS_ACK_FILE", "NEG_ACK_FILE"}
         \/ a.type = "F_SC" /\ a.action \in {"SELECT_FILE", "REQUEST_FILE", "DEACTIVATE_FILE",
                                             "DELETE_FILE", "DEFAULT"}
  BY <1>1, <1>2 DEF Down, SC, AF, Moves
<1>4. Held(None, store)
  BY DEF Held
<1>5. CASE a.type = "F_AF"
  <2>1. r = Reply(None, store, <<>>)
    BY <1>3, <1>5 DEF StationReply, OnAck, Keeping
  <2> HIDE DEF r
  <2> QED
    BY <1>4, <2>1, QuietReply DEF r, Listing
<1>6. CASE a.type = "F_SC" /\ a.action = "DEACTIVATE_FILE"
  <2>1. r = Reply(None, store, <<>>)
    BY <1>6 DEF StationReply, OnCallOrSelect, Keeping
  <2> HIDE DEF r
  <2> QED
    BY <1>4, <2>1, QuietReply DEF r, Listing
<1>7. CASE a.type = "F_SC" /\ a.action = "SELECT_FILE"
  <2>1. r = OnSelectFile(n, TRUE)
    BY <1>7 DEF StationReply, OnCallOrSelect
  <2> HIDE DEF r
  <2> QED
    BY <1>7, <2>1, FileAnswered DEF r
<1>8. CASE a.type = "F_SC" /\ a.action = "REQUEST_FILE"
  <2>1. r = OnSelectFile(n, FALSE)
    BY <1>8 DEF StationReply, OnCallOrSelect
  <2> HIDE DEF r
  <2> QED
    BY <1>8, <2>1, FileAnswered DEF r
<1>9. CASE a.type = "F_SC" /\ a.action = "DEFAULT"
  <2> DEFINE o == IF Listing = {} THEN <<>> ELSE <<Directory>>
  <2>1. r = Reply(serving, store, o)
    BY <1>9 DEF StationReply, OnCallOrSelect, Keeping
  <2>2. Directory \in Up /\ ~Section(Directory) /\ Directory.type # "F_SC_NEG"
    BY DEF Directory, Up, DR, Section
  <2>3. o = <<>> \/ o = <<Directory>>
    OBVIOUS
  <2> HIDE DEF r, o
  <2> QED
    BY <2>1, <2>2, <2>3, QuietReply DEF r, Listing
<1>10. CASE a.type = "F_SC" /\ a.action = "DELETE_FILE" /\ ~Has(n)
  <2> DEFINE b == Ack("NEG_ACK_FILE", n, 0)
  <2>1. r = Reply(serving, store, <<b>>)
    BY <1>10 DEF StationReply, OnCallOrSelect, OnDelete, Keeping
  <2>2. b \in Up /\ b.type = "F_AF"
    BY <1>3, Kinds DEF Ack
  <2>3. ~Section(b) /\ b.type # "F_SC_NEG"
    BY <2>2 DEF Section
  <2> HIDE DEF r, b
  <2> QED
    BY <2>1, <2>2, <2>3, QuietReply DEF r, Listing
<1>11. CASE a.type = "F_SC" /\ a.action = "DELETE_FILE" /\ Has(n)
  <2> DEFINE z == IF serving # None /\ serving.name = n THEN None ELSE serving
             s == Without(n)
  <2>1. r = Reply(z, s, <<>>)
    BY <1>11 DEF StationReply, OnCallOrSelect, OnDelete
  <2>2. DOMAIN s = Listing \ {n} /\ \A x \in Listing \ {n} : s[x] = store[x]
    BY DEF Without
  <2>3. Held(z, s)
    <3>1. DOMAIN s \subseteq DOMAIN Content /\ \A x \in DOMAIN s : s[x] = Content[x]
      BY <2>2 DEF Held, Listing
    <3>2. z = None \/ \E x \in DOMAIN s, k \in Nat : z = Serving(x, k)
      <4> SUFFICES ASSUME z # None PROVE \E x \in DOMAIN s, k \in Nat : z = Serving(x, k)
        OBVIOUS
      <4>1. z = serving /\ serving # None /\ serving.name # n
        OBVIOUS
      <4>2. PICK x \in Listing, k \in Nat : serving = Serving(x, k)
        BY <4>1 DEF Held, Listing
      <4>3. x # n
        BY <4>1, <4>2 DEF Serving
      <4> QED
        BY <2>2, <4>1, <4>2, <4>3
    <3> HIDE DEF z, s
    <3> QED
      BY <3>1, <3>2 DEF Held
  <2>4. DOMAIN s \subseteq Listing
    BY <2>2
  <2> HIDE DEF r, z, s
  <2> QED
    BY <2>1, <2>3, <2>4, QuietReply DEF r
<1> QED
  BY <1>3, <1>5, <1>6, <1>7, <1>8, <1>9, <1>10, <1>11

\* An answer that ends the transfer: with the station's, or with a refusal.
LEMMA LastReply ==
    ASSUME NEW k \in Nat, NEW t, Ongoing(t, Listing, k), NEW u \in Seq(Up), NoSection(u),
           Held(serving, store), NEW o, o = <<>> \/ \E a \in Up : o = <<a>> /\ a.type = "F_AF",
           NEW fresh
    PROVE  Answered(Reply(None, store, o), t, <<>>, u, fresh)
<1> DEFINE r == Reply(None, store, o)
<1>1. r.panic = FALSE /\ r.serving = None /\ r.store = store /\ r.out = o
  BY DEF Reply
<1>2. t \in Transfers /\ t.name \in Listing /\ t.called
  BY DEF Ongoing
<1>3. /\ o \in Seq(Up) /\ (o = <<>> \/ \E a \in Up : o = <<a>>)
      /\ \A i \in 1 .. Len(o) : o[i].type = "F_AF"
  <2>1. CASE o = <<>>
    BY <2>1
  <2>2. CASE \E a \in Up : o = <<a>> /\ a.type = "F_AF"
    <3>1. PICK a \in Up : o = <<a>> /\ a.type = "F_AF"
      BY <2>2
    <3>2. o \in Seq(Up) /\ \A i \in 1 .. Len(o) : o[i] = a
      BY <3>1
    <3> QED
      BY <3>1, <3>2
  <2> QED
    BY <2>1, <2>2
<1>4. \A i \in 1 .. Len(o) : o[i].type \notin {"F_SR", "F_LS"}
  BY <1>3
<1>5. InPhase(t, <<>>, u \o o, None, Listing, fresh) /\ InPhase(t, <<>>, u, None, Listing, FALSE)
  BY <1>2, <1>3, <1>4, Stays, Rests
<1>6. Phases(t, <<>>, u, o, None, Listing, fresh)
  BY <1>3, <1>5, AtMostOne
<1>7. Refuses(o, Listing)
  BY <1>3 DEF Refuses
<1>8. Held(None, store)
  BY DEF Held
<1> HIDE DEF r
<1>9. Answered(r, t, <<>>, u, fresh)
  BY <1>1, <1>6, <1>7, <1>8 DEF Answered, Listing
<1> QED
  BY <1>9 DEF r

\* An answer with the data of a section.
LEMMA DataReply ==
    ASSUME NEW k \in Nat, NEW t, Ongoing(t, Listing, k), k < Len(Sections(t.name)),
           t.nos = k + 1, t.section = <<>>, NEW u \in Seq(Up), NoSection(u),
           Held(serving, store), NEW fresh
    PROVE  Answered(SectionData(Serving(t.name, k)), t, <<>>, u, fresh)
<1> DEFINE z == Serving(t.name, k)
           r == SectionData(z)
<1>1. Listing \subseteq DOMAIN Content /\ t.name \in Listing
  BY DEF Held, Listing, Ongoing
<1>2. /\ r.panic = FALSE /\ r.serving = z /\ r.store = store
      /\ Phases(t, <<>>, u, r.out, z, Listing, fresh) /\ Refuses(r.out, Listing)
  BY <1>1, DataAnswer
<1>3. Held(z, store)
  BY <1>1 DEF Held, Listing
<1> HIDE DEF r
<1>4. Answered(r, t, <<>>, u, fresh)
  BY <1>2, <1>3 DEF Answered, Listing
<1> QED
  BY <1>4 DEF r

\* Whatever moves the sections on.
LEMMA FetchingAnswered ==
    ASSUME NEW t \in {None} \cup Transfers, NEW dn \in Seq(Down), dn # <<>>, NEW u \in Seq(Up),
           NEW fresh, Fetching(t, dn, u, serving, Listing, fresh), Held(serving, store)
    PROVE  Answered(StationReply(Head(dn)), t, Tail(dn), u, fresh)
<1> DEFINE n == t.name
           d == Tail(dn)
           r == StationReply(Head(dn))
<1>1. PICK k \in 0 .. Len(Sections(n)) :
         /\ Trusted => t.file = Start(n, k)
         /\ \/ Asked(t, dn, u, serving, k) \/ Acknowledged(t, dn, u, serving, k)
            \/ Rejected(t, dn, u, serving, k)
  BY DEF Fetching, Stalled, Announced, Sent, Complete
<1>2. t \in Transfers /\ n \in Listing /\ t.called
  BY DEF Fetching
<1>3. k \in Nat /\ Ongoing(t, Listing, k)
  BY <1>1, <1>2 DEF Ongoing
<1>4. n \in Name /\ n \in DOMAIN Content /\ Listing \subseteq DOMAIN Content
  BY <1>2 DEF Transfers, Held, Listing
<1>5. Len(Sections(n)) \in 1 .. MaxSections /\ Sections(n) \in Seq(Data)
  <2> HIDE DEF n
  <2> QED
    BY <1>4, SectionsAre
<1>6. NoSection(u)
  BY <1>1 DEF Asked, Acknowledged, Rejected
<1>7. CASE Asked(t, dn, u, serving, k)
  <2> DEFINE a == CallOrSelect("REQUEST_SECTION", n, k + 1)
  <2>1. /\ k < Len(Sections(n)) /\ At(serving, n, k) /\ dn = <<a>>
        /\ t.nos = k + 1 /\ t.section = <<>>
    BY <1>7 DEF Asked
  <2>2. Head(dn) = a /\ d = <<>>
    BY <2>1, Fewer
  <2>3. /\ a.type = "F_SC" /\ a.action = "REQUEST_SECTION" /\ a.name = n /\ a.nos = k + 1
        /\ a.nos # 0 /\ a.nos - 1 = k
    BY <1>3 DEF CallOrSelect
  <2> HIDE DEF a
  <2>4. r = OnSelectSection(a, TRUE)
    BY <2>2, <2>3 DEF StationReply, OnCallOrSelect
  <2>5. CASE serving = None
    <3> DEFINE b == Ack("NEG_ACK_FILE", n, k + 1)
    <3>1. r = Reply(None, store, <<b>>)
      BY <2>3, <2>4, <2>5 DEF OnSelectSection, Keeping
    <3>2. b \in Up /\ b.type = "F_AF"
      <4>1. k + 1 \in Nat
        BY <1>3
      <4> QED
        BY <1>4, <4>1 DEF Ack, Up, AF
    <3> HIDE DEF b, r, d
    <3>3. Answered(Reply(None, store, <<b>>), t, <<>>, u, fresh)
      BY <1>3, <1>6, <3>2, LastReply
    <3> QED
      BY <2>2, <3>1, <3>3 DEF r, d
  <2>6. CASE serving # None
    <3> DEFINE z == Serving(n, k)
    <3>1. serving = z
      BY <2>1, <2>6 DEF At
    <3>2. z.name = n /\ z.sections = Sections(n) /\ [z EXCEPT !.cur = k] = z
      BY DEF Serving
    <3>3. k + 1 \in DOMAIN Sections(n)
      BY <1>3, <1>5, <2>1
    <3> HIDE DEF z
    <3>4. r = SectionData(z)
      BY <2>3, <2>4, <2>6, <3>1, <3>2, <3>3 DEF OnSelectSection
    <3> HIDE DEF r, d
    <3>5. Answered(SectionData(z), t, <<>>, u, fresh)
      BY <1>3, <1>6, <2>1, DataReply DEF z, n
    <3> QED
      BY <2>2, <3>4, <3>5 DEF r, d
  <2> QED
    BY <2>5, <2>6
<1>8. CASE Acknowledged(t, dn, u, serving, k)
  <2>0. PICK i \in Nat : dn = <<Ack("POS_ACK_SECTION", n, i)>>
    BY <1>8 DEF Acknowledged
  <2> DEFINE a == Ack("POS_ACK_SECTION", n, i)
  <2>1. k > 0 /\ At(serving, n, k - 1)
    BY <1>8 DEF Acknowledged
  <2>2. Head(dn) = a /\ d = <<>>
    BY <2>0, Fewer
  <2>3. a.type = "F_AF" /\ a.action = "POS_ACK_SECTION"
    BY DEF Ack
  <2> HIDE DEF a
  <2>4. r = OnAck(a)
    BY <2>2, <2>3 DEF StationReply
  <2>5. CASE serving = None
    <3>1. r = Reply(None, store, <<>>)
      BY <2>4, <2>5 DEF OnAck, Keeping
    <3> HIDE DEF r, d
    <3>2. Answered(Reply(None, store, <<>>), t, <<>>, u, fresh)
      BY <1>3, <1>6, LastReply
    <3> QED
      BY <2>2, <3>1, <3>2 DEF r, d
  <2>6. CASE serving # None
    <3> DEFINE y == Serving(n, k - 1)
               z == Serving(n, k)
               o == <<IF k < Len(Sections(n)) THEN SectionReady(z) ELSE LastSection(z)>>
    <3>1. serving = y
      BY <2>1, <2>6 DEF At
    <3>2. [y EXCEPT !.cur = @ + 1] = z /\ z.cur = k /\ z.sections = Sections(n)
      BY <1>3 DEF Serving
    <3> HIDE DEF y, z
    <3>3. r = Keeping(z, o)
      BY <2>3, <2>4, <2>6, <3>1, <3>2 DEF OnAck
    <3>4. r.panic = FALSE /\ r.serving = z /\ r.store = store /\ r.out = o
      <4> HIDE DEF r, o
      <4> QED
        BY <3>3 DEF Keeping, Reply
    <3>5. /\ Phases(t, <<>>, u, o, z, Listing, fresh)
          /\ \E b \in Up : o = <<b>> /\ b.type \in {"F_SR", "F_LS"}
      <4>1. CASE k < Len(Sections(n))
        <5>1. /\ Phases(t, <<>>, u, <<SectionReady(z)>>, z, Listing, fresh)
              /\ SectionReady(z) \in Up /\ SectionReady(z).type = "F_SR"
          BY <1>3, <1>4, <1>6, <4>1, AnnouncingAnswer DEF z
        <5> QED
          BY <4>1, <5>1
      <4>2. CASE k = Len(Sections(n))
        <5>1. /\ Phases(t, <<>>, u, <<LastSection(z)>>, z, Listing, fresh)
              /\ LastSection(z) \in Up /\ LastSection(z).type = "F_LS"
          BY <1>3, <1>4, <1>6, <4>2, CompletingAnswer DEF z
        <5> QED
          BY <4>2, <5>1
      <4> QED
        BY <1>5, <4>1, <4>2
    <3>6. Refuses(o, Listing)
      <4>1. PICK b \in Up : o = <<b>> /\ b.type \in {"F_SR", "F_LS"}
        BY <3>5
      <4> HIDE DEF o
      <4>2. \A j \in 1 .. Len(o) : o[j] = b
        BY <4>1
      <4> QED
        BY <4>1, <4>2 DEF Refuses
    <3>7. Held(z, store)
      BY <1>2, <1>3 DEF Held, Listing, z
    <3> HIDE DEF r, d, o
    <3>8. Answered(r, t, d, u, fresh)
      BY <2>2, <3>4, <3>5, <3>6, <3>7 DEF Answered, Listing
    <3> QED
      BY <3>8 DEF r, d
  <2> QED
    BY <2>5, <2>6
<1>9. CASE Rejected(t, dn, u, serving, k)
  <2>0. PICK i \in Nat : dn = <<Ack("NEG_ACK_SECTION", n, i)>>
    BY <1>9 DEF Rejected
  <2> DEFINE a == Ack("NEG_ACK_SECTION", n, i)
  <2>1. k < Len(Sections(n)) /\ At(serving, n, k) /\ t.nos = k + 1 /\ t.section = <<>>
    BY <1>9 DEF Rejected
  <2>2. Head(dn) = a /\ d = <<>>
    BY <2>0, Fewer
  <2>3. a.type = "F_AF" /\ a.action = "NEG_ACK_SECTION"
    BY DEF Ack
  <2> HIDE DEF a
  <2>4. r = OnAck(a)
    BY <2>2, <2>3 DEF StationReply
  <2>5. CASE serving = None
    <3>1. r = Reply(None, store, <<>>)
      BY <2>4, <2>5 DEF OnAck, Keeping
    <3> HIDE DEF r, d
    <3>2. Answered(Reply(None, store, <<>>), t, <<>>, u, fresh)
      BY <1>3, <1>6, LastReply
    <3> QED
      BY <2>2, <3>1, <3>2 DEF r, d
  <2>6. CASE serving # None
    <3> DEFINE z == Serving(n, k)
    <3>1. serving = z
      BY <2>1, <2>6 DEF At
    <3> HIDE DEF z
    <3>2. r = SectionData(z)
      BY <2>3, <2>4, <2>6, <3>1 DEF OnAck
    <3> HIDE DEF r, d
    <3>3. Answered(SectionData(z), t, <<>>, u, fresh)
      BY <1>3, <1>6, <2>1, DataReply DEF z, n
    <3> QED
      BY <2>2, <3>2, <3>3 DEF r, d
  <2> QED
    BY <2>5, <2>6
<1> QED
  BY <1>1, <1>7, <1>8, <1>9

\* Sender::handle, whatever the message.
LEMMA StationAnswers ==
    ASSUME NEW t \in {None} \cup Transfers, NEW dn \in Seq(Down), dn # <<>>, NEW u \in Seq(Up),
           NEW fresh, InPhase(t, dn, u, serving, Listing, fresh), Held(serving, store)
    PROVE  Answered(StationReply(Head(dn)), t, Tail(dn), u, fresh)
BY OpeningAnswered, FetchingAnswered DEF InPhase

-----------------------------------------------------------------------------
(***************************************************************************)
(* A segment lost, doubled or altered on its way.                          *)
(***************************************************************************)

\* Equal octets, D places further on.
LEMMA SamePiece ==
    ASSUME NEW x \in Data, NEW y \in Data, NEW a \in Nat, NEW b \in Nat, a <= b, b <= Len(x),
           NEW D \in Int, a + D >= 0, b + D <= Len(y), \A j \in a + 1 .. b : y[j + D] = x[j]
    PROVE  SubSeq(y, a + D + 1, b + D) = SubSeq(x, a + 1, b)
<1> DEFINE e == a + 1
           f == a + D + 1
           g == b + D
           v == SubSeq(x, e, b)
           w == SubSeq(y, f, g)
<1>1. x \in Seq(Nat) /\ y \in Seq(Nat) /\ Len(x) \in Nat /\ Len(y) \in Nat
  BY DEF Data
<1>2. e \in 1 .. Len(x) + 1 /\ b \in e - 1 .. Len(x) /\ f \in 1 .. Len(y) + 1 /\ g \in f - 1 .. Len(y)
      /\ b - e + 1 = b - a /\ g - f + 1 = b - a
  BY <1>1
<1> HIDE DEF e, f, g
<1>3. /\ v \in Seq(Nat) /\ Len(v) = b - e + 1 /\ \A j \in 1 .. b - e + 1 : v[j] = x[e + j - 1]
      /\ w \in Seq(Nat) /\ Len(w) = g - f + 1 /\ \A j \in 1 .. g - f + 1 : w[j] = y[f + j - 1]
  <2>1. \A j \in e .. b : x[j] \in Nat
    BY <1>1, <1>2, SMTT(30)
  <2>2. \A j \in f .. g : y[j] \in Nat
    BY <1>1, <1>2, SMTT(30)
  <2>3. /\ SubSeq(x, e, b) \in Seq(Nat) /\ Len(SubSeq(x, e, b)) = IF e <= b THEN b - e + 1 ELSE 0
        /\ \A j \in 1 .. b - e + 1 : SubSeq(x, e, b)[j] = x[e + j - 1]
    BY <1>2, <2>1, SubSeqProperties
  <2>4. /\ SubSeq(y, f, g) \in Seq(Nat) /\ Len(SubSeq(y, f, g)) = IF f <= g THEN g - f + 1 ELSE 0
        /\ \A j \in 1 .. g - f + 1 : SubSeq(y, f, g)[j] = y[f + j - 1]
    BY <1>2, <2>2, SubSeqProperties
  <2> QED
    BY <1>2, <2>3, <2>4
<1> HIDE DEF v, w
<1>4. ASSUME NEW j \in 1 .. b - a PROVE w[j] = v[j]
  <2>1. e + j - 1 \in a + 1 .. b /\ f + j - 1 = (e + j - 1) + D
    BY <1>2 DEF e, f
  <2>2. v[j] = x[e + j - 1] /\ w[j] = y[f + j - 1]
    BY <1>2, <1>3
  <2> QED
    BY <2>1, <2>2
<1>5. v = w
  BY <1>2, <1>3, <1>4, SeqEqual
<1> QED
  BY <1>5 DEF v, w, e, f, g

\* The values at which l segments end instead of segment i, and the others D further on.
Recut(cut, i, h, l, D) ==
    [j \in 0 .. h - 2 + l |-> IF j <= i - 1 THEN cut[j]
                              ELSE IF j < i - 1 + l THEN cut[i] ELSE cut[j + 1 - l] + D]

\* How far on, for a segment of d octets.
Shift(l, d, D) == (l = 0 /\ D = -d) \/ (l = 1 /\ D = 0) \/ (l = 2 /\ D = d)

\* They cut a section of len + D octets, and the others are where they were.
Recuts(c, cut, i, h, l, D, len) ==
    /\ c \in [0 .. h - 2 + l -> 0 .. len + D] /\ c[h - 2 + l] = len + D
    /\ \A j, k \in 0 .. h - 2 + l : j <= k => c[j] <= c[k]
    /\ \A j \in 0 .. i - 1 : c[j] = cut[j]
    /\ \A j \in i .. h - 1 : c[j - 1 + l] = cut[j] + D
    /\ l = 2 => c[i] = cut[i]

LEMMA RecutIs ==
    ASSUME NEW h \in Nat, NEW i \in 1 .. h - 1, NEW len \in Nat, NEW cut \in [0 .. h - 1 -> 0 .. len],
           cut[h - 1] = len, \A j, k \in 0 .. h - 1 : j <= k => cut[j] <= cut[k],
           NEW l \in 0 .. 2, NEW D \in Int, Shift(l, cut[i] - cut[i - 1], D)
    PROVE  Recuts(Recut(cut, i, h, l, D), cut, i, h, l, D, len)
<1> DEFINE c == Recut(cut, i, h, l, D)
           H == h - 2 + l
           p == cut[i - 1]
           q == cut[i]
<1>1. i \in Nat /\ l \in Nat /\ H \in Nat /\ i - 1 <= H /\ i - 1 \in 0 .. h - 1 /\ i \in 0 .. h - 1
  OBVIOUS
<1>2. p \in Nat /\ q \in Nat /\ p <= q /\ q <= len
  BY <1>1
<1>3. /\ \A j \in 0 .. i - 1 : cut[j] \in Nat /\ cut[j] <= p
      /\ \A j \in i .. h - 1 : cut[j] \in Nat /\ q <= cut[j] /\ cut[j] <= len
  BY <1>1
<1>4. DOMAIN c = 0 .. H /\ c = [j \in 0 .. H |-> c[j]]
  BY DEF Recut
<1>5. \A j \in 0 .. i - 1 : j \in 0 .. H /\ c[j] = cut[j]
  BY <1>1 DEF Recut
<1>6. \A j \in i .. h - 1 : j - 1 + l \in 0 .. H /\ c[j - 1 + l] = cut[j] + D
  <2>1. ASSUME NEW j \in i .. h - 1
        PROVE  j - 1 + l \in 0 .. H /\ c[j - 1 + l] = cut[j] + D
    <3>1. j - 1 + l \in 0 .. H /\ (j - 1 + l) + 1 - l = j /\ ~(j - 1 + l < i - 1 + l)
      BY <1>1
    <3>2. CASE j - 1 + l <= i - 1
      <4>1. l = 0 /\ j = i
        BY <1>1, <3>2
      <4>2. D = p - q
        BY <1>2, <4>1 DEF Shift
      <4>3. c[j - 1 + l] = p
        BY <1>1, <3>1, <4>1 DEF Recut
      <4> QED
        BY <1>2, <3>1, <4>1, <4>2, <4>3
    <3>3. CASE ~(j - 1 + l <= i - 1)
      BY <3>1, <3>3 DEF Recut
    <3> QED
      BY <3>2, <3>3
  <2> QED
    BY <2>1
<1>7. l = 2 => i \in 0 .. H /\ c[i] = q
  BY <1>1 DEF Recut
<1>8. \A j \in 0 .. H : \/ j \in 0 .. i - 1
                       \/ (l = 2 /\ j = i)
                       \/ \E k \in i .. h - 1 : j = k - 1 + l
  <2>1. ASSUME NEW j \in 0 .. H, j \notin 0 .. i - 1, ~(l = 2 /\ j = i)
        PROVE  j + 1 - l \in i .. h - 1 /\ j = (j + 1 - l) - 1 + l
    BY <1>1, <2>1
  <2> QED
    BY <2>1
<1>9. /\ 0 <= len + D /\ p <= q + D /\ len + D >= q + D
      /\ (l = 2 => q <= q + D) /\ (q + D) - p \in Nat
  <2> HIDE DEF p, q
  <2>1. Shift(l, q - p, D)
    BY DEF p, q
  <2> QED
    BY <1>2, <2>1 DEF Shift
<1> DEFINE At1(j, x) == \/ j \in 0 .. i - 1 /\ x = cut[j]
                        \/ l = 2 /\ j = i /\ x = q
                        \/ \E k \in i .. h - 1 : j = k - 1 + l /\ x = cut[k] + D
<1> HIDE DEF c, H, p, q
<1>10. \A j \in 0 .. H : At1(j, c[j])
  BY <1>5, <1>6, <1>7, <1>8
<1>11. ASSUME NEW j \in 0 .. H PROVE c[j] \in 0 .. len + D
  <2>1. CASE j \in 0 .. i - 1 /\ c[j] = cut[j]
    BY <1>2, <1>3, <1>9, <2>1
  <2>2. CASE l = 2 /\ c[j] = q
    BY <1>2, <1>9, <2>2
  <2>3. CASE \E k \in i .. h - 1 : c[j] = cut[k] + D
    BY <1>2, <1>3, <1>9, <2>3
  <2> QED
    BY <1>10, <2>1, <2>2, <2>3
<1>12. ASSUME NEW j \in 0 .. H, NEW k \in 0 .. H, j <= k
       PROVE  c[j] <= c[k]
  <2>1. CASE k \in 0 .. i - 1
    <3>1. j \in 0 .. i - 1 /\ j \in 0 .. h - 1 /\ k \in 0 .. h - 1
      BY <1>1, <1>12, <2>1
    <3> QED
      BY <1>5, <1>12, <2>1, <3>1
  <2>2. CASE l = 2 /\ k = i
    <3>1. CASE j = i
      BY <1>2, <1>7, <2>2, <3>1
    <3>2. CASE j # i
      <4>1. j \in 0 .. i - 1
        BY <1>1, <1>12, <2>2, <3>2
      <4>2. c[j] = cut[j] /\ cut[j] \in Nat /\ cut[j] <= p
        BY <1>3, <1>5, <4>1
      <4> QED
        BY <1>2, <1>7, <2>2, <4>2
    <3> QED
      BY <3>1, <3>2
  <2>3. CASE \E m \in i .. h - 1 : k = m - 1 + l /\ c[k] = cut[m] + D
    <3>1. PICK m \in i .. h - 1 : k = m - 1 + l /\ c[k] = cut[m] + D
      BY <2>3
    <3>2. cut[m] \in Nat /\ q <= cut[m]
      BY <1>3
    <3>3. CASE j \in 0 .. i - 1 /\ c[j] = cut[j]
      <4>1. cut[j] \in Nat /\ cut[j] <= p
        BY <1>3, <3>3
      <4> QED
        BY <1>2, <1>9, <3>1, <3>2, <3>3, <4>1, SMTT(30)
    <3>4. CASE l = 2 /\ c[j] = q
      BY <1>2, <1>9, <3>1, <3>2, <3>4
    <3>5. CASE \E n \in i .. h - 1 : j = n - 1 + l /\ c[j] = cut[n] + D
      <4>1. PICK n \in i .. h - 1 : j = n - 1 + l /\ c[j] = cut[n] + D
        BY <3>5
      <4>2. n <= m /\ n \in 0 .. h - 1 /\ m \in 0 .. h - 1
        BY <1>1, <1>12, <3>1, <4>1
      <4>3. cut[n] <= cut[m] /\ cut[n] \in Nat
        BY <1>3, <4>2
      <4> QED
        BY <3>1, <3>2, <4>1, <4>3
    <3> QED
      BY <1>10, <3>3, <3>4, <3>5
  <2> QED
    BY <1>10, <2>1, <2>2, <2>3
<1>13. c[H] = len + D
  <2>1. h - 1 \in i .. h - 1 /\ (h - 1) - 1 + l = H
    BY <1>1 DEF H
  <2>2. c[(h - 1) - 1 + l] = cut[h - 1] + D
    BY <1>6, <2>1
  <2> QED
    BY <2>1, <2>2
<1>14. c \in [0 .. H -> 0 .. len + D]
  BY <1>4, <1>11
<1>15. \A j \in i .. h - 1 : c[j - 1 + l] = cut[j] + D
  BY <1>6
<1> QED
  BY <1>5, <1>7, <1>12, <1>13, <1>14, <1>15 DEF Recuts, c, H, q

\* l segments instead of segment i, which holds the octets from p to q of x, spell y.
Respelling(section, u, w, h, i, l, x, y, p, q, D) ==
    /\ Len(y) = Len(x) + D /\ \A j \in 1 .. p : y[j] = x[j]
    /\ \A j \in q + 1 .. Len(x) : y[j + D] = x[j]
    /\ \A j \in 1 .. i - 1 : w[j] = u[j]
    /\ \A j \in i + 1 .. h - 1 : w[j - 1 + l] = u[j]
    /\ q - p <= MaxSegment
    /\ l > 0 => w[i].type = "F_SG" /\ w[i].octets = SubSeq(y, p + 1, q)
    /\ l = 2 => w[i + 1].type = "F_SG" /\ w[i + 1].octets = SubSeq(y, q + 1, q + D)

\* Cut anew, they are what y is cut into.
LEMMA Respelled ==
    ASSUME NEW section \in Data, NEW u \in Seq(Up), NEW h \in 1 .. Len(u), NEW x \in Data,
           NEW cut, Cuts(cut, section, u, h, x), NEW i \in 1 .. h - 1, NEW y \in Data,
           NEW p \in Nat, NEW q \in Nat, p = cut[i - 1], q = cut[i], NEW D \in Int, NEW l \in 0 .. 2,
           Shift(l, q - p, D), NEW w, Respelling(section, u, w, h, i, l, x, y, p, q, D)
    PROVE  Spells(section, w, h - 1 + l, y)
<1> DEFINE H == h - 1 + l
           c == Recut(cut, i, h, l, D)
           e == Len(section)
           len == Len(x)
           new == Len(y)
<1>0. /\ len \in Nat /\ new \in Nat /\ e \in Nat /\ h \in Nat /\ i \in Nat /\ l \in Nat
      /\ H \in Nat /\ H - 1 = h - 2 + l /\ i <= h - 1
  BY DEF Data
<1>1. /\ cut \in [0 .. h - 1 -> 0 .. len] /\ cut[0] = e /\ section = SubSeq(x, 1, e)
      /\ cut[h - 1] = len /\ \A j, k \in 0 .. h - 1 : j <= k => cut[j] <= cut[k]
      /\ \A j \in 1 .. h - 1 : PieceIs(u[j], x, cut[j - 1], cut[j])
  BY DEF Cuts
<1> HIDE DEF e, len, new, H
<1>2. /\ new = len + D /\ \A j \in 1 .. p : y[j] = x[j]
      /\ \A j \in q + 1 .. len : y[j + D] = x[j]
      /\ q - p <= MaxSegment
  BY DEF Respelling, len, new
<1>3. /\ c \in [0 .. H - 1 -> 0 .. new] /\ c[H - 1] = new
      /\ \A j, k \in 0 .. H - 1 : j <= k => c[j] <= c[k]
      /\ \A j \in 0 .. i - 1 : c[j] = cut[j]
      /\ \A j \in i .. h - 1 : c[j - 1 + l] = cut[j] + D
      /\ l = 2 => c[i] = cut[i]
  <2>0. Shift(l, cut[i] - cut[i - 1], D)
    OBVIOUS
  <2> HIDE DEF c
  <2>1. /\ c \in [0 .. h - 2 + l -> 0 .. len + D] /\ c[h - 2 + l] = len + D
        /\ \A j, k \in 0 .. h - 2 + l : j <= k => c[j] <= c[k]
        /\ \A j \in 0 .. i - 1 : c[j] = cut[j]
        /\ \A j \in i .. h - 1 : c[j - 1 + l] = cut[j] + D
        /\ l = 2 => c[i] = cut[i]
    <3>1. Recuts(Recut(cut, i, h, l, D), cut, i, h, l, D, len)
      BY <1>0, <1>1, <2>0, RecutIs
    <3>2. Recuts(c, cut, i, h, l, D, len)
      BY <3>1 DEF c
    <3> QED
      BY <3>2 DEF Recuts
  <2> QED
    BY <1>0, <1>2, <2>1
<1> HIDE DEF c
<1>4. /\ p <= q /\ q <= len /\ e <= p /\ \A j \in 0 .. h - 1 : cut[j] \in Nat /\ cut[j] <= len
      /\ i - 1 \in 0 .. h - 1 /\ i \in 0 .. h - 1 /\ 0 \in 0 .. h - 1 /\ 0 \in 0 .. i - 1
  BY <1>0, <1>1, SMTT(30)
<1>5. p <= q + D /\ p <= new /\ q + D <= new /\ (l = 1 => D = 0) /\ (l = 2 => D = q - p)
  <2>1. p <= q + D /\ p <= len + D /\ q + D <= len + D /\ (l = 1 => D = 0) /\ (l = 2 => D = q - p)
    <3>1. p <= q /\ q <= len /\ len \in Nat
      BY <1>0, <1>4
    <3>2. \/ l = 0 /\ D = -(q - p)
          \/ l = 1 /\ D = 0
          \/ l = 2 /\ D = q - p
      BY DEF Shift
    <3>3. CASE l = 0 /\ D = -(q - p)
      BY <3>1, <3>3, SMTT(30)
    <3>4. CASE l = 1 /\ D = 0
      BY <3>1, <3>4
    <3>5. CASE l = 2 /\ D = q - p
      BY <3>1, <3>5, SMTT(30)
    <3> QED
      BY <3>2, <3>3, <3>4, <3>5
  <2> QED
    BY <1>2, <2>1
<1>6. ASSUME NEW a \in Nat, NEW b \in Nat, a <= b, b <= p
      PROVE  SubSeq(y, a + 1, b) = SubSeq(x, a + 1, b)
  <2> DEFINE z == 0
  <2>1. z \in Int /\ a + z >= 0 /\ b <= Len(x) /\ b + z <= Len(y) /\ a + z + 1 = a + 1 /\ b + z = b
    <3>1. p <= len /\ p <= new /\ len \in Nat /\ new \in Nat
      BY <1>0, <1>4, <1>5
    <3> QED
      BY <1>6, <3>1 DEF len, new
  <2>2. \A j \in a + 1 .. b : y[j + z] = x[j]
    BY <1>2, <1>6
  <2> HIDE DEF z
  <2>3. SubSeq(y, a + z + 1, b + z) = SubSeq(x, a + 1, b)
    BY <1>6, <2>1, <2>2, SamePiece
  <2> QED
    BY <2>1, <2>3
<1>7. c[0] = e /\ section = SubSeq(y, 1, e)
  <2>1. c[0] = e
    BY <1>1, <1>3, <1>4
  <2>2. 0 \in Nat /\ 0 <= e /\ 0 + 1 = 1
    BY <1>0
  <2>3. SubSeq(y, 0 + 1, e) = SubSeq(x, 0 + 1, e)
    BY <1>0, <1>4, <1>6, <2>2
  <2> QED
    BY <1>1, <2>1, <2>2, <2>3
<1>8. ASSUME NEW j \in 1 .. H - 1
      PROVE  PieceIs(w[j], y, c[j - 1], c[j])
  <2>1. CASE j \in 1 .. i - 1
    <3> DEFINE a == cut[j - 1]
               b == cut[j]
    <3>0. /\ j \in 1 .. h - 1 /\ j - 1 \in 0 .. h - 1 /\ j \in 0 .. h - 1 /\ j <= i - 1
          /\ j \in 0 .. i - 1 /\ j - 1 \in 0 .. i - 1 /\ j - 1 <= j
      BY <1>0, <2>1
    <3>1. c[j - 1] = a /\ c[j] = b /\ PieceIs(u[j], x, a, b)
      BY <1>1, <1>3, <3>0
    <3>2. w[j] = u[j]
      BY <2>1 DEF Respelling
    <3>3. a \in Nat /\ b \in Nat /\ a <= b /\ b <= p
      BY <1>1, <1>4, <3>0
    <3> HIDE DEF a, b
    <3>4. SubSeq(y, a + 1, b) = SubSeq(x, a + 1, b)
      BY <1>6, <3>3
    <3> QED
      BY <3>1, <3>2, <3>4 DEF PieceIs
  <2>2. CASE j = i /\ l > 0
    <3>1. c[j - 1] = p
      BY <1>0, <1>3, <2>2
    <3>2. c[j] = q
      <4>1. CASE l = 2
        BY <1>3, <2>2, <4>1
      <4>2. CASE l = 1
        <5>1. i \in i .. h - 1 /\ i - 1 + l = j
          BY <1>0, <2>2, <4>2
        <5>2. c[i - 1 + l] = q + D
          BY <1>3, <5>1
        <5> QED
          BY <1>5, <4>2, <5>1, <5>2
      <4> QED
        BY <2>2, <4>1, <4>2
    <3>3. w[i].type = "F_SG" /\ w[i].octets = SubSeq(y, p + 1, q)
      BY <2>2 DEF Respelling
    <3> QED
      BY <1>2, <2>2, <3>1, <3>2, <3>3 DEF PieceIs
  <2>3. CASE l = 2 /\ j = i + 1
    <3>1. c[j - 1] = q
      BY <1>0, <1>3, <2>3
    <3>2. c[j] = q + D
      <4>1. i \in i .. h - 1 /\ i - 1 + l = j
        BY <1>0, <2>3
      <4>2. c[i - 1 + l] = q + D
        BY <1>3, <4>1
      <4> QED
        BY <4>1, <4>2
    <3>3. (q + D) - q <= MaxSegment
      BY <1>2, <1>5, <2>3
    <3>4. w[i + 1].type = "F_SG" /\ w[i + 1].octets = SubSeq(y, q + 1, q + D)
      BY <2>3 DEF Respelling
    <3> QED
      BY <2>3, <3>1, <3>2, <3>3, <3>4 DEF PieceIs
  <2>4. CASE j \in i + l .. H - 1
    <3> DEFINE k == j + 1 - l
               a == cut[k - 1]
               b == cut[k]
    <3>1. k \in i + 1 .. h - 1 /\ k - 1 + l = j /\ k - 1 \in i .. h - 1 /\ (k - 1) - 1 + l = j - 1
          /\ k \in i .. h - 1 /\ k \in 1 .. h - 1 /\ k \in 0 .. h - 1 /\ k - 1 \in 0 .. h - 1
          /\ k - 1 <= k /\ i <= k - 1
      BY <1>0, <2>4
    <3> HIDE DEF k
    <3>2. PieceIs(u[k], x, a, b)
      BY <1>1, <3>1
    <3>3. w[k - 1 + l] = u[k]
      BY <3>1 DEF Respelling
    <3>4. c[k - 1 + l] = b + D /\ c[(k - 1) - 1 + l] = a + D
      BY <1>3, <3>1
    <3>5. w[j] = u[k] /\ c[j] = b + D /\ c[j - 1] = a + D
      BY <3>1, <3>3, <3>4
    <3>6. a \in Nat /\ b \in Nat /\ a <= b /\ b <= len /\ q <= a
      BY <1>1, <1>4, <3>1
    <3> HIDE DEF a, b
    <3>7. a + D >= 0 /\ b + D <= new /\ (b + D) - (a + D) = b - a /\ (a = b => a + D = b + D)
      BY <1>0, <1>2, <1>4, <1>5, <3>6
    <3>8. \A m \in a + 1 .. b : y[m + D] = x[m]
      BY <1>0, <1>2, <3>6
    <3>9. SubSeq(y, a + D + 1, b + D) = SubSeq(x, a + 1, b)
      BY <3>6, <3>7, <3>8, SamePiece DEF len, new
    <3> QED
      BY <3>2, <3>5, <3>7, <3>9 DEF PieceIs
  <2> QED
    BY <1>0, <2>1, <2>2, <2>3, <2>4
<1>9. Cuts(c, section, w, H, y)
  BY <1>3, <1>7, <1>8 DEF Cuts, e, new
<1> QED
  BY <1>9 DEF Spells, H

\* w is u with o instead of its i-th message.
Replaces(w, u, i, o) ==
    /\ w \in Seq(Up) /\ Len(w) = Len(u) - 1 + Len(o)
    /\ \A j \in 1 .. i - 1 : w[j] = u[j]
    /\ \A j \in 1 .. Len(o) : w[i - 1 + j] = o[j]
    /\ \A j \in i + 1 .. Len(u) : w[j - 1 + Len(o)] = u[j]
    /\ \A j \in 1 .. Len(w) : \/ j \in 1 .. i - 1 /\ w[j] = u[j]
                              \/ \E k \in 1 .. Len(o) : j = i - 1 + k /\ w[j] = o[k]
                              \/ \E k \in i + 1 .. Len(u) : j = k - 1 + Len(o) /\ w[j] = u[k]

\* This is what the fault makes of it.
LEMMA Replaced ==
    ASSUME NEW u \in Seq(Up), NEW i \in 1 .. Len(u), NEW o \in Seq(Up)
    PROVE  Replaces(SubSeq(u, 1, i - 1) \o o \o SubSeq(u, i + 1, Len(u)), u, i, o)
<1> DEFINE a == SubSeq(u, 1, i - 1)
           b == SubSeq(u, i + 1, Len(u))
           c == a \o o
           w == c \o b
           n == Len(u)
           l == Len(o)
<1>1. n \in Nat /\ l \in Nat /\ i \in Nat /\ i <= n /\ i > 0
  OBVIOUS
<1>2. a \in Seq(Up) /\ Len(a) = i - 1 /\ \A j \in 1 .. i - 1 : a[j] = u[j]
  <2> HIDE DEF n
  <2> QED
    BY <1>1 DEF n
<1>3. b \in Seq(Up) /\ Len(b) = n - i /\ \A j \in 1 .. n - i : b[j] = u[j + i]
  <2>1. b \in Seq(Up) /\ Len(b) = n - i /\ \A j \in 1 .. n - i : b[j] = u[i + 1 + j - 1]
    BY <1>1
  <2>2. \A j \in 1 .. n - i : i + 1 + j - 1 = j + i
    BY <1>1
  <2> HIDE DEF b, n
  <2> QED
    BY <2>1, <2>2
<1> HIDE DEF a, b
<1>4. c \in Seq(Up) /\ Len(c) = i - 1 + l
      /\ \A j \in 1 .. i - 1 + l : c[j] = IF j <= i - 1 THEN a[j] ELSE o[j - (i - 1)]
  <2>1. c \in Seq(Up) /\ Len(c) = Len(a) + Len(o)
        /\ \A j \in 1 .. Len(a) + Len(o) : c[j] = IF j <= Len(a) THEN a[j] ELSE o[j - Len(a)]
    BY <1>2, ConcatProperties
  <2> HIDE DEF c
  <2> QED
    BY <1>2, <2>1
<1> HIDE DEF c
<1>5. w \in Seq(Up) /\ Len(w) = n - 1 + l
      /\ \A j \in 1 .. n - 1 + l : w[j] = IF j <= i - 1 + l THEN c[j] ELSE b[j - (i - 1 + l)]
  <2>1. w \in Seq(Up) /\ Len(w) = Len(c) + Len(b)
        /\ \A j \in 1 .. Len(c) + Len(b) : w[j] = IF j <= Len(c) THEN c[j] ELSE b[j - Len(c)]
    BY <1>3, <1>4, ConcatProperties
  <2>2. Len(c) + Len(b) = n - 1 + l
    BY <1>1, <1>3, <1>4
  <2> HIDE DEF w
  <2> QED
    BY <1>4, <2>1, <2>2
<1> HIDE DEF w, n, l
<1>6. \A j \in 1 .. i - 1 : w[j] = u[j]
  BY <1>1, <1>2, <1>4, <1>5
<1>7. ASSUME NEW j \in 1 .. l PROVE w[i - 1 + j] = o[j]
  <2> DEFINE m == i - 1 + j
  <2>1. m \in 1 .. n - 1 + l /\ m \in 1 .. i - 1 + l /\ m <= i - 1 + l /\ ~(m <= i - 1)
        /\ m - (i - 1) = j
    BY <1>1
  <2> HIDE DEF m
  <2>2. w[m] = o[j]
    BY <1>4, <1>5, <2>1
  <2> QED
    BY <2>2 DEF m
<1>8. ASSUME NEW j \in i + 1 .. n PROVE w[j - 1 + l] = u[j]
  <2> DEFINE m == j - 1 + l
  <2>1. m \in 1 .. n - 1 + l /\ ~(m <= i - 1 + l) /\ m - (i - 1 + l) = j - i /\ j - i \in 1 .. n - i
        /\ (j - i) + i = j
    BY <1>1
  <2> HIDE DEF m
  <2>2. w[m] = b[j - i]
    BY <1>5, <2>1
  <2>3. b[j - i] = u[j]
    BY <1>3, <2>1
  <2> QED
    BY <2>2, <2>3 DEF m
<1>9. ASSUME NEW j \in 1 .. n - 1 + l
      PROVE  \/ j \in 1 .. i - 1 /\ w[j] = u[j]
             \/ \E k \in 1 .. l : j = i - 1 + k /\ w[j] = o[k]
             \/ \E k \in i + 1 .. n : j = k - 1 + l /\ w[j] = u[k]
  <2>1. CASE j \in 1 .. i - 1
    BY <1>6, <2>1
  <2>2. CASE j \in i .. i - 1 + l
    <3>1. j - (i - 1) \in 1 .. l /\ j = i - 1 + (j - (i - 1))
      BY <1>1, <2>2
    <3> QED
      BY <1>7, <3>1
  <2>3. CASE j \in i + l .. n - 1 + l
    <3>1. j + 1 - l \in i + 1 .. n /\ j = (j + 1 - l) - 1 + l
      BY <1>1, <2>3
    <3> QED
      BY <1>8, <3>1
  <2> QED
    BY <1>1, <2>1, <2>2, <2>3
<1>10. Replaces(w, u, i, o)
  BY <1>5, <1>6, <1>7, <1>8, <1>9 DEF Replaces, n, l
<1> QED
  BY <1>10 DEF w, a, b, c

\* y is x up to r, and from s on, r - s places further on.
Joins(y, x, r, s) ==
    /\ y \in Data /\ Len(y) = Len(x) + (r - s)
    /\ \A j \in 1 .. r : y[j] = x[j]
    /\ \A j \in s + 1 .. Len(x) : y[j + (r - s)] = x[j]

\* The first r octets of x, and those after s.
LEMMA Joined ==
    ASSUME NEW x \in Data, NEW r \in Nat, NEW s \in Nat, r <= Len(x), s <= Len(x)
    PROVE  Joins(SubSeq(x, 1, r) \o SubSeq(x, s + 1, Len(x)), x, r, s)
<1> DEFINE a == SubSeq(x, 1, r)
           b == SubSeq(x, s + 1, Len(x))
           y == a \o b
           n == Len(x)
<1>1. x \in Seq(Nat) /\ n \in Nat
  BY DEF Data
<1>2. a \in Seq(Nat) /\ Len(a) = r /\ \A j \in 1 .. r : a[j] = x[j]
  BY <1>1
<1>3. b \in Seq(Nat) /\ Len(b) = n - s /\ \A j \in 1 .. n - s : b[j] = x[j + s]
  <2>1. b \in Seq(Nat) /\ Len(b) = n - s /\ \A j \in 1 .. n - s : b[j] = x[s + 1 + j - 1]
    BY <1>1
  <2>2. \A j \in 1 .. n - s : s + 1 + j - 1 = j + s
    BY <1>1
  <2> HIDE DEF b, n
  <2> QED
    BY <2>1, <2>2
<1> HIDE DEF a, b
<1>4. y \in Seq(Nat) /\ Len(y) = r + (n - s)
      /\ \A j \in 1 .. r + (n - s) : y[j] = IF j <= r THEN a[j] ELSE b[j - r]
  <2>1. y \in Seq(Nat) /\ Len(y) = Len(a) + Len(b)
        /\ \A j \in 1 .. Len(a) + Len(b) : y[j] = IF j <= Len(a) THEN a[j] ELSE b[j - Len(a)]
    BY <1>2, <1>3, ConcatProperties
  <2> HIDE DEF y
  <2> QED
    BY <1>2, <1>3, <2>1
<1>5. s <= n
  OBVIOUS
<1> HIDE DEF y, n
<1>6. ASSUME NEW j \in 1 .. r PROVE y[j] = x[j]
  <2>1. j \in 1 .. r + (n - s) /\ j <= r
    BY <1>1, <1>5
  <2>2. y[j] = a[j]
    BY <1>4, <2>1
  <2> QED
    BY <1>2, <2>2
<1>7. ASSUME NEW j \in s + 1 .. n PROVE y[j + (r - s)] = x[j]
  <2> DEFINE m == j + (r - s)
  <2>1. m \in 1 .. r + (n - s) /\ ~(m <= r) /\ m - r = j - s /\ j - s \in 1 .. n - s /\ (j - s) + s = j
    BY <1>1
  <2> HIDE DEF m
  <2>2. y[m] = b[j - s] /\ b[j - s] = x[j]
    BY <1>3, <1>4, <2>1
  <2> QED
    BY <2>2 DEF m
<1>8. Len(y) = n + (r - s)
  BY <1>1, <1>4
<1>9. Joins(y, x, r, s)
  BY <1>4, <1>6, <1>7, <1>8 DEF Joins, Data, n
<1> QED
  BY <1>9 DEF y, a, b

\* y is x but for what is between p and q, and the rest is D places further on.
Spoils(y, x, p, q, D) ==
    /\ y \in Data /\ Len(y) = Len(x) + D /\ \A j \in 1 .. p : y[j] = x[j]
    /\ \A j \in q + 1 .. Len(x) : y[j + D] = x[j]
    /\ p = q => y = x

\* A section of which a piece is lost,
LEMMA LackingIs ==
    ASSUME NEW x \in Data, NEW p \in Nat, NEW q \in Nat, p <= q, q <= Len(x)
    PROVE  Spoils(Lacking(x, p, q), x, p, q, p - q)
<1>1. Len(x) \in Nat /\ p <= Len(x)
  BY DEF Data
<1> DEFINE y == Lacking(x, p, q)
<1>2. Joins(y, x, p, q)
  BY <1>1, Joined DEF Lacking
<1> HIDE DEF y
<1>3. ASSUME p = q PROVE y = x
  <2>1. Len(y) = Len(x) /\ y \in Seq(Nat) /\ x \in Seq(Nat)
    BY <1>1, <1>2, <1>3 DEF Joins, Data
  <2>2. ASSUME NEW j \in 1 .. Len(y) PROVE y[j] = x[j]
    <3>1. CASE j \in 1 .. p
      BY <1>2, <3>1 DEF Joins
    <3>2. CASE j \in q + 1 .. Len(x)
      <4>1. j + (p - q) = j
        BY <1>1, <1>3
      <4>2. y[j + (p - q)] = x[j]
        BY <1>2, <3>2 DEF Joins
      <4> QED
        BY <4>1, <4>2
    <3> QED
      BY <1>1, <1>3, <2>1, <3>1, <3>2
  <2> QED
    BY <2>1, <2>2, SeqEqual
<1>4. Spoils(y, x, p, q, p - q)
  BY <1>2, <1>3 DEF Joins, Spoils
<1> QED
  BY <1>4 DEF y

\* of which it is there twice,
LEMMA DoublingIs ==
    ASSUME NEW x \in Data, NEW p \in Nat, NEW q \in Nat, p <= q, q <= Len(x)
    PROVE  /\ Spoils(Doubling(x, p, q), x, p, q, q - p)
           /\ SubSeq(Doubling(x, p, q), p + 1, q) = SubSeq(x, p + 1, q)
           /\ SubSeq(Doubling(x, p, q), q + 1, q + (q - p)) = SubSeq(x, p + 1, q)
<1>1. Len(x) \in Nat /\ p <= Len(x)
  BY DEF Data
<1> DEFINE y == Doubling(x, p, q)
<1>2. Joins(y, x, q, p)
  BY <1>1, Joined DEF Doubling
<1> HIDE DEF y
<1>3. /\ y \in Data /\ Len(y) = Len(x) + (q - p) /\ Len(y) \in Nat
      /\ \A j \in 1 .. q : y[j] = x[j]
      /\ \A j \in p + 1 .. Len(x) : y[j + (q - p)] = x[j]
  BY <1>1, <1>2 DEF Joins
<1>4. ASSUME p = q PROVE y = x
  <2>1. Len(y) = Len(x) /\ y \in Seq(Nat) /\ x \in Seq(Nat)
    BY <1>1, <1>3, <1>4 DEF Data
  <2>2. ASSUME NEW j \in 1 .. Len(y) PROVE y[j] = x[j]
    <3>1. CASE j \in 1 .. q
      BY <1>3, <3>1
    <3>2. CASE j \in p + 1 .. Len(x)
      <4>1. j + (q - p) = j
        BY <1>1, <1>4
      <4>2. y[j + (q - p)] = x[j]
        BY <1>3, <3>2
      <4> QED
        BY <4>1, <4>2
    <3> QED
      BY <1>1, <1>4, <2>1, <3>1, <3>2
  <2> QED
    BY <2>1, <2>2, SeqEqual
<1>5. Spoils(y, x, p, q, q - p)
  <2>1. \A j \in 1 .. p : y[j] = x[j]
    <3> SUFFICES ASSUME NEW j \in 1 .. p PROVE y[j] = x[j]
      OBVIOUS
    <3>1. j \in 1 .. q
      OBVIOUS
    <3> QED
      BY <1>3, <3>1
  <2>2. \A j \in q + 1 .. Len(x) : y[j + (q - p)] = x[j]
    <3> SUFFICES ASSUME NEW j \in q + 1 .. Len(x) PROVE y[j + (q - p)] = x[j]
      OBVIOUS
    <3>1. j \in p + 1 .. Len(x)
      BY <1>1
    <3> QED
      BY <1>3, <3>1
  <2> QED
    BY <1>3, <1>4, <2>1, <2>2 DEF Spoils
<1>6. SubSeq(y, p + 1, q) = SubSeq(x, p + 1, q)
  <2> DEFINE z == 0
  <2>1. z \in Int /\ p + z >= 0 /\ q + z <= Len(y) /\ p + z + 1 = p + 1 /\ q + z = q
    BY <1>1, <1>3
  <2>2. ASSUME NEW j \in p + 1 .. q PROVE y[j + z] = x[j]
    <3>1. j \in 1 .. q /\ j + z = j
      OBVIOUS
    <3> QED
      BY <1>3, <3>1
  <2> HIDE DEF z
  <2>3. SubSeq(y, p + z + 1, q + z) = SubSeq(x, p + 1, q)
    BY <1>3, <2>1, <2>2, SamePiece
  <2> QED
    BY <2>1, <2>3
<1>7. SubSeq(y, q + 1, q + (q - p)) = SubSeq(x, p + 1, q)
  <2> DEFINE z == q - p
  <2>1. z \in Int /\ p + z >= 0 /\ q + z <= Len(y) /\ p + z + 1 = q + 1 /\ q + z = q + (q - p)
    BY <1>1, <1>3
  <2>2. ASSUME NEW j \in p + 1 .. q PROVE y[j + z] = x[j]
    <3>1. j \in p + 1 .. Len(x)
      BY <1>1
    <3> QED
      BY <1>3, <3>1
  <2> HIDE DEF z
  <2>3. SubSeq(y, p + z + 1, q + z) = SubSeq(x, p + 1, q)
    BY <1>3, <2>1, <2>2, SamePiece
  <2> QED
    BY <2>1, <2>3
<1> QED
  BY <1>5, <1>6, <1>7 DEF y

\* or of which it is altered.
LEMMA RaisedIs ==
    ASSUME NEW x \in Data, NEW p \in Nat, NEW q \in Nat, p <= q, q <= Len(x)
    PROVE  /\ Spoils(Raised(x, p, q), x, p, q, 0)
           /\ LET o == SubSeq(x, p + 1, q) IN
              SubSeq(Raised(x, p, q), p + 1, q) = [i \in DOMAIN o |-> o[i] + 1]
<1> DEFINE y == Raised(x, p, q)
           o == SubSeq(x, p + 1, q)
           a == [i \in DOMAIN o |-> o[i] + 1]
           v == SubSeq(y, p + 1, q)
           n == Len(x)
<1>1. n \in Nat /\ x \in [1 .. n -> Nat] /\ DOMAIN x = 1 .. n
  BY DEF Data
<1>2. /\ y = [j \in 1 .. n |-> IF j \in p + 1 .. q THEN x[j] + 1 ELSE x[j]]
      /\ y \in [1 .. n -> Nat]
  BY <1>1 DEF Raised
<1>3. y \in Data /\ Len(y) = n
  BY <1>1, <1>2 DEF Data
<1> HIDE DEF y, n
<1>4. /\ \A j \in p + 1 .. q : y[j] = x[j] + 1
      /\ \A j \in 1 .. n : j \notin p + 1 .. q => y[j] = x[j]
  BY <1>1, <1>2 DEF n
<1>5. Spoils(y, x, p, q, 0)
  <2>1. ASSUME NEW j \in 1 .. p PROVE y[j] = x[j]
    <3>1. j \in 1 .. n /\ j \notin p + 1 .. q
      BY <1>1 DEF n
    <3> QED
      BY <1>4, <3>1
  <2>2. ASSUME NEW j \in q + 1 .. n PROVE y[j + 0] = x[j]
    <3>1. j \in 1 .. n /\ j \notin p + 1 .. q /\ j + 0 = j
      BY <1>1
    <3> QED
      BY <1>4, <3>1
  <2>3. ASSUME p = q PROVE y = x
    <3>1. ASSUME NEW j \in 1 .. n PROVE y[j] = x[j]
      <4>1. j \notin p + 1 .. q
        BY <2>3
      <4> QED
        BY <1>4, <4>1
    <3>2. x \in Seq(Nat) /\ y \in Seq(Nat) /\ Len(x) = n
      BY <1>3 DEF Data, n
    <3> QED
      BY <1>3, <3>1, <3>2, SeqEqual
  <2>4. Len(y) = n + 0
    BY <1>1, <1>3
  <2> QED
    BY <1>3, <2>1, <2>2, <2>3, <2>4 DEF Spoils, n
<1>6. v = a
  <2>1. x \in Seq(Nat) /\ y \in Seq(Nat) /\ Len(x) = n /\ Len(y) = n /\ q <= n
    BY <1>3 DEF Data, n
  <2>2. /\ o \in Seq(Nat) /\ Len(o) = q - p /\ \A j \in 1 .. q - p : o[j] = x[p + 1 + j - 1]
        /\ v \in Seq(Nat) /\ Len(v) = q - p /\ \A j \in 1 .. q - p : v[j] = y[p + 1 + j - 1]
    BY <1>1, <2>1
  <2> HIDE DEF o, v
  <2>3. a = [i \in 1 .. q - p |-> o[i] + 1] /\ DOMAIN v = 1 .. q - p
    BY <2>2
  <2>4. a \in Seq(Nat) /\ Len(a) = q - p
    <3>1. \A i \in 1 .. q - p : o[i] + 1 \in Nat
      BY <2>2
    <3>2. q - p \in Nat
      OBVIOUS
    <3> HIDE DEF a
    <3> QED
      BY <2>3, <3>1, <3>2
  <2>5. ASSUME NEW j \in 1 .. q - p PROVE v[j] = a[j]
    <3>1. p + 1 + j - 1 \in p + 1 .. q
      OBVIOUS
    <3>2. y[p + 1 + j - 1] = x[p + 1 + j - 1] + 1
      BY <1>4, <3>1
    <3> QED
      BY <2>2, <2>3, <3>2
  <2> HIDE DEF a
  <2> QED
    BY <2>2, <2>4, <2>5, SeqEqual
<1> QED
  BY <1>5, <1>6 DEF y

\* What w spells, up to h, is s, or s damaged.
Spoiling(section, w, h, s) ==
    \E y \in Data : /\ Spells(section, w, h, y)
                    /\ \/ y = s
                       \/ \E p, q \in 0 .. Len(s) :
                            p < q /\ q - p <= MaxSegment /\ y \in Damaged(s, p, q)

\* What a fault makes of a segment.
Faulty(a) == {<<>>, <<a, a>>, <<Altered(a)>>}

\* With a faulty segment what they spell is damaged.
LEMMA Spoiled ==
    ASSUME NEW section \in Data, NEW u \in Seq(Up), NEW h \in 1 .. Len(u), NEW s \in Data,
           Spells(section, u, h, s), NEW i \in 1 .. h - 1, u[i].type = "F_SG",
           NEW o \in Faulty(u[i]), NEW w, Replaces(w, u, i, o)
    PROVE  Spoiling(section, w, h - 1 + Len(o), s)
<1>1. PICK cut : Cuts(cut, section, u, h, s)
  BY DEF Spells
<1> DEFINE p == cut[i - 1]
           q == cut[i]
           n == Len(s)
<1>2. n \in Nat /\ i - 1 \in 0 .. h - 1 /\ i \in 0 .. h - 1 /\ i - 1 <= i /\ i \in 1 .. h - 1
      /\ Len(u) \in Nat /\ h \in Nat /\ i \in Nat
  BY DEF Data
<1>3. /\ p \in Nat /\ q \in Nat /\ p <= q /\ q <= n /\ PieceIs(u[i], s, p, q)
  <2>1. cut \in [0 .. h - 1 -> 0 .. n]
    BY <1>1 DEF Cuts
  <2>2. p <= q
    BY <1>1, <1>2 DEF Cuts
  <2>3. PieceIs(u[i], s, p, q)
    BY <1>1, <1>2 DEF Cuts
  <2>4. p \in 0 .. n /\ q \in 0 .. n
    BY <1>2, <2>1
  <2> QED
    BY <1>2, <2>2, <2>3, <2>4
<1> HIDE DEF p, q
<1>4. q - p <= MaxSegment /\ u[i].octets = SubSeq(s, p + 1, q)
  BY <1>3 DEF PieceIs
<1> HIDE DEF n
<1>5. ASSUME NEW y, NEW D \in Int, NEW l \in 0 .. 2, Len(o) = l, Shift(l, q - p, D),
             Spoils(y, s, p, q, D), p < q => y \in Damaged(s, p, q),
             l > 0 => o[1].type = "F_SG" /\ o[1].octets = SubSeq(y, p + 1, q),
             l = 2 => o[2].type = "F_SG" /\ o[2].octets = SubSeq(y, q + 1, q + D)
      PROVE  Spoiling(section, w, h - 1 + Len(o), s)
  <2>1. y \in Data /\ Len(y) = n + D /\ (\A j \in 1 .. p : y[j] = s[j])
        /\ (\A j \in q + 1 .. n : y[j + D] = s[j]) /\ (p = q => y = s)
    BY <1>5 DEF Spoils, n
  <2>2. /\ \A j \in 1 .. i - 1 : w[j] = u[j]
        /\ \A j \in i + 1 .. h - 1 : w[j - 1 + l] = u[j]
    BY <1>2, <1>5 DEF Replaces
  <2>3. l > 0 => w[i] = o[1]
    <3> SUFFICES ASSUME l > 0 PROVE w[i] = o[1]
      OBVIOUS
    <3>1. 1 \in 1 .. l /\ i - 1 + 1 = i
      BY <1>2
    <3>2. w[i - 1 + 1] = o[1]
      BY <1>5, <3>1 DEF Replaces
    <3> QED
      BY <3>1, <3>2
  <2>4. l = 2 => w[i + 1] = o[2]
    <3> SUFFICES ASSUME l = 2 PROVE w[i + 1] = o[2]
      OBVIOUS
    <3>1. 2 \in 1 .. l /\ i - 1 + 2 = i + 1
      BY <1>2
    <3>2. w[i - 1 + 2] = o[2]
      BY <1>5, <3>1 DEF Replaces
    <3> QED
      BY <3>1, <3>2
  <2>5. Respelling(section, u, w, h, i, l, s, y, p, q, D)
    BY <1>4, <1>5, <2>1, <2>2, <2>3, <2>4 DEF Respelling, n
  <2>6. Spells(section, w, h - 1 + l, y)
    <3>1. p = cut[i - 1] /\ q = cut[i]
      BY DEF p, q
    <3> QED
      BY <1>1, <1>3, <1>5, <2>1, <2>5, <3>1, Respelled
  <2>7. CASE p = q
    BY <1>5, <2>1, <2>6, <2>7 DEF Spoiling
  <2>8. CASE p < q
    <3>1. p \in 0 .. Len(s) /\ q \in 0 .. Len(s)
      BY <1>2, <1>3 DEF n
    <3> QED
      BY <1>4, <1>5, <2>1, <2>6, <2>8, <3>1 DEF Spoiling
  <2> QED
    BY <1>3, <2>7, <2>8
<1>6. CASE o = <<>>
  <2> DEFINE y == Lacking(s, p, q)
  <2>1. Len(o) = 0 /\ 0 \in 0 .. 2 /\ p - q \in Int /\ Shift(0, q - p, p - q) /\ ~(0 > 0) /\ ~(0 = 2)
    BY <1>3, <1>6 DEF Shift
  <2>2. Spoils(y, s, p, q, p - q)
    BY <1>3, LackingIs DEF n
  <2>3. y \in Damaged(s, p, q)
    BY DEF Damaged
  <2> HIDE DEF y
  <2> QED
    BY <1>5, <2>1, <2>2, <2>3
<1>7. CASE o = <<u[i], u[i]>>
  <2> DEFINE y == Doubling(s, p, q)
  <2>1. Len(o) = 2 /\ 2 \in 0 .. 2 /\ q - p \in Int /\ Shift(2, q - p, q - p)
        /\ o[1] = u[i] /\ o[2] = u[i]
    BY <1>3, <1>7 DEF Shift
  <2>2. /\ Spoils(y, s, p, q, q - p) /\ SubSeq(y, p + 1, q) = SubSeq(s, p + 1, q)
        /\ SubSeq(y, q + 1, q + (q - p)) = SubSeq(s, p + 1, q)
    BY <1>3, DoublingIs DEF n
  <2>3. y \in Damaged(s, p, q)
    BY DEF Damaged
  <2> HIDE DEF y
  <2>4. /\ o[1].type = "F_SG" /\ o[1].octets = SubSeq(y, p + 1, q)
        /\ o[2].type = "F_SG" /\ o[2].octets = SubSeq(y, q + 1, q + (q - p))
    BY <1>4, <2>1, <2>2
  <2> QED
    BY <1>5, <2>1, <2>2, <2>3, <2>4
<1>8. CASE o = <<Altered(u[i])>>
  <2> DEFINE y == Raised(s, p, q)
             b == SubSeq(s, p + 1, q)
  <2>1. Len(o) = 1 /\ 1 \in 0 .. 2 /\ 0 \in Int /\ Shift(1, q - p, 0) /\ o[1] = Altered(u[i]) /\ ~(1 = 2)
    BY <1>8 DEF Shift
  <2>2. Spoils(y, s, p, q, 0) /\ SubSeq(y, p + 1, q) = [j \in DOMAIN b |-> b[j] + 1]
    BY <1>3, RaisedIs DEF n
  <2>3. y \in Damaged(s, p, q)
    BY DEF Damaged
  <2> HIDE DEF y, b
  <2>4. o[1].type = "F_SG" /\ o[1].octets = SubSeq(y, p + 1, q)
    <3>1. u[i] \in SG
      <4>1. u[i] \in Up
        BY <1>2
      <4> QED
        BY <4>1, Kinds
    <3>2. u[i].octets = b
      BY <1>4 DEF b
    <3>3. Altered(u[i]).type = "F_SG" /\ Altered(u[i]).octets = [j \in DOMAIN b |-> b[j] + 1]
      BY <3>1, <3>2 DEF Altered, SG
    <3> QED
      BY <2>1, <2>2, <3>3
  <2> QED
    BY <1>5, <2>1, <2>2, <2>3, <2>4
<1> QED
  BY <1>6, <1>7, <1>8 DEF Faulty

\* A faulty segment is still one.
LEMMA FaultIs ==
    ASSUME NEW a \in Up, a.type = "F_SG", NEW o \in Faulty(a)
    PROVE  /\ o \in Seq(Up) /\ Len(o) \in 0 .. 2
           /\ \A k \in 1 .. Len(o) : o[k].type = "F_SG" /\ o[k].name = a.name /\ o[k].nos = a.nos
<1>1. a \in SG
  BY Kinds
<1>2. Altered(a) \in SG /\ Altered(a).name = a.name /\ Altered(a).nos = a.nos
  <2> DEFINE x == a.octets
             b == [i \in DOMAIN x |-> x[i] + 1]
  <2>1. x \in Seq(Nat) /\ Len(x) \in Nat /\ DOMAIN x = 1 .. Len(x)
    BY <1>1 DEF SG, Data
  <2>2. \A i \in 1 .. Len(x) : x[i] + 1 \in Nat
    BY <2>1
  <2>3. b \in Data
    <3> HIDE DEF x
    <3> QED
      BY <2>1, <2>2 DEF Data
  <2>4. Altered(a) = [a EXCEPT !.octets = b]
    BY DEF Altered
  <2> HIDE DEF b, x
  <2> QED
    BY <1>1, <2>3, <2>4 DEF SG
<1>3. a \in Up /\ Altered(a) \in Up
  BY <1>2 DEF Up
<1>4. Altered(a).type = "F_SG"
  BY <1>2 DEF SG
<1> DEFINE b == Altered(a)
<1>5. CASE o = <<>>
  BY <1>5
<1>6. CASE o = <<a, a>>
  BY <1>3, <1>6
<1>7. CASE o = <<b>>
  <2> HIDE DEF b
  <2>1. b \in Up /\ b.type = "F_SG" /\ b.name = a.name /\ b.nos = a.nos
    BY <1>2, <1>3, <1>4 DEF b
  <2> QED
    BY <1>7, <2>1
<1> QED
  BY <1>5, <1>6, <1>7 DEF Faulty

\* On the way of an undamaged section, it is damaged.
LEMMA SentSpoiled ==
    ASSUME Lossy, NEW t \in Transfers, t.name \in DOMAIN Content, NEW dn, NEW u \in Seq(Up),
           NEW v, NEW k \in Nat, Sent(t, dn, u, v, k, TRUE), NEW i \in 1 .. Len(u), u[i].type = "F_SG",
           NEW o \in Faulty(u[i]), NEW w, Replaces(w, u, i, o)
    PROVE  Sent(t, dn, w, v, k, FALSE)
<1> DEFINE s == Sections(t.name)[k + 1]
           l == Len(o)
<1>1. dn = <<>> /\ k < Len(Sections(t.name)) /\ At(v, t.name, k) /\ t.nos = k + 1
  BY DEF Sent
<1>2. PICK h \in 1 .. Len(u) :
         /\ \A j \in 1 .. Len(u) :
              /\ j < h /\ Section(u[j]) => /\ u[j].type = "F_SG" /\ u[j].name = t.name
                                           /\ u[j].nos = k + 1
              /\ j > h => ~Section(u[j])
         /\ u[h].type = "F_LS" /\ u[h].name = t.name /\ ~u[h].eof
         /\ u[h].chs = FileChecksum(s)
         /\ \E x \in Data : Spells(t.section, u, h, x) /\ Told(x, s, TRUE)
  BY DEF Sent
<1>3. Spells(t.section, u, h, s)
  BY <1>2 DEF Told
<1>4. s \in Data /\ k + 1 \in 1 .. Len(Sections(t.name)) /\ t.section \in Data
  <2>1. Sections(t.name) \in Seq(Data) /\ t.section \in Data
    BY SectionsAre DEF Transfers
  <2>2. k + 1 \in 1 .. Len(Sections(t.name))
    BY <1>1, <2>1
  <2> QED
    BY <2>1, <2>2
<1>5. Section(u[i])
  BY DEF Section
<1>6. i < h /\ i \in 1 .. h - 1 /\ u[i].name = t.name /\ u[i].nos = k + 1
  <2>1. ~(i > h) /\ i # h /\ i \in Nat /\ h \in Nat
    BY <1>2, <1>5
  <2>2. i < h /\ i \in 1 .. h - 1
    BY <2>1
  <2> QED
    BY <1>2, <1>5, <2>2
<1>7. /\ l \in 0 .. 2
      /\ \A j \in 1 .. l : o[j].type = "F_SG" /\ o[j].name = t.name /\ o[j].nos = k + 1
  BY <1>6, FaultIs
<1> DEFINE H == h - 1 + l
<1> HIDE DEF s
<1>8. PICK y \in Data : /\ Spells(t.section, w, H, y)
                        /\ \/ y = s
                           \/ \E p, q \in 0 .. Len(s) :
                                p < q /\ q - p <= MaxSegment /\ y \in Damaged(s, p, q)
  <2>1. Spoiling(t.section, w, h - 1 + Len(o), s)
    BY <1>3, <1>4, <1>6, Spoiled
  <2> QED
    BY <2>1 DEF Spoiling
<1>9. Told(y, s, FALSE)
  <2> SUFFICES ASSUME Trusted, FileChecksum(y) = FileChecksum(s) PROVE y = s
    BY DEF Told
  <2>1. \A p, q \in 0 .. Len(s) :
          p < q /\ q - p <= MaxSegment => \A x \in Damaged(s, p, q) : FileChecksum(x) # FileChecksum(s)
    BY <1>4 DEF Trusted, ChecksumsTell, s
  <2> QED
    BY <1>8, <2>1
<1> HIDE DEF l
<1>10. Len(w) = Len(u) - 1 + l /\ w \in Seq(Up)
  BY DEF Replaces, l
<1>11. H \in 1 .. Len(w) /\ w[H] = u[h]
  <2>1. Len(u) \in Nat /\ h \in i + 1 .. Len(u) /\ H \in 1 .. Len(u) - 1 + l
    BY <1>6, <1>7
  <2>2. w[h - 1 + Len(o)] = u[h]
    BY <2>1 DEF Replaces
  <2> QED
    BY <1>10, <2>1, <2>2 DEF l
<1>12. ASSUME NEW j \in 1 .. Len(w)
       PROVE  /\ j < H /\ Section(w[j]) => /\ w[j].type = "F_SG" /\ w[j].name = t.name
                                           /\ w[j].nos = k + 1
              /\ j > H => ~Section(w[j])
  <2>0. Len(u) \in Nat /\ i \in Nat /\ h \in Nat /\ l \in Nat
    BY <1>7
  <2>1. \/ j \in 1 .. i - 1 /\ w[j] = u[j]
        \/ \E m \in 1 .. l : j = i - 1 + m /\ w[j] = o[m]
        \/ \E m \in i + 1 .. Len(u) : j = m - 1 + l /\ w[j] = u[m]
    BY DEF Replaces, l
  <2>2. CASE j \in 1 .. i - 1 /\ w[j] = u[j]
    <3>1. j < h /\ j \in 1 .. Len(u) /\ ~(j > H)
      BY <1>6, <2>0, <2>2
    <3> QED
      BY <1>2, <2>2, <3>1
  <2>3. CASE \E m \in 1 .. l : j = i - 1 + m /\ w[j] = o[m]
    <3>1. PICK m \in 1 .. l : j = i - 1 + m /\ w[j] = o[m]
      BY <2>3
    <3>2. ~(j > H)
      BY <1>6, <2>0, <3>1
    <3> QED
      BY <1>7, <3>1, <3>2 DEF l
  <2>4. CASE \E m \in i + 1 .. Len(u) : j = m - 1 + l /\ w[j] = u[m]
    <3>1. PICK m \in i + 1 .. Len(u) : j = m - 1 + l /\ w[j] = u[m]
      BY <2>4
    <3>2. m \in 1 .. Len(u) /\ (j < H => m < h) /\ (j > H => m > h)
      BY <1>6, <2>0, <3>1
    <3> QED
      BY <1>2, <3>1, <3>2
  <2> QED
    BY <2>1, <2>2, <2>3, <2>4
<1> HIDE DEF H
<1> QED
  BY <1>1, <1>2, <1>8, <1>9, <1>11, <1>12 DEF Sent, s

\* The faulty segment in any phase, when nothing went wrong before.
LEMMA FaultyPhase ==
    ASSUME Lossy, NEW t \in {None} \cup Transfers, NEW dn, NEW u \in Seq(Up), NEW v, NEW L,
           L \subseteq DOMAIN Content, InPhase(t, dn, u, v, L, TRUE), NEW i \in 1 .. Len(u),
           u[i].type = "F_SG", NEW o \in Faulty(u[i]), NEW w, Replaces(w, u, i, o)
    PROVE  InPhase(t, dn, w, v, L, FALSE)
<1>1. Section(u[i]) /\ ~NoSection(u)
  BY DEF Section, NoSection
<1>2. Fetching(t, dn, u, v, L, TRUE)
  BY <1>1 DEF InPhase, Opening
<1>3. t # None /\ t \in Transfers /\ t.name \in L /\ t.called /\ t.name \in DOMAIN Content
  BY <1>2 DEF Fetching
<1>4. CASE Stalled(dn, u)
  <2>1. Stalled(dn, w)
    <3> SUFFICES ASSUME NEW j \in 1 .. Len(w) PROVE w[j].type \notin {"F_SR", "F_LS"}
      BY <1>4 DEF Stalled
    <3>1. \/ j \in 1 .. i - 1 /\ w[j] = u[j]
          \/ \E m \in 1 .. Len(o) : j = i - 1 + m /\ w[j] = o[m]
          \/ \E m \in i + 1 .. Len(u) : j = m - 1 + Len(o) /\ w[j] = u[m]
      BY DEF Replaces
    <3>2. \A m \in 1 .. Len(u) : u[m].type \notin {"F_SR", "F_LS"}
      BY <1>4 DEF Stalled
    <3>3. \A m \in 1 .. Len(o) : o[m].type = "F_SG"
      BY FaultIs
    <3>4. Len(u) \in Nat /\ i \in Nat
      OBVIOUS
    <3>5. CASE j \in 1 .. i - 1 /\ w[j] = u[j]
      <4>1. j \in 1 .. Len(u)
        BY <3>4, <3>5
      <4> QED
        BY <3>2, <3>5, <4>1
    <3>6. CASE \E m \in 1 .. Len(o) : j = i - 1 + m /\ w[j] = o[m]
      BY <3>3, <3>6
    <3>7. CASE \E m \in i + 1 .. Len(u) : j = m - 1 + Len(o) /\ w[j] = u[m]
      <4>1. PICK m \in i + 1 .. Len(u) : w[j] = u[m]
        BY <3>7
      <4>2. m \in 1 .. Len(u)
        BY <3>4
      <4> QED
        BY <3>2, <4>1, <4>2
    <3> QED
      BY <3>1, <3>5, <3>6, <3>7
  <2> QED
    BY <1>3, <2>1 DEF InPhase, Fetching
<1>5. CASE ~Stalled(dn, u)
  <2>1. PICK k \in 0 .. Len(Sections(t.name)) :
          /\ Trusted => t.file = Start(t.name, k)
          /\ \/ Announced(t, dn, u, v, k) \/ Asked(t, dn, u, v, k)
             \/ Sent(t, dn, u, v, k, TRUE)
             \/ Acknowledged(t, dn, u, v, k) \/ Rejected(t, dn, u, v, k)
             \/ Complete(t, dn, u, v, k)
    BY <1>2, <1>5 DEF Fetching
  <2>2. ~Announced(t, dn, u, v, k) /\ ~Complete(t, dn, u, v, k)
    BY <1>1 DEF Announced, Complete, OneSection
  <2>3. ~Asked(t, dn, u, v, k) /\ ~Acknowledged(t, dn, u, v, k) /\ ~Rejected(t, dn, u, v, k)
    BY <1>1 DEF Asked, Acknowledged, Rejected
  <2>4. Sent(t, dn, u, v, k, TRUE)
    BY <2>1, <2>2, <2>3, Zenon
  <2>5. k \in Nat
    OBVIOUS
  <2>6. Sent(t, dn, w, v, k, FALSE)
    BY <1>3, <2>4, <2>5, SentSpoiled
  <2> QED
    BY <1>3, <2>1, <2>6 DEF InPhase, Fetching
<1> QED
  BY <1>4, <1>5

-----------------------------------------------------------------------------
(***************************************************************************)
(* Every action keeps the invariant.                                       *)
(***************************************************************************)

\* What is handed over, if anything, is a file of the station.
Genuine(f) == f = None \/ /\ f \in [name : Name, data : Data]
                          /\ Trusted => f.data = Content[f.name]

\* What is known of master m.
LEMMA Known ==
    ASSUME IInv, NEW m \in Master
    PROVE  /\ fetching[m] \in {None} \cup Transfers /\ toStation[m] \in Seq(Down)
           /\ toMaster[m] \in Seq(Up) /\ Refuses(toMaster[m], Listing)
           /\ Held(serving, store) /\ Listing \subseteq DOMAIN Content
           /\ panicked = FALSE /\ faults \in Nat
           /\ InPhase(fetching[m], toStation[m], toMaster[m], serving, Listing, faults = 0)
<1>1. /\ fetching[m] \in {None} \cup Transfers /\ toStation[m] \in Seq(Down)
      /\ toMaster[m] \in Seq(Up) /\ Listing \subseteq DOMAIN Content
      /\ panicked = FALSE /\ faults \in Nat
  BY DEF IInv, Types
<1>2. Refuses(toMaster[m], Listing)
  BY DEF IInv, Types, Refuses
<1>3. Held(serving, store)
  BY DEF IInv, Types, Held, Listing
<1>4. InPhase(fetching[m], toStation[m], toMaster[m], serving, Listing, faults = 0)
  BY DEF IInv
<1> QED
  BY <1>1, <1>2, <1>3, <1>4

\* It is enough to look at the one master.
LEMMA Kept ==
    ASSUME OneMaster, IInv, NEW m \in Master,
           fetching' \in [Master -> {None} \cup Transfers],
           toStation' \in [Master -> Seq(Down)], toMaster' \in [Master -> Seq(Up)],
           Held(serving', store'), Refuses(toMaster'[m], Listing'), panicked' = FALSE,
           NEW f, Hands(m, f), Genuine(f), faults' \in Nat,
           InPhase(fetching'[m], toStation'[m], toMaster'[m], serving', Listing', faults' = 0)
    PROVE  IInv'
<1> DEFINE F == [name : Name, data : Data]
<1>1. \A x \in Master : x = m
  BY DEF OneMaster
<1>2. delivered \in [Master -> Seq(F)] /\ (Trusted => FileIntact)
  BY DEF IInv, Types
<1>3. delivered' \in [Master -> Seq(F)] /\ (Trusted => FileIntact')
  <2>1. CASE f = None
    BY <1>2, <2>1 DEF Hands, FileIntact
  <2>2. CASE f # None
    <3> DEFINE d == delivered[m]
               e == Append(d, f)
    <3>1. delivered' = [delivered EXCEPT ![m] = e]
      BY <2>2 DEF Hands
    <3>2. d \in Seq(F) /\ f \in F /\ (Trusted => f.data = Content[f.name])
      BY <1>2, <2>2 DEF Genuine
    <3> HIDE DEF d, F
    <3>3. /\ e \in Seq(F) /\ Len(d) \in Nat /\ Len(e) = Len(d) + 1
          /\ \A i \in 1 .. Len(e) : (i \in 1 .. Len(d) /\ e[i] = d[i]) \/ e[i] = f
      BY <3>2
    <3>4. DOMAIN e = 1 .. Len(e) /\ DOMAIN d = 1 .. Len(d)
      BY <3>2, <3>3
    <3> HIDE DEF e
    <3>5. delivered' \in [Master -> Seq(F)] /\ delivered'[m] = e
      BY <1>2, <3>1, <3>3
    <3>6. ASSUME Trusted, NEW x \in Master, NEW i \in DOMAIN delivered'[x]
          PROVE  delivered'[x][i].data = Content[delivered'[x][i].name]
      <4>1. delivered'[x] = e /\ i \in 1 .. Len(e)
        BY <1>1, <3>4, <3>5, <3>6
      <4>2. \A j \in 1 .. Len(d) : d[j].data = Content[d[j].name]
        BY <1>2, <3>4, <3>6 DEF FileIntact, d
      <4> QED
        BY <3>2, <3>3, <3>6, <4>1, <4>2
    <3> QED
      BY <3>5, <3>6 DEF FileIntact
  <2> QED
    BY <2>1, <2>2
<1>4. /\ Listing' \subseteq DOMAIN Content /\ \A n \in Listing' : store'[n] = Content[n]
      /\ serving' = None \/ \E n \in Listing', k \in Nat : serving' = Serving(n, k)
  BY DEF Held, Listing
<1>5. \A x \in Master : \A i \in 1 .. Len(toMaster'[x]) :
         toMaster'[x][i].type = "F_SC_NEG" => toMaster'[x][i].name \notin Listing'
  BY <1>1 DEF Refuses
<1>6. Types'
  BY <1>3, <1>4, <1>5 DEF Types
<1>7. \A x \in Master :
         InPhase(fetching'[x], toStation'[x], toMaster'[x], serving', Listing', faults' = 0)
  BY <1>1
<1> QED
  BY <1>3, <1>6, <1>7 DEF IInv

\* A master that fetches nothing.
LEMMA Idle ==
    ASSUME IInv, NEW m \in Master, fetching[m] = None
    PROVE  /\ Opening(None, toStation[m], toMaster[m], Listing) /\ NoSection(toMaster[m])
           /\ \A n \in Name : fetching[m] # Called(n)
<1>1. Opening(None, toStation[m], toMaster[m], Listing)
  BY Known DEF InPhase, Fetching
<1>2. \A n \in Name : fetching[m] # Called(n)
  BY NoneIsNone
<1> QED
  BY <1>1, <1>2 DEF Opening

\* Receiver::request_file, until it sends.
LEMMA Requests ==
    ASSUME OneMaster, IInv, NEW m \in Master, NEW name \in Name, RequestFile(m, name)
    PROVE  IInv'
<1> DEFINE t == fetching[m]
           dn == toStation[m]
           u == toMaster[m]
           z == NewTransfer(name)
<1>1. t = None /\ fetching' = [fetching EXCEPT ![m] = z]
      /\ UNCHANGED <<store, serving, toStation, toMaster, delivered, panicked, disturbed, faults>>
  BY DEF RequestFile
<1>2. dn \in Seq(Down) /\ u \in Seq(Up) /\ Refuses(u, Listing) /\ Held(serving, store)
      /\ panicked = FALSE /\ faults \in Nat
  BY Known
<1>3. Opening(t, dn, u, Listing) /\ NoSection(u) /\ \A n \in Name : t # Called(n)
  BY <1>1, Idle
<1>4. PICK a \in Down : ~Moves(a) /\ a.action # "REQUEST_FILE"
  BY SelectIs
<1>5. z \in Transfers /\ \E n \in Name : z = NewTransfer(n) \/ z = Called(n)
  BY NoneIsNone
<1> HIDE DEF z
<1>6. Opening(z, dn, u, Listing)
  BY <1>2, <1>3, <1>4, <1>5, Calls
<1>7. fetching \in [Master -> {None} \cup Transfers] /\ toStation \in [Master -> Seq(Down)]
      /\ toMaster \in [Master -> Seq(Up)]
  BY DEF IInv, Types
<1>8. /\ fetching' \in [Master -> {None} \cup Transfers] /\ fetching'[m] = z
      /\ toStation' \in [Master -> Seq(Down)] /\ toStation'[m] = dn
      /\ toMaster' \in [Master -> Seq(Up)] /\ toMaster'[m] = u
  BY <1>1, <1>5, <1>7
<1>9. /\ Held(serving', store') /\ Refuses(toMaster'[m], Listing') /\ panicked' = FALSE
      /\ Hands(m, None) /\ Genuine(None) /\ faults' \in Nat /\ Listing' = Listing
  BY <1>1, <1>2, <1>8 DEF Hands, Genuine, Listing
<1>10. InPhase(fetching'[m], toStation'[m], toMaster'[m], serving', Listing', faults' = 0)
  BY <1>6, <1>8, <1>9 DEF InPhase
<1> QED
  BY <1>8, <1>9, <1>10, Kept

\* A transfer whose select is not sent yet has not begun.
LEMMA Unselected ==
    ASSUME IInv, Selects, NEW m \in Master, selecting[m] # None
    PROVE  \E n \in Name : /\ fetching[m] = NewTransfer(n) /\ selecting[m].name = n
                           /\ Opening(fetching[m], toStation[m], toMaster[m], Listing)
                           /\ NoSection(toMaster[m]) /\ \A x \in Name : fetching[m] # Called(x)
<1>1. PICK n \in Name : fetching[m] = NewTransfer(n) /\ selecting[m] = NewTransfer(n)
  BY DEF Selects
<1>2. Opening(fetching[m], toStation[m], toMaster[m], Listing)
  BY <1>1, Known, NoneIsNone DEF InPhase, Fetching
<1> QED
  BY <1>1, <1>2, NoneIsNone DEF Opening

\* It sends the select.
LEMMA SendsSelect ==
    ASSUME OneMaster, IInv, Selects, NEW m \in Master, SendSelect(m)
    PROVE  IInv'
<1> DEFINE t == fetching[m]
           dn == toStation[m]
           u == toMaster[m]
<1>1. PICK n \in Name : /\ t = NewTransfer(n) /\ selecting[m].name = n
                        /\ Opening(t, dn, u, Listing) /\ NoSection(u)
                        /\ \A x \in Name : t # Called(x)
  BY Unselected DEF SendSelect
<1> DEFINE a == CallOrSelect("SELECT_FILE", n, 0)
           d == dn \o <<a>>
<1>2. /\ toStation' = [toStation EXCEPT ![m] = d]
      /\ UNCHANGED <<store, serving, fetching, toMaster, delivered, panicked, disturbed, faults>>
  BY <1>1 DEF SendSelect, Tell
<1>3. dn \in Seq(Down) /\ u \in Seq(Up) /\ Refuses(u, Listing) /\ Held(serving, store)
      /\ panicked = FALSE /\ faults \in Nat
  BY Known
<1>4. a \in Down /\ ~Moves(a) /\ a.action # "REQUEST_FILE"
  BY SelectIs
<1> HIDE DEF a
<1>5. Opening(t, d, u, Listing) /\ d \in Seq(Down)
  BY <1>1, <1>3, <1>4, Calls
<1>6. fetching \in [Master -> {None} \cup Transfers] /\ toStation \in [Master -> Seq(Down)]
      /\ toMaster \in [Master -> Seq(Up)]
  BY DEF IInv, Types
<1> HIDE DEF d
<1>7. /\ fetching' \in [Master -> {None} \cup Transfers] /\ fetching'[m] = t
      /\ toStation' \in [Master -> Seq(Down)] /\ toStation'[m] = d
      /\ toMaster' \in [Master -> Seq(Up)] /\ toMaster'[m] = u
  BY <1>2, <1>5, <1>6
<1>8. /\ Held(serving', store') /\ Refuses(toMaster'[m], Listing') /\ panicked' = FALSE
      /\ Hands(m, None) /\ Genuine(None) /\ faults' \in Nat /\ Listing' = Listing
  BY <1>2, <1>3, <1>7 DEF Hands, Genuine, Listing
<1>9. InPhase(fetching'[m], toStation'[m], toMaster'[m], serving', Listing', faults' = 0)
  BY <1>5, <1>7, <1>8 DEF InPhase
<1> QED
  BY <1>7, <1>8, <1>9, Kept

\* It cannot, and is ready for the next file.
LEMMA SelectingFails ==
    ASSUME OneMaster, IInv, Selects, NEW m \in Master, SelectFails(m)
    PROVE  IInv'
<1> DEFINE t == fetching[m]
           dn == toStation[m]
           u == toMaster[m]
<1>1. /\ fetching' = [fetching EXCEPT ![m] = None] /\ faults' = faults + 1
      /\ UNCHANGED <<store, serving, toStation, toMaster, delivered, panicked, disturbed>>
  BY DEF SelectFails, Fault
<1>2. PICK n \in Name : /\ Opening(t, dn, u, Listing) /\ NoSection(u)
                        /\ \A x \in Name : t # Called(x)
  BY Unselected DEF SelectFails
<1>3. dn \in Seq(Down) /\ u \in Seq(Up) /\ Refuses(u, Listing) /\ Held(serving, store)
      /\ panicked = FALSE /\ faults \in Nat
  BY Known
<1>4. PICK a \in Down : ~Moves(a) /\ a.action # "REQUEST_FILE"
  BY SelectIs
<1>5. Opening(None, dn, u, Listing)
  BY <1>2, <1>3, <1>4, Calls
<1>6. fetching \in [Master -> {None} \cup Transfers] /\ toStation \in [Master -> Seq(Down)]
      /\ toMaster \in [Master -> Seq(Up)]
  BY DEF IInv, Types
<1>7. /\ fetching' \in [Master -> {None} \cup Transfers] /\ fetching'[m] = None
      /\ toStation' \in [Master -> Seq(Down)] /\ toStation'[m] = dn
      /\ toMaster' \in [Master -> Seq(Up)] /\ toMaster'[m] = u
  BY <1>1, <1>6
<1>8. /\ Held(serving', store') /\ Refuses(toMaster'[m], Listing') /\ panicked' = FALSE
      /\ Hands(m, None) /\ Genuine(None) /\ faults' \in Nat /\ Listing' = Listing
  BY <1>1, <1>3, <1>7 DEF Hands, Genuine, Listing
<1>9. InPhase(fetching'[m], toStation'[m], toMaster'[m], serving', Listing', faults' = 0)
  BY <1>5, <1>7, <1>8 DEF InPhase
<1> QED
  BY <1>7, <1>8, <1>9, Kept

\* A request of the application beside a transfer.
LEMMA RequestsOther ==
    ASSUME OneMaster, IInv, NEW m \in Master, NEW name \in Name,
           NEW action \in {"DEACTIVATE_FILE", "DELETE_FILE", "DEFAULT"},
           OtherRequest(m, action, name)
    PROVE  IInv'
<1> DEFINE t == fetching[m]
           dn == toStation[m]
           u == toMaster[m]
           a == CallOrSelect(action, name, 0)
<1>1. t = None /\ toStation' = [toStation EXCEPT ![m] = dn \o <<a>>]
      /\ UNCHANGED <<store, serving, fetching, toMaster, delivered, panicked, disturbed, faults>>
  BY DEF OtherRequest, Tell
<1>2. dn \in Seq(Down) /\ u \in Seq(Up) /\ Refuses(u, Listing) /\ Held(serving, store)
      /\ panicked = FALSE /\ faults \in Nat
  BY Known
<1>3. Opening(t, dn, u, Listing) /\ NoSection(u) /\ \A n \in Name : t # Called(n)
  BY <1>1, Idle
<1>4. a \in Down /\ ~Moves(a) /\ a.action # "REQUEST_FILE"
  <2>1. a.action = action
    BY DEF CallOrSelect
  <2>2. a \in Down
    BY Kinds
  <2> HIDE DEF a
  <2> QED
    BY <2>1, <2>2 DEF Moves
<1> HIDE DEF a
<1>5. Opening(None, dn \o <<a>>, u, Listing)
  BY <1>2, <1>3, <1>4, Calls
<1> DEFINE d == dn \o <<a>>
<1>6. fetching \in [Master -> {None} \cup Transfers] /\ toStation \in [Master -> Seq(Down)]
      /\ toMaster \in [Master -> Seq(Up)]
  BY DEF IInv, Types
<1>7. d \in Seq(Down)
  BY <1>2, <1>4
<1> HIDE DEF d
<1>8. /\ fetching' \in [Master -> {None} \cup Transfers] /\ fetching'[m] = None
      /\ toStation' \in [Master -> Seq(Down)] /\ toStation'[m] = d
      /\ toMaster' \in [Master -> Seq(Up)] /\ toMaster'[m] = u
  BY <1>1, <1>6, <1>7 DEF d
<1>9. /\ Held(serving', store') /\ Refuses(toMaster'[m], Listing') /\ panicked' = FALSE
      /\ Hands(m, None) /\ Genuine(None) /\ faults' \in Nat /\ Listing' = Listing
  BY <1>1, <1>2, <1>8 DEF Hands, Genuine, Listing
<1>10. InPhase(fetching'[m], toStation'[m], toMaster'[m], serving', Listing', faults' = 0)
  BY <1>5, <1>8, <1>9 DEF InPhase, d
<1> QED
  BY <1>8, <1>9, <1>10, Kept

\* Sender::offer
LEMMA Offers ==
    ASSUME OneMaster, IInv, NEW m \in Master, NEW name \in Name, Offer(m, name)
    PROVE  IInv'
<1> DEFINE t == fetching[m]
           dn == toStation[m]
           u == toMaster[m]
           a == FileReady(name)
           w == u \o <<a>>
<1>1. toMaster' = [toMaster EXCEPT ![m] = Append(u, a)]
      /\ UNCHANGED <<store, serving, fetching, toStation, delivered, panicked, disturbed, faults>>
  BY DEF Offer
<1>2. dn \in Seq(Down) /\ u \in Seq(Up) /\ Refuses(u, Listing) /\ Held(serving, store)
      /\ panicked = FALSE /\ faults \in Nat /\ InPhase(t, dn, u, serving, Listing, faults = 0)
  BY Known
<1>3. a \in Up /\ a.type = "F_FR"
  BY DEF FileReady, Up, FR
<1> HIDE DEF a
<1>4. <<a>> \in Seq(Up) /\ NoSection(<<a>>)
  BY <1>3 DEF NoSection, Section
<1>5. InPhase(t, dn, w, serving, Listing, faults = 0)
  BY <1>2, <1>4, Appended
<1>6. Append(u, a) = w /\ w \in Seq(Up)
  BY <1>2, <1>3
<1>7. Refuses(w, Listing)
  BY <1>2, <1>3 DEF Refuses
<1>8. fetching \in [Master -> {None} \cup Transfers] /\ toStation \in [Master -> Seq(Down)]
      /\ toMaster \in [Master -> Seq(Up)]
  BY DEF IInv, Types
<1> HIDE DEF w
<1>9. /\ fetching' \in [Master -> {None} \cup Transfers] /\ fetching'[m] = t
      /\ toStation' \in [Master -> Seq(Down)] /\ toStation'[m] = dn
      /\ toMaster' \in [Master -> Seq(Up)] /\ toMaster'[m] = w
  BY <1>1, <1>6, <1>8
<1>10. /\ Held(serving', store') /\ Refuses(toMaster'[m], Listing') /\ panicked' = FALSE
       /\ Hands(m, None) /\ Genuine(None) /\ faults' \in Nat /\ Listing' = Listing
  BY <1>1, <1>2, <1>7, <1>9 DEF Hands, Genuine, Listing
<1>11. InPhase(fetching'[m], toStation'[m], toMaster'[m], serving', Listing', faults' = 0)
  BY <1>1, <1>5, <1>9, <1>10
<1> QED
  BY <1>9, <1>10, <1>11, Kept

\* What is under way to the master, and what the station answers.
LEMMA RefusesBoth ==
    ASSUME NEW u \in Seq(Up), NEW o \in Seq(Up), NEW L, NEW M, M \subseteq L, Refuses(u, L),
           Refuses(o, M)
    PROVE  Refuses(u \o o, M)
BY Longer DEF Refuses

\* The station passes a message to its Sender.
LEMMA StationTakes ==
    ASSUME OneMaster, IInv, NEW m \in Master, StationHandles(m)
    PROVE  IInv'
<1> DEFINE t == fetching[m]
           dn == toStation[m]
           u == toMaster[m]
           r == StationReply(Head(dn))
           d == Tail(dn)
           o == r.out
           w == u \o o
<1>1. /\ dn # <<>> /\ serving' = r.serving /\ store' = r.store /\ panicked' = r.panic
      /\ toMaster' = [toMaster EXCEPT ![m] = w] /\ toStation' = [toStation EXCEPT ![m] = d]
      /\ UNCHANGED <<fetching, delivered, disturbed, requests, faults>>
  BY DEF StationHandles
<1>2. /\ t \in {None} \cup Transfers /\ dn \in Seq(Down) /\ u \in Seq(Up) /\ Refuses(u, Listing)
      /\ Held(serving, store) /\ faults \in Nat
      /\ InPhase(t, dn, u, serving, Listing, faults = 0)
  BY Known
<1>3. Answered(r, t, d, u, faults = 0)
  BY <1>1, <1>2, StationAnswers
<1>4. d \in Seq(Down)
  BY <1>1, <1>2, Fewer
<1>5. /\ r.panic = FALSE /\ Held(r.serving, r.store) /\ DOMAIN r.store \subseteq Listing
      /\ o \in Seq(Up) /\ InPhase(t, d, w, r.serving, DOMAIN r.store, faults = 0)
      /\ Refuses(o, DOMAIN r.store)
  BY <1>3 DEF Answered, Phases
<1>6. w \in Seq(Up)
  BY <1>2, <1>5
<1>7. Refuses(w, DOMAIN r.store)
  BY <1>2, <1>5, RefusesBoth
<1>8. fetching \in [Master -> {None} \cup Transfers] /\ toStation \in [Master -> Seq(Down)]
      /\ toMaster \in [Master -> Seq(Up)]
  BY DEF IInv, Types
<1> HIDE DEF w, d, r
<1>9. /\ fetching' \in [Master -> {None} \cup Transfers] /\ fetching'[m] = t
      /\ toStation' \in [Master -> Seq(Down)] /\ toStation'[m] = d
      /\ toMaster' \in [Master -> Seq(Up)] /\ toMaster'[m] = w
  BY <1>1, <1>4, <1>6, <1>8
<1>10. /\ Held(serving', store') /\ Refuses(toMaster'[m], Listing') /\ panicked' = FALSE
       /\ Hands(m, None) /\ Genuine(None) /\ faults' \in Nat /\ Listing' = DOMAIN r.store
  BY <1>1, <1>2, <1>5, <1>7, <1>9 DEF Hands, Genuine, Listing
<1>11. InPhase(fetching'[m], toStation'[m], toMaster'[m], serving', Listing', faults' = 0)
  BY <1>1, <1>5, <1>9, <1>10
<1> QED
  BY <1>9, <1>10, <1>11, Kept

\* The answer of the station stops in the middle, and it gives up.
LEMMA StationFails ==
    ASSUME OneMaster, IInv, NEW m \in Master, StationSendFails(m)
    PROVE  IInv'
<1> DEFINE t == fetching[m]
           dn == toStation[m]
           u == toMaster[m]
           r == StationReply(Head(dn))
           d == Tail(dn)
           o == r.out
<1>1. PICK n \in 0 .. Len(o) - 1 : toMaster' = [toMaster EXCEPT ![m] = u \o SubSeq(o, 1, n)]
  BY DEF StationSendFails
<1> DEFINE s == SubSeq(o, 1, n)
           w == u \o s
<1>2. /\ dn # <<>> /\ serving' = None /\ store' = r.store /\ faults' = faults + 1
      /\ toMaster' = [toMaster EXCEPT ![m] = w] /\ toStation' = [toStation EXCEPT ![m] = d]
      /\ UNCHANGED <<fetching, delivered, panicked, requests>>
  BY <1>1 DEF StationSendFails, Fault
<1>3. /\ t \in {None} \cup Transfers /\ dn \in Seq(Down) /\ u \in Seq(Up) /\ Refuses(u, Listing)
      /\ Held(serving, store) /\ faults \in Nat /\ panicked = FALSE
      /\ InPhase(t, dn, u, serving, Listing, faults = 0)
  BY Known
<1>4. Answered(r, t, d, u, faults = 0)
  BY <1>2, <1>3, StationAnswers
<1>5. d \in Seq(Down)
  BY <1>2, <1>3, Fewer
<1>6. /\ Held(r.serving, r.store) /\ DOMAIN r.store \subseteq Listing
      /\ o \in Seq(Up) /\ Refuses(o, DOMAIN r.store)
      /\ InPhase(t, d, w, None, DOMAIN r.store, FALSE)
  BY <1>4 DEF Answered, Phases
<1>7. s \in Seq(Up) /\ Refuses(s, DOMAIN r.store)
  <2>1. n \in Int /\ 1 \in Int /\ \A i \in 1 .. n : o[i] \in Up
    BY <1>6
  <2>2. s \in Seq(Up) /\ Len(s) = n /\ \A i \in 1 .. n : s[i] = o[i]
    <3> HIDE DEF o
    <3>1. Len(o) \in Nat /\ n \in 0 .. Len(o)
      BY <1>6
    <3> QED
      BY <1>6, <3>1
  <2>3. \A i \in 1 .. n : i \in 1 .. Len(o)
    BY <1>6
  <2> HIDE DEF s, o
  <2> QED
    BY <1>6, <2>2, <2>3 DEF Refuses
<1> HIDE DEF s
<1>8. w \in Seq(Up)
  BY <1>3, <1>7
<1>9. Refuses(w, DOMAIN r.store)
  BY <1>3, <1>6, <1>7, RefusesBoth
<1>10. Held(None, r.store)
  BY <1>6 DEF Held
<1>11. fetching \in [Master -> {None} \cup Transfers] /\ toStation \in [Master -> Seq(Down)]
       /\ toMaster \in [Master -> Seq(Up)]
  BY DEF IInv, Types
<1> HIDE DEF w, d, r
<1>12. /\ fetching' \in [Master -> {None} \cup Transfers] /\ fetching'[m] = t
       /\ toStation' \in [Master -> Seq(Down)] /\ toStation'[m] = d
       /\ toMaster' \in [Master -> Seq(Up)] /\ toMaster'[m] = w
  BY <1>2, <1>5, <1>8, <1>11
<1>13. /\ Held(serving', store') /\ Refuses(toMaster'[m], Listing') /\ panicked' = FALSE
       /\ Hands(m, None) /\ Genuine(None) /\ faults' \in Nat /\ Listing' = DOMAIN r.store
  BY <1>2, <1>3, <1>9, <1>10, <1>12 DEF Hands, Genuine, Listing
<1>14. (faults' = 0) = FALSE
  BY <1>2, <1>3
<1>15. InPhase(fetching'[m], toStation'[m], toMaster'[m], serving', Listing', faults' = 0)
  BY <1>2, <1>6, <1>12, <1>13, <1>14
<1> QED
  BY <1>12, <1>13, <1>15, Kept

\* The master passes a message to its Receiver.
LEMMA MasterTakesOne ==
    ASSUME OneMaster, IInv, NEW m \in Master, MasterHandles(m)
    PROVE  IInv'
<1> DEFINE t == fetching[m]
           dn == toStation[m]
           u == toMaster[m]
           r == MasterReply(t, Head(u))
           w == Tail(u)
           d == dn \o r.out
           z == r.fetching
           f == r.file
<1>1. /\ u # <<>> /\ fetching' = [fetching EXCEPT ![m] = z]
      /\ toStation' = [toStation EXCEPT ![m] = d] /\ Hands(m, f)
      /\ toMaster' = [toMaster EXCEPT ![m] = w]
      /\ UNCHANGED <<store, serving, panicked, disturbed, requests, faults>>
  BY DEF MasterHandles, Attends, Tell
<1>2. /\ t \in {None} \cup Transfers /\ dn \in Seq(Down) /\ u \in Seq(Up) /\ Refuses(u, Listing)
      /\ Held(serving, store) /\ faults \in Nat /\ panicked = FALSE
      /\ Listing \subseteq DOMAIN Content
      /\ InPhase(t, dn, u, serving, Listing, faults = 0)
  BY Known
<1>3. /\ Head(u) = u[1] /\ 1 \in 1 .. Len(u) /\ w \in Seq(Up) /\ Len(w) = Len(u) - 1
      /\ Len(u) \in Nat /\ \A i \in 1 .. Len(u) - 1 : w[i] = u[i + 1] /\ i + 1 \in 1 .. Len(u)
  <2>1. Len(u) \in Nat \ {0}
    BY <1>1, <1>2, EmptySeq
  <2> QED
    BY <1>1, <1>2, <2>1, HeadTailProperties
<1>4. Head(u).type = "F_SC_NEG" => Head(u).name \notin Listing
  BY <1>2, <1>3 DEF Refuses
<1>5. Taken(r, dn, w, serving, Listing, faults = 0)
  BY <1>1, <1>2, <1>4, MasterTakes
<1>6. /\ InPhase(z, d, w, serving, Listing, faults = 0)
      /\ z \in {None} \cup Transfers /\ r.out \in Seq(Down) /\ Genuine(f)
  BY <1>5 DEF Taken, Genuine
<1>7. d \in Seq(Down)
  BY <1>2, <1>6
<1>8. Refuses(w, Listing)
  BY <1>2, <1>3 DEF Refuses
<1>9. fetching \in [Master -> {None} \cup Transfers] /\ toStation \in [Master -> Seq(Down)]
      /\ toMaster \in [Master -> Seq(Up)]
  BY DEF IInv, Types
<1> HIDE DEF w, d, z, f
<1>10. /\ fetching' \in [Master -> {None} \cup Transfers] /\ fetching'[m] = z
       /\ toStation' \in [Master -> Seq(Down)] /\ toStation'[m] = d
       /\ toMaster' \in [Master -> Seq(Up)] /\ toMaster'[m] = w
  BY <1>1, <1>3, <1>6, <1>7, <1>9
<1>11. /\ Held(serving', store') /\ Refuses(toMaster'[m], Listing') /\ panicked' = FALSE
       /\ faults' \in Nat /\ Listing' = Listing
  BY <1>1, <1>2, <1>8, <1>10 DEF Listing
<1>12. InPhase(fetching'[m], toStation'[m], toMaster'[m], serving', Listing', faults' = 0)
  BY <1>1, <1>6, <1>10, <1>11
<1> QED
  BY <1>1, <1>6, <1>10, <1>11, <1>12, Kept

\* It cannot send its answer, and is ready for the next file.
LEMMA MasterFails ==
    ASSUME OneMaster, IInv, NEW m \in Master, MasterSendFails(m)
    PROVE  IInv'
<1> DEFINE t == fetching[m]
           dn == toStation[m]
           u == toMaster[m]
           r == MasterReply(t, Head(u))
           w == Tail(u)
           f == r.file
<1>1. /\ u # <<>> /\ r.out # <<>> /\ Hands(m, f) /\ fetching' = [fetching EXCEPT ![m] = None]
      /\ toMaster' = [toMaster EXCEPT ![m] = w] /\ faults' = faults + 1
      /\ UNCHANGED <<store, serving, toStation, panicked, disturbed, requests>>
  BY DEF MasterSendFails, Attends, Fault
<1>2. /\ t \in {None} \cup Transfers /\ dn \in Seq(Down) /\ u \in Seq(Up) /\ Refuses(u, Listing)
      /\ Held(serving, store) /\ faults \in Nat /\ panicked = FALSE
      /\ Listing \subseteq DOMAIN Content
      /\ InPhase(t, dn, u, serving, Listing, faults = 0)
  BY Known
<1>3. /\ Head(u) = u[1] /\ 1 \in 1 .. Len(u) /\ w \in Seq(Up) /\ Len(w) = Len(u) - 1
      /\ Len(u) \in Nat /\ \A i \in 1 .. Len(u) - 1 : w[i] = u[i + 1] /\ i + 1 \in 1 .. Len(u)
  <2>1. Len(u) \in Nat \ {0}
    BY <1>1, <1>2, EmptySeq
  <2> QED
    BY <1>1, <1>2, <2>1, HeadTailProperties
<1>4. Head(u).type = "F_SC_NEG" => Head(u).name \notin Listing
  BY <1>2, <1>3 DEF Refuses
<1>5. Taken(r, dn, w, serving, Listing, faults = 0)
  BY <1>1, <1>2, <1>4, MasterTakes
<1>6. InPhase(None, dn, w, serving, Listing, FALSE) /\ Genuine(f)
  BY <1>1, <1>5 DEF Taken, Genuine
<1>7. Refuses(w, Listing)
  BY <1>2, <1>3 DEF Refuses
<1>8. fetching \in [Master -> {None} \cup Transfers] /\ toStation \in [Master -> Seq(Down)]
      /\ toMaster \in [Master -> Seq(Up)]
  BY DEF IInv, Types
<1> HIDE DEF w, f
<1>9. /\ fetching' \in [Master -> {None} \cup Transfers] /\ fetching'[m] = None
      /\ toStation' \in [Master -> Seq(Down)] /\ toStation'[m] = dn
      /\ toMaster' \in [Master -> Seq(Up)] /\ toMaster'[m] = w
  BY <1>1, <1>3, <1>8
<1>10. /\ Held(serving', store') /\ Refuses(toMaster'[m], Listing') /\ panicked' = FALSE
       /\ faults' \in Nat /\ Listing' = Listing /\ serving' = serving
  BY <1>1, <1>2, <1>7, <1>9 DEF Listing
<1>11. (faults' = 0) = FALSE
  BY <1>1, <1>2
<1>12. InPhase(fetching'[m], toStation'[m], toMaster'[m], serving', Listing', faults' = 0)
  BY <1>6, <1>9, <1>10, <1>11
<1> QED
  BY <1>1, <1>6, <1>9, <1>10, <1>12, Kept

\* Receiver::abort, with nothing under way
LEMMA Aborts ==
    ASSUME OneMaster, QuietAbort, IInv, NEW m \in Master, Abort(m)
    PROVE  IInv'
<1>1. /\ toStation[m] = <<>> /\ toMaster[m] = <<>> /\ fetching' = [fetching EXCEPT ![m] = None]
      /\ UNCHANGED <<store, serving, toStation, toMaster, delivered, panicked, requests, faults>>
  BY DEF Abort
<1>2. /\ Refuses(toMaster[m], Listing) /\ Held(serving, store) /\ faults \in Nat
      /\ panicked = FALSE
  BY Known
<1>3. fetching \in [Master -> {None} \cup Transfers] /\ toStation \in [Master -> Seq(Down)]
      /\ toMaster \in [Master -> Seq(Up)]
  BY DEF IInv, Types
<1>4. /\ fetching' \in [Master -> {None} \cup Transfers] /\ fetching'[m] = None
      /\ toStation' \in [Master -> Seq(Down)] /\ toStation'[m] = <<>>
      /\ toMaster' \in [Master -> Seq(Up)] /\ toMaster'[m] = <<>>
  BY <1>1, <1>3
<1>5. /\ Held(serving', store') /\ Refuses(toMaster'[m], Listing') /\ panicked' = FALSE
      /\ Hands(m, None) /\ Genuine(None) /\ faults' \in Nat /\ Listing' = Listing
  BY <1>1, <1>2, <1>4 DEF Hands, Genuine, Listing
<1>6. Opening(None, <<>>, <<>>, Listing)
  BY DEF Opening, NoSection
<1>7. InPhase(fetching'[m], toStation'[m], toMaster'[m], serving', Listing', faults' = 0)
  BY <1>4, <1>5, <1>6 DEF InPhase
<1> QED
  BY <1>4, <1>5, <1>7, Kept

\* Sender::abort
LEMMA SenderAborts ==
    ASSUME OneMaster, IInv, NEW m \in Master, SenderAbort
    PROVE  IInv'
<1> DEFINE t == fetching[m]
           dn == toStation[m]
           u == toMaster[m]
<1>1. /\ serving' = None /\ faults' = faults + 1
      /\ UNCHANGED <<store, fetching, toStation, toMaster, delivered, panicked, requests>>
  BY DEF SenderAbort, Fault
<1>2. /\ Refuses(u, Listing) /\ Held(serving, store) /\ faults \in Nat /\ panicked = FALSE
      /\ InPhase(t, dn, u, serving, Listing, faults = 0)
  BY Known
<1>3. fetching \in [Master -> {None} \cup Transfers] /\ toStation \in [Master -> Seq(Down)]
      /\ toMaster \in [Master -> Seq(Up)]
  BY DEF IInv, Types
<1>4. InPhase(t, dn, u, None, Listing, FALSE)
  BY <1>2, Weaker
<1>5. /\ Held(serving', store') /\ Refuses(toMaster'[m], Listing') /\ panicked' = FALSE
      /\ Hands(m, None) /\ Genuine(None) /\ faults' \in Nat /\ Listing' = Listing
  BY <1>1, <1>2 DEF Hands, Genuine, Listing, Held
<1>6. (faults' = 0) = FALSE
  BY <1>1, <1>2
<1>7. InPhase(fetching'[m], toStation'[m], toMaster'[m], serving', Listing', faults' = 0)
  BY <1>1, <1>4, <1>5, <1>6
<1>8. /\ fetching' \in [Master -> {None} \cup Transfers] /\ toStation' \in [Master -> Seq(Down)]
      /\ toMaster' \in [Master -> Seq(Up)]
  BY <1>1, <1>3
<1> QED
  BY <1>5, <1>7, <1>8, Kept

\* The connection breaks.
LEMMA Breaks ==
    ASSUME OneMaster, IInv, NEW m \in Master, Break(m)
    PROVE  IInv'
<1> DEFINE t == fetching[m]
           dn == toStation[m]
           u == toMaster[m]
<1>1. /\ faults' = faults + 1 /\ toStation' = [toStation EXCEPT ![m] = <<>>]
      /\ toMaster' = [toMaster EXCEPT ![m] = <<>>]
      /\ UNCHANGED <<store, serving, fetching, delivered, panicked, requests>>
  BY DEF Break, Fault
<1>2. /\ Held(serving, store) /\ faults \in Nat /\ panicked = FALSE
      /\ InPhase(t, dn, u, serving, Listing, faults = 0)
  BY Known
<1>3. fetching \in [Master -> {None} \cup Transfers] /\ toStation \in [Master -> Seq(Down)]
      /\ toMaster \in [Master -> Seq(Up)]
  BY DEF IInv, Types
<1>4. InPhase(t, <<>>, <<>>, serving, Listing, FALSE)
  BY <1>2, Broken
<1>5. /\ fetching' \in [Master -> {None} \cup Transfers] /\ fetching'[m] = t
      /\ toStation' \in [Master -> Seq(Down)] /\ toStation'[m] = <<>>
      /\ toMaster' \in [Master -> Seq(Up)] /\ toMaster'[m] = <<>>
  <2>1. <<>> \in Seq(Down) /\ <<>> \in Seq(Up)
    OBVIOUS
  <2> QED
    BY <1>1, <1>3, <2>1
<1>6. /\ Held(serving', store') /\ Refuses(toMaster'[m], Listing') /\ panicked' = FALSE
      /\ Hands(m, None) /\ Genuine(None) /\ faults' \in Nat /\ Listing' = Listing
      /\ serving' = serving
  BY <1>1, <1>2, <1>5 DEF Hands, Genuine, Listing, Refuses
<1>7. (faults' = 0) = FALSE
  BY <1>1, <1>2
<1>8. InPhase(fetching'[m], toStation'[m], toMaster'[m], serving', Listing', faults' = 0)
  BY <1>4, <1>5, <1>6, <1>7
<1> QED
  BY <1>5, <1>6, <1>8, Kept

\* A segment is lost, doubled or altered.
LEMMA Faults ==
    ASSUME OneMaster, IInv, NEW m \in Master, SegmentFault(m)
    PROVE  IInv'
<1> DEFINE t == fetching[m]
           dn == toStation[m]
           u == toMaster[m]
<1>1. /\ t \in {None} \cup Transfers /\ dn \in Seq(Down) /\ u \in Seq(Up) /\ Refuses(u, Listing)
      /\ Held(serving, store) /\ faults \in Nat /\ panicked = FALSE
      /\ Listing \subseteq DOMAIN Content
      /\ InPhase(t, dn, u, serving, Listing, faults = 0)
  BY Known
<1>2. PICK i \in DOMAIN u :
        /\ u[i].type = "F_SG"
        /\ \E new \in {<<>>, <<u[i], u[i]>>, <<Altered(u[i])>>} :
             toMaster' = [toMaster EXCEPT ![m] =
                             SubSeq(@, 1, i - 1) \o new \o SubSeq(@, i + 1, Len(@))]
  BY DEF SegmentFault
<1>3. PICK o \in Faulty(u[i]) :
        toMaster' = [toMaster EXCEPT ![m] = SubSeq(u, 1, i - 1) \o o \o SubSeq(u, i + 1, Len(u))]
  BY <1>2 DEF Faulty
<1> DEFINE w == SubSeq(u, 1, i - 1) \o o \o SubSeq(u, i + 1, Len(u))
<1>4. i \in 1 .. Len(u) /\ u[i] \in Up /\ u[i].type = "F_SG"
  <2>1. DOMAIN u = 1 .. Len(u) /\ \A j \in 1 .. Len(u) : u[j] \in Up
    BY <1>1
  <2> QED
    BY <1>2, <2>1
<1>5. /\ o \in Seq(Up)
      /\ \A k \in 1 .. Len(o) : o[k].type = "F_SG" /\ o[k].name = u[i].name /\ o[k].nos = u[i].nos
  BY <1>4, FaultIs
<1>6. Replaces(w, u, i, o)
  BY <1>1, <1>4, <1>5, Replaced
<1>7. /\ Lossy /\ faults = 0 /\ faults' = faults + 1 /\ toMaster' = [toMaster EXCEPT ![m] = w]
      /\ UNCHANGED <<store, serving, fetching, toStation, delivered, panicked, disturbed, requests>>
  BY <1>3 DEF SegmentFault, Fault
<1> HIDE DEF w
<1>8. InPhase(t, dn, u, serving, Listing, TRUE)
  <2>1. (faults = 0) = TRUE
    BY <1>7
  <2> QED
    BY <1>1, <2>1
<1>9. InPhase(t, dn, w, serving, Listing, FALSE)
  BY <1>1, <1>4, <1>6, <1>7, <1>8, FaultyPhase
<1>10. w \in Seq(Up) /\ Refuses(w, Listing)
  <2>1. w \in Seq(Up)
    BY <1>6 DEF Replaces
  <2>2. ASSUME NEW j \in 1 .. Len(w), w[j].type = "F_SC_NEG" PROVE w[j].name \notin Listing
    <3>1. \/ j \in 1 .. i - 1 /\ w[j] = u[j]
          \/ \E k \in 1 .. Len(o) : j = i - 1 + k /\ w[j] = o[k]
          \/ \E k \in i + 1 .. Len(u) : j = k - 1 + Len(o) /\ w[j] = u[k]
      BY <1>6 DEF Replaces
    <3>2. ~\E k \in 1 .. Len(o) : w[j] = o[k]
      BY <1>5, <2>2
    <3>3. (\A k \in 1 .. i - 1 : k \in 1 .. Len(u)) /\ (\A k \in i + 1 .. Len(u) : k \in 1 .. Len(u))
      BY <1>1, <1>4
    <3>4. \E k \in 1 .. Len(u) : w[j] = u[k]
      BY <3>1, <3>2, <3>3
    <3> QED
      BY <1>1, <2>2, <3>4 DEF Refuses
  <2> QED
    BY <2>1, <2>2 DEF Refuses
<1>11. fetching \in [Master -> {None} \cup Transfers] /\ toStation \in [Master -> Seq(Down)]
       /\ toMaster \in [Master -> Seq(Up)]
  BY DEF IInv, Types
<1>12. /\ fetching' \in [Master -> {None} \cup Transfers] /\ fetching'[m] = t
       /\ toStation' \in [Master -> Seq(Down)] /\ toStation'[m] = dn
       /\ toMaster' \in [Master -> Seq(Up)] /\ toMaster'[m] = w
  BY <1>7, <1>10, <1>11
<1>13. /\ Held(serving', store') /\ Refuses(toMaster'[m], Listing') /\ panicked' = FALSE
       /\ Hands(m, None) /\ Genuine(None) /\ faults' \in Nat /\ Listing' = Listing
       /\ serving' = serving
  BY <1>1, <1>7, <1>10, <1>12 DEF Hands, Genuine, Listing
<1>14. (faults' = 0) = FALSE
  BY <1>7
<1>15. InPhase(fetching'[m], toStation'[m], toMaster'[m], serving', Listing', faults' = 0)
  BY <1>9, <1>12, <1>13, <1>14
<1> QED
  BY <1>12, <1>13, <1>15, Kept

-----------------------------------------------------------------------------
(***************************************************************************)
(* The theorems.                                                           *)
(***************************************************************************)

\* Nothing is under way at first.
LEMMA InitIInv == Init => IInv
<1> SUFFICES ASSUME Init PROVE IInv
  OBVIOUS
<1>1. /\ store = Content /\ serving = None /\ fetching = [m \in Master |-> None]
      /\ toStation = [m \in Master |-> <<>>] /\ toMaster = [m \in Master |-> <<>>]
      /\ delivered = [m \in Master |-> <<>>] /\ panicked = FALSE /\ faults = 0
  BY DEF Init
<1>2. \A S : <<>> \in Seq(S)
  OBVIOUS
<1>3. Len(<<>>) = 0 /\ DOMAIN <<>> = {}
  OBVIOUS
<1> DEFINE F == [name : Name, data : Data]
<1>4. delivered \in [Master -> Seq(F)]
  <2>1. <<>> \in Seq(F)
    BY <1>2
  <2> HIDE DEF F
  <2> QED
    BY <1>1, <2>1
<1>5. Types
  <2>1. toStation \in [Master -> Seq(Down)] /\ toMaster \in [Master -> Seq(Up)]
    BY <1>1, <1>2
  <2>2. Listing \subseteq DOMAIN Content /\ \A n \in Listing : store[n] = Content[n]
    BY <1>1 DEF Listing
  <2>3. \A m \in Master : Len(toMaster[m]) = 0
    BY <1>1
  <2>4. fetching \in [Master -> {None} \cup Transfers] /\ faults \in Nat
    BY <1>1
  <2> HIDE DEF F
  <2> QED
    BY <1>1, <1>4, <2>1, <2>2, <2>3, <2>4 DEF Types, F
<1>6. FileIntact
  BY <1>1, <1>3 DEF FileIntact
<1>7. Opening(None, <<>>, <<>>, Listing)
  BY DEF Opening, NoSection
<1>8. \A m \in Master :
         InPhase(fetching[m], toStation[m], toMaster[m], serving, Listing, faults = 0)
  BY <1>1, <1>7 DEF InPhase
<1> QED
  BY <1>5, <1>6, <1>8 DEF IInv

\* A select stays that of the transfer that has not begun, as the handler waits for it.
LEMMA NextSelects ==
    ASSUME OneMaster, QuietAbort, PromptSelect, IInv, Selects, [Next]_vars
    PROVE  Selects'
<1>1. selecting \in [Master -> {None} \cup Transfers]
      /\ \A m \in Master : selecting[m] # None =>
           \E n \in Name : fetching[m] = NewTransfer(n) /\ selecting[m] = NewTransfer(n)
  BY DEF Selects
<1>2. CASE UNCHANGED <<fetching, selecting>>
  BY <1>1, <1>2 DEF Selects
<1>3. ASSUME NEW m \in Master, selecting[m] = None, UNCHANGED selecting PROVE Selects'
  BY <1>1, <1>3 DEF Selects, OneMaster
<1>4. ASSUME NEW m \in Master, selecting' = [selecting EXCEPT ![m] = None] PROVE Selects'
  BY <1>1, <1>4 DEF Selects, OneMaster
<1>5. ASSUME NEW m \in Master, NEW name \in Name, RequestFile(m, name) PROVE Selects'
  <2> DEFINE z == NewTransfer(name)
  <2>0. selecting[m] = None /\ fetching[m] = None
    BY <1>5 DEF RequestFile
  <2>1. \/ selecting' = [selecting EXCEPT ![m] = None]
        \/ selecting' = [selecting EXCEPT ![m] = z] /\ fetching' = [fetching EXCEPT ![m] = z]
    BY <1>5 DEF RequestFile
  <2>2. z \in Transfers /\ z = NewTransfer(name)
    BY NoneIsNone
  <2>3. m \in DOMAIN fetching => [fetching EXCEPT ![m] = z][m] = z
    OBVIOUS
  <2> HIDE DEF z
  <2>4. CASE selecting' = [selecting EXCEPT ![m] = z] /\ fetching' = [fetching EXCEPT ![m] = z]
    <3>1. selecting' \in [Master -> {None} \cup Transfers]
      BY <1>1, <2>2, <2>4
    <3>2. fetching'[m] = z /\ selecting'[m] = z
      BY <1>1, <2>4 DEF IInv, Types
    <3>3. \A x \in Master : x = m
      BY DEF OneMaster
    <3> QED
      BY <2>2, <3>1, <3>2, <3>3 DEF Selects
  <2> QED
    BY <1>4, <2>1, <2>4
<1>6. CASE UNCHANGED vars
  BY <1>2, <1>6 DEF vars
<1>7. ASSUME NEW m \in Master, MasterHandles(m) \/ MasterSendFails(m) \/ Abort(m) PROVE Selects'
  BY <1>3, <1>7 DEF MasterHandles, MasterSendFails, Abort, Attends
<1>8. ASSUME NEW m \in Master, SendSelect(m) \/ SelectFails(m) PROVE Selects'
  BY <1>4, <1>8 DEF SendSelect, SelectFails
<1>9. ASSUME NEW m \in Master, StationHandles(m) \/ StationSendFails(m) \/ Break(m)
                               \/ SegmentFault(m) \/ SenderAbort
      PROVE  Selects'
  BY <1>2, <1>9 DEF StationHandles, StationSendFails, Break, SegmentFault, SenderAbort
<1>10. ASSUME NEW m \in Master, NEW name \in Name, Offer(m, name) PROVE Selects'
  BY <1>2, <1>10 DEF Offer
<1>11. ASSUME NEW m \in Master, NEW name \in Name, NEW action, OtherRequest(m, action, name)
       PROVE  Selects'
  BY <1>2, <1>11 DEF OtherRequest
<1>12. CASE SenderAbort
  BY <1>2, <1>12 DEF SenderAbort
<1> QED
  BY <1>5, <1>6, <1>7, <1>8, <1>9, <1>10, <1>11, <1>12 DEF Next

\* With one master that aborts nothing that is under way and sends its selects at once,
\* every step keeps the invariant.
LEMMA NextIInv ==
    ASSUME OneMaster, QuietAbort, IInv, Selects, [Next]_vars
    PROVE  IInv'
<1>1. CASE UNCHANGED vars
  BY <1>1 DEF vars, IInv, Types, FileIntact, Listing
<1>2. CASE \E m \in Master : \/ \E name \in Name : RequestFile(m, name)
                             \/ SendSelect(m) \/ SelectFails(m)
  BY <1>2, Requests, SendsSelect, SelectingFails
<1>3. CASE \E m \in Master : \E name \in Name : Offer(m, name)
  BY <1>3, Offers
<1>4. CASE \E m \in Master : \E name \in Name, action \in {"DEACTIVATE_FILE", "DELETE_FILE", "DEFAULT"} :
             OtherRequest(m, action, name)
  BY <1>4, RequestsOther
<1>5. CASE \E m \in Master : StationHandles(m) \/ StationSendFails(m)
  BY <1>5, StationTakes, StationFails
<1>6. CASE \E m \in Master : MasterHandles(m) \/ MasterSendFails(m)
  BY <1>6, MasterTakesOne, MasterFails
<1>7. CASE \E m \in Master : Abort(m) \/ Break(m) \/ SegmentFault(m)
  BY <1>7, Aborts, Breaks, Faults
<1>8. CASE SenderAbort
  <2>1. CASE Master = {}
    <3>1. store' = store /\ serving' = None /\ faults' = faults + 1
          /\ UNCHANGED <<store, fetching, toStation, toMaster, delivered, panicked, requests>>
      BY <1>8 DEF SenderAbort, Fault
    <3> QED
      BY <2>1, <3>1 DEF IInv, Types, FileIntact, Listing
  <2>2. CASE Master # {}
    BY <1>8, <2>2, SenderAborts
  <2> QED
    BY <2>1, <2>2
<1> QED
  BY <1>1, <1>2, <1>3, <1>4, <1>5, <1>6, <1>7, <1>8 DEF Next

\* The two invariants hold together.
LEMMA BothHold ==
    ASSUME OneMaster, QuietAbort, PromptSelect PROVE Spec => [](IInv /\ Selects)
<1>1. Init => IInv /\ Selects
  BY InitIInv DEF Init, Selects
<1>2. IInv /\ Selects /\ [Next]_vars => IInv' /\ Selects'
  BY NextIInv, NextSelects
<1> QED
  BY <1>1, <1>2, PTL DEF Spec

\* With one master the station is never asked for a section it does not have, whatever
\* files there are and whatever is lost (sender.rs:455, whose index is not checked): its
\* section is the one the master waits for.  The master aborts only a transfer of which
\* nothing is under way (QuietAbort), and its handler takes nothing in while request_file
\* awaits the sending of the select (PromptSelect).
THEOREM StationNeverPanics ==
    ASSUME OneMaster, QuietAbort, PromptSelect PROVE Spec => []NoPanic
<1>1. IInv => NoPanic
  BY DEF IInv, Types, NoPanic
<1> QED
  BY <1>1, BothHold, PTL

\* With one master, on a connection that loses and alters no segment or with checksums that
\* tell when one is lost or altered (Trusted), every file handed over is the station's, octet
\* by octet (receiver.rs:491-493), whatever connections break, sends fail and files are
\* deleted on the way, and whenever the station aborts.  The master itself aborts only a
\* transfer of which nothing is under way (QuietAbort), and its handler takes nothing in
\* while request_file awaits the sending of the select (PromptSelect): without either of
\* the two a file can be handed over with a section twice or left out.
THEOREM FilesArriveIntact ==
    ASSUME OneMaster, QuietAbort, PromptSelect, Trusted PROVE Spec => []FileIntact
<1>1. IInv => FileIntact
  BY DEF IInv
<1> QED
  BY <1>1, BothHold, PTL
=============================================================================
