----------------------------- MODULE MCAsduCodec -----------------------------
EXTENDS Dispatch

Narrow  == [cause_size |-> 1, ca_size |-> 1, ioa_size |-> 1]
Short   == [cause_size |-> 1, ca_size |-> 1, ioa_size |-> 2]
Wide    == [cause_size |-> 2, ca_size |-> 2, ioa_size |-> 3]

\* Summer time of an hour in the north and in the south, and of half an hour;
\* the clocks go forward at Spring and back at Autumn.
Spring == 2 * Year + 2 * Month + 28 * Day + Hour
Autumn == 2 * Year + 9 * Month + 27 * Day + Hour
North == [std |-> 60, shift |-> 60, from |-> Spring % Year, to |-> Autumn % Year]
South == [std |-> 600, shift |-> 60, from |-> Autumn % Year, to |-> Spring % Year]
Half  == [std |-> 630, shift |-> 30, from |-> Autumn % Year, to |-> Spring % Year]

\* The receiver's clock, where nothing is said of it: three minutes after the
\* clocks went forward in the north.
ClockNow == Spring + 3

At(m, ms) == [at |-> m, ms |-> ms]
Flags == [invalid : BOOLEAN, substituted : BOOLEAN]

Samples(k) ==
  CASE k \in {"SIQ"} -> <<<<0, 0>>, <<1, 128>>, <<0, 255>>>>
    [] k \in {"DIQ", "SEP"} -> <<<<0, 16>>, <<2, 128>>, <<3, 240>>>>
    [] k = "VTI" -> <<<<-64, TRUE>>, <<63, FALSE>>, <<-1, FALSE>>>>
    [] k \in {"QDS", "QDSF", "OCT", "QDP"} -> <<0, 255, 104>>
    [] k = "R2" -> <<<<0, 128>>, <<255, 255>>, <<22, 104>>>>
    [] k = "R3" -> <<<<0, 0, 0>>, <<255, 255, 255>>, <<1, 2, 3>>>>
    [] k = "R4" -> <<<<0, 0, 192, 127>>, <<255, 255, 255, 255>>, <<1, 2, 3, 4>>>>
    [] k = "BCR" -> <<<<<<1, 2, 3, 4>>, 31, TRUE, FALSE, TRUE>>,
                      <<<<255, 0, 0, 0>>, 0, FALSE, TRUE, FALSE>>,
                      <<<<0, 0, 0, 0>>, 5, FALSE, FALSE, TRUE>>>>
    [] k = "SCO" -> <<<<1, 0, TRUE>>, <<0, 31, FALSE>>, <<1, 3, FALSE>>>>
    [] k \in {"DCO", "RCO"} -> <<<<1, 0, TRUE>>, <<2, 31, FALSE>>, <<3, 3, TRUE>>>>
    [] k \in {"QOS", "COI", "QRQ"} -> <<<<127, FALSE>>, <<0, TRUE>>, <<5, TRUE>>>>
    [] k = "QCC" -> <<<<5, 64>>, <<63, 192>>, <<0, 0>>>>
    [] k = "QPM" -> <<<<63, FALSE, TRUE>>, <<0, TRUE, FALSE>>, <<4, TRUE, TRUE>>>>
    [] k = "SCQ" -> <<<<1, 15>>, <<15, 0>>, <<6, 5>>>>
    [] k = "SOF" -> <<<<31, FALSE, TRUE, FALSE>>, <<0, TRUE, FALSE, TRUE>>,
                      <<1, TRUE, TRUE, TRUE>>>>
    [] k = "FBP" -> <<TRUE, TRUE, TRUE>>
    [] k = "LOS" -> <<<<>>, [i \in 1 .. 7 |-> i], [i \in 1 .. 232 |-> 104]>>
    [] k = "CP24" -> <<<<At(ClockNow, 59999), [invalid |-> FALSE, substituted |-> TRUE]>>,
                       <<At(ClockNow - 54, 0), Good>>,
                       <<NoTime, Good>>>>
    [] k = "CP56" -> <<<<At(Autumn - 30, 1), Good>>,
                       <<At(Autumn + 30, 59999), [invalid |-> TRUE, substituted |-> FALSE]>>,
                       <<NoTime, Good>>>>
    [] k = "TIME" -> <<At(Autumn - 30, 1), At(Autumn + 30, 256), At(Spring, 0)>>

Value(t, s) ==
  [j \in DOMAIN Write[t].elems |-> Samples(Write[t].elems[j])[((s + j) % 3) + 1]]

Coa(c) == [cause |-> c, negative |-> FALSE, test |-> FALSE]
AnyCause(t) == Coa(CHOOSE c \in Write[t].causes \ {UNUSED} : TRUE)

Call(p, z, t, seq, coa, ca, n, s, ioa) ==
  [params |-> p, zone |-> z, type |-> t, seq |-> seq, coa |-> coa, ca |-> ca,
   now |-> ClockNow,
   objs |-> [i \in 1 .. n |-> Info(ioa + i - 1, Value(t, s + i))]]

Lists == {t \in TypeIds : Write[t].shape \in {"seq", "list"}}
Sequences_ == {t \in TypeIds : Write[t].shape = "seq"}

Plain == {Call(p, North, t, FALSE, AnyCause(t), 7, 1, s, 200) :
            p \in {Narrow, Short, Wide}, t \in TypeIds, s \in 0 .. 2}
Many == {Call(p, North, t, FALSE, AnyCause(t), 65535, n, 0, 3) :
            p \in {Narrow, Wide}, t \in Lists, n \in {0, 2, 11, 24, 49, 82, 128}}
InSequence == {Call(p, North, t, TRUE, AnyCause(t), 1, n, 0, 120) :
            p \in {Narrow, Wide}, t \in Sequences_, n \in {1, 3, 27, 127, 128}}
Caused == {Call(Wide, UtcZone, t, FALSE, [cause |-> c, negative |-> neg, test |-> ~neg],
                1, 1, 0, 0) :
            t \in TypeIds, c \in {0, 1, 2, 3, 5, 6, 8, 13, 20, 41, 44, 63}, neg \in BOOLEAN}
Addressed == {Call(p, UtcZone, t, FALSE, AnyCause(t), ca, 1, 0, ioa) :
            p \in {Narrow, Short, Wide}, t \in {T.M_SP_NA, T.C_SC_NA},
            ca \in {0, 254, 255, 256, 65535}, ioa \in {0, 255, 256, 65536, 16777216}}
Timed == {[Call(Wide, z, T.M_SP_TB, FALSE, Coa(SPONTANEOUS), 1, 1, 0, 9)
             EXCEPT !.objs[1].v = <<<<1, 0>>, <<At(m, 30000), f>>>>] :
            z \in {UtcZone, North, South, Half},
            m \in {a + 10 * d : a \in {Spring, Autumn, 3 * Year}, d \in -15 .. 15},
            f \in Flags}
\* Tags without the hour, four minutes ahead to 54 minutes old, around the changes of the clocks.
Late == {[Call(Wide, z, T.M_SP_TA, FALSE, Coa(SPONTANEOUS), 1, 1, 0, 9)
             EXCEPT !.now = now,
                    !.objs[1].v = <<<<1, 0>>, <<At(now - age, 500), Good>>>>] :
            z \in {UtcZone, North, South, Half},
            now \in {a + d : a \in {Spring, Autumn, Spring - Hour},
                           d \in {-200, -57, -30, -2, 3, 25, 33, 63, 95, 200}},
            age \in {-4, 0, 1, 4, 5, 10, 29, 30, 31, 45, 53, 54}}

AllCalls == Plain \cup Many \cup InSequence \cup Caused \cup Addressed \cup Timed \cup Late

\* ASDUs of a sender that counts and pads as it likes: a body of about the
\* right number of octets, all alike.
BodyLengths(t, p, n, seq) ==
  LET size == IF HasSize(t) THEN info_obj_size(t) ELSE 9
  IN  {d + IF seq THEN p.ioa_size + n * size ELSE n * (p.ioa_size + size) : d \in -2 .. 2}

Padded ==
  UNION {{[params |-> p, zone |-> North, now |-> ClockNow,
           octets |-> Header(p, [type |-> t, number |-> n, seq |-> seq, coa |-> Coa(3),
                                 orig |-> 0, ca |-> 1])
                        \o [i \in 1 .. len |-> fill]] :
            len \in BodyLengths(t, p, n, seq) \cap Nat, fill \in {1, 255}} :
         p \in {Narrow, Wide}, t \in TypeIds \cup {0, 22, 127}, n \in {0, 1, 2, 9}, seq \in BOOLEAN}

\* Requests with any cause, station and object address.
Requests ==
  {[params |-> p, zone |-> North, now |-> ClockNow,
    octets |-> Header(p, [type |-> t, number |-> 1, seq |-> FALSE, coa |-> Coa(c),
                          orig |-> 5, ca |-> ca])
                 \o [i \in 1 .. p.ioa_size + info_obj_size(t) |-> fill]] :
     p \in {Narrow, Wide}, t \in DOMAIN Method, c \in {3, 5, 6, 7, 8}, ca \in {0, 9, 255},
     fill \in 0 .. 1}

AllForeign == Padded \cup Requests
=============================================================================
