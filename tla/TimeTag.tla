------------------------------- MODULE TimeTag -------------------------------
(***************************************************************************)
(* The time tags of the ASDUs (asdu/time.rs and the time zones of          *)
(* asdu/params.rs): CP56Time2a, which carries the whole wall clock and the *)
(* summer time flag SU, and CP24Time2a, whose hour and date the receiver   *)
(* takes from its own clock.                                               *)
(*                                                                         *)
(* An instant is [at, ms]: minutes and the milliseconds of the minute.     *)
(* The calendar is an abstraction of chrono's: twelve months of 31 days.   *)
(* A zone is its standard offset, the shift of its summer time and the     *)
(* days of the year, in UTC, at which summer time begins and ends.         *)
(***************************************************************************)
EXTENDS Integers, Sequences

NoTime == [at |-> -1, ms |-> 0]
Good == [invalid |-> FALSE, substituted |-> FALSE]

Hour == 60
Day == 24 * Hour
Month == 31 * Day
Year == 12 * Month

UtcZone == [std |-> 0, shift |-> 0, from |-> 0, to |-> 0]

Bit(b, n) == (b \div n) % 2 = 1
If(p, n) == IF p THEN n ELSE 0

(* Whether zone z is on summer time at the minute t; from > to is the      *)
(* southern hemisphere.                                                    *)
Summer(z, t) ==
  LET u == t % Year
  IN  IF z.from <= z.to THEN z.from <= u /\ u < z.to
                        ELSE z.from <= u \/ u < z.to

offset_secs(z, t) == z.std + If(Summer(z, t), z.shift)

(* The wall clock of zone z at the minute t.                               *)
parts(z, t) ==
  LET l == t + offset_secs(z, t)
  IN  [year |-> l \div Year, month |-> ((l % Year) \div Month) + 1,
       day |-> ((l % Month) \div Day) + 1, hour |-> (l % Day) \div Hour,
       min |-> l % Hour]

(* Summer time is an offset above the smaller of those of 1 January and    *)
(* 1 July of the year.                                                     *)
is_dst(z, t) ==
  LET y == parts(z, t).year * Year
      jan == offset_secs(z, y)
      jul == offset_secs(z, y + 6 * Month)
  IN  /\ z.shift # 0
      /\ offset_secs(z, t) # IF jan < jul THEN jan ELSE jul

(* The instants at which zone z reads the wall clock w: none in the gap of *)
(* spring or for fields no clock shows, two in the hour the clocks repeat. *)
Reading(z, w) ==
  LET l == w.year * Year + (w.month - 1) * Month + (w.day - 1) * Day
             + w.hour * Hour + w.min
  IN  {t \in {l - z.std, l - z.std - z.shift} : parts(z, t) = w}

(* The earliest of them.                                                   *)
instant_from(z, w, ms) ==
  IF ms >= 60000 \/ Reading(z, w) = {}
  THEN NoTime
  ELSE [at |-> CHOOSE t \in Reading(z, w) : \A u \in Reading(z, w) : t <= u,
        ms |-> ms]

(* The instant with the same wall clock that agrees with the SU flag.      *)
resolve_summer_time(z, i, su) ==
  LET shifts == <<-60, 60, -30, 30, -120, 120>>
      fits(n) == LET alt == i.at + shifts[n]
                 IN  is_dst(z, alt) = su /\ parts(z, alt) = parts(z, i.at)
      found == {n \in DOMAIN shifts : fits(n)}
  IN  IF is_dst(z, i.at) = su \/ found = {}
      THEN i
      ELSE [i EXCEPT !.at = @ + shifts[CHOOSE n \in found : \A m \in found : n <= m]]

minutes_bits(flags) == If(flags.invalid, 128) + If(flags.substituted, 64)
from_minutes_octet(b) == [invalid |-> Bit(b, 128), substituted |-> Bit(b, 64)]

(* A mutant: SU left clear, as a zone without summer time has it.          *)
Cp56WithoutSu(z, i, flags) ==
  IF i = NoTime
  THEN <<0, 0, 128 + If(flags.substituted, 64), 0, 0, 0, 0>>
  ELSE LET w == parts(z, i.at)
           dow == ((i.at \div Day) % 7) + 1
       IN  <<i.ms % 256, i.ms \div 256, w.min + minutes_bits(flags), w.hour,
             32 * dow + w.day, w.month, w.year % 100>>

(* A tag with IV set and no time is what NoTime is encoded as.             *)
cp56time2a_tag(z, i, flags) ==
  IF i = NoTime
  THEN <<0, 0, 128 + If(flags.substituted, 64), 0, 0, 0, 0>>
  ELSE LET w == parts(z, i.at)
           dow == ((i.at \div Day) % 7) + 1
       IN  <<i.ms % 256, i.ms \div 256, w.min + minutes_bits(flags),
             w.hour + If(is_dst(z, i.at), 128), 32 * dow + w.day, w.month,
             w.year % 100>>

decode_cp56(z, b) ==
  LET w == [year |-> b[7] % 128, month |-> b[6] % 16, day |-> b[5] % 32,
            hour |-> b[4] % 32, min |-> b[3] % 64]
      i == instant_from(z, w, b[1] + 256 * b[2])
  IN  IF w.year > 99 \/ i = NoTime THEN NoTime
      ELSE resolve_summer_time(z, i, Bit(b[4], 128))

(* The reading with its flags, and the reading only if it can be trusted.  *)
parse_cp56time2a_tag(z, b) == <<decode_cp56(z, b), from_minutes_octet(b[3])>>
parse_cp56time2a(z, b) == IF Bit(b[3], 128) THEN NoTime ELSE decode_cp56(z, b)

cp24time2a_tag(z, i, flags) ==
  IF i = NoTime
  THEN <<0, 0, 128 + If(flags.substituted, 64)>>
  ELSE <<i.ms % 256, i.ms \div 256, parts(z, i.at).min + minutes_bits(flags)>>

(* The hour and the date are those of the receiver's clock; a minute more  *)
(* than five ahead of it belongs to the hour before.                       *)
decode_cp24(z, b, now) ==
  LET w == parts(z, now)
      min == b[3] % 64
      i == instant_from(z, [w EXCEPT !.min = min], b[1] + 256 * b[2])
  IN  IF i = NoTime THEN NoTime
      ELSE IF min > w.min + 5 THEN [i EXCEPT !.at = @ - Hour] ELSE i

(* The clock of the receiver tells the hour that a tag of the minute t      *)
(* leaves out: the tag is not ahead of it in the next hour, it does not     *)
(* show its hour for the second time and, where summer time shifts the      *)
(* minutes too, the clocks are not changed about then.                      *)
TellsHour(z, now, t) ==
  /\ t <= now \/ parts(z, t).min > parts(z, now).min
  /\ ~\E u \in Reading(z, parts(z, now)) : u < now
  /\ z.shift % Hour # 0 =>
       \A u \in {now - 2 * Hour, now + Hour} : offset_secs(z, u) = offset_secs(z, now)

parse_cp24time2a_tag(z, b, now) ==
  <<decode_cp24(z, b, now), from_minutes_octet(b[3])>>

=============================================================================
