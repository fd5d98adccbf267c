---------------------------- MODULE OracleValues ----------------------------
(***************************************************************************)
(* The value encodings of types.py: NUMBER, DATE, TIMESTAMP and INTERVAL   *)
(* DAY TO SECOND, in both directions.  The encoders write the columns an   *)
(* answer carries, the decoders read the binds of a request.               *)
(*                                                                         *)
(* A decimal number other than zero is 0.d1d2...dn * 10^point, with d1 and *)
(* dn not zero; zero has no digits.  A byte string is a sequence of bytes. *)
(***************************************************************************)
EXTENDS Integers, Sequences, FiniteSetsExt

CONSTANTS
    MaxDigits,           \* the significant digits a NUMBER may have: 40
    Precision,           \* the digits Python's decimal context keeps: 28
    FloatSeconds         \* from here on a float of seconds may miss a microsecond: 2^34

ASSUME ValuesAssumption ==
    /\ MaxDigits \in Nat \ {0} /\ MaxDigits % 2 = 0
    /\ Precision \in Nat \ {0} /\ FloatSeconds \in Nat \ {0}

Byte == 0..255
Digit == 0..9

\* What an encoder and a decoder that raise ValueError have to show for it.
NoBytes == <<>>
Malformed == [malformed |-> TRUE]

-----------------------------------------------------------------------------
(* Plausible mistakes in the encoders below: the pairs are counted before   *)
(* the first digit got its zero, a fraction of a second is written as       *)
(* Python keeps it, a field of an interval goes out without its bias.       *)

PairCountUnpadded(n) == (Len(n.digits) + 1) \div 2

EncodeTimestampInMicroseconds(d, withTz) ==
    <<(d.year \div 100) + 100, (d.year % 100) + 100, d.month, d.day, d.hour + 1, d.minute + 1,
      d.second + 1, d.us \div 16777216, (d.us \div 65536) % 256, (d.us \div 256) % 256, d.us % 256>>

Unbiased(n) == <<n \div 16777216, (n \div 65536) % 256, (n \div 256) % 256, n % 256>>

-----------------------------------------------------------------------------
(* NUMBER                                                                  *)

Zero == [neg |-> FALSE, digits |-> <<>>, point |-> 0]

\* The number written with these digits and the decimal point after `point' of them.
Normal(neg, ds, point) ==
    LET significant == {i \in DOMAIN ds : ds[i] # 0}
    IN  IF significant = {} THEN Zero
        ELSE [neg    |-> neg,
              digits |-> SubSeq(ds, Min(significant), Max(significant)),
              point  |-> point - Min(significant) + 1]

\* What encode_number reads off str(value): the digits of both parts and the exponent.
Parsed(text) == Normal(text.neg, text.int \o text.frac, Len(text.int) + text.exp)

Numbers == {n \in [neg : BOOLEAN, digits : Seq(Digit), point : Int] :
              /\ n.digits # <<>>
              /\ n.digits[1] # 0 /\ n.digits[Len(n.digits)] # 0} \cup {Zero}

Encodable(n) == Len(n.digits) <= MaxDigits /\ n.point \in -129..126

\* An odd point gives the first pair a single digit.
Shift(n) == n.point % 2
PairCount(n) == (Len(n.digits) + Shift(n) + 1) \div 2
PaddedDigit(n, j) == LET i == j - Shift(n) IN IF i \in DOMAIN n.digits THEN n.digits[i] ELSE 0
Pair(n, k) == 10 * PaddedDigit(n, 2 * k - 1) + PaddedDigit(n, 2 * k)
ExponentByte(n) == (n.point + Shift(n)) \div 2 + 192

\* encode_number; a negative number is complemented and ends with a 102, unless it is full.
EncodeNumber(n) ==
    IF n = Zero THEN <<128>>
    ELSE IF ~Encodable(n) THEN NoBytes
    ELSE LET pairs == [k \in 1..PairCount(n) |->
                         IF n.neg THEN 101 - Pair(n, k) ELSE Pair(n, k) + 1]
         IN  IF ~n.neg THEN <<ExponentByte(n)>> \o pairs
             ELSE IF 2 * PairCount(n) < MaxDigits
             THEN <<255 - ExponentByte(n)>> \o pairs \o <<102>>
             ELSE <<255 - ExponentByte(n)>> \o pairs

\* The digits of a row of base-100 pairs.
Unpaired(ps) == [j \in 1..(2 * Len(ps)) |->
                   IF j % 2 = 1 THEN ps[(j + 1) \div 2] \div 10 ELSE ps[j \div 2] % 10]

\* Decimal.scaleb rounds its result to the context's precision, half to even.
Rounded(n) ==
    IF Len(n.digits) <= Precision THEN n
    ELSE LET kept == SubSeq(n.digits, 1, Precision)
             rest == SubSeq(n.digits, Precision + 1, Len(n.digits))
             up   == \/ rest[1] > 5
                     \/ rest[1] = 5 /\ (Len(rest) > 1 \/ kept[Precision] % 2 = 1)
             \* the last digit a carry reaches; 0 when it makes a new first digit
             at   == Max({0} \cup {i \in 1..Precision : kept[i] # 9})
             carried == [i \in 0..Precision |->
                           IF i < at THEN IF i = 0 THEN 0 ELSE kept[i]
                           ELSE IF i = at THEN IF i = 0 THEN 1 ELSE kept[i] + 1
                           ELSE 0]
         IN  Normal(n.neg, IF up THEN [i \in 1..(Precision + 1) |-> carried[i - 1]]
                                 ELSE <<0>> \o kept, n.point + 1)

\* The pairs of a byte string other than zero's, as they were written.
RawPairs(bs) == IF bs[1] < 128 /\ Len(bs) > 1 /\ bs[Len(bs)] = 102
                THEN SubSeq(bs, 2, Len(bs) - 1) ELSE Tail(bs)

\* The number it stands for.
NumberIn(bs) ==
    LET neg   == bs[1] < 128
        raw   == RawPairs(bs)
        pairs == [k \in 1..Len(raw) |-> IF neg THEN 101 - raw[k] ELSE raw[k] - 1]
        exponent == IF neg THEN 255 - bs[1] ELSE bs[1]
    IN  IF \E k \in 1..Len(raw) : pairs[k] \notin 0..99 THEN Malformed
        ELSE Normal(neg, Unpaired(pairs), 2 * (exponent - 192))

\* decode_number takes a first byte 128 for zero whatever follows it.
DecodeNumber(bs) ==
    IF bs = <<>> \/ bs[1] = 128 THEN Zero
    ELSE LET n == NumberIn(bs) IN IF n = Malformed THEN n ELSE Rounded(n)

\* The client knows zero by its length, and keeps all digits.
ClientNumber(bs) == IF bs = <<128>> THEN Zero ELSE NumberIn(bs)

-----------------------------------------------------------------------------
(* DATE and TIMESTAMP                                                      *)

DateTimes == {d \in [year : Nat, month : 1..12, day : 1..31,
                     hour : 0..23, minute : 0..59, second : 0..59, us : Nat] :
                d.year < 10000 /\ d.us < 1000000}

EncodeDate(d) ==
    <<(d.year \div 100) + 100, (d.year % 100) + 100, d.month, d.day,
      d.hour + 1, d.minute + 1, d.second + 1>>

U32(n) == <<n \div 16777216, (n \div 65536) % 256, (n \div 256) % 256, n % 256>>
FromU32(bs, at) ==
    16777216 * bs[at] + 65536 * bs[at + 1] + 256 * bs[at + 2] + bs[at + 3]

\* A time zone is written as the bytes 20 and 60, whatever it was.
EncodeTimestamp(d, withTz) ==
    EncodeDate(d) \o U32(d.us * 1000) \o (IF withTz THEN <<20, 60>> ELSE <<>>)

\* decode_timestamp, which is decode_date when there are no fractional seconds.
DecodeTimestamp(bs) ==
    [year |-> (bs[1] - 100) * 100 + (bs[2] - 100), month |-> bs[3], day |-> bs[4],
     hour |-> bs[5] - 1, minute |-> bs[6] - 1, second |-> bs[7] - 1,
     us |-> IF Len(bs) >= 11 THEN FromU32(bs, 8) \div 1000 ELSE 0]

-----------------------------------------------------------------------------
(* INTERVAL DAY TO SECOND                                                  *)

\* A timedelta: seconds rounded down, and microseconds; it has at most 999999999 days.
Intervals == {v \in [secs : Int, us : Nat] :
                /\ v.us < 1000000
                /\ -999999999 <= v.secs \div 86400 /\ v.secs \div 86400 <= 999999999}

\* Whether the float nearest to s seconds and f microseconds is s + 1: the last of its
\* 53 bits is worth 2^-18 seconds up to 2 * FloatSeconds, and twice as much at each p.
RoundsUp(s, f) ==
    \E p \in {1, 2, 4, 8, 16, 32, 64, 128, 256, 512, 1024, 2048, 4096} :
        p <= s \div FloatSeconds /\ 1000000 - f <= (15625 * p) \div 8192

\* int(td.total_seconds()): a float, rounded toward zero.
TotalSeconds(v) ==
    IF v.secs >= 0 THEN IF RoundsUp(v.secs, v.us) THEN v.secs + 1 ELSE v.secs
    ELSE IF v.us = 0 \/ RoundsUp(-(v.secs + 1), 1000000 - v.us) THEN v.secs
    ELSE v.secs + 1

\* The intervals that are not negative and never rounded up.
Exact(v) == v.secs >= 0 /\ (v.secs < FloatSeconds \/ v.us < 992188)

\* A field of 32 bits, biased by 2^31.
Biased(n) == <<(n \div 16777216) + 128, (n \div 65536) % 256, (n \div 256) % 256, n % 256>>
FromBiased(bs, at) ==
    16777216 * (bs[at] - 128) + 65536 * bs[at + 1] + 256 * bs[at + 2] + bs[at + 3]

EncodeIntervalDs(days, hours, minutes, seconds, fseconds) ==
    Biased(days) \o <<hours + 60, minutes + 60, seconds + 60>> \o Biased(fseconds)

\* encode_column_value: the fields of an interval with td.days < 0 are divided out of
\* its signed seconds, and then all negated.
EncodeInterval(v) ==
    LET total    == TotalSeconds(v)
        days     == total \div 86400
        hours    == (total % 86400) \div 3600
        minutes  == (total % 3600) \div 60
        seconds  == total % 60
        fseconds == v.us * 1000
    IN  IF v.secs < 0 THEN EncodeIntervalDs(-days, -hours, -minutes, -seconds, -fseconds)
        ELSE EncodeIntervalDs(days, hours, minutes, seconds, fseconds)

\* decode_interval_ds: timedelta adds the fields up, the fraction without its sign.
DecodeInterval(bs) ==
    LET fseconds == FromBiased(bs, 8)
    IN  [secs |-> 86400 * FromBiased(bs, 1)
                    + 3600 * (bs[5] - 60) + 60 * (bs[6] - 60) + (bs[7] - 60),
         us   |-> (IF fseconds < 0 THEN -fseconds ELSE fseconds) \div 1000]

=============================================================================
