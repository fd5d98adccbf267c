------------------------- MODULE OracleValues_proofs -------------------------
(***************************************************************************)
(* What the encodings of types.py keep of a value, for every value: the    *)
(* client reads each NUMBER the bridge can encode as it was, and so does   *)
(* the bridge up to its 28 digits and its zero; TIMESTAMPs come back   *)
(* whole, and so do INTERVALs that are not negative and not too long.      *)
(***************************************************************************)
EXTENDS OracleValues, SequenceTheorems, TLAPS

-----------------------------------------------------------------------------
(* Byte strings one after the other                                        *)

LEMMA Joined == ASSUME NEW a \in Seq(Int), NEW b \in Seq(Int)
                PROVE  /\ a \o b \in Seq(Int) /\ Len(a \o b) = Len(a) + Len(b)
                       /\ \A i \in 1..Len(a) : (a \o b)[i] = a[i]
                       /\ \A i \in 1..Len(b) : (a \o b)[Len(a) + i] = b[i]
<1> DEFINE w == a \o b
<1>1. /\ w \in Seq(Int) /\ Len(w) = Len(a) + Len(b)
      /\ \A i \in 1..(Len(a) + Len(b)) : w[i] = IF i <= Len(a) THEN a[i] ELSE b[i - Len(a)]
  BY ConcatProperties, Zenon
<1>2. Len(a) \in Nat /\ Len(b) \in Nat BY LenProperties, Zenon
<1> DEFINE m == Len(a)
           n == Len(b)
<1> HIDE DEF m, n, w
<1>3. \A i \in 1..m : w[i] = a[i]
  BY <1>1, <1>2, SMT DEF m, n
<1>4. \A i \in 1..n : w[m + i] = b[i]
  <2> TAKE i \in 1..n
  <2>1. m + i \in 1..(m + n) /\ ~(m + i <= m) /\ (m + i) - m = i
    BY <1>2, SMT DEF m, n
  <2>2. w[m + i] = IF m + i <= m THEN a[m + i] ELSE b[(m + i) - m]
    BY <1>1, <2>1, Zenon DEF m, n
  <2> QED BY <2>1, <2>2, Zenon
<1> QED BY <1>1, <1>3, <1>4, Zenon DEF m, n, w

-----------------------------------------------------------------------------
(* Integers of 32 bits                                                     *)

LEMMA U32Type == ASSUME NEW n \in Nat, n < 4294967296
                 PROVE  /\ U32(n) \in Seq(Int) /\ Len(U32(n)) = 4
                        /\ FromU32(U32(n), 1) = n
<1>1. n \div 16777216 \in Byte /\ (n \div 65536) % 256 \in Byte
      /\ (n \div 256) % 256 \in Byte /\ n % 256 \in Byte
  BY SMT DEF Byte
<1>2. n = 16777216 * (n \div 16777216) + 65536 * ((n \div 65536) % 256)
            + 256 * ((n \div 256) % 256) + (n % 256)
  BY SMT
<1>3. Len(U32(n)) = 4 /\ U32(n) \in Seq(Int)
  BY <1>1, SMT DEF U32, Byte
<1>4. /\ U32(n)[1] = n \div 16777216 /\ U32(n)[2] = (n \div 65536) % 256
      /\ U32(n)[3] = (n \div 256) % 256 /\ U32(n)[4] = n % 256
  BY <1>1, SMT DEF U32
<1>5. FromU32(U32(n), 1) = n
  BY <1>2, <1>4, SMT DEF FromU32
<1> QED BY <1>3, <1>5, SMT

\* A biased field keeps its value, negative ones too.
LEMMA BiasedType == ASSUME NEW n \in Int, -2147483648 <= n, n < 2147483648
                    PROVE  /\ Biased(n) \in Seq(Int) /\ Len(Biased(n)) = 4
                           /\ \A i \in 1..4 : Biased(n)[i] \in Byte
                           /\ FromBiased(Biased(n), 1) = n
<1>1. (n \div 16777216) + 128 \in Byte /\ (n \div 65536) % 256 \in Byte
      /\ (n \div 256) % 256 \in Byte /\ n % 256 \in Byte
  BY SMT DEF Byte
<1>2. n = 16777216 * (n \div 16777216) + 65536 * ((n \div 65536) % 256)
            + 256 * ((n \div 256) % 256) + (n % 256)
  BY SMT
<1>3. Len(Biased(n)) = 4 /\ Biased(n) \in Seq(Int)
  BY <1>1, SMT DEF Biased, Byte
<1>4. /\ Biased(n)[1] = (n \div 16777216) + 128 /\ Biased(n)[2] = (n \div 65536) % 256
      /\ Biased(n)[3] = (n \div 256) % 256 /\ Biased(n)[4] = n % 256
  BY <1>1, SMT DEF Biased
<1>5. FromBiased(Biased(n), 1) = n
  BY <1>1, <1>2, <1>4, SMT DEF FromBiased, Byte
<1>6. \A i \in 1..4 : Biased(n)[i] \in Byte
  BY <1>1, <1>4, SMT
<1> QED BY <1>3, <1>5, <1>6, SMT

-----------------------------------------------------------------------------
(* NUMBER                                                                  *)

LEMMA NumberShape ==
    ASSUME NEW n \in Numbers, n # Zero
    PROVE  /\ n.neg \in BOOLEAN /\ n.point \in Int /\ n.digits \in Seq(Digit)
           /\ Len(n.digits) \in Nat /\ Len(n.digits) >= 1
           /\ \A i \in 1..Len(n.digits) : n.digits[i] \in Digit
           /\ n.digits[1] # 0 /\ n.digits[Len(n.digits)] # 0
           /\ n = [neg |-> n.neg, digits |-> n.digits, point |-> n.point]
<1>1. n \in [neg : BOOLEAN, digits : Seq(Digit), point : Int] /\ n.digits # <<>>
      /\ n.digits[1] # 0 /\ n.digits[Len(n.digits)] # 0
  BY Zenon DEF Numbers
<1>2. n.digits \in Seq(Digit) /\ n.neg \in BOOLEAN /\ n.point \in Int BY <1>1, SMT
<1>3. Len(n.digits) \in Nat /\ \A i \in 1..Len(n.digits) : n.digits[i] \in Digit
  BY <1>2, LenProperties, ElementOfSeq, Zenon
<1>4. Len(n.digits) # 0 BY <1>1, <1>2, EmptySeq, Zenon
<1> QED BY <1>1, <1>2, <1>3, <1>4, SMT

LEMMA ShiftType == ASSUME NEW n \in Numbers, n # Zero
                   PROVE  Shift(n) \in 0..1 /\ PairCount(n) \in Nat /\ PairCount(n) >= 1
                          /\ Len(n.digits) + Shift(n) <= 2 * PairCount(n)
                          /\ 2 * PairCount(n) <= Len(n.digits) + Shift(n) + 1
<1>1. n.point \in Int /\ Len(n.digits) \in Nat /\ Len(n.digits) >= 1 BY NumberShape, Zenon
<1>2. Shift(n) \in 0..1 BY <1>1, SMT DEF Shift
<1> QED BY <1>1, <1>2, SMT DEF PairCount

LEMMA PairType == ASSUME NEW n \in Numbers, n # Zero, NEW k \in Int
                  PROVE  /\ PaddedDigit(n, k) \in Digit
                         /\ Pair(n, k) \in Int /\ 0 <= Pair(n, k) /\ Pair(n, k) <= 99
                         /\ Pair(n, k) \div 10 = PaddedDigit(n, 2 * k - 1)
                         /\ Pair(n, k) % 10 = PaddedDigit(n, 2 * k)
<1>1. \A i \in 1..Len(n.digits) : n.digits[i] \in Digit BY NumberShape, Zenon
<1>2. DOMAIN n.digits = 1..Len(n.digits) BY NumberShape, LenProperties, Zenon
<1>3. \A j \in Int : PaddedDigit(n, j) \in Digit
  BY <1>1, <1>2, ShiftType, SMT DEF PaddedDigit, Digit
<1>4. 2 * k - 1 \in Int /\ 2 * k \in Int BY SMT
<1> DEFINE a == PaddedDigit(n, 2 * k - 1)
           b == PaddedDigit(n, 2 * k)
<1>5. a \in Digit /\ b \in Digit BY <1>3, <1>4, Zenon
<1>6. Pair(n, k) = 10 * a + b BY Zenon DEF Pair
<1> HIDE DEF a, b
<1>7. (10 * a + b) \div 10 = a /\ (10 * a + b) % 10 = b /\ 0 <= 10 * a + b /\ 10 * a + b <= 99
      /\ 10 * a + b \in Int
  BY <1>5, SMT DEF Digit
<1>8. PaddedDigit(n, k) \in Digit BY <1>3, Zenon
<1> QED BY <1>6, <1>7, <1>8, Zenon DEF a, b

\* The exponent byte of a number in range fits a byte whose high bit is the sign, and is
\* that of zero for the two lowest exponents (types.py:103-121).
LEMMA NumberExponent ==
    ASSUME NEW n \in Numbers, n # Zero, Encodable(n)
    PROVE  /\ ExponentByte(n) \in Int /\ 128 <= ExponentByte(n) /\ ExponentByte(n) <= 255
           /\ 2 * (ExponentByte(n) - 192) = n.point + Shift(n)
           /\ ExponentByte(n) = 128 <=> n.point < -127
<1>1. n.point \in Int /\ -129 <= n.point /\ n.point <= 126
  <2>1. n.point \in -129..126 BY Zenon DEF Encodable
  <2>2. n.point \in Int BY NumberShape, Zenon
  <2> QED BY <2>1, <2>2, SMT
<1>2. Shift(n) = n.point % 2 BY Zenon DEF Shift
<1>3. ExponentByte(n) = (n.point + (n.point % 2)) \div 2 + 192
  BY <1>2, Zenon DEF ExponentByte
<1>4. n.point % 2 \in 0..1 BY <1>1, SMT
<1>5. 2 * ((n.point + (n.point % 2)) \div 2) = n.point + (n.point % 2) BY <1>1, SMT
<1> HIDE DEF ExponentByte
<1> QED BY <1>1, <1>2, <1>3, <1>4, <1>5, SMT

\* What follows the first byte, and what is between the first byte and the last.
LEMMA Framed ==
    ASSUME NEW e \in Int, NEW ps \in Seq(Int), Len(ps) >= 1
    PROVE  LET w == <<e>> \o ps
           IN  /\ w \in Seq(Int) /\ Len(w) = Len(ps) + 1 /\ w[1] = e /\ w[Len(w)] = ps[Len(ps)]
               /\ \A i \in 1..Len(ps) : w[i + 1] = ps[i]
               /\ Tail(w) = ps
<1> DEFINE o == <<e>>
           w == o \o ps
           m == Len(ps)
           t == Tail(w)
<1>1. o \in Seq(Int) /\ Len(o) = 1 /\ o[1] = e BY SMT
<1>2. m \in Nat /\ m >= 1 /\ ps \in Seq(Int) BY LenProperties, SMT
<1> HIDE DEF o
<1>4. /\ w \in Seq(Int) /\ Len(w) = Len(o) + Len(ps)
      /\ \A i \in 1..Len(o) : w[i] = o[i]
      /\ \A i \in 1..Len(ps) : w[Len(o) + i] = ps[i]
  BY <1>1, <1>2, Joined, Zenon
<1> HIDE DEF m, w
<1>5. Len(w) = m + 1 /\ w[1] = e /\ \A i \in 1..m : w[i + 1] = ps[i]
  BY <1>1, <1>2, <1>4, SMT DEF m
<1>6. w[m + 1] = ps[m] BY <1>2, <1>5, SMT
<1>7. w # <<>> BY <1>2, <1>4, <1>5, SMT
<1>8. t \in Seq(Int) /\ Len(t) = Len(w) - 1 /\ \A i \in 1..Len(t) : t[i] = w[i + 1]
  BY <1>4, <1>7, HeadTailProperties, Zenon
<1> HIDE DEF t
<1>9. Len(t) = m BY <1>2, <1>5, <1>8, SMT
<1>10. Len(t) = Len(ps) /\ \A i \in 1..Len(t) : t[i] = ps[i] BY <1>5, <1>8, <1>9, Zenon DEF m
<1>11. t = ps BY <1>2, <1>8, <1>10, SeqEqual, Zenon
<1> QED BY <1>4, <1>5, <1>6, <1>11, Zenon DEF o, w, m, t

LEMMA Capped ==
    ASSUME NEW e \in Int, NEW c \in Int, NEW ps \in Seq(Int), Len(ps) >= 1
    PROVE  LET x == <<e>> \o ps \o <<c>>
           IN  /\ Len(x) = Len(ps) + 2 /\ x[1] = e /\ x[Len(x)] = c
               /\ SubSeq(x, 2, Len(x) - 1) = ps
<1> DEFINE w == <<e>> \o ps
           l == <<c>>
           x == w \o l
           m == Len(ps)
           p == 2
           q == m + 1
           t == SubSeq(x, p, q)
<1>1. /\ w \in Seq(Int) /\ Len(w) = m + 1 /\ w[1] = e
      /\ \A i \in 1..m : w[i + 1] = ps[i]
  BY Framed, Zenon
<1>2. l \in Seq(Int) /\ Len(l) = 1 /\ l[1] = c BY SMT
<1>3. m \in Nat /\ m >= 1 /\ ps \in Seq(Int) BY LenProperties, SMT
<1> HIDE DEF w, l
<1>5. /\ x \in Seq(Int) /\ Len(x) = Len(w) + Len(l)
      /\ \A i \in 1..Len(w) : x[i] = w[i]
      /\ \A i \in 1..Len(l) : x[Len(w) + i] = l[i]
  BY <1>1, <1>2, Joined, Zenon
<1> HIDE DEF m, x
<1>6. Len(x) = m + 2 /\ x[1] = e /\ x[m + 2] = c /\ \A i \in 1..m : x[i + 1] = ps[i]
  <2>1. Len(x) = m + 2 /\ x[1] = w[1] BY <1>1, <1>2, <1>3, <1>5, SMT
  <2>2. x[(m + 1) + 1] = l[1] BY <1>1, <1>2, <1>5, SMT
  <2>3. \A i \in 1..m : x[i + 1] = w[i + 1] BY <1>1, <1>3, <1>5, SMT
  <2>4. (m + 1) + 1 = m + 2 BY <1>3, SMT
  <2> QED BY <1>1, <1>2, <2>1, <2>2, <2>3, <2>4, Zenon
<1>7. q \in Int /\ p \in Int /\ p <= q /\ q - p + 1 = m /\ \A i \in 1..m : p + i - 1 = i + 1
  BY <1>3, SMT
<1>8. Len(x) - 1 = q BY <1>3, <1>6, SMT
<1>9. \A i \in p..q : x[i] \in Int BY <1>3, <1>5, <1>6, ElementOfSeq, SMT
<1> HIDE DEF p, q
<1>10. t \in Seq(Int) /\ Len(t) = IF p <= q THEN q - p + 1 ELSE 0 BY <1>7, <1>9, SMT
<1>11. \A i \in 1..(q - p + 1) : t[i] = x[p + i - 1] BY <1>7, <1>9, SMT
<1> HIDE DEF t
<1>12. Len(t) = m /\ \A i \in 1..m : t[i] = ps[i]
  <2>1. Len(t) = m /\ \A i \in 1..m : t[i] = x[p + i - 1] BY <1>7, <1>10, <1>11, Zenon
  <2> QED BY <1>6, <1>7, <2>1, Zenon
<1>13. Len(t) = Len(ps) /\ \A i \in 1..Len(t) : t[i] = ps[i] BY <1>12, Zenon DEF m
<1>14. t = ps BY <1>3, <1>10, <1>13, SeqEqual, Zenon
<1> QED BY <1>6, <1>8, <1>14, Zenon DEF w, l, x, m, p, t

\* The pairs encode_number writes after the exponent byte.
WrittenPairs(n) == [k \in 1..PairCount(n) |->
                      IF n.neg THEN 101 - Pair(n, k) ELSE Pair(n, k) + 1]

\* Its sign, its exponent and its pairs can be told from a number's bytes.
LEMMA NumberLayout ==
    ASSUME NEW n \in Numbers, n # Zero, Encodable(n)
    PROVE  LET bs == EncodeNumber(n)
           IN  /\ (bs[1] < 128 <=> n.neg)
               /\ (IF bs[1] < 128 THEN 255 - bs[1] ELSE bs[1]) = ExponentByte(n)
               /\ RawPairs(bs) = WrittenPairs(n)
               /\ Len(bs) \in Nat /\ Len(bs) >= 2 /\ Len(bs) <= MaxDigits \div 2 + 2
<1> DEFINE e == ExponentByte(n)
           ps == WrittenPairs(n)
           c == PairCount(n)
           bs == EncodeNumber(n)
           h == 255 - e
           z == 102
<1>1. c \in Nat /\ c >= 1 /\ 2 * c <= Len(n.digits) + Shift(n) + 1 BY ShiftType, SMT
<1>2. \A k \in 1..c : Pair(n, k) \in Int /\ 0 <= Pair(n, k) /\ Pair(n, k) <= 99
  BY PairType, SMT
<1>3. e \in Int /\ 128 <= e /\ e <= 255 BY NumberExponent, Zenon
<1>4. n.neg \in BOOLEAN BY NumberShape, Zenon
<1>5. c <= MaxDigits \div 2 + 1
  <2>1. Len(n.digits) <= MaxDigits /\ Len(n.digits) \in Nat BY NumberShape, Zenon DEF Encodable
  <2>2. Shift(n) \in 0..1 BY ShiftType, Zenon
  <2>3. MaxDigits \in Nat /\ MaxDigits % 2 = 0 BY ValuesAssumption, SMT
  <2> HIDE DEF c
  <2> QED BY <1>1, <2>1, <2>2, <2>3, SMT
<1>14. 0 <= h /\ h < 128 /\ 255 - h = e BY <1>3, SMT
<1>15. e \in Int /\ h \in Int /\ z \in Int BY <1>3, SMT
<1> HIDE DEF e, c, h, z
<1>6. /\ ps \in Seq(Int) /\ Len(ps) = c
      /\ n.neg => ps[c] <= 101 /\ ps[c] \in Int
  <2>1. ps = [k \in 1..c |-> IF n.neg THEN 101 - Pair(n, k) ELSE Pair(n, k) + 1]
    BY Zenon DEF WrittenPairs, c
  <2>2. \A k \in 1..c : (IF n.neg THEN 101 - Pair(n, k) ELSE Pair(n, k) + 1) \in Int
    BY <1>2, SMT
  <2>3. n.neg => ps[c] = 101 - Pair(n, c) /\ c \in 1..c
    BY <1>1, <2>1, SMT
  <2> HIDE DEF ps
  <2>4. ps \in Seq(Int) /\ Len(ps) = c BY <1>1, <2>1, <2>2, SMT
  <2> QED BY <1>2, <2>3, <2>4, SMT
<1> HIDE DEF ps
<1>7. ps \in Seq(Int) /\ Len(ps) >= 1 BY <1>1, <1>6, SMT
<1>8. bs = IF ~n.neg THEN <<e>> \o ps
           ELSE IF 2 * c < MaxDigits THEN <<h>> \o ps \o <<z>> ELSE <<h>> \o ps
  BY Zenon DEF EncodeNumber, WrittenPairs, e, ps, c, h, z
<1> HIDE DEF bs
<1>9. MaxDigits \in Nat /\ MaxDigits % 2 = 0 BY ValuesAssumption, SMT
<1>10. CASE ~n.neg
  <2>1. bs = <<e>> \o ps BY <1>8, <1>10, Zenon
  <2>2. Len(bs) = Len(ps) + 1 /\ bs[1] = e /\ Tail(bs) = ps
    BY <1>7, <1>15, <2>1, Framed, Zenon
  <2>3. ~(bs[1] < 128) BY <1>3, <2>2, SMT
  <2>4. RawPairs(bs) = ps BY <2>2, <2>3, SMT DEF RawPairs
  <2>5. Len(bs) \in Nat /\ Len(bs) >= 2 /\ Len(bs) <= MaxDigits \div 2 + 2
    BY <1>1, <1>5, <1>6, <1>9, <2>2, SMT
  <2> QED BY <1>10, <2>2, <2>3, <2>4, <2>5, SMT DEF bs, e, ps
<1>11. CASE n.neg /\ 2 * c < MaxDigits
  <2>1. bs = <<h>> \o ps \o <<z>> BY <1>8, <1>11, Zenon
  <2>2. Len(bs) = Len(ps) + 2 /\ bs[1] = h /\ bs[Len(bs)] = z
        /\ SubSeq(bs, 2, Len(bs) - 1) = ps
    <3> DEFINE x == <<h>> \o ps \o <<z>>
    <3>1. /\ Len(x) = Len(ps) + 2 /\ x[1] = h /\ x[Len(x)] = z
          /\ SubSeq(x, 2, Len(x) - 1) = ps
      BY <1>7, <1>15, Capped
    <3>2. bs = x BY <2>1
    <3> HIDE DEF x
    <3> QED BY <3>1, <3>2, Zenon
  <2>3. bs[1] < 128 /\ 255 - bs[1] = e /\ Len(bs) > 1 /\ bs[Len(bs)] = 102
    BY <1>1, <1>14, <1>6, <2>2, SMT DEF z
  <2>4. RawPairs(bs) = ps BY <2>2, <2>3, SMT DEF RawPairs
  <2>5. Len(bs) \in Nat /\ Len(bs) >= 2 /\ Len(bs) <= MaxDigits \div 2 + 2
    BY <1>1, <1>6, <1>9, <1>11, <2>2, SMT
  <2> QED BY <1>11, <2>3, <2>4, <2>5, SMT DEF bs, e, ps
<1>12. CASE n.neg /\ ~(2 * c < MaxDigits)
  <2>1. bs = <<h>> \o ps BY <1>8, <1>12, Zenon
  <2>2. Len(bs) = Len(ps) + 1 /\ bs[1] = h /\ bs[Len(bs)] = ps[Len(ps)] /\ Tail(bs) = ps
    BY <1>7, <1>15, <2>1, Framed, Zenon
  <2>3. bs[1] < 128 /\ 255 - bs[1] = e BY <1>14, <2>2, SMT
  <2>4. bs[Len(bs)] # 102 BY <1>6, <1>12, <2>2, SMT
  <2>5. RawPairs(bs) = ps BY <2>2, <2>4, SMT DEF RawPairs
  <2>6. Len(bs) \in Nat /\ Len(bs) >= 2 /\ Len(bs) <= MaxDigits \div 2 + 2
    BY <1>1, <1>5, <1>6, <1>9, <2>2, SMT
  <2> QED BY <1>12, <2>3, <2>5, <2>6, SMT DEF bs, e, ps
<1> QED BY <1>4, <1>10, <1>11, <1>12, Zenon

\* The digits with their padding are the number again.
LEMMA PaddingIsDropped ==
    ASSUME NEW n \in Numbers, n # Zero, NEW ds,
           ds = [j \in 1..(2 * PairCount(n)) |-> PaddedDigit(n, j)]
    PROVE  Normal(n.neg, ds, n.point + Shift(n)) = n
<1> DEFINE s == Shift(n)
           m == Len(n.digits)
           c == PairCount(n)
           q == {j \in DOMAIN ds : ds[j] # 0}
<1>1. s \in 0..1 /\ c \in Nat /\ m + s <= 2 * c BY ShiftType, Zenon
<1>2. /\ m \in Nat /\ m >= 1 /\ \A i \in 1..m : n.digits[i] \in Digit
      /\ n.digits[1] # 0 /\ n.digits[m] # 0 /\ n.point \in Int
  BY NumberShape, Zenon
<1>3. DOMAIN n.digits = 1..m BY NumberShape, LenProperties, Zenon
<1>4. \A j \in Int : PaddedDigit(n, j) = IF j - s \in 1..m THEN n.digits[j - s] ELSE 0
  BY <1>3, Zenon DEF PaddedDigit
<1> HIDE DEF s, m, c
<1>5. DOMAIN ds = 1..(2 * c) BY SMT DEF c
<1>6. \A j \in 1..(2 * c) : ds[j] = IF j - s \in 1..m THEN n.digits[j - s] ELSE 0
  <2>1. \A j \in 1..(2 * c) : ds[j] = PaddedDigit(n, j) /\ j \in Int BY <1>1, SMT DEF c
  <2> QED BY <1>4, <2>1, Zenon
<1>7. 1 + s \in q /\ m + s \in q /\ \A j \in q : 1 + s <= j /\ j <= m + s /\ j \in Int
  <2>1. ds[1 + s] # 0 /\ ds[m + s] # 0
    <3>1. 1 + s \in 1..(2 * c) /\ m + s \in 1..(2 * c) /\ (1 + s) - s = 1 /\ (m + s) - s = m
          /\ 1 \in 1..m /\ m \in 1..m
      BY <1>1, <1>2, SMT
    <3> QED BY <1>2, <1>6, <3>1, Zenon
  <2>2. \A j \in 1..(2 * c) : ds[j] # 0 => j - s \in 1..m BY <1>6, Zenon
  <2>3. \A j : j \in q <=> j \in 1..(2 * c) /\ ds[j] # 0 BY <1>5, Zenon
  <2> HIDE DEF q
  <2>4. 1 + s \in 1..(2 * c) /\ m + s \in 1..(2 * c) BY <1>1, <1>2, SMT
  <2>5. 1 + s \in q /\ m + s \in q BY <2>1, <2>3, <2>4, Zenon
  <2>6. \A j \in 1..(2 * c) : j - s \in 1..m => 1 + s <= j /\ j <= m + s /\ j \in Int
    BY <1>1, <1>2, SMT
  <2> QED BY <2>2, <2>3, <2>5, <2>6, Zenon
<1> HIDE DEF q
<1>8. Min(q) = 1 + s
  <2>1. \A x \in q : (\A y \in q : x =< y) => x = 1 + s BY <1>1, <1>7, SMT
  <2>2. \A y \in q : 1 + s =< y BY <1>7, Zenon
  <2> QED BY <1>7, <2>1, <2>2, Zenon DEF Min
<1>9. Max(q) = m + s
  <2>1. \A x \in q : (\A y \in q : x >= y) => x = m + s BY <1>1, <1>2, <1>7, SMT
  <2>2. \A y \in q : m + s >= y BY <1>1, <1>2, <1>7, SMT
  <2> QED BY <1>7, <2>1, <2>2, Zenon DEF Max
<1>10. SubSeq(ds, 1 + s, m + s) = n.digits
  <2> DEFINE a == 1 + s
             b == m + s
             t == SubSeq(ds, a, b)
  <2>1. a \in Int /\ b \in Int /\ a <= b /\ b - a + 1 = m /\ 1 <= a /\ b <= 2 * c
        /\ \A i \in 1..m : (a + i - 1) - s = i /\ a + i - 1 \in 1..(2 * c)
    BY <1>1, <1>2, SMT
  <2> HIDE DEF a, b
  <2>2. \A j \in a..b : ds[j] \in Digit
    <3>1. \A j \in a..b : j \in 1..(2 * c) BY <1>1, <2>1, SMT
    <3>2. 0 \in Digit BY SMT DEF Digit
    <3> QED BY <1>2, <1>6, <3>1, <3>2, Zenon
  <2>3. t \in Seq(Digit) /\ Len(t) = IF a <= b THEN b - a + 1 ELSE 0
    BY <2>1, <2>2, SMT
  <2>4. \A i \in 1..(b - a + 1) : t[i] = ds[a + i - 1] BY <2>1, <2>2, SMT
  <2> HIDE DEF t
  <2>5. Len(t) = m /\ \A i \in 1..m : t[i] = n.digits[i]
    <3>1. Len(t) = m /\ \A i \in 1..m : t[i] = ds[a + i - 1] BY <2>1, <2>3, <2>4, Zenon
    <3> QED BY <1>6, <2>1, <3>1, Zenon
  <2>6. n.digits \in Seq(Digit) BY NumberShape, Zenon
  <2>7. Len(t) = Len(n.digits) /\ \A i \in 1..Len(t) : t[i] = n.digits[i] BY <2>5, Zenon DEF m
  <2> QED BY <2>3, <2>6, <2>7, SeqEqual, Zenon DEF a, b, t
<1>11. (n.point + s) - (1 + s) + 1 = n.point BY <1>1, <1>2, SMT
<1>12. Normal(n.neg, ds, n.point + s) = [neg |-> n.neg, digits |-> n.digits, point |-> n.point]
  <2>1. q # {} BY <1>7, Zenon
  <2>2. Normal(n.neg, ds, n.point + s)
          = [neg |-> n.neg, digits |-> SubSeq(ds, Min(q), Max(q)), point |-> (n.point + s) - Min(q) + 1]
    BY <2>1, Zenon DEF Normal, q
  <2> QED BY <1>8, <1>9, <1>10, <1>11, <2>2, Zenon
<1> QED BY <1>12, NumberShape, Zenon DEF s

LEMMA ZeroLayout == EncodeNumber(Zero) = <<128>> BY Zenon DEF EncodeNumber

LEMMA NumberInEncoded ==
    ASSUME NEW n \in Numbers, n # Zero, Encodable(n)
    PROVE  NumberIn(EncodeNumber(n)) = n /\ n # Malformed
<1> DEFINE bs == EncodeNumber(n)
           raw == RawPairs(bs)
           c == PairCount(n)
           low == bs[1] < 128
           ps == [k \in 1..Len(raw) |-> IF low THEN 101 - raw[k] ELSE raw[k] - 1]
           exponent == IF low THEN 255 - bs[1] ELSE bs[1]
<1>1. (low <=> n.neg) /\ exponent = ExponentByte(n) /\ raw = WrittenPairs(n)
  BY NumberLayout, SMT
<1>2. c \in Nat /\ n.neg \in BOOLEAN BY ShiftType, NumberShape, Zenon
<1>3. \A k \in 1..c : Pair(n, k) \in Int /\ 0 <= Pair(n, k) /\ Pair(n, k) <= 99
        /\ Pair(n, k) \div 10 = PaddedDigit(n, 2 * k - 1)
        /\ Pair(n, k) % 10 = PaddedDigit(n, 2 * k)
  BY PairType, SMT
<1>4. 2 * (exponent - 192) = n.point + Shift(n) BY <1>1, NumberExponent, SMT
<1>5. NumberIn(bs) = IF \E k \in 1..Len(raw) : ps[k] \notin 0..99 THEN Malformed
                     ELSE Normal(low, Unpaired(ps), 2 * (exponent - 192))
  BY SMT DEF NumberIn
<1> HIDE DEF bs, raw, c, low, exponent
<1>6. raw = [k \in 1..c |-> IF n.neg THEN 101 - Pair(n, k) ELSE Pair(n, k) + 1]
  BY <1>1, Zenon DEF WrittenPairs, c
<1>7. Len(raw) = c BY <1>2, <1>6, SMT
<1>8. \A k \in 1..c : raw[k] = IF n.neg THEN 101 - Pair(n, k) ELSE Pair(n, k) + 1
  BY <1>6, SMT
<1>9. ps = [k \in 1..c |-> IF low THEN 101 - raw[k] ELSE raw[k] - 1] BY <1>7, SMT
<1> HIDE DEF ps
<1>10. \A k \in 1..c : ps[k] = Pair(n, k) BY <1>1, <1>3, <1>8, <1>9, SMT
<1>11. Len(ps) = c BY <1>2, <1>9, SMT
<1>12. ~(\E k \in 1..Len(raw) : ps[k] \notin 0..99) 
  <2>1. \A k \in 1..c : ps[k] \in Int /\ 0 <= ps[k] /\ ps[k] <= 99 BY <1>3, <1>10, SMT
  <2>2. \A k \in 1..c : ps[k] \in 0..99 BY <2>1, SMT
  <2> QED BY <1>7, <2>2, Zenon
<1>13. Unpaired(ps) = [j \in 1..(2 * c) |-> PaddedDigit(n, j)]
  <2> DEFINE Digits(j) == IF j % 2 = 1 THEN ps[(j + 1) \div 2] \div 10 ELSE ps[j \div 2] % 10
  <2>1. Unpaired(ps) = [j \in 1..(2 * c) |-> Digits(j)]
    BY <1>11, SMT DEF Unpaired
  <2>2. \A j \in 1..(2 * c) : Digits(j) = PaddedDigit(n, j)
    <3> SUFFICES ASSUME NEW j \in 1..(2 * c) PROVE Digits(j) = PaddedDigit(n, j)
      OBVIOUS
    <3>1. CASE j % 2 = 1
      <4> DEFINE k == (j + 1) \div 2
      <4>1. k \in 1..c /\ 2 * k - 1 = j BY <1>2, <3>1, SMT
      <4>2. Digits(j) = ps[k] \div 10 BY <3>1, Zenon
      <4> HIDE DEF k
      <4> QED BY <1>3, <1>10, <4>1, <4>2, SMT
    <3>2. CASE j % 2 # 1
      <4> DEFINE k == j \div 2
      <4>1. k \in 1..c /\ 2 * k = j BY <1>2, <3>2, SMT
      <4>2. Digits(j) = ps[k] % 10 BY <3>2, Zenon
      <4> HIDE DEF k
      <4> QED BY <1>3, <1>10, <4>1, <4>2, SMT
    <3> QED BY <3>1, <3>2, Zenon
  <2> HIDE DEF Digits
  <2> QED BY <2>1, <2>2, SMT
<1>14. Normal(n.neg, Unpaired(ps), n.point + Shift(n)) = n
  BY <1>13, PaddingIsDropped, Zenon DEF c
<1>15. low = n.neg
  <2>1. low \in BOOLEAN BY SMT DEF low
  <2> QED BY <1>1, <1>2, <2>1, Zenon
<1>16. NumberIn(bs) = n BY <1>4, <1>5, <1>12, <1>14, <1>15, Zenon
<1>17. n # Malformed
  <2>1. DOMAIN n = {"neg", "digits", "point"} /\ DOMAIN Malformed = {"malformed"}
    BY NumberShape, SMT DEF Malformed
  <2> QED BY <2>1, SMT
<1> QED BY <1>16, <1>17, Zenon DEF bs

\* The client reads every NUMBER that encode_number encodes as it was: sign, every digit
\* and decimal point (types.py:32-133, from the digits of str(value) on).
THEOREM ClientReadsNumbers ==
    ASSUME NEW n \in Numbers, Encodable(n)
    PROVE  ClientNumber(EncodeNumber(n)) = n
<1>1. CASE n = Zero BY <1>1, ZeroLayout, SMT DEF ClientNumber
<1>2. CASE n # Zero
  <2> DEFINE bs == EncodeNumber(n)
             zero == <<128>>
  <2>1. Len(bs) \in Nat /\ Len(bs) >= 2 BY <1>2, NumberLayout, SMT
  <2>3. Len(zero) = 1 BY SMT
  <2> DEFINE m == Len(bs)
             l == Len(zero)
  <2> HIDE DEF bs, zero, m, l
  <2>6. m # l
    <3>1. m \in Nat /\ m >= 2 BY <2>1, Zenon DEF m
    <3>2. l = 1 BY <2>3, Zenon DEF l
    <3> QED BY <3>1, <3>2, SMT
  <2>5. Len(bs) # Len(zero) BY <2>6, Zenon DEF m, l
  <2>4. bs # zero BY <2>5, Zenon
  <2>2. EncodeNumber(n) # <<128>> BY <2>4, Zenon DEF bs, zero
  <2> QED BY <1>2, <2>2, NumberInEncoded, SMT DEF ClientNumber
<1> QED BY <1>1, <1>2, Zenon

\* The bridge reads a bind as it was (types.py:136-166) when it has at most 28 digits,
\* unless it is one of the positive numbers whose exponent byte is zero's.
THEOREM BridgeReadsNumbers ==
    ASSUME NEW n \in Numbers, Encodable(n), Len(n.digits) <= Precision,
           n.neg \/ n.point >= -127
    PROVE  DecodeNumber(EncodeNumber(n)) = n
<1>1. CASE n = Zero
  <2>1. EncodeNumber(n)[1] = 128 BY <1>1, ZeroLayout, SMT
  <2> QED BY <1>1, <2>1, SMT DEF DecodeNumber
<1>2. CASE n # Zero
  <2> DEFINE bs == EncodeNumber(n)
  <2>1. bs # <<>> /\ bs[1] # 128
    <3>1. /\ bs[1] < 128 <=> n.neg
          /\ (IF bs[1] < 128 THEN 255 - bs[1] ELSE bs[1]) = ExponentByte(n)
          /\ Len(bs) >= 2
      BY <1>2, NumberLayout, Zenon
    <3>2. n.point \in Int /\ (ExponentByte(n) = 128 <=> n.point < -127)
      BY <1>2, NumberShape, NumberExponent, Zenon
    <3> HIDE DEF bs
    <3>3. bs # <<>> BY <3>1, SMT
    <3>4. bs[1] # 128 BY <3>1, <3>2, SMT
    <3> QED BY <3>3, <3>4, Zenon
  <2>2. NumberIn(bs) = n /\ n # Malformed BY <1>2, NumberInEncoded, Zenon
  <2>3. Rounded(n) = n BY SMT DEF Rounded
  <2> QED BY <2>1, <2>2, <2>3, SMT DEF DecodeNumber
<1> QED BY <1>1, <1>2, Zenon

\* Those numbers are read as zero (types.py:146): that is the one value two numbers share.
THEOREM TinyNumbersAreZero ==
    ASSUME NEW n \in Numbers, Encodable(n), ~n.neg, n.point < -127
    PROVE  DecodeNumber(EncodeNumber(n)) = Zero
<1>1. n # Zero BY SMT DEF Zero
<1> DEFINE bs == EncodeNumber(n)
<1>2. /\ bs[1] < 128 <=> n.neg
      /\ (IF bs[1] < 128 THEN 255 - bs[1] ELSE bs[1]) = ExponentByte(n)
  BY <1>1, NumberLayout, Zenon
<1>3. ExponentByte(n) = 128 BY <1>1, NumberExponent, Zenon
<1> HIDE DEF bs
<1>4. bs[1] = 128 BY <1>2, <1>3, SMT
<1> QED BY <1>4, SMT DEF DecodeNumber, bs

\* A NUMBER fits the 22 bytes ora_buffer_sizes announces for forty digits (types.py:278-279).
THEOREM NumbersFit ==
    ASSUME NEW n \in Numbers, Encodable(n)
    PROVE  Len(EncodeNumber(n)) <= MaxDigits \div 2 + 2
<1>1. CASE n = Zero
  <2>1. Len(EncodeNumber(n)) = 1 BY <1>1, ZeroLayout, SMT
  <2>2. MaxDigits \in Nat BY ValuesAssumption, SMT
  <2> QED BY <2>1, <2>2, SMT
<1>2. CASE n # Zero BY <1>2, NumberLayout, SMT
<1> QED BY <1>1, <1>2, Zenon

-----------------------------------------------------------------------------
(* TIMESTAMP and INTERVAL                                                  *)

\* Seven bytes, four more and what follows them; and four, three and four.
LEMMA TimestampLayout ==
    ASSUME NEW a \in Seq(Int), NEW b \in Seq(Int), NEW c \in Seq(Int), Len(a) = 7, Len(b) = 4
    PROVE  /\ Len(a \o b \o c) >= 11
           /\ \A i \in 1..7 : (a \o b \o c)[i] = a[i]
           /\ \A i \in 1..4 : (a \o b \o c)[7 + i] = b[i]
<1> DEFINE w == a \o b
           x == w \o c
<1>1. /\ w \in Seq(Int) /\ Len(w) = Len(a) + Len(b)
      /\ \A i \in 1..Len(a) : w[i] = a[i]
      /\ \A i \in 1..Len(b) : w[Len(a) + i] = b[i]
  BY Joined, Zenon
<1> HIDE DEF w
<1>2. /\ Len(x) = Len(w) + Len(c) /\ \A i \in 1..Len(w) : x[i] = w[i]
  BY <1>1, Joined, Zenon
<1> HIDE DEF x
<1>3. Len(c) \in Nat BY SMT
<1>4. Len(x) >= 11 /\ \A i \in 1..7 : x[i] = a[i]
  BY <1>1, <1>2, <1>3, SMT
<1>5. \A i \in 1..4 : x[7 + i] = b[i]
  BY <1>1, <1>2, SMT
<1> QED BY <1>4, <1>5, Zenon DEF x, w

LEMMA IntervalLayout ==
    ASSUME NEW a \in Seq(Int), NEW b \in Seq(Int), NEW c \in Seq(Int),
           Len(a) = 4, Len(b) = 3, Len(c) = 4
    PROVE  /\ \A i \in 1..4 : (a \o b \o c)[i] = a[i]
           /\ \A i \in 1..3 : (a \o b \o c)[4 + i] = b[i]
           /\ \A i \in 1..4 : (a \o b \o c)[7 + i] = c[i]
<1> DEFINE w == a \o b
           x == w \o c
<1>1. /\ w \in Seq(Int) /\ Len(w) = Len(a) + Len(b)
      /\ \A i \in 1..Len(a) : w[i] = a[i]
      /\ \A i \in 1..Len(b) : w[Len(a) + i] = b[i]
  BY Joined, Zenon
<1> HIDE DEF w
<1>2. /\ \A i \in 1..Len(w) : x[i] = w[i]
      /\ \A i \in 1..Len(c) : x[Len(w) + i] = c[i]
  BY <1>1, Joined, Zenon
<1> HIDE DEF x
<1>3. Len(w) = 7 BY <1>1, SMT
<1>4. \A i \in 1..4 : x[i] = a[i]
  BY <1>1, <1>2, <1>3, SMT
<1>5. \A i \in 1..3 : x[4 + i] = b[i]
  BY <1>1, <1>2, <1>3, SMT
<1>6. \A i \in 1..4 : x[7 + i] = c[i]
  BY <1>2, <1>3, SMT
<1> QED BY <1>4, <1>5, <1>6, Zenon DEF x, w

\* decode_timestamp(encode_timestamp(d)) is d, with a time zone or without
\* (types.py:179-202): every field of every datetime, to the microsecond.
THEOREM TimestampsSurvive ==
    ASSUME NEW d \in DateTimes, NEW withTz \in BOOLEAN
    PROVE  DecodeTimestamp(EncodeTimestamp(d, withTz)) = d
<1> DEFINE u == U32(d.us * 1000)
           date == EncodeDate(d)
           z == IF withTz THEN <<20, 60>> ELSE <<>>
           bs == EncodeTimestamp(d, withTz)
<1>1. /\ d.us \in Nat /\ d.us < 1000000 /\ d.year \in Nat /\ d.year < 10000
      /\ d.month \in Int /\ d.day \in Int /\ d.hour \in Int /\ d.minute \in Int /\ d.second \in Int
  BY SMT DEF DateTimes
<1>2. d.us * 1000 \in Nat /\ d.us * 1000 < 4294967296 BY <1>1, SMT
<1>3. date = <<(d.year \div 100) + 100, (d.year % 100) + 100, d.month, d.day, d.hour + 1,
               d.minute + 1, d.second + 1>>
  BY SMT DEF EncodeDate
<1>4. date \in Seq(Int) /\ Len(date) = 7 BY <1>1, <1>3, SMT
<1>5. /\ date[1] = (d.year \div 100) + 100 /\ date[2] = (d.year % 100) + 100
      /\ date[3] = d.month /\ date[4] = d.day /\ date[5] = d.hour + 1
      /\ date[6] = d.minute + 1 /\ date[7] = d.second + 1
  BY <1>3, SMT
<1>6. z \in Seq(Int) BY SMT
<1>7. bs = date \o u \o z BY SMT DEF EncodeTimestamp
<1> HIDE DEF u, date, z, bs
<1>8. Len(u) = 4 /\ u \in Seq(Int) /\ FromU32(u, 1) = d.us * 1000
  BY <1>2, U32Type, SMT DEF u
<1>9. Len(u) = 4 /\ u \in Seq(Int) BY <1>8, SMT
<1>10. /\ Len(bs) >= 11
       /\ \A i \in 1..7 : bs[i] = date[i]
       /\ \A i \in 1..4 : bs[7 + i] = u[i]
  BY <1>4, <1>6, <1>7, <1>9, TimestampLayout, Zenon
<1>11. FromU32(bs, 8) = d.us * 1000
  <2>1. bs[8] = u[1] /\ bs[9] = u[2] /\ bs[10] = u[3] /\ bs[11] = u[4]
    BY <1>10, SMT
  <2>2. FromU32(bs, 8) = FromU32(u, 1)
    BY <2>1, SMT DEF FromU32
  <2> QED BY <2>2, <1>8, SMT
<1>12. /\ (bs[1] - 100) * 100 + (bs[2] - 100) = d.year
       /\ bs[3] = d.month /\ bs[4] = d.day
       /\ bs[5] - 1 = d.hour /\ bs[6] - 1 = d.minute /\ bs[7] - 1 = d.second
  <2>1. /\ bs[1] = (d.year \div 100) + 100 /\ bs[2] = (d.year % 100) + 100
        /\ bs[3] = d.month /\ bs[4] = d.day /\ bs[5] = d.hour + 1
        /\ bs[6] = d.minute + 1 /\ bs[7] = d.second + 1
    BY <1>5, <1>10, SMT
  <2> QED BY <2>1, <1>1, SMT
<1>13. FromU32(bs, 8) \div 1000 = d.us BY <1>1, <1>11, SMT
<1>14. DecodeTimestamp(bs) =
         [year |-> d.year, month |-> d.month, day |-> d.day, hour |-> d.hour,
          minute |-> d.minute, second |-> d.second, us |-> d.us]
  BY <1>10, <1>12, <1>13, SMT DEF DecodeTimestamp
<1> QED BY <1>14, SMT DEF DateTimes, bs

\* What a timedelta is: its days lie between those of timedelta.min and timedelta.max.
LEMMA IntervalShape ==
    ASSUME NEW v \in Intervals
    PROVE  /\ v.us \in Nat /\ v.us < 1000000 /\ v.secs \in Int
           /\ -999999999 <= v.secs \div 86400 /\ v.secs \div 86400 <= 999999999
           /\ v = [secs |-> v.secs, us |-> v.us]
BY SMT DEF Intervals

\* The float of types.py:265 adds at most a second, and none to an exact interval.
LEMMA TotalSecondsShape ==
    ASSUME NEW v \in Intervals
    PROVE  /\ TotalSeconds(v) \in {v.secs, v.secs + 1}
           /\ v.secs >= 0 => TotalSeconds(v) >= 0
           /\ Exact(v) => TotalSeconds(v) = v.secs
<1>1. v.us \in Nat /\ v.us < 1000000 /\ v.secs \in Int BY IntervalShape, SMT
<1>2. TotalSeconds(v) \in {v.secs, v.secs + 1} BY <1>1, SMT DEF TotalSeconds
<1>3. v.secs >= 0 => TotalSeconds(v) >= 0 BY <1>1, <1>2, SMT
<1>4. ASSUME Exact(v) PROVE TotalSeconds(v) = v.secs
  <2>1. v.secs >= 0 /\ (v.secs < FloatSeconds \/ v.us < 992188) BY <1>4 DEF Exact
  <2>2. FloatSeconds \in Nat \ {0} BY ValuesAssumption
  <2>3. ~RoundsUp(v.secs, v.us)
    <3>1. CASE v.secs < FloatSeconds
      <4>1. v.secs \div FloatSeconds = 0 BY <1>1, <2>1, <2>2, <3>1, SMT
      <4> QED BY <4>1, SMT DEF RoundsUp
    <3>2. CASE v.us < 992188
      <4> SUFFICES ASSUME NEW p \in {1, 2, 4, 8, 16, 32, 64, 128, 256, 512, 1024, 2048, 4096}
                   PROVE  ~(1000000 - v.us <= (15625 * p) \div 8192)
        BY SMT DEF RoundsUp
      <4>1. p \in Int /\ p <= 4096 BY SMT
      <4>2. (15625 * p) \div 8192 <= 7812 BY <4>1, SMT
      <4> QED BY <1>1, <3>2, <4>1, <4>2, SMT
    <3> QED BY <2>1, <3>1, <3>2
  <2> QED BY <1>1, <2>1, <2>3, SMT DEF TotalSeconds
<1> QED BY <1>2, <1>3, <1>4

\* An interval that is not negative comes back with its microseconds and the seconds of
\* the float: the days of any timedelta fit the 32 bits of the wire (types.py:208-227).
LEMMA IntervalReturns ==
    ASSUME NEW v \in Intervals, v.secs >= 0
    PROVE  DecodeInterval(EncodeInterval(v)) = [secs |-> TotalSeconds(v), us |-> v.us]
<1> DEFINE total == TotalSeconds(v)
           days == total \div 86400
           hours == (total % 86400) \div 3600
           minutes == (total % 3600) \div 60
           seconds == total % 60
           fseconds == v.us * 1000
           D == Biased(days)
           F == Biased(fseconds)
           M == <<hours + 60, minutes + 60, seconds + 60>>
           bs == EncodeInterval(v)
<1>0. /\ v.us \in Nat /\ v.us < 1000000 /\ v.secs \in Nat /\ v.secs \div 86400 <= 999999999
      /\ total \in {v.secs, v.secs + 1} /\ total >= 0
  BY IntervalShape, TotalSecondsShape, SMT
<1>6. bs = D \o M \o F
  <2>1. ~(v.secs < 0) BY <1>0, SMT
  <2>2. bs = EncodeIntervalDs(days, hours, minutes, seconds, fseconds)
    BY <2>1, SMT DEF EncodeInterval
  <2> HIDE DEF days, hours, minutes, seconds, fseconds, bs
  <2> QED BY <2>2, Zenon DEF EncodeIntervalDs
<1> HIDE DEF total
<1>1. v.us \in Nat /\ v.us < 1000000 /\ total \in Nat /\ days < 2147483648
  <2>1. CASE total = v.secs BY <1>0, <2>1, SMT
  <2>2. CASE total = v.secs + 1 BY <1>0, <2>2, SMT
  <2> QED BY <1>0, <2>1, <2>2
<1>2. /\ days \in Int /\ -2147483648 <= days /\ days < 2147483648
      /\ fseconds \in Int /\ -2147483648 <= fseconds /\ fseconds < 2147483648
  BY <1>1, SMT
<1>3. hours \in Int /\ minutes \in Int /\ seconds \in Int BY <1>1, SMT
<1>4. 86400 * days + 3600 * hours + 60 * minutes + seconds = total
  <2>1. total % 86400 \in Nat BY <1>1, SMT
  <2>2. total = 86400 * (total \div 86400) + (total % 86400) BY <1>1, SMT
  <2>3. total % 86400 = 3600 * hours + ((total % 86400) % 3600) BY <2>1, SMT
  <2>4. (total % 86400) % 3600 = total % 3600 BY <1>1, SMT
  <2>5. total % 3600 = 60 * minutes + ((total % 3600) % 60) BY <1>1, SMT
  <2>6. (total % 3600) % 60 = seconds BY <1>1, SMT
  <2> QED BY <2>2, <2>3, <2>4, <2>5, <2>6, <1>1, <1>3, SMT
<1>5. fseconds \div 1000 = v.us /\ ~(fseconds < 0) BY <1>1, SMT
<1> HIDE DEF days, hours, minutes, seconds, fseconds, D, F, bs
<1>7. /\ M \in Seq(Int) /\ Len(M) = 3
      /\ M[1] = hours + 60 /\ M[2] = minutes + 60 /\ M[3] = seconds + 60
  BY <1>3, SMT
<1> HIDE DEF M
<1>8. /\ D \in Seq(Int) /\ Len(D) = 4 /\ FromBiased(D, 1) = days
      /\ F \in Seq(Int) /\ Len(F) = 4 /\ FromBiased(F, 1) = fseconds
  <2>1. Biased(days) \in Seq(Int) /\ Len(Biased(days)) = 4 /\ FromBiased(Biased(days), 1) = days
    <3>1. days \in Int /\ -2147483648 <= days /\ days < 2147483648 BY <1>2, SMT
    <3> QED BY ONLY <3>1, BiasedType, SMT
  <2>2. /\ Biased(fseconds) \in Seq(Int) /\ Len(Biased(fseconds)) = 4
        /\ FromBiased(Biased(fseconds), 1) = fseconds
    <3>1. fseconds \in Int /\ -2147483648 <= fseconds /\ fseconds < 2147483648 BY <1>2, SMT
    <3> QED BY ONLY <3>1, BiasedType, SMT
  <2> QED BY <2>1, <2>2, SMT DEF D, F
<1>9. /\ \A i \in 1..4 : bs[i] = D[i]
      /\ \A i \in 1..3 : bs[4 + i] = M[i]
      /\ \A i \in 1..4 : bs[7 + i] = F[i]
  <2>1. D \in Seq(Int) /\ Len(D) = 4 /\ M \in Seq(Int) /\ Len(M) = 3 /\ F \in Seq(Int) /\ Len(F) = 4
    BY <1>7, <1>8, SMT
  <2>2. /\ \A i \in 1..4 : (D \o M \o F)[i] = D[i]
        /\ \A i \in 1..3 : (D \o M \o F)[4 + i] = M[i]
        /\ \A i \in 1..4 : (D \o M \o F)[7 + i] = F[i]
    BY <2>1, IntervalLayout, Zenon
  <2> QED BY <1>6, <2>2, Zenon
<1>10. /\ bs[1] = D[1] /\ bs[2] = D[2] /\ bs[3] = D[3] /\ bs[4] = D[4]
       /\ bs[5] = M[1] /\ bs[6] = M[2] /\ bs[7] = M[3]
       /\ bs[8] = F[1] /\ bs[9] = F[2] /\ bs[10] = F[3] /\ bs[11] = F[4]
  BY <1>9, SMT
<1>11. FromBiased(bs, 1) = days /\ FromBiased(bs, 8) = fseconds
  <2>1. FromBiased(bs, 1) = FromBiased(D, 1) BY <1>10, SMT DEF FromBiased
  <2>2. FromBiased(bs, 8) = FromBiased(F, 1) BY <1>10, SMT DEF FromBiased
  <2> QED BY <2>1, <2>2, <1>8, SMT
<1>12. bs[5] - 60 = hours /\ bs[6] - 60 = minutes /\ bs[7] - 60 = seconds
  BY <1>3, <1>7, <1>10, SMT
<1>13. DecodeInterval(bs) = [secs |-> total, us |-> v.us]
  <2>1. DecodeInterval(bs) = [secs |-> 86400 * days + 3600 * hours + 60 * minutes + seconds,
                              us |-> fseconds \div 1000]
    BY <1>5, <1>11, <1>12, SMT DEF DecodeInterval
  <2> QED BY <2>1, <1>4, <1>5, SMT
<1> QED BY <1>13 DEF bs, total

\* decode_interval_ds(encode_interval_ds(...)) is the interval, for every one that is not
\* negative and below 2^34 seconds or .992188 of a second (types.py:208-227, 262-275).
THEOREM IntervalsSurvive ==
    ASSUME NEW v \in Intervals, Exact(v)
    PROVE  DecodeInterval(EncodeInterval(v)) = v
<1>1. v.secs >= 0 BY DEF Exact
<1>2. TotalSeconds(v) = v.secs BY TotalSecondsShape
<1>3. DecodeInterval(EncodeInterval(v)) = [secs |-> v.secs, us |-> v.us]
  BY <1>1, <1>2, IntervalReturns
<1> QED BY <1>3, IntervalShape

=============================================================================
