-------------------------- MODULE TtcMessage_proofs --------------------------
(***************************************************************************)
(* The reader of a TTC message never loses its place: whatever the bridge   *)
(* or the client wrote, each primitive stops where the writer's did, and    *)
(* reads what it was given, or finds that the bytes are not there.          *)
(***************************************************************************)
EXTENDS TtcMessage, OracleValues_proofs, WellFoundedInduction

-----------------------------------------------------------------------------
(* Induction, and functions that are defined in terms of themselves        *)

\* Natural numbers have a least one.
LEMMA Least == ASSUME NEW W \in SUBSET Nat, W # {}
               PROVE  \E i \in W : \A j \in W : i <= j
<1>1. \E i \in W : \A j \in W : ~(<<j, i>> \in OpToRel(<, Nat))
  BY NatLessThanWellFounded, WFMin, Zenon
<1>2. OpToRel(<, Nat) = {p \in Nat \X Nat : p[1] < p[2]}
  BY Zenon DEF OpToRel
<1>3. PICK i \in W : \A j \in W : <<j, i>> \notin {p \in Nat \X Nat : p[1] < p[2]}
  BY <1>1, <1>2, Zenon
<1>4. \A j \in W : ~(j < i)
  <2> SUFFICES ASSUME NEW j \in W, j < i
               PROVE  FALSE
    OBVIOUS
  <2>1. i \in Nat /\ j \in Nat OBVIOUS
  <2>2. <<j, i>> \in {p \in Nat \X Nat : p[1] < p[2]} BY <2>1, SMT
  <2> QED BY <2>2, <1>3
<1>5. \A j \in W : i <= j BY <1>4, SMT
<1> QED BY <1>5, Zenon

\* A set of naturals that holds each one whose smaller ones it holds, holds them all.
LEMMA Complete == ASSUME NEW W \in SUBSET Nat,
                         \A b \in Nat : (\A c \in Nat : c < b => c \in W) => b \in W
                  PROVE  \A b \in Nat : b \in W
<1> SUFFICES ASSUME NEW b \in Nat, b \notin W
             PROVE  FALSE
  OBVIOUS
<1> DEFINE M == Nat \ W
<1>1. M \in SUBSET Nat /\ b \in M OBVIOUS
<1> HIDE DEF M
<1>2. PICK i \in M : \A j \in M : i <= j BY <1>1, Least, Zenon
<1>3. i \in Nat /\ i \notin W BY <1>2 DEF M
<1>4. \A c \in Nat : c < i => c \in W BY <1>2, <1>3, SMT DEF M
<1> QED BY <1>3, <1>4

\* A function that takes at k the value H[k] makes of the one at next[k], where that is a
\* step down, and B[k] where it is not.
Solves(f, D, V, mu, next, B, H) ==
    /\ f \in [D -> V]
    /\ \A k \in D : f[k] = IF mu[next[k]] < mu[k] THEN H[k][f[next[k]]] ELSE B[k]

\* There is one.
LEMMA Recursion ==
    ASSUME NEW D, NEW V, NEW mu \in [D -> Nat], NEW next \in [D -> D],
           NEW B \in [D -> V], NEW H \in [D -> [V -> V]],
           NEW N \in Nat, \A k \in D : mu[k] < N
    PROVE  \E f : Solves(f, D, V, mu, next, B, H)
<1> DEFINE Right(f, k) == f[k] = IF mu[next[k]] < mu[k] THEN H[k][f[next[k]]] ELSE B[k]
           Some(b) == \E f \in [D -> V] : \A k \in D : mu[k] < b => Right(f, k)
           W == {b \in Nat : Some(b)}
<1>1. ASSUME NEW b \in Nat, \A c \in Nat : c < b => c \in W
      PROVE  b \in W
  <2>1. CASE b = 0
    <3>1. \A k \in D : mu[k] < b => Right(B, k) BY <2>1, SMT
    <3> HIDE DEF Right
    <3> QED BY <3>1
  <2>2. CASE b # 0
    <3>1. b - 1 \in Nat /\ b - 1 < b BY <2>2, SMT
    <3>2. Some(b - 1) BY <1>1, <3>1
    <3>3. PICK f \in [D -> V] : \A k \in D : mu[k] < b - 1 => Right(f, k) BY <3>2
    <3> DEFINE g == [k \in D |-> IF mu[next[k]] < mu[k] THEN H[k][f[next[k]]] ELSE B[k]]
    <3>4. \A k \in D : g[k] = IF mu[next[k]] < mu[k] THEN H[k][f[next[k]]] ELSE B[k] OBVIOUS
    <3>5. g \in [D -> V]
      <4>1. \A k \in D : (IF mu[next[k]] < mu[k] THEN H[k][f[next[k]]] ELSE B[k]) \in V OBVIOUS
      <4> QED BY <4>1
    <3> HIDE DEF g
    <3>6. ASSUME NEW k \in D, mu[k] < b
          PROVE  Right(g, k)
      <4>1. CASE mu[next[k]] < mu[k]
        <5>1. next[k] \in D /\ mu[next[k]] \in Nat /\ mu[k] \in Nat OBVIOUS
        <5>2. mu[next[k]] < b - 1
          <6> DEFINE x == mu[next[k]]
                     y == mu[k]
          <6> HIDE DEF x, y
          <6>1. x \in Nat /\ y \in Nat /\ x < y /\ y < b BY <3>6, <4>1, <5>1 DEF x, y
          <6>2. x < b - 1 BY <6>1, SMT
          <6> QED BY <6>2 DEF x
        <5>3. Right(f, next[k]) BY <3>3, <5>1, <5>2
        <5>4. f[next[k]] = g[next[k]]
          <6> DEFINE n == next[k]
                     e == IF mu[next[n]] < mu[n] THEN H[n][f[next[n]]] ELSE B[n]
          <6>1. g[n] = e BY <3>4, <5>1
          <6>2. f[n] = e BY <5>3
          <6> HIDE DEF n, e
          <6> QED BY <6>1, <6>2 DEF n
        <5> QED BY <3>4, <4>1, <5>4
      <4>2. CASE ~(mu[next[k]] < mu[k])
        BY <3>4, <4>2
      <4> QED BY <4>1, <4>2
    <3> HIDE DEF Right
    <3> QED BY <3>5, <3>6
  <2> QED BY <2>1, <2>2
<1>2. W \in SUBSET Nat OBVIOUS
<1>3. N \in W
  <2> HIDE DEF W
  <2> QED BY <1>1, <1>2, Complete
<1>4. PICK f \in [D -> V] : \A k \in D : mu[k] < N => Right(f, k) BY <1>3
<1>5. \A k \in D : Right(f, k)
  <2> HIDE DEF Right
  <2> QED BY <1>4
<1> QED BY <1>4, <1>5 DEF Solves

-----------------------------------------------------------------------------
(* Bytes                                                                   *)

\* One byte string after another.
LEMMA JoinedBytes ==
    ASSUME NEW a \in Seq(Byte), NEW b \in Seq(Byte)
    PROVE  /\ a \o b \in Seq(Byte) /\ Len(a \o b) = Len(a) + Len(b)
           /\ Len(a) \in Nat /\ Len(b) \in Nat
           /\ \A i \in 1..Len(a) : (a \o b)[i] = a[i]
           /\ \A i \in 1..Len(b) : (a \o b)[Len(a) + i] = b[i]
<1>1. a \o b \in Seq(Byte) /\ Len(a \o b) = Len(a) + Len(b) BY ConcatProperties, Zenon
<1>2. Len(a) \in Nat /\ Len(b) \in Nat BY LenProperties, Zenon
<1>3. a \in Seq(Int) /\ b \in Seq(Int)
  <2>1. Byte \subseteq Int BY SMT DEF Byte
  <2> QED BY <2>1, SeqMonotonic, Zenon
<1> QED BY <1>1, <1>2, <1>3, Joined, Zenon

\* Integers that are bytes.
LEMMA BytesOf == ASSUME NEW s \in Seq(Int), \A i \in 1..Len(s) : s[i] \in Byte
                 PROVE  s \in Seq(Byte)
<1>1. Len(s) \in Nat /\ s \in [1..Len(s) -> Int] BY LenProperties, Zenon
<1> DEFINE n == Len(s)
<1> HIDE DEF n
<1>2. n \in Nat /\ s \in [1..n -> Int] BY <1>1 DEF n
<1>3. s = [i \in 1..n |-> s[i]] BY <1>2, Zenon
<1>4. [i \in 1..n |-> s[i]] \in Seq(Byte)
  <2>1. \A i \in 1..n : s[i] \in Byte BY DEF n
  <2> QED BY <1>2, <2>1, IsASeq
<1> QED BY <1>3, <1>4, Zenon

\* Four bytes, the most significant first, of any number that 32 bits hold.
LEMMA U32Bytes == ASSUME NEW n \in Nat, n < 4294967296
                  PROVE  /\ U32(n) \in Seq(Byte) /\ Len(U32(n)) = 4
                         /\ FromU32(U32(n), 1) = n
<1>1. n \div 16777216 \in Byte /\ (n \div 65536) % 256 \in Byte
      /\ (n \div 256) % 256 \in Byte /\ n % 256 \in Byte
  BY SMT DEF Byte
<1>2. U32(n) \in Seq(Byte) BY <1>1, SMT DEF U32
<1> QED BY <1>2, U32Type, SMT

\* Four bytes of any signed number of 32 bits, which goes out with 2^31 added.
LEMMA BiasedBytes == ASSUME NEW n \in Int, -2147483648 <= n, n < 2147483648
                     PROVE  Biased(n) \in Seq(Byte) /\ Len(Biased(n)) = 4
<1>1. /\ Biased(n) \in Seq(Int) /\ Len(Biased(n)) = 4
      /\ \A i \in 1..4 : Biased(n)[i] \in Byte
  BY BiasedType, SMT
<1>2. \A s \in Seq(Int) : (\A i \in 1..Len(s) : s[i] \in Byte) => s \in Seq(Byte)
  BY BytesOf, SMT
<1> QED BY <1>1, <1>2, SMT

\* A NUMBER that fits is made of bytes, and of at least one.
LEMMA NumberBytes ==
    ASSUME NEW n \in Numbers, Encodable(n)
    PROVE  EncodeNumber(n) \in Seq(Byte) /\ EncodeNumber(n) # NoBytes
<1>1. CASE n = Zero
  <2>1. EncodeNumber(n) = <<128>> BY <1>1, ZeroLayout, Zenon
  <2>2. <<128>> \in Seq(Byte) /\ <<128>> # <<>> BY SMT DEF Byte
  <2> QED BY <2>1, <2>2, SMT DEF NoBytes
<1>2. CASE n # Zero
  <2> DEFINE e == ExponentByte(n)
             h == 255 - e
             ps == WrittenPairs(n)
             c == PairCount(n)
             z == 102
             bs == EncodeNumber(n)
  <2>1. e \in 128..255 /\ h \in 0..127
    <3>1. e \in Int /\ 128 <= e /\ e <= 255 BY <1>2, NumberExponent, Zenon
    <3> HIDE DEF e
    <3> QED BY <3>1, SMT
  <2>2. c \in Nat BY <1>2, ShiftType, Zenon
  <2>3. ps \in Seq(Byte)
    <3>1. ps = [k \in 1..c |-> IF n.neg THEN 101 - Pair(n, k) ELSE Pair(n, k) + 1]
      BY Zenon DEF WrittenPairs
    <3>2. \A k \in 1..c : (IF n.neg THEN 101 - Pair(n, k) ELSE Pair(n, k) + 1) \in Byte
      <4>1. \A k \in 1..c : Pair(n, k) \in Int /\ 0 <= Pair(n, k) /\ Pair(n, k) <= 99
        BY <1>2, <2>2, PairType, SMT
      <4> QED BY <4>1, SMT DEF Byte
    <3> HIDE DEF ps, c
    <3> QED BY <2>2, <3>1, <3>2, IsASeq
  <2>4. bs = IF ~n.neg THEN <<e>> \o ps
             ELSE IF 2 * c < MaxDigits THEN <<h>> \o ps \o <<z>> ELSE <<h>> \o ps
    BY <1>2, Zenon DEF EncodeNumber, WrittenPairs
  <2>5. Len(bs) >= 2 BY <1>2, NumberLayout, Zenon
  <2>6. <<e>> \in Seq(Byte) /\ <<h>> \in Seq(Byte) /\ <<z>> \in Seq(Byte)
    <3> HIDE DEF e, h
    <3> QED BY <2>1, SMT DEF Byte
  <2> HIDE DEF e, h, ps, c, z, bs
  <2>7. <<e>> \o ps \in Seq(Byte) /\ <<h>> \o ps \in Seq(Byte) BY <2>3, <2>6, JoinedBytes, Zenon
  <2>8. <<h>> \o ps \o <<z>> \in Seq(Byte) BY <2>6, <2>7, JoinedBytes, Zenon
  <2>9. bs \in Seq(Byte) BY <2>4, <2>7, <2>8, Zenon
  <2>10. bs # <<>> BY <2>5, EmptySeq, SMT
  <2> QED BY <2>9, <2>10, Zenon DEF NoBytes, bs
<1> QED BY <1>1, <1>2

\* encode_number takes zero.
LEMMA ZeroEncodable == Encodable(Zero)
<1>1. Zero.digits = <<>> /\ Zero.point = 0 BY SMT DEF Zero
<1>2. Len(Zero.digits) = 0 BY <1>1, SMT
<1>3. MaxDigits \in Nat BY ValuesAssumption, SMT
<1> QED BY <1>1, <1>2, <1>3, SMT DEF Encodable

\* What goes out for a number as a column: its bytes, or an integer's text.
LEMMA ColumnBytes ==
    ASSUME NEW n \in Numbers, Encodable(n) \/ n.point >= Len(n.digits)
    PROVE  Column(n) \in Seq(Byte)
<1>1. CASE EncodeNumber(n) # NoBytes
  <2>1. Encodable(n) BY <1>1, ZeroEncodable, Zenon DEF EncodeNumber
  <2>2. EncodeNumber(n) \in Seq(Byte) BY <2>1, NumberBytes, Zenon
  <2> QED BY <1>1, <2>2, Zenon DEF Column
<1>2. CASE EncodeNumber(n) = NoBytes
  <2>1. ~Encodable(n) BY <1>2, NumberBytes, Zenon
  <2>2. n # Zero BY <2>1, ZeroEncodable, Zenon
  <2>3. /\ n.point \in Int /\ Len(n.digits) \in Nat
        /\ \A i \in 1..Len(n.digits) : n.digits[i] \in Digit
        /\ DOMAIN n.digits = 1..Len(n.digits)
    BY <2>2, NumberShape, LenProperties, Zenon
  <2>4. n.point \in Nat BY <2>1, <2>3, SMT
  <2> DEFINE d(i) == 48 + (IF i \in DOMAIN n.digits THEN n.digits[i] ELSE 0)
             p == n.point
             sign == IF n.neg THEN <<45>> ELSE <<>>
             ds == [i \in 1..p |-> d(i)]
  <2>5. \A i \in 1..p : d(i) \in Byte
    <3> TAKE i \in 1..p
    <3> DEFINE e == IF i \in DOMAIN n.digits THEN n.digits[i] ELSE 0
    <3>1. e \in 0..9
      <4>1. CASE i \in DOMAIN n.digits BY <2>3, <4>1, Zenon DEF Digit
      <4>2. CASE i \notin DOMAIN n.digits BY <4>2, SMT
      <4> QED BY <4>1, <4>2, Zenon
    <3> HIDE DEF e
    <3>2. 48 + e \in Byte BY <3>1, SMT DEF Byte
    <3> QED BY <3>2, Zenon DEF e
  <2>6. ds \in Seq(Byte)
    <3> HIDE DEF d, p
    <3>1. p \in Nat BY <2>4 DEF p
    <3> QED BY <2>5, <3>1, IsASeq
  <2>7. sign \in Seq(Byte)
    <3>1. <<45>> \in Seq(Byte) /\ <<>> \in Seq(Byte) BY SMT DEF Byte
    <3> QED BY <3>1, Zenon
  <2>8. TextOf(n) = sign \o ds BY Zenon DEF TextOf
  <2> HIDE DEF ds, sign
  <2>9. TextOf(n) \in Seq(Byte) BY <2>6, <2>7, <2>8, JoinedBytes, Zenon
  <2> QED BY <1>2, <2>9, Zenon DEF Column
<1> QED BY <1>1, <1>2, Zenon

\* A TIMESTAMP is a byte string and never NULL: each of its fields fits its byte.
LEMMA TimestampBytes ==
    ASSUME NEW d \in DateTimes
    PROVE  EncodeTimestamp(d, FALSE) \in Seq(Byte) /\ EncodeTimestamp(d, FALSE) # <<>>
<1> DEFINE date == EncodeDate(d)
           u == U32(d.us * 1000)
           tz == <<>>
<1>1. /\ d.year \in Nat /\ d.year < 10000 /\ d.month \in 1..12 /\ d.day \in 1..31
      /\ d.hour \in 0..23 /\ d.minute \in 0..59 /\ d.second \in 0..59
      /\ d.us \in Nat /\ d.us < 1000000
  BY SMT DEF DateTimes
<1>2. date \in Seq(Byte) /\ Len(date) = 7
  <2>1. (d.year \div 100) + 100 \in Byte /\ (d.year % 100) + 100 \in Byte BY <1>1, SMT DEF Byte
  <2>2. d.month \in Byte /\ d.day \in Byte BY <1>1, SMT DEF Byte
  <2>3. d.hour + 1 \in Byte /\ d.minute + 1 \in Byte /\ d.second + 1 \in Byte
    BY <1>1, SMT DEF Byte
  <2> QED BY <2>1, <2>2, <2>3, SMT DEF EncodeDate
<1>3. u \in Seq(Byte) /\ Len(u) = 4
  <2> DEFINE n == d.us * 1000
  <2>1. n \in Nat /\ n < 4294967296 BY <1>1, SMT
  <2> HIDE DEF n
  <2>2. U32(n) \in Seq(Byte) /\ Len(U32(n)) = 4 BY <2>1, U32Bytes, SMT
  <2> QED BY <2>2, SMT DEF n
<1>4. EncodeTimestamp(d, FALSE) = date \o u \o tz BY SMT DEF EncodeTimestamp
<1>5. tz \in Seq(Byte) /\ Len(tz) = 0 BY SMT
<1> HIDE DEF date, u, tz
<1>6. date \o u \in Seq(Byte) /\ Len(date \o u) = 11
  <2>1. date \o u \in Seq(Byte) /\ Len(date \o u) = Len(date) + Len(u)
    BY <1>2, <1>3, JoinedBytes, Zenon
  <2> QED BY <1>2, <1>3, <2>1, SMT
<1>7. date \o u \o tz \in Seq(Byte) /\ Len(date \o u \o tz) = 11
  <2>1. /\ date \o u \o tz \in Seq(Byte)
        /\ Len(date \o u \o tz) = Len(date \o u) + Len(tz)
    BY <1>5, <1>6, JoinedBytes, Zenon
  <2> QED BY <1>5, <1>6, <2>1, SMT
<1>8. date \o u \o tz # <<>>
  <2>1. Len(<<>>) = 0 BY EmptySeq, Zenon
  <2> QED BY <1>7, <2>1, SMT
<1> QED BY <1>4, <1>7, <1>8, Zenon

\* So is an INTERVAL, the negative ones included.
LEMMA IntervalBytes ==
    ASSUME NEW v \in Intervals
    PROVE  EncodeInterval(v) \in Seq(Byte) /\ EncodeInterval(v) # <<>>
<1> DEFINE total == TotalSeconds(v)
           Signed(n) == IF v.secs < 0 THEN -n ELSE n
           days == Signed(total \div 86400)
           hours == Signed((total % 86400) \div 3600)
           minutes == Signed((total % 3600) \div 60)
           seconds == Signed(total % 60)
           fseconds == Signed(v.us * 1000)
           D == Biased(days)
           M == <<hours + 60, minutes + 60, seconds + 60>>
           F == Biased(fseconds)
<1>1. EncodeInterval(v) = D \o M \o F
  <2>1. EncodeInterval(v) = EncodeIntervalDs(days, hours, minutes, seconds, fseconds)
    <3>1. CASE v.secs < 0 BY <3>1, SMT DEF EncodeInterval
    <3>2. CASE ~(v.secs < 0) BY <3>2, SMT DEF EncodeInterval
    <3> QED BY <3>1, <3>2
  <2> HIDE DEF days, hours, minutes, seconds, fseconds
  <2> QED BY <2>1, Zenon DEF EncodeIntervalDs
<1>2. /\ v.us \in Nat /\ v.us < 1000000 /\ v.secs \in Int
      /\ -999999999 <= v.secs \div 86400 /\ v.secs \div 86400 <= 999999999
  BY IntervalShape, SMT
<1>3. total \in Int /\ -999999999 <= total \div 86400 /\ total \div 86400 <= 1000000000
  <2>1. v.secs + 1 \in Int /\ -999999999 <= (v.secs + 1) \div 86400
        /\ (v.secs + 1) \div 86400 <= 1000000000
    BY <1>2, SMT
  <2>2. total = v.secs \/ total = v.secs + 1 BY TotalSecondsShape
  <2> HIDE DEF total
  <2>3. CASE total = v.secs + 1 BY <2>1, <2>3, SMT
  <2>4. CASE total = v.secs BY <1>2, <2>4, SMT
  <2> QED BY <2>2, <2>3, <2>4
<1> HIDE DEF total
<1>4. /\ days \in Int /\ -2147483648 <= days /\ days < 2147483648
      /\ fseconds \in Int /\ -2147483648 <= fseconds /\ fseconds < 2147483648
  <2>1. CASE v.secs < 0 BY <1>2, <1>3, <2>1, SMT
  <2>2. CASE ~(v.secs < 0) BY <1>2, <1>3, <2>2, SMT
  <2> QED BY <2>1, <2>2
<1>5. hours + 60 \in Byte /\ minutes + 60 \in Byte /\ seconds + 60 \in Byte
  <2>1. CASE v.secs < 0 BY <1>3, <2>1, SMT DEF Byte
  <2>2. CASE ~(v.secs < 0) BY <1>3, <2>2, SMT DEF Byte
  <2> QED BY <2>1, <2>2
<1> HIDE DEF days, hours, minutes, seconds, fseconds
<1>6. D \in Seq(Byte) /\ Len(D) = 4 /\ F \in Seq(Byte) /\ Len(F) = 4
  BY <1>4, BiasedBytes, SMT
<1>7. M \in Seq(Byte) /\ Len(M) = 3 BY <1>5, SMT
<1> HIDE DEF D, M, F
<1>8. D \o M \in Seq(Byte) /\ Len(D \o M) = 7
  <2>1. D \o M \in Seq(Byte) /\ Len(D \o M) = Len(D) + Len(M)
    BY <1>6, <1>7, JoinedBytes, Zenon
  <2> QED BY <1>6, <1>7, <2>1, SMT
<1>9. D \o M \o F \in Seq(Byte) /\ Len(D \o M \o F) = 11
  <2>1. D \o M \o F \in Seq(Byte) /\ Len(D \o M \o F) = Len(D \o M) + Len(F)
    BY <1>6, <1>8, JoinedBytes, Zenon
  <2> QED BY <1>6, <1>8, <2>1, SMT
<1>10. D \o M \o F # <<>>
  <2>1. Len(<<>>) = 0 BY EmptySeq, Zenon
  <2> QED BY <1>9, <2>1, SMT
<1> QED BY <1>1, <1>9, <1>10, Zenon

-----------------------------------------------------------------------------
(* Integers                                                                *)

\* A function from 0..k that takes each value from the one before it.
Steps(f, k, V, b, H) ==
    /\ f \in [0..k -> V] /\ f[0] = b
    /\ \A i \in 1..k : f[i] = H[i][f[i - 1]]

\* There is a sequence of k steps from any start, whatever each step does.
LEMMA Stepwise ==
    ASSUME NEW k \in Nat, NEW V, NEW b \in V, NEW H \in [1..k -> [V -> V]]
    PROVE  \E f : Steps(f, k, V, b, H)
<1> DEFINE D == 0..k
           mu == [i \in D |-> i]
           next == [i \in D |-> IF i = 0 THEN 0 ELSE i - 1]
           B == [i \in D |-> b]
           G == [i \in D |-> IF i = 0 THEN [v \in V |-> v] ELSE H[i]]
           N == k + 1
<1>1. /\ mu \in [D -> Nat] /\ next \in [D -> D] /\ B \in [D -> V]
      /\ G \in [D -> [V -> V]]
  <2>1. \A i \in D : i \in Nat /\ (IF i = 0 THEN 0 ELSE i - 1) \in D BY SMT
  <2>2. \A i \in D : i # 0 => i \in 1..k BY SMT
  <2>3. G \in [D -> [V -> V]] BY <2>2
  <2> QED BY <2>1, <2>3
<1>2. N \in Nat /\ \A i \in D : mu[i] < N BY SMT
<1>3. \A i \in D : /\ mu[i] = i /\ next[i] = (IF i = 0 THEN 0 ELSE i - 1) /\ B[i] = b
                   /\ i # 0 => G[i] = H[i]
  OBVIOUS
<1> HIDE DEF D, mu, next, B, G, N
<1>4. PICK f : Solves(f, D, V, mu, next, B, G)
  <2>1. \E f : Solves(f, D, V, mu, next, B, G) BY <1>1, <1>2, Recursion
  <2> QED BY <2>1
<1>5. /\ f \in [D -> V]
      /\ \A i \in D : f[i] = IF mu[next[i]] < mu[i] THEN G[i][f[next[i]]] ELSE B[i]
  BY <1>4 DEF Solves
<1>6. f[0] = b
  <2>1. 0 \in D BY SMT DEF D
  <2>2. next[0] = 0 BY <1>3, <2>1
  <2>3. ~(mu[next[0]] < mu[0]) BY <1>3, <2>1, <2>2, SMT
  <2> QED BY <1>3, <1>5, <2>1, <2>3
<1>7. ASSUME NEW i \in 1..k
      PROVE  f[i] = H[i][f[i - 1]]
  <2>1. i \in D /\ i - 1 \in D /\ i # 0 /\ i - 1 < i BY SMT DEF D
  <2>2. next[i] = i - 1 /\ mu[i - 1] = i - 1 /\ mu[i] = i /\ G[i] = H[i] BY <1>3, <2>1
  <2> QED BY <1>5, <2>1, <2>2
<1> QED BY <1>5, <1>6, <1>7 DEF Steps, D

\* Where every step stays in V, every value is in V.
LEMMA StaysIn ==
    ASSUME NEW k \in Nat, NEW V, NEW q, q[0] \in V,
           \A i \in 1..k : q[i - 1] \in V => q[i] \in V
    PROVE  \A i \in 0..k : q[i] \in V
<1> DEFINE W == {b \in Nat : b <= k => q[b] \in V}
<1>1. W \in SUBSET Nat OBVIOUS
<1>2. ASSUME NEW b \in Nat, \A c \in Nat : c < b => c \in W
      PROVE  b \in W
  <2>1. CASE b = 0 BY <2>1
  <2>2. CASE b # 0
    <3>1. b - 1 \in Nat /\ b - 1 < b BY <2>2, SMT
    <3>2. b - 1 \in W BY <1>2, <3>1
    <3>3. CASE b <= k
      <4>1. q[b - 1] \in V /\ b \in 1..k BY <2>2, <3>2, <3>3, SMT
      <4> QED BY <4>1
    <3> QED BY <3>3
  <2> QED BY <2>1, <2>2
<1> HIDE DEF W
<1>3. \A b \in Nat : b \in W BY <1>1, <1>2, Complete
<1> QED BY <1>3, SMT DEF W

\* What n is after each of k shifts by a byte.
IsShifted(q, n, k) ==
    q \in [0..k -> Nat] /\ q[0] = n /\ \A i \in 1..k : q[i] = q[i - 1] \div 256

\* Shifted is the function its recursive definition describes.
LEMMA ShiftedIs ==
    ASSUME NEW n \in Nat, NEW k \in Nat
    PROVE  IsShifted(Shifted(n, k), n, k)
<1> DEFINE H == [i \in 1..k |-> [v \in Nat |-> v \div 256]]
           Is(q) == q = [i \in 0..k |-> IF i = 0 THEN n ELSE q[i - 1] \div 256]
           q == Shifted(n, k)
<1>1. \A v \in Nat : v \div 256 \in Nat BY SMT
<1>2. H \in [1..k -> [Nat -> Nat]] BY <1>1
<1>3. \A i \in 1..k, v \in Nat : H[i][v] = v \div 256 OBVIOUS
<1> HIDE DEF H
<1>4. PICK f : Steps(f, k, Nat, n, H)
  <2>1. \E f : Steps(f, k, Nat, n, H) BY <1>2, Stepwise
  <2> QED BY <2>1
<1>5. f \in [0..k -> Nat] /\ f[0] = n /\ \A i \in 1..k : f[i] = H[i][f[i - 1]]
  BY <1>4 DEF Steps
<1>6. \A i \in 0..k : f[i] = IF i = 0 THEN n ELSE f[i - 1] \div 256
  <2> TAKE i \in 0..k
  <2>1. CASE i # 0
    <3>1. i \in 1..k /\ i - 1 \in 0..k BY <2>1, SMT
    <3>2. f[i - 1] \in Nat BY <1>5, <3>1
    <3>3. H[i][f[i - 1]] = f[i - 1] \div 256 BY <1>3, <3>1, <3>2
    <3>4. f[i] = f[i - 1] \div 256 BY <1>5, <3>1, <3>3
    <3> QED BY <2>1, <3>4, Zenon
  <2> QED BY <1>5, <2>1
<1>7. Is(f)
  <2>1. f = [i \in 0..k |-> f[i]] BY <1>5
  <2> QED BY <1>6, <2>1
<1>8. Is(q)
  <2>1. q = CHOOSE g : Is(g) BY DEF Shifted
  <2> HIDE DEF Is, q
  <2> QED BY <1>7, <2>1
<1> HIDE DEF q
<1>9. q[0] = n /\ \A i \in 1..k : q[i] = q[i - 1] \div 256 BY <1>8, SMT
<1>10. \A i \in 0..k : q[i] \in Nat
  <2>1. \A i \in 1..k : q[i - 1] \in Nat => q[i] \in Nat BY <1>1, <1>9
  <2> QED BY <1>9, <2>1, StaysIn
<1>11. q = [i \in 0..k |-> q[i]]
  <2> DEFINE e(i) == IF i = 0 THEN n ELSE q[i - 1] \div 256
  <2>1. q = [i \in 0..k |-> e(i)] BY <1>8
  <2> HIDE DEF e
  <2> QED BY <2>1
<1>12. IsShifted(q, n, k) BY <1>9, <1>10, <1>11 DEF IsShifted
<1> QED BY <1>12 DEF q

\* What the first bytes of ds stand for, put together from the left.
FromBytes(k, ds) ==
    CHOOSE f : f = [i \in 0..k |-> IF i = 0 THEN 0 ELSE 256 * f[i - 1] + ds[i]]

\* FromBytes is the function its recursive definition describes.
LEMMA Accumulates ==
    ASSUME NEW k \in Nat, NEW ds \in Seq(Byte), Len(ds) = k
    PROVE  LET m == FromBytes(k, ds)
           IN  m \in [0..k -> Int] /\ m[0] = 0 /\ \A i \in 1..k : m[i] = 256 * m[i - 1] + ds[i]
<1> DEFINE H == [i \in 1..k |-> [v \in Int |-> 256 * v + ds[i]]]
           Is(q) == q = [i \in 0..k |-> IF i = 0 THEN 0 ELSE 256 * q[i - 1] + ds[i]]
           m == FromBytes(k, ds)
<1>1. \A i \in 1..k : ds[i] \in Int
  <2>1. \A i \in 1..k : ds[i] \in Byte BY ElementOfSeq
  <2>2. Byte \subseteq Int BY SMT DEF Byte
  <2> QED BY <2>1, <2>2, Zenon
<1>2. \A i \in 1..k, v \in Int : 256 * v + ds[i] \in Int
  <2> TAKE i \in 1..k, v \in Int
  <2> DEFINE d == ds[i]
  <2>1. d \in Int BY <1>1
  <2> HIDE DEF d
  <2>2. 256 * v + d \in Int BY <2>1, SMT
  <2> QED BY <2>2 DEF d
<1>3. H \in [1..k -> [Int -> Int]] BY <1>2
<1>4. \A i \in 1..k, v \in Int : H[i][v] = 256 * v + ds[i] OBVIOUS
<1> HIDE DEF H
<1>5. PICK f : Steps(f, k, Int, 0, H)
  <2>1. 0 \in Int BY SMT
  <2>2. \E f : Steps(f, k, Int, 0, H) BY <1>3, <2>1, Stepwise
  <2> QED BY <2>2
<1>6. f \in [0..k -> Int] /\ f[0] = 0 /\ \A i \in 1..k : f[i] = H[i][f[i - 1]]
  BY <1>5 DEF Steps
<1>7. \A i \in 0..k : f[i] = IF i = 0 THEN 0 ELSE 256 * f[i - 1] + ds[i]
  <2> TAKE i \in 0..k
  <2>1. CASE i # 0
    <3>1. i \in 1..k /\ i - 1 \in 0..k BY <2>1, SMT
    <3>2. f[i - 1] \in Int BY <1>6, <3>1
    <3>3. H[i][f[i - 1]] = 256 * f[i - 1] + ds[i] BY <1>4, <3>1, <3>2
    <3>4. f[i] = 256 * f[i - 1] + ds[i] BY <1>6, <3>1, <3>3, Zenon
    <3> QED BY <2>1, <3>4, Zenon
  <2> QED BY <1>6, <2>1
<1>8. Is(f)
  <2>1. f = [i \in 0..k |-> f[i]] BY <1>6
  <2> QED BY <1>7, <2>1
<1>9. Is(m)
  <2>1. m = CHOOSE g : Is(g) BY DEF FromBytes
  <2> HIDE DEF Is, m
  <2> QED BY <1>8, <2>1
<1> HIDE DEF m
<1>10. m[0] = 0 /\ \A i \in 1..k : m[i] = 256 * m[i - 1] + ds[i] BY <1>9, SMT
<1>11. \A i \in 0..k : m[i] \in Int
  <2>1. \A i \in 1..k : m[i - 1] \in Int => m[i] \in Int BY <1>2, <1>10
  <2>2. m[0] \in Int BY <1>10, SMT
  <2> QED BY <2>1, <2>2, StaysIn
<1>12. m = [i \in 0..k |-> m[i]]
  <2> DEFINE e(i) == IF i = 0 THEN 0 ELSE 256 * m[i - 1] + ds[i]
  <2>1. m = [i \in 0..k |-> e(i)] BY <1>9
  <2> HIDE DEF e
  <2> QED BY <2>1
<1> QED BY <1>10, <1>11, <1>12 DEF m

\* What enc_varint writes: a byte that holds the sign and how many follow, and those,
\* which any reader that puts them together from the left makes the integer of.
LEMMA VarintShape ==
    ASSUME NEW n \in Int, NEW width \in 1..8, Varint(n, width) # NoBytes
    PROVE  \E k \in 0..width, ds \in Seq(Byte) :
             /\ Len(ds) = k
             /\ Varint(n, width) = <<k + (IF n < 0 THEN 128 ELSE 0)>> \o ds
             /\ \A f \in [0..k -> Int] :
                  f[0] = 0 /\ (\A i \in 1..k : f[i] = 256 * f[i - 1] + ds[i])
                    => f[k] = (IF n < 0 THEN -n ELSE n)
<1> DEFINE m == IF n < 0 THEN -n ELSE n
           q == Shifted(m, width)
           S == {i \in 1..width : q[i] = 0}
           k == Min(S)
           ds == [i \in 1..k |-> q[k - i] % 256]
           Shape(j, bs) ==
             /\ Len(bs) = j
             /\ Varint(n, width) = <<j + (IF n < 0 THEN 128 ELSE 0)>> \o bs
             /\ \A f \in [0..j -> Int] :
                  f[0] = 0 /\ (\A i \in 1..j : f[i] = 256 * f[i - 1] + bs[i])
                    => f[j] = (IF n < 0 THEN -n ELSE n)
<1> SUFFICES \E j \in 0..width, bs \in Seq(Byte) : Shape(j, bs)
  OBVIOUS
<1>1. m \in Nat BY SMT
<1>2. width \in Nat /\ width \in 1..width BY SMT
<1>3. CASE m = 0
  <2>1. Varint(n, width) = <<0>> BY <1>3 DEF Varint
  <2>2. n = 0 BY <1>3, SMT
  <2>3. <<0>> \in Seq(Byte) BY SMT DEF Byte
  <2>4. <<0>> = <<0>> \o <<>> BY <2>3, ConcatEmptySeq, Zenon
  <2>5. 0 + (IF n < 0 THEN 128 ELSE 0) = 0 BY <2>2, SMT
  <2>6. 0 \in 0..width /\ <<>> \in Seq(Byte) /\ Len(<<>>) = 0 BY EmptySeq, SMT
  <2>7. Varint(n, width) = <<0 + (IF n < 0 THEN 128 ELSE 0)>> \o <<>>
    BY <2>1, <2>4, <2>5, Zenon
  <2>8. \A f \in [0..0 -> Int] : f[0] = 0 => f[0] = m BY <1>3
  <2>9. Shape(0, <<>>) BY <2>6, <2>7, <2>8
  <2> HIDE DEF Shape
  <2> QED BY <2>6, <2>9
<1>4. CASE m # 0
  <2>1. q \in [0..width -> Nat] /\ q[0] = m /\ \A i \in 1..width : q[i] = q[i - 1] \div 256
    <3> HIDE DEF m
    <3>1. IsShifted(q, m, width) BY <1>1, <1>2, ShiftedIs
    <3> HIDE DEF q
    <3> QED BY <3>1 DEF IsShifted
  <2>2. /\ Varint(n, width) = <<k + (IF n < 0 THEN 128 ELSE 0)>> \o ds
        /\ q[width] = 0
    BY <1>4 DEF Varint
  <2>3. k \in S
    <3>1. S \in SUBSET Nat /\ S # {}
      <4> HIDE DEF m, q
      <4>1. \A i \in 1..width : i \in Nat BY <1>2, SMT
      <4>2. q[width] = 0 BY <2>2
      <4>3. width \in S BY <1>2, <4>2, Zenon
      <4> QED BY <4>1, <4>3, Zenon
    <3> HIDE DEF S
    <3>2. \E i \in S : \A j \in S : i <= j BY <3>1, Least, Zenon
    <3> QED BY <3>2, Zenon DEF Min
  <2> HIDE DEF m, q, k
  <2>4. k \in 1..width /\ q[k] = 0 BY <2>3
  <2>5. k \in Nat /\ k \in 0..width BY <2>4, SMT
  <2>6. \A i \in 1..k : k - i \in 0..width BY <2>5, SMT
  <2>7. \A i \in 1..k : q[k - i] % 256 \in Byte
    <3>1. \A x \in Nat : x % 256 \in Byte BY SMT DEF Byte
    <3> QED BY <2>1, <2>6, <3>1
  <2>8. ds \in Seq(Byte) /\ Len(ds) = k
    <3>1. ds \in Seq(Byte) BY <2>5, <2>7, IsASeq
    <3> QED BY <2>5, <3>1, SMT
  <2>9. \A i \in 1..k : ds[i] = q[k - i] % 256 OBVIOUS
  <2> HIDE DEF ds
  <2>10. ASSUME NEW f \in [0..k -> Int],
                f[0] = 0, \A i \in 1..k : f[i] = 256 * f[i - 1] + ds[i]
         PROVE  f[k] = m
    <3> DEFINE W == {b \in Nat : b <= k => f[b] = q[k - b]}
    <3>1. W \in SUBSET Nat OBVIOUS
    <3>2. ASSUME NEW b \in Nat, \A c \in Nat : c < b => c \in W
          PROVE  b \in W
      <4>1. CASE b = 0
        <5>1. k - 0 = k BY <2>5, SMT
        <5> QED BY <2>4, <2>10, <4>1, <5>1
      <4>2. CASE b # 0
        <5> SUFFICES ASSUME b <= k
                     PROVE  f[b] = q[k - b]
          OBVIOUS
        <5>1. b - 1 \in Nat /\ b - 1 < b /\ b - 1 <= k /\ b \in 1..k
          BY <2>5, <4>2, SMT
        <5>2. f[b - 1] = q[k - (b - 1)]
          <6>1. b - 1 \in W BY <3>2, <5>1
          <6> QED BY <5>1, <6>1
        <5>3. k - (b - 1) = (k - b) + 1 /\ (k - b) + 1 \in 1..width
              /\ (k - b) + 1 - 1 = k - b /\ k - b \in 0..width
          BY <2>4, <5>1, SMT
        <5> DEFINE x == q[k - b]
        <5>4. x \in Nat BY <2>1, <5>3
        <5>5. f[b - 1] = x \div 256
          <6>1. q[(k - b) + 1] = q[(k - b) + 1 - 1] \div 256 BY <2>1, <5>3
          <6> QED BY <5>2, <5>3, <6>1
        <5>6. f[b] = 256 * f[b - 1] + ds[b] /\ ds[b] = x % 256 BY <2>9, <2>10, <5>1
        <5> HIDE DEF x
        <5>7. f[b] = 256 * (x \div 256) + (x % 256) BY <5>5, <5>6
        <5>8. f[b] = x BY <5>4, <5>7, SMT
        <5> QED BY <5>8 DEF x
      <4> QED BY <4>1, <4>2
    <3> HIDE DEF W
    <3>3. k \in W BY <2>5, <3>1, <3>2, Complete
    <3>4. f[k] = q[k - k] BY <2>5, <3>3, SMT DEF W
    <3>5. k - k = 0 BY <2>5, SMT
    <3> QED BY <2>1, <3>4, <3>5
  <2>11. Shape(k, ds) BY <2>2, <2>8, <2>10 DEF m
  <2> HIDE DEF Shape
  <2> QED BY <2>5, <2>8, <2>11
<1> QED BY <1>3, <1>4

-----------------------------------------------------------------------------
(* Reading what was written: bytes and integers                            *)

\* The reader has the message or the first part of it.
Ready == wire \in Seq(Byte) /\ limit \in 0..Len(wire)

\* After `at' bytes of the message come these.
Placed(bs, at) ==
    at + Len(bs) <= Len(wire) /\ \A j \in 1..Len(bs) : wire[at + j] = bs[j]

\* Unless the bytes are not there, the value is read and no byte is left or missing.
Reads(read, v, bs, at) ==
    read # Underrun => read = [value |-> v, next |-> at + Len(bs)] /\ at + Len(bs) <= limit

\* What was read is no underrun, and has the value and the place it was given.
LEMMA NotUnderrun ==
    ASSUME NEW v, NEW n
    PROVE  /\ [value |-> v, next |-> n] # Underrun
           /\ [value |-> v, next |-> n].value = v /\ [value |-> v, next |-> n].next = n
<1>1. DOMAIN [value |-> v, next |-> n] = {"value", "next"} BY SMT
<1>2. DOMAIN Underrun = {"underrun"} BY SMT DEF Underrun
<1>3. [value |-> v, next |-> n] # Underrun BY <1>1, <1>2, SMT
<1> QED BY <1>3, SMT

\* The parts of what is there are there.
LEMMA PlacedParts ==
    ASSUME NEW a \in Seq(Byte), NEW b \in Seq(Byte), NEW at \in Nat, Placed(a \o b, at),
           wire \in Seq(Byte)
    PROVE  Placed(a, at) /\ Placed(b, at + Len(a)) /\ at + Len(a) \in Nat
<1> DEFINE w == a \o b
           m == Len(a)
           n == Len(b)
<1>1. /\ Len(w) = m + n /\ m \in Nat /\ n \in Nat
      /\ \A i \in 1..m : w[i] = a[i]
      /\ \A i \in 1..n : w[m + i] = b[i]
  BY JoinedBytes, Zenon
<1>2. at + Len(w) <= Len(wire) /\ \A j \in 1..Len(w) : wire[at + j] = w[j] BY DEF Placed
<1>3. Len(wire) \in Nat BY LenProperties, Zenon
<1> HIDE DEF w, m, n
<1>4. at + m <= Len(wire) /\ at + m + n <= Len(wire) /\ at + m \in Nat
  BY <1>1, <1>2, <1>3, SMT
<1>5. \A j \in 1..m : wire[at + j] = a[j]
  <2> TAKE j \in 1..m
  <2>1. j \in 1..Len(w) BY <1>1, SMT
  <2> QED BY <1>1, <1>2, <2>1
<1>6. \A j \in 1..n : wire[(at + m) + j] = b[j]
  <2> TAKE j \in 1..n
  <2>1. m + j \in 1..Len(w) /\ at + (m + j) = (at + m) + j BY <1>1, SMT
  <2>2. wire[at + (m + j)] = w[m + j] BY <1>2, <2>1
  <2> QED BY <1>1, <2>1, <2>2
<1> QED BY <1>4, <1>5, <1>6 DEF Placed, m, n

\* raw(n) reads the n bytes that come next.
LEMMA RawReads ==
    ASSUME Ready, NEW bs \in Seq(Byte), NEW at \in Nat, Placed(bs, at)
    PROVE  Reads(Raw(Len(bs), at), bs, bs, at)
<1> DEFINE n == Len(bs)
           s == SubSeq(wire, at + 1, at + n)
<1>1. /\ n \in Nat /\ Len(wire) \in Nat /\ limit \in Int
      /\ at + n <= Len(wire) /\ \A j \in 1..n : wire[at + j] = bs[j]
  <2>1. Len(wire) \in Nat /\ limit \in 0..Len(wire) BY LenProperties DEF Ready
  <2>2. limit \in Int BY <2>1, SMT
  <2> QED BY <2>1, <2>2, LenProperties DEF Placed
<1> HIDE DEF n
<1>2. s = bs
  <2>1. \A i \in (at + 1)..(at + n) : wire[i] \in Byte
    <3> TAKE i \in (at + 1)..(at + n)
    <3>1. i \in 1..Len(wire) BY <1>1, SMT
    <3> QED BY <3>1, ElementOfSeq DEF Ready
  <2>2. /\ s \in Seq(Byte)
        /\ Len(s) = IF at + 1 <= at + n THEN (at + n) - (at + 1) + 1 ELSE 0
        /\ \A i \in 1..((at + n) - (at + 1) + 1) : s[i] = wire[(at + 1) + i - 1]
    <3>1. at + 1 \in Int /\ at + n \in Int BY <1>1, SMT
    <3> DEFINE l == at + 1
               h == at + n
    <3> HIDE DEF l, h
    <3>2. l \in Int /\ h \in Int /\ \A i \in l..h : wire[i] \in Byte BY <2>1, <3>1 DEF l, h
    <3>3. /\ SubSeq(wire, l, h) \in Seq(Byte)
          /\ Len(SubSeq(wire, l, h)) = IF l <= h THEN h - l + 1 ELSE 0
          /\ \A i \in 1..(h - l + 1) : SubSeq(wire, l, h)[i] = wire[l + i - 1]
      BY <3>2, SubSeqProperties
    <3> QED BY <3>3 DEF l, h
  <2> HIDE DEF s
  <2>3. Len(s) = n BY <1>1, <2>2, SMT
  <2>4. \A i \in 1..n : s[i] = bs[i]
    <3> TAKE i \in 1..n
    <3>1. i \in 1..((at + n) - (at + 1) + 1) /\ (at + 1) + i - 1 = at + i BY <1>1, SMT
    <3> QED BY <1>1, <2>2, <3>1
  <2> QED BY <2>2, <2>3, <2>4, SeqEqual DEF n
<1>3. Raw(n, at) # Underrun => Raw(n, at) = [value |-> s, next |-> at + n] /\ ~(limit - at < n)
  BY DEF Raw
<1>4. ~(limit - at < n) => at + n <= limit BY <1>1, SMT
<1> QED BY <1>2, <1>3, <1>4 DEF Reads, n

\* The byte in front, and what follows it.
LEMMA FirstByte ==
    ASSUME Ready, NEW b \in Byte, NEW ds \in Seq(Byte), NEW at \in Nat, Placed(<<b>> \o ds, at)
    PROVE  /\ Raw(1, at) # Underrun => Raw(1, at).value[1] = b
           /\ Placed(ds, at + 1) /\ at + 1 \in Nat
           /\ at + Len(<<b>> \o ds) = at + 1 + Len(ds)
           /\ Raw(1, at) # Underrun => at + 1 <= limit
<1> DEFINE o == <<b>>
<1>1. o \in Seq(Byte) /\ Len(o) = 1 /\ o[1] = b BY SMT
<1>2. Placed(o \o ds, at) /\ wire \in Seq(Byte) BY DEF Ready
<1>3. Len(o \o ds) = Len(o) + Len(ds) /\ Len(ds) \in Nat BY <1>1, JoinedBytes
<1> HIDE DEF o
<1>4. Placed(o, at) /\ Placed(ds, at + Len(o)) /\ at + Len(o) \in Nat
  BY <1>1, <1>2, PlacedParts, Zenon
<1>5. Reads(Raw(Len(o), at), o, o, at) BY <1>1, <1>4, RawReads
<1>6. Raw(1, at) # Underrun => Raw(1, at) = [value |-> o, next |-> at + 1] /\ at + 1 <= limit
  BY <1>1, <1>5 DEF Reads
<1>7. at + Len(o \o ds) = at + 1 + Len(ds) BY <1>1, <1>3, SMT
<1> QED BY <1>1, <1>4, <1>6, <1>7, NotUnderrun DEF o

\* enc_varint and TTCReader.varint: the integer is read, and skip_ub skips its bytes.
LEMMA VarintReads ==
    ASSUME Ready, NEW n \in Int, NEW width \in 1..8, Varint(n, width) # NoBytes,
           NEW at \in Nat, Placed(Varint(n, width), at)
    PROVE  /\ Reads(ReadVarint(width, at), n, Varint(n, width), at)
           /\ SkipVarint(at) # Underrun =>
                /\ SkipVarint(at).next = at + Len(Varint(n, width))
                /\ at + Len(Varint(n, width)) <= limit
<1> DEFINE w == Varint(n, width)
           first == Raw(1, at)
           c == first.value[1] % 128
           bytes == Raw(c, at + 1)
           m == FromBytes(c, bytes.value)
<1>1. PICK k \in 0..width, ds \in Seq(Byte) :
        /\ Len(ds) = k
        /\ w = <<k + (IF n < 0 THEN 128 ELSE 0)>> \o ds
        /\ \A f \in [0..k -> Int] :
             f[0] = 0 /\ (\A i \in 1..k : f[i] = 256 * f[i - 1] + ds[i])
               => f[k] = (IF n < 0 THEN -n ELSE n)
  BY VarintShape
<1> DEFINE b == k + (IF n < 0 THEN 128 ELSE 0)
<1>2. b \in Byte /\ b % 128 = k /\ (b < 128 <=> ~(n < 0)) BY SMT DEF Byte
<1>3. k \in Nat /\ ~(k > width) BY SMT
<1>4. ReadVarint(width, at) =
        IF first = Underrun THEN Underrun
        ELSE IF c > width \/ bytes = Underrun THEN Underrun
        ELSE [value |-> IF first.value[1] < 128 THEN m[c] ELSE -m[c], next |-> at + 1 + c]
  BY DEF ReadVarint, FromBytes
<1>5. SkipVarint(at) = IF first = Underrun THEN Underrun ELSE bytes
  BY DEF SkipVarint
<1> HIDE DEF w, first, b
<1>6. w = <<b>> \o ds BY <1>1 DEF b
<1>7. /\ first # Underrun => first.value[1] = b
      /\ Placed(ds, at + 1) /\ at + 1 \in Nat
      /\ at + Len(w) = at + 1 + Len(ds)
  <2>1. Placed(<<b>> \o ds, at) BY <1>6 DEF w
  <2>2. /\ Raw(1, at) # Underrun => Raw(1, at).value[1] = b
        /\ Placed(ds, at + 1) /\ at + 1 \in Nat
        /\ at + Len(<<b>> \o ds) = at + 1 + Len(ds)
    BY <1>2, <2>1, FirstByte
  <2> QED BY <1>6, <2>2 DEF first
<1>8. Reads(Raw(k, at + 1), ds, ds, at + 1) BY <1>1, <1>7, RawReads
<1>9. CASE first = Underrun BY <1>4, <1>5, <1>9 DEF Reads
<1>10. CASE first # Underrun /\ Raw(k, at + 1) = Underrun
  <2>1. c = k BY <1>2, <1>7, <1>10
  <2> HIDE DEF c
  <2>2. bytes = Underrun BY <1>10, <2>1
  <2> QED BY <1>4, <1>5, <1>10, <2>2 DEF Reads
<1>11. CASE first # Underrun /\ Raw(k, at + 1) # Underrun
  <2>1. c = k /\ first.value[1] = b BY <1>2, <1>7, <1>11
  <2>2. /\ Raw(k, at + 1) = [value |-> ds, next |-> at + 1 + Len(ds)]
        /\ at + 1 + Len(ds) <= limit
    BY <1>8, <1>11 DEF Reads
  <2> HIDE DEF c
  <2>3. bytes = Raw(k, at + 1) BY <2>1
  <2> HIDE DEF bytes
  <2>4. bytes.value = ds /\ bytes.next = at + 1 + Len(ds) /\ bytes # Underrun
    BY <1>11, <2>2, <2>3, NotUnderrun
  <2>5. m = FromBytes(k, ds) BY <2>1, <2>4
  <2> HIDE DEF m
  <2>6. m \in [0..k -> Int] /\ m[0] = 0 /\ \A i \in 1..k : m[i] = 256 * m[i - 1] + ds[i]
    <3>1. Len(ds) = k /\ k \in Nat BY <1>1, <1>3
    <3> DEFINE f == FromBytes(k, ds)
    <3>2. f \in [0..k -> Int] /\ f[0] = 0 /\ \A i \in 1..k : f[i] = 256 * f[i - 1] + ds[i]
      BY <3>1, Accumulates, Zenon
    <3> HIDE DEF f
    <3>3. m = f BY <2>5 DEF f
    <3> QED BY <3>2, <3>3, Zenon
  <2>7. m[k] = IF n < 0 THEN -n ELSE n BY <1>1, <2>6
  <2>8. (IF b < 128 THEN m[k] ELSE -m[k]) = n
    <3> DEFINE x == m[k]
    <3> HIDE DEF x
    <3>1. x = IF n < 0 THEN -n ELSE n BY <2>7 DEF x
    <3>2. (IF b < 128 THEN x ELSE -x) = n BY <1>2, <3>1, SMT
    <3> QED BY <3>2 DEF x
  <2>9. ReadVarint(width, at) = [value |-> IF b < 128 THEN m[k] ELSE -m[k], next |-> at + 1 + k]
    BY <1>3, <1>4, <1>11, <2>1, <2>4
  <2>10. ReadVarint(width, at) = [value |-> n, next |-> at + Len(w)] /\ at + Len(w) <= limit
    BY <1>1, <1>7, <2>2, <2>8, <2>9
  <2>11. SkipVarint(at).next = at + Len(w) BY <1>5, <1>7, <1>11, <2>4
  <2> QED BY <2>10, <2>11 DEF Reads, w
<1> QED BY <1>9, <1>10, <1>11

-----------------------------------------------------------------------------
(* Chunks                                                                  *)

\* The length of the chunk that starts where r bytes are left.
Size(r) == Min({ChunkSize, r})

\* The size of the next chunk is positive and no larger than what is left.
LEMMA SizeIs ==
    ASSUME NEW r \in Nat
    PROVE  /\ Size(r) \in Nat /\ Size(r) <= r /\ Size(r) < 4294967296
           /\ r > 0 => Size(r) > 0
<1> DEFINE S == {ChunkSize, r}
<1>1. ChunkSize \in Nat /\ ChunkSize > 0 /\ ChunkSize < 4294967296 BY MessageAssumption, SMT
<1>2. Size(r) \in S /\ \A j \in S : Size(r) <= j
  <2>1. S \in SUBSET Nat /\ S # {} BY <1>1, SMT
  <2> HIDE DEF S
  <2>2. \E i \in S : \A j \in S : i <= j BY <2>1, Least, SMT
  <2> QED BY <2>2, SMT DEF Min, Size, S
<1> QED BY <1>1, <1>2, SMT

\* The chunk, with its length.
Piece(bs, r) == U32(Size(r)) \o SubSeq(bs, Len(bs) - r + 1, Len(bs) - r + Size(r))

\* The bytes of the chunk are those of the string.
LEMMA PieceIs ==
    ASSUME NEW bs \in Seq(Byte), NEW r \in 0..Len(bs)
    PROVE  LET s == SubSeq(bs, Len(bs) - r + 1, Len(bs) - r + Size(r))
           IN  /\ s \in Seq(Byte) /\ Len(s) = Size(r)
               /\ U32(Size(r)) \in Seq(Byte) /\ Len(U32(Size(r))) = 4
               /\ FromU32(U32(Size(r)), 1) = Size(r)
               /\ Piece(bs, r) \in Seq(Byte)
<1> DEFINE L == Len(bs)
           n == Size(r)
           l == L - r + 1
           h == L - r + n
           s == SubSeq(bs, l, h)
           u == U32(n)
<1>1. L \in Nat /\ r \in Nat /\ r <= L
  <2>1. L \in Nat BY LenProperties
  <2> HIDE DEF L
  <2>2. r \in 0..L BY DEF L
  <2> QED BY <2>1, <2>2, SMT
<1>2. n \in Nat /\ n <= r /\ n < 4294967296 BY <1>1, SizeIs, SMT
<1>3. u \in Seq(Byte) /\ Len(u) = 4 /\ FromU32(u, 1) = n
  <2> HIDE DEF n
  <2> QED BY <1>2, U32Bytes, SMT
<1>4. n \in Nat /\ n <= r BY <1>2, SMT
<1> HIDE DEF n, L
<1>5. l \in Int /\ h \in Int /\ l..h \subseteq 1..L BY <1>1, <1>4, SMT
<1>6. (IF l <= h THEN h - l + 1 ELSE 0) = n BY <1>1, <1>4, SMT
<1> HIDE DEF l, h
<1>7. \A i \in l..h : bs[i] \in Byte BY <1>5, ElementOfSeq DEF L
<1>8. s \in Seq(Byte) /\ Len(s) = n BY <1>5, <1>6, <1>7, SubSeqProperties
<1> HIDE DEF s, u
<1>9. u \o s \in Seq(Byte) BY <1>3, <1>8, JoinedBytes, Zenon
<1> QED BY <1>3, <1>8, <1>9 DEF Piece, u, s, l, h, n, L

\* What TTCWriter.length_prefixed writes of a long string: its chunks and an empty one.
LEMMA ChunksAre ==
    ASSUME NEW bs \in Seq(Byte)
    PROVE  /\ Chunks(bs) \in [0..Len(bs) -> Seq(Byte)]
           /\ Chunks(bs)[0] = U32(0)
           /\ \A r \in 1..Len(bs) : Chunks(bs)[r] = Piece(bs, r) \o Chunks(bs)[r - Size(r)]
<1> DEFINE L == Len(bs)
           D == 0..L
           V == Seq(Byte)
           mu == [r \in D |-> r]
           next == [r \in D |-> r - Size(r)]
           B == [r \in D |-> U32(0)]
           H == [r \in D |-> [v \in V |-> Piece(bs, r) \o v]]
           N == L + 1
           Is(c) == c = [r \in 0..L |-> IF r = 0 THEN U32(0) ELSE Piece(bs, r) \o c[r - Size(r)]]
           c == Chunks(bs)
<1>1. L \in Nat BY LenProperties
<1>2. U32(0) \in V
  <2>1. 0 \in Nat /\ 0 < 4294967296 BY SMT
  <2> QED BY <2>1, U32Bytes, SMT
<1>3. \A r \in D : Piece(bs, r) \in V BY PieceIs, Zenon
<1>4. \A r \in D, v \in V : Piece(bs, r) \o v \in V BY <1>3, JoinedBytes, Zenon
<1> HIDE DEF L, V
<1>5. \A r \in D : /\ r \in Nat /\ Size(r) \in Nat /\ Size(r) <= r
                   /\ r > 0 => Size(r) > 0
  <2>1. \A r \in D : r \in Nat BY <1>1, SMT
  <2> QED BY <2>1, SizeIs, SMT
<1>6. \A r \in D : r - Size(r) \in D BY <1>1, <1>5, SMT
<1>7. /\ mu \in [D -> Nat] /\ next \in [D -> D] /\ B \in [D -> V]
      /\ H \in [D -> [V -> V]]
  BY <1>2, <1>4, <1>5, <1>6
<1>8. N \in Nat /\ \A r \in D : mu[r] < N BY <1>1, SMT
<1>9. \A r \in D : /\ mu[r] = r /\ next[r] = r - Size(r) /\ B[r] = U32(0)
                   /\ \A v \in V : H[r][v] = Piece(bs, r) \o v
  OBVIOUS
<1> HIDE DEF D, mu, next, B, H, N
<1>10. PICK f : Solves(f, D, V, mu, next, B, H)
  <2>1. \E f : Solves(f, D, V, mu, next, B, H) BY <1>7, <1>8, Recursion
  <2> QED BY <2>1
<1>11. /\ f \in [D -> V]
       /\ \A r \in D : f[r] = IF mu[next[r]] < mu[r] THEN H[r][f[next[r]]] ELSE B[r]
  BY <1>10 DEF Solves
<1>12. \A r \in D : f[r] = IF r = 0 THEN U32(0) ELSE Piece(bs, r) \o f[r - Size(r)]
  <2> TAKE r \in D
  <2>1. r - Size(r) \in D /\ next[r] = r - Size(r) /\ mu[r] = r /\ mu[r - Size(r)] = r - Size(r)
    BY <1>6, <1>9
  <2>2. CASE r = 0
    <3>1. ~(r - Size(r) < r) BY <1>5, <2>2, SMT
    <3>2. f[r] = B[r] BY <1>11, <2>1, <3>1
    <3> QED BY <1>9, <2>2, <3>2
  <2>3. CASE r # 0
    <3>1. r - Size(r) < r BY <1>5, <2>3, SMT
    <3>2. f[r] = H[r][f[r - Size(r)]] BY <1>11, <2>1, <3>1
    <3>3. f[r - Size(r)] \in V BY <1>11, <2>1
    <3>4. H[r][f[r - Size(r)]] = Piece(bs, r) \o f[r - Size(r)] BY <1>9, <3>3
    <3> QED BY <2>3, <3>2, <3>4
  <2> QED BY <2>2, <2>3
<1>13. Is(f)
  <2> DEFINE e(r) == IF r = 0 THEN U32(0) ELSE Piece(bs, r) \o f[r - Size(r)]
  <2>1. f = [r \in D |-> f[r]] BY <1>11
  <2>2. \A r \in D : f[r] = e(r) BY <1>12
  <2> HIDE DEF e
  <2>3. f = [r \in D |-> e(r)] BY <2>1, <2>2
  <2> QED BY <2>3 DEF D, e
<1>14. Is(c)
  <2>1. c = CHOOSE g : Is(g) BY DEF Chunks, Piece, Size, L
  <2> HIDE DEF Is, c
  <2> QED BY <1>13, <2>1
<1> HIDE DEF c
<1>15. c = [r \in D |-> c[r]]
  <2> DEFINE e(r) == IF r = 0 THEN U32(0) ELSE Piece(bs, r) \o c[r - Size(r)]
  <2>1. c = [r \in D |-> e(r)] BY <1>14 DEF D
  <2> HIDE DEF e
  <2> QED BY <2>1
<1>16. \A r \in D : c[r] = IF r = 0 THEN U32(0) ELSE Piece(bs, r) \o c[r - Size(r)]
  <2> DEFINE e(r) == IF r = 0 THEN U32(0) ELSE Piece(bs, r) \o c[r - Size(r)]
  <2>1. c = [r \in D |-> e(r)] BY <1>14 DEF D
  <2> HIDE DEF e
  <2>2. \A r \in D : c[r] = e(r) BY <2>1
  <2> QED BY <2>2 DEF e
<1>17. \A r \in D : c[r] \in V
  <2> DEFINE W == {b \in Nat : b \in D => c[b] \in V}
  <2>1. W \in SUBSET Nat OBVIOUS
  <2>2. ASSUME NEW b \in Nat, \A x \in Nat : x < b => x \in W
        PROVE  b \in W
    <3> SUFFICES ASSUME b \in D
                 PROVE  c[b] \in V
      OBVIOUS
    <3>1. CASE b = 0 BY <1>2, <1>16, <3>1
    <3>2. CASE b # 0
      <4>1. b - Size(b) \in D /\ b - Size(b) \in Nat /\ b - Size(b) < b
        BY <1>5, <1>6, <3>2, SMT
      <4>2. c[b - Size(b)] \in V BY <2>2, <4>1
      <4>3. c[b] = Piece(bs, b) \o c[b - Size(b)] BY <1>16, <3>2
      <4> QED BY <1>4, <4>2, <4>3 DEF D
    <3> QED BY <3>1, <3>2
  <2> HIDE DEF W
  <2>3. \A b \in Nat : b \in W BY <2>1, <2>2, Complete
  <2> QED BY <1>5, <2>3 DEF W
<1>18. c \in [D -> V] BY <1>15, <1>17
<1>19. 0 \in D /\ \A r \in 1..L : r \in D /\ r # 0 BY <1>1, SMT DEF D
<1> QED BY <1>16, <1>18, <1>19 DEF D, V, L, c

\* How many bytes the chunk after `at' bytes of the message claims to have, and those.
ClaimedAt(at) == FromU32(Raw(4, at).value, 1)
ChunkAt(at) == Raw(ClaimedAt(at), at + 4)

\* What a read of n bytes returns when it returns.
LEMMA RawValue ==
    ASSUME Ready, NEW n \in Nat, NEW at \in Nat, Raw(n, at) # Underrun
    PROVE  /\ Raw(n, at) = [value |-> SubSeq(wire, at + 1, at + n), next |-> at + n]
           /\ Raw(n, at).value \in Seq(Byte) /\ Len(Raw(n, at).value) = n
           /\ at + n <= limit
<1> DEFINE bs == SubSeq(wire, at + 1, at + n)
           l == at + 1
           h == at + n
<1>1. Raw(n, at) = [value |-> bs, next |-> at + n] /\ ~(limit - at < n) BY DEF Raw
<1>2. Len(wire) \in Nat /\ limit \in Int /\ limit <= Len(wire)
  <2>1. Len(wire) \in Nat /\ limit \in 0..Len(wire) BY LenProperties DEF Ready
  <2> QED BY <2>1, SMT
<1>3. at + n <= limit BY <1>1, <1>2, SMT
<1>4. l \in Int /\ h \in Int /\ l..h \subseteq 1..Len(wire)
      /\ (IF l <= h THEN h - l + 1 ELSE 0) = n
  BY <1>2, <1>3, SMT
<1> HIDE DEF l, h
<1>5. \A i \in l..h : wire[i] \in Byte BY <1>4, ElementOfSeq DEF Ready
<1>6. SubSeq(wire, l, h) \in Seq(Byte) /\ Len(SubSeq(wire, l, h)) = n
  BY <1>4, <1>5, SubSeqProperties
<1> HIDE DEF bs
<1>7. bs \in Seq(Byte) /\ Len(bs) = n BY <1>6 DEF bs, l, h
<1> QED BY <1>1, <1>3, <1>7, NotUnderrun DEF bs

\* The length in front of a chunk is a natural number.
LEMMA ClaimedType ==
    ASSUME Ready, NEW at \in Nat, Raw(4, at) # Underrun
    PROVE  ClaimedAt(at) \in Nat /\ at + 4 <= limit
<1> DEFINE bs == Raw(4, at).value
<1>1. bs \in Seq(Byte) /\ Len(bs) = 4 /\ at + 4 <= limit
  <2>1. 4 \in Nat BY SMT
  <2> QED BY <2>1, RawValue
<1> HIDE DEF bs
<1>2. bs[1] \in Byte /\ bs[1 + 1] \in Byte /\ bs[1 + 2] \in Byte /\ bs[1 + 3] \in Byte
  <2>1. \A i \in 1..4 : bs[i] \in Byte BY <1>1, ElementOfSeq
  <2> QED BY <2>1, SMT
<1>3. FromU32(bs, 1) \in Nat
  <2> DEFINE a == bs[1]
             b == bs[1 + 1]
             c == bs[1 + 2]
             d == bs[1 + 3]
  <2> HIDE DEF a, b, c, d
  <2>1. a \in Nat /\ b \in Nat /\ c \in Nat /\ d \in Nat BY <1>2, SMT DEF a, b, c, d, Byte
  <2>2. 16777216 * a + 65536 * b + 256 * c + d \in Nat BY <2>1, SMT
  <2> QED BY <2>2, SMT DEF FromU32, a, b, c, d
<1> QED BY <1>1, <1>3 DEF ClaimedAt, bs

\* ReadChunks is defined: each chunk starts after the one before it.
LEMMA ReadChunksIs ==
    ASSUME Ready, NEW at \in Nat
    PROVE  ReadChunks[at] =
             IF Raw(4, at) = Underrun THEN Underrun
             ELSE IF ClaimedAt(at) = 0 THEN [value |-> <<>>, next |-> at + 4]
             ELSE IF ChunkAt(at) = Underrun \/ ReadChunks[at + 4 + ClaimedAt(at)] = Underrun
             THEN Underrun
             ELSE [value |-> ChunkAt(at).value \o ReadChunks[at + 4 + ClaimedAt(at)].value,
                   next |-> ReadChunks[at + 4 + ClaimedAt(at)].next]
<1> DEFINE V == {Underrun} \cup [value : Seq(Byte), next : Nat]
           Ends(a) == Raw(4, a) = Underrun \/ ClaimedAt(a) = 0 \/ ChunkAt(a) = Underrun
           after(a) == a + 4 + ClaimedAt(a)
           mu == [a \in Nat |-> IF a <= limit THEN limit - a ELSE 0]
           next == [a \in Nat |-> IF Ends(a) THEN a ELSE after(a)]
           b(a) == IF Raw(4, a) # Underrun /\ ClaimedAt(a) = 0
                   THEN [value |-> <<>>, next |-> a + 4] ELSE Underrun
           B == [a \in Nat |-> b(a)]
           g(a, v) == IF Ends(a) \/ v = Underrun THEN Underrun
                      ELSE [value |-> ChunkAt(a).value \o v.value, next |-> v.next]
           H == [a \in Nat |-> [v \in V |-> g(a, v)]]
           N == limit + 1
           body(f, a) == IF Raw(4, a) = Underrun THEN Underrun
                         ELSE IF ClaimedAt(a) = 0 THEN [value |-> <<>>, next |-> a + 4]
                         ELSE IF ChunkAt(a) = Underrun \/ f[after(a)] = Underrun THEN Underrun
                         ELSE [value |-> ChunkAt(a).value \o f[after(a)].value,
                               next |-> f[after(a)].next]
           Is(f) == f = [a \in Nat |-> body(f, a)]
<1>1. limit \in Nat
  <2>1. Len(wire) \in Nat /\ limit \in 0..Len(wire) BY LenProperties DEF Ready
  <2> QED BY <2>1, SMT
<1>2. ASSUME NEW a \in Nat, ~Ends(a)
      PROVE  after(a) \in Nat /\ after(a) <= limit /\ a < after(a)
  <2>1. ClaimedAt(a) \in Nat /\ ClaimedAt(a) # 0 BY <1>2, ClaimedType
  <2>2. a + 4 \in Nat BY SMT
  <2>3. (a + 4) + ClaimedAt(a) <= limit BY <1>2, <2>1, <2>2, RawValue DEF ChunkAt
  <2> QED BY <1>1, <2>1, <2>3, SMT
<1>3. \A a \in Nat : b(a) \in V
  <2>1. <<>> \in Seq(Byte) /\ \A a \in Nat : a + 4 \in Nat BY SMT
  <2> QED BY <2>1
<1>4. ASSUME NEW a \in Nat, NEW v \in V
      PROVE  g(a, v) \in V
  <2>1. CASE Ends(a) \/ v = Underrun BY <2>1
  <2>2. CASE ~Ends(a) /\ v # Underrun
    <3>1. v.value \in Seq(Byte) /\ v.next \in Nat BY <2>2
    <3>2. ChunkAt(a).value \in Seq(Byte)
      <4>1. ClaimedAt(a) \in Nat BY <2>2, ClaimedType
      <4>2. a + 4 \in Nat BY SMT
      <4> QED BY <2>2, <4>1, <4>2, RawValue DEF ChunkAt
    <3>3. ChunkAt(a).value \o v.value \in Seq(Byte) BY <3>1, <3>2, JoinedBytes, Zenon
    <3> QED BY <2>2, <3>1, <3>3
  <2> QED BY <2>1, <2>2
<1>5. \A a \in Nat : mu[a] \in Nat /\ next[a] \in Nat /\ mu[a] < N
  <2> TAKE a \in Nat
  <2>1. mu[a] \in Nat /\ mu[a] < N BY <1>1, SMT
  <2>2. next[a] \in Nat BY <1>2
  <2> QED BY <2>1, <2>2
<1>6. N \in Nat BY <1>1, SMT
<1>7. \A a \in Nat : /\ mu[a] = (IF a <= limit THEN limit - a ELSE 0)
                     /\ next[a] = (IF Ends(a) THEN a ELSE after(a))
                     /\ B[a] = b(a)
                     /\ \A v \in V : H[a][v] = g(a, v)
  OBVIOUS
<1>8. mu \in [Nat -> Nat] /\ next \in [Nat -> Nat]
  <2>1. mu = [a \in Nat |-> mu[a]] /\ next = [a \in Nat |-> next[a]] OBVIOUS
  <2> HIDE DEF mu, next
  <2> QED BY <1>5, <2>1
<1>9. B \in [Nat -> V] /\ H \in [Nat -> [V -> V]]
  <2> HIDE DEF V, b, g
  <2> QED BY <1>3, <1>4
<1> HIDE DEF mu, next, B, H, N, V
<1>10. PICK f : Solves(f, Nat, V, mu, next, B, H)
  <2>1. \E f : Solves(f, Nat, V, mu, next, B, H) BY <1>5, <1>6, <1>8, <1>9, Recursion
  <2> QED BY <2>1
<1>11. /\ f \in [Nat -> V]
       /\ \A a \in Nat : f[a] = IF mu[next[a]] < mu[a] THEN H[a][f[next[a]]] ELSE B[a]
  BY <1>10 DEF Solves
<1>12. \A a \in Nat : f[a] = body(f, a)
  <2> TAKE a \in Nat
  <2>1. CASE Ends(a)
    <3>1. next[a] = a BY <1>7, <2>1
    <3>2. ~(mu[next[a]] < mu[a])
      <4>1. mu[a] \in Nat BY <1>5
      <4> QED BY <3>1, <4>1, SMT
    <3>3. f[a] = b(a) BY <1>7, <1>11, <3>2
    <3> QED BY <2>1, <3>3
  <2>2. CASE ~Ends(a)
    <3> DEFINE x == after(a)
    <3>1. x \in Nat /\ x <= limit /\ a < x BY <1>2, <2>2
    <3>2. next[a] = x BY <1>7, <2>2
    <3>3. f[x] \in V BY <1>11, <3>1
    <3> HIDE DEF x
    <3>4. mu[x] < mu[a]
      <4>1. a <= limit BY <1>1, <3>1, SMT
      <4>2. mu[x] = limit - x /\ mu[a] = limit - a BY <1>7, <3>1, <4>1
      <4>3. limit - x < limit - a BY <1>1, <3>1, SMT
      <4> QED BY <4>2, <4>3
    <3>5. f[a] = H[a][f[x]] BY <1>11, <3>2, <3>4
    <3>6. f[a] = g(a, f[x]) BY <1>7, <3>3, <3>5
    <3> QED BY <2>2, <3>6 DEF x
  <2> QED BY <2>1, <2>2
<1>13. Is(f)
  <2> HIDE DEF body
  <2>1. f = [a \in Nat |-> f[a]] BY <1>11
  <2> QED BY <1>12, <2>1
<1> DEFINE c == ReadChunks
<1>14. Is(c)
  <2>1. c = CHOOSE f0 : Is(f0) BY DEF ReadChunks, ClaimedAt, ChunkAt
  <2> HIDE DEF Is, c
  <2> QED BY <1>13, <2>1
<1> HIDE DEF c
<1>15. c[at] = body(c, at)
  <2> HIDE DEF body
  <2> QED BY <1>14
<1> QED BY <1>15 DEF c

\* From the chunk that starts where r bytes are left, the reader makes those r bytes.
LEMMA ChunksRead ==
    ASSUME Ready, NEW bs \in Seq(Byte), NEW r \in 0..Len(bs), NEW at \in Nat,
           Placed(Chunks(bs)[r], at)
    PROVE  Reads(ReadChunks[at], SubSeq(bs, Len(bs) - r + 1, Len(bs)), Chunks(bs)[r], at)
<1> DEFINE L == Len(bs)
           c == Chunks(bs)
           Left(x) == SubSeq(bs, L - x + 1, L)
           Good(x, a) == Placed(c[x], a) => Reads(ReadChunks[a], Left(x), c[x], a)
           W == {x \in Nat : x <= L => \A a \in Nat : Good(x, a)}
<1>1. L \in Nat BY LenProperties
<1>2. /\ c \in [0..L -> Seq(Byte)] /\ c[0] = U32(0)
      /\ \A x \in 1..L : c[x] = Piece(bs, x) \o c[x - Size(x)]
  BY ChunksAre, Zenon
<1>3. wire \in Seq(Byte) BY DEF Ready
<1>4. ASSUME NEW x \in Nat, \A y \in Nat : y < x => y \in W
      PROVE  x \in W
  <2> SUFFICES ASSUME x <= L, NEW a \in Nat, Placed(c[x], a)
               PROVE  Reads(ReadChunks[a], Left(x), c[x], a)
    OBVIOUS
  <2> HIDE DEF c, W, Left, L
  <2>1. CASE x = 0
    <3> DEFINE u == U32(0)
    <3>1. u \in Seq(Byte) /\ Len(u) = 4 /\ FromU32(u, 1) = 0
      <4>1. 0 \in Nat /\ 0 < 4294967296 BY SMT
      <4> QED BY <4>1, U32Bytes, SMT
    <3> HIDE DEF u
    <3>2. c[x] = u BY <1>2, <2>1 DEF u
    <3>3. Reads(Raw(4, a), u, u, a)
      <4>1. Placed(u, a) BY <3>2
      <4> QED BY <3>1, <4>1, RawReads
    <3>4. Left(x) = <<>>
      <4>1. L - x + 1 \in Int /\ L \in Int /\ L < L - x + 1 BY <1>1, <2>1, SMT
      <4> QED BY <4>1, SubSeqEmpty DEF Left
    <3>5. CASE Raw(4, a) = Underrun
      <4>1. ReadChunks[a] = Underrun BY <3>5, ReadChunksIs
      <4> QED BY <4>1 DEF Reads
    <3>6. CASE Raw(4, a) # Underrun
      <4>1. Raw(4, a) = [value |-> u, next |-> a + 4] /\ a + 4 <= limit
        BY <3>1, <3>3, <3>6 DEF Reads
      <4>2. ClaimedAt(a) = 0 BY <3>1, <4>1 DEF ClaimedAt
      <4>3. ReadChunks[a] = [value |-> <<>>, next |-> a + 4] BY <3>6, <4>2, ReadChunksIs
      <4> QED BY <3>1, <3>2, <3>4, <4>1, <4>3 DEF Reads
    <3> QED BY <3>5, <3>6
  <2>2. CASE x # 0
    <3> DEFINE n == Size(x)
               u == U32(n)
               s == SubSeq(bs, L - x + 1, L - x + n)
               d == c[x - n]
               y == x - n
    <3>1. n \in Nat /\ n > 0 /\ n <= x
      <4>1. x > 0 BY <2>2, SMT
      <4> QED BY <4>1, SizeIs, SMT
    <3>2. x \in 0..L /\ x \in 1..L BY <1>1, <2>2, SMT
    <3>3. /\ s \in Seq(Byte) /\ Len(s) = n
          /\ u \in Seq(Byte) /\ Len(u) = 4 /\ FromU32(u, 1) = n
      <4>1. x \in 0..Len(bs) BY <3>2 DEF L
      <4> HIDE DEF n
      <4>2. LET s0 == SubSeq(bs, Len(bs) - x + 1, Len(bs) - x + Size(x))
            IN  /\ s0 \in Seq(Byte) /\ Len(s0) = Size(x)
                /\ U32(Size(x)) \in Seq(Byte) /\ Len(U32(Size(x))) = 4
                /\ FromU32(U32(Size(x)), 1) = Size(x)
        BY <4>1, PieceIs, Zenon
      <4> QED BY <4>2 DEF L, n
    <3>4. c[x] = (u \o s) \o d BY <1>2, <3>2 DEF Piece, L
    <3>5. y \in Nat /\ y < x /\ y <= L /\ y \in 0..L BY <1>1, <3>1, SMT
    <3>6. d \in Seq(Byte) BY <1>2, <3>5
    <3>7. \A b \in Nat : Good(y, b)
      <4>1. y \in W BY <1>4, <3>5
      <4> QED BY <3>5, <4>1 DEF W
    <3>8. s \o Left(y) = Left(x)
      <4> DEFINE l == L - x + 1
                 k == L - x + n
      <4>1. /\ l \in 1..L + 1 /\ k \in (l - 1)..L /\ L \in k..L
            /\ k + 1 = L - y + 1
        BY <1>1, <3>1, SMT
      <4> HIDE DEF l, k
      <4>2. l \in 1..Len(bs) + 1 /\ k \in (l - 1)..Len(bs) /\ L \in k..Len(bs) BY <4>1 DEF L
      <4>3. SubSeq(bs, l, k) \o SubSeq(bs, k + 1, L) = SubSeq(bs, l, L)
        BY <4>2, ConcatAdjacentSubSeq
      <4> QED BY <4>1, <4>3 DEF l, k, Left
    <3> HIDE DEF n, u, s, d, y
    <3>9. u \o s \in Seq(Byte) /\ Len(u \o s) = 4 + n
      <4>1. u \o s \in Seq(Byte) /\ Len(u \o s) = Len(u) + Len(s)
        BY <3>3, JoinedBytes, Zenon
      <4> QED BY <3>3, <4>1
    <3>10. Placed(u, a) /\ Placed(s, a + 4) /\ a + 4 \in Nat
           /\ Placed(d, a + 4 + n) /\ a + 4 + n \in Nat
      <4> DEFINE us == u \o s
      <4> HIDE DEF us
      <4>1. Placed(us \o d, a) /\ us \in Seq(Byte) /\ Len(us) = 4 + n BY <3>4, <3>9 DEF us
      <4>2. Placed(us, a) /\ Placed(d, a + Len(us)) BY <1>3, <3>6, <4>1, PlacedParts, Zenon
      <4>3. Placed(u \o s, a) BY <4>2 DEF us
      <4>4. Placed(u, a) /\ Placed(s, a + Len(u)) BY <1>3, <3>3, <4>3, PlacedParts, Zenon
      <4>5. a + (4 + n) = a + 4 + n /\ a + 4 \in Nat /\ a + 4 + n \in Nat BY <3>1, SMT
      <4> QED BY <3>3, <4>1, <4>2, <4>4, <4>5
    <3>11. Reads(Raw(4, a), u, u, a) BY <3>3, <3>10, RawReads
    <3>12. Reads(Raw(n, a + 4), s, s, a + 4) BY <3>3, <3>10, RawReads
    <3>13. Reads(ReadChunks[a + 4 + n], Left(y), d, a + 4 + n)
      BY <3>7, <3>10 DEF d, y
    <3>14. CASE Raw(4, a) = Underrun
      <4>1. ReadChunks[a] = Underrun BY <3>14, ReadChunksIs
      <4> QED BY <4>1 DEF Reads
    <3>15. CASE Raw(4, a) # Underrun
      <4>1. ClaimedAt(a) = n /\ n # 0
        <5>1. Raw(4, a) = [value |-> u, next |-> a + 4] BY <3>3, <3>11, <3>15 DEF Reads
        <5> QED BY <3>1, <3>3, <5>1 DEF ClaimedAt
      <4>2. ChunkAt(a) = Raw(n, a + 4) BY <4>1 DEF ChunkAt
      <4> DEFINE rest == ReadChunks[a + 4 + n]
      <4>3. ReadChunks[a] =
              IF ChunkAt(a) = Underrun \/ rest = Underrun THEN Underrun
              ELSE [value |-> ChunkAt(a).value \o rest.value, next |-> rest.next]
        <5> DEFINE m == ClaimedAt(a)
        <5>1. ReadChunks[a] =
                IF m = 0 THEN [value |-> <<>>, next |-> a + 4]
                ELSE IF ChunkAt(a) = Underrun \/ ReadChunks[a + 4 + m] = Underrun
                THEN Underrun
                ELSE [value |-> ChunkAt(a).value \o ReadChunks[a + 4 + m].value,
                      next |-> ReadChunks[a + 4 + m].next]
          BY <3>15, ReadChunksIs
        <5>2. m = n BY <4>1
        <5> HIDE DEF m
        <5> QED BY <4>1, <5>1, <5>2
      <4> HIDE DEF rest
      <4>4. CASE ChunkAt(a) = Underrun \/ rest = Underrun
        <5>1. ReadChunks[a] = Underrun BY <4>3, <4>4
        <5> QED BY <5>1 DEF Reads
      <4>5. CASE ~(ChunkAt(a) = Underrun \/ rest = Underrun)
        <5>1. ChunkAt(a).value = s BY <3>12, <4>2, <4>5, NotUnderrun DEF Reads
        <5>2. rest = [value |-> Left(y), next |-> a + 4 + n + Len(d)]
              /\ a + 4 + n + Len(d) <= limit
          BY <3>13, <4>5 DEF Reads, rest
        <5>3. rest.value = Left(y) /\ rest.next = a + 4 + n + Len(d) BY <5>2, NotUnderrun
        <5>4. ReadChunks[a] = [value |-> Left(x), next |-> a + 4 + n + Len(d)]
          BY <3>8, <4>3, <4>5, <5>1, <5>3
        <5>5. a + 4 + n + Len(d) = a + Len(c[x])
          <6>1. Len((u \o s) \o d) = Len(u \o s) + Len(d) /\ Len(d) \in Nat
            BY <3>6, <3>9, JoinedBytes, Zenon
          <6>2. Len(c[x]) = 4 + n + Len(d) BY <3>4, <3>9, <6>1
          <6> QED BY <3>1, <6>1, <6>2, SMT
        <5> QED BY <5>2, <5>4, <5>5 DEF Reads
      <4> QED BY <4>4, <4>5
    <3> QED BY <3>14, <3>15
  <2> QED BY <2>1, <2>2
<1>5. W \in SUBSET Nat OBVIOUS
<1>6. r \in Nat /\ r <= L
  <2>1. r \in 0..L OBVIOUS
  <2> HIDE DEF L
  <2> QED BY <1>1, <2>1, SMT
<1>7. r \in W
  <2> HIDE DEF W
  <2> QED BY <1>4, <1>5, <1>6, Complete
<1> QED BY <1>6, <1>7

-----------------------------------------------------------------------------
(* Byte strings and fields                                                 *)

\* A long string, after the byte 254.
LEMMA ChunkedType ==
    ASSUME NEW bs \in Seq(Byte)
    PROVE  Len(bs) \in 0..Len(bs) /\ Chunks(bs)[Len(bs)] \in Seq(Byte)
<1>1. Len(bs) \in 0..Len(bs)
  <2>1. Len(bs) \in Nat BY LenProperties
  <2> QED BY <2>1, SMT
<1>2. Chunks(bs) \in [0..Len(bs) -> Seq(Byte)] BY ChunksAre, Zenon
<1> QED BY <1>1, <1>2

\* What length_prefixed writes are bytes.
LEMMA PrefixedType ==
    ASSUME NEW bs \in Seq(Byte)
    PROVE  /\ LengthPrefixed(bs) \in Seq(Byte)
           /\ LengthPrefixed(bs) =
                IF bs = <<>> THEN <<0>> \o <<>>
                ELSE IF Len(bs) <= ShortMax THEN <<Len(bs)>> \o bs
                ELSE <<254>> \o Chunks(bs)[Len(bs)]
           /\ bs # <<>> /\ Len(bs) <= ShortMax => Len(bs) \in 1..252
<1> DEFINE n == Len(bs)
           long == Chunks(bs)[n]
           zero == <<0>>
           mark == <<254>>
           short == <<n>>
<1>1. n \in Nat /\ (bs # <<>> => n # 0)
  <2>1. n \in Nat BY LenProperties
  <2>2. bs # <<>> => n \in Nat \ {0} BY EmptySeq
  <2> QED BY <2>1, <2>2
<1>2. ShortMax \in Int /\ ShortMax <= 252 BY MessageAssumption, SMT
<1>3. bs # <<>> /\ n <= ShortMax => n \in 1..252
  <2> SUFFICES ASSUME bs # <<>>, n <= ShortMax
               PROVE  n \in 1..252
    OBVIOUS
  <2>1. n \in Nat /\ n # 0 BY <1>1
  <2> HIDE DEF n
  <2>2. n >= 1 /\ n <= 252 BY <1>2, <2>1, SMT
  <2> QED BY <2>1, <2>2, SMT
<1>4. zero \in Seq(Byte) /\ mark \in Seq(Byte) BY SMT DEF Byte
<1>5. n \in 1..252 => short \in Seq(Byte) BY SMT DEF Byte
<1>6. long \in Seq(Byte) BY ChunkedType, Zenon
<1>7. LengthPrefixed(bs) = IF bs = <<>> THEN zero
                           ELSE IF n <= ShortMax THEN short \o bs ELSE mark \o long
  BY DEF LengthPrefixed
<1> HIDE DEF n, long, zero, mark, short
<1>8. zero \o <<>> = zero BY <1>4, ConcatEmptySeq, Zenon
<1>9. mark \o long \in Seq(Byte) BY <1>4, <1>6, JoinedBytes, Zenon
<1>10. n \in 1..252 => short \o bs \in Seq(Byte) BY <1>5, JoinedBytes, Zenon
<1>11. LengthPrefixed(bs) \in Seq(Byte) BY <1>3, <1>4, <1>7, <1>9, <1>10
<1> QED BY <1>3, <1>7, <1>8, <1>11 DEF n, long, zero, mark, short

\* TTCWriter.length_prefixed and TTCReader.length_prefixed_bytes.
LEMMA BytesRead ==
    ASSUME Ready, NEW bs \in Seq(Byte), NEW at \in Nat, Placed(LengthPrefixed(bs), at)
    PROVE  Reads(ReadBytes(at), bs, LengthPrefixed(bs), at)
<1> DEFINE first == Raw(1, at)
           b == first.value[1]
           w == LengthPrefixed(bs)
           n == Len(bs)
           long == Chunks(bs)[n]
<1>1. ReadBytes(at) = IF first = Underrun THEN Underrun
                      ELSE IF b \in {0, 255} THEN [value |-> <<>>, next |-> at + 1]
                      ELSE IF b = 254 THEN ReadChunks[at + 1]
                      ELSE Raw(b, at + 1)
  BY DEF ReadBytes
<1>2. /\ w = IF bs = <<>> THEN <<0>> \o <<>>
             ELSE IF n <= ShortMax THEN <<n>> \o bs ELSE <<254>> \o long
      /\ bs # <<>> /\ n <= ShortMax => n \in 1..252
  BY PrefixedType, Zenon
<1>3. CASE first = Underrun BY <1>1, <1>3 DEF Reads
<1>4. CASE first # Underrun
  <2> DEFINE m == at + 1
  <2>1. CASE bs = <<>>
    <3>1. w = <<0>> \o <<>> BY <1>2, <2>1
    <3> DEFINE z == <<>>
    <3>2. 0 \in Byte /\ z \in Seq(Byte) /\ Len(z) = 0 BY SMT DEF Byte
    <3> HIDE DEF z, w, first
    <3>3. Placed(<<0>> \o z, at) BY <3>1 DEF z, w
    <3>4. /\ Raw(1, at) # Underrun => Raw(1, at).value[1] = 0
          /\ at + Len(<<0>> \o z) = at + 1 + Len(z)
          /\ Raw(1, at) # Underrun => at + 1 <= limit
      BY <3>2, <3>3, FirstByte
    <3>5. b = 0 /\ at + 1 <= limit /\ at + Len(w) = at + 1 BY <1>4, <3>1, <3>2, <3>4 DEF first, z
    <3>6. ReadBytes(at) = [value |-> <<>>, next |-> at + 1] BY <1>1, <1>4, <3>5
    <3> QED BY <2>1, <3>5, <3>6 DEF Reads, w
  <2>2. CASE bs # <<>> /\ n <= ShortMax
    <3>1. w = <<n>> \o bs /\ n \in 1..252 BY <1>2, <2>2
    <3> HIDE DEF w, first, n
    <3>2. n \in Byte
      <4>1. n \in 1..252 BY <3>1
      <4> HIDE DEF b, m, long
      <4> QED BY ONLY <4>1, SMT DEF Byte
    <3>3. Placed(<<n>> \o bs, at) BY <3>1 DEF w
    <3>4. /\ first # Underrun => b = n
          /\ Placed(bs, m) /\ m \in Nat /\ at + Len(<<n>> \o bs) = m + Len(bs)
      BY <3>2, <3>3, FirstByte DEF first
    <3>5. b = n /\ Placed(bs, m) /\ m \in Nat /\ at + Len(w) = m + n
      BY <1>4, <3>1, <3>4 DEF n
    <3> HIDE DEF m, b
    <3>6. Reads(Raw(n, m), bs, bs, m) BY <3>5, RawReads DEF n
    <3>7. b \notin {0, 255} /\ b # 254
      <4>1. n \in 1..252 /\ b = n BY <3>1, <3>5
      <4> HIDE DEF long
      <4> QED BY ONLY <4>1, SMT
    <3>8. ReadBytes(at) = Raw(n, m) BY <1>1, <1>4, <3>5, <3>7, Zenon DEF m
    <3> QED BY <3>5, <3>6, <3>8 DEF Reads, n, w
  <2>3. CASE bs # <<>> /\ ~(n <= ShortMax)
    <3>1. w = <<254>> \o long BY <1>2, <2>3
    <3>2. 254 \in Byte BY SMT DEF Byte
    <3>3. long \in Seq(Byte) /\ n \in 0..n BY ChunkedType, Zenon
    <3> HIDE DEF w, first, long
    <3>4. Placed(<<254>> \o long, at) BY <3>1 DEF w
    <3>5. /\ first # Underrun => b = 254
          /\ Placed(long, m) /\ m \in Nat /\ at + Len(<<254>> \o long) = m + Len(long)
      BY <3>2, <3>3, <3>4, FirstByte DEF first
    <3>6. b = 254 /\ Placed(long, m) /\ m \in Nat /\ at + Len(w) = m + Len(long)
      BY <1>4, <3>1, <3>5
    <3> HIDE DEF m, b
    <3>7. Reads(ReadChunks[m], SubSeq(bs, n - n + 1, n), long, m)
      BY <3>3, <3>6, ChunksRead DEF long
    <3>8. SubSeq(bs, n - n + 1, n) = bs
      <4>1. n - n + 1 = 1
        <5>1. n \in Nat BY LenProperties
        <5> QED BY <5>1, SMT
      <4> QED BY <4>1, SubSeqFull
    <3>9. ReadBytes(at) = ReadChunks[m] BY <1>1, <1>4, <3>6, SMT DEF m
    <3> QED BY <3>6, <3>7, <3>8, <3>9 DEF Reads, w
  <2> QED BY <2>1, <2>2, <2>3
<1> QED BY <1>3, <1>4

\* A field has the value its kind calls for.
LEMMA FieldShape ==
    ASSUME NEW f \in FieldTypes
    PROVE  \/ f.kind = "int" /\ f.value \in Int /\ f.width \in 1..8
           \/ f.kind \in {"bytes", "counted"} /\ f.value \in Seq(Byte)
           \/ /\ f.kind = "number" /\ f.value \in Numbers
              /\ Encodable(f.value) \/ f.value.point >= Len(f.value.digits)
           \/ f.kind = "timestamp" /\ f.value \in DateTimes
           \/ f.kind = "interval" /\ f.value \in Intervals
<1> DEFINE N == {n \in Numbers : Encodable(n) \/ n.point >= Len(n.digits)}
<1>1. \/ f \in [kind : {"int"}, width : {1, 2, 4, 8}, value : Int]
      \/ f \in [kind : {"bytes", "counted"}, value : Seq(Byte)]
      \/ f \in [kind : {"number"}, value : N]
      \/ f \in [kind : {"timestamp"}, value : DateTimes]
      \/ f \in [kind : {"interval"}, value : Intervals]
  BY Zenon DEF FieldTypes
<1>2. \A n \in N : n \in Numbers /\ (Encodable(n) \/ n.point >= Len(n.digits)) OBVIOUS
<1> HIDE DEF N
<1>3. CASE f \in [kind : {"int"}, width : {1, 2, 4, 8}, value : Int] BY <1>3, SMT
<1>4. CASE f \in [kind : {"bytes", "counted"}, value : Seq(Byte)] BY <1>4, SMT
<1>5. CASE f \in [kind : {"number"}, value : N]
  <2>1. f.kind = "number" /\ f.value \in N BY <1>5, SMT
  <2> QED BY <1>2, <2>1, Zenon
<1>6. CASE f \in [kind : {"timestamp"}, value : DateTimes] BY <1>6, SMT
<1>7. CASE f \in [kind : {"interval"}, value : Intervals] BY <1>7, SMT
<1> QED BY <1>1, <1>3, <1>4, <1>5, <1>6, <1>7, Zenon

\* The byte string a field goes out as, and what its reader makes of it.
Payload(f) ==
    CASE f.kind = "number"    -> Column(f.value)
      [] f.kind = "timestamp" -> EncodeTimestamp(f.value, FALSE)
      [] f.kind = "interval"  -> EncodeInterval(f.value)
      [] OTHER                -> f.value

Delivered(f) == IF f.kind = "int" THEN f.value ELSE Decoded(f.kind, Payload(f))

\* A field is an integer or a byte string, with or without a count in front.
LEMMA Encoded ==
    ASSUME NEW f \in FieldTypes
    PROVE  /\ f.kind = "int" => /\ f.value \in Int /\ f.width \in 1..8
                                /\ Encode(f) = Varint(f.value, f.width)
           /\ f.kind # "int" => Payload(f) \in Seq(Byte)
           /\ f.kind # "int" /\ f.kind # "counted" => Encode(f) = LengthPrefixed(Payload(f))
           /\ f.kind = "counted" =>
                Encode(f) = IF Payload(f) = <<>> THEN Varint(0, 4)
                            ELSE IF Varint(Len(Payload(f)), 4) = NoBytes THEN NoBytes
                            ELSE Varint(Len(Payload(f)), 4) \o LengthPrefixed(Payload(f))
<1>1. CASE f.kind = "int" /\ f.value \in Int /\ f.width \in 1..8
  BY <1>1 DEF Encode
<1>2. CASE f.kind \in {"bytes", "counted"} /\ f.value \in Seq(Byte)
  <2>1. Payload(f) = f.value BY <1>2 DEF Payload
  <2>2. CASE f.kind = "bytes" BY <1>2, <2>1, <2>2 DEF Encode
  <2>3. CASE f.kind = "counted" BY <1>2, <2>1, <2>3 DEF Encode
  <2> QED BY <1>2, <2>2, <2>3
<1>3. CASE /\ f.kind = "number" /\ f.value \in Numbers
           /\ Encodable(f.value) \/ f.value.point >= Len(f.value.digits)
  <2>1. Payload(f) = Column(f.value) BY <1>3 DEF Payload
  <2>2. Column(f.value) \in Seq(Byte) BY <1>3, ColumnBytes
  <2> QED BY <1>3, <2>1, <2>2 DEF Encode
<1>4. CASE f.kind = "timestamp" /\ f.value \in DateTimes
  <2>1. Payload(f) = EncodeTimestamp(f.value, FALSE) BY <1>4 DEF Payload
  <2>2. EncodeTimestamp(f.value, FALSE) \in Seq(Byte) BY <1>4, TimestampBytes
  <2> QED BY <1>4, <2>1, <2>2 DEF Encode
<1>5. CASE f.kind = "interval" /\ f.value \in Intervals
  <2>1. Payload(f) = EncodeInterval(f.value) BY <1>5 DEF Payload
  <2>2. EncodeInterval(f.value) \in Seq(Byte) BY <1>5, IntervalBytes
  <2> QED BY <1>5, <2>1, <2>2 DEF Encode
<1> QED BY FieldShape, <1>1, <1>2, <1>3, <1>4, <1>5

\* What enc_varint writes are bytes.
LEMMA VarintType ==
    ASSUME NEW n \in Int, NEW width \in 1..8, Varint(n, width) # NoBytes
    PROVE  Varint(n, width) \in Seq(Byte)
<1>1. PICK k \in 0..width, ds \in Seq(Byte) :
        Varint(n, width) = <<k + (IF n < 0 THEN 128 ELSE 0)>> \o ds
  BY VarintShape
<1> DEFINE b == k + (IF n < 0 THEN 128 ELSE 0)
<1>2. b \in Byte BY SMT DEF Byte
<1> HIDE DEF b
<1>3. <<b>> \in Seq(Byte) BY <1>2
<1>4. <<b>> \o ds \in Seq(Byte) BY <1>3, JoinedBytes, Zenon
<1> QED BY <1>1, <1>4 DEF b

\* A byte string that is not empty, after the count of its bytes.
LEMMA CountedReads ==
    ASSUME Ready, NEW bs \in Seq(Byte), NEW at \in Nat, NEW w,
           w = IF bs = <<>> THEN Varint(0, 4)
               ELSE IF Varint(Len(bs), 4) = NoBytes THEN NoBytes
               ELSE Varint(Len(bs), 4) \o LengthPrefixed(bs),
           w # NoBytes
    PROVE  /\ w \in Seq(Byte)
           /\ Placed(w, at) => Reads(ReadCounted(at), bs, w, at)
<1> DEFINE count == ReadVarint(4, at)
<1>1. 4 \in 1..8 BY SMT
<1>2. ReadCounted(at) = IF count = Underrun THEN Underrun
                        ELSE IF count.value > 0 THEN ReadBytes(count.next)
                        ELSE [value |-> <<>>, next |-> count.next]
  BY DEF ReadCounted
<1> HIDE DEF count
<1>3. CASE bs = <<>>
  <2>1. w = Varint(0, 4) /\ 0 \in Int BY <1>3, SMT
  <2>2. w \in Seq(Byte) BY <1>1, <2>1, VarintType
  <2>3. ASSUME Placed(w, at)
        PROVE  Reads(ReadCounted(at), bs, w, at)
    <3>1. Reads(count, 0, w, at) BY <1>1, <2>1, <2>3, VarintReads DEF count
    <3>2. CASE count = Underrun BY <1>2, <3>2 DEF Reads
    <3>3. CASE count # Underrun
      <4>1. count = [value |-> 0, next |-> at + Len(w)] /\ at + Len(w) <= limit
        BY <3>1, <3>3 DEF Reads
      <4>2. count.value = 0 /\ count.next = at + Len(w) BY <4>1, NotUnderrun
      <4>3. ~(count.value > 0) BY <4>2, SMT
      <4>4. ReadCounted(at) = [value |-> <<>>, next |-> at + Len(w)]
        BY <1>2, <3>3, <4>2, <4>3
      <4> QED BY <1>3, <4>1, <4>4 DEF Reads
    <3> QED BY <3>2, <3>3
  <2> QED BY <2>2, <2>3
<1>4. CASE bs # <<>>
  <2> DEFINE n == Len(bs)
             v == Varint(n, 4)
             p == LengthPrefixed(bs)
  <2>1. w = v \o p /\ v # NoBytes BY <1>4
  <2>2. n \in Int /\ n > 0
    <3>1. n \in Nat \ {0} BY <1>4, EmptySeq
    <3> QED BY <3>1, SMT
  <2>3. p \in Seq(Byte) BY PrefixedType, Zenon
  <2> HIDE DEF n
  <2>4. v \in Seq(Byte) BY <1>1, <2>1, <2>2, VarintType
  <2>5. w \in Seq(Byte) BY <2>1, <2>3, <2>4, JoinedBytes, Zenon
  <2>6. Len(w) = Len(v) + Len(p) /\ Len(v) \in Nat /\ Len(p) \in Nat
    BY <2>1, <2>3, <2>4, JoinedBytes, Zenon
  <2>7. ASSUME Placed(w, at)
        PROVE  Reads(ReadCounted(at), bs, w, at)
    <3> HIDE DEF v, p
    <3> DEFINE m == at + Len(v)
    <3>1. Placed(v, at) /\ Placed(p, m) /\ m \in Nat
      <4>1. Placed(v \o p, at) /\ wire \in Seq(Byte) BY <2>1, <2>7 DEF Ready
      <4> QED BY <2>3, <2>4, <4>1, PlacedParts, Zenon
    <3>2. Reads(count, n, v, at) BY <1>1, <2>1, <2>2, <3>1, VarintReads DEF count, v
    <3>3. Reads(ReadBytes(m), bs, p, m) BY <3>1, BytesRead DEF p
    <3>4. m + Len(p) = at + Len(w)
      <4>1. \A a, b \in Nat : (at + a) + b = at + (a + b) BY SMT
      <4> QED BY <2>6, <4>1
    <3>5. CASE count = Underrun BY <1>2, <3>5 DEF Reads
    <3>6. CASE count # Underrun
      <4>1. count.value = n /\ count.next = m BY <3>2, <3>6, NotUnderrun DEF Reads
      <4> HIDE DEF m
      <4>2. ReadCounted(at) = ReadBytes(m) BY <1>2, <2>2, <3>6, <4>1
      <4> QED BY <3>3, <3>4, <4>2 DEF Reads
    <3> QED BY <3>5, <3>6
  <2> QED BY <2>5, <2>7
<1> QED BY <1>3, <1>4

\* Skip's read of a field.
Skipped(f, at) ==
    IF f.kind = "int" THEN SkipVarint(at)
    ELSE IF f.kind = "counted" THEN ReadCounted(at) ELSE ReadBytes(at)

\* What is written for a field are bytes.
LEMMA EncodeType ==
    ASSUME NEW f \in FieldTypes, Encode(f) # NoBytes
    PROVE  Encode(f) \in Seq(Byte)
<1>1. CASE f.kind = "int" BY <1>1, Encoded, VarintType
<1>2. CASE f.kind = "counted"
  <2> DEFINE bs == Payload(f)
             w == Encode(f)
  <2>1. bs \in Seq(Byte) BY <1>2, Encoded
  <2>2. w = IF bs = <<>> THEN Varint(0, 4)
            ELSE IF Varint(Len(bs), 4) = NoBytes THEN NoBytes
            ELSE Varint(Len(bs), 4) \o LengthPrefixed(bs)
    BY <1>2, Encoded
  <2> DEFINE v == Varint(Len(bs), 4)
             p == LengthPrefixed(bs)
  <2>3. 4 \in 1..8 /\ 0 \in Int BY SMT
  <2>4. CASE bs = <<>>
    <3>1. w = Varint(0, 4) BY <2>2, <2>4
    <3> QED BY <2>3, <3>1, VarintType
  <2>5. CASE bs # <<>>
    <3>1. w = v \o p /\ v # NoBytes BY <2>2, <2>5
    <3>2. Len(bs) \in Int
      <4>1. Len(bs) \in Nat BY <2>1, LenProperties
      <4> QED BY <4>1, SMT
    <3>3. v \in Seq(Byte) BY <2>3, <3>1, <3>2, VarintType
    <3>4. p \in Seq(Byte) BY <2>1, PrefixedType, Zenon
    <3> HIDE DEF v, p
    <3> QED BY <3>1, <3>3, <3>4, JoinedBytes, Zenon
  <2> QED BY <2>4, <2>5
<1>3. CASE f.kind # "int" /\ f.kind # "counted"
  <2> DEFINE p == LengthPrefixed(Payload(f))
  <2>1. Payload(f) \in Seq(Byte) /\ Encode(f) = p BY <1>3, Encoded
  <2>2. p \in Seq(Byte) BY <2>1, PrefixedType, Zenon
  <2> QED BY <2>1, <2>2
<1> QED BY <1>1, <1>2, <1>3

\* A field that was written is read as what it is delivered as, or skipped, to its end.
LEMMA FieldReads ==
    ASSUME Ready, NEW f \in FieldTypes, Encode(f) # NoBytes, NEW at \in Nat,
           Placed(Encode(f), at)
    PROVE  /\ Reads(ReadField(f, at), Delivered(f), Encode(f), at)
           /\ Skipped(f, at) # Underrun =>
                Skipped(f, at).next = at + Len(Encode(f)) /\ at + Len(Encode(f)) <= limit
<1>1. CASE f.kind = "int"
  <2> DEFINE n == f.value
             k == f.width
  <2>1. n \in Int /\ k \in 1..8 /\ Encode(f) = Varint(n, k) BY <1>1, Encoded
  <2>2. ReadField(f, at) = ReadVarint(k, at) /\ Skipped(f, at) = SkipVarint(at)
        /\ Delivered(f) = n
    BY <1>1 DEF ReadField, Skipped, Delivered
  <2> HIDE DEF n, k
  <2>3. /\ Reads(ReadVarint(k, at), n, Varint(n, k), at)
        /\ SkipVarint(at) # Underrun =>
             SkipVarint(at).next = at + Len(Varint(n, k)) /\ at + Len(Varint(n, k)) <= limit
    BY <2>1, VarintReads
  <2> QED BY <2>1, <2>2, <2>3
<1>2. CASE f.kind # "int"
  <2> DEFINE bs == Payload(f)
             w == Encode(f)
             read == Skipped(f, at)
             v == Decoded(f.kind, bs)
  <2>1. Reads(read, bs, w, at)
    <3>1. bs \in Seq(Byte) BY <1>2, Encoded
    <3>2. CASE f.kind = "counted"
      <4>1. w = IF bs = <<>> THEN Varint(0, 4)
                ELSE IF Varint(Len(bs), 4) = NoBytes THEN NoBytes
                ELSE Varint(Len(bs), 4) \o LengthPrefixed(bs)
        BY <3>2, Encoded
      <4>2. read = ReadCounted(at) BY <3>2 DEF Skipped
      <4> HIDE DEF w, bs
      <4>3. w # NoBytes /\ Placed(w, at) BY DEF w
      <4>4. Reads(ReadCounted(at), bs, w, at) BY <3>1, <4>1, <4>3, CountedReads
      <4> QED BY <4>2, <4>4
    <3>3. CASE f.kind # "counted"
      <4>1. w = LengthPrefixed(bs) BY <1>2, <3>3, Encoded
      <4>2. read = ReadBytes(at) BY <1>2, <3>3 DEF Skipped
      <4>3. Placed(LengthPrefixed(bs), at) BY <4>1
      <4>4. Reads(ReadBytes(at), bs, LengthPrefixed(bs), at) BY <3>1, <4>3, BytesRead
      <4> QED BY <4>1, <4>2, <4>4
    <3> QED BY <3>2, <3>3
  <2>2. ReadField(f, at) = IF read = Underrun THEN Underrun
                           ELSE [value |-> Decoded(f.kind, read.value), next |-> read.next]
    BY <1>2 DEF ReadField, Skipped
  <2>3. Delivered(f) = v BY <1>2 DEF Delivered
  <2>4. CASE read = Underrun BY <2>2, <2>4 DEF Reads
  <2>5. CASE read # Underrun
    <3>1. read.value = bs /\ read.next = at + Len(w) /\ at + Len(w) <= limit
      BY <2>1, <2>5, NotUnderrun DEF Reads
    <3>2. Decoded(f.kind, read.value) = v BY <3>1
    <3> HIDE DEF v, read, w
    <3>3. ReadField(f, at) = [value |-> v, next |-> at + Len(w)] BY <2>2, <2>5, <3>1, <3>2
    <3> QED BY <2>3, <3>1, <3>3 DEF Reads, w, read
  <2> QED BY <2>4, <2>5
<1> QED BY <1>1, <1>2

-----------------------------------------------------------------------------
(* The message                                                             *)

\* Where each field ends: the next one starts there, and the reader is at such a place.
Laid(ends) ==
    /\ ends \in [0..Len(sent) -> Nat]
    /\ ends[0] = 0 /\ ends[Len(sent)] = Len(wire) /\ ends[Len(got)] = pos
    /\ \A i \in 1..Len(sent) : /\ ends[i] = ends[i - 1] + Len(Encode(sent[i]))
                               /\ Placed(Encode(sent[i]), ends[i - 1])

Values == {<<>>} \cup {<<Delivered(f)>> : f \in Fields}

\* The inductive invariant: the fields lie one after the other in the message, the reader
\* is between two of them, and what it has read is what they are delivered as.
MessageInv ==
    /\ reader \in {"bridge", "client"}
    /\ sent \in Seq(Fields) /\ Len(sent) <= MaxFields
    /\ \A i \in 1..Len(sent) : Encode(sent[i]) # NoBytes
    /\ wire \in Seq(Byte)
    /\ got \in Seq(Values) /\ Len(got) <= Len(sent)
    /\ \A i \in 1..Len(got) : got[i] \in {<<>>, <<Delivered(sent[i])>>}
    /\ \E ends : Laid(ends)
    /\ \/ limit = -1 /\ got = <<>> /\ pos = 0
       \/ limit \in 0..Len(wire) /\ pos <= limit

\* An empty message of which nothing was read satisfies the invariant.
LEMMA MessageInit == Init => MessageInv
<1> SUFFICES ASSUME Init
             PROVE  MessageInv
  OBVIOUS
<1> DEFINE ends == [i \in 0..0 |-> 0]
           none == <<>>
<1>1. sent = none /\ wire = none /\ got = none /\ limit = -1 /\ pos = 0
      /\ reader \in {"bridge", "client"}
  BY DEF Init
<1>2. none \in Seq(Fields) /\ none \in Seq(Byte) /\ none \in Seq(Values) /\ Len(none) = 0
  BY EmptySeq
<1> HIDE DEF none
<1>3. Len(sent) = 0 /\ Len(wire) = 0 /\ Len(got) = 0 BY <1>1, <1>2
<1>4. MaxFields \in Nat BY MessageAssumption
<1>5. Len(sent) <= MaxFields /\ Len(got) <= Len(sent) BY <1>3, <1>4, SMT
<1>6. 1..Len(sent) = {} /\ 1..Len(got) = {} BY <1>3, SMT
<1>7. Laid(ends)
  <2>1. ends \in [0..0 -> Nat] /\ ends[0] = 0 BY SMT
  <2> HIDE DEF ends
  <2> QED BY <1>1, <1>3, <1>6, <2>1 DEF Laid
<1> QED BY <1>1, <1>2, <1>5, <1>6, <1>7 DEF MessageInv, none

\* What is known while a field is read: which one, where it starts, and where it ends.
LEMMA NextField ==
    ASSUME MessageInv, Reading, NEW ends, Laid(ends)
    PROVE  /\ Ready /\ pos \in Nat /\ Expected \in Fields /\ Expected \in FieldTypes
           /\ Encode(Expected) # NoBytes /\ Placed(Encode(Expected), pos)
           /\ Len(got) \in Nat /\ Len(got) + 1 \in 1..Len(sent)
           /\ ends[Len(got) + 1] = pos + Len(Encode(Expected))
<1> DEFINE i == Len(got) + 1
<1>1. Len(got) \in Nat /\ Len(sent) \in Nat /\ Len(got) < Len(sent) /\ limit # -1
  BY LenProperties DEF MessageInv, Reading
<1>2. i \in 1..Len(sent) /\ i - 1 = Len(got) /\ Len(got) \in 0..Len(sent) BY <1>1, SMT
<1>3. Expected = sent[i] BY DEF Expected
<1>4. Ready BY <1>1 DEF MessageInv, Ready
<1>5. pos \in Nat /\ ends[i - 1] = pos BY <1>2 DEF Laid
<1>6. Expected \in Fields BY <1>2, <1>3, ElementOfSeq DEF MessageInv
<1>7. Expected \in FieldTypes BY <1>6, MessageAssumption
<1>8. Encode(sent[i]) # NoBytes BY <1>2 DEF MessageInv
<1>9. ends[i] = ends[i - 1] + Len(Encode(sent[i])) /\ Placed(Encode(sent[i]), ends[i - 1])
  BY <1>2 DEF Laid
<1> QED BY <1>1, <1>2, <1>3, <1>4, <1>5, <1>6, <1>7, <1>8, <1>9

\* Bytes that are there stay where they are when others follow.
LEMMA Longer ==
    ASSUME NEW a \in Seq(Byte), NEW b \in Seq(Byte), NEW bs \in Seq(Byte), NEW at \in Nat,
           at + Len(bs) <= Len(a), \A j \in 1..Len(bs) : a[at + j] = bs[j]
    PROVE  /\ at + Len(bs) <= Len(a \o b)
           /\ \A j \in 1..Len(bs) : (a \o b)[at + j] = bs[j]
<1> DEFINE w == a \o b
           l == Len(a)
           k == Len(bs)
<1>1. /\ Len(w) = l + Len(b) /\ l \in Nat /\ Len(b) \in Nat
      /\ \A i \in 1..l : w[i] = a[i]
  BY JoinedBytes, Zenon
<1>2. k \in Nat BY LenProperties
<1> HIDE DEF w, l, k
<1>3. at + k <= l BY DEF l, k
<1>4. at + k <= Len(w) BY <1>1, <1>2, <1>3, SMT
<1>5. \A j \in 1..k : w[at + j] = bs[j]
  <2> TAKE j \in 1..k
  <2>1. at + j \in 1..l BY <1>1, <1>2, <1>3, SMT
  <2> QED BY <1>1, <2>1 DEF k
<1> QED BY <1>4, <1>5 DEF w, k

\* What follows a message that ends at Len(wire) is placed there.
LEMMA Placing ==
    ASSUME NEW a \in Seq(Byte), NEW b \in Seq(Byte)
    PROVE  /\ Len(a) + Len(b) <= Len(a \o b)
           /\ \A j \in 1..Len(b) : (a \o b)[Len(a) + j] = b[j]
<1>1. /\ Len(a \o b) = Len(a) + Len(b) /\ Len(a) \in Nat /\ Len(b) \in Nat
      /\ \A j \in 1..Len(b) : (a \o b)[Len(a) + j] = b[j]
  BY JoinedBytes, Zenon
<1> QED BY <1>1, SMT

\* Writing adds a place at the end and moves none of the others.
LEMMA WriteKeeps ==
    ASSUME MessageInv, NEW f \in Fields, Write(f)
    PROVE  MessageInv'
<1>1. PICK ends : Laid(ends) BY DEF MessageInv
<1>2. PICK n : n = Len(sent) OBVIOUS
<1>3. PICK l : l = Len(wire) OBVIOUS
<1>4. PICK w : w = Encode(f) OBVIOUS
<1>5. /\ limit = -1 /\ Len(sent) < MaxFields /\ w # NoBytes
      /\ sent' = Append(sent, f) /\ wire' = wire \o w
      /\ reader' = reader /\ limit' = limit /\ pos' = pos /\ got' = got
  BY <1>4 DEF Write
<1>6. /\ sent \in Seq(Fields) /\ wire \in Seq(Byte) /\ reader \in {"bridge", "client"}
      /\ got = <<>> /\ pos = 0 /\ n \in Nat /\ l \in Nat
      /\ \A i \in 1..n : Encode(sent[i]) # NoBytes
  <2>1. ~(limit \in 0..Len(wire))
    <3>1. Len(wire) \in Nat BY LenProperties DEF MessageInv
    <3> QED BY <1>5, <3>1, SMT
  <2> QED BY <1>2, <1>3, <2>1, LenProperties DEF MessageInv
<1>7. w \in Seq(Byte) /\ Len(w) \in Nat
  <2>1. f \in FieldTypes BY MessageAssumption
  <2>2. w \in Seq(Byte) BY <1>4, <1>5, <2>1, EncodeType
  <2> QED BY <2>2, LenProperties
<1>8. /\ sent' \in Seq(Fields) /\ Len(sent') = n + 1
      /\ \A i \in 1..n : sent'[i] = sent[i]
      /\ sent'[n + 1] = f
  BY <1>2, <1>5, <1>6, AppendProperties
<1>9. wire' \in Seq(Byte) /\ Len(wire') = l + Len(w)
  BY <1>3, <1>5, <1>6, <1>7, JoinedBytes
<1>10. Len(sent') <= MaxFields
  <2>1. MaxFields \in Nat BY MessageAssumption
  <2> QED BY <1>2, <1>5, <1>6, <1>8, <2>1, SMT
<1>11. \A i \in 1..Len(sent') : Encode(sent'[i]) # NoBytes
  <2> TAKE i \in 1..Len(sent')
  <2>1. i \in 1..n \/ i = n + 1 BY <1>6, <1>8, SMT
  <2> QED BY <1>4, <1>5, <1>6, <1>8, <2>1
<1>12. PICK more : more = [i \in 0..(n + 1) |-> IF i <= n THEN ends[i] ELSE l + Len(w)]
  OBVIOUS
<1>13. /\ ends \in [0..n -> Nat] /\ ends[0] = 0 /\ ends[n] = l
       /\ \A i \in 1..n : /\ ends[i] = ends[i - 1] + Len(Encode(sent[i]))
                          /\ Placed(Encode(sent[i]), ends[i - 1])
  BY <1>1, <1>2, <1>3 DEF Laid
<1>14. /\ \A i \in 0..n : more[i] = ends[i] /\ more[i] \in Nat
       /\ more[n + 1] = l + Len(w) /\ more[0] = 0
       /\ more \in [0..(n + 1) -> Nat]
  <2>1. \A i \in 0..n : i \in 0..(n + 1) /\ i <= n BY <1>6, SMT
  <2>2. n + 1 \in 0..(n + 1) /\ ~(n + 1 <= n) /\ 0 \in 0..n BY <1>6, SMT
  <2>3. \A i \in 0..(n + 1) : i \in 0..n \/ i = n + 1 BY <1>6, SMT
  <2>4. l + Len(w) \in Nat BY <1>6, <1>7, SMT
  <2>5. \A i \in 0..n : more[i] = ends[i] BY <1>12, <2>1
  <2>6. more[n + 1] = l + Len(w) BY <1>12, <2>2
  <2>7. \A i \in 0..n : more[i] \in Nat BY <1>13, <2>5
  <2>8. \A i \in 0..(n + 1) : more[i] \in Nat BY <2>3, <2>4, <2>6, <2>7
  <2>9. more = [i \in 0..(n + 1) |-> more[i]]
    <3> DEFINE e(i) == IF i <= n THEN ends[i] ELSE l + Len(w)
    <3>1. more = [i \in 0..(n + 1) |-> e(i)] BY <1>12
    <3> HIDE DEF e
    <3> QED BY <3>1
  <2>10. more \in [0..(n + 1) -> Nat] BY <2>8, <2>9
  <2> QED BY <1>13, <2>2, <2>5, <2>6, <2>7, <2>10
<1>15. \A i \in 1..Len(sent') :
         /\ more[i] = more[i - 1] + Len(Encode(sent'[i]))
         /\ Placed(Encode(sent[i]), more[i - 1])'
  <2> TAKE i \in 1..Len(sent')
  <2>1. CASE i \in 1..n
    <3>1. PICK e : e = Encode(sent[i]) OBVIOUS
    <3>2. PICK at : at = ends[i - 1] OBVIOUS
    <3>3. i - 1 \in 0..n /\ i \in 0..n BY <1>6, <2>1, SMT
    <3>4. sent'[i] = sent[i] /\ more[i] = ends[i] /\ more[i - 1] = at /\ at \in Nat
      BY <1>8, <1>14, <2>1, <3>2, <3>3
    <3>5. e \in Seq(Byte)
      <4>1. sent[i] \in Fields BY <1>2, <1>6, <2>1, ElementOfSeq
      <4>2. sent[i] \in FieldTypes BY <4>1, MessageAssumption
      <4> QED BY <1>6, <2>1, <3>1, <4>2, EncodeType
    <3>6. ends[i] = at + Len(e) /\ Placed(e, at) BY <1>13, <2>1, <3>1, <3>2
    <3>7. at + Len(e) <= Len(wire) /\ \A j \in 1..Len(e) : wire[at + j] = e[j]
      BY <3>6 DEF Placed
    <3>8. at + Len(e) <= Len(wire') /\ \A j \in 1..Len(e) : wire'[at + j] = e[j]
      BY <1>5, <1>6, <1>7, <3>4, <3>5, <3>7, Longer
    <3>9. Placed(e, at)' BY <3>8 DEF Placed
    <3>10. Encode(sent'[i]) = e BY <3>1, <3>4
    <3> QED BY <3>4, <3>6, <3>9, <3>10
  <2>2. CASE i = n + 1
    <3>1. Encode(sent'[i]) = w BY <1>4, <1>8, <2>2
    <3>2. i - 1 = n /\ n \in 0..n BY <1>6, <2>2, SMT
    <3>3. more[i - 1] = l /\ more[i] = l + Len(w) BY <1>13, <1>14, <2>2, <3>2
    <3>4. l + Len(w) <= Len(wire') /\ \A j \in 1..Len(w) : wire'[l + j] = w[j]
      BY <1>3, <1>5, <1>6, <1>7, Placing
    <3>5. Placed(w, l)' BY <3>4 DEF Placed
    <3> QED BY <3>1, <3>3, <3>5
  <2>3. i \in 1..n \/ i = n + 1 BY <1>6, <1>8, SMT
  <2> QED BY <2>1, <2>2, <2>3
<1>16. Len(got') = 0 /\ got' \in Seq(Values') /\ 1..Len(got') = {} /\ Len(got') <= Len(sent')
  <2>1. Len(got') = 0 /\ got' \in Seq(Values') BY <1>5, <1>6, EmptySeq
  <2>2. n + 1 >= 0 /\ 1..0 = {} BY <1>6, SMT
  <2> QED BY <1>8, <2>1, <2>2, SMT
<1>17. Laid(more)'
  <2>1. more \in [0..Len(sent') -> Nat] /\ more[0] = 0 /\ more[Len(sent')] = Len(wire')
    BY <1>8, <1>9, <1>14
  <2>2. more[Len(got')] = pos' BY <1>5, <1>6, <1>14, <1>16
  <2> QED BY <1>15, <2>1, <2>2 DEF Laid
<1>18. \E m : Laid(m)' BY <1>17
<1>19. limit' = -1 /\ got' = <<>> /\ pos' = 0 BY <1>5, <1>6
<1>20. reader' \in {"bridge", "client"} BY <1>5, <1>6
<1> QED BY <1>8, <1>9, <1>10, <1>11, <1>16, <1>18, <1>19, <1>20 DEF MessageInv

\* What the reader gets of a message starts at its first byte.
LEMMA ReceiveKeeps ==
    ASSUME MessageInv, NEW k \in 0..Len(wire), Receive(k)
    PROVE  MessageInv'
<1>1. PICK ends : Laid(ends) BY DEF MessageInv
<1>2. /\ limit = -1 /\ limit' = k /\ reader' = reader /\ sent' = sent /\ wire' = wire
      /\ pos' = pos /\ got' = got
  BY DEF Receive
<1>3. Len(wire) \in Nat BY LenProperties DEF MessageInv
<1>4. ~(limit \in 0..Len(wire)) BY <1>2, <1>3, SMT
<1>5. got = <<>> /\ pos = 0 BY <1>4 DEF MessageInv
<1>6. limit' \in 0..Len(wire') /\ pos' <= limit'
  <2>1. 0 <= k BY <1>3, SMT
  <2> QED BY <1>2, <1>5, <2>1
<1>7. Laid(ends)' BY <1>1, <1>2 DEF Laid, Placed
<1>8. \E m : Laid(m)' BY <1>7
<1>9. Len(got') = 0 /\ got' \in Seq(Values') BY <1>2, <1>5, EmptySeq
<1>10. 1..Len(got') = {} BY <1>9, SMT
<1>11. /\ reader' \in {"bridge", "client"} /\ sent' \in Seq(Fields) /\ Len(sent') <= MaxFields
       /\ \A i \in 1..Len(sent') : Encode(sent'[i]) # NoBytes
       /\ wire' \in Seq(Byte) /\ Len(got') <= Len(sent')
  BY <1>2 DEF MessageInv
<1> QED BY <1>6, <1>8, <1>9, <1>10, <1>11 DEF MessageInv

\* A field that was read or skipped.
LEMMA AdvanceKeeps ==
    ASSUME MessageInv, Reading, NEW v, v \in {<<>>, <<Delivered(Expected)>>},
           got' = Append(got, v), pos' = pos + Len(Encode(Expected)), pos' <= limit,
           UNCHANGED <<reader, sent, wire, limit>>
    PROVE  MessageInv'
<1>1. PICK ends : Laid(ends) BY DEF MessageInv
<1>2. /\ Expected \in Fields /\ Len(got) \in Nat /\ Len(got) + 1 \in 1..Len(sent)
      /\ ends[Len(got) + 1] = pos + Len(Encode(Expected))
  BY <1>1, NextField
<1>3. Expected = sent[Len(got) + 1] BY DEF Expected
<1>4. reader' = reader /\ sent' = sent /\ wire' = wire /\ limit' = limit OBVIOUS
<1>5. \A i : Delivered(sent[i])' = Delivered(sent[i]) BY <1>4 DEF Delivered, Decoded
<1>6. Values' = Values BY <1>4 DEF Values, Delivered, Decoded
<1>7. got \in Seq(Values) BY DEF MessageInv
<1>8. v \in Values BY <1>2 DEF Values
<1>9. /\ got' \in Seq(Values) /\ Len(got') = Len(got) + 1
      /\ \A i \in 1..Len(got) : got'[i] = got[i]
      /\ got'[Len(got) + 1] = v
  BY <1>7, <1>8, AppendProperties
<1>10. Len(got') <= Len(sent')
  <2>1. Len(sent) \in Nat BY LenProperties DEF MessageInv
  <2> QED BY <1>2, <1>4, <1>9, <2>1, SMT
<1>11. \A i \in 1..Len(got') : got'[i] \in {<<>>, <<Delivered(sent[i])'>>}
  <2> TAKE i \in 1..Len(got')
  <2>1. i \in 1..Len(got) \/ i = Len(got) + 1 BY <1>2, <1>9, SMT
  <2>2. CASE i \in 1..Len(got)
    <3>1. got[i] \in {<<>>, <<Delivered(sent[i])>>} BY <2>2 DEF MessageInv
    <3>2. got'[i] = got[i] /\ Delivered(sent[i])' = Delivered(sent[i]) BY <1>5, <1>9, <2>2
    <3> QED BY <3>1, <3>2
  <2>3. CASE i = Len(got) + 1
    <3>1. got'[i] = v /\ Delivered(sent[i])' = Delivered(Expected) BY <1>3, <1>5, <1>9, <2>3
    <3> QED BY <3>1
  <2> QED BY <2>1, <2>2, <2>3
<1>12. Laid(ends)'
  <2>1. ends[Len(got')] = pos' BY <1>2, <1>9
  <2> QED BY <1>1, <1>4, <2>1 DEF Laid, Placed
<1>13. \E m : Laid(m)' BY <1>12
<1>14. limit' \in 0..Len(wire') /\ pos' <= limit' BY <1>4 DEF MessageInv, Reading
<1>15. /\ reader' \in {"bridge", "client"} /\ sent' \in Seq(Fields) /\ Len(sent') <= MaxFields
       /\ \A i \in 1..Len(sent') : Encode(sent'[i]) # NoBytes
       /\ wire' \in Seq(Byte)
  BY <1>4 DEF MessageInv
<1> QED BY <1>6, <1>9, <1>10, <1>11, <1>13, <1>14, <1>15 DEF MessageInv

\* A field that is read is the one written there, and read to its end.
LEMMA ReadKeeps ==
    ASSUME MessageInv, Read
    PROVE  MessageInv'
<1>1. PICK ends : Laid(ends) BY DEF MessageInv
<1>2. Reading /\ UNCHANGED <<reader, sent, wire, limit>> BY DEF Read
<1>3. /\ Ready /\ pos \in Nat /\ Expected \in FieldTypes
      /\ Encode(Expected) # NoBytes /\ Placed(Encode(Expected), pos)
  BY <1>1, <1>2, NextField
<1> DEFINE read == ReadField(Expected, pos)
<1>4. read # Underrun /\ got' = Append(got, <<read.value>>) /\ pos' = read.next
  BY DEF Read
<1>5. Reads(read, Delivered(Expected), Encode(Expected), pos) BY <1>3, FieldReads
<1> HIDE DEF read
<1>6. read = [value |-> Delivered(Expected), next |-> pos + Len(Encode(Expected))]
      /\ pos + Len(Encode(Expected)) <= limit
  BY <1>4, <1>5 DEF Reads
<1>7. read.value = Delivered(Expected) /\ read.next = pos + Len(Encode(Expected))
  BY <1>6, NotUnderrun
<1>8. pos' = pos + Len(Encode(Expected)) /\ pos' <= limit BY <1>4, <1>6, <1>7
<1>9. got' = Append(got, <<Delivered(Expected)>>) BY <1>4, <1>7
<1> QED BY <1>2, <1>8, <1>9, AdvanceKeeps

\* A field that is skipped is passed to its end.
LEMMA SkipKeeps ==
    ASSUME MessageInv, Skip
    PROVE  MessageInv'
<1>1. PICK ends : Laid(ends) BY DEF MessageInv
<1>2. Reading /\ UNCHANGED <<reader, sent, wire, limit>> BY DEF Skip
<1>3. /\ Ready /\ pos \in Nat /\ Expected \in FieldTypes
      /\ Encode(Expected) # NoBytes /\ Placed(Encode(Expected), pos)
  BY <1>1, <1>2, NextField
<1> DEFINE read == Skipped(Expected, pos)
<1>4. read # Underrun /\ got' = Append(got, <<>>) /\ pos' = read.next
  BY DEF Skip, Skipped
<1>5. read.next = pos + Len(Encode(Expected)) /\ pos + Len(Encode(Expected)) <= limit
  BY <1>3, <1>4, FieldReads
<1>6. pos' = pos + Len(Encode(Expected)) /\ pos' <= limit BY <1>4, <1>5
<1> QED BY <1>2, <1>4, <1>6, AdvanceKeeps

\* Every step keeps the invariant.
LEMMA MessageStep == MessageInv /\ [Next]_vars => MessageInv'
<1> SUFFICES ASSUME MessageInv, [Next]_vars
             PROVE  MessageInv'
  OBVIOUS
<1>1. CASE \E f \in Fields : Write(f) BY <1>1, WriteKeeps
<1>2. CASE \E n \in 0..Len(wire) : Receive(n) BY <1>2, ReceiveKeeps
<1>3. CASE Read BY <1>3, ReadKeeps
<1>4. CASE Skip BY <1>4, SkipKeeps
<1>5. CASE UNCHANGED vars
  <2>1. /\ reader' = reader /\ sent' = sent /\ wire' = wire /\ limit' = limit
        /\ pos' = pos /\ got' = got
    BY <1>5 DEF vars
  <2>2. PICK ends : Laid(ends) BY DEF MessageInv
  <2>3. Laid(ends)' BY <2>1, <2>2 DEF Laid, Placed
  <2>4. \E m : Laid(m)' BY <2>3
  <2>5. \A i : Delivered(sent[i])' = Delivered(sent[i]) BY <2>1 DEF Delivered, Decoded
  <2>6. Values' = Values BY <2>1 DEF Values, Delivered, Decoded
  <2>7. \A i \in 1..Len(got') : got'[i] \in {<<>>, <<Delivered(sent[i])'>>}
    BY <2>1, <2>5 DEF MessageInv
  <2>8. /\ reader' \in {"bridge", "client"} /\ sent' \in Seq(Fields) /\ Len(sent') <= MaxFields
        /\ \A i \in 1..Len(sent') : Encode(sent'[i]) # NoBytes
        /\ wire' \in Seq(Byte) /\ Len(got') <= Len(sent')
        /\ \/ limit' = -1 /\ got' = <<>> /\ pos' = 0
           \/ limit' \in 0..Len(wire') /\ pos' <= limit'
    BY <2>1 DEF MessageInv
  <2>9. got' \in Seq(Values') BY <2>1, <2>6 DEF MessageInv
  <2> QED BY <2>4, <2>7, <2>8, <2>9 DEF MessageInv
<1> QED BY <1>1, <1>2, <1>3, <1>4, <1>5 DEF Next

\* The invariant holds of every message at all times.
LEMMA MessageAlways == Spec => []MessageInv
<1> QED BY MessageInit, MessageStep, PTL DEF Spec

-----------------------------------------------------------------------------
(* What it means for the message                                           *)

\* Where the reader is: before the end of what it has, and at the end after all fields.
LEMMA ReaderPlace ==
    ASSUME MessageInv
    PROVE  /\ limit \in -1..Len(wire) /\ pos \in 0..Len(wire)
           /\ Len(got) = Len(sent) /\ limit # -1 => pos = Len(wire) /\ limit = Len(wire)
<1>1. PICK ends : Laid(ends) BY DEF MessageInv
<1>2. Len(wire) \in Nat /\ Len(got) \in Nat /\ Len(sent) \in Nat /\ Len(got) <= Len(sent)
  BY LenProperties DEF MessageInv
<1>3. Len(got) \in 0..Len(sent) BY <1>2, SMT
<1>4. pos \in Nat BY <1>1, <1>3 DEF Laid
<1>5. CASE limit = -1 /\ pos = 0
  <2>1. -1 \in -1..Len(wire) /\ 0 \in 0..Len(wire) BY <1>2, SMT
  <2> QED BY <1>5, <2>1
<1>6. CASE limit \in 0..Len(wire) /\ pos <= limit
  <2>1. limit \in -1..Len(wire) /\ pos \in 0..Len(wire) BY <1>2, <1>4, <1>6, SMT
  <2>2. Len(got) = Len(sent) => pos = Len(wire) BY <1>1 DEF Laid
  <2>3. pos = Len(wire) => limit = Len(wire) BY <1>2, <1>6, SMT
  <2> QED BY <2>1, <2>2, <2>3
<1> QED BY <1>5, <1>6 DEF MessageInv

\* A value that was read is what its field is delivered as.
LEMMA ArrivedValues ==
    ASSUME MessageInv, NEW kinds, NEW i \in Arrived(kinds)
    PROVE  /\ got[i] = <<Delivered(sent[i])>>
           /\ sent[i] \in FieldTypes /\ sent[i].kind \in kinds
           /\ reader \in {"bridge", "client"}
<1>1. DOMAIN got = 1..Len(got) /\ Len(got) \in Nat /\ Len(sent) \in Nat /\ Len(got) <= Len(sent)
  BY LenProperties DEF MessageInv
<1>2. i \in 1..Len(got) /\ sent[i].kind \in kinds /\ got[i] # <<>> BY <1>1 DEF Arrived
<1>3. got[i] = <<Delivered(sent[i])>> BY <1>2 DEF MessageInv
<1>4. i \in 1..Len(sent) BY <1>1, <1>2, SMT
<1>5. sent[i] \in Fields BY <1>4, ElementOfSeq DEF MessageInv
<1> QED BY <1>2, <1>3, <1>5, MessageAssumption DEF MessageInv

\* The reader stays within the message, for every sequence of fields.
THEOREM MessageTypes == Spec => []TypeOK
<1>1. MessageInv => TypeOK
  <2> SUFFICES ASSUME MessageInv
               PROVE  TypeOK
    OBVIOUS
  <2> QED BY ReaderPlace DEF MessageInv, TypeOK
<1> QED BY <1>1, MessageAlways, PTL

\* Every integer and byte string that was read is what was written, of any length and
\* any value, and whatever fields were read or skipped before it (buffer.py:70-133).
THEOREM FieldsAreRead == Spec => []FieldsArrive
<1>1. MessageInv => FieldsArrive
  <2> SUFFICES ASSUME MessageInv, NEW i \in Arrived({"int", "bytes", "counted"})
               PROVE  got[i] = <<sent[i].value>>
    BY DEF FieldsArrive
  <2>1. /\ got[i] = <<Delivered(sent[i])>>
        /\ sent[i].kind \in {"int", "bytes", "counted"}
    BY ArrivedValues
  <2>2. CASE sent[i].kind = "int" BY <2>1, <2>2 DEF Delivered
  <2>3. CASE sent[i].kind \in {"bytes", "counted"}
    <3>1. Payload(sent[i]) = sent[i].value BY <2>3 DEF Payload
    <3>2. Delivered(sent[i]) = sent[i].value BY <2>3, <3>1 DEF Delivered, Decoded
    <3> QED BY <2>1, <3>2
  <2> QED BY <2>1, <2>2, <2>3
<1> QED BY <1>1, MessageAlways, PTL

\* The last field of a message is read only if all its bytes are there, and then every
\* byte was read (buffer.py:41-44).
THEOREM CutsAreSeen == Spec => []CutsAreNoticed
<1>1. MessageInv => CutsAreNoticed BY ReaderPlace DEF CutsAreNoticed
<1> QED BY <1>1, MessageAlways, PTL

\* A NUMBER in a message arrives as it was, on both sides, but for the three losses of
\* types.py:103, 146 and 165.
THEOREM NumbersArrive == Spec => []OnlyKnownNumbersChange
<1>1. MessageInv => OnlyKnownNumbersChange
  <2> SUFFICES ASSUME MessageInv, NEW i \in Arrived({"number"})
               PROVE  LET n == sent[i].value
                      IN  \/ got[i] = <<n>>
                          \/ ~Encodable(n)
                          \/ reader = "bridge" /\ (Len(n.digits) > Precision
                                                     \/ (~n.neg /\ n.point < -127))
    BY DEF OnlyKnownNumbersChange
  <2> DEFINE n == sent[i].value
             bs == EncodeNumber(n)
  <2>1. /\ got[i] = <<Delivered(sent[i])>> /\ sent[i] \in FieldTypes
        /\ sent[i].kind = "number" /\ reader \in {"bridge", "client"}
    BY ArrivedValues
  <2>2. n \in Numbers BY <2>1, FieldShape
  <2> HIDE DEF n
  <2>3. SUFFICES ASSUME Encodable(n),
                        ~(reader = "bridge" /\ (Len(n.digits) > Precision
                                                  \/ (~n.neg /\ n.point < -127)))
                 PROVE  got[i] = <<n>>
    BY DEF n
  <2>4. bs # NoBytes /\ bs # <<>> BY <2>2, <2>3, NumberBytes DEF NoBytes
  <2>5. Payload(sent[i]) = bs BY <2>1, <2>4 DEF Payload, Column, n
  <2> HIDE DEF bs
  <2>6. Delivered(sent[i]) = IF reader = "bridge" THEN DecodeNumber(bs) ELSE ClientNumber(bs)
    BY <2>1, <2>4, <2>5 DEF Delivered, Decoded
  <2>7. CASE reader = "bridge"
    <3>1. n.point \in Int /\ Len(n.digits) \in Int
      <4>1. CASE n = Zero
        <5>1. n.point = 0 /\ n.digits = <<>> BY <4>1, SMT DEF Zero
        <5>2. Len(n.digits) = 0 BY <5>1, EmptySeq
        <5> QED BY <5>1, <5>2, SMT
      <4>2. CASE n # Zero
        <5>1. n.point \in Int /\ Len(n.digits) \in Nat BY <2>2, <4>2, NumberShape
        <5> QED BY <5>1, SMT
      <4> QED BY <4>1, <4>2
    <3>2. Precision \in Int BY ValuesAssumption, SMT
    <3>3. Len(n.digits) <= Precision /\ (n.neg \/ n.point >= -127)
      BY <2>3, <2>7, <3>1, <3>2, SMT
    <3>4. DecodeNumber(bs) = n BY <2>2, <2>3, <3>3, BridgeReadsNumbers DEF bs
    <3> QED BY <2>1, <2>6, <2>7, <3>4
  <2>8. CASE reader = "client"
    <3>1. ClientNumber(bs) = n BY <2>2, <2>3, ClientReadsNumbers DEF bs
    <3>2. reader # "bridge" BY <2>8
    <3> QED BY <2>1, <2>6, <3>1, <3>2
  <2> QED BY <2>1, <2>7, <2>8
<1> QED BY <1>1, MessageAlways, PTL

\* Every TIMESTAMP in a message arrives to the microsecond, and so does every INTERVAL
\* that is not negative and below 2^34 seconds or .992188 of a second (types.py:179-227,
\* 262-275).
THEOREM TimesAreRead == Spec => []TimesArrive
<1>1. MessageInv => TimesArrive
  <2> SUFFICES ASSUME MessageInv, NEW i \in Arrived({"timestamp", "interval"}),
                      sent[i].kind = "timestamp" \/ Exact(sent[i].value)
               PROVE  got[i] = <<sent[i].value>>
    BY DEF TimesArrive
  <2> DEFINE v == sent[i].value
             bs == Payload(sent[i])
  <2>1. /\ got[i] = <<Delivered(sent[i])>> /\ sent[i] \in FieldTypes
        /\ sent[i].kind \in {"timestamp", "interval"}
    BY ArrivedValues
  <2>2. CASE sent[i].kind = "timestamp"
    <3>1. v \in DateTimes BY <2>1, <2>2, FieldShape
    <3>2. bs = EncodeTimestamp(v, FALSE) BY <2>2 DEF Payload
    <3>3. bs # <<>> BY <3>1, <3>2, TimestampBytes
    <3>4. FALSE \in BOOLEAN OBVIOUS
    <3>5. DecodeTimestamp(bs) = v BY <3>1, <3>2, <3>4, TimestampsSurvive
    <3> HIDE DEF bs
    <3>6. Delivered(sent[i]) = DecodeTimestamp(bs) BY <2>2, <3>3 DEF Delivered, Decoded, bs
    <3> QED BY <2>1, <3>5, <3>6
  <2>3. CASE sent[i].kind = "interval"
    <3>1. v \in Intervals /\ Exact(v) BY <2>1, <2>3, FieldShape
    <3>2. bs = EncodeInterval(v) BY <2>3 DEF Payload
    <3>3. bs # <<>> BY <3>1, <3>2, IntervalBytes
    <3>4. DecodeInterval(bs) = v BY <3>1, <3>2, IntervalsSurvive
    <3> HIDE DEF bs
    <3>5. Delivered(sent[i]) = DecodeInterval(bs) BY <2>3, <3>3 DEF Delivered, Decoded, bs
    <3> QED BY <2>1, <3>4, <3>5
  <2> QED BY <2>1, <2>2, <2>3
<1> QED BY <1>1, MessageAlways, PTL

=============================================================================
