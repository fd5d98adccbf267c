----------------------------- MODULE TtcMessage -----------------------------
(***************************************************************************)
(* One TTC message from its writer to its reader: TTCWriter and TTCReader  *)
(* (buffer.py) with the values of types.py.  An answer is written by the   *)
(* bridge and read by the client, a request the other way round; both ends *)
(* use the same primitives, except for NUMBER, of which the client has its *)
(* own decoder.                                                            *)
(*                                                                         *)
(* The reader knows from the protocol which field comes next, never from   *)
(* the bytes: a field it takes for longer or shorter than it is shifts all *)
(* that follow.  It gets the whole message, or, of a request that spans    *)
(* several packets, the first part.  NULL and the empty string are one.    *)
(***************************************************************************)
EXTENDS OracleValues

CONSTANTS
    ShortMax,            \* the longest byte string with a length of one byte: 252
    ChunkSize,           \* the longest chunk of a longer one: 32767
    Fields,              \* the fields a message can have
    MaxFields            \* how many it can have (bound)

\* A number that encode_number refuses is an integer: TextOf writes no others.
FieldTypes ==
    [kind : {"int"}, width : {1, 2, 4, 8}, value : Int]
      \cup [kind : {"bytes", "counted"}, value : Seq(Byte)]
      \cup [kind : {"number"},
            value : {n \in Numbers : Encodable(n) \/ n.point >= Len(n.digits)}]
      \cup [kind : {"timestamp"}, value : DateTimes]
      \cup [kind : {"interval"}, value : Intervals]

ASSUME MessageAssumption ==
    /\ ShortMax \in 1..252 /\ MaxFields \in Nat
    /\ ChunkSize \in Nat \ {0} /\ ChunkSize < 2147483647
    /\ Fields \subseteq FieldTypes

VARIABLES
    reader,              \* "bridge" for a request, "client" for an answer
    sent,                \* the fields written
    wire,                \* their bytes
    limit,               \* how many of them the reader has; -1 while it has none
    pos,                 \* how many it has read
    got                  \* the values it read: <<v>>, or <<>> for one it skipped

vars == <<reader, sent, wire, limit, pos, got>>

\* What a read past the end of the reader's data raises: TnsBufError.
Underrun == [underrun |-> TRUE]

-----------------------------------------------------------------------------
(* Writing                                                                 *)

\* A byte string in chunks, from the one that starts where r bytes are left.
Chunks(bs) ==
    LET c[r \in 0..Len(bs)] ==
          IF r = 0 THEN U32(0)
          ELSE LET n == Min({ChunkSize, r})
               IN  U32(n) \o SubSeq(bs, Len(bs) - r + 1, Len(bs) - r + n) \o c[r - n]
    IN  c

\* What n is after each of k shifts by a byte.
Shifted(n, k) == LET q[i \in 0..k] == IF i = 0 THEN n ELSE q[i - 1] \div 256 IN q

\* enc_varint; to_bytes raises OverflowError for what needs more than width bytes.
Varint(n, width) ==
    LET m == IF n < 0 THEN -n ELSE n
        q == Shifted(m, width)
        k == Min({i \in 1..width : q[i] = 0})
    IN  IF m = 0 THEN <<0>>
        ELSE IF q[width] # 0 THEN NoBytes
        ELSE <<k + (IF n < 0 THEN 128 ELSE 0)>> \o [i \in 1..k |-> q[k - i] % 256]

LengthPrefixed(bs) ==
    IF bs = <<>> THEN <<0>>
    ELSE IF Len(bs) <= ShortMax THEN <<Len(bs)>> \o bs
    ELSE <<254>> \o Chunks(bs)[Len(bs)]

\* str(value), for the integers.
TextOf(n) == (IF n.neg THEN <<45>> ELSE <<>>)
               \o [i \in 1..n.point |-> 48 + (IF i \in DOMAIN n.digits THEN n.digits[i] ELSE 0)]

\* _write_column_value: what encode_number cannot encode goes out as its text.
Column(n) == IF EncodeNumber(n) = NoBytes THEN TextOf(n) ELSE EncodeNumber(n)

Encode(f) ==
    CASE f.kind = "int"       -> Varint(f.value, f.width)
      [] f.kind = "bytes"     -> LengthPrefixed(f.value)
      [] f.kind = "counted"   -> IF f.value = <<>> THEN Varint(0, 4)
                                 ELSE IF Varint(Len(f.value), 4) = NoBytes THEN NoBytes
                                 ELSE Varint(Len(f.value), 4) \o LengthPrefixed(f.value)
      [] f.kind = "number"    -> LengthPrefixed(Column(f.value))
      [] f.kind = "timestamp" -> LengthPrefixed(EncodeTimestamp(f.value, FALSE))
      [] f.kind = "interval"  -> LengthPrefixed(EncodeInterval(f.value))

-----------------------------------------------------------------------------
(* Plausible mistakes in the reader: a slice, which in Python is shorter    *)
(* when the data is, and a count of zero that is followed by bytes.         *)

RawSliced(n, at) ==
    [value |-> [i \in 1..n |-> IF at + i <= limit THEN wire[at + i] ELSE 0], next |-> at + n]

-----------------------------------------------------------------------------
(* Reading: what a primitive finds after `at' bytes, and where it stops    *)

Raw(n, at) ==
    IF limit - at < n THEN Underrun
    ELSE [value |-> SubSeq(wire, at + 1, at + n), next |-> at + n]

\* TTCReader.varint, which knows how long the integer may be, as skip_ub does not.
ReadVarint(width, at) ==
    LET first == Raw(1, at)
    IN  IF first = Underrun THEN Underrun
        ELSE LET n     == first.value[1] % 128
                 bytes == Raw(n, at + 1)
                 m[k \in 0..n] == IF k = 0 THEN 0 ELSE 256 * m[k - 1] + bytes.value[k]
             IN  IF n > width \/ bytes = Underrun THEN Underrun
                 ELSE [value |-> IF first.value[1] < 128 THEN m[n] ELSE -m[n],
                       next  |-> at + 1 + n]

SkipVarint(at) ==
    LET first == Raw(1, at)
    IN  IF first = Underrun THEN Underrun ELSE Raw(first.value[1] % 128, at + 1)

ReadChunks[at \in Nat] ==
    LET size  == Raw(4, at)
        n     == FromU32(size.value, 1)
        chunk == Raw(n, at + 4)
        rest  == ReadChunks[at + 4 + n]
    IN  IF size = Underrun THEN Underrun
        ELSE IF n = 0 THEN [value |-> <<>>, next |-> at + 4]
        ELSE IF chunk = Underrun \/ rest = Underrun THEN Underrun
        ELSE [value |-> chunk.value \o rest.value, next |-> rest.next]

\* length_prefixed_bytes
ReadBytes(at) ==
    LET first == Raw(1, at)
    IN  IF first = Underrun THEN Underrun
        ELSE IF first.value[1] \in {0, 255} THEN [value |-> <<>>, next |-> at + 1]
        ELSE IF first.value[1] = 254 THEN ReadChunks[at + 1]
        ELSE Raw(first.value[1], at + 1)

ReadCountedAlways(at) ==
    LET count == ReadVarint(4, at)
    IN  IF count = Underrun THEN Underrun ELSE ReadBytes(count.next)

\* read_bytes_with_length: the count only says whether there are bytes at all.
ReadCounted(at) ==
    LET count == ReadVarint(4, at)
    IN  IF count = Underrun THEN Underrun
        ELSE IF count.value > 0 THEN ReadBytes(count.next)
        ELSE [value |-> <<>>, next |-> count.next]

\* _decode_bind_value, or the client's decoder.
Decoded(kind, bs) ==
    CASE bs = <<>>          -> bs
      [] kind = "number"    -> IF reader = "bridge" THEN DecodeNumber(bs) ELSE ClientNumber(bs)
      [] kind = "timestamp" -> DecodeTimestamp(bs)
      [] kind = "interval"  -> DecodeInterval(bs)
      [] OTHER              -> bs

ReadField(f, at) ==
    IF f.kind = "int" THEN ReadVarint(f.width, at)
    ELSE LET read == IF f.kind = "counted" THEN ReadCounted(at) ELSE ReadBytes(at)
         IN  IF read = Underrun THEN Underrun
             ELSE [value |-> Decoded(f.kind, read.value), next |-> read.next]


-----------------------------------------------------------------------------
(* The message                                                             *)

Init ==
    /\ reader \in {"bridge", "client"}
    /\ sent = <<>> /\ wire = <<>> /\ got = <<>>
    /\ limit = -1 /\ pos = 0

Write(f) ==
    /\ limit = -1 /\ Len(sent) < MaxFields
    /\ Encode(f) # NoBytes
    /\ sent' = Append(sent, f)
    /\ wire' = wire \o Encode(f)
    /\ UNCHANGED <<reader, limit, pos, got>>

\* The reader gets the message or, of a request, some first part of it.
Receive(n) ==
    /\ limit = -1
    /\ n <= Len(wire)
    /\ n = Len(wire) \/ reader = "bridge"
    /\ limit' = n
    /\ UNCHANGED <<reader, sent, wire, pos, got>>

Expected == sent[Len(got) + 1]
Reading == limit # -1 /\ Len(got) < Len(sent)

Read ==
    /\ Reading
    /\ LET read == ReadField(Expected, pos)
       IN  /\ read # Underrun
           /\ got' = Append(got, <<read.value>>)
           /\ pos' = read.next
    /\ UNCHANGED <<reader, sent, wire, limit>>

\* A field the handler does not look at: skip_ub2/4/8, skip_bytes(_with_length).
Skip ==
    /\ Reading
    /\ LET read == IF Expected.kind = "int" THEN SkipVarint(pos)
                   ELSE IF Expected.kind = "counted" THEN ReadCounted(pos) ELSE ReadBytes(pos)
       IN  /\ read # Underrun
           /\ got' = Append(got, <<>>)
           /\ pos' = read.next
    /\ UNCHANGED <<reader, sent, wire, limit>>

Next ==
    \/ \E f \in Fields : Write(f)
    \/ \E n \in 0..Len(wire) : Receive(n)
    \/ Read
    \/ Skip

Spec == Init /\ [][Next]_vars

-----------------------------------------------------------------------------
TypeOK ==
    /\ reader \in {"bridge", "client"}
    /\ sent \in Seq(Fields) /\ Len(sent) <= MaxFields
    /\ wire \in Seq(Byte)
    /\ limit \in -1..Len(wire) /\ pos \in 0..Len(wire)
    /\ Len(got) <= Len(sent)

\* The values read of fields of some kinds, none of them skipped.
Arrived(kinds) == {i \in DOMAIN got : sent[i].kind \in kinds /\ got[i] # <<>>}

\* Whatever was read or skipped before it, in chunks or not, an integer or a byte string
\* is read as it was written, also in the first part of a message that was cut:
\* the reader (buffer.py:70-133) never loses its place.
FieldsArrive == \A i \in Arrived({"int", "bytes", "counted"}) : got[i] = <<sent[i].value>>

\* A message that was cut is noticed before its last field: the reader raises
\* TnsBufError (buffer.py:41-44) and never makes a value of bytes that are not there.
\* A message that was not is read to its last byte.
CutsAreNoticed == Len(got) = Len(sent) /\ limit # -1 => pos = Len(wire) /\ limit = Len(wire)

\* A NUMBER arrives with its sign, every digit and its decimal point, except for what
\* types.py gives away: more than 28 digits as a bind (:165), more than 40 as a column
\* (:103), and binds from 1E-130 up to 1E-128, whose exponent byte is that of zero (:146).
OnlyKnownNumbersChange ==
    \A i \in Arrived({"number"}) :
        LET n == sent[i].value
        IN  \/ got[i] = <<n>>
            \/ ~Encodable(n)
            \/ reader = "bridge" /\ (Len(n.digits) > Precision \/ (~n.neg /\ n.point < -127))

\* A TIMESTAMP arrives to the microsecond, and so does an INTERVAL that is not negative,
\* but for those that types.py:265 may round up to the next second: 2^34 seconds and more
\* with a fraction of .992188 or more.
TimesArrive ==
    \A i \in Arrived({"timestamp", "interval"}) :
        sent[i].kind = "timestamp" \/ Exact(sent[i].value) => got[i] = <<sent[i].value>>

\* "Server-side encoders (values towards the client) and server-side decoders (binds
\* incoming from the client).  Mirror algorithms of python-oracledb" (types.py:3-5): what
\* the bridge wrote is what the client reads, for every INTERVAL.
IntervalsArrive ==
    reader = "client" => \A i \in Arrived({"interval"}) : got[i] = <<sent[i].value>>

=============================================================================
