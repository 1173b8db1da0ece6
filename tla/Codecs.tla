------------------------------- MODULE Codecs -------------------------------
(***************************************************************************)
(* The column encodings of the log store (internal/logstore/encoding).     *)
(* Bytes are cells holding naturals: a fixed-width integer takes one cell, *)
(* a bit of a bitmap one cell, a varint as many as its digits; the widths  *)
(* and the length escape are constants, small in the model.  A string is a *)
(* sequence of cells, so a decoder that loses its place reads characters   *)
(* as lengths.  Offsets count the cells already read.                      *)
(***************************************************************************)
EXTENDS Integers, Sequences, FiniteSets, SequencesExt, FiniteSetsExt

CONSTANTS WordBits,      \* width of an int64
          ByteBits,      \* bits that BitpackEncode puts in one byte
          VarintBase,    \* 128
          LenMarker,     \* extendedLenMarker, 0xFFFF
          MaxValueCells, \* MaxValueBytes
          MaxDictEntries,
          MinCeiling,    \* minDecodeCeiling
          MaxBlockCells, \* MaxBlockBytes
          MaxColumnValue, MaxVarint, MaxLenFraming

Fail == [ok |-> FALSE, v |-> <<>>, off |-> 0]
Good(v, off) == [ok |-> TRUE, v |-> v, off |-> off]
Steps(n) == [i \in 1..n |-> i]

\* ----------------------------------------------------------- words and varints
Wrap(v) == ((v + 2^(WordBits - 1)) % 2^WordBits) - 2^(WordBits - 1)
Unsigned(v) == v % 2^WordBits

ZigZagEncode(v) == IF v >= 0 THEN 2 * v ELSE -2 * v - 1
ZigZagDecode(u) == IF u % 2 = 0 THEN u \div 2 ELSE -(u \div 2) - 1
PutUvarint(n) ==
  LET digits == CHOOSE k \in 1..WordBits : VarintBase^k > n /\ (k = 1 \/ VarintBase^(k - 1) <= n)
  IN [i \in 1..digits |-> ((n \div VarintBase^(i - 1)) % VarintBase) + IF i < digits THEN VarintBase ELSE 0]
PutVarint(v) == PutUvarint(ZigZagEncode(v))
\* binary.Uvarint: fails when no final digit follows.
Uvarint(data, off) ==
  LET finals == {i \in (off + 1)..Len(data) : data[i] < VarintBase}
  IN IF finals = {} THEN Fail
     ELSE Good(MapThenSumSet(LAMBDA i : (data[i] % VarintBase) * VarintBase^(i - off - 1),
                             (off + 1)..Min(finals)), Min(finals))

\* ------------------------------------------------- length prefixes and strings
\* Mutant: a length equal to the escape is written in the short form.
appendLenShort(n) == IF n <= LenMarker THEN <<n>> ELSE <<LenMarker, n>>
appendLen(n) == IF n < LenMarker THEN <<n>> ELSE <<LenMarker, n>>
AppendLenString(s) == appendLen(Len(s)) \o s
\* A format is "uint16", of old chunks, or "extended", with the escape.
ReadLen(f, data, off) ==
  IF off + 1 > Len(data) THEN Fail
  ELSE LET long == f = "extended" /\ data[off + 1] = LenMarker
           at == IF long THEN off + 2 ELSE off + 1
       IN IF at > Len(data) \/ data[at] > MaxValueCells THEN Fail ELSE Good(data[at], at)
ReadString(f, data, off) ==
  LET n == ReadLen(f, data, off)
  IN IF ~n.ok \/ n.off + n.v > Len(data) THEN Fail
     ELSE Good(SubSeq(data, n.off + 1, n.off + n.v), n.off + n.v)
ReadStrings(f, data, off, count) ==
  FoldLeft(LAMBDA st, i : LET r == ReadString(f, data, st.off)
                          IN IF ~st.ok \/ ~r.ok THEN Fail ELSE Good(Append(st.v, r.v), r.off),
           Good(<<>>, off), Steps(count))

\* ------------------------------------------------------------------------ zstd
\* The library: one frame around its input, nothing for no input.
Frame == 0
Compress(src) == IF src = <<>> THEN <<>> ELSE <<Frame>> \o src
DecodeCeiling(count, perValue) ==
  IF count <= 0 \/ perValue <= 0 THEN MinCeiling
  ELSE IF count > MaxBlockCells \div perValue THEN MaxBlockCells
  ELSE Max({count * perValue, MinCeiling})
DecompressBounded(src, ceiling) ==
  IF src = <<>> THEN Good(<<>>, 0)
  ELSE IF Head(src) # Frame \/ Len(src) - 1 > Min({ceiling, MaxBlockCells}) THEN Fail
  ELSE Good(Tail(src), 0)
ValueCeiling(count) == DecodeCeiling(count, MaxColumnValue + MaxLenFraming)

\* ---------------------------------------------------------------- int columns
DeltaEncode(values) ==
  IF values = <<>> THEN <<>>
  ELSE <<Unsigned(values[1])>> \o Compress(FlattenSeq(
         [i \in DOMAIN values |-> PutVarint(Wrap(values[i] - values[IF i = 1 THEN 1 ELSE i - 1]))]))
DeltaDecode(data, count) ==
  IF data = <<>> THEN Fail
  ELSE LET raw == DecompressBounded(Tail(data), DecodeCeiling(count, MaxVarint))
           base == Wrap(data[1])
           next(st, i) == LET u == Uvarint(raw.v, st.off)
                              prev == IF st.v = <<>> THEN base ELSE Last(st.v)
                          IN IF ~st.ok \/ st.off >= Len(raw.v) THEN st
                             ELSE IF ~u.ok THEN Fail
                             ELSE Good(Append(st.v, Wrap(prev + ZigZagDecode(u.v))), u.off)
       IN IF ~raw.ok THEN Fail ELSE FoldLeft(next, Good(<<>>, 0), Steps(count))
ZstdBlockEncodeInt64(values) == Compress([i \in DOMAIN values |-> Unsigned(values[i])])
ZstdBlockDecodeInt64(data, count) ==
  LET raw == DecompressBounded(data, DecodeCeiling(count, 1))
  IN IF ~raw.ok THEN Fail
     ELSE Good([i \in 1..count |-> IF i <= Len(raw.v) THEN Wrap(raw.v[i]) ELSE 0], 0)

\* ------------------------------------------------- string blocks, dictionaries
ZstdBlockEncodeStrings(values) == Compress(FlattenSeq([i \in DOMAIN values |-> AppendLenString(values[i])]))
ZstdBlockDecodeStrings(data, count, f) ==
  LET raw == DecompressBounded(data, ValueCeiling(count))
  IN IF raw.ok THEN ReadStrings(f, raw.v, 0, count) ELSE Fail

\* A value that does not fit becomes index 0, the empty string.
DictEncodeLimit(values, limit) ==
  LET fit == IF limit < 1 \/ limit > MaxDictEntries THEN MaxDictEntries ELSE limit
      next(d, v) == LET at == {i \in DOMAIN d.dict : d.dict[i] = v}
                    IN IF at # {} THEN [d EXCEPT !.indices = Append(@, Min(at) - 1)]
                       ELSE IF Len(d.dict) >= fit THEN [d EXCEPT !.indices = Append(@, 0)]
                       ELSE [dict |-> Append(d.dict, v), indices |-> Append(d.indices, Len(d.dict))]
  IN FoldLeft(next, [dict |-> << <<>> >>, indices |-> <<>>], values)
serializeDictOnly(dict) == <<Len(dict)>> \o FlattenSeq([i \in DOMAIN dict |-> AppendLenString(dict[i])])
deserializeDictOnly(data, f) == IF data = <<>> THEN Fail ELSE ReadStrings(f, data, 1, data[1])
DictMarshal(d) ==
  LET buf == serializeDictOnly(d.dict) IN <<Len(buf)>> \o buf \o Compress(d.indices)
DictLookup(dict, indices) ==
  [i \in DOMAIN indices |-> IF indices[i] < Len(dict) THEN dict[indices[i] + 1] ELSE <<>>]
\* DictUnmarshal and DictLookup, as ReadDictZstd uses them.
DictUnmarshal(data, count, f) ==
  IF data = <<>> \/ 1 + data[1] > Len(data) THEN Fail
  ELSE LET dict == deserializeDictOnly(SubSeq(data, 2, 1 + data[1]), f)
           raw == DecompressBounded(SubSeq(data, 2 + data[1], Len(data)), DecodeCeiling(count, 1))
       IN IF ~dict.ok \/ ~raw.ok THEN Fail
          ELSE Good(DictLookup(dict.v, [i \in 1..count |-> IF i <= Len(raw.v) THEN raw.v[i] ELSE 0]), 0)

\* -------------------------------------------------------------- packed indices
BitsNeeded(n) == IF n <= 1 THEN 1 ELSE CHOOSE k \in 1..n : 2^k > n - 1 /\ (k = 1 \/ 2^(k - 1) <= n - 1)
ByteOf(i, bits) == ((i - 1) * bits) \div ByteBits       \* byteIdx of value i
BitOf(i, bits) == ((i - 1) * bits) % ByteBits           \* bitOffset
Straddles(i, bits, size) == BitOf(i, bits) + bits > ByteBits /\ ByteOf(i, bits) + 1 < size
\* The values' bits are disjoint, so |= adds.
BitpackEncode(indices, bits) ==
  LET size == (Len(indices) * bits + ByteBits - 1) \div ByteBits
      low(i) == ((indices[i] % 2^bits) * 2^BitOf(i, bits)) % 2^ByteBits
      high(i) == (indices[i] % 2^bits) \div 2^(ByteBits - BitOf(i, bits))
      packed(b) == MapThenSumSet(low, {i \in DOMAIN indices : ByteOf(i, bits) = b})
                   + MapThenSumSet(high, {i \in DOMAIN indices : ByteOf(i, bits) + 1 = b /\ Straddles(i, bits, size)})
  IN <<bits, Len(indices)>> \o [b \in 1..size |-> packed(b - 1)]
BitpackDecode(data) ==
  IF Len(data) < 2 \/ data[1] \notin 1..ByteBits THEN Fail
  ELSE LET bits == data[1]
           packed == SubSeq(data, 3, Len(data))
           value(i) == (packed[ByteOf(i, bits) + 1] \div 2^BitOf(i, bits)
                        + IF Straddles(i, bits, Len(packed))
                            THEN (packed[ByteOf(i, bits) + 2] * 2^(ByteBits - BitOf(i, bits))) % 2^ByteBits
                            ELSE 0) % 2^bits
       IN IF data[2] > (Len(packed) * ByteBits) \div bits THEN Fail
          ELSE Good([i \in 1..data[2] |-> value(i)], 0)

\* ------------------------------------------------------------- sparse columns
\* An absent value is <<>>; what is present is encoded one after the other.
buildBitmap(values) == [i \in DOMAIN values |-> IF values[i] # <<>> THEN 1 ELSE 0]
getBit(bitmap, i) == i <= Len(bitmap) /\ bitmap[i] = 1
Present(values) == SelectSeq(values, LAMBDA v : v # <<>>)
marshalSparse(values, cells) ==
  LET bitmap == buildBitmap(values) IN <<Len(Present(values)), Len(bitmap)>> \o bitmap \o cells
unmarshalSparse(data) ==
  IF Len(data) < 2 \/ 2 + data[2] > Len(data) THEN [ok |-> FALSE]
  ELSE [ok |-> TRUE, count |-> data[1], bitmap |-> SubSeq(data, 3, 2 + data[2]),
        cells |-> SubSeq(data, 3 + data[2], Len(data))]

SparseStrings(values) ==
  marshalSparse(values, Compress(FlattenSeq([i \in DOMAIN Present(values) |-> AppendLenString(Present(values)[i])])))
\* Values <<v>>.
SparseInt64(values) ==
  marshalSparse(values, Compress(FlattenSeq([i \in DOMAIN Present(values) |-> PutVarint(Present(values)[i][1])])))
SparseBool(values) ==
  marshalSparse(values, [i \in DOMAIN Present(values) |-> IF Present(values)[i][1] THEN 1 ELSE 0])
SparseBytes(values) ==
  marshalSparse(values, Compress(FlattenSeq([i \in DOMAIN Present(values) |->
                                               <<Len(Present(values)[i])>> \o Present(values)[i]])))

\* The rows of a sparse column: read(raw, off) yields the value of a set bit.
Unsparse(data, count, ceiling, read(_, _)) ==
  LET s == unmarshalSparse(data) IN
  IF ~s.ok THEN Fail
  ELSE LET raw == IF s.count > 0 THEN DecompressBounded(s.cells, ceiling) ELSE Good(<<>>, 0)
           next(st, i) == IF ~st.ok THEN st
                          ELSE IF ~getBit(s.bitmap, i) THEN Good(Append(st.v, <<>>), st.off)
                          ELSE LET r == read(raw.v, st.off)
                               IN IF r.ok THEN Good(Append(st.v, r.v), r.off) ELSE Fail
       IN IF ~raw.ok THEN Fail ELSE FoldLeft(next, Good(<<>>, 0), Steps(count))
UnsparseStrings(data, count, f) ==
  Unsparse(data, count, ValueCeiling(count), LAMBDA raw, off : ReadString(f, raw, off))
readInt(raw, off) == LET u == Uvarint(raw, off) IN IF u.ok THEN Good(<<ZigZagDecode(u.v)>>, u.off) ELSE Fail
UnsparseInt64(data, count) == Unsparse(data, count, DecodeCeiling(count, MaxVarint), readInt)
readBytes(raw, off) ==
  IF off + 1 > Len(raw) \/ off + 1 + raw[off + 1] > Len(raw) THEN Fail
  ELSE Good(SubSeq(raw, off + 2, off + 1 + raw[off + 1]), off + 1 + raw[off + 1])
UnsparseBytes(data, count) == Unsparse(data, count, ValueCeiling(count), readBytes)
\* The value bitmap is not compressed.
UnsparseBool(data, count) ==
  LET s == unmarshalSparse(data)
      next(st, i) == IF getBit(s.bitmap, i) THEN Good(Append(st.v, <<getBit(s.cells, st.off + 1)>>), st.off + 1)
                     ELSE Good(Append(st.v, <<>>), st.off)
  IN IF ~s.ok THEN Fail ELSE FoldLeft(next, Good(<<>>, 0), Steps(count))
=============================================================================
