------------------------------- MODULE Chunks -------------------------------
(***************************************************************************)
(* What happens to an entry on its way to a sealed chunk: the WAL record   *)
(* (internal/logstore/wal), the scan that replays the file, the column     *)
(* file (internal/logstore/chunk) and the full-text index                  *)
(* (internal/logstore/index).  Of the columns, one of each encoding is     *)
(* kept; a character is a cell: 1 and 4 letters, 5 the capital of 4,       *)
(* 2 continues a rune, 3 separates words.                                  *)
(***************************************************************************)
EXTENDS Codecs

CONSTANTS ChunkShapes,    \* entries clients log
          ChunkRows,      \* entries of a chunk
          MaxField,       \* MaxFieldBytes
          MaxStoredBody,  \* maxCompressedBodyBytes
          MaxRecord,      \* maxRecordBytes
          BitpackDict,    \* maxBitpackDictEntries
          QueryTexts

VARIABLE hour             \* the entries of one hour, in order
ChunksInit == hour = <<>>
EntryLogged == Len(hour) < ChunkRows /\ \E e \in ChunkShapes : hour' = Append(hour, e)
ChunksNext == EntryLogged

\* ------------------------------------------------------------------ WAL record
RuneStart(c) == c # 2
truncateField(s) ==
  IF Len(s) <= MaxField THEN s
  ELSE SubSeq(s, 1, Max({c \in 0..MaxField : c = 0 \/ RuneStart(s[c + 1])}))
appendString(s) == AppendLenString(truncateField(s))

\* The levels with a number of their own; "warning" shares that of "warn".
enumToLevel == <<<<1>>, <<1, 1>>>>
warning == <<1, 1, 1>>
levelEnumCustom == 9
levelToEnum(l) == IF l = warning THEN 2
                  ELSE IF l \in ToSet(enumToLevel) THEN CHOOSE i \in DOMAIN enumToLevel : enumToLevel[i] = l
                  ELSE levelEnumCustom

BlankEntry == [id |-> 0, ts |-> 0, level |-> <<>>, service |-> <<>>, message |-> <<>>, trace |-> <<>>,
               status |-> 0, dur |-> 0, nplus |-> <<>>, body |-> <<>>]
FlagNames == <<"extended", "trace", "status", "dur", "nplus", "body", "raw">>
FixedCells == 3 + Len(FlagNames)      \* minRecordBytes

AppendEntry(e, CompressBodies) ==
  LET body == IF CompressBodies THEN Compress(e.body) ELSE e.body
      set == [extended |-> TRUE, trace |-> e.trace # <<>>, status |-> e.status > 0, dur |-> e.dur > 0,
              nplus |-> e.nplus # <<>>, body |-> e.body # <<>> /\ Len(body) <= MaxStoredBody,
              raw |-> e.body # <<>> /\ ~CompressBodies]
      flagged(name, cells) == IF set[name] THEN cells ELSE <<>>
      rec == <<Unsigned(e.id), Unsigned(e.ts), levelToEnum(e.level)>>
             \o [i \in DOMAIN FlagNames |-> IF set[FlagNames[i]] THEN 1 ELSE 0]
             \o (IF levelToEnum(e.level) = levelEnumCustom THEN appendString(e.level) ELSE <<>>)
             \o appendString(e.service) \o appendString(e.message)
             \o flagged("trace", appendString(e.trace)) \o flagged("status", <<e.status>>)
             \o flagged("dur", PutUvarint(e.dur)) \o flagged("nplus", <<IF e.nplus = <<TRUE>> THEN 1 ELSE 0>>)
             \o flagged("body", <<Len(body)>> \o body)
  IN <<Len(rec)>> \o rec

RecordFields == <<"level", "service", "message", "trace", "status", "dur", "nplus", "body">>
rCell(data, off) == IF off < Len(data) THEN Good(data[off + 1], off + 1) ELSE Fail
rBody(raw, data, off) ==
  LET b == readBytes(data, off)
      plain == DecompressBounded(b.v, MaxBlockCells)
  IN IF ~b.ok \/ raw THEN b
     ELSE IF plain.ok THEN Good(plain.v, b.off) ELSE Fail
rField(name, f, raw, data, off) ==
  CASE name \in {"level", "service", "message", "trace"} -> ReadString(f, data, off)
    [] name = "status" -> rCell(data, off)
    [] name = "nplus" -> LET r == rCell(data, off) IN [r EXCEPT !.v = <<r.v # 0>>]
    [] name = "dur" -> Uvarint(data, off)
    [] name = "body" -> rBody(raw, data, off)

UnmarshalEntry(data) ==
  IF Len(data) < FixedCells THEN [ok |-> FALSE]
  ELSE LET set(name) == data[3 + CHOOSE i \in DOMAIN FlagNames : FlagNames[i] = name] = 1
           f == IF set("extended") THEN "extended" ELSE "uint16"
           follows(name) == CASE name = "level" -> data[3] = levelEnumCustom /\ set("extended")
                              [] name \in {"service", "message"} -> TRUE
                              [] OTHER -> set(name)
           start == [ok |-> TRUE, off |-> FixedCells,
                     e |-> [BlankEntry EXCEPT !.id = Wrap(data[1]), !.ts = Wrap(data[2]),
                              !.level = enumToLevel[IF data[3] \in DOMAIN enumToLevel THEN data[3] ELSE 1]]]
           step(st, name) == LET r == rField(name, f, set("raw"), data, st.off)
                             IN IF st.ok /\ r.ok THEN [ok |-> TRUE, off |-> r.off, e |-> [st.e EXCEPT ![name] = r.v]]
                                ELSE [st EXCEPT !.ok = FALSE]
           end == FoldLeft(step, start, SelectSeq(RecordFields, follows))
       IN [ok |-> end.ok /\ end.off = Len(data), e |-> end.e]

\* Scanner: records up to the first that is torn, too long or does not parse.
ScannerNext(st, file) ==
  IF st.done \/ st.consumed >= Len(file) THEN [st EXCEPT !.done = TRUE]
  ELSE LET n == file[st.consumed + 1]
           end == st.consumed + 1 + n
           r == UnmarshalEntry(SubSeq(file, st.consumed + 2, end))
       IN IF n > MaxRecord \/ end > Len(file) THEN [st EXCEPT !.done = TRUE]
          ELSE IF ~r.ok THEN [st EXCEPT !.done = TRUE]
          ELSE [st EXCEPT !.entries = Append(@, r.e), !.consumed = end]
ReadEntriesFrom(file) ==
  FoldLeft(LAMBDA st, i : ScannerNext(st, file), [entries |-> <<>>, consumed |-> 0, done |-> FALSE],
           Steps(ChunkRows + 1))

\* ----------------------------------------------------------------- column file
ColumnOf(rows, field) == [i \in DOMAIN rows |-> rows[i][field]]
Optional(v) == IF v > 0 THEN <<v>> ELSE <<>>
Decimal(v) == IF v <= 0 THEN <<>> ELSE IF v < 10 THEN <<v>> ELSE <<v \div 10, v % 10>>
Atoi(s) == IF s = <<>> THEN 0 ELSE IF Len(s) = 1 THEN s[1] ELSE 10 * s[1] + s[2]
Schema == <<"id", "ts", "level", "service", "message", "trace", "status", "dur", "nplus", "body">>

encodeColumn(rows, col) ==
  LET values == ColumnOf(rows, col) IN
  CASE col = "id" -> DeltaEncode(values)
    [] col = "ts" -> ZstdBlockEncodeInt64(values)
    [] col = "level" ->
         LET d == DictEncodeLimit(values, BitpackDict)
             buf == serializeDictOnly(d.dict)
         IN <<Len(buf)>> \o buf \o BitpackEncode(d.indices, BitsNeeded(Len(d.dict)))
    [] col = "service" -> DictMarshal(DictEncodeLimit(values, MaxDictEntries))
    [] col = "message" -> ZstdBlockEncodeStrings(values)
    [] col = "trace" -> SparseStrings(values)
    [] col = "status" -> SparseStrings([i \in DOMAIN rows |-> Decimal(rows[i].status)])
    [] col = "dur" -> SparseInt64([i \in DOMAIN rows |-> Optional(rows[i].dur)])
    [] col = "nplus" -> SparseBool(values)
    [] col = "body" -> SparseBytes(values)

\* WriteAllColumns, of a build whose schema has these columns, and Close.
WriteAllColumns(rows, columns) ==
  LET step(w, col) == LET data == encodeColumn(rows, col)
                      IN [w EXCEPT !.cells = @ \o data,
                                   !.dir = Append(@, [name |-> col, off |-> Len(w.cells), size |-> Len(data)])]
  IN FoldLeft(step, [cells |-> <<>>, dir |-> <<>>, count |-> Len(rows)], columns)
HasColumn(c, name) == \E i \in DOMAIN c.dir : c.dir[i].name = name
readColumnRaw(c, name) == LET d == c.dir[CHOOSE i \in DOMAIN c.dir : c.dir[i].name = name]
                          IN SubSeq(c.cells, d.off + 1, d.off + d.size)
ReadDictBitpack(data) ==
  IF data = <<>> \/ 1 + data[1] > Len(data) THEN Fail
  ELSE LET dict == deserializeDictOnly(SubSeq(data, 2, 1 + data[1]), "extended")
           indices == BitpackDecode(SubSeq(data, 2 + data[1], Len(data)))
       IN IF dict.ok /\ indices.ok THEN Good(DictLookup(dict.v, indices.v), 0) ELSE Fail
\* A column the chunk was written without has no values.
ReadColumn(c, col) ==
  IF ~HasColumn(c, col) THEN Good(<<>>, 0)
  ELSE LET data == readColumnRaw(c, col) IN
       CASE col = "id" -> DeltaDecode(data, c.count)
         [] col = "ts" -> ZstdBlockDecodeInt64(data, c.count)
         [] col = "level" -> ReadDictBitpack(data)
         [] col = "service" -> DictUnmarshal(data, c.count, "extended")
         [] col = "message" -> ZstdBlockDecodeStrings(data, c.count, "extended")
         [] col \in {"trace", "status"} -> UnsparseStrings(data, c.count, "extended")
         [] col = "dur" -> UnsparseInt64(data, c.count)
         [] col = "nplus" -> UnsparseBool(data, c.count)
         [] col = "body" -> UnsparseBytes(data, c.count)

\* fillEntryFromChunkProjected: one column that cannot be read fails the row.
fillEntryFromChunk(c, row, includeBody) ==
  LET wanted == SelectSeq(Schema, LAMBDA col : col # "body" \/ includeBody)
      convert(col, v) == CASE col = "status" -> Atoi(v)
                           [] col = "dur" -> IF v = <<>> THEN 0 ELSE v[1]
                           [] OTHER -> v
      step(st, read) == IF ~read.r.ok THEN [st EXCEPT !.ok = FALSE]
                        ELSE IF row > Len(read.r.v) THEN st
                        ELSE [st EXCEPT !.e[read.col] = convert(read.col, read.r.v[row])]
  IN FoldLeft(step, [ok |-> TRUE, e |-> BlankEntry],
              [k \in DOMAIN wanted |-> [col |-> wanted[k], r |-> ReadColumn(c, wanted[k])]])

\* ------------------------------------------------------------- full-text index
LowerCell(c) == IF c = 5 THEN 4 ELSE c
Separator(c) == c = 3
Tokenize(s) ==
  {[i \in 1..(q[2] - q[1] + 1) |-> LowerCell(s[q[1] + i - 1])] :
     q \in {p \in (1..Len(s)) \X (1..Len(s)) :
        /\ p[2] > p[1] /\ \A i \in p[1]..p[2] : ~Separator(s[i])
        /\ (p[1] = 1 \/ Separator(s[p[1] - 1])) /\ (p[2] = Len(s) \/ Separator(s[p[2] + 1]))}}
\* Builder.Add of every row, then Write: the rows of a term, as differences.
RowsWith(rows, t) == SelectSeq(Steps(Len(rows)), LAMBDA i : t \in Tokenize(rows[i].message))
Postings(ids) ==
  Compress(FlattenSeq([i \in DOMAIN ids |-> PutUvarint(ids[i] - 1 - IF i = 1 THEN 0 ELSE ids[i - 1] - 1)]))
BuildIndex(rows) ==
  LET step(ix, t) == LET p == Postings(RowsWith(rows, t))
                     IN [data |-> ix.data \o p,
                         terms |-> ix.terms \cup {[term |-> t, off |-> Len(ix.data), len |-> Len(p)]}]
  IN FoldLeft(step, [data |-> <<>>, terms |-> {}],
              SetToSeq(UNION {Tokenize(rows[i].message) : i \in DOMAIN rows}))
lookup(ix, t) ==
  LET found == {e \in ix.terms : e.term = t}
      e == CHOOSE x \in found : TRUE
      raw == DecompressBounded(SubSeq(ix.data, e.off + 1, e.off + e.len), MaxBlockCells).v
      next(st, i) == IF st.off >= Len(raw) THEN st
                     ELSE LET u == Uvarint(raw, st.off)
                          IN Good(Append(st.v, u.v + IF st.v = <<>> THEN 0 ELSE Last(st.v)), u.off)
  IN IF found = {} THEN {} ELSE ToSet(FoldLeft(next, Good(<<>>, 0), Steps(ChunkRows)).v)
\* Reader.Search: rows (from 0) that hold every word of the query.
IndexSearch(ix, query) ==
  LET words == Tokenize(query)
  IN IF words = {} THEN {} ELSE {r \in 0..(ChunkRows - 1) : \A t \in words : r \in lookup(ix, t)}
messageMatchesQuery(message, query) == Tokenize(query) # {} /\ Tokenize(query) \subseteq Tokenize(message)

\* ----------------------------------------------------------------- properties
FlatFile(compress) == FlattenSeq([i \in DOMAIN hour |-> AppendEntry(hour[i], compress)])
\* What the store promises to keep of an entry.
Stored(e, compress) ==
  [e EXCEPT !.level = IF e.level = warning THEN enumToLevel[2] ELSE truncateField(e.level),
            !.service = truncateField(e.service), !.message = truncateField(e.message),
            !.trace = truncateField(e.trace), !.status = Max({0, e.status}), !.dur = Max({0, e.dur}),
            !.body = IF Len(e.body) + (IF compress THEN 1 ELSE 0) > MaxStoredBody THEN <<>> ELSE e.body]
StoredRows == [i \in DOMAIN hour |-> Stored(hour[i], TRUE)]

\* A WAL file replays to the entries that were appended, with fields cut at a rune
\* boundary and bodies that are too large left out, whichever way bodies are
\* written; and a file torn at any byte replays exactly the records before the
\* tear (wal/scanner.go).
RecordsReplay ==
  \A compress \in BOOLEAN :
    LET file == FlatFile(compress)
        ends == [i \in DOMAIN hour |-> Len(FlattenSeq([j \in 1..i |-> AppendEntry(hour[j], compress)]))]
    IN \A cut \in 0..Len(file) :
         LET scan == ReadEntriesFrom(SubSeq(file, 1, cut))
             whole == {i \in DOMAIN hour : ends[i] <= cut}
         IN /\ scan.entries = [i \in 1..Cardinality(whole) |-> Stored(hour[i], compress)]
            /\ scan.consumed = IF whole = {} THEN 0 ELSE ends[Max(whole)]

\* The body column decodes under a ceiling derived from the row count.
BodiesFit(rows) == MapThenSumSet(LAMBDA i : IF rows[i].body = <<>> THEN 0 ELSE 1 + Len(rows[i].body), DOMAIN rows)
                   <= ValueCeiling(Len(rows))
LevelsFit(rows) == Cardinality({rows[i].level : i \in DOMAIN rows} \cup {<<>>}) <= BitpackDict

\* Sealing an hour changes nothing a reader sees: every row of the chunk reads
\* back as the WAL held it, whatever other rows share its columns (timestamps out
\* of order and wrapping differences included).  Levels beyond the dictionary read
\* back as none; bodies are read while they average no more than
\* MaxColumnValueBytes; a chunk written before a column existed has it blank.
SealingKeepsRows ==
  hour # <<>> =>
    \A rows \in {StoredRows} :
    \A whole \in {WriteAllColumns(rows, Schema)},
       older \in {WriteAllColumns(rows, SelectSeq(Schema, LAMBDA col : col # "trace"))} :
    \A i \in DOMAIN rows :
    \A row \in {[c \in {whole, older}, body \in BOOLEAN |-> fillEntryFromChunk(c, i, body)]} :
       LET bare == row[whole, FALSE]
           full == row[whole, TRUE]
           old == row[older, FALSE]
       IN /\ bare.ok /\ bare.e = [rows[i] EXCEPT !.body = <<>>, !.level = bare.e.level]
          /\ bare.e.level \in {rows[i].level} \cup IF LevelsFit(rows) THEN {} ELSE {<<>>}
          /\ old.ok /\ old.e = [bare.e EXCEPT !.trace = <<>>]
          /\ BodiesFit(rows) => full.ok /\ full.e = [rows[i] EXCEPT !.level = bare.e.level]

\* The index of a chunk and the scan of a WAL answer a full-text query alike, so
\* an entry is found by the same words before and after it is sealed.
IndexAgreesWithScan ==
  \A q \in QueryTexts :
    IndexSearch(BuildIndex(StoredRows), q) = {i - 1 : i \in {j \in DOMAIN hour : messageMatchesQuery(StoredRows[j].message, q)}}

\* encoding/zstd.go:27: "MaxColumnValueBytes is the largest single value that can
\* reach a chunk: the WAL truncates every field to 1 MiB before it is sealed", so
\* every sealed row can be read.
SealedRowsReadable ==
  hour # <<>> => LET c == WriteAllColumns(StoredRows, Schema)
                 IN \A i \in DOMAIN hour : fillEntryFromChunk(c, i, TRUE).ok
=============================================================================
