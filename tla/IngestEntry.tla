---------------------------- MODULE IngestEntry ----------------------------
(***************************************************************************)
(* What becomes of one payload on its way from the wire to the log: the    *)
(* two decoders, the dry run of ?validate=1, the mapping to a log entry,   *)
(* sampling, the engine's pipeline and the adapter's conversions           *)
(* (internal/ingest, internal/fingerprint, internal/logstore/ingest and    *)
(* internal/logstore/adapter).  These are pure functions: the state is the *)
(* payload under consideration.                                            *)
(*                                                                         *)
(* A string is "" or a name; a number on the wire is a float: dur is given *)
(* in hundredths of a millisecond, mem in thousandths of a megabyte.       *)
(* MD5 is taken to be injective, so a fingerprint is the tuple it hashes.  *)
(***************************************************************************)
EXTENDS Integers, Sequences, FiniteSets, SequencesExt, FiniteSetsExt

CONSTANTS MaxBatchEntries,   \* maxIngestBatchEntries
          MaxExpandedLogs,   \* maxExpandedLogs, per parent
          MaxProcessed       \* maxProcessedEntries, per request

VARIABLE sample              \* the payload, with the sampling rules in force
ingestEntryVars == <<sample>>

-----------------------------------------------------------------------------
(* The wire entry: what the properties tell apart of the 45 fields.        *)
flatEntry ==
  [ts : {"", "ok", "bad"}, level : {"", "error", "FATAL", "Warning", "info", "loud"},
   message : {"", "m1", "m2"}, service : {"", "api"}, env : {"", "prod"},
   class : {"", "C"}, file : {"", "F"}, metaClass : {"", "C"},
   backtrace : {"", "B"}, stack : {"", "S"}, kind : {"", "job", "request"},
   event : {"", "http.request", "mail"}, http : BOOLEAN, job : BOOLEAN,
   body : {"none", "object", "other"}, logs : 0..3, dur : {0, 149, 150}, mem : {0, 1704, 1705},
   badType : BOOLEAN]

Plain == [ts |-> "", level |-> "info", message |-> "m1", service |-> "api", env |-> "",
          class |-> "", file |-> "", metaClass |-> "", backtrace |-> "", stack |-> "",
          kind |-> "", event |-> "", http |-> FALSE, job |-> FALSE, body |-> "none",
          logs |-> 0, dur |-> 0, mem |-> 0, badType |-> FALSE]

\* Strings.ToLower and normalizeLevel on the levels a client sends.
Lower(l) == CASE l = "FATAL" -> "fatal" [] l = "Warning" -> "warning" [] OTHER -> l
normalizeLevel(l) == IF l = "warning" THEN "warn" ELSE l
isValidLevel(l) == l \in {"debug", "info", "warn", "warning", "error", "fatal"}

\* jsonInt rounds half away from zero; jsonFloat keeps the fraction, which the
\* mem_delta_mb column rounds to hundredths.
Round(h) == (h + 50) \div 100
MemColumn(m) == (m + 5) \div 10

deriveKind(fe) ==
  CASE fe.kind # "" -> fe.kind
    [] fe.event = "http.request" -> "request"
    [] fe.http -> "request"
    [] fe.job -> "job"
    [] fe.event # "" -> "event"
    [] OTHER -> "log"

-----------------------------------------------------------------------------
(* Fingerprints.  m1 and m2 differ only in the values Normalize strips.    *)
Normalize(message) == IF message = "" THEN "" ELSE "m"

Compute(service, class, file, message) ==
  IF class = "" /\ file = "" /\ message = "" THEN <<>>
  ELSE <<service, class, IF file # "" THEN file ELSE Normalize(message)>>

\* The first in-app file: a backtrace frame before a stack trace line.
extractSourceFileFromBacktrace(fe) ==
  IF fe.body # "object" THEN ""
  ELSE IF fe.backtrace # "" THEN fe.backtrace ELSE fe.stack

GenerateErrorFingerprint(fe) ==
  IF Lower(fe.level) \notin {"error", "fatal"} THEN <<>>
  ELSE Compute(fe.service,
               IF fe.class # "" THEN fe.class
               ELSE IF fe.body = "object" THEN fe.metaClass ELSE "",
               IF fe.file # "" THEN fe.file ELSE extractSourceFileFromBacktrace(fe),
               fe.message)

\* flatToLogEntry: the entry the handlers hand to the store.
flatToLogEntry(fe, defaultEnv) ==
  [level |-> normalizeLevel(Lower(fe.level)), service |-> fe.service,
   env |-> IF fe.env = "" THEN defaultEnv ELSE fe.env,
   message |-> fe.message, class |-> fe.class, file |-> fe.file,
   fingerprint |-> GenerateErrorFingerprint(fe), kind |-> deriveKind(fe),
   event |-> fe.event, request |-> deriveKind(fe) = "request",
   dur |-> Round(fe.dur), mem |-> MemColumn(fe.mem), body |-> fe.body, logs |-> fe.logs]

-----------------------------------------------------------------------------
(* The two endpoints and the dry run.  A payload is one object or an       *)
(* array; "other" stands for a scalar or for text that is not JSON, and    *)
(* trailing for a second value after the first.                            *)
decodeJSONOneOrMany(p) ==
  \/ p.shape = "object" /\ ~p.trailing /\ ~p.entries[1].badType
  \/ /\ p.shape = "array" /\ ~p.trailing
     /\ Len(p.entries) <= MaxBatchEntries
     /\ \A i \in DOMAIN p.entries : ~p.entries[i].badType

\* The checks both handlers make of an entry before it is mapped.
AcceptsEntry(fe) ==
  fe.level # "" /\ fe.message # "" /\ isValidLevel(Lower(fe.level)) /\ fe.ts # "bad"

HandleFlatIngest(p) ==
  decodeJSONOneOrMany(p) /\ \A i \in DOMAIN p.entries : AcceptsEntry(p.entries[i])

\* /api/logs decodes MessagePack as well; the cap is checked after decoding.
HandleIngestLogs(p, msgpack) ==
  IF msgpack
    THEN /\ p.shape \in {"object", "array"}
         /\ \A i \in DOMAIN p.entries : ~p.entries[i].badType
         /\ Len(p.entries) <= MaxBatchEntries
         /\ \A i \in DOMAIN p.entries : AcceptsEntry(p.entries[i])
    ELSE HandleFlatIngest(p)

\* Mutant: the dry run forgets that an unknown level is refused.
validateOneAnyLevel(fe) ==
       (IF fe.badType THEN {"type"} ELSE {})
  \cup (IF fe.level = "" THEN {"level"} ELSE {})
  \cup (IF fe.message = "" THEN {"message"} ELSE {})
  \cup (IF fe.ts = "bad" THEN {"ts"} ELSE {})
  \cup (IF fe.body = "other" THEN {"body"} ELSE {})

\* validateOne: the errors it reports on one entry.
validateOne(fe) ==
       (IF fe.badType THEN {"type"} ELSE {})
  \cup (IF fe.level = "" \/ ~isValidLevel(Lower(fe.level)) THEN {"level"} ELSE {})
  \cup (IF fe.message = "" THEN {"message"} ELSE {})
  \cup (IF fe.ts = "bad" THEN {"ts"} ELSE {})
  \cup (IF fe.body = "other" THEN {"body"} ELSE {})

\* handleValidate: the report is valid when nothing is wrong with any entry.
handleValidate(p) ==
  /\ p.shape \in {"object", "array"} /\ ~p.trailing
  /\ Len(p.entries) > 0
  /\ \A i \in DOMAIN p.entries : validateOne(p.entries[i]) = {}

-----------------------------------------------------------------------------
(* Sampling, the pipeline and the adapter.                                 *)
IsErrorLevel(l) == Lower(l) \in {"error", "warn", "warning", "fatal"}

\* compiledSamplingRules.apply: the subsets of a batch that may be kept.  A rule
\* is [rate, keep]; a rate is "all", "some" or "none" (1, between, 0).
RuleFor(rules, service) ==
  IF service \in DOMAIN rules THEN rules[service]
  ELSE IF "*" \in DOMAIN rules THEN rules["*"] ELSE [rate |-> "all", keep |-> FALSE]
MustKeep(rules, e) ==
  LET r == RuleFor(rules, e.service) IN r.rate = "all" \/ (r.keep /\ IsErrorLevel(e.level))
MayKeep(rules, e) == MustKeep(rules, e) \/ RuleFor(rules, e.service).rate = "some"
applySampling(rules, entries) ==
  {SelectSeq([i \in DOMAIN entries |-> <<i, entries[i]>>], LAMBDA x : x[1] \in S) :
     S \in {K \in SUBSET DOMAIN entries :
              \A i \in DOMAIN entries : /\ MustKeep(rules, entries[i]) => i \in K
                                        /\ i \in K => MayKeep(rules, entries[i])}}

\* oldToNew: a request row without an event type becomes an http.request.
oldToNew(e) == [e EXCEPT !.event = IF e.request /\ e.event = "" THEN "http.request" ELSE e.event]

\* computeErrorFingerprint of the pipeline, on the columns alone.
computeErrorFingerprint(e) ==
  IF Lower(e.level) \in {"error", "fatal"} /\ (e.class # "" \/ e.file # "")
    THEN [e EXCEPT !.fingerprint = Compute(e.service, e.class, e.file, e.message)]
    ELSE e

\* expandInRequestLogs: the number of rows one entry's body.logs adds.
expandInRequestLogs(e) ==
  IF e.body # "object" THEN 0 ELSE Min({e.logs, MaxExpandedLogs})

\* Process: a row per entry, <<entry, 0>>, followed by its expansions
\* <<entry, k>>, while the request's budget lasts.
Process(entries) ==
  LET Step(acc, e) ==
        LET n == Min({expandInRequestLogs(e), acc.budget})
        IN [rows |-> acc.rows \o [k \in 1..(n + 1) |-> <<computeErrorFingerprint(e), k - 1>>],
            budget |-> acc.budget - n]
  IN FoldLeft(Step, [rows |-> <<>>, budget |-> Max({0, MaxProcessed - Len(entries)})],
              entries).rows

\* BatchInsert: the rows written, and the position each entry takes its ID from
\* (0 for none), which is written back only when the two lists have one length.
BatchInsert(entries) ==
  LET rows == Process([i \in DOMAIN entries |-> oldToNew(entries[i])])
  IN [rows |-> rows,
      id |-> [i \in DOMAIN entries |-> IF Len(rows) = Len(entries) THEN i ELSE 0]]

\* newToOld: only a row with a duration is given a request summary again.
newToOld(e) == [e EXCEPT !.request = e.dur > 0]

-----------------------------------------------------------------------------
(* The payloads considered: each group varies what one part of the code    *)
(* looks at.                                                               *)
EntryShapes ==
       {[Plain EXCEPT !.level = l, !.message = m, !.ts = t, !.body = b, !.badType = x] :
          l \in {"", "FATAL", "Warning", "loud"}, m \in {"", "m1"}, t \in {"", "ok", "bad"},
          b \in {"none", "object", "other"}, x \in BOOLEAN}
  \cup {[Plain EXCEPT !.level = l, !.class = c, !.file = f, !.metaClass = k, !.backtrace = b,
                      !.stack = s, !.message = m, !.body = "object"] :
          l \in {"error", "Warning"}, c \in {"", "C"}, f \in {"", "F"}, k \in {"", "C"},
          b \in {"", "B"}, s \in {"", "S"}, m \in {"m1", "m2"}}
  \cup {[Plain EXCEPT !.kind = k, !.event = v, !.http = h, !.job = j, !.dur = d] :
          k \in {"", "job", "request"}, v \in {"", "http.request", "mail"},
          h \in BOOLEAN, j \in BOOLEAN, d \in {0, 149, 150}}
  \cup {[Plain EXCEPT !.mem = m] : m \in {1704, 1705}}

Loaded == {[Plain EXCEPT !.body = "object", !.logs = n, !.level = l] :
             n \in 0..3, l \in {"error", "info"}}

Payloads ==
       {[shape |-> "object", trailing |-> t, entries |-> <<e>>] : t \in BOOLEAN, e \in EntryShapes}
  \cup {[shape |-> s, trailing |-> FALSE, entries |-> <<>>] : s \in {"array", "other"}}
  \cup {[shape |-> "array", trailing |-> FALSE, entries |-> <<d, e>>] : d \in Loaded, e \in Loaded}
  \cup {[shape |-> "array", trailing |-> FALSE,
         entries |-> [i \in 1..MaxBatchEntries |-> IF i = n THEN e ELSE Plain]] :
           n \in 1..MaxBatchEntries, e \in EntryShapes}

NoPayload == [shape |-> "other", trailing |-> FALSE, entries |-> <<>>]
IngestEntryInit == sample = NoPayload
\* A payload arrives; the functions above are its whole life.
PayloadArrives == sample = NoPayload /\ sample' \in Payloads
IngestEntryNext == PayloadArrives

LogEntries == [i \in DOMAIN sample.entries |-> flatToLogEntry(sample.entries[i], "prod")]

\* A rule that samples the service and keeps its errors, and one that does not.
SamplingRuleSets == {[s \in {n} |-> [rate |-> r, keep |-> k]] :
                       n \in {"*", "api"}, r \in {"some", "none"}, k \in BOOLEAN}

-----------------------------------------------------------------------------
(* Properties.                                                             *)

\* The dry run agrees with the endpoints (validate.go:16, HandleFlatIngest): what
\* it calls valid both store, and what it calls invalid although they take it is
\* an empty batch or a body that is not an object.  MessagePack and JSON differ
\* only in what may follow the value.
ValidateAgrees ==
  /\ ToSet(sample.entries) \subseteq flatEntry
  /\ handleValidate(sample) => HandleFlatIngest(sample) /\ HandleIngestLogs(sample, TRUE)
  /\ HandleFlatIngest(sample) /\ ~handleValidate(sample) =>
       \/ sample.entries = <<>>
       \/ \E i \in DOMAIN sample.entries : sample.entries[i].body = "other"
  /\ HandleIngestLogs(sample, TRUE) /\ ~sample.trailing => HandleIngestLogs(sample, FALSE)

\* What is lost between the wire and a reader of the row: a job's duration is kept
\* like a request's (flat_handler.go:309), memory to two decimals, a request that
\* took no time its summary.  Sampling with KeepErrors never drops an error.
ReadsBack ==
  /\ \A i \in DOMAIN LogEntries :
       LET fe == sample.entries[i]
           back == newToOld(oldToNew(LogEntries[i]))
       IN /\ back.dur * 100 - fe.dur \in -49..50 /\ back.mem * 10 - fe.mem \in -4..5
          /\ LogEntries[i].request => back.event # "" /\ (back.request \/ fe.dur < 50)
  /\ \A rules \in SamplingRuleSets : \A kept \in applySampling(rules, LogEntries) :
       \A i \in DOMAIN LogEntries :
         (\A n \in DOMAIN rules : rules[n].keep) /\ IsErrorLevel(sample.entries[i].level)
           => \E k \in DOMAIN kept : kept[k] = <<i, LogEntries[i]>>

\* Post-processing links an error to a row of its own (logstore.go:71): when IDs
\* are written back, the row an entry takes its ID from is that entry's and not
\* one expanded from another; and expansion adds rows only within its bounds.
\* This holds of whatever sampling leaves of the batch.
IDsLineUp ==
  \A kept \in applySampling([s \in {"*"} |-> [rate |-> "some", keep |-> FALSE]], LogEntries) :
    LET batch == [k \in DOMAIN kept |-> kept[k][2]]
        r == BatchInsert(batch)
    IN /\ \A i \in DOMAIN r.id : r.id[i] # 0 =>
            r.rows[r.id[i]] = <<computeErrorFingerprint(oldToNew(batch[i])), 0>>
       /\ Len(r.rows) <= Max({MaxProcessed, Len(batch)})
       /\ Cardinality({k \in DOMAIN r.rows : r.rows[k][2] = 0}) = Len(batch)

=============================================================================
