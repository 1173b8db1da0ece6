------------------------------ MODULE OpenTrace ------------------------------
(***************************************************************************)
(* The server around the log store, the job queue and the watch engine,    *)
(* which have runs of their own: ingestion, error groups, health checks,   *)
(* the on-call agent, the tools that read logs and overviews, the file     *)
(* formats, connectors, accounts, the HTTP front door, watch conditions,   *)
(* automatic watches and backups.                                          *)
(*                                                                         *)
(* The components are composed side by side.  They share no variable, so a *)
(* property of one holds in every interleaving of all of them if it holds  *)
(* in the behaviours in which only that component moves; `active` names    *)
(* the component that does, and the others keep their initial state.       *)
(***************************************************************************)
EXTENDS IngestEntry, Ingest, IngestBuffers, ErrorGroups, HealthChecks, OnCall, LogTools,
        Overview, MCChunks, Breaker, Connectors, Accounts, SSEGate, RateLimiter,
        Conditions, AutoWatch, Backups, LiveReads, ColumnCache

VARIABLE active

\* Entries of two environments and none, with and without service, trace,
\* fingerprint, user and duration, two of them at one instant.
LogSample(ts, env, svc, level, meta, dur, trace, fp, user) ==
  [ts |-> ts, env |-> env, svc |-> svc, level |-> level, meta |-> meta, dur |-> dur,
   trace |-> trace, fp |-> fp, user |-> user]
LogSamples ==
  {LogSample(2, "prod", "a", "error", TRUE, 2, "t", "f", "u"),
   LogSample(2, "", "a", "info", TRUE, 0, "t", "", ""),
   LogSample(3, "stag", "b", "error", FALSE, 1, "t", "f", "u"),
   LogSample(5, "prod", "a", "info", TRUE, 2, "", "", ""),
   LogSample(4, "prod", "", "error", TRUE, 1, "", "g", "v")}

\* Two columns that fit the budget together, a third that evicts, one too large.
ColumnSample == [ts |-> 2, level |-> 1, path |-> 2, body |-> 3]

intakeVars == <<sample, ingestVars, samplingVars, queueVars>>
alertVars == <<groupVars, hcVars, onCallVars, probe, autoVars>>
readVars == <<world, overviewVars, hour, liveVars, columnVars>>
accessVars == <<breakerVars, connVars, accountVars, gateVars, limiterVars, backupVars>>
serverVars == <<active, intakeVars, alertVars, readVars, accessVars>>

Components == {"payload", "ingest", "sampling", "queue", "groups", "health", "oncall",
               "conditions", "autowatch", "logs", "overview", "chunks", "walcache", "tail",
               "columns", "breaker", "connectors", "accounts", "gate", "limiter", "backups"}

Init ==
  /\ active \in Components
  /\ IngestEntryInit /\ SamplingInit /\ QueueInit /\ IngestInit
  /\ active # "ingest" => size = [b \in Batches |-> 1]
  /\ GroupsInit /\ HealthInit /\ OnCallInit /\ AutoInit /\ ConditionInit
  /\ active # "conditions" => probe = CHOOSE p \in {[then |-> w, now |-> w, lost |-> {}, broken |-> {}] :
                                                     w \in {v \in Windows : v.age = 0 /\ v.class # "y"}} : TRUE
  /\ QueryInit /\ OverviewInit /\ ChunksInit /\ LiveInit /\ ColumnsInit
  /\ BreakerInit /\ ConnInit /\ AccountsInit /\ GateInit /\ LimiterInit /\ BackupsInit
  /\ active # "backups" => wal /\ dest = "none"

\* Ingestion.
IntakeNext ==
  /\ UNCHANGED <<active, alertVars, readVars, accessVars>>
  /\ \/ /\ active = "payload" /\ IngestEntryNext
        /\ UNCHANGED <<ingestVars, samplingVars, queueVars>>
     \/ /\ active = "ingest" /\ IngestNext
        /\ UNCHANGED <<sample, samplingVars, queueVars>>
     \/ /\ active = "sampling" /\ SamplingNext
        /\ UNCHANGED <<sample, ingestVars, queueVars>>
     \/ /\ active = "queue" /\ QueueNext
        /\ UNCHANGED <<sample, ingestVars, samplingVars>>

\* What turns logs and probes into groups, alerts and watches.
AlertNext ==
  /\ UNCHANGED <<active, intakeVars, readVars, accessVars>>
  /\ \/ /\ active = "groups" /\ GroupsNext
        /\ UNCHANGED <<hcVars, onCallVars, probe, autoVars>>
     \/ /\ active = "health" /\ HealthNext
        /\ UNCHANGED <<groupVars, onCallVars, probe, autoVars>>
     \/ /\ active = "oncall" /\ OnCallNext
        /\ UNCHANGED <<groupVars, hcVars, probe, autoVars>>
     \/ /\ active = "conditions" /\ ConditionNext
        /\ UNCHANGED <<groupVars, hcVars, onCallVars, autoVars>>
     \/ /\ active = "autowatch" /\ AutoNext
        /\ UNCHANGED <<groupVars, hcVars, onCallVars, probe>>

\* What the read side reads.
ReadNext ==
  /\ UNCHANGED <<active, intakeVars, alertVars, accessVars>>
  /\ \/ active = "logs" /\ QueryNext /\ UNCHANGED <<overviewVars, hour, liveVars, columnVars>>
     \/ active = "overview" /\ OverviewNext /\ UNCHANGED <<world, hour, liveVars, columnVars>>
     \/ active = "chunks" /\ ChunksNext /\ UNCHANGED <<world, overviewVars, liveVars, columnVars>>
     \/ active = "walcache" /\ WALCacheNext /\ UNCHANGED <<world, overviewVars, hour, columnVars>>
     \/ active = "tail" /\ TailNext /\ UNCHANGED <<world, overviewVars, hour, columnVars>>
     \/ active = "columns" /\ ColumnsNext /\ UNCHANGED <<world, overviewVars, hour, liveVars>>

\* Connectors, accounts, the front door and backups.
AccessNext ==
  /\ UNCHANGED <<active, intakeVars, alertVars, readVars>>
  /\ \/ /\ active = "breaker" /\ BreakerNext
        /\ UNCHANGED <<connVars, accountVars, gateVars, limiterVars, backupVars>>
     \/ /\ active = "connectors" /\ ConnNext
        /\ UNCHANGED <<breakerVars, accountVars, gateVars, limiterVars, backupVars>>
     \/ /\ active = "accounts" /\ AccountsNext
        /\ UNCHANGED <<breakerVars, connVars, gateVars, limiterVars, backupVars>>
     \/ /\ active = "gate" /\ GateNext
        /\ UNCHANGED <<breakerVars, connVars, accountVars, limiterVars, backupVars>>
     \/ /\ active = "limiter" /\ LimiterNext
        /\ UNCHANGED <<breakerVars, connVars, accountVars, gateVars, backupVars>>
     \/ /\ active = "backups" /\ BackupsNext
        /\ UNCHANGED <<breakerVars, connVars, accountVars, gateVars, limiterVars>>

Next == IntakeNext \/ AlertNext \/ ReadNext \/ AccessNext
Spec == Init /\ [][Next]_serverVars

-----------------------------------------------------------------------------
(* What each component promises; the conjuncts are stated in its module.   *)
(* A property is evaluated in the behaviours of its component, whose       *)
(* initial state is the one the component has in all the others.           *)

\* A payload means one thing: the dry run, both endpoints and both encodings agree
\* on it, its rows read back what was sent but for the rounding the columns do, and
\* the IDs written back belong to the entries they are given to.
PayloadFaithful == active = "payload" => ValidateAgrees /\ ReadsBack /\ IDsLineUp

\* What ingestion has accepted is neither lost nor done twice: not by the
\* post-processing pool, the batch table, the write queue or a stale sampling rule.
IngestedOnce ==
  /\ active = "ingest" => IngestTypeOK /\ PostprocessedOnce /\ BatchDedup
  /\ active = "queue" => QueueAccounts
  /\ active = "sampling" => SamplingFresh

\* An error group is what its history says: events explain its status, users and
\* environments are those it was seen with, and every query of it agrees.
GroupsConsistent ==
  active = "groups" =>
    GroupsTypeOK /\ EventsExplainStatus /\ ImpactPerEnv /\ SeenInEnvs /\ GroupReadsAgree

\* The alerts of a health check tell the story its results tell.
AlertsTruthful ==
  active = "health" => HealthTypeOK /\ AlertsTellTheStory /\ AlertsMatchUptime

\* The on-call agent runs within its budget and files one issue per error group.
OnCallBounded == [][OnCallTypeOK' /\ AgentBudget' /\ OneIssuePerGroup]_onCallVars

\* A watch fires on evidence: its conditions breach on what was measured, whichever
\* of its queries fail, and the evidence it reports shows what changed.
WatchesFireOnEvidence == active = "conditions" => FiresOnEvidence

\* A service gets its automatic watches once, across workers, restarts and deploys.
WatchesComeOnce == active = "autowatch" => AutoWatchOnce

\* Every way to ask for logs gives one answer: pages cover the search, counts match
\* it, contexts are adjacent, breakdowns add up, a cached parse of the WAL is as good
\* as a fresh one, a live tail misses no batch it had room for, and the cache of
\* columns keeps its budget.
AnswersComplete ==
  /\ active = "logs" => PagesCoverSearch /\ CountsMatchSearch /\ ContextIsAdjacent /\ BreakdownsAddUp
  /\ active = "walcache" => CachedParseIsFresh
  /\ active = "tail" => TailMissesNothing
  /\ active = "columns" => DecodedOnce

\* What a log or error tool tells a caller pinned to environments is about these.
ToolsScoped == active = "logs" => ToolsStayInEnv

\* Nobody misses what happened: neither the catch-ups of one user nor the other
\* overviews leave out what one of them shows.
OverviewsComplete ==
  active = "overview" => OverviewTypeOK /\ CatchupMissesNothing /\ OverviewsAgree

\* An entry survives its formats: WAL record, chunk and index keep what they took.
ChunksFaithful == active = "chunks" => RecordsReplay /\ SealingKeepsRows /\ IndexAgreesWithScan

\* A data source is cut off only with cause, and its connections are owned.
ConnectorsSound ==
  /\ active = "breaker" => CutOffWithCause
  /\ active = "connectors" => ConnectionsOwned

\* There is always an administrator, and a lockout holds against concurrent logins.
AccountsSafe == active = "accounts" => AdminRemains /\ LockoutHolds

\* Opening the gate of an SSE session releases whoever waits for it.
SessionsReleased == active = "gate" => GateReleases

\* The rate limiter's table stays bounded and forgets only what it may.
ClientsLimited == active = "limiter" => LimiterFair

\* Neither a failed nor an interrupted restore or backup loses the data.
DataRecoverable == active = "backups" => RestoreSafe
=============================================================================
