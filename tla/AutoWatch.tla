----------------------------- MODULE AutoWatch ------------------------------
(***************************************************************************)
(* Automatic watches (internal/watcher/autowatch.go): the default pair of  *)
(* a service that reports for the first time and the watch of a new commit *)
(* with its two scheduled reports.  The workers of the ingest pool observe *)
(* batches of one service and environment concurrently; every store call   *)
(* may fail, and the process restarts.                                     *)
(***************************************************************************)
EXTENDS Integers, Sequences, FiniteSets

CONSTANTS Observers,      \* ingest workers
          Commits,        \* commit hashes
          DeployScan,     \* maxDeployWatchScan
          MaxAutoWatches, \* rows the run may create
          MaxRestarts

VARIABLES rows,      \* watches, oldest first: [by, what, reports]
          seen,      \* keys this process has seen
          observer,  \* observer -> [at, commit]
          restarts,
          faults,    \* a store call failed, a row was deleted, or a restart cut an Observe
          overtaken, \* a deploy watch was created before the defaults were looked for
          crowded    \* a listing was cut at DeployScan
autoVars == <<rows, seen, observer, restarts, faults, overtaken, crowded>>

Off == [at |-> "off", commit |-> ""]
reportDelays == 2

AutoInit ==
  /\ rows = <<>> /\ seen = {} /\ restarts = 0
  /\ observer = [o \in Observers |-> Off]
  /\ faults = FALSE /\ overtaken = FALSE /\ crowded = FALSE

MoveTo(o, at) == observer' = [observer EXCEPT ![o].at = at]
Done(o) == observer' = [observer EXCEPT ![o] = Off]
ThenDeploy(o) == IF observer[o].commit = "" THEN Done(o) ELSE MoveTo(o, "deploy")

\* once: LoadOrStore of a key.
\* Mutant: every caller goes on.
onceAlways(key) == TRUE
once(key) == key \notin seen

\* Observe: ensureDefaults, then ensureDeployWatch when the batch names a commit.
Observe(o, commit) ==
  /\ observer[o] = Off
  /\ \/ ~once("default") /\ commit # ""
     \/ once("default")
  /\ seen' = seen \cup {"default"}
  /\ observer' = [observer EXCEPT ![o] = [at |-> IF once("default") THEN "list" ELSE "deploy",
                                         commit |-> commit]]
  /\ UNCHANGED <<rows, restarts, faults, overtaken, crowded>>

\* ensureDefaults stays out of the way of any existing watch.
ListDefaults(o) ==
  /\ observer[o].at = "list"
  /\ \/ /\ IF rows = <<>> THEN MoveTo(o, "first") ELSE ThenDeploy(o)
        /\ overtaken' = (overtaken \/ \E i \in DOMAIN rows : rows[i].by = "deploy")
        /\ UNCHANGED faults
     \/ ThenDeploy(o) /\ faults' = TRUE /\ UNCHANGED overtaken
  /\ UNCHANGED <<rows, seen, restarts, crowded>>

\* create: the row; what becomes of its baseline changes nothing here.
create(by, what) ==
  \/ /\ Len(rows) < MaxAutoWatches
     /\ rows' = Append(rows, [by |-> by, what |-> what, reports |-> 0])
     /\ UNCHANGED faults
  \/ UNCHANGED rows /\ faults' = TRUE

CreateErrorRate(o) ==
  /\ observer[o].at = "first" /\ MoveTo(o, "second")
  /\ create("default", "error_rate")
  /\ UNCHANGED <<seen, restarts, overtaken, crowded>>
CreateHeartbeat(o) ==
  /\ observer[o].at = "second" /\ ThenDeploy(o)
  /\ create("default", "heartbeat")
  /\ UNCHANGED <<seen, restarts, overtaken, crowded>>
ensureDefaults(o) == ListDefaults(o) \/ CreateErrorRate(o) \/ CreateHeartbeat(o)

\* ensureDeployWatch: once per commit, and not when a listing of the newest rows
\* shows its watch already.
DeployOnce(o) ==
  LET c == observer[o].commit
  IN /\ observer[o].at = "deploy"
     /\ IF once(c) THEN MoveTo(o, "scan") ELSE Done(o)
     /\ seen' = seen \cup {c}
     /\ UNCHANGED <<rows, restarts, faults, overtaken, crowded>>
Listed == {i \in DOMAIN rows : i > Len(rows) - DeployScan}
ListDeploys(o) ==
  /\ observer[o].at = "scan"
  /\ \/ /\ IF \E i \in Listed : rows[i].by = "deploy" /\ rows[i].what = observer[o].commit
             THEN Done(o) ELSE MoveTo(o, "watch")
        /\ crowded' = (crowded \/ Listed # DOMAIN rows)
        /\ UNCHANGED faults
     \/ Done(o) /\ faults' = TRUE /\ UNCHANGED crowded
  /\ UNCHANGED <<rows, seen, restarts, overtaken>>
CreateDeploy(o) ==
  /\ observer[o].at = "watch"
  /\ create("deploy", observer[o].commit)
  /\ IF rows' = rows THEN Done(o) ELSE MoveTo(o, "report")
  /\ UNCHANGED <<seen, restarts, overtaken, crowded>>
\* Each report is scheduled or fails on its own.
ScheduleReports(o) ==
  /\ observer[o].at = "report" /\ Done(o)
  /\ \E n \in 0..reportDelays :
       /\ rows' = [i \in DOMAIN rows |->
                     IF rows[i].by = "deploy" /\ rows[i].what = observer[o].commit
                       /\ \A j \in DOMAIN rows : j > i => rows[j].what # observer[o].commit
                     THEN [rows[i] EXCEPT !.reports = @ + n] ELSE rows[i]]
       /\ faults' = (faults \/ n < reportDelays)
  /\ UNCHANGED <<seen, restarts, overtaken, crowded>>
ensureDeployWatch(o) == DeployOnce(o) \/ ListDeploys(o) \/ CreateDeploy(o) \/ ScheduleReports(o)

\* Somebody creates or deletes a watch.
HandleWatchCreate ==
  /\ Len(rows) < MaxAutoWatches
  /\ rows' = Append(rows, [by |-> "mcp", what |-> "", reports |-> 0])
  /\ UNCHANGED <<seen, observer, restarts, faults, overtaken, crowded>>
HandleWatchDelete ==
  /\ \E i \in DOMAIN rows : rows' = SubSeq(rows, 1, i - 1) \o SubSeq(rows, i + 1, Len(rows))
  /\ faults' = TRUE
  /\ UNCHANGED <<seen, observer, restarts, overtaken, crowded>>

RestartServer ==
  /\ restarts < MaxRestarts /\ restarts' = restarts + 1
  /\ seen' = {} /\ observer' = [o \in Observers |-> Off]
  /\ faults' = (faults \/ \E o \in Observers : observer[o] # Off)
  /\ UNCHANGED <<rows, overtaken, crowded>>

AutoNext ==
  \/ \E o \in Observers :
       \/ \E c \in Commits \cup {""} : Observe(o, c)
       \/ ensureDefaults(o) \/ ensureDeployWatch(o)
  \/ HandleWatchCreate \/ HandleWatchDelete \/ RestartServer

\* The automatic watches come once and whole: never two default watches of a
\* metric, never two watches of a commit while the scan shows every row, across
\* restarts, deletions and concurrent batches; and unless a store call failed, a
\* row was deleted or a deploy watch overtook the defaults, an observed service has
\* both defaults or a watch of somebody's own, and a watched commit both reports
\* (autowatch.go:109, 119, 174).
AutoWatchOnce ==
  LET by(b, w) == {i \in DOMAIN rows : rows[i].by = b /\ rows[i].what = w}
      quiet == \A o \in Observers : observer[o] = Off
  IN /\ \A w \in {"error_rate", "heartbeat"} : Cardinality(by("default", w)) <= 1
     /\ \A c \in Commits : ~crowded => Cardinality(by("deploy", c)) <= 1
     /\ (quiet /\ ~faults) =>
          /\ ("default" \in seen /\ ~overtaken) =>
               \/ by("mcp", "") # {}
               \/ by("default", "error_rate") # {} /\ by("default", "heartbeat") # {}
          /\ \A c \in Commits : \A i \in by("deploy", c) : rows[i].reports = reportDelays
=============================================================================
