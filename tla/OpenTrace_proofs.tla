-------------------------- MODULE OpenTrace_proofs --------------------------
(***************************************************************************)
(* What the components of the server promise holds in the composition: a   *)
(* server step is a step of one component and leaves the others alone.     *)
(***************************************************************************)
EXTENDS OpenTrace, Access_proofs, Connections_proofs, Watches_proofs, JobQueue_proofs, TLAPS

(* A step of the server, seen from accounts, backups, sessions and         *)
(* connectors.                                                             *)
LEMMA AccessSteps ==
  ASSUME [Next]_serverVars
  PROVE  /\ [AccountsNext]_accountVars
         /\ [BackupsNext]_backupVars
         /\ [GateNext]_gateVars
         /\ [ConnNext]_connVars
         /\ [BreakerNext]_breakerVars
<1>1. CASE UNCHANGED accessVars
  BY <1>1 DEF accessVars
<1>2. CASE AccessNext
  BY <1>2 DEF AccessNext
<1>3. AccessNext \/ UNCHANGED accessVars
  BY Zenon DEF Next, IntakeNext, AlertNext, ReadNext, serverVars
<1> QED
  BY <1>1, <1>2, <1>3

(* There is always an administrator who can sign in and a lockout holds,   *)
(* however the setup form, the user handlers and concurrent logins         *)
(* interleave (internal/auth).                                             *)
THEOREM AccountsComposed == Spec => []AccountsSafe
<1>1. Init => AccountsInv
  BY AccountsStart DEF Init
<1>2. AccountsInv /\ [Next]_serverVars => AccountsInv'
  BY AccountsStep, AccessSteps
<1>3. AccountsInv => AccountsSafe
  BY DEF AccountsInv, AccountsSafe
<1> QED
  BY <1>1, <1>2, <1>3, PTL DEF Spec

(* Backups.RestoreSafe for any number of commands: no step of a backup or  *)
(* a restore, and no crash between two of them, leaves the data directory  *)
(* without a way back (internal/cli).                                      *)
THEOREM BackupsComposed == Spec => []DataRecoverable
<1>1. Init => BackupsInv
  BY BackupsStart DEF Init
<1>2. BackupsInv /\ [Next]_serverVars => BackupsInv'
  BY BackupsStep, AccessSteps
<1>3. BackupsInv => DataRecoverable
  BY DEF BackupsInv, DataRecoverable
<1> QED
  BY <1>1, <1>2, <1>3, PTL DEF Spec

(* SSEGate.GateReleases for any number of posts and session states.        *)
THEOREM SessionsComposed == Spec => []SessionsReleased
<1>1. Init => GateInv
  BY GateStart DEF Init
<1>2. GateInv /\ [Next]_serverVars => GateInv'
  BY CountingHolds, GateStep, AccessSteps
<1>3. GateInv => SessionsReleased
  BY CountingHolds, GateImplies DEF SessionsReleased
<1> QED
  BY <1>1, <1>2, <1>3, PTL DEF Spec

(* The circuit opens only with cause and refused calls do not prolong an   *)
(* outage; every connection has one owner and the registry serves what the *)
(* configuration says: for any number of callers, sources and tests.       *)
THEOREM ConnectorsComposed == Spec => []ConnectorsSound
<1>1. Init => ConnInv /\ BreakerInv
  BY ConnStart, BreakerStart DEF Init
<1>2. ConnInv /\ BreakerInv /\ [Next]_serverVars => (ConnInv /\ BreakerInv)'
  BY CountingHolds, ConnStep, BreakerStep, AccessSteps
<1>3. ConnInv /\ BreakerInv => ConnectorsSound
  BY ConnImplies DEF BreakerInv, ConnectorsSound
<1> QED
  BY <1>1, <1>2, <1>3, PTL DEF Spec

(* A step of the server, seen from ingestion and from the on-call agent.   *)
LEMMA IntakeSteps ==
  ASSUME [Next]_serverVars
  PROVE  [IngestNext]_ingestVars /\ [QueueNext]_queueVars /\ [SamplingNext]_samplingVars
<1>1. CASE UNCHANGED intakeVars
  BY <1>1 DEF intakeVars
<1>2. CASE IntakeNext
  BY <1>2 DEF IntakeNext
<1>3. IntakeNext \/ UNCHANGED intakeVars
  BY Zenon DEF Next, AlertNext, ReadNext, AccessNext, serverVars
<1> QED
  BY <1>1, <1>2, <1>3

(* A step of the server, seen from the on-call agent.                      *)
LEMMA AlertSteps ==
  ASSUME [Next]_serverVars
  PROVE  [OnCallNext]_onCallVars
<1>1. CASE UNCHANGED alertVars
  BY <1>1 DEF alertVars
<1>2. CASE AlertNext
  BY <1>2 DEF AlertNext
<1>3. AlertNext \/ UNCHANGED alertVars
  BY Zenon DEF Next, IntakeNext, ReadNext, AccessNext, serverVars
<1> QED
  BY <1>1, <1>2, <1>3

(* The side effects of a batch run once and the counter of queued entries  *)
(* does not drift, a batch is written twice only when a retry overtook it  *)
(* or its id was forgotten; an entry of the opt-in queue is in exactly one *)
(* place; a sampling rule changed longer ago than its TTL is not applied:  *)
(* for any number of batches, retries and entries and any bounds           *)
(* (internal/ingest).                                                      *)
THEOREM IngestComposed == Spec => []IngestedOnce
<1>1. Init => IngestInv /\ QueueInv /\ SamplingInv
  BY CountingHolds, IngestStart, QueueStart, SamplingStart DEF Init
<1>2. IngestInv /\ QueueInv /\ SamplingInv /\ [Next]_serverVars
        => (IngestInv /\ QueueInv /\ SamplingInv)'
  BY CountingHolds, IngestStep, QueueStep, SamplingStep, IntakeSteps
<1>3. IngestInv /\ QueueInv /\ SamplingInv => IngestedOnce
  BY CountingHolds, IngestHolds, RulesFresh DEF QueueInv, IngestedOnce
<1> QED
  BY <1>1, <1>2, <1>3, PTL DEF Spec

(* The on-call agent stays within its cooldown and its daily budget and    *)
(* files one issue per error group unless a concurrent lookup shared it,   *)
(* whose link no later step takes away: for any number of alerts and       *)
(* groups and any budget (internal/oncall).                                *)
THEOREM OnCallComposed == Spec => OnCallBounded
<1>1. Init => OnCallInv
  BY CountingHolds, OnCallStart DEF Init
<1>2. OnCallInv /\ [Next]_serverVars => OnCallInv'
  BY CountingHolds, OnCallStep, AlertSteps
<1>3. OnCallInv /\ [Next]_serverVars => [OnCallTypeOK' /\ AgentBudget' /\ OneIssuePerGroup]_onCallVars
  BY CountingHolds, OnCallSteps, AlertSteps
<1> QED
  BY <1>1, <1>2, <1>3, PTL DEF Spec, OnCallBounded
=============================================================================
