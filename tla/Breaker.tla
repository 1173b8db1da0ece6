------------------------------ MODULE Breaker -------------------------------
(***************************************************************************)
(* The circuit breaker of a connector (internal/connector) with the calls  *)
(* that go through it.  An operation of a connector is the sequence of its *)
(* round trips to the data source, told apart by what a failure of one     *)
(* does: "must" fails the call and is counted, "may" is ignored, "check"   *)
(* ends the call without telling the breaker (a missing parameter, a query *)
(* the guardrail rejects, unreadable columns), "stop" may end the call     *)
(* early with success.                                                     *)
(***************************************************************************)
EXTENDS Integers, Sequences, FiniteSets

CONSTANTS Callers,
          Threshold, ResetTimeout, HalfOpenMax,
          SchemaTTL      \* cacheTTL of the schema cache

ASSUME BreakerLimits ==
  /\ IsFiniteSet(Callers) /\ ResetTimeout \in Nat
  /\ Threshold \in Nat \ {0} /\ HalfOpenMax \in Nat \ {0}

VARIABLES breaker,   \* [state, failCount, successCount, since], since lastFailTime
          calls,     \* caller -> [rest, cached]: the round trips left of its call
          schemaAge, \* age of the cached schema answer, or SchemaTTL when there is none
          row,       \* failures recorded since the last recorded success
          opened     \* [from, row, inFlight, restarts] of the last opening
breakerVars == <<breaker, calls, schemaAge, row, opened>>

Resting == [rest |-> <<>>, cached |-> FALSE]
InFlight == {c \in Callers : calls[c] # Resting}

----------------------------------------------------------------------------
\* PostgreSQL
PgTestConnection == <<"must">>
ExecuteReadQueryArgs == <<"check", "must", "must">>
ExecuteControlQuery == <<"must", "must">>
PgPing == <<"must">>
handleDbSearch == <<"check", "check", "must", "must">>
queryTableList == <<"must", "must">>
queryTableColumns == <<"may", "may", "may", "must", "may", "must", "may">>

\* MySQL
MySQLTestConnection == <<"must">>
MySQLExecuteReadQuery == <<"check", "must", "check", "must">>
MySQLPing == <<"must">>
handleMySQLSearch == <<"check", "check", "must", "check", "must">>
queryMySQLTableList == <<"must", "must">>
queryMySQLTableColumns == <<"may", "may", "must", "may", "must", "may">>

\* Redis
RedisTestConnection == <<"must">>
RedisPing == <<"must">>
handleRedisInfo == <<"must">>
handleRedisKeys == <<"check", "must", "stop", "must">>
handleRedisGet == <<"check", "must", "stop", "must", "may", "may", "may", "stop", "must">>
handleRedisSlowlog == <<"must">>

\* Turso
TursoTestConnection == <<"must">>
TursoExecuteReadQuery == <<"check", "must">>
TursoPing == <<"must">>
handleTursoSearch == <<"check", "check", "must">>
queryTursoTableList == <<"must", "may">>
queryTursoTableColumns == <<"must", "must", "may", "may", "may">>

\* The operations that answer from the schema cache when they can.
handleDbSchema == {queryTableList, queryTableColumns}
handleMySQLSchema == {queryMySQLTableList, queryMySQLTableColumns}
handleTursoSchema == {queryTursoTableList, queryTursoTableColumns}
Cached == handleDbSchema \cup handleMySQLSchema \cup handleTursoSchema

Direct ==
  {PgTestConnection, ExecuteReadQueryArgs, ExecuteControlQuery, PgPing, handleDbSearch,
   MySQLTestConnection, MySQLExecuteReadQuery, MySQLPing, handleMySQLSearch,
   RedisTestConnection, RedisPing, handleRedisInfo, handleRedisKeys, handleRedisGet,
   handleRedisSlowlog, TursoTestConnection, TursoExecuteReadQuery, TursoPing,
   handleTursoSearch}

----------------------------------------------------------------------------
NewCircuitBreaker ==
  [state |-> "closed", failCount |-> 0, successCount |-> 0, since |-> ResetTimeout]

BreakerInit ==
  /\ breaker = NewCircuitBreaker
  /\ calls = [c \in Callers |-> Resting]
  /\ schemaAge = SchemaTTL
  /\ row = 0
  /\ opened = [from |-> "closed", row |-> Threshold, inFlight |-> 0, restarts |-> 0]

Allow(b) ==
  IF b.state # "open" THEN [err |-> FALSE, b |-> b]
  ELSE IF b.since >= ResetTimeout
    THEN [err |-> FALSE, b |-> [b EXCEPT !.state = "half_open", !.successCount = 0]]
    ELSE [err |-> TRUE, b |-> b]

RecordSuccess(b) ==
  CASE b.state = "half_open" /\ b.successCount + 1 >= HalfOpenMax ->
         [b EXCEPT !.state = "closed", !.failCount = 0, !.successCount = 0]
    [] b.state = "half_open" /\ b.successCount + 1 < HalfOpenMax ->
         [b EXCEPT !.successCount = @ + 1]
    [] b.state = "closed" -> [b EXCEPT !.failCount = 0]
    [] OTHER -> b

\* lastFailTime moves whatever the state.
RecordFailure(b) ==
  LET now == [b EXCEPT !.since = 0]
  IN CASE b.state = "closed" ->
            [now EXCEPT !.failCount = @ + 1,
                        !.state = IF b.failCount + 1 >= Threshold THEN "open" ELSE "closed"]
       [] b.state = "half_open" -> [now EXCEPT !.state = "open", !.successCount = 0]
       [] OTHER -> now

\* A call enters the connector: the schema cache first, then the breaker.
CallBegin(c, op, cached) ==
  /\ calls[c] = Resting
  /\ cached => schemaAge >= SchemaTTL
  /\ LET a == Allow(breaker)
     IN /\ breaker' = a.b
        /\ calls' = [calls EXCEPT ![c] = IF a.err THEN Resting ELSE [rest |-> op, cached |-> cached]]
        /\ opened' = [opened EXCEPT !.restarts = IF a.b.since < breaker.since THEN @ + 1 ELSE @]
  /\ UNCHANGED <<schemaAge, row>>

Report(c, b) == breaker' = b /\ calls' = [calls EXCEPT ![c] = Resting]

CallFails(c) ==
  LET b == RecordFailure(breaker)
  IN /\ Report(c, b)
     /\ row' = IF row < Threshold THEN row + 1 ELSE row
     /\ opened' = IF breaker.state # "open" /\ b.state = "open"
                    THEN [from |-> breaker.state, row |-> row + 1,
                          inFlight |-> Cardinality(InFlight \ {c}), restarts |-> 0]
                  ELSE IF breaker.state = "open" THEN [opened EXCEPT !.restarts = @ + 1]
                  ELSE opened
     /\ UNCHANGED schemaAge

CallSucceeds(c) ==
  /\ Report(c, RecordSuccess(breaker))
  /\ row' = 0
  /\ schemaAge' = IF calls[c].cached THEN 0 ELSE schemaAge
  /\ UNCHANGED opened

\* One round trip of an admitted call.
CallStep(c) ==
  LET rest == calls[c].rest
      kind == Head(rest)
  IN /\ c \in InFlight
     /\ \/ kind = "must" /\ CallFails(c)
        \/ kind = "check" /\ Report(c, breaker) /\ UNCHANGED <<schemaAge, row, opened>>
        \/ kind = "stop" /\ CallSucceeds(c)
        \/ /\ Len(rest) > 1
           /\ calls' = [calls EXCEPT ![c].rest = Tail(rest)]
           /\ UNCHANGED <<breaker, schemaAge, row, opened>>
        \/ Len(rest) = 1 /\ CallSucceeds(c)

BreakerTick ==
  /\ breaker.since < ResetTimeout \/ schemaAge < SchemaTTL
  /\ breaker' = [breaker EXCEPT !.since = IF @ < ResetTimeout THEN @ + 1 ELSE @]
  /\ schemaAge' = IF schemaAge < SchemaTTL THEN schemaAge + 1 ELSE schemaAge
  /\ UNCHANGED <<calls, row, opened>>

BreakerNext ==
  \/ \E c \in Callers :
       \/ \E op \in Direct : CallBegin(c, op, FALSE)
       \/ \E op \in Cached : CallBegin(c, op, TRUE)
       \/ CallStep(c)
  \/ BreakerTick

BreakerSpec == BreakerInit /\ [][BreakerNext]_breakerVars

\* A data source is cut off only with cause: the circuit opens after Threshold
\* failures in a row with no success between them, or after a failed probe; and
\* while it is open its wait restarts at most once for each call that was already
\* in flight, so refused calls never prolong the outage, although RecordFailure
\* moves lastFailTime in every state (circuit_breaker.go:131).
CutOffWithCause ==
  /\ breaker.state = "open" =>
       /\ opened.row >= (IF opened.from = "closed" THEN Threshold ELSE 1)
       /\ opened.restarts + Cardinality(InFlight) <= opened.inFlight
  /\ breaker.state = "half_open" => breaker.successCount < HalfOpenMax
  /\ breaker.state = "closed" => breaker.failCount = row
=============================================================================
