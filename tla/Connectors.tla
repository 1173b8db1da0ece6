----------------------------- MODULE Connectors -----------------------------
(***************************************************************************)
(* Connectors: the data_sources table, the registry of live connections    *)
(* (one per connector type, while the table may hold several rows of a     *)
(* type), the connectors tool of administrators, and the reconnection at   *)
(* startup (cmd/opentrace/main.go).  All rows here are of one type.        *)
(***************************************************************************)
EXTENDS Integers, FiniteSets

CONSTANTS Sources,       \* rows that may be created
          TestCalls,     \* calls of action=test under way at once
          MaxConns,      \* connections the run may open
          MaxConfig      \* configurations of a row

ASSUME SourcesNamed == "" \notin Sources

VARIABLES sources,    \* source -> [config, status], or NoSource
          conns,      \* connections opened: conn -> [src, config, open]
          registered, \* the registry's connection, or 0
          tests,      \* test call -> [at, src, config, conn]
          booting,    \* sources the startup reconnection still has to try
          edit,       \* the row an update or delete has under way, or NoEdit
          raced       \* a row changed under a test of it
connVars == <<sources, conns, registered, tests, booting, edit, raced>>

NoSource == [config |-> 0, status |-> "none"]
NoTest == [at |-> "none", src |-> "", config |-> 0, conn |-> 0]
NoEdit == [src |-> "", op |-> "none"]
UnderTest(s) == \E t \in TestCalls : tests[t].src = s
Exists(s) == sources[s] # NoSource
Opened == DOMAIN conns
NextConn == Cardinality(Opened) + 1

ConnInit ==
  /\ sources = [s \in Sources |-> NoSource]
  /\ conns = [i \in {} |-> [src |-> "", config |-> 0, open |-> FALSE]]
  /\ registered = 0
  /\ tests = [t \in TestCalls |-> NoTest]
  /\ booting = {} /\ edit = NoEdit /\ raced = FALSE

----------------------------------------------------------------------------
\* dataSourceStore.Update: a new configuration without a status disconnects.
UpdateSource(s, config, status) ==
  IF ~Exists(s) THEN sources
  ELSE [sources EXCEPT ![s].config = IF config = 0 THEN @ ELSE config,
                       ![s].status = IF status # "" THEN status
                                     ELSE IF config # 0 THEN "disconnected" ELSE @]

CloseConn(c, i) == [j \in DOMAIN c |-> IF j = i THEN [c[j] EXCEPT !.open = FALSE] ELSE c[j]]

\* CreateConnector: opens a connection, which may fail.
CreateConnector(s, config) ==
  [j \in Opened \cup {NextConn} |->
     IF j = NextConn THEN [src |-> s, config |-> config, open |-> TRUE] ELSE conns[j]]

Register(c, i) == [conns |-> IF registered # 0 THEN CloseConn(c, registered) ELSE c, reg |-> i]
Unregister(c) == [conns |-> IF registered # 0 THEN CloseConn(c, registered) ELSE c, reg |-> 0]

HandleConnectorCreate(s) ==
  /\ ~Exists(s)
  /\ sources' = [sources EXCEPT ![s] = [config |-> 1, status |-> "disconnected"]]
  /\ UNCHANGED <<conns, registered, tests, booting, edit, raced>>

\* HandleConnectorTest: reads the row, opens and tests a connection, registers it,
\* then writes the status; a failed write of it goes unnoticed.
TestRead(t, s) ==
  /\ tests[t] = NoTest /\ Exists(s)
  /\ tests' = [tests EXCEPT ![t] = [at |-> "read", src |-> s, config |-> sources[s].config,
                                   conn |-> 0]]
  /\ raced' = (raced \/ edit.src = s)
  /\ UNCHANGED <<sources, conns, registered, booting, edit>>
\* Mutant: a connection whose test fails is not closed.
TestConnectLeaky(t) ==
  LET s == tests[t].src
  IN /\ tests[t].at = "read" /\ NextConn <= MaxConns
     /\ conns' = CreateConnector(s, tests[t].config)
     /\ \/ tests' = [tests EXCEPT ![t].at = "tested", ![t].conn = NextConn] /\ UNCHANGED sources
        \/ tests' = [tests EXCEPT ![t] = NoTest] /\ sources' = UpdateSource(s, 0, "error")
     /\ UNCHANGED <<registered, booting, edit, raced>>
TestConnect(t) ==
  LET s == tests[t].src
  IN /\ tests[t].at = "read" /\ NextConn <= MaxConns
     /\ \/ /\ conns' = CreateConnector(s, tests[t].config)
           /\ tests' = [tests EXCEPT ![t].at = "tested", ![t].conn = NextConn]
           /\ UNCHANGED sources
        \/ /\ \/ UNCHANGED conns
              \/ conns' = CloseConn(CreateConnector(s, tests[t].config), NextConn)
           /\ tests' = [tests EXCEPT ![t] = NoTest]
           /\ sources' \in {sources, UpdateSource(s, 0, "error")}
     /\ UNCHANGED <<registered, booting, edit, raced>>
TestRegister(t) ==
  LET r == Register(conns, tests[t].conn)
  IN /\ tests[t].at = "tested"
     /\ conns' = r.conns /\ registered' = r.reg
     /\ tests' = [tests EXCEPT ![t].at = "registered"]
     /\ UNCHANGED <<sources, booting, edit, raced>>
TestStatus(t) ==
  /\ tests[t].at = "registered"
  /\ tests' = [tests EXCEPT ![t] = NoTest]
  /\ sources' \in {sources, UpdateSource(tests[t].src, 0, "connected")}
  /\ UNCHANGED <<conns, registered, booting, edit, raced>>

\* HandleConnectorUpdate with a connection string, and HandleConnectorDelete: the
\* registry drops whatever connection of the type it holds, then the row is
\* written, which may fail.
EditBegin(s, op) ==
  LET r == Unregister(conns)
  IN /\ edit = NoEdit /\ Exists(s)
     /\ op = "update" => sources[s].config < MaxConfig
     /\ edit' = [src |-> s, op |-> op]
     /\ conns' = r.conns /\ registered' = r.reg
     /\ raced' = (raced \/ UnderTest(s))
     /\ UNCHANGED <<sources, tests, booting>>
HandleConnectorUpdate(s) ==
  \/ EditBegin(s, "update")
  \/ /\ edit = [src |-> s, op |-> "update"] /\ edit' = NoEdit
     /\ sources' \in {sources, UpdateSource(s, sources[s].config + 1, "")}
     /\ UNCHANGED <<conns, registered, tests, booting, raced>>
HandleConnectorDelete(s) ==
  \/ EditBegin(s, "delete")
  \/ /\ edit = [src |-> s, op |-> "delete"] /\ edit' = NoEdit
     /\ sources' \in {sources, [sources EXCEPT ![s] = NoSource]}
     /\ UNCHANGED <<conns, registered, tests, booting, raced>>

\* A restart loses the registry and the calls under way; reconnectConnectors then
\* tries every row that was connected, none if they cannot be listed.
Restart ==
  /\ booting = {} /\ NextConn <= MaxConns
  /\ conns' = [j \in Opened |-> [conns[j] EXCEPT !.open = FALSE]]
  /\ registered' = 0 /\ tests' = [t \in TestCalls |-> NoTest]
  /\ booting' \in {{}, {s \in Sources : sources[s].status = "connected"}}
  /\ edit' = NoEdit
  /\ UNCHANGED <<sources, raced>>
reconnectConnectors ==
  \E s \in booting :
    /\ booting' = booting \ {s} /\ NextConn <= MaxConns
    /\ \/ LET r == Register(CreateConnector(s, sources[s].config), NextConn)
          IN conns' = r.conns /\ registered' = r.reg /\ UNCHANGED sources
       \/ sources' \in {sources, UpdateSource(s, 0, "error")} /\ UNCHANGED <<conns, registered>>
    /\ UNCHANGED <<tests, edit, raced>>

\* Requests are served only once the server has booted.
Serving == booting = {}
ConnNext ==
  \/ Serving /\ \E s \in Sources :
       \/ HandleConnectorCreate(s) \/ HandleConnectorUpdate(s) \/ HandleConnectorDelete(s)
       \/ \E t \in TestCalls : TestRead(t, s)
  \/ \E t \in TestCalls : TestConnect(t) \/ TestRegister(t) \/ TestStatus(t)
  \/ Restart \/ reconnectConnectors

ConnSpec == ConnInit /\ [][ConnNext]_connVars

\* Every open connection has exactly one owner, the registry or a test that will
\* register it, so none leaks, and the registry never hands out a closed one;
\* unless a row was changed while a test of it was under way, the connection in
\* use is the one its row describes now (connectors.go:332).
ConnectionsOwned ==
  /\ \A i \in Opened :
       conns[i].open <=> (registered = i
                          \/ \E t \in TestCalls : tests[t].at = "tested" /\ tests[t].conn = i)
  /\ (registered # 0 /\ ~raced) => conns[registered].config = sources[conns[registered].src].config
=============================================================================
