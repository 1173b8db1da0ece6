------------------------------ MODULE SSEGate -------------------------------
(***************************************************************************)
(* The gate in front of the SSE transport (internal/api/mcp_sse_gate.go):  *)
(* POSTs of a session are held until its initialize was forwarded, for a   *)
(* bounded time, and belong to the user who sent the first of them.        *)
(***************************************************************************)
EXTENDS Integers, FiniteSets

CONSTANTS Posts,            \* concurrent POSTs of one session
          GateUsers,        \* users, "" for a request without one
          InitWait,         \* initWaitTimeout
          GateTTL,          \* gateSessionTTL
          MaxStates         \* session states the run may create

ASSUME WaitsAreShort == InitWait \in Nat /\ GateTTL \in Nat /\ InitWait < GateTTL

VARIABLES posts,      \* post -> [at, kind, user, gate, waited]
          gates,      \* session states created: gate -> [done, user, idle]
          liveGate,    \* the gate in g.sessions, or 0
          forwarded   \* initialize has been forwarded since the last sweep
gateVars == <<posts, gates, liveGate, forwarded>>

NewPost == [at |-> "new", kind |-> "call", user |-> "", gate |-> 0, waited |-> 0]
newSessionState == [done |-> FALSE, user |-> "", idle |-> 0]
Live == liveGate # 0

GateInit ==
  /\ posts = [p \in Posts |-> NewPost]
  /\ gates = [i \in {} |-> newSessionState]
  /\ liveGate = 0 /\ forwarded = FALSE

\* stateFor, and the lookup of bindUser: a missing state is made, a found one touched.
Fresh == Cardinality(DOMAIN gates) + 1
LookedUp == IF Live THEN liveGate ELSE Fresh
Touched == [i \in DOMAIN gates \cup {LookedUp} |->
              IF i # LookedUp THEN gates[i]
              ELSE IF Live THEN [gates[i] EXCEPT !.idle = 0] ELSE newSessionState]
MayLookUp == Live \/ Cardinality(DOMAIN gates) < MaxStates

Forward(p, at) == posts' = [posts EXCEPT ![p].at = at]

\* wrap: a request of a session is bound to its user; another user is refused.
bindUser(p, kind, user) ==
  /\ posts[p].at = "new" /\ MayLookUp
  /\ IF user = "" THEN /\ posts' = [posts EXCEPT ![p].at = "bound", ![p].kind = kind]
                       /\ UNCHANGED <<gates, liveGate>>
     ELSE LET owner == Touched[LookedUp].user
          IN /\ liveGate' = LookedUp
             /\ gates' = [Touched EXCEPT ![LookedUp].user = IF owner = "" THEN user ELSE owner]
             /\ posts' = [posts EXCEPT ![p].kind = kind, ![p].user = user,
                            ![p].at = IF owner \in {"", user} THEN "bound" ELSE "refused"]
  /\ UNCHANGED forwarded

\* initialize goes through at once and opens the gate afterwards, on the state
\* the session has by then.
ForwardInitialize(p) ==
  /\ posts[p].at = "bound" /\ posts[p].kind = "initialize"
  /\ Forward(p, "marking")
  /\ UNCHANGED <<gates, liveGate, forwarded>>
\* Mutant: the gate is opened on a state of its own.
markInitializedElsewhere(p) ==
  /\ posts[p].at = "marking" /\ MayLookUp
  /\ Forward(p, "sent") /\ liveGate' = LookedUp /\ gates' = Touched
  /\ forwarded' = TRUE
markInitialized(p) ==
  /\ posts[p].at = "marking" /\ MayLookUp
  /\ Forward(p, "sent") /\ liveGate' = LookedUp
  /\ gates' = [Touched EXCEPT ![LookedUp].done = TRUE]
  /\ forwarded' = TRUE

\* ping and the notifications pass.
ForwardPing(p) ==
  /\ posts[p].at = "bound" /\ posts[p].kind = "ping"
  /\ Forward(p, "sent")
  /\ UNCHANGED <<gates, liveGate, forwarded>>

\* waitForInit: the state is looked up once, then the request waits for it to
\* open, for the timeout, or for the client to go away.
waitForInit(p) ==
  /\ posts[p].at = "bound" /\ posts[p].kind = "call" /\ MayLookUp
  /\ posts' = [posts EXCEPT ![p].at = "waiting", ![p].gate = LookedUp]
  /\ gates' = Touched /\ liveGate' = LookedUp
  /\ UNCHANGED forwarded

Released(p) == gates[posts[p].gate].done
StopWaiting(p) ==
  /\ posts[p].at = "waiting"
  /\ \/ Released(p) /\ Forward(p, "sent")
     \/ ~Released(p) /\ posts[p].waited >= InitWait /\ Forward(p, "late")
     \/ Forward(p, "gone")
  /\ UNCHANGED <<gates, liveGate, forwarded>>

\* Time: no waiting request outlives its timeout.
GateTick ==
  /\ \A p \in Posts : posts[p].at = "waiting" => ~Released(p) /\ posts[p].waited < InitWait
  /\ Live /\ gates[liveGate].idle <= GateTTL
  /\ posts' = [p \in Posts |-> IF posts[p].at = "waiting" THEN [posts[p] EXCEPT !.waited = @ + 1]
                               ELSE posts[p]]
  /\ gates' = [gates EXCEPT ![liveGate].idle = @ + 1]
  /\ UNCHANGED <<liveGate, forwarded>>

sweepLoop ==
  /\ Live /\ gates[liveGate].idle > GateTTL
  /\ liveGate' = 0 /\ forwarded' = FALSE
  /\ UNCHANGED <<posts, gates>>

GateNext ==
  \/ \E p \in Posts :
       \/ \E kind \in {"initialize", "ping", "call"}, u \in GateUsers : bindUser(p, kind, u)
       \/ ForwardInitialize(p) \/ markInitialized(p) \/ ForwardPing(p) \/ waitForInit(p)
       \/ StopWaiting(p)
  \/ GateTick \/ sweepLoop

GateSpec == GateInit /\ [][GateNext]_gateVars

\* A request is never left waiting for an initialize that was already forwarded:
\* every waiter looks at the state its session still has, so opening the gate
\* releases all of them and the sweep takes no state away from under one
\* (mcp_sse_gate.go:118).  Between two sweeps a session serves one user.
GateReleases ==
  /\ \A p \in Posts : posts[p].at = "waiting" =>
       /\ posts[p].gate = liveGate
       /\ forwarded => Released(p)
  /\ \A p, q \in Posts :
       (posts[p].at \in {"waiting", "marking"} /\ posts[q].at = "waiting"
        /\ "" \notin {posts[p].user, posts[q].user} /\ Cardinality(DOMAIN gates) = 1)
         => posts[p].user = posts[q].user
=============================================================================
