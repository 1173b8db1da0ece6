------------------------- MODULE Connections_proofs -------------------------
(***************************************************************************)
(* The gate of the SSE sessions and the connectors, each for any number of *)
(* actors and any bounds, along the argument of Access_proofs.             *)
(***************************************************************************)
EXTENDS SSEGate, Connectors, Ingest, Counting, TLAPS

-----------------------------------------------------------------------------
(* The stream gate and the connector manager.                              *)
-----------------------------------------------------------------------------
(* The SSE gate.                                                           *)
GateRows == [done : BOOLEAN, user : GateUsers \cup {""}, idle : Nat]
PostRows == [at : {"new", "bound", "refused", "marking", "sent", "waiting", "late", "gone"},
             kind : {"initialize", "ping", "call"}, user : GateUsers \cup {""},
             gate : Nat, waited : Nat]
(* The states of the session are numbered in the order of their creation.  *)
GateTypes ==
  /\ \E n \in Nat : DOMAIN gates = 1..n
  /\ gates \in [DOMAIN gates -> GateRows]
  /\ posts \in [Posts -> PostRows]
  /\ liveGate \in DOMAIN gates \cup {0} /\ forwarded \in BOOLEAN
  /\ \A p \in Posts : /\ posts[p].at = "new" => posts[p].user = ""
                      /\ posts[p].at \in {"new", "bound"} => posts[p].waited = 0

(* A state has been idle for no longer than its youngest waiter waits.     *)
WaitersHold ==
  \A p \in Posts : posts[p].at = "waiting" =>
    /\ liveGate # 0 /\ posts[p].gate = liveGate
    /\ gates[liveGate].idle <= posts[p].waited /\ posts[p].waited <= InitWait
OpenedForAll == forwarded => liveGate # 0 /\ gates[liveGate].done
(* The first state belongs to whoever was let in.                          *)
FirstOwner ==
  /\ DOMAIN gates = {} => \A p \in Posts : posts[p].user = ""
  /\ DOMAIN gates = {1} =>
       \A p \in Posts : posts[p].at \in {"bound", "marking", "waiting"} /\ posts[p].user # "" =>
         gates[1].user = posts[p].user
GateInv == GateTypes /\ WaitersHold /\ OpenedForAll /\ FirstOwner

(* What the SSE gate promises follows from its invariant.                  *)
LEMMA GateImplies == CountingFacts /\ GateInv => GateReleases
<1> SUFFICES ASSUME CountingFacts, GateInv PROVE GateReleases
  OBVIOUS
<1>1. PICK n \in Nat : DOMAIN gates = 1..n
  BY Zenon DEF GateInv, GateTypes
<1>2. Cardinality(DOMAIN gates) = 1 => DOMAIN gates = {1}
  <2>1. Cardinality(1..n) = IF 1 > n THEN 0 ELSE n - 1 + 1
    BY DEF CountingFacts, RangesCount
  <2> QED
    BY <1>1, <2>1
<1>3. \A p \in Posts : posts[p].at = "waiting" =>
        posts[p].gate = liveGate /\ (forwarded => Released(p))
  BY DEF GateInv, WaitersHold, OpenedForAll, Released
<1>4. \A p, q \in Posts :
       (posts[p].at \in {"waiting", "marking"} /\ posts[q].at = "waiting"
        /\ "" \notin {posts[p].user, posts[q].user} /\ Cardinality(DOMAIN gates) = 1)
         => posts[p].user = posts[q].user
  BY Zenon, <1>2 DEF GateInv, FirstOwner
<1> QED
  BY Zenon, <1>3, <1>4 DEF GateReleases

(* The invariant of the gate holds when no session is known.               *)
LEMMA GateStart == GateInit => GateInv
<1> SUFFICES ASSUME GateInit PROVE GateInv
  OBVIOUS
<1>1. DOMAIN gates = {} /\ DOMAIN gates = 1..0
  BY DEF GateInit
<1>2. NewPost \in PostRows /\ NewPost.at = "new" /\ NewPost.user = "" /\ NewPost.waited = 0
  BY DEF NewPost, PostRows
<1>3. GateTypes
  <2>1. \E n \in Nat : DOMAIN gates = 1..n
    BY <1>1
  <2>2. gates \in [DOMAIN gates -> GateRows]
    BY <1>1 DEF GateInit
  <2> QED
    BY Zenon, <1>2, <2>1, <2>2 DEF GateInit, GateTypes
<1> QED
  BY Zenon, <1>1, <1>2, <1>3 DEF GateInit, GateInv, WaitersHold, OpenedForAll, FirstOwner

(* A lookup finds the state of the session, or makes one: what it leaves   *)
(* in place, and that it stops the idle clock.                             *)
LEMMA RowLooked ==
  ASSUME CountingFacts, GateInv
  PROVE  /\ LookedUp \in DOMAIN Touched /\ LookedUp # 0
         /\ \E n \in Nat : DOMAIN Touched = 1..n
         /\ DOMAIN gates \in SUBSET DOMAIN Touched
         /\ Touched \in [DOMAIN Touched -> GateRows]
         /\ Touched[LookedUp].idle = 0
         /\ liveGate # 0 => LookedUp = liveGate /\ DOMAIN Touched = DOMAIN gates
         /\ \A i \in DOMAIN gates : /\ Touched[i].done = gates[i].done
                                    /\ Touched[i].user = gates[i].user
         /\ liveGate = 0 => LookedUp \notin DOMAIN gates /\ Touched[LookedUp] = newSessionState
         /\ DOMAIN Touched = {1} => LookedUp = 1 /\ DOMAIN gates \in {{}, {1}}
         /\ DOMAIN Touched # {}
<1>1. PICK n \in Nat : DOMAIN gates = 1..n
  BY Zenon DEF GateInv, GateTypes
<1>2. Fresh = n + 1
  <2>1. Cardinality(1..n) = IF 1 > n THEN 0 ELSE n - 1 + 1
    BY DEF CountingFacts, RangesCount
  <2>2. Cardinality(1..n) = n
    BY <2>1
  <2> QED
    BY <1>1, <2>2 DEF Fresh
<1>3. newSessionState \in GateRows /\ newSessionState.idle = 0
  BY DEF newSessionState, GateRows
<1>4. DOMAIN Touched = DOMAIN gates \cup {LookedUp}
  BY DEF Touched
<1>5. CASE Live
  <2>1. LookedUp = liveGate /\ liveGate \in DOMAIN gates /\ liveGate # 0
    BY Zenon, <1>5 DEF LookedUp, Live, GateInv, GateTypes
  <2>2. DOMAIN Touched = DOMAIN gates
    BY <1>4, <2>1
  <2>3. ASSUME NEW i \in DOMAIN gates
        PROVE  /\ Touched[i] \in GateRows
               /\ Touched[i].done = gates[i].done /\ Touched[i].user = gates[i].user
               /\ i = liveGate => Touched[i].idle = 0
    <3>1. gates[i] \in GateRows
      BY Zenon DEF GateInv, GateTypes
    <3>2. Touched[i] = IF i # liveGate THEN gates[i] ELSE [gates[i] EXCEPT !.idle = 0]
      BY <1>5, <2>1, <2>3 DEF Touched
    <3>3. /\ [gates[i] EXCEPT !.idle = 0] \in GateRows
          /\ [gates[i] EXCEPT !.idle = 0].done = gates[i].done
          /\ [gates[i] EXCEPT !.idle = 0].user = gates[i].user
          /\ [gates[i] EXCEPT !.idle = 0].idle = 0
      BY Zenon, <3>1 DEF GateRows
    <3> QED
      BY <3>1, <3>2, <3>3
  <2>4. Touched \in [DOMAIN Touched -> GateRows]
    BY <2>2, <2>3 DEF Touched
  <2> QED
    BY <1>1, <1>5, <2>1, <2>2, <2>3, <2>4 DEF Live
<1>6. CASE ~Live
  <2>1. LookedUp = n + 1 /\ DOMAIN Touched = 1..(n + 1) /\ LookedUp \notin DOMAIN gates
    BY <1>1, <1>2, <1>4, <1>6 DEF LookedUp
  <2>2. \A i \in DOMAIN gates : Touched[i] = gates[i] /\ gates[i] \in GateRows
    BY Zenon, <2>1 DEF Touched, GateInv, GateTypes
  <2>3. Touched[LookedUp] = newSessionState
    BY <1>6 DEF Touched
  <2>4. Touched \in [DOMAIN Touched -> GateRows]
    BY <1>3, <1>4, <2>2, <2>3 DEF Touched
  <2>5. DOMAIN Touched = {1} => LookedUp = 1 /\ DOMAIN gates = {}
    BY <1>1, <2>1
  <2> QED
    BY <1>1, <1>3, <1>4, <1>6, <2>1, <2>2, <2>3, <2>4, <2>5 DEF Live
<1> QED
  BY <1>5, <1>6

(* A request that moves on without a lookup.                               *)
LEMMA PostMoves ==
  ASSUME GateInv, NEW p \in Posts, posts' \in [Posts -> PostRows],
         \A q \in Posts \ {p} : posts'[q] = posts[q],
         posts'[p].user = posts[p].user, posts'[p].at \notin {"new", "waiting"},
         posts'[p].at \in {"bound", "marking"} => posts[p].at \in {"new", "bound"},
         posts'[p].waited = posts[p].waited,
         UNCHANGED <<gates, liveGate, forwarded>>
  PROVE  GateInv'
<1>1. GateTypes'
  BY Zenon DEF GateInv, GateTypes
<1>2. WaitersHold' /\ OpenedForAll'
  BY DEF GateInv, WaitersHold, OpenedForAll
<1>3. FirstOwner'
  BY Zenon DEF GateInv, GateTypes, FirstOwner
<1> QED
  BY <1>1, <1>2, <1>3 DEF GateInv

(* A request that moves on with one.                                       *)
LookUpMove(p) ==
  /\ posts' \in [Posts -> PostRows]
  /\ \A q \in Posts \ {p} : posts'[q] = posts[q]
  /\ posts'[p].at # "new"
  /\ posts'[p].at = "bound" => posts'[p].waited = 0
  /\ posts'[p].at = "waiting" => posts'[p].gate = LookedUp /\ posts'[p].waited = 0
  /\ DOMAIN gates' = DOMAIN Touched /\ gates' \in [DOMAIN Touched -> GateRows]
  /\ \A i \in DOMAIN Touched :
       /\ gates'[i].idle = Touched[i].idle
       /\ Touched[i].done => gates'[i].done
       /\ Touched[i].user # "" => gates'[i].user = Touched[i].user
  /\ posts'[p].at \in {"bound", "marking", "waiting"} /\ posts'[p].user # ""
       /\ DOMAIN gates' = {1} => gates'[1].user = posts'[p].user
  /\ liveGate' = LookedUp /\ forwarded' \in BOOLEAN
  /\ forwarded' => forwarded \/ gates'[LookedUp].done

(* A post that finds its session, or creates the gate of one, keeps the    *)
(* invariant.                                                              *)
LEMMA LookUpMoves ==
  ASSUME CountingFacts, GateInv, NEW p \in Posts, LookUpMove(p)
  PROVE  GateInv'
<1>1. GateTypes /\ WaitersHold /\ OpenedForAll /\ FirstOwner
  BY DEF GateInv
<1>2. posts' \in [Posts -> PostRows] /\ liveGate' = LookedUp
      /\ \A q \in Posts \ {p} : posts'[q] = posts[q]
  BY Zenon DEF LookUpMove
<1>3. GateTypes'
  <2>1. DOMAIN gates' = DOMAIN Touched /\ gates' \in [DOMAIN Touched -> GateRows]
    BY Zenon DEF LookUpMove
  <2>2. \E n \in Nat : DOMAIN gates' = 1..n
    BY <2>1, RowLooked
  <2>3. liveGate' \in DOMAIN gates' /\ forwarded' \in BOOLEAN
    BY Zenon, <1>2, <2>1, RowLooked DEF LookUpMove
  <2>4. \A q \in Posts : /\ posts'[q].at = "new" => posts'[q].user = ""
                         /\ posts'[q].at \in {"new", "bound"} => posts'[q].waited = 0
    BY Zenon, <1>1 DEF LookUpMove, GateTypes
  <2> QED
    BY Zenon, <1>2, <2>1, <2>2, <2>3, <2>4 DEF GateTypes
<1>4. WaitersHold'
  <2>1. gates'[LookedUp].idle = 0 /\ LookedUp # 0
    <3>1. LookedUp \in DOMAIN Touched /\ LookedUp # 0 /\ Touched[LookedUp].idle = 0
      BY RowLooked
    <3> QED
      BY Zenon, <3>1 DEF LookUpMove
  <2>2. ASSUME NEW q \in Posts, posts'[q].at = "waiting"
        PROVE  posts'[q].gate = LookedUp /\ 0 <= posts'[q].waited /\ posts'[q].waited <= InitWait
    <3>1. CASE q = p
      <4>1. posts'[p].gate = LookedUp /\ posts'[p].waited = 0
        BY Zenon, <2>2, <3>1 DEF LookUpMove
      <4> QED
        BY <3>1, <4>1, WaitsAreShort
    <3>2. CASE q # p
      <4>1. posts'[q] = posts[q] /\ posts[q].waited \in Nat
        BY Zenon, <1>1, <1>2, <3>2 DEF GateTypes, PostRows
      <4>2. liveGate # 0 /\ posts[q].gate = liveGate /\ posts[q].waited <= InitWait
        BY <1>1, <2>2, <4>1 DEF WaitersHold
      <4>3. LookedUp = liveGate
        BY <4>2, RowLooked
      <4> QED
        BY <4>1, <4>2, <4>3
    <3> QED
      BY <3>1, <3>2
  <2> QED
    BY <1>2, <2>1, <2>2 DEF WaitersHold
<1>5. OpenedForAll'
  <2>1. LookedUp # 0 /\ (liveGate # 0 => LookedUp = liveGate)
    BY RowLooked
  <2>2. forwarded => gates'[LookedUp].done
    <3> SUFFICES ASSUME forwarded PROVE gates'[LookedUp].done
      OBVIOUS
    <3>1. liveGate # 0 /\ gates[liveGate].done /\ liveGate \in DOMAIN gates
      BY Zenon, <1>1 DEF OpenedForAll, GateTypes
    <3>2. liveGate \in DOMAIN Touched /\ Touched[liveGate].done
      BY <3>1, RowLooked
    <3> QED
      BY Zenon, <2>1, <3>1, <3>2 DEF LookUpMove
  <2>3. forwarded' => forwarded \/ gates'[LookedUp].done
    BY Zenon DEF LookUpMove
  <2> QED
    BY <1>2, <2>1, <2>2, <2>3 DEF OpenedForAll
<1>6. FirstOwner'
  <2>1. DOMAIN gates' = DOMAIN Touched
    BY Zenon DEF LookUpMove
  <2>2. DOMAIN Touched # {}
    BY RowLooked
  <2>3. ASSUME DOMAIN Touched = {1}, NEW q \in Posts,
               posts'[q].at \in {"bound", "marking", "waiting"}, posts'[q].user # ""
        PROVE  gates'[1].user = posts'[q].user
    <3>1. CASE q = p
      BY Zenon, <2>1, <2>3, <3>1 DEF LookUpMove
    <3>2. CASE q # p
      <4>1. posts'[q] = posts[q]
        BY <1>2, <3>2
      <4>2. DOMAIN gates \in {{}, {1}}
        BY Zenon, <2>3, RowLooked
      <4>3. DOMAIN gates = {1} /\ gates[1].user = posts[q].user
        BY Zenon, <1>1, <2>3, <4>1, <4>2 DEF FirstOwner
      <4>4. Touched[1].user = gates[1].user
        BY <4>3, RowLooked
      <4>5. Touched[1].user # "" => gates'[1].user = Touched[1].user
        BY Zenon, <2>3 DEF LookUpMove
      <4> QED
        BY Zenon, <2>3, <4>1, <4>3, <4>4, <4>5
    <3> QED
      BY <3>1, <3>2
  <2> QED
    BY Zenon, <2>1, <2>2, <2>3 DEF FirstOwner
<1> QED
  BY <1>3, <1>4, <1>5, <1>6 DEF GateInv

(* Forwarding a post to the MCP server keeps the invariant.                *)
LEMMA ForwardKeeps ==
  ASSUME GateInv, NEW p \in Posts, ForwardInitialize(p) \/ ForwardPing(p) \/ StopWaiting(p)
  PROVE  GateInv'
<1>1. PICK at \in {"marking", "sent", "late", "gone"} :
        posts' = [posts EXCEPT ![p].at = at] /\ (at = "marking" => posts[p].at = "bound")
  BY DEF ForwardInitialize, ForwardPing, StopWaiting, Forward
<1>2. UNCHANGED <<gates, liveGate, forwarded>>
  BY DEF ForwardInitialize, ForwardPing, StopWaiting
<1>3. posts \in [Posts -> PostRows]
  BY Zenon DEF GateInv, GateTypes
<1>4. /\ posts' \in [Posts -> PostRows] /\ \A q \in Posts \ {p} : posts'[q] = posts[q]
      /\ posts'[p].at = at /\ posts'[p].user = posts[p].user
      /\ posts'[p].waited = posts[p].waited
  BY Zenon, <1>1, <1>3 DEF PostRows
<1> QED
  BY <1>1, <1>2, <1>4, PostMoves

(* Binding a session to its user keeps the invariant.                      *)
LEMMA BindKeeps ==
  ASSUME CountingFacts, GateInv, NEW p \in Posts, NEW kind \in {"initialize", "ping", "call"},
         NEW user \in GateUsers, bindUser(p, kind, user)
  PROVE  GateInv'
<1>1. posts \in [Posts -> PostRows] /\ posts[p].at = "new" /\ posts[p].user = ""
      /\ posts[p].waited = 0 /\ forwarded' = forwarded
  BY Zenon DEF GateInv, GateTypes, bindUser
<1>2. CASE user = ""
  <2>1. posts' = [posts EXCEPT ![p].at = "bound", ![p].kind = kind] /\ UNCHANGED <<gates, liveGate>>
    BY Zenon, <1>2 DEF bindUser
  <2> DEFINE row == [posts[p] EXCEPT !.at = "bound", !.kind = kind]
  <2>2. posts[p] \in PostRows /\ posts' = [posts EXCEPT ![p] = row]
    BY Zenon, <1>1, <2>1
  <2>3. /\ row \in PostRows /\ row.at = "bound" /\ row.user = posts[p].user
        /\ row.waited = posts[p].waited
    BY Zenon, <2>2 DEF PostRows
  <2> HIDE DEF row
  <2>4. /\ posts' \in [Posts -> PostRows] /\ \A q \in Posts \ {p} : posts'[q] = posts[q]
        /\ posts'[p].at = "bound" /\ posts'[p].user = posts[p].user
        /\ posts'[p].waited = posts[p].waited
    BY Zenon, <1>1, <2>2, <2>3
  <2> QED
    BY Zenon, <1>1, <2>1, <2>4, PostMoves
<1>3. CASE user # ""
  <2> DEFINE owner == Touched[LookedUp].user
             at == IF owner \in {"", user} THEN "bound" ELSE "refused"
             own == IF owner = "" THEN user ELSE owner
  <2>1. /\ posts' = [posts EXCEPT ![p].kind = kind, ![p].user = user, ![p].at = at]
        /\ gates' = [Touched EXCEPT ![LookedUp].user = own] /\ liveGate' = LookedUp
    BY Zenon, <1>3 DEF bindUser
  <2>2. at \in {"bound", "refused"} /\ (at = "bound" => own = user)
        /\ (owner # "" => own = owner)
    BY Zenon
  <2>3. Touched \in [DOMAIN Touched -> GateRows] /\ LookedUp \in DOMAIN Touched
    BY RowLooked
  <2>4. own \in GateUsers \cup {""}
    BY Zenon, <2>3 DEF GateRows
  <2>5. owner = Touched[LookedUp].user
    OBVIOUS
  <2> HIDE DEF at, own, owner
  <2>6. /\ posts' \in [Posts -> PostRows] /\ \A q \in Posts \ {p} : posts'[q] = posts[q]
        /\ posts'[p].at = at /\ posts'[p].user = user /\ posts'[p].waited = 0
    <3> DEFINE bound == [posts[p] EXCEPT !.kind = kind, !.user = user, !.at = at]
    <3>1. posts' = [posts EXCEPT ![p] = bound]
      BY Zenon, <1>1, <2>1
    <3>2. posts[p] \in PostRows
      BY Zenon, <1>1
    <3>3. bound \in PostRows /\ bound.at = at /\ bound.user = user /\ bound.waited = posts[p].waited
      BY Zenon, <2>2, <3>2 DEF PostRows
    <3> HIDE DEF bound
    <3> QED
      BY Zenon, <1>1, <3>1, <3>3
  <2>7. /\ DOMAIN gates' = DOMAIN Touched /\ gates' \in [DOMAIN Touched -> GateRows]
        /\ gates'[LookedUp].user = own
        /\ \A i \in DOMAIN Touched :
             /\ gates'[i].idle = Touched[i].idle /\ gates'[i].done = Touched[i].done
             /\ i # LookedUp => gates'[i].user = Touched[i].user
    BY Zenon, <2>1, <2>3, <2>4 DEF GateRows
  <2>8. \A i \in DOMAIN Touched : Touched[i].user # "" => gates'[i].user = Touched[i].user
    BY Zenon, <2>2, <2>5, <2>7
  <2>9. posts'[p].at = "bound" /\ DOMAIN gates' = {1} => gates'[1].user = user
    BY Zenon, <2>2, <2>6, <2>7, RowLooked
  <2>10. forwarded' \in BOOLEAN
    BY Zenon, <1>1 DEF GateInv, GateTypes
  <2> QED
    <3>1. LookUpMove(p)
      BY Zenon, <1>1, <2>1, <2>2, <2>6, <2>7, <2>8, <2>9, <2>10 DEF LookUpMove
    <3> QED
      BY <3>1, LookUpMoves
<1> QED
  BY Zenon, <1>2, <1>3

(* Releasing the posts that wait for initialize keeps the invariant.       *)
LEMMA MarkKeeps ==
  ASSUME CountingFacts, GateInv, NEW p \in Posts, markInitialized(p)
  PROVE  GateInv'
<1>1. posts \in [Posts -> PostRows] /\ posts' = [posts EXCEPT ![p].at = "sent"]
      /\ liveGate' = LookedUp /\ gates' = [Touched EXCEPT ![LookedUp].done = TRUE]
      /\ forwarded' = TRUE
  BY Zenon DEF GateInv, GateTypes, markInitialized, Forward
<1>2. Touched \in [DOMAIN Touched -> GateRows] /\ LookedUp \in DOMAIN Touched
  BY RowLooked
<1>3. /\ posts' \in [Posts -> PostRows] /\ \A q \in Posts \ {p} : posts'[q] = posts[q]
      /\ posts'[p].at = "sent"
  BY Zenon, <1>1 DEF PostRows
<1>4. /\ DOMAIN gates' = DOMAIN Touched /\ gates' \in [DOMAIN Touched -> GateRows]
      /\ gates'[LookedUp].done
      /\ \A i \in DOMAIN Touched :
           /\ gates'[i].idle = Touched[i].idle /\ gates'[i].user = Touched[i].user
           /\ i # LookedUp => gates'[i].done = Touched[i].done
  BY Zenon, <1>1, <1>2 DEF GateRows
<1>5. \A i \in DOMAIN Touched : Touched[i].done => gates'[i].done
  BY <1>4
<1> QED
  <2>1. LookUpMove(p)
    BY Zenon, <1>1, <1>3, <1>4, <1>5 DEF LookUpMove
  <2> QED
    BY <2>1, LookUpMoves

(* A post that starts to wait, or gives up, keeps the invariant.           *)
LEMMA WaitKeeps ==
  ASSUME CountingFacts, GateInv, NEW p \in Posts, waitForInit(p)
  PROVE  GateInv'
<1>1. posts \in [Posts -> PostRows] /\ posts[p].at = "bound" /\ posts[p].waited = 0
      /\ posts' = [posts EXCEPT ![p].at = "waiting", ![p].gate = LookedUp]
      /\ liveGate' = LookedUp /\ gates' = Touched /\ forwarded' = forwarded
  BY Zenon DEF GateInv, GateTypes, waitForInit
<1>2. LookedUp \in Nat /\ Touched \in [DOMAIN Touched -> GateRows]
  BY RowLooked
<1>3. /\ posts' \in [Posts -> PostRows] /\ \A q \in Posts \ {p} : posts'[q] = posts[q]
      /\ posts'[p].at = "waiting" /\ posts'[p].gate = LookedUp /\ posts'[p].waited = 0
      /\ posts'[p].user = posts[p].user
  BY Zenon, <1>1, <1>2 DEF PostRows
<1>4. posts[p].user # "" /\ DOMAIN gates' = {1} => gates'[1].user = posts[p].user
  <2> SUFFICES ASSUME posts[p].user # "", DOMAIN Touched = {1}
               PROVE  Touched[1].user = posts[p].user
    BY Zenon, <1>1
  <2>1. DOMAIN gates = {1}
    BY Zenon, RowLooked DEF GateInv, FirstOwner
  <2> QED
    BY Zenon, <1>1, <2>1, RowLooked DEF GateInv, FirstOwner
<1>5. forwarded' \in BOOLEAN
  BY Zenon, <1>1 DEF GateInv, GateTypes
<1> QED
  <2>1. LookUpMove(p)
    BY Zenon, <1>1, <1>2, <1>3, <1>4, <1>5 DEF LookUpMove
  <2> QED
    BY <2>1, LookUpMoves

(* The clock and the sweep of idle sessions keep the invariant.            *)
LEMMA GateClockKeeps ==
  ASSUME GateInv, GateTick \/ sweepLoop \/ UNCHANGED gateVars
  PROVE  GateInv'
<1>0. GateTypes /\ WaitersHold /\ OpenedForAll /\ FirstOwner
  BY DEF GateInv
<1>1. CASE GateTick
  <2>1. /\ \A p \in Posts : posts[p].at = "waiting" => posts[p].waited < InitWait
        /\ liveGate \in DOMAIN gates /\ liveGate # 0
        /\ posts' = [p \in Posts |-> IF posts[p].at = "waiting"
                                     THEN [posts[p] EXCEPT !.waited = @ + 1] ELSE posts[p]]
        /\ gates' = [gates EXCEPT ![liveGate].idle = @ + 1]
        /\ UNCHANGED <<liveGate, forwarded>>
    BY Zenon, <1>0, <1>1 DEF GateTick, Live, GateTypes
  <2>2. ASSUME NEW p \in Posts
        PROVE  /\ posts'[p] \in PostRows /\ posts'[p].at = posts[p].at
               /\ posts'[p].user = posts[p].user /\ posts'[p].gate = posts[p].gate
               /\ posts[p].at = "waiting" => posts'[p].waited = posts[p].waited + 1
               /\ posts[p].at # "waiting" => posts'[p].waited = posts[p].waited
    <3>1. posts[p] \in PostRows
      BY Zenon, <1>0 DEF GateTypes
    <3>2. CASE posts[p].at = "waiting"
      <4>0. posts[p].waited \in Nat
        BY Zenon, <3>1 DEF PostRows
      <4>1. PICK w \in Nat : w = posts[p].waited + 1
        BY <4>0
      <4>2. posts'[p] = [posts[p] EXCEPT !.waited = w]
        BY <2>1, <3>2, <4>1
      <4>3. /\ [posts[p] EXCEPT !.waited = w] \in PostRows
            /\ [posts[p] EXCEPT !.waited = w].at = posts[p].at
            /\ [posts[p] EXCEPT !.waited = w].user = posts[p].user
            /\ [posts[p] EXCEPT !.waited = w].gate = posts[p].gate
            /\ [posts[p] EXCEPT !.waited = w].waited = w
        BY Zenon, <3>1 DEF PostRows
      <4> QED
        BY <3>2, <4>1, <4>2, <4>3
    <3>3. CASE posts[p].at # "waiting"
      BY <2>1, <3>1, <3>3
    <3> QED
      BY <3>2, <3>3
  <2>3. posts' \in [Posts -> PostRows]
    BY <2>1, <2>2
  <2>4. /\ DOMAIN gates' = DOMAIN gates /\ gates' \in [DOMAIN gates -> GateRows]
        /\ gates[liveGate].idle \in Nat /\ gates'[liveGate].idle = gates[liveGate].idle + 1
        /\ \A i \in DOMAIN gates : gates'[i].done = gates[i].done /\ gates'[i].user = gates[i].user
    <3>1. gates \in [DOMAIN gates -> GateRows] /\ gates[liveGate] \in GateRows
      BY Zenon, <1>0, <2>1 DEF GateTypes
    <3>a. gates[liveGate].idle \in Nat
      BY Zenon, <3>1 DEF GateRows
    <3>2. PICK d \in Nat : gates[liveGate].idle \in Nat /\ d = gates[liveGate].idle + 1
      BY <3>a
    <3> DEFINE older == [gates[liveGate] EXCEPT !.idle = d]
    <3>3. gates' = [gates EXCEPT ![liveGate] = older]
      BY <2>1, <3>2
    <3>4. /\ older \in GateRows /\ older.idle = d
          /\ older.done = gates[liveGate].done /\ older.user = gates[liveGate].user
      BY Zenon, <3>1 DEF GateRows
    <3> HIDE DEF older
    <3> QED
      BY <2>1, <3>1, <3>2, <3>3, <3>4
  <2>5. GateTypes'
    BY Zenon, <1>0, <2>1, <2>2, <2>3, <2>4 DEF GateTypes
  <2>6. WaitersHold'
    <3> SUFFICES ASSUME NEW p \in Posts, posts[p].at = "waiting"
                 PROVE  /\ posts[p].gate = liveGate
                        /\ gates[liveGate].idle + 1 <= posts[p].waited + 1
                        /\ posts[p].waited + 1 <= InitWait
      BY <2>1, <2>2, <2>4 DEF WaitersHold
    <3>1. posts[p].waited \in Nat
      BY Zenon, <1>0 DEF GateTypes, PostRows
    <3> QED
      BY <1>0, <2>1, <2>4, <3>1, WaitsAreShort DEF WaitersHold
  <2>7. OpenedForAll'
    BY Zenon, <1>0, <2>1, <2>4 DEF OpenedForAll
  <2>8. FirstOwner'
    BY Zenon, <1>0, <2>2, <2>4 DEF FirstOwner
  <2> QED
    BY <2>5, <2>6, <2>7, <2>8 DEF GateInv
<1>2. CASE sweepLoop
  <2>1. /\ liveGate \in DOMAIN gates /\ gates[liveGate].idle > GateTTL
        /\ liveGate' = 0 /\ forwarded' = FALSE /\ UNCHANGED <<posts, gates>>
    BY Zenon, <1>0, <1>2 DEF sweepLoop, Live, GateTypes
  <2>2. \A p \in Posts : posts[p].at # "waiting"
    <3> SUFFICES ASSUME NEW p \in Posts, posts[p].at = "waiting" PROVE FALSE
      OBVIOUS
    <3>1. gates[liveGate].idle \in Nat /\ posts[p].waited \in Nat
      BY Zenon, <1>0, <2>1 DEF GateTypes, GateRows, PostRows
    <3>2. gates[liveGate].idle <= posts[p].waited /\ posts[p].waited <= InitWait
      BY <1>0 DEF WaitersHold
    <3> QED
      BY <2>1, <3>1, <3>2, WaitsAreShort
  <2> QED
    BY Zenon, <1>0, <2>1, <2>2 DEF GateInv, GateTypes, WaitersHold, OpenedForAll, FirstOwner
<1>3. CASE UNCHANGED gateVars
  BY Zenon, <1>0, <1>3 DEF gateVars, GateInv, GateTypes, WaitersHold, OpenedForAll, FirstOwner
<1> QED
  BY <1>1, <1>2, <1>3

(* Every step of the SSE gate keeps its invariant.                         *)
LEMMA GateStep == CountingFacts /\ GateInv /\ [GateNext]_gateVars => GateInv'
<1> SUFFICES ASSUME CountingFacts, GateInv, [GateNext]_gateVars PROVE GateInv'
  OBVIOUS
<1>1. ASSUME NEW p \in Posts, NEW kind \in {"initialize", "ping", "call"}, NEW u \in GateUsers,
             bindUser(p, kind, u)
      PROVE  GateInv'
  BY <1>1, BindKeeps
<1>2. ASSUME NEW p \in Posts,
             \/ ForwardInitialize(p) \/ markInitialized(p) \/ ForwardPing(p) \/ waitForInit(p)
             \/ StopWaiting(p)
      PROVE  GateInv'
  BY Zenon, <1>2, ForwardKeeps, MarkKeeps, WaitKeeps
<1> QED
  BY <1>1, <1>2, GateClockKeeps DEF GateNext

-----------------------------------------------------------------------------
(* Connectors.                                                             *)
SourceRows == [config : Nat, status : {"none", "disconnected", "connected", "error"}]
OpenRows == [src : Sources, config : Nat, open : BOOLEAN]
TestRows == [at : {"none", "read", "tested", "registered"}, src : Sources \cup {""},
             config : Nat, conn : Nat]
SourcesTyped ==
  /\ sources \in [Sources -> SourceRows]
  /\ \A s \in Sources : sources[s].config = 0 <=> sources[s].status = "none"
ConnsTyped ==
  /\ \E n \in Nat : DOMAIN conns = 1..n
  /\ conns \in [DOMAIN conns -> OpenRows]
  /\ registered \in DOMAIN conns \cup {0}
TestsTyped ==
  /\ tests \in [TestCalls -> TestRows]
  /\ \A t \in TestCalls : tests[t].at # "none" => tests[t].src \in Sources
EditTyped ==
  /\ booting \in SUBSET Sources
  /\ edit \in [src : Sources \cup {""}, op : {"none", "update", "delete"}]
  /\ raced \in BOOLEAN
ConnTypes == SourcesTyped /\ ConnsTyped /\ TestsTyped /\ EditTyped

(* A tested connection waits for one test alone.                           *)
Held(i) == \E t \in TestCalls : tests[t].at = "tested" /\ tests[t].conn = i
OneOwner ==
  /\ \A t \in TestCalls :
       tests[t].at = "tested" => tests[t].conn \in DOMAIN conns /\ tests[t].conn # registered
  /\ \A t, u \in TestCalls :
       tests[t].at = "tested" /\ tests[u].at = "tested" /\ tests[t].conn = tests[u].conn => t = u
  /\ \A i \in DOMAIN conns : conns[i].open <=> registered = i \/ Held(i)

(* Nothing else happens while the server boots.                            *)
BootsAlone ==
  booting # {} => /\ edit.src = ""
                  /\ \A t \in TestCalls : tests[t].at = "none"
                  /\ \A s \in booting : sources[s].config # 0

(* Unless raced, whatever is in use or under test describes a row that     *)
(* nobody is about to change.                                              *)
UpToDate(s, config) == s \in Sources /\ s # edit.src /\ config # 0 /\ config = sources[s].config
AllCurrent ==
  ~raced =>
    /\ registered # 0 => UpToDate(conns[registered].src, conns[registered].config)
    /\ \A t \in TestCalls :
         /\ tests[t].at # "none" => UpToDate(tests[t].src, tests[t].config)
         /\ tests[t].at = "tested" => /\ conns[tests[t].conn].src = tests[t].src
                                      /\ conns[tests[t].conn].config = tests[t].config
ConnInv == ConnTypes /\ OneOwner /\ BootsAlone /\ AllCurrent

(* What the connector registry promises follows from its invariant.        *)
LEMMA ConnImplies == ConnInv => ConnectionsOwned
BY DEF ConnInv, OneOwner, AllCurrent, UpToDate, ConnectionsOwned, Opened, Held

(* The types of the empty records.                                         *)
LEMMA EmptyRows ==
  /\ NoTest \in TestRows /\ NoTest.at = "none" /\ NoTest.src = ""
  /\ NoSource \in SourceRows /\ NoSource.config = 0 /\ NoSource.status = "none"
  /\ NoEdit \in [src : Sources \cup {""}, op : {"none", "update", "delete"}]
  /\ NoEdit.src = ""
BY DEF NoTest, TestRows, NoSource, SourceRows, NoEdit

(* The invariant of the registry holds before the first connector.         *)
LEMMA ConnStart == ConnInit => ConnInv
<1> SUFFICES ASSUME ConnInit PROVE ConnInv
  OBVIOUS
<1>1. DOMAIN conns = {} /\ DOMAIN conns = 1..0
  BY DEF ConnInit
<1>2. (\E n \in Nat : DOMAIN conns = 1..n) /\ conns \in [DOMAIN conns -> OpenRows]
  BY <1>1 DEF ConnInit
<1>3. ConnTypes
  BY Zenon, <1>2, EmptyRows DEF ConnInit, ConnTypes, SourcesTyped, ConnsTyped, TestsTyped, EditTyped
<1>4. OneOwner
  BY Zenon, <1>1, EmptyRows DEF ConnInit, OneOwner
<1>5. BootsAlone /\ AllCurrent
  BY Zenon, EmptyRows DEF ConnInit, BootsAlone, AllCurrent
<1> QED
  BY <1>3, <1>4, <1>5 DEF ConnInv

(* What the operators on rows and connections do.                          *)
LEMMA StatusKept ==
  ASSUME SourcesTyped, NEW s \in Sources, NEW status \in {"connected", "error"}
  PROVE  LET new == UpdateSource(s, 0, status) IN
         /\ new \in [Sources -> SourceRows]
         /\ \A q \in Sources : /\ new[q].config = sources[q].config
                               /\ new[q].config = 0 <=> new[q].status = "none"
<1>1. CASE ~Exists(s)
  BY <1>1 DEF UpdateSource, SourcesTyped
<1>2. CASE Exists(s)
  <2> DEFINE told == [sources[s] EXCEPT !.config = sources[s].config, !.status = status]
  <2>1. sources[s] \in SourceRows /\ sources[s].config # 0
    BY Zenon, <1>2, EmptyRows DEF SourcesTyped, Exists, NoSource, SourceRows
  <2>2. UpdateSource(s, 0, status) = [sources EXCEPT ![s] = told]
    BY Zenon, <1>2 DEF UpdateSource, SourcesTyped
  <2>3. told \in SourceRows /\ told.config = sources[s].config /\ told.status = status
    BY Zenon, <2>1 DEF SourceRows
  <2> HIDE DEF told
  <2> QED
    BY <2>1, <2>2, <2>3 DEF SourcesTyped
<1> QED
  BY <1>1, <1>2

(* Closing a connection changes that connection's open flag and nothing    *)
(* else.                                                                   *)
LEMMA ClosedConn ==
  ASSUME NEW D, NEW c \in [D -> OpenRows], NEW i
  PROVE  /\ CloseConn(c, i) \in [D -> OpenRows]
         /\ \A j \in D : /\ CloseConn(c, i)[j].src = c[j].src
                         /\ CloseConn(c, i)[j].config = c[j].config
                         /\ CloseConn(c, i)[j].open <=> c[j].open /\ j # i
<1>1. ASSUME NEW j \in D
      PROVE  /\ CloseConn(c, i)[j] \in OpenRows
             /\ CloseConn(c, i)[j].src = c[j].src
             /\ CloseConn(c, i)[j].config = c[j].config
             /\ CloseConn(c, i)[j].open <=> c[j].open /\ j # i
  <2>1. c[j] \in OpenRows
    OBVIOUS
  <2>2. /\ [c[j] EXCEPT !.open = FALSE] \in OpenRows
        /\ [c[j] EXCEPT !.open = FALSE].src = c[j].src
        /\ [c[j] EXCEPT !.open = FALSE].config = c[j].config
        /\ [c[j] EXCEPT !.open = FALSE].open = FALSE
    BY Zenon, <2>1 DEF OpenRows
  <2>3. CloseConn(c, i)[j] = IF j = i THEN [c[j] EXCEPT !.open = FALSE] ELSE c[j]
    BY DEF CloseConn
  <2> QED
    BY <2>1, <2>2, <2>3
<1>2. CloseConn(c, i) \in [D -> OpenRows]
  BY <1>1 DEF CloseConn
<1> QED
  BY <1>1, <1>2

(* A new connection has an identity of its own and leaves the others       *)
(* alone.                                                                  *)
LEMMA CreatedConn ==
  ASSUME CountingFacts, ConnsTyped, NEW s \in Sources, NEW config \in Nat
  PROVE  LET new == CreateConnector(s, config) IN
         /\ NextConn \in Nat \ {0} /\ NextConn \notin DOMAIN conns
         /\ DOMAIN new = DOMAIN conns \cup {NextConn}
         /\ \E n \in Nat : DOMAIN new = 1..n
         /\ new \in [DOMAIN new -> OpenRows]
         /\ \A j \in DOMAIN conns : new[j] = conns[j]
         /\ new[NextConn] = [src |-> s, config |-> config, open |-> TRUE]
<1>1. PICK n \in Nat : DOMAIN conns = 1..n
  BY DEF ConnsTyped
<1>2. Cardinality(1..n) = IF 1 > n THEN 0 ELSE n - 1 + 1
  BY DEF CountingFacts, RangesCount
<1>3. NextConn = n + 1
  BY <1>1, <1>2 DEF NextConn, Opened
<1>4. DOMAIN CreateConnector(s, config) = DOMAIN conns \cup {NextConn}
  BY DEF CreateConnector, Opened
<1>5. DOMAIN conns \cup {NextConn} = 1..(n + 1) /\ NextConn \notin DOMAIN conns
  BY <1>1, <1>3
<1>6. [src |-> s, config |-> config, open |-> TRUE] \in OpenRows
  BY DEF OpenRows
<1>7. /\ \A j \in DOMAIN conns : CreateConnector(s, config)[j] = conns[j]
      /\ CreateConnector(s, config)[NextConn] = [src |-> s, config |-> config, open |-> TRUE]
  BY <1>5 DEF CreateConnector, Opened
<1>8. CreateConnector(s, config) \in [DOMAIN conns \cup {NextConn} -> OpenRows]
  BY <1>4, <1>6, <1>7 DEF CreateConnector, ConnsTyped, Opened
<1> QED
  BY <1>3, <1>4, <1>5, <1>7, <1>8

(* Saving a new connector keeps the invariant.                             *)
LEMMA CreateRowKeeps ==
  ASSUME ConnInv, Serving, NEW s \in Sources, HandleConnectorCreate(s)
  PROVE  ConnInv'
<1>0. /\ SourcesTyped /\ ConnsTyped /\ TestsTyped /\ EditTyped
      /\ OneOwner /\ BootsAlone /\ AllCurrent
  BY DEF ConnInv, ConnTypes
<1> DEFINE new == [config |-> 1, status |-> "disconnected"]
<1>1. sources' = [sources EXCEPT ![s] = new] /\ sources[s].config = 0
      /\ UNCHANGED <<conns, registered, tests, booting, edit, raced>>
  BY <1>0 DEF HandleConnectorCreate, Exists, NoSource
<1>2. new \in SourceRows /\ new.config = 1 /\ new.status = "disconnected"
  BY DEF SourceRows
<1> HIDE DEF new
<1>3. SourcesTyped'
  BY <1>0, <1>1, <1>2 DEF SourcesTyped
<1>4. ConnsTyped' /\ TestsTyped' /\ EditTyped' /\ OneOwner'
  <2>1. ConnsTyped' /\ TestsTyped'
    BY <1>0, <1>1 DEF ConnsTyped, TestsTyped
  <2>2. EditTyped'
    BY Zenon, <1>0, <1>1 DEF EditTyped
  <2>3. OneOwner'
    BY <1>0, <1>1 DEF OneOwner, Held
  <2> QED
    BY <2>1, <2>2, <2>3
<1>5. BootsAlone'
  BY Zenon, <1>1 DEF BootsAlone, Serving
<1>6. \A q, c : UpToDate(q, c) => UpToDate(q, c)'
  BY Zenon, <1>0, <1>1 DEF UpToDate, SourcesTyped
<1>7. AllCurrent'
  BY <1>0, <1>1, <1>6 DEF AllCurrent
<1> QED
  BY <1>3, <1>4, <1>5, <1>7 DEF ConnInv, ConnTypes

(* A connection test that reads its row keeps the invariant.               *)
LEMMA TestReadKeeps ==
  ASSUME ConnInv, Serving, NEW s \in Sources, NEW t \in TestCalls, TestRead(t, s)
  PROVE  ConnInv'
<1>0. /\ SourcesTyped /\ ConnsTyped /\ TestsTyped /\ EditTyped
      /\ OneOwner /\ BootsAlone /\ AllCurrent
  BY DEF ConnInv, ConnTypes
<1> DEFINE new == [at |-> "read", src |-> s, config |-> sources[s].config, conn |-> 0]
<1>1. /\ tests[t].at = "none" /\ tests' = [tests EXCEPT ![t] = new]
      /\ raced' = (raced \/ edit.src = s)
      /\ UNCHANGED <<sources, conns, registered, booting, edit>>
  BY Zenon, EmptyRows DEF TestRead
<1>2. sources[s] \in SourceRows /\ sources[s].config # 0
  BY <1>0 DEF TestRead, Exists, NoSource, SourcesTyped, SourceRows
<1>3. new \in TestRows /\ new.at = "read" /\ new.src = s /\ new.config = sources[s].config
  BY Zenon, <1>2 DEF TestRows, SourceRows
<1> HIDE DEF new
<1>4. /\ tests' \in [TestCalls -> TestRows] /\ tests'[t] = new
      /\ \A u \in TestCalls \ {t} : tests'[u] = tests[u]
  BY <1>0, <1>1, <1>3 DEF TestsTyped
<1>5. raced' \in BOOLEAN /\ (~raced' => ~raced /\ edit.src # s)
  BY Zenon, <1>0, <1>1 DEF EditTyped
<1>6. SourcesTyped' /\ ConnsTyped' /\ TestsTyped' /\ EditTyped'
  BY Zenon, <1>0, <1>1, <1>3, <1>4, <1>5 DEF SourcesTyped, ConnsTyped, TestsTyped, EditTyped
<1>7. \A u \in TestCalls : tests'[u].at = "tested" => tests[u].at = "tested" /\ tests'[u] = tests[u]
  BY <1>3, <1>4
<1>8. \A u \in TestCalls : tests[u].at = "tested" => tests'[u] = tests[u]
  BY <1>1, <1>4
<1>9. \A i : Held(i)' <=> Held(i)
  BY Zenon, <1>7, <1>8 DEF Held
<1>10. OneOwner'
  BY <1>0, <1>1, <1>7, <1>9 DEF OneOwner
<1>11. BootsAlone'
  BY Zenon, <1>1 DEF BootsAlone, Serving
<1>12. AllCurrent'
  BY <1>0, <1>1, <1>2, <1>3, <1>4, <1>5 DEF AllCurrent, UpToDate
<1> QED
  BY <1>6, <1>10, <1>11, <1>12 DEF ConnInv, ConnTypes

(* A row whose status alone is written.                                    *)
SameConfigs ==
  /\ sources' \in [Sources -> SourceRows]
  /\ \A q \in Sources : /\ sources'[q].config = sources[q].config
                        /\ sources'[q].config = 0 <=> sources'[q].status = "none"

(* A status update leaves every configuration as it is.                    *)
LEMMA StatusWritten ==
  ASSUME SourcesTyped, NEW s \in Sources, NEW status \in {"connected", "error"},
         sources' \in {sources, UpdateSource(s, 0, status)}
  PROVE  SameConfigs
<1>1. CASE sources' = sources
  BY <1>1 DEF SameConfigs, SourcesTyped
<1>2. CASE sources' = UpdateSource(s, 0, status)
  BY <1>2, StatusKept DEF SameConfigs
<1> QED
  BY <1>1, <1>2

(* The end of a test that holds no connection.                             *)
ConnsKept ==
  /\ \A i \in DOMAIN conns : i \in DOMAIN conns' /\ conns'[i] = conns[i]
  /\ \A i \in DOMAIN conns' : i \notin DOMAIN conns => ~conns'[i].open /\ i # 0

(* The end of a test, with its connection closed or handed over, keeps     *)
(* the invariant.                                                          *)
LEMMA TestEnds ==
  ASSUME ConnInv, NEW t \in TestCalls, tests[t].at \in {"read", "registered"},
         tests' = [tests EXCEPT ![t] = NoTest], SameConfigs,
         ConnsTyped', ConnsKept, UNCHANGED <<registered, booting, edit, raced>>
  PROVE  ConnInv'
<1>0. /\ SourcesTyped /\ ConnsTyped /\ TestsTyped /\ EditTyped
      /\ OneOwner /\ BootsAlone /\ AllCurrent
  BY DEF ConnInv, ConnTypes
<1>1. /\ tests' \in [TestCalls -> TestRows] /\ tests'[t].at = "none"
      /\ \A u \in TestCalls \ {t} : tests'[u] = tests[u]
  BY Zenon, <1>0, EmptyRows DEF TestsTyped
<1>2. booting = {}
  BY Zenon, <1>0 DEF BootsAlone
<1>3. SourcesTyped' /\ TestsTyped' /\ EditTyped'
  BY Zenon, <1>0, <1>1 DEF SourcesTyped, TestsTyped, EditTyped, SameConfigs
<1>4. \A i : Held(i)' <=> Held(i)
  BY <1>1 DEF Held
<1>5. \A i \in DOMAIN conns' \ DOMAIN conns : registered # i /\ ~Held(i)
  <2>1. \A i \in DOMAIN conns' \ DOMAIN conns : registered # i
    BY Zenon, <1>0 DEF ConnsTyped, ConnsKept
  <2> QED
    BY <1>0, <2>1 DEF OneOwner, Held
<1>6. OneOwner'
  <2>1. \A i \in DOMAIN conns' : conns'[i].open <=> registered' = i \/ Held(i)'
    BY <1>0, <1>4, <1>5 DEF OneOwner, ConnsKept
  <2> QED
    BY Zenon, <1>0, <1>1, <2>1 DEF OneOwner, ConnsKept
<1>7. BootsAlone'
  BY Zenon, <1>2 DEF BootsAlone
<1>8. \A q, c : UpToDate(q, c) => UpToDate(q, c)'
  BY Zenon DEF UpToDate, SameConfigs
<1>9. AllCurrent'
  <2>1. registered # 0 => conns'[registered] = conns[registered]
    BY <1>0 DEF ConnsTyped, ConnsKept
  <2>2. \A u \in TestCalls : tests'[u].at # "none" => tests'[u] = tests[u]
    BY Zenon, <1>1
  <2>3. \A u \in TestCalls : tests[u].at = "tested" => conns'[tests[u].conn] = conns[tests[u].conn]
    BY <1>0 DEF OneOwner, ConnsKept
  <2> QED
    BY <1>0, <1>8, <2>1, <2>2, <2>3 DEF AllCurrent
<1> QED
  BY <1>3, <1>6, <1>7, <1>9 DEF ConnInv, ConnTypes

(* A test that connects, or fails to, keeps the invariant.                 *)
LEMMA TestConnectKeeps ==
  ASSUME CountingFacts, ConnInv, NEW t \in TestCalls, TestConnect(t)
  PROVE  ConnInv'
<1>0. /\ SourcesTyped /\ ConnsTyped /\ TestsTyped /\ EditTyped
      /\ OneOwner /\ BootsAlone /\ AllCurrent
  BY DEF ConnInv, ConnTypes
<1>1. PICK s \in Sources : s = tests[t].src
  BY <1>0 DEF TestsTyped, TestConnect
<1>2. PICK config \in Nat : config = tests[t].config
  BY Zenon, <1>0 DEF TestsTyped, TestRows
<1>3. tests[t].at = "read" /\ UNCHANGED <<registered, booting, edit, raced>>
  BY DEF TestConnect
<1>4. PICK n \in Nat \ {0} : n = NextConn
  BY Zenon, <1>0, <1>1, <1>2, CreatedConn
<1>5. PICK made : made = CreateConnector(s, config)
  OBVIOUS
<1>6. /\ n \notin DOMAIN conns /\ DOMAIN made = DOMAIN conns \cup {n}
      /\ \E m \in Nat : DOMAIN made = 1..m
      /\ made \in [DOMAIN made -> OpenRows]
      /\ \A j \in DOMAIN conns : made[j] = conns[j]
      /\ made[n] = [src |-> s, config |-> config, open |-> TRUE]
  BY Zenon, <1>0, <1>4, <1>5, CreatedConn
<1>7. CASE /\ conns' = made /\ sources' = sources
           /\ tests' = [tests EXCEPT ![t].at = "tested", ![t].conn = n]
  <2> DEFINE held == [tests[t] EXCEPT !.at = "tested", !.conn = n]
  <2>1. tests' = [tests EXCEPT ![t] = held] /\ tests[t] \in TestRows
    BY Zenon, <1>0, <1>7 DEF TestsTyped
  <2>2. /\ held \in TestRows /\ held.at = "tested" /\ held.conn = n /\ held.src = tests[t].src
        /\ held.config = tests[t].config
    BY Zenon, <2>1 DEF TestRows
  <2> HIDE DEF held
  <2>3. /\ tests' \in [TestCalls -> TestRows] /\ tests'[t] = held
        /\ \A u \in TestCalls \ {t} : tests'[u] = tests[u]
    BY <1>0, <2>1, <2>2 DEF TestsTyped
  <2>4. SourcesTyped' /\ TestsTyped' /\ EditTyped'
    BY Zenon, <1>0, <1>1, <1>3, <1>7, <2>2, <2>3 DEF SourcesTyped, TestsTyped, EditTyped
  <2>a. ConnsTyped'
    BY <1>0, <1>3, <1>6, <1>7 DEF ConnsTyped
  <2>5. /\ \A i \in DOMAIN conns : Held(i)' <=> Held(i)
        /\ Held(n)' /\ registered # n
    <3>1. registered # n /\ Held(n)'
      BY <1>0, <1>4, <1>6, <2>2, <2>3 DEF Held, ConnsTyped
    <3>2. \A i \in DOMAIN conns : Held(i)' <=> Held(i)
      BY <1>3, <1>6, <2>2, <2>3 DEF Held
    <3> QED
      BY <3>1, <3>2
  <2>6. \A i \in DOMAIN conns' : conns'[i].open <=> registered' = i \/ Held(i)'
    <3>1. made[n].open
      BY <1>6
    <3> QED
      BY Zenon, <1>0, <1>3, <1>6, <1>7, <2>5, <3>1 DEF OneOwner
  <2>7. OneOwner'
    <3>1. \A u \in TestCalls : tests'[u].at = "tested" =>
            tests'[u].conn \in DOMAIN conns' /\ tests'[u].conn # registered'
      BY Zenon, <1>0, <1>3, <1>6, <1>7, <2>2, <2>3, <2>5 DEF OneOwner
    <3>2. \A u \in TestCalls \ {t} : tests'[u].at = "tested" => tests'[u].conn # n
      BY <1>0, <1>6, <2>3 DEF OneOwner
    <3>3. \A u, v \in TestCalls :
            tests'[u].at = "tested" /\ tests'[v].at = "tested" /\ tests'[u].conn = tests'[v].conn
              => u = v
      BY <1>0, <2>2, <2>3, <3>2 DEF OneOwner
    <3> QED
      BY <2>6, <3>1, <3>3 DEF OneOwner
  <2>8. BootsAlone'
    BY Zenon, <1>0, <1>3 DEF BootsAlone
  <2>9. made[n].src = s /\ made[n].config = config
    BY <1>6
  <2>10. AllCurrent'
    <3>1. registered # 0 => conns'[registered] = conns[registered]
      BY <1>0, <1>6, <1>7 DEF ConnsTyped
    <3>2. \A u \in TestCalls : tests[u].at = "tested" => conns'[tests[u].conn] = conns[tests[u].conn]
      BY <1>0, <1>6, <1>7 DEF OneOwner
    <3>3. \A q, c : UpToDate(q, c)' <=> UpToDate(q, c)
      BY <1>3, <1>7 DEF UpToDate
    <3> QED
      BY <1>0, <1>1, <1>2, <1>3, <1>7, <2>2, <2>3, <2>9, <3>1, <3>2, <3>3 DEF AllCurrent
  <2> QED
    BY <2>4, <2>a, <2>7, <2>8, <2>10 DEF ConnInv, ConnTypes
<1>8. CASE /\ tests' = [tests EXCEPT ![t] = NoTest]
           /\ sources' \in {sources, UpdateSource(s, 0, "error")}
           /\ conns' = conns \/ conns' = CloseConn(made, n)
  <2>1. SameConfigs
    BY <1>0, <1>8, StatusWritten
  <2>2. CASE conns' = conns
    <3>1. ConnsTyped' /\ ConnsKept
      BY <1>0, <1>3, <2>2 DEF ConnsTyped, ConnsKept
    <3> QED
      BY Zenon, <1>3, <1>8, <2>1, <3>1, TestEnds
  <2>3. CASE conns' = CloseConn(made, n)
    <3>1. /\ conns' \in [DOMAIN made -> OpenRows]
          /\ ~conns'[n].open
      BY <1>6, <2>3, ClosedConn
    <3>2. \A j \in DOMAIN conns : conns'[j] = conns[j]
      BY <1>6, <2>3 DEF CloseConn
    <3>3. DOMAIN conns' = DOMAIN made
      BY <3>1
    <3>4. ConnsTyped'
      BY Zenon, <1>0, <1>3, <1>6, <3>1, <3>3 DEF ConnsTyped
    <3>5. ConnsKept
      BY <1>6, <3>1, <3>2, <3>3 DEF ConnsKept
    <3> QED
      BY Zenon, <1>3, <1>8, <2>1, <3>4, <3>5, TestEnds
  <2> QED
    BY <1>8, <2>2, <2>3
<1> QED
  BY <1>1, <1>2, <1>4, <1>5, <1>7, <1>8 DEF TestConnect

(* A test that writes its result keeps the invariant.                      *)
LEMMA TestStatusKeeps ==
  ASSUME ConnInv, NEW t \in TestCalls, TestStatus(t)
  PROVE  ConnInv'
<1>0. SourcesTyped /\ ConnsTyped /\ TestsTyped
  BY DEF ConnInv, ConnTypes
<1>1. PICK s \in Sources : s = tests[t].src
  BY <1>0 DEF TestsTyped, TestStatus
<1>2. /\ tests[t].at = "registered" /\ tests' = [tests EXCEPT ![t] = NoTest]
      /\ sources' \in {sources, UpdateSource(s, 0, "connected")}
      /\ UNCHANGED <<conns, registered, booting, edit, raced>>
  BY <1>1 DEF TestStatus
<1>3. SameConfigs
  BY <1>0, <1>2, StatusWritten
<1> QED
  <2>1. ConnsTyped' /\ ConnsKept
    BY <1>0, <1>2 DEF ConnsTyped, ConnsKept
  <2> QED
    BY Zenon, <1>2, <1>3, <2>1, TestEnds

(* The registry lets go of its connection and closes it.                   *)
LEMMA RegistryDrops ==
  ASSUME NEW D, NEW c \in [D -> OpenRows], NEW i, 0 \notin D, NEW new,
         new = IF i # 0 THEN CloseConn(c, i) ELSE c
  PROVE  /\ new \in [D -> OpenRows] /\ DOMAIN new = D
         /\ \A j \in D : /\ new[j].src = c[j].src /\ new[j].config = c[j].config
                         /\ new[j].open <=> c[j].open /\ j # i
<1>1. CASE i # 0
  BY <1>1, ClosedConn
<1>2. CASE i = 0
  BY <1>2
<1> QED
  BY <1>1, <1>2

(* A test that registers its connection keeps the invariant.               *)
LEMMA TestRegisterKeeps ==
  ASSUME ConnInv, NEW t \in TestCalls, TestRegister(t)
  PROVE  ConnInv'
<1>0. /\ SourcesTyped /\ ConnsTyped /\ TestsTyped /\ EditTyped
      /\ OneOwner /\ BootsAlone /\ AllCurrent
  BY DEF ConnInv, ConnTypes
<1>1. PICK i \in DOMAIN conns : i = tests[t].conn
  BY <1>0 DEF OneOwner, TestRegister
<1>2. /\ tests[t].at = "tested" /\ tests' = [tests EXCEPT ![t].at = "registered"]
      /\ conns' = (IF registered # 0 THEN CloseConn(conns, registered) ELSE conns)
      /\ registered' = i
      /\ UNCHANGED <<sources, booting, edit, raced>>
  BY <1>1 DEF TestRegister, Register
<1>3. 0 \notin DOMAIN conns /\ conns \in [DOMAIN conns -> OpenRows]
  BY <1>0 DEF ConnsTyped
<1>4. /\ conns' \in [DOMAIN conns -> OpenRows] /\ DOMAIN conns' = DOMAIN conns
      /\ \A j \in DOMAIN conns :
           /\ conns'[j].src = conns[j].src /\ conns'[j].config = conns[j].config
           /\ conns'[j].open <=> conns[j].open /\ j # registered
  BY <1>2, <1>3, RegistryDrops
<1> DEFINE new == [tests[t] EXCEPT !.at = "registered"]
<1>5. tests[t] \in TestRows /\ tests' = [tests EXCEPT ![t] = new]
  BY <1>0, <1>2 DEF TestsTyped
<1>6. new \in TestRows /\ new.at = "registered" /\ new.src = tests[t].src
      /\ new.config = tests[t].config
  BY Zenon, <1>5 DEF TestRows
<1> HIDE DEF new
<1>7. /\ tests' \in [TestCalls -> TestRows] /\ tests'[t] = new
      /\ \A u \in TestCalls \ {t} : tests'[u] = tests[u]
  BY <1>0, <1>5, <1>6 DEF TestsTyped
<1>8. SourcesTyped' /\ TestsTyped' /\ EditTyped'
  BY Zenon, <1>0, <1>2, <1>6, <1>7 DEF SourcesTyped, TestsTyped, EditTyped
<1>9. ConnsTyped'
  BY <1>0, <1>2, <1>4 DEF ConnsTyped
<1>10. \A j : Held(j)' <=> Held(j) /\ j # i
  BY <1>0, <1>1, <1>2, <1>6, <1>7 DEF Held, OneOwner
<1>11. OneOwner'
  <2>1. \A u \in TestCalls : tests'[u].at = "tested" =>
          u # t /\ tests[u].at = "tested" /\ tests'[u] = tests[u] /\ tests[u].conn # i
    BY <1>0, <1>1, <1>2, <1>6, <1>7 DEF OneOwner
  <2>2. Held(i) /\ \A j \in DOMAIN conns : Held(j) => j # registered
    BY Zenon, <1>0, <1>1, <1>2 DEF Held, OneOwner
  <2>3. \A j \in DOMAIN conns : conns'[j].open <=> i = j \/ Held(j)'
    BY <1>0, <1>4, <1>10, <2>2 DEF OneOwner
  <2> QED
    BY <1>0, <1>2, <1>4, <2>1, <2>3 DEF OneOwner
<1>12. BootsAlone'
  BY Zenon, <1>0, <1>2 DEF BootsAlone
<1>13. AllCurrent'
  <2>1. \A q, c : UpToDate(q, c)' <=> UpToDate(q, c)
    BY <1>2 DEF UpToDate
  <2>2. \A u \in TestCalls : tests'[u].at # "none" =>
          /\ tests[u].at # "none"
          /\ tests'[u].src = tests[u].src /\ tests'[u].config = tests[u].config
          /\ tests'[u].at = "tested" =>
               tests[u].at = "tested" /\ tests'[u].conn = tests[u].conn
                 /\ tests[u].conn \in DOMAIN conns
    BY <1>0, <1>2, <1>6, <1>7 DEF OneOwner
  <2> QED
    BY <1>0, <1>1, <1>2, <1>4, <2>1, <2>2 DEF AllCurrent
<1> QED
  BY <1>8, <1>9, <1>11, <1>12, <1>13 DEF ConnInv, ConnTypes

(* The first half of an update or a delete, which unregisters, keeps the   *)
(* invariant.                                                              *)
LEMMA EditBeginKeeps ==
  ASSUME ConnInv, Serving, NEW s \in Sources, NEW op \in {"update", "delete"}, EditBegin(s, op)
  PROVE  ConnInv'
<1>0. /\ SourcesTyped /\ ConnsTyped /\ TestsTyped /\ EditTyped
      /\ OneOwner /\ BootsAlone /\ AllCurrent
  BY Zenon DEF ConnInv, ConnTypes
<1>1. /\ edit' = [src |-> s, op |-> op]
      /\ conns' = (IF registered # 0 THEN CloseConn(conns, registered) ELSE conns)
      /\ registered' = 0
      /\ raced' = (raced \/ UnderTest(s))
      /\ UNCHANGED <<sources, tests, booting>>
  BY DEF EditBegin, Unregister
<1>2. 0 \notin DOMAIN conns /\ conns \in [DOMAIN conns -> OpenRows]
  BY <1>0 DEF ConnsTyped
<1>3. /\ conns' \in [DOMAIN conns -> OpenRows] /\ DOMAIN conns' = DOMAIN conns
      /\ \A j \in DOMAIN conns :
           /\ conns'[j].src = conns[j].src /\ conns'[j].config = conns[j].config
           /\ conns'[j].open <=> conns[j].open /\ j # registered
  BY <1>1, <1>2, RegistryDrops
<1>4. edit'.src = s /\ edit' \in [src : Sources \cup {""}, op : {"none", "update", "delete"}]
  BY Zenon, <1>1
<1>5. raced' \in BOOLEAN /\ (~raced' => ~raced /\ \A t \in TestCalls : tests[t].src # s)
  BY Zenon, <1>0, <1>1 DEF EditTyped, UnderTest
<1>6. SourcesTyped' /\ TestsTyped' /\ EditTyped'
  BY Zenon, <1>0, <1>1, <1>4, <1>5 DEF SourcesTyped, TestsTyped, EditTyped
<1>7. ConnsTyped'
  BY <1>0, <1>1, <1>3 DEF ConnsTyped
<1>8. OneOwner'
  <2>1. \A j : Held(j)' <=> Held(j)
    BY <1>1 DEF Held
  <2>2. \A j \in DOMAIN conns : (Held(j) => j # registered) /\ j # 0
    BY Zenon, <1>0, <1>2 DEF Held, OneOwner
  <2>3. \A j \in DOMAIN conns' : conns'[j].open <=> registered' = j \/ Held(j)'
    BY <1>0, <1>1, <1>3, <2>1, <2>2 DEF OneOwner
  <2> QED
    BY Zenon, <1>0, <1>1, <1>2, <1>3, <2>3 DEF OneOwner
<1>9. BootsAlone'
  BY Zenon, <1>1 DEF BootsAlone, Serving
<1>10. AllCurrent'
  <2>1. \A q, c : UpToDate(q, c) /\ q # s => UpToDate(q, c)'
    BY Zenon, <1>1, <1>4 DEF UpToDate
  <2> QED
    BY <1>0, <1>1, <1>3, <1>5, <2>1 DEF AllCurrent, OneOwner
<1> QED
  BY <1>6, <1>7, <1>8, <1>9, <1>10 DEF ConnInv, ConnTypes

(* The second half of an edit keeps the invariant.                         *)
LEMMA EditEnds ==
  ASSUME ConnInv, Serving, NEW s \in Sources, edit.src = s, edit' = NoEdit,
         SourcesTyped', \A q \in Sources \ {s} : sources'[q] = sources[q],
         UNCHANGED <<conns, registered, tests, booting, raced>>
  PROVE  ConnInv'
<1>0. /\ SourcesTyped /\ ConnsTyped /\ TestsTyped /\ EditTyped
      /\ OneOwner /\ BootsAlone /\ AllCurrent
  BY DEF ConnInv, ConnTypes
<1>1. ConnsTyped' /\ TestsTyped' /\ EditTyped' /\ OneOwner'
  <2>1. ConnsTyped' /\ TestsTyped'
    BY <1>0 DEF ConnsTyped, TestsTyped
  <2>2. EditTyped'
    BY Zenon, <1>0, EmptyRows DEF EditTyped
  <2>3. OneOwner'
    BY <1>0 DEF OneOwner, Held
  <2> QED
    BY <2>1, <2>2, <2>3
<1>2. BootsAlone'
  BY Zenon DEF BootsAlone, Serving
<1>3. \A q, c : UpToDate(q, c) => UpToDate(q, c)'
  BY Zenon, EmptyRows, SourcesNamed DEF UpToDate
<1>4. AllCurrent'
  BY <1>0, <1>3 DEF AllCurrent
<1> QED
  BY Zenon, <1>1, <1>2, <1>4 DEF ConnInv, ConnTypes

(* The row written or deleted by an edit keeps the invariant.              *)
LEMMA EditKeeps ==
  ASSUME ConnInv, Serving, NEW s \in Sources, HandleConnectorUpdate(s) \/ HandleConnectorDelete(s)
  PROVE  ConnInv'
<1>0. SourcesTyped
  BY DEF ConnInv, ConnTypes
<1>1. CASE EditBegin(s, "update") \/ EditBegin(s, "delete")
  BY <1>1, EditBeginKeeps
<1>2. CASE /\ edit = [src |-> s, op |-> "update"] /\ edit' = NoEdit
           /\ sources' \in {sources, UpdateSource(s, sources[s].config + 1, "")}
           /\ UNCHANGED <<conns, registered, tests, booting, raced>>
  <2>1. edit.src = s
    BY Zenon, <1>2
  <2>2. CASE sources' = sources
    BY <1>0, <1>2, <2>1, <2>2, EditEnds DEF SourcesTyped
  <2>3. CASE sources' = UpdateSource(s, sources[s].config + 1, "") /\ Exists(s)
    <3>0. sources[s] \in SourceRows /\ sources[s].config \in Nat
      BY <1>0 DEF SourcesTyped, SourceRows
    <3>1. PICK config \in Nat \ {0} : config = sources[s].config + 1
      BY <3>0
    <3> DEFINE new == [sources[s] EXCEPT !.config = config, !.status = "disconnected"]
    <3>2. sources' = [sources EXCEPT ![s] = new]
      BY Zenon, <2>3, <3>1 DEF UpdateSource
    <3>3. new \in SourceRows /\ new.config = config /\ new.status = "disconnected"
      BY Zenon, <3>0 DEF SourceRows
    <3> HIDE DEF new
    <3>4. SourcesTyped' /\ \A q \in Sources \ {s} : sources'[q] = sources[q]
      BY <1>0, <3>1, <3>2, <3>3 DEF SourcesTyped
    <3> QED
      BY Zenon, <1>2, <2>1, <3>4, EditEnds
  <2> QED
    BY <1>2, <2>2, <2>3 DEF UpdateSource
<1>3. CASE /\ edit = [src |-> s, op |-> "delete"] /\ edit' = NoEdit
           /\ sources' \in {sources, [sources EXCEPT ![s] = NoSource]}
           /\ UNCHANGED <<conns, registered, tests, booting, raced>>
  <2>1. edit.src = s
    BY <1>3
  <2>2. SourcesTyped' /\ \A q \in Sources \ {s} : sources'[q] = sources[q]
    BY Zenon, <1>0, <1>3, EmptyRows DEF SourcesTyped
  <2> QED
    BY <1>3, <2>1, <2>2, EditEnds
<1> QED
  BY Zenon, <1>1, <1>2, <1>3 DEF HandleConnectorUpdate, HandleConnectorDelete

(* A restart, which closes every connection, keeps the invariant.          *)
LEMMA RestartKeeps ==
  ASSUME ConnInv, Restart
  PROVE  ConnInv'
<1>0. SourcesTyped /\ ConnsTyped /\ EditTyped
  BY DEF ConnInv, ConnTypes
<1>1. /\ conns' = [j \in DOMAIN conns |-> [conns[j] EXCEPT !.open = FALSE]]
      /\ registered' = 0 /\ tests' = [t \in TestCalls |-> NoTest] /\ edit' = NoEdit
      /\ booting' \in {{}, {s \in Sources : sources[s].status = "connected"}}
      /\ UNCHANGED <<sources, raced>>
  BY DEF Restart, Opened
<1>2. /\ conns' \in [DOMAIN conns -> OpenRows] /\ DOMAIN conns' = DOMAIN conns
      /\ \A j \in DOMAIN conns : ~conns'[j].open
  <2>1. ASSUME NEW j \in DOMAIN conns
        PROVE  [conns[j] EXCEPT !.open = FALSE] \in OpenRows /\ ~[conns[j] EXCEPT !.open = FALSE].open
    <3>1. conns[j] \in OpenRows
      BY <1>0 DEF ConnsTyped
    <3> QED
      BY Zenon, <3>1 DEF OpenRows
  <2> QED
    BY Zenon, <1>1, <2>1
<1>3. ConnsTyped'
  BY <1>0, <1>1, <1>2 DEF ConnsTyped
<1>4. \A t \in TestCalls : tests'[t].at = "none"
  BY Zenon, <1>1, EmptyRows
<1>5. SourcesTyped' /\ TestsTyped' /\ EditTyped'
  BY Zenon, <1>0, <1>1, EmptyRows DEF SourcesTyped, TestsTyped, EditTyped
<1>6. 0 \notin DOMAIN conns
  BY <1>0 DEF ConnsTyped
<1>7. OneOwner'
  BY <1>1, <1>2, <1>4, <1>6 DEF OneOwner, Held
<1>8. BootsAlone'
  <2>1. \A s \in booting' : s \in Sources /\ sources[s].status = "connected"
    BY <1>1
  <2>2. \A s \in booting' : sources'[s].config # 0
    BY <1>0, <1>1, <2>1 DEF SourcesTyped
  <2> QED
    BY Zenon, <1>1, <1>4, <2>2, EmptyRows DEF BootsAlone
<1>9. AllCurrent'
  BY <1>1, <1>4 DEF AllCurrent
<1> QED
  BY <1>3, <1>5, <1>7, <1>8, <1>9 DEF ConnInv, ConnTypes

(* Reconnecting one source at boot keeps the invariant.                    *)
LEMMA ReconnectKeeps ==
  ASSUME CountingFacts, ConnInv, reconnectConnectors
  PROVE  ConnInv'
<1>0. /\ SourcesTyped /\ ConnsTyped /\ TestsTyped /\ EditTyped
      /\ OneOwner /\ BootsAlone /\ AllCurrent
  BY DEF ConnInv, ConnTypes
<1>1. PICK s \in booting :
        /\ booting' = booting \ {s}
        /\ \/ LET r == Register(CreateConnector(s, sources[s].config), NextConn)
              IN conns' = r.conns /\ registered' = r.reg /\ UNCHANGED sources
           \/ sources' \in {sources, UpdateSource(s, 0, "error")} /\ UNCHANGED <<conns, registered>>
        /\ UNCHANGED <<tests, edit, raced>>
  BY DEF reconnectConnectors
<1>2. /\ s \in Sources /\ edit.src = "" /\ \A t \in TestCalls : tests[t].at = "none"
      /\ sources[s].config # 0
  BY Zenon, <1>0 DEF BootsAlone, EditTyped
<1>3. PICK config \in Nat : config = sources[s].config
  BY Zenon, <1>0, <1>2 DEF SourcesTyped, SourceRows
<1>4. TestsTyped' /\ EditTyped'
  BY Zenon, <1>0, <1>1 DEF TestsTyped, EditTyped
<1>5. CASE SameConfigs /\ UNCHANGED <<conns, registered>>
  <2>1. SourcesTyped' /\ ConnsTyped' /\ OneOwner'
    BY <1>0, <1>1, <1>5 DEF SameConfigs, SourcesTyped, ConnsTyped, OneOwner, Held
  <2>2. BootsAlone'
    BY Zenon, <1>0, <1>1, <1>5 DEF BootsAlone, SameConfigs, EditTyped
  <2>3. \A q, c : UpToDate(q, c) => UpToDate(q, c)'
    BY Zenon, <1>1, <1>5 DEF UpToDate, SameConfigs
  <2>4. AllCurrent'
    BY <1>0, <1>1, <1>5, <2>3 DEF AllCurrent
  <2> QED
    BY Zenon, <1>4, <2>1, <2>2, <2>4 DEF ConnInv, ConnTypes
<1>6. ASSUME NEW n, n = NextConn, NEW made, made = CreateConnector(s, config),
             conns' = (IF registered # 0 THEN CloseConn(made, registered) ELSE made),
             registered' = n, sources' = sources
      PROVE  ConnInv'
  <2>1. /\ n \in Nat \ {0} /\ n \notin DOMAIN conns /\ DOMAIN made = DOMAIN conns \cup {n}
        /\ \E m \in Nat : DOMAIN made = 1..m
        /\ made \in [DOMAIN made -> OpenRows]
        /\ \A j \in DOMAIN conns : made[j] = conns[j]
        /\ made[n] = [src |-> s, config |-> config, open |-> TRUE]
    <3>1. n = NextConn /\ made = CreateConnector(s, config)
      BY <1>6
    <3>2. LET new == CreateConnector(s, config) IN
          /\ NextConn \in Nat \ {0} /\ NextConn \notin DOMAIN conns
          /\ DOMAIN new = DOMAIN conns \cup {NextConn}
          /\ \E m \in Nat : DOMAIN new = 1..m
          /\ new \in [DOMAIN new -> OpenRows]
          /\ \A j \in DOMAIN conns : new[j] = conns[j]
          /\ new[NextConn] = [src |-> s, config |-> config, open |-> TRUE]
      BY Zenon, <1>0, <1>2, CreatedConn
    <3> QED
      BY Zenon, <3>1, <3>2
  <2>2. 0 \notin DOMAIN made /\ registered # n
    BY <1>0, <2>1 DEF ConnsTyped
  <2>3. /\ conns' \in [DOMAIN made -> OpenRows] /\ DOMAIN conns' = DOMAIN made
        /\ \A j \in DOMAIN made :
             /\ conns'[j].src = made[j].src /\ conns'[j].config = made[j].config
             /\ conns'[j].open <=> made[j].open /\ j # registered
    BY <1>6, <2>1, <2>2, RegistryDrops
  <2>4. ConnsTyped' /\ SourcesTyped'
    BY Zenon, <1>0, <1>6, <2>1, <2>3 DEF ConnsTyped, SourcesTyped
  <2>5. made[n].src = s /\ made[n].config = config /\ made[n].open
    BY <2>1
  <2>6. \A j : ~Held(j) /\ ~Held(j)'
    BY Zenon, <1>1, <1>2 DEF Held
  <2>7. \A j \in DOMAIN made : conns'[j].open <=> j = n
    BY Zenon, <1>0, <2>1, <2>2, <2>3, <2>5, <2>6 DEF OneOwner
  <2>8. OneOwner'
    BY Zenon, <1>1, <1>2, <1>6, <2>3, <2>6, <2>7 DEF OneOwner
  <2>9. BootsAlone'
    BY Zenon, <1>0, <1>1, <1>6 DEF BootsAlone
  <2>10. AllCurrent'
    <3>1. conns'[registered'].src = s /\ conns'[registered'].config = config
      BY <1>6, <2>1, <2>3, <2>5
    <3>2. edit'.src = "" /\ sources' = sources /\ \A t \in TestCalls : tests'[t].at = "none"
      BY Zenon, <1>1, <1>2, <1>6
    <3>3. UpToDate(s, config)'
      BY Zenon, <1>2, <1>3, <3>2, SourcesNamed DEF UpToDate
    <3> QED
      BY Zenon, <3>1, <3>2, <3>3 DEF AllCurrent
  <2> QED
    BY <1>4, <2>4, <2>8, <2>9, <2>10 DEF ConnInv, ConnTypes
<1>7. CASE sources' \in {sources, UpdateSource(s, 0, "error")} /\ UNCHANGED <<conns, registered>>
  BY Zenon, <1>0, <1>2, <1>5, <1>7, StatusWritten
<1>8. CASE LET r == Register(CreateConnector(s, sources[s].config), NextConn)
           IN conns' = r.conns /\ registered' = r.reg /\ UNCHANGED sources
  BY <1>3, <1>6, <1>8 DEF Register
<1> QED
  BY <1>1, <1>7, <1>8

(* Every step of the connector registry keeps its invariant.               *)
LEMMA ConnStep == CountingFacts /\ ConnInv /\ [ConnNext]_connVars => ConnInv'
<1> SUFFICES ASSUME CountingFacts, ConnInv, [ConnNext]_connVars PROVE ConnInv'
  OBVIOUS
<1>1. CASE UNCHANGED connVars
  <2>1. ConnTypes'
    BY Zenon, <1>1 DEF connVars, ConnInv, ConnTypes, SourcesTyped, ConnsTyped, TestsTyped, EditTyped
  <2>2. OneOwner' /\ BootsAlone'
    BY Zenon, <1>1 DEF connVars, ConnInv, OneOwner, Held, BootsAlone
  <2>3. AllCurrent'
    BY <1>1 DEF connVars, ConnInv, AllCurrent, UpToDate
  <2> QED
    BY <2>1, <2>2, <2>3 DEF ConnInv
<1>2. ASSUME Serving, NEW s \in Sources,
             \/ HandleConnectorCreate(s) \/ HandleConnectorUpdate(s) \/ HandleConnectorDelete(s)
             \/ \E t \in TestCalls : TestRead(t, s)
      PROVE  ConnInv'
  BY <1>2, CreateRowKeeps, EditKeeps, TestReadKeeps
<1>3. ASSUME NEW t \in TestCalls, TestConnect(t) \/ TestRegister(t) \/ TestStatus(t)
      PROVE  ConnInv'
  BY <1>3, TestConnectKeeps, TestRegisterKeeps, TestStatusKeeps
<1>4. CASE Restart \/ reconnectConnectors
  BY <1>4, RestartKeeps, ReconnectKeeps
<1> QED
  BY <1>1, <1>2, <1>3, <1>4 DEF ConnNext

-----------------------------------------------------------------------------
(* Ingestion.                                                              *)
(* A sequence without repetitions: one more element, and a suffix of it.   *)
LEMMA AppendSets ==
  ASSUME NEW S, NEW s \in Seq(S), NEW e \in S
  PROVE /\ Append(s, e) \in Seq(S) /\ Len(Append(s, e)) = Len(s) + 1
        /\ Range(Append(s, e)) = Range(s) \cup {e}
        /\ IsInjective(s) /\ e \notin Range(s) => IsInjective(Append(s, e))
<1>1. /\ Len(s) \in Nat /\ DOMAIN s = 1..Len(s) /\ DOMAIN Append(s, e) = 1..(Len(s) + 1)
      /\ Append(s, e) \in Seq(S) /\ Len(Append(s, e)) = Len(s) + 1
      /\ \A i \in 1..Len(s) : Append(s, e)[i] = s[i]
      /\ Append(s, e)[Len(s) + 1] = e
  OBVIOUS
<1>2. \A i \in 1..(Len(s) + 1) : i \in 1..Len(s) \/ i = Len(s) + 1
  BY <1>1
<1>3. Len(s) + 1 \in 1..(Len(s) + 1) /\ \A i \in 1..Len(s) : i \in 1..(Len(s) + 1)
  BY <1>1
<1>4. Range(Append(s, e)) = Range(s) \cup {e}
  BY <1>1, <1>2, <1>3 DEF Range
<1>5. ASSUME IsInjective(s), e \notin Range(s) PROVE IsInjective(Append(s, e))
  <2>1. \A i \in 1..Len(s) : s[i] # e
    BY <1>1, <1>5 DEF Range
  <2> QED BY <1>1, <1>2, <1>5, <2>1 DEF IsInjective
<1> QED BY <1>1, <1>4, <1>5

(* The entries that stay when the oldest k batch ids are evicted.          *)
LEMMA SuffixSets ==
  ASSUME NEW S, NEW s \in Seq(S), NEW k \in 1..Len(s)
  PROVE LET d == SubSeq(s, k + 1, Len(s))
        IN /\ d \in Seq(S) /\ Range(d) \in SUBSET Range(s)
           /\ IsInjective(s) => IsInjective(d)
           /\ k = 1 => Range(s) = {s[1]} \cup Range(d)
           /\ k = 1 /\ IsInjective(s) => s[1] \notin Range(d)
<1> DEFINE d == SubSeq(s, k + 1, Len(s))
<1>1. Len(s) \in Nat /\ DOMAIN s = 1..Len(s) /\ k \in Nat /\ 1 <= k /\ k <= Len(s) /\ d \in Seq(S)
  OBVIOUS
<1>2. Len(d) = Len(s) - k
  <2>1. CASE k + 1 <= Len(s)
    <3>1. Len(d) = Len(s) - (k + 1) + 1
      BY <2>1, <1>1
    <3>2. Len(s) - (k + 1) + 1 = Len(s) - k
      BY <1>1
    <3> QED BY <3>1, <3>2, Zenon
  <2>2. CASE k = Len(s)
    <3>1. d = <<>>
      BY <2>2, <1>1
    <3> QED BY <3>1, <2>2, <1>1
  <2>3. k + 1 <= Len(s) \/ k = Len(s)
    <3>1. \A i, j \in Nat : i <= j => i + 1 <= j \/ i = j
      OBVIOUS
    <3> QED BY <3>1, <1>1, Zenon
  <2> QED BY <2>1, <2>2, <2>3, Zenon
<1>4. ASSUME NEW i \in 1..(Len(s) - k) PROVE d[i] = s[i + k] /\ i + k \in 1..Len(s) /\ i + k # 1
  <2>1. d[i] = s[(k + 1) + i - 1]
    BY <1>1
  <2> QED BY <2>1, <1>1
<1> HIDE DEF d
<1>3. DOMAIN d = 1..(Len(s) - k)
  <2>1. DOMAIN d = 1..Len(d)
    BY <1>1
  <2> QED BY <2>1, <1>2, Zenon
<1>5. Range(d) \in SUBSET Range(s)
  BY Zenon, <1>1, <1>3, <1>4 DEF Range
<1>6. ASSUME IsInjective(s) PROVE IsInjective(d)
  <2> SUFFICES ASSUME NEW a \in 1..(Len(s) - k), NEW b \in 1..(Len(s) - k), d[a] = d[b] PROVE a = b
    BY <1>3 DEF IsInjective
  <2>0. s[a + k] = s[b + k] /\ a + k \in DOMAIN s /\ b + k \in DOMAIN s
    BY <1>1, <1>4
  <2>1. a + k = b + k
    BY <2>0, <1>6, Zenon DEF IsInjective
  <2>2. \A i, j, n \in Int : i + n = j + n => i = j
    OBVIOUS
  <2> QED BY <2>1, <2>2, <1>1
<1>7. ASSUME k = 1 PROVE Range(s) = {s[1]} \cup Range(d)
  <2> DEFINE n == Len(s)
  <2>0. n \in Nat /\ n >= 1
    BY <1>1
  <2> HIDE DEF n
  <2>1. 1 \in 1..n /\ \A j \in 1..n : j = 1 \/ (j - 1 \in 1..(n - k) /\ (j - 1) + k = j)
    BY <2>0, <1>7
  <2> USE DEF n
  <2>2. \A j \in 1..Len(s) : s[j] \in {s[1]} \cup Range(d)
    <3> SUFFICES ASSUME NEW j \in 1..Len(s), j # 1 PROVE s[j] \in Range(d)
      OBVIOUS
    <3>1. j - 1 \in 1..(Len(s) - k) /\ (j - 1) + k = j
      BY <2>1
    <3>2. s[j] = d[j - 1] /\ j - 1 \in DOMAIN d
      BY <3>1, <1>3, <1>4
    <3> QED BY <3>2, Zenon DEF Range
  <2> QED BY Zenon, <2>1, <2>2, <1>1, <1>5 DEF Range
<1>8. ASSUME k = 1, IsInjective(s) PROVE s[1] \notin Range(d)
  <2>1. 1 \in 1..Len(s)
    BY <1>1
  <2> SUFFICES ASSUME NEW i \in DOMAIN d, d[i] = s[1] PROVE FALSE
    BY Zenon DEF Range
  <2>2. s[i + k] = s[1] /\ i + k \in DOMAIN s /\ i + k # 1 /\ 1 \in DOMAIN s
    BY <2>1, <1>1, <1>3, <1>4
  <2> QED BY <2>2, <1>8, Zenon DEF IsInjective
<1>9. d = SubSeq(s, k + 1, Len(s))
  BY DEF d
<1> QED BY <1>1, <1>5, <1>6, <1>7, <1>8, <1>9

(* The jobs that stay when a worker takes the first one.                   *)
LEMMA TailSets ==
  ASSUME NEW S, NEW s \in Seq(S), s # <<>>
  PROVE /\ Head(s) \in S /\ Tail(s) \in Seq(S)
        /\ Range(s) = {Head(s)} \cup Range(Tail(s))
        /\ IsInjective(s) => IsInjective(Tail(s)) /\ Head(s) \notin Range(Tail(s))
<1>1. 1 \in 1..Len(s)
  OBVIOUS
<1>2. Tail(s) = SubSeq(s, 1 + 1, Len(s)) /\ Head(s) = s[1] /\ Head(s) \in S /\ Tail(s) \in Seq(S)
  OBVIOUS
<1>3. /\ Range(s) = {s[1]} \cup Range(SubSeq(s, 1 + 1, Len(s)))
      /\ IsInjective(s) => /\ IsInjective(SubSeq(s, 1 + 1, Len(s)))
                           /\ s[1] \notin Range(SubSeq(s, 1 + 1, Len(s)))
  BY <1>1, SuffixSets
<1> QED BY <1>2, <1>3, Zenon

PastStates == {"recorded", "connected", "sent", "inline", "created", "sampled"}
ReqStates == PastStates \cup {"idle", "checked", "inserted", "dup", "error"}
IngestTypes ==
  /\ req \in [Requests -> ReqStates] /\ size \in [Batches -> 0..1]
  /\ stored \in [Batches -> Nat] /\ processed \in [Requests -> 0..1]
  /\ jobs \in Seq(Requests) /\ IsInjective(jobs) /\ busy \in SUBSET Requests
  /\ batchOrder \in Seq(Batches) /\ IsInjective(batchOrder)
  /\ queued \in Int

(* The jobs somebody still has to run, and those the counter lacks yet.    *)
Handed == busy \cup Range(jobs)
Uncounted == {r \in Requests : req[r] = "sent"}
PostInv ==
  /\ busy \cap Range(jobs) = {}
  /\ \A r \in Requests :
       /\ r \in Handed => processed[r] = 0 /\ req[r] \in {"sent", "created"}
       /\ processed[r] = 1 => req[r] \in {"sent", "created"}
       /\ req[r] \in {"sent", "created"} => r \in Handed \/ processed[r] = 1
       /\ req[r] \in PastStates \ {"sampled"} => size[r[1]] = 1
  /\ queued + Cardinality(Uncounted) = Cardinality(Handed)
  /\ pool = "drained" => jobs = <<>> /\ busy = {}

(* What the table of batch ids says of a batch, with its requests in the   *)
(* order the client sends them.                                            *)
SentInOrder ==
  \A p, q \in Requests : p[1] = q[1] /\ p[2] < q[2] /\ req[p] = "idle" => req[q] = "idle"
KnownWasPast ==
  \A b \in Batches :
    b \in Range(batchOrder) \/ (\E p \in Requests : p[1] = b /\ req[p] = "dup")
      => \E p \in Requests : p[1] = b /\ req[p] \in PastStates
OneWriter(b) ==
  /\ \A p, q \in Requests : p[1] = b /\ q[1] = b /\ Writing(p) /\ Writing(q) => p = q
  /\ \A p \in Requests : p[1] = b /\ Writing(p) => b \notin Range(batchOrder)
  /\ \A p \in Requests : p[1] = b /\ req[p] \in PastStates => b \in Range(batchOrder)
  /\ stored[b] <= 1
  /\ stored[b] > 0 => \/ b \in Range(batchOrder)
                      \/ \E p \in Requests : p[1] = b /\ req[p] = "inserted"
DedupInv == SentInOrder /\ KnownWasPast /\ \A b \in Batches : b \notin overlapped => OneWriter(b)
IngestInv == IngestTypes /\ PostInv /\ DedupInv

(* The requests are finitely many, and so is each part of them.            *)
LEMMA RequestsFinite ==
  ASSUME CountingFacts
  PROVE /\ IsFiniteSet(Requests) /\ Cardinality(Requests) \in Nat
        /\ \A S \in SUBSET Requests :
             IsFiniteSet(S) /\ Cardinality(S) \in Nat /\ Cardinality(S) <= Cardinality(Requests)
<1>1. IsFiniteSet(1..Attempts)
  BY IngestLimits DEF CountingFacts, RangesCount
<1>2. IsFiniteSet(Requests)
  BY <1>1, IngestLimits DEF Requests, CountingFacts, PairsCount
<1> QED BY <1>2 DEF CountingFacts, PartsCount

(* The invariant of ingestion holds before the first request.              *)
LEMMA IngestStart == CountingFacts /\ IngestInit => IngestInv
<1> SUFFICES ASSUME CountingFacts, IngestInit PROVE IngestInv
  OBVIOUS
<1>1. <<>> \in Seq(Requests) /\ <<>> \in Seq(Batches) /\ Range(<<>>) = {} /\ IsInjective(<<>>)
  BY DEF Range, IsInjective
<1>2. IngestTypes
  BY <1>1 DEF IngestTypes, IngestInit, ReqStates, PastStates, Requests
<1>3. /\ Handed = {} /\ Uncounted = {} /\ \A r \in Requests : req[r] = "idle" /\ processed[r] = 0
  BY <1>1 DEF IngestInit, Handed, Uncounted
<1>4. PostInv
  <2>1. Cardinality({}) = 0
    BY DEF CountingFacts, EmptyCounts
  <2>2. queued + Cardinality(Uncounted) = Cardinality(Handed)
    BY <2>1, <1>3 DEF IngestInit
  <2> QED BY <2>2, <1>1, <1>3 DEF PostInv, IngestInit, PastStates
<1>5. DedupInv
  <2>1. \A b \in Batches : stored[b] = 0 /\ b \notin Range(batchOrder)
    BY <1>1 DEF IngestInit
  <2> QED BY <2>1, <1>3 DEF DedupInv, SentInOrder, KnownWasPast, OneWriter, Writing, PastStates
<1> QED BY <1>2, <1>4, <1>5 DEF IngestInv

(* One request moves on: what it is now, and that the others stay.         *)
Goes(r, from, to) ==
  /\ r \in Requests /\ req[r] = from /\ to \in ReqStates
  /\ req' = [req EXCEPT ![r] = to]

(* One request moving on leaves the others where they are.                 *)
LEMMA GoesFacts ==
  ASSUME IngestTypes, NEW r, NEW from, NEW to, Goes(r, from, to)
  PROVE /\ req' \in [Requests -> ReqStates] /\ req'[r] = to
        /\ \A q \in Requests : q # r => req'[q] = req[q]
BY Zenon DEF Goes, IngestTypes

(* The pool does not notice a request outside "sent" and "created".        *)
LEMMA PoolKept ==
  ASSUME IngestTypes, PostInv, NEW r, NEW from, NEW to, Goes(r, from, to),
         from \notin {"sent", "created"}, to \notin {"sent", "created"},
         to \in PastStates \ {"sampled"} => size[r[1]] = 1,
         UNCHANGED <<size, pool, jobs, queued, busy, processed>>
  PROVE PostInv'
<1>1. Handed' = Handed
  BY Zenon DEF Handed
<1>2. Uncounted' = Uncounted
  BY GoesFacts DEF Uncounted, Goes
<1>3. (busy \cap Range(jobs) = {})' /\ (pool = "drained" => jobs = <<>> /\ busy = {})'
  BY Zenon DEF PostInv
<1>4. (queued + Cardinality(Uncounted) = Cardinality(Handed))'
  BY Zenon, <1>1, <1>2 DEF PostInv
<1>5. ASSUME NEW q \in Requests
      PROVE /\ q \in Handed' => processed'[q] = 0 /\ req'[q] \in {"sent", "created"}
            /\ processed'[q] = 1 => req'[q] \in {"sent", "created"}
            /\ req'[q] \in {"sent", "created"} => q \in Handed' \/ processed'[q] = 1
            /\ req'[q] \in PastStates \ {"sampled"} => size'[q[1]] = 1
  <2>1. CASE q = r
    BY Zenon, <2>1, <1>1, GoesFacts DEF PostInv, Goes
  <2>2. CASE q # r
    <3>1. req'[q] = req[q]
      BY <2>2, GoesFacts
    <3> QED BY Zenon, <3>1, <1>1 DEF PostInv
  <2> QED BY Zenon, <2>1, <2>2
<1> QED BY Zenon, <1>3, <1>4, <1>5 DEF PostInv

(* Nor does the table notice a request that was recorded in it.            *)
LEMMA TableKept ==
  ASSUME IngestTypes, DedupInv, NEW r, NEW from, NEW to, Goes(r, from, to),
         from \in PastStates, to \in PastStates,
         UNCHANGED <<batchOrder, stored, overlapped>>
  PROVE DedupInv'
<1>1. \A q \in Requests : /\ req'[q] \in PastStates <=> req[q] \in PastStates
                          /\ req[q] \notin PastStates => req'[q] = req[q]
                          /\ req'[q] \notin PastStates => req'[q] = req[q]
  BY GoesFacts DEF Goes
<1>2. \A q \in Requests : /\ req'[q] = "idle" <=> req[q] = "idle"
                          /\ req'[q] = "dup" <=> req[q] = "dup"
                          /\ req'[q] = "inserted" <=> req[q] = "inserted"
                          /\ Writing(q)' <=> Writing(q)
  BY Zenon, <1>1 DEF PastStates, Writing
<1>3. SentInOrder' /\ KnownWasPast'
  BY <1>1, <1>2 DEF DedupInv, SentInOrder, KnownWasPast
<1>4. ASSUME NEW b \in Batches, b \notin overlapped PROVE OneWriter(b)'
  <2>1. OneWriter(b)
    BY Zenon, <1>4 DEF DedupInv
  <2> QED BY <2>1, <1>1, <1>2 DEF OneWriter
<1> QED BY <1>3, <1>4 DEF DedupInv


(* Its type, in parts: what a step of a request leaves alone.              *)
LEMMA TypesKept ==
  ASSUME IngestTypes, NEW r, NEW from, NEW to, Goes(r, from, to),
         UNCHANGED <<size, jobs, queued, busy, processed>>,
         stored' \in [Batches -> Nat], batchOrder' \in Seq(Batches), IsInjective(batchOrder')
  PROVE IngestTypes'
BY GoesFacts DEF IngestTypes

(* A request is a batch and the number of its attempt.                     *)
LEMMA RequestPair ==
  ASSUME NEW r \in Requests
  PROVE /\ r[1] \in Batches /\ r[2] \in 1..Attempts /\ r[2] \in Nat
        /\ \A q \in Requests : q[1] = r[1] /\ q[2] = r[2] => q = r
        /\ \A k \in 1..Attempts : /\ <<r[1], k>> \in Requests
                                  /\ <<r[1], k>>[1] = r[1] /\ <<r[1], k>>[2] = k
BY IngestLimits DEF Requests

(* The duplicate check of a request keeps the invariant.                   *)
LEMMA checkBatchDupStep ==
  ASSUME IngestInv, NEW r \in Requests, checkBatchDup(r)
  PROVE IngestInv'
<1>0. IngestTypes /\ PostInv /\ DedupInv
  BY DEF IngestInv
<1>1. PICK to : /\ to \in {"dup", "checked"} /\ Goes(r, "idle", to)
                /\ to = "dup" => r[1] \in Range(batchOrder) /\ overlapped' = overlapped
                /\ to = "checked" =>
                     /\ r[1] \notin Range(batchOrder)
                     /\ overlapped' = IF \E k \in 1..(r[2] - 1) : Writing(<<r[1], k>>)
                                        THEN overlapped \cup {r[1]} ELSE overlapped
  BY Zenon DEF checkBatchDup, GetBatch, Goes, ReqStates
<1>2. /\ UNCHANGED <<size, batchOrder, stored, pool, jobs, queued, busy, processed>>
      /\ r[2] > 1 => req[<<r[1], r[2] - 1>>] # "idle"
  BY Zenon DEF checkBatchDup
<1>3. IngestTypes'
  BY Zenon, <1>0, <1>1, <1>2, TypesKept DEF IngestTypes
<1>4. PostInv'
  BY <1>0, <1>1, <1>2, PoolKept DEF PastStates
<1>5. /\ req'[r] = to /\ req[r] = "idle" /\ \A q \in Requests : q # r => req'[q] = req[q]
  BY Zenon, <1>0, <1>1, GoesFacts DEF Goes
<1>6. \A q \in Requests : q[1] = r[1] /\ q[2] < r[2] => req[q] # "idle"
  <2> SUFFICES ASSUME NEW q \in Requests, q[1] = r[1], q[2] < r[2], req[q] = "idle"
               PROVE FALSE
    BY Zenon
  <2>1. r[2] \in Nat /\ q[2] \in Nat /\ q[2] >= 1 /\ r[2] <= Attempts
    BY RequestPair, IngestLimits
  <2>2. r[2] > 1 /\ r[2] - 1 \in 1..Attempts
    BY <2>1, IngestLimits
  <2> DEFINE p == <<r[1], r[2] - 1>>
  <2>3. p \in Requests /\ p[1] = r[1] /\ p[2] = r[2] - 1
    BY Zenon, <2>2, RequestPair
  <2>4. req[p] # "idle"
    BY <1>2, <2>2
  <2>5. q[2] = p[2] \/ q[2] < p[2]
    BY <2>1, <2>3
  <2> HIDE DEF p
  <2>6. CASE q[2] = p[2]
    BY <2>6, <2>3, <2>4, RequestPair
  <2>7. CASE q[2] < p[2]
    BY Zenon, <2>7, <2>3, <2>4, <1>0 DEF DedupInv, SentInOrder
  <2> QED BY <2>5, <2>6, <2>7
<1>7. SentInOrder'
  <2> SUFFICES ASSUME NEW p \in Requests, NEW q \in Requests,
                      p[1] = q[1], p[2] < q[2], req'[p] = "idle"
               PROVE req'[q] = "idle"
    BY Zenon DEF SentInOrder
  <2>1. p # r /\ req[p] = "idle"
    BY <1>1, <1>5
  <2>2. q # r
    BY Zenon, <2>1, <1>6
  <2> QED BY <2>1, <2>2, <1>0, <1>5 DEF DedupInv, SentInOrder
<1>8. \A q \in Requests : req'[q] \in PastStates <=> req[q] \in PastStates
  BY Zenon, <1>1, <1>5 DEF PastStates
<1>9. KnownWasPast'
  <2> SUFFICES ASSUME NEW b \in Batches,
                      b \in Range(batchOrder) \/ (\E p \in Requests : p[1] = b /\ req'[p] = "dup")
               PROVE \E p \in Requests : p[1] = b /\ req[p] \in PastStates
    BY Zenon, <1>2, <1>8 DEF KnownWasPast
  <2>1. b \in Range(batchOrder) \/ (\E p \in Requests : p[1] = b /\ req[p] = "dup")
    BY <1>1, <1>5
  <2> QED BY Zenon, <2>1, <1>0 DEF DedupInv, KnownWasPast
<1>10. ASSUME NEW b \in Batches, b \notin overlapped' PROVE OneWriter(b)'
  <2>1. b \notin overlapped /\ OneWriter(b)
    BY Zenon, <1>0, <1>1, <1>10 DEF DedupInv
  <2>2. \A q \in Requests : Writing(q)' => (q = r /\ to = "checked") \/ Writing(q)
    BY <1>1, <1>5 DEF Writing
  <2>3. ASSUME b = r[1], to = "checked", NEW q \in Requests, q[1] = b PROVE ~Writing(q)
    <3>1. ~ \E k \in 1..(r[2] - 1) : Writing(<<r[1], k>>)
      BY <1>1, <1>10, <2>3
    <3>2. q[2] \in 1..Attempts /\ r[2] \in 1..Attempts /\ q = <<r[1], q[2]>>
      BY <2>3, RequestPair DEF Requests
    <3>3. CASE q[2] < r[2]
      <4>1. q[2] \in 1..(r[2] - 1)
        BY <3>2, <3>3, IngestLimits
      <4> QED BY <4>1, <3>1, <3>2
    <3>4. CASE q[2] > r[2]
      <4>1. req[q] = "idle"
        BY Zenon, <3>4, <2>3, <1>0, <1>5 DEF DedupInv, SentInOrder
      <4> QED BY Zenon, <4>1 DEF Writing
    <3>5. CASE q[2] = r[2]
      BY <3>5, <2>3, <1>5, RequestPair DEF Writing
    <3>6. q[2] < r[2] \/ q[2] > r[2] \/ q[2] = r[2]
      BY <3>2, IngestLimits
    <3> QED BY <3>3, <3>4, <3>5, <3>6
  <2>4. \A p, q \in Requests : p[1] = b /\ q[1] = b /\ Writing(p)' /\ Writing(q)' => p = q
    BY Zenon, <2>1, <2>2, <2>3 DEF OneWriter
  <2>5. \A p \in Requests : p[1] = b /\ Writing(p)' => b \notin Range(batchOrder)
    BY Zenon, <2>1, <2>2, <1>1 DEF OneWriter
  <2>6. \A p \in Requests : req[p] = "inserted" => req'[p] = "inserted"
    BY <1>5
  <2> QED BY Zenon, <2>1, <2>4, <2>5, <2>6, <1>2, <1>8 DEF OneWriter
<1> QED BY <1>3, <1>4, <1>7, <1>9, <1>10 DEF IngestInv, DedupInv

(* Writing the entries of a batch keeps the invariant.                     *)
LEMMA InsertBatchStep ==
  ASSUME IngestInv, NEW r \in Requests, InsertBatch(r)
  PROVE IngestInv'
<1>0. IngestTypes /\ PostInv /\ DedupInv /\ r[1] \in Batches
  BY Zenon, RequestPair DEF IngestInv
<1>1. PICK to : /\ to \in {"inserted", "error"} /\ Goes(r, "checked", to)
                /\ to = "error" => stored' = stored
                /\ to = "inserted" => stored' = [stored EXCEPT ![r[1]] = @ + size[r[1]]]
  BY Zenon DEF InsertBatch, ReqStep, Goes, ReqStates
<1>2. UNCHANGED <<size, batchOrder, pool, jobs, queued, busy, processed, overlapped>>
  BY Zenon DEF InsertBatch
<1>3. /\ stored' \in [Batches -> Nat] /\ \A b \in Batches : b # r[1] => stored'[b] = stored[b]
      /\ \/ stored'[r[1]] = stored[r[1]]
         \/ to = "inserted" /\ stored'[r[1]] \in {stored[r[1]], stored[r[1]] + 1}
  <2>1. size[r[1]] \in 0..1 /\ stored[r[1]] \in Nat /\ stored \in [Batches -> Nat]
    BY Zenon, <1>0 DEF IngestTypes
  <2>2. CASE to = "error"
    BY Zenon, <2>1, <2>2, <1>1
  <2>3. CASE to = "inserted"
    <3>1. stored[r[1]] + size[r[1]] \in Nat /\ stored[r[1]] + size[r[1]] \in {stored[r[1]], stored[r[1]] + 1}
      BY <2>1
    <3>2. stored' = [stored EXCEPT ![r[1]] = stored[r[1]] + size[r[1]]]
      BY Zenon, <2>3, <1>1
    <3> QED BY Zenon, <3>1, <3>2, <2>1, <2>3, <1>0
  <2> QED BY <2>2, <2>3, <1>1
<1>4. IngestTypes'
  BY <1>0, <1>1, <1>2, <1>3, TypesKept DEF IngestTypes
<1>5. PostInv'
  BY Zenon, <1>0, <1>1, <1>2, PoolKept DEF PastStates
<1>6. /\ req'[r] = to /\ req[r] = "checked" /\ \A q \in Requests : q # r => req'[q] = req[q]
  BY Zenon, <1>0, <1>1, GoesFacts DEF Goes
<1>7. \A q \in Requests : /\ req'[q] \in PastStates <=> req[q] \in PastStates
                          /\ req'[q] = "idle" <=> req[q] = "idle"
                          /\ req'[q] = "dup" <=> req[q] = "dup"
                          /\ Writing(q)' => Writing(q)
  BY Zenon, <1>1, <1>6 DEF PastStates, Writing
<1>8. SentInOrder' /\ KnownWasPast'
  BY Zenon, <1>0, <1>2, <1>7 DEF DedupInv, SentInOrder, KnownWasPast
<1>9. ASSUME NEW b \in Batches, b \notin overlapped' PROVE OneWriter(b)'
  <2>1. OneWriter(b)
    BY Zenon, <1>0, <1>2, <1>9 DEF DedupInv
  <2>2. b = r[1] => stored[b] = 0
    <3> SUFFICES ASSUME b = r[1] PROVE ~(stored[b] > 0)
      BY <1>0 DEF IngestTypes
    <3>1. b \notin Range(batchOrder) /\ \A p \in Requests : p[1] = b /\ Writing(p) => p = r
      BY <2>1, <1>6 DEF OneWriter, Writing
    <3>2. ~ \E p \in Requests : p[1] = b /\ req[p] = "inserted"
      BY Zenon, <3>1, <1>6 DEF Writing
    <3> QED BY <3>1, <3>2, <2>1 DEF OneWriter
  <2>3. /\ stored'[b] <= 1
        /\ stored'[b] > 0 => \/ b \in Range(batchOrder)'
                             \/ \E p \in Requests : p[1] = b /\ req'[p] = "inserted"
    <3>1. CASE b = r[1]
      BY <3>1, <2>2, <1>3, <1>6
    <3>2. CASE b # r[1]
      BY Zenon, <3>2, <2>1, <1>2, <1>3, <1>6 DEF OneWriter
    <3> QED BY Zenon, <3>1, <3>2
  <2> QED BY Zenon, <2>1, <2>3, <1>2, <1>7 DEF OneWriter
<1> QED BY <1>4, <1>5, <1>8, <1>9 DEF IngestInv, DedupInv


(* RecordBatch and PruneBatches on the table alone.                        *)
LEMMA TableRecords ==
  ASSUME IngestTypes, NEW b \in Batches, batchOrder' = EvictOldest(RecordId(batchOrder, b))
  PROVE /\ batchOrder' \in Seq(Batches) /\ IsInjective(batchOrder')
        /\ Range(batchOrder') \in SUBSET (Range(batchOrder) \cup {b})
        /\ b \notin Range(batchOrder) => b \in Range(batchOrder')
<1> DEFINE order == RecordId(batchOrder, b)
<1>1. batchOrder \in Seq(Batches) /\ IsInjective(batchOrder) /\ Len(batchOrder) \in Nat
  BY DEF IngestTypes
<1>2. /\ order \in Seq(Batches) /\ IsInjective(order) /\ Range(order) = Range(batchOrder) \cup {b}
      /\ b \notin Range(batchOrder) => order = Append(batchOrder, b)
  <2>1. CASE b \in Range(batchOrder)
    BY <2>1, <1>1 DEF RecordId
  <2>2. CASE b \notin Range(batchOrder)
    BY <2>2, <1>1, AppendSets DEF RecordId
  <2> QED BY <2>1, <2>2
<1>3. batchOrder' = IF Len(order) > MaxTracked THEN Tail(order) ELSE order
  BY Zenon DEF EvictOldest
<1> HIDE DEF order
<1>4. CASE ~(Len(order) > MaxTracked)
  BY Zenon, <1>4, <1>2, <1>3
<1>5. CASE Len(order) > MaxTracked
  <2>1. order # <<>> /\ batchOrder' = Tail(order)
    BY <1>5, <1>3, IngestLimits
  <2>2. /\ Tail(order) \in Seq(Batches) /\ IsInjective(Tail(order))
        /\ Range(order) = {Head(order)} \cup Range(Tail(order))
    BY Zenon, <2>1, <1>2, TailSets
  <2>3. b \notin Range(batchOrder) => Head(order) # b
    <3> SUFFICES ASSUME b \notin Range(batchOrder) PROVE Head(order) # b
      OBVIOUS
    <3>1. Len(order) = Len(batchOrder) + 1
      BY <1>1, <1>2
    <3>2. Len(batchOrder) >= 1
      BY <3>1, <1>1, <1>5, IngestLimits
    <3>3. Head(order) = batchOrder[1] /\ 1 \in DOMAIN batchOrder
      BY <3>2, <1>1, <1>2
    <3> QED BY <3>3 DEF Range
  <2> QED BY <2>1, <2>2, <2>3, <1>2
<1> QED BY Zenon, <1>4, <1>5

(* Remembering the id of a batch keeps the invariant.                      *)
LEMMA RecordBatchStep ==
  ASSUME IngestInv, NEW r \in Requests, RecordBatch(r)
  PROVE IngestInv'
<1>0. IngestTypes /\ PostInv /\ DedupInv /\ r[1] \in Batches
  BY Zenon, RequestPair DEF IngestInv
<1>1. PICK to : /\ to \in {"sampled", "recorded"} /\ Goes(r, "inserted", to)
                /\ to = "recorded" => size[r[1]] # 0
  <2>1. CASE size[r[1]] = 0
    <3>1. Goes(r, "inserted", "sampled")
      BY <2>1 DEF RecordBatch, ReqStep, Goes, ReqStates, PastStates
    <3> QED BY <3>1
  <2>2. CASE size[r[1]] # 0
    <3>1. Goes(r, "inserted", "recorded")
      BY Zenon, <2>2 DEF RecordBatch, ReqStep, Goes, ReqStates, PastStates
    <3> QED BY <3>1, <2>2
  <2> QED BY Zenon, <2>1, <2>2
<1>2. /\ UNCHANGED <<size, stored, pool, jobs, queued, busy, processed>>
      /\ overlapped' = overlapped \cup (Range(batchOrder) \ Range(batchOrder'))
  BY Zenon DEF RecordBatch, ForgottenIds
<1>3. /\ batchOrder' \in Seq(Batches) /\ IsInjective(batchOrder')
      /\ Range(batchOrder') \in SUBSET (Range(batchOrder) \cup {r[1]})
      /\ r[1] \notin Range(batchOrder) => r[1] \in Range(batchOrder')
  BY Zenon, <1>0, TableRecords DEF RecordBatch
<1>4. IngestTypes'
  BY <1>0, <1>1, <1>2, <1>3, TypesKept DEF IngestTypes
<1>5. PostInv'
  <2>1. to = "recorded" => size[r[1]] = 1
    BY <1>0, <1>1 DEF IngestTypes
  <2> QED BY Zenon, <2>1, <1>0, <1>1, <1>2, PoolKept DEF PastStates
<1>6. /\ req'[r] = to /\ req[r] = "inserted" /\ \A q \in Requests : q # r => req'[q] = req[q]
  BY Zenon, <1>0, <1>1, GoesFacts DEF Goes
<1>7. /\ \A q \in Requests : /\ req'[q] = "idle" <=> req[q] = "idle"
                             /\ req'[q] = "dup" <=> req[q] = "dup"
                             /\ Writing(q)' => Writing(q) /\ q # r
                             /\ req[q] \in PastStates => req'[q] \in PastStates
                             /\ req'[q] \in PastStates => q = r \/ req[q] \in PastStates
      /\ req'[r] \in PastStates
  BY Zenon, <1>1, <1>6 DEF PastStates, Writing
<1>8. SentInOrder'
  BY <1>0, <1>7 DEF DedupInv, SentInOrder
<1>9. KnownWasPast'
  <2> SUFFICES ASSUME NEW b \in Batches,
                      b \in Range(batchOrder') \/ (\E p \in Requests : p[1] = b /\ req'[p] = "dup")
               PROVE \E p \in Requests : p[1] = b /\ req'[p] \in PastStates
    BY Zenon DEF KnownWasPast
  <2>1. CASE b = r[1]
    BY <2>1, <1>7
  <2>2. CASE b # r[1]
    <3>1. b \in Range(batchOrder) \/ (\E p \in Requests : p[1] = b /\ req[p] = "dup")
      BY <2>2, <1>3, <1>7
    <3> QED BY Zenon, <3>1, <1>0, <1>7 DEF DedupInv, KnownWasPast
  <2> QED BY Zenon, <2>1, <2>2
<1>10. ASSUME NEW b \in Batches, b \notin overlapped' PROVE OneWriter(b)'
  <2>1. OneWriter(b) /\ (b \in Range(batchOrder) => b \in Range(batchOrder'))
    BY Zenon, <1>0, <1>2, <1>10 DEF DedupInv
  <2>2. b = r[1] => /\ b \in Range(batchOrder')
                    /\ \A p \in Requests : p[1] = b => ~Writing(p)'
    <3>1. Writing(r)
      BY <1>6 DEF Writing
    <3> QED BY <3>1, <2>1, <1>3, <1>7 DEF OneWriter
  <2>3. b # r[1] => (b \in Range(batchOrder') <=> b \in Range(batchOrder))
    BY Zenon, <2>1, <1>3
  <2>4. stored'[b] > 0 => \/ b \in Range(batchOrder')
                          \/ \E p \in Requests : p[1] = b /\ req'[p] = "inserted"
    <3>1. CASE b = r[1]
      BY Zenon, <3>1, <2>2
    <3>2. CASE b # r[1]
      BY Zenon, <3>2, <2>1, <1>2, <1>6 DEF OneWriter
    <3> QED BY <3>1, <3>2
  <2>5. \A p \in Requests : p[1] = b /\ req'[p] \in PastStates => b \in Range(batchOrder')
    BY Zenon, <2>1, <2>2, <1>7 DEF OneWriter
  <2>6. \A p \in Requests : p[1] = b /\ Writing(p)' => b \notin Range(batchOrder')
    BY <2>1, <2>2, <2>3, <1>7 DEF OneWriter
  <2> QED BY Zenon, <2>1, <2>4, <2>5, <2>6, <1>2, <1>7 DEF OneWriter
<1> QED BY <1>4, <1>5, <1>8, <1>9, <1>10 DEF IngestInv, DedupInv

(* Evicting old batch ids keeps the invariant.                             *)
LEMMA PruneBatchesStep ==
  ASSUME IngestInv, PruneBatches
  PROVE IngestInv'
<1>0. IngestTypes /\ PostInv /\ DedupInv
  BY DEF IngestInv
<1>1. /\ UNCHANGED <<req, size, stored, pool, jobs, queued, busy, processed>>
      /\ overlapped' = overlapped \cup (Range(batchOrder) \ Range(batchOrder'))
  BY DEF PruneBatches, ForgottenIds
<1>2. PICK k \in 1..Len(batchOrder) : batchOrder' = SubSeq(batchOrder, k + 1, Len(batchOrder))
  BY DEF PruneBatches
<1>3. /\ batchOrder' \in Seq(Batches) /\ IsInjective(batchOrder')
      /\ Range(batchOrder') \in SUBSET Range(batchOrder)
  <2>1. batchOrder \in Seq(Batches) /\ IsInjective(batchOrder)
    BY <1>0 DEF IngestTypes
  <2>2. /\ SubSeq(batchOrder, k + 1, Len(batchOrder)) \in Seq(Batches)
        /\ Range(SubSeq(batchOrder, k + 1, Len(batchOrder))) \in SUBSET Range(batchOrder)
        /\ IsInjective(SubSeq(batchOrder, k + 1, Len(batchOrder)))
    BY <2>1, <1>2, SuffixSets
  <2> QED BY <2>2, <1>2
<1>4. IngestTypes'
  BY Zenon, <1>0, <1>1, <1>3 DEF IngestTypes
<1>5. PostInv'
  BY Zenon, <1>0, <1>1 DEF PostInv, Handed, Uncounted
<1>6. SentInOrder' /\ KnownWasPast'
  BY Zenon, <1>0, <1>1, <1>3 DEF DedupInv, SentInOrder, KnownWasPast
<1>7. ASSUME NEW b \in Batches, b \notin overlapped' PROVE OneWriter(b)'
  <2>1. OneWriter(b) /\ (b \in Range(batchOrder) <=> b \in Range(batchOrder'))
    BY <1>0, <1>1, <1>3, <1>7 DEF DedupInv
  <2> QED BY <2>1, <1>1 DEF OneWriter, Writing
<1> QED BY <1>4, <1>5, <1>6, <1>7 DEF IngestInv, DedupInv

(* The step of a request that registers the logs connector keeps the       *)
(* invariant.                                                              *)
LEMMA ensureLogsConnectorStep ==
  ASSUME IngestInv, NEW r \in Requests, ensureLogsConnector(r)
  PROVE IngestInv'
<1>0. IngestTypes /\ PostInv /\ DedupInv
  BY DEF IngestInv
<1>1. Goes(r, "recorded", "connected")
  BY DEF ensureLogsConnector, ReqStep, Goes, ReqStates, PastStates
<1>2. UNCHANGED <<size, batchOrder, stored, pool, jobs, queued, busy, processed, overlapped>>
  BY Zenon DEF ensureLogsConnector
<1>3. IngestTypes'
  BY Zenon, <1>0, <1>1, <1>2, TypesKept DEF IngestTypes
<1>4. size[r[1]] = 1
  BY Zenon, <1>0, <1>1 DEF PostInv, PastStates, Goes
<1>5. PostInv'
  BY <1>0, <1>1, <1>2, <1>4, PoolKept
<1>6. DedupInv'
  BY <1>0, <1>1, <1>2, TableKept DEF PastStates
<1> QED BY <1>3, <1>5, <1>6 DEF IngestInv


(* A set of requests with one more, or one fewer, member.                  *)
LEMMA CountedOneMore ==
  ASSUME CountingFacts, NEW S \in SUBSET Requests, NEW r \in Requests
  PROVE /\ r \notin S => Cardinality(S \cup {r}) = Cardinality(S) + 1
        /\ r \in S => Cardinality(S \ {r}) = Cardinality(S) - 1
        /\ Cardinality(S) \in Nat
<1>1. IsFiniteSet(S) /\ Cardinality(S) \in Nat
  BY RequestsFinite
<1>2. Cardinality(S \cup {r}) = IF r \in S THEN Cardinality(S) ELSE Cardinality(S) + 1
  BY <1>1 DEF CountingFacts, AddingCounts
<1>3. Cardinality(S \ {r}) = IF r \in S THEN Cardinality(S) - 1 ELSE Cardinality(S)
  BY <1>1 DEF CountingFacts, RemovingCounts
<1> QED BY <1>1, <1>2, <1>3

(* The requests handed to the workers, and those not yet counted, are      *)
(* requests.                                                               *)
LEMMA HandedTypes ==
  ASSUME IngestTypes
  PROVE Handed \in SUBSET Requests /\ Uncounted \in SUBSET Requests /\ Range(jobs) \in SUBSET Requests
<1>1. Range(jobs) \in SUBSET Requests
  BY DEF IngestTypes, Range
<1> QED BY <1>1 DEF Handed, Uncounted, IngestTypes

(* A request that hands its job to the workers, or finds the channel       *)
(* full, keeps the invariant.                                              *)
LEMMA enqueuePostprocessStep ==
  ASSUME CountingFacts, IngestInv, NEW r \in Requests, enqueuePostprocess(r)
  PROVE IngestInv'
<1>0. IngestTypes /\ PostInv /\ DedupInv
  BY DEF IngestInv
<1>2. UNCHANGED <<size, batchOrder, stored, pool, queued, busy, processed, overlapped>>
  BY DEF enqueuePostprocess
<1>3. CASE ~PoolHasRoom(r)
  <2>1. Goes(r, "connected", "inline") /\ UNCHANGED jobs
    BY Zenon, <1>3 DEF enqueuePostprocess, ReqStep, Goes, ReqStates, PastStates
  <2>2. IngestTypes'
    BY Zenon, <1>0, <2>1, <1>2, TypesKept DEF IngestTypes
  <2>3. size[r[1]] = 1
    BY Zenon, <1>0, <2>1 DEF PostInv, PastStates, Goes
  <2>4. PostInv'
    BY <1>0, <2>1, <1>2, <2>3, PoolKept
  <2>5. DedupInv'
    BY Zenon, <1>0, <2>1, <1>2, TableKept DEF PastStates
  <2> QED BY <2>2, <2>4, <2>5 DEF IngestInv
<1>4. CASE PoolHasRoom(r)
  <2>1. Goes(r, "connected", "sent") /\ jobs' = Append(jobs, r) /\ pool = "up"
    BY <1>4 DEF enqueuePostprocess, ReqStep, Goes, ReqStates, PastStates, PoolHasRoom
  <2>2. /\ req'[r] = "sent" /\ req[r] = "connected" /\ req' \in [Requests -> ReqStates]
        /\ \A q \in Requests : q # r => req'[q] = req[q]
    BY Zenon, <1>0, <2>1, GoesFacts DEF Goes
  <2>3. r \notin Handed /\ r \notin Uncounted /\ processed[r] = 0 /\ size[r[1]] = 1
    <3>1. processed[r] \in 0..1
      BY <1>0 DEF IngestTypes
    <3> QED BY <3>1, <1>0, <2>2 DEF PostInv, Uncounted, PastStates
  <2>4. /\ jobs' \in Seq(Requests) /\ IsInjective(jobs') /\ Range(jobs') = Range(jobs) \cup {r}
    BY <1>0, <2>1, <2>3, AppendSets DEF IngestTypes, Handed
  <2>5. IngestTypes'
    BY <1>0, <1>2, <2>2, <2>4 DEF IngestTypes
  <2>6. Handed' = Handed \cup {r} /\ Uncounted' = Uncounted \cup {r}
    BY <1>2, <2>2, <2>4 DEF Handed, Uncounted
  <2>7. (queued + Cardinality(Uncounted) = Cardinality(Handed))'
    <3>1. /\ Cardinality(Handed') = Cardinality(Handed) + 1 /\ Cardinality(Handed) \in Nat
          /\ Cardinality(Uncounted') = Cardinality(Uncounted) + 1 /\ Cardinality(Uncounted) \in Nat
      BY Zenon, <1>0, <2>3, <2>6, HandedTypes, CountedOneMore
    <3>2. queued + Cardinality(Uncounted) = Cardinality(Handed) /\ queued \in Int
      BY Zenon, <1>0 DEF PostInv, IngestTypes
    <3> QED BY <3>1, <3>2, <1>2
  <2>8. (busy \cap Range(jobs))' = {}
    BY Zenon, <1>0, <1>2, <2>3, <2>4 DEF PostInv, Handed
  <2>9. ASSUME NEW q \in Requests
        PROVE /\ q \in Handed' => processed'[q] = 0 /\ req'[q] \in {"sent", "created"}
              /\ processed'[q] = 1 => req'[q] \in {"sent", "created"}
              /\ req'[q] \in {"sent", "created"} => q \in Handed' \/ processed'[q] = 1
              /\ req'[q] \in PastStates \ {"sampled"} => size'[q[1]] = 1
    <3>1. CASE q = r
      BY Zenon, <3>1, <1>2, <2>2, <2>3, <2>6
    <3>2. CASE q # r
      <4>1. req'[q] = req[q] /\ (q \in Handed' <=> q \in Handed)
        BY Zenon, <3>2, <2>2, <2>6
      <4> QED BY <4>1, <1>0, <1>2 DEF PostInv
    <3> QED BY Zenon, <3>1, <3>2
  <2>10. PostInv'
    BY <1>2, <2>1, <2>7, <2>8, <2>9 DEF PostInv
  <2>11. DedupInv'
    BY Zenon, <1>0, <2>1, <1>2, TableKept DEF PastStates
  <2> QED BY <2>5, <2>10, <2>11 DEF IngestInv
<1> QED BY <1>3, <1>4

(* Adding a job to the counter, which may come after a worker took it,     *)
(* keeps the invariant.                                                    *)
LEMMA CountQueuedStep ==
  ASSUME CountingFacts, IngestInv, NEW r \in Requests, CountQueued(r)
  PROVE IngestInv'
<1>0. IngestTypes /\ PostInv /\ DedupInv
  BY DEF IngestInv
<1>1. Goes(r, "sent", "created") /\ queued' = queued + size[r[1]]
  BY Zenon DEF CountQueued, ReqStep, Goes, ReqStates, PastStates
<1>2. UNCHANGED <<size, batchOrder, stored, pool, jobs, busy, processed, overlapped>>
  BY DEF CountQueued
<1>3. /\ req'[r] = "created" /\ req[r] = "sent" /\ req' \in [Requests -> ReqStates]
      /\ \A q \in Requests : q # r => req'[q] = req[q]
  BY Zenon, <1>0, <1>1, GoesFacts DEF Goes
<1>4. size[r[1]] = 1 /\ queued' = queued + 1 /\ queued \in Int
  BY Zenon, <1>0, <1>1, <1>3 DEF PostInv, PastStates, IngestTypes
<1>5. IngestTypes'
  BY <1>0, <1>2, <1>3, <1>4 DEF IngestTypes
<1>6. Handed' = Handed /\ Uncounted' = Uncounted \ {r} /\ r \in Uncounted
  BY Zenon, <1>2, <1>3 DEF Handed, Uncounted
<1>7. (queued + Cardinality(Uncounted) = Cardinality(Handed))'
  <2>1. Cardinality(Uncounted') = Cardinality(Uncounted) - 1 /\ Cardinality(Uncounted) \in Nat
    BY Zenon, <1>0, <1>6, HandedTypes, CountedOneMore
  <2>2. queued + Cardinality(Uncounted) = Cardinality(Handed)
    BY Zenon, <1>0 DEF PostInv
  <2> QED BY <2>1, <2>2, <1>4, <1>6
<1>8. ASSUME NEW q \in Requests
      PROVE /\ q \in Handed' => processed'[q] = 0 /\ req'[q] \in {"sent", "created"}
            /\ processed'[q] = 1 => req'[q] \in {"sent", "created"}
            /\ req'[q] \in {"sent", "created"} => q \in Handed' \/ processed'[q] = 1
            /\ req'[q] \in PastStates \ {"sampled"} => size'[q[1]] = 1
  <2>1. CASE q = r
    BY <2>1, <1>0, <1>2, <1>3, <1>4, <1>6 DEF PostInv
  <2>2. CASE q # r
    BY Zenon, <2>2, <1>0, <1>2, <1>3, <1>6 DEF PostInv
  <2> QED BY Zenon, <2>1, <2>2
<1>9. PostInv'
  BY <1>0, <1>2, <1>7, <1>8 DEF PostInv
<1>10. DedupInv'
  BY Zenon, <1>0, <1>1, <1>2, TableKept DEF PastStates
<1> QED BY <1>5, <1>9, <1>10 DEF IngestInv

(* Side effects run by the handler itself keep the invariant.              *)
LEMMA ProcessInlineStep ==
  ASSUME IngestInv, NEW r \in Requests, ProcessInline(r)
  PROVE IngestInv'
<1>0. IngestTypes /\ PostInv /\ DedupInv
  BY DEF IngestInv
<1>1. Goes(r, "inline", "created")
  BY DEF ProcessInline, ReqStep, Goes, ReqStates, PastStates
<1>2. UNCHANGED <<size, batchOrder, stored, pool, jobs, queued, busy, overlapped>>
  BY DEF ProcessInline
<1>3. /\ req'[r] = "created" /\ req[r] = "inline" /\ req' \in [Requests -> ReqStates]
      /\ \A q \in Requests : q # r => req'[q] = req[q]
  BY Zenon, <1>0, <1>1, GoesFacts DEF Goes
<1>4. processed[r] = 0 /\ r \notin Handed /\ size[r[1]] = 1
  <2>1. processed[r] \in 0..1
    BY Zenon, <1>0 DEF IngestTypes
  <2> QED BY <2>1, <1>0, <1>3 DEF PostInv, PastStates
<1>5. /\ processed' \in [Requests -> 0..1] /\ processed'[r] = 1
      /\ \A q \in Requests : q # r => processed'[q] = processed[q]
  <2>1. processed' = [processed EXCEPT ![r] = processed[r] + 1] /\ processed \in [Requests -> 0..1]
    BY Zenon, <1>0 DEF ProcessInline, IngestTypes
  <2> QED BY <2>1, <1>4
<1>6. IngestTypes'
  BY <1>0, <1>2, <1>3, <1>5 DEF IngestTypes
<1>7. Handed' = Handed /\ Uncounted' = Uncounted
  BY Zenon, <1>2, <1>3 DEF Handed, Uncounted
<1>8. ASSUME NEW q \in Requests
      PROVE /\ q \in Handed' => processed'[q] = 0 /\ req'[q] \in {"sent", "created"}
            /\ processed'[q] = 1 => req'[q] \in {"sent", "created"}
            /\ req'[q] \in {"sent", "created"} => q \in Handed' \/ processed'[q] = 1
            /\ req'[q] \in PastStates \ {"sampled"} => size'[q[1]] = 1
  <2>1. CASE q = r
    BY Zenon, <2>1, <1>2, <1>3, <1>4, <1>5, <1>7
  <2>2. CASE q # r
    BY <2>2, <1>0, <1>2, <1>3, <1>5, <1>7 DEF PostInv
  <2> QED BY Zenon, <2>1, <2>2
<1>9. (queued + Cardinality(Uncounted) = Cardinality(Handed))'
  BY Zenon, <1>0, <1>2, <1>7 DEF PostInv
<1>10. PostInv'
  BY Zenon, <1>0, <1>2, <1>8, <1>9 DEF PostInv
<1>11. DedupInv'
  BY <1>0, <1>1, <1>2, TableKept DEF PastStates, ProcessInline
<1> QED BY <1>6, <1>10, <1>11 DEF IngestInv

(* The table and the requests, when only the pool moves.                   *)
LEMMA TableIdle ==
  ASSUME DedupInv, UNCHANGED <<req, batchOrder, stored, overlapped>>
  PROVE DedupInv'
<1>1. SentInOrder' /\ KnownWasPast'
  BY Zenon DEF DedupInv, SentInOrder, KnownWasPast
<1>2. ASSUME NEW b \in Batches, b \notin overlapped' PROVE OneWriter(b)'
  <2>1. OneWriter(b)
    BY <1>2 DEF DedupInv
  <2>2. \A q : Writing(q)' <=> Writing(q)
    BY DEF Writing
  <2> QED BY Zenon, <2>1, <2>2 DEF OneWriter
<1> QED BY <1>1, <1>2 DEF DedupInv

(* A worker that takes a job keeps the invariant.                          *)
LEMMA WorkerTakeStep ==
  ASSUME IngestInv, WorkerTake
  PROVE IngestInv'
<1>0. IngestTypes /\ PostInv /\ DedupInv
  BY DEF IngestInv
<1>1. /\ jobs # <<>> /\ busy' = busy \cup {Head(jobs)} /\ jobs' = Tail(jobs)
      /\ UNCHANGED <<req, size, batchOrder, stored, pool, queued, processed, overlapped>>
  BY Zenon DEF WorkerTake
<1>2. /\ Head(jobs) \in Requests /\ jobs' \in Seq(Requests) /\ IsInjective(jobs')
      /\ Range(jobs) = {Head(jobs)} \cup Range(jobs') /\ Head(jobs) \notin Range(jobs')
  BY Zenon, <1>0, <1>1, TailSets DEF IngestTypes
<1>3. Handed' = Handed /\ Uncounted' = Uncounted /\ (busy \cap Range(jobs))' = {}
  BY Zenon, <1>0, <1>1, <1>2 DEF Handed, Uncounted, PostInv
<1>4. IngestTypes'
  BY Zenon, <1>0, <1>1, <1>2 DEF IngestTypes
<1>5. PostInv'
  BY <1>0, <1>1, <1>3 DEF PostInv
<1>6. DedupInv'
  BY <1>0, <1>1, TableIdle
<1> QED BY <1>4, <1>5, <1>6 DEF IngestInv

(* A worker that finishes a job and lowers the counter keeps the           *)
(* invariant.                                                              *)
LEMMA WorkerDoneStep ==
  ASSUME CountingFacts, IngestInv, WorkerDone
  PROVE IngestInv'
<1>0. IngestTypes /\ PostInv /\ DedupInv
  BY DEF IngestInv
<1>1. PICK r \in busy : /\ busy' = busy \ {r}
                        /\ processed' = [processed EXCEPT ![r] = @ + 1]
                        /\ queued' = queued - size[r[1]]
  BY Zenon DEF WorkerDone
<1>2. UNCHANGED <<req, size, batchOrder, stored, pool, jobs, overlapped>>
  BY Zenon DEF WorkerDone
<1>3. /\ r \in Requests /\ r \in Handed /\ processed[r] = 0 /\ req[r] \in {"sent", "created"}
      /\ size[r[1]] = 1 /\ r \notin Range(jobs) /\ queued \in Int
  <2>1. r \in Requests /\ r \in Handed
    BY Zenon, <1>0, <1>1 DEF IngestTypes, Handed
  <2> QED BY <2>1, <1>0, <1>1 DEF PostInv, PastStates, IngestTypes
<1>4. /\ processed' \in [Requests -> 0..1] /\ processed'[r] = 1
      /\ \A q \in Requests : q # r => processed'[q] = processed[q]
  <2>1. processed' = [processed EXCEPT ![r] = processed[r] + 1] /\ processed \in [Requests -> 0..1]
    BY Zenon, <1>0, <1>1 DEF IngestTypes
  <2> QED BY <2>1, <1>3
<1>5. Handed' = Handed \ {r} /\ Uncounted' = Uncounted
  BY Zenon, <1>1, <1>2, <1>3 DEF Handed, Uncounted
<1>6. IngestTypes'
  BY <1>0, <1>1, <1>2, <1>3, <1>4 DEF IngestTypes
<1>7. (queued + Cardinality(Uncounted) = Cardinality(Handed))'
  <2>1. /\ Cardinality(Handed') = Cardinality(Handed) - 1 /\ Cardinality(Handed) \in Nat
        /\ Cardinality(Uncounted) \in Nat
    BY Zenon, <1>0, <1>3, <1>5, HandedTypes, CountedOneMore
  <2>2. queued + Cardinality(Uncounted) = Cardinality(Handed) /\ queued' = queued - 1
    BY Zenon, <1>0, <1>1, <1>3 DEF PostInv
  <2> QED BY <2>1, <2>2, <1>3, <1>5
<1>8. ASSUME NEW q \in Requests
      PROVE /\ q \in Handed' => processed'[q] = 0 /\ req'[q] \in {"sent", "created"}
            /\ processed'[q] = 1 => req'[q] \in {"sent", "created"}
            /\ req'[q] \in {"sent", "created"} => q \in Handed' \/ processed'[q] = 1
            /\ req'[q] \in PastStates \ {"sampled"} => size'[q[1]] = 1
  <2>1. CASE q = r
    BY Zenon, <2>1, <1>2, <1>3, <1>4, <1>5
  <2>2. CASE q # r
    BY Zenon, <2>2, <1>0, <1>2, <1>4, <1>5 DEF PostInv
  <2> QED BY Zenon, <2>1, <2>2
<1>9. (busy \cap Range(jobs))' = {} /\ (pool = "drained" => jobs = <<>> /\ busy = {})'
  BY Zenon, <1>0, <1>1, <1>2 DEF PostInv
<1>10. PostInv'
  BY <1>7, <1>8, <1>9 DEF PostInv
<1>11. DedupInv'
  BY Zenon, <1>0, <1>2, TableIdle
<1> QED BY <1>6, <1>10, <1>11 DEF IngestInv

(* Closing the worker pool keeps the invariant.                            *)
LEMMA IngestIdle ==
  ASSUME IngestInv, UNCHANGED <<req, size, batchOrder, stored, jobs, queued, busy, processed, overlapped>>,
         pool' = "drained" => jobs = <<>> /\ busy = {}
  PROVE IngestInv'
<1>1. IngestTypes'
  BY Zenon DEF IngestInv, IngestTypes
<1>2. PostInv'
  BY DEF IngestInv, PostInv, Handed, Uncounted
<1>3. DedupInv'
  BY Zenon, TableIdle DEF IngestInv
<1> QED BY Zenon, <1>1, <1>2, <1>3 DEF IngestInv

(* Every step of ingestion keeps its invariant.                            *)
LEMMA IngestStep == CountingFacts /\ IngestInv /\ [IngestNext]_ingestVars => IngestInv'
<1> SUFFICES ASSUME CountingFacts, IngestInv, [IngestNext]_ingestVars PROVE IngestInv'
  OBVIOUS
<1>1. CASE UNCHANGED ingestVars
  BY Zenon, <1>1, IngestIdle DEF ingestVars, IngestInv, PostInv
<1>2. CASE StopPostProcessor
  BY <1>2, IngestIdle DEF StopPostProcessor
<1>3. CASE \E r \in Requests : checkBatchDup(r) \/ InsertBatch(r) \/ RecordBatch(r) \/ ensureLogsConnector(r)
  BY <1>3, checkBatchDupStep, InsertBatchStep, RecordBatchStep, ensureLogsConnectorStep
<1>4. CASE \E r \in Requests : enqueuePostprocess(r) \/ CountQueued(r) \/ ProcessInline(r)
  BY <1>4, enqueuePostprocessStep, CountQueuedStep, ProcessInlineStep
<1> QED
  BY Zenon, <1>1, <1>2, <1>3, <1>4, PruneBatchesStep, WorkerTakeStep, WorkerDoneStep DEF IngestNext

(* The side effects of a batch run once and it is written twice only when  *)
(* a retry overtook it: from the invariant.                                *)
LEMMA IngestHolds == CountingFacts /\ IngestInv => IngestTypeOK /\ PostprocessedOnce /\ BatchDedup
<1> SUFFICES ASSUME CountingFacts, IngestInv PROVE IngestTypeOK /\ PostprocessedOnce /\ BatchDedup
  OBVIOUS
<1>0. IngestTypes /\ PostInv /\ DedupInv
  BY Zenon DEF IngestInv
<1>1. IngestTypeOK
  <2>1. Range(batchOrder) \subseteq Batches
    BY <1>0 DEF IngestTypes, Range
  <2>2. queued \in (-Cardinality(Requests))..Cardinality(Requests)
    <3>1. /\ Cardinality(Handed) \in Nat /\ Cardinality(Handed) <= Cardinality(Requests)
          /\ Cardinality(Uncounted) \in Nat /\ Cardinality(Uncounted) <= Cardinality(Requests)
          /\ Cardinality(Requests) \in Nat
      BY Zenon, <1>0, HandedTypes, RequestsFinite
    <3>2. queued \in Int /\ queued + Cardinality(Uncounted) = Cardinality(Handed)
      BY <1>0 DEF PostInv, IngestTypes
    <3> QED BY <3>1, <3>2
  <2>3. Range(jobs) \cup busy \subseteq Requests
    BY Zenon, <1>0, HandedTypes DEF Handed
  <2> QED BY Zenon, <2>1, <2>2, <2>3, <1>0 DEF IngestTypeOK, IngestTypes, ReqStates, PastStates, Answered
<1>2. PostprocessedOnce
  <2>1. ASSUME NEW r \in Requests
        PROVE LET held == processed[r] + Cardinality({i \in DOMAIN jobs : jobs[i] = r})
                           + (IF r \in busy THEN 1 ELSE 0)
              IN /\ held <= 1
                 /\ (req[r] \in {"created", "sent"} <=> held = 1) \/ req[r] = "inline"
    <3> DEFINE at == {i \in DOMAIN jobs : jobs[i] = r}
               held == processed[r] + Cardinality(at) + (IF r \in busy THEN 1 ELSE 0)
    <3>1. Cardinality(at) = IF r \in Range(jobs) THEN 1 ELSE 0
      <4>1. CASE r \in Range(jobs)
        <5>1. PICK i \in DOMAIN jobs : jobs[i] = r
          BY <4>1 DEF Range
        <5>2. at = {i}
          BY <5>1, <1>0 DEF IngestTypes, IsInjective
        <5> QED BY Zenon, <5>2, <4>1 DEF CountingFacts, OneCounts
      <4>2. CASE r \notin Range(jobs)
        <5>1. at = {}
          BY Zenon, <4>2 DEF Range
        <5> QED BY Zenon, <5>1, <4>2 DEF CountingFacts, EmptyCounts
      <4> QED BY <4>1, <4>2
    <3> HIDE DEF at
    <3>2. processed[r] \in 0..1 /\ ~(r \in busy /\ r \in Range(jobs))
      BY Zenon, <1>0 DEF IngestTypes, PostInv
    <3>3. r \in busy \/ r \in Range(jobs) => processed[r] = 0
      BY Zenon, <1>0 DEF PostInv, Handed
    <3>4. /\ held \in 0..1
          /\ held = 1 <=> r \in busy \/ r \in Range(jobs) \/ processed[r] = 1
      <4>1. CASE r \in busy
        BY <4>1, <3>1, <3>2, <3>3
      <4>2. CASE r \in Range(jobs)
        BY <4>2, <3>1, <3>2, <3>3
      <4>3. CASE r \notin busy /\ r \notin Range(jobs)
        BY <4>3, <3>1, <3>2
      <4> QED BY Zenon, <4>1, <4>2, <4>3
    <3> HIDE DEF held
    <3>5. req[r] \in {"created", "sent"} <=> r \in busy \/ r \in Range(jobs) \/ processed[r] = 1
      BY Zenon, <1>0 DEF PostInv, Handed
    <3>6. held <= 1 /\ (req[r] \in {"created", "sent"} <=> held = 1)
      BY <3>4, <3>5
    <3> QED BY <3>6 DEF held, at
  <2>2. (\A r \in Requests : req[r] # "sent") =>
          queued = Cardinality({r \in Requests : r \in busy \cup Range(jobs)})
    <3> SUFFICES ASSUME \A r \in Requests : req[r] # "sent"
                 PROVE queued = Cardinality({r \in Requests : r \in busy \cup Range(jobs)})
      OBVIOUS
    <3>1. Uncounted = {} /\ {r \in Requests : r \in busy \cup Range(jobs)} = Handed
      BY <1>0, HandedTypes DEF Uncounted, Handed
    <3>2. Cardinality({}) = 0
      BY Zenon DEF CountingFacts, EmptyCounts
    <3>3. queued + 0 = Cardinality(Handed) /\ queued \in Int
      BY Zenon, <3>1, <3>2, <1>0 DEF PostInv, IngestTypes
    <3> QED BY <3>1, <3>3
  <2> QED BY Zenon, <2>1, <2>2, <1>0 DEF PostprocessedOnce, PostInv
<1>3. BatchDedup
  <2> SUFFICES ASSUME NEW b \in Batches
               PROVE /\ (\E k \in 1..Attempts : req[<<b, k>>] = "dup") =>
                          \E k \in 1..Attempts : req[<<b, k>>] \notin {"idle", "checked", "inserted", "dup", "error"}
                     /\ b \notin overlapped => stored[b] <= 1
    BY Zenon DEF BatchDedup
  <2>1. b \notin overlapped => stored[b] <= 1
    BY Zenon, <1>0 DEF DedupInv, OneWriter
  <2>2. ASSUME NEW k \in 1..Attempts, req[<<b, k>>] = "dup"
        PROVE \E j \in 1..Attempts : req[<<b, j>>] \notin {"idle", "checked", "inserted", "dup", "error"}
    <3>1. <<b, k>> \in Requests /\ <<b, k>>[1] = b
      BY Zenon DEF Requests
    <3>2. PICK p \in Requests : p[1] = b /\ req[p] \in PastStates
      BY Zenon, <2>2, <3>1, <1>0 DEF DedupInv, KnownWasPast
    <3>3. p = <<b, p[2]>> /\ p[2] \in 1..Attempts
      BY <3>2 DEF Requests
    <3> QED BY <3>2, <3>3 DEF PastStates
  <2> QED BY Zenon, <2>1, <2>2
<1> QED BY <1>1, <1>2, <1>3

=============================================================================
