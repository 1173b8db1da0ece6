---------------------------- MODULE RateLimiter -----------------------------
(***************************************************************************)
(* The rate limiter of the HTTP API (internal/api/middleware.go): counters *)
(* per client address in a map of bounded size, with a FIFO of creation    *)
(* records for eviction that is compacted now and then, and the choice of  *)
(* the address behind trusted proxies.                                     *)
(***************************************************************************)
EXTENDS Integers, Sequences, FiniteSets, SequencesExt, FiniteSetsExt

CONSTANTS Addresses,      \* client addresses
          Limit, Window,
          MaxLimited,     \* maxRateLimitEntries
          CompactAt,      \* orderCompactThreshold
          SlackFactor     \* orderSlackFactor

VARIABLES limited,   \* address -> [id, count, left], id standing for the pointer; or Free
          order, orderHead,
          unfair     \* a running counter was evicted while a finished one was kept
limiterVars == <<limited, order, orderHead, unfair>>

Free == [id |-> 0, count |-> 0, left |-> 0]
Counting(e) == {a \in Addresses : e[a] # Free}
Finished(a) == limited[a] # Free /\ limited[a].left < 0

LimiterInit ==
  /\ limited = [a \in Addresses |-> Free]
  /\ order = <<>> /\ orderHead = 0 /\ unfair = FALSE

\* A record stands for the entry its key has now only if the pointers agree.
\* Mutant: records are matched by key alone.
IsCurrentByKey(e, rec) == e[rec.key] # Free
IsCurrent(e, rec) == e[rec.key].id = rec.id

compactOrderLocked(e, ord, head) ==
  IF head >= CompactAt \/ (Len(ord) >= CompactAt /\ Len(ord) > SlackFactor * Cardinality(Counting(e)))
    THEN [ord |-> SelectSeq(SubSeq(ord, head + 1, Len(ord)), LAMBDA r : IsCurrent(e, r)), head |-> 0]
    ELSE [ord |-> ord, head |-> head]

\* The eviction loop: records are consumed, one after the other, until the map has
\* room or none is left; a consumed record that is current frees its entry.
Consume(e, from, to) ==
  [a \in Addresses |-> IF \E i \in (from + 1)..to : order[i].key = a /\ IsCurrent(e, order[i])
                         THEN Free ELSE e[a]]
MakeRoom(e, head) ==
  LET done(k) == k = Len(order) \/ Cardinality(Counting(Consume(e, head, k))) < MaxLimited
      stop == CHOOSE k \in head..Len(order) : done(k) /\ \A j \in head..(k - 1) : ~done(j)
  IN [e |-> Consume(e, head, stop), head |-> stop]

NewId == Min(1..(Len(order) + 1) \ {order[i].id : i \in DOMAIN order})

addEntryLocked(a) ==
  LET room == MakeRoom(limited, orderHead)
      e == [room.e EXCEPT ![a] = [id |-> NewId, count |-> 1, left |-> Window]]
      c == compactOrderLocked(e, Append(order, [key |-> a, id |-> NewId]), room.head)
      evicted == {b \in Counting(limited) \ {a} : room.e[b] = Free}
  IN /\ limited' = e /\ order' = c.ord /\ orderHead' = c.head
     /\ unfair' = (unfair \/ \E b \in evicted, f \in Counting(room.e) : ~Finished(b) /\ Finished(f))

\* Middleware: a first request, or the first after its window, starts a counter.
\* Counts past the limit look alike.
Middleware(a) ==
  \/ (limited[a] = Free \/ Finished(a)) /\ addEntryLocked(a)
  \/ /\ limited[a] # Free /\ ~Finished(a)
     /\ limited' = [limited EXCEPT ![a].count = IF @ > Limit THEN @ ELSE @ + 1]
     /\ UNCHANGED <<order, orderHead, unfair>>

cleanup ==
  LET e == [a \in Addresses |-> IF Finished(a) THEN Free ELSE limited[a]]
      c == compactOrderLocked(e, order, orderHead)
  IN /\ limited' = e /\ order' = c.ord /\ orderHead' = c.head
     /\ UNCHANGED unfair

LimiterTick ==
  /\ limited' = [a \in Addresses |->
                   IF limited[a] = Free \/ Finished(a) THEN limited[a]
                   ELSE [limited[a] EXCEPT !.left = @ - 1]]
  /\ UNCHANGED <<order, orderHead, unfair>>

LimiterNext == (\E a \in Addresses : Middleware(a)) \/ cleanup \/ LimiterTick

----------------------------------------------------------------------------
\* clientIP: from the right of X-Forwarded-For, past the trusted proxies, to the
\* first other address; a hop that is no address ends the walk.
clientIP(peer, hops) ==
  LET others == {i \in DOMAIN hops : hops[i] # "proxy"}
  IN IF peer # "proxy" \/ others = {} \/ hops[Max(others)] = "garbage" THEN peer
     ELSE hops[Max(others)]
Hops == BoundedSeq({"proxy", "garbage", "x", "y"}, 2)
\* What a client writes in front of the hops of the proxies never changes the key.
KeyIsTheProxies ==
  \A peer \in {"proxy", "x"}, hops \in Hops, front \in Hops :
    (peer # "proxy" \/ \E i \in DOMAIN hops : hops[i] # "proxy") =>
      clientIP(peer, front \o hops) = clientIP(peer, hops)

\* The table stays bounded and fair under any mix of new, returning and expired
\* clients: it never exceeds its size, every counter has exactly one record left in
\* the FIFO, in the order the counters expire, so a running counter is evicted only
\* when no finished one is left, and the FIFO never outgrows its slack
\* (middleware.go:178, 197); the key of a client is not of its own making.
LimiterFair ==
  LET ahead == SubSeq(order, orderHead + 1, Len(order))
      live == SelectSeq(ahead, LAMBDA r : limited[r.key].id = r.id)
  IN /\ Cardinality(Counting(limited)) <= MaxLimited
     /\ Len(order) <= Max({CompactAt - 1, SlackFactor * MaxLimited})
     /\ Len(live) = Cardinality(Counting(limited))
     /\ \A i, j \in DOMAIN live : i < j => limited[live[i].key].left <= limited[live[j].key].left
     /\ ~unfair
     /\ KeyIsTheProxies
=============================================================================
