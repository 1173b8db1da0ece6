----------------------------- MODULE LogStoreInv -----------------------------
(***************************************************************************)
(* The inductive invariant behind the safety properties of LogStore, for   *)
(* the environment in which they hold: no restart inside the hour of an    *)
(* unfinished seal, no change of hour between the two clock reads of       *)
(* NewStore, no failing seal during recovery.                              *)
(***************************************************************************)
EXTENDS LogStore

Benign == ~SameHourRestart /\ ~TickDuringOpen /\ ~RecoverySealFails

Sealed(h)   == marker[h] \/ sealing[h] # {}
Used(h)     == Sealed(h) \/ active[h] # {}
InFiles(h)  == active[h] \cup sealing[h] \cup chunks[h]
InSeal      == {"check", "chunks", "marker", "remove", "register"}
Kept        == (acked \cup inflight) \ pruned

(* The records of S have exactly the positions 0 .. k-1, one each.         *)
Dense(S, k) ==
    /\ \A r \in S : r.idx \in 0 .. (k - 1)
    /\ \A i \in 0 .. (k - 1) : \E r \in S : r.idx = i
    /\ \A r, s \in S : r.idx = s.idx => r = s

(* Who may be in Seal in which mode.                                       *)
SealerInv ==
    /\ mode \in {"down", "opening"} => sealPc = "idle"
    /\ mode = "recovering" =>
         /\ sealPc \in {"recover"} \cup InSeal
         /\ sealPc \in InSeal => caller = "recover" /\ sealHour \notin todo
         /\ pending = {}
    /\ mode = "up" =>
         /\ sealPc # "recover"
         /\ sealPc \in InSeal => caller # "recover" /\ sealHour \in pending
         /\ sealPc = "rotated" => sealHour \notin pending /\ caller = "seal"
         /\ sealPc \in {"retry", "rotated"} \cup InSeal =>
               todo \subseteq pending
         /\ sealPc \in {"rotated"} \cup InSeal => sealHour \notin todo
    /\ mode \in {"down", "opening"} => pending = {} /\ segments = {}

(* Where records can be, and that an ID is never given twice.              *)
FilesInv ==
    /\ \A h \in Hours : \A r \in InFiles(h) :
          r.hour = h /\ r.n < appends /\ r \notin pruned
    /\ \A r \in acked \cup inflight \cup pruned : r.n < appends
    /\ \A h \in Hours : \A r \in InFiles(h) :
          r.at <= clock /\ h <= r.at + MaxDrift
    /\ \A h \in Hours : \E k \in 0 .. SegmentRoom : Dense(active[h], k)
    /\ \A h \in Hours : \A r, s \in sealing[h] : r.idx = s.idx => r = s
    /\ \A h \in Hours : \A r, s \in sealing[h] : r.idx <= s.idx => r.at <= s.at
    /\ \A h \in Hours : \A r, s \in active[h]  : r.idx <= s.idx => r.at <= s.at

(* The progress of one seal, and what a sealed directory holds.            *)
SealInv ==
    /\ \A h \in Hours : active[h] # {} => ~Sealed(h)
    /\ \A h \in Hours : marker[h] => meta[h] /\ chunks[h] # {}
    /\ \A h \in Hours : marker[h] /\ sealing[h] # {} => sealing[h] = chunks[h]
    /\ \A h \in Hours : marker[h] =>
          \A r, s \in chunks[h] : /\ r.idx = s.idx => r = s
                                  /\ r.idx <= s.idx => r.at <= s.at
    /\ sealPc = "check" /\ caller = "recover" =>
          ~marker[sealHour] /\ sealing[sealHour] # {}
    /\ sealPc = "chunks" => chunks[sealHour] \subseteq sealing[sealHour]
    /\ sealPc = "marker" => /\ chunks[sealHour] = sealing[sealHour]
                            /\ meta[sealHour]
    /\ sealPc \in {"chunks", "marker"} =>
          ~marker[sealHour] /\ sealing[sealHour] # {}
    /\ sealPc \in {"rotated", "remove"} => sealing[sealHour] # {}
    /\ sealPc = "rotated" => ~marker[sealHour]
    /\ sealPc \in {"remove", "register"} => marker[sealHour]
    /\ sealPc = "register" => sealing[sealHour] = {}

(* The writer's open file, and that nothing lies ahead of it.              *)
WriterInv ==
    mode # "down" =>
        /\ linked = "active"
        /\ Dense(active[segHour], entryCount)
        /\ synced <= entryCount /\ entryCount <= SegmentRoom
        /\ ~Sealed(segHour)
        /\ segHour <= clock + MaxDrift
        /\ \A g \in Hours : Used(g) => g <= segHour
        /\ \A f \in Hours : clock <= f /\ f < segHour => Sealed(f)
        /\ \A r \in acked : r.hour = segHour => r \in pruned \/ r.idx < synced

(* From the clock to the last used hour every hour has been sealed or is   *)
(* being sealed: the writer opened by a restart cannot stop short.         *)
NoGapInv ==
    \A g \in Hours : Used(g) /\ clock <= g =>
        \A f \in Hours : clock <= f /\ f < g => Sealed(f)

(* Which hours a running store reads, and what recovery has still to do.   *)
ViewInv ==
    /\ mode = "opening" => /\ clock <= segHour
                           /\ \A h \in Hours : active[h] # {} /\ h # segHour
                                 => h < clock
    /\ mode = "recovering" =>
         /\ scanHour <= segHour
         /\ segHour \notin segments
         /\ \A h \in Hours : active[h] # {} /\ h # segHour
               => h \in todo /\ h < scanHour
         /\ \A h \in Hours : Sealed(h) =>
               \/ h \in todo \/ h \in segments
               \/ h = sealHour /\ sealPc \in InSeal
    /\ mode = "up" =>
         /\ \A h \in Hours : active[h] # {} => h = segHour
         /\ \A h \in Hours : Sealed(h) =>
               \/ h \in segments \/ h \in pending
               \/ h = sealHour /\ sealPc = "rotated"
         /\ \A h \in pending : \/ sealing[h] # {}
                               \/ h = sealHour /\ sealPc = "register"
    /\ \A h \in segments : marker[h] /\ h \notin pending
    /\ sealPc \in InSeal \cup {"rotated"} => sealHour \notin segments

(* Every record still owed is where recovery and queries look for it.      *)
KeptInv == \A r \in Kept : r \in OnDisk(r.hour)

IInv ==
    /\ TypeOK /\ SealerInv /\ FilesInv /\ SealInv /\ WriterInv /\ NoGapInv
    /\ ViewInv /\ KeptInv

=============================================================================
