----------------------------- MODULE DurableLog -----------------------------
(***************************************************************************)
(* What the log store promises its clients, whatever files, seals, crashes *)
(* and restarts implement it: an accepted entry stays stored, under an ID  *)
(* no other stored entry has, until it is older than the retention period. *)
(***************************************************************************)
EXTENDS Integers

CONSTANT Retention

VARIABLES now, stored

Init == now = 0 /\ stored = {}

(* One entry is accepted.                                                  *)
Accept ==
    /\ \E e \in stored' :
          /\ e \notin stored
          /\ e.at <= now
          /\ \A s \in stored : ~(s.hour = e.hour /\ s.idx = e.idx)
          /\ stored' = stored \cup {e}
    /\ now' = now

(* Retention removes entries, all of them past it.                         *)
Expire ==
    /\ stored' \subseteq stored
    /\ \A e \in stored \ stored' : e.at + Retention < now
    /\ now' = now

Advance == now' = now + 1 /\ stored' = stored

Next == Accept \/ Expire \/ Advance

Spec == Init /\ [][Next]_<<now, stored>>

=============================================================================
