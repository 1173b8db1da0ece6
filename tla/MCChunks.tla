------------------------------ MODULE MCChunks ------------------------------
(***************************************************************************)
(* The entries and the query texts Chunks is checked with.  They meet the  *)
(* limits of every column: ids and timestamps at both ends of a word, a    *)
(* level under its other name, one of its own and none, fields of the      *)
(* longest length kept and one rune beyond, negative and large numbers,    *)
(* and bodies up to and past what a record takes.                          *)
(***************************************************************************)
EXTENDS Chunks

ChunkEntry(id, ts, level, service, message, trace, status, dur, nplus, body) ==
  [id |-> id, ts |-> ts, level |-> level, service |-> service, message |-> message,
   trace |-> trace, status |-> status, dur |-> dur, nplus |-> nplus, body |-> body]

ChunkSamples ==
  {ChunkEntry(1, 7, <<1>>, <<1>>, <<4, 4, 3, 1, 1>>, <<>>, 0, 0, <<>>, <<>>),
   ChunkEntry(2, -8, <<1, 1, 1>>, <<>>, <<4, 5>>, <<1, 1>>, 12, 3, <<TRUE>>, <<1>>),
   ChunkEntry(7, 0, <<1, 2>>, <<1, 1>>, <<1, 1, 1, 2, 3>>, <<1>>, 2, 7, <<FALSE>>, <<1, 1, 1>>),
   ChunkEntry(-8, 3, <<4>>, <<4, 1, 4>>, <<>>, <<1, 4, 1, 2>>, -1, -1, <<>>, <<>>),
   ChunkEntry(4, 4, <<>>, <<1, 4, 4, 4, 4>>, <<4, 3, 1, 1>>, <<>>, 3, 1, <<TRUE>>,
              [i \in 1..7 |-> 1]),
   ChunkEntry(5, 5, <<1, 1>>, <<4>>, <<1, 1, 3, 5, 5>>, <<1, 1, 1>>, 99, 5, <<>>,
              [i \in 1..10 |-> 1])}

QuerySamples == {<<>>, <<3>>, <<1>>, <<4, 4>>, <<5, 4, 3, 1, 1>>, <<1, 1>>, <<1, 1, 1>>}
=============================================================================
