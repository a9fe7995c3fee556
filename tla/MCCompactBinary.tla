-------------------------- MODULE MCCompactBinary ---------------------------
(***************************************************************************)
(* Small instance of CompactBinary: sizes wrap at 16, so that a packet of  *)
(* two chunks may be too large for its size field and a string of 16 for   *)
(* its length.  The first chunk looks like the header of a packet of type  *)
(* 5; the buffer has spare room that looks like a chunk.                   *)
(***************************************************************************)
EXTENDS CompactBinary

ChunkOf(id, type, value, spare) ==
    [id |-> id, type |-> type, value |-> value, spare |-> spare]

MCForms == {
    ChunkOf(7, 1, <<1>>, <<>>),
    ChunkOf(2, 2, <<1, 2>>, <<>>),
    ChunkOf(3, 5, <<7>>, <<>>),
    ChunkOf(3, 5, [i \in 1..16 |-> 7], <<>>),
    ChunkOf(4, 7, <<3>>, <<0, 1, 0, 0>>),
    ChunkOf(5, 8, <<0, 1>>, <<>>)}
=============================================================================
