----------------------------- MODULE MCServices -----------------------------
(* Bounds for Services: a heap of four smallest blocks, files of at most two
   bytes and two streams, five mapped bytes of memory, words of three bits. *)
EXTENDS Services

MCCoords == {-1, 0, 1, 2}
MCOriginal == <<1>>
MCOffsets == {-1, 0}
=============================================================================
