--------------------------- MODULE MCSyncedInput ---------------------------
(* The injector with one navigation key, one key of phase 1 and up to two    *)
(* of phase 2, and a game with one or two status words.                     *)
EXTENDS SyncedInput

CONSTANTS k5, kr, n1, n2

MCScan        == {k5, kr}
MCStatusAddr  == {n1}
MCTwoAddr     == {n1, n2}
MCSelfAddr    == {n2}
MCReasons     == {"KErrNone"}
MCNavKeys     == <<k5>>
MCPhase1Keys  == <<k5>>
MCTwoKeys     == <<kr, k5>>
MCNoKeys      == <<>>
MCPhase2Keys  == <<kr>>
=============================================================================
