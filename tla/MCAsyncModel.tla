---------------------------- MODULE MCAsyncModel ----------------------------
(* The async model on two notification words, as the pump loop has, and one *)
(* word of its own; n2 is also completed by the game itself, so that the    *)
(* tracked path of RequestComplete is taken.                                *)
EXTENDS AsyncRefinement, MatchingLoop

CONSTANTS k, n1, n2, own

MCScan       == {k}
MCStatusAddr == {n1, n2, own}
MCNotifyAddr == {n1, n2}
MCSelfAddr   == {n2, own}
MCReasons    == {"KErrNone", "KErrCancel"}
MCBatches    == {<<>>, <<Null>>, <<KeyDown(k)>>, <<Null, Key(k), Null, Null>>,
                 <<Null, KeyDown(k), Key(k), Null>>}
=============================================================================
