---------------------------- MODULE MCLifecycle ----------------------------
(* The tracer on a phase 1 that begins and ends with the tracked key, as    *)
(* PHASE1_KEYS does.                                                        *)
EXTENDS Lifecycle

CONSTANTS k5, kr, n1

MCScan        == {k5, kr}
MCStatusAddr  == {n1}
MCReasons     == {"KErrNone"}
MCNoKeys      == <<>>
MCPhase1Keys  == <<k5, kr, k5>>
=============================================================================
