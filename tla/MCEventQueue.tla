---------------------------- MODULE MCEventQueue ----------------------------
(* EventQueue with the code's own keep, threshold, hold and gap counts.     *)
EXTENDS EventQueue

\* One idle event, one key press, and nothing at all (a refill that only moves
\* its own state machine on).
MCBatches == {<<>>, <<Null>>} \cup {Burst(s) : s \in Scan}
=============================================================================
