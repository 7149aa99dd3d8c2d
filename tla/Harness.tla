------------------------------ MODULE Harness ------------------------------
(***************************************************************************)
(* What run.py hooks around every instruction of the game: the patches and *)
(* the dispatch of calls, the message pump with its patches and tracer,    *)
(* the key script and the observers of a research run.  They are looked at *)
(* one at a time ("part"): none of them reads what another writes, except  *)
(* through the game, which may do anything in each of them.                *)
(***************************************************************************)
EXTENDS Pump, PatchedRun, Research

VARIABLE part

harnessVars == <<pumpVars, runVars, researchVars, part>>

\* A part that is not looked at stands still in one of its initial states.
RunAtRest == RunInit /\ off = {} /\ fallback = FALSE
ResearchAtRest == ResearchInit /\ variant = "scripted" /\ ticking = FALSE

HarnessInit ==
  \/ part = "pump" /\ PumpInit /\ RunAtRest /\ ResearchAtRest
  \/ part = "patches" /\ PumpInit /\ RunInit /\ ResearchAtRest
  \/ part = "research" /\ PumpInit /\ RunAtRest /\ ResearchInit

PumpPart == part = "pump" /\ UNCHANGED <<runVars, researchVars, part>>

HarnessNext ==
  \/ PumpPart /\ PumpNext
  \/ part = "patches" /\ RunNext /\ UNCHANGED <<pumpVars, researchVars, part>>
  \/ part = "research" /\ ResearchNext /\ UNCHANGED <<pumpVars, runVars, part>>

\* The emulator goes on executing the pump once it has been entered, and a RunL
\* returns.  Nothing makes the game call the pump again, and nothing makes a
\* refill or the host produce a real event.
HarnessSpec ==
  HarnessInit /\ [][HarnessNext]_harnessVars /\ WF_harnessVars(PumpPart /\ Inside)

-----------------------------------------------------------------------------
\* What the harness does to the game and what it reports of it is as patches.py,
\* run.py and research_v209.py describe it; see the parts' own properties.
HarnessSound ==
  /\ ForcedForward /\ NullCallsReturn /\ ImportsAreAnsweredOnce /\ StopsInTime
  /\ KeysComeFromScript /\ WatchesAreBounded /\ SnapshotsKeepPace

\* patches.py:63-107 with wait_trace.py:156-163: however often the housekeeping
\* slot of the pump is ready, the event slot is looked at again and again, unless
\* the game stops calling the pump, or the event request stays pending because
\* no real event comes.
EventsGetThrough ==
  part = "pump" => \/ []<>(at = "slot2")
                   \/ <>[]Pending
                   \/ <>[](at = "caller")
=============================================================================
