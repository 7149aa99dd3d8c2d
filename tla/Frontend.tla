------------------------------ MODULE Frontend ------------------------------
(***************************************************************************)
(* The host side of the game: presenter, keyboard, clock, fast drawing and *)
(* record directory.  None of them is called by the published run loop and *)
(* no two share a variable; as in Services, "part" says which of them acts *)
(* in a behaviour.                                                         *)
(***************************************************************************)
EXTENDS Presenter, HostInput, Pixels, AssetReads

VARIABLE part

frontVars == <<frameVars, inputVars, clockVars, pixelVars, assetVars, part>>

FrameAtRest ==
  /\ kind = "raw" /\ maxFrames = 0
  /\ show = [seen |-> 0, presented |-> 0, closed |-> TRUE, records |-> <<>>]
  /\ region = <<>> /\ readable = "none" /\ shownKey = NoKey /\ written = {}
  /\ renderer = [key |-> NoKey, image |-> NoImage]

InputAtRest ==
  /\ hatKeys = {} /\ pressed = {} /\ downs = 0 /\ ups = 0 /\ hasPush = FALSE
  /\ raised = FALSE /\ gameDown = {} /\ garbled = FALSE
  /\ clockMode = "frozen" /\ insn = 0 /\ afterUs = 0 /\ told = 0

AssetsAtRest ==
  /\ mode = "skip" /\ inManifest = {} /\ onDisk = {} /\ cached = {}
  /\ cursor = [h \in Handles |-> 0]
  /\ pending = NoChunk /\ buffer = <<>> /\ reading = Idle /\ served = FALSE

FrontInit ==
  /\ PixelInit
  /\ \/ part = "frames" /\ FrameInit /\ InputAtRest /\ AssetsAtRest
     \/ part \in {"keys", "clock"} /\ FrameAtRest /\ InputInit /\ AssetsAtRest
     \/ part = "pixels" /\ FrameAtRest /\ InputAtRest /\ AssetsAtRest
     \/ part = "assets" /\ FrameAtRest /\ InputAtRest /\ AssetInit

FrontNext ==
  /\ UNCHANGED part
  /\ \/ /\ part = "frames" /\ FrameNext
        /\ UNCHANGED <<inputVars, clockVars, pixelVars, assetVars>>
     \/ /\ \/ part = "keys" /\ InputNext
           \/ part = "clock" /\ ClockNext
        /\ UNCHANGED <<frameVars, pixelVars, assetVars>>
     \/ /\ part = "pixels" /\ PixelNext
        /\ UNCHANGED <<frameVars, inputVars, clockVars, assetVars>>
     \/ /\ part = "assets" /\ AssetNext
        /\ UNCHANGED <<frameVars, inputVars, clockVars, pixelVars>>

FrontSpec == FrontInit /\ [][FrontNext]_frontVars

-----------------------------------------------------------------------------
\* What is recorded and shown belongs to the frame it is shown for.
FramesSound == RecordsAreNewest /\ ImageMatchesKey

=============================================================================
