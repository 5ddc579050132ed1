------------------------------ MODULE LayoutsMC -----------------------------
(***************************************************************************)
(* The three layouts of a song: the delayed codebooks of the token         *)
(* sequence, the columns of the conditioning prefix, and the windows of    *)
(* the renderer.  A behaviour is of one of them, its subject; the others   *)
(* rest in an initial state.                                               *)
(***************************************************************************)
EXTENDS Integers

CONSTANTS MaxDepth, MaxDelaySteps, MaxTimesteps, MaxFlatten, MaxEmpty,
          WindowFrames, HopFrames, OverlapFrames, SamplesPerFrame, MaxSource,
          LyricsPrefix, PromptPrefix, StylePrefix, MaxText, MaxStyle, Words, StructureIds

VARIABLES
  subject,
  provider, timesteps, received,
  source, mixed, audio, latents,
  lyrics, description, conditional, null, step

Pattern == INSTANCE DelayedPatternMC
Assembly == INSTANCE WindowAssembly
Prefix == INSTANCE Conditioner

ASSUME LayoutsAssumption ==
  /\ MaxDepth \in Nat /\ MaxDelaySteps \in Nat /\ MaxTimesteps \in Nat
  /\ MaxFlatten \in Nat /\ MaxEmpty \in Nat
  /\ Assembly!ScheduleAssumption /\ MaxSource \in Nat
  /\ Prefix!ConditionerAssumption /\ MaxText \in Nat /\ MaxStyle \in Nat

patternVars == <<provider, timesteps, received>>
assemblyVars == <<source, mixed, audio, latents>>
prefixVars == <<lyrics, description, conditional, null, step>>

LayoutsInit ==
  /\ subject \in {"pattern", "assembly", "prefix"}
  /\ IF subject = "pattern" THEN Pattern!Init
     ELSE /\ provider = [depth |-> 1, delays |-> [q \in {0} |-> 0], flatten |-> 0, empty |-> 0]
          /\ timesteps = 0 /\ received = 0
  /\ IF subject = "prefix" THEN Prefix!Init
     ELSE /\ lyrics = <<>> /\ description = <<>> /\ step = "conditional"
          /\ conditional = Prefix!Nothing /\ null = Prefix!Nothing
  /\ Assembly!Init /\ (subject = "assembly" \/ source = 1)

LayoutsNext ==
  \/ subject = "pattern" /\ Pattern!Next /\ UNCHANGED <<subject, assemblyVars, prefixVars>>
  \/ subject = "assembly" /\ Assembly!Next /\ UNCHANGED <<subject, patternVars, prefixVars>>
  \/ subject = "prefix" /\ Prefix!Next /\ UNCHANGED <<subject, patternVars, assemblyVars>>

LayoutsSpec == LayoutsInit /\ [][LayoutsNext]_<<subject, patternVars, assemblyVars, prefixVars>>

-----------------------------------------------------------------------------
(* Whatever has arrived of a delayed sequence reverts into exactly the     *)
(* frames that are in it, the leading codebooks first, under every layout  *)
(* a provider can make (levo-pattern.cpp).                                 *)
PatternInverts ==
  subject = "pattern" =>
    /\ Pattern!LayoutIsPattern /\ Pattern!PrefixReverts
    /\ Pattern!EarlierBooksLead /\ Pattern!ValidLayoutIsLongestInside

(* The windows of a song cover it, and joined they give every sample and   *)
(* latent of its own moment without a seam (levo-renderer-pattern.cpp,     *)
(* levo-flow-renderer.cpp).                                                *)
WindowsJoin ==
  subject = "assembly" =>
    /\ Assembly!ScheduleCoversSource /\ Assembly!AudioIsAligned
    /\ Assembly!SeamsAreContinuous /\ Assembly!LatentsAreAligned

(* Words keep their section whatever is cut or padded, and the branches    *)
(* and towers agree column by column (levo-conditioner.cpp).               *)
PrefixesAlign ==
  subject = "prefix" => Prefix!WordsKeepTheirSection /\ Prefix!BranchesAlign
=============================================================================
