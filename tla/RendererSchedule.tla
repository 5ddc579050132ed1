-------------------------- MODULE RendererSchedule --------------------------
(***************************************************************************)
(* The renderer's window schedule, computed twice in the code: by          *)
(* make_renderer_schedule of src/src/levo-renderer-pattern.cpp (used to    *)
(* size the noise, to stamp checkpoints and to assemble the audio) and by  *)
(* render_resumable of src/src/levo-flow-renderer.cpp (used to drive the   *)
(* Flow loop).  Lengths are in latent frames; a frame is SamplesPerFrame   *)
(* audio samples.                                                          *)
(***************************************************************************)
EXTENDS Integers, Sequences

CONSTANTS WindowFrames, HopFrames, OverlapFrames, SamplesPerFrame

ASSUME ScheduleAssumption ==
  /\ HopFrames \in Nat \ {0} /\ OverlapFrames \in Nat \ {0}
  /\ OverlapFrames <= HopFrames
  /\ WindowFrames = HopFrames + OverlapFrames
  /\ SamplesPerFrame \in Nat \ {0, 1}

(* The groups of hops that cover everything after the first overlap (and   *)
(* the slip of dropping the partial one).                                  *)
GroupsRoundedDown(source) == (source - OverlapFrames) \div HopFrames
Groups(source) ==
  LET base == source - OverlapFrames
  IN base \div HopFrames + (IF base % HopFrames # 0 THEN 1 ELSE 0)

PaddedFrames(source) ==
  IF source <= WindowFrames THEN WindowFrames
  ELSE Groups(source) * HopFrames + OverlapFrames

(* padded_source_indices: the source tokens are repeated, then cropped.    *)
PaddedSourceIndex(source, frame) == frame % source

(* The loop that pushes windows: every hop that leaves room for a window   *)
(* (and the slip of stopping before the last one that fits).               *)
RoomBefore(source, offset) == offset < PaddedFrames(source) - WindowFrames
RoomFor(source, offset) == offset <= PaddedFrames(source) - WindowFrames

Windows(source) ==
  [i \in {j \in 1 .. PaddedFrames(source) : RoomFor(source, HopFrames * (j - 1))} |->
     LET offset == HopFrames * (i - 1)
     IN [input_offset  |-> offset,
         output_offset |-> offset * SamplesPerFrame,
         overlap_left  |-> IF offset = 0 THEN 0 ELSE OverlapFrames * SamplesPerFrame,
         overlap_right |-> IF offset < PaddedFrames(source) - WindowFrames
                           THEN OverlapFrames * SamplesPerFrame ELSE 0]]

TargetSamples(source) == source * SamplesPerFrame

(* render_resumable's own count of windows, from its own padded length.    *)
FlowWindowCount(source) ==
  LET padded == IF source <= WindowFrames THEN WindowFrames
                ELSE Groups(source) * HopFrames + OverlapFrames
  IN 1 + (padded - WindowFrames) \div HopFrames
=============================================================================
