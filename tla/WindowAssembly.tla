--------------------------- MODULE WindowAssembly ---------------------------
(***************************************************************************)
(* How the windows of a song become one: assemble_renderer_audio of        *)
(* src/src/levo-renderer-pattern.cpp crossfades the decoded windows,       *)
(* assemble_flow_latent_windows of src/src/levo-flow-renderer.cpp joins    *)
(* the latent windows.  A sample of audio is the set of parts it is mixed  *)
(* from: sample `at` of window `window`, weighing `weight` of Unit (alpha  *)
(* counted in steps of 1 / (overlap_samples - 1)).                         *)
(***************************************************************************)
EXTENDS RendererSchedule, FiniteSets, FiniteSetsExt, Functions, SequencesExt

CONSTANT MaxSource    (* bound: the longest source, in frames              *)

VARIABLES source,   (* source_frames                                       *)
          mixed,    (* windows mixed so far                                *)
          audio,    (* the assembled buffer, sample -> parts               *)
          latents   (* the joined latent frames, each <<window, frame>>    *)

avars == <<source, mixed, audio, latents>>

WindowSamples == WindowFrames * SamplesPerFrame
OverlapSamples == OverlapFrames * SamplesPerFrame
Unit == OverlapSamples - 1

-----------------------------------------------------------------------------
Part(w, at, weight) == [window |-> w, at |-> at, weight |-> weight]

(* out * (1 - alpha) + decoded * alpha, at overlap sample k (and with the  *)
(* two weights swapped).                                                   *)
BlendSwapped(parts, w, k) ==
  {[p EXCEPT !.weight = (p.weight * k) \div Unit] : p \in parts}
    \cup {Part(w, k, Unit - k)}
Blend(parts, w, k) ==
  {[p EXCEPT !.weight = (p.weight * (Unit - k)) \div Unit] : p \in parts}
    \cup {Part(w, k, k)}

(* Mixing window w into the buffer at its output offset.                   *)
Mix(buffer, w) ==
  LET offset == Windows(source)[w].output_offset
      left   == IF w = 1 THEN 0 ELSE OverlapSamples
  IN [s \in DOMAIN buffer |->
        LET k == s - offset
        IN IF k < 0 \/ k >= WindowSamples THEN buffer[s]
           ELSE IF k < left THEN Blend(buffer[s], w, k)
           ELSE {Part(w, k, Unit)}]

(* Joining a latent window: the first whole, the others without the prefix *)
(* they continue from (and the slip of cropping the overlap at their end). *)
ContinuationFromStart(w) == [i \in 1 .. HopFrames |-> <<w, i - 1>>]
Continuation(w) == [i \in 1 .. HopFrames |-> <<w, OverlapFrames + i - 1>>]

Join(joined, w) ==
  joined \o (IF w = 1 THEN [i \in 1 .. WindowFrames |-> <<w, i - 1>>]
                      ELSE Continuation(w))

-----------------------------------------------------------------------------
Init ==
  /\ source \in 1 .. MaxSource
  /\ mixed = 0
  /\ audio = [s \in 0 .. PaddedFrames(source) * SamplesPerFrame - 1 |-> {}]
  /\ latents = <<>>

(* Adds the next window; once every window is in, the buffers are cropped  *)
(* to the source's own length.                                             *)
AddWindow ==
  /\ mixed < Len(Windows(source))
  /\ mixed' = mixed + 1
  /\ LET mix  == Mix(audio, mixed + 1)
         join == Join(latents, mixed + 1)
     IN IF mixed + 1 = Len(Windows(source))
        THEN /\ audio' = Restrict(mix, 0 .. TargetSamples(source) - 1)
             /\ latents' = SubSeq(join, 1, source)
        ELSE audio' = mix /\ latents' = join
  /\ UNCHANGED source

Next == AddWindow
Spec == Init /\ [][Next]_avars

-----------------------------------------------------------------------------
Finished == mixed = Len(Windows(source))

(* The two computations of the schedule agree, and what they schedule is   *)
(* enough: the windows tile the padded song exactly, end with it and cover *)
(* the source, padding by less than a hop (beyond the one-window minimum). *)
(* (make_renderer_schedule; render_resumable.)                             *)
ScheduleCoversSource ==
  LET windows == Windows(source)
      n == Len(windows)
  IN /\ n = FlowWindowCount(source)
     /\ windows[n].input_offset + WindowFrames = PaddedFrames(source)
     /\ PaddedFrames(source) >= source
     /\ PaddedFrames(source) = WindowFrames \/ PaddedFrames(source) - source < HopFrames
     /\ windows[1].overlap_left = 0 /\ windows[n].overlap_right = 0
     /\ \A i \in 1 .. n - 1 :
          /\ windows[i].overlap_right = windows[i + 1].overlap_left
          /\ windows[i + 1].output_offset + windows[i].overlap_right
               = windows[i].output_offset + WindowSamples

(* The finished song is gain-preserving and time-aligned: at every target  *)
(* sample the weights sum to one, and every part of it is the sample its   *)
(* window decoded for that very moment.  (assemble_renderer_audio.)        *)
AudioIsAligned ==
  Finished =>
    /\ DOMAIN audio = 0 .. TargetSamples(source) - 1
    /\ \A s \in DOMAIN audio :
         /\ MapThenSumSet(LAMBDA p : p.weight, audio[s]) = Unit
         /\ \A p \in audio[s] : Windows(source)[p.window].output_offset + p.at = s

(* No window switches in abruptly: the first sample of an overlap is still *)
(* all of the previous window, its last is all of the new one.             *)
(* (assemble_renderer_audio's linspace crossfade.)                         *)
SeamsAreContinuous ==
  \A w \in 2 .. mixed :
    LET first == Windows(source)[w].output_offset
        last  == first + OverlapSamples - 1
    IN /\ \A p \in audio[first] : p.weight > 0 => p.window = w - 1
       /\ last \in DOMAIN audio => \A p \in audio[last] : p.weight > 0 => p.window = w

(* Every joined latent frame is the one generated for that moment of the   *)
(* song, and conditioned on the token of that moment.                      *)
(* (assemble_flow_latent_windows; the token loop of render_resumable.)     *)
LatentsAreAligned ==
  /\ \A f \in 1 .. Len(latents) :
       LET time == Windows(source)[latents[f][1]].input_offset + latents[f][2]
       IN time = f - 1 /\ (f <= source => PaddedSourceIndex(source, time) = f - 1)
  /\ Finished => Len(latents) = source
=============================================================================
