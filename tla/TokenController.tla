--------------------------- MODULE TokenController --------------------------
(***************************************************************************)
(* The resumable CODES stage: generate_tokens_resumable and                *)
(* run_generation_controller_resumable of src/src/levo-generator.cpp, the  *)
(* sampler cursor of src/src/levo-sampling.cpp and the token rows the K/V  *)
(* sessions of src/src/levo-kv.cpp hold.  One job is driven by a host that *)
(* may cancel it at any poll, lose the process at any point, and later     *)
(* resume it from any checkpoint it was ever handed.                       *)
(*                                                                         *)
(* The LM and the random engine are an oracle.  They are deterministic:    *)
(* what the three heads sample at a step is fixed by the numerics of the   *)
(* backend, the rows in the K/V cache, the token history (the repetition   *)
(* penalty's input), the seed and the draw cursor.  `song` remembers what  *)
(* the oracle answered in the job's one uninterrupted context; any other   *)
(* context may be answered with anything.                                  *)
(***************************************************************************)
EXTENDS TokenRules

CONSTANTS Seeds,             (* sampler seeds                              *)
          Backends,          (* backends whose logits differ numerically   *)
          DrawCounts,        (* draws one sample_streams call may consume  *)
          MaxInterruptions,  (* bound: cancellations and process losses    *)
          None               (* sentinel: no job, no seed, no frames yet   *)

ASSUME ControllerAssumption ==
  /\ Seeds # {} /\ Backends # {}
  /\ DrawCounts # {} /\ DrawCounts \subseteq 0 .. 3
  /\ MaxInterruptions \in Nat
  /\ None \notin Seeds \cup Backends \cup (Seeds \X Backends) \cup FrameTensors

VARIABLES
  phase,       (* where the stage is, seen from its host                   *)
  backend,     (* the numerics of the process's backend                    *)
  kv,          (* token rows both K/V branches hold after the prefix       *)
  sequence,    (* delayed_sequence, one triple per step                    *)
  sampler,     (* engine seed and draw cursor                              *)
  eos,         (* the EOS tracker                                          *)
  resume,      (* the checkpoint being resumed                             *)
  checkpoints, (* every pause state the host was ever handed               *)
  result,      (* the frames returned by a completed run                   *)
  job,         (* seed and backend of the uninterrupted run                *)
  song,        (* history: what each step of that run sampled              *)
  interruptions

vars == <<phase, backend, kv, sequence, sampler, eos, resume, checkpoints,
          result, job, song, interruptions>>

CheckpointType ==
  [delayed_sequence : Seq(Triples), sampler_seed : Seeds, sampler_draws : Nat,
   ended : [Streams -> BOOLEAN], earliest_eos : Nat,
   digest : [backend : Backends, rows : Seq(Triples)]]
NoCheckpoint == [delayed_sequence |-> <<>>]
Phases == {"idle", "replaying", "generating", "paused", "rejected", "done"}

-----------------------------------------------------------------------------
(* digest_logits: the current CFG logits are determined by the backend and *)
(* the rows decoded so far, so those stand for the digest.                 *)
LogitsDigest == [backend |-> backend, rows |-> kv]

(* The pause result of the controller.                                     *)
PauseState ==
  [delayed_sequence |-> sequence,
   sampler_seed     |-> sampler.seed,
   sampler_draws    |-> sampler.draws,
   ended            |-> eos.ended,
   earliest_eos     |-> FirstEndedLength(eos),
   digest           |-> LogitsDigest]

(* The first n triples of the uninterrupted run.                           *)
Tokens(n) == [i \in 1 .. n |-> song[i].tokens]

(* Whether the run is, at this step, where the uninterrupted run was.      *)
OnSong ==
  LET n == Len(sequence)
  IN /\ job = <<sampler.seed, backend>>
     /\ n \in 1 .. Len(song)
     /\ kv = Tokens(n)
     /\ sequence = Tokens(n)
     /\ sampler.draws = song[n].drawn

FirstNote == [raw |-> Bos, tokens |-> Bos, drawn |-> 0, eos |-> NewTracker]

(* What sample_streams may return, with the draws it consumes.  The sample *)
(* of a masked or ended stream is discarded: 0 stands for it.              *)
Answers ==
  IF OnSong /\ Len(sequence) < Len(song)
  THEN {[raw |-> song[Len(sequence) + 1].raw,
         used |-> song[Len(sequence) + 1].drawn - sampler.draws]}
  ELSE {a \in [raw : [Streams -> SampledIds], used : DrawCounts] :
          \A q \in Streams :
            Masked(q, Len(sequence)) \/ eos.ended[q] => a.raw[q] = 0}

NoSampler == [seed |-> None, draws |-> 0]

(* Nothing of a run survives it but what it returned.                      *)
Idle ==
  /\ kv' = <<>> /\ sequence' = <<>>
  /\ sampler' = NoSampler
  /\ eos' = NewTracker
  /\ resume' = NoCheckpoint

-----------------------------------------------------------------------------
Init ==
  /\ phase = "idle"
  /\ backend = None
  /\ kv = <<>> /\ sequence = <<>>
  /\ sampler = NoSampler
  /\ eos = NewTracker
  /\ resume = NoCheckpoint
  /\ checkpoints = {}
  /\ result = None
  /\ job = None
  /\ song = <<>>
  /\ interruptions = 0

(* A run without a checkpoint: prefill both branches, decode the special   *)
(* BOS triple, seed the sampler.  A later fresh run with another seed or   *)
(* backend is another job, outside this behaviour.                         *)
Start(s, d) ==
  /\ phase = "idle"
  /\ job \in {None, <<s, d>>}
  /\ job' = <<s, d>>
  /\ backend' = d
  /\ kv' = <<Bos>> /\ sequence' = <<Bos>>
  /\ sampler' = [seed |-> s, draws |-> 0]
  /\ eos' = NewTracker
  /\ song' = IF song = <<>>
             THEN <<FirstNote>>
             ELSE song
  /\ phase' = "generating"
  /\ UNCHANGED <<resume, checkpoints, result, interruptions>>

(* A run from a checkpoint: prefill, decode BOS, then replay its rows.     *)
Resume(b, d) ==
  /\ phase \in {"idle", "paused", "rejected"}
  /\ backend' = d
  /\ kv' = <<Bos>> /\ sequence' = <<>>
  /\ sampler' = [seed |-> b.sampler_seed, draws |-> 0]
  /\ eos' = NewTracker
  /\ resume' = b
  /\ phase' = "replaying"
  /\ UNCHANGED <<checkpoints, result, job, song, interruptions>>

(* One row of the K/V replay.  The controller replays the rows into a      *)
(* fresh EOS tracker afterwards; both loops run over the same rows with    *)
(* nothing between them, so one step advances both.                        *)
ReplayRow ==
  /\ phase = "replaying"
  /\ Len(kv) < Len(resume.delayed_sequence)
  /\ LET row == resume.delayed_sequence[Len(kv) + 1]
     IN /\ kv' = Append(kv, row)
        /\ eos' = EosUpdate(eos, row)
  /\ UNCHANGED <<phase, backend, sequence, sampler, resume, checkpoints,
                 result, job, song, interruptions>>

(* Cancellation observed before a replay row: the checkpoint comes back    *)
(* unchanged.                                                              *)
PauseReplay ==
  /\ phase = "replaying"
  /\ Len(kv) < Len(resume.delayed_sequence)
  /\ interruptions < MaxInterruptions
  /\ checkpoints' = checkpoints \cup {resume}
  /\ phase' = "paused"
  /\ interruptions' = interruptions + 1
  /\ Idle
  /\ UNCHANGED <<backend, result, job, song>>

(* eos.all_ended() || saved_steps == delayed.sequence_steps()              *)
IsCompleteOneEarly(saved) == AllEnded(eos) \/ saved = SequenceSteps - 1
IsComplete(saved) == AllEnded(eos) \/ saved = SequenceSteps

(* The controller's checks of a resume state.                              *)
Accepts(b) ==
  LET saved == Len(b.delayed_sequence)
  IN /\ saved \in 1 .. SequenceSteps
     /\ b.delayed_sequence[1] = Bos
     /\ \A i \in 1 .. saved : b.delayed_sequence[i] \in Triples
     /\ eos.ended = b.ended
     /\ FirstEndedLength(eos) = b.earliest_eos
     /\ ~IsComplete(saved)
     /\ LogitsDigest = b.digest

(* Sampler::restore: reseed, then discard the draws already consumed.      *)
RestoredWithoutDiscard(b) == [seed |-> b.sampler_seed, draws |-> 0]
Restored(b) == [seed |-> b.sampler_seed, draws |-> b.sampler_draws]

EnterController ==
  /\ phase = "replaying"
  /\ Len(kv) = Len(resume.delayed_sequence)
  /\ IF Accepts(resume)
     THEN /\ phase' = "generating"
          /\ sequence' = resume.delayed_sequence
          /\ sampler' = Restored(resume)
          /\ resume' = NoCheckpoint
          /\ UNCHANGED <<kv, eos>>
     ELSE /\ phase' = "rejected"
          /\ Idle
  /\ UNCHANGED <<backend, checkpoints, result, job, song, interruptions>>

(* One iteration of the controller's loop.                                 *)
GenerateStep ==
  /\ phase = "generating"
  /\ \E a \in Answers :
       LET next == MaskStep(a.raw, Len(sequence), eos.ended)
           drawn == sampler.draws + a.used
       IN /\ eos' = EosUpdate(eos, next)
          /\ sequence' = Append(sequence, next)
          /\ sampler' = [seed |-> sampler.seed, draws |-> drawn]
          /\ song' = IF OnSong /\ Len(sequence) = Len(song)
                     THEN Append(song, [raw |-> a.raw, tokens |-> next,
                                        drawn |-> drawn, eos |-> eos'])
                     ELSE song
          /\ IF AllEnded(eos') \/ Len(sequence') = SequenceSteps
             THEN /\ phase' = "done"
                  /\ result' = FramesOf(sequence')
                  /\ UNCHANGED kv
             ELSE /\ kv' = Append(kv, next)
                  /\ UNCHANGED <<phase, result>>
  /\ UNCHANGED <<backend, resume, checkpoints, job, interruptions>>

(* Cancellation observed at the top of the loop.                           *)
PauseGenerate ==
  /\ phase = "generating"
  /\ interruptions < MaxInterruptions
  /\ checkpoints' = checkpoints \cup {PauseState}
  /\ phase' = "paused"
  /\ interruptions' = interruptions + 1
  /\ Idle
  /\ UNCHANGED <<backend, result, job, song>>

(* The process dies, or a load, a decode or a progress callback throws:    *)
(* everything in memory is gone, the host keeps the checkpoints it has.    *)
Abort ==
  /\ phase \in {"generating", "replaying", "paused", "done"}
  /\ interruptions < MaxInterruptions
  /\ phase' = "idle"
  /\ interruptions' = interruptions + 1
  /\ Idle
  /\ UNCHANGED <<backend, checkpoints, result, job, song>>

Work ==
  \/ \E s \in Seeds, d \in Backends : Start(s, d)
  \/ \E b \in checkpoints, d \in Backends : Resume(b, d)
  \/ ReplayRow
  \/ EnterController
  \/ GenerateStep

Next == Work \/ PauseReplay \/ PauseGenerate \/ Abort

Spec == Init /\ [][Next]_vars

(* What the owner of the job does: the command where it was started, again *)
(* and again.                                                              *)
OwnResume == \E b \in checkpoints : Resume(b, job[2])

(* The stage is a single thread that runs to its next poll.  Runs on other *)
(* backends may always come in between, but not keep the owner out.        *)
FairSpec == Spec /\ WF_vars(Work) /\ SF_vars(OwnResume)

-----------------------------------------------------------------------------
NoteType == [raw : Triples, tokens : Triples, drawn : Nat, eos : TrackerType]

TypeOK ==
  /\ phase \in Phases
  /\ backend \in Backends \cup {None}
  /\ kv \in Seq(Triples) /\ sequence \in Seq(Triples)
  /\ sampler \in [seed : Seeds \cup {None}, draws : Nat]
  /\ eos \in TrackerType
  /\ resume \in {NoCheckpoint} \cup CheckpointType
  /\ checkpoints \subseteq CheckpointType
  /\ result \in FrameTensors \cup {None}
  /\ job \in (Seeds \X Backends) \cup {None}
  /\ song \in Seq(NoteType)
  /\ interruptions \in 0 .. MaxInterruptions

(* Whatever was cancelled, lost, replayed or resumed before, a run that is *)
(* about to sample is exactly where the uninterrupted job was: one K/V row *)
(* per sequence step, the same history, seed, backend and random cursor.   *)
(* (levo-generator.cpp: the replay of delayed_sequence, sampler.restore.)  *)
ResumeContinuesTheJob == phase = "generating" => OnSong

(* A checkpoint the stage handed out is accepted again on the backend that *)
(* wrote it: a run is only ever rejected on another backend.               *)
(* (levo-generator.cpp: the resume validation of the controller.)          *)
CheckpointsResumable == phase = "rejected" => backend # job[2]

(* validate_renderer_tokens: some frames, as many of every stream, and in  *)
(* the codebook.                                                           *)
RendererAccepts(tokens) ==
  \E n \in 1 .. Frames : \A q \in Streams :
    DOMAIN tokens[q] = 0 .. n - 1 /\ \A t \in 0 .. n - 1 : tokens[q][t] \in Codes

EndsAt(q, frame) ==
  \E i \in 1 .. Len(song) : song[i].tokens[q] = EosToken /\ i - 2 - Delays[q] = frame

(* A completed run returns codec tokens only - never an EOS, never the     *)
(* special id - and cuts nothing but what follows the earliest EOS.  The   *)
(* renderer accepts every result but one: if a stream ends in its first    *)
(* frame, a completed run has no frames, and no later stage takes them.    *)
(* (levo-generator.cpp: revert and trim after the loop.)                   *)
FramesAreCodecTokens ==
  result # None =>
    /\ \A q \in Streams : \A t \in DOMAIN result[q] : result[q][t] \in Codes
    /\ \E n \in 0 .. Frames :
         /\ \A q \in Streams : DOMAIN result[q] = 0 .. n - 1
         /\ n = Frames \/ \E q \in Streams : EndsAt(q, n)
    /\ RendererAccepts(result) <=> ~ \E q \in Streams : EndsAt(q, 0)

(* The job's observable outcome is that of one uninterrupted generation.   *)
(* (docs/resumability-plan.md: a resumed run yields identical codes.)      *)
Uninterrupted == INSTANCE TokenStream WITH
  stream   <- Tokens(Len(song)),
  output   <- result,
  NoFrames <- None
ImplementsTokenStream == Uninterrupted!Spec

(* The inductive invariant: what the song, every checkpoint, a replay and  *)
(* a running loop owe to each other between any two steps.                 *)
SongInv ==
  /\ song = <<>> <=> job = None
  /\ Len(song) <= SequenceSteps
  /\ song # <<>> => song[1] = FirstNote
  /\ \A i \in 1 .. Len(song) - 1 :
       /\ ~AllEnded(song[i].eos)
       /\ song[i + 1].raw \in [Streams -> SampledIds]
       /\ song[i + 1].tokens = MaskStep(song[i + 1].raw, i, song[i].eos.ended)
       /\ song[i + 1].eos = EosUpdate(song[i].eos, song[i + 1].tokens)

FaithfulCheckpoint(b) ==
  LET n == Len(b.delayed_sequence)
  IN /\ n \in 1 .. Len(song) /\ n < SequenceSteps
     /\ b.delayed_sequence = Tokens(n) /\ b.digest.rows = Tokens(n)
     /\ job = <<b.sampler_seed, b.digest.backend>>
     /\ b.sampler_draws = song[n].drawn
     /\ b.ended = song[n].eos.ended
     /\ b.earliest_eos = FirstEndedLength(song[n].eos)
     /\ ~AllEnded(song[n].eos)

CheckpointInv == \A b \in checkpoints : FaithfulCheckpoint(b)

ReplayInv ==
  phase = "replaying" =>
    /\ resume \in checkpoints
    /\ Len(kv) \in 1 .. Len(resume.delayed_sequence)
    /\ kv = Tokens(Len(kv))
    /\ eos = song[Len(kv)].eos

GenerateInv ==
  phase = "generating" =>
    /\ OnSong
    /\ eos = song[Len(sequence)].eos
    /\ ~AllEnded(eos) /\ Len(sequence) < SequenceSteps

ResultInv ==
  result # None =>
    /\ song # <<>>
    /\ Len(song) = SequenceSteps \/ AllEnded(song[Len(song)].eos)
    /\ result = FramesOf(Tokens(Len(song)))

IInv == /\ TypeOK /\ SongInv /\ CheckpointInv /\ ReplayInv /\ GenerateInv /\ ResultInv
        /\ phase # "idle" => job # None
        /\ CheckpointsResumable

(* Once the host stops interrupting, the job completes and stays complete. *)
Completes == <>[](phase = "done")
=============================================================================
