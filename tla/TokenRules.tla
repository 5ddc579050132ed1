----------------------------- MODULE TokenRules -----------------------------
(***************************************************************************)
(* The rules one step of token generation obeys, shared by the abstract    *)
(* stream (TokenStream) and the resumable controller (TokenController):    *)
(* the delayed pattern's scatter mask, the EOS tracker of                  *)
(* src/src/levo-sampling.cpp and the final revert and trim of              *)
(* src/src/levo-generator.cpp.                                             *)
(***************************************************************************)
EXTENDS DelayedPattern

CONSTANTS Frames,        (* requested frames: floor(duration * frame rate) *)
          Delays,        (* the model's delay of each of the 3 streams     *)
          CodebookSize   (* codec tokens are 0 .. CodebookSize - 1         *)

Streams == 0 .. 2

ASSUME RulesAssumption ==
  /\ Frames \in Nat \ {0}
  /\ CodebookSize \in Nat \ {0}
  /\ Delays \in [Streams -> Nat]
  /\ Delays[0] <= Delays[1] /\ Delays[1] <= Delays[2]

(* The controller rejects a model whose ids are not laid out this way.     *)
EosToken == CodebookSize
SpecialToken == CodebookSize + 1
Codes == 0 .. CodebookSize - 1
SampledIds == 0 .. EosToken          \* what the LM heads can emit
TokenIds == 0 .. SpecialToken

FrameTensors == UNION {[Streams -> [0 .. n - 1 -> TokenIds]] : n \in 0 .. Frames}
Triples == [Streams -> TokenIds]
Bos == [q \in Streams |-> SpecialToken]

Delayed == Layout([depth |-> 3, delays |-> Delays, flatten |-> 0, empty |-> 0], Frames)
SequenceSteps == Frames + Delays[2] + 1

(* delayed_mask.mask[stream][step] == 0                                    *)
Masked(q, step) == FramesAt(Delayed, Frames, q, step) = {}

-----------------------------------------------------------------------------
(* eos_tracker: which streams have ended, how many updates it has seen and *)
(* the update (from 0) of the first EOS, NoEnd standing for SIZE_MAX.      *)
NoEnd == -1
TrackerType == [ended : [Streams -> BOOLEAN], steps : Nat, first : Nat \cup {NoEnd}]
NewTracker == [ended |-> [q \in Streams |-> FALSE], steps |-> 0, first |-> NoEnd]

EosUpdateForgets(eos, next) ==
  [ended |-> [q \in Streams |-> next[q] = EosToken], steps |-> eos.steps + 1,
   first |-> eos.first]

EosUpdate(eos, next) ==
  LET hit == {q \in Streams : ~eos.ended[q] /\ next[q] = EosToken}
  IN [ended |-> [q \in Streams |-> eos.ended[q] \/ q \in hit],
      steps |-> eos.steps + 1,
      first |-> IF hit # {} /\ eos.first = NoEnd THEN eos.steps ELSE eos.first]

AllEnded(eos) == \A q \in Streams : eos.ended[q]
FirstEndedLengthRaw(eos) == eos.first
FirstEndedLength(eos) == IF eos.first = NoEnd THEN eos.steps ELSE eos.first

-----------------------------------------------------------------------------
(* Sampled values are scatter-masked after every head has been sampled:    *)
(* an invalid delayed position or an ended stream records the special id.  *)
MaskStep(raw, step, ended) ==
  [q \in Streams |-> IF Masked(q, step) \/ ended[q] THEN SpecialToken ELSE raw[q]]

(* revert() of the generated steps; stream q's frame t, or the special id  *)
(* when its step was never generated.  seq[s + 1] is sequence step s.      *)
Reverted(seq) ==
  Revert(Delayed, 3, Frames,
         [q \in Streams |-> [s \in 0 .. Len(seq) - 1 |-> seq[s + 1][q]]],
         Len(seq), SpecialToken).values

(* trim_length_at_eos: frames before the earliest EOS of any stream.       *)
TrimLengthOfMixed(values) ==
  Min({Frames} \cup {t \in 0 .. Frames - 1 : values[0][t] = EosToken})
TrimLength(values) ==
  Min({Frames} \cup {t \in 0 .. Frames - 1 : \E q \in Streams : values[q][t] = EosToken})

FramesOf(seq) ==
  LET values == Reverted(seq)
      trim == TrimLength(values)
  IN [q \in Streams |-> [t \in 0 .. trim - 1 |-> values[q][t]]]
=============================================================================
