---------------------------- MODULE TokenStream -----------------------------
(***************************************************************************)
(* What CODES promises: one uninterrupted autoregressive generation.  The  *)
(* stream grows by one masked triple per step until every stream holds an  *)
(* EOS or the pattern is exhausted, and only then are the frames output.   *)
(* Nothing here is ever paused, lost, replayed or resampled.               *)
(***************************************************************************)
EXTENDS TokenRules

CONSTANT NoFrames

VARIABLES stream,   (* the delayed sequence, one triple per step           *)
          output    (* the frames, once the stream is complete             *)

svars == <<stream, output>>

EndedIn(seq, q) == \E i \in 1 .. Len(seq) : seq[i][q] = EosToken
Complete(seq) ==
  \/ Len(seq) = SequenceSteps
  \/ \A q \in Streams : EndedIn(seq, q)

Init == stream = <<>> /\ output = NoFrames

Begin ==
  /\ stream = <<>>
  /\ stream' = <<Bos>>
  /\ UNCHANGED output

Extend ==
  /\ stream # <<>>
  /\ ~Complete(stream)
  /\ \E raw \in [Streams -> SampledIds] :
       stream' = Append(stream, MaskStep(raw, Len(stream), [q \in Streams |-> EndedIn(stream, q)]))
  /\ output' = IF Complete(stream') THEN FramesOf(stream') ELSE NoFrames

Next == Begin \/ Extend
Spec == Init /\ [][Next]_svars
=============================================================================
