------------------------ MODULE TokenControllerProofs ------------------------
(***************************************************************************)
(* The safety of the resumable CODES stage for every frame count, delay,   *)
(* codebook size, seed, backend and number of interruptions: it returns    *)
(* codec tokens only, and implements one uninterrupted generation, the     *)
(* refinement that TokenController states.                                 *)
(***************************************************************************)
EXTENDS TokenController, WellFoundedInduction, SequenceTheorems, TLAPS

-----------------------------------------------------------------------------
(* The token rules, for every frame count, delay and codebook size: where  *)
(* the delayed pattern puts a frame, what a masked step, a reverted        *)
(* sequence and a trimmed tensor contain.                                  *)

(* Min of a non-empty set of naturals is its least element.                *)
LEMMA MinOfNaturals ==
  ASSUME NEW S \in SUBSET Nat, S # {}
  PROVE  Min(S) \in S /\ \A y \in S : Min(S) <= y
<1> DEFINE R == OpToRel(<, Nat)
<1>1. PICK x \in S : \A y \in S : ~(<<y, x>> \in R)
  BY NatLessThanWellFounded, WFMin
<1>2. \A a, b \in Nat : a < b => <<a, b>> \in R
  BY Zenon DEF OpToRel
<1>3. \A y \in S : ~(y < x)
  BY <1>1, <1>2
<1>4. \A y \in S : x <= y
  BY <1>3
<1>5. \E z \in S : \A y \in S : z <= y
  BY <1>4
<1> QED
  BY <1>5, Zenon DEF Min

(* The layout of the generator: step s holds frame s - 1 - delay of every  *)
(* stream whose delay has passed.                                          *)
LEMMA DelayedLayout ==
  /\ DOMAIN Delayed = 0 .. SequenceSteps - 1
  /\ \A s \in 0 .. SequenceSteps - 1 : \A q \in Streams :
       s >= 1 + Delays[q] =>
         [timestep |-> s - 1 - Delays[q], codebook |-> q] \in Delayed[s]
  /\ \A s \in 0 .. SequenceSteps - 1 : \A c \in Delayed[s] : \E q \in Streams :
       s >= 1 + Delays[q] /\ c = [timestep |-> s - 1 - Delays[q], codebook |-> q]
<1> DEFINE p == [depth |-> 3, delays |-> Delays, flatten |-> 0, empty |-> 0]
<1> USE RulesAssumption
<1>1. Books(p) = Streams /\ LastDelay(p) = Delays[2]
  BY DEF Books, LastDelay, Streams
<1> DEFINE first == IF p.flatten < Frames THEN p.flatten ELSE Frames
           flat  == 1 + p.empty
           slant == flat + first * p.depth
           t(s)  == first + (s - slant)
<1>2. Delayed = [s \in 0 .. slant + Frames + LastDelay(p) - first - 1 |->
        IF s < flat THEN {}
        ELSE IF s < slant
        THEN {[timestep |-> (s - flat) \div p.depth,
               codebook |-> (s - flat) % p.depth]}
        ELSE {[timestep |-> t(s) - p.delays[q], codebook |-> q] :
                q \in {b \in Books(p) : t(s) >= p.delays[b] + first}}]
  BY DEF Delayed, Layout, Diagonal
<1>3. first = 0 /\ flat = 1 /\ p.delays = Delays /\ \A q \in Streams : Delays[q] \in Nat
  BY DEF Streams
<1>4. slant = 1
  BY <1>3
<1>5. \A s \in Int : t(s) = s - 1
  BY <1>3, <1>4
<1> HIDE DEF p, first, flat, slant, t
<1>6. DOMAIN Delayed = 0 .. SequenceSteps - 1
  BY <1>1, <1>2, <1>3, <1>4 DEF SequenceSteps, Streams
<1>7. \A q \in Streams : Delays[q] \in Nat
  BY <1>3
<1>8. ASSUME NEW s \in 0 .. SequenceSteps - 1
      PROVE  /\ \A q \in Streams : s >= 1 + Delays[q] =>
                  [timestep |-> s - 1 - Delays[q], codebook |-> q] \in Delayed[s]
             /\ \A c \in Delayed[s] : \E q \in Streams :
                  s >= 1 + Delays[q] /\ c = [timestep |-> s - 1 - Delays[q], codebook |-> q]
  <2>1. s \in 0 .. slant + Frames + LastDelay(p) - first - 1 /\ t(s) = s - 1 /\ s \in Int
    BY <1>1, <1>3, <1>4, <1>5 DEF SequenceSteps, Streams
  <2>2. CASE s = 0
    <3>1. Delayed[s] = {}
      BY <1>2, <1>3, <2>1, <2>2
    <3> QED
      BY <1>7, <2>2, <3>1
  <2>3. CASE s >= 1
    <3> DEFINE open == {b \in Books(p) : t(s) >= p.delays[b] + first}
               at(b) == [timestep |-> t(s) - p.delays[b], codebook |-> b]
    <3>1. Delayed[s] = {at(q) : q \in open}
      BY <1>2, <1>3, <1>4, <2>1, <2>3
    <3>2. \A q \in Streams : q \in open <=> s >= 1 + Delays[q]
      BY <1>1, <1>3, <1>7, <2>1
    <3>3. \A q \in Streams : at(q) = [timestep |-> s - 1 - Delays[q], codebook |-> q]
      BY <1>3, <2>1
    <3>4. open \subseteq Streams
      BY <1>1
    <3> HIDE DEF open, at
    <3> QED
      BY <3>1, <3>2, <3>3, <3>4
  <2> QED
    BY <2>1, <2>2, <2>3
<1> QED
  BY <1>6, <1>8

(* Consequences the later proofs use: constants and ids are naturals.      *)
LEMMA RulesTypes ==
  /\ Frames \in Nat /\ Frames >= 1 /\ CodebookSize \in Nat /\ CodebookSize >= 1
  /\ \A q \in Streams : Delays[q] \in Nat /\ Delays[q] <= Delays[2]
  /\ SequenceSteps \in Nat /\ SequenceSteps = Frames + Delays[2] + 1
  /\ Bos \in Triples
BY RulesAssumption DEF Streams, SequenceSteps, Bos, Triples, TokenIds, SpecialToken

(* Step s holds frame s - 1 - delay of stream q, and nothing else of it.   *)
LEMMA FramesAtStep ==
  ASSUME NEW q \in Streams, NEW s \in 0 .. SequenceSteps - 1
  PROVE  /\ \A t \in FramesAt(Delayed, Frames, q, s) :
              s >= 1 + Delays[q] /\ t = s - 1 - Delays[q] /\ t < Frames
         /\ s >= 1 + Delays[q] /\ s - 1 - Delays[q] < Frames
              => s - 1 - Delays[q] \in FramesAt(Delayed, Frames, q, s)
<1> DEFINE c == [timestep |-> s - 1 - Delays[q], codebook |-> q]
<1>1. ASSUME NEW t \in FramesAt(Delayed, Frames, q, s)
      PROVE  s >= 1 + Delays[q] /\ t = s - 1 - Delays[q] /\ t < Frames
  <2>1. PICK d \in Delayed[s] : d.codebook = q /\ d.timestep < Frames /\ t = d.timestep
    BY DEF FramesAt
  <2> QED
    BY <2>1, DelayedLayout
<1>2. ASSUME s >= 1 + Delays[q], s - 1 - Delays[q] < Frames
      PROVE  s - 1 - Delays[q] \in FramesAt(Delayed, Frames, q, s)
  <2>1. c \in Delayed[s] /\ c.codebook = q /\ c.timestep = s - 1 - Delays[q]
    BY <1>2, DelayedLayout
  <2> QED
    BY <1>2, <2>1 DEF FramesAt
<1> QED
  BY <1>1, <1>2

(* The scatter mask is the diagonal band delay < s <= delay + Frames.      *)
LEMMA MaskedBand ==
  ASSUME NEW q \in Streams, NEW s \in 0 .. SequenceSteps - 1
  PROVE  Masked(q, s) <=> ~(Delays[q] < s /\ s <= Delays[q] + Frames)
BY FramesAtStep, RulesTypes DEF Masked

(* Frame t of stream q is held by exactly one step.                        *)
LEMMA StepOfFrame ==
  ASSUME NEW q \in Streams, NEW t \in 0 .. Frames - 1
  PROVE  StepsOf(Delayed, q, t) = {t + 1 + Delays[q]}
<1> DEFINE c == [timestep |-> t, codebook |-> q]
           home == t + 1 + Delays[q]
<1>0. /\ Delays[q] \in Nat /\ Delays[q] <= Delays[2] /\ Delays[2] \in Nat
      /\ Frames \in Nat /\ t \in Nat /\ t <= Frames - 1
      /\ SequenceSteps = Frames + Delays[2] + 1
  BY RulesTypes DEF Streams
<1>1. home \in 0 .. SequenceSteps - 1 /\ home >= 1 + Delays[q] /\ home - 1 - Delays[q] = t
  BY <1>0
<1>2. c \in Delayed[home]
  BY <1>1, DelayedLayout
<1>3. ASSUME NEW s \in 0 .. SequenceSteps - 1, c \in Delayed[s]
      PROVE  s = home
  <2>1. PICK b \in Streams :
          s >= 1 + Delays[b] /\ c = [timestep |-> s - 1 - Delays[b], codebook |-> b]
    BY <1>3, DelayedLayout
  <2>2. b = q /\ t = s - 1 - Delays[b]
    BY <2>1
  <2> QED
    BY <2>2, RulesTypes
<1> QED
  BY <1>1, <1>2, <1>3, DelayedLayout DEF StepsOf

(* Reverting a sequence: a frame is read from its one step, or is special. *)
LEMMA RevertedValue ==
  ASSUME NEW seq \in Seq(Triples), NEW q \in Streams, NEW t \in 0 .. Frames - 1
  PROVE  Reverted(seq)[q][t] = IF t + 1 + Delays[q] < Len(seq)
                               THEN seq[t + 2 + Delays[q]][q] ELSE SpecialToken
<1> DEFINE home == t + 1 + Delays[q]
           rows == [p \in Streams |-> [s \in 0 .. Len(seq) - 1 |-> seq[s + 1][p]]]
           seen(p, u) == {s \in StepsOf(Delayed, p, u) : s < Len(seq)}
<1>1. 0 .. 3 - 1 = Streams
  BY DEF Streams
<1>2. Reverted(seq) = [p \in Streams |-> [u \in 0 .. Frames - 1 |->
        IF seen(p, u) = {} THEN SpecialToken ELSE rows[p][Max(seen(p, u))]]]
  BY <1>1 DEF Reverted, Revert, Received
<1>3. home \in Nat /\ Len(seq) \in Nat
  BY RulesTypes
<1>4. seen(q, t) = IF home < Len(seq) THEN {home} ELSE {}
  BY <1>3, StepOfFrame
<1>5. Max({home}) = home
  BY <1>3 DEF Max
<1>6. home < Len(seq) => rows[q][home] = seq[t + 2 + Delays[q]][q]
  BY <1>3, RulesTypes, SMTT(20)
<1> HIDE DEF rows, seen, home
<1>7. Reverted(seq)[q][t] = IF seen(q, t) = {} THEN SpecialToken ELSE rows[q][Max(seen(q, t))]
  BY <1>2
<1>8. Reverted(seq)[q][t] = IF home < Len(seq) THEN rows[q][home] ELSE SpecialToken
  BY <1>4, <1>5, <1>7
<1> QED
  BY <1>6, <1>8 DEF home

(* A reverted sequence is a [3, Frames] tensor of token ids.               *)
LEMMA RevertedType ==
  ASSUME NEW seq \in Seq(Triples)
  PROVE  \A q \in Streams : \A t \in 0 .. Frames - 1 : Reverted(seq)[q][t] \in TokenIds
<1> SUFFICES ASSUME NEW q \in Streams, NEW t \in 0 .. Frames - 1
             PROVE  Reverted(seq)[q][t] \in TokenIds
  OBVIOUS
<1>1. SpecialToken \in TokenIds
  BY RulesTypes DEF TokenIds, SpecialToken
<1>2. ASSUME t + 1 + Delays[q] < Len(seq)
      PROVE  seq[t + 2 + Delays[q]][q] \in TokenIds
  <2>1. t + 2 + Delays[q] \in 1 .. Len(seq)
    BY <1>2, RulesTypes
  <2>2. seq[t + 2 + Delays[q]] \in Triples
    BY <2>1
  <2> QED
    BY <2>2 DEF Triples
<1> QED
  BY <1>1, <1>2, RevertedValue

(* The trim is the earliest EOS frame of any stream, or the whole tensor.  *)
LEMMA TrimAtEarliestEos ==
  ASSUME NEW values
  PROVE  /\ TrimLength(values) \in 0 .. Frames
         /\ \A q \in Streams : \A t \in 0 .. Frames - 1 :
              t < TrimLength(values) => values[q][t] # EosToken
         /\ TrimLength(values) = Frames \/
              /\ TrimLength(values) \in 0 .. Frames - 1
              /\ \E q \in Streams : values[q][TrimLength(values)] = EosToken
<1> DEFINE ends == {t \in 0 .. Frames - 1 : \E q \in Streams : values[q][t] = EosToken}
           S == {Frames} \cup ends
<1>1. S \in SUBSET Nat /\ S # {}
  BY RulesTypes
<1>2. TrimLength(values) = Min(S)
  BY DEF TrimLength
<1> HIDE DEF S
<1>3. Min(S) \in S /\ \A y \in S : Min(S) <= y
  BY <1>1, MinOfNaturals
<1> USE DEF S
<1>4. Min(S) \in 0 .. Frames /\ (Min(S) = Frames \/ Min(S) \in ends)
  BY <1>3, RulesTypes
<1>5. ASSUME NEW q \in Streams, NEW t \in 0 .. Frames - 1, t < Min(S)
      PROVE  values[q][t] # EosToken
  <2>1. t \notin S
    BY <1>3, <1>4, <1>5, RulesTypes
  <2> QED
    BY <2>1
<1> QED
  BY <1>2, <1>4, <1>5

(* The frames a sequence is trimmed to, as a tensor.                       *)
LEMMA FramesOfType ==
  ASSUME NEW seq \in Seq(Triples)
  PROVE  FramesOf(seq) \in FrameTensors
<1> DEFINE n == TrimLength(Reverted(seq))
<1>1. n \in 0 .. Frames
  BY TrimAtEarliestEos
<1>2. FramesOf(seq) = [q \in Streams |-> [t \in 0 .. n - 1 |-> Reverted(seq)[q][t]]]
  BY DEF FramesOf
<1>3. \A t \in 0 .. n - 1 : t \in 0 .. Frames - 1
  BY <1>1, RulesTypes
<1> HIDE DEF n
<1>4. FramesOf(seq) \in [Streams -> [0 .. n - 1 -> TokenIds]]
  BY <1>2, <1>3, RevertedType
<1> QED
  BY <1>1, <1>4 DEF FrameTensors

(* One masked step and one tracker update are well typed.                  *)
LEMMA StepTypes ==
  ASSUME NEW raw \in [Streams -> SampledIds], NEW s \in Nat,
         NEW ended \in [Streams -> BOOLEAN]
  PROVE  MaskStep(raw, s, ended) \in Triples
<1>1. SpecialToken \in TokenIds /\ SampledIds \subseteq TokenIds
  BY RulesTypes DEF SpecialToken, TokenIds, SampledIds, EosToken
<1> QED
  BY <1>1 DEF MaskStep, Triples

(* A tracker update keeps the tracker a tracker, and a stream has ended    *)
(* after it exactly if it had before or the step holds its EOS.            *)
LEMMA TrackerStep ==
  ASSUME NEW tracker \in TrackerType, NEW next \in Triples
  PROVE  /\ EosUpdate(tracker, next) \in TrackerType
         /\ FirstEndedLength(tracker) \in Nat
         /\ \A q \in Streams : EosUpdate(tracker, next).ended[q] <=>
              (tracker.ended[q] \/ next[q] = EosToken)
<1>1. EosUpdate(tracker, next) \in TrackerType
  BY DEF TrackerType, EosUpdate, NoEnd
<1>2. FirstEndedLength(tracker) \in Nat
  BY DEF TrackerType, FirstEndedLength, NoEnd
<1> QED
  BY <1>1, <1>2 DEF TrackerType, EosUpdate

(* There is always at least one step after the BOS position.               *)
LEMMA RulesLimits == 1 < SequenceSteps /\ SequenceSteps \in Nat
<1>1. Delays[2] \in Nat
  BY RulesTypes DEF Streams
<1> QED
  BY <1>1, RulesTypes

-----------------------------------------------------------------------------
(* The controller.                                                         *)

(* The token triples of a song prefix form a sequence of that length.      *)
LEMMA TokensPrefix ==
  ASSUME NEW s \in Seq(NoteType), NEW n \in 0 .. Len(s)
  PROVE  /\ [i \in 1 .. n |-> s[i].tokens] \in Seq(Triples)
         /\ Len([i \in 1 .. n |-> s[i].tokens]) = n
<1>1. \A i \in 1 .. n : s[i].tokens \in Triples
  <2>1. \A i \in 1 .. n : i \in 1 .. Len(s) /\ s[i] \in NoteType
    OBVIOUS
  <2> QED
    BY <2>1 DEF NoteType
<1> DEFINE t == [i \in 1 .. n |-> s[i].tokens]
<1>2. t \in [1 .. n -> Triples]
  BY <1>1
<1>3. t \in Seq(Triples)
  BY <1>2, SeqDef
<1> QED
  BY <1>2, <1>3

(* Appending the next note's triple to a prefix gives the longer prefix.   *)
LEMMA TokensAppend ==
  ASSUME NEW s \in Seq(NoteType), NEW n \in 0 .. Len(s) - 1
  PROVE  Append([i \in 1 .. n |-> s[i].tokens], s[n + 1].tokens)
           = [i \in 1 .. n + 1 |-> s[i].tokens]
<1> DEFINE t == [i \in 1 .. n |-> s[i].tokens]
           u == [i \in 1 .. n + 1 |-> s[i].tokens]
<1>1. n \in 0 .. Len(s) /\ n + 1 \in 0 .. Len(s) /\ n + 1 \in 1 .. Len(s) /\ Len(s) \in Nat
  OBVIOUS
<1>2. t \in Seq(Triples) /\ Len(t) = n /\ u \in Seq(Triples) /\ Len(u) = n + 1
  BY <1>1, TokensPrefix
<1>3. s[n + 1].tokens \in Triples
  <2>1. s[n + 1] \in NoteType
    BY <1>1
  <2> QED
    BY <2>1 DEF NoteType
<1> DEFINE a == Append(t, s[n + 1].tokens)
<1>4. a \in Seq(Triples) /\ Len(a) = n + 1 /\ a[n + 1] = s[n + 1].tokens
      /\ \A i \in 1 .. n : a[i] = t[i]
  BY <1>2, <1>3, AppendProperties
<1>5. \A i \in 1 .. n + 1 : a[i] = u[i]
  BY <1>1, <1>4
<1> HIDE DEF t, u, a
<1>6. a = u
  BY <1>2, <1>4, <1>5, SeqEqual
<1> QED
  BY <1>6 DEF a, t, u

(* The tokens of a prefix do not see a note appended to the song.          *)
LEMMA TokensStable ==
  ASSUME NEW s \in Seq(NoteType), NEW note \in NoteType, NEW n \in 0 .. Len(s)
  PROVE  [i \in 1 .. n |-> Append(s, note)[i].tokens] = [i \in 1 .. n |-> s[i].tokens]
<1>1. \A i \in 1 .. n : Append(s, note)[i] = s[i]
  BY AppendProperties
<1> QED
  BY <1>1

-----------------------------------------------------------------------------
(* The invariant holds initially.                                          *)
LEMMA TypesOfIdle ==
  /\ <<>> \in Seq(Triples) /\ <<>> \in Seq(NoteType) /\ Len(<<>>) = 0
  /\ NewTracker \in TrackerType
  /\ NoSampler \in [seed : Seeds \cup {None}, draws : Nat]
BY EmptySeq DEF NewTracker, TrackerType, NoEnd, NoSampler

LEMMA InitIInv == Init => IInv
<1> SUFFICES ASSUME Init PROVE IInv
  OBVIOUS
<1>1. TypeOK
  BY TypesOfIdle, ControllerAssumption DEF Init, TypeOK, Phases
<1>2. SongInv
  BY TypesOfIdle, RulesTypes DEF Init, SongInv
<1> QED
  BY <1>1, <1>2 DEF Init, IInv, CheckpointInv, ReplayInv, GenerateInv, ResultInv,
                    CheckpointsResumable

(* A step that leaves the song, the job and the result alone keeps what is *)
(* known of them, and of every checkpoint that was there before.           *)
LEMMA Undisturbed ==
  ASSUME IInv, UNCHANGED <<song, job, result>>
  PROVE  /\ SongInv' /\ ResultInv'
         /\ \A b : FaithfulCheckpoint(b) <=> FaithfulCheckpoint(b)'
         /\ \A n : Tokens(n)' = Tokens(n)
<1>1. \A n : Tokens(n)' = Tokens(n)
  BY DEF Tokens
<1> QED
  BY <1>1 DEF IInv, SongInv, ResultInv, FaithfulCheckpoint

(* What a checkpoint the host was handed looks like.                       *)
LEMMA CheckpointShape ==
  ASSUME IInv, NEW b \in checkpoints
  PROVE  /\ b \in CheckpointType /\ FaithfulCheckpoint(b)
         /\ song # <<>> /\ job \in Seeds \X Backends
         /\ Len(b.delayed_sequence) \in 1 .. Len(song)
         /\ song \in Seq(NoteType) /\ Len(song) \in Nat
<1>1. b \in CheckpointType /\ FaithfulCheckpoint(b) /\ song \in Seq(NoteType)
  BY DEF IInv, TypeOK, CheckpointInv
<1>2. Len(b.delayed_sequence) \in 1 .. Len(song) /\ Len(song) \in Nat
  BY <1>1 DEF FaithfulCheckpoint
<1>3. song # <<>>
  BY <1>2, TypesOfIdle
<1> QED
  BY <1>1, <1>2, <1>3 DEF IInv, TypeOK, SongInv

LEMMA StartStep ==
  ASSUME IInv, NEW s \in Seeds, NEW d \in Backends, Start(s, d)
  PROVE  IInv'
<1> USE DEF Start
<1>1. song \in Seq(NoteType) /\ job' = <<s, d>> /\ job' \in Seeds \X Backends
  BY DEF IInv, TypeOK
<1>2. job' # None
  BY ControllerAssumption
<1>3. FirstNote \in NoteType
  BY RulesTypes, TypesOfIdle DEF FirstNote, NoteType
<1>4. /\ song' \in Seq(NoteType) /\ song' # <<>> /\ song'[1] = FirstNote
      /\ song # <<>> => song' = song /\ job' = job
      /\ song = <<>> => Len(song') = 1
  BY <1>1, <1>3 DEF IInv, SongInv
<1>5. 1 \in 1 .. Len(song') /\ Len(song') \in Nat
  BY <1>4, EmptySeq
<1>6. <<Bos>> \in Seq(Triples) /\ Len(<<Bos>>) = 1
  BY RulesTypes
<1>7. TypeOK'
  BY <1>1, <1>4, <1>6, TypesOfIdle DEF IInv, TypeOK, Phases
<1>8. SongInv'
  <2>1. CASE song = <<>>
    BY <1>2, <1>4, <2>1, RulesLimits DEF SongInv
  <2>2. CASE song # <<>>
    BY <1>4, <2>2 DEF IInv, SongInv
  <2> QED
    BY <2>1, <2>2
<1>9. checkpoints # {} => song # <<>>
  BY CheckpointShape
<1>10. CheckpointInv'
  <2> SUFFICES ASSUME NEW b \in checkpoints PROVE FaithfulCheckpoint(b)'
    BY DEF CheckpointInv
  <2>1. song' = song /\ job' = job
    BY <1>4, <1>9
  <2> QED
    BY <2>1, CheckpointShape DEF FaithfulCheckpoint, Tokens
<1>11. Tokens(1)' = <<Bos>>
  <2>1. Tokens(1)' = [i \in 1 .. 1 |-> song'[i].tokens]
    BY DEF Tokens
  <2>2. song'[1].tokens = Bos
    BY <1>4 DEF FirstNote
  <2>3. Tokens(1)' \in Seq(Triples) /\ Len(Tokens(1)') = 1 /\ Tokens(1)'[1] = Bos
    BY <1>4, <1>5, <2>1, <2>2, TokensPrefix
  <2> QED
    BY <1>6, <2>3, SeqEqual
<1>12. GenerateInv'
  <2>1. OnSong'
    BY <1>4, <1>5, <1>6, <1>11 DEF OnSong, FirstNote
  <2>2. song'[1].eos = NewTracker
    BY <1>4 DEF FirstNote
  <2>3. ~AllEnded(NewTracker)
    BY DEF AllEnded, NewTracker, Streams
  <2>4. ~AllEnded(eos)'
    BY <2>3 DEF AllEnded
  <2>5. eos' = song'[Len(sequence')].eos /\ Len(sequence') < SequenceSteps
    BY <1>6, <2>2, RulesLimits
  <2> QED
    BY <2>1, <2>4, <2>5 DEF GenerateInv
<1>13. ResultInv'
  <2>1. result # None => song' = song
    BY <1>4 DEF IInv, ResultInv
  <2>2. song' = song => \A n : Tokens(n)' = Tokens(n)
    BY DEF Tokens
  <2> QED
    BY <2>1, <2>2 DEF IInv, ResultInv
<1> QED
  BY <1>2, <1>7, <1>8, <1>10, <1>12, <1>13 DEF IInv, ReplayInv, CheckpointsResumable

(* The first triple of the song is the BOS triple.                         *)
LEMMA FirstTriple ==
  ASSUME IInv, song # <<>>
  PROVE  <<Bos>> = Tokens(1) /\ song[1].eos = NewTracker /\ song[1].drawn = 0
         /\ 1 \in 1 .. Len(song)
<1>1. song \in Seq(NoteType) /\ song[1] = FirstNote
  BY DEF IInv, TypeOK, SongInv
<1>2. 1 \in 1 .. Len(song)
  BY <1>1, EmptySeq
<1>3. Tokens(1) \in Seq(Triples) /\ Len(Tokens(1)) = 1 /\ Tokens(1)[1] = Bos
  BY <1>1, <1>2, TokensPrefix DEF Tokens, FirstNote
<1>4. <<Bos>> \in Seq(Triples) /\ Len(<<Bos>>) = 1
  BY RulesTypes
<1>5. <<Bos>> = Tokens(1)
  BY <1>3, <1>4, SeqEqual
<1> QED
  BY <1>1, <1>2, <1>5 DEF FirstNote

LEMMA ResumeStep ==
  ASSUME IInv, NEW b \in checkpoints, NEW d \in Backends, Resume(b, d)
  PROVE  IInv'
<1> USE DEF Resume
<1>1. b \in CheckpointType /\ FaithfulCheckpoint(b) /\ song # <<>> /\ job \in Seeds \X Backends
  BY CheckpointShape
<1>2. SongInv' /\ ResultInv' /\ CheckpointInv' /\ Tokens(1)' = Tokens(1)
  BY Undisturbed DEF IInv, CheckpointInv
<1>3. <<Bos>> \in Seq(Triples) /\ Len(<<Bos>>) = 1
  BY RulesTypes
<1>4. TypeOK'
  BY <1>1, <1>3, TypesOfIdle DEF IInv, TypeOK, Phases, CheckpointType
<1>5. ReplayInv'
  <2>1. Len(b.delayed_sequence) \in Nat /\ Len(b.delayed_sequence) >= 1
    BY <1>1, CheckpointShape
  <2> QED
    BY <1>1, <1>2, <1>3, <2>1, FirstTriple DEF ReplayInv
<1>6. job' # None
  BY <1>1, ControllerAssumption
<1> QED
  BY <1>2, <1>4, <1>5, <1>6 DEF IInv, GenerateInv, CheckpointsResumable

LEMMA ReplayRowStep ==
  ASSUME IInv, ReplayRow
  PROVE  IInv'
<1> USE DEF ReplayRow
<1> DEFINE n == Len(kv)
           row == resume.delayed_sequence[n + 1]
<1>1. resume \in checkpoints /\ n \in 1 .. Len(resume.delayed_sequence)
      /\ kv = Tokens(n) /\ eos = song[n].eos
  BY DEF IInv, ReplayInv
<1>2. FaithfulCheckpoint(resume) /\ song \in Seq(NoteType) /\ song # <<>>
      /\ Len(resume.delayed_sequence) \in 1 .. Len(song) /\ Len(song) \in Nat
  BY <1>1, CheckpointShape
<1>3. n \in 0 .. Len(song) - 1 /\ n + 1 \in 1 .. Len(song) /\ n \in 1 .. Len(song) - 1
      /\ n + 1 \in 1 .. Len(resume.delayed_sequence)
  BY <1>1, <1>2
<1>4. row = song[n + 1].tokens
  BY <1>2, <1>3 DEF FaithfulCheckpoint, Tokens
<1>5. row \in Triples
  <2>1. song[n + 1] \in NoteType
    BY <1>2, <1>3
  <2> QED
    BY <1>4, <2>1 DEF NoteType
<1>6. kv' = Tokens(n + 1) /\ Len(kv') = n + 1 /\ kv' \in Seq(Triples)
  <2>1. kv' = Append(Tokens(n), song[n + 1].tokens)
    BY <1>1, <1>4
  <2>2. kv' = Tokens(n + 1)
    BY <1>2, <1>3, <2>1, TokensAppend DEF Tokens
  <2> QED
    BY <1>2, <1>3, <2>2, TokensPrefix DEF Tokens
<1>7. eos' = song[n + 1].eos /\ eos' \in TrackerType
  <2>1. song[n + 1].eos = EosUpdate(song[n].eos, song[n + 1].tokens)
    BY <1>3 DEF IInv, SongInv
  <2>2. eos \in TrackerType
    BY DEF IInv, TypeOK
  <2> QED
    BY <1>1, <1>4, <1>5, <2>1, <2>2, TrackerStep
<1>8. SongInv' /\ ResultInv' /\ CheckpointInv'
  BY Undisturbed DEF IInv, CheckpointInv
<1>9. TypeOK'
  BY <1>6, <1>7 DEF IInv, TypeOK
<1>10. ReplayInv'
  BY <1>1, <1>3, <1>6, <1>7, <1>8 DEF ReplayInv, Tokens
<1> QED
  BY <1>8, <1>9, <1>10 DEF IInv, GenerateInv, CheckpointsResumable

LEMMA PauseReplayStep ==
  ASSUME IInv, PauseReplay
  PROVE  IInv'
<1> USE DEF PauseReplay, Idle
<1>1. resume \in checkpoints /\ checkpoints' = checkpoints
  BY DEF IInv, ReplayInv
<1>2. SongInv' /\ ResultInv' /\ CheckpointInv'
  BY <1>1, Undisturbed DEF IInv, CheckpointInv
<1>3. TypeOK'
  BY <1>1, TypesOfIdle, ControllerAssumption DEF IInv, TypeOK, Phases
<1> QED
  BY <1>2, <1>3 DEF IInv, ReplayInv, GenerateInv, CheckpointsResumable

LEMMA AbortStep ==
  ASSUME IInv, Abort
  PROVE  IInv'
<1> USE DEF Abort, Idle
<1>1. SongInv' /\ ResultInv' /\ CheckpointInv'
  BY Undisturbed DEF IInv, CheckpointInv
<1>2. TypeOK'
  BY TypesOfIdle, ControllerAssumption DEF IInv, TypeOK, Phases
<1> QED
  BY <1>1, <1>2 DEF IInv, ReplayInv, GenerateInv, CheckpointsResumable

(* Everything a running loop relies on, in one place.                      *)
LEMMA RunningLoop ==
  ASSUME IInv, phase = "generating"
  PROVE  LET n == Len(sequence)
         IN /\ n \in 1 .. Len(song) /\ n < SequenceSteps /\ Len(song) \in Nat
            /\ song \in Seq(NoteType) /\ song[n] \in NoteType
            /\ kv = Tokens(n) /\ sequence = Tokens(n)
            /\ job = <<sampler.seed, backend>> /\ job \in Seeds \X Backends
            /\ sampler.draws = song[n].drawn
            /\ eos = song[n].eos /\ eos \in TrackerType /\ ~AllEnded(eos)
            /\ sampler = [seed |-> sampler.seed, draws |-> sampler.draws]
            /\ sampler.draws \in Nat /\ sampler.seed \in Seeds /\ backend \in Backends
<1>1. TypeOK /\ OnSong /\ eos = song[Len(sequence)].eos /\ ~AllEnded(eos)
      /\ Len(sequence) < SequenceSteps /\ job # None
  BY DEF IInv, GenerateInv
<1>2. song \in Seq(NoteType) /\ job \in Seeds \X Backends /\ eos \in TrackerType
      /\ sampler = [seed |-> sampler.seed, draws |-> sampler.draws] /\ sampler.draws \in Nat
  BY <1>1 DEF TypeOK
<1>3. job = <<sampler.seed, backend>> /\ Len(sequence) \in 1 .. Len(song)
  BY <1>1 DEF OnSong
<1>4. sampler.seed \in Seeds /\ backend \in Backends
  BY <1>2, <1>3
<1> QED
  BY <1>1, <1>2, <1>3, <1>4 DEF OnSong

LEMMA PauseGenerateStep ==
  ASSUME IInv, PauseGenerate
  PROVE  IInv'
<1> USE DEF PauseGenerate, Idle
<1> DEFINE n == Len(sequence)
<1>1. /\ n \in 1 .. Len(song) /\ n < SequenceSteps
      /\ song \in Seq(NoteType)
      /\ kv = Tokens(n) /\ sequence = Tokens(n)
      /\ job = <<sampler.seed, backend>>
      /\ sampler.draws = song[n].drawn
      /\ eos = song[n].eos /\ eos \in TrackerType /\ ~AllEnded(eos)
      /\ sampler.draws \in Nat /\ sampler.seed \in Seeds /\ backend \in Backends
  BY RunningLoop
<1>2. PauseState \in CheckpointType
  <2>1. eos.ended \in [Streams -> BOOLEAN] /\ FirstEndedLength(eos) \in Nat
    BY <1>1, RulesTypes, TrackerStep DEF TrackerType
  <2>2. sequence \in Seq(Triples) /\ kv \in Seq(Triples)
    BY DEF IInv, TypeOK
  <2> QED
    BY <1>1, <2>1, <2>2 DEF PauseState, LogitsDigest, CheckpointType
<1>3. FaithfulCheckpoint(PauseState)
  BY <1>1 DEF FaithfulCheckpoint, PauseState, LogitsDigest
<1>4. SongInv' /\ ResultInv' /\ \A b : FaithfulCheckpoint(b) <=> FaithfulCheckpoint(b)'
  BY Undisturbed
<1>5. CheckpointInv'
  <2> SUFFICES ASSUME NEW b \in checkpoints' PROVE FaithfulCheckpoint(b)'
    BY DEF CheckpointInv
  <2>1. b \in checkpoints \/ b = PauseState
    OBVIOUS
  <2> QED
    BY <1>3, <1>4, <2>1 DEF IInv, CheckpointInv
<1>6. TypeOK'
  BY <1>2, TypesOfIdle, ControllerAssumption DEF IInv, TypeOK, Phases
<1> QED
  BY <1>4, <1>5, <1>6 DEF IInv, ReplayInv, GenerateInv, CheckpointsResumable

(* A fully replayed checkpoint passes every check but, on another backend, *)
(* the digest.                                                             *)
LEMMA ReplayedCheckpoint ==
  ASSUME IInv, phase = "replaying", Len(kv) = Len(resume.delayed_sequence)
  PROVE  /\ Accepts(resume) <=> backend = job[2]
         /\ resume \in checkpoints /\ FaithfulCheckpoint(resume) /\ resume \in CheckpointType
         /\ kv = Tokens(Len(kv)) /\ eos = song[Len(kv)].eos
<1> DEFINE n == Len(resume.delayed_sequence)
<1>1. resume \in checkpoints /\ kv = Tokens(n) /\ eos = song[n].eos
  BY DEF IInv, ReplayInv
<1>2. /\ resume \in CheckpointType /\ FaithfulCheckpoint(resume) /\ song # <<>>
      /\ n \in 1 .. Len(song) /\ Len(song) \in Nat /\ song \in Seq(NoteType)
      /\ job = <<resume.sampler_seed, resume.digest.backend>>
  BY <1>1, CheckpointShape DEF FaithfulCheckpoint
<1>3. n \in 1 .. SequenceSteps /\ n # SequenceSteps /\ ~AllEnded(eos)
  <2>1. n < SequenceSteps /\ ~AllEnded(song[n].eos)
    BY <1>2 DEF FaithfulCheckpoint
  <2>2. n \in Nat /\ n >= 1
    BY <1>2
  <2> QED
    BY <1>1, <2>1, <2>2, RulesLimits
<1>4. resume.delayed_sequence[1] = Bos
  <2>1. Tokens(1) = <<Bos>> /\ 1 \in 1 .. n
    BY <1>2, FirstTriple
  <2>2. Tokens(n)[1] = song[1].tokens /\ song[1].tokens = Bos
    BY <1>2, <2>1 DEF Tokens, IInv, SongInv, FirstNote
  <2> QED
    BY <1>2, <2>2 DEF FaithfulCheckpoint
<1>5. \A i \in 1 .. n : resume.delayed_sequence[i] \in Triples
  <2>1. resume.delayed_sequence \in Seq(Triples)
    BY <1>2 DEF CheckpointType
  <2> QED
    BY <2>1
<1>6. eos.ended = resume.ended /\ FirstEndedLength(eos) = resume.earliest_eos
  BY <1>1, <1>2 DEF FaithfulCheckpoint
<1>7. LogitsDigest = resume.digest <=> backend = job[2]
  <2>1. resume.digest = [backend |-> resume.digest.backend, rows |-> resume.digest.rows]
    BY <1>2 DEF CheckpointType
  <2>2. resume.digest.rows = kv
    BY <1>1, <1>2 DEF FaithfulCheckpoint
  <2> QED
    BY <1>2, <2>1, <2>2 DEF LogitsDigest
<1> QED
  BY <1>1, <1>2, <1>3, <1>4, <1>5, <1>6, <1>7 DEF Accepts, IsComplete

LEMMA EnterControllerStep ==
  ASSUME IInv, EnterController
  PROVE  IInv'
<1> USE DEF EnterController, Idle
<1> DEFINE n == Len(kv)
<1>1. /\ Accepts(resume) <=> backend = job[2]
      /\ resume \in CheckpointType /\ FaithfulCheckpoint(resume)
      /\ n = Len(resume.delayed_sequence)
      /\ kv = Tokens(n) /\ eos = song[n].eos
  BY ReplayedCheckpoint
<1>2. SongInv' /\ ResultInv' /\ CheckpointInv' /\ \A m : Tokens(m)' = Tokens(m)
  BY Undisturbed DEF IInv, CheckpointInv
<1>3. CASE Accepts(resume)
  <2>1. sequence' = Tokens(n) /\ n \in 1 .. Len(song) /\ n < SequenceSteps
        /\ job = <<resume.sampler_seed, resume.digest.backend>>
        /\ resume.sampler_draws = song[n].drawn /\ ~AllEnded(eos)
    BY <1>1, <1>3 DEF FaithfulCheckpoint
  <2>2. Len(sequence') = n
    BY <1>1, <1>3
  <2>3. OnSong'
    BY <1>1, <1>2, <1>3, <2>1, <2>2 DEF OnSong, Restored
  <2>4. GenerateInv'
    BY <1>1, <1>3, <2>1, <2>2, <2>3 DEF GenerateInv, AllEnded
  <2>5. TypeOK'
    BY <1>1, <1>3, ControllerAssumption DEF IInv, TypeOK, Phases, Restored, CheckpointType
  <2> QED
    BY <1>2, <1>3, <2>4, <2>5 DEF IInv, ReplayInv, CheckpointsResumable
<1>4. CASE ~Accepts(resume)
  <2>1. TypeOK'
    BY <1>4, TypesOfIdle DEF IInv, TypeOK, Phases
  <2> QED
    BY <1>1, <1>2, <1>4, <2>1 DEF IInv, ReplayInv, GenerateInv, CheckpointsResumable
<1> QED
  BY <1>3, <1>4

(* A loop iteration samples what the song says, or writes its next note.   *)
LEMMA NextNote ==
  ASSUME IInv, phase = "generating", NEW a \in Answers
  PROVE  LET n == Len(sequence)
             next == MaskStep(a.raw, n, eos.ended)
             drawn == sampler.draws + a.used
         IN /\ next \in Triples /\ drawn \in Nat /\ a.raw \in [Streams -> SampledIds]
            /\ n < Len(song) =>
                 /\ a.raw = song[n + 1].raw /\ next = song[n + 1].tokens
                 /\ drawn = song[n + 1].drawn
                 /\ EosUpdate(eos, next) = song[n + 1].eos
<1> DEFINE n == Len(sequence)
           next == MaskStep(a.raw, n, eos.ended)
           drawn == sampler.draws + a.used
<1>1. /\ n \in 1 .. Len(song) /\ Len(song) \in Nat /\ song \in Seq(NoteType)
      /\ eos = song[n].eos /\ eos \in TrackerType /\ sampler.draws \in Nat /\ OnSong
  BY RunningLoop DEF IInv, GenerateInv
<1>2. eos.ended \in [Streams -> BOOLEAN]
  BY <1>1 DEF TrackerType
<1>3. CASE n < Len(song)
  <2>1. a.raw = song[n + 1].raw /\ a.used = song[n + 1].drawn - sampler.draws
    BY <1>1, <1>3 DEF Answers
  <2>2. n \in 1 .. Len(song) - 1 /\ n + 1 \in 1 .. Len(song)
    BY <1>1, <1>3
  <2>3. song[n + 1].drawn \in Nat
    <3>1. song[n + 1] \in NoteType
      BY <1>1, <2>2
    <3> QED
      BY <3>1 DEF NoteType
  <2>4. /\ song[n + 1].raw \in [Streams -> SampledIds]
        /\ song[n + 1].tokens = MaskStep(song[n + 1].raw, n, song[n].eos.ended)
        /\ song[n + 1].eos = EosUpdate(song[n].eos, song[n + 1].tokens)
    BY <2>2 DEF IInv, SongInv
  <2>5. next = song[n + 1].tokens /\ a.raw \in [Streams -> SampledIds]
    BY <1>1, <2>1, <2>4
  <2>6. next \in Triples
    BY <1>1, <1>2, <2>5, StepTypes
  <2> QED
    BY <1>1, <2>1, <2>3, <2>4, <2>5, <2>6
<1>4. CASE ~(n < Len(song))
  <2>1. a.raw \in [Streams -> SampledIds] /\ a.used \in DrawCounts
    BY <1>4 DEF Answers
  <2>2. a.used \in Nat
    BY <2>1, ControllerAssumption
  <2> QED
    BY <1>1, <1>2, <1>4, <2>1, <2>2, StepTypes
<1> QED
  BY <1>3, <1>4

LEMMA GenerateStepStep ==
  ASSUME IInv, GenerateStep
  PROVE  IInv'
<1> USE DEF GenerateStep
<1>0. phase = "generating"
  OBVIOUS
<1>n. PICK n \in Nat : n = Len(sequence)
  BY DEF IInv, TypeOK
<1>1. PICK a \in Answers :
       LET next == MaskStep(a.raw, Len(sequence), eos.ended)
           drawn == sampler.draws + a.used
       IN /\ eos' = EosUpdate(eos, next)
          /\ sequence' = Append(sequence, next)
          /\ sampler' = [seed |-> sampler.seed, draws |-> drawn]
          /\ song' = IF OnSong /\ Len(sequence) = Len(song)
                     THEN Append(song, [raw |-> a.raw, tokens |-> next,
                                        drawn |-> drawn, eos |-> eos'])
                     ELSE song
          /\ IF AllEnded(eos') \/ Len(sequence') = SequenceSteps
             THEN /\ phase' = "done"
                  /\ result' = FramesOf(sequence')
                  /\ UNCHANGED kv
             ELSE /\ kv' = Append(kv, next)
                  /\ UNCHANGED <<phase, result>>
  OBVIOUS
<1>u. UNCHANGED <<backend, resume, checkpoints, job, interruptions>>
  OBVIOUS
<1> HIDE DEF GenerateStep
<1> DEFINE next == MaskStep(a.raw, n, eos.ended)
           drawn == sampler.draws + a.used
           note == [raw |-> a.raw, tokens |-> next, drawn |-> drawn, eos |-> eos']
           m == n + 1
<1>2. /\ n \in 1 .. Len(song) /\ n < SequenceSteps /\ Len(song) \in Nat
      /\ song \in Seq(NoteType)
      /\ kv = Tokens(n) /\ sequence = Tokens(n)
      /\ job = <<sampler.seed, backend>> /\ job \in Seeds \X Backends
      /\ sampler = [seed |-> sampler.seed, draws |-> sampler.draws]
      /\ eos = song[n].eos /\ eos \in TrackerType /\ ~AllEnded(eos)
      /\ sampler.seed \in Seeds /\ OnSong /\ n \in Nat /\ m \in 1 .. SequenceSteps
  BY <1>0, <1>n, RunningLoop, RulesLimits DEF IInv, GenerateInv
<1>3. /\ next \in Triples /\ drawn \in Nat /\ a.raw \in [Streams -> SampledIds]
      /\ n < Len(song) =>
           /\ a.raw = song[m].raw /\ next = song[m].tokens /\ drawn = song[m].drawn
           /\ EosUpdate(eos, next) = song[m].eos
  BY <1>0, <1>n, NextNote
<1>4. eos' = EosUpdate(eos, next) /\ eos' \in TrackerType
  BY <1>1, <1>n, <1>2, <1>3, TrackerStep
<1>5. note \in NoteType
  <2>1. a.raw \in Triples
    BY <1>3, RulesTypes DEF Triples, SampledIds, TokenIds, EosToken, SpecialToken
  <2> QED
    BY <1>3, <1>4, <2>1 DEF NoteType
<1> HIDE DEF next, drawn
(* The song is left alone, or grows by this step's note.                   *)
<1>6. /\ song' \in Seq(NoteType) /\ m \in 1 .. Len(song') /\ Len(song') \in Nat
      /\ song'[m].tokens = next /\ song'[m].drawn = drawn /\ song'[m].eos = eos'
      /\ \A i \in 1 .. Len(song) : song'[i] = song[i]
      /\ n < Len(song) => song' = song
      /\ n = Len(song) => song' = Append(song, note) /\ Len(song') = m /\ song'[m] = note
  <2>1. CASE n < Len(song)
    <3>1. song' = song
      BY <1>1, <1>2, <1>n, <2>1 DEF next, drawn
    <3> QED
      BY <1>2, <1>3, <1>4, <2>1, <3>1
  <2>2. CASE n = Len(song)
    <3>1. song' = Append(song, note)
      BY <1>1, <1>2, <1>n, <2>2 DEF next, drawn
    <3> HIDE DEF note
    <3>2. /\ song' \in Seq(NoteType) /\ Len(song') = Len(song) + 1
          /\ \A i \in 1 .. Len(song) : song'[i] = song[i]
          /\ song'[Len(song) + 1] = note
      BY <1>2, <1>5, <3>1, AppendProperties
    <3>3. note.tokens = next /\ note.drawn = drawn /\ note.eos = eos'
      BY DEF note
    <3> QED
      BY <1>2, <2>2, <3>1, <3>2, <3>3
  <2> QED
    BY <1>2, <2>1, <2>2
<1>7. \A k \in 0 .. Len(song) : Tokens(k)' = Tokens(k)
  BY <1>2, <1>6 DEF Tokens
<1>8. sequence' = Tokens(m)' /\ Len(sequence') = m /\ sequence' \in Seq(Triples)
  <2>0. Tokens(n)' = Tokens(n) /\ sequence' = Append(sequence, next)
    BY <1>1, <1>2, <1>7, <1>n DEF next
  <2>1. sequence' = Append(Tokens(n)', next)
    BY <1>2, <2>0
  <2>2. n \in 0 .. Len(song') - 1 /\ m \in 0 .. Len(song')
    BY <1>2, <1>6
  <2>3. Append([i \in 1 .. n |-> song'[i].tokens], song'[m].tokens)
          = [i \in 1 .. m |-> song'[i].tokens]
    BY <1>6, <2>2, TokensAppend
  <2>4. sequence' = [i \in 1 .. m |-> song'[i].tokens]
    BY <1>6, <2>1, <2>3 DEF Tokens
  <2> QED
    BY <1>6, <2>2, <2>4, TokensPrefix DEF Tokens
<1>9. SongInv'
  <2>1. CASE n < Len(song)
    BY <1>6, <1>u, <2>1 DEF IInv, SongInv
  <2>2. CASE n = Len(song)
    <3>1. song # <<>> /\ song' # <<>> /\ song'[1] = FirstNote /\ job' # None /\ m <= SequenceSteps
      BY <1>2, <1>6, <2>2, <1>u, ControllerAssumption, EmptySeq DEF IInv, SongInv
    <3>2. ASSUME NEW i \in 1 .. Len(song') - 1
          PROVE  /\ ~AllEnded(song'[i].eos)
                 /\ song'[i + 1].raw \in [Streams -> SampledIds]
                 /\ song'[i + 1].tokens = MaskStep(song'[i + 1].raw, i, song'[i].eos.ended)
                 /\ song'[i + 1].eos = EosUpdate(song'[i].eos, song'[i + 1].tokens)
      <4>1. CASE i < n
        <5>1. i \in 1 .. Len(song) - 1 /\ i \in 1 .. Len(song) /\ i + 1 \in 1 .. Len(song)
          BY <1>2, <2>2, <4>1
        <5> QED
          BY <1>6, <5>1 DEF IInv, SongInv
      <4>2. CASE i = n
        BY <1>2, <1>3, <1>4, <1>6, <2>2, <4>2 DEF next
      <4> QED
        BY <1>2, <1>6, <2>2, <4>1, <4>2
    <3> QED
      BY <1>6, <2>2, <3>1, <3>2 DEF SongInv
  <2> QED
    BY <1>2, <2>1, <2>2
<1>10. CheckpointInv'
  <2> SUFFICES ASSUME NEW b \in checkpoints PROVE FaithfulCheckpoint(b)'
    BY <1>u DEF CheckpointInv
  <2>1. PICK k \in Nat : k = Len(b.delayed_sequence)
    BY CheckpointShape
  <2>2. k \in 1 .. Len(song) /\ FaithfulCheckpoint(b)
    BY <2>1, CheckpointShape
  <2>3. Tokens(k)' = Tokens(k) /\ song'[k] = song[k] /\ k \in 1 .. Len(song')
    BY <1>2, <1>6, <1>7, <2>2
  <2> QED
    BY <1>u, <2>1, <2>2, <2>3 DEF FaithfulCheckpoint
(* A run that completes now, or whose job had completed before.            *)
<1>11. ResultInv'
  <2>1. CASE AllEnded(eos') \/ m = SequenceSteps
    <3>1. result' = FramesOf(sequence')
      BY <1>1, <1>8, <2>1 DEF next
    <3>2. Len(song') = m
      <4>1. CASE n = Len(song)
        BY <1>6, <4>1
      <4>2. CASE n < Len(song)
        <5>1. m = Len(song) \/ m \in 1 .. Len(song) - 1
          BY <1>2, <4>2
        <5>2. m \in 1 .. Len(song) - 1 => ~AllEnded(song[m].eos) /\ m < SequenceSteps
          BY <1>2, RulesLimits DEF IInv, SongInv
        <5> QED
          BY <1>6, <2>1, <4>2, <5>1, <5>2
      <4> QED
        BY <1>2, <4>1, <4>2
    <3>3. song' # <<>> /\ (Len(song') = SequenceSteps \/ AllEnded(song'[Len(song')].eos))
      BY <1>6, <2>1, <3>2, EmptySeq
    <3> QED
      BY <1>8, <3>1, <3>2, <3>3 DEF ResultInv, AllEnded
  <2>2. CASE ~(AllEnded(eos') \/ m = SequenceSteps)
    <3>1. result' = result
      BY <1>1, <1>8, <2>2 DEF next
    <3>2. result # None => song' = song
      <4>1. SUFFICES ASSUME result # None PROVE n # Len(song)
        BY <1>2, <1>6
      <4>2. Len(song) = SequenceSteps \/ AllEnded(song[Len(song)].eos)
        BY <4>1 DEF IInv, ResultInv
      <4> QED
        BY <1>2, <4>2
    <3>3. song' = song => \A k : Tokens(k)' = Tokens(k)
      BY DEF Tokens
    <3> QED
      BY <3>1, <3>2, <3>3 DEF IInv, ResultInv
  <2> QED
    BY <2>1, <2>2
<1>12. CASE AllEnded(eos') \/ m = SequenceSteps
  <2>1. phase' = "done" /\ result' = FramesOf(sequence') /\ kv' = kv
    BY <1>1, <1>8, <1>12 DEF next
  <2>2. TypeOK'
    BY <1>1, <1>2, <1>3, <1>4, <1>u, <1>6, <1>8, <2>1, FramesOfType DEF IInv, TypeOK, Phases, drawn
  <2>3. job' # None
    BY <1>2, <1>u, ControllerAssumption
  <2> QED
    BY <1>u, <1>9, <1>10, <1>11, <2>1, <2>2, <2>3
    DEF IInv, ReplayInv, GenerateInv, CheckpointsResumable
<1>13. CASE ~(AllEnded(eos') \/ m = SequenceSteps)
  <2>1. phase' = "generating" /\ kv' = sequence' /\ result' = result
    BY <1>0, <1>1, <1>2, <1>8, <1>13, <1>n DEF next
  <2>2. TypeOK'
    BY <1>1, <1>2, <1>3, <1>4, <1>u, <1>6, <1>8, <2>1 DEF IInv, TypeOK, Phases, drawn
  <2>3. job' # None
    BY <1>2, <1>u, ControllerAssumption
  <2>4. sampler' = [seed |-> sampler.seed, draws |-> drawn]
    BY <1>1, <1>2 DEF drawn
  <2>5. OnSong'
    BY <1>2, <1>6, <1>u, <1>8, <2>1, <2>4 DEF OnSong
  <2>6. GenerateInv'
    <3>1. song'[Len(sequence')].eos = eos' /\ Len(sequence') < SequenceSteps
      BY <1>2, <1>6, <1>8, <1>13, RulesLimits
    <3>2. ~AllEnded(eos)'
      BY <1>13 DEF AllEnded
    <3> QED
      BY <2>5, <3>1, <3>2 DEF GenerateInv
  <2> QED
    BY <1>u, <1>9, <1>10, <1>11, <2>1, <2>2, <2>3, <2>6
    DEF IInv, ReplayInv, CheckpointsResumable
<1> QED
  BY <1>12, <1>13

-----------------------------------------------------------------------------
(* IInv is inductive.                                                      *)
LEMMA NextIInv == IInv /\ [Next]_vars => IInv'
<1> SUFFICES ASSUME IInv, [Next]_vars PROVE IInv'
  OBVIOUS
<1>1. ASSUME NEW s \in Seeds, NEW d \in Backends, Start(s, d) PROVE IInv'
  BY <1>1, StartStep
<1>2. ASSUME NEW b \in checkpoints, NEW d \in Backends, Resume(b, d) PROVE IInv'
  BY <1>2, ResumeStep
<1>3. CASE UNCHANGED vars
  <2>1. \A b : FaithfulCheckpoint(b) <=> FaithfulCheckpoint(b)'
    BY <1>3, Undisturbed DEF vars
  <2>2. SongInv' /\ ResultInv' /\ \A n : Tokens(n)' = Tokens(n)
    BY <1>3, Undisturbed DEF vars
  <2> QED
    BY <1>3, <2>1, <2>2
    DEF IInv, vars, TypeOK, CheckpointInv, ReplayInv, GenerateInv, OnSong,
        CheckpointsResumable, AllEnded
<1> QED
  BY <1>1, <1>2, <1>3, ReplayRowStep, PauseReplayStep, EnterControllerStep,
     GenerateStepStep, PauseGenerateStep, AbortStep DEF Next, Work

(* The inductive invariant of the CODES stage: the uninterrupted run's     *)
(* history, every checkpoint ever handed out, a replay in progress and a   *)
(* running loop agree with each other after every step of                  *)
(* run_generation_controller_resumable.                                    *)
THEOREM Invariance == Spec => []IInv
<1> QED
  BY InitIInv, NextIInv, PTL DEF Spec

(* Every variable of the CODES stage keeps its type.                       *)
THEOREM TypeCorrect == Spec => []TypeOK
<1>1. IInv => TypeOK
  BY DEF IInv
<1> QED
  BY <1>1, Invariance, PTL

(* However a job was cancelled, lost, replayed or resumed, a loop about to *)
(* sample has the history, K/V rows, seed, backend and random cursor of    *)
(* the uninterrupted run.                                                  *)
THEOREM ResumedRunContinues == Spec => []ResumeContinuesTheJob
<1>1. IInv => ResumeContinuesTheJob
  BY DEF IInv, GenerateInv, ResumeContinuesTheJob
<1> QED
  BY <1>1, Invariance, PTL

(* The controller never rejects, on the backend that wrote it, a           *)
(* checkpoint it handed out.                                               *)
THEOREM CheckpointsAreAccepted == Spec => []CheckpointsResumable
<1>1. IInv => CheckpointsResumable
  BY DEF IInv
<1> QED
  BY <1>1, Invariance, PTL

-----------------------------------------------------------------------------
(* The refinement: the resumable stage implements one uninterrupted        *)
(* generation.                                                             *)

(* What the refinement needs beyond IInv: the tracker recorded with a note *)
(* has seen the EOS of exactly the streams that hold one so far, and a     *)
(* song that is complete has been returned.                                *)
EndsAreTracked(s) ==
  \A i \in 1 .. Len(s) : \A q \in Streams :
    s[i].eos.ended[q] <=> \E j \in 1 .. i : s[j].tokens[q] = EosToken

CompleteSong(s) ==
  s # <<>> /\ (Len(s) = SequenceSteps \/ AllEnded(s[Len(s)].eos))

TokensOf(s) == [i \in 1 .. Len(s) |-> s[i].tokens]

RInv ==
  /\ IInv
  /\ EndsAreTracked(song)
  /\ CompleteSong(song) => result # None

-----------------------------------------------------------------------------
(* The instance's rules are the controller's.                              *)
LEMMA SameRules ==
  /\ Uninterrupted!SampledIds = SampledIds /\ Uninterrupted!Bos = Bos
  /\ Uninterrupted!SequenceSteps = SequenceSteps
  /\ Uninterrupted!Streams = Streams /\ Uninterrupted!EosToken = EosToken
  /\ \A raw, s, ended : Uninterrupted!MaskStep(raw, s, ended) = MaskStep(raw, s, ended)
  /\ \A seq : Uninterrupted!FramesOf(seq) = FramesOf(seq)
<1>1. Uninterrupted!Delayed = Delayed
  BY DEF Uninterrupted!Delayed, Uninterrupted!Layout, Uninterrupted!Diagonal,
         Uninterrupted!Books, Uninterrupted!LastDelay,
         Delayed, Layout, Diagonal, Books, LastDelay
<1>2. \A q, s : Uninterrupted!Masked(q, s) <=> Masked(q, s)
  BY <1>1 DEF Uninterrupted!Masked, Masked, Uninterrupted!FramesAt, FramesAt
<1>3. \A raw, s, ended : Uninterrupted!MaskStep(raw, s, ended) = MaskStep(raw, s, ended)
  BY <1>2 DEF Uninterrupted!MaskStep, MaskStep, Uninterrupted!Streams, Streams,
     Uninterrupted!SpecialToken, SpecialToken
<1>4. \A seq : Uninterrupted!Reverted(seq) = Reverted(seq)
  BY <1>1 DEF Uninterrupted!Reverted, Reverted, Uninterrupted!Revert, Revert,
     Uninterrupted!Received, Received, Uninterrupted!StepsOf, StepsOf,
     Uninterrupted!Max, Max, Uninterrupted!Streams, Streams,
     Uninterrupted!SpecialToken, SpecialToken
<1>5. \A v : Uninterrupted!TrimLength(v) = TrimLength(v)
  BY DEF Uninterrupted!TrimLength, TrimLength, Uninterrupted!Min, Min,
     Uninterrupted!Streams, Streams, Uninterrupted!EosToken, EosToken
<1>6. \A seq : Uninterrupted!FramesOf(seq) = FramesOf(seq)
  BY <1>4, <1>5 DEF Uninterrupted!FramesOf, FramesOf, Uninterrupted!Streams, Streams
<1> QED
  BY <1>3, <1>6 DEF Uninterrupted!SampledIds, SampledIds, Uninterrupted!Bos, Bos,
     Uninterrupted!SequenceSteps, SequenceSteps, Uninterrupted!Streams, Streams,
     Uninterrupted!EosToken, EosToken, Uninterrupted!SpecialToken, SpecialToken

(* Completion as the abstract stream sees it, in the song's own terms.     *)
LEMMA CompletionAgrees ==
  ASSUME NEW s \in Seq(NoteType), s # <<>>, EndsAreTracked(s)
  PROVE  /\ \A q \in Streams : Uninterrupted!EndedIn(TokensOf(s), q) <=> s[Len(s)].eos.ended[q]
         /\ Uninterrupted!Complete(TokensOf(s)) <=> CompleteSong(s)
<1> DEFINE t == TokensOf(s)
           n == Len(s)
<1>1. n \in Nat /\ n \in 1 .. n /\ n \in 0 .. n
  BY EmptySeq
<1>2. Len(t) = n /\ \A j \in 1 .. n : t[j] = s[j].tokens
  BY <1>1, TokensPrefix DEF TokensOf
<1>3. ASSUME NEW q \in Streams
      PROVE  Uninterrupted!EndedIn(t, q) <=> s[n].eos.ended[q]
  <2>1. Uninterrupted!EndedIn(t, q) <=> \E j \in 1 .. n : s[j].tokens[q] = EosToken
    BY <1>2, SameRules DEF Uninterrupted!EndedIn
  <2> QED
    BY <1>1, <2>1 DEF EndsAreTracked
<1>4. Uninterrupted!Complete(t) <=>
        Len(t) = SequenceSteps \/ \A q \in Streams : Uninterrupted!EndedIn(t, q)
  BY SameRules DEF Uninterrupted!Complete
<1> QED
  BY <1>2, <1>3, <1>4 DEF CompleteSong, AllEnded

(* Appending a note, as a masked triple and the tracker it leaves.         *)
LEMMA EndsStayTracked ==
  ASSUME NEW s \in Seq(NoteType), s # <<>>, EndsAreTracked(s), NEW note \in NoteType,
         note.eos = EosUpdate(s[Len(s)].eos, note.tokens)
  PROVE  /\ EndsAreTracked(Append(s, note))
         /\ TokensOf(Append(s, note)) = Append(TokensOf(s), note.tokens)
<1> DEFINE n == Len(s)
           u == Append(s, note)
<1>1. /\ n \in Nat /\ n \in 1 .. n /\ n >= 1
      /\ u \in Seq(NoteType) /\ Len(u) = n + 1 /\ u[n + 1] = note
      /\ \A i \in 1 .. n : u[i] = s[i]
  BY EmptySeq, AppendProperties
<1> HIDE DEF u
<1>2. ASSUME NEW q \in Streams
      PROVE  note.eos.ended[q] <=> (s[n].eos.ended[q] \/ note.tokens[q] = EosToken)
  <2>1. s[n].eos \in TrackerType /\ note.tokens \in Triples
    <3>1. s[n] \in NoteType
      BY <1>1
    <3> QED
      BY <3>1 DEF NoteType
  <2> QED
    BY <2>1, TrackerStep
<1>3. ASSUME NEW i \in 1 .. n + 1, NEW q \in Streams
      PROVE  u[i].eos.ended[q] <=> \E j \in 1 .. i : u[j].tokens[q] = EosToken
  <2>1. CASE i <= n
    <3>1. i \in 1 .. n /\ \A j \in 1 .. i : u[j] = s[j]
      BY <1>1, <2>1
    <3>2. s[i].eos.ended[q] <=> \E j \in 1 .. i : s[j].tokens[q] = EosToken
      BY <3>1 DEF EndsAreTracked
    <3> QED
      BY <1>1, <3>1, <3>2
  <2>2. CASE i = n + 1
    <3>1. s[n].eos.ended[q] <=> \E j \in 1 .. n : s[j].tokens[q] = EosToken
      BY <1>1 DEF EndsAreTracked
    <3>2. \A j \in 1 .. n + 1 : u[j] = IF j = n + 1 THEN note ELSE s[j]
      BY <1>1
    <3>3. (\E j \in 1 .. n + 1 : u[j].tokens[q] = EosToken)
            <=> note.tokens[q] = EosToken \/ \E j \in 1 .. n : s[j].tokens[q] = EosToken
      BY <1>1, <3>2
    <3> QED
      BY <1>1, <1>2, <2>2, <3>1, <3>3
  <2> QED
    BY <1>1, <2>1, <2>2
<1>4. EndsAreTracked(u)
  BY <1>1, <1>3 DEF EndsAreTracked
<1>5. TokensOf(u) = Append(TokensOf(s), note.tokens)
  <2>1. n \in 0 .. Len(u) - 1
    BY <1>1
  <2>2. Append([i \in 1 .. n |-> u[i].tokens], u[n + 1].tokens) = [i \in 1 .. n + 1 |-> u[i].tokens]
    BY <1>1, <2>1, TokensAppend
  <2>3. [i \in 1 .. n |-> u[i].tokens] = TokensOf(s)
    BY <1>1 DEF TokensOf
  <2> QED
    BY <1>1, <2>2, <2>3 DEF TokensOf
<1> QED
  BY <1>4, <1>5 DEF u

-----------------------------------------------------------------------------
(* A loop iteration either repeats a step of the song or writes its next   *)
(* note, and returns frames exactly when it leaves the song complete.      *)
Writes(raw, note) ==
  /\ song # <<>> /\ ~CompleteSong(song)
  /\ note.tokens = MaskStep(raw, Len(song), song[Len(song)].eos.ended)
  /\ note.eos = EosUpdate(song[Len(song)].eos, note.tokens)
  /\ song' = Append(song, note)
  /\ IF CompleteSong(song') THEN result' # None ELSE result' = result

LEMMA IterationShape ==
  ASSUME IInv, GenerateStep
  PROVE  \/ song' = song /\ (result' = result \/ result' # None)
         \/ \E raw \in [Streams -> SampledIds], note \in NoteType : Writes(raw, note)
<1>0. phase = "generating"
  BY DEF GenerateStep
<1>n. PICK n \in Nat : n = Len(sequence)
  BY DEF IInv, TypeOK
<1>1. PICK a \in Answers :
       LET next == MaskStep(a.raw, Len(sequence), eos.ended)
           drawn == sampler.draws + a.used
       IN /\ eos' = EosUpdate(eos, next)
          /\ sequence' = Append(sequence, next)
          /\ song' = IF OnSong /\ Len(sequence) = Len(song)
                     THEN Append(song, [raw |-> a.raw, tokens |-> next,
                                        drawn |-> drawn, eos |-> eos'])
                     ELSE song
          /\ IF AllEnded(eos') \/ Len(sequence') = SequenceSteps
             THEN result' = FramesOf(sequence')
             ELSE result' = result
  BY DEF GenerateStep
<1> DEFINE next == MaskStep(a.raw, n, eos.ended)
           drawn == sampler.draws + a.used
           note == [raw |-> a.raw, tokens |-> next, drawn |-> drawn, eos |-> eos']
<1>2. /\ n \in 1 .. Len(song) /\ n < SequenceSteps /\ Len(song) \in Nat
      /\ song \in Seq(NoteType) /\ OnSong
      /\ eos = song[n].eos /\ eos \in TrackerType /\ ~AllEnded(eos)
      /\ sequence \in Seq(Triples)
  BY <1>0, <1>n, RunningLoop DEF IInv, GenerateInv, TypeOK
<1>3. next \in Triples /\ drawn \in Nat /\ a.raw \in [Streams -> SampledIds]
  BY <1>0, <1>n, NextNote
<1>4. eos' = EosUpdate(eos, next) /\ eos' \in TrackerType
  BY <1>1, <1>n, <1>2, <1>3, TrackerStep
<1>5. sequence' \in Seq(Triples) /\ Len(sequence') = n + 1
  <2>1. sequence' = Append(sequence, next)
    BY <1>1, <1>n
  <2> HIDE DEF next
  <2> QED
    BY <1>n, <1>2, <1>3, <2>1, AppendProperties
<1>6. AllEnded(eos') \/ n + 1 = SequenceSteps => result' # None
  <2>1. FramesOf(sequence') # None
    BY <1>5, FramesOfType, ControllerAssumption
  <2> QED
    BY <1>1, <1>5, <2>1
<1>7. ~(AllEnded(eos') \/ n + 1 = SequenceSteps) => result' = result
  BY <1>1, <1>5
<1>8. CASE n < Len(song)
  BY <1>1, <1>n, <1>6, <1>7, <1>8
<1>9. CASE n = Len(song)
  <2>1. song' = Append(song, note)
    BY <1>1, <1>2, <1>n, <1>9
  <2>2. note \in NoteType
    <3>1. a.raw \in Triples
      BY <1>3, RulesTypes DEF Triples, SampledIds, TokenIds, EosToken, SpecialToken
    <3> QED
      BY <1>3, <1>4, <3>1 DEF NoteType
  <2>3. note.tokens = next /\ note.eos = eos'
    OBVIOUS
  <2> HIDE DEF note
  <2>4. song' # <<>> /\ Len(song') = n + 1 /\ song'[n + 1] = note
    BY <1>2, <1>9, <2>1, <2>2, AppendProperties, EmptySeq
  <2>5. CompleteSong(song') <=> AllEnded(eos') \/ n + 1 = SequenceSteps
    BY <2>3, <2>4 DEF CompleteSong
  <2>6. song # <<>> /\ ~CompleteSong(song)
    BY <1>2, <1>9, EmptySeq DEF CompleteSong
  <2>7. Writes(a.raw, note)
    BY <1>2, <1>4, <1>6, <1>7, <1>9, <2>1, <2>3, <2>5, <2>6 DEF Writes
  <2> QED
    BY <1>3, <2>2, <2>7
<1> QED
  BY <1>2, <1>8, <1>9

(* Outside the loop only the first run touches the song: it writes BOS.    *)
LEMMA OtherShape ==
  ASSUME IInv, [Next]_vars, ~GenerateStep
  PROVE  \/ UNCHANGED <<song, result>>
         \/ song = <<>> /\ song' = <<FirstNote>> /\ UNCHANGED result
<1>1. ASSUME NEW s \in Seeds, NEW d \in Backends, Start(s, d)
      PROVE  \/ UNCHANGED <<song, result>>
             \/ song = <<>> /\ song' = <<FirstNote>> /\ UNCHANGED result
  BY <1>1 DEF Start
<1>2. ASSUME NEW b \in checkpoints, NEW d \in Backends, Resume(b, d)
      PROVE  UNCHANGED <<song, result>>
  BY <1>2 DEF Resume
<1>3. CASE ReplayRow \/ EnterController
  BY <1>3 DEF ReplayRow, EnterController
<1>4. CASE PauseReplay \/ PauseGenerate \/ Abort
  BY <1>4 DEF PauseReplay, PauseGenerate, Abort
<1>5. CASE UNCHANGED vars
  BY <1>5 DEF vars
<1> QED
  BY <1>1, <1>2, <1>3, <1>4, <1>5 DEF Next, Work

-----------------------------------------------------------------------------
(* The song that begins with BOS has ended no stream and is not complete.  *)
LEMMA FirstNoteEndsNothing ==
  /\ <<FirstNote>> \in Seq(NoteType) /\ <<FirstNote>> # <<>>
  /\ EndsAreTracked(<<FirstNote>>) /\ ~CompleteSong(<<FirstNote>>)
  /\ TokensOf(<<FirstNote>>) = <<Bos>>
<1>1. /\ FirstNote \in NoteType /\ FirstNote.tokens = Bos /\ FirstNote.eos = NewTracker
      /\ Bos \in Triples
  BY RulesTypes, TypesOfIdle DEF FirstNote, NoteType
<1> DEFINE s == <<FirstNote>>
<1> HIDE DEF FirstNote
<1>2. s \in Seq(NoteType) /\ s # <<>> /\ Len(s) = 1 /\ s[1] = FirstNote
  BY <1>1
<1>3. \A q \in Streams : ~NewTracker.ended[q] /\ Bos[q] # EosToken
  BY RulesTypes DEF NewTracker, Bos, EosToken, SpecialToken
<1> HIDE DEF s
<1>4. EndsAreTracked(s)
  BY <1>1, <1>2, <1>3 DEF EndsAreTracked
<1>5. ~CompleteSong(s)
  BY <1>1, <1>2, <1>3, RulesLimits DEF CompleteSong, AllEnded, Streams
<1>6. TokensOf(s) = <<Bos>>
  <2>1. TokensOf(s) \in Seq(Triples) /\ Len(TokensOf(s)) = 1 /\ TokensOf(s)[1] = Bos
    BY <1>1, <1>2, TokensPrefix DEF TokensOf
  <2>2. <<Bos>> \in Seq(Triples) /\ Len(<<Bos>>) = 1 /\ <<Bos>>[1] = Bos
    BY <1>1
  <2> QED
    BY <2>1, <2>2, SeqEqual
<1> QED
  BY <1>2, <1>4, <1>5, <1>6 DEF s

LEMMA InitRefines == Init => RInv /\ Uninterrupted!Init
<1> SUFFICES ASSUME Init PROVE RInv /\ Uninterrupted!Init
  OBVIOUS
<1>1. song = <<>> /\ result = None
  BY DEF Init
<1>2. EndsAreTracked(song) /\ ~CompleteSong(song)
  BY <1>1, EmptySeq DEF EndsAreTracked, CompleteSong
<1>3. Tokens(Len(song)) = <<>>
  <2>1. Tokens(0) \in Seq(Triples) /\ Len(Tokens(0)) = 0
    BY <1>1, TypesOfIdle, TokensPrefix DEF Tokens
  <2> QED
    BY <1>1, <2>1, EmptySeq
<1> QED
  BY <1>1, <1>2, <1>3, InitIInv DEF RInv, Uninterrupted!Init

(* The song's tokens are the mapped stream, before and after a step.       *)
LEMMA MappedStream == Tokens(Len(song)) = TokensOf(song) /\ Tokens(Len(song))' = TokensOf(song')
BY DEF Tokens, TokensOf

(* What is returned follows from the song, before and after a step.        *)
LEMMA ResultOfSong ==
  ASSUME IInv, IInv'
  PROVE  /\ result # None => CompleteSong(song) /\ result = FramesOf(TokensOf(song))
         /\ result' # None => CompleteSong(song') /\ result' = FramesOf(TokensOf(song'))
BY MappedStream DEF IInv, ResultInv, CompleteSong, AllEnded

(* One step of the stage is one step, or no step, of the stream.           *)
LEMMA StepRefines ==
  ASSUME RInv, [Next]_vars
  PROVE  RInv' /\ [Uninterrupted!Next]_(Uninterrupted!svars)
<1>0. IInv /\ EndsAreTracked(song) /\ (CompleteSong(song) => result # None)
  BY DEF RInv
<1>1. IInv'
  BY <1>0, NextIInv
<1>2. song \in Seq(NoteType)
  BY <1>0 DEF IInv, TypeOK
<1>3. RInv' <=> EndsAreTracked(song') /\ (CompleteSong(song') => result' # None)
  BY <1>1 DEF RInv, EndsAreTracked, CompleteSong, AllEnded
<1>a. CASE song' = song /\ (result' = result \/ result' # None)
  <2>1. result' = result
    BY <1>0, <1>1, <1>a, ResultOfSong
  <2>2. UNCHANGED Uninterrupted!svars
    BY <1>a, <2>1, MappedStream DEF Uninterrupted!svars
  <2> QED
    BY <1>0, <1>3, <1>a, <2>2
<1>b. ASSUME NEW raw \in [Streams -> SampledIds], NEW note \in NoteType, Writes(raw, note)
      PROVE  RInv' /\ [Uninterrupted!Next]_(Uninterrupted!svars)
  <2> DEFINE n == Len(song)
             ended == [q \in Streams |-> Uninterrupted!EndedIn(TokensOf(song), q)]
  <2>1. /\ song # <<>> /\ ~CompleteSong(song) /\ song' = Append(song, note)
        /\ note.tokens = MaskStep(raw, n, song[n].eos.ended)
        /\ note.eos = EosUpdate(song[n].eos, note.tokens)
        /\ IF CompleteSong(song') THEN result' # None ELSE result' = result
    BY <1>b DEF Writes
  <2>2. /\ EndsAreTracked(song')
        /\ TokensOf(song') = Append(TokensOf(song), note.tokens)
        /\ song' \in Seq(NoteType) /\ song' # <<>>
    BY <1>0, <1>2, <2>1, EndsStayTracked, AppendProperties, EmptySeq
  <2>3. /\ \A q \in Streams : Uninterrupted!EndedIn(TokensOf(song), q) <=> song[n].eos.ended[q]
        /\ Uninterrupted!Complete(TokensOf(song)) <=> CompleteSong(song)
        /\ Uninterrupted!Complete(TokensOf(song')) <=> CompleteSong(song')
    BY <1>0, <1>2, <2>1, <2>2, CompletionAgrees
  <2>4. RInv'
    BY <1>3, <2>1, <2>2
  <2>5. TokensOf(song) # <<>> /\ Len(TokensOf(song)) = n
    <3>1. n \in Nat /\ n \in 0 .. n /\ n # 0
      BY <1>2, <2>1, EmptySeq
    <3> QED
      BY <1>2, <3>1, TokensPrefix, EmptySeq DEF TokensOf
  <2>6. note.tokens = Uninterrupted!MaskStep(raw, n, ended)
    <3>1. \A q \in Streams : ended[q] <=> song[n].eos.ended[q]
      BY <2>3
    <3> HIDE DEF ended
    <3>2. MaskStep(raw, n, ended) = MaskStep(raw, n, song[n].eos.ended)
      BY <3>1 DEF MaskStep
    <3> QED
      BY <2>1, <3>2, SameRules
  <2>7. result' = IF Uninterrupted!Complete(TokensOf(song'))
                  THEN Uninterrupted!FramesOf(TokensOf(song')) ELSE None
    BY <1>0, <1>1, <2>1, <2>3, ResultOfSong, SameRules
  <2>8. raw \in [Uninterrupted!Streams -> Uninterrupted!SampledIds]
    BY <1>b, SameRules
  <2>9. ended = [q \in Uninterrupted!Streams |-> Uninterrupted!EndedIn(TokensOf(song), q)]
    BY SameRules
  <2>10. Uninterrupted!Extend
    BY <2>1, <2>2, <2>3, <2>5, <2>6, <2>7, <2>8, <2>9, MappedStream DEF Uninterrupted!Extend
  <2> QED
    BY <2>4, <2>10 DEF Uninterrupted!Next
<1>c. CASE song = <<>> /\ song' = <<FirstNote>> /\ UNCHANGED result
  <2>1. RInv'
    BY <1>3, <1>c, FirstNoteEndsNothing
  <2>2. TokensOf(song) = <<>>
    <3>1. TokensOf(song) \in Seq(Triples) /\ Len(TokensOf(song)) = 0
      BY <1>c, TypesOfIdle, TokensPrefix DEF TokensOf
    <3> QED
      BY <3>1, EmptySeq
  <2>3. Uninterrupted!Begin
    BY <1>c, <2>2, FirstNoteEndsNothing, MappedStream, SameRules DEF Uninterrupted!Begin
  <2> QED
    BY <2>1, <2>3 DEF Uninterrupted!Next
<1> QED
  BY <1>0, <1>a, <1>b, <1>c, IterationShape, OtherShape

(* docs/resumability-plan.md: a job that is cancelled, lost, replayed and  *)
(* resumed generates one stream and outputs its frames once, exactly as    *)
(* one uninterrupted run of the controller's loop would have.              *)
THEOREM ResumableImplementsStream == Spec => ImplementsTokenStream
<1>1. RInv /\ [Next]_vars => RInv' /\ [Uninterrupted!Next]_(Uninterrupted!svars)
  BY StepRefines
<1> QED
  BY InitRefines, <1>1, PTL DEF Spec, ImplementsTokenStream, Uninterrupted!Spec

-----------------------------------------------------------------------------
(* What step i - 1 recorded for stream q: an EOS only where the step holds *)
(* a frame of the stream, and a sampled id wherever it holds one and the   *)
(* stream had not ended before.                                            *)
LEMMA RecordedToken ==
  ASSUME RInv, NEW i \in 1 .. Len(song), NEW q \in Streams
  PROVE  /\ song[i].tokens[q] = EosToken
              => Delays[q] < i - 1 /\ i - 1 <= Delays[q] + Frames
         /\ Delays[q] < i - 1 /\ i - 1 <= Delays[q] + Frames
              /\ (\A j \in 1 .. i - 1 : song[j].tokens[q] # EosToken)
              => song[i].tokens[q] \in SampledIds
<1>0. /\ song \in Seq(NoteType) /\ Len(song) \in Nat /\ Len(song) <= SequenceSteps
      /\ Delays[q] \in Nat /\ SequenceSteps \in Nat /\ EndsAreTracked(song)
  BY RulesTypes DEF RInv, IInv, TypeOK, SongInv
<1>1. CASE i = 1
  <2>1. song[1].tokens = Bos
    BY <1>0, EmptySeq DEF RInv, IInv, SongInv, FirstNote
  <2>2. Bos[q] # EosToken
    BY RulesTypes DEF Bos, SpecialToken, EosToken
  <2> QED
    BY <1>0, <1>1, <2>1, <2>2
<1>2. CASE i # 1
  <2> DEFINE k == i - 1
  <2>1. k \in 1 .. Len(song) - 1 /\ k \in 1 .. Len(song) /\ k + 1 = i /\ k \in 0 .. SequenceSteps - 1
    BY <1>0, <1>2
  <2>2. /\ song[k + 1].raw \in [Streams -> SampledIds]
        /\ song[k + 1].tokens = MaskStep(song[k + 1].raw, k, song[k].eos.ended)
    BY <2>1 DEF RInv, IInv, SongInv
  <2>3. song[i].tokens[q] = IF Masked(q, k) \/ song[k].eos.ended[q]
                            THEN SpecialToken ELSE song[i].raw[q]
    BY <2>1, <2>2 DEF MaskStep
  <2>4. Masked(q, k) <=> ~(Delays[q] < k /\ k <= Delays[q] + Frames)
    BY <2>1, MaskedBand
  <2>5. song[k].eos.ended[q] <=> \E j \in 1 .. k : song[j].tokens[q] = EosToken
    BY <1>0, <2>1 DEF EndsAreTracked
  <2>6. SpecialToken # EosToken
    BY RulesTypes DEF SpecialToken, EosToken
  <2>7. song[i].raw[q] \in SampledIds
    BY <2>1, <2>2
  <2>8. song[i].tokens[q] = EosToken => Delays[q] < k /\ k <= Delays[q] + Frames
    BY <2>3, <2>4, <2>6
  <2>9. Delays[q] < k /\ k <= Delays[q] + Frames
          /\ (\A j \in 1 .. k : song[j].tokens[q] # EosToken)
          => song[i].tokens[q] \in SampledIds
    BY <2>3, <2>4, <2>5, <2>7
  <2> QED
    BY <2>8, <2>9
<1> QED
  BY <1>1, <1>2

(* The frames of a complete song below its trim are codec tokens, and the  *)
(* trim is the tensor's length or the frame of a recorded EOS; an EOS of   *)
(* the first frame leaves nothing.                                         *)
LEMMA CompleteSongFrames ==
  ASSUME RInv, CompleteSong(song)
  PROVE  LET values == Reverted(TokensOf(song))
             n == TrimLength(values)
         IN /\ n \in 0 .. Frames
            /\ \A q \in Streams : \A t \in 0 .. n - 1 : values[q][t] \in Codes
            /\ n = Frames \/ \E q \in Streams : EndsAt(q, n)
            /\ (\E q \in Streams : EndsAt(q, 0)) => n = 0
<1> DEFINE seq == TokensOf(song)
           values == Reverted(seq)
           n == TrimLength(values)
<1>0. /\ song \in Seq(NoteType) /\ Len(song) \in Nat /\ song # <<>>
      /\ EndsAreTracked(song) /\ Len(song) \in 1 .. Len(song)
  BY EmptySeq DEF RInv, IInv, TypeOK, CompleteSong
<1>1. seq \in Seq(Triples) /\ Len(seq) = Len(song) /\ \A i \in 1 .. Len(song) : seq[i] = song[i].tokens
  BY <1>0, TokensPrefix DEF TokensOf
<1>t. \A q \in Streams : Delays[q] \in Nat /\ Delays[q] <= Delays[2] /\ Delays[2] \in Nat
  BY RulesTypes DEF Streams
<1> HIDE DEF seq
<1>2. \A q \in Streams : \A t \in 0 .. Frames - 1 :
        values[q][t] = IF t + 1 + Delays[q] < Len(song)
                       THEN song[t + 2 + Delays[q]].tokens[q] ELSE SpecialToken
  <2> SUFFICES ASSUME NEW q \in Streams, NEW t \in 0 .. Frames - 1
               PROVE  values[q][t] = IF t + 1 + Delays[q] < Len(song)
                                     THEN song[t + 2 + Delays[q]].tokens[q] ELSE SpecialToken
    OBVIOUS
  <2>1. values[q][t] = IF t + 1 + Delays[q] < Len(seq) THEN seq[t + 2 + Delays[q]][q] ELSE SpecialToken
    BY <1>1, RevertedValue
  <2>2. t + 1 + Delays[q] < Len(song) => t + 2 + Delays[q] \in 1 .. Len(song)
    BY <1>0, <1>t, RulesTypes
  <2> HIDE DEF values
  <2> QED
    BY <1>1, <2>1, <2>2
<1> HIDE DEF values
<1>3. /\ n \in 0 .. Frames
      /\ \A q \in Streams : \A t \in 0 .. Frames - 1 : t < n => values[q][t] # EosToken
      /\ n = Frames \/ (n \in 0 .. Frames - 1 /\ \E q \in Streams : values[q][n] = EosToken)
  BY TrimAtEarliestEos
<1> HIDE DEF n
<1>4. ASSUME NEW q \in Streams, NEW t \in 0 .. n - 1
      PROVE  values[q][t] \in Codes
  <2> DEFINE i == t + 2 + Delays[q]
  <2>0. t \in 0 .. Frames - 1 /\ t < n /\ t \in Nat /\ Frames \in Nat /\ n \in Nat /\ Delays[q] \in Nat
    BY <1>3, <1>t, RulesTypes
(* An EOS recorded before this frame's step would have trimmed the frame.  *)
  <2>1. ASSUME NEW j \in 1 .. Len(song), j < i PROVE song[j].tokens[q] # EosToken
    <3>1. SUFFICES ASSUME song[j].tokens[q] = EosToken PROVE FALSE
      OBVIOUS
    <3>2. Delays[q] < j - 1 /\ j - 1 <= Delays[q] + Frames
      BY <3>1, RecordedToken
    <3> DEFINE u == j - 2 - Delays[q]
    <3>3. u \in 0 .. Frames - 1 /\ u < n /\ u + 1 + Delays[q] < Len(song) /\ u + 2 + Delays[q] = j
      BY <1>0, <2>0, <2>1, <3>2, SMTT(20)
    <3>4. values[q][u] = EosToken
      BY <1>2, <3>1, <3>3
    <3> QED
      BY <1>3, <3>3, <3>4
  <2>2. i \in 1 .. Len(song)
    <3>1. CASE Len(song) = SequenceSteps
      BY <1>t, <2>0, <3>1, RulesTypes
    <3>2. CASE AllEnded(song[Len(song)].eos)
      <4>1. PICK j \in 1 .. Len(song) : song[j].tokens[q] = EosToken
        BY <1>0, <3>2 DEF EndsAreTracked, AllEnded
      <4> QED
        BY <1>0, <2>0, <2>1, <4>1
    <3> QED
      BY <3>1, <3>2 DEF CompleteSong
  <2>3. values[q][t] = song[i].tokens[q]
    BY <1>0, <1>2, <2>0, <2>2
  <2>4. song[i].tokens[q] \in SampledIds
    <3>1. Delays[q] < i - 1 /\ i - 1 <= Delays[q] + Frames
      BY <2>0
    <3>2. \A j \in 1 .. i - 1 : song[j].tokens[q] # EosToken
      <4>1. \A j \in 1 .. i - 1 : j \in 1 .. Len(song) /\ j < i
        BY <1>0, <2>0, <2>2
      <4> QED
        BY <2>1, <4>1
    <3>3. Delays[q] < i - 1 /\ i - 1 <= Delays[q] + Frames
            /\ (\A j \in 1 .. i - 1 : song[j].tokens[q] # EosToken)
            => song[i].tokens[q] \in SampledIds
      <4> HIDE DEF i
      <4> QED
        BY <2>2, RecordedToken
    <3> QED
      BY <3>1, <3>2, <3>3
  <2>5. values[q][t] # EosToken
    BY <1>3, <2>0
  <2> QED
    BY <2>3, <2>4, <2>5, RulesTypes DEF SampledIds, Codes, EosToken
<1>5. ASSUME n # Frames PROVE \E q \in Streams : EndsAt(q, n)
  <2>1. PICK q \in Streams : n \in 0 .. Frames - 1 /\ values[q][n] = EosToken
    BY <1>3, <1>5
  <2>2. SpecialToken # EosToken
    BY RulesTypes DEF SpecialToken, EosToken
  <2> DEFINE i == n + 2 + Delays[q]
  <2>3. n + 1 + Delays[q] < Len(song) /\ song[i].tokens[q] = EosToken
    BY <1>2, <2>1, <2>2
  <2>4. i \in 1 .. Len(song) /\ i - 2 - Delays[q] = n
    <3>1. n \in Nat /\ Delays[q] \in Nat
      BY <1>t, <2>1, RulesTypes
    <3> QED
      BY <1>0, <2>3, <3>1
  <2> HIDE DEF i
  <2> QED
    BY <2>1, <2>3, <2>4 DEF EndsAt
<1>6. ASSUME NEW q \in Streams, EndsAt(q, 0) PROVE n = 0
  <2>1. PICK i \in 1 .. Len(song) : song[i].tokens[q] = EosToken /\ i - 2 - Delays[q] = 0
    BY <1>6 DEF EndsAt
  <2>2. i = 0 + 2 + Delays[q] /\ 0 + 1 + Delays[q] < Len(song) /\ 0 \in 0 .. Frames - 1
    BY <1>0, <1>t, <2>1, RulesTypes
  <2>3. values[q][0] = EosToken
    BY <1>2, <2>1, <2>2
  <2> QED
    BY <1>3, <2>2, <2>3
<1> QED
  BY <1>3, <1>4, <1>5, <1>6 DEF n, values, seq

(* Every completed run returns codec tokens only, cut at the earliest EOS  *)
(* of any stream: what revert and trim leave is what the renderer accepts, *)
(* unless a stream ends in its first frame and they leave nothing.         *)
THEOREM ReturnedFramesAreCodecTokens == Spec => []FramesAreCodecTokens
<1>1. RInv => FramesAreCodecTokens
  <2> SUFFICES ASSUME RInv, result # None PROVE FramesAreCodecTokens
    BY DEF FramesAreCodecTokens
  <2> DEFINE values == Reverted(TokensOf(song))
             n == TrimLength(values)
  <2>1. CompleteSong(song) /\ result = FramesOf(TokensOf(song))
    BY MappedStream DEF RInv, IInv, ResultInv, CompleteSong
  <2>2. /\ n \in 0 .. Frames
        /\ \A q \in Streams : \A t \in 0 .. n - 1 : values[q][t] \in Codes
        /\ n = Frames \/ \E q \in Streams : EndsAt(q, n)
        /\ (\E q \in Streams : EndsAt(q, 0)) => n = 0
    BY <2>1, CompleteSongFrames
  <2>3. result = [q \in Streams |-> [t \in 0 .. n - 1 |-> values[q][t]]]
    BY <2>1 DEF FramesOf
  <2> HIDE DEF n, values
  <2>4. \A q \in Streams : DOMAIN result[q] = 0 .. n - 1
          /\ \A t \in DOMAIN result[q] : result[q][t] \in Codes
    BY <2>2, <2>3
  <2>5. RendererAccepts(result) <=> n # 0
    <3>1. n # 0 => RendererAccepts(result)
      <4> SUFFICES ASSUME n # 0 PROVE RendererAccepts(result)
        OBVIOUS
      <4>1. n \in 1 .. Frames
        BY <2>2, RulesTypes
      <4> QED
        BY <2>4, <4>1 DEF RendererAccepts
    <3>2. RendererAccepts(result) => n # 0
      <4> SUFFICES ASSUME RendererAccepts(result), n = 0 PROVE FALSE
        OBVIOUS
      <4>1. PICK m \in 1 .. Frames : \A q \in Streams : DOMAIN result[q] = 0 .. m - 1
        BY DEF RendererAccepts
      <4>2. 0 \in 0 .. m - 1 /\ 0 \notin 0 .. n - 1 /\ 0 \in Streams
        BY RulesTypes DEF Streams
      <4> QED
        BY <2>4, <4>1, <4>2
    <3> QED
      BY <3>1, <3>2
  <2>6. n # 0 <=> ~ \E q \in Streams : EndsAt(q, 0)
    BY <2>2, RulesTypes
  <2> QED
    BY <2>2, <2>4, <2>5, <2>6 DEF FramesAreCodecTokens
<1>2. RInv /\ [Next]_vars => RInv'
  BY StepRefines
<1> QED
  BY InitRefines, <1>1, <1>2, PTL DEF Spec
=============================================================================
