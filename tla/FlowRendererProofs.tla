------------------------- MODULE FlowRendererProofs --------------------------
(***************************************************************************)
(* For every source length, schedule, number of Euler steps, set of        *)
(* engines and number of interruptions: a DIFFUSE stage that was paused,   *)
(* lost and resumed returns the latents of one uninterrupted run.          *)
(***************************************************************************)
EXTENDS FlowRenderer, SequenceTheorems, FiniteSetTheorems, WellFoundedInduction, TLAPS

(* The first k Euler updates of a window of the job.                       *)
Applied(k) == [i \in 1 .. k |-> [engine |-> job, time |-> i - 1]]

(* The latents of n finished windows, and the state of the next one.       *)
Finished(n) == [w \in 1 .. n |-> Whole(w)]
Partial(n, k) == Append(Whole(n), Applied(k))

(* The blobs of an uninterrupted run, between windows and inside one.      *)
BlobBetween(n) ==
  [completed |-> Finished(n), active |-> FALSE, active_index |-> 0,
   euler |-> NoCheckpoint, stamp |-> job]
BlobInside(n, k) ==
  [completed |-> Finished(n), active |-> TRUE, active_index |-> n,
   euler |-> [completed_steps |-> k, state |-> Partial(n, k)], stamp |-> job]

Unfinished == 0 .. WindowsCount - 1
Running == {"window", "euler"}

PhaseInv ==
  /\ phase \in {"idle", "window", "euler", "paused", "rejected", "done"}
  /\ job \in Engines \cup {None}
  /\ job = None => phase = "idle" /\ blobs = {} /\ result = None
  /\ phase \in Running => engine = job

(* A stage that does not run holds nothing, and no solver state outlives   *)
(* the solver.                                                             *)
IdleInv ==
  /\ phase \notin Running => resume = None /\ windows = <<>>
  /\ phase # "euler" => state = <<>> /\ step = 0 /\ checkpoint = NoCheckpoint

BlobsInv ==
  \A b \in blobs :
    \E n \in Unfinished : b = BlobBetween(n) \/ \E k \in 0 .. Steps - 1 : b = BlobInside(n, k)

(* The blob being resumed lies behind the window that is rendered.         *)
ResumeInv ==
  resume # None => /\ resume \in blobs
                   /\ resume.active => resume.active_index <= Len(windows)

WindowsInv == phase \in Running => \E n \in Unfinished : windows = Finished(n)

EulerInv ==
  phase = "euler" =>
    /\ step \in 0 .. Steps - 1
    /\ state = Partial(Len(windows), step)
    /\ checkpoint = [completed_steps |-> step, state |-> state]

(* Counts stay within what was announced.                                  *)
BoundsInv ==
  /\ engine \in Engines \cup {None}
  /\ counter \in 0 .. WindowsCount * Steps
  /\ interruptions \in 0 .. MaxInterruptions

(* The count of a run stands for the updates it holds or will restore.     *)
CounterInv ==
  /\ phase = "window" =>
       counter = Len(windows) * Steps
                 + (IF ResumesActiveWindow(Len(windows)) THEN resume.euler.completed_steps ELSE 0)
  /\ phase = "euler" => counter = Len(windows) * Steps + step

IInv ==
  /\ PhaseInv /\ IdleInv /\ BlobsInv /\ ResumeInv /\ WindowsInv /\ EulerInv /\ CounterInv
  /\ BoundsInv /\ ResultIsUninterrupted /\ OnlyForeignEnginesRejected

-----------------------------------------------------------------------------
(* There is at least one window, whatever the source's length.             *)
LEMMA SomeWindow == WindowsCount \in Nat \ {0}
<1> DEFINE padded == IF SourceFrames <= WindowFrames THEN WindowFrames
                     ELSE Groups(SourceFrames) * HopFrames + OverlapFrames
<1>1. /\ HopFrames \in Nat \ {0} /\ OverlapFrames \in Nat /\ SourceFrames \in Nat
      /\ WindowFrames = HopFrames + OverlapFrames
  BY ScheduleAssumption, FlowAssumption
<1>2. padded \in Nat /\ padded >= WindowFrames
  <2>1. CASE SourceFrames <= WindowFrames
    BY <1>1, <2>1
  <2>2. CASE SourceFrames > WindowFrames
    <3> DEFINE base == SourceFrames - OverlapFrames
               quotient == base \div HopFrames
    <3>1. base \in Nat /\ base >= HopFrames
      BY <1>1, <2>2
    <3>2. quotient \in Nat /\ quotient >= 1
      BY <1>1, <3>1
    <3>3. Groups(SourceFrames) \in Nat /\ Groups(SourceFrames) >= 1
      BY <1>1, <3>2 DEF Groups
    <3>4. \A g \in Nat : g >= 1 => g * HopFrames \in Nat /\ g * HopFrames >= HopFrames
      BY <1>1
    <3> QED
      BY <1>1, <2>2, <3>3, <3>4
  <2> QED
    BY <1>1, <2>1, <2>2
<1>3. (padded - WindowFrames) \div HopFrames \in Nat
  BY <1>1, <1>2
<1> QED
  BY <1>3 DEF WindowsCount, FlowWindowCount

(* One more update is appended.                                            *)
LEMMA AppliedNext ==
  ASSUME NEW k \in Nat
  PROVE  /\ Len(Applied(k)) = k /\ Applied(k) \in Seq([engine : {job}, time : Nat])
         /\ Applied(k + 1) = Append(Applied(k), [engine |-> job, time |-> k])
         /\ Applied(0) = <<>>
BY DEF Applied

(* A finished window is one that got its last update.                      *)
LEMMA WholeNext ==
  ASSUME NEW n \in Nat
  PROVE  /\ Len(Whole(n)) = n /\ Whole(n) \in Seq({Applied(Steps)})
         /\ Whole(n + 1) = Partial(n, Steps)
         /\ Whole(0) = <<>>
BY FlowAssumption DEF Whole, Partial, Applied

(* The next window continues the last finished one.                        *)
LEMMA FinishedNext ==
  ASSUME NEW n \in Nat
  PROVE  /\ Len(Finished(n)) = n /\ Finished(n) \in Seq({Whole(w) : w \in Nat})
         /\ Finished(n + 1) = Append(Finished(n), Whole(n + 1))
         /\ Finished(0) = <<>>
         /\ PriorRaw(Finished(n)) = Whole(n)
<1>1. /\ Len(Finished(n)) = n /\ Finished(n) \in Seq({Whole(w) : w \in Nat})
      /\ Finished(0) = <<>>
  BY DEF Finished
<1>2. Finished(n + 1) = Append(Finished(n), Whole(n + 1))
  BY DEF Finished
<1>3. PriorRaw(Finished(n)) = Whole(n)
  <2>1. CASE n = 0
    BY <1>1, <2>1, WholeNext DEF PriorRaw
  <2>2. CASE n # 0
    <3>1. Finished(n) # <<>> /\ Finished(n)[n] = Whole(n)
      BY <1>1, <2>2 DEF Finished
    <3> QED
      BY <1>1, <3>1 DEF PriorRaw, Last
  <2> QED
    BY <2>1, <2>2
<1> QED
  BY <1>1, <1>2, <1>3

(* Before the first run nothing is held, and nothing was handed out.       *)
LEMMA InitIInv == Init => IInv
<1> SUFFICES ASSUME Init PROVE IInv
  OBVIOUS
<1>1. PhaseInv /\ IdleInv /\ BlobsInv /\ ResumeInv
  BY DEF Init, PhaseInv, IdleInv, BlobsInv, ResumeInv, Running
<1>2. WindowsInv /\ EulerInv /\ CounterInv
  BY DEF Init, WindowsInv, EulerInv, CounterInv, Running
<1>3. ResultIsUninterrupted /\ OnlyForeignEnginesRejected
  BY DEF Init, ResultIsUninterrupted, OnlyForeignEnginesRejected
<1>4. BoundsInv
  <2>1. WindowsCount * Steps \in Nat
    BY SomeWindow, FlowAssumption
  <2> QED
    BY <2>1, FlowAssumption DEF Init, BoundsInv
<1> QED
  BY <1>1, <1>2, <1>3, <1>4 DEF IInv

(* The terms of the uninterrupted run speak of the job alone.              *)
LEMMA SameJobSameTerms ==
  ASSUME job' = job
  PROVE  /\ \A n : Whole(n)' = Whole(n) /\ Finished(n)' = Finished(n)
         /\ \A n, k : Partial(n, k)' = Partial(n, k)
         /\ \A n : BlobBetween(n)' = BlobBetween(n)
         /\ \A n, k : BlobInside(n, k)' = BlobInside(n, k)
         /\ Unfinished' = Unfinished
<1>1. \A n : Whole(n)' = Whole(n) /\ Finished(n)' = Finished(n)
  BY DEF Whole, Finished
<1>2. \A n, k : Partial(n, k)' = Partial(n, k)
  BY DEF Partial, Applied, Whole
<1>3. \A n : BlobBetween(n)' = BlobBetween(n)
  BY <1>1 DEF BlobBetween
<1>4. \A n, k : BlobInside(n, k)' = BlobInside(n, k)
  BY <1>1, <1>2 DEF BlobInside
<1>5. Unfinished' = Unfinished
  BY DEF Unfinished
<1> QED
  BY <1>1, <1>2, <1>3, <1>4, <1>5

(* The terms of the uninterrupted run have the types of the variables.     *)
LEMMA TermTypes ==
  ASSUME job \in Engines, NEW n \in Nat
  PROVE  /\ Whole(n) \in Latents
         /\ Finished(n) \in Seq(Latents)
         /\ \A k \in 0 .. Steps : Partial(n, k) \in Latents
<1>1. \A k \in 0 .. Steps : Applied(k) \in Seq(Updates)
  BY FlowAssumption DEF Applied, Updates
<1>2. \A m \in Nat : Whole(m) \in Latents
  <2> SUFFICES ASSUME NEW m \in Nat PROVE Whole(m) \in Latents
    OBVIOUS
  <2>1. Applied(Steps) \in Seq(Updates)
    BY <1>1, FlowAssumption
  <2>2. Whole(m) = [i \in 1 .. m |-> Applied(Steps)]
    BY DEF Whole, Applied
  <2> QED
    BY <2>1, <2>2 DEF Latents
<1>3. Finished(n) \in Seq(Latents)
  BY <1>2 DEF Finished
<1>4. \A k \in 0 .. Steps : Partial(n, k) \in Latents
  BY <1>1, <1>2 DEF Partial, Latents
<1> QED
  BY <1>2, <1>3, <1>4

(* A blob of the job tells where it stopped, and its engine accepts it.    *)
LEMMA OwnBlob ==
  ASSUME BlobsInv, job \in Engines, NEW b \in blobs
  PROVE  /\ Accepts(b, job) /\ b.stamp = job /\ b \in BlobType /\ b # None
         /\ \E n \in Unfinished :
              /\ b.completed = Finished(n) /\ Len(b.completed) = n
              /\ b.active \in BOOLEAN
              /\ b.active => /\ b.active_index = n
                            /\ \E k \in 0 .. Steps - 1 :
                                 b.euler = [completed_steps |-> k, state |-> Partial(n, k)]
<1>1. PICK n \in Unfinished : b = BlobBetween(n) \/ \E k \in 0 .. Steps - 1 : b = BlobInside(n, k)
  BY DEF BlobsInv
<1>2. /\ n \in Nat /\ n < WindowsCount /\ WindowsCount \in Nat
      /\ Steps \in Nat \ {0}
  BY SomeWindow, FlowAssumption DEF Unfinished
<1>3. Len(Finished(n)) = n /\ Finished(n) \in Seq(Latents)
  BY <1>2, FinishedNext, TermTypes
<1> DEFINE Inside == \E k \in 0 .. Steps - 1 :
                        b.euler = [completed_steps |-> k, state |-> Partial(n, k)]
<1>4. CASE b = BlobBetween(n)
  <2>1. NoCheckpoint \in Checkpoints
    BY <1>2 DEF NoCheckpoint, Checkpoints, Latents
  <2>2. b \in BlobType
    BY <1>3, <1>4, <2>1 DEF BlobBetween, BlobType
  <2>3. b.completed = Finished(n) /\ b.active = FALSE /\ b.stamp = job
    BY <1>4 DEF BlobBetween
  <2>4. Accepts(b, job)
    BY <1>2, <1>3, <2>3 DEF Accepts
  <2> QED
    BY <1>1, <1>3, <2>2, <2>3, <2>4, NoneIsNoBlob
<1>5. ASSUME NEW k \in 0 .. Steps - 1, b = BlobInside(n, k)
      PROVE  b \in BlobType /\ Accepts(b, job)
  <2>1. [completed_steps |-> k, state |-> Partial(n, k)] \in Checkpoints
    BY <1>2, TermTypes DEF Checkpoints
  <2>2. b \in BlobType
    BY <1>2, <1>3, <1>5, <2>1 DEF BlobInside, BlobType
  <2> QED
    BY <1>2, <1>3, <1>5, <2>2 DEF BlobInside, Accepts
<1>6. CASE \E k \in 0 .. Steps - 1 : b = BlobInside(n, k)
  <2>1. b \in BlobType /\ Accepts(b, job)
    BY <1>5, <1>6
  <2>2. /\ b.completed = Finished(n) /\ b.active = TRUE /\ b.stamp = job
        /\ b.active_index = n /\ Inside
    BY <1>6 DEF BlobInside
  <2> QED
    BY <1>1, <1>3, <2>1, <2>2, NoneIsNoBlob
<1> QED
  BY <1>1, <1>4, <1>6

(* One update of the solver takes a partial window one update further.     *)
LEMMA UpdateExtends ==
  ASSUME NEW n \in Nat, NEW k \in Nat, windows = Finished(n), engine = job
  PROVE  EulerUpdate(Partial(n, k), k) = Partial(n, k + 1)
<1>1. PriorRaw(windows) = Whole(n)
  BY FinishedNext
<1>2. Last(Partial(n, k)) = Applied(k)
  BY WholeNext, AppliedNext DEF Partial, Last
<1>3. Append(Applied(k), [engine |-> engine, time |-> k]) = Applied(k + 1)
  BY AppliedNext
<1> QED
  BY <1>1, <1>2, <1>3 DEF EulerUpdate, Partial

(* A window starts from its noise: no update of its own yet.               *)
LEMMA NoiseIsPartial ==
  ASSUME NEW n \in Nat
  PROVE  Noise(Finished(n)) = Partial(n, 0)
BY FinishedNext, AppliedNext DEF Noise, Partial

(* A count of updates inside an unfinished window stays in its bounds.     *)
LEMMA CountInBounds ==
  ASSUME NEW n \in Unfinished, NEW k \in 0 .. Steps
  PROVE  /\ n * Steps + k \in 0 .. WindowsCount * Steps
         /\ n * Steps \in Nat /\ (n + 1) * Steps = n * Steps + Steps
<1>1. n \in Nat /\ n + 1 <= WindowsCount /\ WindowsCount \in Nat /\ Steps \in Nat
  BY SomeWindow, FlowAssumption DEF Unfinished
<1>2. (n + 1) * Steps = n * Steps + Steps /\ n * Steps \in Nat
  BY <1>1
<1>3. (n + 1) * Steps <= WindowsCount * Steps /\ WindowsCount * Steps \in Nat
  BY <1>1
<1> QED
  BY <1>1, <1>2, <1>3

-----------------------------------------------------------------------------
(* A step that leaves the job leaves what was handed out and returned.     *)
LEMMA StaysTrue ==
  ASSUME IInv, job' = job
  PROVE  /\ blobs' = blobs => BlobsInv'
         /\ result' = result => ResultIsUninterrupted'
<1>1. blobs' = blobs => BlobsInv'
  BY SameJobSameTerms DEF IInv, BlobsInv
<1>2. result' = result => ResultIsUninterrupted'
  BY SameJobSameTerms DEF IInv, ResultIsUninterrupted, WindowsCount
<1> QED
  BY <1>1, <1>2

(* A stage that ends with Idle holds nothing.                              *)
LEMMA IdleKeeps ==
  ASSUME Idle, phase' \notin Running
  PROVE  IdleInv' /\ ResumeInv' /\ WindowsInv' /\ EulerInv' /\ CounterInv'
BY DEF Idle, IdleInv, ResumeInv, WindowsInv, EulerInv, CounterInv, Running

(* A first run, or a run from the start again.                             *)
LEMMA StartKeeps ==
  ASSUME IInv, NEW e \in Engines, Start(e)
  PROVE  IInv'
<1>1. /\ phase = "idle" /\ phase' = "window" /\ job' = e /\ engine' = e /\ counter' = 0
      /\ UNCHANGED <<resume, windows, state, step, checkpoint, blobs, result, interruptions>>
      /\ job \in {None, e}
  BY DEF Start
<1>2. resume = None /\ windows = <<>> /\ 0 \in Unfinished
  BY <1>1, SomeWindow DEF IInv, IdleInv, Running, Unfinished
<1>3. PhaseInv'
  BY <1>1, FlowAssumption DEF PhaseInv
<1>4. BlobsInv' /\ ResultIsUninterrupted'
  <2>1. CASE job = e
    BY <1>1, <2>1, StaysTrue
  <2>2. CASE job = None
    BY <1>1, <2>2 DEF IInv, PhaseInv, BlobsInv, ResultIsUninterrupted
  <2> QED
    BY <1>1, <2>1, <2>2
<1>5. IdleInv' /\ ResumeInv' /\ EulerInv' /\ OnlyForeignEnginesRejected'
  <2>1. state = <<>> /\ step = 0 /\ checkpoint = NoCheckpoint
    BY <1>1 DEF IInv, IdleInv
  <2>2. NoCheckpoint' = NoCheckpoint
    BY DEF NoCheckpoint
  <2> QED
    BY <1>1, <1>2, <2>1, <2>2
    DEF IdleInv, ResumeInv, EulerInv, OnlyForeignEnginesRejected, Running
<1>6. WindowsInv'
  <2>1. Finished(0)' = <<>> /\ Unfinished' = Unfinished
    BY DEF Finished, Unfinished
  <2> QED
    BY <1>1, <1>2, <2>1 DEF WindowsInv
<1>7. CounterInv'
  BY <1>1, <1>2, FlowAssumption DEF CounterInv, ResumesActiveWindow
<1>8. BoundsInv'
  BY <1>1, SomeWindow, FlowAssumption DEF IInv, BoundsInv
<1> QED
  BY <1>3, <1>4, <1>5, <1>6, <1>7, <1>8 DEF IInv

(* A run from a blob: its own engine takes it up where it stopped, another *)
(* one is turned away.                                                     *)
LEMMA ResumeKeeps ==
  ASSUME IInv, NEW b \in blobs, NEW e \in Engines, Resume(b, e)
  PROVE  IInv'
<1>1. /\ phase \notin Running /\ engine' = e
      /\ blobs' = blobs /\ result' = result /\ job' = job /\ interruptions' = interruptions
  BY DEF Resume, Running
<1>2. job \in Engines /\ resume = None
  BY <1>1 DEF IInv, PhaseInv, IdleInv
<1>3. BlobsInv' /\ ResultIsUninterrupted'
  BY <1>1, StaysTrue
<1>4. PICK n \in Unfinished :
        /\ b.completed = Finished(n) /\ Len(b.completed) = n
        /\ b.active \in BOOLEAN
        /\ b.active => /\ b.active_index = n
                      /\ \E k \in 0 .. Steps - 1 :
                           b.euler = [completed_steps |-> k, state |-> Partial(n, k)]
  BY <1>2, OwnBlob DEF IInv
<1>5. Accepts(b, job) /\ b.stamp = job /\ b # None
  BY <1>2, OwnBlob DEF IInv
<1>6. CASE Accepts(b, e)
  <2>1. /\ phase' = "window" /\ resume' = b /\ windows' = b.completed
        /\ counter' = Cursor(b)
        /\ UNCHANGED <<state, step, checkpoint>>
    BY <1>6 DEF Resume
  <2>2. e = job
    BY <1>5, <1>6 DEF Accepts
  <2>3. PhaseInv' /\ IdleInv' /\ EulerInv' /\ OnlyForeignEnginesRejected'
    <3>1. state = <<>> /\ step = 0 /\ checkpoint = NoCheckpoint
      BY <1>1 DEF IInv, IdleInv, Running
    <3>2. NoCheckpoint' = NoCheckpoint
      BY DEF NoCheckpoint
    <3> QED
      BY <1>1, <1>2, <2>1, <2>2, <3>1, <3>2, FlowAssumption
      DEF PhaseInv, IdleInv, EulerInv, OnlyForeignEnginesRejected, Running
  <2>4. ResumeInv' /\ WindowsInv'
    BY <1>1, <1>4, <2>1, SameJobSameTerms DEF ResumeInv, WindowsInv, Unfinished
  <2>5. CounterInv'
    BY <1>4, <1>5, <2>1 DEF CounterInv, ResumesActiveWindow, Cursor
  <2>6. BoundsInv'
    <3>1. Cursor(b) \in 0 .. WindowsCount * Steps
      <4>1. CASE b.active
        <5>1. PICK k \in 0 .. Steps - 1 :
                b.euler = [completed_steps |-> k, state |-> Partial(n, k)]
          BY <1>4, <4>1
        <5>2. Cursor(b) = n * Steps + k /\ k \in 0 .. Steps
          BY <1>4, <4>1, <5>1, FlowAssumption DEF Cursor
        <5> QED
          BY <5>2, CountInBounds
      <4>2. CASE ~ b.active
        <5>1. Cursor(b) = n * Steps + 0 /\ 0 \in 0 .. Steps
          BY <1>4, <4>2, FlowAssumption DEF Cursor
        <5> QED
          BY <5>1, CountInBounds
      <4> QED
        BY <4>1, <4>2
    <3> QED
      BY <1>1, <2>1, <3>1 DEF IInv, BoundsInv, WindowsCount
  <2> QED
    BY <1>3, <2>3, <2>4, <2>5, <2>6 DEF IInv
<1>7. CASE ~ Accepts(b, e)
  <2>1. /\ phase' = "rejected"
        /\ UNCHANGED <<resume, windows, state, step, checkpoint, counter>>
    BY <1>7 DEF Resume
  <2>2. e # job
    BY <1>5, <1>7
  <2>3. PhaseInv' /\ IdleInv' /\ ResumeInv' /\ WindowsInv' /\ EulerInv'
    BY <1>1, <1>2, <2>1, FlowAssumption
    DEF IInv, PhaseInv, IdleInv, ResumeInv, WindowsInv, EulerInv, Running
  <2>4. CounterInv' /\ BoundsInv' /\ OnlyForeignEnginesRejected'
    BY <1>1, <2>1, <2>2 DEF IInv, CounterInv, BoundsInv, OnlyForeignEnginesRejected, WindowsCount
  <2> QED
    BY <1>3, <2>3, <2>4 DEF IInv
<1> QED
  BY <1>6, <1>7

(* What a running stage holds.                                             *)
LEMMA RunningFacts ==
  ASSUME IInv, phase \in Running
  PROVE  /\ job \in Engines /\ engine = job
         /\ \E n \in Unfinished : n \in Nat /\ windows = Finished(n) /\ Len(windows) = n
<1>1. job \in Engines /\ engine = job
  BY DEF IInv, PhaseInv, Running
<1>2. PICK n \in Unfinished : windows = Finished(n)
  BY DEF IInv, WindowsInv
<1>3. n \in Nat
  BY SomeWindow DEF Unfinished
<1> QED
  BY <1>1, <1>2, <1>3, FinishedNext

(* The window is entered from its noise, or from the state of the blob     *)
(* that stopped inside it.                                                 *)
LEMMA EnterWindowKeeps ==
  ASSUME IInv, EnterWindow
  PROVE  IInv'
<1>1. /\ phase = "window" /\ phase' = "euler"
      /\ UNCHANGED <<engine, resume, windows, blobs, result, job, interruptions>>
  BY DEF EnterWindow
<1>2. PICK n \in Unfinished : n \in Nat /\ windows = Finished(n) /\ Len(windows) = n
  BY <1>1, RunningFacts DEF Running
<1>3. job \in Engines /\ engine = job
  BY <1>1, RunningFacts DEF Running
<1> DEFINE from == IF ResumesActiveWindow(n) THEN resume.euler
                   ELSE [completed_steps |-> 0, state |-> Noise(windows)]
<1>4. /\ step' = from.completed_steps /\ state' = from.state /\ checkpoint' = from
      /\ counter' = n * Steps + from.completed_steps
  BY <1>2 DEF EnterWindow
<1>5. \E k \in 0 .. Steps - 1 : from = [completed_steps |-> k, state |-> Partial(n, k)]
  <2>1. CASE ResumesActiveWindow(n)
    <3>1. resume \in blobs /\ resume.active /\ resume.active_index = n
      BY <2>1 DEF IInv, ResumeInv, ResumesActiveWindow
    <3>2. PICK m \in Unfinished :
            /\ resume.active_index = m
            /\ \E k \in 0 .. Steps - 1 :
                 resume.euler = [completed_steps |-> k, state |-> Partial(m, k)]
      BY <1>3, <3>1, OwnBlob DEF IInv
    <3> QED
      BY <2>1, <3>1, <3>2
  <2>2. CASE ~ ResumesActiveWindow(n)
    <3>1. from = [completed_steps |-> 0, state |-> Partial(n, 0)]
      BY <1>2, <2>2, NoiseIsPartial
    <3> HIDE DEF from
    <3> QED
      BY <3>1, FlowAssumption
  <2> QED
    BY <2>1, <2>2
<1> HIDE DEF from
<1>6. PICK k \in 0 .. Steps - 1 : from = [completed_steps |-> k, state |-> Partial(n, k)]
  BY <1>5
<1>7. step' = k /\ state' = Partial(n, k) /\ checkpoint' = from /\ counter' = n * Steps + k
  BY <1>4, <1>6
<1>8. BlobsInv' /\ ResultIsUninterrupted'
  BY <1>1, StaysTrue
<1>9. PhaseInv' /\ IdleInv' /\ ResumeInv' /\ OnlyForeignEnginesRejected'
  BY <1>1, <1>3, FlowAssumption
  DEF IInv, PhaseInv, IdleInv, ResumeInv, OnlyForeignEnginesRejected, Running
<1>10. WindowsInv' /\ EulerInv' /\ CounterInv'
  <2>1. WindowsInv'
    BY <1>1, <1>2, SameJobSameTerms DEF WindowsInv
  <2>2. EulerInv'
    <3>1. Partial(Len(windows), step)' = Partial(n, k)
      BY <1>1, <1>2, <1>7, SameJobSameTerms
    <3> QED
      BY <1>1, <1>6, <1>7, <3>1 DEF EulerInv
  <2>3. CounterInv'
    BY <1>1, <1>2, <1>7 DEF CounterInv
  <2> QED
    BY <2>1, <2>2, <2>3
<1>11. BoundsInv'
  <2>1. n * Steps + k \in 0 .. WindowsCount * Steps
    BY CountInBounds, FlowAssumption
  <2> QED
    BY <1>1, <1>7, <2>1 DEF IInv, BoundsInv, WindowsCount
<1> QED
  BY <1>8, <1>9, <1>10, <1>11 DEF IInv

(* One Euler update; the last one of a window completes the window, the    *)
(* last one of the last window the result.                                 *)
LEMMA EulerStepKeeps ==
  ASSUME IInv, EulerStep
  PROVE  IInv'
<1>1. phase = "euler" /\ UNCHANGED <<engine, blobs, job, interruptions>>
  BY DEF EulerStep
<1>2. PICK n \in Unfinished : n \in Nat /\ windows = Finished(n) /\ Len(windows) = n
  BY <1>1, RunningFacts DEF Running
<1>3. job \in Engines /\ engine = job /\ Steps \in Nat \ {0}
  BY <1>1, RunningFacts, FlowAssumption DEF Running
<1>4. step \in 0 .. Steps - 1 /\ state = Partial(n, step)
  BY <1>1, <1>2 DEF IInv, EulerInv
<1>5. EulerUpdate(state, step) = Partial(n, step + 1)
  BY <1>2, <1>3, <1>4, UpdateExtends
<1>6. counter' = n * Steps + step + 1
  BY <1>2 DEF EulerStep
<1>7. BlobsInv'
  BY <1>1, StaysTrue
<1>8. BoundsInv'
  <2>1. n * Steps + (step + 1) \in 0 .. WindowsCount * Steps /\ n * Steps \in Nat
    BY <1>3, <1>4, CountInBounds
  <2>2. counter' \in 0 .. WindowsCount * Steps
    BY <1>3, <1>4, <1>6, <2>1
  <2> QED
    BY <1>1, <2>2 DEF IInv, BoundsInv, WindowsCount
<1>9. CASE step + 1 < Steps
  <2>1. /\ step' = step + 1 /\ state' = Partial(n, step + 1)
        /\ checkpoint' = [completed_steps |-> step + 1, state |-> Partial(n, step + 1)]
        /\ UNCHANGED <<phase, windows, result, resume>>
    BY <1>5, <1>9 DEF EulerStep
  <2>2. PhaseInv' /\ IdleInv' /\ ResumeInv' /\ OnlyForeignEnginesRejected'
    BY <1>1, <2>1
    DEF IInv, PhaseInv, IdleInv, ResumeInv, OnlyForeignEnginesRejected, Running
  <2>3. WindowsInv' /\ ResultIsUninterrupted'
    BY <1>1, <1>2, <2>1, SameJobSameTerms, StaysTrue DEF WindowsInv
  <2>4. EulerInv'
    <3>1. Partial(Len(windows), step)' = Partial(n, step + 1)
      BY <1>1, <1>2, <2>1, SameJobSameTerms
    <3>2. step' \in 0 .. Steps - 1
      BY <1>3, <1>4, <1>9, <2>1
    <3> QED
      BY <1>1, <2>1, <3>1, <3>2 DEF EulerInv
  <2>5. CounterInv'
    <3>1. n * Steps \in Nat /\ step \in Nat
      BY <1>3, <1>4, CountInBounds
    <3> QED
      BY <1>1, <1>2, <1>6, <2>1, <3>1 DEF CounterInv
  <2> QED
    BY <1>7, <1>8, <2>2, <2>3, <2>4, <2>5 DEF IInv
<1>10. CASE step + 1 = Steps
  <2>1. Append(windows, EulerUpdate(state, step)) = Finished(n + 1)
    BY <1>2, <1>5, <1>10, WholeNext, FinishedNext
  <2>2. Len(Finished(n + 1)) = n + 1
    <3>1. n + 1 \in Nat
      BY <1>2
    <3> QED
      BY <3>1, FinishedNext
  <2>3. CASE n + 1 < WindowsCount
    <3>1. /\ phase' = "window" /\ windows' = Finished(n + 1)
          /\ state' = <<>> /\ step' = 0 /\ checkpoint' = NoCheckpoint
          /\ UNCHANGED <<result, resume>>
      BY <1>3, <1>4, <1>10, <2>1, <2>2, <2>3 DEF EulerStep
    <3>2. PhaseInv' /\ IdleInv' /\ EulerInv' /\ OnlyForeignEnginesRejected'
      BY <1>1, <1>3, <3>1, FlowAssumption
      DEF IInv, PhaseInv, IdleInv, EulerInv, OnlyForeignEnginesRejected, Running
    <3>3. n + 1 \in Unfinished
      BY <1>2, <2>3, SomeWindow DEF Unfinished
    <3>4. WindowsInv'
      BY <1>1, <3>1, <3>3, SameJobSameTerms DEF WindowsInv
    <3>5. ResultIsUninterrupted'
      BY <1>1, <3>1, StaysTrue
    <3>6. ResumeInv' /\ ~ ResumesActiveWindow(n + 1)'
      <4>1. CASE resume = None
        BY <3>1, <4>1 DEF ResumeInv, ResumesActiveWindow
      <4>2. CASE resume # None
        <5>1. resume \in blobs /\ (resume.active => resume.active_index <= n)
          BY <1>2, <4>2 DEF IInv, ResumeInv
        <5>2. resume.active => resume.active_index \in Nat
          BY <1>3, <5>1, OwnBlob, SomeWindow DEF IInv, Unfinished
        <5>3. resume.active => resume.active_index <= n + 1 /\ resume.active_index # n + 1
          BY <1>2, <5>1, <5>2
        <5> QED
          BY <1>1, <2>2, <3>1, <5>1, <5>3 DEF ResumeInv, ResumesActiveWindow
      <4> QED
        BY <4>1, <4>2
    <3>7. CounterInv'
      <4>1. (n + 1) * Steps = n * Steps + Steps /\ n * Steps \in Nat /\ step \in Nat
        BY <1>3, <1>4, CountInBounds
      <4>2. counter' = (n + 1) * Steps
        BY <1>3, <1>6, <1>10, <4>1
      <4>3. ~ ResumesActiveWindow(Len(windows))'
        BY <2>2, <3>1, <3>6 DEF ResumesActiveWindow
      <4>4. (n + 1) * Steps + 0 = (n + 1) * Steps
        BY <1>3, <4>1
      <4> QED
        BY <2>2, <3>1, <4>2, <4>3, <4>4 DEF CounterInv
    <3> QED
      BY <1>7, <1>8, <3>2, <3>4, <3>5, <3>6, <3>7 DEF IInv
  <2>4. CASE n + 1 = WindowsCount
    <3>1. phase' = "done" /\ result' = Finished(n + 1) /\ Idle
      BY <1>3, <1>4, <1>10, <2>1, <2>2, <2>4 DEF EulerStep
    <3>2. IdleInv' /\ ResumeInv' /\ WindowsInv' /\ EulerInv' /\ CounterInv'
      BY <3>1, IdleKeeps DEF Running
    <3>3. PhaseInv' /\ OnlyForeignEnginesRejected'
      BY <1>1, <1>3, <3>1, FlowAssumption DEF PhaseInv, OnlyForeignEnginesRejected, Running
    <3>4. ResultIsUninterrupted'
      BY <1>1, <2>4, <3>1, SameJobSameTerms DEF ResultIsUninterrupted, Finished, WindowsCount
    <3> QED
      BY <1>7, <1>8, <3>2, <3>3, <3>4 DEF IInv
  <2> QED
    BY <1>2, <2>3, <2>4, SomeWindow DEF Unfinished
<1> QED
  BY <1>3, <1>4, <1>9, <1>10

(* A pause hands out a blob of the uninterrupted run.                      *)
LEMMA PauseKeeps ==
  ASSUME IInv, NEW blob, PauseWith(blob), phase \in Running,
         NEW n \in Unfinished, NEW k \in 0 .. Steps - 1,
         \/ blob = BlobBetween(n)
         \/ blob = BlobInside(n, k)
  PROVE  IInv'
<1>1. /\ interruptions < MaxInterruptions /\ interruptions' = interruptions + 1
      /\ blobs' = blobs \cup {blob} /\ counter' = Cursor(blob) /\ phase' = "paused"
      /\ Idle /\ UNCHANGED <<engine, result, job>>
  BY DEF PauseWith
<1>2. job \in Engines
  BY RunningFacts
<1>3. BlobsInv'
  BY <1>1, SameJobSameTerms DEF IInv, BlobsInv
<1>4. ResultIsUninterrupted'
  BY <1>1, StaysTrue
<1>5. IdleInv' /\ ResumeInv' /\ WindowsInv' /\ EulerInv' /\ CounterInv'
  BY <1>1, IdleKeeps DEF Running
<1>6. PhaseInv' /\ OnlyForeignEnginesRejected'
  BY <1>1, <1>2, FlowAssumption DEF PhaseInv, OnlyForeignEnginesRejected, Running
<1>7. BoundsInv'
  <2>1. n \in Nat /\ Len(Finished(n)) = n /\ k \in 0 .. Steps /\ 0 \in 0 .. Steps
    <3>1. n \in Nat /\ k \in 0 .. Steps /\ 0 \in 0 .. Steps
      BY SomeWindow, FlowAssumption DEF Unfinished
    <3> QED
      BY <3>1, FinishedNext
  <2>2. n * Steps + k \in 0 .. WindowsCount * Steps /\ n * Steps + 0 \in 0 .. WindowsCount * Steps
    BY <2>1, CountInBounds
  <2>3. Cursor(blob) \in {n * Steps + k, n * Steps + 0}
    BY <2>1 DEF Cursor, BlobBetween, BlobInside
  <2>4. interruptions' \in 0 .. MaxInterruptions
    BY <1>1, FlowAssumption DEF IInv, BoundsInv
  <2> QED
    BY <1>1, <2>2, <2>3, <2>4 DEF IInv, BoundsInv, WindowsCount
<1> QED
  BY <1>3, <1>4, <1>5, <1>6, <1>7 DEF IInv

(* A pause between windows, and one inside a window.                       *)
LEMMA PauseAtWindowKeeps ==
  ASSUME IInv, PauseAtWindow
  PROVE  IInv'
<1>1. phase = "window" /\ PauseWith(WindowBlob)
  BY DEF PauseAtWindow
<1>2. PICK n \in Unfinished : windows = Finished(n)
  BY <1>1, RunningFacts DEF Running
<1>3. engine = job
  BY <1>1, RunningFacts DEF Running
<1>4. WindowBlob = BlobBetween(n)
  BY <1>2, <1>3 DEF WindowBlob, BlobBetween
<1>5. 0 \in 0 .. Steps - 1 /\ phase \in Running
  BY <1>1, FlowAssumption DEF Running
<1> QED
  BY <1>1, <1>4, <1>5, PauseKeeps

(* The solver saves the updates it has completed.                          *)
LEMMA PauseInEulerKeeps ==
  ASSUME IInv, PauseInEuler
  PROVE  IInv'
<1>1. phase = "euler" /\ PauseWith(EulerBlob)
  BY DEF PauseInEuler
<1>2. PICK n \in Unfinished : windows = Finished(n) /\ Len(windows) = n
  BY <1>1, RunningFacts DEF Running
<1>3. engine = job
  BY <1>1, RunningFacts DEF Running
<1>4. /\ step \in 0 .. Steps - 1
      /\ checkpoint = [completed_steps |-> step, state |-> Partial(n, step)]
  BY <1>1, <1>2 DEF IInv, EulerInv
<1>5. EulerBlob = BlobInside(n, step)
  BY <1>2, <1>3, <1>4 DEF EulerBlob, BlobInside
<1>6. phase \in Running
  BY <1>1 DEF Running
<1> QED
  BY <1>1, <1>4, <1>5, <1>6, PauseKeeps

(* A lost process leaves the blobs on disk.                                *)
LEMMA AbortKeeps ==
  ASSUME IInv, Abort
  PROVE  IInv'
<1>1. /\ phase \in {"window", "euler", "paused", "done"} /\ phase' = "idle" /\ Idle
      /\ interruptions < MaxInterruptions /\ interruptions' = interruptions + 1
      /\ UNCHANGED <<engine, counter, blobs, result, job>>
  BY DEF Abort
<1>2. BlobsInv' /\ ResultIsUninterrupted'
  BY <1>1, StaysTrue
<1>3. IdleInv' /\ ResumeInv' /\ WindowsInv' /\ EulerInv' /\ CounterInv'
  BY <1>1, IdleKeeps DEF Running
<1>4. PhaseInv' /\ OnlyForeignEnginesRejected'
  BY <1>1, FlowAssumption DEF IInv, PhaseInv, OnlyForeignEnginesRejected, Running
<1>5. BoundsInv'
  BY <1>1, FlowAssumption DEF IInv, BoundsInv, WindowsCount
<1> QED
  BY <1>2, <1>3, <1>4, <1>5 DEF IInv

(* Nothing happens.                                                        *)
LEMMA StutterKeeps ==
  ASSUME IInv, UNCHANGED fvars
  PROVE  IInv'
<1>1. /\ UNCHANGED <<phase, engine, resume, windows, state, step, checkpoint>>
      /\ UNCHANGED <<counter, blobs, result, job, interruptions>>
  BY DEF fvars
<1>2. BlobsInv' /\ ResultIsUninterrupted'
  BY <1>1, StaysTrue
<1>3. PhaseInv' /\ IdleInv' /\ ResumeInv' /\ OnlyForeignEnginesRejected'
  BY <1>1 DEF IInv, PhaseInv, IdleInv, ResumeInv, OnlyForeignEnginesRejected
<1>4. WindowsInv' /\ EulerInv'
  BY <1>1, SameJobSameTerms DEF IInv, WindowsInv, EulerInv
<1>5. CounterInv' /\ BoundsInv'
  BY <1>1 DEF IInv, CounterInv, BoundsInv, ResumesActiveWindow, WindowsCount
<1> QED
  BY <1>2, <1>3, <1>4, <1>5 DEF IInv

(* No step of the stage or of its host breaks the invariant.               *)
LEMMA NextIInv == IInv /\ [Next]_fvars => IInv'
BY StartKeeps, ResumeKeeps, EnterWindowKeeps, EulerStepKeeps, PauseAtWindowKeeps,
   PauseInEulerKeeps, AbortKeeps, StutterKeeps
DEF Next, Work

(* The invariant holds in every state of the stage (render_resumable).     *)
THEOREM InvariantHolds == Spec => []IInv
BY InitIInv, NextIInv, PTL DEF Spec

-----------------------------------------------------------------------------
(* A completed stage returns the latents of the uninterrupted run, however *)
(* often it was paused, lost or resumed (render_resumable, run_flow).      *)
THEOREM ResumedRenderIsUninterrupted == Spec => []ResultIsUninterrupted
<1>1. IInv => ResultIsUninterrupted
  BY DEF IInv
<1> QED
  BY <1>1, InvariantHolds, PTL

(* Every blob handed out is accepted again by the engine that wrote it     *)
(* (validate_flow_stamp and the resume checks of render_resumable).        *)
THEOREM OwnBlobsAreAccepted == Spec => []OnlyForeignEnginesRejected
<1>1. IInv => OnlyForeignEnginesRejected
  BY DEF IInv
<1> QED
  BY <1>1, InvariantHolds, PTL

(* Every variable keeps its type; the progress count never leaves the      *)
(* total the host was told (render_resumable).                             *)
THEOREM TypeCorrect == Spec => []TypeOK
<1>1. IInv => TypeOK
  <2> SUFFICES ASSUME IInv PROVE TypeOK
    OBVIOUS
  <2>1. /\ phase \in {"idle", "window", "euler", "paused", "rejected", "done"}
        /\ engine \in Engines \cup {None} /\ job \in Engines \cup {None}
        /\ counter \in 0 .. WindowsCount * Steps /\ interruptions \in 0 .. MaxInterruptions
    BY DEF IInv, PhaseInv, BoundsInv
  <2>2. blobs \subseteq BlobType
    <3> SUFFICES ASSUME NEW b \in blobs PROVE b \in BlobType
      OBVIOUS
    <3>1. job \in Engines
      BY DEF IInv, PhaseInv
    <3> QED
      BY <3>1, OwnBlob DEF IInv
  <2>3. resume \in BlobType \cup {None}
    BY <2>2 DEF IInv, ResumeInv
  <2>4. result \in Seq(Latents) \cup {None}
    <3> SUFFICES ASSUME result # None PROVE result \in Seq(Latents)
      OBVIOUS
    <3>1. job \in Engines /\ result = Finished(WindowsCount)
      BY DEF IInv, PhaseInv, ResultIsUninterrupted, Finished
    <3> QED
      BY <3>1, SomeWindow, TermTypes
  <2>5. windows \in Seq(Latents) /\ state \in Latents /\ step \in 0 .. Steps - 1
        /\ checkpoint \in Checkpoints
    <3>1. windows \in Seq(Latents)
      <4>1. CASE phase \notin Running
        BY <4>1 DEF IInv, IdleInv
      <4>2. CASE phase \in Running
        BY <4>2, RunningFacts, TermTypes
      <4> QED
        BY <4>1, <4>2
    <3>2. CASE phase # "euler"
      <4>1. state = <<>> /\ step = 0 /\ checkpoint = NoCheckpoint
        BY <3>2 DEF IInv, IdleInv
      <4>2. <<>> \in Latents /\ 0 \in 0 .. Steps - 1 /\ 0 \in 0 .. Steps
        BY FlowAssumption DEF Latents
      <4>3. NoCheckpoint \in Checkpoints
        BY <4>2 DEF NoCheckpoint, Checkpoints
      <4> QED
        BY <3>1, <4>1, <4>2, <4>3
    <3>3. CASE phase = "euler"
      <4>1. PICK n \in Nat : Len(windows) = n /\ job \in Engines
        BY <3>3, RunningFacts DEF Running
      <4>2. /\ step \in 0 .. Steps - 1 /\ state = Partial(n, step)
            /\ checkpoint = [completed_steps |-> step, state |-> state]
        BY <3>3, <4>1 DEF IInv, EulerInv
      <4>3. step \in 0 .. Steps
        BY <4>2, FlowAssumption
      <4>4. state \in Latents
        BY <4>1, <4>2, <4>3, TermTypes
      <4> QED
        BY <3>1, <4>2, <4>3, <4>4 DEF Checkpoints
    <3> QED
      BY <3>2, <3>3
  <2> QED
    BY <2>1, <2>2, <2>3, <2>4, <2>5 DEF TypeOK
<1> QED
  BY <1>1, InvariantHolds, PTL

(* No step lowers the count of a running stage, but a pause that drops the *)
(* state it was to resume.                                                 *)
LEMMA CountRises ==
  ASSUME IInv, [Next]_fvars, phase \in {"window", "euler"}, counter' < counter
  PROVE  phase = "window" /\ phase' = "paused" /\ ResumesActiveWindow(Len(windows))
<1>1. PICK n \in Unfinished : n \in Nat /\ windows = Finished(n) /\ Len(windows) = n
  BY RunningFacts DEF Running
<1>2. n * Steps \in Nat /\ Steps \in Nat \ {0}
  BY CountInBounds, FlowAssumption
<1>3. counter \in Nat
  BY SomeWindow, FlowAssumption DEF IInv, BoundsInv
<1>4. phase = "euler" => counter = n * Steps + step /\ step \in Nat
  BY <1>1, <1>2 DEF IInv, CounterInv, EulerInv
<1>5. CASE PauseAtWindow
  <2>1. phase = "window" /\ phase' = "paused" /\ counter' = n * Steps + 0
    BY <1>1, <1>5 DEF PauseAtWindow, PauseWith, WindowBlob, Cursor
  <2>2. ~ ResumesActiveWindow(n) => counter = n * Steps + 0
    BY <1>1, <2>1 DEF IInv, CounterInv
  <2>3. ResumesActiveWindow(n)
    BY <1>2, <2>1, <2>2
  <2> QED
    BY <1>1, <2>1, <2>3
<1>6. CASE PauseInEuler
  <2>1. phase = "euler" /\ counter' = n * Steps + checkpoint.completed_steps
    BY <1>1, <1>6 DEF PauseInEuler, PauseWith, EulerBlob, Cursor
  <2>2. checkpoint.completed_steps = step
    BY <2>1 DEF IInv, EulerInv
  <2> QED
    BY <1>2, <1>4, <2>1, <2>2
<1>7. CASE EnterWindow
  <2>1. phase = "window"
    BY <1>7 DEF EnterWindow
  <2>2. counter' = n * Steps
                   + (IF ResumesActiveWindow(n) THEN resume.euler.completed_steps ELSE 0)
    BY <1>1, <1>7 DEF EnterWindow
  <2>3. counter' = counter
    BY <1>1, <2>1, <2>2 DEF IInv, CounterInv
  <2> QED
    BY <1>3, <2>3
<1>8. CASE EulerStep
  <2>1. phase = "euler" /\ counter' = n * Steps + step + 1
    BY <1>1, <1>8 DEF EulerStep
  <2> QED
    BY <1>2, <1>4, <2>1
<1>9. CASE Abort \/ UNCHANGED fvars
  BY <1>3, <1>9 DEF Abort, fvars
<1>10. ASSUME NEW e \in Engines, Start(e) \/ \E b \in blobs : Resume(b, e)
       PROVE  FALSE
  BY <1>10 DEF Start, Resume
<1> QED
  BY <1>5, <1>6, <1>7, <1>8, <1>9, <1>10 DEF Next, Work

(* A step loses no completed Euler update, except a pause before the       *)
(* resumed window is entered (the first poll of render_resumable).         *)
THEOREM OnlyOneStepLosesUpdates == Spec => UpdatesLostOnlyBeforeResumedWindow
<1>1. IInv /\ [Next]_fvars
        => [(phase \in {"window", "euler"} /\ counter' < counter)
              => (phase = "window" /\ phase' = "paused" /\ ResumesActiveWindow(Len(windows)))]_fvars
  BY CountRises
<1> QED
  BY <1>1, InvariantHolds, PTL DEF Spec, UpdatesLostOnlyBeforeResumedWindow

-----------------------------------------------------------------------------
(* Counting the updates a latent holds.  UpdatesIn folds over the set of   *)
(* positions, so that a function of sets of positions that grows by what   *)
(* is at each is what it computes.                                         *)
Counted(s, f) ==
  [T \in SUBSET DOMAIN s |->
     IF T = {} THEN 0 ELSE Len(s[CHOOSE x \in T : TRUE]) + f[T \ {CHOOSE x \in T : TRUE}]]

LEMMA CountedOnce ==
  ASSUME NEW s, IsFiniteSet(DOMAIN s), NEW f, f = Counted(s, f), NEW g, g = Counted(s, g)
  PROVE  f[DOMAIN s] = g[DOMAIN s]
<1> DEFINE S == DOMAIN s
           R == OpToRel(<, Nat)
           Sizes == {Cardinality(T) : T \in {U \in SUBSET S : f[U] # g[U]}}
<1>1. SUFFICES ASSUME f[S] # g[S] PROVE FALSE
  OBVIOUS
<1>2. \A T \in SUBSET S : IsFiniteSet(T) /\ Cardinality(T) \in Nat
  BY FS_Subset, FS_CardinalityType
<1>3. Sizes \subseteq Nat /\ Sizes # {}
  BY <1>1, <1>2
<1>4. PICK n \in Sizes : \A m \in Sizes : ~(<<m, n>> \in R)
  BY <1>3, NatLessThanWellFounded, WFMin
<1>5. \A a, b \in Nat : a < b => <<a, b>> \in R
  BY Zenon DEF OpToRel
<1>6. PICK T \in SUBSET S : n = Cardinality(T) /\ f[T] # g[T]
  BY <1>4
<1> DEFINE x == CHOOSE x \in T : TRUE
<1>7. /\ f[T] = IF T = {} THEN 0 ELSE Len(s[x]) + f[T \ {x}]
      /\ g[T] = IF T = {} THEN 0 ELSE Len(s[x]) + g[T \ {x}]
  <2>1. f[T] = Counted(s, f)[T] /\ g[T] = Counted(s, g)[T]
    OBVIOUS
  <2> QED
    BY <2>1 DEF Counted
<1>8. T # {} /\ x \in T
  BY <1>6, <1>7
<1> HIDE DEF x
<1>9. T \ {x} \in SUBSET S /\ f[T \ {x}] # g[T \ {x}]
  BY <1>6, <1>7, <1>8
<1>10. Cardinality(T \ {x}) < n /\ Cardinality(T \ {x}) \in Nat /\ n \in Nat
  BY <1>2, <1>6, <1>8, <1>9, FS_RemoveElement
<1> QED
  BY <1>4, <1>5, <1>9, <1>10

(* What UpdatesIn computes, given any function that counts alike.          *)
LEMMA UpdatesAreCounted ==
  ASSUME NEW s, IsFiniteSet(DOMAIN s), NEW g, g = Counted(s, g)
  PROVE  UpdatesIn(s) = g[DOMAIN s]
<1> DEFINE f == CHOOSE f : f = Counted(s, f)
<1>1. f = Counted(s, f)
  OBVIOUS
<1>2. UpdatesIn(s) = f[DOMAIN s]
  BY DEF UpdatesIn, FoldSeq, FoldFunction, FoldFunctionOnSet, MapThenFoldSet, Counted
<1> HIDE DEF f
<1> QED
  BY <1>1, <1>2, CountedOnce

(* Sets of positions of n finished windows and one under way.              *)
LEMMA UpdatesOfPartial ==
  ASSUME NEW n \in Nat, NEW k \in Nat
  PROVE  UpdatesIn(Partial(n, k)) = n * Steps + k
<1> DEFINE s == Partial(n, k)
           held(T) == Cardinality(T \ {n + 1}) * Steps + (IF n + 1 \in T THEN k ELSE 0)
           g == [T \in SUBSET DOMAIN s |-> held(T)]
<1>1. Steps \in Nat
  BY FlowAssumption
<1>2. /\ DOMAIN s = 1 .. n + 1 /\ Len(s[n + 1]) = k
      /\ \A i \in 1 .. n : Len(s[i]) = Steps
  <2>1. Whole(n) \in Seq({Applied(Steps)}) /\ Len(Whole(n)) = n
    BY WholeNext
  <2>2. s \in Seq({Applied(Steps), Applied(k)}) /\ Len(s) = n + 1
    BY <2>1 DEF Partial
  <2>3. s[n + 1] = Applied(k) /\ \A i \in 1 .. n : s[i] = Applied(Steps)
    BY <2>1 DEF Partial
  <2>4. DOMAIN s = 1 .. n + 1
    BY <2>2
  <2>5. Len(Applied(k)) = k /\ Len(Applied(Steps)) = Steps
    BY <1>1, AppliedNext
  <2> HIDE DEF s
  <2> QED
    BY <2>3, <2>4, <2>5
<1> HIDE DEF s
<1>3. IsFiniteSet(DOMAIN s)
  BY <1>2, FS_Interval
<1>4. ASSUME NEW T \in SUBSET DOMAIN s
      PROVE  held(T) = IF T = {} THEN 0
                       ELSE Len(s[CHOOSE x \in T : TRUE]) + held(T \ {CHOOSE x \in T : TRUE})
  <2>1. CASE T = {}
    <3>1. T \ {n + 1} = {} /\ Cardinality({}) = 0
      BY <2>1, FS_EmptySet
    <3> QED
      BY <1>1, <2>1, <3>1
  <2>2. CASE T # {}
    <3> DEFINE x == CHOOSE x \in T : TRUE
    <3>1. x \in T /\ x \in 1 .. n + 1
      BY <1>2, <2>2
    <3> HIDE DEF x
    <3>2. IsFiniteSet(T \ {n + 1}) /\ Cardinality(T \ {n + 1}) \in Nat
      BY <1>3, FS_Subset, FS_CardinalityType
    <3>3. ASSUME x = n + 1 PROVE held(T) = Len(s[x]) + held(T \ {x})
      <4>1. (T \ {x}) \ {n + 1} = T \ {n + 1} /\ n + 1 \in T /\ n + 1 \notin T \ {x}
        BY <3>1, <3>3
      <4>2. held(T) = Cardinality(T \ {n + 1}) * Steps + k
        BY <4>1
      <4>3. held(T \ {x}) = Cardinality(T \ {n + 1}) * Steps + 0
        BY <4>1
      <4>4. Cardinality(T \ {n + 1}) * Steps \in Nat
        BY <1>1, <3>2
      <4> HIDE DEF held
      <4> QED
        BY <1>2, <3>3, <4>2, <4>3, <4>4
    <3>4. ASSUME x # n + 1 PROVE held(T) = Len(s[x]) + held(T \ {x})
      <4>1. x \in 1 .. n /\ x \in T \ {n + 1}
        BY <3>1, <3>4
      <4>2. (T \ {x}) \ {n + 1} = (T \ {n + 1}) \ {x}
        OBVIOUS
      <4>3. Cardinality((T \ {x}) \ {n + 1}) = Cardinality(T \ {n + 1}) - 1
        BY <3>2, <4>1, <4>2, FS_RemoveElement
      <4>4. \A c \in Nat : (c - 1) * Steps = c * Steps - Steps /\ c * Steps \in Nat
        BY <1>1
      <4>5. n + 1 \in T \ {x} <=> n + 1 \in T
        BY <3>4
      <4>6. held(T \ {x}) = held(T) - Steps /\ held(T) \in Nat
        <5>1. Cardinality((T \ {x}) \ {n + 1}) * Steps = Cardinality(T \ {n + 1}) * Steps - Steps
          BY <3>2, <4>3, <4>4
        <5>2. Cardinality(T \ {n + 1}) * Steps \in Nat
          BY <3>2, <4>4
        <5> QED
          BY <1>1, <4>5, <5>1, <5>2
      <4>7. Len(s[x]) = Steps
        BY <1>2, <4>1
      <4> HIDE DEF held
      <4> QED
        BY <1>1, <4>6, <4>7
    <3>5. held(T) = Len(s[x]) + held(T \ {x})
      BY <3>3, <3>4
    <3> HIDE DEF held
    <3> QED
      BY <2>2, <3>5 DEF x
  <2> QED
    BY <2>1, <2>2
<1>5. g = Counted(s, g)
  <2>1. \A T \in SUBSET DOMAIN s : g[T] = held(T) /\ T \ {CHOOSE x \in T : TRUE} \in SUBSET DOMAIN s
    OBVIOUS
  <2> HIDE DEF held
  <2>2. \A T \in SUBSET DOMAIN s : g[T] = Counted(s, g)[T]
    BY <1>4, <2>1 DEF Counted
  <2> QED
    BY <2>2 DEF Counted
<1>6. g[DOMAIN s] = n * Steps + k
  <2>1. (1 .. n + 1) \ {n + 1} = 1 .. n
    OBVIOUS
  <2>2. Cardinality(1 .. n) = n
    BY FS_Interval
  <2>3. g[DOMAIN s] = held(1 .. n + 1)
    BY <1>2
  <2>4. n + 1 \in 1 .. n + 1
    OBVIOUS
  <2>5. held(1 .. n + 1) = n * Steps + k
    BY <2>1, <2>2, <2>4
  <2> QED
    BY <2>3, <2>5
<1> HIDE DEF g
<1> QED
  BY <1>3, <1>5, <1>6, UpdatesAreCounted DEF s

LEMMA UpdatesOfWhole ==
  ASSUME NEW n \in Nat
  PROVE  UpdatesIn(Whole(n)) = n * Steps
<1>1. CASE n = 0
  <2> DEFINE g == [T \in {{}} |-> 0]
  <2>1. Whole(0) = <<>> /\ DOMAIN Whole(0) = {}
    BY WholeNext
  <2>2. g = Counted(Whole(0), g)
    <3>1. SUBSET DOMAIN Whole(0) = {{}}
      BY <2>1
    <3> QED
      BY <3>1 DEF Counted
  <2>3. IsFiniteSet(DOMAIN Whole(0))
    BY <2>1, FS_EmptySet
  <2>4. g[DOMAIN Whole(0)] = 0
    BY <2>1
  <2> HIDE DEF g
  <2> QED
    BY <1>1, <2>2, <2>3, <2>4, UpdatesAreCounted, FlowAssumption
<1>2. CASE n # 0
  <2>1. n - 1 \in Nat /\ (n - 1) * Steps + Steps = n * Steps /\ Steps \in Nat
    BY <1>2, FlowAssumption
  <2>2. Whole(n) = Partial(n - 1, Steps)
    BY <2>1, WholeNext
  <2> QED
    BY <2>1, <2>2, UpdatesOfPartial
<1> QED
  BY <1>1, <1>2

(* What the host is shown is what a running solver holds and what every    *)
(* blob it was handed would restore (the progress reports of               *)
(* render_resumable, encode_flow_metadata).                                *)
THEOREM CounterAlwaysCounts == Spec => []CounterCountsWork
<1>1. IInv => CounterCountsWork
  <2> SUFFICES ASSUME IInv PROVE CounterCountsWork
    OBVIOUS
  <2>1. Steps \in Nat /\ \A n \in Unfinished : n \in Nat
    BY SomeWindow, FlowAssumption DEF Unfinished
  <2>2. ASSUME phase = "euler" PROVE counter = UpdatesIn(state)
    <3>1. /\ counter = Len(windows) * Steps + step /\ state = Partial(Len(windows), step)
          /\ step \in Nat
      BY <2>1, <2>2 DEF IInv, EulerInv, CounterInv
    <3>2. Len(windows) \in Nat
      BY <2>1, <2>2, FinishedNext DEF IInv, WindowsInv, Running
    <3> QED
      BY <3>1, <3>2, UpdatesOfPartial
  <2>3. ASSUME NEW b \in blobs
        PROVE  Cursor(b) = IF b.active THEN UpdatesIn(b.euler.state) ELSE UpdatesIn(PriorRaw(b.completed))
    <3>1. PICK n \in Unfinished : b = BlobBetween(n) \/ \E k \in 0 .. Steps - 1 : b = BlobInside(n, k)
      BY DEF IInv, BlobsInv
    <3>2. n \in Nat /\ Len(Finished(n)) = n /\ PriorRaw(Finished(n)) = Whole(n)
      BY <2>1, <3>1, FinishedNext
    <3>3. CASE b = BlobBetween(n)
      <4>1. b.completed = Finished(n) /\ b.active = FALSE
        BY <3>3 DEF BlobBetween
      <4>2. Cursor(b) = n * Steps + 0
        BY <3>2, <4>1 DEF Cursor
      <4>3. UpdatesIn(PriorRaw(b.completed)) = n * Steps
        BY <3>2, <4>1, UpdatesOfWhole
      <4>4. n * Steps \in Nat
        BY <2>1, <3>2
      <4> QED
        BY <4>1, <4>2, <4>3, <4>4
    <3>4. ASSUME NEW k \in 0 .. Steps - 1, b = BlobInside(n, k)
          PROVE  Cursor(b) = UpdatesIn(b.euler.state) /\ b.active
      <4>1. /\ b.completed = Finished(n) /\ b.active = TRUE /\ k \in Nat
            /\ b.euler.completed_steps = k /\ b.euler.state = Partial(n, k)
        BY <2>1, <3>4 DEF BlobInside
      <4>2. Cursor(b) = n * Steps + k
        BY <3>2, <4>1 DEF Cursor
      <4> QED
        BY <3>2, <4>1, <4>2, UpdatesOfPartial
    <3> QED
      BY <3>1, <3>3, <3>4
  <2> QED
    BY <2>2, <2>3 DEF CounterCountsWork
<1> QED
  BY <1>1, InvariantHolds, PTL
=============================================================================
