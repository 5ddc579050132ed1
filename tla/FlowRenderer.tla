---------------------------- MODULE FlowRenderer ----------------------------
(***************************************************************************)
(* The resumable DIFFUSE stage: run_flow of src/src/cantor-abi.cpp and     *)
(* render_resumable with solve_flow_euler of src/src/levo-flow-renderer    *)
(* .cpp.  One job - tokens, noise, Euler steps - is rendered window after  *)
(* window; each window continues the previous window's latents and is      *)
(* integrated by Euler steps.  A host cancels at polls, loses the process, *)
(* and resumes from any LEVOFL02 blob it was ever handed, on any engine.   *)
(*                                                                         *)
(* A latent is represented by how it was computed: the latents of window   *)
(* w are a sequence of w integrations (its own after those of the context  *)
(* it continues), an integration is the sequence of Euler updates applied, *)
(* an update names the engine (backend and artifacts) and the time index.  *)
(***************************************************************************)
EXTENDS RendererSchedule, SequencesExt, FiniteSets

CONSTANTS SourceFrames,      (* token frames of the job                    *)
          Steps,             (* Euler steps per window                     *)
          Engines,           (* what a stamp tells apart: backend and files *)
          MaxInterruptions,  (* bound: cancellations and process losses    *)
          None

ASSUME FlowAssumption ==
  /\ SourceFrames \in Nat \ {0} /\ Steps \in Nat \ {0}
  /\ Engines # {} /\ MaxInterruptions \in Nat
  /\ None \notin Engines

VARIABLES
  phase,         (* where render_resumable is, seen from its host          *)
  engine,        (* the engine the running process has loaded              *)
  resume,        (* the blob being resumed, None for a fresh run           *)
  windows,       (* denormalized latents of the completed windows          *)
  state,         (* the Euler state of the active window                   *)
  step,          (* the solver's loop counter                              *)
  checkpoint,    (* the solver's checkpoint: completed steps and state     *)
  counter,       (* the stage's progress count as the host knows it        *)
  blobs,         (* every paused LEVOFL02 blob the host was ever handed    *)
  result,        (* the windows of the completed LEVOLT02 boundary         *)
  job,           (* the engine of the first run                            *)
  interruptions

fvars == <<phase, engine, resume, windows, state, step, checkpoint, counter,
           blobs, result, job, interruptions>>

WindowsCount == FlowWindowCount(SourceFrames)
Updates == [engine : Engines, time : 0 .. Steps - 1]
Latents == Seq(Seq(Updates))
Checkpoints == [completed_steps : 0 .. Steps, state : Latents]
NoCheckpoint == [completed_steps |-> 0, state |-> <<>>]

(* The payload and the metadata of a paused blob.                          *)
BlobType ==
  [completed : Seq(Latents), active : BOOLEAN, active_index : Nat,
   euler : Checkpoints, stamp : Engines]

ASSUME NoneIsNoBlob == None \notin BlobType

(* The blob's count of Euler updates over all windows.                     *)
Cursor(b) ==
  Len(b.completed) * Steps + (IF b.active THEN b.euler.completed_steps ELSE 0)

-----------------------------------------------------------------------------
(* What a window continues: the latents of the window before it (and the   *)
(* slip of a resumed run that forgets them).                               *)
PriorForgotten(done) == <<>>
PriorRaw(done) == IF done = <<>> THEN <<>> ELSE Last(done)

(* The state a window's integration starts from: the window's noise.       *)
Noise(done) == Append(PriorRaw(done), <<>>)

(* One Euler update off its time.                                          *)
EulerUpdateLate(s, k) ==
  Append(PriorRaw(windows), Append(Last(s), [engine |-> engine, time |-> k + 1]))

(* One Euler update; every update restores the context frames of the state *)
(* from the window's own context.                                          *)
EulerUpdate(s, k) ==
  Append(PriorRaw(windows), Append(Last(s), [engine |-> engine, time |-> k]))

(* Whether the current window is the one the blob stopped inside (and the  *)
(* slip of restarting it).                                                 *)
ResumesNoWindow(w) == FALSE
ResumesActiveWindow(w) == resume # None /\ resume.active /\ w = resume.active_index

(* validate_flow_stamp and the checks of render_resumable.                 *)
Accepts(b, e) ==
  /\ b.stamp = e
  /\ Len(b.completed) <= WindowsCount
  /\ IF b.active
     THEN /\ b.active_index = Len(b.completed)
          /\ b.active_index < WindowsCount
          /\ b.euler.completed_steps < Steps
     ELSE Len(b.completed) # WindowsCount

(* A stage that ends leaves nothing behind but what it returned.           *)
Idle ==
  /\ resume' = None
  /\ windows' = <<>> /\ state' = <<>> /\ step' = 0
  /\ checkpoint' = NoCheckpoint

-----------------------------------------------------------------------------
Init ==
  /\ phase = "idle" /\ engine = None /\ resume = None
  /\ windows = <<>> /\ state = <<>> /\ step = 0 /\ checkpoint = NoCheckpoint
  /\ counter = 0 /\ blobs = {} /\ result = None /\ job = None
  /\ interruptions = 0

(* A run from the CODES document.  A fresh run on another engine is        *)
(* another job, outside this behaviour.                                    *)
Start(e) ==
  /\ phase = "idle"
  /\ job \in {None, e}
  /\ job' = e /\ engine' = e
  /\ counter' = 0
  /\ phase' = "window"
  /\ UNCHANGED <<resume, windows, state, step, checkpoint, blobs, result, interruptions>>

(* A run from a paused blob; the counter is the count the blob saved.      *)
Resume(b, e) ==
  /\ phase \in {"idle", "paused", "rejected"}
  /\ engine' = e
  /\ IF Accepts(b, e)
     THEN /\ phase' = "window"
          /\ resume' = b
          /\ windows' = b.completed
          /\ counter' = Cursor(b)
          /\ UNCHANGED <<state, step, checkpoint>>
     ELSE /\ phase' = "rejected"
          /\ UNCHANGED <<resume, windows, state, step, checkpoint, counter>>
  /\ UNCHANGED <<blobs, result, job, interruptions>>

(* The top of the window loop, not cancelled: the progress report, the     *)
(* conditioning, and the solver up to its first poll.                      *)
EnterWindow ==
  /\ phase = "window"
  /\ LET w == Len(windows)
         from == IF ResumesActiveWindow(w) THEN resume.euler
                 ELSE [completed_steps |-> 0, state |-> Noise(windows)]
     IN /\ step' = from.completed_steps
        /\ state' = from.state
        /\ checkpoint' = from
        /\ counter' = w * Steps + from.completed_steps
  /\ phase' = "euler"
  /\ UNCHANGED <<engine, resume, windows, blobs, result, job, interruptions>>

(* One iteration of the solver; the last one runs on to the end of the     *)
(* window, and the last window on to the completed boundary: there is no   *)
(* poll in between.                                                        *)
EulerStep ==
  /\ phase = "euler"
  /\ LET next == EulerUpdate(state, step)
         done == Append(windows, next)
     IN /\ counter' = Len(windows) * Steps + step + 1
        /\ IF step + 1 < Steps
           THEN /\ step' = step + 1
                /\ state' = next
                /\ checkpoint' = [completed_steps |-> step + 1, state |-> next]
                /\ UNCHANGED <<phase, windows, result, resume>>
           ELSE IF Len(done) < WindowsCount
           THEN /\ phase' = "window"
                /\ windows' = done
                /\ state' = <<>> /\ step' = 0 /\ checkpoint' = NoCheckpoint
                /\ UNCHANGED <<result, resume>>
           ELSE /\ phase' = "done"
                /\ result' = done
                /\ Idle
  /\ UNCHANGED <<engine, blobs, job, interruptions>>

(* Cancellation observed at the top of the window loop.                    *)
WindowBlob ==
  [completed |-> windows, active |-> FALSE, active_index |-> 0,
   euler |-> NoCheckpoint, stamp |-> engine]

(* Cancellation observed by the solver before an update (and the slip of   *)
(* saving the number of the next update instead of the completed ones).    *)
EulerBlobAhead ==
  [completed |-> windows, active |-> TRUE, active_index |-> Len(windows),
   euler |-> [checkpoint EXCEPT !.completed_steps = @ + 1], stamp |-> engine]
EulerBlob ==
  [completed |-> windows, active |-> TRUE, active_index |-> Len(windows),
   euler |-> checkpoint, stamp |-> engine]

PauseWith(blob) ==
  /\ interruptions < MaxInterruptions
  /\ interruptions' = interruptions + 1
  /\ blobs' = blobs \cup {blob}
  /\ counter' = Cursor(blob)
  /\ phase' = "paused"
  /\ Idle
  /\ UNCHANGED <<engine, result, job>>

PauseAtWindow == phase = "window" /\ PauseWith(WindowBlob)
PauseInEuler  == phase = "euler" /\ PauseWith(EulerBlob)

(* The process dies or a callback throws.                                  *)
Abort ==
  /\ phase \in {"window", "euler", "paused", "done"}
  /\ interruptions < MaxInterruptions
  /\ interruptions' = interruptions + 1
  /\ phase' = "idle"
  /\ Idle
  /\ UNCHANGED <<engine, counter, blobs, result, job>>

Work ==
  \/ \E e \in Engines : Start(e)
  \/ \E b \in blobs, e \in Engines : Resume(b, e)
  \/ EnterWindow
  \/ EulerStep

Next == Work \/ PauseAtWindow \/ PauseInEuler \/ Abort
Spec == Init /\ [][Next]_fvars

(* What the owner of the job does, on the engine it was started on.        *)
OwnWork ==
  \/ \E e \in Engines : Start(e)
  \/ \E b \in blobs : Resume(b, job)
  \/ EnterWindow
  \/ EulerStep

(* The stage is one thread that runs to its next poll, and an interrupted  *)
(* host runs the command again; it may try other engines in between.       *)
FairSpec == Spec /\ WF_fvars(OwnWork)

-----------------------------------------------------------------------------
TypeOK ==
  /\ phase \in {"idle", "window", "euler", "paused", "rejected", "done"}
  /\ engine \in Engines \cup {None} /\ job \in Engines \cup {None}
  /\ resume \in BlobType \cup {None}
  /\ windows \in Seq(Latents) /\ state \in Latents
  /\ step \in 0 .. Steps - 1 /\ checkpoint \in Checkpoints
  /\ counter \in 0 .. WindowsCount * Steps
  /\ blobs \subseteq BlobType
  /\ result \in Seq(Latents) \cup {None}
  /\ interruptions \in 0 .. MaxInterruptions

(* The latents of window w when nothing ever interrupts.                   *)
Whole(w) == [i \in 1 .. w |-> [k \in 1 .. Steps |-> [engine |-> job, time |-> k - 1]]]

(* However often it was paused, lost or resumed, a completed stage returns *)
(* the latents of the uninterrupted run: every window continues the one    *)
(* before it, gets every Euler update once and at its time, and no two     *)
(* engines are mixed.                                                      *)
(* (docs/resumability-plan.md: byte-identical final window latents.)       *)
ResultIsUninterrupted ==
  result # None => result = [w \in 1 .. WindowsCount |-> Whole(w)]

(* A blob the stage handed out is accepted again by the engine that wrote  *)
(* it: only a foreign engine is turned away.                               *)
(* (validate_flow_stamp and the resume checks of render_resumable.)        *)
OnlyForeignEnginesRejected == phase = "rejected" => engine # job

UpdatesIn(latents) == FoldSeq(LAMBDA updates, n : Len(updates) + n, 0, latents)

(* The count shown to the host is the work really held: the Euler updates  *)
(* inside the state of a running solver, and inside every blob.            *)
(* (the progress reports of render_resumable; encode_flow_metadata.)       *)
CounterCountsWork ==
  /\ phase = "euler" => counter = UpdatesIn(state)
  /\ \A b \in blobs :
       Cursor(b) = IF b.active THEN UpdatesIn(b.euler.state) ELSE UpdatesIn(PriorRaw(b.completed))

(* No step of the stage loses a completed Euler update, but one: a pause   *)
(* before the resumed window is entered drops that window's saved state.   *)
(* (the first poll of render_resumable.)                                   *)
UpdatesLostOnlyBeforeResumedWindow ==
  [][(phase \in {"window", "euler"} /\ counter' < counter)
       => (phase = "window" /\ phase' = "paused" /\ ResumesActiveWindow(Len(windows)))]_fvars

(* docs/resumability-plan.md: "Counters never regress across multiple      *)
(* pauses."                                                                *)
CountersNeverRegress ==
  [][(phase \in {"window", "euler"}) => counter' >= counter]_fvars

(* Once the host stops interrupting, the stage completes.                  *)
(* (render_resumable; the CLI contract of resuming from the last blob.)    *)
Completes == <>[](phase = "done")
=============================================================================
