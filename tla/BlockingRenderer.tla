--------------------------- MODULE BlockingRenderer -------------------------
(***************************************************************************)
(* One run of levo-render: render_tokens_to_audio with its progress events *)
(* and cooperative cancellation, then write_render_artifact.  A signal may *)
(* come between any two steps; it raises a flag that stays up.  Models are *)
(* resident while the scope that loaded them is open.                      *)
(***************************************************************************)
EXTENDS Integers, Sequences, FiniteSets

CONSTANTS Windows, Steps    (* of the Flow schedule                        *)

ASSUME RendererAssumption == Windows \in Nat \ {0} /\ Steps \in Nat \ {0}

NoExit == -1
NoStep == -1            (* no window of the Flow schedule is entered       *)

VARIABLES
  pc,          (* "report", "poll", "work", "write", "exited"; in a window *)
               (* "enter", "condition", "solve", "euler"; of the VAE:      *)
               (* "decode", "start", "graph"                               *)
  stage,
  window,      (* windows finished in this stage                           *)
  step,        (* Euler steps finished in the window                       *)
  event,       (* the last event                                           *)
  resident,    (* models in memory                                         *)
  signal, failed,
  late,        (* ghost: events and graphs begun since the signal          *)
  eulerEvents, (* ghost                                                    *)
  artifact,    (* whether WAV and manifest are written                     *)
  exit

vars == <<pc, stage, window, step, event, resident, signal, failed, late,
          eulerEvents, artifact, exit>>

NoEvent == [stage |-> "none", completed |-> 0, current |-> 0, steps |-> 0]

Init ==
  /\ pc = "report" /\ stage = "loading_tokens" /\ window = 0 /\ step = NoStep
  /\ event = NoEvent /\ resident = {} /\ signal = FALSE /\ failed = FALSE
  /\ late = [events |-> 0, graphs |-> 0] /\ eulerEvents = 0 /\ artifact = FALSE /\ exit = NoExit

Late(kind) == late' = IF signal THEN [late EXCEPT ![kind] = @ + 1] ELSE late
Goto(next) == pc' = next
Exits(status) == pc' = "exited" /\ exit' = status /\ resident' = {}

(* The event of a window's entry and of each of its steps; it is complete  *)
(* with its last step.  (The slip: the entry tells the index of the window *)
(* and the steps its number.)                                              *)
WindowDone == step = Steps
EulerEventMisnumbered ==
  [stage |-> stage, completed |-> IF WindowDone THEN window + 1 ELSE window,
   current |-> IF step = 0 THEN window ELSE window + 1, steps |-> step]
EulerEvent ==
  [stage |-> stage, completed |-> IF WindowDone THEN window + 1 ELSE window,
   current |-> window + 1, steps |-> step]

(* The decoder's events name the window just done.                         *)
Event ==
  CASE stage = "generating_latents" /\ step # NoStep -> EulerEvent
    [] stage = "decoding_window" ->
         [stage |-> stage, completed |-> window,
          current |-> IF window = 0 THEN 1 ELSE window, steps |-> 0]
    [] stage \in {"releasing_flow", "assembling_audio", "complete"} ->
         [stage |-> stage, completed |-> Windows, current |-> 0, steps |-> 0]
    [] OTHER -> [stage |-> stage, completed |-> 0, current |-> 0, steps |-> 0]

Report ==
  /\ pc = "report" /\ event' = Event /\ Late("events")
  /\ eulerEvents' = eulerEvents + (IF event'.steps > 0 THEN 1 ELSE 0)
  /\ Goto("poll")
  /\ UNCHANGED <<stage, window, step, resident, signal, failed, artifact, exit>>

(* check_cancelled, after the callback; the exception closes every scope.  *)
NotPolled == FALSE
Cancelled == signal

Following ==
  CASE stage = "generating_latents" ->
         IF step \in {NoStep, Steps} THEN "enter"
         ELSE IF step = 0 THEN "condition" ELSE "solve"
    [] stage = "decoding_window" -> "decode"
    [] OTHER -> "work"

Poll ==
  /\ pc = "poll"
  /\ IF Cancelled THEN Exits(130)
     ELSE Goto(Following) /\ UNCHANGED <<exit, resident>>
  /\ UNCHANGED <<stage, window, step, event, signal, failed, late, eulerEvents, artifact>>

Enter(next) == stage' = next /\ window' = 0 /\ step' = NoStep /\ Goto("report")
Loads(model) == resident' = resident \cup {model}
StaysLoaded(model) == UNCHANGED resident
Releases(model) == resident' = resident \ {model}

Work ==
  /\ pc = "work"
  /\ \/ stage = "loading_tokens" /\ Enter("initializing_backend") /\ UNCHANGED resident
     \/ stage = "initializing_backend" /\ Enter("loading_flow") /\ UNCHANGED resident
     \/ stage = "loading_flow" /\ Enter("generating_latents") /\ Loads("flow")
     \/ stage = "releasing_flow" /\ Enter("loading_vae") /\ Releases("flow")
     \/ stage = "loading_vae" /\ Enter("decoding_window") /\ Loads("vae")
     \/ stage = "assembling_audio" /\ Enter("complete") /\ UNCHANGED resident
     \/ stage = "complete" /\ Goto("write") /\ UNCHANGED <<stage, window, step, resident>>
  /\ UNCHANGED <<event, signal, failed, late, eulerEvents, artifact, exit>>

(* flow::renderer::render: at a window's entry the flag is polled and the  *)
(* entry reported, which polls again.                                      *)
LatentsDone == WindowDone /\ window + 1 = Windows

EnterWindow ==
  /\ pc = "enter"
  /\ IF LatentsDone THEN Enter("releasing_flow") /\ UNCHANGED <<exit, resident>>
     ELSE IF Cancelled THEN Exits(130) /\ UNCHANGED <<stage, window, step>>
     ELSE /\ window' = IF WindowDone THEN window + 1 ELSE window
          /\ step' = 0 /\ Goto("report") /\ UNCHANGED <<stage, exit, resident>>
  /\ UNCHANGED <<event, signal, failed, late, eulerEvents, artifact>>

Condition ==
  /\ pc = "condition" /\ Late("graphs") /\ Goto("solve")
  /\ UNCHANGED <<stage, window, step, event, resident, signal, failed, eulerEvents,
                 artifact, exit>>

(* The flag before a graph: of an Euler step, or of a window of the VAE.   *)
PollBefore(graph) ==
  /\ IF Cancelled THEN Exits(130) ELSE Goto(graph) /\ UNCHANGED <<exit, resident>>
  /\ UNCHANGED <<stage, window, step>>

Solve ==
  /\ pc = "solve" /\ PollBefore("euler")
  /\ UNCHANGED <<event, signal, failed, late, eulerEvents, artifact>>

Euler ==
  /\ pc = "euler" /\ Late("graphs") /\ step' = step + 1 /\ Goto("report")
  /\ UNCHANGED <<stage, window, event, resident, signal, failed, eulerEvents,
                 artifact, exit>>

(* A window of the VAE: the flag is polled before the graph (by the loop   *)
(* and again by vae_decoder::decode), by the backend during the graph if   *)
(* it has an abort hook, and after it.                                     *)
Decode ==
  /\ pc = "decode"
  /\ IF window = Windows
     THEN Enter("assembling_audio") /\ Releases("vae") /\ UNCHANGED exit
     ELSE PollBefore("start")
  /\ UNCHANGED <<event, signal, failed, late, eulerEvents, artifact>>

StartGraph ==
  /\ pc = "start" /\ Late("graphs") /\ Goto("graph")
  /\ UNCHANGED <<stage, window, step, event, resident, signal, failed, eulerEvents,
                 artifact, exit>>

GraphStatus == {"success", "failed"} \cup (IF signal THEN {"aborted"} ELSE {})
ExitAfterStatus(status) ==
  IF status # "success" THEN 1 ELSE IF Cancelled THEN 130 ELSE NoExit
ExitAfterGraph(status) ==
  IF status = "aborted" \/ Cancelled THEN 130 ELSE IF status = "failed" THEN 1 ELSE NoExit

Graph ==
  /\ pc = "graph"
  /\ \E status \in GraphStatus :
       /\ failed' = (failed \/ status = "failed")
       /\ IF ExitAfterGraph(status) # NoExit
          THEN Exits(ExitAfterGraph(status)) /\ UNCHANGED window
          ELSE window' = window + 1 /\ Goto("report") /\ UNCHANGED <<exit, resident>>
  /\ UNCHANGED <<stage, step, event, signal, late, eulerEvents, artifact>>

(* The pair of files; from here on nobody looks at the flag.               *)
Write ==
  /\ pc = "write" /\ artifact' = TRUE /\ Exits(0)
  /\ UNCHANGED <<stage, window, step, event, signal, failed, late, eulerEvents>>

Fail ==
  /\ pc \in {"work", "enter", "condition", "euler", "decode", "start", "write"} /\ failed' = TRUE /\ Exits(1)
  /\ UNCHANGED <<stage, window, step, event, signal, late, eulerEvents, artifact>>

Signal ==
  /\ pc # "exited" /\ ~signal /\ signal' = TRUE
  /\ UNCHANGED <<pc, stage, window, step, event, resident, failed, late,
                 eulerEvents, artifact, exit>>

Next == \/ Report \/ Poll \/ Work
        \/ EnterWindow \/ Condition \/ Solve \/ Euler
        \/ Decode \/ StartGraph \/ Graph \/ Write
        \/ Fail \/ Signal

Spec == Init /\ [][Next]_vars

-----------------------------------------------------------------------------
(* Flow is released before the VAE is loaded: whatever path led here, one  *)
(* model at most is in memory, and none once the process ends.             *)
OneModelResident ==
  Cardinality(resident) <= 1 /\ (pc = "exited" => resident = {})

(* A signal is honoured at the next boundary: wherever it came, at most    *)
(* one event is still reported and one graph still started, be it of the   *)
(* conditioning, of an Euler step or of the VAE.                           *)
CancelIsPrompt == late.events <= 1 /\ late.graphs <= 1

(* The exit status tells what happened: 0 with an artifact, 130 after a    *)
(* signal without one, 1 only if something failed, not because a graph was *)
(* aborted on request.                                                     *)
ExitTellsOutcome ==
  pc = "exited" => /\ (exit = 0) = artifact
                   /\ exit = 130 => signal
                   /\ exit = 1 => failed

(* A finished rendering has reported every Euler step and every window.    *)
EveryUnitReported ==
  exit = 0 => /\ eulerEvents = Windows * Steps
              /\ event = [stage |-> "complete", completed |-> Windows, current |-> 0, steps |-> 0]

(* The order of render_stage.                                              *)
Rank == [none |-> 0, loading_tokens |-> 1, initializing_backend |-> 2, loading_flow |-> 3,
         generating_latents |-> 4, releasing_flow |-> 5, loading_vae |-> 6,
         decoding_window |-> 7, assembling_audio |-> 8, complete |-> 9]

NotBehind(earlier, later) ==
  /\ Rank[later.stage] >= Rank[earlier.stage]
  /\ later.stage = earlier.stage =>
       /\ later.completed >= earlier.completed
       /\ later.current >= earlier.current
       /\ later.current = earlier.current => later.steps >= earlier.steps

(* "monotonic counters" (docs/observability-plan.md): no stage is reported *)
(* again once a later one was; within a stage no window and, within a      *)
(* window, no Euler step is taken back.  Steps start from zero with the    *)
(* next window only, completed windows with the next stage only.           *)
CountersMonotonic == [][NotBehind(event, event')]_vars
=============================================================================
