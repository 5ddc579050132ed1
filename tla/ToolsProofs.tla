----------------------------- MODULE ToolsProofs ----------------------------
(***************************************************************************)
(* For any number of windows and Euler steps, wherever a signal, a failure *)
(* or an aborted graph comes: one model in memory, at most one event and   *)
(* one graph after a signal, an exit status that tells what happened, and  *)
(* reports that are complete and go forward within their stage.  For any   *)
(* interval of the progress writer, and however updates and heartbeats     *)
(* interleave: silence of less than two intervals, and no line behind an   *)
(* earlier one.                                                            *)
(***************************************************************************)
EXTENDS ToolsMC, FiniteSetTheorems, TLAPS

FlowSteps == {"enter", "condition", "solve", "euler"}
VaeSteps == {"decode", "start", "graph"}
Running == {"report", "poll", "work", "write"} \cup FlowSteps \cup VaeSteps

(* The model a stage works with.                                           *)
ModelOf(s) ==
  IF s \in {"generating_latents", "releasing_flow"} THEN {"flow"}
  ELSE IF s = "decoding_window" THEN {"vae"} ELSE {}

(* Memory holds what the stage needs: the strengthening that makes         *)
(* OneModelResident inductive.                                             *)
ResidentInv == resident = IF pc = "exited" THEN {} ELSE ModelOf(stage)

(* Which stage runs at which control point.                                *)
StageInv ==
  /\ pc \in Running \cup {"exited"}
  /\ pc \in FlowSteps => stage = "generating_latents"
  /\ pc \in VaeSteps => stage = "decoding_window"
  /\ pc = "work" => stage \notin {"generating_latents", "decoding_window"}
  /\ pc = "write" => stage = "complete"

(* Between an event and the next there is a poll, and between a graph and  *)
(* the next: the poll after a signal ends the run.                         *)
LateInv ==
  /\ late \in [events : {0, 1}, graphs : {0, 1}]
  /\ late.events = 1 => signal /\ pc \in {"poll", "exited"}
  /\ late.graphs = 1 => signal /\ pc \in {"solve", "report", "poll", "graph", "exited"}

(* The status is set once, with its reason.                                *)
ExitInv ==
  /\ signal \in BOOLEAN /\ failed \in BOOLEAN /\ artifact \in BOOLEAN
  /\ pc # "exited" => exit = NoExit /\ artifact = FALSE
  /\ pc = "exited" => /\ exit \in {0, 1, 130}
                      /\ exit = 0 => artifact = TRUE
                      /\ exit # 0 => artifact = FALSE
                      /\ exit = 130 => signal
                      /\ exit = 1 => failed

IInv == StageInv /\ ResidentInv /\ LateInv /\ ExitInv

-----------------------------------------------------------------------------
(* The run begins with nothing loaded, nothing reported and no status.     *)
LEMMA InitIInv == Init => IInv
<1> SUFFICES ASSUME Init PROVE IInv
  OBVIOUS
<1>1. /\ pc = "report" /\ stage = "loading_tokens" /\ resident = {}
      /\ late = [events |-> 0, graphs |-> 0]
  BY DEF Init
<1>2. StageInv /\ ResidentInv /\ LateInv
  BY <1>1 DEF StageInv, ResidentInv, ModelOf, LateInv, Running, FlowSteps, VaeSteps
<1>3. signal = FALSE /\ failed = FALSE /\ artifact = FALSE /\ exit = NoExit
  BY DEF Init
<1>4. ExitInv
  BY <1>1, <1>3 DEF ExitInv
<1> QED
  BY <1>2, <1>4 DEF IInv

(* An event or a graph counts as late if the signal is up.                 *)
LEMMA LateFacts ==
  ASSUME LateInv, NEW kind \in {"events", "graphs"}, late[kind] = 0, Late(kind)
  PROVE  /\ late' \in [events : {0, 1}, graphs : {0, 1}]
         /\ late'[kind] = 1 => signal
         /\ \A other \in {"events", "graphs"} \ {kind} : late'[other] = late[other]
<1>1. CASE signal
  BY <1>1 DEF Late, LateInv
<1>2. CASE ~signal
  BY <1>2 DEF Late, LateInv
<1> QED
  BY <1>1, <1>2

(* Within a stage the run goes on, or is cancelled.                        *)
LEMMA GoesOn ==
  ASSUME IInv, pc # "exited", pc' \in Running, UNCHANGED <<stage, resident, signal, failed>>,
         UNCHANGED <<artifact, exit>>,
         /\ pc' \in FlowSteps => stage = "generating_latents"
         /\ pc' \in VaeSteps => stage = "decoding_window"
         /\ pc' = "work" => stage \notin {"generating_latents", "decoding_window"}
         /\ pc' = "write" => stage = "complete"
  PROVE  StageInv' /\ ResidentInv' /\ ExitInv'
<1>1. pc' # "exited"
  BY DEF Running, FlowSteps, VaeSteps
<1> QED
  BY <1>1 DEF IInv, StageInv, ResidentInv, ModelOf, ExitInv

LEMMA Stops ==
  ASSUME IInv, pc # "exited", Cancelled, Exits(130),
         UNCHANGED <<stage, late, signal, failed, artifact>>
  PROVE  IInv'
BY DEF IInv, StageInv, ResidentInv, LateInv, ExitInv, Running, FlowSteps, VaeSteps,
   Cancelled, Exits, NoExit

(* A graph starts after a poll, and no other graph between them.           *)
LEMMA GraphStarts ==
  ASSUME IInv, pc \in {"condition", "euler", "start"}, Late("graphs"),
         \/ pc = "condition" /\ pc' = "solve"
         \/ pc = "euler" /\ pc' = "report"
         \/ pc = "start" /\ pc' = "graph",
         UNCHANGED <<stage, resident, signal, failed, artifact, exit>>
  PROVE  IInv'
<1>1. late.graphs = 0 /\ late.events = 0
  BY DEF IInv, LateInv
<1>2. /\ late' \in [events : {0, 1}, graphs : {0, 1}]
      /\ late'.graphs = 1 => signal
      /\ late'.events = 0
  BY <1>1, LateFacts DEF IInv
<1>3. LateInv'
  BY <1>2 DEF LateInv
<1>4. StageInv' /\ ResidentInv' /\ ExitInv'
  BY GoesOn DEF IInv, StageInv, Running, FlowSteps, VaeSteps
<1> QED
  BY <1>3, <1>4 DEF IInv

(* Every step of the run keeps the invariant.                              *)
LEMMA NextIInv == IInv /\ [Next]_vars => IInv'
<1> SUFFICES ASSUME IInv, [Next]_vars PROVE IInv'
  OBVIOUS
<1> USE DEF Running, FlowSteps, VaeSteps
<1>1. CASE Report
  <2>1. late.events = 0
    BY <1>1 DEF Report, IInv, LateInv
  <2>2. /\ late' \in [events : {0, 1}, graphs : {0, 1}]
        /\ late'.events = 1 => signal
        /\ late'.graphs = late.graphs
    BY <1>1, <2>1, LateFacts DEF IInv, Report
  <2>3. LateInv'
    BY <1>1, <2>2 DEF IInv, LateInv, Report, Goto
  <2>4. StageInv' /\ ResidentInv' /\ ExitInv'
    BY <1>1, GoesOn DEF Report, Goto
  <2> QED BY <2>3, <2>4 DEF IInv
<1>2. CASE Poll
  <2>1. CASE Cancelled
    BY <1>2, <2>1, Stops DEF Poll
  <2>2. CASE ~Cancelled
    <3>1. late.events = 0 /\ late.graphs = 0 /\ ~signal
      BY <2>2 DEF IInv, LateInv, Cancelled
    <3>2. pc' = Following /\ UNCHANGED <<stage, late, signal, failed, artifact, exit, resident>>
      BY <1>2, <2>2 DEF Poll, Goto
    <3>3. /\ pc' \in {"enter", "condition", "solve", "decode", "work"}
          /\ pc' \in FlowSteps => stage = "generating_latents"
          /\ pc' = "decode" => stage = "decoding_window"
          /\ pc' = "work" => stage \notin {"generating_latents", "decoding_window"}
      BY <3>2 DEF Following
    <3>4. LateInv'
      BY <3>1, <3>2 DEF IInv, LateInv
    <3>5. StageInv' /\ ResidentInv' /\ ExitInv'
      BY <1>2, <3>2, <3>3, GoesOn DEF Poll
    <3> QED BY <3>4, <3>5 DEF IInv
  <2> QED BY <2>1, <2>2
<1>3. CASE Work
  <2>1. /\ late.events = 0 /\ late.graphs = 0 /\ late' = late
        /\ UNCHANGED <<signal, failed, artifact, exit>>
        /\ pc' \in {"report", "write"} /\ resident = ModelOf(stage) /\ pc # "exited"
    BY <1>3 DEF IInv, LateInv, ResidentInv, Work, Enter, Goto
  <2>2. (pc' = "write" => stage' = "complete") /\ resident' = ModelOf(stage')
    BY <1>3, <2>1 DEF Work, Enter, Goto, Loads, Releases, ModelOf
  <2> QED BY <2>1, <2>2 DEF IInv, StageInv, ResidentInv, LateInv, ExitInv
<1>4. CASE EnterWindow
  <2>1. /\ pc = "enter" /\ stage = "generating_latents" /\ late.events = 0 /\ late.graphs = 0
        /\ UNCHANGED <<late, signal, failed, artifact>> /\ resident = {"flow"}
    BY <1>4 DEF EnterWindow, IInv, StageInv, LateInv, ResidentInv, ModelOf
  <2>2. CASE LatentsDone
    <3>1. pc' = "report" /\ stage' = "releasing_flow" /\ UNCHANGED <<exit, resident>>
      BY <1>4, <2>2 DEF EnterWindow, Enter, Goto
    <3> QED
      BY <2>1, <3>1 DEF IInv, StageInv, ResidentInv, LateInv, ExitInv, ModelOf
  <2>3. CASE ~LatentsDone /\ Cancelled
    BY <1>4, <2>1, <2>3, Stops DEF EnterWindow
  <2>4. CASE ~LatentsDone /\ ~Cancelled
    <3>1. pc' = "report" /\ UNCHANGED <<stage, exit, resident>>
      BY <1>4, <2>4 DEF EnterWindow, Goto
    <3> QED
      BY <2>1, <3>1, GoesOn DEF IInv, LateInv
  <2> QED BY <2>2, <2>3, <2>4
<1>5. CASE Condition \/ Euler \/ StartGraph
  BY <1>5, GraphStarts DEF Condition, Euler, StartGraph, Goto
<1>6. ASSUME NEW graph \in {"euler", "start"}, PollBefore(graph), pc \in {"solve", "decode"},
             pc = "solve" <=> graph = "euler",
             UNCHANGED <<late, signal, failed, artifact>>
      PROVE  IInv'
  <2>1. CASE Cancelled
    BY <1>6, <2>1, Stops DEF PollBefore
  <2>2. CASE ~Cancelled
    <3>1. late.events = 0 /\ late.graphs = 0
      BY <2>2 DEF IInv, LateInv, Cancelled
    <3>2. pc' = graph /\ UNCHANGED <<stage, exit, resident>>
      BY <1>6, <2>2 DEF PollBefore, Goto
    <3>3. StageInv' /\ ResidentInv' /\ ExitInv'
      BY <1>6, <3>2, GoesOn DEF IInv, StageInv
    <3> QED
      BY <1>6, <3>1, <3>2, <3>3 DEF IInv, LateInv
  <2> QED BY <2>1, <2>2
<1>7. CASE Solve
  BY <1>6, <1>7 DEF Solve
<1>8. CASE Decode
  <2>1. CASE window = Windows
    <3>1. /\ pc = "decode" /\ stage = "decoding_window" /\ resident = {"vae"}
          /\ late.events = 0 /\ late.graphs = 0
      BY <1>8 DEF Decode, IInv, StageInv, ResidentInv, ModelOf, LateInv
    <3>2. /\ pc' = "report" /\ stage' = "assembling_audio" /\ resident' = {}
          /\ UNCHANGED <<late, signal, failed, artifact, exit>>
      BY <1>8, <2>1, <3>1 DEF Decode, Enter, Goto, Releases
    <3> QED
      BY <3>1, <3>2 DEF IInv, StageInv, ResidentInv, LateInv, ExitInv, ModelOf
  <2>2. CASE window # Windows
    BY <1>6, <1>8, <2>2 DEF Decode
  <2> QED BY <2>1, <2>2
<1>9. CASE Graph
  <2>1. PICK status \in GraphStatus :
          /\ failed' = (failed \/ status = "failed")
          /\ IF ExitAfterGraph(status) # NoExit
             THEN Exits(ExitAfterGraph(status)) /\ UNCHANGED window
             ELSE window' = window + 1 /\ Goto("report") /\ UNCHANGED <<exit, resident>>
    BY <1>9 DEF Graph
  <2>2. /\ ExitAfterGraph(status) \in {130, 1, NoExit}
        /\ ExitAfterGraph(status) = 130 => signal
        /\ ExitAfterGraph(status) = 1 => failed'
    <3>1. status = "aborted" => signal
      BY DEF GraphStatus
    <3>2. status = "failed" => failed'
      BY <2>1
    <3> QED BY <3>1, <3>2 DEF ExitAfterGraph, Cancelled, NoExit
  <2>3. pc = "graph" /\ UNCHANGED <<stage, signal, late, artifact>>
    BY <1>9 DEF Graph
  <2>4. failed \in BOOLEAN /\ failed' \in BOOLEAN
    BY <2>1 DEF IInv, ExitInv
  <2>5. CASE ExitAfterGraph(status) # NoExit
    BY <2>1, <2>2, <2>3, <2>4, <2>5
       DEF Exits, NoExit, IInv, StageInv, ResidentInv, LateInv, ExitInv
  <2>6. CASE ExitAfterGraph(status) = NoExit
    BY <2>1, <2>3, <2>4, <2>6
       DEF Goto, NoExit, IInv, StageInv, ResidentInv, LateInv, ExitInv, ModelOf
  <2> QED BY <2>5, <2>6
<1>10. CASE Write
  BY <1>10 DEF Write, Exits, NoExit, IInv, StageInv, ResidentInv, LateInv, ExitInv
<1>11. CASE Fail
  BY <1>11 DEF Fail, Exits, NoExit, IInv, StageInv, ResidentInv, LateInv, ExitInv
<1>12. CASE Signal
  BY <1>12 DEF Signal, IInv, StageInv, ResidentInv, LateInv, ExitInv, ModelOf
<1>13. CASE UNCHANGED vars
  BY <1>13 DEF vars, IInv, StageInv, ResidentInv, LateInv, ExitInv, ModelOf
<1> QED
  BY <1>1, <1>2, <1>3, <1>4, <1>5, <1>7, <1>8, <1>9, <1>10, <1>11, <1>12, <1>13 DEF Next

(* The invariant holds in every state of a run.                            *)
LEMMA Invariant == Spec => []IInv
  BY InitIInv, NextIInv, PTL DEF Spec

-----------------------------------------------------------------------------
(* Flow and VAE are never in memory together, and nothing is after exit.   *)
THEOREM OneModelAlways == Spec => []OneModelResident
<1>1. IInv => OneModelResident
  <2> SUFFICES ASSUME IInv PROVE OneModelResident
    OBVIOUS
  <2>1. resident \in {{}, {"flow"}, {"vae"}}
    BY DEF IInv, ResidentInv, ModelOf
  <2>2. Cardinality(resident) \in {0, 1}
    BY <2>1, FS_EmptySet, FS_Singleton
  <2> QED
    BY <2>2 DEF OneModelResident, IInv, ResidentInv
<1> QED
  BY <1>1, Invariant, PTL

(* At most one event is reported and one graph started once a signal came. *)
THEOREM CancelAlwaysPrompt == Spec => []CancelIsPrompt
<1>1. IInv => CancelIsPrompt
  BY DEF IInv, LateInv, CancelIsPrompt
<1> QED
  BY <1>1, Invariant, PTL

(* 0 with an artifact, 130 after a signal, 1 after a failure.              *)
THEOREM ExitAlwaysTells == Spec => []ExitTellsOutcome
<1>1. IInv => ExitTellsOutcome
  BY DEF IInv, ExitInv, ExitTellsOutcome
<1> QED
  BY <1>1, Invariant, PTL

-----------------------------------------------------------------------------
(* The events of a rendering.                                              *)
Early == {"loading_tokens", "initializing_backend", "loading_flow"}
AfterLatents == {"releasing_flow", "loading_vae", "decoding_window", "assembling_audio", "complete"}
RenderStages == Early \cup {"generating_latents"} \cup AfterLatents
EventType == [stage : RenderStages \cup {"none"}, completed : Nat, current : Nat, steps : Nat]

(* Where the loops over windows and Euler steps are.                       *)
LoopInv ==
  /\ stage \in RenderStages /\ window \in 0 .. Windows /\ step \in NoStep .. Steps
  /\ event \in EventType
  /\ stage # "generating_latents" => step = NoStep
  /\ stage = "generating_latents" => window < Windows /\ (step = NoStep => window = 0)
  /\ stage \notin {"generating_latents", "decoding_window"} => window = 0
  /\ pc \in {"start", "graph"} => window < Windows
  /\ pc = "enter" => step \in {NoStep, Steps}
  /\ pc \in {"condition", "solve", "euler"} => step \in 0 .. Steps - 1

StepsDone == IF step = NoStep THEN 0 ELSE step

(* Every Euler step so far was reported, but the one about to be.          *)
CountInv ==
  /\ stage \in Early => eulerEvents = 0
  /\ stage = "generating_latents" =>
       eulerEvents = window * Steps + StepsDone - (IF pc = "report" /\ step > 0 THEN 1 ELSE 0)
  /\ stage \in AfterLatents => eulerEvents = Windows * Steps

(* What is reported next is not behind the last event.                     *)
EventInv ==
  /\ pc \notin {"report", "exited"} => event = Event
  /\ pc = "report" => NotBehind(event, Event)

EventsInv ==
  /\ LoopInv /\ (pc # "exited" => CountInv) /\ EventInv /\ EveryUnitReported

-----------------------------------------------------------------------------
(* The stages have an order.                                               *)
LEMMA RankFacts ==
  /\ \A s \in RenderStages \cup {"none"} : Rank[s] \in 0 .. 9
  /\ Rank["none"] < Rank["loading_tokens"]
  /\ Rank["loading_tokens"] < Rank["initializing_backend"]
  /\ Rank["initializing_backend"] < Rank["loading_flow"]
  /\ Rank["loading_flow"] < Rank["generating_latents"]
  /\ Rank["generating_latents"] < Rank["releasing_flow"]
  /\ Rank["releasing_flow"] < Rank["loading_vae"]
  /\ Rank["loading_vae"] < Rank["decoding_window"]
  /\ Rank["decoding_window"] < Rank["assembling_audio"]
  /\ Rank["assembling_audio"] < Rank["complete"]
BY DEF Rank, RenderStages, Early, AfterLatents

(* An event speaks of its stage, and its steps are those of a window.      *)
LEMMA EventFacts ==
  ASSUME LoopInv
  PROVE  /\ Event \in EventType /\ Event.stage = stage
         /\ Event.steps > 0 <=> stage = "generating_latents" /\ step > 0
         /\ stage = "generating_latents" /\ step # NoStep =>
              /\ Event.completed = IF step = Steps THEN window + 1 ELSE window
              /\ Event.current = window + 1 /\ Event.steps = step
         /\ stage = "generating_latents" /\ step = NoStep =>
              Event.completed = 0 /\ Event.current = 0 /\ Event.steps = 0
         /\ stage = "decoding_window" =>
              /\ Event.completed = window /\ Event.steps = 0
              /\ Event.current = IF window = 0 THEN 1 ELSE window
         /\ stage = "complete" =>
              Event = [stage |-> "complete", completed |-> Windows, current |-> 0, steps |-> 0]
<1> USE RendererAssumption
        DEF LoopInv, EventType, RenderStages, Early, AfterLatents, NoStep
<1>1. CASE stage = "generating_latents" /\ step # NoStep
  <2>1. Event = [stage |-> stage, completed |-> IF step = Steps THEN window + 1 ELSE window,
                 current |-> window + 1, steps |-> step]
    BY <1>1 DEF Event, EulerEvent, WindowDone
  <2> QED
    BY <1>1, <2>1
<1>2. CASE stage = "decoding_window"
  <2>1. Event = [stage |-> stage, completed |-> window,
                 current |-> IF window = 0 THEN 1 ELSE window, steps |-> 0]
    BY <1>2 DEF Event
  <2> QED
    BY <1>2, <2>1
<1>3. CASE stage \in {"releasing_flow", "assembling_audio", "complete"}
  <2>1. Event = [stage |-> stage, completed |-> Windows, current |-> 0, steps |-> 0]
    BY <1>3 DEF Event
  <2> QED
    BY <1>3, <2>1
<1>4. CASE /\ stage \in Early \cup {"loading_vae", "generating_latents"}
           /\ stage = "generating_latents" => step = NoStep
  <2>1. Event = [stage |-> stage, completed |-> 0, current |-> 0, steps |-> 0]
    BY <1>4 DEF Event
  <2> QED
    BY <1>4, <2>1
<1> QED
  BY <1>1, <1>2, <1>3, <1>4

(* Stages follow each other, none twice.                                   *)
LEMMA EnterKeeps ==
  ASSUME IInv, EventsInv, NEW next \in RenderStages, Enter(next), pc # "exited",
         pc # "report", Rank[next] > Rank[stage],
         next # "generating_latents" \/ stage \in Early,
         stage \in Early => next \in Early \cup {"generating_latents"},
         stage = "generating_latents" =>
           step = Steps /\ window + 1 = Windows /\ next \in AfterLatents,
         stage \in AfterLatents => next \in AfterLatents,
         UNCHANGED <<event, eulerEvents, exit>>
  PROVE  EventsInv'
<1>1. /\ stage' = next /\ window' = 0 /\ step' = NoStep /\ pc' = "report"
      /\ event.stage = stage /\ exit = NoExit
  BY EventFacts DEF Enter, Goto, EventsInv, EventInv, IInv, ExitInv
<1>2. Windows \in Nat \ {0} /\ Steps \in Nat \ {0} /\ stage \in RenderStages
  BY RendererAssumption DEF EventsInv, LoopInv
<1>3. LoopInv'
  BY <1>1, <1>2 DEF EventsInv, LoopInv, NoStep
<1>4. CountInv'
  <2>1. CASE stage \in Early
    <3>1. eulerEvents' = 0
      BY <1>1, <2>1 DEF EventsInv, CountInv
    <3>2. stage' \notin AfterLatents /\ 0 * Steps + 0 - 0 = 0
      BY <1>1, <1>2, <2>1 DEF Early, AfterLatents
    <3>3. StepsDone' = 0 /\ ~(step' > 0)
      BY <1>1 DEF StepsDone, NoStep
    <3> QED
      BY <1>1, <3>1, <3>2, <3>3 DEF CountInv
  <2>2. CASE stage \in AfterLatents \cup {"generating_latents"}
    <3>1. eulerEvents' = Windows * Steps
      <4>1. CASE stage = "generating_latents"
        <5>1. eulerEvents = window * Steps + Steps /\ window = Windows - 1
          BY <1>1, <1>2, <4>1 DEF EventsInv, CountInv, LoopInv, StepsDone, NoStep
        <5>2. (Windows - 1) * Steps + Steps = Windows * Steps
          BY <1>2
        <5> QED
          BY <5>1, <5>2
      <4>2. CASE stage \in AfterLatents
        BY <4>2 DEF EventsInv, CountInv
      <4> QED
        BY <2>2, <4>1, <4>2
    <3>2. stage' \in AfterLatents
      BY <1>1, <2>2
    <3> QED
      BY <3>1, <3>2 DEF CountInv, Early, AfterLatents
  <2> QED
    BY <1>2, <2>1, <2>2 DEF RenderStages
<1>5. NotBehind(event, Event)'
  <2>1. Event'.stage = stage'
    BY DEF Event, EulerEvent
  <2>2. Rank[stage'] \in 0 .. 9 /\ Rank[stage] \in 0 .. 9
    BY <1>1, <1>2, RankFacts
  <2> QED
    BY <1>1, <2>1, <2>2 DEF NotBehind
<1>6. EventInv' /\ EveryUnitReported'
  BY <1>1, <1>5 DEF EventInv, EveryUnitReported, NoExit
<1> QED
  BY <1>3, <1>4, <1>6 DEF EventsInv

(* A step that leaves the loops and their events alone, or ends the run    *)
(* with nothing to show.                                                   *)
LEMMA SameLoops ==
  ASSUME IInv, EventsInv, pc # "report",
         UNCHANGED <<stage, window, step, event, eulerEvents>>,
         \/ pc' = pc /\ exit' = exit
         \/ /\ pc # "exited" /\ pc' \notin {"report", "exited"} /\ exit' = exit
            /\ pc' \in {"start", "graph"} => window < Windows
            /\ pc' = "enter" => step \in {NoStep, Steps}
            /\ pc' \in {"condition", "solve", "euler"} => step \in 0 .. Steps - 1
         \/ pc # "exited" /\ pc' = "exited" /\ exit' \in {1, 130}
  PROVE  EventsInv'
<1>1. Event' = Event
  BY DEF Event, EulerEvent, WindowDone
<1>2. LoopInv'
  BY DEF EventsInv, LoopInv
<1>3. pc' # "exited" => CountInv'
  BY DEF EventsInv, CountInv, StepsDone
<1>4. EventInv'
  BY <1>1 DEF EventsInv, EventInv
<1>5. EveryUnitReported'
  BY DEF EventsInv, EveryUnitReported, IInv, ExitInv, NoExit
<1> QED
  BY <1>2, <1>3, <1>4, <1>5 DEF EventsInv

LEMMA ReportKeeps ==
  ASSUME IInv, EventsInv, Report
  PROVE  EventsInv'
<1>1. /\ pc = "report" /\ pc' = "poll" /\ event' = Event /\ exit = NoExit
      /\ eulerEvents' = eulerEvents + (IF Event.steps > 0 THEN 1 ELSE 0)
      /\ UNCHANGED <<stage, window, step, exit>>
  BY DEF Report, Goto, IInv, ExitInv
<1>2. Event' = Event
  BY <1>1 DEF Event, EulerEvent, WindowDone
<1>3. LoopInv'
  BY <1>1, EventFacts DEF EventsInv, LoopInv
<1>4. CountInv'
  <2>1. Event.steps > 0 <=> stage = "generating_latents" /\ step > 0
    BY EventFacts DEF EventsInv
  <2>2. CountInv /\ window \in Nat /\ StepsDone \in Nat /\ Steps \in Nat /\ Windows \in Nat
        /\ StepsDone' = StepsDone
    BY <1>1, RendererAssumption DEF EventsInv, LoopInv, StepsDone, NoStep
  <2>3. window * Steps \in Nat /\ Windows * Steps \in Nat
    BY <2>2
  <2>4. CASE stage \in Early
    <3>1. stage # "generating_latents" /\ stage \notin AfterLatents
      BY <2>4 DEF Early, AfterLatents
    <3>2. eulerEvents = 0
      BY <2>2, <2>4 DEF CountInv
    <3>3. eulerEvents' = 0
      BY <1>1, <2>1, <3>1, <3>2
    <3> QED
      BY <1>1, <3>1, <3>3 DEF CountInv
  <2>5. CASE stage = "generating_latents"
    <3>1. eulerEvents = window * Steps + StepsDone - (IF step > 0 THEN 1 ELSE 0)
      BY <1>1, <2>2, <2>5 DEF CountInv
    <3>2. eulerEvents' = window * Steps + StepsDone
      BY <1>1, <2>1, <2>2, <2>3, <2>5, <3>1
    <3> QED
      BY <1>1, <2>2, <2>3, <2>5, <3>2 DEF CountInv, Early, AfterLatents
  <2>6. CASE stage \in AfterLatents
    BY <1>1, <2>1, <2>2, <2>3, <2>6 DEF CountInv, Early, AfterLatents
  <2> QED
    BY <2>4, <2>5, <2>6 DEF EventsInv, LoopInv, RenderStages
<1>5. EventInv' /\ EveryUnitReported'
  BY <1>1, <1>2 DEF EventInv, EveryUnitReported, NoExit
<1> QED
  BY <1>3, <1>4, <1>5 DEF EventsInv

LEMMA WorkKeeps ==
  ASSUME IInv, EventsInv, Work
  PROVE  EventsInv'
<1>1. /\ pc = "work" /\ UNCHANGED <<event, eulerEvents, exit>>
  BY DEF Work
<1>2. CASE stage = "complete"
  <2>1. pc' = "write" /\ UNCHANGED <<stage, window, step>>
    BY <1>2 DEF Work, Goto
  <2> QED
    BY <1>1, <2>1, SameLoops
<1>3. CASE stage # "complete"
  <2>1. \/ stage = "loading_tokens" /\ Enter("initializing_backend")
        \/ stage = "initializing_backend" /\ Enter("loading_flow")
        \/ stage = "loading_flow" /\ Enter("generating_latents")
        \/ stage = "releasing_flow" /\ Enter("loading_vae")
        \/ stage = "loading_vae" /\ Enter("decoding_window")
        \/ stage = "assembling_audio" /\ Enter("complete")
    BY <1>3 DEF Work
  <2> QED
    BY <1>1, <2>1, EnterKeeps, RankFacts DEF RenderStages, Early, AfterLatents
<1> QED
  BY <1>2, <1>3

(* The entry into a window is reported with no step done, after the last   *)
(* step of the window before it.                                           *)
LEMMA EnterWindowKeeps ==
  ASSUME IInv, EventsInv, EnterWindow
  PROVE  EventsInv'
<1>1. /\ pc = "enter" /\ stage = "generating_latents" /\ exit = NoExit
      /\ UNCHANGED <<event, eulerEvents>>
  BY DEF EnterWindow, IInv, StageInv, FlowSteps, ExitInv
<1>2. CASE LatentsDone
  <2>1. Rank["releasing_flow"] > Rank[stage]
    BY <1>1, RankFacts DEF RenderStages, AfterLatents
  <2> QED
    BY <1>1, <1>2, <2>1, EnterKeeps
       DEF EnterWindow, LatentsDone, WindowDone, RenderStages, Early, AfterLatents
<1>3. CASE ~LatentsDone /\ Cancelled
  BY <1>1, <1>3, SameLoops DEF EnterWindow, Exits
<1>4. CASE ~LatentsDone /\ ~Cancelled
  <2>1. /\ window' = IF step = Steps THEN window + 1 ELSE window
        /\ step' = 0 /\ pc' = "report" /\ UNCHANGED <<stage, exit>>
    BY <1>4 DEF EnterWindow, Goto, WindowDone
  <2>2. /\ window \in 0 .. Windows /\ step \in {NoStep, Steps} /\ window < Windows
        /\ step = Steps => window + 1 # Windows
        /\ step = NoStep => window = 0
        /\ Windows \in Nat \ {0} /\ Steps \in Nat \ {0}
    BY <1>1, <1>4, RendererAssumption DEF EventsInv, LoopInv, LatentsDone, WindowDone
  <2>3. LoopInv'
    BY <1>1, <2>1, <2>2 DEF EventsInv, LoopInv, NoStep
  <2>4. CountInv'
    <3>1. (window + 1) * Steps = window * Steps + Steps /\ window * Steps \in Nat
          /\ 0 * Steps = 0
      BY <2>2
    <3>2. eulerEvents = window * Steps + (IF step = NoStep THEN 0 ELSE Steps)
      BY <1>1, <2>2, <3>1 DEF EventsInv, CountInv, StepsDone
    <3>3. eulerEvents' = window' * Steps /\ StepsDone' = 0 /\ window' * Steps \in Nat
      BY <1>1, <2>1, <2>2, <3>1, <3>2 DEF StepsDone, NoStep
    <3> QED
      BY <1>1, <2>1, <3>3 DEF CountInv, Early, AfterLatents
  <2>5. NotBehind(event, Event)'
    <3>1. event = Event
      BY <1>1 DEF EventsInv, EventInv
    <3>2. /\ event.stage = stage
          /\ step = NoStep => event.completed = 0 /\ event.current = 0 /\ event.steps = 0
          /\ step = Steps => event.completed = window + 1 /\ event.current = window + 1
      BY <1>1, <2>2, <3>1, EventFacts DEF EventsInv, NoStep
    <3>3. Event' = [stage |-> stage, completed |-> window', current |-> window' + 1, steps |-> 0]
      BY <1>1, <2>1, <2>2 DEF Event, EulerEvent, WindowDone, NoStep
    <3>4. Rank[stage] \in 0 .. 9
      BY <1>1, RankFacts DEF RenderStages
    <3> QED
      BY <1>1, <2>1, <2>2, <3>2, <3>3, <3>4 DEF NotBehind
  <2>6. EventInv' /\ EveryUnitReported'
    BY <1>1, <2>1, <2>5 DEF EventInv, EveryUnitReported, NoExit
  <2> QED
    BY <2>1, <2>3, <2>4, <2>6 DEF EventsInv
<1> QED
  BY <1>2, <1>3, <1>4

(* The next Euler step of the window.                                      *)
LEMMA EulerKeeps ==
  ASSUME IInv, EventsInv, Euler
  PROVE  EventsInv'
<1>1. /\ pc = "euler" /\ stage = "generating_latents" /\ exit = NoExit
      /\ pc' = "report" /\ step' = step + 1
      /\ UNCHANGED <<stage, window, event, eulerEvents, exit>>
  BY DEF Euler, Goto, IInv, StageInv, FlowSteps, ExitInv
<1>2. /\ window \in Nat /\ window < Windows /\ step \in 0 .. Steps - 1
      /\ Windows \in Nat \ {0} /\ Steps \in Nat \ {0} /\ window * Steps \in Nat
  <2>1. /\ window \in Nat /\ window < Windows /\ step \in 0 .. Steps - 1
        /\ Windows \in Nat \ {0} /\ Steps \in Nat \ {0}
    BY <1>1, RendererAssumption DEF EventsInv, LoopInv
  <2> QED
    BY <2>1
<1>3. LoopInv'
  BY <1>1, <1>2 DEF EventsInv, LoopInv, NoStep
<1>4. CountInv'
  <2>1. eulerEvents = window * Steps + step
    BY <1>1, <1>2 DEF EventsInv, CountInv, StepsDone, NoStep
  <2>2. StepsDone' = step + 1 /\ step' > 0
    BY <1>1, <1>2 DEF StepsDone, NoStep
  <2> QED
    BY <1>1, <1>2, <2>1, <2>2 DEF CountInv, Early, AfterLatents
<1>5. NotBehind(event, Event)'
  <2>1. event = Event
    BY <1>1 DEF EventsInv, EventInv
  <2>2. /\ event.stage = stage /\ event.completed = window
        /\ event.current = window + 1 /\ event.steps = step
    BY <1>1, <1>2, <2>1, EventFacts DEF EventsInv, NoStep
  <2>3. Event' = [stage |-> stage,
                  completed |-> IF step + 1 = Steps THEN window + 1 ELSE window,
                  current |-> window + 1, steps |-> step + 1]
    BY <1>1, <1>2 DEF Event, EulerEvent, WindowDone, NoStep
  <2>4. Rank[stage] \in 0 .. 9
    BY <1>1, RankFacts DEF RenderStages
  <2> QED
    BY <1>1, <1>2, <2>2, <2>3, <2>4 DEF NotBehind
<1>6. EventInv' /\ EveryUnitReported'
  BY <1>1, <1>5 DEF EventInv, EveryUnitReported, NoExit
<1> QED
  BY <1>1, <1>3, <1>4, <1>6 DEF EventsInv

(* Conditioning, and the polls before graphs.                              *)
LEMMA BeforeGraphKeeps ==
  ASSUME IInv, EventsInv, Condition \/ Solve \/ StartGraph
  PROVE  EventsInv'
<1>1. /\ pc \in {"condition", "solve", "start"}
      /\ UNCHANGED <<stage, window, step, event, eulerEvents>>
      /\ \/ pc = "condition" /\ pc' = "solve" /\ exit' = exit
         \/ pc = "solve" /\ pc' = "euler" /\ exit' = exit
         \/ pc = "start" /\ pc' = "graph" /\ exit' = exit
         \/ pc' = "exited" /\ exit' = 130
  BY DEF Condition, Solve, StartGraph, PollBefore, Goto, Exits
<1> QED
  BY <1>1, SameLoops DEF EventsInv, LoopInv

LEMMA DecodeKeeps ==
  ASSUME IInv, EventsInv, Decode
  PROVE  EventsInv'
<1>1. /\ pc = "decode" /\ stage = "decoding_window" /\ exit = NoExit
      /\ UNCHANGED <<event, eulerEvents>>
  BY DEF Decode, IInv, StageInv, VaeSteps, ExitInv
<1>2. CASE window = Windows
  <2>1. Rank["assembling_audio"] > Rank[stage]
    BY <1>1, RankFacts DEF RenderStages, AfterLatents
  <2> QED
    BY <1>1, <1>2, <2>1, EnterKeeps DEF Decode, RenderStages, Early, AfterLatents
<1>3. CASE window # Windows
  <2>1. /\ UNCHANGED <<stage, window, step>>
        /\ \/ pc' = "exited" /\ exit' = 130
           \/ pc' = "start" /\ exit' = exit
    BY <1>3 DEF Decode, PollBefore, Goto, Exits
  <2>2. window < Windows
    BY <1>3, RendererAssumption DEF EventsInv, LoopInv
  <2> QED
    BY <1>1, <2>1, <2>2, SameLoops
<1> QED
  BY <1>2, <1>3

(* A window is decoded, or the run ends.                                   *)
LEMMA GraphKeeps ==
  ASSUME IInv, EventsInv, Graph
  PROVE  EventsInv'
<1>1. /\ pc = "graph" /\ stage = "decoding_window" /\ exit = NoExit /\ window < Windows
      /\ window \in Nat /\ Windows \in Nat \ {0} /\ Steps \in Nat \ {0}
      /\ UNCHANGED <<stage, step, event, eulerEvents>>
  BY RendererAssumption DEF Graph, IInv, StageInv, VaeSteps, ExitInv, EventsInv, LoopInv
<1>2. \/ pc' = "exited" /\ exit' \in {1, 130} /\ window' = window
      \/ pc' = "report" /\ exit' = exit /\ window' = window + 1
  BY DEF Graph, Exits, Goto, ExitAfterGraph, Cancelled, NoExit
<1>3. CASE pc' = "exited" /\ exit' \in {1, 130} /\ window' = window
  BY <1>1, <1>3, SameLoops
<1>4. CASE pc' = "report" /\ exit' = exit /\ window' = window + 1
  <2>1. LoopInv'
    BY <1>1, <1>4 DEF EventsInv, LoopInv
  <2>2. CountInv'
    BY <1>1 DEF EventsInv, CountInv, Early, AfterLatents
  <2>3. NotBehind(event, Event)'
    <3>1. event = Event
      BY <1>1 DEF EventsInv, EventInv
    <3>2. /\ event.stage = stage /\ event.completed = window /\ event.steps = 0
          /\ event.current = IF window = 0 THEN 1 ELSE window
      BY <1>1, <3>1, EventFacts DEF EventsInv
    <3>3. Event' = [stage |-> stage, completed |-> window + 1, current |-> window + 1, steps |-> 0]
      BY <1>1, <1>4 DEF Event
    <3>4. Rank[stage] \in 0 .. 9
      BY <1>1, RankFacts DEF RenderStages, AfterLatents
    <3> QED
      BY <1>1, <1>4, <3>2, <3>3, <3>4 DEF NotBehind
  <2>4. EventInv' /\ EveryUnitReported'
    BY <1>1, <1>4, <2>3 DEF EventInv, EveryUnitReported, NoExit
  <2> QED
    BY <2>1, <2>2, <2>4 DEF EventsInv
<1> QED
  BY <1>2, <1>3, <1>4

LEMMA WriteKeeps ==
  ASSUME IInv, EventsInv, Write
  PROVE  EventsInv'
<1>1. /\ pc = "write" /\ stage = "complete" /\ pc' = "exited"
      /\ UNCHANGED <<stage, window, step, event, eulerEvents>>
  BY DEF Write, Exits, IInv, StageInv
<1>2. event = [stage |-> "complete", completed |-> Windows, current |-> 0, steps |-> 0]
  BY <1>1, EventFacts DEF EventsInv, EventInv
<1>3. eulerEvents = Windows * Steps
  BY <1>1 DEF EventsInv, CountInv, AfterLatents
<1>4. LoopInv' /\ EventInv'
  BY <1>1 DEF EventsInv, LoopInv, EventInv
<1> QED
  BY <1>1, <1>2, <1>3, <1>4 DEF EventsInv, EveryUnitReported

LEMMA EventsNext ==
  ASSUME IInv, EventsInv, [Next]_vars
  PROVE  EventsInv'
<1>1. CASE \/ Report \/ Work \/ EnterWindow \/ Condition \/ Solve \/ Euler
           \/ Decode \/ StartGraph \/ Graph \/ Write
  BY <1>1, ReportKeeps, WorkKeeps, EnterWindowKeeps, EulerKeeps, BeforeGraphKeeps,
     DecodeKeeps, GraphKeeps, WriteKeeps
<1>2. CASE Poll
  <2>1. /\ pc = "poll" /\ UNCHANGED <<stage, window, step, event, eulerEvents>>
        /\ \/ pc' = "exited" /\ exit' = 130
           \/ pc' = Following /\ exit' = exit
    BY <1>2 DEF Poll, Exits, Goto
  <2>2. /\ Following \in {"enter", "condition", "solve", "decode", "work"}
        /\ Following = "enter" => step \in {NoStep, Steps}
        /\ Following \in {"condition", "solve"} => step \in 0 .. Steps - 1
    BY RendererAssumption DEF Following, EventsInv, LoopInv, NoStep
  <2> QED
    BY <2>1, <2>2, SameLoops
<1>3. CASE Fail
  BY <1>3, SameLoops DEF Fail, Exits
<1>4. CASE Signal \/ UNCHANGED vars
  <2>1. UNCHANGED <<pc, stage, window, step, event, eulerEvents, exit>>
    BY <1>4 DEF Signal, vars
  <2>2. Event' = Event
    BY <2>1 DEF Event, EulerEvent, WindowDone
  <2>3. LoopInv' /\ (pc' # "exited" => CountInv')
    BY <2>1 DEF EventsInv, LoopInv, CountInv, StepsDone
  <2>4. EventInv' /\ EveryUnitReported'
    BY <2>1, <2>2 DEF EventsInv, EventInv, EveryUnitReported, NotBehind
  <2> QED
    BY <2>3, <2>4 DEF EventsInv
<1> QED
  BY <1>1, <1>2, <1>3, <1>4 DEF Next

LEMMA EventsStart == Init => EventsInv
<1> SUFFICES ASSUME Init PROVE EventsInv
  OBVIOUS
<1>1. LoopInv
  BY RendererAssumption DEF Init, LoopInv, RenderStages, Early, EventType, NoEvent, NoStep
<1>2. CountInv
  BY DEF Init, CountInv, Early, AfterLatents
<1>3. EventInv /\ EveryUnitReported
  <2>1. Event.stage = "loading_tokens" /\ event.stage = "none"
    BY DEF Init, Event, NoEvent
  <2>2. Rank["loading_tokens"] \in 0 .. 9 /\ Rank["none"] \in 0 .. 9
    BY RankFacts DEF RenderStages, Early
  <2>3. NotBehind(event, Event)
    BY <2>1, <2>2, RankFacts DEF NotBehind
  <2> QED
    BY <2>3 DEF Init, EventInv, EveryUnitReported, NoExit
<1> QED
  BY <1>1, <1>2, <1>3 DEF EventsInv

LEMMA EventsInvariant == Spec => [](IInv /\ EventsInv)
<1>1. IInv /\ EventsInv /\ [Next]_vars => EventsInv'
  BY EventsNext
<1> QED
  BY <1>1, InitIInv, NextIInv, EventsStart, PTL DEF Spec

(* Whatever the schedule, no stage, within a stage no window, and within a *)
(* window no Euler step is reported after a later one.                     *)
(* (docs/observability-plan.md: "monotonic counters")                      *)
THEOREM CountersNeverGoBack == Spec => CountersMonotonic
<1>1. IInv /\ EventsInv /\ [Next]_vars => [NotBehind(event, event')]_vars
  <2>1. SUFFICES ASSUME IInv, EventsInv, Next PROVE NotBehind(event, event')
    OBVIOUS
  <2>2. CASE Report
    BY <2>1, <2>2 DEF Report, EventsInv, EventInv
  <2>3. CASE ~Report
    <3>1. event' = event
      BY <2>1, <2>3 DEF Next, Poll, Work, EnterWindow, Condition, Solve, Euler, Decode,
         StartGraph, Graph, Write, Fail, Signal
    <3>2. event.completed \in Nat /\ event.current \in Nat /\ event.steps \in Nat
          /\ Rank[event.stage] \in 0 .. 9
      BY <2>1, RankFacts DEF EventsInv, LoopInv, EventType
    <3> QED
      BY <3>1, <3>2 DEF NotBehind
  <2> QED
    BY <2>2, <2>3
<1> QED
  BY <1>1, EventsInvariant, PTL DEF Spec, CountersMonotonic

-----------------------------------------------------------------------------
(* The progress writer, for every interval.                                *)

Last == 5

PositionType == 0..Last

WriterTypes ==
  /\ now \in Nat /\ interval \in Nat /\ upcoming \in 1..(Last + 1)
  /\ measured \in [position : PositionType, elapsed : Int]
  /\ latest \in [position : PositionType, elapsed : Int]
  /\ received \in Int /\ emitted \in Int /\ wake \in Nat
  /\ shown \in [position : PositionType, elapsed : Int, at : Int]
  /\ complete \in BOOLEAN /\ stopping \in BOOLEAN /\ notified \in BOOLEAN

(* Events reach the writer one by one and in order.                        *)
OrderInv ==
  /\ latest = Progress!None \/ latest.position >= 1
  /\ measured = Progress!None \/ measured.position = upcoming - 1
  /\ latest.position = IF measured = Progress!None THEN upcoming - 1 ELSE upcoming - 2

(* The last line is of the stage of the last event.                        *)
ShownInv ==
  IF latest = Progress!None
  THEN shown.position = 0 /\ ~complete
  ELSE /\ emitted = shown.at /\ emitted \in Nat
       /\ shown.position \in 1..latest.position
       /\ Stages[shown.position] = Stages[latest.position]
       /\ interval = 0 => shown.position = latest.position
       /\ complete = (latest.position = Last)

(* However often the wait begins anew, it ends within two intervals of the *)
(* last line.                                                              *)
TimerInv ==
  /\ worker \in {"none", "starting", "waiting", "ended"}
  /\ worker = "none" <=> interval = 0
  /\ worker = "starting" => now = 0
  /\ worker = "waiting" => now <= wake /\ wake <= now + interval
  /\ worker = "waiting" /\ Progress!Working => wake - emitted < 2 * interval
  /\ worker = "ended" => stopping

WriterInv == WriterTypes /\ OrderInv /\ ShownInv /\ TimerInv

(* Only the last position completes.                                       *)
LEMMA StageFacts ==
  /\ Len(Stages) = Last
  /\ \A i \in 1..Last : Stages[i] = Stages[Last] => i = Last
BY DEF Stages, Last

LEMMA WriterStarts == ToolsAssumption /\ Progress!Init => WriterInv
<1> SUFFICES ASSUME ToolsAssumption, Progress!Init PROVE WriterInv
  OBVIOUS
<1>1. interval \in Nat
  BY DEF ToolsAssumption, Progress!Init
<1>2. WriterTypes
  <2>1. /\ now = 0 /\ upcoming = 1 /\ received = 0 /\ emitted = -1000 /\ wake = 0
        /\ complete = FALSE /\ stopping = FALSE /\ notified = FALSE
        /\ shown = [position |-> 0, elapsed |-> 0, at |-> 0]
        /\ measured = [position |-> 0, elapsed |-> 0]
        /\ latest = [position |-> 0, elapsed |-> 0]
    BY DEF Progress!Init, Progress!None, Progress!Long
  <2>2. /\ measured \in [position : PositionType, elapsed : Int]
        /\ latest \in [position : PositionType, elapsed : Int]
        /\ shown \in [position : PositionType, elapsed : Int, at : Int]
    BY <2>1 DEF PositionType, Last
  <2>3. /\ now \in Nat /\ upcoming \in 1..(Last + 1) /\ received \in Int
        /\ emitted \in Int /\ wake \in Nat
    BY <2>1 DEF Last
  <2>4. complete \in BOOLEAN /\ stopping \in BOOLEAN /\ notified \in BOOLEAN
    BY <2>1
  <2> QED
    BY <1>1, <2>2, <2>3, <2>4 DEF WriterTypes
<1>3. OrderInv
  BY DEF Progress!Init, Progress!None, OrderInv
<1>4. ShownInv
  BY DEF Progress!Init, ShownInv
<1>5. TimerInv
  BY <1>1 DEF Progress!Init, TimerInv
<1> QED
  BY <1>2, <1>3, <1>4, <1>5 DEF WriterInv

(* An event is measured, and nobody has seen it yet.                       *)
LEMMA MeasureKeeps ==
  ASSUME WriterInv, Progress!Measure
  PROVE  WriterInv'
<1>1. /\ measured = Progress!None /\ upcoming <= Last
      /\ measured' = [position |-> upcoming, elapsed |-> now] /\ upcoming' = upcoming + 1
      /\ UNCHANGED <<now, interval, latest, received, emitted, complete, stopping, worker,
                     wake, notified, shown>>
  BY StageFacts DEF Progress!Measure, Progress!members, Progress!timer
<1>2. WriterTypes'
  BY <1>1 DEF WriterInv, WriterTypes, PositionType, Last
<1>3. OrderInv'
  <2>1. measured' # Progress!None
    BY <1>1 DEF WriterInv, WriterTypes, Progress!None
  <2> QED
    BY <1>1, <2>1 DEF WriterInv, WriterTypes, OrderInv
<1>4. ShownInv'
  BY <1>1 DEF WriterInv, ShownInv
<1>5. TimerInv'
  BY <1>1 DEF WriterInv, TimerInv, Progress!Working, Progress!HasEvent
<1> QED
  BY <1>2, <1>3, <1>4, <1>5 DEF WriterInv

(* The writer takes an event, which may be worth a line.                   *)
LEMMA UpdateKeeps ==
  ASSUME WriterInv, Progress!Update
  PROVE  /\ WriterInv'
         /\ shown' # shown => shown'.position >= shown.position /\ shown.position # Last
<1>1. /\ measured # Progress!None /\ measured' = Progress!None
      /\ latest' = measured /\ received' = now /\ complete' = (measured.position = Last)
      /\ notified' = (worker = "waiting")
      /\ UNCHANGED <<now, interval, upcoming, stopping, worker, wake>>
  BY StageFacts DEF Progress!Update, Progress!Remembered, Progress!IsComplete
<1>2. \/ /\ shown' = [position |-> measured.position, elapsed |-> measured.elapsed, at |-> now]
         /\ emitted' = now
      \/ /\ UNCHANGED <<shown, emitted>> /\ latest # Progress!None
         /\ Stages[measured.position] = Stages[latest.position]
         /\ measured.position # Last /\ interval # 0 /\ ~(now - emitted >= interval)
  BY StageFacts DEF Progress!Update, Progress!EmittedNow, Progress!StageChanged,
     Progress!IsComplete, Progress!Overdue, Progress!HasEvent, Progress!Stage, Progress!Emit
<1>3. /\ measured.position \in 1..Last /\ upcoming \in 2..(Last + 1)
      /\ measured.position = upcoming - 1
      /\ latest.position = upcoming - 2
  BY <1>1 DEF WriterInv, WriterTypes, OrderInv, PositionType, Last
<1>4. measured.position > latest.position
  BY <1>3 DEF Last
<1>5. WriterTypes'
  BY <1>1, <1>2 DEF WriterInv, WriterTypes, Progress!None, PositionType, Last
<1>6. OrderInv'
  BY <1>1, <1>3 DEF WriterInv, OrderInv, WriterTypes, Last
<1>7. latest' # Progress!None /\ latest'.position = measured.position
  BY <1>1
<1>8. ShownInv'
  <2>1. CASE emitted' = now /\ shown' = [position |-> measured.position,
                                          elapsed |-> measured.elapsed, at |-> now]
    BY <1>1, <1>3, <1>7, <2>1 DEF WriterInv, WriterTypes, ShownInv
  <2>2. CASE /\ UNCHANGED <<shown, emitted>> /\ latest # Progress!None
             /\ Stages[measured.position] = Stages[latest.position] /\ interval # 0
    <3>1. /\ emitted = shown.at /\ emitted \in Nat
          /\ shown.position \in 1..latest.position
          /\ Stages[shown.position] = Stages[latest.position]
      BY <2>2 DEF WriterInv, ShownInv
    <3>2. shown.position \in 1..measured.position
      BY <1>3, <1>4, <3>1
    <3> QED
      BY <1>1, <1>7, <2>2, <3>1, <3>2 DEF ShownInv
  <2> QED
    BY <1>2, <2>1, <2>2
<1>9. TimerInv'
  <2>1. worker' = "waiting" => now' <= wake' /\ wake' <= now' + interval'
    BY <1>1 DEF WriterInv, TimerInv
  <2>2. interval > 0 => wake' - emitted' < 2 * interval' \/ worker' # "waiting"
    BY <1>1, <1>2 DEF WriterInv, WriterTypes, TimerInv
  <2>3. worker' = "waiting" => interval > 0
    BY <1>1 DEF WriterInv, WriterTypes, TimerInv
  <2> QED
    BY <1>1, <2>1, <2>2, <2>3 DEF WriterInv, TimerInv
<1>10. shown.position <= latest.position \/ shown.position = 0
  BY DEF WriterInv, WriterTypes, ShownInv, PositionType
<1>11. shown' # shown => shown'.position >= shown.position /\ shown.position # Last
  <2>1. shown.position \in Nat /\ latest.position < Last
    BY <1>3 DEF WriterInv, WriterTypes, PositionType, Last
  <2> QED
    BY <1>2, <1>3, <1>4, <1>10, <2>1 DEF Last
<1> QED
  BY <1>5, <1>6, <1>8, <1>9, <1>11 DEF WriterInv

(* The heartbeat, woken by time, by an event or by nobody, waits anew.     *)
LEMMA HeartbeatKeeps ==
  ASSUME WriterInv, Progress!Heartbeat
  PROVE  /\ WriterInv'
         /\ shown' # shown => shown'.position >= shown.position /\ shown.position # Last
<1>1. UNCHANGED <<now, interval, upcoming, measured, latest, received, complete, stopping>>
  BY DEF Progress!Heartbeat
<1>2. \/ /\ stopping /\ worker' = "ended" /\ UNCHANGED <<wake, notified, emitted, shown>>
      \/ /\ ~stopping /\ worker' = "waiting" /\ wake' = now + interval /\ notified' = FALSE
         /\ UNCHANGED <<emitted, shown>>
         /\ \/ worker = "starting"
            \/ latest = Progress!None \/ complete
            \/ now - emitted < interval
      \/ /\ ~stopping /\ worker' = "waiting" /\ wake' = now + interval /\ notified' = FALSE
         /\ latest # Progress!None /\ ~complete
         /\ shown' = [position |-> latest.position,
                      elapsed |-> latest.elapsed + now - received, at |-> now]
         /\ emitted' = now
  BY DEF Progress!Heartbeat, Progress!Waits, Progress!Silent, Progress!HasEvent,
     Progress!Emit, Progress!Beat
<1>3. worker \in {"starting", "waiting"}
  BY DEF Progress!Heartbeat, Progress!Due
<1>4. interval \in Nat /\ interval > 0
  BY <1>3 DEF WriterInv, WriterTypes, TimerInv
<1>5. WriterTypes'
  <2>1. /\ now \in Nat /\ received \in Int /\ wake \in Nat /\ emitted \in Int
        /\ latest \in [position : PositionType, elapsed : Int]
        /\ shown \in [position : PositionType, elapsed : Int, at : Int]
        /\ notified \in BOOLEAN
    BY DEF WriterInv, WriterTypes
  <2>2. wake' \in Nat /\ emitted' \in Int
    BY <1>2, <1>4, <2>1
  <2>3. notified' \in BOOLEAN
    BY <1>2, <2>1, Zenon
  <2>4. shown' \in [position : PositionType, elapsed : Int, at : Int]
    BY <1>2, <2>1
  <2> QED
    BY <1>1, <2>2, <2>3, <2>4 DEF WriterInv, WriterTypes
<1>6. OrderInv'
  BY <1>1 DEF WriterInv, OrderInv
<1>7. CASE UNCHANGED <<emitted, shown>>
  <2>1. ShownInv'
    BY <1>1, <1>7 DEF WriterInv, ShownInv
  <2>2. worker' = "waiting" => now' <= wake' /\ wake' <= now' + interval'
    BY <1>1, <1>2, <1>4 DEF WriterInv, WriterTypes
  <2>3. ASSUME worker' = "waiting", Progress!Working'
        PROVE  wake' - emitted' < 2 * interval'
    <3>1. wake' = now + interval /\ emitted' = emitted /\ interval' = interval
      BY <1>1, <1>2, <1>7, <2>3
    <3>2. latest # Progress!None /\ ~complete /\ emitted \in Nat /\ now \in Nat
      BY <1>1, <2>3 DEF Progress!Working, Progress!HasEvent, WriterInv, WriterTypes, ShownInv
    <3>3. now - emitted < interval \/ worker = "starting" \/ emitted = now
      BY <1>2, <1>7, <2>3, <3>2
    <3>4. now - emitted < interval
      BY <1>4, <3>2, <3>3 DEF WriterInv, TimerInv
    <3> QED
      BY <1>4, <3>1, <3>2, <3>4
  <2>4. TimerInv'
    BY <1>1, <1>2, <1>4, <2>2, <2>3 DEF TimerInv
  <2> QED
    BY <1>5, <1>6, <1>7, <2>1, <2>4 DEF WriterInv
<1>8. CASE /\ ~stopping /\ worker' = "waiting" /\ wake' = now + interval
           /\ latest # Progress!None /\ ~complete
           /\ shown' = [position |-> latest.position,
                        elapsed |-> latest.elapsed + now - received, at |-> now]
           /\ emitted' = now
  <2>1. shown.position \in 1..latest.position /\ latest.position \in 1..Last
        /\ latest.position # Last
    <3>1. /\ shown.position \in 1..latest.position
          /\ complete = (latest.position = Last)
      BY <1>8 DEF WriterInv, ShownInv
    <3>2. latest.position \in 0..5
      BY DEF WriterInv, WriterTypes, PositionType, Last
    <3>3. latest.position # Last
      BY <1>8, <3>1, Zenon
    <3> QED
      BY <3>1, <3>2, <3>3 DEF Last
  <2>2. ShownInv'
    BY <1>1, <1>8, <2>1 DEF WriterInv, WriterTypes, ShownInv
  <2>3. TimerInv'
    BY <1>1, <1>4, <1>8 DEF WriterInv, WriterTypes, TimerInv
  <2>4. shown'.position >= shown.position /\ shown.position # Last
    BY <1>8, <2>1 DEF Last
  <2> QED
    BY <1>5, <1>6, <2>2, <2>3, <2>4 DEF WriterInv
<1> QED
  BY <1>2, <1>7, <1>8

(* Time passes only while nobody is due, and the writer is told to stop.   *)
LEMMA RestKeeps ==
  ASSUME WriterInv, Progress!Destroy \/ Progress!Tick
  PROVE  WriterInv'
<1>1. UNCHANGED <<interval, upcoming, measured, latest, received, emitted, complete,
                  worker, wake, shown>>
  BY DEF Progress!Destroy, Progress!Tick, Progress!members, Progress!timer
<1>2. OrderInv' /\ ShownInv'
  BY <1>1 DEF WriterInv, OrderInv, ShownInv
<1>3. CASE Progress!Destroy
  <2>1. now' = now /\ stopping' = TRUE /\ notified' = (worker = "waiting")
    BY <1>3 DEF Progress!Destroy
  <2>2. WriterTypes'
    BY <1>1, <2>1 DEF WriterInv, WriterTypes
  <2>3. TimerInv'
    BY <1>1, <2>1 DEF WriterInv, TimerInv, Progress!Working
  <2> QED
    BY <1>2, <2>2, <2>3 DEF WriterInv
<1>4. CASE Progress!Tick
  <2>1. /\ now' = now + 1 /\ UNCHANGED <<stopping, notified>>
        /\ worker # "starting" /\ (worker = "waiting" => ~(now >= wake))
    BY <1>4 DEF Progress!Tick, Progress!Due, Progress!timer
  <2>2. WriterTypes'
    BY <1>1, <2>1 DEF WriterInv, WriterTypes
  <2>3. TimerInv'
    BY <1>1, <2>1 DEF WriterInv, WriterTypes, TimerInv, Progress!Working, Progress!HasEvent
  <2> QED
    BY <1>2, <2>2, <2>3 DEF WriterInv
<1> QED
  BY <1>3, <1>4

LEMMA WriterNext ==
  ASSUME WriterInv, [Progress!Next]_progressVars
  PROVE  /\ WriterInv'
         /\ shown' # shown => shown'.position >= shown.position /\ shown.position # Last
<1>1. CASE Progress!Measure
  BY <1>1, MeasureKeeps DEF Progress!Measure
<1>2. CASE Progress!Destroy \/ Progress!Tick
  BY <1>2, RestKeeps DEF Progress!Destroy, Progress!Tick
<1>3. CASE UNCHANGED progressVars
  BY <1>3 DEF progressVars, WriterInv, WriterTypes, OrderInv, ShownInv, TimerInv,
     Progress!Working, Progress!HasEvent
<1> QED
  BY <1>1, <1>2, <1>3, UpdateKeeps, HeartbeatKeeps DEF Progress!Next

-----------------------------------------------------------------------------
(* Both subjects together.                                                 *)
LEMMA SubjectsTakeTheirSteps ==
  ASSUME [ToolsNext]_<<subject, vars, progressVars>>
  PROVE  [Next]_vars /\ [Progress!Next]_progressVars
BY DEF ToolsNext

LEMMA ToolsInvariant == ToolsSpec => [](IInv /\ EventsInv /\ WriterInv)
<1>1. ToolsInit => IInv /\ EventsInv /\ WriterInv
  BY InitIInv, EventsStart, WriterStarts, ToolsAssumption DEF ToolsInit
<1>2. IInv /\ EventsInv /\ WriterInv /\ [ToolsNext]_<<subject, vars, progressVars>>
        => (IInv /\ EventsInv /\ WriterInv)'
  BY SubjectsTakeTheirSteps, NextIInv, EventsNext, WriterNext
<1> QED
  BY <1>1, <1>2, PTL DEF ToolsSpec

(* Whatever the interval, the last line is of the stage the work is in and *)
(* less than two intervals old while the work goes on, and a rendering     *)
(* that succeeded has reported all of its units.                           *)
(* (docs/observability-plan.md: "never appear stalled")                    *)
THEOREM ReportsStayComplete == ToolsSpec => []ReportsAreComplete
<1>1. IInv /\ EventsInv /\ WriterInv => ReportsAreComplete
  <2> SUFFICES ASSUME EventsInv, WriterInv PROVE ReportsAreComplete
    OBVIOUS
  <2>1. EveryUnitReported
    BY DEF EventsInv
  <2>2. Progress!ShowsCurrentStage
    BY DEF WriterInv, ShownInv, Progress!ShowsCurrentStage, Progress!HasEvent, Progress!Stage
  <2>3. Progress!NeverAppearsStalled
    <3> SUFFICES ASSUME Progress!Working, interval > 0
                 PROVE  now - shown.at < 2 * interval
      BY DEF Progress!NeverAppearsStalled
    <3>1. /\ now \in Nat /\ interval \in Nat /\ wake \in Nat
          /\ emitted = shown.at /\ emitted \in Nat
      BY DEF Progress!Working, Progress!HasEvent, WriterInv, WriterTypes, ShownInv
    <3>2. \/ worker = "starting" /\ now = 0
          \/ now <= wake /\ wake - emitted < 2 * interval
      BY DEF Progress!Working, WriterInv, TimerInv
    <3> QED
      BY <3>1, <3>2
  <2> QED
    BY <2>1, <2>2, <2>3 DEF ReportsAreComplete
<1> QED
  BY <1>1, ToolsInvariant, PTL

(* The counters of windows and steps never go back within a stage, no line *)
(* goes back behind an earlier one and none follows completion.            *)
THEOREM ReportsOnlyMoveForward == ToolsSpec => ReportsMoveForward
<1>1. ToolsSpec => Spec
  <2>1. ToolsInit => Init
    BY DEF ToolsInit
  <2>2. [ToolsNext]_<<subject, vars, progressVars>> => [Next]_vars
    BY SubjectsTakeTheirSteps
  <2> QED
    BY <2>1, <2>2, PTL DEF ToolsSpec, Spec
<1>2. ToolsSpec => Progress!LinesMoveForward
  <2>1. WriterInv /\ [ToolsNext]_<<subject, vars, progressVars>> =>
          [shown' # shown => /\ shown'.position >= shown.position
                             /\ shown.position # Len(Stages)]_(Progress!vars)
    BY SubjectsTakeTheirSteps, WriterNext, StageFacts
  <2> QED
    BY <2>1, ToolsInvariant, PTL DEF ToolsSpec, Progress!LinesMoveForward
<1> QED
  BY <1>1, <1>2, CountersNeverGoBack, PTL DEF ReportsMoveForward
=============================================================================
