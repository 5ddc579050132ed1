------------------------------- MODULE ToolsMC ------------------------------
(***************************************************************************)
(* What the user of a tool watches: the stages of levo-render and the      *)
(* lines of the progress writer.  A behaviour is of one of them, its       *)
(* subject; the other rests in an initial state.                           *)
(***************************************************************************)
EXTENDS BlockingRenderer

CONSTANTS Intervals, MaxTime                    (* ProgressWriter           *)

(* --progress-interval is finite and not negative, or the tool refuses it. *)
ASSUME ToolsAssumption == Intervals \in SUBSET Nat /\ MaxTime \in Nat

VARIABLES
  subject,
  now, interval, upcoming, measured, latest, received, emitted, complete,
  stopping, worker, wake, notified, shown

(* The stages of a short run; two events of three are of one stage.        *)
Stages == <<"loading", "working", "working", "working", "complete">>

Progress == INSTANCE ProgressWriter WITH next <- upcoming, event <- measured

progressVars == <<now, interval, upcoming, measured, latest, received, emitted,
                  complete, stopping, worker, wake, notified, shown>>

ToolsInit ==
  /\ subject \in {"renderer", "progress"}
  /\ Init /\ Progress!Init
  /\ subject = "progress" \/ interval = 0

ToolsNext ==
  \/ subject = "renderer" /\ Next /\ UNCHANGED <<subject, progressVars>>
  \/ subject = "progress" /\ Progress!Next /\ UNCHANGED <<subject, vars>>

ToolsSpec == ToolsInit /\ [][ToolsNext]_<<subject, vars, progressVars>>

-----------------------------------------------------------------------------
(* "these operations never appear stalled" (docs/observability-plan.md):   *)
(* at most two intervals of silence, the last line is current, and a       *)
(* finished rendering has reported all of its units.                       *)
ReportsAreComplete ==
  EveryUnitReported /\ Progress!NeverAppearsStalled /\ Progress!ShowsCurrentStage

(* A reader of the events never sees a stage again, within a stage no      *)
(* window and within a window no step taken back (steps start again with   *)
(* the next window, completed windows with the next stage), and no line    *)
(* that goes back or follows completion.                                   *)
(* (render_reporter::update, progress_writer::update)                      *)
ReportsMoveForward == CountersMonotonic /\ Progress!LinesMoveForward
=============================================================================
