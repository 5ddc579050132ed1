---------------------------- MODULE ProgressWriter --------------------------
(***************************************************************************)
(* progress_writer of src/tools/levo-progress.h: a working thread reports  *)
(* events, a heartbeat thread repeats the last one while the work is       *)
(* silent, and both emit under one mutex.  Time is counted in ticks; a     *)
(* heartbeat that is due runs before the next tick.  An event is the       *)
(* position it reports and the elapsed time the reporter measured before   *)
(* it called the writer.                                                   *)
(***************************************************************************)
EXTENDS Integers, Sequences

CONSTANTS Stages,       (* the stage of each position; the last is complete *)
          Intervals,    (* values of --progress-interval, in ticks         *)
          MaxTime       (* bound: ticks                                    *)

None == [position |-> 0, elapsed |-> 0]
Long == -1000           (* a time_point{} is long ago                      *)

VARIABLES
  now, interval,
  next,         (* the position reported next                              *)
  event,        (* measured, not yet given to the writer                   *)
  latest, received, emitted, complete, stopping,   (* the writer's members *)
  worker,       (* "none", "starting", "waiting" or "ended"                *)
  wake,         (* when wait_for times out                                 *)
  notified,
  shown         (* the last event emitted, and when                        *)

vars == <<now, interval, next, event, latest, received, emitted, complete,
          stopping, worker, wake, notified, shown>>
members == <<latest, received, emitted, complete>>
timer == <<worker, wake, notified>>

Stage(e) == Stages[e.position]
IsComplete(e) == e.position = Len(Stages)
HasEvent == latest # None

Init ==
  /\ now = 0 /\ interval \in Intervals
  /\ next = 1 /\ event = None /\ latest = None /\ received = 0 /\ emitted = Long
  /\ complete = FALSE /\ stopping = FALSE
  /\ worker = (IF interval > 0 THEN "starting" ELSE "none")
  /\ wake = 0 /\ notified = FALSE /\ shown = [position |-> 0, elapsed |-> 0, at |-> 0]

(* render_reporter::update: the time is taken before the callback runs.    *)
Measure ==
  /\ event = None /\ next <= Len(Stages) /\ ~stopping
  /\ event' = [position |-> next, elapsed |-> now] /\ next' = next + 1
  /\ UNCHANGED <<now, interval, members, stopping, timer, shown>>

Emit(e) ==
  /\ shown' = [position |-> e.position, elapsed |-> e.elapsed, at |-> now]
  /\ emitted' = now

(* What update() remembers, and the slip of remembering stages only.       *)
StageChanged(e) == ~HasEvent \/ Stage(e) # Stage(latest)
NewStagesOnly(e) == IF StageChanged(e) THEN e ELSE latest
Remembered(e) == e

Overdue == interval = 0 \/ now - emitted >= interval
OverdueOnly(e) == IsComplete(e) \/ Overdue
EmittedNow(e) == StageChanged(e) \/ IsComplete(e) \/ Overdue

Update ==
  /\ event # None /\ event' = None
  /\ latest' = Remembered(event) /\ received' = now /\ complete' = IsComplete(event)
  /\ IF EmittedNow(event) THEN Emit(event) ELSE UNCHANGED <<shown, emitted>>
  /\ notified' = (worker = "waiting")
  /\ UNCHANGED <<now, interval, next, stopping, worker, wake>>

(* One turn of the heartbeat loop, and wait_for again.  (The slip: an event *)
(* is repeated once.)                                                      *)
Waits == worker' = "waiting" /\ wake' = now + interval /\ notified' = FALSE
SilentOnceRepeated ==
  ~HasEvent \/ complete \/ shown.at > received
Silent == ~HasEvent \/ complete
Beat ==
  [position |-> latest.position, elapsed |-> latest.elapsed + now - received]

Due == worker = "waiting" /\ (notified \/ now >= wake)

Heartbeat ==
  /\ worker = "starting" \/ Due
  /\ IF stopping THEN worker' = "ended" /\ UNCHANGED <<wake, notified, emitted, shown>>
     ELSE /\ Waits
          /\ IF worker = "starting" \/ Silent \/ now - emitted < interval
             THEN UNCHANGED <<emitted, shown>> ELSE Emit(Beat)
  /\ UNCHANGED <<now, interval, next, event, latest, received, complete, stopping>>

(* The destructor, at the end of main or on the way out of an exception.   *)
Destroy ==
  /\ event = None /\ ~stopping /\ stopping' = TRUE
  /\ notified' = (worker = "waiting")
  /\ UNCHANGED <<now, interval, next, event, members, worker, wake, shown>>

Tick ==
  /\ now < MaxTime /\ now' = now + 1 /\ ~Due /\ worker # "starting"
  /\ UNCHANGED <<interval, next, event, members, stopping, timer, shown>>

Next == Measure \/ Update \/ Heartbeat \/ Destroy \/ Tick

Spec == Init /\ [][Next]_vars

-----------------------------------------------------------------------------
Working == HasEvent /\ ~complete /\ ~stopping

(* "these operations never appear stalled": while work goes on, less than  *)
(* two intervals pass between lines, however often throttled events wake   *)
(* the heartbeat and make it wait anew.                                    *)
NeverAppearsStalled ==
  Working /\ interval > 0 => now - shown.at < 2 * interval

(* The last line is of the stage the work is in, of the last event if the  *)
(* interval is zero.                                                       *)
ShowsCurrentStage ==
  HasEvent => /\ Stages[shown.position] = Stage(latest)
              /\ interval = 0 => shown.position = latest.position

(* No line goes back behind an earlier one, and none follows completion:   *)
(* a heartbeat is a copy of the last event, never of one before.           *)
LinesMoveForward ==
  [][shown' # shown => /\ shown'.position >= shown.position
                       /\ shown.position # Len(Stages)]_vars

(* "The CLI repeats the most recent stage as a heartbeat, with increasing  *)
(* elapsed time" (docs/observability-plan.md).  The code does not keep     *)
(* this: an event may be measured before a heartbeat and shown after it.   *)
ElapsedIncreases == [][shown'.elapsed >= shown.elapsed]_vars
=============================================================================
