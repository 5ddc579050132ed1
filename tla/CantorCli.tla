------------------------------ MODULE CantorCli -----------------------------
(***************************************************************************)
(* The command-line host of the staged engine, src/tools/levo-cantor.cpp:  *)
(* CODES, DIFFUSE and DECODE in turn, a checkpoint file written through a  *)
(* temporary with fsync, rename and a directory fsync, signals that ask    *)
(* for a pause, and a machine that may kill the process or lose power      *)
(* between any two system calls.  One request is worked on; a blob is      *)
(* represented by its kind and the progress in it: steps of CODES, or      *)
(* windows of DIFFUSE and Euler updates of the active one.                 *)
(*                                                                         *)
(* The file system: `view` is what processes see in a file, `maybe` what   *)
(* may be found in it after losing power.  Both change at write, fsync and *)
(* rename the way POSIX allows.                                            *)
(***************************************************************************)
EXTENDS Integers, FiniteSets

CONSTANTS Paths,            (* checkpoint paths a command may name         *)
          Commands,         (* the command lines the user gives            *)
          Rows,             (* steps that CODES samples                    *)
          Windows, Steps,   (* of DIFFUSE                                  *)
          MaxInterruptions  (* bound: signals, kills, power losses, errors *)

Stages == {"CODES", "DIFFUSE", "DECODE"}
Blob(kind, done, active) == [kind |-> kind, done |-> done, active |-> active]
Whole(kind) == Blob(kind, 0, 0)
Absent == Whole("absent")
Torn == Whole("torn")
Request == Whole("request")

(* What a stage can be paused in: CODES before it samples a step, DIFFUSE  *)
(* at a window's entry or before an Euler update.                          *)
PausedBlobs(s) ==
  IF s = "CODES" THEN {Blob("lm", n, 0) : n \in 0 .. Rows - 1}
  ELSE {Blob("flow", w, e) : w \in 0 .. Windows - 1, e \in 0 .. Steps - 1}
Blobs == {Whole(kind) : kind \in {"request", "codes", "latent"}}
           \cup PausedBlobs("CODES") \cup PausedBlobs("DIFFUSE")
Contents == Blobs \cup {Absent, Torn}
Files == Paths \X {"checkpoint", "tmp"}

ASSUME CliAssumption ==
  /\ Commands \subseteq [resuming : BOOLEAN, input : Paths, checkpoint : Paths]
  /\ Rows \in Nat \ {0} /\ Windows \in Nat \ {0} /\ Steps \in Nat \ {0}
  /\ MaxInterruptions \in Nat

VARIABLES
  pc,        (* where main is; "off" when no process runs                  *)
  command,   (* the options of the last process                            *)
  stage,     (* the stage to run                                           *)
  state,     (* the blob in memory                                         *)
  status,    (* what the last stage returned                               *)
  signal,    (* the interrupted flag of levo-progress.h                    *)
  seen,      (* whether the flag was up when the stage started             *)
  view, maybe,
  renamed,   (* contents the renamed temporary may hold                    *)
  audio,     (* the WAV at --output: absent, partial or whole              *)
  exit,      (* exit status of the last process, -1 if it did not exit     *)
  interruptions

cvars == <<pc, command, stage, state, status, signal, seen, view, maybe,
           renamed, audio, exit, interruptions>>
files == <<view, maybe, renamed>>

CheckpointFile(c) == <<c.checkpoint, "checkpoint">>

(* write_checkpoint's temporary (and the slip of writing in place).        *)
TemporaryInPlace(c) == <<c.checkpoint, "checkpoint">>
Temporary(c) == <<c.checkpoint, "tmp">>

(* stage_for: a resumed file names its stage by its magic (and the slip of *)
(* sniffing a paused Flow blob as a completed one).                        *)
StageForMixed(blob) ==
  IF blob.kind \in {"flow", "latent"} THEN "DECODE" ELSE "CODES"
StageFor(blob) ==
  IF blob.kind = "flow" THEN "DIFFUSE"
  ELSE IF blob.kind = "latent" THEN "DECODE" ELSE "CODES"

(* What each stage accepts.                                                *)
Consumes(s, blob) ==
  CASE s = "CODES"   -> blob.kind \in {"request", "lm"}
    [] s = "DIFFUSE" -> blob.kind \in {"codes", "flow"}
    [] s = "DECODE"  -> blob.kind = "latent"

(* How far along the pipeline a file's contents are.                       *)
Rank == [torn |-> 0, absent |-> 1, request |-> 2, lm |-> 3, codes |-> 4, flow |-> 5, latent |-> 6]

NotBehind(earlier, later) ==
  \/ Rank[later.kind] > Rank[earlier.kind]
  \/ /\ later.kind = earlier.kind
     /\ \/ later.done > earlier.done
        \/ later.done = earlier.done /\ later.active >= earlier.active

(* A stage stopped at its first poll returns what it was given, in its own *)
(* format; DIFFUSE polls before it looks at the active window's updates.   *)
(* (The slip: it returns nothing of the completed windows either.)         *)
WithoutUpdates(blob) == [blob EXCEPT !.active = 0]
FirstPollForgetful(s, blob) == Blob(IF s = "CODES" THEN "lm" ELSE "flow", 0, 0)
FirstPoll(s, blob) == Blob(IF s = "CODES" THEN "lm" ELSE "flow", blob.done, 0)

(* The blob CODES or DIFFUSE returns done, or paused at a poll: the first  *)
(* one if the flag was up before, else that or a later one.                *)
Outputs(s, blob, outcome, early) ==
  IF outcome = "DONE" THEN {Whole(IF s = "CODES" THEN "codes" ELSE "latent")}
  ELSE {FirstPoll(s, blob)} \cup
       (IF early THEN {} ELSE {later \in PausedBlobs(s) : NotBehind(blob, later)})

NextStage(s) == IF s = "CODES" THEN "DIFFUSE" ELSE "DECODE"

(* When main writes a checkpoint after CODES or DIFFUSE (and main without  *)
(* the write that precedes DECODE).                                        *)
SavesOnPauseOnly(s, outcome) == outcome = "PAUSED"
Saves(s, outcome) == outcome = "PAUSED" \/ s = "DIFFUSE"

Interrupt == interruptions < MaxInterruptions /\ interruptions' = interruptions + 1

Leave(code) == pc' = "off" /\ exit' = code

-----------------------------------------------------------------------------
Init ==
  /\ pc = "off"
  /\ command \in {c \in Commands : ~c.resuming}
  /\ stage = "CODES" /\ state = Request /\ status = "DONE"
  /\ signal = FALSE /\ seen = FALSE
  /\ view = [f \in Files |-> Absent]
  /\ maybe = [f \in Files |-> {Absent}]
  /\ renamed = {}
  /\ audio = "absent"
  /\ exit = -1
  /\ interruptions = 0

(* The user gives a command until one has written the audio.               *)
Invoke(c) ==
  /\ pc = "off" /\ exit # 0
  /\ command' = c
  /\ signal' = FALSE /\ seen' = FALSE
  /\ LET blob == IF c.resuming THEN view[<<c.input, "checkpoint">>] ELSE Request
     IN IF blob = Absent
        THEN /\ Leave(1)
             /\ UNCHANGED <<stage, state>>
        ELSE /\ pc' = "stage" /\ exit' = -1
             /\ state' = blob
             /\ stage' = StageFor(blob)
  /\ UNCHANGED <<status, files, audio, interruptions>>

(* SIGINT or SIGTERM: the handler raises the flag.                         *)
Signal ==
  /\ pc # "off" /\ ~signal
  /\ Interrupt
  /\ signal' = TRUE
  /\ UNCHANGED <<pc, command, stage, state, status, seen, files, audio, exit>>

(* A stage returns.  It pauses only when it polls a raised flag, and it    *)
(* always does when the flag was up before it started.                     *)
StageReturns(outcome) ==
  /\ pc = "stage" /\ Consumes(stage, state)
  /\ IF outcome = "PAUSED" THEN signal ELSE ~seen
  /\ status' = outcome
  /\ IF stage = "DECODE"
     THEN /\ IF outcome = "PAUSED" THEN Leave(130) ELSE pc' = "audio" /\ UNCHANGED exit
          /\ UNCHANGED <<stage, state, seen>>
     ELSE /\ state' \in Outputs(stage, state, outcome, seen)
          /\ UNCHANGED exit
          /\ IF Saves(stage, outcome)
             THEN pc' = "create" /\ UNCHANGED <<stage, seen>>
             ELSE pc' = "stage" /\ stage' = NextStage(stage) /\ seen' = signal
  /\ UNCHANGED <<command, signal, files, audio, interruptions>>

(* CANTOR_ERR, out of memory or out of disk.                               *)
StageFails ==
  /\ pc = "stage"
  /\ Interrupt
  /\ Leave(1)
  /\ UNCHANGED <<command, stage, state, status, signal, seen, files, audio>>

-----------------------------------------------------------------------------
(* write_checkpoint, one system call after the other.                      *)
CreateTemporary ==
  /\ pc = "create"
  /\ pc' = "write"
  /\ LET f == Temporary(command)
     IN /\ view' = [view EXCEPT ![f] = Torn]
        /\ maybe' = [maybe EXCEPT ![f] = @ \cup {Torn}]
  /\ UNCHANGED <<command, stage, state, status, signal, seen, renamed, audio, exit, interruptions>>

WriteTemporary ==
  /\ pc = "write"
  /\ pc' = "sync"
  /\ LET f == Temporary(command)
     IN /\ view' = [view EXCEPT ![f] = state]
        /\ maybe' = [maybe EXCEPT ![f] = @ \cup {state}]
  /\ UNCHANGED <<command, stage, state, status, signal, seen, renamed, audio, exit, interruptions>>

(* What fsync leaves of a file's uncertainty (and the fsync left out).     *)
NotSynced(f) == maybe[f]
Synced(f) == {view[f]}

SyncTemporary ==
  /\ pc = "sync"
  /\ pc' = "rename"
  /\ maybe' = [maybe EXCEPT ![Temporary(command)] = Synced(Temporary(command))]
  /\ UNCHANGED <<command, stage, state, status, signal, seen, view, renamed, audio, exit, interruptions>>

RenameTemporary ==
  /\ pc = "rename"
  /\ pc' = "syncdir"
  /\ LET f == Temporary(command)
         t == CheckpointFile(command)
     IN /\ renamed' = maybe[f]
        /\ view' = [view EXCEPT ![f] = Absent, ![t] = view[f]]
        /\ maybe' = [maybe EXCEPT ![f] = @ \cup {Absent}, ![t] = @ \cup maybe[f]]
  /\ UNCHANGED <<command, stage, state, status, signal, seen, audio, exit, interruptions>>

(* Once the directory is synced, main returns 130 or goes on to the next   *)
(* stage.                                                                  *)
SyncDirectory ==
  /\ pc = "syncdir"
  /\ maybe' = [maybe EXCEPT ![Temporary(command)] = {Absent},
                            ![CheckpointFile(command)] = renamed]
  /\ renamed' = {}
  /\ IF status = "PAUSED"
     THEN Leave(130) /\ UNCHANGED <<stage, seen>>
     ELSE pc' = "stage" /\ stage' = NextStage(stage) /\ seen' = signal /\ UNCHANGED exit
  /\ UNCHANGED <<command, state, status, signal, view, audio, interruptions>>

(* The disk fills up, an fsync or a rename fails.                          *)
WriteFails ==
  /\ pc \in {"create", "write", "sync", "rename", "syncdir", "audio"}
  /\ Interrupt
  /\ Leave(1)
  /\ renamed' = {}
  /\ audio' \in IF pc = "audio" THEN {audio, "partial"} ELSE {audio}
  /\ UNCHANGED <<command, stage, state, status, signal, seen, view, maybe>>

(* write_audio writes the WAV in place, and never syncs it.                *)
WriteAudio ==
  /\ pc = "audio"
  /\ audio' = "whole"
  /\ Leave(0)
  /\ UNCHANGED <<command, stage, state, status, signal, seen, files, interruptions>>

-----------------------------------------------------------------------------
Kill ==
  /\ pc # "off"
  /\ Interrupt
  /\ Leave(-1)
  /\ renamed' = {}
  /\ audio' \in IF pc = "audio" THEN {audio, "partial", "whole"} ELSE {audio}
  /\ UNCHANGED <<command, stage, state, status, signal, seen, view, maybe>>

(* Power is lost, also after a process has exited.                         *)
PowerLoss ==
  /\ Interrupt
  /\ IF pc = "off" THEN UNCHANGED <<pc, exit>> ELSE Leave(-1)
  /\ view' \in {v \in [Files -> Contents] : \A f \in Files : v[f] \in maybe[f]}
  /\ maybe' = [f \in Files |-> {view'[f]}]
  /\ renamed' = {}
  /\ audio' \in IF pc = "audio" \/ audio # "absent"
                THEN {"absent", "partial", "whole"} ELSE {"absent"}
  /\ UNCHANGED <<command, stage, state, status, signal, seen>>

Work ==
  \/ \E c \in Commands : Invoke(c)
  \/ StageReturns("DONE")
  \/ StageReturns("PAUSED")
  \/ CreateTemporary \/ WriteTemporary \/ SyncTemporary \/ RenameTemporary
  \/ SyncDirectory \/ WriteAudio

Next == Work \/ Signal \/ StageFails \/ WriteFails \/ Kill \/ PowerLoss
Spec == Init /\ [][Next]_cvars

(* The process runs, and the user repeats commands until one succeeds.     *)
FairSpec == Spec /\ WF_cvars(Work)

-----------------------------------------------------------------------------
(* The variables have their types, and a stage is only ever given a blob   *)
(* it takes: what main, stage_for and the checkpoint files say of where a  *)
(* job is agree.                                                           *)
TypeOK ==
  /\ pc \in {"off", "stage", "create", "write", "sync", "rename", "syncdir", "audio"}
  /\ command \in Commands /\ stage \in Stages
  /\ state \in Blobs /\ status \in {"DONE", "PAUSED"}
  /\ signal \in BOOLEAN /\ seen \in BOOLEAN
  /\ view \in [Files -> Contents] /\ maybe \in [Files -> SUBSET Contents]
  /\ renamed \subseteq Contents
  /\ audio \in {"absent", "partial", "whole"} /\ exit \in {-1, 0, 1, 130}
  /\ interruptions \in 0 .. MaxInterruptions
  /\ pc = "stage" => Consumes(stage, state)

(* Whenever the process is killed or the power fails, the checkpoint file  *)
(* holds a whole blob: the previous one or the new one.                    *)
(* (write_checkpoint: fsync before rename.)                                *)
CheckpointNeverTorn ==
  \A p \in Paths : /\ view[<<p, "checkpoint">>] # Torn
                   /\ Torn \notin maybe[<<p, "checkpoint">>]

(* Whatever a crash leaves, a checkpoint file is a whole blob, and a stage *)
(* is only given a blob it takes.  (write_checkpoint, stage_for)           *)
CheckpointsAreUsable == TypeOK /\ CheckpointNeverTorn

(* A process that wrote its checkpoint before it paused left it durable:   *)
(* whatever happens to the machine now, --checkpoint holds the very state  *)
(* the process stopped in.  (main's first way to return 130.)              *)
WrittenPauseIsDurable ==
  (exit = 130 /\ stage # "DECODE") => maybe[CheckpointFile(command)] = {state}

(* A process that exits 130 leaves at --checkpoint the state it stopped    *)
(* in, also when DECODE paused and main wrote nothing: the usage text says *)
(* "SIGINT/SIGTERM returns 130 after a durable pause", the message of that *)
(* path "durable checkpoint remains".  It holds of the README's commands,  *)
(* and not when --resume and --checkpoint name different files.            *)
PauseIsSaved ==
  [][(exit' = 130 /\ exit # 130) => view'[CheckpointFile(command)] = state']_cvars

(* Resuming a checkpoint costs no progress but what is named here: what    *)
(* may survive losing power after a step is not behind, stage, step,       *)
(* window and update, what might have survived before it, or it is a       *)
(* DIFFUSE blob without the updates of the active window.  The latter are  *)
(* lost when a resumed DIFFUSE is stopped at its first poll and main       *)
(* writes what it returns over the checkpoint.                             *)
(* (stage_for, write_checkpoint, render_resumable's first poll.)           *)
Follows(earlier, later) ==
  \/ NotBehind(earlier, later)
  \/ earlier.kind = "flow" /\ later = WithoutUpdates(earlier)

DurableProgress ==
  [][command'.resuming =>
       \A p \in Paths : \A later \in maybe'[<<p, "checkpoint">>] :
         \E earlier \in maybe[<<p, "checkpoint">>] : Follows(earlier, later)]_cvars

(* A user who repeats the command after every pause, failure or crash gets *)
(* the audio.  (main.)                                                     *)
AudioIsWritten == <>(exit = 0 /\ audio = "whole")
=============================================================================
