----------------------------- MODULE ArtifactPair ---------------------------
(***************************************************************************)
(* The two writers that publish a payload with a manifest beside it:       *)
(* token_io::write (tokens.npy and tokens.json) and write_render_artifact  *)
(* (song.wav and song.wav.json).  Both stage two temporaries under names   *)
(* of their own and rename them one after the other, the tokens payload    *)
(* first, the rendering manifest first.  Calls follow each other on one    *)
(* target; any system call may fail and the process may be killed between  *)
(* any two.  A file is represented by the number of the call that wrote it.*)
(***************************************************************************)
EXTENDS Integers

CONSTANT MaxCalls        (* bound: calls                                   *)

Writers == {"tokens", "render"}
Names == {"payload", "manifest"}
Absent == 0
Torn == -1

VARIABLES
  writer,      (* which of the two functions                               *)
  target,      (* the published files                                      *)
  temporary,   (* the files of this call                                   *)
  step, file,  (* where the call is, and the file it works on              *)
  call,
  committed,   (* the names this call has renamed                          *)
  outcome,     (* of the last call: "ok", "failed", "killed" or "none"     *)
  spoiled      (* ghost: killed, or a removal failed, since a success       *)

vars == <<writer, target, temporary, step, file, call, committed, outcome, spoiled>>

Init ==
  /\ writer \in Writers
  /\ target = [n \in Names |-> Absent] /\ temporary = [n \in Names |-> Absent]
  /\ step = "returned" /\ file = "payload" /\ call = 0 /\ committed = {}
  /\ outcome = "none" /\ spoiled = FALSE

(* The names of temporaries are unique, so every call starts without any.  *)
Call ==
  /\ step = "returned" /\ call < MaxCalls
  /\ call' = call + 1 /\ step' = "stage" /\ file' = "payload" /\ committed' = {}
  /\ temporary' = [n \in Names |-> Absent]
  /\ UNCHANGED <<writer, target, outcome, spoiled>>

(* The order of the two renames, and its inverse.                          *)
Swapped == IF writer = "tokens" THEN "manifest" ELSE "payload"
First == IF writer = "tokens" THEN "payload" ELSE "manifest"

(* A temporary is written and flushed, and the stream is tested.           *)
ShortWriteIgnored(name) == FALSE
ShortWrite(name) == temporary'[name] = Torn

Write(name, next) ==
  /\ \E written \in {call, Torn} : temporary' = [temporary EXCEPT ![name] = written]
  /\ \/ ShortWrite(name) /\ step' = "cleanup" /\ UNCHANGED file
     \/ ~ShortWrite(name) /\ next
  /\ UNCHANGED <<writer, target, call, committed, outcome, spoiled>>

StagePayload ==
  /\ step = "stage" /\ file = "payload"
  /\ Write("payload", file' = "manifest" /\ UNCHANGED step)

(* The manifest describes the payload of this call, never the target.      *)
StageManifest ==
  /\ step = "stage" /\ file = "manifest"
  /\ Write("manifest", step' = "commit" /\ file' = First)

(* commit_file, commit_render_file: rename over the target.  A file system *)
(* may refuse that; then the target is removed and the rename retried.     *)
Renamed ==
  /\ target' = [target EXCEPT ![file] = temporary[file]]
  /\ temporary' = [temporary EXCEPT ![file] = Absent]
  /\ committed' = committed \cup {file}
  /\ IF committed = {}
     THEN /\ step' = "commit" /\ file' \in Names \ {file}
          /\ UNCHANGED <<outcome, spoiled>>
     ELSE /\ step' = "returned" /\ outcome' = "ok" /\ spoiled' = FALSE
          /\ UNCHANGED file

Fails ==
  /\ step' = "cleanup"
  /\ UNCHANGED <<target, temporary, committed, file, outcome, spoiled>>

Commit ==
  /\ step \in {"commit", "retry"}
  /\ \/ Renamed
     \/ Fails
     \/ /\ step = "commit" /\ target[file] # Absent
        /\ target' = [target EXCEPT ![file] = Absent] /\ step' = "retry"
        /\ UNCHANGED <<temporary, committed, file, outcome, spoiled>>
  /\ UNCHANGED <<writer, call>>

(* The catch block removes the temporaries, and the render writer also the *)
(* manifest once it is published.  Errors of a removal are ignored.        *)
Nothing == {}
Published == IF writer = "render" THEN committed \cap {"manifest"} ELSE {}

Cleanup ==
  /\ step = "cleanup"
  /\ \E removed \in SUBSET Names, withdrawn \in SUBSET Published :
       /\ temporary' = [n \in Names |-> IF n \in removed THEN Absent ELSE temporary[n]]
       /\ target' = [n \in Names |-> IF n \in withdrawn THEN Absent ELSE target[n]]
       /\ spoiled' = (spoiled \/ withdrawn # Published)
  /\ step' = "returned" /\ outcome' = "failed"
  /\ UNCHANGED <<writer, file, call, committed>>

Kill ==
  /\ step # "returned" /\ step' = "returned" /\ outcome' = "killed" /\ spoiled' = TRUE
  /\ UNCHANGED <<writer, target, temporary, file, call, committed>>

Next == Call \/ StagePayload \/ StageManifest \/ Commit \/ Cleanup \/ Kill

Spec == Init /\ [][Next]_vars

-----------------------------------------------------------------------------
Here(name) == target[name] # Absent

(* A short write never reaches a published name.                           *)
TargetsAreWhole == \A n \in Names : target[n] # Torn

(* Whatever was interrupted, it is known which of the two may be newer:    *)
(* tokens never stand under a manifest of later tokens, a WAV is never     *)
(* newer than the manifest beside it.                                      *)
OlderSideIsKnown ==
  Here("payload") /\ Here("manifest") =>
    IF writer = "tokens" THEN target["manifest"] <= target["payload"]
                         ELSE target["payload"] <= target["manifest"]

(* A call that returns leaves a pair, if it succeeded one of its own.  If  *)
(* it failed, the render writer leaves the earlier pair, or a WAV without  *)
(* manifest, never one under another's, unless a removal failed as well.   *)
(* (The token writer may leave new tokens under the old manifest.)         *)
ReturnedPairsMatch ==
  step = "returned" =>
    /\ outcome = "ok" => target = [n \in Names |-> call]
    /\ (/\ outcome = "failed" /\ writer = "render" /\ ~spoiled
        /\ Here("payload") /\ Here("manifest"))
          => target["payload"] = target["manifest"]

(* "`levo-render` writes `song.wav.json` after successfully writing        *)
(* `song.wav`" (docs/observability-plan.md): a manifest stands beside the  *)
(* WAV it describes.  The code does not keep this: it renames the manifest *)
(* first.                                                                  *)
ManifestAfterWav ==
  writer = "render" /\ Here("manifest") => target["payload"] = target["manifest"]
=============================================================================
