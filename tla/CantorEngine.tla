---------------------------- MODULE CantorEngine ----------------------------
(***************************************************************************)
(* The staged engine behind the C ABI: contexts, the models they keep      *)
(* loaded (levo-resident-model.h), the GGUF files those come from, and     *)
(* run_stage for CODES, DIFFUSE and DECODE (cantor-abi.cpp).               *)
(*                                                                         *)
(* A file is the version it holds; anyone may replace it.  A loader reads  *)
(* the file's digest and its payload in two passes over the path, so what  *)
(* a model says it is (stamp) and what it computes with (weights) are two  *)
(* values.  Work is counted in units: a delayed position of CODES, a       *)
(* window of DIFFUSE or DECODE; `used` collects what computed them.        *)
(***************************************************************************)
EXTENDS Integers, FiniteSets

CONSTANTS Threads,            (* each drives one context                   *)
          Backends,           (* devices a context may find                *)
          MaxVersion,         (* contents a file may have                  *)
          Units,              (* units of work in a stage                  *)
          Components,         (* sets of roles a host loads                *)
          ReplaceDuringLoad   (* whether a file may change under a loader  *)

EngineAssumption == /\ MaxVersion \in Nat \ {0} /\ Units \in Nat \ {0}
                    /\ ReplaceDuringLoad \in BOOLEAN

VARIABLES
  disk,      (* role -> the version at the component's path                *)
  context,   (* thread -> its cantor_ctx                                   *)
  call,      (* thread -> the run_stage call in progress                   *)
  result,    (* thread -> status, error and output of its last call        *)
  held       (* thread -> the blob the host passes next                    *)

vars == <<disk, context, call, result, held>>

Roles == {"lm", "dit", "vae"}
Stages == {"CODES", "DIFFUSE", "DECODE"}
Versions == 1 .. MaxVersion
None == 0
RoleOf(stage) == CASE stage = "CODES" -> "lm"
                   [] stage = "DIFFUSE" -> "dit"
                   [] stage = "DECODE" -> "vae"

NoModel == [weights |-> None, stamp |-> None]

(* lm_stamp and flow_stamp: the artifact and the backend.                  *)
NoStamp == [artifact |-> None, backend |-> "none"]
StampOf(model, backend) == [artifact |-> model.stamp, backend |-> backend]

(* What computed a unit.                                                   *)
Worker(model, backend) == [weights |-> model.weights, backend |-> backend]

(* The documents that pass between host and engine.                        *)
Blob(kind, done, used, stamp, vae, digest) ==
  [kind |-> kind, done |-> done, used |-> used, stamp |-> stamp, vae |-> vae,
   digest |-> digest]
NoBlob == Blob("none", 0, {}, NoStamp, None, {})
Request == Blob("request", 0, {}, NoStamp, None, {})

NoAudio == [windows |-> {}, flow |-> NoStamp, samples |-> {}, vae |-> None]
NoContext == [open |-> FALSE, keep |-> FALSE, backend |-> "none", paths |-> {},
              resident |-> [r \in Roles |-> NoModel], audio |-> NoAudio]
NoCall == [stage |-> "none", at |-> "idle", model |-> NoModel, vae |-> None,
           done |-> 0, used |-> {}]
Returned(status, error, blob) ==
  [status |-> status, error |-> error, blob |-> blob, checked |-> TRUE]

Running(t) == call[t].at # "idle"

-----------------------------------------------------------------------------
Init ==
  /\ disk = [r \in Roles |-> 1]
  /\ context = [t \in Threads |-> NoContext]
  /\ call = [t \in Threads |-> NoCall]
  /\ result = [t \in Threads |-> Returned("DONE", "OK", NoBlob)]
  /\ held = [t \in Threads |-> Request]

(* Someone installs another artifact at a component's path.                *)
Replace(role, version) ==
  /\ disk[role] # version
  /\ ReplaceDuringLoad \/ \A t \in Threads : call[t].at # "payload"
  /\ disk' = [disk EXCEPT ![role] = version]
  /\ UNCHANGED <<context, call, result, held>>

(* cantor_engine_load: models are loaded by the first stage that needs     *)
(* them.                                                                   *)
EngineLoad(t, keep, backend, paths) ==
  /\ ~context[t].open
  /\ context' = [context EXCEPT ![t] =
       [NoContext EXCEPT !.open = TRUE, !.keep = keep, !.backend = backend,
                         !.paths = paths]]
  /\ result' = [result EXCEPT ![t] = Returned("DONE", "OK", NoBlob)]
  /\ UNCHANGED <<disk, call, held>>

EngineFree(t) ==
  /\ context[t].open /\ ~Running(t)
  /\ context' = [context EXCEPT ![t] = NoContext]
  /\ UNCHANGED <<disk, call, result, held>>

(* The host keeps the blob it was given, or goes on with the one it has.   *)
HostTakes(t) ==
  /\ ~Running(t) /\ result[t].blob # NoBlob
  /\ held' = [held EXCEPT ![t] = result[t].blob]
  /\ result' = [result EXCEPT ![t].blob = NoBlob]
  /\ UNCHANGED <<disk, context, call>>
HostStartsOver(t) ==
  /\ ~Running(t) /\ held[t] # Request
  /\ held' = [held EXCEPT ![t] = Request]
  /\ UNCHANGED <<disk, context, call, result>>

-----------------------------------------------------------------------------
(* A stage call ends: status, thread-local error and, on success, a blob.  *)
(* Each thread hears its own last error (and all of them, were it shared). *)
HeardByAll(t) == Threads
Heard(t) == {t}
Return(t, status, error, blob) ==
  /\ result' = [u \in Threads |->
       IF u = t THEN Returned(status, error, blob)
       ELSE IF u \in Heard(t) THEN [result[u] EXCEPT !.error = error]
       ELSE result[u]]
  /\ call' = [call EXCEPT ![t] = NoCall]
Fail(t, error) ==
  Return(t, "ERR", error, NoBlob) /\ UNCHANGED <<disk, context, held>>

(* A null or empty argument is refused before anything is touched.         *)
NullArgument(t) ==
  /\ context[t].open /\ ~Running(t)
  /\ result' = [result EXCEPT ![t].status = "ERR", ![t].error = "OTHER",
                              ![t].checked = FALSE]
  /\ UNCHANGED <<disk, context, call, held>>

(* What a stage can read: the first pass of its work, or its own pause.    *)
Resuming(stage, blob) == \/ stage = "CODES" /\ blob.kind = "lm"
                         \/ stage = "DIFFUSE" /\ blob.kind = "flow"
Readable(stage, blob) ==
  \/ Resuming(stage, blob)
  \/ stage = "CODES" /\ blob.kind = "request"
  \/ stage = "DIFFUSE" /\ blob.kind = "codes"
  \/ stage = "DECODE" /\ blob.kind = "latent"

Required(stage) == IF stage = "CODES" THEN {"lm"} ELSE {"dit", "vae"}

(* What a new call leaves of the audio of the call before.                 *)
AudioKept(audio) == audio
AudioAtStart(audio) == NoAudio

(* run_stage up to the point where a model is needed: outputs and audio    *)
(* are cleared, paths and input are checked.  PLAN is not implemented.     *)
RunStage(t, stage) ==
  /\ context[t].open /\ ~Running(t)
  /\ context' = [context EXCEPT ![t].audio = AudioAtStart(@)]
  /\ UNCHANGED <<disk, held>>
  /\ \/ /\ stage = "PLAN" \/ (~Readable(stage, held[t]) /\
                                Required(stage) \subseteq context[t].paths)
        /\ Return(t, "ERR", "OTHER", NoBlob)
     \/ /\ stage \in Stages /\ ~(Required(stage) \subseteq context[t].paths)
        /\ Return(t, "ERR", "MODEL", NoBlob)
     \/ /\ stage \in Stages /\ Required(stage) \subseteq context[t].paths
        /\ Readable(stage, held[t])
        /\ call' = [call EXCEPT ![t] =
             [NoCall EXCEPT !.stage = stage,
                            !.at = IF stage = "DECODE" THEN "boundary" ELSE "load",
                            !.done = IF Resuming(stage, held[t]) THEN held[t].done ELSE 0,
                            !.used = IF Resuming(stage, held[t]) THEN held[t].used ELSE {}]]
        /\ result' = [result EXCEPT ![t] = Returned("running", "OK", NoBlob)]

(* DECODE compares the Flow file at the path with the boundary's stamp     *)
(* before it loads the decoder.                                            *)
CheckBoundary(t) ==
  /\ call[t].at = "boundary"
  /\ IF held[t].stamp.artifact = disk["dit"]
     THEN /\ call' = [call EXCEPT ![t].at = "load"]
          /\ UNCHANGED <<disk, context, result, held>>
     ELSE Fail(t, "OTHER")

(* load_resident_model: a model kept for the same path and device is       *)
(* reused without looking at the file.                                     *)
Reusable(t, model) == context[t].keep /\ model # NoModel

ReuseResident(t) ==
  LET role == RoleOf(call[t].stage)
      model == context[t].resident[role]
  IN /\ call[t].at = "load"
     /\ Reusable(t, model)
     /\ call' = [call EXCEPT ![t].at = "verify", ![t].model = model]
     /\ UNCHANGED <<disk, context, result, held>>

(* The entries of the cache once a digest is read (and the slip of         *)
(* publishing an entry that has no weights yet).                           *)
PublishedEarly(kept, model) == model
BeforePayload(kept, model) == kept

(* load_gguf, first pass: header, inventory and digest of the whole file.  *)
LoadDigest(t) ==
  LET role == RoleOf(call[t].stage)
      model == [weights |-> None, stamp |-> disk[role]]
  IN /\ call[t].at = "load"
     /\ ~Reusable(t, context[t].resident[role])
     /\ call' = [call EXCEPT ![t].at = "payload", ![t].model = model]
     /\ context' = IF context[t].keep
                   THEN [context EXCEPT ![t].resident[role] = BeforePayload(@, model)]
                   ELSE context
     /\ UNCHANGED <<disk, result, held>>

(* load_gguf, second pass: the payloads; only a whole model is published.  *)
LoadPayload(t) ==
  LET role == RoleOf(call[t].stage)
      model == [call[t].model EXCEPT !.weights = disk[role]]
  IN /\ call[t].at = "payload"
     /\ call' = [call EXCEPT ![t].at = "verify", ![t].model = model]
     /\ context' = IF context[t].keep
                   THEN [context EXCEPT ![t].resident[role] = model] ELSE context
     /\ UNCHANGED <<disk, result, held>>

(* The decoder a DECODE believes it has: the digest of the model that is   *)
(* loaded (and that of the file at its path).                              *)
DecoderOnDisk(model, file) == file
DecoderDigest(model, file) == model.stamp

(* Stamps are compared before any work.  DIFFUSE reads the digest of the   *)
(* VAE file here, to stamp its own output with.                            *)
Verified(t, vae) ==
  /\ Resuming(call[t].stage, held[t]) =>
       held[t].stamp = StampOf(call[t].model, context[t].backend)
  /\ call[t].stage = "DIFFUSE" /\ held[t].kind = "flow" => held[t].vae = vae
  /\ call[t].stage = "DECODE" =>
       held[t].vae = DecoderDigest(call[t].model, vae)

VerifyStamps(t) ==
  LET vae == IF call[t].stage = "CODES" THEN None ELSE disk["vae"]
  IN /\ call[t].at = "verify"
     /\ IF Verified(t, vae)
        THEN /\ call' = [call EXCEPT ![t].vae = vae, ![t].at =
                           IF Resuming(call[t].stage, held[t]) /\ call[t].stage = "CODES"
                           THEN "replay" ELSE "work"]
             /\ UNCHANGED <<disk, context, result, held>>
        ELSE Fail(t, "OTHER")

(* A resumed CODES rebuilds its K/V rows; the logits it arrives at must    *)
(* have the digest the pause recorded.                                     *)
LogitsOf(t) == {Worker(call[t].model, context[t].backend)}
DigestIgnored(t) == TRUE
DigestMatches(t) == held[t].digest = LogitsOf(t)
Replay(t) ==
  /\ call[t].at = "replay"
  /\ IF DigestMatches(t)
     THEN /\ call' = [call EXCEPT ![t].at = "work"]
          /\ UNCHANGED <<disk, context, result, held>>
     ELSE Fail(t, "OTHER")

(* One unit of work, after a poll that did not ask to stop.                *)
Work(t) ==
  /\ call[t].at = "work" /\ call[t].done < Units
  /\ call' = [call EXCEPT ![t].done = @ + 1,
                ![t].used = @ \cup {Worker(call[t].model, context[t].backend)}]
  /\ UNCHANGED <<disk, context, result, held>>

(* The state a paused stage hands over; DECODE has none, its input is the  *)
(* durable boundary.                                                       *)
PausedBlob(t) ==
  LET stamp == StampOf(call[t].model, context[t].backend)
  IN CASE call[t].stage = "CODES" /\ call[t].at = "replay" ->
            [held[t] EXCEPT !.stamp = stamp]
       [] call[t].stage = "CODES" /\ call[t].at = "work" ->
            Blob("lm", call[t].done, call[t].used, stamp, None, LogitsOf(t))
       [] call[t].stage = "DIFFUSE" ->
            Blob("flow", call[t].done, call[t].used, stamp, call[t].vae, {})
       [] call[t].stage = "DECODE" -> NoBlob

(* A poll that asks to stop.  DECODE also polls before its checks, after   *)
(* its last window and, through the abort callback, within one.            *)
Pause(t) ==
  /\ \/ call[t].at = "work" /\ (call[t].done < Units \/ call[t].stage = "DECODE")
     \/ call[t].at = "replay" /\ call[t].done > 0
     \/ call[t].at = "boundary"
  /\ Return(t, "PAUSED", "CANCEL", PausedBlob(t))
  /\ UNCHANGED <<disk, context, held>>

Complete(t) ==
  /\ call[t].at = "work" /\ call[t].done = Units
  /\ CASE call[t].stage = "CODES" ->
            /\ Return(t, "DONE", "OK", Blob("codes", 0, call[t].used, NoStamp, None, {}))
            /\ UNCHANGED context
       [] call[t].stage = "DIFFUSE" ->
            /\ Return(t, "DONE", "OK",
                      Blob("latent", Units, call[t].used,
                           StampOf(call[t].model, context[t].backend), call[t].vae, {}))
            /\ UNCHANGED context
       [] call[t].stage = "DECODE" ->
            /\ Return(t, "DONE", "OK", NoBlob)
            /\ context' = [context EXCEPT ![t].audio =
                 [windows |-> held[t].used, flow |-> held[t].stamp,
                  samples |-> call[t].used, vae |-> held[t].vae]]
  /\ UNCHANGED <<disk, held>>

(* A digest, a loader, a graph or an allocation fails.                     *)
Breaks(t) ==
  /\ Running(t)
  /\ \E error \in {"OOM", "OTHER"} : Fail(t, error)

Engine(t) ==
  \/ CheckBoundary(t) \/ ReuseResident(t) \/ LoadDigest(t) \/ LoadPayload(t)
  \/ VerifyStamps(t) \/ Replay(t) \/ Work(t) \/ Pause(t) \/ Complete(t)
  \/ Breaks(t)

Host(t) ==
  \/ \E keep \in BOOLEAN, backend \in Backends, paths \in Components :
       EngineLoad(t, keep, backend, paths)
  \/ EngineFree(t) \/ HostTakes(t) \/ HostStartsOver(t) \/ NullArgument(t)
  \/ \E stage \in Stages \cup {"PLAN"} : RunStage(t, stage)

Next ==
  \/ \E t \in Threads : Host(t) \/ Engine(t)
  \/ \E role \in Roles, version \in Versions : Replace(role, version)

Spec == Init /\ [][Next]_vars

-----------------------------------------------------------------------------
Kinds == {"none", "request", "lm", "codes", "flow", "latent"}
Stamps == [artifact : Versions \cup {None}, backend : Backends \cup {"none"}]
Workers == [weights : Versions, backend : Backends]
Blobs == [kind : Kinds, done : 0 .. Units, used : SUBSET Workers,
          stamp : Stamps, vae : Versions \cup {None}, digest : SUBSET Workers]
Models == [weights : Versions \cup {None}, stamp : Versions \cup {None}]
Audios == [windows : SUBSET Workers, flow : Stamps, samples : SUBSET Workers,
           vae : Versions \cup {None}]
Contexts == [open : BOOLEAN, keep : BOOLEAN, backend : Backends \cup {"none"},
             paths : Components \cup {{}}, resident : [Roles -> Models], audio : Audios]
Calls == [stage : Stages \cup {"none"},
          at : {"idle", "boundary", "load", "payload", "verify", "replay", "work"},
          model : Models, vae : Versions \cup {None}, done : 0 .. Units,
          used : SUBSET Workers]
Results == [status : {"DONE", "ERR", "PAUSED", "running"},
            error : {"OK", "CANCEL", "MODEL", "OOM", "OTHER"},
            blob : Blobs, checked : BOOLEAN]

(* Every variable holds what its field may hold.                           *)
TypeOK ==
  /\ disk \in [Roles -> Versions]
  /\ context \in [Threads -> Contexts]
  /\ call \in [Threads -> Calls]
  /\ result \in [Threads -> Results]
  /\ held \in [Threads -> Blobs]

(* "A component substitution after a pause fails loudly rather than        *)
(* silently changing a waveform": all windows of delivered audio were      *)
(* computed by one Flow model on one backend, decoded by one VAE, and both *)
(* are the artifacts the boundary is stamped with, whatever was replaced,  *)
(* kept loaded, paused or moved in between.                                *)
SubstitutionFailsLoudly ==
  \A t \in Threads :
    LET audio == context[t].audio
    IN audio # NoAudio =>
         /\ audio.windows = {[weights |-> audio.flow.artifact,
                              backend |-> audio.flow.backend]}
         /\ {w.weights : w \in audio.samples} = {audio.vae}

(* Tokens come from one model on one backend, also when a loader saw two   *)
(* versions of its file: the logits digest catches what a stamp cannot.    *)
TokensOfOneModel ==
  \A t \in Threads : \A blob \in {held[t], result[t].blob} :
    blob.kind \in {"lm", "codes"} => Cardinality(blob.used) <= 1

(* No song mixes models unnoticed: not the tokens of one, and not its      *)
(* windows or samples when files only change between loads.                *)
SubstitutionIsNoticed ==
  TokensOfOneModel /\ (~ReplaceDuringLoad => SubstitutionFailsLoudly)

(* A model kept by a context is whole, also after a failed load, and none  *)
(* is kept unless asked for; every variable has its type.                  *)
ResidentIsWhole ==
  /\ TypeOK
  /\ \A t \in Threads, r \in Roles :
       context[t].resident[r] # NoModel =>
         /\ context[t].keep
         /\ context[t].resident[r].weights # None

(* What a thread's last call left behind fits its status: a pause of CODES *)
(* or DIFFUSE is the only error that leaves a blob, audio is only there    *)
(* after a DECODE that was done, and the error is the thread's own.        *)
OutputMatchesStatus ==
  \A t \in Threads :
    LET r == result[t]
    IN /\ r.status \in {"DONE", "running"} => r.error = "OK"
       /\ r.status = "PAUSED" <=> r.error = "CANCEL"
       /\ r.status = "ERR" /\ r.checked => r.blob = NoBlob
       /\ r.blob.kind \in {"lm", "flow"} /\ r.checked => r.status = "PAUSED"
       /\ context[t].audio # NoAudio /\ r.checked => r.status = "DONE"
=============================================================================
