------------------------- MODULE CantorEngineProofs -------------------------
(***************************************************************************)
(* For any number of threads, backends, versions and units of work,        *)
(* whatever is replaced, kept loaded, paused, broken or moved between      *)
(* engines: tokens come from one model, finished audio from the models it  *)
(* is stamped with, and a call's outputs fit its status.                   *)
(***************************************************************************)
EXTENDS CantorEngine, FiniteSetTheorems, TLAPS

(* A whole model; its two reads agree unless a file changed between them.  *)
Whole(model) ==
  /\ model \in [weights : Versions, stamp : Versions]
  /\ ~ReplaceDuringLoad => model.weights = model.stamp

(* What a stamp says computed a blob.                                      *)
Named(stamp) == [weights |-> stamp.artifact, backend |-> stamp.backend]

(* Tokens and their digest have one worker; windows have the one their     *)
(* stamp names.                                                            *)
BlobInv(blob) ==
  /\ blob.kind = "lm" => \E w \in Workers : blob.digest = {w} /\ blob.used \subseteq {w}
  /\ blob.kind = "codes" => \E w \in Workers : blob.used \subseteq {w}
  /\ ~ReplaceDuringLoad /\ blob.kind \in {"flow", "latent"} =>
       blob.used \subseteq {Named(blob.stamp)}
  /\ blob.kind \in {"lm", "flow", "latent"} /\ blob.done > 0 => blob.used # {}
  /\ blob.kind = "latent" => blob.done > 0

(* What a call is working with at each point of run_stage.                 *)
StartInv(t) ==
  call[t].at \in {"boundary", "load", "payload", "verify", "replay"} =>
    LET resuming == Resuming(call[t].stage, held[t])
    IN /\ call[t].done = IF resuming THEN held[t].done ELSE 0
       /\ call[t].used = IF resuming THEN held[t].used ELSE {}
ModelInv(t) ==
  /\ call[t].at = "payload" =>
       /\ call[t].model.stamp \in Versions
       /\ ~ReplaceDuringLoad => call[t].model.stamp = disk[RoleOf(call[t].stage)]
  /\ call[t].at \in {"verify", "replay", "work"} => Whole(call[t].model)
  /\ call[t].at \in {"replay", "work"} => Verified(t, call[t].vae)
  /\ call[t].at = "replay" => call[t].stage = "CODES" /\ held[t].kind = "lm"
  /\ call[t].at = "boundary" => call[t].stage = "DECODE"
WorkInv(t) ==
  call[t].at = "work" =>
    /\ call[t].stage # "DIFFUSE" \/ ~ReplaceDuringLoad =>
         call[t].used \subseteq {Worker(call[t].model, context[t].backend)}
    /\ call[t].done > 0 => call[t].used # {}

(* A running call has an open context, an input it reads, nothing returned *)
(* yet and no audio of the call before.                                    *)
CallInv(t) ==
  /\ ~Running(t) => call[t] = NoCall
  /\ context[t].open => context[t].backend \in Backends
  /\ Running(t) => /\ context[t].open /\ call[t].stage \in Stages
                   /\ Readable(call[t].stage, held[t])
                   /\ result[t] = Returned("running", "OK", NoBlob)
                   /\ context[t].audio = NoAudio

(* What a context keeps: whole models, and audio of the models it names.   *)
ContextInv(t) ==
  /\ \A r \in Roles : context[t].resident[r] # NoModel =>
       context[t].keep /\ Whole(context[t].resident[r])
  /\ context[t].audio # NoAudio /\ ~ReplaceDuringLoad =>
       /\ context[t].audio.windows = {Named(context[t].audio.flow)}
       /\ {w.weights : w \in context[t].audio.samples} = {context[t].audio.vae}

ResultInv(t) ==
  LET r == result[t]
  IN /\ r.status \in {"DONE", "running"} => r.error = "OK"
     /\ r.status = "PAUSED" <=> r.error = "CANCEL"
     /\ r.status = "ERR" /\ r.checked => r.blob = NoBlob
     /\ r.blob.kind \in {"lm", "flow"} /\ r.checked => r.status = "PAUSED"
     /\ context[t].audio # NoAudio /\ r.checked => r.status = "DONE"

ThreadInv(t) ==
  /\ BlobInv(held[t]) /\ BlobInv(result[t].blob)
  /\ StartInv(t) /\ ModelInv(t) /\ WorkInv(t) /\ CallInv(t) /\ ContextInv(t) /\ ResultInv(t)

IInv == TypeOK /\ \A t \in Threads : ThreadInv(t)

-----------------------------------------------------------------------------
(* None is no version, and the initial records are typed.                  *)
LEMMA Constants ==
  ASSUME EngineAssumption
  PROVE  /\ None \notin Versions /\ 1 \in Versions /\ 0 \in 0 .. Units /\ Units \in 0 .. Units
         /\ Units > 0 /\ Units \in Nat
         /\ NoModel \in Models /\ NoStamp \in Stamps /\ NoAudio \in Audios
         /\ NoBlob \in Blobs /\ Request \in Blobs /\ NoContext \in Contexts /\ NoCall \in Calls
<1>1. /\ None \notin Versions /\ 1 \in Versions /\ 0 \in 0 .. Units /\ Units \in 0 .. Units
      /\ Units > 0 /\ Units \in Nat
  BY DEF EngineAssumption, None, Versions
<1>2. NoModel \in Models
  BY DEF NoModel, Models
<1>3. NoStamp \in Stamps
  BY DEF NoStamp, Stamps
<1>4. NoAudio \in Audios
  BY <1>3 DEF NoAudio, Audios
<1>5. NoBlob \in Blobs /\ Request \in Blobs
  BY <1>1, <1>3 DEF NoBlob, Request, Blob, Blobs, Kinds
<1>6. NoContext \in Contexts
  BY <1>2, <1>4 DEF NoContext, Contexts
<1>7. NoCall \in Calls
  BY <1>1, <1>2 DEF NoCall, Calls
<1> QED
  BY <1>1, <1>2, <1>3, <1>4, <1>5, <1>6, <1>7

(* The initial state: no engine, and a request to start from.              *)
LEMMA InitIInv == EngineAssumption /\ Init => IInv
<1> SUFFICES ASSUME EngineAssumption, Init PROVE IInv
  OBVIOUS
<1> USE Constants
<1>1. TypeOK
  <2>1. Returned("DONE", "OK", NoBlob) \in Results
    BY DEF Returned, Results
  <2> QED
    BY <2>1 DEF TypeOK, Init
<1>2. ASSUME NEW t \in Threads PROVE ThreadInv(t)
  <2>1. /\ context[t] = NoContext /\ call[t] = NoCall /\ held[t] = Request
        /\ result[t] = Returned("DONE", "OK", NoBlob)
    BY DEF Init
  <2>2. BlobInv(held[t]) /\ BlobInv(result[t].blob)
    BY <2>1 DEF BlobInv, Request, NoBlob, Blob, Returned
  <2>3. StartInv(t) /\ ModelInv(t) /\ WorkInv(t) /\ CallInv(t)
    BY <2>1 DEF StartInv, ModelInv, WorkInv, CallInv, NoCall, NoContext, Running
  <2>4. ContextInv(t)
    BY <2>1 DEF ContextInv, NoContext
  <2>5. ResultInv(t)
    BY <2>1 DEF ResultInv, NoContext, Returned, NoBlob, Blob
  <2> QED
    BY <2>2, <2>3, <2>4, <2>5 DEF ThreadInv
<1> QED
  BY <1>1, <1>2 DEF IInv

(* What Return does to the thread that returns, and to nobody else.        *)
LEMMA ReturnFacts ==
  ASSUME EngineAssumption, TypeOK, NEW t \in Threads,
         NEW status \in {"DONE", "ERR", "PAUSED", "running"},
         NEW error \in {"OK", "CANCEL", "MODEL", "OOM", "OTHER"},
         NEW blob \in Blobs, Return(t, status, error, blob)
  PROVE  /\ result' \in [Threads -> Results] /\ call' \in [Threads -> Calls]
         /\ result'[t] = Returned(status, error, blob) /\ call'[t] = NoCall
         /\ \A u \in Threads \ {t} : result'[u] = result[u] /\ call'[u] = call[u]
<1>1. Returned(status, error, blob) \in Results
  BY DEF Returned, Results
<1>2. result' = [u \in Threads |-> IF u = t THEN Returned(status, error, blob) ELSE result[u]]
  <2>1. \A u \in Threads : u # t => u \notin Heard(t)
    BY DEF Heard
  <2> QED
    BY <2>1 DEF Return
<1>3. call' = [call EXCEPT ![t] = NoCall]
  BY DEF Return
<1> QED
  BY <1>1, <1>2, <1>3, Constants DEF TypeOK

(* The blob of a pause is a blob.                                          *)
LEMMA PausedBlobType ==
  ASSUME EngineAssumption, IInv, NEW t \in Threads, Pause(t)
  PROVE  PausedBlob(t) \in Blobs
<1>1. /\ call[t] \in Calls /\ held[t] \in Blobs /\ context[t] \in Contexts
      /\ Running(t) /\ ThreadInv(t)
  BY DEF IInv, TypeOK, Pause, Running
<1>2. /\ context[t].backend \in Backends /\ call[t].stage \in Stages
      /\ call[t].done \in 0 .. Units /\ call[t].used \in SUBSET Workers
      /\ call[t].vae \in Versions \cup {None}
  BY <1>1 DEF ThreadInv, CallInv, Calls
<1>3. CASE call[t].at \in {"replay", "work"}
  <2>1. call[t].model \in [weights : Versions, stamp : Versions]
    BY <1>1, <1>3 DEF ThreadInv, ModelInv, Whole
  <2>2. StampOf(call[t].model, context[t].backend) \in Stamps
    BY <1>2, <2>1 DEF StampOf, Stamps
  <2>3. LogitsOf(t) \in SUBSET Workers
    BY <1>2, <2>1 DEF LogitsOf, Worker, Workers
  <2>4. CASE call[t].stage = "CODES" /\ call[t].at = "replay"
    <3>1. PausedBlob(t) = [held[t] EXCEPT !.stamp = StampOf(call[t].model, context[t].backend)]
      BY <2>4 DEF PausedBlob
    <3> QED
      BY <1>1, <2>2, <3>1 DEF Blobs
  <2>5. CASE call[t].stage = "CODES" /\ call[t].at = "work"
    <3>1. PausedBlob(t) = Blob("lm", call[t].done, call[t].used,
                               StampOf(call[t].model, context[t].backend), None, LogitsOf(t))
      BY <2>5 DEF PausedBlob
    <3> QED
      BY <1>2, <2>2, <2>3, <3>1 DEF Blob, Blobs, Kinds
  <2>6. CASE call[t].stage = "DIFFUSE"
    <3>1. PausedBlob(t) = Blob("flow", call[t].done, call[t].used,
                               StampOf(call[t].model, context[t].backend), call[t].vae, {})
      BY <2>6 DEF PausedBlob
    <3> QED
      BY <1>2, <2>2, <3>1 DEF Blob, Blobs, Kinds
  <2>7. CASE call[t].stage = "DECODE"
    BY <2>7, Constants DEF PausedBlob
  <2> QED
    BY <1>2, <1>3, <2>4, <2>5, <2>6, <2>7 DEF Stages
<1>4. CASE call[t].at = "boundary"
  <2>1. call[t].stage = "DECODE"
    BY <1>1, <1>4 DEF ThreadInv, ModelInv
  <2> QED
    BY <2>1, Constants DEF PausedBlob
<1> QED
  BY <1>3, <1>4 DEF Pause

(* A step touches its own thread only.                                     *)
Alone(t) ==
  /\ disk' = disk
  /\ \A u \in Threads \ {t} : /\ context'[u] = context[u] /\ call'[u] = call[u]
                              /\ result'[u] = result[u] /\ held'[u] = held[u]

(* The blobs that hold no work are sound.                                  *)
LEMMA EmptyBlobs == BlobInv(NoBlob) /\ BlobInv(Request)
BY DEF BlobInv, NoBlob, Request, Blob

(* A call that ends without audio leaves its thread as it should be.       *)
LEMMA EndFacts ==
  ASSUME EngineAssumption, IInv, NEW t \in Threads,
         NEW status \in {"DONE", "ERR", "PAUSED"},
         NEW error \in {"OK", "CANCEL", "MODEL", "OOM", "OTHER"},
         NEW blob \in Blobs, Return(t, status, error, blob),
         UNCHANGED <<disk, held>>, context' \in [Threads -> Contexts],
         \A u \in Threads \ {t} : context'[u] = context[u],
         BlobInv(blob),
         status = "DONE" => error = "OK", status = "PAUSED" <=> error = "CANCEL",
         status = "ERR" => blob = NoBlob,
         blob.kind \in {"lm", "flow"} => status = "PAUSED",
         context'[t].audio # NoAudio => status = "DONE",
         context'[t].open => context'[t].backend \in Backends,
         ContextInv(t)'
  PROVE  TypeOK' /\ ThreadInv(t)' /\ Alone(t)
<1>1. /\ result' \in [Threads -> Results] /\ call' \in [Threads -> Calls]
      /\ result'[t] = Returned(status, error, blob) /\ call'[t] = NoCall
      /\ \A u \in Threads \ {t} : result'[u] = result[u] /\ call'[u] = call[u]
  BY ReturnFacts DEF IInv
<1>2. TypeOK'
  BY <1>1 DEF TypeOK, IInv
<1>3. BlobInv(held'[t]) /\ BlobInv(result'[t].blob)
  BY <1>1 DEF IInv, ThreadInv, Returned
<1>4. /\ result'[t].status = status /\ result'[t].error = error
      /\ result'[t].blob = blob /\ result'[t].checked = TRUE
  BY <1>1 DEF Returned
<1>5. ResultInv(t)'
  BY <1>4 DEF ResultInv
<1>6. StartInv(t)' /\ ModelInv(t)' /\ WorkInv(t)' /\ CallInv(t)'
  BY <1>1 DEF StartInv, ModelInv, WorkInv, CallInv, NoCall, Running
<1>7. Alone(t)
  BY <1>1 DEF Alone
<1> QED
  BY <1>2, <1>3, <1>5, <1>6, <1>7 DEF ThreadInv

(* A failure leaves an error, no blob and the context as it was.           *)
LEMMA FailFacts ==
  ASSUME EngineAssumption, IInv, NEW t \in Threads, Running(t),
         NEW error \in {"MODEL", "OOM", "OTHER"}, Fail(t, error)
  PROVE  TypeOK' /\ ThreadInv(t)' /\ Alone(t)
<1>1. Return(t, "ERR", error, NoBlob) /\ UNCHANGED <<disk, context, held>>
  BY DEF Fail
<1>2. /\ context \in [Threads -> Contexts] /\ ContextInv(t)
      /\ context[t].audio = NoAudio /\ context[t].backend \in Backends
  BY DEF IInv, TypeOK, ThreadInv, CallInv
<1>3. ContextInv(t)'
  BY <1>1, <1>2 DEF ContextInv
<1>4. NoBlob.kind = "none" /\ NoBlob \in Blobs /\ BlobInv(NoBlob)
  BY Constants, EmptyBlobs DEF NoBlob, Blob
<1> QED
  BY <1>1, <1>2, <1>3, <1>4, EndFacts

(* A step inside a call changes the call and maybe what is kept.           *)
LEMMA InsideFacts ==
  ASSUME EngineAssumption, IInv, NEW t \in Threads, Running(t),
         UNCHANGED <<disk, result, held>>,
         call' \in [Threads -> Calls], context' \in [Threads -> Contexts],
         \A u \in Threads \ {t} : context'[u] = context[u] /\ call'[u] = call[u],
         call'[t].stage = call[t].stage, Running(t)',
         context'[t].audio = NoAudio, context'[t].open,
         context'[t].backend = context[t].backend,
         StartInv(t)', ModelInv(t)', WorkInv(t)', ContextInv(t)'
  PROVE  TypeOK' /\ ThreadInv(t)' /\ Alone(t)
<1>1. TypeOK' /\ Alone(t)
  BY DEF TypeOK, IInv, Alone
<1>2. BlobInv(held'[t]) /\ BlobInv(result'[t].blob)
  BY DEF IInv, ThreadInv
<1>3. CallInv(t)'
  BY DEF IInv, ThreadInv, CallInv
<1>4. ResultInv(t)'
  BY DEF IInv, ThreadInv, ResultInv
<1> QED
  BY <1>1, <1>2, <1>3, <1>4 DEF ThreadInv

-----------------------------------------------------------------------------
(* The host's calls.                                                       *)
LEMMA HostFacts ==
  ASSUME EngineAssumption, IInv, NEW t \in Threads,
         \/ \E keep \in BOOLEAN, backend \in Backends, paths \in Components :
              EngineLoad(t, keep, backend, paths)
         \/ EngineFree(t) \/ HostTakes(t) \/ HostStartsOver(t) \/ NullArgument(t)
  PROVE  TypeOK' /\ ThreadInv(t)' /\ Alone(t)
<1>a. /\ TypeOK /\ ThreadInv(t) /\ context[t] \in Contexts /\ call[t] \in Calls
      /\ result[t] \in Results /\ held[t] \in Blobs
  BY DEF IInv, TypeOK
<1>b. NoContext.audio = NoAudio /\ \A r \in Roles : NoContext.resident[r] = NoModel
  BY DEF NoContext
<1>1. ASSUME NEW keep \in BOOLEAN, NEW backend \in Backends, NEW paths \in Components,
             EngineLoad(t, keep, backend, paths)
      PROVE  TypeOK' /\ ThreadInv(t)' /\ Alone(t)
  <2> DEFINE opened == [NoContext EXCEPT !.open = TRUE, !.keep = keep, !.backend = backend,
                                         !.paths = paths]
  <2>1. /\ ~context[t].open /\ context' = [context EXCEPT ![t] = opened]
        /\ result' = [result EXCEPT ![t] = Returned("DONE", "OK", NoBlob)]
        /\ UNCHANGED <<disk, call, held>>
    BY <1>1 DEF EngineLoad
  <2>2. opened \in Contexts /\ opened.audio = NoAudio /\ opened.backend \in Backends
        /\ \A r \in Roles : opened.resident[r] = NoModel
    BY Constants DEF NoContext, Contexts
  <2>3. Returned("DONE", "OK", NoBlob) \in Results
    BY Constants DEF Returned, Results
  <2>4. TypeOK' /\ Alone(t)
    BY <1>a, <2>1, <2>2, <2>3 DEF TypeOK, Alone
  <2>5. /\ context'[t] = opened /\ result'[t] = Returned("DONE", "OK", NoBlob)
        /\ call'[t] = NoCall /\ ~Running(t) /\ held'[t] = held[t]
    BY <1>a, <2>1 DEF TypeOK, ThreadInv, CallInv
  <2>6. BlobInv(held'[t]) /\ BlobInv(result'[t].blob)
    BY <1>a, <2>5, EmptyBlobs DEF ThreadInv, Returned
  <2>7. StartInv(t)' /\ ModelInv(t)' /\ WorkInv(t)' /\ CallInv(t)'
    BY <2>2, <2>5 DEF StartInv, ModelInv, WorkInv, CallInv, NoCall, Running
  <2>8. ContextInv(t)'
    BY <2>2, <2>5 DEF ContextInv
  <2>9. ResultInv(t)'
    <3> HIDE DEF opened
    <3> QED
      BY <2>2, <2>5 DEF ResultInv, Returned, NoBlob, Blob
  <2> QED
    BY <2>4, <2>6, <2>7, <2>8, <2>9 DEF ThreadInv
<1>2. CASE EngineFree(t)
  <2>1. /\ context' = [context EXCEPT ![t] = NoContext] /\ ~Running(t)
        /\ UNCHANGED <<disk, call, result, held>>
    BY <1>2 DEF EngineFree
  <2>2. TypeOK' /\ Alone(t) /\ context'[t] = NoContext
    BY <1>a, <2>1, Constants DEF TypeOK, Alone
  <2>3. StartInv(t)' /\ ModelInv(t)' /\ WorkInv(t)' /\ CallInv(t)'
    <3>1. NoContext.open = FALSE /\ call[t] = NoCall /\ call[t].at = "idle"
      BY <1>a, <2>1 DEF NoContext, ThreadInv, CallInv, Running
    <3> QED
      BY <2>1, <2>2, <3>1 DEF StartInv, ModelInv, WorkInv, CallInv, Running
  <2>4. ContextInv(t)'
    BY <1>b, <2>2 DEF ContextInv
  <2>5. ResultInv(t)'
    BY <1>a, <1>b, <2>1, <2>2 DEF ResultInv, ThreadInv
  <2> QED
    BY <1>a, <2>1, <2>2, <2>3, <2>4, <2>5 DEF ThreadInv
<1>3. CASE HostTakes(t) \/ HostStartsOver(t) \/ NullArgument(t)
  <2>1. /\ UNCHANGED <<disk, context, call>> /\ ~Running(t)
        /\ held' \in [Threads -> Blobs] /\ result' \in [Threads -> Results]
        /\ \A u \in Threads \ {t} : held'[u] = held[u] /\ result'[u] = result[u]
        /\ held'[t] \in {held[t], result[t].blob, Request}
        /\ result'[t].blob \in {NoBlob, result[t].blob}
    <3>1. CASE HostTakes(t)
      BY <1>a, <3>1, Constants DEF TypeOK, HostTakes, Results
    <3>2. CASE HostStartsOver(t)
      BY <1>a, <3>2, Constants DEF TypeOK, HostStartsOver
    <3>3. CASE NullArgument(t)
      BY <1>a, <3>3 DEF TypeOK, NullArgument, Results
    <3> QED
      BY <1>3, <3>1, <3>2, <3>3
  <2>2. TypeOK' /\ Alone(t)
    BY <1>a, <2>1 DEF TypeOK, Alone
  <2>3. BlobInv(held'[t]) /\ BlobInv(result'[t].blob)
    BY <1>a, <2>1, EmptyBlobs DEF ThreadInv
  <2>4. StartInv(t)' /\ ModelInv(t)' /\ WorkInv(t)' /\ CallInv(t)'
    <3>1. call[t] = NoCall /\ call[t].at = "idle"
      BY <1>a, <2>1 DEF ThreadInv, CallInv, Running
    <3> QED
      BY <1>a, <2>1, <3>1 DEF StartInv, ModelInv, WorkInv, ThreadInv, CallInv, Running
  <2>5. ContextInv(t)'
    BY <1>a, <2>1 DEF ContextInv, ThreadInv
  <2>6. ResultInv(t)'
    <3>1. CASE HostTakes(t)
      BY <1>a, <2>1, <3>1 DEF HostTakes, ResultInv, ThreadInv, Results, NoBlob, Blob, TypeOK
    <3>2. CASE HostStartsOver(t)
      BY <1>a, <2>1, <3>2 DEF HostStartsOver, ResultInv, ThreadInv
    <3>3. CASE NullArgument(t)
      BY <1>a, <2>1, <3>3 DEF NullArgument, ResultInv, ThreadInv, Results, TypeOK
    <3> QED
      BY <1>3, <3>1, <3>2, <3>3
  <2> QED
    BY <2>2, <2>3, <2>4, <2>5, <2>6 DEF ThreadInv
<1> QED
  BY <1>1, <1>2, <1>3

(* run_stage up to the model: the audio of the call before is gone.        *)
LEMMA RunStageFacts ==
  ASSUME EngineAssumption, IInv, NEW t \in Threads, NEW stage \in Stages \cup {"PLAN"},
         RunStage(t, stage)
  PROVE  TypeOK' /\ ThreadInv(t)' /\ Alone(t)
<1>a. /\ TypeOK /\ ThreadInv(t) /\ context[t] \in Contexts /\ call[t] \in Calls
      /\ result[t] \in Results /\ held[t] \in Blobs
  BY DEF IInv, TypeOK
<1>1. /\ context[t].open /\ ~Running(t) /\ UNCHANGED <<disk, held>>
      /\ context' = [context EXCEPT ![t].audio = NoAudio]
  BY DEF RunStage, AudioAtStart
<1>2. /\ context' \in [Threads -> Contexts] /\ context'[t].audio = NoAudio
      /\ context'[t].open /\ context'[t].backend = context[t].backend
      /\ context'[t].backend \in Backends /\ context'[t].keep = context[t].keep
      /\ context'[t].resident = context[t].resident
      /\ \A u \in Threads \ {t} : context'[u] = context[u]
  BY <1>a, <1>1, Constants DEF TypeOK, Contexts, ThreadInv, CallInv
<1>3. ContextInv(t)'
  BY <1>a, <1>2 DEF ContextInv, ThreadInv
<1>4. NoBlob.kind = "none" /\ NoBlob \in Blobs /\ BlobInv(NoBlob)
  BY Constants, EmptyBlobs DEF NoBlob, Blob
<1>5. ASSUME NEW error \in {"OTHER", "MODEL"}, Return(t, "ERR", error, NoBlob)
      PROVE  TypeOK' /\ ThreadInv(t)' /\ Alone(t)
  BY <1>1, <1>2, <1>3, <1>4, <1>5, EndFacts
<1>6. CASE /\ stage \in Stages /\ Readable(stage, held[t])
           /\ call' = [call EXCEPT ![t] =
                [NoCall EXCEPT !.stage = stage,
                   !.at = IF stage = "DECODE" THEN "boundary" ELSE "load",
                   !.done = IF Resuming(stage, held[t]) THEN held[t].done ELSE 0,
                   !.used = IF Resuming(stage, held[t]) THEN held[t].used ELSE {}]]
           /\ result' = [result EXCEPT ![t] = Returned("running", "OK", NoBlob)]
  <2> DEFINE begun == [NoCall EXCEPT !.stage = stage,
                   !.at = IF stage = "DECODE" THEN "boundary" ELSE "load",
                   !.done = IF Resuming(stage, held[t]) THEN held[t].done ELSE 0,
                   !.used = IF Resuming(stage, held[t]) THEN held[t].used ELSE {}]
  <2>1. /\ begun.stage = stage /\ begun.at = IF stage = "DECODE" THEN "boundary" ELSE "load"
        /\ begun.done = (IF Resuming(stage, held[t]) THEN held[t].done ELSE 0)
        /\ begun.used = (IF Resuming(stage, held[t]) THEN held[t].used ELSE {})
    BY DEF NoCall
  <2>2. held[t].done \in 0 .. Units /\ held[t].used \in SUBSET Workers
    BY <1>a DEF Blobs
  <2>3. begun \in Calls
    BY <1>6, <2>2, Constants DEF NoCall, Calls
  <2>4. /\ call'[t] = begun /\ result'[t] = Returned("running", "OK", NoBlob)
        /\ held'[t] = held[t]
    BY <1>a, <1>1, <1>6 DEF TypeOK
  <2>5. Returned("running", "OK", NoBlob) \in Results
    BY Constants DEF Returned, Results
  <2>6. TypeOK' /\ Alone(t)
    BY <1>a, <1>1, <1>2, <1>6, <2>3, <2>5 DEF TypeOK, Alone
  <2> HIDE DEF begun
  <2>7. BlobInv(held'[t]) /\ BlobInv(result'[t].blob)
    BY <1>a, <1>4, <2>4 DEF ThreadInv, Returned
  <2>8. StartInv(t)'
    BY <2>1, <2>4 DEF StartInv
  <2>9. ModelInv(t)' /\ WorkInv(t)'
    BY <2>1, <2>4 DEF ModelInv, WorkInv
  <2>10. CallInv(t)'
    BY <1>2, <1>6, <2>1, <2>4 DEF CallInv, Running
  <2>11. ResultInv(t)'
    BY <1>2, <1>4, <2>4 DEF ResultInv, Returned
  <2> QED
    BY <1>3, <2>6, <2>7, <2>8, <2>9, <2>10, <2>11 DEF ThreadInv
<1> QED
  BY <1>5, <1>6 DEF RunStage

-----------------------------------------------------------------------------
(* The models a call comes to work with are whole, however they are got.   *)
LEMMA LoadFacts ==
  ASSUME EngineAssumption, IInv, NEW t \in Threads,
         CheckBoundary(t) \/ ReuseResident(t) \/ LoadDigest(t) \/ LoadPayload(t)
  PROVE  TypeOK' /\ ThreadInv(t)' /\ Alone(t)
<1>a. /\ TypeOK /\ ThreadInv(t) /\ context[t] \in Contexts /\ call[t] \in Calls
      /\ Running(t) /\ context[t].open /\ context[t].audio = NoAudio
      /\ call[t].stage \in Stages /\ RoleOf(call[t].stage) \in Roles
  <2>1. Running(t)
    BY DEF CheckBoundary, ReuseResident, LoadDigest, LoadPayload, Running
  <2>2. call[t].stage \in Stages
    BY <2>1 DEF IInv, ThreadInv, CallInv
  <2>3. RoleOf(call[t].stage) \in Roles
    BY <2>2 DEF RoleOf, Roles, Stages
  <2> QED
    BY <2>1, <2>2, <2>3 DEF IInv, TypeOK, ThreadInv, CallInv
<1> DEFINE role == RoleOf(call[t].stage)
<1>b. /\ disk[role] \in Versions /\ None \notin Versions
      /\ context[t].resident \in [Roles -> Models]
  BY <1>a, Constants DEF TypeOK, Contexts
<1>1. CASE CheckBoundary(t)
  <2>1. CASE Fail(t, "OTHER")
    BY <1>a, <2>1, FailFacts
  <2>2. CASE /\ call' = [call EXCEPT ![t].at = "load"]
             /\ UNCHANGED <<disk, context, result, held>>
    <3>1. /\ call' \in [Threads -> Calls] /\ call'[t] = [call[t] EXCEPT !.at = "load"]
          /\ \A u \in Threads \ {t} : call'[u] = call[u]
      BY <1>a, <2>2 DEF TypeOK, Calls
    <3>2. /\ call'[t].stage = call[t].stage /\ call'[t].at = "load"
          /\ call'[t].done = call[t].done /\ call'[t].used = call[t].used
      BY <1>a, <3>1 DEF Calls
    <3>3. StartInv(t)' /\ ModelInv(t)' /\ WorkInv(t)' /\ ContextInv(t)' /\ Running(t)'
      BY <1>1, <1>a, <2>2, <3>2
         DEF CheckBoundary, StartInv, ModelInv, WorkInv, ContextInv, Running, ThreadInv
    <3> QED
      BY <1>a, <2>2, <3>1, <3>2, <3>3, InsideFacts DEF TypeOK
  <2> QED
    BY <1>1, <2>1, <2>2 DEF CheckBoundary
<1>2. CASE ReuseResident(t)
  <2> DEFINE model == context[t].resident[role]
  <2>1. /\ call[t].at = "load" /\ model # NoModel
        /\ call' = [call EXCEPT ![t].at = "verify", ![t].model = model]
        /\ UNCHANGED <<disk, context, result, held>>
    BY <1>2 DEF ReuseResident, Reusable
  <2>2. model \in Models /\ Whole(model)
    BY <1>a, <1>b, <2>1 DEF ThreadInv, ContextInv
  <2> HIDE DEF model
  <2>3. /\ call' \in [Threads -> Calls]
        /\ call'[t] = [call[t] EXCEPT !.at = "verify", !.model = model]
        /\ \A u \in Threads \ {t} : call'[u] = call[u]
    BY <1>a, <2>1, <2>2 DEF TypeOK, Calls
  <2>4. /\ call'[t].stage = call[t].stage /\ call'[t].at = "verify" /\ call'[t].model = model
        /\ call'[t].done = call[t].done /\ call'[t].used = call[t].used
    BY <1>a, <2>3 DEF Calls
  <2>5. StartInv(t)' /\ ModelInv(t)' /\ WorkInv(t)' /\ ContextInv(t)' /\ Running(t)'
    BY <1>a, <2>1, <2>2, <2>4
       DEF StartInv, ModelInv, WorkInv, ContextInv, Running, ThreadInv
  <2> QED
    BY <1>a, <2>1, <2>3, <2>4, <2>5, InsideFacts DEF TypeOK
<1>3. CASE LoadDigest(t)
  <2> DEFINE model == [weights |-> None, stamp |-> disk[role]]
  <2>1. /\ call[t].at = "load"
        /\ call' = [call EXCEPT ![t].at = "payload", ![t].model = model]
        /\ UNCHANGED <<disk, result, held>>
        /\ context' = IF context[t].keep
             THEN [context EXCEPT ![t].resident[role] = BeforePayload(@, model)]
             ELSE context
    BY <1>3 DEF LoadDigest
  <2>2. context' = context
    BY <1>a, <2>1 DEF BeforePayload, TypeOK, Contexts
  <2>3. model \in Models /\ model.stamp = disk[role]
    BY <1>b DEF Models
  <2> HIDE DEF model
  <2>4. /\ call' \in [Threads -> Calls]
        /\ call'[t] = [call[t] EXCEPT !.at = "payload", !.model = model]
        /\ \A u \in Threads \ {t} : call'[u] = call[u]
    BY <1>a, <2>1, <2>3 DEF TypeOK, Calls
  <2>5. /\ call'[t].stage = call[t].stage /\ call'[t].at = "payload" /\ call'[t].model = model
        /\ call'[t].done = call[t].done /\ call'[t].used = call[t].used
    BY <1>a, <2>4 DEF Calls
  <2>6. StartInv(t)' /\ ModelInv(t)' /\ WorkInv(t)' /\ ContextInv(t)' /\ Running(t)'
    BY <1>a, <1>b, <2>1, <2>2, <2>3, <2>5
       DEF StartInv, ModelInv, WorkInv, ContextInv, Running, ThreadInv
  <2> QED
    BY <1>a, <2>1, <2>2, <2>4, <2>5, <2>6, InsideFacts DEF TypeOK
<1>4. CASE LoadPayload(t)
  <2> DEFINE model == [call[t].model EXCEPT !.weights = disk[role]]
  <2>1. /\ call[t].at = "payload"
        /\ call' = [call EXCEPT ![t].at = "verify", ![t].model = model]
        /\ UNCHANGED <<disk, result, held>>
        /\ context' = IF context[t].keep
             THEN [context EXCEPT ![t].resident[role] = model] ELSE context
    BY <1>4 DEF LoadPayload
  <2>2. /\ call[t].model.stamp \in Versions /\ call[t].model \in Models
        /\ ~ReplaceDuringLoad => call[t].model.stamp = disk[role]
    BY <1>a, <2>1 DEF ThreadInv, ModelInv, Calls
  <2>3. model \in Models /\ Whole(model)
    BY <1>b, <2>2 DEF Models, Whole
  <2> HIDE DEF model
  <2>4. /\ call' \in [Threads -> Calls]
        /\ call'[t] = [call[t] EXCEPT !.at = "verify", !.model = model]
        /\ \A u \in Threads \ {t} : call'[u] = call[u]
    BY <1>a, <2>1, <2>3 DEF TypeOK, Calls
  <2>5. /\ call'[t].stage = call[t].stage /\ call'[t].at = "verify" /\ call'[t].model = model
        /\ call'[t].done = call[t].done /\ call'[t].used = call[t].used
    BY <1>a, <2>4 DEF Calls
  <2>6. /\ context' \in [Threads -> Contexts]
        /\ \A u \in Threads \ {t} : context'[u] = context[u]
        /\ context'[t].audio = NoAudio /\ context'[t].open
        /\ context'[t].backend = context[t].backend /\ context'[t].keep = context[t].keep
        /\ \A r \in Roles : \/ context'[t].resident[r] = context[t].resident[r]
                            \/ context[t].keep /\ context'[t].resident[r] = model
    <3>1. CASE context' = context
      BY <1>a, <3>1 DEF TypeOK
    <3>2. CASE context[t].keep /\ context' = [context EXCEPT ![t].resident[role] = model]
      <4>1. /\ context'[t] = [context[t] EXCEPT !.resident =
                                [context[t].resident EXCEPT ![role] = model]]
            /\ \A u \in Threads \ {t} : context'[u] = context[u]
        BY <1>a, <3>2 DEF TypeOK, Contexts
      <4>2. context'[t] \in Contexts
        BY <1>a, <1>b, <2>3, <4>1 DEF Contexts
      <4>3. context' \in [Threads -> Contexts]
        BY <1>a, <3>2, <4>2, <4>1 DEF TypeOK
      <4> QED
        BY <1>a, <1>b, <3>2, <4>1, <4>3 DEF Contexts
    <3> QED
      BY <2>1, <3>1, <3>2
  <2>7. ContextInv(t)'
    BY <1>a, <2>3, <2>6 DEF ContextInv, ThreadInv
  <2>8. StartInv(t)' /\ ModelInv(t)' /\ WorkInv(t)' /\ Running(t)'
    BY <1>a, <2>1, <2>3, <2>5
       DEF StartInv, ModelInv, WorkInv, Running, ThreadInv
  <2> QED
    BY <1>a, <2>1, <2>4, <2>5, <2>6, <2>7, <2>8, InsideFacts
<1> QED
  BY <1>1, <1>2, <1>3, <1>4

(* What passes the checks is worked on by the model its stamp names.       *)
LEMMA CheckFacts ==
  ASSUME EngineAssumption, IInv, NEW t \in Threads,
         VerifyStamps(t) \/ Replay(t) \/ Work(t)
  PROVE  TypeOK' /\ ThreadInv(t)' /\ Alone(t)
<1>a. /\ TypeOK /\ ThreadInv(t) /\ context[t] \in Contexts /\ call[t] \in Calls
      /\ Running(t) /\ context[t].open /\ context[t].audio = NoAudio
      /\ call[t].stage \in Stages /\ held[t] \in Blobs
      /\ context[t].backend \in Backends
  <2>1. Running(t)
    BY DEF VerifyStamps, Replay, Work, Running
  <2> QED
    BY <2>1 DEF IInv, TypeOK, ThreadInv, CallInv
<1>b. /\ Whole(call[t].model)
      /\ Worker(call[t].model, context[t].backend) \in Workers
  <2>1. Whole(call[t].model)
    BY <1>a DEF VerifyStamps, Replay, Work, ThreadInv, ModelInv
  <2> QED
    BY <1>a, <2>1 DEF Whole, Worker, Workers
<1>1. CASE VerifyStamps(t)
  <2>1. CASE Fail(t, "OTHER")
    BY <1>a, <2>1, FailFacts
  <2> DEFINE vae == IF call[t].stage = "CODES" THEN None ELSE disk["vae"]
             next == IF Resuming(call[t].stage, held[t]) /\ call[t].stage = "CODES"
                     THEN "replay" ELSE "work"
  <2>2. CASE /\ Verified(t, vae)
             /\ call' = [call EXCEPT ![t].vae = vae, ![t].at = next]
             /\ UNCHANGED <<disk, context, result, held>>
    <3>1. call[t].at = "verify"
      BY <1>1 DEF VerifyStamps
    <3>2. vae \in Versions \cup {None}
      BY <1>a DEF TypeOK, Roles
    <3> HIDE DEF vae
    <3>3. /\ call' \in [Threads -> Calls]
          /\ call'[t] = [call[t] EXCEPT !.vae = vae, !.at = next]
          /\ \A u \in Threads \ {t} : call'[u] = call[u]
      BY <1>a, <2>2, <3>2 DEF TypeOK, Calls
    <3>4. /\ call'[t].stage = call[t].stage /\ call'[t].model = call[t].model
          /\ call'[t].at = next /\ call'[t].vae = vae
          /\ call'[t].done = call[t].done /\ call'[t].used = call[t].used
      BY <1>a, <3>3 DEF Calls
    <3>5. StartInv(t)'
      BY <1>a, <2>2, <3>1, <3>4 DEF StartInv, ThreadInv
    <3>6. Verified(t, call[t].vae)'
      BY <2>2, <3>4 DEF Verified, StampOf, DecoderDigest, Resuming
    <3>7. ModelInv(t)'
      <4>1. next = "replay" => call[t].stage = "CODES" /\ held[t].kind = "lm"
        BY DEF Resuming
      <4>2. next \in {"replay", "work"}
        OBVIOUS
      <4> HIDE DEF next
      <4> QED
        BY <1>b, <2>2, <3>4, <3>6, <4>1, <4>2 DEF ModelInv
    <3>8. WorkInv(t)'
      <4> SUFFICES ASSUME next = "work" PROVE WorkInv(t)'
        BY <3>4 DEF WorkInv
      <4>1. /\ call[t].done = IF Resuming(call[t].stage, held[t]) THEN held[t].done ELSE 0
            /\ call[t].used = IF Resuming(call[t].stage, held[t]) THEN held[t].used ELSE {}
        BY <1>a, <3>1 DEF StartInv, ThreadInv
      <4>2. CASE ~Resuming(call[t].stage, held[t])
        <5>1. call'[t].done = 0 /\ call'[t].used = {}
          BY <3>4, <4>1, <4>2
        <5> QED
          BY <5>1 DEF WorkInv
      <4>3. CASE Resuming(call[t].stage, held[t])
        <5>1. call[t].stage = "DIFFUSE" /\ held[t].kind = "flow"
          BY <4>3 DEF Resuming
        <5>2. held[t].stamp = StampOf(call[t].model, context[t].backend)
          BY <2>2, <4>3 DEF Verified
        <5>3. ~ReplaceDuringLoad =>
                Named(held[t].stamp) = Worker(call[t].model, context[t].backend)
          BY <1>b, <5>2 DEF Named, StampOf, Worker, Whole
        <5> QED
          BY <1>a, <2>2, <3>4, <4>1, <4>3, <5>1, <5>3 DEF WorkInv, ThreadInv, BlobInv
      <4> QED
        BY <4>2, <4>3
    <3>9. ContextInv(t)' /\ Running(t)'
      BY <1>a, <2>2, <3>4 DEF ContextInv, Running, ThreadInv
    <3> QED
      BY <1>a, <2>2, <3>3, <3>4, <3>5, <3>7, <3>8, <3>9, InsideFacts DEF TypeOK
  <2> QED
    BY <1>1, <2>1, <2>2 DEF VerifyStamps
<1>2. CASE Replay(t)
  <2>1. CASE Fail(t, "OTHER")
    BY <1>a, <2>1, FailFacts
  <2>2. CASE /\ DigestMatches(t) /\ call' = [call EXCEPT ![t].at = "work"]
             /\ UNCHANGED <<disk, context, result, held>>
    <3>1. call[t].at = "replay" /\ call[t].stage = "CODES" /\ held[t].kind = "lm"
      BY <1>2, <1>a DEF Replay, ThreadInv, ModelInv
    <3>2. /\ call' \in [Threads -> Calls] /\ call'[t] = [call[t] EXCEPT !.at = "work"]
          /\ \A u \in Threads \ {t} : call'[u] = call[u]
      BY <1>a, <2>2 DEF TypeOK, Calls
    <3>3. /\ call'[t].stage = call[t].stage /\ call'[t].model = call[t].model
          /\ call'[t].at = "work" /\ call'[t].vae = call[t].vae
          /\ call'[t].done = call[t].done /\ call'[t].used = call[t].used
      BY <1>a, <3>2 DEF Calls
    <3>4. Verified(t, call[t].vae)'
      <4>1. Verified(t, call[t].vae)
        BY <1>a, <3>1 DEF ThreadInv, ModelInv
      <4> QED
        BY <2>2, <3>3, <4>1 DEF Verified, StampOf, DecoderDigest, Resuming
    <3>5. StartInv(t)' /\ ModelInv(t)'
      BY <1>b, <3>3, <3>4 DEF StartInv, ModelInv
    <3>6. held[t].digest = {Worker(call[t].model, context[t].backend)}
      BY <2>2 DEF DigestMatches, LogitsOf
    <3>7. call[t].done = held[t].done /\ call[t].used = held[t].used
      BY <1>a, <3>1 DEF ThreadInv, StartInv, Resuming
    <3>8. WorkInv(t)'
      BY <1>a, <2>2, <3>1, <3>3, <3>6, <3>7 DEF WorkInv, ThreadInv, BlobInv
    <3>9. ContextInv(t)' /\ Running(t)'
      BY <1>a, <2>2, <3>3 DEF ContextInv, Running, ThreadInv
    <3> QED
      BY <1>a, <2>2, <3>2, <3>3, <3>5, <3>8, <3>9, InsideFacts DEF TypeOK
  <2> QED
    BY <1>2, <2>1, <2>2 DEF Replay
<1>3. CASE Work(t)
  <2> DEFINE worker == Worker(call[t].model, context[t].backend)
  <2>1. /\ call[t].at = "work" /\ call[t].done < Units
        /\ call' = [call EXCEPT ![t].done = @ + 1, ![t].used = @ \cup {worker}]
        /\ UNCHANGED <<disk, context, result, held>>
    BY <1>3 DEF Work
  <2>2. worker \in Workers /\ call[t].done + 1 \in 0 .. Units
    BY <1>a, <1>b, <2>1, Constants DEF Calls
  <2> HIDE DEF worker
  <2>3. /\ call' \in [Threads -> Calls]
        /\ call'[t] = [call[t] EXCEPT !.done = @ + 1, !.used = @ \cup {worker}]
        /\ \A u \in Threads \ {t} : call'[u] = call[u]
    BY <1>a, <2>1, <2>2 DEF TypeOK, Calls
  <2>4. /\ call'[t].stage = call[t].stage /\ call'[t].model = call[t].model
        /\ call'[t].at = "work" /\ call'[t].vae = call[t].vae
        /\ call'[t].used = call[t].used \cup {worker}
    BY <1>a, <2>1, <2>3 DEF Calls
  <2>5. Verified(t, call[t].vae)'
    <3>1. Verified(t, call[t].vae)
      BY <1>a, <2>1 DEF ThreadInv, ModelInv
    <3> QED
      BY <2>1, <2>4, <3>1 DEF Verified, StampOf, DecoderDigest, Resuming
  <2>6. StartInv(t)' /\ ModelInv(t)'
    BY <1>b, <2>4, <2>5 DEF StartInv, ModelInv
  <2>7. WorkInv(t)'
    BY <1>a, <2>1, <2>4 DEF WorkInv, ThreadInv, worker
  <2>8. ContextInv(t)' /\ Running(t)'
    BY <1>a, <2>1, <2>4 DEF ContextInv, Running, ThreadInv
  <2> QED
    BY <1>a, <2>1, <2>3, <2>4, <2>6, <2>7, <2>8, InsideFacts DEF TypeOK
<1> QED
  BY <1>1, <1>2, <1>3

(* What a stage returns when it is asked to stop, or is done, is stamped   *)
(* with what computed it.                                                  *)
LEMMA ReturnedFacts ==
  ASSUME EngineAssumption, IInv, NEW t \in Threads,
         Pause(t) \/ Complete(t) \/ Breaks(t)
  PROVE  TypeOK' /\ ThreadInv(t)' /\ Alone(t)
<1>a. /\ TypeOK /\ ThreadInv(t) /\ context[t] \in Contexts /\ call[t] \in Calls
      /\ Running(t) /\ context[t].open /\ context[t].audio = NoAudio
      /\ call[t].stage \in Stages /\ held[t] \in Blobs
      /\ context[t].backend \in Backends
  <2>1. Running(t)
    BY DEF Pause, Complete, Breaks, Running
  <2> QED
    BY <2>1 DEF IInv, TypeOK, ThreadInv, CallInv
<1>b. call[t].used \in SUBSET Workers /\ call[t].done \in 0 .. Units
  BY <1>a DEF Calls
<1> DEFINE worker == Worker(call[t].model, context[t].backend)
           stamp == StampOf(call[t].model, context[t].backend)
<1>c. call[t].at \in {"replay", "work"} =>
        /\ worker \in Workers /\ stamp \in Stamps
        /\ ~ReplaceDuringLoad => Named(stamp) = worker
  <2> SUFFICES ASSUME call[t].at \in {"replay", "work"}
               PROVE  /\ worker \in Workers /\ stamp \in Stamps
                      /\ ~ReplaceDuringLoad => Named(stamp) = worker
    OBVIOUS
  <2>1. Whole(call[t].model)
    BY <1>a DEF ThreadInv, ModelInv
  <2> QED
    BY <1>a, <2>1 DEF Whole, Worker, Workers, StampOf, Stamps, Named
<1>1. CASE Pause(t)
  <2>1. PausedBlob(t) \in Blobs
    BY <1>1, PausedBlobType
  <2>2. /\ Return(t, "PAUSED", "CANCEL", PausedBlob(t)) /\ UNCHANGED <<disk, context, held>>
        /\ call[t].at \in {"work", "replay", "boundary"}
    BY <1>1 DEF Pause
  <2>3. BlobInv(PausedBlob(t))
    <3>1. CASE call[t].stage = "CODES" /\ call[t].at = "replay"
      <4>1. PausedBlob(t) = [held[t] EXCEPT !.stamp = stamp] /\ held[t].kind = "lm"
        BY <1>a, <3>1 DEF PausedBlob, ThreadInv, ModelInv
      <4>2. /\ PausedBlob(t).kind = "lm" /\ PausedBlob(t).used = held[t].used
            /\ PausedBlob(t).digest = held[t].digest /\ PausedBlob(t).done = held[t].done
        BY <1>a, <4>1 DEF Blobs
      <4> QED
        BY <1>a, <4>1, <4>2 DEF BlobInv, ThreadInv
    <3>2. CASE call[t].stage = "CODES" /\ call[t].at = "work"
      <4>1. PausedBlob(t) = Blob("lm", call[t].done, call[t].used, stamp, None, {worker})
        BY <3>2 DEF PausedBlob, LogitsOf
      <4>2. call[t].used \subseteq {worker} /\ (call[t].done > 0 => call[t].used # {})
        BY <1>a, <3>2 DEF ThreadInv, WorkInv
      <4> QED
        BY <1>c, <3>2, <4>1, <4>2 DEF BlobInv, Blob
    <3>3. CASE call[t].stage = "DIFFUSE" /\ call[t].at = "work"
      <4>1. PausedBlob(t) = Blob("flow", call[t].done, call[t].used, stamp, call[t].vae, {})
        BY <3>3 DEF PausedBlob
      <4>2. /\ ~ReplaceDuringLoad => call[t].used \subseteq {worker}
            /\ call[t].done > 0 => call[t].used # {}
        BY <1>a, <3>3 DEF ThreadInv, WorkInv
      <4> QED
        BY <1>c, <3>3, <4>1, <4>2 DEF BlobInv, Blob
    <3>4. CASE call[t].stage = "DECODE"
      BY <3>4, EmptyBlobs DEF PausedBlob
    <3> QED
      BY <1>a, <2>2, <3>1, <3>2, <3>3, <3>4 DEF Stages, ThreadInv, ModelInv
  <2> QED
    BY <1>a, <2>1, <2>2, <2>3, EndFacts DEF ContextInv, ThreadInv, TypeOK
<1>2. CASE Complete(t)
  <2>a. /\ call[t].at = "work" /\ call[t].done = Units /\ UNCHANGED <<disk, held>>
        /\ Units > 0 /\ call[t].used # {}
        /\ call[t].stage # "DIFFUSE" \/ ~ReplaceDuringLoad => call[t].used \subseteq {worker}
    BY <1>2, <1>a, Constants DEF Complete, ThreadInv, WorkInv
  <2>1. CASE call[t].stage = "CODES"
    <3> DEFINE blob == Blob("codes", 0, call[t].used, NoStamp, None, {})
    <3>1. Return(t, "DONE", "OK", blob) /\ UNCHANGED context
      BY <1>2, <2>1 DEF Complete
    <3>2. blob \in Blobs
      BY <1>b, Constants DEF Blob, Blobs, Kinds
    <3>3. blob.kind = "codes" /\ blob.used = call[t].used
      BY DEF Blob
    <3> HIDE DEF blob
    <3>4. BlobInv(blob)
      BY <1>c, <2>a, <2>1, <3>3 DEF BlobInv
    <3> QED
      BY <1>a, <2>a, <3>1, <3>2, <3>3, <3>4, EndFacts DEF ContextInv, ThreadInv, TypeOK
  <2>2. CASE call[t].stage = "DIFFUSE"
    <3> DEFINE blob == Blob("latent", Units, call[t].used, stamp, call[t].vae, {})
    <3>1. Return(t, "DONE", "OK", blob) /\ UNCHANGED context
      BY <1>2, <2>2 DEF Complete
    <3>2. blob \in Blobs
      BY <1>a, <1>b, <1>c, <2>a, Constants DEF Blob, Blobs, Kinds, Calls
    <3>3. /\ blob.kind = "latent" /\ blob.used = call[t].used /\ blob.stamp = stamp
          /\ blob.done = Units
      BY DEF Blob
    <3> HIDE DEF blob
    <3>4. BlobInv(blob)
      BY <1>c, <2>a, <2>2, <3>3 DEF BlobInv
    <3> QED
      BY <1>a, <2>a, <3>1, <3>2, <3>3, <3>4, EndFacts DEF ContextInv, ThreadInv, TypeOK
  <2>3. CASE call[t].stage = "DECODE"
    <3> DEFINE audio == [windows |-> held[t].used, flow |-> held[t].stamp,
                         samples |-> call[t].used, vae |-> held[t].vae]
    <3>1. /\ Return(t, "DONE", "OK", NoBlob)
          /\ context' = [context EXCEPT ![t].audio = audio]
      BY <1>2, <2>3 DEF Complete
    <3>2. audio \in Audios
      BY <1>a, <1>b DEF Audios, Blobs
    <3>3. /\ audio.windows = held[t].used /\ audio.flow = held[t].stamp
          /\ audio.samples = call[t].used /\ audio.vae = held[t].vae
      OBVIOUS
    <3> HIDE DEF audio
    <3>4. /\ context' \in [Threads -> Contexts]
          /\ \A u \in Threads \ {t} : context'[u] = context[u]
          /\ context'[t].audio = audio /\ context'[t].keep = context[t].keep
          /\ context'[t].resident = context[t].resident
          /\ context'[t].backend = context[t].backend
      BY <1>a, <3>1, <3>2 DEF TypeOK, Contexts
    <3>5. ~ReplaceDuringLoad => audio.windows = {Named(audio.flow)}
      <4>1. held[t].kind = "latent"
        BY <1>a, <2>3 DEF ThreadInv, CallInv, Readable, Resuming
      <4>2. /\ held[t].used # {}
            /\ ~ReplaceDuringLoad => held[t].used \subseteq {Named(held[t].stamp)}
        BY <1>a, <4>1 DEF ThreadInv, BlobInv
      <4> QED
        BY <3>3, <4>2
    <3>6. ~ReplaceDuringLoad => {w.weights : w \in audio.samples} = {audio.vae}
      <4>1. held[t].vae = call[t].model.stamp
        BY <1>a, <2>a, <2>3 DEF ThreadInv, ModelInv, Verified, DecoderDigest
      <4>2. call[t].used = {worker}
        BY <2>a, <2>3
      <4>3. worker.weights = call[t].model.weights
        BY DEF Worker
      <4>4. ~ReplaceDuringLoad => call[t].model.weights = call[t].model.stamp
        BY <1>a, <2>a DEF ThreadInv, ModelInv, Whole
      <4> HIDE DEF worker
      <4> QED
        BY <3>3, <4>1, <4>2, <4>3, <4>4
    <3>7. ContextInv(t)'
      BY <1>a, <3>4, <3>5, <3>6 DEF ContextInv, ThreadInv
    <3>8. NoBlob.kind = "none" /\ NoBlob \in Blobs /\ BlobInv(NoBlob)
      BY Constants, EmptyBlobs DEF NoBlob, Blob
    <3> QED
      BY <1>a, <2>a, <3>1, <3>4, <3>7, <3>8, EndFacts
  <2> QED
    BY <1>a, <2>1, <2>2, <2>3 DEF Stages
<1>3. CASE Breaks(t)
  BY <1>3, <1>a, FailFacts DEF Breaks
<1> QED
  BY <1>1, <1>2, <1>3

-----------------------------------------------------------------------------
(* Threads that do not move stay as they are.                              *)
LEMMA OthersKeep ==
  ASSUME IInv, NEW t \in Threads, Alone(t), NEW u \in Threads \ {t}
  PROVE  ThreadInv(u)'
<1>1. /\ ThreadInv(u) /\ disk' = disk /\ context'[u] = context[u] /\ call'[u] = call[u]
      /\ result'[u] = result[u] /\ held'[u] = held[u]
  BY DEF IInv, Alone
<1>2. BlobInv(held'[u]) /\ BlobInv(result'[u].blob)
  BY <1>1 DEF ThreadInv
<1>3. StartInv(u)'
  BY <1>1 DEF ThreadInv, StartInv
<1>4. ModelInv(u)'
  <2>1. Verified(u, call[u].vae) => Verified(u, call[u].vae)'
    BY <1>1 DEF Verified
  <2> QED
    BY <1>1, <2>1 DEF ThreadInv, ModelInv
<1>5. WorkInv(u)' /\ CallInv(u)'
  BY <1>1 DEF ThreadInv, WorkInv, CallInv, Running
<1>6. ContextInv(u)' /\ ResultInv(u)'
  BY <1>1 DEF ThreadInv, ContextInv, ResultInv
<1> QED
  BY <1>2, <1>3, <1>4, <1>5, <1>6 DEF ThreadInv

(* A file replaced between loads is nobody's model yet.                    *)
LEMMA ReplaceFacts ==
  ASSUME IInv, NEW role \in Roles, NEW version \in Versions, Replace(role, version)
  PROVE  IInv'
<1>1. /\ disk' \in [Roles -> Versions] /\ UNCHANGED <<context, call, result, held>>
      /\ ReplaceDuringLoad \/ \A t \in Threads : call[t].at # "payload"
  BY DEF Replace, IInv, TypeOK
<1>2. TypeOK'
  BY <1>1 DEF IInv, TypeOK
<1>3. ASSUME NEW t \in Threads PROVE ThreadInv(t)'
  <2>1. ThreadInv(t)
    BY DEF IInv
  <2>2. BlobInv(held'[t]) /\ BlobInv(result'[t].blob) /\ StartInv(t)' /\ WorkInv(t)'
    BY <1>1, <2>1 DEF ThreadInv, StartInv, WorkInv
  <2>3. ModelInv(t)'
    <3>1. Verified(t, call[t].vae) => Verified(t, call[t].vae)'
      BY <1>1 DEF Verified
    <3> QED
      BY <1>1, <2>1, <3>1 DEF ThreadInv, ModelInv
  <2>4. CallInv(t)' /\ ContextInv(t)' /\ ResultInv(t)'
    BY <1>1, <2>1 DEF ThreadInv, CallInv, Running, ContextInv, ResultInv
  <2> QED
    BY <2>2, <2>3, <2>4 DEF ThreadInv
<1> QED
  BY <1>2, <1>3 DEF IInv

(* Every step keeps the invariant.                                         *)
LEMMA NextIInv == EngineAssumption /\ IInv /\ [Next]_vars => IInv'
<1> SUFFICES ASSUME EngineAssumption, IInv, [Next]_vars PROVE IInv'
  OBVIOUS
<1>1. ASSUME NEW t \in Threads, Host(t) \/ Engine(t) PROVE IInv'
  <2>1. TypeOK' /\ ThreadInv(t)' /\ Alone(t)
    BY <1>1, HostFacts, RunStageFacts, LoadFacts, CheckFacts, ReturnedFacts DEF Host, Engine
  <2> QED
    BY <2>1, OthersKeep DEF IInv
<1>2. CASE UNCHANGED vars
  <2>1. TypeOK'
    BY <1>2 DEF IInv, TypeOK, vars
  <2>2. ASSUME NEW t \in Threads PROVE ThreadInv(t)'
    <3>1. ThreadInv(t) /\ UNCHANGED <<disk, context, call, result, held>>
      BY <1>2 DEF IInv, vars
    <3>2. Verified(t, call[t].vae) => Verified(t, call[t].vae)'
      BY <3>1 DEF Verified
    <3> QED
      BY <3>1, <3>2
         DEF ThreadInv, StartInv, ModelInv, WorkInv, CallInv, Running, ContextInv, ResultInv
  <2> QED
    BY <2>1, <2>2 DEF IInv
<1> QED
  BY <1>1, <1>2, ReplaceFacts DEF Next

(* The invariant holds in every state of a run.                            *)
LEMMA Invariant == EngineAssumption => (Spec => []IInv)
<1> SUFFICES ASSUME EngineAssumption PROVE Spec => []IInv
  OBVIOUS
<1>1. Init => IInv
  BY InitIInv
<1>2. IInv /\ [Next]_vars => IInv'
  BY NextIInv
<1> QED
  BY <1>1, <1>2, PTL DEF Spec

-----------------------------------------------------------------------------
(* Every variable has its type.                                            *)
THEOREM TypeCorrect == EngineAssumption => (Spec => []TypeOK)
<1> SUFFICES ASSUME EngineAssumption PROVE Spec => []TypeOK
  OBVIOUS
<1>1. IInv => TypeOK
  BY DEF IInv
<1> QED
  BY <1>1, Invariant, PTL

(* The tokens of a song come from one model on one backend, also when a    *)
(* loader saw two versions of its file (the logits digest); and where no   *)
(* file changes under a loader, finished audio was computed by the Flow    *)
(* and VAE artifacts it is stamped with (the stamps of cantor-abi.cpp).    *)
THEOREM SubstitutionsAreNoticed == EngineAssumption => (Spec => []SubstitutionIsNoticed)
<1> SUFFICES ASSUME EngineAssumption PROVE Spec => []SubstitutionIsNoticed
  OBVIOUS
<1>1. IInv => SubstitutionIsNoticed
  <2> SUFFICES ASSUME IInv PROVE SubstitutionIsNoticed
    OBVIOUS
  <2>1. ASSUME NEW t \in Threads, NEW blob \in {held[t], result[t].blob},
               blob.kind \in {"lm", "codes"}
        PROVE  Cardinality(blob.used) <= 1
    <3>1. BlobInv(blob)
      BY DEF IInv, ThreadInv
    <3>2. PICK w \in Workers : blob.used \subseteq {w}
      BY <2>1, <3>1 DEF BlobInv
    <3>3. blob.used = {} \/ blob.used = {w}
      BY <3>2
    <3>4. Cardinality({}) = 0 /\ Cardinality({w}) = 1
      BY FS_EmptySet, FS_Singleton
    <3> QED
      BY <3>3, <3>4
  <2>2. ~ReplaceDuringLoad => SubstitutionFailsLoudly
    BY DEF IInv, ThreadInv, ContextInv, SubstitutionFailsLoudly, Named
  <2> QED
    BY <2>1, <2>2 DEF SubstitutionIsNoticed, TokensOfOneModel
<1> QED
  BY <1>1, Invariant, PTL

(* A model a context keeps has both its digest and its weights, and is     *)
(* kept because the host asked for it (load_resident_model).               *)
THEOREM ResidentModelsAreWhole == EngineAssumption => (Spec => []ResidentIsWhole)
<1> SUFFICES ASSUME EngineAssumption PROVE Spec => []ResidentIsWhole
  OBVIOUS
<1>1. IInv => ResidentIsWhole
  <2> SUFFICES ASSUME IInv, NEW t \in Threads, NEW r \in Roles,
                      context[t].resident[r] # NoModel
               PROVE  context[t].keep /\ context[t].resident[r].weights # None
    BY DEF ResidentIsWhole, IInv
  <2>1. context[t].keep /\ Whole(context[t].resident[r])
    BY DEF IInv, ThreadInv, ContextInv
  <2> QED
    BY <2>1, Constants DEF Whole
<1> QED
  BY <1>1, Invariant, PTL

(* Status, blob, audio and error that a thread finds are those of its own  *)
(* last call (run_stage, the thread-local error).                          *)
THEOREM OutputsMatchStatus == EngineAssumption => (Spec => []OutputMatchesStatus)
<1> SUFFICES ASSUME EngineAssumption PROVE Spec => []OutputMatchesStatus
  OBVIOUS
<1>1. IInv => OutputMatchesStatus
  BY DEF IInv, ThreadInv, ResultInv, OutputMatchesStatus
<1> QED
  BY <1>1, Invariant, PTL
=============================================================================
