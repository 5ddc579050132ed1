--------------------------- MODULE EngineRequest ---------------------------
(***************************************************************************)
(* The request document of the staged engine (levo-engine-request.cpp) and *)
(* its way through the stages of cantor-abi.cpp: parsed by CODES, written  *)
(* in canonical form into checkpoints and into the CODES completion, and   *)
(* parsed again wherever one of those is read.                             *)
(*                                                                         *)
(* A document maps the dotted path of a field to its value.  Numbers are   *)
(* counted in steps of the smallest positive double; a float keeps every   *)
(* second one, so that the smallest double narrows to zero.                *)
(***************************************************************************)
EXTENDS Integers, FiniteSets, Sequences, SequencesExt, Functions

CONSTANTS MaxFields,       (* of a fresh request                           *)
          MaxBytes,        (* k_max_request_bytes                          *)
          MaxFrames,       (* of a completed song                          *)
          CodeBytes,       (* of an audio code                             *)
          MaxTemperature, MaxFloat, MaxU64

(* The largest float is a float, and the settings a request leaves out are *)
(* legal ones.                                                             *)
RequestAssumption ==
  /\ {MaxFields, MaxBytes, MaxFrames, CodeBytes, MaxFloat, MaxU64} \subseteq Nat
  /\ MaxTemperature \in 1 .. MaxFloat
  /\ MaxFloat % 2 = 0 /\ MaxU64 >= 2

VARIABLES doc,      (* the fresh request                                   *)
          phase,    (* where the request is                                *)
          written,  (* the canonical request or the CODES completion       *)
          first,    (* ghost: the settings as CODES first understood them  *)
          read,     (* the settings as last understood                     *)
          edited    (* ghost: whether the completion was changed           *)

vars == <<doc, phase, written, first, read, edited>>

(* ---- JSON values ----------------------------------------------------- *)
Text(bytes) == [type |-> "string", n |-> bytes]
Whole(n) == [type |-> "integer", n |-> n]
Real(n) == [type |-> "real", n |-> n]
Flag(n) == [type |-> "boolean", n |-> n]
Ids(n) == [type |-> "array", n |-> n]
Null == [type |-> "null", n |-> 0]
IsNumber(v) == v.type \in {"integer", "real"}

TextPaths == {"caption", "description", "lyrics"}
DurationPaths == {"duration", "duration_seconds"}
WholePaths == {"top_k_mixed", "top_k_detail", "sampling.top_k_mixed",
  "sampling.top_k_detail", "sampling.repetition_window", "inference_steps",
  "flow.seed", "flow.euler_steps"}
ScalePaths == {"guidance_scale", "flow.cfg_scale"}
FloatPaths == ScalePaths \cup {"cfg_scale", "temperature", "sampling.temperature",
  "sampling.repetition_penalty"}
Paths == TextPaths \cup DurationPaths \cup WholePaths \cup FloatPaths
  \cup {"seed", "sampling.use_sampling", "sampling.ignore_tokens"}

ExactU64(v) == v.type = "integer" /\ v.n \in 0 .. MaxU64

(* What parse_request_object asks of the value at a path.                  *)
WellTyped(path, v) ==
  CASE path \in TextPaths -> v.type = "string"
    [] path \in DurationPaths -> IsNumber(v)
    [] path = "seed" -> v.type = "null" \/ ExactU64(v)
    [] path \in WholePaths -> ExactU64(v)
    [] path = "cfg_scale" -> IsNumber(v) /\ v.n \in -MaxFloat .. MaxFloat
    [] path = "temperature" -> IsNumber(v) /\ v.n \in 1 .. MaxTemperature
    [] path = "sampling.temperature" -> IsNumber(v) /\ v.n \in 0 .. MaxFloat
    [] path = "sampling.repetition_penalty" -> IsNumber(v) /\ v.n \in 1 .. MaxFloat
    [] path \in ScalePaths -> IsNumber(v) /\ v.n \in 0 .. MaxFloat
    [] path = "sampling.use_sampling" -> v.type = "boolean"
    [] path = "sampling.ignore_tokens" -> v.type = "array"
OneRangeOfTemperature(path, v) ==
  WellTyped(IF path = "sampling.temperature" THEN "temperature" ELSE path, v)
Valid(path, v) == WellTyped(path, v)

Accepts(d) ==
  /\ DOMAIN d \subseteq Paths
  /\ \A pair \in {DurationPaths, {"caption", "description"}} : ~(pair \subseteq DOMAIN d)
  /\ {"caption", "description"} \cap DOMAIN d # {}
  /\ \A path \in DOMAIN d : Valid(path, d[path])

(* ---- Settings -------------------------------------------------------- *)
(* The paths that set a field of `request`; a later one overrides.         *)
Sources ==
  [lyrics |-> <<"lyrics">>, description |-> <<"description", "caption">>,
   duration_seconds |-> <<"duration", "duration_seconds">>,
   seed |-> <<"seed">>, cfg_scale |-> <<"cfg_scale">>,
   temperature |-> <<"temperature", "sampling.temperature">>,
   top_k_mixed |-> <<"top_k_mixed", "sampling.top_k_mixed">>,
   top_k_detail |-> <<"top_k_detail", "sampling.top_k_detail">>,
   use_sampling |-> <<"sampling.use_sampling">>,
   repetition_window |-> <<"sampling.repetition_window">>,
   repetition_penalty |-> <<"sampling.repetition_penalty">>,
   ignore_tokens |-> <<"sampling.ignore_tokens">>,
   flow_seed |-> <<"flow.seed">>,
   flow_euler_steps |-> <<"inference_steps", "flow.euler_steps">>,
   flow_cfg_scale |-> <<"guidance_scale", "flow.cfg_scale">>]
Settings == DOMAIN Sources

NoSeed == -1
Default(setting) ==
  CASE setting = "seed" -> NoSeed
    [] setting \in {"lyrics", "flow_seed", "flow_euler_steps", "flow_cfg_scale"} -> 0
    [] OTHER -> 2

(* static_cast<float> of a double.                                         *)
Narrow(n) == 2 * (n \div 2)
Understood(path, v) ==
  IF path \in FloatPaths THEN Narrow(v.n) ELSE IF v = Null THEN NoSeed ELSE v.n

Given(s, d) == {i \in DOMAIN Sources[s] : Sources[s][i] \in DOMAIN d}
parse(d) ==
  [s \in Settings |->
     IF Given(s, d) = {} THEN Default(s)
     ELSE LET path == Sources[s][Max(Given(s, d))] IN Understood(path, d[path])]

(* number: all 17 digits of a double.                                      *)
Shortened(n) == Real(Narrow(n))
Decimal(n) == Real(n)

JsonOf(path, n) ==
  CASE path \in TextPaths -> Text(n)
    [] path \in WholePaths \cup {"seed"} -> Whole(n)
    [] path = "sampling.use_sampling" -> Flag(n)
    [] path = "sampling.ignore_tokens" -> Ids(n)
    [] OTHER -> Decimal(n)

(* serialize: every setting, under its most specific name.                 *)
SerializeNeutral(r) ==
  [path \in {Head(Sources[s]) : s \in Settings} |->
     JsonOf(path, r[CHOOSE s \in Settings : Head(Sources[s]) = path])]
serialize(r) ==
  [path \in {Last(Sources[s]) : s \in Settings} |->
     JsonOf(path, r[CHOOSE s \in Settings : Last(Sources[s]) = path])]

(* A field takes one unit beside its text.                                 *)
TextAt(path, d) == IF path \in DOMAIN d THEN d[path].n ELSE 0
TextBytes(d) == TextAt("caption", d) + TextAt("description", d) + TextAt("lyrics", d)
Bytes(d) == Cardinality(DOMAIN d) + TextBytes(d)

(* ---- The CODES completion -------------------------------------------- *)
Absent == -1
CompletionOf(r, frames) ==
  [request |-> serialize(r), duration |-> r.duration_seconds, frame_count |-> frames,
   codes |-> 3 * frames, tokens |-> "sampled", token_sha256 |-> "sampled"]
IsCompletion(d) == "frame_count" \in DOMAIN d

DurationUnchecked(c) == TRUE
DurationAgrees(c) == c.duration \in {Absent, parse(c.request).duration_seconds}

ReadsCodes(c) ==
  /\ Accepts(c.request) /\ parse(c.request).seed # NoSeed
  /\ DurationAgrees(c)
  /\ c.frame_count # 0 /\ c.codes = 3 * c.frame_count
  /\ c.token_sha256 = c.tokens

CompletionBytes(c) == Bytes(c.request) + CodeBytes * c.codes

-----------------------------------------------------------------------------
Init ==
  /\ doc = <<>> /\ phase = "composing" /\ written = <<>>
  /\ first = <<>> /\ read = <<>> /\ edited = FALSE

(* A host writes a request, one field after the other.                     *)
Offers(path) ==
  {Null} \cup
  CASE path \in TextPaths -> {Text(1), Text(5)}
    [] path \in FloatPaths -> {Real(n) : n \in {-1, 0, 1, MaxTemperature + 1, MaxFloat + 1}}
    [] path \in DurationPaths -> {Real(1), Real(3)}
    [] path = "sampling.use_sampling" -> {Flag(0)}
    [] path = "sampling.ignore_tokens" -> {Ids(0)}
    [] OTHER -> {Whole(0), Whole(MaxU64), Whole(MaxU64 + 1), Real(1)}

Compose ==
  /\ phase = "composing" /\ Cardinality(DOMAIN doc) < MaxFields
  /\ \E path \in (Paths \cup {"other"}) \ DOMAIN doc : \E v \in Offers(path) :
       doc' = [p \in DOMAIN doc \cup {path} |-> IF p = path THEN v ELSE doc[p]]
  /\ UNCHANGED <<phase, written, first, read, edited>>

Goto(next) == phase' = next

(* run_lm with a fresh request: an omitted seed is resolved once.          *)
Codes ==
  /\ phase = "composing"
  /\ IF DOMAIN doc = {} \/ Bytes(doc) > MaxBytes \/ ~Accepts(doc)
     THEN Goto("refused") /\ UNCHANGED <<written, first, read>>
     ELSE /\ \E seed \in IF parse(doc).seed = NoSeed THEN 0 .. MaxU64 ELSE {parse(doc).seed} :
               first' = [parse(doc) EXCEPT !.seed = seed]
          /\ read' = first' /\ written' = serialize(first') /\ Goto("resolved")
  /\ UNCHANGED <<doc, edited>>

(* The first token: the sampler refuses a penalty that is not positive.    *)
Sample ==
  /\ phase = "resolved"
  /\ IF read.repetition_penalty > 0 THEN Goto("CODES") ELSE Goto("failed")
  /\ UNCHANGED <<doc, written, first, read, edited>>

(* A paused stage, or DECODE: the canonical request is parsed again.       *)
Resume ==
  /\ phase \in {"resolved", "CODES", "DIFFUSE"}
  /\ IF Bytes(written) > MaxBytes THEN Goto("too large") /\ UNCHANGED read
     ELSE IF ~Accepts(written) \/ parse(written).seed = NoSeed
     THEN Goto("unreadable") /\ UNCHANGED read
     ELSE read' = parse(written) /\ UNCHANGED phase
  /\ UNCHANGED <<doc, written, first, edited>>

(* CODES is done; a song that ended in its first frame has no frames.      *)
Complete ==
  /\ phase = "CODES" /\ Goto("completed")
  /\ \E frames \in 0 .. MaxFrames : written' = CompletionOf(read, frames)
  /\ UNCHANGED <<doc, first, read, edited>>

(* Somebody edits the completion, which is plain JSON, where its reader    *)
(* claims to notice; settings other than the duration are not protected.   *)
Edit ==
  /\ phase = "completed" /\ ~edited /\ edited' = TRUE
  /\ \E c \in {[written EXCEPT !.duration = @ + 1], [written EXCEPT !.duration = Absent],
               [written EXCEPT !.tokens = "edited"], [written EXCEPT !.codes = @ + 1],
               [written EXCEPT !.frame_count = 0],
               [written EXCEPT !.request = serialize([read EXCEPT !.duration_seconds = @ + 1])],
               [written EXCEPT !.request = [p \in DOMAIN @ \ {"seed"} |-> @[p]]]} :
       written' = c
  /\ UNCHANGED <<doc, phase, first, read>>

(* run_flow with a completion: parse_codes, then serialize.                *)
Diffuse ==
  /\ phase = "completed"
  /\ IF CompletionBytes(written) > MaxBytes
     THEN Goto("too large") /\ UNCHANGED <<written, read>>
     ELSE IF ~ReadsCodes(written) THEN Goto("unreadable") /\ UNCHANGED <<written, read>>
     ELSE /\ read' = parse(written.request) /\ written' = serialize(read')
          /\ Goto("DIFFUSE")
  /\ UNCHANGED <<doc, first, edited>>

Next == Compose \/ Codes \/ Sample \/ Resume \/ Complete \/ Edit \/ Diffuse

Spec == Init /\ [][Next]_vars

-----------------------------------------------------------------------------
(* No setting changes on its way: flat names, nested names, narrowing and  *)
(* the resolved seed come back from every document as CODES first took     *)
(* them, however often the run was paused.                                 *)
SettingsSurvive ==
  ~edited /\ phase \notin {"composing", "refused"} => read = first

(* Which documents of its own the engine does not read.  A later stage     *)
(* finds one malformed only if it was edited, if the sampler would have    *)
(* refused the request at the first token, or if CODES completed without a *)
(* single frame; and finds one too large only if the user's own texts and  *)
(* the codes, with every setting spelled out, exceed the limit.            *)
CanonicalPaths == {Last(Sources[s]) : s \in Settings}
CodesOf(d) == IF IsCompletion(d) THEN d.codes ELSE 0

WrittenIsReadable ==
  /\ phase = "unreadable" =>
       \/ edited \/ first.repetition_penalty <= 0
       \/ IsCompletion(written) /\ written.frame_count = 0
  /\ phase = "too large" =>
       \/ edited
       \/ Cardinality(CanonicalPaths) + TextBytes(doc) + CodeBytes * CodesOf(written) > MaxBytes

(* An edited completion does not reach the renderer, except one that only  *)
(* lacks the promoted duration, as old ones do.                            *)
EditedIsRefused == edited /\ phase = "DIFFUSE" => read = first

(* What CODES returns when it is done "is a self-contained, inspectable    *)
(* input to DIFFUSE" (docs/resumability-plan.md).  The code does not keep  *)
(* this: the reader refuses a completion without frames, and one that is   *)
(* larger than its limit, and the writer knows of neither.                 *)
CompletionIsInput ==
  phase \in {"unreadable", "too large"} /\ ~edited => ~IsCompletion(written)
=============================================================================
