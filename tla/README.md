# LeVo2.cpp: TLA+ models and proofs

LeVo2.cpp turns lyrics and a style description into 48 kHz stereo audio in
three stages:

    request --CODES--> [3,T] tokens --DIFFUSE--> latent windows --DECODE--> WAV
             LeLM, K/V               Flow, Euler                 VAE, crossfade

A song takes minutes, so every stage can be cancelled and a host can resume it
from an opaque blob: `LEVOLM02` (paused CODES), `LEVOFL02` (paused DIFFUSE) and
`LEVOLT02` (the completed DIFFUSE boundary, DECODE's input). The promise that
matters is that none of this can be heard: *a song paused, killed, replayed and
resumed any number of times is the song of one uninterrupted run, or the run is
rejected*. This directory states that promise for the code in `src/`, checks it
on small instances with TLC, and proves it for every instance with TLAPS as far
as it is a safety property. Around that core it models the file and document
formats, the K/V session, the staged engine with its resident models, the GGUF
artifacts between quantizer and loaders, and the tools that write, watch and
publish files.

Contents: [Inventory](#inventory) · [Modules](#modules) ·
[Runs](#runs-and-bounds) · [Fairness](#fairness) · [Proofs](#proofs) ·
[Findings](#findings) · [Not modelled](#not-modelled) · [Plan](#plan)

## Inventory

| component | state | operations | what makes it correct |
|---|---|---|---|
| CODES controller, `src/levo-generator.cpp` | delayed sequence, current logits, EOS tracker, sampler | generate, pause, replay, resume | a resumed run is the uninterrupted one; the renderer takes its results |
| sampler, EOS tracker, `src/levo-sampling.cpp` | engine seed, draw count; ended streams, first end | sample, restore, update, trim | the cursor after `restore` is the cursor at the pause |
| delayed pattern, `src/levo-pattern.cpp` | a layout | build, revert, valid layout | revert inverts build, also of a prefix |
| K/V sessions, `src/levo-kv.cpp` | cached rows, absolute position, capacity | prefill, decode, reset | one row per sequence step in both branches; a failed graph changes nothing |
| DIFFUSE renderer, `src/levo-flow-renderer.cpp` | completed windows, Euler state, solver checkpoint | render, pause, resume | each update once, in order, from the right context |
| window schedule, assembly, `src/levo-renderer-pattern.cpp` | schedule, audio buffer | schedule, crossfade, crop | windows cover the song; every sample is of its moment, gain one |
| staged C ABI, `src/cantor-abi.cpp` | resident models, last audio, thread-local error | load, run_stage, audio, free | a blob resumes only where it was written; audio belongs to the last DECODE |
| checkpoint envelope, `src/levo-checkpoint.cpp` | none | encode, decode | decode inverts encode, and refuses everything else |
| request documents, `src/levo-engine-request.cpp` | none | parse, serialize, codes | canonical form is a fixed point; each stage reads what the last one wrote |
| resident models, `src/levo-resident-model.h` | path, device, backend, weights | load or reuse | a failed load publishes nothing; weights die before their backend |
| VAE decoder, `src/levo-vae.cpp` | abort hook of the backend | decode | a stop is observed once and the hook is always removed |
| artifacts, `src/levo-token-io.cpp`, `src/levo-render.cpp` | files and temporaries | write, commit, clean up | the pair of files describes one result |
| `tools/levo-cantor.cpp` | stage, blob in memory, checkpoint file | stage loop, checkpoint, signals | the checkpoint is never torn, and resuming costs no progress; exit 130 means saved |
| `tools/levo-progress.h` | interruption flag, last event, heartbeat thread | update, heartbeat, stop | bounded silence, no event after complete |
| conditioner, `src/levo-conditioner.cpp` | none | prepare both branches | the columns of branches and towers agree; a word keeps its section |
| model loaders, `levo-model.cpp`, `levo-flow-model.cpp`, `levo-vae-model.cpp` | immutable weights | load | what loads computes; nothing altered loads |
| `tools/levo-quantize.cpp`, `src/levo-quantization.h` | output, sidecars, their `.partial`s | plan, write, install, describe | what it writes loads; an installed file is whole and stays |
| `tools/levo-render.cpp` with the blocking entry of `src/levo-render.cpp` | the stage, the one loaded model | render, cancel | one model in memory; a signal is prompt; the exit status is true |
| `tools/upload_ckpts.py` | bucket, manifest, lock | publish | no key is ever reused; the manifest is true; a release can be published again |
| LM graph, Flow network, tokenizer | immutable weights | one pass each | numeric, string processing |

How they interact: `levo-cantor` drives `cantor_engine_run_stage`, one thread,
one stage at a time. A stage calls the host back at its polls (`should_cancel`)
and progress reports. CODES keeps two K/V sessions in step (conditional and
null branch); DIFFUSE asks conditioning and the estimator for each update;
DECODE runs the VAE once per window. Concurrency is only in the signal handler
and the heartbeat thread; what is hard is the *order*: pauses at any poll,
replays, second pauses during a replay, process death between any two steps,
checkpoints resumed out of order or on another machine.

The hazards of this code, with the lines where they bite and the properties
that cover them, are listed in `PROJECT.json`.

## Modules

### `DelayedPattern`, `DelayedPatternMC`

The layout algebra of `src/levo-pattern.cpp`: `Layout` is `get_pattern`,
`IsPattern` is `pattern::validate`, `Build` and `Revert` the two scatters with
values, masks and flat indexes, `MaxDelay` and `ValidLayout` their namesakes.
The code's rows become functions on `0 .. n-1`. `DelayedPatternMC` lets the
steps of a built sequence arrive one by one and reverts what has arrived.

### `TokenRules`, `TokenStream`, `TokenController`

`TokenRules` holds what a step of generation obeys: the scatter mask
(`Masked`, `MaskStep`), the EOS tracker (`EosUpdate`, `AllEnded`,
`FirstEndedLength`), the final revert and trim (`FramesOf`).

`TokenStream` is the abstract specification of CODES: a sequence that grows by
one masked triple per step until every stream has ended or the pattern is
exhausted. It knows no pause, no cache, no random cursor, no process.

`TokenController` is `generate_tokens_resumable` and
`run_generation_controller_resumable`:

| action | code |
|---|---|
| `Start` | prefill, decode the all-special BOS row, seed the sampler |
| `Resume` | the same, then enter the replay of a checkpoint's rows |
| `ReplayRow`, `PauseReplay` | the replay loop; its poll returns the checkpoint unchanged |
| `EnterController` | validation of the resume state, `Sampler::restore` |
| `GenerateStep` | one iteration: sample, mask, update EOS, push, advance both K/V branches; the last one reverts and trims |
| `PauseGenerate` | the poll at the top of the loop and the pause state |
| `Abort` | the process dies or any call throws |

Logits and samples are an oracle. The code is deterministic, so the oracle's
answer is a function of the backend's numerics, the rows in the K/V cache, the
token history, the seed and the draw cursor. The history variable `song`
remembers its answers along the one uninterrupted context; in *any other*
context (a cursor off by one, a row missing) the oracle may answer anything.
This makes `ResumeContinuesTheJob` and `ImplementsTokenStream` sensitive to
everything `resume` must restore. A logits digest stands for the backend and
the rows that determine the logits. A masked or ended stream still consumes its
draw, but its sample is discarded and represented by 0.

`FramesAreCodecTokens` says what a completed run returns and, with
`RendererAccepts` (`validate_renderer_tokens`), that the renderer refuses it in
one case only: a stream that ends in the first frame leaves no frames, a result
that `tests/test-generation.cpp:131` expects and no later stage takes
(see [other disagreements](#other-disagreements)).

### `RendererSchedule`, `WindowAssembly`

`RendererSchedule` has the window arithmetic with the four sizes (1000, 750,
250 frames, 1920 samples) as constants, once as `make_renderer_schedule`
computes it and once as `render_resumable` does. `WindowAssembly` adds the
windows one at a time to the audio buffer (crossfade) and to the joined
latents. A sample is the set of window samples it is mixed from, with weights.

### `FlowRenderer`

`run_flow` with `render_resumable` and `solve_flow_euler`. A latent is
represented by its derivation: the integrations of its window and of the
windows it continues, each a sequence of Euler updates labelled with engine and
time index, so a repeated, lost, late or foreign update is visible in the
result. `EnterWindow` is the loop head after its poll, `EulerStep` one update
(the last one also completes the window, and the last window the stage, since
no poll lies between), `PauseAtWindow` and `PauseInEuler` the two polls. An
engine stands for what `validate_flow_stamp` compares.

### `CantorCli`, `CantorCliMC`

`main` of `levo-cantor`. Every system call of `write_checkpoint` is an action;
`view` is what a process reads from a file, `maybe` what may be found after a
power loss (POSIX: data is certain after `fsync`, a rename after the directory
`fsync`). `Kill`, `PowerLoss`, `WriteFails`, `StageFails` and `Signal` may come
anywhere; the user then gives any of the allowed commands.

A blob is its kind and its progress: the steps CODES has sampled, or the windows
DIFFUSE has finished and the Euler updates of the active one. `Outputs` says what
a paused stage returns: its input or something further on, or, stopped at its
first poll (`FirstPoll`), its input without the updates of the active window,
because `render_resumable` polls before it looks at them. `DurableProgress`
compares blobs with this progress and names that exception
([finding 1](#findings) shows it in DIFFUSE itself).

### `UncachedLm`, `KvSession`, `KvSessionMC`

`UncachedLm` is `lm::forward`: two towers over all rows, a hidden value being
what it depends on. `KvSession` is `kv_session`: `Begin` (the checks and the
rows of an append), one `RunLayer` per layer (write the cache at the offset of
the batch, then attend under the mask), `Finish`, `GraphFails`, `Reset`. Rows
of failed or forgotten appends stay in the tensors. `ImplementsUncachedLm` is
the refinement: what a session answers is what the uncached model answers on
everything appended since the last reset.

### `CantorEngine`, `CantorEngineMC`

Contexts of the C ABI with their resident models, `run_stage` for the three
stages (`RunStage`, `CheckBoundary`, `ReuseResident` or `LoadDigest` and
`LoadPayload`, `VerifyStamps`, `Replay`, `Work`, `Pause`, `Complete`, `Breaks`),
the host that keeps and passes blobs, and `Replace`: a file changes on disk. A
loader takes the digest and the payload in two passes, so `stamp` and `weights`
of a model are two values. `CantorEngineMC` checks three settings: one thread
with files that change between loads; the same with files that also change under
a loader, for CODES; and two threads.

### `ModelArtifact`, `ArtifactChain`

`ModelArtifact` has, as operators, the type policy of the quantizer, the
inventories and metadata rules of the three strict loaders, and what each graph
builder requires of a loaded model. `ArtifactChain` converts, quantizes and
alters artifacts in one place. The layers of a tower are alike, so one tensor
stands for all. Allowed: Flow rows wider than the release's that pad to the same
length (the planner takes its shapes from the file). `LoadedComputes` leaves out
Flow in F16, which loads while `levo-flow-estimator.cpp:61` and
`levo-flow-conditioning.cpp:30` refuse it.

### `Quantizer`, `ArtifactPair`, `Publisher`

`Quantizer` is `run` of `levo-quantize` on POSIX names and open files: claim,
metadata, reopen, tensors, install, hash, two sidecars, and `Stop` between any
two of them. Assumed: a user removes files only while no run is active, the
process is killed rather than the power lost, and the source is stable.

`ArtifactPair` is `token_io::write` and `write_render_artifact`, which rename
payload and manifest in opposite orders, with refused renames, failing removals
and kills.

`Publisher` is `upload_ckpts.py --publish`: lock, manifest, HEAD, download,
preflight, PUT, confirmation, record and public check for each component, with
lost replies, bad downloads and crashes. A request reaches the bucket before its
process ends, or never. `write_json` truncates the manifest before it writes it
(`Record`, then `WriteManifest`); the ghost `cut` remembers where a run was killed
in between. `RetryIsWelcome` counts every refusal over what was found, an
unreadable manifest too, and allows that one only where `cut` says so.

### `BlockingRenderer`, `ProgressWriter`

`BlockingRenderer` is `render_tokens_to_audio` under `levo-render`: events,
polls, loads and releases, the loops over windows and Euler steps, decoding with
the abort callback, the files and the exit status. Every window of Flow begins
with a poll and an event with no steps, which polls again (`EnterWindow`); then
come the conditioning graph, which no poll precedes (`Condition`), and for each
step a poll (`Solve`), the graph (`Euler`) and an event. `late` counts the events
and all three kinds of graphs that begin after the signal. Counters start again:
steps with the next window, completed windows with the next stage
(`CountersMonotonic` says so). A `complete` event may be shown although the run
then exits 130 or 1: it precedes the last poll and the writing.

`ProgressWriter` is the class of that name: the reporter measures, then calls
`update`; the heartbeat waits with a timeout that every notification restarts.
Time is counted in ticks.

### `EngineRequest`, `CheckpointEnvelope`, `DigestStream`

`EngineRequest` follows one request through fresh document, canonical form,
paused blob and CODES completion, with aliases, ranges, narrowing to float and
sizes; JSON syntax is abstracted. A completion has any number of frames from
zero. Not protected by the code, and so not claimed: a setting other than the
duration in an edited completion. The engine does not read everything it writes,
and `WrittenIsReadable` names what it does not read: a request whose
`repetition_penalty` narrows to 0 (accepted when fresh, refused when resumed from a
pause before the first sample), a completion without frames, and a document that
exceeds the limit once every setting is spelled out or the codes are added.

`CheckpointEnvelope` has `encode` and the strict `decode` field by field, with
64-bit sums that wrap where the code would let them. An empty section shares its
offset with its neighbour: the overlap test accepts it because the library's
sort keeps up to 16 entries (`InsertionSorted`) in order; no stage saves more than
six. `Damage` changes any field, the count too; `OtherWriter` moves and resizes
sections, leaves them out or repeats one, under a digest that agrees. A blob with no section, which no stage
writes, would send the overlap test past the end of its list
(`levo-checkpoint.cpp:277`); `decode` is then `Undefined`. `DigestStream` is the buffering and
padding of both SHA-256 implementations, with the bit counter wrapping at
`CountRange` (2^64) and all eight octets of the length; the compression function
is the list of blocks it was given.

### `Conditioner`

Token windows, section rows, and the columns of conditional and null branch for
both towers. A column is the table it reads and its row.

### Composite modules: `LayoutsMC`, `FormatsMC`, `FilesMC`, `ToolsMC`

Components without common state that are checked with the same kind of question
share a run: `subject` (in `FormatsMC`, `format`) says whose behaviour it is, the
others rest in an initial state. The invariants of these modules are conjunctions of the named
parts that the component modules define.

### Proof modules

| module | proves about |
|---|---|
| `TokenControllerProofs` | `TokenController`, its rules and its refinement of `TokenStream` |
| `FlowRendererProofs` | `FlowRenderer` |
| `CantorEngineProofs` | `CantorEngine` |
| `CantorCliProofs` | `CantorCli` |
| `FilesProofs` | `Publisher`; `Quantizer`, `ArtifactPair` and `ArtifactChain` as `FilesMC` runs them |
| `ToolsProofs` | `BlockingRenderer`; `ProgressWriter` as `ToolsMC` runs it |
| `FormatsProofs` | `EngineRequest`, `CheckpointEnvelope` and `DigestStream` as `FormatsMC` runs them |
| `LayoutsProofs` | `DelayedPattern`, `WindowAssembly` (with `RendererSchedule`) and `Conditioner` as `LayoutsMC` runs them; `KvSession` and its refinement of `UncachedLm` |

## Runs and bounds

| run | bounds | shows |
|---|---|---|
| `token_controller` | 3 frames, delays 0,1,1, one codec token plus EOS and special, 2 backends, 2 interruptions | `TypeOK`; a resumed run is on the song; checkpoints are accepted; frames hold codec tokens; the renderer takes them unless there are none; the refinement of `TokenStream`; completion |
| `flow_renderer` | 3 windows (one partial), 2 updates each, 2 engines, 3 interruptions | the result is uninterrupted; blobs are accepted; counts are honest; the one place where work is lost; completion |
| `cantor_cli` | README commands, 2 steps of CODES, 2 windows of 2 updates, 3 interruptions | usable checkpoints, pauses saved and durable, no progress lost but at DIFFUSE's first poll, audio in the end |
| `kv_session` | capacity 3, one layer per tower, 2 interchangeable tokens, 1 failed graph, 1 reset | sound rows and positions; the refinement of `UncachedLm` |
| `cantor_engine` | 1 thread, 2 backends, 2 versions of every file, 2 units of work, files changing under loaders for CODES; and 2 threads with 1 of each | no unnoticed substitution; whole models; status, blob, audio and error agree |
| `files` | 2 publishers, 2 components, 2 releases; 3 quantizer runs, 2 tensors; 4 calls of a pair; 4 releases, 2 steps after conversion | immutable keys, true manifests, retries refused over a torn manifest only; whole and matching files; quantizer, loaders and graphs agree |
| `tools` | 3 windows of 3 updates; intervals 0, 1, 3 over 12 ticks | one model, prompt cancellation (one event, one graph), true exit status; current, complete and forward-moving reports |
| `formats` | requests of 3 fields with every value around its range, songs of 0 to 2 frames, a limit of 24 units that long texts or the codes exceed; 3 sections of 0 to 2 bytes, words of 64; messages of up to 132 bytes in pieces of 5 sizes, a counter just wide enough for their bits | settings survive, and what is not read is known; only saved blobs read; digests are SHA-256 |
| `layouts` | providers of depth ≤ 3, delays ≤ 2, flatten ≤ 2, tensors of ≤ 3 frames; window 5, hop 3, overlap 2, sources of 1 to 30 frames; texts of up to 4 tokens | layouts invert; windows join; prefixes align |
| `flow_renderer_counters`, `cantor_cli_separate`, `cantor_engine_substituted` | as above | the three [findings](#findings) |

Why these are enough. The delays 0,1,1 have the shape of the released model's
0,250,250: one leading stream, two that trail it, a masked head and a masked
tail. With one codec token the sampled ids are {token, EOS}: all that the
control tells apart. One seed is enough in the model because a seed is only
compared with itself; the proofs are for any set. Every interruption kind can
follow every other with two of them (pause, then pause during the replay;
pause, die, resume). Window sizes keep `window = hop + overlap`, an overlap of
more than one sample, and sources below, at and beyond each boundary.
`DrawCounts` covers what three heads may consume: the top-1 heads draw too when
they sample, and a degenerate distribution draws nothing. A capacity of 3 rows
holds a prefix and two batches, a batch after a failed one, and an append that
does not fit. Three quantizer runs are one to leave, one to meet the leftovers
and one to meet what that made of them; four calls of a pair likewise. 132 bytes
are two blocks and the boundary cases 55, 56, 63 and 64 of each; the bits of 132
bytes are below 1064, and counting the padding passes it. Prefixes of 4,
3 and 2 columns are shorter than, as long as and longer than the texts.

Bounds in guards: `MaxInterruptions` (pauses, process losses, failures),
`MaxFaults`, `MaxResets`, `MaxCalls`, `MaxSteps`, `MaxTime`, `MaxFields`,
`MaxFrames`, `MaxSections`, `MaxLength`, `MaxBlocks`, `MaxSource`. `CHECK_DEADLOCK FALSE` is
set where a finished job stops; the engine and the publishers must always be
able to go on, and `FilesMC` lets only the other subjects stop.

## Fairness

- CODES, `WF(Work) /\ SF(OwnResume)`: a stage is a single thread that runs to
  its next poll, and a host goes on with the checkpoint of its own backend. The
  second is strong because a host may first try the checkpoint elsewhere, again
  and again, which the digest check rejects.
- DIFFUSE, `WF(OwnWork)`: the same for a host that runs the command again on the job's engine (it may try other engines in between).
- `levo-cantor`, `WF(Work)`: the process runs, and the user repeats the command.

Pauses, failures, signals and crashes have no fairness and are bounded, which is
the liveness claim: *once interruptions stop*, the job completes.

## Proofs

Every property that the passing runs check is a theorem, except those of
liveness ([only model-checked](#only-model-checked)). The theorems
hold for every value of the constants under the assumptions named below.

| theorem | property | hypothesis |
|---|---|---|
| `TypeCorrect`, `ResumedRunContinues`, `CheckpointsAreAccepted`, `ReturnedFramesAreCodecTokens`, `ResumableImplementsStream` | CODES | `RulesAssumption`, `ControllerAssumption` |
| `ResumedRenderIsUninterrupted`, `OwnBlobsAreAccepted`, `CounterAlwaysCounts`, `OnlyOneStepLosesUpdates`, `TypeCorrect` | DIFFUSE | `ScheduleAssumption`, `FlowAssumption` |
| `RowsStaySound`, `SessionImplementsUncachedLm` | K/V session | `KvAssumption` |
| `SubstitutionsAreNoticed`, `ResidentModelsAreWhole`, `OutputsMatchStatus`, `TypeCorrect` | staged engine | `EngineAssumption` |
| `CheckpointsStayUsable`, `WrittenPausesAreDurable` | command line | none |
| `PausesAreSaved`, `ProgressIsDurable` | command line | `OwnFile` |
| `ObjectsAreImmutable`, `SuccessIsWhole`, `ManifestNeverLies`, `RetriesAreWelcome` | publisher | `OneManifest` |
| `InstalledFilesStayWhole`, `QuantizedIsNeverOverwritten` | quantizer | `~Concurrent`, `FilesAssumption` |
| `PairsAlwaysAgree` | pair of files | `FilesAssumption` |
| `ArtifactsAlwaysAgree` | artifacts | `FilesAssumption` |
| `OneModelAlways`, `CancelAlwaysPrompt`, `ExitAlwaysTells` | blocking renderer | `RendererAssumption` |
| `ReportsStayComplete`, `ReportsOnlyMoveForward` | reports of both | `RendererAssumption`, `ToolsAssumption` |
| `RequestsStayMeaningful`, `SavedBlobsAreRead`, `DigestsAreStandard` | formats | `FormatsAssumption` |
| `PatternsAlwaysInvert`, `WindowsAlwaysJoin`, `PrefixesStayAligned` | layouts | `LayoutsAssumption` |

Three hypotheses are not about constants alone. `OwnFile` (a resumed command
reads the file it writes) is what the README's commands do; without it
`PauseIsSaved` is [finding 2](#findings). `OneManifest` and `~Concurrent` exclude
runs that share an output and not a lock; without them the theorems are false,
see [other disagreements](#other-disagreements). `SubstitutionIsNoticed` itself
says which part holds when a file changes under a loader.

### CODES

`TokenControllerProofs` proves, for every number of frames, every sorted delay
vector, every codebook size, any sets of seeds, backends and draw counts, and
any number of interruptions:

- `TypeCorrect`: `Spec => []TypeOK`;
- `ResumedRunContinues`: `Spec => []ResumeContinuesTheJob`;
- `CheckpointsAreAccepted`: `Spec => []CheckpointsResumable`;
- `ResumableImplementsStream`: `Spec => ImplementsTokenStream`;
- `ReturnedFramesAreCodecTokens`: `Spec => []FramesAreCodecTokens`.

The first three follow from `Invariance`, `Spec => []IInv`. `ResumeContinuesTheJob` is not
inductive by itself: that a resumed run is on the song depends on what the
checkpoint says (`CheckpointInv`: a checkpoint is a faithful cut of the song),
on what a replay has rebuilt so far (`ReplayInv`), on the running loop
(`GenerateInv`), and on the song's own recurrence (`SongInv`). The last is
where the argument turns: replaying row `i` through `EosUpdate` gives the
tracker the song had at `i`, so validation passes and sampling continues where
it stopped. The module begins with the lemmas about the layout, the mask, the
tracker and `FramesOf`.

The refinement needs two more facts (`RInv`). The tracker recorded with a note
has ended exactly the streams that hold an EOS so far (`EndsAreTracked`), which
turns the controller's incremental `AllEnded` into the abstract `Complete`. And
a complete song has been returned: a run that repeats the last step of a song,
after the host lost its first answer, then returns what is there already, a
stutter. A loop iteration that writes a new note maps to `Extend`, the first
start to `Begin`, and every other step to a stutter.

For the returned frames, an EOS is only recorded on the diagonal band of its
stream (`RecordedToken`), so an EOS before a frame's step is an EOS of an
earlier frame and would have trimmed it. A frame below the trim is thus an
unmasked sample of a stream still running: a codec token, never the special id.
The trim is zero exactly when a stream ends in its first frame, and then the
renderer refuses the result.

Assumptions: `RulesAssumption` (at least one frame and one code, sorted
delays: what the controller and the provider check) and `ControllerAssumption`
(non-empty sets of seeds and backends, draws per step at most 3).

### DIFFUSE (`FlowRendererProofs`)

For every window geometry the schedule allows, source length, number of updates,
set of engines and number of interruptions: `ResumedRenderIsUninterrupted`,
`OwnBlobsAreAccepted`, `TypeCorrect`, `OnlyOneStepLosesUpdates` and
`CounterAlwaysCounts`, from `InvariantHolds`. The invariant says of every place that holds latents (the
running stage, the paused blob, the result) that window `w` has the derivation
of the uninterrupted run on the job's engine, and that a partly integrated
window is a proper prefix of one. The induction turns on two facts: an Euler
update extends exactly the prefix the count says (`UpdateExtends`), and a blob
of the engine's own making has every property `render_resumable` checks
(`OwnBlob`). It rests on `ScheduleAssumption` and on `None` not being a blob.

`CounterAlwaysCounts` compares the progress count, which the code computes from
the window and the step, with the updates that are really in the latents, which
`UpdatesIn` counts by a fold. The fold of the community modules is a recursive
function over sets of positions that is chosen to satisfy its equation.
`CountedOnce` shows that any two functions that satisfy it agree (a smallest set
on which they differ has a smaller one), so that `n * Steps + k`, which also
satisfies it, is what the fold computes.

### The staged engine (`CantorEngineProofs`)

For any number of threads, backends, file versions and units of work. `BlobInv`
says of any blob, wherever it is, which workers may have computed it: one for
tokens and their logits digest, those its stamp names for windows. `StartInv`,
`ModelInv` and `WorkInv` say what a call works with at each point of
`run_stage`; `ContextInv` that a kept model is `Whole`. The argument for tokens
needs no trust in stamps: what `Replay` compares is the digest of the logits,
which depends on the weights. For windows it does: stamps are compared, so the
theorem holds where a model's weights are those of its stamp, that is, where no
file changes between the two passes of a loader (`ReplaceDuringLoad`).

### The command line (`CantorCliProofs`)

For any set of commands and paths, with signals, kills, power losses and write
errors anywhere. `maybe` is the set of contents that a file may have after a
power loss; `FilesInv` says that for a checkpoint it holds only blobs a stage
can be resumed from, `WriteInv` how far `write_checkpoint` has come, and
`ExitInv` that a status exists only after the process. With `OwnFile`, `OwnInv`
adds that the blob of a resumed process is not behind what would survive in stage,
step, window and update while a stage works on it, and follows it (`Follows`: or
has the same windows without the active one's updates) while it is written: that
makes `DurableProgress` a step property of the invariant. `Outputs` enters through
the fact that a stage returns a blob that follows the one it was given.

### Files (`FilesProofs`)

*Publisher.* For any number of runs, components and releases. The lock makes a
key that was seen empty stay empty until its holder writes it (`UploadInv`,
`EmptyInv`), so no object is ever replaced; that in turn makes what a run has
confirmed (`DoneInv`) and recorded (`KnownInv`) true for ever, and a refusal one
over another release's object. A manifest is torn only while the holder of its
lock writes it, or where a run was killed doing so (`TornInv`), so a run that
takes the lock and finds it torn finds the leftover that `cut` names.
`RetryIsWelcome` is inductive with `EmptyInv` and `TornInv`.

*Quantizer.* For any number of runs and tensors, `Stop` and refused renames
anywhere. `NamesInv` says that a name belongs to a file that some run created
for it, and to no other name; `FreeInv` that what a run found free is free until
it uses it; `WorkInv` that what it has done is in its files. Together they make
the file under a final name one that nobody has open for writing, which is why
`InstalledInv` survives every step and `Kept` holds of every step but the user's
removal.

*Pair.* For any number of calls. `CallInv` relates what a call has committed to
what it holds ready; `SettledInv` is the strengthening of
`OlderSideIsKnown` and `ReturnedPairsMatch` across calls.

*Artifacts.* For any set of releases with an inventory (`FilesAssumption`) and
any number of conversions, quantizations and alterations in one place. The
tables enter through a few lemmas: the inventories (`InventoryFacts`), the file
and base types, which are different for different profiles (`ProfileFacts`),
rows that padding never shortens (`PaddingFacts`), and the number of dimensions
that ggml sees, which is the length of a shape with no trailing 1 (`TightRank`).
`ChainInv` says what the last two steps can have been: the quantizer takes only
what is converted or altered once since, because it refuses its own output
(`WrittenIsNoSource`) and also its output altered in one place
(`AlteredWrittenIsNoSource`: a plain file type would have to be altered in, and
the tensors deny it). The conjuncts of `ArtifactsAgree` then follow one by one:
`WrittenLoads`, `AlteredAreRefused` (of the loaders alone: a change of a tensor
shows against the one shape and type expected, a change of a key against the
others), `NothingHidden` and `LoadedModelsCompute`.

### The tools (`ToolsProofs`)

*Blocking renderer.* For any number of windows and updates. `ResidentInv` ties
the model in memory to the stage. `LateInv` says where the loop can be once an
event or a graph began after the signal: before a poll that comes ahead of the next
event, or the next graph. For the events, `CountInv` has the number of updates
reported so far as a function of window and step, and `EventInv` says that the
event to be reported next is not behind the last (`NotBehind`): by `Rank`, the
order of the stages, and within `generating_latents` by window and step, where the
entry of a window is an event of a later window with no steps.

*Progress writer.* For any interval and however updates, heartbeats, ticks and
the destructor interleave. `OrderInv`: events reach the writer one by one.
`ShownInv`: the last line is of the stage of the last event and not beyond it.
`TimerInv` is what bounds the silence: while work goes on, the heartbeat's wait
ends less than two intervals after the last line (`wake - emitted < 2 *
interval`), although every notification restarts it, because an event that wakes
it is either shown or came within an interval of a line. The stages are those of
`ToolsMC`; `ToolsAssumption` says that intervals are natural numbers of ticks.

### The formats (`FormatsProofs`)

`FormatsAssumption` joins those of the three modules. For requests: natural
limits, a largest float that a float can hold (`MaxFloat % 2 = 0`, since in the
model a float keeps every second number), the temperature's limit not above it,
and 64-bit numbers that hold the defaults. For blobs: at most 16 sections, headers of
every allowed number of sections shorter than the largest blob, and that below the
word in which the code adds. For digests: messages whose bits the counter holds,
`8 * MaxLength < CountRange`, which for 64 bits is 2^61 bytes and the limit of
SHA-256 itself; counting the padding may wrap.

*Requests.* For any number of fields with values on both sides of any limits.
A setting has one or two names in a document; `Canonical`, `First` and `Owner`
are the table that the code spreads over `parse_request_object`, and `OwnersAre`
says that no two settings share a name. `ParseSettled` shows that whatever is
accepted comes out narrowed and within its limits (`Settled`), and
`ParseOfSerialize` that settled settings are read back unchanged from their
canonical form: narrowing twice is narrowing once, and the canonical name is the
one that wins. `RequestInv` carries this over pauses and the completion. What the
engine finds malformed is what `SerializeAccepted` leaves over, a
`repetition_penalty` that narrows to zero, and a completion without frames. What it
finds too large follows from the size of a canonical document, which is the texts
of the fresh request (`TextsSettle`) and one unit per setting (`CanonicalBytes`,
`CompletionSize`). `EditsRefused` goes through the edits of a completion one by one.

*Envelope.* For up to sixteen sections of any size that fit. Encoding lays the
sections out behind each other, so that a section's offset is the length of what
precedes it (`Prefix`), all ranges are in order (`EncodedOrder`) and cutting each
of them out gives back the section (`RoundTrip`). Damage changes the fields and
not the digest, and what `EnvelopeInv` keeps is that they then differ. Another
writer's directory has its own number of sections (`DirectoriesOk`, `RecountedOk`).
For its blobs the question is whether comparing neighbours is enough. `Rank` numbers
the sections in the order of their offsets; `RangesAtRank` shows that the sorted
directory has each of them at its rank, `NextInOrder` that of two sections in
order the earlier has a neighbour that begins no later than the second. So the end
of each is compared with something no later than the begin of every following one
(`NoOverlapAnywhere`), and no byte is in two sections.

*Digest.* For messages of any length the bit counter holds, cut into updates anyhow. `Held` is all that
the object holds, in order: the hashed blocks, the partly filled one and what
the current call has not copied yet. `Copy` leaves it unchanged (`CopyMoves`), and every
other step appends to it. `HeldInv` says that it is the message while feeding;
the message, the end bit and some zeros while padding; and this with the length at
the end. The zeros are the fewest because none before the last ended where the
length goes (`Fits`, `FewZeros`). As every hashed block has 64 bytes and the
total is a multiple of 64, nothing is left in the buffer; the number of blocks
follows from the total.

### The layouts (`LayoutsProofs`)

`LayoutsAssumption` says of the constants what the code checks or fixes: natural
bounds, a window of one hop and one overlap, the overlap no longer than the hop,
at least two samples per frame, and natural prefix lengths.

*Delayed pattern.* For every sorted delay vector, depth, flattened head, empty
steps, number of frames and received prefix. `LayoutHolds` gives the step of
each frame in closed form (`StepOf`): interleaved in the flattened head, slanted
by the delays behind it. `StepOrder` shows that this is later for a later frame
and no earlier for a later codebook. So each frame has exactly one step
(`StepsHolding`), building writes it there, reverting any prefix reads it from
there (`RunReverts`), and the delay that the code measures by searching the
layout is how far the last codebook trails the first (`RunsPast`), which is what
makes the kept part the longest inside the tensor.

*Windows.* For every geometry and source length. `WindowPerHop` and
`SampleCover` put the windows at multiples of the hop, with the padded source
covered to the last sample. `AssemblyInv` has the contents of every sample of
the mix after every window: of one window, or of two in an overlap, with what
weights (`Covered`). `MixCovers` is its step: a window blends into the overlap
of the one before and overwrites what lies behind. Weights are summed by a fold
over a set, which `SumOfOne` and `SumOfTwo` unfold. `LatentInv` says of each
joined latent frame that it is its window's for that moment.

*Conditioning prefix.* For every text and prefix length. The section of a column
is defined in the model by a search for the last boundary before it, in
`WordsKeepTheirSection` by carrying it from word to word; both satisfy one
recurrence, and by the least column where they differ (`CarriedOnce`) they are
equal. The two branches have columns of the same number and place because texts
are cut and padded to the same lengths.

### The K/V session (`LayoutsProofs`)

For any context length, number of layers in each tower, vocabulary, failed
graphs and resets. The refinement maps `Cached`, the rows that the first layer
holds and that count, to the history of `UncachedLm`. Every layer's cell `i` holds
the hidden value that the *uncached* model gives row `i` one layer below
(`CellsInv`), and while a graph runs, the layers it has passed hold it for the
batch too (`GraphInv`). A failed graph may have written any of its rows, all
beyond the rows that count, and the next graph overwrites before it attends
(`AttendFacts`). `Finish` is then one `Append` of the abstract model, and every
step before it a stutter. `KvAssumption` keeps tokens and conditions apart, as
the two kinds of input are in the code.

### Only model-checked

- Liveness: `Completes` of CODES and DIFFUSE, `AudioIsWritten`. Fairness is
  defined by ENABLED, which the installed provers do not handle.
- The finding runs.

## Findings

1. *Counters regress* (`flow_renderer_counters`). A resumed `render_resumable`
   polls before it looks at the saved Euler state. A stop at that poll returns
   the completed windows only, so the active window's updates are lost, while
   `docs/resumability-plan.md:422` says that counters never regress across
   pauses. The result is still right (`ResultIsUninterrupted`), and this is the
   only place where work is lost (`UpdatesLostOnlyBeforeResumedWindow`).
2. *A pause without a checkpoint* (`cantor_cli_separate`). DECODE's pause
   returns 130 and prints that the checkpoint remains, without writing it. With
   `--resume a --checkpoint b` from a completed DIFFUSE boundary nothing is at
   `b`. With the README's commands the property holds.
3. *A substitution nobody notices* (`cantor_engine_substituted`). Flow and VAE
   loaders take the artifact's digest in one pass over its path and the payloads
   in another. A file of the same layout that is put there in between computes
   under the digest of the old one, and every stamp agrees, while
   `docs/quantization-implementation-report.md:91` says that a substitution
   fails loudly. CODES is protected by its logits digest.

### Other disagreements

Statements of the repository that the code does not keep. Each has its
definition in the module named; a configuration of that module with the
definition as its only property shows the behaviour.

| statement | definition | what the code does |
|---|---|---|
| `docs/observability-plan.md:68`: the render manifest is written after the WAV | `ArtifactPair!ManifestAfterWav` | `levo-render.cpp:531` renames the manifest first |
| `docs/observability-plan.md:59`: heartbeats with increasing elapsed time | `ProgressWriter!ElapsedIncreases` | an event measured before a heartbeat may be shown after it, `levo-progress.h:264` |
| `docs/resumability-plan.md:131`: the CODES completion is an input to DIFFUSE | `EngineRequest!CompletionIsInput` | a stream that ends in the first frame leaves `frame_count` 0 (`tests/test-generation.cpp:131`), which `parse_codes` refuses, `levo-engine-request.cpp:501`; `serialize_codes` has no limit of size, its reader has one, `:480` |
| `levo-quantize.cpp:503`: quantized artifacts are never overwritten | `Quantizer!NeverOverwritten` with `Concurrent = TRUE` | the output is looked for once, at the start |
| `upload_ckpts.py:10`: refuses to replace an existing object | `Publisher!NeverReplaced` with `OneManifest = FALSE` | HEAD and PUT are two requests, and only runs with one manifest exclude each other |
| `docs/cloudflare-release-plan.md:71`: an idempotency manifest | `Publisher!ManifestSurvivesCrash` | `write_json` truncates the file before it writes it; a kill in between leaves one that every later run refuses, `upload_ckpts.py:179`, `:219` |
| `levo-model.cpp:391`: six unreachable style rows | `Conditioner!StyleRowsUnreachable` | captions are tokenized with the structure tokens; `[verse]` reads such a row, `[outro-short]` is refused |

## Not modelled

- Tensor arithmetic (LM, Flow and VAE graphs, the velocity network, sampling
  weights, convolutions) appears as oracles of everything it depends on.
- The byte-pair tokenizer, NPY and WAV bytes, JSON syntax and wording, the GGUF
  container: string and byte processing without state that a test reaches.
- Backend selection, argument parsing of the tools, CUDA switches and the entry
  points of `levo.h` that only enumerate.
- Sampling arithmetic: top-k, temperature and repetition window are behind
  `DrawCounts`. (`manual_uniform`, `levo-sampling.cpp:11`, can round to exactly
  1 for the largest 53-bit draw, which its comment excludes.)
- Converters and Python oracles appear as the artifacts they make
  (`ModelArtifact!Converted`); parity tools and vendored code are outside the
  runtime.

`PROJECT.json` lists every component with its status.

## Plan

Done: CODES, DIFFUSE, the command line, the K/V session, the staged engine, the
artifact chain and its tools, the formats and the layouts, with proofs of all
that the runs check but the list under [only model-checked](#only-model-checked).

Not done:

1. `Sampling`: top-k selection, the repetition window and `uniform01`, with the
   draws each case consumes, against the oracle's `DrawCounts`.
2. Composition of `CantorCli` with `CantorEngine`, so that a checkpoint file
   carries stamps and a resumed process may find replaced models.
