--------------------------- MODULE CantorCliProofs --------------------------
(***************************************************************************)
(* For any set of command lines, any paths and any number of signals,      *)
(* kills, power losses and write errors: a checkpoint file is always a     *)
(* whole blob that its stage takes, and an exit status of 130 after a      *)
(* write is durable.  When --resume and --checkpoint name one file, every  *)
(* such exit leaves the state it stopped in, and a resumed run loses       *)
(* nothing of what would survive a power loss but the Euler updates of an  *)
(* active window.                                                          *)
(***************************************************************************)
EXTENDS CantorCli, TLAPS

Running == {"stage", "create", "write", "sync", "rename", "syncdir", "audio"}
Writing == {"create", "write", "sync", "rename", "syncdir"}

(* What main ever installs under a checkpoint's name: a CODES blob is not  *)
(* among it, and could not be resumed.                                     *)
Saved == {x \in Contents : x.kind \in {"absent", "lm", "flow", "latent"}}

(* The kind of blob a stage returns.                                       *)
Kind(s, outcome) ==
  IF outcome = "PAUSED" THEN IF s = "CODES" THEN "lm" ELSE "flow"
  ELSE IF s = "CODES" THEN "codes" ELSE "latent"

(* What processes see is one of the things that may survive.               *)
FilesInv ==
  /\ \A f \in Files : view[f] \in maybe[f]
  /\ \A p \in Paths : maybe[<<p, "checkpoint">>] \subseteq Saved

(* Where main is says which blob it holds.                                 *)
StageInv ==
  /\ pc \in Writing => /\ stage # "DECODE" /\ Saves(stage, status)
                       /\ state.kind = Kind(stage, status)
  /\ pc = "audio" => stage = "DECODE" /\ state.kind = "latent"

(* How far write_checkpoint has come.                                      *)
WriteInv ==
  /\ pc \in {"sync", "rename"} => view[Temporary(command)] = state
  /\ pc = "rename" => maybe[Temporary(command)] = {state}
  /\ pc = "syncdir" => /\ renamed = {state} /\ view[CheckpointFile(command)] = state
                       /\ view[Temporary(command)] = Absent

(* A process that runs has no status.                                      *)
ExitInv == (pc # "off" => exit = -1) /\ WrittenPauseIsDurable

(* Every resumed run is given the file it will also write.                 *)
OwnFile == \A c \in Commands : c.resuming => c.input = c.checkpoint

(* Then DECODE works on what the checkpoint holds, and a resumed run has   *)
(* all of something that might survive, until a stage returns without its  *)
(* updates.                                                                *)
OwnInv ==
  OwnFile =>
    /\ pc # "off" /\ stage = "DECODE" => view[CheckpointFile(command)] = state
    /\ pc # "off" /\ command.resuming =>
         \E x \in maybe[CheckpointFile(command)] :
           IF pc = "stage" THEN NotBehind(x, state) ELSE Follows(x, state)

IInv == TypeOK /\ FilesInv /\ StageInv /\ WriteInv /\ ExitInv /\ OwnInv

-----------------------------------------------------------------------------
(* A command's files are files, and its temporary is nobody's checkpoint.  *)
LEMMA FileNames ==
  ASSUME NEW c \in Commands
  PROVE  /\ CheckpointFile(c) \in Files /\ Temporary(c) \in Files
         /\ c.checkpoint \in Paths /\ c.input \in Paths
         /\ CheckpointFile(c) = <<c.checkpoint, "checkpoint">>
         /\ \A p \in Paths : /\ Temporary(c) # <<p, "checkpoint">>
                             /\ <<p, "checkpoint">> \in Files
BY CliAssumption DEF CheckpointFile, Temporary, Files

(* What a file's contents are.                                             *)
LEMMA BlobFacts ==
  /\ \A x \in Contents : /\ x.kind \in {"torn", "absent", "request", "lm", "codes", "flow", "latent"}
                         /\ x.done \in Nat /\ x.active \in Nat
                         /\ x.kind = "absent" => x = Absent
                         /\ x.kind = "torn" => x = Torn
                         /\ x \in Blobs \/ x.kind \in {"absent", "torn"}
  /\ Blobs \subseteq Contents
  /\ Absent \in Contents /\ Absent.kind = "absent"
  /\ Torn \in Contents /\ Torn.kind = "torn"
  /\ Request \in Blobs /\ Request.kind = "request"
<1> USE CliAssumption DEF Whole, Blob
<1>1. \A x \in PausedBlobs("CODES") : x.kind = "lm" /\ x.done \in Nat /\ x.active \in Nat
  BY DEF PausedBlobs
<1>2. \A x \in PausedBlobs("DIFFUSE") : x.kind = "flow" /\ x.done \in Nat /\ x.active \in Nat
  BY DEF PausedBlobs
<1>3. Blobs = {Request, Whole("codes"), Whole("latent")}
                \cup PausedBlobs("CODES") \cup PausedBlobs("DIFFUSE")
  BY DEF Blobs, Request
<1>4. Contents = Blobs \cup {Absent, Torn}
  BY DEF Contents
<1>5. \A x \in {Request, Whole("codes"), Whole("latent"), Absent, Torn} :
        x.done = 0 /\ x.active = 0
  BY DEF Request, Absent, Torn
<1>6. /\ Request.kind = "request" /\ Absent.kind = "absent" /\ Torn.kind = "torn"
      /\ Whole("codes").kind = "codes" /\ Whole("latent").kind = "latent"
  BY DEF Request, Absent, Torn
<1> HIDE DEF Whole, Blob
<1> QED
  BY <1>1, <1>2, <1>3, <1>4, <1>5, <1>6

(* Being not behind is a preorder, and a stage's first poll loses nothing  *)
(* but updates.                                                            *)
LEMMA OrderFacts ==
  /\ \A x \in Contents : NotBehind(x, x)
  /\ \A x, y, z \in Contents : NotBehind(x, y) /\ NotBehind(y, z) => NotBehind(x, z)
  /\ \A x, y \in Contents : Rank[y.kind] > Rank[x.kind] => NotBehind(x, y)
<1> DEFINE Kinds == {"torn", "absent", "request", "lm", "codes", "flow", "latent"}
<1>1. \A k \in Kinds : Rank[k] \in 0 .. 6
  BY DEF Rank
<1>2. \A k, l \in Kinds : Rank[k] = Rank[l] => k = l
  BY DEF Rank
<1>3. \A x \in Contents : x.kind \in Kinds /\ x.done \in Nat /\ x.active \in Nat
  BY BlobFacts
<1> HIDE DEF Kinds
<1> QED
  BY <1>1, <1>2, <1>3 DEF NotBehind

LEMMA FirstPollFacts ==
  ASSUME NEW x \in Contents, NEW blob \in Blobs, NotBehind(x, blob),
         NEW s \in {"CODES", "DIFFUSE"}, Consumes(s, blob)
  PROVE  Follows(x, FirstPoll(s, blob))
<1> DEFINE poll == FirstPoll(s, blob)
<1>1. /\ x.done \in Nat /\ x.active \in Nat /\ blob.done \in Nat /\ blob.active \in Nat
      /\ x.kind \in {"torn", "absent", "request", "lm", "codes", "flow", "latent"}
  BY BlobFacts
<1>2. /\ poll.kind = IF s = "CODES" THEN "lm" ELSE "flow"
      /\ poll.done = blob.done /\ poll.active = 0
  BY DEF FirstPoll, Blob
<1>3. CASE s = "CODES"
  <2>1. blob.kind \in {"request", "lm"}
    BY <1>3 DEF Consumes
  <2>2. blob.kind = "request" => NotBehind(x, poll)
    BY <1>1, <1>2, <1>3 DEF NotBehind, Rank
  <2>3. blob.kind = "lm" => blob.active = 0
    BY CliAssumption DEF Blobs, PausedBlobs, Blob, Whole
  <2>4. blob.kind = "lm" => NotBehind(x, poll)
    BY <1>1, <1>2, <1>3, <2>3 DEF NotBehind
  <2> QED
    BY <2>1, <2>2, <2>4 DEF Follows
<1>4. CASE s = "DIFFUSE"
  <2>1. blob.kind \in {"codes", "flow"}
    BY <1>4 DEF Consumes
  <2>2. blob.kind = "codes" => NotBehind(x, poll)
    BY <1>1, <1>2, <1>4 DEF NotBehind, Rank
  <2>3. CASE blob.kind = "flow" /\ (x.kind # "flow" \/ x.done # blob.done)
    <3>1. NotBehind(x, poll)
      BY <1>1, <1>2, <1>4, <2>3 DEF NotBehind
    <3> QED
      BY <3>1 DEF Follows
  <2>4. CASE blob.kind = "flow" /\ x.kind = "flow" /\ x.done = blob.done
    <3>1. x = Blob("flow", x.done, x.active)
      BY <2>4, CliAssumption DEF Contents, Blobs, PausedBlobs, Blob, Whole, Absent, Torn
    <3>2. poll = WithoutUpdates(x)
      BY <1>4, <2>4, <3>1 DEF FirstPoll, WithoutUpdates, Blob
    <3> QED
      BY <2>4, <3>2 DEF Follows
  <2> QED
    BY <2>1, <2>2, <2>3, <2>4 DEF Follows
<1> QED
  BY <1>3, <1>4

(* What a stage returns: a paused stage's blob is its own to resume, and   *)
(* it follows whatever was not ahead of what the stage was given.          *)
LEMMA OutputFacts ==
  ASSUME NEW s \in Stages, NEW blob \in Blobs, NEW outcome \in {"DONE", "PAUSED"},
         s # "DECODE", Consumes(s, blob), NEW early \in BOOLEAN,
         NEW out \in Outputs(s, blob, outcome, early)
  PROVE  /\ out \in Blobs /\ out.kind = Kind(s, outcome)
         /\ Saves(s, outcome) => out \in Saved
         /\ outcome = "DONE" => Consumes(NextStage(s), out)
         /\ NextStage(s) \in Stages
         /\ \A x \in Contents : NotBehind(x, blob) =>
              /\ Follows(x, out)
              /\ outcome = "DONE" => NotBehind(x, out)
<1>0. s \in {"CODES", "DIFFUSE"} /\ Stages = {"CODES", "DIFFUSE", "DECODE"}
  BY DEF Stages
<1>1. CASE outcome = "DONE"
  <2>1. out = Whole(Kind(s, outcome)) /\ out.kind = Kind(s, outcome)
    BY <1>1 DEF Outputs, Kind, Whole, Blob
  <2>2. out.kind \in {"codes", "latent"} /\ out \in Blobs
    BY <1>1, <2>1 DEF Kind, Blobs
  <2>3. \A x \in Contents : NotBehind(x, blob) => NotBehind(x, out)
    <3>1. blob \in Contents /\ out \in Contents
      BY <2>2, BlobFacts
    <3>2. Rank[out.kind] > Rank[blob.kind]
      <4>1. CASE s = "CODES"
        BY <1>1, <2>1, <4>1 DEF Kind, Consumes, Rank
      <4>2. CASE s = "DIFFUSE"
        BY <1>1, <2>1, <4>2 DEF Kind, Consumes, Rank
      <4> QED
        BY <1>0, <4>1, <4>2
    <3> QED
      BY <3>1, <3>2, OrderFacts
  <2>4. NextStage(s) \in Stages /\ Consumes(NextStage(s), out)
    BY <1>0, <1>1, <2>1 DEF NextStage, Consumes, Kind
  <2>5. Saves(s, outcome) => out \in Saved
    BY <1>0, <1>1, <2>1, <2>2, BlobFacts DEF Saves, Saved, Kind
  <2> QED
    BY <1>1, <2>1, <2>2, <2>3, <2>4, <2>5 DEF Follows
<1>2. CASE outcome = "PAUSED"
  <2>1. out = FirstPoll(s, blob) \/ (out \in PausedBlobs(s) /\ NotBehind(blob, out))
    BY <1>2 DEF Outputs
  <2>2. FirstPoll(s, blob) \in PausedBlobs(s)
    <3>1. CASE s = "CODES"
      <4>1. blob.done \in 0 .. Rows - 1
        BY <3>1, CliAssumption DEF Consumes, Blobs, PausedBlobs, Blob, Whole
      <4> QED
        BY <3>1, <4>1 DEF FirstPoll, PausedBlobs
    <3>2. CASE s = "DIFFUSE"
      <4>1. blob.done \in 0 .. Windows - 1 /\ 0 \in 0 .. Steps - 1
        BY <3>2, CliAssumption DEF Consumes, Blobs, PausedBlobs, Blob, Whole
      <4>2. FirstPoll(s, blob) = Blob("flow", blob.done, 0)
        BY <3>2 DEF FirstPoll
      <4> QED
        BY <3>2, <4>1, <4>2 DEF PausedBlobs
    <3> QED
      BY <1>0, <3>1, <3>2
  <2>3. out \in PausedBlobs(s) /\ out.kind = Kind(s, outcome) /\ out \in Blobs
    <3>1. out \in PausedBlobs(s)
      BY <2>1, <2>2
    <3> QED
      BY <1>0, <1>2, <3>1 DEF PausedBlobs, Blob, Kind, Blobs
  <2>4. out \in Saved
    BY <1>2, <2>3, BlobFacts DEF Saved, Kind
  <2>5. ASSUME NEW x \in Contents, NotBehind(x, blob) PROVE Follows(x, out)
    <3>1. CASE out = FirstPoll(s, blob)
      BY <1>0, <2>5, <3>1, FirstPollFacts
    <3>2. CASE NotBehind(blob, out)
      BY <2>3, <2>5, <3>2, OrderFacts, BlobFacts DEF Follows
    <3> QED
      BY <2>1, <3>1, <3>2
  <2> QED
    BY <1>0, <1>2, <2>3, <2>4, <2>5 DEF NextStage
<1> QED
  BY <1>1, <1>2

(* A resumed file is given to the stage that takes it.                     *)
LEMMA StageForFacts ==
  /\ \A blob \in Saved \cup {Request} :
       blob # Absent => /\ blob \in Blobs /\ StageFor(blob) \in Stages
                        /\ Consumes(StageFor(blob), blob)
  /\ StageFor(Request) = "CODES" /\ Absent \in Saved /\ Torn \notin Saved
<1>1. ASSUME NEW blob \in Blobs, blob.kind \in {"request", "lm", "flow", "latent"}
      PROVE  StageFor(blob) \in Stages /\ Consumes(StageFor(blob), blob)
  BY <1>1 DEF StageFor, Consumes, Stages
<1>2. ASSUME NEW blob \in Saved, blob # Absent
      PROVE  blob \in Blobs /\ blob.kind \in {"request", "lm", "flow", "latent"}
  BY <1>2, BlobFacts DEF Saved
<1>3. StageFor(Request) = "CODES"
  BY BlobFacts DEF StageFor
<1> QED
  BY <1>1, <1>2, <1>3, BlobFacts DEF Saved

(* The initial state: no process, no file.                                 *)
LEMMA InitIInv == Init => IInv
<1> SUFFICES ASSUME Init PROVE IInv
  OBVIOUS
<1>1. TypeOK
  <2>1. view \in [Files -> Contents] /\ maybe \in [Files -> SUBSET Contents]
    BY BlobFacts DEF Init
  <2>2. /\ command \in Commands /\ pc = "off" /\ stage \in Stages /\ state \in Blobs
        /\ status = "DONE" /\ signal = FALSE /\ seen = FALSE /\ renamed = {}
        /\ audio = "absent" /\ exit = -1
    BY BlobFacts DEF Init, Stages
  <2>3. interruptions \in 0 .. MaxInterruptions
    BY CliAssumption DEF Init
  <2>4. pc # "stage"
    BY <2>2
  <2> QED
    BY <2>1, <2>2, <2>3, <2>4 DEF TypeOK
<1>2. FilesInv
  BY StageForFacts DEF Init, FilesInv, Files
<1>3. StageInv /\ WriteInv /\ ExitInv /\ OwnInv
  BY DEF Init, StageInv, WriteInv, ExitInv, OwnInv, WrittenPauseIsDurable, Writing
<1> QED
  BY <1>1, <1>2, <1>3 DEF IInv

-----------------------------------------------------------------------------
(* Every step keeps the types, and hands a stage a blob it takes.          *)
LEMMA TypeNext == IInv /\ [Next]_cvars => TypeOK'
<1> SUFFICES ASSUME IInv, [Next]_cvars PROVE TypeOK'
  OBVIOUS
<1> USE CliAssumption DEF IInv, TypeOK
<1>1. ASSUME NEW c \in Commands, Invoke(c) PROVE TypeOK'
  <2>1. view[<<c.input, "checkpoint">>] \in Saved
    BY FileNames DEF FilesInv
  <2> DEFINE blob == IF c.resuming THEN view[<<c.input, "checkpoint">>] ELSE Request
  <2>2. blob # Absent => blob \in Blobs /\ StageFor(blob) \in Stages
                           /\ Consumes(StageFor(blob), blob)
    BY <2>1, StageForFacts, BlobFacts
  <2>3. CASE blob = Absent
    <3>1. /\ pc' = "off" /\ exit' = 1 /\ UNCHANGED <<stage, state>>
          /\ command' = c /\ signal' = FALSE /\ seen' = FALSE
          /\ UNCHANGED <<status, files, audio, interruptions>>
      BY <1>1, <2>3 DEF Invoke, Leave
    <3> QED
      BY <3>1 DEF files
  <2>4. CASE blob # Absent
    BY <1>1, <2>2, <2>4 DEF Invoke, files
  <2> QED
    BY <2>3, <2>4
<1>2. ASSUME NEW outcome \in {"DONE", "PAUSED"}, StageReturns(outcome) PROVE TypeOK'
  <2>1. CASE stage = "DECODE"
    BY <1>2, <2>1 DEF StageReturns, Leave, files
  <2>2. CASE stage # "DECODE" /\ Saves(stage, outcome)
    <3>1. state' \in Outputs(stage, state, outcome, seen) /\ Consumes(stage, state)
      BY <1>2, <2>2 DEF StageReturns
    <3>2. state' \in Blobs
      BY <2>2, <3>1, OutputFacts
    <3> QED
      BY <1>2, <2>2, <3>2 DEF StageReturns, files
  <2>3. CASE stage # "DECODE" /\ ~Saves(stage, outcome)
    <3>1. outcome = "DONE"
      BY <2>3 DEF Saves
    <3>2. /\ state' \in Blobs /\ NextStage(stage) \in Stages
          /\ Consumes(NextStage(stage), state')
      <4>1. state' \in Outputs(stage, state, outcome, seen) /\ Consumes(stage, state)
        BY <1>2, <2>3 DEF StageReturns
      <4> QED
        BY <2>3, <3>1, <4>1, OutputFacts
    <3> QED
      BY <1>2, <2>3, <3>1, <3>2 DEF StageReturns, files
  <2> QED
    BY <2>1, <2>2, <2>3
<1>3. CASE StageFails
  BY <1>3 DEF StageFails, Interrupt, Leave, files
<1>4. CASE CreateTemporary
  BY <1>4, FileNames, BlobFacts DEF CreateTemporary
<1>5. CASE WriteTemporary
  BY <1>5, FileNames, BlobFacts DEF WriteTemporary
<1>6. CASE SyncTemporary
  <2>1. Synced(Temporary(command)) \in SUBSET Contents
    BY FileNames DEF Synced
  <2> QED
    BY <1>6, <2>1 DEF SyncTemporary
<1>7. CASE RenameTemporary
  BY <1>7, FileNames, BlobFacts DEF RenameTemporary
<1>8. CASE SyncDirectory
  <2>1. maybe' \in [Files -> SUBSET Contents]
    BY <1>8, FileNames, BlobFacts DEF SyncDirectory
  <2>2. CASE status = "PAUSED"
    BY <1>8, <2>1, <2>2 DEF SyncDirectory, Leave
  <2>3. CASE status = "DONE"
    <3>1. stage = "DIFFUSE" /\ state.kind = "latent"
      BY <1>8, <2>3 DEF SyncDirectory, StageInv, Writing, Saves, Kind
    <3>2. NextStage(stage) = "DECODE" /\ Consumes("DECODE", state)
      BY <3>1 DEF NextStage, Consumes
    <3> QED
      BY <1>8, <2>1, <2>3, <3>2 DEF SyncDirectory, Stages
  <2> QED
    BY <2>2, <2>3
<1>9. CASE WriteFails
  BY <1>9 DEF WriteFails, Interrupt, Leave
<1>10. CASE WriteAudio
  BY <1>10 DEF WriteAudio, Leave, files
<1>11. CASE Kill
  BY <1>11 DEF Kill, Interrupt, Leave
<1>12. CASE PowerLoss
  <2>1. maybe' \in [Files -> SUBSET Contents] /\ view' \in [Files -> Contents]
    BY <1>12 DEF PowerLoss
  <2> QED
    BY <1>12, <2>1 DEF PowerLoss, Interrupt, Leave
<1>13. CASE Signal
  BY <1>13 DEF Signal, Interrupt, files
<1>14. CASE UNCHANGED cvars
  BY <1>14 DEF cvars
<1> QED
  BY <1>1, <1>2, <1>3, <1>4, <1>5, <1>6, <1>7, <1>8, <1>9, <1>10, <1>11, <1>12, <1>13, <1>14
     DEF Next, Work

(* What may survive in a checkpoint is what main saved, and processes see  *)
(* one of the things that may survive.                                     *)
LEMMA FilesNext == IInv /\ [Next]_cvars => FilesInv'
<1> SUFFICES ASSUME IInv, [Next]_cvars PROVE FilesInv'
  OBVIOUS
<1> USE DEF IInv, TypeOK, FilesInv
<1>1. CASE UNCHANGED <<view, maybe>>
  BY <1>1
<1>2. CASE CreateTemporary
  BY <1>2, FileNames DEF CreateTemporary
<1>3. CASE WriteTemporary
  BY <1>3, FileNames DEF WriteTemporary
<1>4. CASE SyncTemporary
  BY <1>4, FileNames DEF SyncTemporary, Synced
<1>5. CASE RenameTemporary
  <2> DEFINE f == Temporary(command)
             t == CheckpointFile(command)
  <2>1. f \in Files /\ t \in Files /\ \A p \in Paths : f # <<p, "checkpoint">>
    BY FileNames
  <2>2. /\ view' = [view EXCEPT ![f] = Absent, ![t] = view[f]]
        /\ maybe' = [maybe EXCEPT ![f] = @ \cup {Absent}, ![t] = @ \cup maybe[f]]
    BY <1>5 DEF RenameTemporary
  <2>3. maybe[f] = {state} /\ state \in Saved
    <3>1. /\ pc = "rename" /\ stage \in {"CODES", "DIFFUSE"} /\ Saves(stage, status)
          /\ state.kind = Kind(stage, status)
      BY <1>5 DEF RenameTemporary, StageInv, Writing, Stages
    <3> QED
      BY <3>1, BlobFacts DEF WriteInv, Kind, Saves, Saved
  <2>4. ASSUME NEW g \in Files PROVE view'[g] \in maybe'[g]
    <3>1. CASE g = t
      BY <2>1, <2>2, <3>1
    <3>2. CASE g # t
      BY <2>1, <2>2, <3>2
    <3> QED
      BY <3>1, <3>2
  <2>5. ASSUME NEW p \in Paths PROVE maybe'[<<p, "checkpoint">>] \subseteq Saved
    <3>1. <<p, "checkpoint">> \in Files /\ maybe[<<p, "checkpoint">>] \subseteq Saved
      BY FileNames
    <3>2. CASE <<p, "checkpoint">> = t
      BY <2>1, <2>2, <2>3, <3>1, <3>2
    <3>3. CASE <<p, "checkpoint">> # t
      BY <2>1, <2>2, <3>1, <3>3
    <3> QED
      BY <3>2, <3>3
  <2> QED
    BY <2>4, <2>5
<1>6. CASE SyncDirectory
  <2> DEFINE f == Temporary(command)
             t == CheckpointFile(command)
  <2>1. f \in Files /\ t \in Files /\ f # t /\ \A p \in Paths : f # <<p, "checkpoint">>
    BY FileNames
  <2>2. view' = view /\ maybe' = [maybe EXCEPT ![f] = {Absent}, ![t] = {state}]
    BY <1>6 DEF SyncDirectory, WriteInv
  <2>3. state \in Saved
    <3>1. /\ pc = "syncdir" /\ stage \in {"CODES", "DIFFUSE"} /\ Saves(stage, status)
          /\ state.kind = Kind(stage, status)
      BY <1>6 DEF SyncDirectory, StageInv, Writing, Stages
    <3> QED
      BY <3>1, BlobFacts DEF Kind, Saves, Saved
  <2>4. view[t] = state /\ view[f] = Absent
    BY <1>6 DEF SyncDirectory, WriteInv
  <2>5. ASSUME NEW g \in Files PROVE view'[g] \in maybe'[g]
    BY <2>1, <2>2, <2>4
  <2>6. ASSUME NEW p \in Paths PROVE maybe'[<<p, "checkpoint">>] \subseteq Saved
    <3>1. <<p, "checkpoint">> \in Files /\ maybe[<<p, "checkpoint">>] \subseteq Saved
      BY FileNames
    <3>2. maybe'[<<p, "checkpoint">>] \in {{state}, maybe[<<p, "checkpoint">>]}
      BY <2>1, <2>2, <3>1
    <3> QED
      BY <2>3, <3>1, <3>2
  <2> QED
    BY <2>5, <2>6
<1>7. CASE PowerLoss
  BY <1>7, FileNames DEF PowerLoss
<1> QED
  BY <1>1, <1>2, <1>3, <1>4, <1>5, <1>6, <1>7
     DEF Next, Work, Invoke, StageReturns, StageFails, WriteFails, WriteAudio, Kill, Signal,
         files, cvars

(* Each step of main leaves it where the blob in memory says it is.        *)
LEMMA StageNext == IInv /\ [Next]_cvars => StageInv'
<1> SUFFICES ASSUME IInv, [Next]_cvars PROVE StageInv'
  OBVIOUS
<1> USE DEF IInv, TypeOK, StageInv, Writing
<1>1. ASSUME NEW outcome \in {"DONE", "PAUSED"}, StageReturns(outcome) PROVE StageInv'
  <2>1. CASE stage = "DECODE"
    BY <1>1, <2>1 DEF StageReturns, Leave, Consumes
  <2>2. CASE stage # "DECODE"
    <3>1. state' \in Outputs(stage, state, outcome, seen) /\ Consumes(stage, state)
      BY <1>1, <2>2 DEF StageReturns
    <3>2. state'.kind = Kind(stage, outcome)
      BY <2>2, <3>1, OutputFacts
    <3> QED
      BY <1>1, <2>2, <3>2 DEF StageReturns
  <2> QED
    BY <2>1, <2>2
<1>2. CASE CreateTemporary \/ WriteTemporary \/ SyncTemporary \/ RenameTemporary
  BY <1>2 DEF CreateTemporary, WriteTemporary, SyncTemporary, RenameTemporary
<1>3. CASE SyncDirectory
  BY <1>3 DEF SyncDirectory, Leave
<1>4. ASSUME NEW c \in Commands, Invoke(c) PROVE StageInv'
  BY <1>4 DEF Invoke, Leave
<1>5. CASE StageFails \/ WriteFails \/ WriteAudio \/ Kill \/ PowerLoss
  BY <1>5 DEF StageFails, WriteFails, WriteAudio, Kill, PowerLoss, Leave
<1>6. CASE Signal \/ UNCHANGED cvars
  BY <1>6 DEF Signal, cvars
<1> QED
  BY <1>1, <1>2, <1>3, <1>4, <1>5, <1>6 DEF Next, Work

(* write_checkpoint: what was written is synced before it is renamed, and  *)
(* renamed before it counts.                                               *)
LEMMA WriteNext == IInv /\ [Next]_cvars => WriteInv'
<1> SUFFICES ASSUME IInv, [Next]_cvars PROVE WriteInv'
  OBVIOUS
<1> USE DEF IInv, TypeOK, WriteInv
<1>1. CASE WriteTemporary
  BY <1>1, FileNames DEF WriteTemporary, Temporary
<1>2. CASE SyncTemporary
  BY <1>2, FileNames DEF SyncTemporary, Synced, Temporary
<1>3. CASE RenameTemporary
  <2> DEFINE f == Temporary(command)
             t == CheckpointFile(command)
  <2>1. f \in Files /\ t \in Files /\ f # t /\ pc' = "syncdir"
    BY <1>3, FileNames DEF RenameTemporary
  <2>2. /\ view' = [view EXCEPT ![f] = Absent, ![t] = view[f]]
        /\ renamed' = maybe[f] /\ UNCHANGED <<command, state>>
    BY <1>3 DEF RenameTemporary
  <2>3. view[f] = state /\ maybe[f] = {state}
    BY <1>3 DEF RenameTemporary
  <2>4. view'[t] = state /\ view'[f] = Absent
    BY <2>1, <2>2, <2>3
  <2> QED
    BY <2>1, <2>2, <2>3, <2>4 DEF CheckpointFile, Temporary
<1>4. CASE \E outcome \in {"DONE", "PAUSED"} : StageReturns(outcome)
  BY <1>4 DEF StageReturns, Leave
<1>5. CASE SyncDirectory \/ CreateTemporary
  BY <1>5 DEF SyncDirectory, CreateTemporary, Leave
<1>6. CASE \E c \in Commands : Invoke(c)
  BY <1>6 DEF Invoke, Leave
<1>7. CASE StageFails \/ WriteFails \/ WriteAudio \/ Kill \/ PowerLoss
  BY <1>7 DEF StageFails, WriteFails, WriteAudio, Kill, PowerLoss, Leave
<1>8. CASE Signal \/ UNCHANGED cvars
  BY <1>8 DEF Signal, files, cvars, Temporary, CheckpointFile
<1> QED
  BY <1>1, <1>2, <1>3, <1>4, <1>5, <1>6, <1>7, <1>8 DEF Next, Work

(* A status of 130 after a write stays backed by the file.                 *)
LEMMA ExitNext == IInv /\ [Next]_cvars => ExitInv'
<1> SUFFICES ASSUME IInv, [Next]_cvars PROVE ExitInv'
  OBVIOUS
<1> USE DEF IInv, TypeOK, ExitInv, WrittenPauseIsDurable
<1>1. CASE SyncDirectory
  <2> DEFINE f == Temporary(command)
             t == CheckpointFile(command)
  <2>1. f \in Files /\ t \in Files /\ f # t
    BY FileNames
  <2>2. /\ maybe' = [maybe EXCEPT ![f] = {Absent}, ![t] = {state}]
        /\ UNCHANGED <<command, state>>
    BY <1>1 DEF SyncDirectory, WriteInv
  <2>3. maybe'[t] = {state}
    BY <2>1, <2>2
  <2>4. pc' # "off" => exit' = -1
    BY <1>1 DEF SyncDirectory, Leave
  <2> QED
    BY <2>2, <2>3, <2>4 DEF CheckpointFile
<1>2. ASSUME NEW outcome \in {"DONE", "PAUSED"}, StageReturns(outcome) PROVE ExitInv'
  BY <1>2 DEF StageReturns, Leave
<1>3. ASSUME NEW c \in Commands, Invoke(c) PROVE ExitInv'
  BY <1>3 DEF Invoke, Leave
<1>4. CASE CreateTemporary \/ WriteTemporary \/ SyncTemporary \/ RenameTemporary
  BY <1>4 DEF CreateTemporary, WriteTemporary, SyncTemporary, RenameTemporary
<1>5. CASE StageFails \/ WriteFails \/ WriteAudio \/ Kill
  BY <1>5 DEF StageFails, WriteFails, WriteAudio, Kill, Leave
<1>6. CASE PowerLoss
  <2>1. CASE pc # "off"
    BY <1>6, <2>1 DEF PowerLoss, Leave
  <2>2. CASE pc = "off"
    <3>1. /\ \A f \in Files : view'[f] \in maybe[f] /\ maybe'[f] = {view'[f]}
          /\ UNCHANGED <<pc, exit, command, stage, state>>
      BY <1>6, <2>2 DEF PowerLoss
    <3>2. CheckpointFile(command) \in Files
      BY FileNames
    <3> QED
      BY <2>2, <3>1, <3>2 DEF CheckpointFile
  <2> QED
    BY <2>1, <2>2
<1>7. CASE Signal \/ UNCHANGED cvars
  BY <1>7 DEF Signal, files, cvars, CheckpointFile
<1> QED
  BY <1>1, <1>2, <1>3, <1>4, <1>5, <1>6, <1>7 DEF Next, Work

-----------------------------------------------------------------------------
(* What may survive under a checkpoint's name.                             *)
LEMMA CheckpointFacts ==
  ASSUME IInv, NEW p \in Paths
  PROVE  /\ <<p, "checkpoint">> \in Files
         /\ maybe[<<p, "checkpoint">>] \in SUBSET Contents
         /\ view[<<p, "checkpoint">>] \in maybe[<<p, "checkpoint">>]
         /\ maybe[<<p, "checkpoint">>] \subseteq Saved
<1>1. <<p, "checkpoint">> \in Files
  BY DEF Files
<1> QED
  BY <1>1 DEF IInv, TypeOK, FilesInv

(* A resumed run moves forward, and DECODE starts behind a written file.   *)
LEMMA OwnNext == IInv /\ [Next]_cvars => OwnInv'
<1> SUFFICES ASSUME IInv, [Next]_cvars, OwnFile PROVE OwnInv'
  BY DEF OwnInv, OwnFile
<1> DEFINE t == CheckpointFile(command)
<1>a. /\ command \in Commands /\ stage \in Stages /\ state \in Blobs
      /\ status \in {"DONE", "PAUSED"} /\ seen \in BOOLEAN
      /\ view \in [Files -> Contents] /\ maybe \in [Files -> SUBSET Contents]
      /\ pc # "off" /\ stage = "DECODE" => view[t] = state
      /\ pc # "off" /\ command.resuming =>
           \E x \in maybe[t] : IF pc = "stage" THEN NotBehind(x, state) ELSE Follows(x, state)
  BY DEF IInv, TypeOK, OwnInv
<1>b. /\ command.checkpoint \in Paths /\ t \in Files /\ Temporary(command) \in Files
      /\ t # Temporary(command) /\ maybe[t] \in SUBSET Contents
  BY <1>a, FileNames
<1>1. ASSUME NEW c \in Commands, Invoke(c) PROVE OwnInv'
  <2>1. CASE pc' = "off"
    BY <2>1 DEF OwnInv
  <2>2. CASE pc' # "off"
    <3>1. /\ command' = c /\ UNCHANGED <<view, maybe>>
          /\ state' = IF c.resuming THEN view[<<c.input, "checkpoint">>] ELSE Request
          /\ stage' = StageFor(state')
      BY <1>1, <2>2 DEF Invoke, Leave, files
    <3>2. CASE c.resuming
      <4>1. c.input = c.checkpoint /\ c.checkpoint \in Paths
        BY <3>2, FileNames DEF OwnFile
      <4>2. state' = view[CheckpointFile(c)]
        BY <3>1, <3>2, <4>1 DEF CheckpointFile
      <4>3. state' \in maybe[CheckpointFile(c)] /\ state' \in Contents
        BY <4>1, <4>2, CheckpointFacts DEF CheckpointFile
      <4>4. NotBehind(state', state') /\ Follows(state', state')
        BY <4>3, OrderFacts DEF Follows
      <4>5. CheckpointFile(command)' = CheckpointFile(c)
        BY <3>1 DEF CheckpointFile
      <4>6. \E x \in maybe'[CheckpointFile(c)] : NotBehind(x, state') /\ Follows(x, state')
        BY <3>1, <4>3, <4>4
      <4> QED
        BY <3>1, <4>2, <4>5, <4>6 DEF OwnInv
    <3>3. CASE ~c.resuming
      BY <3>1, <3>3, StageForFacts DEF OwnInv
    <3> QED
      BY <3>2, <3>3
  <2> QED
    BY <2>1, <2>2
<1>2. ASSUME NEW outcome \in {"DONE", "PAUSED"}, StageReturns(outcome) PROVE OwnInv'
  <2>1. /\ pc = "stage" /\ Consumes(stage, state)
        /\ UNCHANGED <<command, view, maybe>>
    BY <1>2 DEF StageReturns, files
  <2>2. CheckpointFile(command)' = t
    BY <2>1 DEF CheckpointFile
  <2>3. CASE stage = "DECODE"
    <3>1. UNCHANGED <<stage, state>>
      BY <1>2, <2>3 DEF StageReturns
    <3>2. command.resuming => \E x \in maybe[t] : NotBehind(x, state) /\ Follows(x, state)
      BY <1>a, <2>1 DEF Follows
    <3> QED
      BY <1>a, <2>1, <2>2, <3>1, <3>2 DEF OwnInv
  <2>4. CASE stage # "DECODE"
    <3>1. state' \in Outputs(stage, state, outcome, seen)
      BY <1>2, <2>4 DEF StageReturns
    <3>2. ASSUME NEW x \in maybe[t], NotBehind(x, state)
          PROVE  Follows(x, state') /\ (outcome = "DONE" => NotBehind(x, state'))
      BY <1>a, <1>b, <2>1, <2>4, <3>1, <3>2, OutputFacts
    <3>3. stage' # "DECODE" /\ (pc' = "stage" => outcome = "DONE")
      BY <1>a, <1>2, <2>4 DEF StageReturns, Saves, NextStage, Stages
    <3>4. command.resuming =>
            \E x \in maybe[t] : IF pc' = "stage" THEN NotBehind(x, state') ELSE Follows(x, state')
      BY <1>a, <2>1, <3>2, <3>3
    <3> QED
      BY <2>1, <2>2, <3>3, <3>4 DEF OwnInv
  <2> QED
    BY <2>3, <2>4
<1>3. CASE CreateTemporary \/ WriteTemporary \/ SyncTemporary
  <2>1. /\ UNCHANGED <<command, stage, state>> /\ pc \notin {"off", "stage"}
        /\ pc' \notin {"off", "stage"}
        /\ maybe'[t] = maybe[t] /\ view'[t] = view[t]
    BY <1>a, <1>b, <1>3 DEF CreateTemporary, WriteTemporary, SyncTemporary
  <2>2. CheckpointFile(command)' = t
    BY <2>1 DEF CheckpointFile
  <2> QED
    BY <1>a, <2>1, <2>2 DEF OwnInv
<1>4. CASE RenameTemporary
  <2>1. /\ UNCHANGED <<command, stage, state>> /\ pc = "rename" /\ pc' = "syncdir"
        /\ maybe[t] \subseteq maybe'[t]
    BY <1>a, <1>b, <1>4 DEF RenameTemporary
  <2>2. stage # "DECODE"
    BY <2>1 DEF IInv, StageInv, Writing
  <2>3. CheckpointFile(command)' = t
    BY <2>1 DEF CheckpointFile
  <2>4. command.resuming => \E x \in maybe'[t] : Follows(x, state)
    BY <1>a, <2>1
  <2> QED
    BY <2>1, <2>2, <2>3, <2>4 DEF OwnInv
<1>5. CASE SyncDirectory
  <2>1. UNCHANGED <<command, state, view>> /\ maybe'[t] = {state} /\ view[t] = state
    BY <1>a, <1>b, <1>5 DEF SyncDirectory, IInv, WriteInv
  <2>2. NotBehind(state, state) /\ Follows(state, state)
    BY <1>a, BlobFacts, OrderFacts DEF Follows
  <2>3. CheckpointFile(command)' = t
    BY <2>1 DEF CheckpointFile
  <2> QED
    BY <2>1, <2>2, <2>3 DEF OwnInv
<1>6. CASE StageFails \/ WriteFails \/ WriteAudio \/ Kill
  BY <1>6 DEF StageFails, WriteFails, WriteAudio, Kill, Leave, OwnInv
<1>7. CASE PowerLoss
  <2>1. pc' = "off"
    BY <1>7 DEF PowerLoss, Leave
  <2> QED
    BY <2>1 DEF OwnInv
<1>8. CASE Signal \/ UNCHANGED cvars
  <2>1. UNCHANGED <<pc, command, stage, state, view, maybe>>
    BY <1>8 DEF Signal, files, cvars
  <2>2. CheckpointFile(command)' = t
    BY <2>1 DEF CheckpointFile
  <2> QED
    BY <1>a, <2>1, <2>2 DEF OwnInv
<1> QED
  BY <1>1, <1>2, <1>3, <1>4, <1>5, <1>6, <1>7, <1>8 DEF Next, Work

(* The invariant holds in every state of a run.                            *)
LEMMA Invariant == Spec => []IInv
<1>1. Init => IInv
  BY InitIInv
<1>2. IInv /\ [Next]_cvars => IInv'
  BY TypeNext, FilesNext, StageNext, WriteNext, ExitNext, OwnNext DEF IInv
<1> QED
  BY <1>1, <1>2, PTL DEF Spec

-----------------------------------------------------------------------------
(* Wherever a process is killed or the machine loses power, a checkpoint   *)
(* file is a whole blob or absent, and the stage it is resumed in takes it *)
(* (write_checkpoint, stage_for).                                          *)
THEOREM CheckpointsStayUsable == Spec => []CheckpointsAreUsable
<1>1. IInv => CheckpointsAreUsable
  <2> SUFFICES ASSUME IInv PROVE CheckpointNeverTorn
    BY DEF IInv, CheckpointsAreUsable
  <2>1. ASSUME NEW p \in Paths
        PROVE  /\ maybe[<<p, "checkpoint">>] \subseteq Saved
               /\ view[<<p, "checkpoint">>] \in Saved
    BY CheckpointFacts
  <2> QED
    BY <2>1, StageForFacts DEF CheckpointNeverTorn
<1> QED
  BY <1>1, Invariant, PTL

(* Once a process that wrote its checkpoint has exited with 130, nothing   *)
(* but another command changes what --checkpoint will hold (main).         *)
THEOREM WrittenPausesAreDurable == Spec => []WrittenPauseIsDurable
<1>1. IInv => WrittenPauseIsDurable
  BY DEF IInv, ExitInv
<1> QED
  BY <1>1, Invariant, PTL

(* "SIGINT/SIGTERM returns 130 after a durable pause": also when DECODE    *)
(* paused and nothing was written, for commands that resume the file they  *)
(* write.  (For others the run cantor_cli_separate refutes it.)            *)
THEOREM PausesAreSaved == OwnFile => (Spec => PauseIsSaved)
<1> SUFFICES ASSUME OwnFile PROVE Spec => PauseIsSaved
  OBVIOUS
<1>1. IInv /\ [Next]_cvars
        => [(exit' = 130 /\ exit # 130) => view'[CheckpointFile(command)] = state']_cvars
  <2> SUFFICES ASSUME IInv, Next, exit' = 130, exit # 130
               PROVE  view'[CheckpointFile(command)] = state'
    BY DEF cvars
  <2>1. CASE \E outcome \in {"DONE", "PAUSED"} : StageReturns(outcome)
    <3>1. pc = "stage" /\ stage = "DECODE" /\ UNCHANGED <<state, view>>
      BY <2>1 DEF StageReturns, Leave, files
    <3>2. view[CheckpointFile(command)] = state
      BY <3>1 DEF IInv, OwnInv
    <3> QED
      BY <3>1, <3>2
  <2>2. CASE SyncDirectory
    BY <2>2 DEF SyncDirectory, IInv, WriteInv
  <2>3. StageReturns("DONE") \/ StageReturns("PAUSED") \/ SyncDirectory
    BY DEF Next, Work, Invoke, StageFails, CreateTemporary, WriteTemporary, SyncTemporary,
           RenameTemporary, WriteFails, WriteAudio, Kill, PowerLoss, Signal, Leave
  <2> QED
    BY <2>1, <2>2, <2>3
<1> QED
  BY <1>1, Invariant, PTL DEF Spec, PauseIsSaved

(* What one step of a resumed run leaves of every checkpoint file.         *)
LEMMA ProgressStep ==
  ASSUME OwnFile, IInv, [Next]_cvars, command'.resuming, NEW p \in Paths,
         NEW later \in maybe'[<<p, "checkpoint">>]
  PROVE  \E earlier \in maybe[<<p, "checkpoint">>] : Follows(earlier, later)
<1> DEFINE t == <<p, "checkpoint">>
<1>1. t \in Files /\ maybe[t] \in SUBSET Contents
  BY CheckpointFacts
<1>2. /\ maybe \in [Files -> SUBSET Contents] /\ command \in Commands
      /\ CheckpointFile(command) = <<command.checkpoint, "checkpoint">>
      /\ CheckpointFile(command) \in Files /\ Temporary(command) # t
      /\ Temporary(command) # CheckpointFile(command) /\ Temporary(command) \in Files
  BY FileNames DEF IInv, TypeOK
<1>3. CASE later \in maybe[t]
  BY <1>1, <1>3, OrderFacts DEF Follows
<1>4. CASE /\ pc \notin {"off", "stage"} /\ UNCHANGED command
           /\ t = CheckpointFile(command) /\ later = state
  BY <1>4 DEF IInv, OwnInv
<1>5. CASE maybe'[t] = maybe[t]
  BY <1>3, <1>5
<1>6. CASE PowerLoss
  <2>1. maybe'[t] = {view'[t]} /\ view'[t] \in maybe[t]
    BY <1>1, <1>6 DEF PowerLoss
  <2> QED
    BY <1>3, <2>1
<1>7. CASE RenameTemporary
  <2>1. /\ pc = "rename" /\ UNCHANGED command /\ maybe[Temporary(command)] = {state}
        /\ maybe' = [maybe EXCEPT ![Temporary(command)] = @ \cup {Absent},
                       ![CheckpointFile(command)] = @ \cup {state}]
    BY <1>7 DEF RenameTemporary, IInv, WriteInv
  <2> QED
    BY <1>1, <1>2, <1>3, <1>4, <1>5, <2>1
<1>8. CASE SyncDirectory
  <2>1. /\ pc = "syncdir" /\ UNCHANGED command
        /\ maybe' = [maybe EXCEPT ![Temporary(command)] = {Absent},
                                  ![CheckpointFile(command)] = {state}]
    BY <1>8 DEF SyncDirectory, IInv, WriteInv
  <2> QED
    BY <1>1, <1>2, <1>3, <1>4, <1>5, <2>1
<1>9. CASE CreateTemporary \/ WriteTemporary \/ SyncTemporary
  <2>1. maybe'[t] = maybe[t]
    BY <1>1, <1>2, <1>9 DEF CreateTemporary, WriteTemporary, SyncTemporary
  <2> QED
    BY <1>5, <2>1
<1> QED
  BY <1>5, <1>6, <1>7, <1>8, <1>9
     DEF Next, Work, Invoke, StageReturns, StageFails, WriteFails, WriteAudio, Kill, Signal,
         files, cvars

(* Resuming costs nothing of what would survive losing power but the Euler *)
(* updates of an active window, when DIFFUSE stops at its first poll       *)
(* (stage_for, write_checkpoint, render_resumable).                        *)
THEOREM ProgressIsDurable == OwnFile => (Spec => DurableProgress)
<1> SUFFICES ASSUME OwnFile PROVE Spec => DurableProgress
  OBVIOUS
<1>1. IInv /\ [Next]_cvars
        => [command'.resuming =>
              \A p \in Paths : \A later \in maybe'[<<p, "checkpoint">>] :
                \E earlier \in maybe[<<p, "checkpoint">>] : Follows(earlier, later)]_cvars
  BY ProgressStep
<1> QED
  BY <1>1, Invariant, PTL DEF Spec, DurableProgress
=============================================================================
