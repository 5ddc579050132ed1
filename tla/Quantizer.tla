------------------------------ MODULE Quantizer -----------------------------
(***************************************************************************)
(* Runs of levo-quantize for one output name, src/tools/levo-quantize.cpp: *)
(* the artifact grows in NAME.partial, is renamed to NAME and hashed, and  *)
(* gets a checksum and a manifest beside it, each through a .partial of    *)
(* its own.  A run may stop between any two steps, killed or by an error:  *)
(* no handler of the tool removes what it left.  Names refer to files the  *)
(* way POSIX has it: a rename moves the name, and a process that has the   *)
(* file open goes on writing to it.                                        *)
(***************************************************************************)
EXTENDS Integers, Sequences, FiniteSets

CONSTANTS Runs,          (* each one run of the tool                       *)
          Tensors,       (* tensors of the artifact                        *)
          Concurrent,    (* whether runs may overlap                       *)
          None

Sidecars == {"sha256", "manifest"}
Names == {"gguf"} \cup Sidecars
Paths == Names \X {"installed", "partial"}
Installed(name) == <<name, "installed">>
Partial(name) == <<name, "partial">>

(* A run creates a file at most twice for the artifact: when it writes the *)
(* metadata, and when it opens the file to append but finds it gone.       *)
Files == Runs \X (Names \cup {"reopened"})
Torn == <<"torn">>

VARIABLES path,    (* the file each path names                             *)
          data,    (* the pieces in a file                                 *)
          pc,      (* where a run is                                       *)
          handle,  (* the file a run has open                              *)
          tensor,  (* the tensor it writes next                            *)
          digest   (* what it hashed the installed artifact to             *)

vars == <<path, data, pc, handle, tensor, digest>>

Active(r) == pc[r] \notin {"idle", "stopped", "done"}
Exists(p) == path[p] # None
Goto(r, step) == pc' = [pc EXCEPT ![r] = step]
Whole(r) == [i \in 1 .. Tensors + 1 |-> <<r, i - 1>>]

Init ==
  /\ path = [p \in Paths |-> None] /\ data = [f \in Files |-> <<>>]
  /\ pc = [r \in Runs |-> "idle"]
  /\ handle = [r \in Runs |-> None] /\ tensor = [r \in Runs |-> 1]
  /\ digest = [r \in Runs |-> None]

(* The names that must be free before the tool does anything, and the slip *)
(* of looking at the artifact or at the sidecars only.                     *)
MustBeFreeArtifact == {Installed("gguf")}
MustBeFreeSidecars == {Installed(s) : s \in Sidecars}
MustBeFree == {Installed(n) : n \in Names}

(* Checks, then minutes of planning and hashing the source.                *)
Start(r) ==
  /\ pc[r] = "idle" /\ (Concurrent \/ \A q \in Runs : ~Active(q))
  /\ Goto(r, IF \E p \in MustBeFree : Exists(p) THEN "stopped" ELSE "planned")
  /\ UNCHANGED <<path, data, handle, tensor, digest>>

(* Every temporary must be free as well.                                   *)
Claim(r, name, from, to) ==
  /\ pc[r] = from
  /\ Goto(r, IF Exists(Partial(name)) THEN "stopped" ELSE to)
  /\ UNCHANGED <<path, data, handle, tensor, digest>>

(* Opening for writing truncates what is there or creates a file.          *)
Create(r, name, pieces) ==
  LET file == IF Exists(Partial(name)) THEN path[Partial(name)] ELSE <<r, name>>
  IN /\ path' = [path EXCEPT ![Partial(name)] = file]
     /\ data' = [data EXCEPT ![file] = pieces]

WriteMetadata(r) ==
  /\ pc[r] = "claimed" /\ Create(r, "gguf", <<<<r, 0>>>>)
  /\ Goto(r, "written") /\ UNCHANGED <<handle, tensor, digest>>

OpenToAppend(r) ==
  /\ pc[r] = "written"
  /\ LET file == IF Exists(Partial("gguf")) THEN path[Partial("gguf")] ELSE <<r, "reopened">>
     IN /\ path' = [path EXCEPT ![Partial("gguf")] = file]
        /\ handle' = [handle EXCEPT ![r] = file]
  /\ Goto(r, "appending") /\ UNCHANGED <<data, tensor, digest>>

(* A tensor is read, converted and appended with its padding; every stream *)
(* is tested, so a short write stops the run.                              *)
CarriesOn(r) == UNCHANGED pc
StopsOnShortWrite(r) == Goto(r, "stopped")

WriteTensor(r) ==
  /\ pc[r] = "appending" /\ tensor[r] <= Tensors
  /\ tensor' = [tensor EXCEPT ![r] = @ + 1]
  /\ \/ /\ data' = [data EXCEPT ![handle[r]] = Append(@, <<r, tensor[r]>>)]
        /\ UNCHANGED pc
     \/ /\ data' = [data EXCEPT ![handle[r]] = Append(@, Torn)]
        /\ StopsOnShortWrite(r)
  /\ UNCHANGED <<path, handle, digest>>

(* rename() replaces what the target names.                                *)
Rename(name) ==
  path' = [path EXCEPT ![Installed(name)] = path[Partial(name)],
                       ![Partial(name)] = None]

Install(r) ==
  /\ pc[r] = "appending" /\ tensor[r] > Tensors
  /\ handle' = [handle EXCEPT ![r] = None]
  /\ IF Exists(Partial("gguf")) THEN Rename("gguf") /\ Goto(r, "installed")
                                ELSE UNCHANGED path /\ Goto(r, "stopped")
  /\ UNCHANGED <<data, tensor, digest>>

(* What gets hashed: the installed file, not what the run meant to write.  *)
Hash(r) ==
  /\ pc[r] = "installed"
  /\ IF Exists(Installed("gguf"))
     THEN /\ digest' = [digest EXCEPT ![r] = data[path[Installed("gguf")]]]
          /\ Goto(r, "hashed")
     ELSE UNCHANGED digest /\ Goto(r, "stopped")
  /\ UNCHANGED <<path, data, handle, tensor>>

(* write_text_atomically: a sidecar names the hashed artifact.             *)
WriteSidecar(r, name, from, to) ==
  /\ pc[r] = from
  /\ \/ Create(r, name, <<digest[r]>>) /\ Goto(r, to)
     \/ Create(r, name, <<Torn>>) /\ Goto(r, "stopped")
  /\ UNCHANGED <<handle, tensor, digest>>

InstallSidecar(r, name, from, to) ==
  /\ pc[r] = from
  /\ IF Exists(Partial(name)) THEN Rename(name) /\ Goto(r, to)
                              ELSE UNCHANGED path /\ Goto(r, "stopped")
  /\ UNCHANGED <<data, handle, tensor, digest>>

(* A kill, or a call that failed without writing.                          *)
Stop(r) ==
  /\ Active(r) /\ Goto(r, "stopped") /\ handle' = [handle EXCEPT ![r] = None]
  /\ UNCHANGED <<path, data, tensor, digest>>

(* The user tidies up: any file, but none under a running tool.            *)
Remove ==
  /\ \A r \in Runs : ~Active(r)
  /\ \E p \in Paths : Exists(p) /\ path' = [path EXCEPT ![p] = None]
  /\ UNCHANGED <<data, pc, handle, tensor, digest>>

Run(r) ==
  \/ Start(r)
  \/ Claim(r, "gguf", "planned", "claimed")
  \/ WriteMetadata(r) \/ OpenToAppend(r) \/ WriteTensor(r)
  \/ Install(r) \/ Hash(r)
  \/ Claim(r, "sha256", "hashed", "sha256 claimed")
  \/ WriteSidecar(r, "sha256", "sha256 claimed", "sha256 written")
  \/ InstallSidecar(r, "sha256", "sha256 written", "sha256 installed")
  \/ Claim(r, "manifest", "sha256 installed", "manifest claimed")
  \/ WriteSidecar(r, "manifest", "manifest claimed", "manifest written")
  \/ InstallSidecar(r, "manifest", "manifest written", "done")

Next == (\E r \in Runs : Run(r) \/ Stop(r)) \/ Remove

Spec == Init /\ [][Next]_vars

-----------------------------------------------------------------------------
(* Under its final name an artifact is complete, and all of it was written *)
(* by one run: whatever was interrupted left a .partial only.              *)
InstalledIsWhole ==
  Exists(Installed("gguf")) =>
    \E r \in Runs : data[path[Installed("gguf")]] = Whole(r)

(* An artifact and a sidecar found together belong together, also after    *)
(* runs that stopped half-way and users who removed one of the three.      *)
SidecarsDescribe ==
  \A name \in Sidecars :
    Exists(Installed(name)) /\ Exists(Installed("gguf"))
      => data[path[Installed(name)]] = <<data[path[Installed("gguf")]]>>

(* "quantized artifacts are never overwritten" (levo-quantize.cpp:503):    *)
(* once installed, a file changes no more until the user removes it.       *)
NeverOverwritten ==
  [][\A name \in Names : LET p == Installed(name) IN
       Exists(p) => \/ path'[p] = None
                    \/ path'[p] = path[p] /\ data'[path[p]] = data[path[p]]]_vars
=============================================================================
