----------------------------- MODULE Publisher -----------------------------
(***************************************************************************)
(* tools/upload_ckpts.py --publish: runs that copy the components of a     *)
(* frozen release into a bucket whose keys must never be reused, one after *)
(* the other, with a manifest for the next run.  Runs crash, replies get   *)
(* lost, and two runs exclude each other only if they use one manifest.    *)
(***************************************************************************)
EXTENDS Integers

CONSTANTS Publishers,
          Count,            (* components of a release                     *)
          Releases,         (* frozen identities for the same keys         *)
          OneManifest       (* whether all runs name the same manifest     *)

None == "none"

ASSUME PublisherAssumption ==
  /\ Count \in Nat \ {0} /\ OneManifest \in BOOLEAN
  /\ None \notin Publishers \cup Releases

VARIABLES
  release,    (* publisher -> the identities it was built with             *)
  pc, at,     (* publisher -> its next step, and the component             *)
  file,       (* publisher -> what it downloaded                           *)
  known,      (* publisher -> the manifest in memory                       *)
  reason,     (* publisher -> why its last run ended                       *)
  bucket,     (* component -> the object under its key                     *)
  manifest,   (* place -> the manifest on disk                             *)
  lock,       (* place -> who holds the lock beside it                     *)
  stored,     (* ghost: component -> every object it ever had              *)
  cut         (* ghost: places where a run was killed inside write_json    *)

run == <<pc, at, file, known, reason>>
vars == <<release, run, bucket, manifest, lock, stored, cut>>

Components == 1 .. Count
Garbage == "garbage"

(* An object: its bytes, and the sha256 in its metadata.                   *)
Object(content, sha) == [content |-> content, sha256 |-> sha]
NoObject == Object(None, None)

Nothing == [c \in Components |-> None]
Places == IF OneManifest THEN {"release-state"} ELSE Publishers
PlaceOf(p) == IF OneManifest THEN "release-state" ELSE p

Init ==
  /\ release \in [Publishers -> Releases]
  /\ pc = [p \in Publishers |-> "idle"] /\ at = [p \in Publishers |-> 1]
  /\ file = [p \in Publishers |-> None] /\ known = [p \in Publishers |-> Nothing]
  /\ reason = [p \in Publishers |-> None]
  /\ bucket \in [Components -> {NoObject} \cup {Object(r, r) : r \in Releases}]
  /\ manifest = [m \in Places |-> [torn |-> FALSE, records |-> Nothing]]
  /\ lock = [m \in Places |-> None]
  /\ stored = [c \in Components |-> {bucket[c]} \ {NoObject}]
  /\ cut = {}

Step(p, next) == pc' = [pc EXCEPT ![p] = next]
Here(p) == bucket[at[p]]
SameRun == UNCHANGED <<release, at, file, known, reason>>
SameWorld == UNCHANGED <<bucket, manifest, lock, stored, cut>>

(* The process ends and the system drops its lock.                         *)
Ends(p, why) ==
  /\ Step(p, IF why = "published" THEN "published" ELSE "idle")
  /\ reason' = [reason EXCEPT ![p] = why]
  /\ lock' = [m \in Places |-> IF lock[m] = p THEN None ELSE lock[m]]
  /\ UNCHANGED <<release, at, file, known, bucket, stored>>
Fails(p, why) == Ends(p, why) /\ UNCHANGED <<manifest, cut>>

(* publication_lock, which does not wait.                                  *)
Unlocked(p) == TRUE
LockIsFree(p) == lock[PlaceOf(p)] = None

Start(p) ==
  /\ pc[p] = "idle"
  /\ IF LockIsFree(p)
     THEN /\ Step(p, "load") /\ lock' = [lock EXCEPT ![PlaceOf(p)] = p]
          /\ at' = [at EXCEPT ![p] = 1] /\ reason' = [reason EXCEPT ![p] = None]
          /\ UNCHANGED <<release, file, known, bucket, manifest, stored, cut>>
     ELSE Fails(p, "locked")

LoadManifest(p) ==
  /\ pc[p] = "load"
  /\ IF manifest[PlaceOf(p)].torn THEN Fails(p, "invalid manifest")
     ELSE /\ known' = [known EXCEPT ![p] = manifest[PlaceOf(p)].records]
          /\ Step(p, "head") /\ SameWorld /\ UNCHANGED <<release, at, file, reason>>

(* verify_existing_object: the length, which every release shares, and the *)
(* metadata; the bytes are not read again.                                 *)
LengthMatches(p) == Here(p) # NoObject
Refused(p) == FALSE
Matches(p) == Here(p).sha256 = release[p]

(* upload_component, up to its return.                                     *)
HeadObject(p) ==
  /\ pc[p] = "head"
  /\ IF Here(p) = NoObject THEN Step(p, "download") /\ SameRun /\ SameWorld
     ELSE IF Matches(p) THEN Step(p, "record") /\ SameRun /\ SameWorld
     ELSE Fails(p, "different object")

AnyDownload(p, content) == TRUE
VerifyDownload(p, content) == content = release[p]

Download(p) ==
  /\ pc[p] = "download"
  /\ \E content \in {release[p], Garbage} :
       IF VerifyDownload(p, content)
       THEN /\ file' = [file EXCEPT ![p] = content] /\ Step(p, "preflight")
            /\ SameWorld /\ UNCHANGED <<release, at, known, reason>>
       ELSE Fails(p, "bad download")

Preflight(p) ==
  /\ pc[p] = "preflight"
  /\ IF Here(p) # NoObject THEN Fails(p, "refusing to overwrite")
     ELSE Step(p, "upload") /\ SameRun /\ SameWorld

(* upload_file puts the object under the key, whatever is there by now.    *)
Upload(p) ==
  /\ pc[p] = "upload"
  /\ bucket' = [bucket EXCEPT ![at[p]] = Object(file[p], release[p])]
  /\ stored' = [stored EXCEPT ![at[p]] = @ \cup {bucket'[at[p]]}]
  /\ Step(p, "confirm") /\ SameRun /\ UNCHANGED <<manifest, lock, cut>>

Confirm(p) ==
  /\ pc[p] = "confirm"
  /\ IF Matches(p) THEN Step(p, "record") /\ SameRun /\ SameWorld
     ELSE Fails(p, "different object")

(* update_manifest: write_text truncates the file, then writes it.         *)
Record(p) ==
  /\ pc[p] = "record"
  /\ IF known[p][at[p]] \notin {None, release[p]} THEN Fails(p, "different record")
     ELSE /\ known' = [known EXCEPT ![p][at[p]] = release[p]]
          /\ manifest' = [manifest EXCEPT ![PlaceOf(p)].torn = TRUE]
          /\ Step(p, "write") /\ UNCHANGED <<release, at, file, reason, bucket, lock, stored, cut>>

WriteManifest(p) ==
  /\ pc[p] = "write"
  /\ manifest' = [manifest EXCEPT ![PlaceOf(p)] = [torn |-> FALSE, records |-> known[p]]]
  /\ IF at[p] = Count THEN Step(p, "public") /\ at' = [at EXCEPT ![p] = 1]
     ELSE Step(p, "head") /\ at' = [at EXCEPT ![p] = @ + 1]
  /\ UNCHANGED <<release, file, known, reason, bucket, lock, stored, cut>>

(* verify_public: length, cache policy and ranges, not the bytes.          *)
VerifyPublic(p) ==
  /\ pc[p] = "public"
  /\ IF ~LengthMatches(p) THEN Fails(p, "not public")
     ELSE IF at[p] = Count THEN Fails(p, "published")
     ELSE /\ at' = [at EXCEPT ![p] = @ + 1] /\ SameWorld
          /\ UNCHANGED <<release, pc, file, known, reason>>

(* A network error, also one that hides a finished upload.                 *)
NetworkFails(p) ==
  /\ pc[p] \in {"head", "download", "preflight", "upload", "confirm", "public"}
  /\ Fails(p, "network")

(* The process is killed; a manifest it was writing stays cut.             *)
Crash(p) ==
  /\ pc[p] \notin {"idle", "published"}
  /\ Ends(p, "crash") /\ UNCHANGED manifest
  /\ cut' = IF pc[p] = "write" THEN cut \cup {PlaceOf(p)} ELSE cut

(* A maintainer removes a manifest no run can read.                        *)
RemoveTorn(m) ==
  /\ manifest[m].torn /\ lock[m] = None
  /\ manifest' = [manifest EXCEPT ![m] = [torn |-> FALSE, records |-> Nothing]]
  /\ UNCHANGED <<release, run, bucket, lock, stored, cut>>

Again(p) ==
  /\ pc[p] = "published" /\ Step(p, "idle")
  /\ SameWorld /\ UNCHANGED <<release, at, file, known, reason>>

Next ==
  \/ \E p \in Publishers :
       \/ Start(p) \/ LoadManifest(p) \/ HeadObject(p) \/ Download(p)
       \/ Preflight(p) \/ Upload(p) \/ Confirm(p) \/ Record(p) \/ WriteManifest(p)
       \/ VerifyPublic(p) \/ NetworkFails(p) \/ Crash(p) \/ Again(p)
  \/ \E m \in Places : RemoveTorn(m)

Spec == Init /\ [][Next]_vars

-----------------------------------------------------------------------------
(* "refuses to replace an existing object" (upload_ckpts.py): no key ever  *)
(* holds two different objects, however runs crash and restart.            *)
NeverReplaced == \A c \in Components : \A a, b \in stored[c] : a = b

(* A run that reports success leaves every component of its release, with  *)
(* the right bytes, under its key.                                         *)
PublishedIsWhole ==
  \A p \in Publishers : pc[p] = "published" =>
    \A c \in Components : bucket[c] = Object(release[p], release[p])

(* What the manifest records is in the bucket under the identity it says,  *)
(* also when a run ended half way.                                         *)
ManifestIsTrue ==
  \A m \in Places : \A c \in Components :
    manifest[m].records[c] # None => bucket[c].sha256 = manifest[m].records[c]

(* A run is refused for what it finds in the bucket or in its manifest     *)
(* only where the bucket has an object of another release, or a run was    *)
(* killed inside write_json: never over what else an earlier run of the    *)
(* release left behind, nor over a manifest that is just being written.    *)
(* (upload_component, update_manifest, publication_lock.)                  *)
Refusals == {"different object", "different record", "refusing to overwrite", "not public",
             "invalid manifest"}

RetryIsWelcome ==
  \A p \in Publishers : reason[p] \in Refusals =>
    \/ reason[p] = "invalid manifest" /\ PlaceOf(p) \in cut
    \/ \E c \in Components : bucket[c].sha256 \notin {None, release[p]}

(* The "private idempotency manifest" (docs/cloudflare-release-plan.md)    *)
(* lets the same publish run again, wherever the last one was stopped.     *)
(* The code does not keep this: a kill inside write_json leaves a torn     *)
(* manifest, which every later run refuses.                                *)
ManifestSurvivesCrash == \A p \in Publishers : reason[p] # "invalid manifest"
=============================================================================
