---------------------------- MODULE FilesProofs ----------------------------
(***************************************************************************)
(* For any number of runs, components and releases, wherever runs crash or *)
(* lose replies: runs that share a manifest never replace an object, and   *)
(* what a run or the manifest says is published is in the bucket.  For any *)
(* tensors and any kills and refused renames: files the quantizer          *)
(* installed are whole, match and stay.  For any number of calls: the two  *)
(* files of a pair are of one call.  For any number of steps on an         *)
(* artifact's way: converter, quantizer, loader and graphs agree on it.    *)
(***************************************************************************)
EXTENDS FilesMC, SequenceTheorems, TLAPS

ControlPoints == {"idle", "load", "head", "download", "preflight", "upload", "confirm",
                  "record", "write", "public", "published"}
PerComponent == {"head", "download", "preflight", "upload", "confirm", "record", "write"}

Objects == {NoObject} \cup {Object(r, r) : r \in Releases}
Records == [Components -> Releases \cup {None}]

(* Every object in the bucket is a whole component of some release.        *)
TypeInv ==
  /\ release \in [Publishers -> Releases]
  /\ pc \in [Publishers -> ControlPoints] /\ at \in [Publishers -> Components]
  /\ file \in [Publishers -> Releases \cup {None}]
  /\ known \in [Publishers -> Records]
  /\ bucket \in [Components -> Objects]
  /\ manifest \in [Places -> [torn : BOOLEAN, records : Records]]
  /\ lock \in [Places -> Publishers \cup {None}]
  /\ stored \in [Components -> SUBSET Objects]

(* A run that does anything holds the lock of its manifest.                *)
LockInv == \A p \in Publishers : pc[p] \notin {"idle", "published"} => lock[PlaceOf(p)] = p

(* A run starts with the first component.                                  *)
StartInv == \A p \in Publishers : pc[p] = "load" => at[p] = 1

(* An upload is of a verified file, to a key nobody has used.              *)
UploadInv ==
  \A p \in Publishers :
    /\ pc[p] \in {"preflight", "upload"} => file[p] = release[p]
    /\ pc[p] = "upload" => bucket[at[p]] = NoObject

(* What was ever stored under a key is still there.                        *)
StoredInv == \A c \in Components : \A o \in stored[c] : o = bucket[c] /\ o # NoObject

(* The components a run is done with.                                      *)
Done(p, c) ==
  \/ pc[p] \in PerComponent /\ c < at[p]
  \/ pc[p] \in {"record", "write"} /\ c = at[p]
  \/ pc[p] \in {"public", "published"}
DoneInv ==
  \A p \in Publishers : \A c \in Components :
    Done(p, c) => bucket[c] = Object(release[p], release[p])

(* What a run has in memory of the manifest is as true as the manifest.    *)
KnownInv ==
  \A p \in Publishers : \A c \in Components :
    known[p][c] # None => bucket[c].sha256 = known[p][c]

IInv ==
  /\ TypeInv /\ LockInv /\ StartInv /\ UploadInv
  /\ StoredInv /\ DoneInv /\ KnownInv /\ ManifestIsTrue

-----------------------------------------------------------------------------
(* Whole objects are distinct from no object, and have an identity.        *)
LEMMA ObjectFacts ==
  /\ \A r \in Releases : Object(r, r) # NoObject /\ Object(r, r).sha256 = r /\ r # None
  /\ NoObject.sha256 = None
  /\ \A o \in Objects : o # NoObject => o.sha256 \in Releases /\ o = Object(o.sha256, o.sha256)
<1> USE PublisherAssumption DEF Objects, Object, NoObject
<1>1. \A r \in Releases : Object(r, r) # NoObject /\ Object(r, r).sha256 = r /\ r # None
  OBVIOUS
<1>2. NoObject.sha256 = None
  OBVIOUS
<1>3. \A o \in Objects : o # NoObject => o.sha256 \in Releases /\ o = Object(o.sha256, o.sha256)
  OBVIOUS
<1> QED
  BY <1>1, <1>2, <1>3

(* Before the first run nothing is known, and each key holds what it had.  *)
LEMMA InitIInv == Init => IInv
<1> SUFFICES ASSUME Init PROVE IInv
  OBVIOUS
<1> USE PublisherAssumption DEF Init
<1>1. TypeInv
  <2>1. Nothing \in Records /\ 1 \in Components
    BY DEF Nothing, Records, Components
  <2>2. bucket \in [Components -> Objects]
    BY DEF Objects
  <2>3. stored \in [Components -> SUBSET Objects]
    BY <2>2
  <2>4. manifest \in [Places -> [torn : BOOLEAN, records : Records]]
    BY <2>1
  <2> QED
    BY <2>1, <2>2, <2>3, <2>4 DEF TypeInv, ControlPoints
<1>2. LockInv /\ StartInv /\ UploadInv
  BY DEF LockInv, StartInv, UploadInv
<1>3. StoredInv
  BY DEF StoredInv
<1>4. DoneInv
  BY DEF DoneInv, Done, PerComponent
<1>5. KnownInv /\ ManifestIsTrue
  BY DEF KnownInv, ManifestIsTrue, Nothing
<1> QED
  BY <1>1, <1>2, <1>3, <1>4, <1>5 DEF IInv

(* An object, once there, stays: an upload meets an empty key only.        *)
LEMMA ObjectsStay ==
  ASSUME IInv, [Next]_vars
  PROVE  \A c \in Components : bucket[c] # NoObject => bucket'[c] = bucket[c]
<1>1. CASE bucket' = bucket
  BY <1>1
<1>2. ASSUME NEW p \in Publishers, Upload(p)
      PROVE  \A c \in Components : bucket[c] # NoObject => bucket'[c] = bucket[c]
  BY <1>2 DEF IInv, TypeInv, UploadInv, Upload
<1>3. bucket' = bucket \/ \E p \in Publishers : Upload(p)
  BY DEF Next, vars, run, Start, LoadManifest, HeadObject, Download, Preflight, Confirm, Record,
         WriteManifest, VerifyPublic, NetworkFails, Crash, Again, RemoveTorn, Fails, Ends,
         SameWorld
<1> QED
  BY <1>1, <1>2, <1>3

(* Every step keeps the types, and puts whole components into the bucket.  *)
LEMMA TypeNext == IInv /\ [Next]_vars => TypeInv'
<1> SUFFICES ASSUME IInv, [Next]_vars PROVE TypeInv'
  OBVIOUS
<1> USE DEF IInv, TypeInv
<1>1. ASSUME NEW p \in Publishers,
             Start(p) \/ LoadManifest(p) \/ HeadObject(p) \/ Download(p) \/ Preflight(p) \/ Confirm(p)
      PROVE  TypeInv'
  <2>1. PlaceOf(p) \in Places /\ 1 \in Components
    BY PublisherAssumption DEF PlaceOf, Places, Components
  <2>2. CASE Start(p)
    BY <2>1, <2>2, SMTT(20) DEF Start, Step, Fails, Ends, ControlPoints
  <2>3. CASE LoadManifest(p)
    BY <2>1, <2>3, ZenonT(30) DEF LoadManifest, Step, Fails, Ends, SameWorld, ControlPoints
  <2>4. CASE HeadObject(p)
    BY <2>4 DEF HeadObject, Step, Fails, Ends, SameWorld, SameRun, ControlPoints
  <2>5. CASE Download(p)
    BY <2>5 DEF Download, VerifyDownload, Step, Fails, Ends, SameWorld, ControlPoints
  <2>6. CASE Preflight(p)
    BY <2>6 DEF Preflight, Step, Fails, Ends, SameWorld, SameRun, ControlPoints
  <2>7. CASE Confirm(p)
    BY <2>7 DEF Confirm, Step, Fails, Ends, SameWorld, SameRun, ControlPoints
  <2> QED
    BY <1>1, <2>2, <2>3, <2>4, <2>5, <2>6, <2>7
<1>2. ASSUME NEW p \in Publishers, Upload(p)
      PROVE  TypeInv'
  <2>1. Object(file[p], release[p]) \in Objects
    BY <1>2 DEF UploadInv, Upload, Objects
  <2> QED
    BY <1>2, <2>1 DEF Upload, Step, SameRun, ControlPoints
<1>3. ASSUME NEW p \in Publishers, Record(p)
      PROVE  TypeInv'
  <2>1. CASE known[p][at[p]] \notin {None, release[p]}
    BY <1>3, <2>1, ZenonT(30) DEF Record, Step, Fails, Ends, ControlPoints
  <2>2. CASE known[p][at[p]] \in {None, release[p]}
    <3>1. PlaceOf(p) \in Places
      BY DEF PlaceOf, Places
    <3>2. known' \in [Publishers -> Records]
      <4>1. [known[p] EXCEPT ![at[p]] = release[p]] \in Records
        BY DEF Records
      <4>2. known' = [known EXCEPT ![p] = [known[p] EXCEPT ![at[p]] = release[p]]]
        BY <1>3, <2>2 DEF Record
      <4> QED
        BY <4>1, <4>2
    <3>3. manifest' \in [Places -> [torn : BOOLEAN, records : Records]]
      <4>1. [manifest[PlaceOf(p)] EXCEPT !.torn = TRUE] \in [torn : BOOLEAN, records : Records]
        BY <3>1
      <4>2. manifest' = [manifest EXCEPT ![PlaceOf(p)] = [manifest[PlaceOf(p)] EXCEPT !.torn = TRUE]]
        BY <1>3, <2>2 DEF Record
      <4> QED
        BY <4>1, <4>2
    <3> QED
      BY <1>3, <2>2, <3>2, <3>3 DEF Record, Step, ControlPoints
  <2> QED
    BY <2>1, <2>2
<1>4. ASSUME NEW p \in Publishers, WriteManifest(p)
      PROVE  TypeInv'
  <2>1. PlaceOf(p) \in Places /\ 1 \in Components
    BY PublisherAssumption DEF PlaceOf, Places, Components
  <2>2. at' \in [Publishers -> Components] /\ pc' \in [Publishers -> ControlPoints]
    <3>1. at[p] # Count => at[p] + 1 \in Components
      BY PublisherAssumption DEF Components
    <3>2. CASE at[p] = Count
      BY <1>4, <2>1, <3>2 DEF WriteManifest, Step, ControlPoints
    <3>3. CASE at[p] # Count
      BY <1>4, <3>1, <3>3 DEF WriteManifest, Step, ControlPoints
    <3> QED
      BY <3>2, <3>3
  <2>3. manifest' \in [Places -> [torn : BOOLEAN, records : Records]]
    BY <1>4, <2>1 DEF WriteManifest
  <2> QED
    BY <1>4, <2>2, <2>3 DEF WriteManifest
<1>5. ASSUME NEW p \in Publishers, VerifyPublic(p)
      PROVE  TypeInv'
  <2>1. at' \in [Publishers -> Components]
    <3>1. at[p] # Count => at[p] + 1 \in Components
      BY PublisherAssumption DEF Components
    <3> QED
      BY <1>5, <3>1 DEF VerifyPublic, Fails, Ends
  <2> QED
    BY <1>5, <2>1 DEF VerifyPublic, Step, Fails, Ends, SameWorld, ControlPoints
<1>6. ASSUME NEW p \in Publishers, NetworkFails(p) \/ Crash(p) \/ Again(p)
      PROVE  TypeInv'
  BY <1>6 DEF NetworkFails, Crash, Again, Step, Fails, Ends, SameWorld, ControlPoints
<1>7. ASSUME NEW m \in Places, RemoveTorn(m)
      PROVE  TypeInv'
  <2>1. Nothing \in Records
    BY DEF Nothing, Records
  <2> QED
    BY <1>7, <2>1 DEF RemoveTorn, run
<1>8. CASE UNCHANGED vars
  BY <1>8 DEF vars, run
<1> QED
  BY <1>1, <1>2, <1>3, <1>4, <1>5, <1>6, <1>7, <1>8 DEF Next

(* A lock is taken when free and dropped by its holder's end.              *)
LEMMA LockNext == IInv /\ [Next]_vars => LockInv'
<1> SUFFICES ASSUME IInv, [Next]_vars, NEW q \in Publishers,
                    pc'[q] \notin {"idle", "published"}
             PROVE  lock'[PlaceOf(q)] = q
  BY DEF LockInv
<1> USE DEF IInv, TypeInv, LockInv
<1>1. PlaceOf(q) \in Places
  BY DEF PlaceOf, Places
<1>2. ASSUME NEW p \in Publishers, NEW why, Ends(p, why)
      PROVE  lock'[PlaceOf(q)] = q
  BY <1>1, <1>2 DEF Ends, Step
<1>3. ASSUME NEW p \in Publishers, Start(p)
      PROVE  lock'[PlaceOf(q)] = q
  BY <1>1, <1>2, <1>3, PublisherAssumption DEF Start, Step, Fails, LockIsFree
<1>4. ASSUME NEW p \in Publishers, lock' = lock, pc[p] \notin {"idle", "published"},
             \A r \in Publishers : r # p => pc'[r] = pc[r]
      PROVE  lock'[PlaceOf(q)] = q
  BY <1>4
<1>5. ASSUME NEW p \in Publishers,
             LoadManifest(p) \/ HeadObject(p) \/ Download(p) \/ Preflight(p) \/ Upload(p)
      PROVE  lock'[PlaceOf(q)] = q
  BY <1>2, <1>4, <1>5
     DEF LoadManifest, HeadObject, Download, Preflight, Upload, Fails, Step, SameWorld
<1>6. ASSUME NEW p \in Publishers,
             Confirm(p) \/ Record(p) \/ WriteManifest(p) \/ VerifyPublic(p)
      PROVE  lock'[PlaceOf(q)] = q
  BY <1>2, <1>4, <1>6
     DEF Confirm, Record, WriteManifest, VerifyPublic, Fails, Step, SameWorld
<1>7. ASSUME NEW p \in Publishers, NetworkFails(p) \/ Crash(p)
      PROVE  lock'[PlaceOf(q)] = q
  BY <1>2, <1>7 DEF NetworkFails, Crash, Fails
<1>8. CASE (\E p \in Publishers : Again(p)) \/ (\E m \in Places : RemoveTorn(m)) \/ UNCHANGED vars
  BY <1>8 DEF Again, RemoveTorn, Step, SameWorld, vars, run
<1> QED
  BY <1>3, <1>5, <1>6, <1>7, <1>8 DEF Next

(* Only a start leads to the manifest's being loaded.                      *)
LEMMA StartNext == IInv /\ [Next]_vars => StartInv'
<1> SUFFICES ASSUME IInv, [Next]_vars PROVE StartInv'
  OBVIOUS
<1> USE DEF IInv, TypeInv, StartInv, ControlPoints, Step, Fails, Ends, SameRun, SameWorld
<1>1. ASSUME NEW p \in Publishers, Start(p) \/ LoadManifest(p) \/ Again(p)
      PROVE  StartInv'
  BY <1>1 DEF Start, LoadManifest, Again
<1>2. ASSUME NEW p \in Publishers, HeadObject(p) \/ Download(p) \/ Preflight(p) \/ Upload(p)
      PROVE  StartInv'
  BY <1>2 DEF HeadObject, Download, Preflight, Upload
<1>3. ASSUME NEW p \in Publishers, Confirm(p) \/ Record(p) \/ WriteManifest(p) \/ VerifyPublic(p)
      PROVE  StartInv'
  BY <1>3 DEF Confirm, Record, WriteManifest, VerifyPublic
<1>4. ASSUME NEW p \in Publishers, NetworkFails(p) \/ Crash(p)
      PROVE  StartInv'
  BY <1>4 DEF NetworkFails, Crash
<1>5. CASE (\E m \in Places : RemoveTorn(m)) \/ UNCHANGED vars
  BY <1>5 DEF RemoveTorn, vars, run
<1> QED
  BY <1>1, <1>2, <1>3, <1>4, <1>5 DEF Next

(* What is stored stays equal to the bucket, and an upload adds one object *)
(* to a key that had none.                                                 *)
LEMMA StoredNext == IInv /\ [Next]_vars => StoredInv'
<1> SUFFICES ASSUME IInv, [Next]_vars, NEW c \in Components, NEW o \in stored'[c]
             PROVE  o = bucket'[c] /\ o # NoObject
  BY DEF StoredInv
<1>1. CASE stored' = stored /\ bucket' = bucket
  BY <1>1 DEF IInv, StoredInv
<1>2. ASSUME NEW p \in Publishers, Upload(p)
      PROVE  o = bucket'[c] /\ o # NoObject
  <2>1. bucket[at[p]] = NoObject /\ Object(file[p], release[p]) # NoObject
    BY <1>2, ObjectFacts DEF IInv, TypeInv, UploadInv, Upload
  <2>2. stored[at[p]] = {}
    BY <2>1, <1>2 DEF IInv, TypeInv, StoredInv
  <2>3. /\ bucket' = [bucket EXCEPT ![at[p]] = Object(file[p], release[p])]
        /\ stored' = [stored EXCEPT ![at[p]] = @ \cup {bucket'[at[p]]}]
    BY <1>2 DEF Upload
  <2>4. at[p] \in Components
    BY <1>2 DEF IInv, TypeInv
  <2> QED
    BY <2>1, <2>2, <2>3, <2>4 DEF IInv, TypeInv, StoredInv
<1>3. (stored' = stored /\ bucket' = bucket) \/ \E p \in Publishers : Upload(p)
  BY ZenonT(30) DEF Next, vars, run, Start, LoadManifest, HeadObject, Download, Preflight, Confirm, Record,
         WriteManifest, VerifyPublic, NetworkFails, Crash, Again, RemoveTorn, Fails, Ends,
         SameWorld
<1> QED
  BY <1>1, <1>2, <1>3

(* With one manifest there is one lock, and one run that does anything:    *)
(* nobody creates the key between a run's last look and its upload.        *)
LEMMA UploadNext == OneManifest /\ IInv /\ [Next]_vars => UploadInv'
<1> SUFFICES ASSUME OneManifest, IInv, [Next]_vars, NEW q \in Publishers
             PROVE  /\ pc'[q] \in {"preflight", "upload"} => file'[q] = release'[q]
                    /\ pc'[q] = "upload" => bucket'[at'[q]] = NoObject
  BY DEF UploadInv
<1> USE DEF IInv, TypeInv, UploadInv
<1>1. \A p \in Publishers : pc[p] \notin {"idle", "published"} /\ pc[q] \notin {"idle", "published"}
                            => p = q
  BY DEF LockInv, PlaceOf
<1>2. ASSUME NEW p \in Publishers,
             Start(p) \/ LoadManifest(p) \/ HeadObject(p) \/ Confirm(p) \/ Again(p)
      PROVE  UploadInv'
  BY <1>2, ZenonT(30) DEF Start, LoadManifest, HeadObject, Confirm, Again, Step, Fails, Ends, SameRun, SameWorld
<1>3. ASSUME NEW p \in Publishers, Download(p) \/ Preflight(p)
      PROVE  UploadInv'
  BY <1>3, ZenonT(30) DEF Download, Preflight, VerifyDownload, Here, Step, Fails, Ends, SameRun, SameWorld
<1>4. ASSUME NEW p \in Publishers, Upload(p)
      PROVE  /\ pc'[q] \in {"preflight", "upload"} => file'[q] = release'[q]
             /\ pc'[q] = "upload" => bucket'[at'[q]] = NoObject
  <2>1. CASE q = p
    BY <1>4, <2>1 DEF Upload, Step
  <2>2. CASE q # p
    <3>1. pc'[q] = pc[q] /\ pc[q] \in {"idle", "published"}
      BY <1>1, <1>4, <2>2 DEF Upload, Step
    <3> QED
      BY <3>1
  <2> QED
    BY <2>1, <2>2
<1>5. ASSUME NEW p \in Publishers, Record(p) \/ WriteManifest(p) \/ VerifyPublic(p)
      PROVE  UploadInv'
  BY <1>5, ZenonT(30) DEF Record, WriteManifest, VerifyPublic, Step, Fails, Ends, SameWorld
<1>6. ASSUME NEW p \in Publishers, NetworkFails(p) \/ Crash(p)
      PROVE  UploadInv'
  BY <1>6 DEF NetworkFails, Crash, Step, Fails, Ends
<1>7. CASE (\E m \in Places : RemoveTorn(m)) \/ UNCHANGED vars
  BY <1>7 DEF RemoveTorn, vars, run
<1>8. UploadInv' => (/\ pc'[q] \in {"preflight", "upload"} => file'[q] = release'[q]
                     /\ pc'[q] = "upload" => bucket'[at'[q]] = NoObject)
  OBVIOUS
<1> QED
  BY <1>2, <1>3, <1>4, <1>5, <1>6, <1>7, <1>8 DEF Next

(* A run is done with a component only when its object is there.           *)
LEMMA DoneNext == IInv /\ [Next]_vars => DoneInv'
<1> SUFFICES ASSUME IInv, [Next]_vars, NEW q \in Publishers, NEW c \in Components, Done(q, c)'
             PROVE  bucket'[c] = Object(release'[q], release'[q])
  BY DEF DoneInv
<1>1. release' = release /\ release[q] \in Releases
  BY DEF IInv, TypeInv, Next, vars, run, Start, LoadManifest, HeadObject, Download, Preflight, Upload,
         Confirm, Record, WriteManifest, VerifyPublic, NetworkFails, Crash, Again, RemoveTorn,
         Fails, Ends, SameRun
<1>2. CASE Done(q, c)
  BY <1>1, <1>2, ObjectsStay, ObjectFacts DEF IInv, DoneInv
<1>3. CASE ~Done(q, c)
  <2> USE <1>3 DEF IInv, TypeInv, Done, PerComponent, ControlPoints
  <2>1. ASSUME NEW p \in Publishers, HeadObject(p) \/ Confirm(p)
        PROVE  bucket'[c] = Object(release'[q], release'[q])
    <3>1. bucket' = bucket
      BY <2>1 DEF HeadObject, Confirm, Fails, Ends, SameWorld
    <3>2. q = p /\ c = at[q] /\ Matches(q)
      BY <2>1 DEF HeadObject, Confirm, Step, Fails, Ends, SameRun
    <3> QED
      BY <1>1, <3>1, <3>2, ObjectFacts DEF Matches, Here
  <2>2. ASSUME NEW p \in Publishers, WriteManifest(p)
        PROVE  FALSE
    BY <2>2, PublisherAssumption DEF WriteManifest, Step, Components
  <2>3. ASSUME NEW p \in Publishers, Start(p) \/ LoadManifest(p) \/ Download(p) \/ Preflight(p)
        PROVE  FALSE
    <3>1. CASE Start(p)
      BY <3>1 DEF Start, Step, Fails, Ends
    <3>2. CASE LoadManifest(p)
      <4>1. at' = at /\ (Step(p, "idle") \/ Step(p, "head"))
        BY <3>2 DEF LoadManifest, Fails, Ends
      <4>2. pc[p] = "load"
        BY <3>2 DEF LoadManifest
      <4>3. at[p] = 1
        BY <4>2 DEF StartInv
      <4>4. ~(c < 1)
        BY PublisherAssumption DEF Components
      <4> QED
        BY <4>1, <4>3, <4>4 DEF Step
    <3>3. CASE Download(p)
      BY <3>3 DEF Download, Step, Fails, Ends
    <3>4. CASE Preflight(p)
      BY <3>4 DEF Preflight, Step, Fails, Ends, SameRun
    <3> QED
      BY <2>3, <3>1, <3>2, <3>3, <3>4
  <2>4. ASSUME NEW p \in Publishers, Upload(p) \/ Record(p) \/ VerifyPublic(p)
        PROVE  FALSE
    BY <2>4 DEF Upload, Record, VerifyPublic, Step, Fails, Ends, SameRun, SameWorld
  <2>5. ASSUME NEW p \in Publishers, NetworkFails(p) \/ Crash(p) \/ Again(p)
        PROVE  FALSE
    BY <2>5 DEF NetworkFails, Crash, Again, Step, Fails, Ends, SameWorld
  <2>6. CASE (\E m \in Places : RemoveTorn(m)) \/ UNCHANGED vars
    BY <2>6 DEF RemoveTorn, vars, run
  <2> QED
    BY <2>1, <2>2, <2>3, <2>4, <2>5, <2>6 DEF Next
<1> QED
  BY <1>2, <1>3

(* What is read of the manifest was true, and what is added to it was seen *)
(* in the bucket; neither can turn false, for objects stay.                *)
LEMMA KnownNext == IInv /\ [Next]_vars => KnownInv'
<1> SUFFICES ASSUME IInv, [Next]_vars, NEW q \in Publishers, NEW c \in Components,
                    known'[q][c] # None
             PROVE  bucket'[c].sha256 = known'[q][c]
  BY DEF KnownInv
<1>1. CASE known'[q][c] = known[q][c]
  BY <1>1, ObjectsStay, ObjectFacts DEF IInv, KnownInv, TypeInv
<1>2. ASSUME NEW p \in Publishers, LoadManifest(p), known'[q][c] # known[q][c]
      PROVE  bucket'[c].sha256 = known'[q][c]
  <2>1. bucket' = bucket /\ known'[q] = manifest[PlaceOf(q)].records /\ PlaceOf(q) \in Places
    BY <1>2, ZenonT(30) DEF IInv, TypeInv, LoadManifest, Fails, Ends, SameWorld, PlaceOf, Places
  <2> QED
    BY <2>1 DEF IInv, ManifestIsTrue
<1>3. ASSUME NEW p \in Publishers, Record(p), known'[q][c] # known[q][c]
      PROVE  bucket'[c].sha256 = known'[q][c]
  <2>1. /\ known' = [known EXCEPT ![p] = [known[p] EXCEPT ![at[p]] = release[p]]]
        /\ pc[p] = "record" /\ bucket' = bucket
    BY <1>3 DEF Record, Fails, Ends
  <2>2. q = p /\ c = at[p] /\ known'[q][c] = release[p]
    BY <1>3, <2>1 DEF IInv, TypeInv, Records
  <2>3. bucket[c] = Object(release[p], release[p])
    BY <2>1, <2>2 DEF IInv, DoneInv, Done
  <2> QED
    BY <2>1, <2>2, <2>3, ObjectFacts DEF IInv, TypeInv
<1>4. known' = known \/ \E p \in Publishers : LoadManifest(p) \/ Record(p)
  BY DEF Next, vars, run, Start, HeadObject, Download, Preflight, Upload, Confirm,
         WriteManifest, VerifyPublic, NetworkFails, Crash, Again, RemoveTorn, Fails, Ends,
         SameRun
<1> QED
  BY <1>1, <1>2, <1>3, <1>4

(* A manifest changes to what a run knows, or to nothing.                  *)
LEMMA ManifestNext == IInv /\ [Next]_vars => ManifestIsTrue'
<1> SUFFICES ASSUME IInv, [Next]_vars, NEW m \in Places, NEW c \in Components,
                    manifest'[m].records[c] # None
             PROVE  bucket'[c].sha256 = manifest'[m].records[c]
  BY DEF ManifestIsTrue, Places
<1>1. CASE manifest'[m].records = manifest[m].records
  BY <1>1, ObjectsStay, ObjectFacts DEF IInv, ManifestIsTrue, TypeInv
<1>2. ASSUME NEW p \in Publishers, WriteManifest(p),
             manifest'[m].records # manifest[m].records
      PROVE  bucket'[c].sha256 = manifest'[m].records[c]
  <2>1. manifest'[m].records = known[p] /\ bucket' = bucket
    BY <1>2 DEF IInv, TypeInv, WriteManifest
  <2> QED
    BY <2>1 DEF IInv, KnownInv
<1>3. ASSUME NEW n \in Places, RemoveTorn(n), manifest'[m].records # manifest[m].records
      PROVE  FALSE
  BY <1>3 DEF IInv, TypeInv, RemoveTorn, Nothing
<1>4. ASSUME NEW p \in Publishers, Record(p)
      PROVE  manifest'[m].records = manifest[m].records
  <2>1. CASE manifest' = manifest
    BY <2>1
  <2>2. CASE manifest' = [manifest EXCEPT ![PlaceOf(p)] = [manifest[PlaceOf(p)] EXCEPT !.torn = TRUE]]
    BY <2>2 DEF IInv, TypeInv
  <2> QED
    BY <1>4, <2>1, <2>2 DEF Record, Fails
<1>5. \/ manifest' = manifest
      \/ \E p \in Publishers : Record(p) \/ WriteManifest(p)
      \/ \E n \in Places : RemoveTorn(n)
  BY DEF Next, vars, run, Start, LoadManifest, HeadObject, Download, Preflight, Upload, Confirm,
         VerifyPublic, NetworkFails, Crash, Again, Fails, SameWorld
<1> QED
  BY <1>1, <1>2, <1>3, <1>4, <1>5

-----------------------------------------------------------------------------
(* The invariant of runs that share a manifest.                            *)
THEOREM Invariant == OneManifest => (Spec => []IInv)
<1> SUFFICES ASSUME OneManifest PROVE Spec => []IInv
  OBVIOUS
<1>1. Init => IInv
  BY InitIInv
<1>2. IInv /\ [Next]_vars => IInv'
  BY TypeNext, LockNext, StartNext, UploadNext, StoredNext, DoneNext, KnownNext, ManifestNext
     DEF IInv
<1> QED
  BY <1>1, <1>2, PTL DEF Spec

(* "Refuses to replace an existing object" (upload_ckpts.py): under one    *)
(* lock no key ever holds two objects, whatever crashes and restarts.      *)
THEOREM ObjectsAreImmutable == OneManifest => (Spec => []NeverReplaced)
<1> SUFFICES ASSUME OneManifest PROVE Spec => []NeverReplaced
  OBVIOUS
<1>1. IInv => NeverReplaced
  BY DEF IInv, StoredInv, NeverReplaced
<1> QED
  BY <1>1, Invariant, PTL

(* A run that reports success has its whole release in the bucket, though  *)
(* its last check reads lengths only.                                      *)
THEOREM SuccessIsWhole == OneManifest => (Spec => []PublishedIsWhole)
<1> SUFFICES ASSUME OneManifest PROVE Spec => []PublishedIsWhole
  OBVIOUS
<1>1. IInv => PublishedIsWhole
  BY DEF IInv, DoneInv, Done, PublishedIsWhole
<1> QED
  BY <1>1, Invariant, PTL

(* The manifest on disk never claims what the bucket does not hold.        *)
THEOREM ManifestNeverLies == OneManifest => (Spec => []ManifestIsTrue)
<1> SUFFICES ASSUME OneManifest PROVE Spec => []ManifestIsTrue
  OBVIOUS
<1>1. IInv => ManifestIsTrue
  BY DEF IInv
<1> QED
  BY <1>1, Invariant, PTL

(* Between its first look and its upload a run's key stays empty, and the  *)
(* upload fills it; and runs were refused only as RetryIsWelcome says.     *)
EmptyInv ==
  \A p \in Publishers :
    /\ pc[p] \in {"download", "preflight"} => bucket[at[p]] = NoObject
    /\ pc[p] = "confirm" => bucket[at[p]] # NoObject
ReasonInv == reason = [p \in Publishers |-> reason[p]]

(* A torn manifest is being written, or a run was killed writing it.       *)
TornInv ==
  \A m \in Places : manifest[m].torn =>
    m \in cut \/ \E p \in Publishers : pc[p] = "write" /\ PlaceOf(p) = m

RetryInv == EmptyInv /\ ReasonInv /\ TornInv /\ RetryIsWelcome

(* Only the run that holds the lock looks or uploads.                      *)
LEMMA EmptyNext == OneManifest /\ IInv /\ EmptyInv /\ [Next]_vars => EmptyInv'
<1> SUFFICES ASSUME OneManifest, IInv, EmptyInv, [Next]_vars PROVE EmptyInv'
  OBVIOUS
<1> USE DEF IInv, TypeInv, EmptyInv
<1>1. ASSUME NEW p \in Publishers, Start(p) \/ LoadManifest(p) \/ Again(p)
      PROVE  EmptyInv'
  BY <1>1 DEF Start, LoadManifest, Again, Step, Fails, Ends, SameWorld
<1>2. ASSUME NEW p \in Publishers, HeadObject(p) \/ Download(p) \/ Preflight(p) \/ Confirm(p)
      PROVE  EmptyInv'
  <2>1. bucket' = bucket /\ at' = at
    BY <1>2 DEF HeadObject, Download, Preflight, Confirm, Fails, Ends, SameRun, SameWorld
  <2>2. \A q \in Publishers : pc'[q] = "confirm" => pc[q] = "confirm"
    BY <1>2 DEF HeadObject, Download, Preflight, Confirm, Step, Fails, Ends
  <2>3. ASSUME NEW q \in Publishers, pc'[q] \in {"download", "preflight"}
        PROVE  pc[q] \in {"download", "preflight"} \/ bucket[at[q]] = NoObject
    <3>1. CASE HeadObject(p)
      BY <2>3, <3>1 DEF HeadObject, Here, Step, Fails, Ends
    <3>2. CASE Download(p)
      BY <2>3, <3>2 DEF Download, Step, Fails, Ends
    <3>3. CASE Preflight(p)
      BY <2>3, <3>3 DEF Preflight, Step, Fails, Ends
    <3>4. CASE Confirm(p)
      BY <2>3, <3>4 DEF Confirm, Step, Fails, Ends
    <3> QED
      BY <1>2, <3>1, <3>2, <3>3, <3>4
  <2> QED
    BY <2>1, <2>2, <2>3
<1>3. ASSUME NEW p \in Publishers, Upload(p)
      PROVE  EmptyInv'
  <2>1. \A q \in Publishers : q # p => pc[q] \in {"idle", "published"}
    BY <1>3 DEF LockInv, PlaceOf, Upload
  <2>2. Object(file[p], release[p]) # NoObject
    BY <1>3, ObjectFacts DEF UploadInv, Upload
  <2>3. /\ bucket' = [bucket EXCEPT ![at[p]] = Object(file[p], release[p])]
        /\ pc' = [pc EXCEPT ![p] = "confirm"] /\ at' = at
    BY <1>3 DEF Upload, Step, SameRun
  <2> QED
    BY <2>1, <2>2, <2>3
<1>4. ASSUME NEW p \in Publishers, Record(p) \/ WriteManifest(p) \/ VerifyPublic(p)
      PROVE  EmptyInv'
  BY <1>4, ZenonT(30) DEF Record, WriteManifest, VerifyPublic, Step, Fails, Ends, SameWorld
<1>5. ASSUME NEW p \in Publishers, NetworkFails(p) \/ Crash(p)
      PROVE  EmptyInv'
  BY <1>5 DEF NetworkFails, Crash, Step, Fails, Ends
<1>6. CASE (\E m \in Places : RemoveTorn(m)) \/ UNCHANGED vars
  BY <1>6 DEF RemoveTorn, vars, run
<1> QED
  BY <1>1, <1>2, <1>3, <1>4, <1>5, <1>6 DEF Next

(* Only a kill leaves a manifest torn, and it is remembered.               *)
LEMMA TornNext == IInv /\ TornInv /\ [Next]_vars => TornInv' /\ cut \subseteq cut'
<1> SUFFICES ASSUME IInv, TornInv, [Next]_vars PROVE TornInv' /\ cut \subseteq cut'
  OBVIOUS
<1> USE DEF TornInv
<1>a. /\ pc \in [Publishers -> ControlPoints]
      /\ manifest \in [Places -> [torn : BOOLEAN, records : Records]]
      /\ \A p \in Publishers : PlaceOf(p) \in Places
  BY DEF IInv, TypeInv, PlaceOf, Places
<1>1. ASSUME NEW p \in Publishers, UNCHANGED <<manifest, cut>>, pc[p] # "write",
             \E next : pc' = [pc EXCEPT ![p] = next]
      PROVE  TornInv' /\ cut \subseteq cut'
  BY <1>a, <1>1
<1>2. UNCHANGED <<manifest, cut, pc>> => TornInv' /\ cut \subseteq cut'
  OBVIOUS
<1>3. ASSUME NEW p \in Publishers, NEW why, Fails(p, why)
      PROVE  UNCHANGED <<manifest, cut>> /\ \E next : pc' = [pc EXCEPT ![p] = next]
  BY <1>3 DEF Fails, Ends, Step
<1>4. ASSUME NEW p \in Publishers,
             Start(p) \/ LoadManifest(p) \/ HeadObject(p) \/ Download(p) \/ Preflight(p)
      PROVE  TornInv' /\ cut \subseteq cut'
  <2>1. pc[p] # "write" /\ UNCHANGED <<manifest, cut>> /\ \E next : pc' = [pc EXCEPT ![p] = next]
    BY <1>3, <1>4, ZenonT(30)
       DEF Start, LoadManifest, HeadObject, Download, Preflight, Step, SameWorld
  <2> QED
    BY <1>1, <2>1
<1>5. ASSUME NEW p \in Publishers,
             Upload(p) \/ Confirm(p) \/ NetworkFails(p) \/ Again(p)
      PROVE  TornInv' /\ cut \subseteq cut'
  <2>1. pc[p] # "write" /\ UNCHANGED <<manifest, cut>> /\ \E next : pc' = [pc EXCEPT ![p] = next]
    BY <1>3, <1>5, ZenonT(30) DEF Upload, Confirm, NetworkFails, Again, Step, SameWorld
  <2> QED
    BY <1>1, <2>1
<1>6. ASSUME NEW p \in Publishers, VerifyPublic(p)
      PROVE  TornInv' /\ cut \subseteq cut'
  <2>1. pc[p] # "write" /\ UNCHANGED <<manifest, cut>>
        /\ (pc' = pc \/ \E next : pc' = [pc EXCEPT ![p] = next])
    BY <1>3, <1>6, ZenonT(30) DEF VerifyPublic, SameWorld
  <2> QED
    BY <1>1, <1>2, <2>1
<1>7. ASSUME NEW p \in Publishers, Record(p)
      PROVE  TornInv' /\ cut \subseteq cut'
  <2>1. CASE known[p][at[p]] \notin {None, release[p]}
    <3>1. pc[p] # "write" /\ UNCHANGED <<manifest, cut>> /\ \E next : pc' = [pc EXCEPT ![p] = next]
      BY <1>3, <1>7, <2>1 DEF Record
    <3> QED
      BY <1>1, <3>1
  <2>2. CASE known[p][at[p]] \in {None, release[p]}
    <3>1. /\ pc[p] = "record" /\ pc' = [pc EXCEPT ![p] = "write"] /\ cut' = cut
          /\ manifest' = [manifest EXCEPT ![PlaceOf(p)].torn = TRUE]
      BY <1>7, <2>2 DEF Record, Step
    <3>2. \A m \in Places : m # PlaceOf(p) => manifest'[m] = manifest[m]
      BY <3>1
    <3>3. pc'[p] = "write" /\ \A q \in Publishers : pc[q] = "write" => pc'[q] = "write"
      BY <1>a, <3>1
    <3> QED
      BY <3>1, <3>2, <3>3
  <2> QED
    BY <2>1, <2>2
<1>8. ASSUME NEW p \in Publishers, WriteManifest(p)
      PROVE  TornInv' /\ cut \subseteq cut'
  <2>1. /\ manifest' = [manifest EXCEPT ![PlaceOf(p)] = [torn |-> FALSE, records |-> known[p]]]
        /\ cut' = cut /\ \E next : pc' = [pc EXCEPT ![p] = next]
    BY <1>8, ZenonT(30) DEF WriteManifest, Step
  <2>2. ~manifest'[PlaceOf(p)].torn /\ \A m \in Places : m # PlaceOf(p) => manifest'[m] = manifest[m]
    BY <1>a, <2>1
  <2>3. \A q \in Publishers : q # p => pc'[q] = pc[q]
    BY <1>a, <2>1
  <2> QED
    BY <2>1, <2>2, <2>3
<1>9. ASSUME NEW p \in Publishers, Crash(p)
      PROVE  TornInv' /\ cut \subseteq cut'
  <2>1. /\ manifest' = manifest /\ \A q \in Publishers : q # p => pc'[q] = pc[q]
        /\ cut' = IF pc[p] = "write" THEN cut \cup {PlaceOf(p)} ELSE cut
    BY <1>a, <1>9 DEF Crash, Ends, Step
  <2> QED
    BY <2>1
<1>10. ASSUME NEW n \in Places, RemoveTorn(n)
       PROVE  TornInv' /\ cut \subseteq cut'
  <2>1. /\ manifest' = [manifest EXCEPT ![n] = [torn |-> FALSE, records |-> Nothing]]
        /\ cut' = cut /\ pc' = pc
    BY <1>10 DEF RemoveTorn, run
  <2>2. ~manifest'[n].torn /\ \A m \in Places : m # n => manifest'[m] = manifest[m]
    BY <1>a, <2>1
  <2> QED
    BY <2>1, <2>2
<1>11. CASE UNCHANGED vars
  BY <1>2, <1>11 DEF vars, run
<1> QED
  BY <1>4, <1>5, <1>6, <1>7, <1>8, <1>9, <1>10, <1>11 DEF Next

(* A refusal points to an object of another release, and objects stay; or  *)
(* to a manifest that no other run can be writing.                         *)
LEMMA WelcomeNext ==
  ASSUME IInv, RetryInv, [Next]_vars
  PROVE  ReasonInv' /\ RetryIsWelcome'
<1> DEFINE Cut(q, why) == why = "invalid manifest" /\ PlaceOf(q) \in cut
           Foreign(q) == \E c \in Components : bucket[c].sha256 \notin {None, release[q]}
<1>1. release' = release
  BY ZenonT(30) DEF Next, vars, run, Start, LoadManifest, HeadObject, Download, Preflight, Upload, Confirm, Record,
         WriteManifest, VerifyPublic, NetworkFails, Crash, Again, RemoveTorn, Fails, Ends, SameRun
<1>2. ASSUME NEW q \in Publishers, Foreign(q) PROVE Foreign(q)'
  <2>1. PICK c \in Components : bucket[c].sha256 \notin {None, release[q]}
    BY <1>2
  <2>2. bucket[c] # NoObject
    BY <2>1, ObjectFacts
  <2> QED
    BY <1>1, <2>1, <2>2, ObjectsStay
<1>0. cut \subseteq cut'
  BY TornNext DEF RetryInv
<1>3. \A q \in Publishers : reason[q] \in Refusals =>
        (reason[q] = "invalid manifest" /\ PlaceOf(q) \in cut') \/ Foreign(q)'
  BY <1>0, <1>2 DEF RetryInv, RetryIsWelcome
<1>4. CASE reason' = reason
  BY <1>3, <1>4 DEF RetryInv, ReasonInv, RetryIsWelcome
<1>5. ASSUME NEW p \in Publishers, NEW why, Ends(p, why), why \in Refusals => Cut(p, why) \/ Foreign(p)
      PROVE  ReasonInv' /\ RetryIsWelcome'
  <2>1. reason' = [reason EXCEPT ![p] = why]
    BY <1>5 DEF Ends
  <2>2. \A q \in Publishers : reason'[q] = IF q = p THEN why ELSE reason[q]
    BY <2>1 DEF RetryInv, ReasonInv
  <2>3. ReasonInv'
    BY <2>1 DEF RetryInv, ReasonInv
  <2> QED
    BY <1>0, <1>2, <1>3, <1>5, <2>2, <2>3 DEF RetryIsWelcome
<1>6. ASSUME NEW p \in Publishers, Start(p)
      PROVE  ReasonInv' /\ RetryIsWelcome'
  <2>1. CASE LockIsFree(p)
    <3>1. reason' = [reason EXCEPT ![p] = None] /\ None \notin Refusals
      BY <1>6, <2>1 DEF Start, None, Refusals
    <3>2. \A q \in Publishers : reason'[q] = IF q = p THEN None ELSE reason[q]
      BY <3>1 DEF RetryInv, ReasonInv
    <3>3. ReasonInv'
      BY <3>1 DEF RetryInv, ReasonInv
    <3> QED
      BY <1>3, <3>1, <3>2, <3>3 DEF RetryIsWelcome
  <2>2. CASE ~LockIsFree(p)
    BY <1>5, <1>6, <2>2 DEF Start, Fails, Refusals
  <2> QED
    BY <2>1, <2>2
<1>7. ASSUME NEW p \in Publishers, HeadObject(p) \/ Confirm(p)
      PROVE  ReasonInv' /\ RetryIsWelcome'
  <2>1. reason' = reason \/ Ends(p, "different object")
    BY <1>7 DEF HeadObject, Confirm, Fails, SameRun
  <2>2. ASSUME reason' # reason PROVE Here(p) # NoObject /\ ~Matches(p)
    BY <1>7, <2>2 DEF HeadObject, Confirm, SameRun, Here, RetryInv, EmptyInv
  <2>3. Here(p) # NoObject /\ ~Matches(p) => Foreign(p)
    BY ObjectFacts, PublisherAssumption DEF IInv, TypeInv, Here, Matches
  <2> QED
    BY <1>4, <1>5, <2>1, <2>2, <2>3
<1>8. ASSUME NEW p \in Publishers, LoadManifest(p) \/ Download(p) \/ NetworkFails(p) \/ Crash(p)
      PROVE  ReasonInv' /\ RetryIsWelcome'
  <2>1. \/ reason' = reason
        \/ \E why \in {"bad download", "network", "crash"} : Ends(p, why)
        \/ Ends(p, "invalid manifest") /\ pc[p] = "load" /\ manifest[PlaceOf(p)].torn
    BY <1>8 DEF LoadManifest, Download, NetworkFails, Crash, Fails
  <2>2. ASSUME pc[p] = "load", manifest[PlaceOf(p)].torn PROVE PlaceOf(p) \in cut
    <3>1. PlaceOf(p) \in Places
      BY DEF PlaceOf, Places
    <3>2. \A q \in Publishers : pc[q] = "write" /\ PlaceOf(q) = PlaceOf(p) => q = p
      BY <2>2 DEF IInv, LockInv
    <3> QED
      BY <2>2, <3>1, <3>2 DEF RetryInv, TornInv
  <2> QED
    BY <1>4, <1>5, <2>1, <2>2 DEF Refusals
<1>9. ASSUME NEW p \in Publishers, Preflight(p) \/ Record(p)
      PROVE  ReasonInv' /\ RetryIsWelcome'
  <2>1. CASE Preflight(p)
    BY <1>4, <2>1 DEF Preflight, SameRun, Here, RetryInv, EmptyInv
  <2>2. CASE Record(p)
    <3>1. pc[p] = "record" /\ at[p] \in Components /\ release[p] \in Releases
      BY <2>2 DEF Record, IInv, TypeInv
    <3>2. bucket[at[p]] = Object(release[p], release[p])
      BY <3>1 DEF IInv, DoneInv, Done
    <3>3. known[p][at[p]] \in {None, release[p]}
      BY <3>1, <3>2, ObjectFacts DEF IInv, KnownInv
    <3> QED
      BY <1>4, <2>2, <3>3 DEF Record
  <2> QED
    BY <1>9, <2>1, <2>2
<1>10. ASSUME NEW p \in Publishers, VerifyPublic(p)
       PROVE  ReasonInv' /\ RetryIsWelcome'
  <2>1. pc[p] = "public" /\ at[p] \in Components /\ release[p] \in Releases
    BY <1>10 DEF VerifyPublic, IInv, TypeInv
  <2>2. bucket[at[p]] = Object(release[p], release[p])
    BY <2>1 DEF IInv, DoneInv, Done
  <2>3. LengthMatches(p)
    BY <2>1, <2>2, ObjectFacts DEF LengthMatches, Here
  <2>4. reason' = reason \/ Ends(p, "published")
    BY <1>10, <2>3 DEF VerifyPublic, Fails
  <2> QED
    BY <1>4, <1>5, <2>4 DEF Refusals
<1>11. ASSUME NEW p \in Publishers, Upload(p) \/ WriteManifest(p) \/ Again(p)
       PROVE  reason' = reason
  BY <1>11 DEF Upload, WriteManifest, Again, SameRun
<1>12. (\E m \in Places : RemoveTorn(m)) \/ UNCHANGED vars => reason' = reason
  BY DEF RemoveTorn, vars, run
<1> QED
  BY <1>4, <1>6, <1>7, <1>8, <1>9, <1>10, <1>11, <1>12 DEF Next

(* A run is refused only over an object of another release, or over a      *)
(* manifest somebody was killed writing; never over what else a run of its *)
(* release left behind, nor over a manifest still being written.           *)
(* (upload_component, update_manifest, publication_lock.)                  *)
THEOREM RetriesAreWelcome == OneManifest => (Spec => []RetryIsWelcome)
<1> SUFFICES ASSUME OneManifest PROVE Spec => []RetryIsWelcome
  OBVIOUS
<1>1. Init => RetryInv
  BY DEF Init, RetryInv, EmptyInv, ReasonInv, TornInv, RetryIsWelcome, Refusals, None
<1>2. IInv /\ RetryInv /\ [Next]_vars => RetryInv'
  BY EmptyNext, TornNext, WelcomeNext DEF RetryInv
<1>3. RetryInv => RetryIsWelcome
  BY DEF RetryInv
<1> QED
  BY <1>1, <1>2, <1>3, Invariant, PTL DEF Spec

-----------------------------------------------------------------------------
(* The quantizer.  A run plans, builds the artifact, hashes what it has    *)
(* installed and describes that; or it rests.                              *)
Resting == {"idle", "stopped", "done"}
Planning == {"idle", "planned", "claimed"}
Building == {"written", "appending"}
Hashing == {"installed", "hashed", "sha256 claimed", "sha256 written"}
Describing == {"sha256 installed", "manifest claimed", "manifest written"}
RunSteps == Planning \cup Building \cup Hashing \cup Describing \cup Resting

(* A run that has not created its file of that name yet.                   *)
Uncreated(r, name) ==
  \/ tool[r] \in Planning
  \/ name = "sha256" /\ tool[r] \in Building \cup (Hashing \ {"sha256 written"})
  \/ name = "manifest" /\ tool[r] \in Building \cup Hashing \cup (Describing \ {"manifest written"})

Pieces(r, n) == [i \in 1 .. n |-> <<r, i - 1>>]

RunTypeInv ==
  /\ path \in [Quantizer!Paths -> Quantizer!Files \cup {NoFile}]
  /\ data = [f \in Quantizer!Files |-> data[f]]
  /\ tool \in [Runs -> RunSteps]
  /\ handle = [r \in Runs |-> handle[r]]
  /\ tensor \in [Runs -> 1 .. Tensors + 1]
  /\ digest = [r \in Runs |-> digest[r]]

(* No two runs overlap.                                                    *)
AloneInv == \A q, r \in Runs : Quantizer!Active(q) /\ Quantizer!Active(r) => q = r

(* A name is that of a file some run created for it, and no file has two.  *)
NamesInv ==
  \A name \in Quantizer!Names :
    /\ \A p \in {Quantizer!Installed(name), Quantizer!Partial(name)} :
         Quantizer!Exists(p) => \E r \in Runs : path[p] = <<r, name>> /\ ~Uncreated(r, name)
    /\ Quantizer!Exists(Quantizer!Installed(name)) =>
         path[Quantizer!Installed(name)] # path[Quantizer!Partial(name)]

(* What a run found free stays free until it uses the name.                *)
FreeFor(r) ==
  /\ tool[r] \in {"planned", "claimed"} \cup Building =>
       \A name \in Quantizer!Names : ~Quantizer!Exists(Quantizer!Installed(name))
  /\ tool[r] \in Hashing =>
       \A name \in Quantizer!Sidecars : ~Quantizer!Exists(Quantizer!Installed(name))
  /\ tool[r] \in Describing => ~Quantizer!Exists(Quantizer!Installed("manifest"))
  /\ tool[r] = "claimed" => ~Quantizer!Exists(Quantizer!Partial("gguf"))
  /\ tool[r] = "sha256 claimed" => ~Quantizer!Exists(Quantizer!Partial("sha256"))
  /\ tool[r] = "manifest claimed" => ~Quantizer!Exists(Quantizer!Partial("manifest"))

(* What a run has done so far is in its files.                             *)
WorkOf(r) ==
  /\ tool[r] \in Planning \cup {"written"} => tensor[r] = 1
  /\ tool[r] \in Building => /\ path[Quantizer!Partial("gguf")] = <<r, "gguf">>
                             /\ data[<<r, "gguf">>] = Pieces(r, tensor[r])
  /\ tool[r] = "appending" => handle[r] = <<r, "gguf">>
  /\ tool[r] \in Hashing \cup Describing =>
       /\ path[Quantizer!Installed("gguf")] = <<r, "gguf">>
       /\ data[<<r, "gguf">>] = Quantizer!Whole(r)
  /\ tool[r] \in (Hashing \ {"installed"}) \cup Describing => digest[r] = Quantizer!Whole(r)
  /\ tool[r] = "sha256 written" => /\ path[Quantizer!Partial("sha256")] = <<r, "sha256">>
                                   /\ data[<<r, "sha256">>] = <<digest[r]>>
  /\ tool[r] = "manifest written" => /\ path[Quantizer!Partial("manifest")] = <<r, "manifest">>
                                     /\ data[<<r, "manifest">>] = <<digest[r]>>
FreeInv == \A r \in Runs : FreeFor(r)
WorkInv == \A r \in Runs : WorkOf(r)

InstalledInv == Quantizer!InstalledIsWhole /\ Quantizer!SidecarsDescribe

(* A step that leaves what is installed as it is.                          *)
Kept ==
  \A name \in Quantizer!Names : LET p == Quantizer!Installed(name) IN
    Quantizer!Exists(p) => path'[p] = path[p] /\ data'[path[p]] = data[path[p]]

QuantizerInv ==
  RunTypeInv /\ AloneInv /\ NamesInv /\ FreeInv /\ WorkInv /\ InstalledInv

-----------------------------------------------------------------------------
(* The six names are different paths, and runs have a file for each name.  *)
LEMMA PathFacts ==
  /\ \A n \in Quantizer!Names : /\ Quantizer!Installed(n) \in Quantizer!Paths
                               /\ Quantizer!Partial(n) \in Quantizer!Paths
  /\ \A n, m \in Quantizer!Names :
       /\ Quantizer!Installed(n) # Quantizer!Partial(m)
       /\ Quantizer!Installed(n) = Quantizer!Installed(m) => n = m
       /\ Quantizer!Partial(n) = Quantizer!Partial(m) => n = m
  /\ \A r \in Runs : \A n \in Quantizer!Names :
       <<r, n>> \in Quantizer!Files /\ <<r, n>> # NoFile
  /\ \A q, r : \A m, n : <<q, m>> = <<r, n>> => q = r /\ m = n
  /\ Quantizer!Names = {"gguf", "sha256", "manifest"} /\ Quantizer!Sidecars = {"sha256", "manifest"}
<1>1. Quantizer!Names = {"gguf", "sha256", "manifest"} /\ Quantizer!Sidecars = {"sha256", "manifest"}
  BY DEF Quantizer!Names, Quantizer!Sidecars
<1>2. \A n \in Quantizer!Names : /\ Quantizer!Installed(n) \in Quantizer!Paths
                               /\ Quantizer!Partial(n) \in Quantizer!Paths
  BY DEF Quantizer!Installed, Quantizer!Partial, Quantizer!Paths
<1>3. \A n, m \in Quantizer!Names :
       /\ Quantizer!Installed(n) # Quantizer!Partial(m)
       /\ Quantizer!Installed(n) = Quantizer!Installed(m) => n = m
       /\ Quantizer!Partial(n) = Quantizer!Partial(m) => n = m
  BY DEF Quantizer!Installed, Quantizer!Partial
<1>4. \A r \in Runs : \A n \in Quantizer!Names :
       <<r, n>> \in Quantizer!Files /\ <<r, n>> # NoFile
  BY FilesAssumption DEF Quantizer!Files
<1>5. \A q, r : \A m, n : <<q, m>> = <<r, n>> => q = r /\ m = n
  OBVIOUS
<1> QED
  BY <1>1, <1>2, <1>3, <1>4, <1>5

(* An artifact grows piece by piece.                                       *)
LEMMA PiecesGrow ==
  ASSUME NEW r, NEW n \in Nat
  PROVE  Append(Pieces(r, n), <<r, n>>) = Pieces(r, n + 1)
<1> DEFINE S == {r} \X Int
           a == Append(Pieces(r, n), <<r, n>>)
<1>1. Pieces(r, n) \in Seq(S) /\ Len(Pieces(r, n)) = n /\ <<r, n>> \in S
  BY DEF Pieces
<1>2. /\ a \in Seq(S) /\ Len(a) = n + 1
      /\ \A i \in 1 .. n : a[i] = Pieces(r, n)[i]
      /\ a[n + 1] = <<r, n>>
  BY <1>1, AppendProperties
<1>3. \A i \in 1 .. n + 1 : a[i] = <<r, i - 1>>
  BY <1>2 DEF Pieces
<1>4. a = [i \in 1 .. n + 1 |-> a[i]]
  BY <1>2
<1> HIDE DEF a
<1> QED
  BY <1>3, <1>4 DEF Pieces

(* While a run works the others rest.                                      *)
LEMMA OthersRest ==
  ASSUME QuantizerInv, NEW r \in Runs, Quantizer!Active(r)
  PROVE  \A q \in Runs : q # r => tool[q] \in Resting
  BY DEF QuantizerInv, AloneInv, Quantizer!Active, Resting

(* What is left to show of a step of one run.                              *)
LEMMA RunStep ==
  ASSUME QuantizerInv, NEW r \in Runs, NEW next \in RunSteps,
         tool' = [tool EXCEPT ![r] = next],
         \A q \in Runs : q # r => tool[q] \in Resting /\ tensor'[q] = tensor[q],
         RunTypeInv', NamesInv', FreeFor(r)', WorkOf(r)', InstalledInv'
  PROVE  QuantizerInv'
<1>1. \A q \in Runs : tool'[q] = IF q = r THEN next ELSE tool[q]
  BY DEF QuantizerInv, RunTypeInv
<1>2. AloneInv'
  BY <1>1 DEF AloneInv, Quantizer!Active, Resting
<1>3. ASSUME NEW q \in Runs PROVE FreeFor(q)' /\ WorkOf(q)'
  <2>1. CASE q = r
    BY <2>1
  <2>2. CASE q # r
    <3>1. tool'[q] \in Resting /\ tool'[q] = tool[q] /\ tensor'[q] = tensor[q]
      BY <1>1, <2>2
    <3>2. FreeFor(q)'
      BY <3>1 DEF FreeFor, Resting, Building, Hashing, Describing
    <3>3. WorkOf(q)'
      BY <3>1 DEF QuantizerInv, WorkInv, WorkOf, Resting, Planning, Building, Hashing, Describing
    <3> QED
      BY <3>2, <3>3
  <2> QED
    BY <2>1, <2>2
<1> QED
  BY <1>2, <1>3 DEF QuantizerInv, FreeInv, WorkInv

(* A step that creates or moves no file.                                   *)
LEMMA QuietStep ==
  ASSUME QuantizerInv, NEW r \in Runs, NEW next \in RunSteps,
         tool' = [tool EXCEPT ![r] = next],
         \A q \in Runs : q # r => tool[q] \in Resting,
         UNCHANGED <<path, data, tensor>>,
         handle' = [q \in Runs |-> handle'[q]], digest' = [q \in Runs |-> digest'[q]],
         \A name \in Quantizer!Names : Uncreated(r, name)' => Uncreated(r, name),
         FreeFor(r)', WorkOf(r)'
  PROVE  QuantizerInv'
<1>1. \A q \in Runs : tool'[q] = IF q = r THEN next ELSE tool[q]
  BY DEF QuantizerInv, RunTypeInv
<1>2. RunTypeInv'
  BY DEF QuantizerInv, RunTypeInv
<1>3. NamesInv'
  <2>1. \A q \in Runs : \A name \in Quantizer!Names : ~Uncreated(q, name) => ~Uncreated(q, name)'
    BY <1>1 DEF Uncreated
  <2> QED
    BY <2>1 DEF QuantizerInv, NamesInv, Quantizer!Exists
<1>4. InstalledInv'
  BY DEF QuantizerInv, InstalledInv, Quantizer!InstalledIsWhole, Quantizer!SidecarsDescribe,
         Quantizer!Exists
<1> QED
  BY <1>2, <1>3, <1>4, RunStep

(* Looking for names, hashing and stopping leave every file alone.         *)
LEMMA StartRunStep ==
  ASSUME ~Concurrent, QuantizerInv, NEW r \in Runs, Quantizer!Start(r)
  PROVE  QuantizerInv'
<1> DEFINE next == IF \E p \in Quantizer!MustBeFree : Quantizer!Exists(p) THEN "stopped" ELSE "planned"
<1>1. /\ tool[r] = "idle" /\ tool' = [tool EXCEPT ![r] = next] /\ next \in RunSteps
      /\ UNCHANGED <<path, data, handle, tensor, digest>>
      /\ tool' \in [Runs -> RunSteps] /\ tool'[r] = next
  BY DEF Quantizer!Start, Quantizer!Goto, RunSteps, Planning, Resting, QuantizerInv, RunTypeInv
<1>2. \A q \in Runs : q # r => tool[q] \in Resting
  BY DEF Quantizer!Start, Quantizer!Active, Resting
<1>3. next = "planned" => \A name \in Quantizer!Names : ~Quantizer!Exists(Quantizer!Installed(name))
  BY DEF Quantizer!MustBeFree
<1>4. /\ handle' = [q \in Runs |-> handle'[q]] /\ digest' = [q \in Runs |-> digest'[q]]
      /\ tensor[r] = 1
  BY <1>1 DEF QuantizerInv, RunTypeInv, WorkInv, WorkOf, Planning
<1>5. \A name \in Quantizer!Names : Uncreated(r, name)
  BY <1>1 DEF Uncreated, Planning
<1>6. FreeFor(r)'
  BY <1>1, <1>3 DEF FreeFor, Building, Hashing, Describing, Quantizer!Exists
<1>7. WorkOf(r)'
  BY <1>1, <1>4 DEF WorkOf, Planning, Building, Hashing, Describing
<1> QED
  BY <1>1, <1>2, <1>4, <1>5, <1>6, <1>7, QuietStep

(* The temporary of a name must be free.                                   *)
LEMMA ClaimStep ==
  ASSUME QuantizerInv, NEW r \in Runs, NEW name, NEW from, NEW to,
         Quantizer!Claim(r, name, from, to),
         <<name, from, to>> \in {<<"gguf", "planned", "claimed">>,
                                <<"sha256", "hashed", "sha256 claimed">>,
                                <<"manifest", "sha256 installed", "manifest claimed">>}
  PROVE  QuantizerInv'
<1>1. \/ name = "gguf" /\ from = "planned" /\ to = "claimed"
      \/ name = "sha256" /\ from = "hashed" /\ to = "sha256 claimed"
      \/ name = "manifest" /\ from = "sha256 installed" /\ to = "manifest claimed"
  OBVIOUS
<1>2. tool[r] = from /\ UNCHANGED <<path, data, handle, tensor, digest>>
  BY DEF Quantizer!Claim
<1>3. to \in RunSteps /\ "stopped" \in RunSteps
  BY <1>1 DEF RunSteps, Planning, Hashing, Describing, Resting
<1>4. \A next \in RunSteps : tool' = [tool EXCEPT ![r] = next] => tool'[r] = next
  BY DEF QuantizerInv, RunTypeInv
<1>5. \A q \in Runs : q # r => tool[q] \in Resting
  BY <1>1, <1>2, OthersRest DEF Quantizer!Active
<1>6. handle' = [q \in Runs |-> handle'[q]] /\ digest' = [q \in Runs |-> digest'[q]]
  BY <1>2 DEF QuantizerInv, RunTypeInv
<1>7. FreeFor(r)
  BY DEF QuantizerInv, FreeInv
<1>8. WorkOf(r)
  BY DEF QuantizerInv, WorkInv
<1>9. CASE Quantizer!Exists(Quantizer!Partial(name))
  <2>1. tool' = [tool EXCEPT ![r] = "stopped"]
    BY <1>9 DEF Quantizer!Claim, Quantizer!Goto
  <2>2. tool'[r] = "stopped"
    BY <1>3, <1>4, <2>1
  <2>3. /\ \A n \in Quantizer!Names : ~Uncreated(r, n)'
        /\ FreeFor(r)' /\ WorkOf(r)'
    BY <2>2 DEF Uncreated, FreeFor, WorkOf, Planning, Building, Hashing, Describing
  <2> QED
    BY <1>2, <1>3, <1>5, <1>6, <2>1, <2>3, QuietStep
<1>10. CASE ~Quantizer!Exists(Quantizer!Partial(name))
  <2>1. tool' = [tool EXCEPT ![r] = to]
    BY <1>10 DEF Quantizer!Claim, Quantizer!Goto
  <2>2. tool'[r] = to
    BY <1>3, <1>4, <2>1
  <2>3. /\ \A n \in Quantizer!Names : Uncreated(r, n)' => Uncreated(r, n)
        /\ FreeFor(r)' /\ WorkOf(r)'
    <3> USE <1>2, <1>7, <1>8, <1>10, <2>2
            DEF Uncreated, FreeFor, WorkOf, Planning, Building, Hashing, Describing, Quantizer!Exists
    <3>1. CASE name = "gguf" /\ from = "planned" /\ to = "claimed"
      BY <3>1
    <3>2. CASE name = "sha256" /\ from = "hashed" /\ to = "sha256 claimed"
      BY <3>2
    <3>3. CASE name = "manifest" /\ from = "sha256 installed" /\ to = "manifest claimed"
      BY <3>3
    <3> QED
      BY <1>1, <3>1, <3>2, <3>3
  <2> QED
    BY <1>2, <1>3, <1>5, <1>6, <2>1, <2>3, QuietStep
<1> QED
  BY <1>9, <1>10

(* The run hashes its own artifact.                                        *)
LEMMA HashStep ==
  ASSUME QuantizerInv, NEW r \in Runs, Quantizer!Hash(r)
  PROVE  QuantizerInv'
<1>1. /\ tool[r] = "installed" /\ UNCHANGED <<path, data, handle, tensor>>
  BY DEF Quantizer!Hash
<1>2. \A q \in Runs : q # r => tool[q] \in Resting
  BY <1>1, OthersRest DEF Quantizer!Active
<1>3. FreeFor(r)
  BY DEF QuantizerInv, FreeInv
<1>4. WorkOf(r)
  BY DEF QuantizerInv, WorkInv
<1>5. /\ path[Quantizer!Installed("gguf")] = <<r, "gguf">> /\ data[<<r, "gguf">>] = Quantizer!Whole(r)
  BY <1>1, <1>4 DEF WorkOf, Hashing
<1>6. Quantizer!Exists(Quantizer!Installed("gguf"))
  BY <1>5, PathFacts DEF Quantizer!Exists
<1>7. /\ digest' = [digest EXCEPT ![r] = Quantizer!Whole(r)]
      /\ tool' = [tool EXCEPT ![r] = "hashed"]
  BY <1>5, <1>6 DEF Quantizer!Hash, Quantizer!Goto
<1>8. tool'[r] = "hashed" /\ digest'[r] = Quantizer!Whole(r) /\ "hashed" \in RunSteps
  BY <1>7 DEF QuantizerInv, RunTypeInv, RunSteps, Hashing
<1>9. handle' = [q \in Runs |-> handle'[q]] /\ digest' = [q \in Runs |-> digest'[q]]
  BY <1>1, <1>7 DEF QuantizerInv, RunTypeInv
<1>10. \A n \in Quantizer!Names : Uncreated(r, n)' => Uncreated(r, n)
  BY <1>1, <1>8 DEF Uncreated, Planning, Building, Hashing, Describing
<1>11. FreeFor(r)'
  BY <1>1, <1>3, <1>8 DEF FreeFor, Building, Hashing, Describing, Quantizer!Exists
<1>12. WorkOf(r)'
  BY <1>1, <1>5, <1>8 DEF WorkOf, Planning, Building, Hashing, Describing
<1> QED
  BY <1>1, <1>2, <1>7, <1>8, <1>9, <1>10, <1>11, <1>12, QuietStep

(* A run that stops, having written anything or nothing to no named file.  *)
LEMMA StopStep ==
  ASSUME QuantizerInv, NEW r \in Runs, Quantizer!Stop(r)
  PROVE  QuantizerInv'
<1>1. /\ Quantizer!Active(r) /\ tool' = [tool EXCEPT ![r] = "stopped"]
      /\ handle' = [handle EXCEPT ![r] = NoFile]
      /\ UNCHANGED <<path, data, tensor, digest>>
  BY DEF Quantizer!Stop, Quantizer!Goto
<1>2. tool'[r] = "stopped" /\ "stopped" \in RunSteps
  BY <1>1 DEF QuantizerInv, RunTypeInv, RunSteps, Resting
<1>3. handle' = [q \in Runs |-> handle'[q]] /\ digest' = [q \in Runs |-> digest'[q]]
  BY <1>1 DEF QuantizerInv, RunTypeInv
<1>4. \A n \in Quantizer!Names : ~Uncreated(r, n)'
  BY <1>2 DEF Uncreated, Planning, Building, Hashing, Describing
<1>5. FreeFor(r)' /\ WorkOf(r)'
  BY <1>2 DEF FreeFor, WorkOf, Planning, Building, Hashing, Describing
<1>6. \A q \in Runs : q # r => tool[q] \in Resting
  BY <1>1, OthersRest
<1> QED
  BY <1>1, <1>2, <1>3, <1>4, <1>5, <1>6, QuietStep

(* Opening the artifact to append finds it where the run created it.       *)
LEMMA OpenStep ==
  ASSUME QuantizerInv, NEW r \in Runs, Quantizer!OpenToAppend(r)
  PROVE  QuantizerInv'
<1> DEFINE p == Quantizer!Partial("gguf")
<1>1. /\ tool[r] = "written" /\ tool' = [tool EXCEPT ![r] = "appending"]
      /\ UNCHANGED <<data, tensor, digest>>
  BY DEF Quantizer!OpenToAppend, Quantizer!Goto
<1>2. \A q \in Runs : q # r => tool[q] \in Resting
  BY <1>1, OthersRest DEF Quantizer!Active
<1>3. FreeFor(r)
  BY DEF QuantizerInv, FreeInv
<1>4. WorkOf(r)
  BY DEF QuantizerInv, WorkInv
<1>5. path[p] = <<r, "gguf">> /\ Quantizer!Exists(p)
  BY <1>1, <1>4, PathFacts DEF WorkOf, Building, Quantizer!Exists
<1>6. path' = [path EXCEPT ![p] = path[p]] /\ handle' = [handle EXCEPT ![r] = path[p]]
  BY <1>5 DEF Quantizer!OpenToAppend
<1>7. path' = path
  BY <1>6 DEF QuantizerInv, RunTypeInv
<1>8. tool'[r] = "appending" /\ "appending" \in RunSteps /\ handle'[r] = <<r, "gguf">>
  BY <1>1, <1>5, <1>6 DEF QuantizerInv, RunTypeInv, RunSteps, Building
<1>9. handle' = [q \in Runs |-> handle'[q]] /\ digest' = [q \in Runs |-> digest'[q]]
  BY <1>1, <1>6 DEF QuantizerInv, RunTypeInv
<1>10. \A n \in Quantizer!Names : Uncreated(r, n)' => Uncreated(r, n)
  BY <1>1, <1>8 DEF Uncreated, Planning, Building, Hashing, Describing
<1>11. FreeFor(r)'
  BY <1>1, <1>3, <1>7, <1>8 DEF FreeFor, Building, Hashing, Describing, Quantizer!Exists
<1>12. WorkOf(r)'
  BY <1>1, <1>4, <1>7, <1>8 DEF WorkOf, Planning, Building, Hashing, Describing
<1> QED
  BY <1>1, <1>2, <1>7, <1>8, <1>9, <1>10, <1>11, <1>12, QuietStep

(* A run creates the file of a name that is free, for the first time.      *)
LEMMA CreateFile ==
  ASSUME QuantizerInv, NEW r \in Runs, NEW name \in Quantizer!Names, NEW pieces,
         ~Quantizer!Exists(Quantizer!Partial(name)), ~Quantizer!Exists(Quantizer!Installed(name)),
         Uncreated(r, name), ~Uncreated(r, name)',
         \A q \in Runs : \A n \in Quantizer!Names : ~Uncreated(q, n) => ~Uncreated(q, n)',
         Quantizer!Create(r, name, pieces)
  PROVE  /\ path' \in [Quantizer!Paths -> Quantizer!Files \cup {NoFile}]
         /\ data' = [f \in Quantizer!Files |-> data'[f]]
         /\ path'[Quantizer!Partial(name)] = <<r, name>> /\ data'[<<r, name>>] = pieces
         /\ \A f \in Quantizer!Files : f # <<r, name>> => data'[f] = data[f]
         /\ \A n \in Quantizer!Names : path'[Quantizer!Installed(n)] = path[Quantizer!Installed(n)]
         /\ \A n \in Quantizer!Names :
              Quantizer!Exists(Quantizer!Installed(n)) =>
                data'[path[Quantizer!Installed(n)]] = data[path[Quantizer!Installed(n)]]
         /\ NamesInv'
<1> DEFINE p == Quantizer!Partial(name)
           mine == <<r, name>>
<1>1. /\ p \in Quantizer!Paths /\ mine \in Quantizer!Files /\ mine # NoFile
      /\ path' = [path EXCEPT ![p] = mine] /\ data' = [data EXCEPT ![mine] = pieces]
  BY PathFacts DEF Quantizer!Create
<1>2. /\ path' \in [Quantizer!Paths -> Quantizer!Files \cup {NoFile}]
      /\ data' = [f \in Quantizer!Files |-> data'[f]]
      /\ path'[p] = mine /\ data'[mine] = pieces
      /\ \A o \in Quantizer!Paths : o # p => path'[o] = path[o]
      /\ \A f \in Quantizer!Files : f # mine => data'[f] = data[f]
  BY <1>1 DEF QuantizerInv, RunTypeInv
<1> HIDE DEF p
<1>3. \A n \in Quantizer!Names :
        /\ path'[Quantizer!Installed(n)] = path[Quantizer!Installed(n)]
        /\ n # name => path'[Quantizer!Partial(n)] = path[Quantizer!Partial(n)]
  BY <1>2, PathFacts DEF p
<1>4. \A n \in Quantizer!Names : \A o \in {Quantizer!Installed(n), Quantizer!Partial(n)} :
        Quantizer!Exists(o) =>
          \E q \in Runs : path[o] = <<q, n>> /\ path[o] # mine /\ ~Uncreated(q, n)'
  <2>1. SUFFICES ASSUME NEW n \in Quantizer!Names,
                        NEW o \in {Quantizer!Installed(n), Quantizer!Partial(n)},
                        Quantizer!Exists(o)
                 PROVE  \E q \in Runs : path[o] = <<q, n>> /\ path[o] # mine /\ ~Uncreated(q, n)'
    OBVIOUS
  <2>2. PICK q \in Runs : path[o] = <<q, n>> /\ ~Uncreated(q, n)
    BY <2>1 DEF QuantizerInv, NamesInv
  <2>3. q # r \/ n # name
    BY <2>2
  <2> QED
    BY <2>2, <2>3
<1>5. ASSUME NEW n \in Quantizer!Names, Quantizer!Exists(Quantizer!Installed(n))
      PROVE  data'[path[Quantizer!Installed(n)]] = data[path[Quantizer!Installed(n)]]
  <2>1. PICK q \in Runs : path[Quantizer!Installed(n)] = <<q, n>> /\ <<q, n>> # mine
    BY <1>4, <1>5
  <2>2. <<q, n>> \in Quantizer!Files
    BY PathFacts
  <2> QED
    BY <1>2, <2>1, <2>2
<1>6. NamesInv'
  <2>1. ASSUME NEW n \in Quantizer!Names, path'[Quantizer!Installed(n)] # NoFile
        PROVE  /\ \E q \in Runs : path'[Quantizer!Installed(n)] = <<q, n>> /\ ~Uncreated(q, n)'
               /\ path'[Quantizer!Installed(n)] # path'[Quantizer!Partial(n)]
    <3>1. path[Quantizer!Installed(n)] # NoFile /\ n # name
      BY <1>3, <2>1 DEF Quantizer!Exists
    <3> QED
      BY <1>3, <1>4, <3>1 DEF QuantizerInv, NamesInv, Quantizer!Exists
  <2>2. ASSUME NEW n \in Quantizer!Names, path'[Quantizer!Partial(n)] # NoFile
        PROVE  \E q \in Runs : path'[Quantizer!Partial(n)] = <<q, n>> /\ ~Uncreated(q, n)'
    <3>1. CASE n = name
      BY <1>2, <3>1 DEF p
    <3>2. CASE n # name
      BY <1>3, <1>4, <2>2, <3>2 DEF Quantizer!Exists
    <3> QED
      BY <3>1, <3>2
  <2> QED
    BY <2>1, <2>2 DEF NamesInv, Quantizer!Exists
<1> QED
  BY <1>2, <1>3, <1>5, <1>6 DEF p

(* A run creates the artifact and gives it its metadata.                   *)
LEMMA CreateStep ==
  ASSUME QuantizerInv, NEW r \in Runs, Quantizer!WriteMetadata(r)
  PROVE  QuantizerInv'
<1>1. /\ tool[r] = "claimed" /\ tool' = [tool EXCEPT ![r] = "written"]
      /\ Quantizer!Create(r, "gguf", <<<<r, 0>>>>) /\ UNCHANGED <<handle, tensor, digest>>
  BY DEF Quantizer!WriteMetadata, Quantizer!Goto
<1>2. \A q \in Runs : q # r => tool[q] \in Resting
  BY <1>1, OthersRest DEF Quantizer!Active
<1>3. /\ ~Quantizer!Exists(Quantizer!Partial("gguf")) /\ tensor[r] = 1
      /\ \A name \in Quantizer!Names : ~Quantizer!Exists(Quantizer!Installed(name))
  BY <1>1 DEF QuantizerInv, FreeInv, FreeFor, WorkInv, WorkOf, Planning
<1>4. /\ tool' \in [Runs -> RunSteps] /\ tool'[r] = "written" /\ "written" \in RunSteps
      /\ \A q \in Runs : q # r => tool'[q] = tool[q]
  BY <1>1 DEF QuantizerInv, RunTypeInv, RunSteps, Building
<1>5. "gguf" \in Quantizer!Names /\ Uncreated(r, "gguf") /\ ~Uncreated(r, "gguf")'
  BY <1>1, <1>4, PathFacts DEF Uncreated, Planning, Building
<1>6. \A q \in Runs : \A n \in Quantizer!Names : ~Uncreated(q, n) => ~Uncreated(q, n)'
  BY <1>1, <1>4 DEF Uncreated, Planning, Building
<1>7. /\ path' \in [Quantizer!Paths -> Quantizer!Files \cup {NoFile}]
      /\ data' = [f \in Quantizer!Files |-> data'[f]]
      /\ path'[Quantizer!Partial("gguf")] = <<r, "gguf">> /\ data'[<<r, "gguf">>] = <<<<r, 0>>>>
      /\ \A n \in Quantizer!Names : path'[Quantizer!Installed(n)] = path[Quantizer!Installed(n)]
      /\ NamesInv'
  BY <1>1, <1>3, <1>5, <1>6, CreateFile
<1>8. \A n \in Quantizer!Names : path'[Quantizer!Installed(n)] = NoFile
  BY <1>3, <1>7 DEF Quantizer!Exists
<1>9. RunTypeInv'
  BY <1>1, <1>4, <1>7 DEF QuantizerInv, RunTypeInv
<1>10. FreeFor(r)'
  BY <1>4, <1>8 DEF FreeFor, Building, Hashing, Describing, Quantizer!Exists
<1>11. WorkOf(r)'
  <2>1. <<<<r, 0>>>> = Pieces(r, 1)
    BY DEF Pieces
  <2> QED
    BY <1>1, <1>3, <1>4, <1>7, <2>1 DEF WorkOf, Planning, Building, Hashing, Describing
<1>12. InstalledInv'
  BY <1>8, PathFacts
     DEF InstalledInv, Quantizer!InstalledIsWhole, Quantizer!SidecarsDescribe, Quantizer!Exists
<1> QED
  BY <1>1, <1>2, <1>4, <1>7, <1>9, <1>10, <1>11, <1>12, RunStep

(* The next tensor goes to the artifact, or part of it and the run stops.  *)
LEMMA AppendStep ==
  ASSUME QuantizerInv, NEW r \in Runs, Quantizer!WriteTensor(r)
  PROVE  QuantizerInv'
<1> DEFINE mine == <<r, "gguf">>
<1>1. /\ tool[r] = "appending" /\ tensor[r] <= Tensors
      /\ tensor' = [tensor EXCEPT ![r] = tensor[r] + 1] /\ UNCHANGED <<path, handle, digest>>
  BY DEF Quantizer!WriteTensor
<1>2. \A q \in Runs : q # r => tool[q] \in Resting
  BY <1>1, OthersRest DEF Quantizer!Active
<1>3. FreeFor(r) /\ WorkOf(r)
  BY DEF QuantizerInv, FreeInv, WorkInv
<1>4. /\ handle[r] = mine /\ path[Quantizer!Partial("gguf")] = mine
      /\ data[mine] = Pieces(r, tensor[r]) /\ tensor[r] \in Nat
      /\ \A name \in Quantizer!Names : ~Quantizer!Exists(Quantizer!Installed(name))
  BY <1>1, <1>3, FilesAssumption DEF WorkOf, FreeFor, Building, QuantizerInv, RunTypeInv
<1>5. mine \in Quantizer!Files
  BY PathFacts
<1>6. PICK piece, next :
        /\ data' = [data EXCEPT ![mine] = Append(data[mine], piece)]
        /\ tool' = [tool EXCEPT ![r] = next]
        /\ next = "stopped" \/ (next = "appending" /\ piece = <<r, tensor[r]>>)
  <2>1. CASE /\ data' = [data EXCEPT ![mine] = Append(data[mine], <<r, tensor[r]>>)]
             /\ tool' = tool
    <3>1. tool' = [tool EXCEPT ![r] = "appending"]
      BY <1>1, <2>1 DEF QuantizerInv, RunTypeInv
    <3> QED
      BY <2>1, <3>1
  <2>2. CASE /\ data' = [data EXCEPT ![mine] = Append(data[mine], Quantizer!Torn)]
             /\ tool' = [tool EXCEPT ![r] = "stopped"]
    <3> WITNESS Quantizer!Torn, "stopped"
    <3> QED
      BY <2>2
  <2>3. \/ /\ data' = [data EXCEPT ![mine] = Append(data[mine], <<r, tensor[r]>>)]
           /\ tool' = tool
        \/ /\ data' = [data EXCEPT ![mine] = Append(data[mine], Quantizer!Torn)]
           /\ tool' = [tool EXCEPT ![r] = "stopped"]
    BY <1>4 DEF Quantizer!WriteTensor, Quantizer!StopsOnShortWrite, Quantizer!Goto
  <2> QED
    BY <2>1, <2>2, <2>3
<1>7. /\ tool'[r] = next /\ next \in RunSteps /\ tool' \in [Runs -> RunSteps]
      /\ \A q \in Runs : q # r => tool'[q] = tool[q] /\ tensor'[q] = tensor[q]
  BY <1>1, <1>6 DEF QuantizerInv, RunTypeInv, RunSteps, Building, Resting
<1>8. RunTypeInv'
  <2>1. tensor' \in [Runs -> 1 .. Tensors + 1]
    BY <1>1, FilesAssumption DEF QuantizerInv, RunTypeInv
  <2>2. data' = [f \in Quantizer!Files |-> data'[f]]
    BY <1>6 DEF QuantizerInv, RunTypeInv
  <2> QED
    BY <1>1, <1>7, <2>1, <2>2 DEF QuantizerInv, RunTypeInv
<1>9. \A q \in Runs : \A name \in Quantizer!Names : ~Uncreated(q, name) => ~Uncreated(q, name)'
  BY <1>1, <1>6, <1>7 DEF Uncreated, Planning, Building, Hashing, Describing
<1>10. NamesInv'
  BY <1>1, <1>9 DEF QuantizerInv, NamesInv, Quantizer!Exists
<1>11. \A name \in Quantizer!Names : ~Quantizer!Exists(Quantizer!Installed(name))'
  BY <1>1, <1>4 DEF Quantizer!Exists
<1>12. FreeFor(r)'
  BY <1>6, <1>7, <1>11 DEF FreeFor, Building, Hashing, Describing
<1>13. WorkOf(r)'
  <2>1. CASE next = "stopped"
    BY <1>7, <2>1 DEF WorkOf, Planning, Building, Hashing, Describing
  <2>2. CASE next = "appending" /\ piece = <<r, tensor[r]>>
    <3>1. data'[mine] = Pieces(r, tensor[r] + 1)
      <4>1. data'[mine] = Append(Pieces(r, tensor[r]), <<r, tensor[r]>>)
        BY <1>4, <1>5, <1>6, <2>2 DEF QuantizerInv, RunTypeInv
      <4> QED
        BY <1>4, <4>1, PiecesGrow
    <3>2. tensor'[r] = tensor[r] + 1
      BY <1>1 DEF QuantizerInv, RunTypeInv
    <3> QED
      BY <1>1, <1>4, <1>7, <2>2, <3>1, <3>2 DEF WorkOf, Planning, Building, Hashing, Describing
  <2> QED
    BY <1>6, <2>1, <2>2
<1>14. InstalledInv'
  BY <1>11, PathFacts
     DEF InstalledInv, Quantizer!InstalledIsWhole, Quantizer!SidecarsDescribe, Quantizer!Exists
<1> QED
  BY <1>2, <1>6, <1>7, <1>8, <1>10, <1>12, <1>13, <1>14, RunStep

(* rename() moves a file from its temporary to its final name.             *)
LEMMA MoveFile ==
  ASSUME QuantizerInv, NEW name \in Quantizer!Names, Quantizer!Rename(name),
         \A q \in Runs : \A n \in Quantizer!Names : ~Uncreated(q, n) => ~Uncreated(q, n)'
  PROVE  /\ path' \in [Quantizer!Paths -> Quantizer!Files \cup {NoFile}]
         /\ path'[Quantizer!Installed(name)] = path[Quantizer!Partial(name)]
         /\ \A n \in Quantizer!Names :
              n # name => /\ path'[Quantizer!Installed(n)] = path[Quantizer!Installed(n)]
                          /\ path'[Quantizer!Partial(n)] = path[Quantizer!Partial(n)]
         /\ NamesInv'
<1> DEFINE from == Quantizer!Partial(name)
           to == Quantizer!Installed(name)
<1>1. path' = [path EXCEPT ![to] = path[from], ![from] = NoFile]
  BY DEF Quantizer!Rename
<1>2. to \in Quantizer!Paths /\ from \in Quantizer!Paths /\ to # from
  BY PathFacts
<1>3. path \in [Quantizer!Paths -> Quantizer!Files \cup {NoFile}]
  BY DEF QuantizerInv, RunTypeInv
<1>4. /\ path' \in [Quantizer!Paths -> Quantizer!Files \cup {NoFile}]
      /\ path'[to] = path[from] /\ path'[from] = NoFile
      /\ \A o \in Quantizer!Paths : o \notin {to, from} => path'[o] = path[o]
  BY <1>1, <1>2, <1>3
<1> HIDE DEF from, to
<1>5. \A n \in Quantizer!Names :
        n # name => /\ path'[Quantizer!Installed(n)] = path[Quantizer!Installed(n)]
                    /\ path'[Quantizer!Partial(n)] = path[Quantizer!Partial(n)]
  BY <1>4, PathFacts DEF from, to
<1>6. ASSUME NEW n \in Quantizer!Names
      PROVE  /\ \A p \in {Quantizer!Installed(n), Quantizer!Partial(n)} : path'[p] # NoFile =>
                  \E q \in Runs : path'[p] = <<q, n>> /\ ~Uncreated(q, n)'
             /\ path'[Quantizer!Installed(n)] # NoFile =>
                  path'[Quantizer!Installed(n)] # path'[Quantizer!Partial(n)]
  <2>1. \A p \in {Quantizer!Installed(n), Quantizer!Partial(n)} : path[p] # NoFile =>
          \E q \in Runs : path[p] = <<q, n>> /\ ~Uncreated(q, n)'
    BY DEF QuantizerInv, NamesInv, Quantizer!Exists
  <2>2. CASE n = name
    BY <1>4, <2>1, <2>2 DEF from, to
  <2>3. CASE n # name
    BY <1>5, <2>1, <2>3 DEF QuantizerInv, NamesInv, Quantizer!Exists
  <2> QED
    BY <2>2, <2>3
<1>7. NamesInv'
  BY <1>6 DEF NamesInv, Quantizer!Exists
<1> QED
  BY <1>4, <1>5, <1>7 DEF from, to

(* The finished artifact gets its name.                                    *)
LEMMA InstallStep ==
  ASSUME QuantizerInv, NEW r \in Runs, Quantizer!Install(r)
  PROVE  QuantizerInv'
<1>1. /\ tool[r] = "appending" /\ tensor[r] > Tensors
      /\ handle' = [handle EXCEPT ![r] = NoFile] /\ UNCHANGED <<data, tensor, digest>>
  BY DEF Quantizer!Install
<1>2. \A q \in Runs : q # r => tool[q] \in Resting
  BY <1>1, OthersRest DEF Quantizer!Active
<1>3. FreeFor(r) /\ WorkOf(r)
  BY DEF QuantizerInv, FreeInv, WorkInv
<1>4. /\ path[Quantizer!Partial("gguf")] = <<r, "gguf">> /\ tensor[r] = Tensors + 1
      /\ data[<<r, "gguf">>] = Pieces(r, tensor[r])
      /\ \A name \in Quantizer!Names : ~Quantizer!Exists(Quantizer!Installed(name))
  BY <1>1, <1>3, FilesAssumption DEF WorkOf, FreeFor, Building, QuantizerInv, RunTypeInv
<1>5. data[<<r, "gguf">>] = Quantizer!Whole(r)
  BY <1>4 DEF Pieces, Quantizer!Whole
<1>6. "gguf" \in Quantizer!Names /\ Quantizer!Exists(Quantizer!Partial("gguf"))
  BY <1>4, PathFacts DEF Quantizer!Exists
<1>7. Quantizer!Rename("gguf") /\ tool' = [tool EXCEPT ![r] = "installed"]
  BY <1>6 DEF Quantizer!Install, Quantizer!Goto
<1>8. /\ tool' \in [Runs -> RunSteps] /\ tool'[r] = "installed" /\ "installed" \in RunSteps
      /\ \A q \in Runs : q # r => tool'[q] = tool[q]
  BY <1>7 DEF QuantizerInv, RunTypeInv, RunSteps, Hashing
<1>9. \A q \in Runs : \A n \in Quantizer!Names : ~Uncreated(q, n) => ~Uncreated(q, n)'
  BY <1>1, <1>8 DEF Uncreated, Planning, Building, Hashing, Describing
<1>10. /\ path' \in [Quantizer!Paths -> Quantizer!Files \cup {NoFile}]
       /\ path'[Quantizer!Installed("gguf")] = <<r, "gguf">>
       /\ \A n \in Quantizer!Names :
            n # "gguf" => path'[Quantizer!Installed(n)] = path[Quantizer!Installed(n)]
       /\ NamesInv'
  BY <1>4, <1>6, <1>7, <1>9, MoveFile
<1>11. RunTypeInv'
  BY <1>1, <1>8, <1>10 DEF QuantizerInv, RunTypeInv
<1>12. \A n \in Quantizer!Sidecars : path'[Quantizer!Installed(n)] = NoFile
  BY <1>4, <1>10, PathFacts DEF Quantizer!Exists
<1>13. FreeFor(r)'
  BY <1>8, <1>12 DEF FreeFor, Building, Hashing, Describing, Quantizer!Exists
<1>14. WorkOf(r)'
  BY <1>1, <1>5, <1>8, <1>10 DEF WorkOf, Planning, Building, Hashing, Describing
<1>15. InstalledInv'
  BY <1>1, <1>5, <1>10, <1>12
     DEF InstalledInv, Quantizer!InstalledIsWhole, Quantizer!SidecarsDescribe, Quantizer!Exists
<1> QED
  BY <1>1, <1>2, <1>7, <1>8, <1>10, <1>11, <1>13, <1>14, <1>15, RunStep

(* A sidecar is written, or part of it and the run stops.                  *)
LEMMA WriteSidecarStep ==
  ASSUME QuantizerInv, NEW r \in Runs, NEW name, NEW from, NEW to,
         Quantizer!WriteSidecar(r, name, from, to),
         <<name, from, to>> \in {<<"sha256", "sha256 claimed", "sha256 written">>,
                                <<"manifest", "manifest claimed", "manifest written">>}
  PROVE  QuantizerInv' /\ Kept
<1>1. \/ name = "sha256" /\ from = "sha256 claimed" /\ to = "sha256 written"
      \/ name = "manifest" /\ from = "manifest claimed" /\ to = "manifest written"
  OBVIOUS
<1>2. tool[r] = from /\ UNCHANGED <<handle, tensor, digest>>
  BY DEF Quantizer!WriteSidecar
<1>3. PICK pieces, next : /\ Quantizer!Create(r, name, pieces)
                          /\ tool' = [tool EXCEPT ![r] = next]
                          /\ next = "stopped" \/ (next = to /\ pieces = <<digest[r]>>)
  BY DEF Quantizer!WriteSidecar, Quantizer!Goto
<1>4. \A q \in Runs : q # r => tool[q] \in Resting
  BY <1>1, <1>2, OthersRest DEF Quantizer!Active
<1>5. FreeFor(r) /\ WorkOf(r)
  BY DEF QuantizerInv, FreeInv, WorkInv
<1>6. /\ ~Quantizer!Exists(Quantizer!Partial(name)) /\ ~Quantizer!Exists(Quantizer!Installed(name))
      /\ path[Quantizer!Installed("gguf")] = <<r, "gguf">> /\ data[<<r, "gguf">>] = Quantizer!Whole(r)
      /\ digest[r] = Quantizer!Whole(r)
  BY <1>1, <1>2, <1>5, PathFacts DEF FreeFor, WorkOf, Hashing, Describing
<1>7. /\ next \in RunSteps /\ tool' \in [Runs -> RunSteps] /\ tool'[r] = next
      /\ \A q \in Runs : q # r => tool'[q] = tool[q]
  BY <1>1, <1>3 DEF QuantizerInv, RunTypeInv, RunSteps, Hashing, Describing, Resting
<1>8. name \in Quantizer!Names /\ "gguf" \in Quantizer!Names /\ name # "gguf"
  BY <1>1, PathFacts
<1>9. Uncreated(r, name)
  BY <1>1, <1>2 DEF Uncreated, Building, Hashing, Describing
<1>10. ~Uncreated(r, name)'
  BY <1>1, <1>3, <1>7 DEF Uncreated, Planning, Building, Hashing, Describing
<1>11. \A q \in Runs : \A n \in Quantizer!Names : ~Uncreated(q, n) => ~Uncreated(q, n)'
  BY <1>1, <1>2, <1>3, <1>7 DEF Uncreated, Planning, Building, Hashing, Describing
<1>12. /\ path' \in [Quantizer!Paths -> Quantizer!Files \cup {NoFile}]
       /\ data' = [f \in Quantizer!Files |-> data'[f]]
       /\ path'[Quantizer!Partial(name)] = <<r, name>> /\ data'[<<r, name>>] = pieces
       /\ \A n \in Quantizer!Names : path'[Quantizer!Installed(n)] = path[Quantizer!Installed(n)]
       /\ \A n \in Quantizer!Names :
            Quantizer!Exists(Quantizer!Installed(n)) =>
              data'[path[Quantizer!Installed(n)]] = data[path[Quantizer!Installed(n)]]
       /\ NamesInv'
  BY <1>3, <1>6, <1>8, <1>9, <1>10, <1>11, CreateFile
<1>13. data'[<<r, "gguf">>] = data[<<r, "gguf">>]
  BY <1>6, <1>8, <1>12, PathFacts DEF Quantizer!Exists
<1>14. RunTypeInv'
  BY <1>2, <1>7, <1>12 DEF QuantizerInv, RunTypeInv
<1>15. ASSUME next = "stopped" PROVE FreeFor(r)' /\ WorkOf(r)'
  BY <1>7, <1>15 DEF FreeFor, WorkOf, Planning, Building, Hashing, Describing
<1>16. ASSUME next = to, pieces = <<digest[r]>> PROVE FreeFor(r)' /\ WorkOf(r)'
  <2>1. FreeFor(r)'
    BY <1>1, <1>2, <1>5, <1>7, <1>12, <1>16, PathFacts
       DEF FreeFor, Building, Hashing, Describing, Quantizer!Exists
  <2>2. WorkOf(r)'
    BY <1>1, <1>2, <1>6, <1>7, <1>8, <1>12, <1>13, <1>16
       DEF WorkOf, Planning, Building, Hashing, Describing
  <2> QED
    BY <2>1, <2>2
<1>17. FreeFor(r)' /\ WorkOf(r)'
  BY <1>3, <1>15, <1>16
<1>18. InstalledInv'
  BY <1>12, PathFacts
     DEF QuantizerInv, InstalledInv, Quantizer!InstalledIsWhole, Quantizer!SidecarsDescribe,
         Quantizer!Exists
<1>19. Kept
  BY <1>12 DEF Kept
<1> QED
  BY <1>2, <1>3, <1>4, <1>7, <1>12, <1>14, <1>17, <1>18, <1>19, RunStep

(* A sidecar gets its name, beside the artifact it was made from.          *)
LEMMA InstallSidecarStep ==
  ASSUME QuantizerInv, NEW r \in Runs, NEW name, NEW from, NEW to,
         Quantizer!InstallSidecar(r, name, from, to),
         <<name, from, to>> \in {<<"sha256", "sha256 written", "sha256 installed">>,
                                <<"manifest", "manifest written", "done">>}
  PROVE  QuantizerInv' /\ Kept
<1>1. \/ name = "sha256" /\ from = "sha256 written" /\ to = "sha256 installed"
      \/ name = "manifest" /\ from = "manifest written" /\ to = "done"
  OBVIOUS
<1>2. tool[r] = from /\ UNCHANGED <<data, handle, tensor, digest>>
  BY DEF Quantizer!InstallSidecar
<1>3. \A q \in Runs : q # r => tool[q] \in Resting
  BY <1>1, <1>2, OthersRest DEF Quantizer!Active
<1>4. FreeFor(r) /\ WorkOf(r)
  BY DEF QuantizerInv, FreeInv, WorkInv
<1>5. /\ path[Quantizer!Partial(name)] = <<r, name>> /\ data[<<r, name>>] = <<digest[r]>>
      /\ path[Quantizer!Installed("gguf")] = <<r, "gguf">> /\ data[<<r, "gguf">>] = Quantizer!Whole(r)
      /\ digest[r] = Quantizer!Whole(r) /\ ~Quantizer!Exists(Quantizer!Installed("manifest"))
      /\ ~Quantizer!Exists(Quantizer!Installed(name))
  BY <1>1, <1>2, <1>4, PathFacts DEF FreeFor, WorkOf, Hashing, Describing
<1>6. name \in Quantizer!Names /\ "gguf" \in Quantizer!Names /\ name # "gguf"
  BY <1>1, PathFacts
<1>7. Quantizer!Exists(Quantizer!Partial(name))
  BY <1>5, <1>6, PathFacts DEF Quantizer!Exists
<1>8. Quantizer!Rename(name) /\ tool' = [tool EXCEPT ![r] = to]
  BY <1>7 DEF Quantizer!InstallSidecar, Quantizer!Goto
<1>9. /\ to \in RunSteps /\ tool' \in [Runs -> RunSteps] /\ tool'[r] = to
      /\ \A q \in Runs : q # r => tool'[q] = tool[q]
  BY <1>1, <1>8 DEF QuantizerInv, RunTypeInv, RunSteps, Describing, Resting
<1>10. \A q \in Runs : \A n \in Quantizer!Names : ~Uncreated(q, n) => ~Uncreated(q, n)'
  BY <1>1, <1>2, <1>9 DEF Uncreated, Planning, Building, Hashing, Describing
<1>11. /\ path' \in [Quantizer!Paths -> Quantizer!Files \cup {NoFile}]
       /\ path'[Quantizer!Installed(name)] = <<r, name>>
       /\ \A n \in Quantizer!Names :
            n # name => /\ path'[Quantizer!Installed(n)] = path[Quantizer!Installed(n)]
                        /\ path'[Quantizer!Partial(n)] = path[Quantizer!Partial(n)]
       /\ NamesInv'
  BY <1>5, <1>6, <1>8, <1>10, MoveFile
<1>12. RunTypeInv'
  BY <1>2, <1>9, <1>11 DEF QuantizerInv, RunTypeInv
<1>13. path'[Quantizer!Installed("gguf")] = <<r, "gguf">>
  BY <1>5, <1>6, <1>11
<1>14. FreeFor(r)'
  BY <1>1, <1>5, <1>9, <1>11, PathFacts DEF FreeFor, Building, Hashing, Describing, Quantizer!Exists
<1>15. WorkOf(r)'
  BY <1>1, <1>2, <1>5, <1>9, <1>13 DEF WorkOf, Planning, Building, Hashing, Describing
<1>16. InstalledInv'
  <2>1. Quantizer!InstalledIsWhole'
    BY <1>2, <1>5, <1>13 DEF Quantizer!InstalledIsWhole
  <2>2. ASSUME NEW n \in Quantizer!Sidecars, path'[Quantizer!Installed(n)] # NoFile
        PROVE  data'[path'[Quantizer!Installed(n)]] = <<data'[path'[Quantizer!Installed("gguf")]]>>
    <3>1. CASE n = name
      BY <1>2, <1>5, <1>11, <1>13, <3>1
    <3>2. CASE n # name
      <4>1. path[Quantizer!Installed(n)] = path'[Quantizer!Installed(n)]
        BY <1>11, <3>2, PathFacts
      <4>2. Quantizer!Exists(Quantizer!Installed(n)) /\ Quantizer!Exists(Quantizer!Installed("gguf"))
        BY <1>5, <1>6, <2>2, <4>1, PathFacts DEF Quantizer!Exists
      <4> QED
        BY <1>2, <1>5, <1>13, <4>1, <4>2 DEF QuantizerInv, InstalledInv, Quantizer!SidecarsDescribe
    <3> QED
      BY <3>1, <3>2
  <2>3. Quantizer!SidecarsDescribe'
    BY <2>2 DEF Quantizer!SidecarsDescribe, Quantizer!Exists
  <2> QED
    BY <2>1, <2>3 DEF InstalledInv
<1>17. Kept
  BY <1>2, <1>5, <1>11 DEF Kept
<1> QED
  BY <1>2, <1>3, <1>8, <1>9, <1>11, <1>12, <1>14, <1>15, <1>16, <1>17, RunStep

(* Files are removed between runs only.                                    *)
LEMMA RemoveStep ==
  ASSUME QuantizerInv, Quantizer!Remove
  PROVE  QuantizerInv'
<1>1. PICK p \in Quantizer!Paths : path' = [path EXCEPT ![p] = NoFile]
  BY DEF Quantizer!Remove
<1>2. UNCHANGED <<data, tool, handle, tensor, digest>> /\ \A r \in Runs : tool[r] \in Resting
  BY DEF Quantizer!Remove, Quantizer!Active, Resting
<1>3. /\ path' \in [Quantizer!Paths -> Quantizer!Files \cup {NoFile}]
      /\ \A o \in Quantizer!Paths : path'[o] \in {path[o], NoFile}
  BY <1>1 DEF QuantizerInv, RunTypeInv
<1>4. \A n \in Quantizer!Names : /\ path'[Quantizer!Installed(n)] \in {path[Quantizer!Installed(n)], NoFile}
                                 /\ path'[Quantizer!Partial(n)] \in {path[Quantizer!Partial(n)], NoFile}
  BY <1>3, PathFacts
<1>5. RunTypeInv' /\ AloneInv'
  BY <1>2, <1>3 DEF QuantizerInv, RunTypeInv, AloneInv, Quantizer!Active
<1>6. \A q \in Runs : \A n \in Quantizer!Names : Uncreated(q, n)' <=> Uncreated(q, n)
  BY <1>2 DEF Uncreated
<1>7. NamesInv'
  BY <1>4, <1>6 DEF QuantizerInv, NamesInv, Quantizer!Exists
<1>8. \A r \in Runs : FreeFor(r)'
  BY <1>2 DEF FreeFor, Resting, Building, Hashing, Describing
<1>9. \A r \in Runs : WorkOf(r)'
  BY <1>2 DEF QuantizerInv, WorkInv, WorkOf, Resting, Planning, Building, Hashing, Describing
<1>10. InstalledInv'
  BY <1>2, <1>4, PathFacts
     DEF QuantizerInv, InstalledInv, Quantizer!InstalledIsWhole, Quantizer!SidecarsDescribe,
         Quantizer!Exists
<1> QED
  BY <1>5, <1>7, <1>8, <1>9, <1>10 DEF QuantizerInv, FreeInv, WorkInv

(* Every step keeps the invariant.                                         *)
LEMMA QuantizerNext ==
  ASSUME ~Concurrent, QuantizerInv, [Quantizer!Next]_quantizerVars
  PROVE  QuantizerInv'
<1>1. ASSUME NEW r \in Runs, Quantizer!Run(r)
      PROVE  QuantizerInv'
  <2>1. CASE Quantizer!Start(r)
    BY <2>1, StartRunStep
  <2>2. CASE \/ Quantizer!Claim(r, "gguf", "planned", "claimed")
             \/ Quantizer!Claim(r, "sha256", "hashed", "sha256 claimed")
             \/ Quantizer!Claim(r, "manifest", "sha256 installed", "manifest claimed")
    BY <2>2, ClaimStep
  <2>3. CASE \/ Quantizer!WriteMetadata(r) \/ Quantizer!OpenToAppend(r)
             \/ Quantizer!WriteTensor(r) \/ Quantizer!Install(r) \/ Quantizer!Hash(r)
    BY <2>3, CreateStep, OpenStep, AppendStep, InstallStep, HashStep
  <2>4. CASE \/ Quantizer!WriteSidecar(r, "sha256", "sha256 claimed", "sha256 written")
             \/ Quantizer!WriteSidecar(r, "manifest", "manifest claimed", "manifest written")
    BY <2>4, WriteSidecarStep
  <2>5. CASE \/ Quantizer!InstallSidecar(r, "sha256", "sha256 written", "sha256 installed")
             \/ Quantizer!InstallSidecar(r, "manifest", "manifest written", "done")
    BY <2>5, InstallSidecarStep
  <2> QED
    BY <1>1, <2>1, <2>2, <2>3, <2>4, <2>5 DEF Quantizer!Run
<1>2. ASSUME NEW r \in Runs, Quantizer!Stop(r)
      PROVE  QuantizerInv'
  BY <1>2, StopStep
<1>3. CASE Quantizer!Remove
  BY <1>3, RemoveStep
<1>4. CASE UNCHANGED quantizerVars
  <2>1. UNCHANGED <<path, data, tool, handle, tensor, digest>>
    BY <1>4 DEF quantizerVars
  <2>2. RunTypeInv' /\ AloneInv'
    BY <2>1 DEF QuantizerInv, RunTypeInv, AloneInv, Quantizer!Active
  <2>3. NamesInv'
    BY <2>1 DEF QuantizerInv, NamesInv, Uncreated, Quantizer!Exists
  <2>4. FreeInv'
    BY <2>1 DEF QuantizerInv, FreeInv, FreeFor, Quantizer!Exists
  <2>5. WorkInv'
    BY <2>1 DEF QuantizerInv, WorkInv, WorkOf
  <2>6. InstalledInv'
    BY <2>1 DEF QuantizerInv, InstalledInv, Quantizer!InstalledIsWhole, Quantizer!SidecarsDescribe,
                Quantizer!Exists
  <2> QED
    BY <2>2, <2>3, <2>4, <2>5, <2>6 DEF QuantizerInv
<1> QED
  BY <1>1, <1>2, <1>3, <1>4 DEF Quantizer!Next

(* No step of a run touches what is installed.                             *)
LEMMA RunKeeps ==
  ASSUME QuantizerInv, NEW r \in Runs, Quantizer!Run(r) \/ Quantizer!Stop(r)
  PROVE  Kept
<1>1. CASE \/ Quantizer!Start(r) \/ Quantizer!Hash(r) \/ Quantizer!Stop(r)
           \/ Quantizer!Claim(r, "gguf", "planned", "claimed")
           \/ Quantizer!Claim(r, "sha256", "hashed", "sha256 claimed")
           \/ Quantizer!Claim(r, "manifest", "sha256 installed", "manifest claimed")
  <2>1. UNCHANGED <<path, data>>
    BY <1>1 DEF Quantizer!Start, Quantizer!Hash, Quantizer!Stop, Quantizer!Claim
  <2> QED
    BY <2>1 DEF Kept
<1>2. CASE \/ Quantizer!WriteMetadata(r) \/ Quantizer!OpenToAppend(r)
           \/ Quantizer!WriteTensor(r) \/ Quantizer!Install(r)
  <2>1. tool[r] \in {"claimed", "written", "appending"}
    BY <1>2 DEF Quantizer!WriteMetadata, Quantizer!OpenToAppend, Quantizer!WriteTensor, Quantizer!Install
  <2>2. \A name \in Quantizer!Names : ~Quantizer!Exists(Quantizer!Installed(name))
    BY <2>1 DEF QuantizerInv, FreeInv, FreeFor, Building
  <2> QED
    BY <2>2 DEF Kept
<1>3. CASE \/ Quantizer!WriteSidecar(r, "sha256", "sha256 claimed", "sha256 written")
           \/ Quantizer!WriteSidecar(r, "manifest", "manifest claimed", "manifest written")
  BY <1>3, WriteSidecarStep
<1>4. CASE \/ Quantizer!InstallSidecar(r, "sha256", "sha256 written", "sha256 installed")
           \/ Quantizer!InstallSidecar(r, "manifest", "manifest written", "done")
  BY <1>4, InstallSidecarStep
<1> QED
  BY <1>1, <1>2, <1>3, <1>4 DEF Quantizer!Run

(* The user removes a file or leaves it.                                   *)
LEMMA RemoveKeeps ==
  ASSUME QuantizerInv, Quantizer!Remove, NEW name \in Quantizer!Names
  PROVE  \/ path'[Quantizer!Installed(name)] = NoFile
         \/ path'[Quantizer!Installed(name)] = path[Quantizer!Installed(name)] /\ data' = data
<1>1. PICK p \in Quantizer!Paths : path' = [path EXCEPT ![p] = NoFile] /\ data' = data
  BY DEF Quantizer!Remove
<1>2. Quantizer!Installed(name) \in Quantizer!Paths
  BY PathFacts
<1> QED
  BY <1>1, <1>2 DEF QuantizerInv, RunTypeInv

(* Nothing is there at first.                                              *)
LEMMA QuantizerStart == FilesInit => QuantizerInv
<1> SUFFICES ASSUME FilesInit PROVE QuantizerInv
  OBVIOUS
<1>1. Quantizer!Init
  BY DEF FilesInit
<1>2. \A r \in Runs : tool[r] = "idle" /\ tensor[r] = 1
  BY <1>1 DEF Quantizer!Init
<1>3. \A p \in Quantizer!Paths : ~Quantizer!Exists(p)
  BY <1>1 DEF Quantizer!Init, Quantizer!Exists
<1>4. RunTypeInv
  <2>1. /\ tool \in [Runs -> RunSteps] /\ tensor \in [Runs -> 1 .. Tensors + 1]
    BY <1>1, FilesAssumption DEF Quantizer!Init, RunSteps, Planning
  <2>2. path \in [Quantizer!Paths -> Quantizer!Files \cup {NoFile}]
    BY <1>1 DEF Quantizer!Init
  <2>3. /\ data = [f \in Quantizer!Files |-> data[f]] /\ handle = [r \in Runs |-> handle[r]]
        /\ digest = [r \in Runs |-> digest[r]]
    BY <1>1 DEF Quantizer!Init
  <2> QED
    BY <2>1, <2>2, <2>3 DEF RunTypeInv
<1>5. AloneInv
  BY <1>2 DEF AloneInv, Quantizer!Active
<1>6. NamesInv
  BY <1>3, PathFacts DEF NamesInv
<1>7. \A r \in Runs : FreeFor(r) /\ WorkOf(r)
  BY <1>2 DEF FreeFor, WorkOf, Planning, Building, Hashing, Describing
<1>8. InstalledInv
  BY <1>3, PathFacts DEF InstalledInv, Quantizer!InstalledIsWhole, Quantizer!SidecarsDescribe
<1> QED
  BY <1>4, <1>5, <1>6, <1>7, <1>8 DEF QuantizerInv, FreeInv, WorkInv

(* A step of the files is one of the quantizer, or none of it.             *)
LEMMA QuantizerSteps ==
  [FilesNext]_<<subject, vars, others>> => [Quantizer!Next]_quantizerVars
<1> SUFFICES ASSUME [FilesNext]_<<subject, vars, others>>
             PROVE  [Quantizer!Next]_quantizerVars
  OBVIOUS
<1>1. CASE RunQuantizer
  BY <1>1 DEF RunQuantizer
<1>2. CASE Publish \/ WritePair \/ ProcessArtifact \/ Stop \/ UNCHANGED <<subject, vars, others>>
  BY <1>2 DEF Publish, WritePair, ProcessArtifact, Stop, others
<1> QED
  BY <1>1, <1>2 DEF FilesNext

(* For any number of runs that do not overlap, each as often interrupted   *)
(* and with as many files removed as it may be: what stands under a final  *)
(* name is complete and of one run, and a checksum or manifest beside an   *)
(* artifact is that artifact's.  (levo-quantize.cpp)                       *)
THEOREM InstalledFilesStayWhole == ~Concurrent => (FilesSpec => []InstalledFilesAgree)
<1> SUFFICES ASSUME ~Concurrent PROVE FilesSpec => []InstalledFilesAgree
  OBVIOUS
<1>1. QuantizerInv /\ [FilesNext]_<<subject, vars, others>> => QuantizerInv'
  BY QuantizerSteps, QuantizerNext
<1>2. QuantizerInv => InstalledFilesAgree
  BY DEF QuantizerInv, InstalledInv, InstalledFilesAgree
<1> QED
  BY <1>1, <1>2, QuantizerStart, PTL DEF FilesSpec

(* What the quantizer installed is neither replaced nor written to; it     *)
(* stands until the user removes it.  (levo-quantize.cpp)                  *)
THEOREM QuantizedIsNeverOverwritten == ~Concurrent => (FilesSpec => NeverOverwritten)
<1> SUFFICES ASSUME ~Concurrent PROVE FilesSpec => NeverOverwritten
  OBVIOUS
<1> DEFINE Stays ==
      \A name \in Quantizer!Names : LET p == Quantizer!Installed(name) IN
        Quantizer!Exists(p) => \/ path'[p] = NoFile
                               \/ path'[p] = path[p] /\ data'[path[p]] = data[path[p]]
<1>1. QuantizerInv /\ [FilesNext]_<<subject, vars, others>> => QuantizerInv'
  BY QuantizerSteps, QuantizerNext
<1>2. QuantizerInv /\ [FilesNext]_<<subject, vars, others>> => [Stays]_quantizerVars
  <2>1. SUFFICES ASSUME QuantizerInv, Quantizer!Next PROVE Stays
    BY QuantizerSteps
  <2>2. CASE Quantizer!Remove
    BY <2>1, <2>2, RemoveKeeps
  <2>3. ASSUME NEW r \in Runs, Quantizer!Run(r) \/ Quantizer!Stop(r) PROVE Stays
    <3>1. Kept
      BY <2>1, <2>3, RunKeeps
    <3> QED
      BY <3>1 DEF Kept
  <2> QED
    BY <2>1, <2>2, <2>3 DEF Quantizer!Next
<1>3. FilesSpec => [][Stays]_quantizerVars
  BY <1>1, <1>2, QuantizerStart, PTL DEF FilesSpec
<1> QED
  BY <1>3 DEF NeverOverwritten, Quantizer!NeverOverwritten, Quantizer!vars, quantizerVars

-----------------------------------------------------------------------------
(* A payload and its manifest.                                             *)
Second == IF writer = "tokens" THEN "manifest" ELSE "payload"
Targets(n) == [Pair!Names -> 0 .. n]
Temporaries(n) == [Pair!Names -> {Pair!Torn, Pair!Absent, n}]

PairTypeInv ==
  /\ writer \in Pair!Writers /\ step \in {"returned", "stage", "commit", "retry", "cleanup"}
  /\ staged \in Pair!Names /\ call \in Nat /\ spoiled \in BOOLEAN
  /\ committed \in SUBSET Pair!Names
  /\ target \in Targets(call) /\ temporary \in Temporaries(call)

(* What a call has published, and what it has ready to publish next.       *)
CallInv ==
  step # "returned" =>
    /\ committed \in {{}, {Pair!First}}
    /\ committed = {} => \A n \in Pair!Names : target[n] < call
    /\ committed = {Pair!First} => target[Pair!First] = call /\ target[Second] < call
    /\ step = "stage" => committed = {} /\ (staged = "manifest" => temporary["payload"] = call)
    /\ step \in {"commit", "retry"} =>
         /\ committed = {} => staged = Pair!First /\ \A n \in Pair!Names : temporary[n] = call
         /\ committed = {Pair!First} => staged = Second /\ temporary[Second] = call

(* Between calls, and until a call has published anything, a rendering     *)
(* that nothing spoiled is beside its own manifest.                        *)
SettledInv ==
  writer = "render" /\ ~spoiled /\ (step = "returned" \/ committed = {}) =>
    (Pair!Here("payload") /\ Pair!Here("manifest") => target["payload"] = target["manifest"])

SuccessInv == step = "returned" /\ outcome = "ok" => target = [n \in Pair!Names |-> call]

PairInv == PairTypeInv /\ CallInv /\ Pair!OlderSideIsKnown /\ SettledInv /\ SuccessInv

-----------------------------------------------------------------------------
(* The two names, in the order of their renames.                           *)
LEMMA NameFacts ==
  ASSUME PairTypeInv
  PROVE  /\ Pair!Names = {"payload", "manifest"} /\ Pair!Names = {Pair!First, Second}
         /\ Pair!First # Second
         /\ \/ writer = "tokens" /\ Pair!First = "payload" /\ Second = "manifest"
            \/ writer = "render" /\ Pair!First = "manifest" /\ Second = "payload"
         /\ Pair!Absent = 0 /\ Pair!Torn = -1
  BY DEF PairTypeInv, Pair!Names, Pair!Writers, Pair!First, Second, Pair!Absent, Pair!Torn

LEMMA TargetFacts ==
  ASSUME NEW n \in Nat, NEW t \in Targets(n)
  PROVE  t \in Targets(n + 1) /\ \A name \in Pair!Names : t[name] \in 0 .. n
  BY DEF Targets

(* A new call.                                                             *)
LEMMA CallStep ==
  ASSUME PairInv, Pair!Call
  PROVE  PairInv'
<1>1. /\ step = "returned" /\ call \in Nat /\ call' = call + 1 /\ step' = "stage"
      /\ staged' = "payload" /\ committed' = {} /\ temporary' = [n \in Pair!Names |-> Pair!Absent]
      /\ UNCHANGED <<writer, target, outcome, spoiled>>
  BY DEF Pair!Call, PairInv, PairTypeInv
<1>2. \A n \in Pair!Names : target[n] < call'
  BY <1>1, TargetFacts DEF PairInv, PairTypeInv
<1>3. PairTypeInv'
  <2>1. target' \in Targets(call')
    BY <1>1, TargetFacts DEF PairInv, PairTypeInv
  <2>2. temporary' \in Temporaries(call')
    BY <1>1 DEF Temporaries
  <2>3. "payload" \in Pair!Names /\ call' \in Nat /\ {} \in SUBSET Pair!Names
    BY <1>1 DEF Pair!Names
  <2> QED
    BY <1>1, <2>1, <2>2, <2>3 DEF PairInv, PairTypeInv
<1>4. CallInv'
  BY <1>1, <1>2 DEF CallInv
<1>5. Pair!OlderSideIsKnown' /\ SettledInv' /\ SuccessInv'
  BY <1>1 DEF PairInv, Pair!OlderSideIsKnown, Pair!Here, SettledInv, SuccessInv
<1> QED
  BY <1>3, <1>4, <1>5 DEF PairInv

(* A file is staged, or part of it and the call gives up.                  *)
LEMMA StageStep ==
  ASSUME PairInv, Pair!StagePayload \/ Pair!StageManifest
  PROVE  PairInv'
<1>1. /\ step = "stage" /\ staged \in Pair!Names /\ call \in Nat
      /\ UNCHANGED <<writer, target, call, committed, outcome, spoiled>>
  BY DEF Pair!StagePayload, Pair!StageManifest, Pair!Write, PairInv, PairTypeInv
<1>2. PICK written \in {call, Pair!Torn} : temporary' = [temporary EXCEPT ![staged] = written]
  BY DEF Pair!StagePayload, Pair!StageManifest, Pair!Write
<1>3. /\ temporary' \in Temporaries(call)
      /\ \A n \in Pair!Names : temporary'[n] = IF n = staged THEN written ELSE temporary[n]
  <2>1. temporary \in Temporaries(call) /\ written \in {Pair!Torn, Pair!Absent, call}
    BY DEF PairInv, PairTypeInv
  <2> QED
    BY <1>1, <1>2, <2>1 DEF Temporaries
<1>4. \/ step' = "cleanup" /\ staged' = staged
      \/ /\ staged = "payload" /\ staged' = "manifest" /\ step' = step /\ written # Pair!Torn
      \/ /\ staged = "manifest" /\ step' = "commit" /\ staged' = Pair!First /\ written # Pair!Torn
  BY <1>1, <1>3 DEF Pair!StagePayload, Pair!StageManifest, Pair!Write, Pair!ShortWrite
<1>5. /\ committed = {} /\ \A n \in Pair!Names : target[n] < call
      /\ staged = "manifest" => temporary["payload"] = call
  BY <1>1 DEF PairInv, CallInv
<1>6. PairTypeInv'
  <2>1. staged' \in Pair!Names /\ step' \in {"stage", "commit", "cleanup"}
    BY <1>1, <1>4, NameFacts DEF PairInv
  <2> QED
    BY <1>1, <1>3, <2>1 DEF PairInv, PairTypeInv
<1>7. CallInv'
  <2>1. /\ Pair!First' = Pair!First /\ committed' = {} /\ call' = call
        /\ \A n \in Pair!Names : target'[n] < call
    BY <1>1, <1>5 DEF Pair!First
  <2>2. step' = "stage" /\ staged' = "manifest" => temporary'["payload"] = call
    BY <1>1, <1>3, <1>4, NameFacts DEF PairInv
  <2>3. step' \in {"commit", "retry"} =>
          staged' = Pair!First /\ \A n \in Pair!Names : temporary'[n] = call
    BY <1>1, <1>3, <1>4, <1>5, NameFacts DEF PairInv
  <2> QED
    BY <2>1, <2>2, <2>3 DEF CallInv
<1>8. Pair!OlderSideIsKnown' /\ SettledInv' /\ SuccessInv'
  BY <1>1, <1>4, <1>5 DEF PairInv, Pair!OlderSideIsKnown, Pair!Here, SettledInv, SuccessInv
<1> QED
  BY <1>6, <1>7, <1>8 DEF PairInv

(* A file is renamed over its target, or not, or the target removed.       *)
LEMMA CommitStep ==
  ASSUME PairInv, Pair!Commit
  PROVE  PairInv'
<1> USE NameFacts
<1>1. /\ step \in {"commit", "retry"} /\ staged \in Pair!Names /\ call \in Nat
      /\ target \in Targets(call) /\ temporary \in Temporaries(call) /\ UNCHANGED <<writer, call>>
      /\ PairTypeInv
  BY DEF Pair!Commit, PairInv, PairTypeInv
<1>2. /\ committed \in {{}, {Pair!First}}
      /\ committed = {} => /\ \A n \in Pair!Names : target[n] < call /\ temporary[n] = call
                           /\ staged = Pair!First
      /\ committed = {Pair!First} => /\ target[Pair!First] = call /\ target[Second] < call
                                     /\ staged = Second /\ temporary[Second] = call
      /\ temporary[staged] = call
  BY <1>1 DEF PairInv, CallInv
<1>3. CASE Pair!Renamed
  <2>1. /\ target' = [target EXCEPT ![staged] = call]
        /\ temporary' = [temporary EXCEPT ![staged] = Pair!Absent]
        /\ committed' = committed \cup {staged}
    BY <1>2, <1>3 DEF Pair!Renamed
  <2>2. /\ target' \in Targets(call) /\ temporary' \in Temporaries(call)
        /\ \A n \in Pair!Names : target'[n] = IF n = staged THEN call ELSE target[n]
        /\ \A n \in Pair!Names : temporary'[n] = IF n = staged THEN Pair!Absent ELSE temporary[n]
    <3>1. target' \in Targets(call) /\ \A n \in Pair!Names : target'[n] = IF n = staged THEN call ELSE target[n]
      BY <1>1, <2>1 DEF Targets
    <3>2. /\ temporary' \in Temporaries(call)
          /\ \A n \in Pair!Names : temporary'[n] = IF n = staged THEN Pair!Absent ELSE temporary[n]
      BY <1>1, <2>1 DEF Temporaries
    <3> QED
      BY <3>1, <3>2
  <2>3. \A n \in Pair!Names : target[n] \in 0 .. call
    BY <1>1, TargetFacts
  <2>4. CASE committed = {}
    <3>1. /\ step' = "commit" /\ staged' = Second /\ committed' = {Pair!First}
          /\ UNCHANGED <<outcome, spoiled>>
      BY <1>1, <1>2, <1>3, <2>1, <2>4 DEF Pair!Renamed
    <3>2. PairTypeInv'
      BY <1>1, <2>2, <3>1 DEF PairTypeInv
    <3>3. Pair!First' = Pair!First /\ Second' = Second
      BY <1>1 DEF Pair!First, Second
    <3>4. CallInv'
      BY <1>1, <1>2, <2>2, <2>4, <3>1, <3>3 DEF CallInv
    <3>5. Pair!OlderSideIsKnown'
      BY <1>1, <1>2, <2>2, <2>3, <2>4 DEF Pair!OlderSideIsKnown, Pair!Here
    <3>6. SettledInv' /\ SuccessInv'
      BY <3>1 DEF SettledInv, SuccessInv
    <3> QED
      BY <3>2, <3>4, <3>5, <3>6 DEF PairInv
  <2>5. CASE committed = {Pair!First}
    <3>1. step' = "returned" /\ outcome' = "ok" /\ spoiled' = FALSE /\ staged' = staged
      BY <1>3, <2>5 DEF Pair!Renamed
    <3>2. target'["payload"] = call /\ target'["manifest"] = call
      BY <1>1, <1>2, <2>2, <2>5
    <3>3. target' = [n \in Pair!Names |-> call]
      <4>1. target' = [n \in Pair!Names |-> target'[n]]
        BY <2>2 DEF Targets
      <4> QED
        BY <1>1, <3>2, <4>1
    <3>4. PairTypeInv'
      BY <1>1, <2>1, <2>2, <2>5, <3>1 DEF PairTypeInv
    <3>5. Pair!OlderSideIsKnown' /\ SettledInv' /\ SuccessInv'
      BY <1>1, <3>2, <3>3 DEF Pair!OlderSideIsKnown, Pair!Here, SettledInv, SuccessInv
    <3> QED
      BY <3>1, <3>4, <3>5 DEF PairInv, CallInv
  <2> QED
    BY <1>2, <2>4, <2>5
<1>4. CASE Pair!Fails
  <2>1. step' = "cleanup" /\ UNCHANGED <<target, temporary, committed, staged, outcome, spoiled>>
    BY <1>4 DEF Pair!Fails
  <2>2. PairTypeInv'
    BY <1>1, <2>1 DEF PairTypeInv
  <2>3. CallInv'
    BY <1>1, <1>2, <2>1 DEF CallInv, Pair!First, Second
  <2>4. Pair!OlderSideIsKnown' /\ SettledInv' /\ SuccessInv'
    BY <1>1, <2>1 DEF PairInv, Pair!OlderSideIsKnown, Pair!Here, SettledInv, SuccessInv
  <2> QED
    BY <2>2, <2>3, <2>4 DEF PairInv
<1>5. CASE /\ target' = [target EXCEPT ![staged] = Pair!Absent] /\ step' = "retry"
           /\ UNCHANGED <<temporary, committed, staged, outcome, spoiled>>
  <2>1. /\ target' \in Targets(call)
        /\ \A n \in Pair!Names : target'[n] = IF n = staged THEN 0 ELSE target[n]
    BY <1>1, <1>5 DEF Targets
  <2>2. PairTypeInv'
    BY <1>1, <1>5, <2>1 DEF PairTypeInv
  <2>3. Pair!First' = Pair!First /\ Second' = Second
    BY <1>1 DEF Pair!First, Second
  <2>4. 0 < call
    BY <1>1, <1>2, TargetFacts
  <2>5. CallInv'
    BY <1>1, <1>2, <1>5, <2>1, <2>3, <2>4 DEF CallInv
  <2>6. Pair!OlderSideIsKnown' /\ SettledInv' /\ SuccessInv'
    <3>1. ~(Pair!Here("payload") /\ Pair!Here("manifest"))'
      BY <1>1, <2>1 DEF Pair!Here
    <3> QED
      BY <1>5, <3>1 DEF Pair!OlderSideIsKnown, SettledInv, SuccessInv
  <2> QED
    BY <2>2, <2>5, <2>6 DEF PairInv
<1> QED
  BY <1>3, <1>4, <1>5 DEF Pair!Commit

(* The call fails, having removed some of its files.                       *)
LEMMA CleanupStep ==
  ASSUME PairInv, Pair!Cleanup
  PROVE  PairInv'
<1> USE NameFacts
<1>1. /\ step = "cleanup" /\ step' = "returned" /\ outcome' = "failed"
      /\ UNCHANGED <<writer, staged, call, committed>> /\ PairTypeInv
  BY DEF Pair!Cleanup, PairInv
<1>2. PICK removed \in SUBSET Pair!Names, withdrawn \in SUBSET Pair!Published :
        /\ temporary' = [n \in Pair!Names |-> IF n \in removed THEN Pair!Absent ELSE temporary[n]]
        /\ target' = [n \in Pair!Names |-> IF n \in withdrawn THEN Pair!Absent ELSE target[n]]
        /\ spoiled' = (spoiled \/ withdrawn # Pair!Published)
  BY DEF Pair!Cleanup
<1>3. /\ target \in Targets(call) /\ temporary \in Temporaries(call) /\ call \in Nat
  BY <1>1 DEF PairTypeInv
<1>4. target' \in Targets(call) /\ temporary' \in Temporaries(call)
  <2>1. target' \in Targets(call)
    BY <1>1, <1>2, <1>3 DEF Targets
  <2>2. temporary' \in Temporaries(call)
    BY <1>2, <1>3 DEF Temporaries
  <2> QED
    BY <2>1, <2>2
<1>5. PairTypeInv'
  BY <1>1, <1>2, <1>4 DEF PairTypeInv
<1>6. \A n \in Pair!Names : target'[n] = IF n \in withdrawn THEN 0 ELSE target[n]
  BY <1>1, <1>2
<1>7. Pair!OlderSideIsKnown'
  BY <1>1, <1>6 DEF PairInv, Pair!OlderSideIsKnown, Pair!Here
<1>8. SettledInv'
  <2>1. SUFFICES ASSUME writer = "render", ~spoiled', target'["payload"] # 0, target'["manifest"] # 0
                 PROVE  target'["payload"] = target'["manifest"]
    BY <1>1 DEF SettledInv, Pair!Here
  <2>2. /\ ~spoiled /\ withdrawn = committed \cap {"manifest"} /\ withdrawn = {}
    BY <1>1, <1>2, <1>6, <2>1 DEF Pair!Published
  <2>3. committed = {}
    BY <1>1, <2>1, <2>2 DEF PairInv, CallInv
  <2> QED
    BY <1>1, <1>6, <2>1, <2>2, <2>3 DEF PairInv, SettledInv, Pair!Here
<1> QED
  BY <1>1, <1>5, <1>7, <1>8 DEF PairInv, CallInv, SuccessInv

(* The process is killed.                                                  *)
LEMMA KillStep ==
  ASSUME PairInv, Pair!Kill
  PROVE  PairInv'
<1>1. /\ step' = "returned" /\ outcome' = "killed" /\ spoiled' = TRUE
      /\ UNCHANGED <<writer, target, temporary, staged, call, committed>>
  BY DEF Pair!Kill
<1> QED
  BY <1>1 DEF PairInv, PairTypeInv, CallInv, Pair!OlderSideIsKnown, Pair!Here, SettledInv, SuccessInv

(* Every step keeps the invariant.                                         *)
LEMMA PairNext ==
  ASSUME PairInv, [FilesNext]_<<subject, vars, others>>
  PROVE  PairInv'
<1>1. CASE WritePair
  BY <1>1, CallStep, StageStep, CommitStep, CleanupStep, KillStep DEF WritePair, Pair!Next
<1>2. CASE UNCHANGED pairVars
  <2>1. UNCHANGED <<writer, target, temporary, step, staged, call, committed, outcome, spoiled>>
    BY <1>2 DEF pairVars
  <2>2. PairTypeInv' /\ CallInv'
    BY <2>1 DEF PairInv, PairTypeInv, CallInv, Pair!First, Second
  <2> QED
    BY <2>1, <2>2 DEF PairInv, Pair!OlderSideIsKnown, Pair!Here, SettledInv, SuccessInv
<1>3. WritePair \/ UNCHANGED pairVars
  BY DEF FilesNext, Publish, RunQuantizer, ProcessArtifact, Stop, others
<1> QED
  BY <1>1, <1>2, <1>3

(* However often either writer is called, fails or is killed, and whatever *)
(* system call fails: no torn file is published, it is known which side    *)
(* may be older, and a call that returns leaves a matching pair or says    *)
(* that it failed.  (levo-token-io.cpp, levo-render.cpp)                   *)
THEOREM PairsAlwaysAgree == FilesSpec => []PairsAgree
<1>1. FilesInit => PairInv
  <2> SUFFICES ASSUME Pair!Init PROVE PairInv
    BY DEF FilesInit
  <2>1. PairTypeInv
    <3>1. target \in Targets(0) /\ temporary \in Temporaries(0)
      BY DEF Pair!Init, Targets, Temporaries, Pair!Absent
    <3>2. "payload" \in Pair!Names /\ {} \in SUBSET Pair!Names
      BY DEF Pair!Names
    <3> QED
      BY <3>1, <3>2 DEF Pair!Init, PairTypeInv
  <2>2. \A n \in Pair!Names : ~Pair!Here(n)
    BY DEF Pair!Init, Pair!Here
  <2> QED
    BY <2>1, <2>2, NameFacts
       DEF PairInv, Pair!Init, CallInv, Pair!OlderSideIsKnown, SettledInv, SuccessInv
<1>2. PairInv => PairsAgree
  <2> SUFFICES ASSUME PairInv PROVE Pair!TargetsAreWhole /\ Pair!ReturnedPairsMatch
    BY DEF PairInv, PairsAgree
  <2>1. Pair!TargetsAreWhole
    BY TargetFacts, NameFacts DEF PairInv, PairTypeInv, Pair!TargetsAreWhole
  <2>2. Pair!ReturnedPairsMatch
    BY DEF PairInv, SettledInv, SuccessInv, Pair!ReturnedPairsMatch
  <2> QED
    BY <2>1, <2>2
<1> QED
  BY <1>1, <1>2, PairNext, PTL DEF FilesSpec

-----------------------------------------------------------------------------
(* Artifacts between converter, quantizer and loader.                      *)
Shapes == {s \in Seq(Nat \ {0}) : Len(s) \in 1 .. 4}

LEMMA ShapeFacts ==
  /\ \A s \in Shapes : s \in Seq(Nat \ {0}) /\ Len(s) \in 1 .. 4
  /\ \A s \in Shapes : \A i \in 1 .. Len(s) : s[i] \in Nat \ {0}
  /\ \A s \in Shapes : \A i \in 1 .. 4 : Chain!Ne(s, i) \in Nat \ {0}
  /\ \A s \in Shapes : \A i \in 1 .. Len(s) : Chain!Ne(s, i) = s[i]
  /\ \A s \in Shapes : \A i \in 1 .. 4 : i > Len(s) => Chain!Ne(s, i) = 1
  /\ \A s \in Shapes : s[1] = Chain!Ne(s, 1)
<1>1. \A s \in Shapes : s \in Seq(Nat \ {0}) /\ Len(s) \in 1 .. 4
  BY DEF Shapes
<1>2. \A s \in Shapes : \A i \in 1 .. Len(s) : s[i] \in Nat \ {0}
  BY <1>1
<1> QED
  BY <1>1, <1>2 DEF Chain!Ne

(* ggml's rank: the last dimension that is not one, and at least one.      *)
RankIs(shape, n) ==
  /\ n \in 1 .. 4
  /\ \A i \in n + 1 .. 4 : Chain!Ne(shape, i) = 1
  /\ n = 1 \/ Chain!Ne(shape, n) # 1

LEMMA RankIsNDims ==
  ASSUME NEW s \in Shapes
  PROVE  /\ RankIs(s, Chain!NDims(s)) /\ Chain!NDims(s) <= Len(s)
         /\ \A n : RankIs(s, n) => n = Chain!NDims(s)
<1>1. \E n \in 1 .. 4 : RankIs(s, n)
  <2>1. CASE Chain!Ne(s, 4) # 1
    BY <2>1 DEF RankIs
  <2>2. CASE Chain!Ne(s, 4) = 1 /\ Chain!Ne(s, 3) # 1
    <3>1. \A i \in 3 + 1 .. 4 : i = 4
      OBVIOUS
    <3> QED
      BY <2>2, <3>1 DEF RankIs
  <2>3. CASE Chain!Ne(s, 4) = 1 /\ Chain!Ne(s, 3) = 1 /\ Chain!Ne(s, 2) # 1
    <3>1. \A i \in 2 + 1 .. 4 : i = 3 \/ i = 4
      OBVIOUS
    <3> QED
      BY <2>3, <3>1 DEF RankIs
  <2>4. CASE Chain!Ne(s, 4) = 1 /\ Chain!Ne(s, 3) = 1 /\ Chain!Ne(s, 2) = 1
    <3>1. \A i \in 1 + 1 .. 4 : i = 2 \/ i = 3 \/ i = 4
      OBVIOUS
    <3> QED
      BY <2>4, <3>1 DEF RankIs
  <2> QED
    BY <2>1, <2>2, <2>3, <2>4
<1>2. RankIs(s, Chain!NDims(s))
  BY <1>1 DEF RankIs, Chain!NDims
<1>3. ASSUME NEW n, NEW m, RankIs(s, n), RankIs(s, m)
      PROVE  n = m
  <2>1. n \in 1 .. 4 /\ m \in 1 .. 4
    BY <1>3 DEF RankIs
  <2>2. ~(n < m)
    <3> SUFFICES ASSUME n < m PROVE FALSE
      OBVIOUS
    <3>1. m \in n + 1 .. 4 /\ m # 1
      BY <2>1
    <3> QED
      BY <3>1, <1>3 DEF RankIs
  <2>3. ~(m < n)
    <3> SUFFICES ASSUME m < n PROVE FALSE
      OBVIOUS
    <3>1. n \in m + 1 .. 4 /\ n # 1
      BY <2>1
    <3> QED
      BY <3>1, <1>3 DEF RankIs
  <2> QED
    BY <2>1, <2>2, <2>3
<1>4. Chain!NDims(s) <= Len(s)
  BY <1>2, ShapeFacts DEF RankIs
<1> QED
  BY <1>2, <1>3, <1>4

(* A shape is stored with the dimensions it has.                           *)
LEMMA StoredShape ==
  ASSUME NEW s \in Shapes
  PROVE  /\ Chain!AsStored(s) \in Shapes
         /\ \A i \in 1 .. 4 : Chain!Ne(Chain!AsStored(s), i) = Chain!Ne(s, i)
<1> DEFINE n == Chain!NDims(s)
           t == Chain!AsStored(s)
<1>1. n \in 1 .. 4 /\ n <= Len(s) /\ RankIs(s, n)
  BY RankIsNDims DEF RankIs
<1>2. /\ s \in Seq(Nat \ {0}) /\ Len(s) \in 1 .. 4
      /\ \A i \in 1 .. Len(s) : s[i] \in Nat \ {0}
  BY ShapeFacts
<1>3. /\ t = SubSeq(s, 1, n)
  BY DEF Chain!AsStored
<1> HIDE DEF n, t
<1>4. t \in Seq(Nat \ {0}) /\ Len(t) = n /\ \A i \in 1 .. n : t[i] = s[i]
  <2>1. t = [i \in 1 .. n |-> s[i]]
    BY <1>1, <1>2, <1>3
  <2> QED
    BY <1>1, <1>2, <1>3, <2>1
<1>5. t \in Shapes
  BY <1>1, <1>4 DEF Shapes
<1>6. ASSUME NEW i \in 1 .. 4
      PROVE  Chain!Ne(t, i) = Chain!Ne(s, i)
  <2>1. CASE i <= n
    BY <2>1, <1>1, <1>2, <1>4 DEF Chain!Ne
  <2>2. CASE i > n
    <3>1. Chain!Ne(t, i) = 1
      BY <2>2, <1>4 DEF Chain!Ne
    <3>2. i \in n + 1 .. 4
      BY <2>2, <1>1
    <3> QED
      BY <3>1, <3>2, <1>1 DEF RankIs
  <2> QED
    BY <2>1, <2>2, <1>1
<1> QED
  BY <1>5, <1>6 DEF t

LEMMA SameShapeFacts ==
  /\ \A s \in Shapes : Chain!SameShape(s, s)
  /\ \A s, t \in Shapes : Chain!SameShape(s, t) => Chain!SameShape(Chain!AsStored(s), t)
  /\ \A s, t \in Shapes : Chain!SameShape(s, t) => Chain!NDims(s) = Chain!NDims(t)
<1>1. ASSUME NEW s \in Shapes, NEW t \in Shapes, Chain!SameShape(s, t)
      PROVE  Chain!NDims(s) = Chain!NDims(t)
  <2>1. RankIs(s, Chain!NDims(s))
    BY RankIsNDims
  <2>2. Chain!NDims(s) \in 1 .. 4
    BY <2>1 DEF RankIs
  <2>3. RankIs(t, Chain!NDims(s))
    BY <2>1, <2>2, <1>1 DEF RankIs, Chain!SameShape
  <2> QED
    BY <2>3, RankIsNDims
<1> QED
  BY <1>1, StoredShape DEF Chain!SameShape

(* Shapes whose length is their rank.                                      *)
Tight(shape) == Len(shape) = 1 \/ shape[Len(shape)] # 1
LEMMA TightRank ==
  ASSUME NEW s \in Shapes, Tight(s)
  PROVE  Chain!NDims(s) = Len(s)
<1>1. PICK n \in 1 .. 4 : n = Len(s)
  BY ShapeFacts
<1>2. n \in 1 .. Len(s)
  BY <1>1
<1>3. Chain!Ne(s, n) = s[n]
  BY <1>2, ShapeFacts
<1>4. n = 1 \/ Chain!Ne(s, n) # 1
  BY <1>1, <1>3 DEF Tight
<1>5. ASSUME NEW i \in n + 1 .. 4
      PROVE  Chain!Ne(s, i) = 1
  <2>1. i \in 1 .. 4 /\ i > Len(s)
    BY <1>1
  <2> QED
    BY <2>1, ShapeFacts
<1>6. RankIs(s, Len(s))
  BY <1>1, <1>4, <1>5 DEF RankIs
<1> QED
  BY <1>6, RankIsNDims

(* The shapes the tables name.                                             *)
LEMMA ShapeOf ==
  /\ \A a \in Nat \ {0} : <<a>> \in Shapes /\ Tight(<<a>>) /\ Len(<<a>>) = 1
  /\ \A a, b \in Nat \ {0} : /\ <<a, b>> \in Shapes /\ Len(<<a, b>>) = 2
                             /\ b # 1 => Tight(<<a, b>>)
  /\ \A a, b, c \in Nat \ {0} : <<a, b, c>> \in Shapes
<1>1. ASSUME NEW a \in Nat \ {0}
      PROVE  <<a>> \in Shapes /\ Tight(<<a>>) /\ Len(<<a>>) = 1
  BY DEF Shapes, Tight
<1>2. ASSUME NEW a \in Nat \ {0}, NEW b \in Nat \ {0}
      PROVE  /\ <<a, b>> \in Shapes /\ Len(<<a, b>>) = 2
             /\ b # 1 => Tight(<<a, b>>)
  BY DEF Shapes, Tight
<1>3. ASSUME NEW a \in Nat \ {0}, NEW b \in Nat \ {0}, NEW c \in Nat \ {0}
      PROVE  <<a, b, c>> \in Shapes
  BY DEF Shapes
<1> QED
  BY <1>1, <1>2, <1>3

LEMMA LmInventoryFacts ==
  ASSUME NEW source \in {"medium", "large"}
  PROVE  /\ Chain!LmInventory(source) \in [Chain!LmNames -> Shapes]
         /\ \A n \in Chain!LmNames \ {"cond.prompt_eot"} : Tight(Chain!LmInventory(source)[n])
         /\ "extra" \notin Chain!LmNames
         /\ {"blk.attn_q.weight", "blk.attn_k.weight"} \subseteq Chain!LmNames
         /\ \A n \in {"blk.attn_q.weight", "blk.attn_k.weight"} :
              Len(Chain!LmInventory(source)[n]) = 2
<1> DEFINE w == Chain!LmWidth[source]
           f == Chain!LmFfn[source]
           d == 2 * w
<1>1. w \in Nat \ {0, 1} /\ f \in Nat \ {0, 1}
  BY DEF Chain!LmWidth, Chain!LmFfn
<1>2. d \in Nat \ {0}
  BY <1>1
<1>3. Chain!LmInventory(source) = [n \in Chain!LmNames |-> Chain!LmShape(source, n)]
  BY DEF Chain!LmInventory
<1>4. ASSUME NEW n \in Chain!LmNames
      PROVE  Chain!LmShape(source, n) \in
               {<<w, 16386>>, <<w, 16385>>, <<w>>, <<w, w>>, <<w, f>>, <<d, w>>, <<w, 151659>>,
                <<w, 200>>, <<w, 151652>>, <<f, w>>}
               \cup IF n = "cond.prompt_eot" THEN {<<w, 1>>} ELSE {}
  BY SMT DEF Chain!LmShape, Chain!LmNames
<1>5. ASSUME NEW n \in {"blk.attn_q.weight", "blk.attn_k.weight"}
      PROVE  n \in Chain!LmSquares /\ Chain!LmShape(source, n) = <<w, w>>
  <2>1. n \in Chain!LmSquares
    BY DEF Chain!LmSquares
  <2>2. n \notin Chain!LmEmbeddings \cup Chain!LmOutputs \cup Chain!LmVectors \cup Chain!LmWidening
    BY DEF Chain!LmEmbeddings, Chain!LmOutputs, Chain!LmVectors, Chain!LmWidening
  <2> QED
    BY SMT, <2>1, <2>2 DEF Chain!LmShape
<1>6. "extra" \notin Chain!LmNames
  BY SMT DEF Chain!LmNames, Chain!LmEmbeddings, Chain!LmOutputs, Chain!LmVectors,
             Chain!LmSquares, Chain!LmWidening
<1>7. Chain!LmSquares \subseteq Chain!LmNames
  BY DEF Chain!LmNames
<1> HIDE DEF w, f, d
<1>8. ASSUME NEW n \in Chain!LmNames
      PROVE  /\ Chain!LmShape(source, n) \in Shapes
             /\ n # "cond.prompt_eot" => Tight(Chain!LmShape(source, n))
  BY <1>1, <1>2, <1>4, ShapeOf
<1>9. Len(<<w, w>>) = 2
  OBVIOUS
<1> QED
  BY <1>3, <1>5, <1>6, <1>7, <1>8, <1>9

LEMMA FlowInventoryFacts ==
  /\ Chain!FlowInventory \in [Chain!FlowNames -> Shapes]
  /\ \A n \in Chain!FlowNames : Tight(Chain!FlowInventory[n])
  /\ "extra" \notin Chain!FlowNames
  /\ Chain!FlowBlockMatrices \subseteq Chain!FlowNames
  /\ \A n \in {"block.attn.qkv.weight", "block.ffn.in.weight"} :
       Len(Chain!FlowInventory[n]) = 2
  /\ Chain!FlowConditioning \subseteq Chain!FlowNames \ Chain!FlowBlockMatrices
<1>1. Chain!FlowInventory = [n \in Chain!FlowNames |-> Chain!FlowShape(n)]
  BY DEF Chain!FlowInventory
<1>2. ASSUME NEW n \in Chain!FlowNames
      PROVE  Chain!FlowShape(n) \in
               {<<2200>>, <<64>>, <<1024>>, <<1>>, <<13200>>, <<6600>>, <<4400>>,
                <<2200, 2200>>, <<32, 16384>>, <<32, 1024>>, <<24, 3>>, <<2200, 1000>>,
                <<512, 2200>>, <<2200, 13200>>, <<2200, 6600>>, <<2200, 4400>>,
                <<4400, 2200>>, <<2200, 6>>, <<2200, 2>>}
  BY SMT DEF Chain!FlowShape, Chain!FlowNames
<1>3. ASSUME NEW n \in Chain!FlowNames
      PROVE  Chain!FlowShape(n) \in Shapes /\ Tight(Chain!FlowShape(n))
  <2>1. /\ \A a \in {2200, 64, 1024, 1, 13200, 6600, 4400} : a \in Nat \ {0}
        /\ \A a \in {2200, 32, 24, 512, 4400, 16384, 1024, 3, 1000, 13200, 6600, 6, 2} :
             a \in Nat \ {0} /\ a # 1
    OBVIOUS
  <2> QED
    BY <1>2, <2>1, ShapeOf
<1>4. "extra" \notin Chain!FlowNames
  BY SMT DEF Chain!FlowNames, Chain!FlowVectors, Chain!FlowSquares, Chain!FlowNorms,
             Chain!FlowWide
<1>5. Chain!FlowBlockMatrices \subseteq Chain!FlowNames
  BY SMT DEF Chain!FlowNames, Chain!FlowBlockMatrices, Chain!FlowSquares
<1>6. ASSUME NEW n \in {"block.attn.qkv.weight", "block.ffn.in.weight"}
      PROVE  Chain!FlowShape(n) \in {<<2200, 6600>>, <<2200, 4400>>} /\ n \in Chain!FlowNames
  <2>1. n \notin Chain!FlowVectors \cup Chain!FlowSquares \cup Chain!FlowNorms
                 \cup Chain!FlowWide
    BY DEF Chain!FlowVectors, Chain!FlowSquares, Chain!FlowNorms, Chain!FlowWide
  <2> QED
    BY SMT, <2>1 DEF Chain!FlowShape, Chain!FlowNames
<1>7. Chain!FlowConditioning \subseteq Chain!FlowNames
  BY SMT DEF Chain!FlowNames, Chain!FlowConditioning, Chain!FlowNorms, Chain!FlowWide
<1>8. \A n \in Chain!FlowConditioning : n \notin Chain!FlowBlockMatrices
  BY SMT DEF Chain!FlowConditioning, Chain!FlowBlockMatrices
<1>9. Len(<<2200, 6600>>) = 2 /\ Len(<<2200, 4400>>) = 2
  OBVIOUS
<1> QED
  BY <1>1, <1>3, <1>4, <1>5, <1>6, <1>7, <1>8, <1>9

LEMMA VaeInventoryFacts ==
  /\ Chain!VaeInventory \in [Chain!VaeNames -> Shapes]
  /\ "extra" \notin Chain!VaeNames
  /\ {"input.weight", "output.weight"} \subseteq Chain!VaeNames
<1>1. Chain!VaeInventory = [n \in Chain!VaeNames |-> Chain!VaeShape(n)]
  BY DEF Chain!VaeInventory
<1>2. ASSUME NEW n \in Chain!VaeNames
      PROVE  Chain!VaeShape(n) \in Shapes
  <2>1. Chain!VaeShape(n) \in
          {<<2048>>, <<1024>>, <<128>>, <<7, 64, 2048>>, <<20, 1024, 2048>>,
           <<7, 1024, 1024>>, <<1, 1024, 1024>>, <<7, 128, 2>>}
    BY SMT DEF Chain!VaeShape, Chain!VaeNames
  <2>2. \A a \in {2048, 1024, 128, 7, 64, 20, 1, 2} : a \in Nat \ {0}
    OBVIOUS
  <2> QED
    BY <2>1, <2>2, ShapeOf
<1>3. "extra" \notin Chain!VaeNames
  BY SMT DEF Chain!VaeNames, Chain!VaeSnakes, Chain!VaeStages, Chain!VaeOutputs
<1>4. {"input.weight", "output.weight"} \subseteq Chain!VaeNames
  BY SMT DEF Chain!VaeNames
<1> QED
  BY <1>1, <1>2, <1>3, <1>4

(* Two tensors of each release that every profile quantizes; all tensors   *)
(* of a VAE become F16.                                                    *)
Routed(source) ==
  CASE source = "flow" -> {"block.attn.qkv.weight", "block.ffn.in.weight"}
    [] source = "vae" -> {"input.weight", "output.weight"}
    [] OTHER -> {"blk.attn_q.weight", "blk.attn_k.weight"}

LEMMA InventoryFacts ==
  ASSUME NEW source \in DOMAIN Chain!Architecture
  PROVE  /\ Chain!Inventory(source) \in [DOMAIN Chain!Inventory(source) -> Shapes]
         /\ "extra" \notin DOMAIN Chain!Inventory(source)
         /\ Routed(source) \subseteq DOMAIN Chain!Inventory(source)
         /\ \E n, m \in Routed(source) : n # m
         /\ source # "vae" => \A n \in Routed(source) : Len(Chain!Inventory(source)[n]) = 2
         /\ source = "flow" => Chain!Inventory(source) = Chain!FlowInventory
         /\ source = "vae" => Chain!Inventory(source) = Chain!VaeInventory
         /\ source \notin {"flow", "vae"} =>
              /\ source \in {"medium", "large"}
              /\ Chain!Inventory(source) = Chain!LmInventory(source)
<1>1. source \in {"medium", "large", "flow", "vae"}
  BY SMT DEF Chain!Architecture
<1>2. CASE source = "flow"
  <2>1. /\ Chain!Inventory(source) = Chain!FlowInventory
        /\ Routed(source) = {"block.attn.qkv.weight", "block.ffn.in.weight"}
    BY <1>2 DEF Chain!Inventory, Routed
  <2>2. Routed(source) \subseteq Chain!FlowNames
    BY <2>1, FlowInventoryFacts DEF Chain!FlowBlockMatrices
  <2> QED
    BY <1>2, <2>1, <2>2, FlowInventoryFacts
<1>3. CASE source = "vae"
  <2>1. /\ Chain!Inventory(source) = Chain!VaeInventory
        /\ Routed(source) = {"input.weight", "output.weight"}
    BY <1>3 DEF Chain!Inventory, Routed
  <2> QED
    BY <1>3, <2>1, VaeInventoryFacts
<1>4. CASE source \in {"medium", "large"}
  <2>1. /\ Chain!Inventory(source) = Chain!LmInventory(source)
        /\ Routed(source) = {"blk.attn_q.weight", "blk.attn_k.weight"}
    BY <1>4 DEF Chain!Inventory, Routed
  <2> QED
    BY <1>4, <2>1, LmInventoryFacts
<1> QED
  BY <1>1, <1>2, <1>3, <1>4

-----------------------------------------------------------------------------
(* A file type is one profile's or one plain type's, and so is a tensor    *)
(* type; rows only grow by padding.                                        *)
LEMMA ProfileFacts ==
  /\ DOMAIN Chain!FileType = Chain!Profiles \cup {"F32", "F16"}
  /\ \A t, u \in DOMAIN Chain!FileType : Chain!FileType[t] = Chain!FileType[u] => t = u
  /\ Chain!FileType["F32"] = 0 /\ Chain!FileType["F16"] = 1
  /\ \A p \in Chain!Profiles : Chain!FileType[p] \notin {0, 1}
  /\ \A p \in Chain!Profiles : Chain!BaseType[p] \in Chain!QuantizedTypes
  /\ \A p, q \in Chain!Profiles : Chain!BaseType[p] = Chain!BaseType[q] => p = q
  /\ "Q6_K" \in Chain!QuantizedTypes
  /\ "F32" \notin Chain!QuantizedTypes /\ "F16" \notin Chain!QuantizedTypes
  /\ Chain!AllTypes = {"F32", "F16"} \cup Chain!QuantizedTypes
  /\ "absent" \notin Chain!Profiles /\ "F16" \notin Chain!Profiles
<1>1. DOMAIN Chain!FileType = Chain!Profiles \cup {"F32", "F16"}
  BY DEF Chain!FileType, Chain!Profiles
<1>2. \A t, u \in DOMAIN Chain!FileType : Chain!FileType[t] = Chain!FileType[u] => t = u
  BY DEF Chain!FileType
<1>3. /\ Chain!FileType["F32"] = 0 /\ Chain!FileType["F16"] = 1
      /\ \A p \in Chain!Profiles : Chain!FileType[p] \notin {0, 1}
  BY DEF Chain!FileType, Chain!Profiles
<1>4. \A p \in Chain!Profiles : Chain!BaseType[p] \in Chain!QuantizedTypes
  BY DEF Chain!BaseType, Chain!Profiles, Chain!QuantizedTypes
<1>5. \A p, q \in Chain!Profiles : Chain!BaseType[p] = Chain!BaseType[q] => p = q
  BY DEF Chain!BaseType, Chain!Profiles
<1> QED
  BY <1>1, <1>2, <1>3, <1>4, <1>5 DEF Chain!QuantizedTypes, Chain!AllTypes, Chain!Profiles

LEMMA PaddingFacts ==
  ASSUME NEW c \in Nat \ {0}, NEW type \in Chain!AllTypes
  PROVE  /\ Chain!Padded(c, type) \in Nat \ {0} /\ Chain!Padded(c, type) >= c
         /\ type \notin Chain!QuantizedTypes => Chain!Padded(c, type) = c
<1>1. CASE type \notin Chain!QuantizedTypes
  BY <1>1 DEF Chain!Padded
<1>2. CASE type = "Q8_0"
  <2>1. Chain!Block(type) = 32
    BY <1>2 DEF Chain!Block
  <2>2. type \in Chain!QuantizedTypes
    BY <1>2 DEF Chain!QuantizedTypes
  <2>3. Chain!Padded(c, type) = ((c + 32 - 1) \div 32) * 32
    BY <2>1, <2>2 DEF Chain!Padded
  <2>4. ((c + 32 - 1) \div 32) * 32 >= c
    OBVIOUS
  <2> QED
    BY <2>2, <2>3, <2>4
<1>3. CASE type \in Chain!QuantizedTypes \ {"Q8_0"}
  <2>1. Chain!Block(type) = 256
    BY <1>3 DEF Chain!Block
  <2>3. Chain!Padded(c, type) = ((c + 256 - 1) \div 256) * 256
    BY <2>1, <1>3 DEF Chain!Padded
  <2>4. ((c + 256 - 1) \div 256) * 256 >= c
    OBVIOUS
  <2> QED
    BY <1>3, <2>3, <2>4
<1> QED
  BY <1>1, <1>2, <1>3

-----------------------------------------------------------------------------
(* What an artifact may be.                                                *)
StoredTensors == [type : Chain!AllTypes, shape : Shapes]
TensorNames == Chain!LmNames \cup Chain!FlowNames \cup Chain!VaeNames \cup {"extra"}
Tables == UNION {[names -> StoredTensors] : names \in SUBSET TensorNames}
FileTypes == {Chain!FileType[type] : type \in DOMAIN Chain!FileType}
Tags == [profile : Chain!Profiles \cup {"absent", "F16"}, policy : {"1", "2", "absent"},
         lineage : Chain!Digests \cup {"invalid", "absent"}]
PaddedLayouts == {Chain!PaddedLayout(p) : p \in Chain!Profiles} \cup {Chain!Absent}
Artifacts ==
  [source : DOMAIN Chain!Architecture, fileType : FileTypes, quant : Tags,
   layout : PaddedLayouts, dtype : {"absent", "F32", "F16", "MIXED"}, precision : Tags,
   tensors : Tables]

LEMMA TableFacts ==
  /\ \A t \in Tables : /\ DOMAIN t \subseteq TensorNames
                       /\ t \in [DOMAIN t -> StoredTensors]
  /\ \A names \in SUBSET TensorNames : \A t \in [names -> StoredTensors] :
       t \in Tables /\ DOMAIN t = names
  /\ \A type \in Chain!AllTypes, shape \in Shapes :
       /\ Chain!Tensor(type, shape) \in StoredTensors
       /\ Chain!Tensor(type, shape).type = type /\ Chain!Tensor(type, shape).shape = shape
  /\ \A t \in StoredTensors : t.type \in Chain!AllTypes /\ t.shape \in Shapes
                              /\ t = Chain!Tensor(t.type, t.shape)
<1>1. ASSUME NEW t \in Tables
      PROVE  DOMAIN t \subseteq TensorNames /\ t \in [DOMAIN t -> StoredTensors]
  <2>1. PICK names \in SUBSET TensorNames : t \in [names -> StoredTensors]
    BY DEF Tables
  <2> QED
    BY <2>1
<1>2. ASSUME NEW names \in SUBSET TensorNames, NEW t \in [names -> StoredTensors]
      PROVE  t \in Tables /\ DOMAIN t = names
  BY DEF Tables
<1>3. \A type \in Chain!AllTypes, shape \in Shapes :
        /\ Chain!Tensor(type, shape) \in StoredTensors
        /\ Chain!Tensor(type, shape).type = type /\ Chain!Tensor(type, shape).shape = shape
  BY DEF StoredTensors, Chain!Tensor
<1>4. \A t \in StoredTensors : /\ t.type \in Chain!AllTypes /\ t.shape \in Shapes
                               /\ t = Chain!Tensor(t.type, t.shape)
  BY DEF StoredTensors, Chain!Tensor
<1> QED
  BY <1>1, <1>2, <1>3, <1>4

LEMMA TensorFields ==
  ASSUME NEW type, NEW shape
  PROVE  Chain!Tensor(type, shape).type = type /\ Chain!Tensor(type, shape).shape = shape
BY DEF Chain!Tensor

LEMMA TensorExcept ==
  ASSUME NEW t \in StoredTensors, NEW x
  PROVE  /\ [t EXCEPT !.type = x] = Chain!Tensor(x, t.shape)
         /\ [t EXCEPT !.shape = x] = Chain!Tensor(t.type, x)
BY DEF StoredTensors, Chain!Tensor

(* A released artifact, as the converter writes it.                        *)
Plain(a, source, type) ==
  /\ source \in DOMAIN Chain!Architecture /\ type \in {"F32", "F16"}
  /\ source = "vae" => type = "F32"
  /\ a = Chain!Converted(source, type)

LEMMA PlainFields ==
  ASSUME NEW a, NEW source, NEW type, Plain(a, source, type)
  PROVE  /\ a \in Artifacts /\ a.source = source /\ a.fileType = Chain!FileType[type]
         /\ a.quant = Chain!NoTag /\ a.layout = Chain!Absent
         /\ a.dtype = IF source = "flow" THEN type ELSE "absent"
         /\ DOMAIN a.tensors = DOMAIN Chain!Inventory(source)
         /\ \A n \in DOMAIN a.tensors : /\ a.tensors[n].type = type
                                       /\ a.tensors[n].shape = Chain!Inventory(source)[n]
<1>0. source \in DOMAIN Chain!Architecture /\ type \in {"F32", "F16"}
  BY DEF Plain
<1> DEFINE names == DOMAIN Chain!Inventory(source)
           table == [n \in names |-> Chain!Tensor(type, Chain!Inventory(source)[n])]
<1>1. /\ a.source = source /\ a.fileType = Chain!FileType[type]
      /\ a.quant = Chain!NoTag /\ a.layout = Chain!Absent
      /\ a.dtype = IF source = "flow" THEN type ELSE "absent"
      /\ a.tensors = table
  BY DEF Plain, Chain!Converted
<1>2. table \in Tables
  <2>1. names \subseteq TensorNames
    BY <1>0, InventoryFacts, LmInventoryFacts, FlowInventoryFacts, VaeInventoryFacts
       DEF TensorNames
  <2>2. \A n \in names : Chain!Tensor(type, Chain!Inventory(source)[n]) \in StoredTensors
    BY <1>0, InventoryFacts, TableFacts, ProfileFacts
  <2>3. table \in [names -> StoredTensors]
    BY <2>2
  <2> QED
    BY <2>1, <2>3, TableFacts
<1>3. a \in Artifacts
  <2>1. Chain!FileType[type] \in FileTypes
    BY <1>0, ProfileFacts DEF FileTypes
  <2>2. Chain!NoTag \in Tags
    BY DEF Tags, Chain!NoTag
  <2>3. Chain!Absent \in PaddedLayouts
    BY DEF PaddedLayouts
  <2> QED
    BY <1>0, <1>2, <2>1, <2>2, <2>3 DEF Plain, Chain!Converted, Artifacts
<1>4. \A n \in names : /\ table[n].type = type
                        /\ table[n].shape = Chain!Inventory(source)[n]
  BY TensorFields
<1> QED
  BY <1>1, <1>3, <1>4

-----------------------------------------------------------------------------
(* The quantizer: what it plans is a tensor, and what it writes is typed.  *)
LEMMA RoutedType ==
  ASSUME NEW name, NEW rank \in Nat, NEW p \in Chain!Profiles
  PROVE  /\ Chain!LelmType(name, rank, p) \in Chain!AllTypes
         /\ rank < 2 => Chain!LelmType(name, rank, p) = "F32"
         /\ rank >= 2 => Chain!LelmType(name, rank, p) \in Chain!QuantizedTypes
         /\ Chain!FlowType(name, rank, p) \in Chain!AllTypes
         /\ name \notin Chain!FlowBlockMatrices => Chain!FlowType(name, rank, p) = "F32"
         /\ Chain!FlowType(name, rank, p) \in Chain!QuantizedTypes \cup {"F32"}
         /\ rank >= 2 /\ name \in Chain!FlowBlockMatrices =>
              Chain!FlowType(name, rank, p) \in Chain!QuantizedTypes
         /\ rank >= 2 /\ name = "blk.attn_q.weight" =>
              Chain!LelmType(name, rank, p) = Chain!BaseType[p]
         /\ rank >= 2 /\ name = "block.attn.qkv.weight" =>
              Chain!FlowType(name, rank, p) = Chain!BaseType[p]
<1>1. "blk.attn_q.weight" \notin Chain!LelmCritical
  BY DEF Chain!LelmCritical
<1>2. /\ "block.attn.qkv.weight" \notin Chain!FlowCritical
      /\ "block.attn.qkv.weight" \in Chain!FlowBlockMatrices
  BY DEF Chain!FlowCritical, Chain!FlowBlockMatrices
<1> QED
  BY <1>1, <1>2, ProfileFacts DEF Chain!LelmType, Chain!FlowType

(* Padding only the row of a shape keeps it one.                           *)
PaddedShape(shape, type) == [shape EXCEPT ![1] = Chain!Padded(shape[1], type)]
LEMMA PaddedShapeFacts ==
  ASSUME NEW shape \in Shapes, NEW type \in Chain!AllTypes
  PROVE  /\ PaddedShape(shape, type) \in Shapes
         /\ Len(PaddedShape(shape, type)) = Len(shape)
         /\ PaddedShape(shape, type)[1] = Chain!Padded(shape[1], type)
         /\ \A i \in 2 .. Len(shape) : PaddedShape(shape, type)[i] = shape[i]
         /\ type \notin Chain!QuantizedTypes => PaddedShape(shape, type) = shape
<1>1. shape \in Seq(Nat \ {0}) /\ Len(shape) \in 1 .. 4 /\ shape[1] \in Nat \ {0}
  BY ShapeFacts
<1> DEFINE row == Chain!Padded(shape[1], type)
<1>2. row \in Nat \ {0} /\ (type \notin Chain!QuantizedTypes => row = shape[1])
  BY <1>1, PaddingFacts
<1> HIDE DEF row
<1>3. /\ [shape EXCEPT ![1] = row] \in Seq(Nat \ {0})
      /\ Len([shape EXCEPT ![1] = row]) = Len(shape)
      /\ [shape EXCEPT ![1] = row][1] = row
      /\ \A i \in 2 .. Len(shape) : [shape EXCEPT ![1] = row][i] = shape[i]
  BY <1>1, <1>2
<1>4. row = shape[1] => [shape EXCEPT ![1] = row] = shape
  BY <1>1
<1> QED
  BY <1>1, <1>2, <1>3, <1>4 DEF PaddedShape, Shapes, row

LEMMA PlannedFacts ==
  ASSUME NEW a \in Artifacts, NEW n \in DOMAIN a.tensors, NEW option \in Chain!Options,
         a.source = "vae" <=> option = "F16"
  PROVE  LET t == a.tensors[n]
             planned == Chain!Planned(a, n, option)
         IN /\ t.type \in Chain!AllTypes /\ t.shape \in Shapes /\ Len(t.shape) \in 1 .. 4
            /\ planned.type \in Chain!AllTypes /\ planned.shape \in Shapes
            /\ a.source = "vae" => planned.type = "F16"
            /\ a.source = "flow" => planned.type = Chain!FlowType(n, Len(t.shape), option)
            /\ a.source \notin {"flow", "vae"} =>
                 planned.type = Chain!LelmType(n, Len(t.shape), option)
            /\ planned.shape = IF a.source = "flow" /\ n \in Chain!FlowBlockMatrices
                               THEN PaddedShape(t.shape, planned.type) ELSE t.shape
<1> DEFINE t == a.tensors[n]
           chosen == Chain!TargetType(a, n, option)
           planned == Chain!Planned(a, n, option)
<1>1. t \in StoredTensors
  <2>1. a.tensors \in Tables
    BY DEF Artifacts
  <2> QED
    BY <2>1, TableFacts
<1>2. t.type \in Chain!AllTypes /\ t.shape \in Shapes /\ Len(t.shape) \in 1 .. 4
  BY <1>1, TableFacts, ShapeFacts
<1>3. option \in Chain!Profiles \/ (a.source = "vae" /\ option = "F16")
  BY DEF Chain!Options
<1>4. /\ a.source = "vae" => chosen = "F16"
      /\ a.source = "flow" => chosen = Chain!FlowType(n, Len(t.shape), option)
      /\ a.source \notin {"flow", "vae"} => chosen = Chain!LelmType(n, Len(t.shape), option)
  BY DEF Chain!TargetType, Chain!Rank
<1>5. chosen \in Chain!AllTypes
  <2>1. CASE a.source = "vae"
    BY <2>1, <1>4, ProfileFacts
  <2>2. CASE option \in Chain!Profiles
    <3>1. Len(t.shape) \in Nat
      BY <1>2
    <3>2. /\ Chain!FlowType(n, Len(t.shape), option) \in Chain!AllTypes
          /\ Chain!LelmType(n, Len(t.shape), option) \in Chain!AllTypes
      BY <2>2, <3>1, RoutedType
    <3>3. option # "F16"
      BY <2>2, ProfileFacts
    <3> QED
      BY <3>2, <3>3, <1>4
  <2> QED
    BY <2>1, <2>2, <1>3
<1>6. planned.type = chosen
      /\ planned.shape = IF a.source = "flow" /\ n \in Chain!FlowBlockMatrices
                         THEN PaddedShape(t.shape, chosen) ELSE t.shape
  BY DEF Chain!Planned, Chain!Tensor, PaddedShape
<1>7. planned.shape \in Shapes
  BY <1>2, <1>5, <1>6, PaddedShapeFacts
<1> HIDE DEF t, chosen, planned
<1>8. /\ t.type \in Chain!AllTypes /\ t.shape \in Shapes /\ Len(t.shape) \in 1 .. 4
      /\ planned.type \in Chain!AllTypes /\ planned.shape \in Shapes
      /\ a.source = "vae" => planned.type = "F16"
      /\ a.source = "flow" => planned.type = Chain!FlowType(n, Len(t.shape), option)
      /\ a.source \notin {"flow", "vae"} =>
           planned.type = Chain!LelmType(n, Len(t.shape), option)
      /\ planned.shape = IF a.source = "flow" /\ n \in Chain!FlowBlockMatrices
                         THEN PaddedShape(t.shape, planned.type) ELSE t.shape
  BY <1>2, <1>4, <1>5, <1>6, <1>7
<1> QED
  BY <1>8 DEF t, planned

(* The file the quantizer writes from a source, under an option.           *)
Written(a, option, d, q) ==
  /\ option \in Chain!Options /\ d \in Chain!Digests
  /\ Chain!Quantizable(a, option) /\ q = Chain!QuantizedFrom(a, option, d)

LEMMA WrittenFields ==
  ASSUME NEW a \in Artifacts, NEW option, NEW d, NEW q, Written(a, option, d, q)
  PROVE  /\ q \in Artifacts /\ q.source = a.source
         /\ option \in Chain!Options /\ d \in Chain!Digests
         /\ a.source = "vae" <=> option = "F16"
         /\ q.fileType = Chain!FileType[option]
         /\ a.source = "vae" => q.precision = Chain!Tag("F16", d)
         /\ a.source # "vae" => q.quant = Chain!Tag(option, d)
         /\ a.source = "flow" => q.dtype = "MIXED" /\ q.layout = Chain!PaddedLayout(option)
         /\ DOMAIN q.tensors = DOMAIN a.tensors
         /\ \A n \in DOMAIN a.tensors :
              q.tensors[n] = Chain!Tensor(Chain!Planned(a, n, option).type,
                                          Chain!AsStored(Chain!Planned(a, n, option).shape))
<1>1. /\ option \in Chain!Options /\ d \in Chain!Digests
      /\ a.source = "vae" <=> option = "F16"
  BY DEF Written, Chain!Quantizable
<1> DEFINE table == [n \in DOMAIN a.tensors |->
                       Chain!Tensor(Chain!Planned(a, n, option).type,
                                    Chain!AsStored(Chain!Planned(a, n, option).shape))]
           written == [a EXCEPT !.fileType = Chain!FileType[option], !.tensors = table]
<1>2. table \in Tables
  <2>1. \A n \in DOMAIN a.tensors : table[n] \in StoredTensors
    BY <1>1, PlannedFacts, StoredShape, TableFacts
  <2>2. DOMAIN a.tensors \subseteq TensorNames
    BY TableFacts DEF Artifacts
  <2>3. table \in [DOMAIN a.tensors -> StoredTensors]
    BY <2>1
  <2> QED
    BY <2>2, <2>3, TableFacts
<1>3. /\ DOMAIN table = DOMAIN a.tensors
      /\ \A n \in DOMAIN a.tensors :
           table[n] = Chain!Tensor(Chain!Planned(a, n, option).type,
                                   Chain!AsStored(Chain!Planned(a, n, option).shape))
  OBVIOUS
<1>4. q = CASE a.source = "vae" -> [written EXCEPT !.precision = Chain!Tag("F16", d)]
            [] a.source = "flow" ->
                 [written EXCEPT !.quant = Chain!Tag(option, d), !.dtype = "MIXED",
                                 !.layout = Chain!PaddedLayout(option)]
            [] OTHER -> [written EXCEPT !.quant = Chain!Tag(option, d)]
  BY DEF Written, Chain!QuantizedFrom
<1> HIDE DEF table
<1>5. Chain!FileType[option] \in FileTypes
  BY <1>1, ProfileFacts DEF FileTypes, Chain!Options
<1>6. Chain!Tag(option, d) \in Tags /\ Chain!Tag("F16", d) \in Tags
  BY <1>1 DEF Tags, Chain!Tag, Chain!Options
<1>7. /\ written \in Artifacts /\ written.source = a.source
      /\ written.fileType = Chain!FileType[option] /\ written.tensors = table
  BY <1>2, <1>5 DEF Artifacts
<1> HIDE DEF written
<1>8. CASE a.source = "vae"
  <2>1. q = [written EXCEPT !.precision = Chain!Tag("F16", d)]
    BY <1>4, <1>8
  <2>2. /\ q \in Artifacts /\ q.source = written.source /\ q.fileType = written.fileType
        /\ q.tensors = written.tensors /\ q.precision = Chain!Tag("F16", d)
    BY <2>1, <1>6, <1>7 DEF Artifacts
  <2> QED
    BY <2>2, <1>1, <1>3, <1>7, <1>8
<1>9. CASE a.source = "flow"
  <2>1. q = [written EXCEPT !.quant = Chain!Tag(option, d), !.dtype = "MIXED",
                            !.layout = Chain!PaddedLayout(option)]
    BY <1>4, <1>9
  <2>2. Chain!PaddedLayout(option) \in PaddedLayouts
    BY <1>1, <1>9 DEF PaddedLayouts, Chain!Options
  <2>3. /\ q \in Artifacts /\ q.source = written.source /\ q.fileType = written.fileType
        /\ q.tensors = written.tensors /\ q.quant = Chain!Tag(option, d)
        /\ q.dtype = "MIXED" /\ q.layout = Chain!PaddedLayout(option)
    BY <2>1, <2>2, <1>6, <1>7 DEF Artifacts
  <2> QED
    BY <2>3, <1>1, <1>3, <1>7, <1>9
<1>10. CASE a.source \notin {"flow", "vae"}
  <2>1. q = [written EXCEPT !.quant = Chain!Tag(option, d)]
    BY <1>4, <1>10
  <2>2. /\ q \in Artifacts /\ q.source = written.source /\ q.fileType = written.fileType
        /\ q.tensors = written.tensors /\ q.quant = Chain!Tag(option, d)
    BY <2>1, <1>6, <1>7 DEF Artifacts
  <2> QED
    BY <2>2, <1>1, <1>3, <1>7, <1>10
<1> QED
  BY <1>8, <1>9, <1>10

-----------------------------------------------------------------------------
(* One alteration, by what it leaves alone.                                *)
SameKeys(a, b) ==
  /\ b.source = a.source /\ b.fileType = a.fileType /\ b.quant = a.quant
  /\ b.layout = a.layout /\ b.dtype = a.dtype /\ b.precision = a.precision

OneChange(s, t) ==
  \/ t.type # s.type /\ t.shape = s.shape
  \/ /\ t.type = s.type /\ Len(t.shape) = Len(s.shape)
     /\ \E i \in 1 .. Len(s.shape) :
          /\ t.shape[i] # s.shape[i]
          /\ \A j \in 1 .. Len(s.shape) : j # i => t.shape[j] = s.shape[j]
  \/ /\ t.type = s.type /\ Len(s.shape) < 4 /\ Len(t.shape) = Len(s.shape) + 1
     /\ t.shape[Len(s.shape) + 1] = 2

TensorAltered(a, b) ==
  /\ SameKeys(a, b)
  /\ \E n \in DOMAIN a.tensors, t \in StoredTensors :
       OneChange(a.tensors[n], t) /\ b.tensors = [a.tensors EXCEPT ![n] = t]

InventoryAltered(a, b) ==
  /\ SameKeys(a, b)
  /\ \/ \E n \in DOMAIN a.tensors : DOMAIN b.tensors = DOMAIN a.tensors \ {n}
     \/ DOMAIN b.tensors = DOMAIN a.tensors \cup {"extra"}
  /\ \A n \in DOMAIN a.tensors \cap DOMAIN b.tensors : b.tensors[n] = a.tensors[n]

FileTypeAltered(a, b) ==
  /\ b.fileType # a.fileType /\ b.quant = a.quant /\ b.precision = a.precision
ProfileAltered(a, b) ==
  /\ a.source # "vae" /\ a.quant # Chain!NoTag
  /\ \E p \in Chain!Profiles \ {a.quant.profile} :
       b.quant.profile = p /\ b.fileType = Chain!FileType[p]
TagAltered(a, b) ==
  /\ a.source # "vae" /\ b.fileType = a.fileType
  /\ b.quant \in Chain!OtherTags(a.quant) \ {a.quant}
LayoutAltered(a, b) ==
  /\ a.source = "flow" /\ b.fileType = a.fileType /\ b.quant = a.quant
  /\ \/ b.dtype # a.dtype /\ b.layout = a.layout
     \/ b.dtype = a.dtype /\ b.layout # a.layout
PrecisionAltered(a, b) ==
  /\ a.source = "vae" /\ a.fileType = 1 /\ b.fileType = 1
  /\ b.precision \in Chain!OtherTags(a.precision) \ {a.precision}

MetadataAltered(a, b) ==
  /\ b.source = a.source /\ b.tensors = a.tensors
  /\ \/ FileTypeAltered(a, b) \/ ProfileAltered(a, b) \/ TagAltered(a, b)
     \/ LayoutAltered(a, b) \/ PrecisionAltered(a, b)

Altered(a, b) == TensorAltered(a, b) \/ InventoryAltered(a, b) \/ MetadataAltered(a, b)

(* Replacing the tensors or one key leaves the rest.                       *)
LEMMA TensorsReplaced ==
  ASSUME NEW a \in Artifacts, NEW table \in Tables
  PROVE  /\ [a EXCEPT !.tensors = table] \in Artifacts
         /\ SameKeys(a, [a EXCEPT !.tensors = table])
         /\ [a EXCEPT !.tensors = table].tensors = table
BY DEF Artifacts, SameKeys

LEMMA TensorReplaced ==
  ASSUME NEW a \in Artifacts, NEW n \in DOMAIN a.tensors, NEW t \in StoredTensors,
         OneChange(a.tensors[n], t)
  PROVE  LET b == [a EXCEPT !.tensors = [a.tensors EXCEPT ![n] = t]]
         IN b \in Artifacts /\ TensorAltered(a, b)
<1> DEFINE table == [a.tensors EXCEPT ![n] = t]
           b == [a EXCEPT !.tensors = table]
<1>1. /\ a.tensors \in Tables /\ DOMAIN a.tensors \subseteq TensorNames
      /\ a.tensors \in [DOMAIN a.tensors -> StoredTensors]
  BY TableFacts DEF Artifacts
<1>2. table \in [DOMAIN a.tensors -> StoredTensors]
  BY <1>1
<1>3. table \in Tables
  BY <1>1, <1>2, TableFacts
<1>4. b \in Artifacts /\ SameKeys(a, b) /\ b.tensors = table
  BY <1>3, TensorsReplaced
<1> QED
  BY <1>4 DEF TensorAltered

LEMMA AlterTensorStep ==
  ASSUME artifact \in Artifacts, Chain!AlterTensor
  PROVE  artifact' \in Artifacts /\ TensorAltered(artifact, artifact')
<1>0. PICK n \in DOMAIN artifact.tensors :
        \/ \E type \in Chain!AllTypes \ {artifact.tensors[n].type} :
             Chain!Becomes([artifact EXCEPT !.tensors[n].type = type], "altered")
        \/ \E i \in 1 .. Len(artifact.tensors[n].shape), change \in {-8, 8, 96} :
             /\ artifact.tensors[n].shape[i] + change > 0
             /\ Chain!Becomes([artifact EXCEPT !.tensors[n].shape[i] = @ + change], "altered")
        \/ /\ Len(artifact.tensors[n].shape) < 4
           /\ Chain!Becomes([artifact EXCEPT !.tensors[n].shape = Append(@, 2)], "altered")
  BY Zenon DEF Chain!AlterTensor
<1>1. \A next : Chain!Becomes(next, "altered") => artifact' = next
  BY DEF Chain!Becomes
<1> DEFINE s == artifact.tensors[n]
<1>2. s \in StoredTensors
  BY TableFacts DEF Artifacts
<1>3. s.type \in Chain!AllTypes /\ s.shape \in Shapes /\ s = Chain!Tensor(s.type, s.shape)
  BY <1>2, TableFacts
<1>4. /\ s.shape \in Seq(Nat \ {0}) /\ Len(s.shape) \in 1 .. 4
      /\ \A i \in 1 .. Len(s.shape) : s.shape[i] \in Nat \ {0}
  BY <1>3, ShapeFacts
<1>5. SUFFICES \E t \in StoredTensors :
        /\ OneChange(s, t)
        /\ artifact' = [artifact EXCEPT !.tensors = [artifact.tensors EXCEPT ![n] = t]]
  BY TensorReplaced
<1>6. CASE \E type \in Chain!AllTypes \ {s.type} :
             Chain!Becomes([artifact EXCEPT !.tensors[n].type = type], "altered")
  <2>1. PICK type \in Chain!AllTypes \ {s.type} :
          artifact' = [artifact EXCEPT !.tensors[n].type = type]
    BY <1>1, <1>6
  <2>2. [s EXCEPT !.type = type] = Chain!Tensor(type, s.shape)
    BY <1>2, TensorExcept
  <2>3. artifact' = [artifact EXCEPT !.tensors =
                       [artifact.tensors EXCEPT ![n] = Chain!Tensor(type, s.shape)]]
    BY <2>1, <2>2
  <2>4. /\ Chain!Tensor(type, s.shape) \in StoredTensors
        /\ OneChange(s, Chain!Tensor(type, s.shape))
    BY <1>3, TableFacts DEF OneChange
  <2> QED
    BY <2>3, <2>4
<1>7. CASE \E i \in 1 .. Len(s.shape), change \in {-8, 8, 96} :
             /\ s.shape[i] + change > 0
             /\ Chain!Becomes([artifact EXCEPT !.tensors[n].shape[i] = @ + change], "altered")
  <2>1. PICK i \in 1 .. Len(s.shape), change \in {-8, 8, 96} :
          /\ s.shape[i] + change > 0
          /\ artifact' = [artifact EXCEPT !.tensors[n].shape[i] = @ + change]
    BY <1>1, <1>7
  <2> DEFINE shape == [s.shape EXCEPT ![i] = s.shape[i] + change]
  <2>2. [s EXCEPT !.shape = shape] = Chain!Tensor(s.type, shape)
    <3> HIDE DEF shape
    <3> QED
      BY <1>2, TensorExcept
  <2>3. artifact' = [artifact EXCEPT !.tensors =
                       [artifact.tensors EXCEPT ![n] = Chain!Tensor(s.type, shape)]]
    BY <2>1, <2>2
  <2>4. s.shape[i] + change \in Nat \ {0} /\ s.shape[i] + change # s.shape[i]
    <3>1. s.shape[i] \in Nat /\ change \in Int /\ change # 0
      BY <1>4
    <3>2. s.shape[i] + change > 0
      BY <2>1
    <3> QED
      BY <3>1, <3>2
  <2>5. /\ shape \in Seq(Nat \ {0}) /\ Len(shape) = Len(s.shape)
        /\ shape[i] # s.shape[i]
        /\ \A j \in 1 .. Len(s.shape) : j # i => shape[j] = s.shape[j]
    BY <1>4, <2>4
  <2> HIDE DEF shape
  <2>6. shape \in Shapes
    BY <2>5, <1>4 DEF Shapes
  <2>7. /\ Chain!Tensor(s.type, shape) \in StoredTensors
        /\ OneChange(s, Chain!Tensor(s.type, shape))
    <3> DEFINE t == Chain!Tensor(s.type, shape)
    <3>1. t \in StoredTensors /\ t.type = s.type /\ t.shape = shape
      BY <2>6, <1>3, TableFacts
    <3> HIDE DEF t
    <3>2. OneChange(s, t)
      BY <3>1, <2>5 DEF OneChange
    <3> QED
      BY <3>1, <3>2 DEF t
  <2> QED
    BY <2>3, <2>7
<1>8. CASE /\ Len(s.shape) < 4
           /\ Chain!Becomes([artifact EXCEPT !.tensors[n].shape = Append(@, 2)], "altered")
  <2> DEFINE shape == Append(s.shape, 2)
  <2>1. Len(s.shape) < 4
    BY <1>8
  <2>2. [s EXCEPT !.shape = shape] = Chain!Tensor(s.type, shape)
    <3> HIDE DEF shape
    <3> QED
      BY <1>2, TensorExcept
  <2>3. artifact' = [artifact EXCEPT !.tensors =
                       [artifact.tensors EXCEPT ![n] = Chain!Tensor(s.type, shape)]]
    BY <1>1, <1>8, <2>2
  <2>5. /\ shape \in Seq(Nat \ {0}) /\ Len(shape) = Len(s.shape) + 1
        /\ shape[Len(s.shape) + 1] = 2
    BY <1>4
  <2> HIDE DEF shape
  <2>6. shape \in Shapes
    <3>0. PICK k \in 1 .. 4 : k = Len(s.shape)
      BY <1>4
    <3>a. k < 4
      BY <2>1, <3>0
    <3>b. Len(shape) = k + 1
      BY <2>5, <3>0
    <3>1. Len(shape) \in 1 .. 4
      BY <3>a, <3>b
    <3> QED
      BY <3>1, <2>5 DEF Shapes
  <2>7. /\ Chain!Tensor(s.type, shape) \in StoredTensors
        /\ OneChange(s, Chain!Tensor(s.type, shape))
    BY <2>1, <2>5, <2>6, <1>3, TableFacts DEF OneChange
  <2> QED
    BY <2>3, <2>7
<1> QED
  BY <1>0, <1>6, <1>7, <1>8

LEMMA AlterInventoryStep ==
  ASSUME artifact \in Artifacts, Chain!AlterInventory
  PROVE  artifact' \in Artifacts /\ InventoryAltered(artifact, artifact')
<1> DEFINE t == artifact.tensors
           removed(n) == [m \in DOMAIN t \ {n} |-> t[m]]
           added == [m \in DOMAIN t \cup {"extra"} |->
                       IF m \in DOMAIN t THEN t[m] ELSE Chain!Tensor("F32", <<1>>)]
<1>1. \/ \E n \in DOMAIN t : artifact' = [artifact EXCEPT !.tensors = removed(n)]
      \/ artifact' = [artifact EXCEPT !.tensors = added]
  BY DEF Chain!AlterInventory, Chain!Becomes
<1>2. t \in [DOMAIN t -> StoredTensors] /\ DOMAIN t \subseteq TensorNames
  BY TableFacts DEF Artifacts
<1>3. CASE \E n \in DOMAIN t : artifact' = [artifact EXCEPT !.tensors = removed(n)]
  <2>1. PICK n \in DOMAIN t : artifact' = [artifact EXCEPT !.tensors = removed(n)]
    BY <1>3
  <2>2. removed(n) \in [DOMAIN t \ {n} -> StoredTensors] /\ DOMAIN t \ {n} \subseteq TensorNames
    BY <1>2
  <2>3. /\ removed(n) \in Tables /\ DOMAIN removed(n) = DOMAIN t \ {n}
        /\ \A m \in DOMAIN t \ {n} : removed(n)[m] = t[m]
    BY <2>2, TableFacts
  <2> HIDE DEF removed
  <2>4. /\ artifact' \in Artifacts /\ SameKeys(artifact, artifact')
        /\ artifact'.tensors = removed(n)
    BY <2>1, <2>3, TensorsReplaced
  <2> QED
    BY <2>3, <2>4 DEF InventoryAltered
<1>4. CASE artifact' = [artifact EXCEPT !.tensors = added]
  <2>1. Chain!Tensor("F32", <<1>>) \in StoredTensors
    BY TableFacts, ShapeOf, ProfileFacts
  <2>2. added \in [DOMAIN t \cup {"extra"} -> StoredTensors]
        /\ DOMAIN t \cup {"extra"} \subseteq TensorNames
    BY <1>2, <2>1 DEF TensorNames
  <2>3. DOMAIN added = DOMAIN t \cup {"extra"} /\ \A m \in DOMAIN t : added[m] = t[m]
    OBVIOUS
  <2> HIDE DEF added
  <2>5. added \in Tables
    BY <2>2, TableFacts
  <2>4. /\ artifact' \in Artifacts /\ SameKeys(artifact, artifact')
        /\ artifact'.tensors = added
    BY <1>4, <2>5, TensorsReplaced
  <2> QED
    BY <2>3, <2>4 DEF InventoryAltered
<1> QED
  BY <1>1, <1>3, <1>4

(* Another value of a tag's field.                                         *)
LEMMA OtherTagsAreTags ==
  ASSUME NEW tag \in Tags
  PROVE  /\ Chain!OtherTags(tag) \subseteq Tags
         /\ \A other \in Chain!OtherTags(tag) \ {tag} :
              \/ /\ other.profile # tag.profile
                 /\ other.policy = tag.policy /\ other.lineage = tag.lineage
              \/ /\ other.policy # tag.policy
                 /\ other.profile = tag.profile /\ other.lineage = tag.lineage
              \/ other.lineage \notin Chain!Digests
<1>1. ASSUME NEW p \in Chain!Profiles \cup {"absent", "F16"}, NEW other,
             other = [tag EXCEPT !.profile = p], other # tag
      PROVE  /\ other \in Tags /\ other.profile # tag.profile
             /\ other.policy = tag.policy /\ other.lineage = tag.lineage
  BY <1>1 DEF Tags
<1>2. ASSUME NEW p \in {"1", "2", "absent"}, NEW other,
             other = [tag EXCEPT !.policy = p], other # tag
      PROVE  /\ other \in Tags /\ other.policy # tag.policy
             /\ other.profile = tag.profile /\ other.lineage = tag.lineage
  BY <1>2 DEF Tags
<1>3. ASSUME NEW d \in {"invalid", "absent"}, NEW other,
             other = [tag EXCEPT !.lineage = d]
      PROVE  other \in Tags /\ other.lineage \notin Chain!Digests
  BY <1>3 DEF Tags, Chain!Digests
<1>4. ASSUME NEW other \in Chain!OtherTags(tag)
      PROVE  \/ \E p \in Chain!Profiles \cup {"absent", "F16"} : other = [tag EXCEPT !.profile = p]
             \/ \E p \in {"1", "2", "absent"} : other = [tag EXCEPT !.policy = p]
             \/ \E d \in {"invalid", "absent"} : other = [tag EXCEPT !.lineage = d]
  BY DEF Chain!OtherTags
<1> QED
  BY <1>1, <1>2, <1>3, <1>4

LEMMA FileTypeReplaced ==
  ASSUME NEW a \in Artifacts, NEW v \in FileTypes
  PROVE  LET b == [a EXCEPT !.fileType = v]
         IN /\ b \in Artifacts /\ b.fileType = v /\ b.source = a.source
            /\ b.quant = a.quant /\ b.layout = a.layout /\ b.dtype = a.dtype
            /\ b.precision = a.precision /\ b.tensors = a.tensors
BY DEF Artifacts

LEMMA TagReplaced ==
  ASSUME NEW a \in Artifacts, NEW v \in Tags
  PROVE  /\ LET b == [a EXCEPT !.quant = v]
            IN /\ b \in Artifacts /\ b.quant = v /\ b.source = a.source
               /\ b.fileType = a.fileType /\ b.tensors = a.tensors
         /\ LET b == [a EXCEPT !.precision = v]
            IN /\ b \in Artifacts /\ b.precision = v /\ b.source = a.source
               /\ b.fileType = a.fileType /\ b.tensors = a.tensors
BY DEF Artifacts

LEMMA DtypeReplaced ==
  ASSUME NEW a \in Artifacts, NEW v \in {"F32", "F16", "MIXED"}
  PROVE  LET b == [a EXCEPT !.dtype = v]
         IN /\ b \in Artifacts /\ b.dtype = v /\ b.source = a.source /\ b.layout = a.layout
            /\ b.fileType = a.fileType /\ b.tensors = a.tensors /\ b.quant = a.quant
BY DEF Artifacts

LEMMA LayoutReplaced ==
  ASSUME NEW a \in Artifacts, NEW v \in PaddedLayouts
  PROVE  LET b == [a EXCEPT !.layout = v]
         IN /\ b \in Artifacts /\ b.layout = v /\ b.source = a.source /\ b.dtype = a.dtype
            /\ b.fileType = a.fileType /\ b.tensors = a.tensors /\ b.quant = a.quant
BY DEF Artifacts

LEMMA ProfileReplaced ==
  ASSUME artifact \in Artifacts, NEW p \in Chain!Profiles
  PROVE  LET b == Chain!Relabelled(p)
         IN /\ b \in Artifacts /\ b.fileType = Chain!FileType[p] /\ b.quant.profile = p
            /\ b.source = artifact.source /\ b.tensors = artifact.tensors
<1> DEFINE layout == IF artifact.source = "flow" THEN Chain!PaddedLayout(p)
                     ELSE artifact.layout
           tag == [artifact.quant EXCEPT !.profile = p]
           b == [artifact EXCEPT !.fileType = Chain!FileType[p], !.quant = tag,
                                 !.layout = layout]
<1>1. layout \in PaddedLayouts
  BY DEF PaddedLayouts, Artifacts
<1>2. tag \in Tags /\ tag.profile = p
  <2>1. artifact.quant \in Tags
    BY DEF Artifacts
  <2> QED
    BY <2>1 DEF Tags
<1>3. Chain!FileType[p] \in FileTypes
  BY ProfileFacts DEF FileTypes
<1>4. Chain!Relabelled(p) = b
  BY DEF Chain!Relabelled, Artifacts
<1> HIDE DEF layout, tag
<1>5. /\ b \in Artifacts /\ b.fileType = Chain!FileType[p] /\ b.quant = tag
      /\ b.source = artifact.source /\ b.tensors = artifact.tensors
  BY <1>1, <1>2, <1>3 DEF Artifacts
<1> QED
  BY <1>2, <1>4, <1>5

LEMMA AlterMetadataStep ==
  ASSUME artifact \in Artifacts, Chain!AlterMetadata
  PROVE  artifact' \in Artifacts /\ MetadataAltered(artifact, artifact')
<1>1. \A next : Chain!Becomes(next, "altered") => artifact' = next
  BY DEF Chain!Becomes
<1>2. /\ artifact.quant \in Tags /\ artifact.precision \in Tags
      /\ artifact.fileType \in FileTypes
  BY DEF Artifacts
<1>3. CASE \E type \in DOMAIN Chain!FileType :
             /\ Chain!FileType[type] # artifact.fileType
             /\ Chain!Becomes([artifact EXCEPT !.fileType = Chain!FileType[type]], "altered")
  <2>1. PICK v \in FileTypes :
          v # artifact.fileType /\ artifact' = [artifact EXCEPT !.fileType = v]
    BY <1>1, <1>3 DEF FileTypes
  <2> QED
    BY <2>1, FileTypeReplaced DEF MetadataAltered, FileTypeAltered
<1>4. CASE /\ artifact.source # "vae"
           /\ \E tag \in Chain!OtherTags(artifact.quant) \ {artifact.quant} :
                Chain!Becomes([artifact EXCEPT !.quant = tag], "altered")
  <2>1. PICK tag \in Chain!OtherTags(artifact.quant) \ {artifact.quant} :
          artifact' = [artifact EXCEPT !.quant = tag]
    BY <1>1, <1>4
  <2>2. tag \in Tags
    BY <1>2, OtherTagsAreTags
  <2> QED
    BY <2>1, <2>2, <1>4, TagReplaced DEF MetadataAltered, TagAltered
<1>5. CASE /\ artifact.source # "vae" /\ artifact.quant # Chain!NoTag
           /\ \E profile \in Chain!Profiles \ {artifact.quant.profile} :
                Chain!Becomes(Chain!Relabelled(profile), "altered")
  <2>1. PICK p \in Chain!Profiles \ {artifact.quant.profile} : artifact' = Chain!Relabelled(p)
    BY <1>1, <1>5
  <2> QED
    BY <2>1, <1>5, ProfileReplaced DEF MetadataAltered, ProfileAltered
<1>6. CASE /\ artifact.source = "flow"
           /\ \E dtype \in {"F32", "F16", "MIXED"} \ {artifact.dtype} :
                Chain!Becomes([artifact EXCEPT !.dtype = dtype], "altered")
  <2>1. PICK dtype \in {"F32", "F16", "MIXED"} \ {artifact.dtype} :
          artifact' = [artifact EXCEPT !.dtype = dtype]
    BY <1>1, <1>6
  <2>2. /\ artifact' \in Artifacts /\ artifact'.dtype # artifact.dtype
        /\ artifact'.source = artifact.source /\ artifact'.layout = artifact.layout
        /\ artifact'.fileType = artifact.fileType /\ artifact'.tensors = artifact.tensors
        /\ artifact'.quant = artifact.quant
    BY <2>1, DtypeReplaced
  <2> QED
    BY <2>2, <1>6 DEF MetadataAltered, LayoutAltered
<1>7. CASE /\ artifact.source = "flow"
           /\ \E layout \in ({Chain!PaddedLayout(p) : p \in Chain!Profiles} \cup {Chain!Absent})
                             \ {artifact.layout} :
                Chain!Becomes([artifact EXCEPT !.layout = layout], "altered")
  <2>1. PICK layout \in PaddedLayouts \ {artifact.layout} :
          artifact' = [artifact EXCEPT !.layout = layout]
    BY <1>1, <1>7 DEF PaddedLayouts
  <2>2. /\ artifact' \in Artifacts /\ artifact'.layout # artifact.layout
        /\ artifact'.source = artifact.source /\ artifact'.dtype = artifact.dtype
        /\ artifact'.fileType = artifact.fileType /\ artifact'.tensors = artifact.tensors
        /\ artifact'.quant = artifact.quant
    BY <2>1, LayoutReplaced
  <2> QED
    BY <2>2, <1>7 DEF MetadataAltered, LayoutAltered
<1>8. CASE /\ artifact.source = "vae" /\ artifact.fileType = 1
           /\ \E tag \in Chain!OtherTags(artifact.precision) \ {artifact.precision} :
                Chain!Becomes([artifact EXCEPT !.precision = tag], "altered")
  <2>1. PICK tag \in Chain!OtherTags(artifact.precision) \ {artifact.precision} :
          artifact' = [artifact EXCEPT !.precision = tag]
    BY <1>1, <1>8
  <2>2. tag \in Tags
    BY <1>2, OtherTagsAreTags
  <2> QED
    BY <2>1, <2>2, <1>8, TagReplaced DEF MetadataAltered, PrecisionAltered
<1> QED
  BY Zenon, <1>3, <1>4, <1>5, <1>6, <1>7, <1>8 DEF Chain!AlterMetadata

-----------------------------------------------------------------------------
(* The strict loaders: the keys of an artifact decide what each tensor has *)
(* to be.                                                                  *)
Keyed(a) == a.source = "vae" \/ a.quant.profile \in Chain!Profiles \cup {"absent"}

LEMMA LoadedKeys ==
  ASSUME NEW a \in Artifacts, Chain!Loads(a)
  PROVE  /\ Keyed(a) /\ Chain!TensorsAreExpected(a)
         /\ a.source = "vae" => Chain!PrecisionParses(a)
         /\ a.source # "vae" =>
              \/ Chain!QuantizationParses(a) /\ a.quant.profile \in Chain!Profiles
              \/ Chain!Unquantized(a) /\ a.quant.profile = "absent"
BY DEF Chain!Loads, Keyed, Chain!QuantizationParses, Chain!Unquantized, Chain!NoTag

LEMMA ExpectedFacts ==
  ASSUME NEW a \in Artifacts, NEW n \in DOMAIN Chain!Inventory(a.source), Keyed(a)
  PROVE  LET shape == Chain!Inventory(a.source)[n]
             e == Chain!Expected(a, n)
         IN /\ shape \in Shapes /\ Len(shape) \in 1 .. 4
            /\ e.type \in Chain!AllTypes /\ e.shape \in Shapes /\ Len(e.shape) = Len(shape)
            /\ a.source = "vae" \/ a.quant.profile = "absent" => e.type = Chain!PlainType(a)
            /\ a.source = "flow" /\ a.quant.profile \in Chain!Profiles =>
                 e.type = Chain!FlowType(n, Len(shape), a.quant.profile)
            /\ a.source \notin {"flow", "vae"} /\ a.quant.profile \in Chain!Profiles =>
                 e.type = Chain!LelmType(n, Len(shape), a.quant.profile)
            /\ e.shape = IF a.source = "flow" /\ n \in Chain!FlowBlockMatrices
                         THEN PaddedShape(shape, e.type) ELSE shape
<1> DEFINE shape == Chain!Inventory(a.source)[n]
           e == Chain!Expected(a, n)
           profile == a.quant.profile
<1>1. a.source \in DOMAIN Chain!Architecture
  BY DEF Artifacts
<1>2. shape \in Shapes /\ Len(shape) \in 1 .. 4
  BY <1>1, InventoryFacts, ShapeFacts
<1> DEFINE type == CASE a.source = "vae" \/ profile = "absent" -> Chain!PlainType(a)
                      [] a.source = "flow" /\ profile # "absent" ->
                           Chain!FlowType(n, Len(shape), profile)
                      [] OTHER -> Chain!LelmType(n, Len(shape), profile)
<1>a. e = Chain!Tensor(type, IF a.source = "flow" /\ n \in Chain!FlowBlockMatrices
                             THEN PaddedShape(shape, type) ELSE shape)
  BY DEF Chain!Expected, PaddedShape
<1>b. /\ a.source = "vae" \/ profile = "absent" => type = Chain!PlainType(a)
      /\ a.source = "flow" /\ profile # "absent" => type = Chain!FlowType(n, Len(shape), profile)
      /\ a.source \notin {"flow", "vae"} /\ profile # "absent" =>
           type = Chain!LelmType(n, Len(shape), profile)
  OBVIOUS
<1> HIDE DEF type
<1>c. e.type = type
  BY <1>a, TensorFields
<1>3. /\ a.source = "vae" \/ profile = "absent" => e.type = Chain!PlainType(a)
      /\ a.source = "flow" /\ profile # "absent" => e.type = Chain!FlowType(n, Len(shape), profile)
      /\ a.source \notin {"flow", "vae"} /\ profile # "absent" =>
           e.type = Chain!LelmType(n, Len(shape), profile)
  BY <1>b, <1>c
<1>4. e.shape = IF a.source = "flow" /\ n \in Chain!FlowBlockMatrices
                THEN PaddedShape(shape, e.type) ELSE shape
  BY <1>a, <1>c, TensorFields
<1>5. e.type \in Chain!AllTypes
  <2>1. CASE a.source = "vae" \/ profile = "absent"
    BY <2>1, <1>3, ProfileFacts DEF Chain!PlainType
  <2>2. CASE a.source # "vae" /\ profile \in Chain!Profiles
    <3>1. profile # "absent" /\ Len(shape) \in Nat
      BY <2>2, <1>2, ProfileFacts
    <3>2. /\ Chain!FlowType(n, Len(shape), profile) \in Chain!AllTypes
          /\ Chain!LelmType(n, Len(shape), profile) \in Chain!AllTypes
      BY <2>2, <3>1, RoutedType
    <3> QED
      BY <2>2, <3>1, <3>2, <1>3
  <2> QED
    BY <2>1, <2>2 DEF Keyed
<1>6. e.shape \in Shapes /\ Len(e.shape) = Len(shape)
  BY <1>2, <1>4, <1>5, PaddedShapeFacts
<1> HIDE DEF shape, e
<1>7. /\ shape \in Shapes /\ Len(shape) \in 1 .. 4
      /\ e.type \in Chain!AllTypes /\ e.shape \in Shapes /\ Len(e.shape) = Len(shape)
      /\ a.source = "vae" \/ a.quant.profile = "absent" => e.type = Chain!PlainType(a)
      /\ a.source = "flow" /\ a.quant.profile \in Chain!Profiles =>
           e.type = Chain!FlowType(n, Len(shape), a.quant.profile)
      /\ a.source \notin {"flow", "vae"} /\ a.quant.profile \in Chain!Profiles =>
           e.type = Chain!LelmType(n, Len(shape), a.quant.profile)
      /\ e.shape = IF a.source = "flow" /\ n \in Chain!FlowBlockMatrices
                   THEN PaddedShape(shape, e.type) ELSE shape
  BY <1>2, <1>3, <1>4, <1>5, <1>6, ProfileFacts
<1> QED
  BY <1>7 DEF shape, e

(* What a loaded artifact has under a name.                                *)
LEMMA LoadedTensors ==
  ASSUME NEW a \in Artifacts, Chain!Loads(a)
  PROVE  /\ DOMAIN a.tensors = DOMAIN Chain!Inventory(a.source)
         /\ \A n \in DOMAIN a.tensors :
              /\ a.tensors[n] \in StoredTensors
              /\ a.tensors[n].type = Chain!Expected(a, n).type
              /\ Chain!SameShape(a.tensors[n].shape, Chain!Expected(a, n).shape)
BY LoadedKeys, TableFacts DEF Chain!TensorsAreExpected, Artifacts

(* The converter's output loads.                                           *)
LEMMA PlainLoads ==
  ASSUME NEW a, NEW source, NEW type, Plain(a, source, type)
  PROVE  Chain!Loads(a)
<1>1. /\ a \in Artifacts /\ a.source = source /\ a.fileType = Chain!FileType[type]
      /\ a.quant = Chain!NoTag /\ a.layout = Chain!Absent
      /\ a.dtype = IF source = "flow" THEN type ELSE "absent"
      /\ DOMAIN a.tensors = DOMAIN Chain!Inventory(source)
      /\ \A n \in DOMAIN a.tensors : /\ a.tensors[n].type = type
                                    /\ a.tensors[n].shape = Chain!Inventory(source)[n]
  BY PlainFields
<1>2. /\ source \in DOMAIN Chain!Architecture /\ type \in {"F32", "F16"}
      /\ source = "vae" => type = "F32"
  BY DEF Plain
<1>3. a.fileType \in {0, 1} /\ Chain!PlainType(a) = type
  BY <1>1, <1>2, ProfileFacts DEF Chain!PlainType
<1>4. source = "vae" => Chain!PrecisionParses(a)
  BY <1>1, <1>2, ProfileFacts DEF Chain!PrecisionParses
<1>5. source # "vae" => Chain!Unquantized(a)
  BY <1>1, <1>2, <1>3 DEF Chain!Unquantized
<1>6. a.quant.profile = "absent" /\ Keyed(a)
  BY <1>1 DEF Chain!NoTag, Keyed
<1>7. ASSUME NEW n \in DOMAIN a.tensors
      PROVE  /\ a.tensors[n].type = Chain!Expected(a, n).type
             /\ Chain!SameShape(a.tensors[n].shape, Chain!Expected(a, n).shape)
  <2>1. /\ Chain!Expected(a, n).type = type
        /\ Chain!Inventory(source)[n] \in Shapes
        /\ Chain!Expected(a, n).shape =
             IF source = "flow" /\ n \in Chain!FlowBlockMatrices
             THEN PaddedShape(Chain!Inventory(source)[n], type) ELSE Chain!Inventory(source)[n]
    BY <1>1, <1>3, <1>6, ExpectedFacts
  <2>2. type \in Chain!AllTypes /\ type \notin Chain!QuantizedTypes
    BY <1>2, ProfileFacts
  <2>3. Chain!Expected(a, n).shape = Chain!Inventory(source)[n]
    BY <2>1, <2>2, PaddedShapeFacts
  <2> QED
    BY <1>1, <2>1, <2>3, SameShapeFacts
<1> QED
  BY <1>1, <1>4, <1>5, <1>7 DEF Chain!Loads, Chain!TensorsAreExpected

(* What the quantizer writes from the converter's output loads.            *)
LEMMA WrittenLoads ==
  ASSUME NEW a, NEW source, NEW type, Plain(a, source, type),
         NEW option, NEW d, NEW q, Written(a, option, d, q)
  PROVE  Chain!Loads(q)
<1>1. /\ a \in Artifacts /\ a.source = source
      /\ DOMAIN a.tensors = DOMAIN Chain!Inventory(source)
      /\ \A n \in DOMAIN a.tensors : /\ a.tensors[n].type = type
                                    /\ a.tensors[n].shape = Chain!Inventory(source)[n]
  BY PlainFields
<1>2. /\ q \in Artifacts /\ q.source = source
      /\ option \in Chain!Options /\ d \in Chain!Digests
      /\ source = "vae" <=> option = "F16"
      /\ q.fileType = Chain!FileType[option]
      /\ source = "vae" => q.precision = Chain!Tag("F16", d)
      /\ source # "vae" => q.quant = Chain!Tag(option, d)
      /\ source = "flow" => q.dtype = "MIXED" /\ q.layout = Chain!PaddedLayout(option)
      /\ DOMAIN q.tensors = DOMAIN a.tensors
      /\ \A n \in DOMAIN a.tensors :
           q.tensors[n] = Chain!Tensor(Chain!Planned(a, n, option).type,
                                       Chain!AsStored(Chain!Planned(a, n, option).shape))
  BY <1>1, WrittenFields
<1>3. source = "vae" => Chain!PrecisionParses(q) /\ Chain!PlainType(q) = "F16"
  BY <1>2, ProfileFacts DEF Chain!PrecisionParses, Chain!TagIsWhole, Chain!Tag, Chain!PlainType
<1>4. source # "vae" => /\ Chain!QuantizationParses(q) /\ option \in Chain!Profiles
                        /\ q.quant.profile = option
  BY <1>2 DEF Chain!QuantizationParses, Chain!TagIsWhole, Chain!Tag, Chain!Options
<1>5. Keyed(q)
  BY <1>2, <1>4 DEF Keyed
<1>6. ASSUME NEW n \in DOMAIN q.tensors
      PROVE  /\ q.tensors[n].type = Chain!Expected(q, n).type
             /\ Chain!SameShape(q.tensors[n].shape, Chain!Expected(q, n).shape)
  <2> DEFINE planned == Chain!Planned(a, n, option)
             e == Chain!Expected(q, n)
             shape == Chain!Inventory(source)[n]
  <2>1. a.tensors[n].shape = shape
    BY <1>1, <1>2
  <2>2. /\ planned.type \in Chain!AllTypes /\ planned.shape \in Shapes
        /\ source = "vae" => planned.type = "F16"
        /\ source = "flow" => planned.type = Chain!FlowType(n, Len(shape), option)
        /\ source \notin {"flow", "vae"} =>
             planned.type = Chain!LelmType(n, Len(shape), option)
        /\ planned.shape = IF source = "flow" /\ n \in Chain!FlowBlockMatrices
                           THEN PaddedShape(shape, planned.type) ELSE shape
    BY <1>1, <1>2, <2>1, PlannedFacts
  <2>3. /\ source = "vae" => e.type = Chain!PlainType(q)
        /\ source = "flow" => e.type = Chain!FlowType(n, Len(shape), option)
        /\ source \notin {"flow", "vae"} => e.type = Chain!LelmType(n, Len(shape), option)
        /\ e.shape = IF source = "flow" /\ n \in Chain!FlowBlockMatrices
                     THEN PaddedShape(shape, e.type) ELSE shape
    BY <1>1, <1>2, <1>4, <1>5, ExpectedFacts
  <2> HIDE DEF planned, e, shape
  <2>4. planned.type = e.type /\ planned.shape = e.shape
    BY <2>2, <2>3, <1>3
  <2>5. /\ q.tensors[n].type = planned.type
        /\ q.tensors[n].shape = Chain!AsStored(planned.shape)
    BY <1>2, TensorFields DEF planned
  <2>6. Chain!SameShape(planned.shape, planned.shape)
    BY <2>2, SameShapeFacts
  <2>7. Chain!SameShape(Chain!AsStored(planned.shape), planned.shape)
    BY <2>2, <2>6, SameShapeFacts
  <2> QED
    BY <2>4, <2>5, <2>7 DEF e
<1> QED
  BY <1>1, <1>2, <1>3, <1>4, <1>6 DEF Chain!Loads, Chain!TensorsAreExpected

-----------------------------------------------------------------------------
(* A changed tensor is not what it was expected to be.                     *)
LEMMA ChangeShows ==
  ASSUME NEW s \in StoredTensors, NEW t \in StoredTensors, NEW e \in Shapes,
         OneChange(s, t), t.type = s.type, Chain!SameShape(s.shape, e)
  PROVE  ~Chain!SameShape(t.shape, e)
<1> DEFINE p == s.shape
           q == t.shape
<1>1. p \in Shapes /\ q \in Shapes
  BY TableFacts
<1>2. \/ Len(q) = Len(p) /\ \E i \in 1 .. Len(p) : q[i] # p[i]
      \/ Len(p) < 4 /\ Len(q) = Len(p) + 1 /\ q[Len(p) + 1] = 2
  BY DEF OneChange
<1> HIDE DEF p, q
<1>3. Len(p) \in 1 .. 4 /\ Len(q) \in 1 .. 4
  BY <1>1, ShapeFacts
<1>4. PICK i \in 1 .. 4 : Chain!Ne(q, i) # Chain!Ne(p, i)
  <2>1. CASE Len(q) = Len(p) /\ \E i \in 1 .. Len(p) : q[i] # p[i]
    <3>1. PICK i \in 1 .. Len(p) : q[i] # p[i]
      BY <2>1
    <3>2. i \in 1 .. 4 /\ i \in 1 .. Len(q)
      BY <1>3, <2>1
    <3>3. Chain!Ne(q, i) = q[i] /\ Chain!Ne(p, i) = p[i]
      BY <1>1, <3>2, ShapeFacts
    <3> QED
      BY <3>1, <3>2, <3>3
  <2>2. CASE Len(p) < 4 /\ Len(q) = Len(p) + 1 /\ q[Len(p) + 1] = 2
    <3>1. PICK k \in 1 .. 4 : k = Len(p)
      BY <1>3
    <3>2. k < 4 /\ Len(q) = k + 1 /\ q[k + 1] = 2
      BY <2>2, <3>1
    <3>3. PICK i \in 1 .. 4 : i = k + 1
      BY <3>2
    <3>4. i \in 1 .. Len(q) /\ i > Len(p) /\ q[i] = 2
      BY <3>1, <3>2, <3>3
    <3>5. Chain!Ne(p, i) = 1 /\ Chain!Ne(q, i) = 2
      BY <1>1, <3>3, <3>4, ShapeFacts
    <3> QED
      BY <3>5
  <2> QED
    BY <1>2, <2>1, <2>2
<1>5. Chain!SameShape(p, e)
  BY DEF p
<1>6. ~Chain!SameShape(q, e)
  BY <1>4, <1>5 DEF Chain!SameShape
<1> QED
  BY <1>6 DEF q

(* Keys that differ expect other tensors, if they parse at all.            *)
LEMMA AlteredKeysAreRefused ==
  ASSUME NEW a \in Artifacts, NEW b \in Artifacts, MetadataAltered(a, b), Chain!Loads(a)
  PROVE  ~Chain!Loads(b)
<1> SUFFICES ASSUME Chain!Loads(b) PROVE FALSE
  OBVIOUS
<1>1. /\ b.source = a.source /\ b.tensors = a.tensors
      /\ \/ FileTypeAltered(a, b) \/ ProfileAltered(a, b) \/ TagAltered(a, b)
         \/ LayoutAltered(a, b) \/ PrecisionAltered(a, b)
  BY DEF MetadataAltered
<1>2. /\ Keyed(a) /\ Keyed(b)
      /\ DOMAIN a.tensors = DOMAIN Chain!Inventory(a.source)
      /\ \A n \in DOMAIN a.tensors : Chain!Expected(a, n).type = Chain!Expected(b, n).type
  BY <1>1, LoadedKeys, LoadedTensors
<1>3. /\ a.source = "vae" => Chain!PrecisionParses(a) /\ Chain!PrecisionParses(b)
      /\ a.source # "vae" =>
           /\ \/ Chain!QuantizationParses(a) /\ a.quant.profile \in Chain!Profiles
              \/ Chain!Unquantized(a) /\ a.quant.profile = "absent"
           /\ \/ Chain!QuantizationParses(b) /\ b.quant.profile \in Chain!Profiles
              \/ Chain!Unquantized(b) /\ b.quant.profile = "absent"
  BY <1>1, LoadedKeys
<1>4. a.source \in DOMAIN Chain!Architecture /\ a.quant \in Tags /\ a.precision \in Tags
  BY DEF Artifacts
<1>5. PICK n \in Routed(a.source) :
        /\ n \in DOMAIN a.tensors
        /\ a.source # "vae" => Len(Chain!Inventory(a.source)[n]) = 2
        /\ a.source = "flow" => n = "block.attn.qkv.weight"
        /\ a.source \notin {"flow", "vae"} => n = "blk.attn_q.weight"
  <2>1. /\ a.source = "flow" => "block.attn.qkv.weight" \in Routed(a.source)
        /\ a.source \notin {"flow", "vae"} => "blk.attn_q.weight" \in Routed(a.source)
    BY DEF Routed
  <2> QED
    BY <1>2, <1>4, <2>1, InventoryFacts
<1>6. (* A plain file type is the type of the tensors.                     *)
      ASSUME a.source = "vae" \/ (a.quant.profile = "absent" /\ b.quant.profile = "absent"),
             a.fileType \in {0, 1}, b.fileType \in {0, 1}
      PROVE  a.fileType = b.fileType
  <2>1. /\ Chain!Expected(a, n).type = Chain!PlainType(a)
        /\ Chain!Expected(b, n).type = Chain!PlainType(b)
    BY <1>1, <1>2, <1>5, <1>6, ExpectedFacts
  <2>2. Chain!PlainType(a) = Chain!PlainType(b)
    BY <1>2, <1>5, <2>1
  <2> QED
    BY <2>2, <1>6 DEF Chain!PlainType
<1>7. (* A profile is the type of one matrix.                              *)
      ASSUME a.source # "vae", a.quant.profile \in Chain!Profiles,
             b.quant.profile \in Chain!Profiles
      PROVE  a.quant.profile = b.quant.profile
  <2>1. /\ Chain!Expected(a, n).type = Chain!BaseType[a.quant.profile]
        /\ Chain!Expected(b, n).type = Chain!BaseType[b.quant.profile]
    <3> DEFINE rank == Len(Chain!Inventory(a.source)[n])
    <3>0. rank = 2
      BY <1>5, <1>7
    <3>1. rank \in Nat /\ rank >= 2
      <4> HIDE DEF rank
      <4> QED
        BY <3>0
    <3>2. CASE a.source = "flow"
      <4>1. /\ Chain!Expected(a, n).type = Chain!FlowType(n, rank, a.quant.profile)
            /\ Chain!Expected(b, n).type = Chain!FlowType(n, rank, b.quant.profile)
        BY <1>1, <1>2, <1>5, <1>7, <3>2, ExpectedFacts
      <4> HIDE DEF rank
      <4> QED
        BY <1>5, <1>7, <3>1, <3>2, <4>1, RoutedType
    <3>3. CASE a.source \notin {"flow", "vae"}
      <4>1. /\ Chain!Expected(a, n).type = Chain!LelmType(n, rank, a.quant.profile)
            /\ Chain!Expected(b, n).type = Chain!LelmType(n, rank, b.quant.profile)
        BY <1>1, <1>2, <1>5, <1>7, <3>3, ExpectedFacts
      <4> HIDE DEF rank
      <4> QED
        BY <1>5, <1>7, <3>1, <3>3, <4>1, RoutedType
    <3> QED
      BY <1>7, <3>2, <3>3
  <2> QED
    BY <1>2, <1>5, <1>7, <2>1, ProfileFacts
<1>8. CASE a.source = "vae"
  <2>1. a.fileType \in {0, 1} /\ b.fileType \in {0, 1}
    BY <1>3, <1>8 DEF Chain!PrecisionParses
  <2>2. a.fileType = b.fileType
    BY <1>6, <1>8, <2>1
  <2>3. PrecisionAltered(a, b)
    BY <1>1, <1>8, <2>2 DEF FileTypeAltered, ProfileAltered, TagAltered, LayoutAltered
  <2>4. /\ a.precision.profile = "F16" /\ Chain!TagIsWhole(a.precision)
        /\ b.precision.profile = "F16" /\ Chain!TagIsWhole(b.precision)
    BY <1>3, <1>8, <2>3 DEF PrecisionAltered, Chain!PrecisionParses
  <2> QED
    BY <1>4, <2>3, <2>4, OtherTagsAreTags DEF PrecisionAltered, Chain!TagIsWhole
<1>9. CASE a.source # "vae" /\ a.quant.profile = "absent" /\ b.quant.profile = "absent"
  <2>1. Chain!Unquantized(a) /\ Chain!Unquantized(b)
    BY <1>3, <1>9, ProfileFacts
  <2>2. a.fileType = b.fileType /\ a.quant = b.quant
    BY <1>6, <1>9, <2>1 DEF Chain!Unquantized
  <2>3. LayoutAltered(a, b)
    BY <1>1, <1>9, <2>1, <2>2
       DEF FileTypeAltered, ProfileAltered, TagAltered, PrecisionAltered, Chain!Unquantized
  <2>4. /\ a.layout = b.layout /\ a.dtype \in {"F32", "F16"} /\ b.dtype \in {"F32", "F16"}
        /\ Chain!FileType[a.dtype] = Chain!FileType[b.dtype]
    BY <1>1, <2>1, <2>2, <2>3 DEF LayoutAltered, Chain!Unquantized
  <2>5. a.dtype = b.dtype
    BY <2>4, ProfileFacts
  <2> QED
    BY <2>3, <2>4, <2>5 DEF LayoutAltered
<1>10. CASE /\ a.source # "vae"
            /\ a.quant.profile \in Chain!Profiles /\ b.quant.profile \in Chain!Profiles
  <2>1. Chain!QuantizationParses(a) /\ Chain!QuantizationParses(b)
    BY <1>3, <1>10, ProfileFacts
  <2>2. a.quant.profile = b.quant.profile
    BY <1>7, <1>10
  <2>3. /\ a.fileType = b.fileType
        /\ Chain!TagIsWhole(a.quant) /\ Chain!TagIsWhole(b.quant)
        /\ a.source = "flow" => a.layout = b.layout /\ a.dtype = b.dtype
    BY <1>1, <2>1, <2>2 DEF Chain!QuantizationParses
  <2>4. TagAltered(a, b)
    BY <1>1, <1>10, <2>2, <2>3 DEF FileTypeAltered, ProfileAltered, LayoutAltered, PrecisionAltered
  <2> QED
    BY <1>4, <2>2, <2>3, <2>4, OtherTagsAreTags DEF TagAltered, Chain!TagIsWhole
<1>11. CASE /\ a.source # "vae"
            /\ a.quant.profile = "absent" <=> b.quant.profile \in Chain!Profiles
  <2>1. \/ /\ Chain!Unquantized(a) /\ a.quant.profile = "absent"
           /\ Chain!QuantizationParses(b) /\ b.quant.profile \in Chain!Profiles
        \/ /\ Chain!Unquantized(b) /\ b.quant.profile = "absent"
           /\ Chain!QuantizationParses(a) /\ a.quant.profile \in Chain!Profiles
    BY <1>3, <1>11, ProfileFacts
  <2>2. a.fileType # b.fileType /\ a.quant # b.quant
    BY <2>1, ProfileFacts DEF Chain!Unquantized, Chain!QuantizationParses
  <2>3. ProfileAltered(a, b)
    BY <1>1, <1>11, <2>2 DEF FileTypeAltered, TagAltered, LayoutAltered, PrecisionAltered
  <2>4. a.quant # Chain!NoTag /\ b.quant.profile \in Chain!Profiles
    BY <2>3 DEF ProfileAltered
  <2> QED
    BY <2>1, <2>4, ProfileFacts DEF Chain!Unquantized
<1> QED
  BY <1>3, <1>8, <1>9, <1>10, <1>11, ProfileFacts

LEMMA AlteredTensorsAreRefused ==
  ASSUME NEW a \in Artifacts, NEW b \in Artifacts,
         TensorAltered(a, b) \/ InventoryAltered(a, b), Chain!Loads(a)
  PROVE  ~Chain!Loads(b)
<1> SUFFICES ASSUME Chain!Loads(b) PROVE FALSE
  OBVIOUS
<1>1. SameKeys(a, b) /\ b.source = a.source
  BY DEF TensorAltered, InventoryAltered, SameKeys
<1>2. /\ DOMAIN a.tensors = DOMAIN Chain!Inventory(a.source)
      /\ DOMAIN b.tensors = DOMAIN Chain!Inventory(a.source)
      /\ "extra" \notin DOMAIN Chain!Inventory(a.source)
  BY <1>1, LoadedTensors, InventoryFacts DEF Artifacts
<1>3. TensorAltered(a, b)
  BY <1>2 DEF InventoryAltered
<1>4. PICK n \in DOMAIN a.tensors, t \in StoredTensors :
        OneChange(a.tensors[n], t) /\ b.tensors = [a.tensors EXCEPT ![n] = t]
  BY <1>3 DEF TensorAltered
<1>5. b.tensors[n] = t /\ n \in DOMAIN b.tensors
  BY <1>4
<1>6. Chain!Expected(b, n) = Chain!Expected(a, n)
  BY <1>1 DEF SameKeys, Chain!Expected, Chain!PlainType
<1>7. /\ a.tensors[n] \in StoredTensors
      /\ a.tensors[n].type = t.type
      /\ Chain!SameShape(a.tensors[n].shape, Chain!Expected(a, n).shape)
      /\ Chain!SameShape(t.shape, Chain!Expected(a, n).shape)
  BY <1>5, <1>6, LoadedTensors
<1>8. Chain!Expected(a, n).shape \in Shapes
  BY <1>2, LoadedKeys, ExpectedFacts
<1> QED
  BY <1>4, <1>7, <1>8, ChangeShows

-----------------------------------------------------------------------------
(* Converted, or converted and altered once: what the quantizer may be     *)
(* given.                                                                  *)
IsPlain(a) == \E source, type : Plain(a, source, type)
Raw(a) == IsPlain(a) \/ \E c : IsPlain(c) /\ Altered(c, a)

(* A shape of the inventory's length, or with one dimension more.          *)
Grown(shape, length) ==
  \/ Len(shape) = length
  \/ length < 4 /\ Len(shape) = length + 1 /\ shape[length + 1] = 2

LEMMA RawFacts ==
  ASSUME NEW a \in Artifacts, Raw(a)
  PROVE  /\ \A n \in DOMAIN a.tensors \cap DOMAIN Chain!Inventory(a.source) :
              Grown(a.tensors[n].shape, Len(Chain!Inventory(a.source)[n]))
         /\ \E n \in Routed(a.source) : /\ n \in DOMAIN a.tensors
                                        /\ n \in DOMAIN Chain!Inventory(a.source)
<1>1. ASSUME NEW c, IsPlain(c)
      PROVE  /\ c \in Artifacts /\ DOMAIN c.tensors = DOMAIN Chain!Inventory(c.source)
             /\ \A n \in DOMAIN c.tensors : c.tensors[n].shape = Chain!Inventory(c.source)[n]
  BY <1>1, PlainFields DEF IsPlain
<1>2. CASE IsPlain(a)
  <2>1. /\ DOMAIN a.tensors = DOMAIN Chain!Inventory(a.source)
        /\ \A n \in DOMAIN a.tensors : a.tensors[n].shape = Chain!Inventory(a.source)[n]
    BY <1>1, <1>2
  <2>2. \E n \in Routed(a.source) : n \in DOMAIN Chain!Inventory(a.source)
    BY InventoryFacts DEF Artifacts
  <2> QED
    BY <2>1, <2>2 DEF Grown
<1>3. CASE \E c : IsPlain(c) /\ Altered(c, a)
  <2>1. PICK c : IsPlain(c) /\ Altered(c, a)
    BY <1>3
  <2>2. /\ c \in Artifacts /\ DOMAIN c.tensors = DOMAIN Chain!Inventory(c.source)
        /\ \A n \in DOMAIN c.tensors : c.tensors[n].shape = Chain!Inventory(c.source)[n]
    BY <1>1, <2>1
  <2>3. a.source = c.source
    BY <2>1 DEF Altered, TensorAltered, InventoryAltered, MetadataAltered, SameKeys
  <2>4. PICK r, k \in Routed(a.source) :
          r # k /\ r \in DOMAIN Chain!Inventory(a.source) /\ k \in DOMAIN Chain!Inventory(a.source)
    BY InventoryFacts DEF Artifacts
  <2>5. CASE TensorAltered(c, a)
    <3>1. PICK m \in DOMAIN c.tensors, t \in StoredTensors :
            OneChange(c.tensors[m], t) /\ a.tensors = [c.tensors EXCEPT ![m] = t]
      BY <2>5 DEF TensorAltered
    <3>2. Grown(t.shape, Len(c.tensors[m].shape))
      BY <3>1 DEF OneChange, Grown
    <3>3. DOMAIN a.tensors = DOMAIN c.tensors
      BY <3>1
    <3>4. ASSUME NEW n \in DOMAIN a.tensors
          PROVE  Grown(a.tensors[n].shape, Len(Chain!Inventory(a.source)[n]))
      <4>1. CASE n = m
        BY <4>1, <3>1, <3>2, <2>2, <2>3
      <4>2. CASE n # m
        <5>1. a.tensors[n] = c.tensors[n]
          BY <4>2, <3>1, <3>3
        <5>2. a.tensors[n].shape = Chain!Inventory(a.source)[n]
          BY <5>1, <3>3, <2>2, <2>3
        <5> QED
          BY <5>2 DEF Grown
      <4> QED
        BY <4>1, <4>2
    <3> QED
      BY <3>3, <3>4, <2>2, <2>3, <2>4
  <2>6. CASE InventoryAltered(c, a)
    <3>1. /\ \/ \E n \in DOMAIN c.tensors : DOMAIN a.tensors = DOMAIN c.tensors \ {n}
             \/ DOMAIN a.tensors = DOMAIN c.tensors \cup {"extra"}
          /\ \A n \in DOMAIN c.tensors \cap DOMAIN a.tensors : a.tensors[n] = c.tensors[n]
      BY <2>6 DEF InventoryAltered
    <3>2. \A n \in DOMAIN a.tensors \cap DOMAIN Chain!Inventory(a.source) :
            a.tensors[n].shape = Chain!Inventory(a.source)[n]
      BY <3>1, <2>2, <2>3
    <3>3. r \in DOMAIN a.tensors \/ k \in DOMAIN a.tensors
      BY <3>1, <2>2, <2>3, <2>4
    <3> QED
      BY <3>2, <3>3, <2>4 DEF Grown
  <2>7. CASE MetadataAltered(c, a)
    <3>1. a.tensors = c.tensors
      BY <2>7 DEF MetadataAltered
    <3>2. \A n \in DOMAIN a.tensors : a.tensors[n].shape = Chain!Inventory(a.source)[n]
      BY <3>1, <2>2, <2>3
    <3> QED
      BY <3>1, <3>2, <2>2, <2>3, <2>4 DEF Grown
  <2> QED
    BY <2>1, <2>5, <2>6, <2>7 DEF Altered
<1> QED
  BY <1>2, <1>3 DEF Raw

(* A source has the one plain type it declares.                            *)
LEMMA SourceTypes ==
  ASSUME NEW a \in Artifacts, NEW option, Chain!Quantizable(a, option)
  PROVE  /\ a.fileType \in {0, 1} /\ (a.source = "vae" => a.fileType = 0)
         /\ \A n \in DOMAIN a.tensors : /\ a.tensors[n].type \in {"F32", "F16"}
                                        /\ a.tensors[n].type = Chain!PlainType(a)
<1>1. /\ a.fileType \in {0, 1} /\ (a.source = "vae" => a.fileType = 0)
      /\ \A n \in DOMAIN a.tensors : /\ a.tensors[n].type \in {"F32", "F16"}
                                     /\ Chain!FileType[a.tensors[n].type] = a.fileType
  BY DEF Chain!Quantizable, Chain!SourceFileType
<1>2. \A type \in {"F32", "F16"} :
        Chain!FileType[type] = a.fileType => type = Chain!PlainType(a)
  BY <1>1, ProfileFacts DEF Chain!PlainType
<1> QED
  BY <1>1, <1>2

(* The tool does not take its own output.                                  *)
LEMMA WrittenIsNoSource ==
  ASSUME NEW a \in Artifacts, NEW option, NEW d, NEW q, Written(a, option, d, q), NEW o
  PROVE  ~Chain!Quantizable(q, o)
<1> SUFFICES ASSUME Chain!Quantizable(q, o) PROVE FALSE
  OBVIOUS
<1>1. /\ q \in Artifacts /\ q.source = a.source /\ option \in Chain!Options
      /\ a.source = "vae" <=> option = "F16"
      /\ q.fileType = Chain!FileType[option]
  BY WrittenFields
<1>2. q.fileType \in {0, 1} /\ (q.source = "vae" => q.fileType = 0)
  BY <1>1, SourceTypes
<1> QED
  BY <1>1, <1>2, ProfileFacts DEF Chain!Options

(* Nor its own output with one alteration: the file type alone would have  *)
(* to say so, and then the tensors deny it.                                *)
LEMMA AlteredWrittenIsNoSource ==
  ASSUME NEW a \in Artifacts, Raw(a), NEW option, NEW d, NEW q, Written(a, option, d, q),
         NEW b \in Artifacts, Altered(q, b), NEW o
  PROVE  ~Chain!Quantizable(b, o)
<1> SUFFICES ASSUME Chain!Quantizable(b, o) PROVE FALSE
  OBVIOUS
<1>1. /\ q \in Artifacts /\ q.source = a.source /\ option \in Chain!Options
      /\ a.source = "vae" <=> option = "F16"
      /\ q.fileType = Chain!FileType[option]
      /\ DOMAIN q.tensors = DOMAIN a.tensors
      /\ \A n \in DOMAIN a.tensors :
           q.tensors[n] = Chain!Tensor(Chain!Planned(a, n, option).type,
                                       Chain!AsStored(Chain!Planned(a, n, option).shape))
  BY WrittenFields
<1>2. /\ b.fileType \in {0, 1} /\ (b.source = "vae" => b.fileType = 0)
      /\ \A n \in DOMAIN b.tensors : /\ b.tensors[n].type \in {"F32", "F16"}
                                     /\ b.tensors[n].type = Chain!PlainType(b)
  BY SourceTypes
<1>3. b.source = q.source
  BY DEF Altered, TensorAltered, InventoryAltered, MetadataAltered, SameKeys
<1>4. b.fileType # q.fileType
  BY <1>1, <1>2, <1>3, ProfileFacts DEF Chain!Options
<1>5. b.tensors = q.tensors /\ (a.source # "vae" => b.fileType \in {0, 1})
  BY <1>2, <1>4 DEF Altered, TensorAltered, InventoryAltered, MetadataAltered, SameKeys
<1>6. PICK n \in Routed(a.source) :
        n \in DOMAIN a.tensors /\ n \in DOMAIN Chain!Inventory(a.source)
  BY RawFacts
<1>7. q.tensors[n].type = Chain!Planned(a, n, option).type
  BY <1>1, <1>6, TensorFields
<1>8. CASE a.source = "vae"
  <2>1. q.tensors[n].type = "F16"
    BY <1>1, <1>6, <1>7, <1>8, PlannedFacts
  <2>2. Chain!PlainType(b) = "F32"
    BY <1>1, <1>2, <1>3, <1>8 DEF Chain!PlainType
  <2> QED
    BY <1>1, <1>2, <1>5, <1>6, <2>1, <2>2
<1>9. CASE a.source # "vae"
  <2> DEFINE s == a.tensors[n].shape
  <2>1. option \in Chain!Profiles
    BY <1>1, <1>9 DEF Chain!Options
  <2>2. /\ s \in Shapes
        /\ a.source = "flow" => q.tensors[n].type = Chain!FlowType(n, Len(s), option)
        /\ a.source # "flow" => q.tensors[n].type = Chain!LelmType(n, Len(s), option)
    BY <1>1, <1>6, <1>7, <1>9, PlannedFacts
  <2>3. Len(Chain!Inventory(a.source)[n]) = 2
    BY <1>6, <1>9, InventoryFacts DEF Artifacts
  <2>4. Grown(s, Len(Chain!Inventory(a.source)[n]))
    BY <1>6, RawFacts
  <2>5. Grown(s, 2)
    BY <2>3, <2>4
  <2> HIDE DEF s
  <2>6. PICK rank \in 1 .. 4 : rank = Len(s)
    BY <2>2, ShapeFacts
  <2>7. a.source = "flow" => n \in Chain!FlowBlockMatrices
    BY <1>6 DEF Routed, Chain!FlowBlockMatrices
  <2>8. rank \in Nat /\ rank >= 2
    BY <2>5, <2>6 DEF Grown
  <2>9. q.tensors[n].type \in Chain!QuantizedTypes
    BY <2>1, <2>2, <2>6, <2>7, <2>8, RoutedType
  <2> QED
    BY <1>1, <1>2, <1>5, <1>6, <2>9, ProfileFacts
<1> QED
  BY <1>8, <1>9

-----------------------------------------------------------------------------
(* A shape that may have grown, and is the same to ggml, is the same.      *)
LEMMA SameGrown ==
  ASSUME NEW p \in Shapes, NEW v \in Shapes, Grown(p, Len(v)), Chain!SameShape(p, v)
  PROVE  p = v
<1>1. PICK m \in 1 .. 4, k \in 1 .. 4 : m = Len(p) /\ k = Len(v)
  BY ShapeFacts
<1>2. \A i \in 1 .. 4 : Chain!Ne(p, i) = Chain!Ne(v, i)
  BY DEF Chain!SameShape
<1>3. m = k \/ (k < 4 /\ m = k + 1 /\ p[k + 1] = 2)
  BY <1>1 DEF Grown
<1>4. ~(k < 4 /\ m = k + 1 /\ p[k + 1] = 2)
  <2> SUFFICES ASSUME k < 4, m = k + 1, p[k + 1] = 2 PROVE FALSE
    OBVIOUS
  <2>1. PICK i \in 1 .. 4 : i = k + 1
    OBVIOUS
  <2>2. i \in 1 .. Len(p) /\ i > Len(v) /\ p[i] = 2
    BY <1>1, <2>1
  <2>3. Chain!Ne(p, i) = 2 /\ Chain!Ne(v, i) = 1
    BY <2>1, <2>2, ShapeFacts
  <2> QED
    BY <1>2, <2>3
<1>5. m = k /\ p \in Seq(Nat \ {0}) /\ v \in Seq(Nat \ {0})
  BY <1>3, <1>4, ShapeFacts
<1>6. Len(p) = k /\ Len(v) = k
  BY <1>1, <1>5
<1>7. ASSUME NEW i \in 1 .. k
      PROVE  p[i] = v[i]
  <2>1. i \in 1 .. 4
    OBVIOUS
  <2>2. Chain!Ne(p, i) = p[i] /\ Chain!Ne(v, i) = v[i]
    BY <1>6, ShapeFacts
  <2> QED
    BY <1>2, <2>1, <2>2
<1> QED
  BY <1>5, <1>6, <1>7, SeqEqual

LEMMA PaddedGrown ==
  ASSUME NEW s \in Shapes, NEW v \in Shapes, NEW type \in Chain!AllTypes, Grown(s, Len(v))
  PROVE  Grown(PaddedShape(s, type), Len(PaddedShape(v, type)))
<1>1. PICK m \in 1 .. 4, k \in 1 .. 4 : m = Len(s) /\ k = Len(v)
  BY ShapeFacts
<1>2. m = k \/ (k < 4 /\ m = k + 1 /\ s[k + 1] = 2)
  BY <1>1 DEF Grown
<1>3. Len(PaddedShape(s, type)) = m /\ Len(PaddedShape(v, type)) = k
  BY <1>1, PaddedShapeFacts
<1>4. ASSUME k < 4, m = k + 1, s[k + 1] = 2
      PROVE  PaddedShape(s, type)[k + 1] = 2
  <2>1. PICK i \in 2 .. 4 : i = k + 1
    BY <1>4
  <2>2. i \in 2 .. Len(s) /\ s[i] = 2
    BY <1>1, <1>4, <2>1
  <2>3. PaddedShape(s, type)[i] = 2
    BY <2>2, PaddedShapeFacts
  <2> QED
    BY <2>1, <2>3
<1> QED
  BY <1>2, <1>3, <1>4 DEF Grown

(* What loads after quantization had the tensors of its release.           *)
LEMMA NothingHidden ==
  ASSUME NEW a \in Artifacts, Raw(a), NEW option, NEW d, NEW q, Written(a, option, d, q),
         Chain!Loads(q), NEW plain,
         plain = Chain!Converted(a.source, Chain!PlainType(a)).tensors
  PROVE  /\ DOMAIN a.tensors = DOMAIN plain
         /\ \A n \in DOMAIN plain :
              \/ a.tensors[n] = plain[n]
              \/ /\ n \in Chain!FlowBlockMatrices
                 /\ [a.tensors[n] EXCEPT !.shape[1] = Chain!Padded(@, q.tensors[n].type)]
                      = [plain[n] EXCEPT !.shape[1] = Chain!Padded(@, q.tensors[n].type)]
<1>1. /\ q \in Artifacts /\ q.source = a.source /\ option \in Chain!Options
      /\ a.source = "vae" <=> option = "F16"
      /\ DOMAIN q.tensors = DOMAIN a.tensors
      /\ \A n \in DOMAIN a.tensors :
           q.tensors[n] = Chain!Tensor(Chain!Planned(a, n, option).type,
                                       Chain!AsStored(Chain!Planned(a, n, option).shape))
  BY WrittenFields
<1>2. /\ DOMAIN plain = DOMAIN Chain!Inventory(a.source)
      /\ \A n \in DOMAIN plain :
           plain[n] = Chain!Tensor(Chain!PlainType(a), Chain!Inventory(a.source)[n])
  BY DEF Chain!Converted
<1>3. /\ DOMAIN a.tensors = DOMAIN Chain!Inventory(a.source)
      /\ \A n \in DOMAIN a.tensors :
           /\ q.tensors[n].type = Chain!Expected(q, n).type
           /\ Chain!SameShape(q.tensors[n].shape, Chain!Expected(q, n).shape)
  BY <1>1, LoadedTensors
<1>4. ASSUME NEW n \in DOMAIN plain
      PROVE  \/ a.tensors[n] = plain[n]
             \/ /\ n \in Chain!FlowBlockMatrices
                /\ [a.tensors[n] EXCEPT !.shape[1] = Chain!Padded(@, q.tensors[n].type)]
                     = [plain[n] EXCEPT !.shape[1] = Chain!Padded(@, q.tensors[n].type)]
  <2> DEFINE s == a.tensors[n].shape
             v == Chain!Inventory(a.source)[n]
             planned == Chain!Planned(a, n, option)
             e == Chain!Expected(q, n)
             padded == a.source = "flow" /\ n \in Chain!FlowBlockMatrices
  <2>0. n \in DOMAIN a.tensors /\ n \in DOMAIN Chain!Inventory(a.source)
    BY <1>2, <1>3
  <2>1. /\ s \in Shapes /\ planned.type \in Chain!AllTypes /\ planned.shape \in Shapes
        /\ planned.shape = IF padded THEN PaddedShape(s, planned.type) ELSE s
    BY <1>1, <2>0, PlannedFacts
  <2>2. /\ v \in Shapes /\ e.shape \in Shapes
        /\ e.shape = IF padded THEN PaddedShape(v, e.type) ELSE v
    BY <1>1, <2>0, LoadedKeys, ExpectedFacts
  <2>3. /\ q.tensors[n].type = planned.type /\ planned.type = e.type
        /\ Chain!SameShape(Chain!AsStored(planned.shape), e.shape)
    BY <1>1, <1>3, <2>0, TensorFields
  <2>4. Grown(s, Len(v))
    BY <2>0, RawFacts
  <2>5. plain[n] = Chain!Tensor(Chain!PlainType(a), v)
    BY <1>2
  <2>6. a.tensors[n] = Chain!Tensor(Chain!PlainType(a), s)
    <3>1. a.tensors[n] \in StoredTensors
      BY <2>0, TableFacts DEF Artifacts
    <3>2. a.tensors[n].type = Chain!PlainType(a)
      BY <2>0, SourceTypes DEF Written
    <3> QED
      BY <3>1, <3>2, TableFacts
  <2> HIDE DEF s, v, planned, e
  <2>7. Chain!SameShape(planned.shape, e.shape)
    BY <2>1, <2>3, StoredShape DEF Chain!SameShape
  <2>8. CASE ~padded
    <3>1. s = v
      BY <2>1, <2>2, <2>4, <2>7, <2>8, SameGrown
    <3> QED
      BY <3>1, <2>5, <2>6
  <2>9. CASE padded
    <3> DEFINE type == planned.type
    <3>1. /\ PaddedShape(s, type) \in Shapes /\ PaddedShape(v, type) \in Shapes
          /\ Chain!SameShape(PaddedShape(s, type), PaddedShape(v, type))
      BY <2>1, <2>2, <2>3, <2>7, <2>9
    <3>2. Grown(PaddedShape(s, type), Len(PaddedShape(v, type)))
      BY <2>1, <2>2, <2>4, PaddedGrown
    <3>3. PaddedShape(s, type) = PaddedShape(v, type)
      BY <3>1, <3>2, SameGrown
    <3>4. \A shape : [Chain!Tensor(Chain!PlainType(a), shape) EXCEPT
                        !.shape[1] = Chain!Padded(@, type)]
                     = Chain!Tensor(Chain!PlainType(a), PaddedShape(shape, type))
      BY DEF Chain!Tensor, PaddedShape
    <3> QED
      BY <2>3, <2>5, <2>6, <2>9, <3>3, <3>4
  <2> QED
    BY <2>8, <2>9
<1> QED
  BY <1>2, <1>3, <1>4

-----------------------------------------------------------------------------
(* What the graphs need follows from what the loaders check.               *)
LEMMA LoadedRanks ==
  ASSUME NEW a \in Artifacts, Chain!Loads(a), NEW n \in DOMAIN a.tensors
  PROVE  LET shape == Chain!Inventory(a.source)[n]
             t == a.tensors[n]
         IN /\ t.shape \in Shapes /\ t.type \in Chain!AllTypes
            /\ t.shape[1] = Chain!Expected(a, n).shape[1]
            /\ ~(a.source = "flow" /\ n \in Chain!FlowBlockMatrices) =>
                 /\ Chain!SameShape(t.shape, shape)
                 /\ Tight(shape) => Chain!NDims(t.shape) = Len(shape)
<1> DEFINE shape == Chain!Inventory(a.source)[n]
           t == a.tensors[n]
           e == Chain!Expected(a, n)
<1>1. n \in DOMAIN Chain!Inventory(a.source) /\ t \in StoredTensors
      /\ Chain!SameShape(t.shape, e.shape)
  BY LoadedTensors
<1>2. t.shape \in Shapes /\ t.type \in Chain!AllTypes
  BY <1>1, TableFacts
<1>3. /\ shape \in Shapes /\ e.shape \in Shapes
      /\ ~(a.source = "flow" /\ n \in Chain!FlowBlockMatrices) => e.shape = shape
  BY <1>1, LoadedKeys, ExpectedFacts
<1> HIDE DEF shape, t, e
<1>4. t.shape[1] = e.shape[1]
  <2>1. t.shape[1] = Chain!Ne(t.shape, 1) /\ e.shape[1] = Chain!Ne(e.shape, 1)
    BY <1>2, <1>3, ShapeFacts
  <2>2. Chain!Ne(t.shape, 1) = Chain!Ne(e.shape, 1)
    BY <1>1 DEF Chain!SameShape
  <2> QED
    BY <2>1, <2>2
<1>5. ASSUME Chain!SameShape(t.shape, shape), Tight(shape)
      PROVE  Chain!NDims(t.shape) = Len(shape)
  BY <1>2, <1>3, <1>5, SameShapeFacts, TightRank
<1>6. /\ t.shape \in Shapes /\ t.type \in Chain!AllTypes
      /\ t.shape[1] = e.shape[1]
      /\ ~(a.source = "flow" /\ n \in Chain!FlowBlockMatrices) =>
           /\ Chain!SameShape(t.shape, shape)
           /\ Tight(shape) => Chain!NDims(t.shape) = Len(shape)
  BY <1>1, <1>2, <1>3, <1>4, <1>5
<1> QED
  BY <1>6 DEF shape, t, e

(* A loaded language model: plain types, or the routing of a profile.      *)
LEMMA LmLoadedComputes ==
  ASSUME NEW a \in Artifacts, a.source \in {"medium", "large"}, Chain!Loads(a)
  PROVE  Chain!LmComputes(a)
<1>1. /\ Chain!Inventory(a.source) = Chain!LmInventory(a.source)
      /\ DOMAIN a.tensors = DOMAIN Chain!LmInventory(a.source)
      /\ DOMAIN Chain!LmInventory(a.source) = Chain!LmNames
  BY InventoryFacts, LmInventoryFacts, LoadedTensors DEF Artifacts
<1>2. ASSUME NEW n \in DOMAIN Chain!LmInventory(a.source)
      PROVE  LET shape == Chain!LmInventory(a.source)[n]
             IN /\ n # "cond.prompt_eot" => Chain!NDims(a.tensors[n].shape) = Len(shape)
                /\ Chain!SameShape(a.tensors[n].shape, shape)
                /\ Len(shape) < 2 => a.tensors[n].type \in {"F32", "F16"}
  <2> DEFINE shape == Chain!LmInventory(a.source)[n]
  <2>1. n # "cond.prompt_eot" => Tight(shape)
    BY <1>1, LmInventoryFacts
  <2>2. /\ Chain!SameShape(a.tensors[n].shape, shape)
        /\ Tight(shape) => Chain!NDims(a.tensors[n].shape) = Len(shape)
    BY <1>1, LoadedRanks
  <2>3. ASSUME Len(shape) < 2
        PROVE  a.tensors[n].type \in {"F32", "F16"}
    <3>1. PICK rank \in Nat : rank = Len(shape) /\ rank < 2
      <4>1. Len(shape) \in 1 .. 4
        BY <1>1, InventoryFacts, ShapeFacts DEF Artifacts
      <4> QED
        BY <2>3, <4>1
    <3>2. CASE a.quant.profile \in Chain!Profiles
      <4>1. Chain!Expected(a, n).type = Chain!LelmType(n, rank, a.quant.profile)
        BY <1>1, <3>1, <3>2, LoadedKeys, ExpectedFacts
      <4>2. Chain!LelmType(n, rank, a.quant.profile) = "F32"
        BY <3>1, <3>2, RoutedType
      <4> QED
        BY <1>1, <4>1, <4>2, LoadedTensors
    <3>3. CASE a.quant.profile = "absent"
      <4>1. Chain!Expected(a, n).type = Chain!PlainType(a)
        BY <1>1, <3>3, LoadedKeys, ExpectedFacts
      <4> QED
        BY <1>1, <4>1, LoadedTensors DEF Chain!PlainType
    <3> QED
      BY <3>2, <3>3, LoadedKeys DEF Keyed
  <2> QED
    BY <2>1, <2>2, <2>3
<1> QED
  BY <1>2 DEF Chain!LmComputes

LEMMA FlowLoadedComputes ==
  ASSUME NEW a \in Artifacts, a.source = "flow", Chain!Loads(a), a.fileType # 1
  PROVE  Chain!FlowComputes(a)
<1>1. /\ Chain!Inventory(a.source) = Chain!FlowInventory
      /\ DOMAIN a.tensors = DOMAIN Chain!FlowInventory
      /\ DOMAIN Chain!FlowInventory = Chain!FlowNames
  BY InventoryFacts, FlowInventoryFacts, LoadedTensors DEF Artifacts
<1>2. \/ Chain!QuantizationParses(a) /\ a.quant.profile \in Chain!Profiles
      \/ Chain!Unquantized(a) /\ a.quant.profile = "absent"
  BY LoadedKeys
<1>3. ASSUME NEW n \in Chain!FlowNames
      PROVE  /\ a.tensors[n].type \in {"F32"} \cup
                  IF n \in Chain!FlowBlockMatrices THEN Chain!QuantizedTypes ELSE {}
             /\ a.tensors[n].shape[1] =
                  IF n \in Chain!FlowBlockMatrices
                  THEN Chain!Padded(Chain!FlowInventory[n][1], a.tensors[n].type)
                  ELSE Chain!FlowInventory[n][1]
  <2> DEFINE e == Chain!Expected(a, n)
             shape == Chain!FlowInventory[n]
  <2>1. /\ a.tensors[n].type = e.type
        /\ a.tensors[n].shape[1] = e.shape[1]
    BY <1>1, LoadedTensors, LoadedRanks
  <2>2. /\ shape \in Shapes /\ Len(shape) \in 1 .. 4 /\ e.type \in Chain!AllTypes
        /\ a.quant.profile = "absent" => e.type = Chain!PlainType(a)
        /\ a.quant.profile \in Chain!Profiles =>
             e.type = Chain!FlowType(n, Len(shape), a.quant.profile)
        /\ e.shape = IF n \in Chain!FlowBlockMatrices THEN PaddedShape(shape, e.type) ELSE shape
    BY <1>1, LoadedKeys, ExpectedFacts
  <2> HIDE DEF e, shape
  <2>3. e.type \in {"F32"} \cup
          IF n \in Chain!FlowBlockMatrices THEN Chain!QuantizedTypes ELSE {}
    <3>1. CASE a.quant.profile \in Chain!Profiles
      <4>1. PICK rank \in 1 .. 4 : rank = Len(shape)
        BY <2>2
      <4>0. rank \in Nat
        OBVIOUS
      <4>2. e.type = Chain!FlowType(n, rank, a.quant.profile)
        BY <2>2, <3>1, <4>1
      <4>3. CASE n \in Chain!FlowBlockMatrices
        <5>1. Chain!FlowType(n, rank, a.quant.profile) \in Chain!QuantizedTypes \cup {"F32"}
          BY <3>1, <4>0, RoutedType
        <5> QED
          BY <4>2, <4>3, <5>1
      <4>4. CASE n \notin Chain!FlowBlockMatrices
        <5>1. Chain!FlowType(n, rank, a.quant.profile) = "F32"
          BY <3>1, <4>0, <4>4, RoutedType
        <5> QED
          BY <4>2, <5>1
      <4> QED
        BY <4>3, <4>4
    <3>2. CASE Chain!Unquantized(a) /\ a.quant.profile = "absent"
      <4>1. a.fileType = 0
        BY <3>2 DEF Chain!Unquantized
      <4> QED
        BY <2>2, <3>2, <4>1 DEF Chain!PlainType
    <3> QED
      BY <1>2, <3>1, <3>2
  <2>4. PaddedShape(shape, e.type)[1] = Chain!Padded(shape[1], e.type)
    BY <2>2, PaddedShapeFacts
  <2> QED
    BY <2>1, <2>2, <2>3, <2>4 DEF shape
<1>4. ASSUME NEW n \in Chain!FlowConditioning
      PROVE  Chain!NDims(a.tensors[n].shape) = Len(Chain!FlowInventory[n])
  BY <1>1, FlowInventoryFacts, LoadedRanks
<1>5. ASSUME NEW n \in Chain!FlowNames
      PROVE  Chain!Affine(a, n)
  <2>1. Chain!FlowInventory[n][1] \in Nat \ {0}
    BY FlowInventoryFacts, ShapeFacts
  <2>2. PICK type \in Chain!AllTypes : type = a.tensors[n].type
    BY <1>1, LoadedRanks
  <2>3. /\ Chain!Padded(Chain!FlowInventory[n][1], type) \in Nat
        /\ Chain!Padded(Chain!FlowInventory[n][1], type) >= Chain!FlowInventory[n][1]
        /\ type \notin Chain!QuantizedTypes =>
             Chain!Padded(Chain!FlowInventory[n][1], type) = Chain!FlowInventory[n][1]
    BY <2>1, PaddingFacts
  <2> QED
    BY <1>3, <2>1, <2>2, <2>3 DEF Chain!Affine
<1>6. {"time_embedding.linear_1.weight", "time_embedding.linear_2.weight",
       "time_modulation.weight", "output.weight"} \subseteq Chain!FlowNames
  BY SMT DEF Chain!FlowNames, Chain!FlowSquares
<1> QED
  BY <1>1, <1>3, <1>4, <1>5, <1>6, FlowInventoryFacts DEF Chain!FlowComputes

LEMMA LoadedModelsCompute ==
  ASSUME NEW a \in Artifacts, Chain!Loads(a), ~(a.source = "flow" /\ a.fileType = 1)
  PROVE  Chain!Computes(a)
<1>1. CASE a.source = "flow"
  BY <1>1, FlowLoadedComputes DEF Chain!Computes
<1>2. CASE a.source = "vae"
  <2>1. ASSUME NEW n \in DOMAIN Chain!VaeInventory
        PROVE  a.tensors[n].type \in {"F32", "F16"}
    <3>1. n \in DOMAIN Chain!Inventory(a.source) /\ n \in DOMAIN a.tensors
      BY <1>2, InventoryFacts, LoadedTensors DEF Artifacts
    <3>2. Chain!Expected(a, n).type = Chain!PlainType(a)
      BY <1>2, <3>1, LoadedKeys, ExpectedFacts
    <3> QED
      BY <3>1, <3>2, LoadedTensors DEF Chain!PlainType
  <2> QED
    BY <1>2, <2>1 DEF Chain!Computes, Chain!VaeComputes
<1>3. CASE a.source \notin {"flow", "vae"}
  <2>1. a.source \in {"medium", "large"}
    BY <1>3, InventoryFacts DEF Artifacts
  <2> QED
    BY <1>3, <2>1, LmLoadedComputes DEF Chain!Computes
<1> QED
  BY <1>1, <1>2, <1>3

-----------------------------------------------------------------------------
(* An artifact's last two steps: what the quantizer is given is converted, *)
(* or altered once since, because it takes nothing that comes from itself. *)
WrittenFromRaw(q) ==
  \E a \in Artifacts : Raw(a) /\ \E option, d : Written(a, option, d, q)

ChainInv ==
  /\ artifact \in Artifacts /\ parent \in Artifacts /\ made \in Chain!Digests
  /\ made = "converted" => IsPlain(artifact)
  /\ made = "quantized" => Raw(parent) /\ \E option, d : Written(parent, option, d, artifact)
  /\ made = "altered" => /\ Altered(parent, artifact)
                         /\ IsPlain(parent) \/ WrittenFromRaw(parent)

LEMMA AlteredAreRefused ==
  ASSUME NEW a \in Artifacts, NEW b \in Artifacts, Altered(a, b), Chain!Loads(a)
  PROVE  ~Chain!Loads(b)
BY AlteredTensorsAreRefused, AlteredKeysAreRefused DEF Altered

(* The quantizer writes.                                                   *)
LEMMA ChainQuantizes ==
  ASSUME ChainInv, NEW option \in Chain!Options, Chain!Quantize(option)
  PROVE  ChainInv'
<1>1. /\ Chain!Quantizable(artifact, option)
      /\ artifact' = Chain!QuantizedFrom(artifact, option, made)
      /\ parent' = artifact /\ made' = "quantized"
  BY DEF Chain!Quantize, Chain!Becomes
<1>2. /\ artifact \in Artifacts /\ parent \in Artifacts
      /\ made \in {"converted", "quantized", "altered"}
  BY DEF ChainInv, Chain!Digests
<1>3. Written(artifact, option, made, artifact')
  BY <1>1 DEF ChainInv, Written
<1>4. Raw(artifact)
  <2>1. CASE made = "converted"
    BY <2>1 DEF ChainInv, Raw
  <2>2. CASE made = "quantized"
    <3>1. PICK o, d : Written(parent, o, d, artifact)
      BY <2>2 DEF ChainInv
    <3> QED
      BY <1>1, <1>2, <3>1, WrittenIsNoSource
  <2>3. CASE made = "altered"
    <3>1. Altered(parent, artifact) /\ (IsPlain(parent) \/ WrittenFromRaw(parent))
      BY <2>3 DEF ChainInv
    <3>2. CASE IsPlain(parent)
      BY <3>1, <3>2 DEF Raw
    <3>3. CASE WrittenFromRaw(parent)
      <4>1. PICK a \in Artifacts : Raw(a) /\ \E o, d : Written(a, o, d, parent)
        BY <3>3 DEF WrittenFromRaw
      <4>2. PICK o, d : Written(a, o, d, parent)
        BY <4>1
      <4> QED
        BY <1>1, <1>2, <3>1, <4>1, <4>2, AlteredWrittenIsNoSource
    <3> QED
      BY <3>1, <3>2, <3>3
  <2> QED
    BY <1>2, <2>1, <2>2, <2>3
<1>5. artifact' \in Artifacts
  BY <1>2, <1>3, WrittenFields
<1>6. "quantized" \in Chain!Digests
  BY DEF Chain!Digests
<1>7. Raw(parent') /\ \E o, d : Written(parent', o, d, artifact')
  BY <1>1, <1>3, <1>4
<1> QED
  BY <1>1, <1>2, <1>5, <1>6, <1>7 DEF ChainInv

(* Something alters one place.                                             *)
LEMMA ChainAlters ==
  ASSUME ChainInv, made # "altered",
         Chain!AlterTensor \/ Chain!AlterInventory \/ Chain!AlterMetadata
  PROVE  ChainInv'
<1>1. artifact \in Artifacts /\ made \in {"converted", "quantized"}
  BY DEF ChainInv, Chain!Digests
<1>2. artifact' \in Artifacts /\ Altered(artifact, artifact')
  BY <1>1, AlterTensorStep, AlterInventoryStep, AlterMetadataStep DEF Altered
<1>3. parent' = artifact /\ made' = "altered"
  <2>1. \A next : Chain!Becomes(next, "altered") => parent' = artifact /\ made' = "altered"
    BY DEF Chain!Becomes
  <2>2. CASE Chain!AlterTensor
    BY <2>1, <2>2, Zenon DEF Chain!AlterTensor
  <2>3. CASE Chain!AlterInventory
    BY <2>1, <2>3, Zenon DEF Chain!AlterInventory
  <2>4. CASE Chain!AlterMetadata
    BY <2>1, <2>4, Zenon DEF Chain!AlterMetadata
  <2> QED
    BY <2>2, <2>3, <2>4
<1>4. IsPlain(artifact) \/ WrittenFromRaw(artifact)
  <2>1. CASE made = "converted"
    BY <2>1 DEF ChainInv
  <2>2. CASE made = "quantized"
    BY <2>2 DEF ChainInv, WrittenFromRaw
  <2> QED
    BY <1>1, <2>1, <2>2
<1>5. "altered" \in Chain!Digests
  BY DEF Chain!Digests
<1> QED
  BY <1>1, <1>2, <1>3, <1>4, <1>5 DEF ChainInv

LEMMA ChainNext ==
  ASSUME ChainInv, [FilesNext]_<<subject, vars, others>>
  PROVE  ChainInv'
<1>1. CASE ProcessArtifact
  BY <1>1, ChainQuantizes, ChainAlters DEF ProcessArtifact, Chain!Next
<1>2. CASE UNCHANGED chainVars
  BY <1>2 DEF chainVars, ChainInv
<1>3. ProcessArtifact \/ UNCHANGED chainVars
  BY DEF FilesNext, Publish, RunQuantizer, WritePair, Stop, others
<1> QED
  BY <1>1, <1>2, <1>3

(* Every release has an artifact to start from.                            *)
LEMMA ChainStart == Chain!Init => ChainInv
<1> SUFFICES ASSUME Chain!Init PROVE ChainInv
  OBVIOUS
<1>1. PICK source \in Sources, type \in {"F32", "F16"} :
        (source = "vae" => type = "F32") /\ artifact = Chain!Converted(source, type)
  BY DEF Chain!Init
<1>2. Plain(artifact, source, type)
  BY <1>1, FilesAssumption DEF Plain
<1>3. artifact \in Artifacts /\ IsPlain(artifact)
  BY <1>2, PlainFields DEF IsPlain
<1>4. parent = artifact /\ made = "converted"
  BY DEF Chain!Init
<1> QED
  BY <1>3, <1>4 DEF ChainInv, Chain!Digests

LEMMA ChainAgrees ==
  ASSUME ChainInv
  PROVE  ArtifactsAgree
<1>1. artifact \in Artifacts /\ parent \in Artifacts
  BY DEF ChainInv
<1>2. Chain!AlteredIsRefused
  BY <1>1, AlteredAreRefused DEF ChainInv, Chain!AlteredIsRefused
<1>3. Chain!LoadedComputes
  BY <1>1, LoadedModelsCompute DEF Chain!LoadedComputes
<1>4. ASSUME made = "quantized"
      PROVE  /\ Chain!Loads(parent) => Chain!Loads(artifact)
             /\ \A o \in Chain!Options : ~Chain!Quantizable(artifact, o)
             /\ Chain!NothingIsLaundered
  <2>1. PICK option, d : Written(parent, option, d, artifact) /\ Raw(parent)
    BY <1>4 DEF ChainInv
  <2>2. ASSUME Chain!Loads(parent)
        PROVE  Chain!Loads(artifact)
    <3>1. CASE IsPlain(parent)
      BY <2>1, <3>1, WrittenLoads DEF IsPlain
    <3>2. CASE \E c : IsPlain(c) /\ Altered(c, parent)
      <4>1. PICK c, source, type : Plain(c, source, type) /\ Altered(c, parent)
        BY <3>2 DEF IsPlain
      <4>2. c \in Artifacts /\ Chain!Loads(c)
        BY <4>1, PlainFields, PlainLoads
      <4> QED
        BY <1>1, <2>2, <4>1, <4>2, AlteredAreRefused
    <3> QED
      BY <2>1, <3>1, <3>2 DEF Raw
  <2>3. \A o \in Chain!Options : ~Chain!Quantizable(artifact, o)
    BY <1>1, <2>1, WrittenIsNoSource
  <2>4. ASSUME Chain!Loads(artifact)
        PROVE  LET plain == Chain!Converted(parent.source, Chain!PlainType(parent)).tensors
               IN /\ DOMAIN parent.tensors = DOMAIN plain
                  /\ \A n \in DOMAIN plain :
                       \/ parent.tensors[n] = plain[n]
                       \/ /\ n \in Chain!FlowBlockMatrices
                          /\ [parent.tensors[n] EXCEPT
                                !.shape[1] = Chain!Padded(@, artifact.tensors[n].type)]
                               = [plain[n] EXCEPT
                                    !.shape[1] = Chain!Padded(@, artifact.tensors[n].type)]
    BY <1>1, <2>1, <2>4, NothingHidden
  <2>5. Chain!NothingIsLaundered
    BY Zenon, <2>4 DEF Chain!NothingIsLaundered
  <2> QED
    BY <2>2, <2>3, <2>5
<1>5. Chain!QuantizedLoads /\ Chain!ConvertedOnce /\ Chain!NothingIsLaundered
  <2>1. CASE made = "quantized"
    BY <1>4, <2>1 DEF Chain!QuantizedLoads, Chain!ConvertedOnce
  <2>2. CASE made # "quantized"
    BY Zenon, <2>2 DEF Chain!QuantizedLoads, Chain!ConvertedOnce, Chain!NothingIsLaundered
  <2> QED
    BY <2>1, <2>2
<1> QED
  BY <1>2, <1>3, <1>5 DEF ArtifactsAgree

(* For any releases and any number of conversions, quantizations and       *)
(* alterations: what the converter and the quantizer write loads, and is   *)
(* quantized once; no defect of a source disappears; an artifact altered   *)
(* in one place does not load; and what loads, computes.                   *)
(* (levo-quantize.cpp, levo-model.cpp, levo-flow-model.cpp,                *)
(* levo-vae-model.cpp)                                                     *)
THEOREM ArtifactsAlwaysAgree == FilesSpec => []ArtifactsAgree
<1>1. FilesInit => ChainInv
  BY ChainStart DEF FilesInit
<1> QED
  BY <1>1, ChainNext, ChainAgrees, PTL DEF FilesSpec
=============================================================================
