------------------------- MODULE CheckpointEnvelope -------------------------
(***************************************************************************)
(* The envelope of the resume blobs (levo-checkpoint.cpp): encode, what a  *)
(* disk or another writer makes of the blob, and the strict decoder.       *)
(* A header field is a number, a byte of payload a letter, and the SHA-256 *)
(* a record of everything it covers.  Machine words wrap at Word.          *)
(***************************************************************************)
EXTENDS Integers, Sequences, SequencesExt, FiniteSets

CONSTANTS Word,            (* 2^64                                         *)
          FixedHeader,     (* fixed_header_bytes                           *)
          Entry,           (* section_entry_bytes                          *)
          MaxBlob,         (* max_blob_bytes                               *)
          MaxSections, MaxSection   (* bounds on what is encoded           *)

(* std::sort of libstdc++ inserts up to here, and so keeps equal elements  *)
(* in their order; of more ranges it promises none.  No stage saves more   *)
(* than six sections.                                                      *)
InsertionSorted == 16

EnvelopeAssumption ==
  /\ MaxSections <= InsertionSorted
  /\ {Word, FixedHeader, Entry, MaxBlob, MaxSections, MaxSection} \subseteq Nat \ {0}
  /\ FixedHeader + MaxSections * Entry < MaxBlob /\ MaxBlob < Word

VARIABLES sections,   (* what the stage saves                              *)
          blob,       (* the bytes, as fields                              *)
          origin,     (* "none", "encoded", "damaged" or "other writer" *)
          decoded     (* what decode made of the blob                      *)

vars == <<sections, blob, origin, decoded>>

Outcome(status, list) == [status |-> status, sections |-> list]
Pending == Outcome("pending", <<>>)
Rejected == Outcome("rejected", <<>>)
Undefined == Outcome("undefined", <<>>)

Overflow == -1
Wrapping(lhs, rhs) == (lhs + rhs) % Word
CheckedAdd(lhs, rhs) == IF rhs > Word - 1 - lhs THEN Overflow ELSE lhs + rhs

Concatenated(list) == FlattenSeq([i \in 1 .. Len(list) |-> list[i].bytes])
HeaderBytes(count) == FixedHeader + count * Entry
TotalBytes(list) == HeaderBytes(Len(list)) + Len(Concatenated(list))

(* Sections follow each other in the order of the directory.               *)
OffsetOf(list, i) == HeaderBytes(Len(list)) + Len(Concatenated(SubSeq(list, 1, i - 1)))

encode(magic, list) ==
  LET fields ==
        [magic |-> magic, version |-> 1, stage |-> 1, count |-> Len(list),
         header |-> HeaderBytes(Len(list)), total |-> TotalBytes(list),
         directory |-> [i \in 1 .. Len(list) |->
           [kind |-> list[i].kind, offset |-> OffsetOf(list, i),
            count |-> Len(list[i].bytes)]],
         payload |-> Concatenated(list)]
  IN [fields |-> fields, digest |-> fields]

(* The bytes a caller hands over, and those of a range of them.            *)
Size(b) == HeaderBytes(Len(b.fields.directory)) + Len(b.fields.payload)
BytesAt(b, from, to) ==
  LET header == HeaderBytes(Len(b.fields.directory))
  IN SubSeq(b.fields.payload, from - header + 1, to - header)

(* The directory is ordered by begin only, equal ones as they were.        *)
LastFirst(lhs, rhs) == lhs.begin < rhs.begin \/ (lhs.begin = rhs.begin /\ lhs.at > rhs.at)
SortsBefore(lhs, rhs) == lhs.begin < rhs.begin \/ (lhs.begin = rhs.begin /\ lhs.at < rhs.at)
RangeAt(b, i) ==
  LET e == b.fields.directory[i]
  IN [begin |-> e.offset, end |-> CheckedAdd(e.offset, e.count), at |-> i]
Preceding(b, i) ==
  {j \in DOMAIN b.fields.directory : SortsBefore(RangeAt(b, j), RangeAt(b, i))}
Ranges(b) ==
  [k \in DOMAIN b.fields.directory |->
     RangeAt(b, CHOOSE i \in DOMAIN b.fields.directory : Cardinality(Preceding(b, i)) = k - 1)]

NeighboursOverlap(r, i) == r[i - 1].end > r[i].begin
Overlap(b) == \E i \in 2 .. Len(Ranges(b)) : NeighboursOverlap(Ranges(b), i)

HeaderAccepted(b, magic) ==
  /\ Size(b) <= MaxBlob /\ b.fields.magic = magic
  /\ b.fields.version = 1 /\ b.fields.stage # 0
  /\ b.fields.header = HeaderBytes(b.fields.count)
  /\ b.fields.total = Size(b) /\ b.fields.total >= b.fields.header

HeaderOnlyDigest(b) ==
  b.digest.directory = b.fields.directory /\ b.digest.total = b.fields.total
DigestMatches(b) == b.digest = b.fields

InRange(b, e) ==
  /\ e.kind # 0 /\ e.offset >= b.fields.header
  /\ CheckedAdd(e.offset, e.count) \in 0 .. b.fields.total

Accepted(b, magic) ==
  /\ HeaderAccepted(b, magic) /\ DigestMatches(b)
  /\ \A i \in DOMAIN b.fields.directory : InRange(b, b.fields.directory[i])
  /\ ~Overlap(b)

(* The loop over neighbours runs until its index, one at first, is the     *)
(* number of ranges: past the end when there are none.                     *)
decode(b, magic) ==
  IF ~Accepted(b, magic) THEN Rejected
  ELSE IF b.fields.directory = <<>> THEN Undefined
  ELSE Outcome("accepted",
         [i \in DOMAIN b.fields.directory |->
            LET e == b.fields.directory[i]
            IN [kind |-> e.kind, bytes |-> BytesAt(b, e.offset, CheckedAdd(e.offset, e.count))]])

-----------------------------------------------------------------------------
Init == sections = <<>> /\ blob = <<>> /\ origin = "none" /\ decoded = Pending

(* A stage adds a section; a paused Flow with no finished window has an    *)
(* empty one.                                                              *)
Letters == {"x", "y"}
AddSection ==
  /\ origin = "none" /\ Len(sections) < MaxSections
  /\ \E size \in 0 .. MaxSection, letter \in Letters :
       sections' = Append(sections, [kind |-> Len(sections) + 1,
                                     bytes |-> [i \in 1 .. size |-> letter]])
  /\ UNCHANGED <<blob, origin, decoded>>

(* Every stage saves its request at least.                                 *)
EncodeAny ==
  /\ origin = "none" /\ TotalBytes(sections) <= MaxBlob
  /\ blob' = encode("LEVOLM02", sections) /\ origin' = "encoded"
  /\ UNCHANGED <<sections, decoded>>
Encode ==
  /\ sections # <<>> /\ origin = "none" /\ TotalBytes(sections) <= MaxBlob
  /\ blob' = encode("LEVOLM02", sections) /\ origin' = "encoded"
  /\ UNCHANGED <<sections, decoded>>

(* The payload under a directory that leaves sections out, or has one      *)
(* twice.                                                                  *)
Directories(f) ==
  {SubSeq(f.directory, 1, n) : n \in 1 .. Len(f.directory)}
  \cup {Append(f.directory, f.directory[i]) :
          i \in {j \in DOMAIN f.directory : Len(f.directory) < MaxSections}}
Recounted(f, d) ==
  [f EXCEPT !.directory = d, !.count = Len(d), !.header = HeaderBytes(Len(d)),
            !.total = HeaderBytes(Len(d)) + Len(f.payload)]

Words == 0 .. MaxBlob \cup {Word - 1, Word - FixedHeader}
FieldChanges(f) ==
  {[f EXCEPT !.magic = "LEVOFL02"], [f EXCEPT !.version = 0], [f EXCEPT !.stage = 0],
   [f EXCEPT !.payload = Append(@, "x")]}
  \cup {[f EXCEPT !.total = n] : n \in Words} \cup {[f EXCEPT !.header = n] : n \in Words}
  \cup {[f EXCEPT !.payload = SubSeq(@, 1, n)] : n \in 0 .. Len(f.payload)}
  \cup {[f EXCEPT !.payload[i] = "z"] : i \in DOMAIN f.payload}
  \cup {[f EXCEPT !.directory[i].offset = n] : i \in DOMAIN f.directory, n \in Words}
  \cup {[f EXCEPT !.directory[i].count = n] : i \in DOMAIN f.directory, n \in Words}
  \cup {[f EXCEPT !.directory[i].kind = 0] : i \in DOMAIN f.directory}
  \cup {Recounted(f, d) : d \in Directories(f)}
Miscounts(f) == {[f EXCEPT !.count = n] : n \in 0 .. MaxSections + 1}

(* Truncation, bytes at the end or a changed value: the digest stays.      *)
Damage ==
  /\ origin = "encoded" /\ decoded = Pending
  /\ \E f \in (FieldChanges(blob.fields) \cup Miscounts(blob.fields)) \ {blob.fields} :
       blob' = [blob EXCEPT !.fields = f]
  /\ origin' = "damaged" /\ UNCHANGED <<sections, decoded>>

(* Another writer lays the sections out in its own way, as few of them as  *)
(* it likes, and its digest agrees.                                        *)
OtherWriter ==
  /\ origin = "encoded" /\ decoded = Pending
  /\ \E f \in FieldChanges(blob.fields) : \E g \in FieldChanges(f) :
       blob' = [fields |-> g, digest |-> g]
  /\ origin' = "other writer" /\ UNCHANGED <<sections, decoded>>

Decode ==
  /\ origin # "none" /\ decoded = Pending
  /\ decoded' = decode(blob, "LEVOLM02")
  /\ UNCHANGED <<sections, blob, origin>>

Next == AddSection \/ Encode \/ Damage \/ OtherWriter \/ Decode

Spec == Init /\ [][Next]_vars

-----------------------------------------------------------------------------
(* What was saved comes back, empty sections included: two of them, or one *)
(* and the next, share an offset.                                          *)
SavedComesBack ==
  origin = "encoded" /\ decoded # Pending => decoded = Outcome("accepted", sections)

(* No damage on disk reaches a resumed stage.                              *)
DamageIsNoticed == origin = "damaged" /\ decoded # Pending => decoded = Rejected

(* Whoever wrote an accepted blob, its sections have the sizes they claim, *)
(* lie inside the payload and share no byte.                               *)
Span(e) == {e.offset + k : k \in 0 .. e.count - 1}
SectionsAreSeparate ==
  decoded.status = "accepted" =>
    LET d == blob.fields.directory
    IN /\ \A i \in DOMAIN d : Len(decoded.sections[i].bytes) = d[i].count
       /\ \A i, j \in DOMAIN d : i # j => Span(d[i]) \cap Span(d[j]) = {}
=============================================================================
