------------------------------ MODULE FormatsMC -----------------------------
(***************************************************************************)
(* The three formats of a song on its way: the request documents, the      *)
(* envelope of a checkpoint blob, and the digest of what both refer to.    *)
(* A behaviour is of one of them, its format; the others rest in their     *)
(* initial state.                                                          *)
(***************************************************************************)
EXTENDS Integers

CONSTANTS MaxFields, MaxBytes, MaxFrames, CodeBytes, MaxTemperature, MaxFloat, MaxU64,
          Word, FixedHeader, Entry, MaxBlob, MaxSections, MaxSection,
          MaxLength, CountRange, Pieces

VARIABLES
  format,
  doc, phase, written, first, read, edited,
  sections, blob, origin, decoded,
  fed, bits, original, pending, block, hashed, stage

Request == INSTANCE EngineRequest
Envelope == INSTANCE CheckpointEnvelope
Digest == INSTANCE DigestStream

ASSUME FormatsAssumption ==
  Request!RequestAssumption /\ Envelope!EnvelopeAssumption /\ Digest!DigestAssumption

requestVars == <<doc, phase, written, first, read, edited>>
envelopeVars == <<sections, blob, origin, decoded>>
digestVars == <<fed, bits, original, pending, block, hashed, stage>>

FormatsInit ==
  /\ format \in {"request", "envelope", "digest"}
  /\ Request!Init /\ Envelope!Init /\ Digest!Init

FormatsNext ==
  \/ format = "request" /\ Request!Next /\ UNCHANGED <<format, envelopeVars, digestVars>>
  \/ format = "envelope" /\ Envelope!Next /\ UNCHANGED <<format, requestVars, digestVars>>
  \/ format = "digest" /\ Digest!Next /\ UNCHANGED <<format, requestVars, envelopeVars>>

FormatsSpec == FormatsInit /\ [][FormatsNext]_<<format, requestVars, envelopeVars, digestVars>>

-----------------------------------------------------------------------------
(* A request means the same in every document made of it: what of its own  *)
(* documents the engine reads has the settings CODES first took, what it   *)
(* does not read is named, and what was edited in between is refused.      *)
RequestsKeepTheirMeaning ==
  Request!SettingsSurvive /\ Request!WrittenIsReadable /\ Request!EditedIsRefused

(* The decoder of a blob gives back what was saved, refuses any damage,    *)
(* and finds sections that share no byte whoever wrote them.               *)
OnlySavedBlobsRead ==
  format = "envelope" =>
    Envelope!SavedComesBack /\ Envelope!DamageIsNoticed /\ Envelope!SectionsAreSeparate

(* Digests are SHA-256 of the message at every length and cut, and end.    *)
DigestIsStandard ==
  format = "digest" => Digest!DigestIsStandard /\ Digest!DigestEnds
=============================================================================
