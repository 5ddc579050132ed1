------------------------------- MODULE FilesMC ------------------------------
(***************************************************************************)
(* Where the program and its tools leave files for others: the publisher,  *)
(* the quantizer, the writers of a payload with its manifest, and the      *)
(* artifacts between converter, quantizer and loader.  They share no       *)
(* state: a behaviour is of one of them, its subject, and the others rest  *)
(* in an initial state.                                                    *)
(***************************************************************************)
EXTENDS Publisher

CONSTANTS Runs, Tensors, Concurrent, NoFile,    (* Quantizer                *)
          MaxCalls,                             (* ArtifactPair             *)
          Sources, MaxSteps                     (* ArtifactChain            *)

VARIABLES
  subject,
  path, data, tool, handle, tensor, digest,
  writer, target, temporary, step, staged, call, committed, outcome, spoiled,
  artifact, parent, made, steps

Quantizer == INSTANCE Quantizer WITH pc <- tool, None <- NoFile
Pair == INSTANCE ArtifactPair WITH file <- staged
Chain == INSTANCE ArtifactChain

(* No file is no file of a run; the releases are those with an inventory.  *)
ASSUME FilesAssumption ==
  /\ Tensors \in Nat /\ MaxCalls \in Nat
  /\ NoFile \notin Quantizer!Files
  /\ Sources \subseteq DOMAIN Chain!Architecture

quantizerVars == <<path, data, tool, handle, tensor, digest>>
pairVars == <<writer, target, temporary, step, staged, call, committed, outcome, spoiled>>
chainVars == <<artifact, parent, made, steps>>
others == <<quantizerVars, pairVars, chainVars>>

FilesInit ==
  /\ subject \in {"publisher", "quantizer", "pair", "chain"}
  /\ Init /\ Quantizer!Init /\ Pair!Init /\ Chain!Init
  /\ subject = "publisher" \/ /\ release = [p \in Publishers |-> CHOOSE r \in Releases : TRUE]
                              /\ bucket = [c \in Components |-> NoObject]
  /\ subject = "pair" \/ writer = "tokens"
  /\ subject = "chain" \/ artifact = Chain!Converted("vae", "F32")

Publish ==
  subject = "publisher" /\ Next /\ UNCHANGED <<subject, others>>
RunQuantizer ==
  subject = "quantizer" /\ Quantizer!Next /\ UNCHANGED <<subject, vars, pairVars, chainVars>>
WritePair ==
  subject = "pair" /\ Pair!Next /\ UNCHANGED <<subject, vars, quantizerVars, chainVars>>
ProcessArtifact ==
  subject = "chain" /\ Chain!Next /\ UNCHANGED <<subject, vars, quantizerVars, pairVars>>

(* Publishers may not all end up waiting; the others may stop.             *)
Stop == subject # "publisher" /\ UNCHANGED <<subject, vars, others>>

FilesNext == Publish \/ RunQuantizer \/ WritePair \/ ProcessArtifact \/ Stop

FilesSpec == FilesInit /\ [][FilesNext]_<<subject, vars, others>>

-----------------------------------------------------------------------------
(* Files under the final names of the quantizer are whole and belong       *)
(* together, whatever was interrupted or removed.                          *)
InstalledFilesAgree ==
  subject = "quantizer" => Quantizer!InstalledIsWhole /\ Quantizer!SidecarsDescribe

(* Nothing the quantizer installed changes until the user removes it       *)
(* ("quantized artifacts are never overwritten", levo-quantize.cpp).       *)
NeverOverwritten == Quantizer!NeverOverwritten

(* A payload and its manifest: no torn file under a final name, a known    *)
(* older side after an interruption, and a matching pair after a return.   *)
PairsAgree ==
  subject = "pair" =>
    Pair!TargetsAreWhole /\ Pair!OlderSideIsKnown /\ Pair!ReturnedPairsMatch

(* Quantizer, loaders and graph builders agree on every artifact: what    *)
(* one writes the next accepts, once and without hiding a defect, and any  *)
(* single alteration is noticed before a graph is built.                   *)
ArtifactsAgree ==
  subject = "chain" =>
    /\ Chain!QuantizedLoads /\ Chain!ConvertedOnce /\ Chain!NothingIsLaundered
    /\ Chain!AlteredIsRefused /\ Chain!LoadedComputes
=============================================================================
