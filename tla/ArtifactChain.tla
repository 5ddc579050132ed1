--------------------------- MODULE ArtifactChain ---------------------------
(***************************************************************************)
(* An artifact on its way from a converter through the quantizer to a      *)
(* loader: converted, quantized, or altered in one place, in any order.    *)
(* `parent` is the artifact the last step started from.                    *)
(***************************************************************************)
EXTENDS ModelArtifact

CONSTANTS Sources,       (* releases to convert                            *)
          MaxSteps       (* steps after the conversion                     *)

VARIABLES artifact, parent, made, steps

vars == <<artifact, parent, made, steps>>

Options == Profiles \cup {"F16"}
AllTypes == {"F32", "F16"} \cup QuantizedTypes

(* The releases come as F32 or F16, the VAE as F32.                        *)
Init ==
  /\ \E source \in Sources, type \in {"F32", "F16"} :
       /\ source = "vae" => type = "F32"
       /\ artifact = Converted(source, type)
  /\ parent = artifact /\ made = "converted" /\ steps = 0

Becomes(next, how) ==
  /\ steps < MaxSteps /\ steps' = steps + 1
  /\ artifact' = next /\ parent' = artifact /\ made' = how

Quantize(option) ==
  /\ Quantizable(artifact, option)
  /\ Becomes(QuantizedFrom(artifact, option, made), "quantized")

-----------------------------------------------------------------------------
(* One change to what a loader reads.                                      *)
AlterTensor ==
  \E n \in DOMAIN artifact.tensors :
    LET shape == artifact.tensors[n].shape
    IN \/ \E type \in AllTypes \ {artifact.tensors[n].type} :
            Becomes([artifact EXCEPT !.tensors[n].type = type], "altered")
       \/ \E i \in 1 .. Len(shape), change \in {-8, 8, 96} :
            /\ shape[i] + change > 0
            /\ Becomes([artifact EXCEPT !.tensors[n].shape[i] = @ + change], "altered")
       \/ /\ Len(shape) < 4
          /\ Becomes([artifact EXCEPT !.tensors[n].shape = Append(@, 2)], "altered")

AlterInventory ==
  \/ \E n \in DOMAIN artifact.tensors :
       Becomes([artifact EXCEPT !.tensors =
                  [m \in DOMAIN @ \ {n} |-> @[m]]], "altered")
  \/ Becomes([artifact EXCEPT !.tensors =
                  [m \in DOMAIN @ \cup {"extra"} |->
                     IF m \in DOMAIN @ THEN @[m] ELSE Tensor("F32", <<1>>)]], "altered")

OtherTags(tag) ==
  {[tag EXCEPT !.profile = p] : p \in Profiles \cup {"absent", "F16"}}
    \cup {[tag EXCEPT !.policy = p] : p \in {"1", "2", "absent"}}
    \cup {[tag EXCEPT !.lineage = d] : d \in {"invalid", "absent"}}

(* Another profile in every key, over the same tensors.                    *)
Relabelled(profile) ==
  [artifact EXCEPT !.fileType = FileType[profile], !.quant.profile = profile,
     !.layout = IF artifact.source = "flow" THEN PaddedLayout(profile) ELSE @]

AlterMetadata ==
  \/ \E type \in DOMAIN FileType :
       /\ FileType[type] # artifact.fileType
       /\ Becomes([artifact EXCEPT !.fileType = FileType[type]], "altered")
  \/ /\ artifact.source # "vae"
     /\ \/ \E tag \in OtherTags(artifact.quant) \ {artifact.quant} :
             Becomes([artifact EXCEPT !.quant = tag], "altered")
        \/ /\ artifact.quant # NoTag
           /\ \E profile \in Profiles \ {artifact.quant.profile} :
                Becomes(Relabelled(profile), "altered")
  \/ /\ artifact.source = "flow"
     /\ \/ \E dtype \in {"F32", "F16", "MIXED"} \ {artifact.dtype} :
             Becomes([artifact EXCEPT !.dtype = dtype], "altered")
        \/ \E layout \in ({PaddedLayout(p) : p \in Profiles} \cup {Absent})
                           \ {artifact.layout} :
             Becomes([artifact EXCEPT !.layout = layout], "altered")
  \/ /\ artifact.source = "vae" /\ artifact.fileType = 1
     /\ \E tag \in OtherTags(artifact.precision) \ {artifact.precision} :
          Becomes([artifact EXCEPT !.precision = tag], "altered")

Next == \/ \E option \in Options : Quantize(option)
        \/ /\ made # "altered"
           /\ AlterTensor \/ AlterInventory \/ AlterMetadata

Spec == Init /\ [][Next]_vars

-----------------------------------------------------------------------------
(* What the quantizer writes from an artifact a loader accepts, its loader *)
(* accepts: planner and loader agree on every name, rank, type and padding *)
(* though they compute them from different sources.                        *)
QuantizedLoads ==
  made = "quantized" /\ Loads(parent) => Loads(artifact)

(* "Existing outputs and already-converted VAE inputs are rejected": the   *)
(* tool never takes its own output, with any option.                       *)
ConvertedOnce ==
  made = "quantized" => \A option \in Options : ~Quantizable(artifact, option)

(* The tool does not check a source against the inventory of its release,  *)
(* yet it repairs nothing but metadata: what loads after quantization had  *)
(* the tensors of its release, all of one type.  The exception is the one  *)
(* thing it changes: Flow rows that are wider, but need the same padding.  *)
NothingIsLaundered ==
  made = "quantized" /\ Loads(artifact) =>
    LET plain == Converted(parent.source, PlainType(parent)).tensors
        PaddedRows(t, n) == [t EXCEPT !.shape[1] = Padded(@, artifact.tensors[n].type)]
    IN /\ DOMAIN parent.tensors = DOMAIN plain
       /\ \A n \in DOMAIN plain :
            \/ parent.tensors[n] = plain[n]
            \/ /\ n \in FlowBlockMatrices
               /\ PaddedRows(parent.tensors[n], n) = PaddedRows(plain[n], n)

(* One altered tensor or key makes a loadable artifact unloadable: no two  *)
(* artifacts that differ in one place both load, so a profile determines   *)
(* every tensor and the tensors determine the profile.                     *)
AlteredIsRefused ==
  made = "altered" /\ Loads(parent) => ~Loads(artifact)

(* A loaded model passes every check of the code that builds graphs from   *)
(* it, so nothing fails after minutes of loading; except for Flow in F16,  *)
(* which loads although no graph takes it.                                 *)
LoadedComputes ==
  Loads(artifact) /\ ~(artifact.source = "flow" /\ artifact.fileType = 1)
    => Computes(artifact)
=============================================================================
