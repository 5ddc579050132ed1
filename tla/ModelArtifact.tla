--------------------------- MODULE ModelArtifact ---------------------------
(***************************************************************************)
(* GGUF artifacts of the three models: what the quantizer writes           *)
(* (tools/levo-quantize.cpp, levo-quantization.h), what the strict loaders *)
(* accept (levo-model.cpp, levo-flow-model.cpp, levo-vae-model.cpp), and   *)
(* what the graphs need of a loaded model (levo-lm.cpp, levo-kv.cpp,       *)
(* levo-conditioner.cpp, levo-flow-*.cpp, levo-vae.cpp).                   *)
(*                                                                         *)
(* An artifact is its metadata and its tensors.  A tensor is a type and a  *)
(* shape in GGML order, as long as the file says; ggml drops trailing      *)
(* ones.  The layers of a tower are alike: one tensor stands for all.  The *)
(* pinned provenance and hyperparameters are one value, `source`.          *)
(***************************************************************************)
EXTENDS Integers, Sequences

-----------------------------------------------------------------------------
(* levo-quantization.h                                                     *)
Profiles == {"Q8_0", "Q6_K", "Q5_K_M", "Q4_K_M"}
BaseType == [Q8_0 |-> "Q8_0", Q6_K |-> "Q6_K", Q5_K_M |-> "Q5_K", Q4_K_M |-> "Q4_K"]
FileType == [F32 |-> 0, F16 |-> 1, Q8_0 |-> 7, Q4_K_M |-> 12, Q5_K_M |-> 13, Q6_K |-> 14]
QuantizedTypes == {"Q8_0", "Q6_K", "Q5_K", "Q4_K"}
Promoted == {"Q5_K_M", "Q4_K_M"}
Block(type) == CASE type = "Q8_0" -> 32
                 [] type \in QuantizedTypes \ {"Q8_0"} -> 256
                 [] OTHER -> 1

LelmCritical ==
  {"token_embd.mixed", "token_embd.vocal", "token_embd.bgm", "output.mixed",
   "output.vocal", "output.bgm", "cond.lyrics.weight", "cond.structure.weight",
   "cond.style.weight", "cond.prompt_embd.weight", "cond.prompt_eot",
   "bridge.0.weight", "bridge.2.weight", "blk.attn_v.weight",
   "blk.attn_output.weight", "blk.ffn_down.weight"}
(* (Routing by name alone would quantize norms and biases.)                *)
LelmTypeByName(name, rank, profile) ==
  IF profile \in Promoted /\ name \in LelmCritical THEN "Q6_K" ELSE BaseType[profile]
LelmType(name, rank, profile) ==
  IF rank < 2 THEN "F32"
  ELSE IF profile \in Promoted /\ name \in LelmCritical THEN "Q6_K"
  ELSE BaseType[profile]

FlowBlockMatrices == {"block.attn.qkv.weight", "block.attn.out.weight",
                      "block.ffn.in.weight", "block.ffn.out.weight"}
FlowCritical == {"block.attn.out.weight", "block.ffn.out.weight"}
FlowType(name, rank, profile) ==
  IF rank < 2 \/ name \notin FlowBlockMatrices THEN "F32"
  ELSE IF profile \in Promoted /\ name \in FlowCritical THEN "Q6_K"
  ELSE BaseType[profile]

(* Rows of a quantized Flow matrix are padded to whole blocks.             *)
Padded(columns, type) ==
  IF type \in QuantizedTypes
  THEN ((columns + Block(type) - 1) \div Block(type)) * Block(type) ELSE columns
PaddedLayout(profile) ==
  <<Padded(2200, BaseType[profile]), Padded(4400, BaseType[profile])>>

-----------------------------------------------------------------------------
(* The tensors each release has, by name.                                  *)
LmWidth == [medium |-> 1536, large |-> 2048]
LmFfn == [medium |-> 8960, large |-> 11008]
LmEmbeddings == {"token_embd.mixed", "token_embd.vocal", "token_embd.bgm",
                 "cond.prompt_embd.weight"}
LmOutputs == {"output.mixed", "output.vocal", "output.bgm"}
LmVectors == {"output_norm", "bridge.0.bias", "bridge.2.bias", "blk.attn_norm.weight",
              "blk.ffn_norm"}
LmSquares == {"bridge.2.weight", "blk.attn_q.weight", "blk.attn_k.weight",
              "blk.attn_v.weight", "blk.attn_output.weight"}
LmWidening == {"blk.ffn_gate.weight", "blk.ffn_up.weight"}
LmNames ==
  LmEmbeddings \cup LmOutputs \cup LmVectors \cup LmSquares \cup LmWidening
    \cup {"bridge.0.weight", "cond.lyrics.weight", "cond.structure.weight",
          "cond.style.weight", "cond.prompt_eot", "blk.ffn_down.weight"}
LmShape(source, n) ==
  LET w == LmWidth[source]
      f == LmFfn[source]
  IN CASE n \in LmEmbeddings -> <<w, 16386>>
       [] n \in LmOutputs -> <<w, 16385>>
       [] n \in LmVectors -> <<w>>
       [] n \in LmSquares -> <<w, w>>
       [] n \in LmWidening -> <<w, f>>
       [] n = "bridge.0.weight" -> <<2 * w, w>>
       [] n = "cond.lyrics.weight" -> <<w, 151659>>
       [] n = "cond.structure.weight" -> <<w, 200>>
       [] n = "cond.style.weight" -> <<w, 151652>>
       [] n = "cond.prompt_eot" -> <<w, 1>>
       [] OTHER -> <<f, w>>                        (* blk.ffn_down.weight     *)
LmInventory(source) == [n \in LmNames |-> LmShape(source, n)]

FlowVectors ==
  {"time_embedding.linear_1.bias", "time_embedding.linear_2.bias", "block.attn.out.bias",
   "block.norm.weight", "block.norm.bias", "block.ffn.out.bias", "final_norm.weight",
   "final_norm.bias", "output.bias"}
FlowSquares == {"time_embedding.linear_2.weight", "output.weight", "block.attn.out.weight"}
FlowNorms == {"norm.sum_x", "norm.sum_x2"}
FlowWide == {"rvq.out_proj.bias", "null_condition.weight"}
FlowNames ==
  FlowVectors \cup FlowSquares \cup FlowNorms \cup FlowWide
    \cup {"rvq.codebook.weight", "rvq.out_proj.weight", "mask_embedding.weight",
          "norm.counts", "position_embedding.weight", "time_embedding.linear_1.weight",
          "time_modulation.weight", "time_modulation.bias", "block.attn.qkv.weight",
          "block.attn.qkv.bias", "block.ffn.in.weight", "block.ffn.in.bias",
          "block.ffn.out.weight", "block.modulation.weight", "final_modulation.weight"}
FlowShape(n) ==
  CASE n \in FlowVectors -> <<2200>>
    [] n \in FlowSquares -> <<2200, 2200>>
    [] n \in FlowNorms -> <<64>>
    [] n \in FlowWide -> <<1024>>
    [] n = "rvq.codebook.weight" -> <<32, 16384>>
    [] n = "rvq.out_proj.weight" -> <<32, 1024>>
    [] n = "mask_embedding.weight" -> <<24, 3>>
    [] n = "norm.counts" -> <<1>>
    [] n = "position_embedding.weight" -> <<2200, 1000>>
    [] n = "time_embedding.linear_1.weight" -> <<512, 2200>>
    [] n = "time_modulation.weight" -> <<2200, 13200>>
    [] n = "time_modulation.bias" -> <<13200>>
    [] n = "block.attn.qkv.weight" -> <<2200, 6600>>
    [] n = "block.attn.qkv.bias" -> <<6600>>
    [] n = "block.ffn.in.weight" -> <<2200, 4400>>
    [] n = "block.ffn.in.bias" -> <<4400>>
    [] n = "block.ffn.out.weight" -> <<4400, 2200>>
    [] n = "block.modulation.weight" -> <<2200, 6>>
    [] OTHER -> <<2200, 2>>                        (* final_modulation.weight *)
FlowInventory == [n \in FlowNames |-> FlowShape(n)]

(* One of the five stages; the others differ in widths only.               *)
VaeSnakes == {"upsample.alpha_log", "upsample.beta_log"}
VaeStages == {"upsample.bias", "residual.alpha_log", "residual.beta_log",
              "residual.conv.0.bias", "residual.conv.1.bias"}
VaeOutputs == {"output.alpha_log", "output.beta_log"}
VaeNames == VaeSnakes \cup VaeStages \cup VaeOutputs
            \cup {"input.weight", "input.bias", "upsample.weight", "residual.conv.0.weight",
                  "residual.conv.1.weight", "output.weight"}
VaeShape(n) ==
  CASE n \in VaeSnakes \cup {"input.bias"} -> <<2048>>
    [] n \in VaeStages -> <<1024>>
    [] n \in VaeOutputs -> <<128>>
    [] n = "input.weight" -> <<7, 64, 2048>>
    [] n = "upsample.weight" -> <<20, 1024, 2048>>
    [] n = "residual.conv.0.weight" -> <<7, 1024, 1024>>
    [] n = "residual.conv.1.weight" -> <<1, 1024, 1024>>
    [] OTHER -> <<7, 128, 2>>                      (* output.weight           *)
VaeInventory == [n \in VaeNames |-> VaeShape(n)]

Architecture == [medium |-> "levo2", large |-> "levo2", flow |-> "levo2_flow",
                 vae |-> "levo2_vae"]
Inventory(source) == CASE source = "flow" -> FlowInventory
                       [] source = "vae" -> VaeInventory
                       [] OTHER -> LmInventory(source)

-----------------------------------------------------------------------------
(* Shapes as ggml sees them.                                               *)
Ne(shape, i) == IF i <= Len(shape) THEN shape[i] ELSE 1
NDims(shape) == CHOOSE n \in 1 .. 4 :
  /\ \A i \in n + 1 .. 4 : Ne(shape, i) = 1
  /\ n = 1 \/ Ne(shape, n) # 1
AsStored(shape) == SubSeq(shape, 1, NDims(shape))
SameLeading(shape, expected) ==
  \A i \in 1 .. Len(expected) : Ne(shape, i) = expected[i]
SameShape(shape, expected) == \A i \in 1 .. 4 : Ne(shape, i) = Ne(expected, i)

Tensor(type, shape) == [type |-> type, shape |-> shape]
NoTag == [profile |-> "absent", policy |-> "absent", lineage |-> "absent"]
Tag(profile, lineage) == [profile |-> profile, policy |-> "1", lineage |-> lineage]
Absent == <<"absent">>

(* What the converters write: one type throughout, NumPy ranks.            *)
Converted(source, type) ==
  [source |-> source, fileType |-> FileType[type], quant |-> NoTag,
   layout |-> Absent, dtype |-> IF source = "flow" THEN type ELSE "absent",
   precision |-> NoTag,
   tensors |-> [n \in DOMAIN Inventory(source) |-> Tensor(type, Inventory(source)[n])]]

-----------------------------------------------------------------------------
(* levo-quantize.cpp.  An option is a profile, or F16 for --vae-f16.       *)
(* The rank is read from the raw file: ggml no longer tells <<w, 1>> from  *)
(* <<w>>, which the loader routes as a matrix.                             *)
RankAfterGgml(tensor) == NDims(tensor.shape)
Rank(tensor) == Len(tensor.shape)

TargetType(artifact, name, option) ==
  LET rank == Rank(artifact.tensors[name])
  IN CASE artifact.source = "vae" -> "F16"
       [] artifact.source = "flow" -> FlowType(name, rank, option)
       [] OTHER -> LelmType(name, rank, option)

Planned(artifact, name, option) ==
  LET source == artifact.tensors[name].shape
      target == TargetType(artifact, name, option)
  IN Tensor(target,
            IF artifact.source = "flow" /\ name \in FlowBlockMatrices
            THEN [source EXCEPT ![1] = Padded(source[1], target)] ELSE source)

(* The declared type of a source is the type of each tensor; a VAE is      *)
(* converted from F32 only.  (Without it, any plain type would do.)        *)
AnyPlainFileType(artifact) == artifact.fileType \in {0, 1}
SourceFileType(artifact) ==
  /\ artifact.fileType \in {0, 1}
  /\ artifact.source = "vae" => artifact.fileType = 0
  /\ \A n \in DOMAIN artifact.tensors :
       FileType[artifact.tensors[n].type] = artifact.fileType

Quantizable(artifact, option) ==
  /\ artifact.source = "vae" <=> option = "F16"
  /\ \A n \in DOMAIN artifact.tensors :
       LET planned == Planned(artifact, n, option)
       IN /\ artifact.tensors[n].type \in {"F32", "F16"}
          /\ planned.shape[1] % Block(planned.type) = 0
  /\ SourceFileType(artifact)

QuantizedFrom(artifact, option, digest) ==
  LET written == [artifact EXCEPT !.fileType = FileType[option],
        !.tensors = [n \in DOMAIN @ |->
          LET planned == Planned(artifact, n, option)
          IN Tensor(planned.type, AsStored(planned.shape))]]
  IN CASE artifact.source = "vae" -> [written EXCEPT !.precision = Tag("F16", digest)]
       [] artifact.source = "flow" ->
            [written EXCEPT !.quant = Tag(option, digest), !.dtype = "MIXED",
                            !.layout = PaddedLayout(option)]
       [] OTHER -> [written EXCEPT !.quant = Tag(option, digest)]

-----------------------------------------------------------------------------
(* The strict loaders.                                                     *)
(* A digest is named after the artifact it is of.                          *)
Digests == {"converted", "quantized", "altered"}
TagIsWhole(tag) == tag.policy = "1" /\ tag.lineage \in Digests

QuantizationParses(artifact) ==
  /\ artifact.quant.profile \in Profiles /\ TagIsWhole(artifact.quant)
  /\ artifact.fileType = FileType[artifact.quant.profile]
  /\ artifact.source = "flow" =>
       /\ artifact.layout = PaddedLayout(artifact.quant.profile)
       /\ artifact.dtype = "MIXED"
Unquantized(artifact) ==
  /\ artifact.quant = NoTag /\ artifact.fileType \in {0, 1}
  /\ artifact.source = "flow" =>
       /\ artifact.layout = Absent /\ artifact.dtype \in {"F32", "F16"}
       /\ artifact.fileType = FileType[artifact.dtype]

PlainType(artifact) == IF artifact.fileType = 0 THEN "F32" ELSE "F16"

(* The one tensor a name may have under the declared precision.            *)
Expected(artifact, name) ==
  LET shape == Inventory(artifact.source)[name]
      profile == artifact.quant.profile
      type == CASE artifact.source = "vae" \/ profile = "absent" -> PlainType(artifact)
                [] artifact.source = "flow" /\ profile # "absent" ->
                     FlowType(name, Len(shape), profile)
                [] OTHER -> LelmType(name, Len(shape), profile)
  IN Tensor(type, IF artifact.source = "flow" /\ name \in FlowBlockMatrices
                  THEN [shape EXCEPT ![1] = Padded(shape[1], type)] ELSE shape)

TensorsAreExpected(artifact) ==
  /\ DOMAIN artifact.tensors = DOMAIN Inventory(artifact.source)
  /\ \A n \in DOMAIN artifact.tensors :
       /\ artifact.tensors[n].type = Expected(artifact, n).type
       /\ SameShape(artifact.tensors[n].shape, Expected(artifact, n).shape)

(* A VAE ignores the quantization keys, an F32 one its precision keys too. *)
PrecisionParses(artifact) ==
  \/ artifact.fileType = 0
  \/ /\ artifact.fileType = 1
     /\ artifact.precision.profile = "F16" /\ TagIsWhole(artifact.precision)

Loads(artifact) ==
  /\ \/ artifact.source = "vae" /\ PrecisionParses(artifact)
     \/ artifact.source # "vae" /\ (QuantizationParses(artifact) \/ Unquantized(artifact))
  /\ TensorsAreExpected(artifact)

-----------------------------------------------------------------------------
(* What the graphs need of a loaded model.                                 *)
LmComputes(artifact) ==
  \A n \in DOMAIN LmInventory(artifact.source) :
    LET tensor == artifact.tensors[n]
        shape == LmInventory(artifact.source)[n]
    IN /\ n # "cond.prompt_eot" => NDims(tensor.shape) = Len(shape)
       /\ SameShape(tensor.shape, shape)
       /\ Len(shape) < 2 => tensor.type \in {"F32", "F16"}

FlowConditioning == {"rvq.codebook.weight", "rvq.out_proj.weight", "rvq.out_proj.bias",
  "mask_embedding.weight", "position_embedding.weight", "null_condition.weight",
  "norm.counts", "norm.sum_x", "norm.sum_x2"}
(* An affine layer pads its activation to a quantized matrix.              *)
Affine(artifact, name) ==
  LET columns == artifact.tensors[name].shape[1]
      activation == FlowInventory[name][1]
  IN \/ columns = activation
     \/ columns > activation /\ artifact.tensors[name].type \in QuantizedTypes
FlowComputes(artifact) ==
  /\ \A n \in DOMAIN FlowInventory :
       artifact.tensors[n].type \in {"F32"} \cup
         IF n \in FlowBlockMatrices THEN QuantizedTypes ELSE {}
  /\ \A n \in FlowConditioning : NDims(artifact.tensors[n].shape) = Len(FlowInventory[n])
  /\ \A n \in FlowBlockMatrices \cup {"time_embedding.linear_1.weight",
        "time_embedding.linear_2.weight", "time_modulation.weight", "output.weight"} :
       Affine(artifact, n)

VaeComputes(artifact) ==
  \A n \in DOMAIN VaeInventory : artifact.tensors[n].type \in {"F32", "F16"}

Computes(artifact) == CASE artifact.source = "flow" -> FlowComputes(artifact)
                        [] artifact.source = "vae" -> VaeComputes(artifact)
                        [] OTHER -> LmComputes(artifact)
=============================================================================
