----------------------------- MODULE UncachedLm -----------------------------
(***************************************************************************)
(* The two Llama towers of LeLM as src/src/levo-lm.cpp runs them: over the *)
(* whole sequence, without a cache.  This is the abstract specification of *)
(* a K/V session: a host that keeps every row it ever appended and         *)
(* evaluates all of them each time.                                        *)
(*                                                                         *)
(* Hidden values are represented by what they were computed from.  Before  *)
(* the first layer a position depends on its own row only; the causal mask *)
(* of every layer makes it depend on all rows up to its own.  The layers   *)
(* of the main tower come first, those of the detail tower after them: its *)
(* input joins a position's own embeddings with its main hidden value.     *)
(***************************************************************************)
EXTENDS Integers, Sequences

CONSTANTS Capacity,      (* hparams.context_length                         *)
          MainLayers,    (* layers of the main tower                       *)
          DetailLayers,  (* layers of the detail tower                     *)
          Tokens,        (* a member stands for one mixed, vocal and bgm id *)
          Conditions     (* dense conditioning streams                     *)

VARIABLES history,  (* the rows appended since the last reset              *)
          logits    (* what the last evaluation returned                   *)

LayerCount == MainLayers + DetailLayers
Row == [input : Tokens \cup Conditions, position : 0 .. Capacity - 1]

Prefix(rows, n) == [i \in 1 .. n |-> rows[i]]

(* The hidden value of position n after `layer` layers.                    *)
Hidden(layer, rows, n) == IF layer = 0 THEN <<rows[n]>> ELSE Prefix(rows, n)

(* Three heads read the towers: mixed the main one, vocal and bgm the      *)
(* detail one.                                                             *)
LogitsAt(rows, n) == [mixed |-> Hidden(MainLayers, rows, n),
                      detail |-> Hidden(LayerCount, rows, n)]

(* The logits of the last `count` positions of a forward pass.             *)
Forward(rows, count) ==
  [i \in 1 .. count |-> LogitsAt(rows, Len(rows) - count + i)]

Joined(rows, batch) ==
  [i \in 1 .. Len(rows) + Len(batch) |->
     IF i <= Len(rows) THEN rows[i] ELSE batch[i - Len(rows)]]

(* A batch continues the absolute positions; an empty history may start    *)
(* anywhere.                                                               *)
Continues(rows, batch) ==
  /\ \A i \in 2 .. Len(batch) : batch[i].position = batch[i - 1].position + 1
  /\ Len(rows) > 0 => batch[1].position = rows[Len(rows)].position + 1

Init == history = <<>> /\ logits = <<>>

(* Append a batch, return the logits of its last `count` rows.             *)
Evaluate(batch, count) ==
  /\ batch # <<>> /\ count \in 0 .. Len(batch)
  /\ Len(history) + Len(batch) <= Capacity
  /\ Continues(history, batch)
  /\ history' = Joined(history, batch)
  /\ logits' = Forward(history', count)

Reset == history' = <<>> /\ UNCHANGED logits

Batches == UNION {[1 .. n -> Row] : n \in 1 .. Capacity}

Next == Reset \/ \E batch \in Batches : \E count \in 0 .. Len(batch) :
                   Evaluate(batch, count)

Spec == Init /\ [][Next]_<<history, logits>>
=============================================================================
