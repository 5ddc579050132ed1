----------------------------- MODULE KvSession ------------------------------
(***************************************************************************)
(* A K/V session, src/src/levo-kv.cpp: the key and value rows of both      *)
(* towers in tensors that live as long as the session, the number of rows  *)
(* that count, and the next absolute position.  One append is a graph of   *)
(* LayerCount layers; the backend may fail in any of them, which throws    *)
(* and leaves whatever was written in the tensors.                         *)
(***************************************************************************)
EXTENDS Integers, Sequences

CONSTANTS Capacity, MainLayers, DetailLayers, Tokens, Conditions,
          MaxFaults,   (* bound: graphs that fail                          *)
          MaxResets    (* bound: resets                                    *)

VARIABLES
  cells,         (* layer, row -> the hidden value its K and V come from   *)
  cacheTokens,   (* rows that count                                        *)
  nextPosition,  (* next_absolute_position                                 *)
  graph,         (* the append being computed                              *)
  logits,        (* what the last call returned                            *)
  faults, resets

kvars == <<cells, cacheTokens, nextPosition, graph, logits, faults, resets>>

(* The rows the cache holds, read back from its first layer.               *)
Cached == [i \in 1 .. cacheTokens |-> cells[1][i][1]]

Lm == INSTANCE UncachedLm WITH history <- Cached

ASSUME KvAssumption == /\ Capacity \in Nat \ {0}
                       /\ MainLayers \in Nat \ {0}
                       /\ DetailLayers \in Nat
                       /\ MaxFaults \in Nat /\ MaxResets \in Nat
                       /\ Tokens \cap Conditions = {}

Layers == 1 .. Lm!LayerCount
Garbage == <<>>
Idle == [running |-> FALSE, past |-> 0, batch |-> <<>>, layer |-> 0,
         hidden |-> <<>>, mixed |-> <<>>, count |-> 0]

TokenRows(tokens, start) ==
  [i \in 1 .. Len(tokens) |-> [input |-> tokens[i], position |-> start + i - 1]]

(* prefill_conditioned: the condition's rows and then the audio's, at      *)
(* absolute positions from 0 (and the two joined the other way round).     *)
AudioFirst(condition, prefix, tokens) ==
  [i \in 1 .. prefix + Len(tokens) |->
     [input |-> IF i <= Len(tokens) THEN tokens[i] ELSE condition,
      position |-> i - 1]]
ConditionedRows(condition, prefix, tokens) ==
  [i \in 1 .. prefix + Len(tokens) |->
     [input |-> IF i <= prefix THEN condition ELSE tokens[i - prefix],
      position |-> i - 1]]

(* validate_tokens: the batch fits the rows and the positions that are     *)
(* left, and only an empty session may start at a position of the caller's *)
(* choice (and the check when every batch may, or rows are not counted).   *)
AcceptsAnywhere(count, past, next, start) ==
  /\ count >= 1 /\ count <= Capacity - past
  /\ start >= 0 /\ start + count <= Capacity
AcceptsWithoutRoom(count, past, next, start) ==
  /\ count >= 1
  /\ past = 0 \/ start = next
Accepts(count, past, next, start) ==
  /\ count >= 1 /\ count <= Capacity - past
  /\ start >= 0 /\ start + count <= Capacity
  /\ past = 0 \/ start = next

-----------------------------------------------------------------------------
Init ==
  /\ cells = [g \in Layers |-> [i \in 1 .. Capacity |-> Garbage]]
  /\ cacheTokens = 0 /\ nextPosition = 0
  /\ graph = Idle
  /\ logits = <<>>
  /\ faults = 0 /\ resets = 0

(* A graph over `rows` behind the first `past` rows of the cache.          *)
Begin(past, rows, count) ==
  /\ graph' = [running |-> TRUE, past |-> past, batch |-> rows, layer |-> 0,
               hidden |-> [j \in 1 .. Len(rows) |-> <<rows[j]>>],
               mixed |-> <<>>, count |-> count]
  /\ UNCHANGED <<cells, cacheTokens, nextPosition, logits, faults, resets>>

(* prefill and decode: logits of every appended row.                       *)
Prefill(tokens, start) ==
  /\ ~graph.running
  /\ Accepts(Len(tokens), cacheTokens, nextPosition, start)
  /\ Begin(cacheTokens, TokenRows(tokens, start), Len(tokens))

(* Condition and audio in one graph, logits of the audio rows only.        *)
PrefillConditioned(condition, prefix, tokens) ==
  /\ ~graph.running
  /\ cacheTokens = 0
  /\ prefix <= Capacity
  /\ Accepts(Len(tokens), prefix, prefix, prefix)
  /\ Begin(0, ConditionedRows(condition, prefix, tokens), Len(tokens))

(* The condition alone, without heads.                                     *)
PrefillPrefix(condition, prefix) ==
  /\ ~graph.running
  /\ cacheTokens = 0
  /\ prefix \in 1 .. Capacity
  /\ Begin(0, ConditionedRows(condition, prefix, <<>>), 0)

(* The rows a query attends to: diag_mask_inf keeps those up to its own    *)
(* (and the mask without the offset of the rows before the batch).         *)
VisibleOfBatch(past, j) == 1 .. j
Visible(past, j) == 1 .. past + j

(* Attention over the cells of a layer: defined when the cells are those   *)
(* of one sequence of rows, which is then what the result stands for.      *)
Attend(layer, cell, rows) ==
  LET read == [i \in rows |-> cell[i][Len(cell[i])]]
  IN IF /\ \A i \in rows : cell[i] # Garbage
        /\ \A i \in rows : cell[i] = Lm!Hidden(layer - 1, read, i)
     THEN read ELSE Garbage

(* The row of the cache that row j of a batch is written to.               *)
CacheRow(past, j) == past + j

(* The copies of a batch's K and V into the cache, for the rows `done`.    *)
Written(cell, past, hidden, done) ==
  [i \in 1 .. Capacity |->
     IF \E j \in done : i = CacheRow(past, j)
     THEN hidden[CHOOSE j \in done : i = CacheRow(past, j)]
     ELSE cell[i]]

(* One layer: write the batch's K and V, attend, residual, feed-forward.   *)
RunLayer ==
  /\ graph.running /\ graph.layer < Lm!LayerCount
  /\ LET g == graph.layer + 1
         batch == 1 .. Len(graph.batch)
         cell == Written(cells[g], graph.past, graph.hidden, batch)
         after == [j \in batch |-> Attend(g, cell, Visible(graph.past, j))]
     IN /\ cells' = [cells EXCEPT ![g] = cell]
        /\ graph' = [graph EXCEPT !.layer = g, !.hidden = after,
                                  !.mixed = IF g = MainLayers THEN after ELSE @]
  /\ UNCHANGED <<cacheTokens, nextPosition, logits, faults, resets>>

(* The graph succeeded: only now do its rows count.                        *)
Finish ==
  /\ graph.running /\ graph.layer = Lm!LayerCount
  /\ LET n == Len(graph.batch)
     IN /\ cacheTokens' = graph.past + n
        /\ nextPosition' = graph.batch[n].position + 1
        /\ logits' = [i \in 1 .. graph.count |->
                        [mixed |-> graph.mixed[n - graph.count + i],
                         detail |-> graph.hidden[n - graph.count + i]]]
  /\ graph' = Idle
  /\ UNCHANGED <<cells, faults, resets>>

(* The backend fails in a layer, with any part of its rows written.        *)
GraphFails(done) ==
  /\ graph.running /\ graph.layer < Lm!LayerCount
  /\ faults < MaxFaults /\ faults' = faults + 1
  /\ cells' = [cells EXCEPT ![graph.layer + 1] =
                 Written(@, graph.past, graph.hidden, done)]
  /\ graph' = Idle
  /\ UNCHANGED <<cacheTokens, nextPosition, logits, resets>>

(* reset forgets the rows without clearing them.                           *)
Reset ==
  /\ ~graph.running
  /\ resets < MaxResets /\ resets' = resets + 1
  /\ cacheTokens' = 0 /\ nextPosition' = 0
  /\ UNCHANGED <<cells, graph, logits, faults>>

Texts == UNION {[1 .. n -> Tokens] : n \in 0 .. Capacity}

Next ==
  \/ \E tokens \in Texts, start \in 0 .. Capacity - 1 : Prefill(tokens, start)
  \/ \E c \in Conditions, prefix \in 0 .. Capacity, tokens \in Texts :
       PrefillConditioned(c, prefix, tokens)
  \/ \E c \in Conditions, prefix \in 0 .. Capacity : PrefillPrefix(c, prefix)
  \/ RunLayer
  \/ Finish
  \/ \E done \in SUBSET (1 .. Len(graph.batch)) : GraphFails(done)
  \/ Reset

Spec == Init /\ [][Next]_kvars

-----------------------------------------------------------------------------
Hiddens == UNION {[1 .. n -> Lm!Row] : n \in 0 .. Capacity}

(* Variables hold what the session's fields may hold: rows and positions   *)
(* within the context, a graph no larger than the rows left.               *)
TypeOK ==
  /\ cells \in [Layers -> [1 .. Capacity -> Hiddens]]
  /\ cacheTokens \in 0 .. Capacity /\ nextPosition \in 0 .. Capacity
  /\ graph.running => /\ graph.batch \in Lm!Batches
                      /\ graph.past + Len(graph.batch) <= Capacity
                      /\ graph.layer \in 0 .. Lm!LayerCount
                      /\ graph.count \in 0 .. Len(graph.batch)
  /\ faults \in 0 .. MaxFaults /\ resets \in 0 .. MaxResets

(* The rows that count carry consecutive positions, the session's next     *)
(* position is the one after the last, and rows and positions never run    *)
(* past the context, however many appends failed or were forgotten.        *)
PositionsAreConsecutive ==
  /\ \A i \in 2 .. cacheTokens : Cached[i].position = Cached[i - 1].position + 1
  /\ nextPosition = IF cacheTokens = 0 THEN 0 ELSE Cached[cacheTokens].position + 1

(* A row of conditioning is never preceded by a token, and conditioning    *)
(* starts at absolute position 0: both ways of giving a prefix.            *)
ConditionComesFirst ==
  \A i \in 1 .. cacheTokens :
    Cached[i].input \in Conditions =>
      \A j \in 1 .. i : /\ Cached[j].input = Cached[i].input
                        /\ Cached[j].position = j - 1

(* The rows that count carry consecutive positions within the context,     *)
(* behind conditioning that starts at position 0, through failed and       *)
(* forgotten appends.  (kv_session::prefill*, reset)                       *)
RowsAreSound == TypeOK /\ PositionsAreConsecutive /\ ConditionComesFirst

(* A session answers as the uncached model would on everything appended    *)
(* since the last reset: failed graphs and forgotten rows leave nothing    *)
(* that a later answer depends on.                                         *)
ImplementsUncachedLm == Lm!Spec
=============================================================================
