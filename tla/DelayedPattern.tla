--------------------------- MODULE DelayedPattern ---------------------------
(***************************************************************************)
(* The delayed codebook pattern of src/src/levo-pattern.cpp.  A layout is  *)
(* a function from sequence steps 0..S-1 to sets of coordinates            *)
(* [timestep, codebook]; build() scatters a [K,T] tensor into sequence     *)
(* order and revert() gathers a (possibly shorter) sequence back into      *)
(* frames.  Rows and columns are functions on 0..n-1, as in the code.      *)
(***************************************************************************)
EXTENDS Integers, Sequences, FiniteSets, FiniteSetsExt

(* A provider that forgot to require sorted delays.                        *)
IsProviderUnsorted(p) == p.depth > 0 /\ p.delays \in [0 .. p.depth - 1 -> Nat]

(* A DelayedPatternProvider: delays are sorted, one per codebook.          *)
IsProvider(p) ==
  /\ p.depth > 0
  /\ p.delays \in [0 .. p.depth - 1 -> Nat]
  /\ \A q \in 1 .. p.depth - 1 : p.delays[q - 1] <= p.delays[q]

Books(p) == 0 .. p.depth - 1
LastDelay(p) == p.delays[p.depth - 1]

(* The codebooks whose delay has passed t steps into the delayed diagonal, *)
(* which starts at frame `first` (and the slip of starting it at frame 0). *)
DiagonalFromZero(p, first, t) == {q \in Books(p) : t >= p.delays[q]}
Diagonal(p, first, t) == {q \in Books(p) : t >= p.delays[q] + first}

(* get_pattern: one empty step, `empty` more of them, the flattened first  *)
(* timesteps one coordinate per step, then the delayed diagonal.           *)
Layout(p, timesteps) ==
  LET first == IF p.flatten < timesteps THEN p.flatten ELSE timesteps
      flat  == 1 + p.empty
      slant == flat + first * p.depth
      t(s)  == first + (s - slant)
  IN [s \in 0 .. slant + timesteps + LastDelay(p) - first - 1 |->
        IF s < flat THEN {}
        ELSE IF s < slant
        THEN {[timestep |-> (s - flat) \div p.depth,
               codebook |-> (s - flat) % p.depth]}
        ELSE {[timestep |-> t(s) - p.delays[q], codebook |-> q] :
                q \in Diagonal(p, first, t(s))}]

StepCount(layout) == Cardinality(DOMAIN layout)

(* pattern::validate: an empty first step, codebooks in range, at most one *)
(* coordinate of a codebook per step, timesteps of a codebook monotonic.   *)
IsPattern(layout, depth) ==
  /\ 0 \in DOMAIN layout /\ layout[0] = {}
  /\ \A s \in DOMAIN layout : \A c \in layout[s] :
       /\ c.codebook \in 0 .. depth - 1
       /\ \A d \in layout[s] : c.codebook = d.codebook => c = d
       /\ \A r \in 0 .. s : \A d \in layout[r] :
            c.codebook = d.codebook => d.timestep <= c.timestep

(* max_delay off by one: timesteps counted from 0.                         *)
MaxDelayFromZero(layout, timesteps) ==
  LET ends == {c.timestep : c \in UNION {layout[s] : s \in DOMAIN layout}}
  IN IF ends = {} \/ Max(ends \cup {0}) < timesteps THEN 0
     ELSE Max(ends) - timesteps

(* pattern::max_delay: how far the layout runs past the last timestep.     *)
MaxDelay(layout, timesteps) ==
  LET ends == {c.timestep + 1 : c \in UNION {layout[s] : s \in DOMAIN layout}}
  IN IF ends = {} \/ Max(ends \cup {0}) < timesteps THEN 0
     ELSE Max(ends) - timesteps

(* pattern::valid_layout: the layout without its last max_delay steps.     *)
ValidLayout(layout, timesteps) ==
  [s \in {r \in DOMAIN layout :
            r < StepCount(layout) - MaxDelay(layout, timesteps)} |-> layout[s]]

(* The steps that hold frame t of codebook q (steps_with_timestep).        *)
StepsOf(layout, q, t) ==
  {s \in DOMAIN layout : [timestep |-> t, codebook |-> q] \in layout[s]}

(* The frames of codebook q that step s holds inside the tensor.           *)
FramesAt(layout, timesteps, q, s) ==
  {c.timestep : c \in {d \in layout[s] : d.codebook = q /\ d.timestep < timesteps}}

(* pattern::build: the payload, the scatter mask and the flat indexes.     *)
Build(layout, depth, timesteps, input, special) ==
  LET at(q, s) == FramesAt(layout, timesteps, q, s)
      the(q, s) == CHOOSE t \in at(q, s) : TRUE
      grid(f(_, _), other) ==
        [q \in 0 .. depth - 1 |-> [s \in DOMAIN layout |->
           IF at(q, s) = {} THEN other ELSE f(q, s)]]
      value(q, s) == input[q][the(q, s)]
      one(q, s) == 1
      index(q, s) == the(q, s) + q * timesteps
  IN [values  |-> grid(value, special),
      mask    |-> grid(one, 0),
      indexes |-> grid(index, depth * timesteps)]

(* The received steps that hold frame t of codebook q (and the slip of     *)
(* losing the last of them).                                               *)
ReceivedShort(layout, q, t, steps) == {s \in StepsOf(layout, q, t) : s + 1 < steps}
Received(layout, q, t, steps) == {s \in StepsOf(layout, q, t) : s < steps}

(* pattern::revert of the first `steps` steps of a sequence: a later step  *)
(* that holds the same frame overwrites an earlier one.                    *)
Revert(layout, depth, timesteps, sequence, steps, special) ==
  LET seen(q, t) == Received(layout, q, t, steps)
      grid(f(_, _), other) ==
        [q \in 0 .. depth - 1 |-> [t \in 0 .. timesteps - 1 |->
           IF seen(q, t) = {} THEN other ELSE f(q, t)]]
      value(q, t) == sequence[q][Max(seen(q, t))]
      one(q, t) == 1
      index(q, t) == Max(seen(q, t)) + q * steps
  IN [values  |-> grid(value, special),
      mask    |-> grid(one, 0),
      indexes |-> grid(index, depth * steps)]
=============================================================================
