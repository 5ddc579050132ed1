-------------------------- MODULE DelayedPatternMC --------------------------
(***************************************************************************)
(* The delayed pattern as it is used: a provider builds the layout of a    *)
(* tensor, the steps of the built sequence arrive one at a time, and after *)
(* any of them what has arrived so far is reverted into frames.            *)
(***************************************************************************)
EXTENDS DelayedPattern

CONSTANTS MaxDepth, MaxDelaySteps, MaxTimesteps, MaxFlatten, MaxEmpty

VARIABLES provider,   (* a DelayedPatternProvider                          *)
          timesteps,  (* frames of the tensor                              *)
          received    (* how many sequence steps have arrived              *)

mvars == <<provider, timesteps, received>>

Providers ==
  {p \in UNION {[depth : {k}, delays : [0 .. k - 1 -> 0 .. MaxDelaySteps],
                 flatten : 0 .. MaxFlatten, empty : 0 .. MaxEmpty] : k \in 1 .. MaxDepth} :
     IsProvider(p)}

Special == <<"special">>
Depth == provider.depth
TheLayout == Layout(provider, timesteps)
Frame(q, t) == <<q, t>>
Tensor == [q \in Books(provider) |-> [t \in 0 .. timesteps - 1 |-> Frame(q, t)]]
Built == Build(TheLayout, Depth, timesteps, Tensor, Special)
SoFar == Revert(TheLayout, Depth, timesteps, Built.values, received, Special)
Frames == {<<q, t>> : q \in Books(provider), t \in 0 .. timesteps - 1}
Has(q, t) == SoFar.mask[q][t] = 1

Init ==
  /\ provider \in Providers
  /\ timesteps \in 0 .. MaxTimesteps
  /\ received = 0

Receive ==
  /\ received < StepCount(TheLayout)
  /\ received' = received + 1
  /\ UNCHANGED <<provider, timesteps>>

Next == Receive
Spec == Init /\ [][Next]_mvars

-----------------------------------------------------------------------------
(* A layout the provider generates always passes pattern::validate: the    *)
(* constructor never throws for validated delays, flattening and padding.  *)
LayoutIsPattern == IsPattern(TheLayout, Depth)

(* Reverting a prefix of the built sequence gives exactly the frames whose *)
(* step has arrived, each with its own payload and with the flat index     *)
(* that leads back to it; the whole sequence gives the tensor back.        *)
(* (pattern::build and pattern::revert.)                                   *)
PrefixReverts ==
  /\ \A f \in Frames :
       LET q == f[1]
           t == f[2]
           s == SoFar.indexes[q][t] - q * received
       IN IF \E r \in StepsOf(TheLayout, q, t) : r < received
          THEN /\ SoFar.values[q][t] = Frame(q, t)
               /\ Built.indexes[q][s] = t + q * timesteps
          ELSE SoFar.values[q][t] = Special
  /\ received = StepCount(TheLayout) => SoFar.values = Tensor

(* A frame of a later codebook never arrives before the same frame of an   *)
(* earlier one: what the delays are for.  (DelayedPatternProvider.)        *)
EarlierBooksLead ==
  \A q \in 1 .. Depth - 1, t \in 0 .. timesteps - 1 : Has(q, t) => Has(q - 1, t)

(* keep_only_valid_steps keeps the longest prefix of the layout that never *)
(* leaves the tensor.  (pattern::max_delay and pattern::valid_layout.)     *)
ValidLayoutIsLongestInside ==
  LET inside(s) == \A c \in TheLayout[s] : c.timestep < timesteps
      kept == DOMAIN ValidLayout(TheLayout, timesteps)
  IN \A s \in DOMAIN TheLayout : s \in kept <=> \A r \in 0 .. s : inside(r)
=============================================================================
