----------------------------- MODULE KvSessionMC ----------------------------
(***************************************************************************)
(* K/V sessions for TLC: token triples are interchangeable.                *)
(***************************************************************************)
EXTENDS KvSession, TLC

Symmetry == Permutations(Tokens)
=============================================================================
