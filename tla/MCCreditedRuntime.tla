-------------------------- MODULE MCCreditedRuntime --------------------------
(* Two requests and a cached prefix, of at most five tokens, over four pages *)
(* of two tokens: too few for both requests at their longest.               *)
EXTENDS CreditedRuntime, TLC

CONSTANTS s1, s2, c1, p1, p2, p3, p4, t

MCSlots == {s1, s2, c1}
MCCacheSlots == {c1}
MCPages == {p1, p2, p3, p4}
MCTokens == {t}
MCBlocks == 1..4
Symmetry == Permutations({s1, s2}) \cup Permutations(MCPages)
=============================================================================
