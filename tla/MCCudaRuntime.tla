---------------------------- MODULE MCCudaRuntime ----------------------------
(* Two sequences of at most three tokens, pages of two, and one page too few. *)
EXTENDS CudaRuntime, TLC

CONSTANTS s1, s2, p1, p2, p3, a, b, junk, none

MCSlots == {s1, s2}
MCPages == {p1, p2, p3}
MCTokens == {a, b}
Symmetry == Permutations(MCSlots) \cup Permutations(MCPages) \cup Permutations(MCTokens)
=============================================================================
