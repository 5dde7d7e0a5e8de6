----------------------------- MODULE MCCpuRuntime ----------------------------
(* Two sequences of at most four tokens, three pages of two tokens. *)
EXTENDS CpuRuntime, TLC

CONSTANTS s1, s2, p1, p2, p3, a, b

MCSlots == {s1, s2}
MCPages == {p1, p2, p3}
MCTokens == {a, b}
Symmetry == Permutations(MCSlots) \cup Permutations(MCPages) \cup Permutations(MCTokens)
=============================================================================
