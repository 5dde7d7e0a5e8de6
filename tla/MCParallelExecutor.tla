------------------------- MODULE MCParallelExecutor -------------------------
(***************************************************************************)
(* Two helpers and a few ranges: fewer chunks than threads, more, a last   *)
(* chunk cut short, and the two degenerate calls.                          *)
(***************************************************************************)
EXTENDS ParallelExecutor

MCCalls == {[count |-> 0, grain |-> 1], [count |-> 1, grain |-> 0],
            [count |-> 1, grain |-> 2], [count |-> 5, grain |-> 2]}
=============================================================================
