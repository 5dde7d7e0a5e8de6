----------------------------- MODULE BlockCredits -----------------------------
(***************************************************************************)
(* The credits of KV blocks an Engine hands out: how many owners each      *)
(* block has.  A block nobody owns is free; WHICH free blocks a request    *)
(* gets is left open here (module BlockPool keeps the free stack of        *)
(* src/src/block_pool.cpp and is shown to implement this one).  The        *)
(* operators are the three calls of the pool as functions of the           *)
(* reference counts, and the Engine is built from them.                    *)
(***************************************************************************)
EXTENDS Naturals, Sequences, Functions

CONSTANT Blocks

\* A block table names each of its blocks once.
IsTable(t) == t \in Seq(Blocks) /\ IsInjective(t)

FreeBlocks(refs) == {b \in Blocks : refs[b] = 0}

\* validate_table(): every block of the table is in the pool and owned.
ValidTable(refs, t) == IsTable(t) /\ \A b \in Range(t) : refs[b] > 0

\* allocate(n): n different free blocks.
FreshTables(refs, n) == Injection(1..n, FreeBlocks(refs))

Allocated(refs, t) == [b \in Blocks |-> IF b \in Range(t) THEN 1 ELSE refs[b]]

Retained(refs, t) == [b \in Blocks |-> IF b \in Range(t) THEN refs[b] + 1 ELSE refs[b]]

\* Slips: a shared block is freed at once; the loop stops one block early.
ReleasedOutright(refs, t) == [b \in Blocks |-> IF b \in Range(t) THEN 0 ELSE refs[b]]
ReleasedButLast(refs, t) ==
  [b \in Blocks |-> IF \E i \in 1..(Len(t) - 1) : t[i] = b THEN refs[b] - 1 ELSE refs[b]]

Released(refs, t) == [b \in Blocks |-> IF b \in Range(t) THEN refs[b] - 1 ELSE refs[b]]
=============================================================================
