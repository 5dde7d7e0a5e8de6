------------------------------ MODULE CreditPool ------------------------------
(***************************************************************************)
(* What a pool of blocks promises its owners: fresh blocks belong to       *)
(* nobody else, a block lives until its last owner has released it, and    *)
(* nothing else ever changes.  Which free blocks an owner gets is open.    *)
(***************************************************************************)
EXTENDS BlockCredits, FiniteSets

CONSTANT Holders    \* requests and cache entries: whoever keeps a block table

VARIABLES refs,     \* how many holders each block has
          tables    \* the table each holder keeps

vars == <<refs, tables>>

Init ==
  /\ refs = [b \in Blocks |-> 0]
  /\ tables = [h \in Holders |-> <<>>]

\* Fresh blocks go behind those the holder has.
Allocate(h) ==
  \E n \in 0..Cardinality(FreeBlocks(refs)) : \E fresh \in FreshTables(refs, n) :
    /\ tables' = [tables EXCEPT ![h] = @ \o fresh]
    /\ refs' = Allocated(refs, fresh)

\* A holder of nothing shares the first k blocks of another.
Share(h, other) ==
  /\ tables[h] = <<>>
  /\ \E k \in 1..Len(tables[other]) :
       /\ tables' = [tables EXCEPT ![h] = SubSeq(tables[other], 1, k)]
       /\ refs' = Retained(refs, SubSeq(tables[other], 1, k))

Release(h) ==
  /\ tables' = [tables EXCEPT ![h] = <<>>]
  /\ refs' = Released(refs, tables[h])

Next == \E h \in Holders : \/ Allocate(h) \/ Release(h)
                           \/ \E other \in Holders : Share(h, other)

Spec == Init /\ [][Next]_vars
=============================================================================
