------------------------------- MODULE BlockPool -------------------------------
(***************************************************************************)
(* The pool of src/src/block_pool.cpp, as its holders use it: a stack of   *)
(* free blocks, reference counts, and a validation of block tables that    *)
(* marks the blocks it has seen with the number of the call, a counter     *)
(* that wraps around.  Every call runs to its end on the worker thread.    *)
(***************************************************************************)
EXTENDS BlockCredits, FiniteSets

CONSTANTS Holders,      \* requests and cache entries
          EpochLimit,   \* 2^w, w being the width of validation_epoch_
          BadTables     \* tables of the calls that misuse the pool

ASSUME PoolAssumption ==
  /\ IsFiniteSet(Blocks) /\ Blocks = 0..(Cardinality(Blocks) - 1) /\ Blocks # {}
  /\ IsFiniteSet(Holders)
  /\ EpochLimit \in Nat /\ EpochLimit > 1
  /\ BadTables \subseteq Seq(Nat)

VARIABLES refs,   \* refs_
          free,   \* free_, its back is the end of the sequence
          seen,   \* seen_
          epoch,  \* validation_epoch_
          tables  \* the block table each holder keeps

vars == <<refs, free, seen, epoch, tables>>
Count == Cardinality(Blocks)

Init ==
  /\ refs = [b \in Blocks |-> 0]
  /\ free = [i \in 1..Count |-> Count - i]
  /\ seen = [b \in Blocks |-> 0]
  /\ epoch = 0
  /\ tables = [h \in Holders |-> <<>>]

-----------------------------------------------------------------------------
(***************************************************************************)
(* validate_table(): a new epoch, then block by block until one is bad.    *)
(***************************************************************************)
\* Slip: the counter wraps to the mark of a block never seen.
NewEpochUnreset == (epoch + 1) % EpochLimit
NewEpoch == IF epoch + 1 = EpochLimit THEN 1 ELSE epoch + 1

Marks == IF epoch + 1 = EpochLimit THEN [b \in Blocks |-> 0] ELSE seen

\* The i-th block of t is in the pool, held, and not marked, by an earlier
\* call or at an earlier place of t.
Good(t, i) ==
  /\ t[i] \in Blocks
  /\ refs[t[i]] > 0
  /\ Marks[t[i]] # NewEpoch
  /\ \A j \in 1..(i - 1) : t[j] # t[i]

Throws(t) == \E i \in 1..Len(t) : ~Good(t, i)

\* The blocks before the first bad one are marked.
Validate(t) ==
  /\ epoch' = NewEpoch
  /\ seen' = [b \in Blocks |->
                IF \E i \in 1..Len(t) : t[i] = b /\ \A j \in 1..i : Good(t, j)
                THEN NewEpoch ELSE Marks[b]]

-----------------------------------------------------------------------------
\* allocate(n), when n blocks are free: they come off the back of the stack.
Allocate(h, n) ==
  /\ n <= Len(free)
  /\ LET fresh == [i \in 1..n |-> free[Len(free) + 1 - i]]
     IN /\ tables' = [tables EXCEPT ![h] = @ \o fresh]
        /\ refs' = Allocated(refs, fresh)
  /\ free' = SubSeq(free, 1, Len(free) - n)
  /\ UNCHANGED <<seen, epoch>>

\* retain() of the first k blocks of another holder's table.
Share(h, other, k) ==
  /\ tables[h] = <<>>
  /\ k \in 1..Len(tables[other])
  /\ LET t == SubSeq(tables[other], 1, k)
     IN /\ Validate(t) /\ ~Throws(t)
        /\ tables' = [tables EXCEPT ![h] = t]
        /\ refs' = Retained(refs, t)
  /\ UNCHANGED free

\* The blocks of a set, in the order of the table.
InTableOrder(t, set) ==
  {f \in Bijection(1..Cardinality(set), set) :
     \A i, j \in DOMAIN f : i < j =>
       \E k, l \in DOMAIN t : k < l /\ t[k] = f[i] /\ t[l] = f[j]}

\* Slip: every block of the table is pushed, whoever else holds it.
FreedRegardless(t) == Range(t)
Freed(t) == {b \in Range(t) : refs[b] = 1}

\* release(): a block nobody holds any more goes onto the stack.
Release(h) ==
  /\ Validate(tables[h]) /\ ~Throws(tables[h])
  /\ \E pushed \in InTableOrder(tables[h], Freed(tables[h])) : free' = free \o pushed
  /\ refs' = Released(refs, tables[h])
  /\ tables' = [tables EXCEPT ![h] = <<>>]

\* retain() or release() of a table with an invalid, free or duplicate
\* block: std::logic_error, before any count changes.
Misuse(t) ==
  /\ Throws(t)
  /\ Validate(t)
  /\ UNCHANGED <<refs, free, tables>>

Next ==
  \/ \E h \in Holders : \/ \E n \in 1..Count : Allocate(h, n)
                        \/ \E other \in Holders, k \in 1..Count : Share(h, other, k)
                        \/ Release(h)
  \/ \E t \in BadTables : Misuse(t)

Spec == Init /\ [][Next]_vars

-----------------------------------------------------------------------------
TypeOK ==
  /\ refs \in [Blocks -> Nat]
  /\ free \in Seq(Blocks)
  /\ seen \in [Blocks -> Nat]
  /\ epoch \in 0..(EpochLimit - 1)
  /\ tables \in [Holders -> Seq(Blocks)]

\* A block has as many references as holders that list it, and each lists it
\* once; the free stack holds exactly the others, once each.
ReferencesAreExact ==
  /\ \A b \in Blocks : refs[b] = Cardinality({h \in Holders : b \in Range(tables[h])})
  /\ \A h \in Holders : IsInjective(tables[h])
  /\ IsInjective(free) /\ Range(free) = FreeBlocks(refs)

\* The marks of earlier calls, of calls that threw halfway, and of calls
\* before the counter wrapped never condemn a good table nor pass a bad one.
ValidationIsExact ==
  \A t \in BadTables \cup Range(tables) : Throws(t) <=> ~ValidTable(refs, t)

\* The pool with its stack and marks does what a pool promises.
Credits == INSTANCE CreditPool
ImplementsCreditPool == Credits!Spec
=============================================================================
