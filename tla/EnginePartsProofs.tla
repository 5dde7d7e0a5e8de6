-------------------------- MODULE EnginePartsProofs --------------------------
(***************************************************************************)
(* The Engine's accounts and its texts.  The pool, for any number of       *)
(* blocks and holders, any width of the validation counter and any misuse: *)
(* its counts and its free stack are exact, its marks never condemn a good *)
(* table nor pass a bad one, and it implements CreditPool.  The index of   *)
(* prefixes, for any tokens, lists and block size: the trie holds the      *)
(* paths of its entries and nothing else, a match is the longest there is, *)
(* no two entries were last used at the same time, and it implements       *)
(* PrefixCacheSpec.  The text of a request, for any byte strings as its    *)
(* tokens: what is sent is what the bytes mean as a whole.  The plan of a  *)
(* batch: there is always one, and it wastes nothing.                      *)
(***************************************************************************)
EXTENDS Scheduler, BlockPool, PrefixIndex, TextStream, CommonLemmas

\* No mark is of a call still to come.
MarksAreOld == \A b \in Blocks : seen[b] <= epoch

IInv == TypeOK /\ ReferencesAreExact /\ MarksAreOld

HoldersOf(b) == {h \in Holders : b \in Range(tables[h])}

-----------------------------------------------------------------------------
(***************************************************************************)
(* validate_table().                                                       *)
(***************************************************************************)
\* The number of a new call is on no block, also when the counter wraps.
LEMMA EpochIsNew ==
  ASSUME TypeOK, MarksAreOld
  PROVE  /\ NewEpoch \in 1..(EpochLimit - 1)
         /\ Marks \in [Blocks -> Nat]
         /\ \A b \in Blocks : Marks[b] < NewEpoch
  BY PoolAssumption DEF TypeOK, MarksAreOld, NewEpoch, Marks

\* So a table is bad exactly when it is not a table of blocks in use.
LEMMA ThrowsIsExact ==
  ASSUME TypeOK, MarksAreOld, NEW t \in Seq(Nat)
  PROVE  Throws(t) <=> ~ValidTable(refs, t)
<1>1. Len(t) \in Nat /\ DOMAIN t = 1..Len(t)
  BY LenProperties
<1>2. ASSUME ~Throws(t) PROVE ValidTable(refs, t)
  <2>1. \A i \in 1..Len(t) : Good(t, i)
    BY <1>2 DEF Throws
  <2>2. \A i \in 1..Len(t) : t[i] \in Blocks /\ refs[t[i]] > 0
    BY <2>1 DEF Good
  <2>3. t \in Seq(Blocks)
    BY <1>1, <2>2, LenProperties
  <2>4. ASSUME NEW i \in DOMAIN t, NEW j \in DOMAIN t, t[i] = t[j] PROVE i = j
    <3>1. ~(i < j) /\ ~(j < i)
      BY <1>1, <2>1, <2>4 DEF Good
    <3>2. QED
      BY <1>1, <3>1
  <2>5. QED
    BY <1>1, <2>2, <2>3, <2>4 DEF ValidTable, IsTable, IsInjective, Range
<1>3. ASSUME ValidTable(refs, t), NEW i \in 1..Len(t) PROVE Good(t, i)
  <2>1. t[i] \in Blocks /\ refs[t[i]] > 0
    BY <1>1, <1>3 DEF ValidTable, IsTable, Range
  <2>2. Marks[t[i]] # NewEpoch
    BY <2>1, EpochIsNew
  <2>3. \A j \in 1..(i - 1) : t[j] # t[i]
    BY <1>1, <1>3 DEF ValidTable, IsTable, IsInjective
  <2>4. QED
    BY <2>1, <2>2, <2>3 DEF Good
<1>4. QED
  BY <1>2, <1>3 DEF Throws

\* A validation leaves no mark of a call to come.
LEMMA ValidateKeepsMarks ==
  ASSUME TypeOK, MarksAreOld, NEW t, Validate(t)
  PROVE  /\ epoch' \in 0..(EpochLimit - 1)
         /\ seen' \in [Blocks -> Nat]
         /\ MarksAreOld'
  BY EpochIsNew, PoolAssumption DEF Validate, MarksAreOld

LEMMA HoldersAreFinite ==
  ASSUME NEW b PROVE IsFiniteSet(HoldersOf(b))
  BY PoolAssumption, FS_Subset DEF HoldersOf

-----------------------------------------------------------------------------
LEMMA InitIInv == Init => IInv
<1> SUFFICES ASSUME Init PROVE IInv
  OBVIOUS
<1> USE DEF Init
<1>1. Count \in Nat /\ Blocks = 0..(Count - 1)
  BY PoolAssumption, FS_CardinalityType DEF Count
<1>2. free \in [1..Count -> Blocks] /\ free \in Seq(Blocks) /\ DOMAIN free = 1..Count
  BY <1>1
<1>3. TypeOK
  BY <1>2, PoolAssumption DEF TypeOK
<1>4. ASSUME NEW b \in Blocks PROVE refs[b] = Cardinality(HoldersOf(b))
  <2>1. HoldersOf(b) = {}
    BY DEF HoldersOf, Range
  <2>2. QED
    BY <2>1, FS_EmptySet
<1>5. IsInjective(free)
  BY <1>1 DEF IsInjective
<1>6. Range(free) = FreeBlocks(refs)
  <2>1. Range(free) \subseteq Blocks /\ FreeBlocks(refs) = Blocks
    BY <1>2 DEF Range, FreeBlocks
  <2>2. ASSUME NEW b \in Blocks PROVE b \in Range(free)
    <3>1. Count - b \in 1..Count /\ free[Count - b] = b
      BY <1>1
    <3>2. QED
      BY <1>2, <3>1 DEF Range
  <2>3. QED
    BY <2>1, <2>2
<1>7. \A h \in Holders : IsInjective(tables[h])
  BY DEF IsInjective
<1>8. ReferencesAreExact
  BY <1>4, <1>5, <1>6, <1>7 DEF ReferencesAreExact, HoldersOf
<1>9. MarksAreOld
  BY DEF MarksAreOld
<1>10. QED
  BY <1>3, <1>8, <1>9 DEF IInv

-----------------------------------------------------------------------------
\* What allocate() takes off the stack is a table of free blocks.
LEMMA FreshIsFree ==
  ASSUME IInv, NEW n \in Nat, n <= Len(free),
         NEW fresh, fresh = [i \in 1..n |-> free[Len(free) + 1 - i]]
  PROVE  /\ fresh \in Seq(Blocks) /\ DOMAIN fresh = 1..n
         /\ IsInjective(fresh)
         /\ Range(fresh) \subseteq FreeBlocks(refs)
         /\ Range(SubSeq(free, 1, Len(free) - n)) = Range(free) \ Range(fresh)
<1> DEFINE kept == SubSeq(free, 1, Len(free) - n)
<1>1. free \in Seq(Blocks) /\ Len(free) \in Nat /\ DOMAIN free = 1..Len(free)
  BY LenProperties DEF IInv, TypeOK
<1>2. IsInjective(free) /\ Range(free) = FreeBlocks(refs)
  BY DEF IInv, ReferencesAreExact
<1>3. \A i \in 1..n : Len(free) + 1 - i \in DOMAIN free /\ fresh[i] = free[Len(free) + 1 - i]
  BY <1>1
<1>4. fresh \in [1..n -> Blocks]
  BY <1>1, <1>3, ElementOfSeq
<1>5. IsInjective(fresh)
  <2>1. ASSUME NEW i \in 1..n, NEW j \in 1..n, fresh[i] = fresh[j] PROVE i = j
    <3>1. Len(free) + 1 - i = Len(free) + 1 - j
      BY <1>2, <1>3, <2>1 DEF IsInjective
    <3>2. QED
      BY <1>1, <3>1
  <2>2. QED
    BY <2>1, <1>4 DEF IsInjective
<1>6. Range(fresh) \subseteq Range(free)
  BY <1>3, <1>4 DEF Range
<1>7. /\ DOMAIN kept = 1..(Len(free) - n)
      /\ \A i \in 1..(Len(free) - n) : kept[i] = free[i] /\ i \in DOMAIN free
  BY <1>1, PrefixTable
<1> HIDE DEF kept
<1>8. ASSUME NEW b \in Range(kept) PROVE b \in Range(free) /\ b \notin Range(fresh)
  <2>1. PICK i \in 1..(Len(free) - n) : b = free[i] /\ i \in DOMAIN free
    BY <1>7 DEF Range
  <2>2. ASSUME NEW j \in 1..n, fresh[j] = b PROVE FALSE
    <3>1. Len(free) + 1 - j = i
      BY <1>2, <1>3, <2>1, <2>2 DEF IsInjective
    <3>2. QED
      BY <1>1, <3>1
  <2>3. QED
    BY <1>4, <2>1, <2>2 DEF Range
<1>9. ASSUME NEW b \in Range(free), b \notin Range(fresh) PROVE b \in Range(kept)
  <2>1. PICK i \in 1..Len(free) : b = free[i]
    BY <1>1 DEF Range
  <2>2. CASE i <= Len(free) - n
    BY <1>7, <2>1, <2>2 DEF Range
  <2>3. CASE i > Len(free) - n
    <3>1. Len(free) + 1 - i \in 1..n /\ fresh[Len(free) + 1 - i] = b
      BY <1>1, <2>1, <2>3
    <3>2. QED
      BY <1>4, <1>9, <3>1 DEF Range
  <2>4. QED
    BY <1>1, <2>1, <2>2, <2>3
<1>10. QED
  BY <1>1, <1>2, <1>4, <1>5, <1>6, <1>8, <1>9 DEF kept

\* A free block is in no table.
LEMMA FreeIsUnheld ==
  ASSUME IInv, NEW b \in FreeBlocks(refs), NEW h \in Holders
  PROVE  b \notin Range(tables[h])
<1>1. Cardinality(HoldersOf(b)) = 0
  BY DEF IInv, ReferencesAreExact, FreeBlocks, HoldersOf
<1>2. HoldersOf(b) = {}
  BY <1>1, HoldersAreFinite, FS_EmptySet
<1>3. QED
  BY <1>2 DEF HoldersOf

-----------------------------------------------------------------------------
(***************************************************************************)
(* The calls, one by one.                                                  *)
(***************************************************************************)
LEMMA AllocateIInv ==
  ASSUME IInv, NEW h \in Holders, NEW n \in 1..Count, Allocate(h, n)
  PROVE  IInv'
<1> DEFINE fresh == [i \in 1..n |-> free[Len(free) + 1 - i]]
<1>1. n \in Nat /\ n <= Len(free)
  BY PoolAssumption, FS_CardinalityType DEF Allocate, Count
<1>2. /\ tables' = [tables EXCEPT ![h] = @ \o fresh]
      /\ refs' = Allocated(refs, fresh)
      /\ free' = SubSeq(free, 1, Len(free) - n)
      /\ UNCHANGED <<seen, epoch>>
  BY DEF Allocate
<1>3. /\ fresh \in Seq(Blocks) /\ IsInjective(fresh)
      /\ Range(fresh) \subseteq FreeBlocks(refs)
      /\ Range(SubSeq(free, 1, Len(free) - n)) = Range(free) \ Range(fresh)
  BY <1>1, FreshIsFree
<1> HIDE DEF fresh
<1>4. /\ refs \in [Blocks -> Nat] /\ free \in Seq(Blocks) /\ Len(free) \in Nat
      /\ tables \in [Holders -> Seq(Blocks)]
      /\ \A x \in Holders : IsInjective(tables[x])
      /\ IsInjective(free) /\ Range(free) = FreeBlocks(refs)
      /\ \A b \in Blocks : refs[b] = Cardinality(HoldersOf(b))
  BY LenProperties DEF IInv, TypeOK, ReferencesAreExact, HoldersOf
<1>5. free' \in Seq(Blocks) /\ IsInjective(free') /\ Range(free') = Range(free) \ Range(fresh)
  BY <1>1, <1>2, <1>3, <1>4, PrefixTable
<1>6. refs' \in [Blocks -> Nat] /\ FreeBlocks(refs') = Range(free')
  BY <1>2, <1>3, <1>4, <1>5 DEF Allocated, FreeBlocks
<1>7. /\ tables[h] \o fresh \in Seq(Blocks)
      /\ Range(tables[h] \o fresh) = Range(tables[h]) \cup Range(fresh)
      /\ IsInjective(tables[h] \o fresh)
  <2>1. Range(tables[h]) \cap Range(fresh) = {}
    BY <1>3, FreeIsUnheld
  <2>2. QED
    BY <1>3, <1>4, <2>1, ConcatTables
<1>8. /\ tables' \in [Holders -> Seq(Blocks)]
      /\ \A x \in Holders : IsInjective(tables'[x])
  BY <1>2, <1>4, <1>7
<1>9. ASSUME NEW b \in Blocks PROVE refs'[b] = Cardinality(HoldersOf(b)')
  <2>1. CASE b \in Range(fresh)
    <3>1. HoldersOf(b)' = {h}
      <4>1. \A x \in Holders : b \notin Range(tables[x])
        BY <1>3, <2>1, FreeIsUnheld
      <4>2. \A x \in Holders : b \in Range(tables'[x]) <=> x = h
        BY <1>2, <1>4, <1>7, <2>1, <4>1
      <4>3. QED
        BY <4>2 DEF HoldersOf
    <3>2. refs'[b] = 1
      BY <1>2, <2>1 DEF Allocated
    <3>3. QED
      BY <3>1, <3>2, FS_Singleton
  <2>2. CASE b \notin Range(fresh)
    <3>1. \A x \in Holders : b \in Range(tables'[x]) <=> b \in Range(tables[x])
      BY <1>2, <1>4, <1>7, <2>2
    <3>2. HoldersOf(b)' = HoldersOf(b)
      BY <3>1 DEF HoldersOf
    <3>3. QED
      BY <1>2, <1>4, <2>2, <3>2 DEF Allocated
  <2>3. QED
    BY <2>1, <2>2
<1>10. TypeOK'
  BY <1>2, <1>5, <1>6, <1>8 DEF IInv, TypeOK
<1>11. ReferencesAreExact'
  BY <1>5, <1>6, <1>8, <1>9 DEF ReferencesAreExact, HoldersOf
<1>12. MarksAreOld'
  BY <1>2 DEF IInv, MarksAreOld
<1>13. QED
  BY <1>10, <1>11, <1>12 DEF IInv

LEMMA ShareIInv ==
  ASSUME IInv, NEW h \in Holders, NEW other \in Holders, NEW k \in 1..Count,
         Share(h, other, k)
  PROVE  IInv'
<1> DEFINE t == SubSeq(tables[other], 1, k)
<1>1. /\ tables[h] = <<>> /\ k \in 1..Len(tables[other])
      /\ Validate(t) /\ ~Throws(t)
      /\ tables' = [tables EXCEPT ![h] = t]
      /\ refs' = Retained(refs, t)
      /\ free' = free
  BY DEF Share
<1>2. /\ refs \in [Blocks -> Nat] /\ free \in Seq(Blocks)
      /\ tables \in [Holders -> Seq(Blocks)]
      /\ \A x \in Holders : IsInjective(tables[x])
      /\ IsInjective(free) /\ Range(free) = FreeBlocks(refs)
      /\ \A b \in Blocks : refs[b] = Cardinality(HoldersOf(b))
  BY DEF IInv, TypeOK, ReferencesAreExact, HoldersOf
<1>3. k \in 0..Len(tables[other])
  BY <1>1
<1>4. t \in Seq(Blocks) /\ IsInjective(t)
  BY <1>2, <1>3, PrefixTable
<1> HIDE DEF t
<1>5. \A b \in Range(t) : refs[b] > 0
  <2>1. Blocks \subseteq Nat
    BY PoolAssumption, FS_CardinalityType
  <2>2. t \in Seq(Nat)
    BY <1>4, <2>1, SeqMonotonic
  <2>3. QED
    BY <1>1, <2>2, ThrowsIsExact DEF IInv, ValidTable
<1>6. refs' \in [Blocks -> Nat] /\ FreeBlocks(refs') = FreeBlocks(refs)
  BY <1>1, <1>2, <1>5 DEF Retained, FreeBlocks
<1>7. /\ tables' \in [Holders -> Seq(Blocks)]
      /\ \A x \in Holders : IsInjective(tables'[x])
  BY <1>1, <1>2, <1>4
<1>8. ASSUME NEW b \in Blocks PROVE refs'[b] = Cardinality(HoldersOf(b)')
  <2>1. b \notin Range(tables[h])
    BY <1>1 DEF Range
  <2>2. CASE b \in Range(t)
    <3>1. \A x \in Holders : b \in Range(tables'[x]) <=> x = h \/ b \in Range(tables[x])
      BY <1>1, <1>2, <2>2
    <3>2. HoldersOf(b)' = HoldersOf(b) \cup {h} /\ h \notin HoldersOf(b)
      BY <2>1, <3>1 DEF HoldersOf
    <3>3. Cardinality(HoldersOf(b)') = Cardinality(HoldersOf(b)) + 1
      BY <3>2, HoldersAreFinite, OneMore
    <3>4. QED
      BY <1>1, <1>2, <2>2, <3>3 DEF Retained
  <2>3. CASE b \notin Range(t)
    <3>1. \A x \in Holders : b \in Range(tables'[x]) <=> b \in Range(tables[x])
      BY <1>1, <1>2, <2>1, <2>3
    <3>2. HoldersOf(b)' = HoldersOf(b)
      BY <3>1 DEF HoldersOf
    <3>3. QED
      BY <1>1, <1>2, <2>3, <3>2 DEF Retained
  <2>4. QED
    BY <2>2, <2>3
<1>9. TypeOK' /\ MarksAreOld'
  BY <1>1, <1>2, <1>6, <1>7, ValidateKeepsMarks DEF IInv, TypeOK
<1>10. ReferencesAreExact'
  BY <1>1, <1>2, <1>6, <1>7, <1>8 DEF ReferencesAreExact, HoldersOf
<1>11. QED
  BY <1>9, <1>10 DEF IInv

LEMMA ReleaseIInv ==
  ASSUME IInv, NEW h \in Holders, Release(h)
  PROVE  IInv'
<1> DEFINE t == tables[h]
           freed == Freed(tables[h])
<1>1. PICK pushed \in InTableOrder(t, freed) : free' = free \o pushed
  BY DEF Release
<1>2. /\ Validate(t) /\ ~Throws(t)
      /\ refs' = Released(refs, t)
      /\ tables' = [tables EXCEPT ![h] = <<>>]
  BY DEF Release
<1>3. /\ refs \in [Blocks -> Nat] /\ free \in Seq(Blocks)
      /\ tables \in [Holders -> Seq(Blocks)]
      /\ \A x \in Holders : IsInjective(tables[x])
      /\ IsInjective(free) /\ Range(free) = FreeBlocks(refs)
      /\ \A b \in Blocks : refs[b] = Cardinality(HoldersOf(b))
  BY DEF IInv, TypeOK, ReferencesAreExact, HoldersOf
<1>4. Range(t) \subseteq Blocks /\ IsFiniteSet(freed) /\ freed \subseteq Range(t)
  <2>1. t \in Seq(Blocks)
    BY <1>3
  <2>2. Range(t) \subseteq Blocks
    BY <2>1, LenProperties, ElementOfSeq DEF Range
  <2>3. QED
    BY <2>2, PoolAssumption, FS_Subset DEF Freed
<1>5. freed = {b \in Range(t) : refs[b] = 1}
  BY DEF Freed
<1> HIDE DEF freed, t
<1>6. pushed \in Seq(Blocks) /\ IsInjective(pushed) /\ Range(pushed) = freed
  <2>1. /\ pushed \in [1..Cardinality(freed) -> freed] /\ IsInjective(pushed)
        /\ \A b \in freed : \E i \in 1..Cardinality(freed) : pushed[i] = b
    BY DEF InTableOrder, Bijection, Injection, Surjection
  <2>2. Cardinality(freed) \in Nat
    BY <1>4, FS_CardinalityType
  <2>3. pushed \in [1..Cardinality(freed) -> Blocks]
    BY <1>4, <2>1
  <2>4. pushed \in Seq(Blocks)
    BY <2>2, <2>3
  <2>5. QED
    BY <2>1, <2>4 DEF Range
<1>7. ASSUME NEW b \in Range(t) PROVE refs[b] > 0
  <2>1. h \in HoldersOf(b) /\ IsFiniteSet(HoldersOf(b))
    BY <1>7, HoldersAreFinite DEF HoldersOf, t
  <2>2. QED
    BY <1>3, <1>4, <2>1, OneLess
<1>8. refs' \in [Blocks -> Nat]
  BY <1>2, <1>3, <1>7 DEF Released
<1>9. FreeBlocks(refs') = FreeBlocks(refs) \cup freed
  BY <1>2, <1>3, <1>4, <1>5, <1>7 DEF Released, FreeBlocks
<1>10. /\ free' \in Seq(Blocks) /\ IsInjective(free')
       /\ Range(free') = FreeBlocks(refs')
  <2>1. Range(free) \cap Range(pushed) = {}
    BY <1>3, <1>5, <1>6 DEF FreeBlocks
  <2>2. QED
    BY <1>1, <1>3, <1>6, <1>9, <2>1, ConcatTables
<1>11. /\ tables' \in [Holders -> Seq(Blocks)]
       /\ \A x \in Holders : IsInjective(tables'[x])
  BY <1>2, <1>3 DEF IsInjective
<1>12. ASSUME NEW b \in Blocks PROVE refs'[b] = Cardinality(HoldersOf(b)')
  <2>1. \A x \in Holders :
          b \in Range(tables'[x]) <=> x # h /\ b \in Range(tables[x])
    BY <1>2, <1>3 DEF Range
  <2>2. HoldersOf(b)' = HoldersOf(b) \ {h}
    BY <2>1 DEF HoldersOf
  <2>3. CASE b \in Range(t)
    <3>1. h \in HoldersOf(b)
      BY <2>3 DEF HoldersOf, t
    <3>2. Cardinality(HoldersOf(b)') = Cardinality(HoldersOf(b)) - 1
      BY <2>2, <3>1, HoldersAreFinite, OneLess
    <3>3. QED
      BY <1>2, <1>3, <2>3, <3>2 DEF Released
  <2>4. CASE b \notin Range(t)
    <3>1. HoldersOf(b)' = HoldersOf(b)
      BY <2>2, <2>4 DEF HoldersOf, t
    <3>2. QED
      BY <1>2, <1>3, <2>4, <3>1 DEF Released
  <2>5. QED
    BY <2>3, <2>4
<1>13. TypeOK' /\ MarksAreOld'
  BY <1>2, <1>8, <1>10, <1>11, ValidateKeepsMarks DEF IInv, TypeOK
<1>14. ReferencesAreExact'
  BY <1>10, <1>11, <1>12 DEF ReferencesAreExact, HoldersOf
<1>15. QED
  BY <1>13, <1>14 DEF IInv

LEMMA MisuseIInv ==
  ASSUME IInv, NEW t, Misuse(t)
  PROVE  IInv'
<1>1. Validate(t) /\ UNCHANGED <<refs, free, tables>>
  BY DEF Misuse
<1>2. TypeOK' /\ MarksAreOld'
  BY <1>1, ValidateKeepsMarks DEF IInv, TypeOK
<1>3. ReferencesAreExact'
  BY <1>1 DEF IInv, ReferencesAreExact
<1>4. QED
  BY <1>2, <1>3 DEF IInv

LEMMA NextIInv == IInv /\ [Next]_vars => IInv'
<1> SUFFICES ASSUME IInv, [Next]_vars PROVE IInv'
  OBVIOUS
<1>1. CASE UNCHANGED vars
  BY <1>1 DEF vars, IInv, TypeOK, ReferencesAreExact, MarksAreOld
<1>2. CASE Next
  BY <1>2, AllocateIInv, ShareIInv, ReleaseIInv, MisuseIInv DEF Next
<1>3. QED
  BY <1>1, <1>2

LEMMA IInvHolds == Spec => []IInv
  BY InitIInv, NextIInv, PTL DEF Spec

-----------------------------------------------------------------------------
\* Type correctness: among the rest, the epoch never outgrows its width.
THEOREM TypeCorrect == Spec => []TypeOK
  BY IInvHolds, PTL DEF IInv

\* refs_ counts the holders of each block, and free_ holds the others, once each.
THEOREM ReferencesExact == Spec => []ReferencesAreExact
  BY IInvHolds, PTL DEF IInv

\* validate_table() condemns a table exactly when it is not one of
\* different blocks in use, whatever it has marked before, at any width.
THEOREM ValidationExact == Spec => []ValidationIsExact
<1>1. IInv => ValidationIsExact
  <2> SUFFICES ASSUME IInv, NEW t \in BadTables \cup Range(tables)
               PROVE  Throws(t) <=> ~ValidTable(refs, t)
    BY DEF ValidationIsExact
  <2>1. Blocks \subseteq Nat
    BY PoolAssumption, FS_CardinalityType
  <2>2. Range(tables) \subseteq Seq(Nat)
    <3>1. Seq(Blocks) \subseteq Seq(Nat)
      BY <2>1, SeqMonotonic
    <3>2. QED
      BY <3>1 DEF IInv, TypeOK, Range
  <2>3. t \in Seq(Nat)
    BY <2>2, PoolAssumption
  <2>4. QED
    BY <2>3, ThrowsIsExact DEF IInv
<1>2. QED
  BY <1>1, IInvHolds, PTL

-----------------------------------------------------------------------------
(***************************************************************************)
(* The pool implements CreditPool.                                         *)
(***************************************************************************)
LEMMA InitRefines == Init => Credits!Init
  BY DEF Init, Credits!Init

LEMMA AllocateRefines ==
  ASSUME IInv, NEW h \in Holders, NEW n \in 1..Count, Allocate(h, n)
  PROVE  Credits!Allocate(h)
<1> DEFINE fresh == [i \in 1..n |-> free[Len(free) + 1 - i]]
<1>1. n \in Nat /\ n <= Len(free)
  BY PoolAssumption, FS_CardinalityType DEF Allocate, Count
<1>2. tables' = [tables EXCEPT ![h] = @ \o fresh] /\ refs' = Allocated(refs, fresh)
  BY DEF Allocate
<1>3. /\ fresh \in Seq(Blocks) /\ DOMAIN fresh = 1..n /\ IsInjective(fresh)
      /\ Range(fresh) \subseteq FreeBlocks(refs)
  BY <1>1, FreshIsFree
<1>4. fresh \in [1..n -> FreeBlocks(refs)]
  <2>1. \A i \in 1..n : fresh[i] \in FreeBlocks(refs)
    BY <1>3 DEF Range
  <2>2. QED
    BY <2>1
<1> HIDE DEF fresh
<1>5. fresh \in Injection(1..n, FreeBlocks(refs))
  BY <1>3, <1>4 DEF Injection
<1>6. n <= Cardinality(FreeBlocks(refs)) /\ Cardinality(FreeBlocks(refs)) \in Nat
  <2>1. IsFiniteSet(FreeBlocks(refs))
    BY PoolAssumption, FS_Subset DEF FreeBlocks
  <2>2. Cardinality(1..n) = n
    BY <1>1, FS_Interval
  <2>3. QED
    BY <1>5, <2>1, <2>2, FS_Injection, FS_CardinalityType
<1>7. n \in 0..Cardinality(FreeBlocks(refs))
  BY <1>1, <1>6
<1>8. QED
  BY <1>2, <1>5, <1>7
     DEF Allocated, FreeBlocks, Injection, IsInjective, Range,
         Credits!Allocate, Credits!FreshTables, Credits!FreeBlocks, Credits!Allocated,
         Credits!Injection, Credits!IsInjective, Credits!Range, Credits!Cardinality, Cardinality

LEMMA NextRefines == IInv /\ [Next]_vars => [Credits!Next]_Credits!vars
<1> SUFFICES ASSUME IInv, [Next]_vars PROVE [Credits!Next]_Credits!vars
  OBVIOUS
<1>1. CASE UNCHANGED vars
  BY <1>1 DEF vars, Credits!vars
<1>2. ASSUME NEW h \in Holders, NEW n \in 1..Count, Allocate(h, n)
      PROVE  Credits!Next
  BY <1>2, AllocateRefines DEF Credits!Next
<1>3. ASSUME NEW h \in Holders, NEW other \in Holders, NEW k \in 1..Count,
             Share(h, other, k)
      PROVE  Credits!Next
  BY <1>3 DEF Share, Retained, Range,
                Credits!Share, Credits!Retained, Credits!Range, Credits!Next
<1>4. ASSUME NEW h \in Holders, Release(h) PROVE Credits!Next
  BY <1>4 DEF Release, Released, Range,
                Credits!Release, Credits!Released, Credits!Range, Credits!Next
<1>5. ASSUME NEW t, Misuse(t) PROVE UNCHANGED Credits!vars
  BY <1>5 DEF Misuse, Credits!vars
<1>6. QED
  BY <1>1, <1>2, <1>3, <1>4, <1>5 DEF Next

\* The stack and the marks keep the promise of a pool: fresh blocks are
\* nobody's, and a block lives until its last holder releases it.
THEOREM PoolImplementsCredits == Spec => ImplementsCreditPool
  BY InitRefines, NextRefines, IInvHolds, PTL
     DEF Spec, ImplementsCreditPool, Credits!Spec

-----------------------------------------------------------------------------
(***************************************************************************)
(* Paths of the trie.                                                      *)
(***************************************************************************)
Tokens == UNION {Range(tokens) : tokens \in Lists}
Entry == [ns : Namespaces, tokens : Lists, last_used : Nat]
PathOf(s) == Path(entries[s].ns, entries[s].tokens)

EntriesAreGood ==
  /\ DOMAIN entries \subseteq CacheSequences /\ clock \in Nat
  /\ \A s \in DOMAIN entries : entries[s] \in Entry

LEMMA ListsAreSeqs == ASSUME NEW t \in Lists PROVE t \in Seq(Tokens) /\ Len(t) \in Nat
BY IndexAssumption, LenProperties DEF Tokens

\* The first tokens of the first tokens.
LEMMA PrefixOfPrefix ==
  ASSUME NEW t \in Lists, NEW k \in 0..Len(t), NEW j \in 0..k
  PROVE  SubSeq(SubSeq(t, 1, k), 1, j) = SubSeq(t, 1, j) /\ Len(SubSeq(t, 1, k)) = k
<1>1. t \in Seq(Tokens) /\ Len(t) \in Nat
  BY ListsAreSeqs
<1>2. PICK u : u = SubSeq(t, 1, k)
  OBVIOUS
<1>3. u \in Seq(Tokens) /\ Len(u) = k /\ \A i \in 1..k : u[i] = t[i]
  BY <1>1, <1>2, PrefixTable
<1>4. PICK v : v = SubSeq(u, 1, j)
  OBVIOUS
<1>5. v \in Seq(Tokens) /\ Len(v) = j /\ \A i \in 1..j : v[i] = u[i]
  BY <1>3, <1>4, PrefixTable
<1>6. PICK w : w = SubSeq(t, 1, j)
  OBVIOUS
<1>7. w \in Seq(Tokens) /\ Len(w) = j /\ \A i \in 1..j : w[i] = t[i]
  BY <1>1, <1>6, PrefixTable
<1>8. v = w
  BY <1>3, <1>5, <1>7, SeqEqual
<1>9. QED
  BY <1>2, <1>3, <1>4, <1>6, <1>8

LEMMA SameNode ==
  ASSUME NEW ns, NEW mine, NEW t \in Lists, NEW u \in Lists, NEW j \in 0..Len(t), NEW k \in 0..Len(u),
         Node(ns, t, j) = Node(mine, u, k)
  PROVE  ns = mine /\ j = k /\ SubSeq(t, 1, j) = SubSeq(u, 1, j)
<1>1. Node(ns, t, j).ns = ns /\ Node(ns, t, j).path = SubSeq(t, 1, j)
  BY DEF Node
<1>2. Node(mine, u, k).ns = mine /\ Node(mine, u, k).path = SubSeq(u, 1, k)
  BY DEF Node
<1>3. Len(SubSeq(t, 1, j)) = j
  <2>1. j \in 0..j
    OBVIOUS
  <2>2. QED
    BY <2>1, PrefixOfPrefix
<1>4. Len(SubSeq(u, 1, k)) = k
  <2>1. k \in 0..k
    OBVIOUS
  <2>2. QED
    BY <2>1, PrefixOfPrefix
<1>5. QED
  BY <1>1, <1>2, <1>3, <1>4

\* A path that reaches a node goes through the nodes above it.
LEMMA PathGoesThrough ==
  ASSUME NEW ns, NEW mine, NEW t \in Lists, NEW u \in Lists, NEW n \in 0..Len(t), NEW j \in 0..n,
         Node(ns, t, n) \in Path(mine, u)
  PROVE  Node(ns, t, j) \in Path(mine, u)
<1>1. PICK k \in 0..Len(u) : Node(ns, t, n) = Node(mine, u, k)
  BY DEF Path
<1>2. ns = mine /\ n = k /\ SubSeq(t, 1, n) = SubSeq(u, 1, n)
  BY <1>1, SameNode
<1>3. SubSeq(SubSeq(t, 1, n), 1, j) = SubSeq(t, 1, j)
  BY PrefixOfPrefix
<1>4. SubSeq(SubSeq(u, 1, n), 1, j) = SubSeq(u, 1, j)
  BY <1>2, PrefixOfPrefix
<1>5. SubSeq(t, 1, j) = SubSeq(u, 1, j)
  BY <1>2, <1>3, <1>4
<1>6. Node(ns, t, j) = Node(mine, u, j) /\ j \in 0..Len(u)
  BY <1>2, <1>5, ListsAreSeqs DEF Node
<1>7. QED
  BY <1>6 DEF Path

\* A node is below another one exactly when every path to it goes through
\* that one.
LEMMA BelowMeans ==
  ASSUME NEW ns, NEW mine, NEW t \in Lists, NEW u \in Lists, NEW j \in 0..Len(t), NEW k \in 0..Len(u)
  PROVE  Below(Node(mine, u, k), Node(ns, t, j))
           <=> mine = ns /\ j <= k /\ SubSeq(t, 1, j) = SubSeq(u, 1, j)
<1>1. /\ Node(ns, t, j).ns = ns /\ Node(ns, t, j).path = SubSeq(t, 1, j)
      /\ Node(mine, u, k).ns = mine /\ Node(mine, u, k).path = SubSeq(u, 1, k)
  BY DEF Node
<1>2. Len(SubSeq(t, 1, j)) = j /\ SubSeq(SubSeq(t, 1, j), 1, j) = SubSeq(t, 1, j)
  <2>1. j \in 0..j
    OBVIOUS
  <2>2. QED
    BY <2>1, PrefixOfPrefix
<1>3. Len(SubSeq(u, 1, k)) = k
  <2>1. k \in 0..k
    OBVIOUS
  <2>2. QED
    BY <2>1, PrefixOfPrefix
<1>4. j <= k => SubSeq(SubSeq(u, 1, k), 1, j) = SubSeq(u, 1, j)
  <2>1. j <= k => j \in 0..k
    OBVIOUS
  <2>2. QED
    BY <2>1, PrefixOfPrefix
<1>5. QED
  BY <1>1, <1>2, <1>3, <1>4 DEF Below, IsPrefix

LEMMA PathBelow ==
  ASSUME NEW ns, NEW mine, NEW t \in Lists, NEW u \in Lists, NEW j \in 0..Len(t),
         NEW node \in Path(mine, u), Below(node, Node(ns, t, j))
  PROVE  Node(ns, t, j) \in Path(mine, u)
<1>1. PICK k \in 0..Len(u) : node = Node(mine, u, k)
  BY DEF Path
<1>2. mine = ns /\ j <= k /\ SubSeq(t, 1, j) = SubSeq(u, 1, j)
  <2>1. Below(Node(mine, u, k), Node(ns, t, j))
    BY <1>1
  <2>2. QED
    BY <2>1, BelowMeans
<1>3. Node(ns, t, j) = Node(mine, u, j) /\ j \in 0..Len(u)
  BY <1>2, ListsAreSeqs DEF Node
<1>4. QED
  BY <1>3 DEF Path

-----------------------------------------------------------------------------
(***************************************************************************)
(* insert() and erase().                                                   *)
(***************************************************************************)
LEMMA InsertKeeps ==
  ASSUME EntriesAreGood, TrieIsExact, NEW s \in CacheSequences, NEW ns \in Namespaces, NEW t \in Lists,
         Insert(s, ns, t)
  PROVE  EntriesAreGood' /\ TrieIsExact'
<1>1. /\ s \notin DOMAIN entries /\ clock' = clock + 1 /\ DOMAIN entries' = DOMAIN entries \cup {s}
      /\ entries'[s] = [ns |-> ns, tokens |-> t, last_used |-> clock']
      /\ \A x \in DOMAIN entries : entries'[x] = entries[x]
  BY DEF Insert, Insertable
<1>2. entries'[s] \in Entry /\ entries'[s].ns = ns /\ entries'[s].tokens = t
  BY <1>1 DEF EntriesAreGood, Entry
<1>3. EntriesAreGood'
  BY <1>1, <1>2 DEF EntriesAreGood
<1>4. /\ \A x \in DOMAIN entries : PathOf(x)' = PathOf(x)
      /\ PathOf(s)' = Path(ns, t)
  BY <1>1, <1>2 DEF PathOf, Path, Node
<1>5. /\ DOMAIN nodes = UNION {PathOf(x) : x \in DOMAIN entries}
      /\ \A node \in DOMAIN nodes : nodes[node] = {x \in DOMAIN entries : node \in PathOf(x)}
  BY DEF TrieIsExact, PathOf
<1>6. /\ DOMAIN nodes' = DOMAIN nodes \cup Path(ns, t)
      /\ \A node \in DOMAIN nodes' :
           nodes'[node] = OwnersOf(node) \cup (IF node \in Path(ns, t) THEN {s} ELSE {})
  BY DEF Insert, Joined
<1>7. \A node : OwnersOf(node) = {x \in DOMAIN entries : node \in PathOf(x)}
  BY <1>5 DEF OwnersOf
<1>8. DOMAIN nodes' = UNION {PathOf(x)' : x \in DOMAIN entries'}
  BY <1>1, <1>4, <1>5, <1>6
<1>9. ASSUME NEW node \in DOMAIN nodes'
      PROVE  nodes'[node] = {x \in DOMAIN entries' : node \in PathOf(x)'}
  BY <1>1, <1>4, <1>6, <1>7
<1>10. TrieIsExact'
  BY <1>8, <1>9 DEF TrieIsExact, PathOf
<1>11. QED
  BY <1>3, <1>10

\* What is cut is exactly what only the erased entry owned.
LEMMA EraseKeeps ==
  ASSUME EntriesAreGood, TrieIsExact, NEW s \in CacheSequences, Erase(s)
  PROVE  EntriesAreGood' /\ TrieIsExact'
<1>1. /\ s \in DOMAIN entries /\ clock' = clock /\ DOMAIN entries' = DOMAIN entries \ {s}
      /\ \A x \in DOMAIN entries' : entries'[x] = entries[x]
  BY DEF Erase, Restrict
<1>2. EntriesAreGood'
  BY <1>1 DEF EntriesAreGood
<1>3. PICK ns, t : ns = entries[s].ns /\ t = entries[s].tokens
  OBVIOUS
<1>4. t \in Lists /\ \A x \in DOMAIN entries : entries[x].tokens \in Lists
  BY <1>1, <1>3 DEF EntriesAreGood, Entry
<1>5. PICK left : left = Left(s, ns, t)
  OBVIOUS
<1>6. nodes' = Pruned(left, ns, t)
  BY <1>3, <1>5 DEF Erase
<1>7. /\ DOMAIN nodes = UNION {PathOf(x) : x \in DOMAIN entries}
      /\ \A node \in DOMAIN nodes : nodes[node] = {x \in DOMAIN entries : node \in PathOf(x)}
  BY DEF TrieIsExact, PathOf
<1>8. PathOf(s) = Path(ns, t)
  BY <1>3 DEF PathOf
<1>9. /\ DOMAIN left = DOMAIN nodes
      /\ \A node \in DOMAIN nodes : left[node] = {x \in DOMAIN entries' : node \in PathOf(x)}
  BY <1>1, <1>5, <1>7, <1>8 DEF Left
<1>10. PICK N \in Nat : N = Len(t)
  BY <1>4, ListsAreSeqs
<1>11. \A n \in 0..N : Node(ns, t, n) \in PathOf(s) /\ Node(ns, t, n) \in DOMAIN nodes
  BY <1>1, <1>7, <1>8, <1>10 DEF Path
<1>12. ASSUME NEW n \in 0..N, NEW k \in n..N, left[Node(ns, t, n)] = {} PROVE left[Node(ns, t, k)] = {}
  <2>1. SUFFICES ASSUME NEW x \in left[Node(ns, t, k)] PROVE FALSE
    OBVIOUS
  <2>2. k \in 0..N /\ n \in 0..k
    BY <1>10
  <2>3. x \in DOMAIN entries' /\ Node(ns, t, k) \in PathOf(x)
    BY <1>9, <1>11, <2>1, <2>2
  <2>4. Node(ns, t, n) \in PathOf(x)
    BY <1>1, <1>4, <1>10, <2>2, <2>3, PathGoesThrough DEF PathOf
  <2>5. x \in left[Node(ns, t, n)]
    BY <1>9, <1>11, <2>3, <2>4
  <2>6. QED
    BY <1>12, <2>5
<1> DEFINE bare == {n \in 0..Len(t) : \A k \in n..Len(t) : left[Node(ns, t, k)] = {}}
           Others == UNION {PathOf(x) : x \in DOMAIN entries'}
<1>13. bare = {n \in 0..N : left[Node(ns, t, n)] = {}}
  BY <1>10, <1>12
<1>14. DOMAIN nodes = Others \cup Path(ns, t)
  BY <1>1, <1>7, <1>8
<1>15. \A node \in DOMAIN nodes : left[node] # {} <=> node \in Others
  BY <1>9
<1>16. /\ DOMAIN nodes' = Others
       /\ \A node \in DOMAIN nodes' : nodes'[node] = left[node]
  <2>1. CASE bare = {}
    <3>1. nodes' = left
      BY <1>6, <2>1 DEF Pruned
    <3>2. \A n \in 0..N : Node(ns, t, n) \in Others
      BY <1>11, <1>13, <1>15, <2>1
    <3>3. Path(ns, t) \subseteq Others
      BY <1>10, <3>2 DEF Path
    <3>4. QED
      BY <1>9, <1>14, <3>1, <3>3
  <2>2. CASE bare # {}
    <3>1. PICK low : low = Min(bare)
      OBVIOUS
    <3>2. low \in bare /\ \A n \in bare : low <= n
      <4>1. bare \in SUBSET Nat
        BY <1>13
      <4>2. \E n \in bare : \A k \in bare : n <= k
        BY <2>2, <4>1, LeastExists
      <4> HIDE DEF bare
      <4>3. QED
        BY <3>1, <4>2 DEF Min
    <3>3. nodes' = Restrict(left, {node \in DOMAIN left : ~Below(node, Node(ns, t, low))})
      BY <1>6, <2>2, <3>1 DEF Pruned
    <3>4. low \in 0..N /\ left[Node(ns, t, low)] = {}
      BY <1>13, <3>2
    <3>5. ASSUME NEW node \in Others PROVE ~Below(node, Node(ns, t, low))
      <4>1. PICK x \in DOMAIN entries' : node \in PathOf(x)
        OBVIOUS
      <4>2. Below(node, Node(ns, t, low)) => Node(ns, t, low) \in PathOf(x)
        BY <1>1, <1>4, <1>10, <3>4, <4>1, PathBelow DEF PathOf
      <4>3. Node(ns, t, low) \notin Others
        BY <1>11, <1>15, <3>4
      <4>4. QED
        BY <4>2, <4>3
    <3>6. ASSUME NEW node \in Path(ns, t), node \notin Others PROVE Below(node, Node(ns, t, low))
      <4>1. PICK n \in 0..N : node = Node(ns, t, n)
        BY <1>10 DEF Path
      <4>2. n \in bare
        BY <1>11, <1>13, <1>15, <3>6, <4>1
      <4>3. low <= n
        BY <3>2, <4>2
      <4>4. QED
        BY <1>4, <1>10, <3>4, <4>1, <4>3, BelowMeans
    <3>7. {node \in DOMAIN left : ~Below(node, Node(ns, t, low))} = Others
      <4> HIDE DEF Others
      <4>1. QED
        BY <1>9, <1>14, <3>5, <3>6
    <3> HIDE DEF Others, bare
    <3>8. nodes' = Restrict(left, Others)
      BY <3>3, <3>7
    <3>9. QED
      BY <3>8 DEF Restrict
  <2>3. QED
    BY <2>1, <2>2
<1>17. \A x \in DOMAIN entries' : PathOf(x)' = PathOf(x)
  BY <1>1 DEF PathOf, Path, Node
<1>18. DOMAIN nodes' = UNION {PathOf(x)' : x \in DOMAIN entries'}
  BY <1>16, <1>17
<1>19. ASSUME NEW node \in DOMAIN nodes' PROVE nodes'[node] = {x \in DOMAIN entries' : node \in PathOf(x)'}
  BY <1>9, <1>14, <1>16, <1>17
<1>20. TrieIsExact'
  BY <1>18, <1>19 DEF TrieIsExact, PathOf
<1>21. QED
  BY <1>2, <1>20

-----------------------------------------------------------------------------
(***************************************************************************)
(* match().                                                                *)
(***************************************************************************)
MinimumIs(S, x) == x \in S /\ \A y \in S : x <= y

LEMMA LeastOf == ASSUME NEW S, S \subseteq Nat, S # {} PROVE MinimumIs(S, Min(S))
<1>1. \E x \in S : \A y \in S : x <= y
  BY LeastExists
<1>2. QED
  BY <1>1 DEF Min, MinimumIs

LEMMA GreatestIs ==
  ASSUME NEW S, S \subseteq Nat, NEW x \in S, \A y \in S : y <= x
  PROVE  Max(S) = x
<1>1. \A y \in S : x >= y
  OBVIOUS
<1>2. Max(S) \in S /\ \A y \in S : Max(S) >= y
  BY <1>1 DEF Max
<1>3. Max(S) >= x /\ x >= Max(S) /\ Max(S) \in Nat
  BY <1>1, <1>2
<1>4. QED
  BY <1>3

\* How far the trie knows the list.
Known(ns, t, n) == Node(ns, t, n) \in DOMAIN nodes

LEMMA KnownAbove ==
  ASSUME EntriesAreGood, TrieIsExact, NEW ns, NEW t \in Lists, NEW n \in 0..Len(t), Known(ns, t, n), NEW j \in 0..n
  PROVE  Known(ns, t, j)
<1>1. PICK s \in DOMAIN entries : Node(ns, t, n) \in PathOf(s)
  BY DEF Known, TrieIsExact, PathOf
<1>2. entries[s].tokens \in Lists
  BY DEF EntriesAreGood, Entry
<1>3. Node(ns, t, j) \in PathOf(s)
  BY <1>1, <1>2, PathGoesThrough DEF PathOf
<1>4. QED
  BY <1>3 DEF Known, TrieIsExact, PathOf

\* As far as the list is known and the limit allows.
LEMMA WalkedIs ==
  ASSUME EntriesAreGood, TrieIsExact, NEW ns, NEW t \in Lists, NEW limit \in Nat
  PROVE  LET w == Walked(ns, t, limit) IN
         /\ w \in 0..Len(t) /\ w <= limit
         /\ w # 0 => Known(ns, t, w)
         /\ \A n \in 1..Len(t) : n <= limit /\ Known(ns, t, n) => n <= w
<1>1. PICK L \in Nat : L = Len(t)
  BY ListsAreSeqs
<1>2. PICK l \in Nat : l = Min({L, limit}) /\ l <= L /\ l <= limit /\ l \in {L, limit}
  <2>1. MinimumIs({L, limit}, Min({L, limit}))
    BY LeastOf
  <2>2. QED
    BY <2>1 DEF MinimumIs
<1> DEFINE S == {0} \cup {n \in 0..l : \A k \in 0..n : Known(ns, t, k)}
<1>3. Walked(ns, t, limit) = Max(S)
  BY <1>1, <1>2 DEF Walked, Known
<1>4. PICK w \in S : \A n \in S : w >= n
  <2>1. S \in SUBSET Nat /\ 0 \in S /\ \A n \in S : n <= l
    OBVIOUS
  <2> HIDE DEF S
  <2>2. QED
    BY <2>1, GreatestExists
<1>5. Max(S) = w
  <2>1. S \subseteq Nat /\ \A n \in S : n <= w
    BY <1>4
  <2> HIDE DEF S
  <2>2. QED
    BY <2>1, GreatestIs
<1>6. w \in 0..L /\ w <= limit /\ (w # 0 => Known(ns, t, w))
  BY <1>2
<1>7. ASSUME NEW n \in 1..L, n <= limit, Known(ns, t, n) PROVE n <= w
  <2>1. n \in 0..l /\ n \in 0..Len(t)
    BY <1>1, <1>2, <1>7
  <2>2. \A k \in 0..n : Known(ns, t, k)
    BY <1>7, <2>1, KnownAbove
  <2>3. n \in S
    BY <2>1, <2>2
  <2>4. w \in Nat
    OBVIOUS
  <2> HIDE DEF S
  <2>5. QED
    BY <1>4, <2>3, <2>4
<1>8. QED
  BY <1>1, <1>3, <1>5, <1>6, <1>7

\* ... and the last boundary of a block there.
LEMMA ReusedIs ==
  ASSUME EntriesAreGood, TrieIsExact, NEW ns, NEW t \in Lists, NEW limit \in Nat
  PROVE  LET r == Reused(ns, t, limit) IN
         /\ r \in 0..Len(t) /\ r <= limit /\ r % BlockSize = 0
         /\ r # 0 => Known(ns, t, r)
         /\ \A n \in 1..Len(t) : n <= limit /\ n % BlockSize = 0 /\ Known(ns, t, n) => n <= r
<1>1. PICK w : w = Walked(ns, t, limit)
  OBVIOUS
<1>2. PICK L \in Nat : L = Len(t)
  BY ListsAreSeqs
<1>3. /\ w \in 0..L /\ w <= limit
      /\ w # 0 => Known(ns, t, w)
      /\ \A n \in 1..L : n <= limit /\ Known(ns, t, n) => n <= w
  BY <1>1, <1>2, WalkedIs
<1>4. PICK B \in Nat \ {0} : B = BlockSize
  BY IndexAssumption
<1>5. PICK q \in Nat, e \in 0..(B - 1) : e = w % B /\ w = B * q + e
  <2>1. w \in Nat
    BY <1>3
  <2>2. w \div B \in Nat /\ w % B \in 0..(B - 1) /\ w = B * (w \div B) + (w % B)
    BY <2>1
  <2>3. QED
    BY <2>2
<1>6. PICK r \in 0..w : r = w - e /\ r = B * q
  <2>1. PICK x \in Nat : x = B * q
    OBVIOUS
  <2>2. w = x + e
    BY <1>5, <2>1
  <2>3. w - e \in 0..w /\ w - e = x
    BY <2>2
  <2>4. QED
    BY <2>1, <2>3
<1>7. Reused(ns, t, limit) = r
  BY <1>1, <1>4, <1>5, <1>6 DEF Reused
<1>8. r % B = 0
  <2>1. r = B * q + 0 /\ 0 \in 0..(B - 1)
    BY <1>6
  <2>2. QED
    BY <2>1, QuotientIs
<1>9. r \in 0..L /\ r <= limit
  BY <1>3, <1>6
<1>10. r # 0 => Known(ns, t, r)
  BY <1>2, <1>3, <1>6, KnownAbove
<1>11. ASSUME NEW n \in 1..L, n <= limit, n % B = 0, Known(ns, t, n) PROVE n <= r
  <2>1. n <= w
    BY <1>3, <1>11
  <2>2. PICK p \in Nat : n = B * p
    <3>1. n \in Nat
      OBVIOUS
    <3>2. n \div B \in Nat /\ n = B * (n \div B) + (n % B)
      BY <3>1
    <3>3. QED
      BY <1>11, <3>2
  <2>3. B * p <= B * q + e /\ e < B
    BY <1>5, <2>1, <2>2
  <2>4. ~(p >= q + 1)
    <3>1. SUFFICES ASSUME p >= q + 1 PROVE FALSE
      OBVIOUS
    <3>2. (q + 1) * B <= p * B
      BY <3>1, TimesGrows
    <3>3. (q + 1) * B = B * q + B /\ p * B = B * p
      OBVIOUS
    <3>4. B * q \in Nat /\ B * p \in Nat
      OBVIOUS
    <3>5. QED
      BY <2>3, <3>2, <3>3, <3>4
  <2>5. p * B <= q * B
    BY <2>4, TimesGrows
  <2>6. QED
    BY <1>6, <2>2, <2>5
<1>12. QED
  BY <1>2, <1>4, <1>7, <1>8, <1>9, <1>10, <1>11

LEMMA MatchKeeps ==
  ASSUME EntriesAreGood, TrieIsExact, NEW ns \in Namespaces, NEW t \in Lists, NEW limit \in Limits, Match(ns, t, limit)
  PROVE  EntriesAreGood' /\ TrieIsExact'
<1>1. PICK n : n = Reused(ns, t, limit)
  OBVIOUS
<1>2. CASE n = 0
  <2>1. UNCHANGED <<nodes, entries, clock>>
    BY <1>1, <1>2 DEF Match
  <2>2. QED
    BY <2>1 DEF EntriesAreGood, TrieIsExact
<1>3. CASE n # 0
  <2>1. limit \in Nat
    BY IndexAssumption
  <2>2. Known(ns, t, n)
    BY <1>1, <1>3, <2>1, ReusedIs
  <2>3. PICK owners : owners = nodes[Node(ns, t, n)]
    OBVIOUS
  <2>4. owners # {} /\ clock' = clock + 1 /\ entries' = UsedAt(Min(owners)) /\ nodes' = nodes
    BY <1>1, <1>3, <2>3 DEF Match
  <2>5. owners \subseteq DOMAIN entries /\ owners \subseteq Nat
    BY <2>2, <2>3, IndexAssumption DEF Known, TrieIsExact, EntriesAreGood
  <2>6. PICK s \in DOMAIN entries : s = Min(owners)
    BY <2>4, <2>5, LeastOf DEF MinimumIs
  <2>7. /\ DOMAIN entries' = DOMAIN entries /\ entries'[s] = [entries[s] EXCEPT !.last_used = clock + 1]
        /\ \A x \in DOMAIN entries : x # s => entries'[x] = entries[x]
    BY <2>4, <2>6 DEF UsedAt
  <2>8. entries'[s] \in Entry /\ entries'[s].ns = entries[s].ns /\ entries'[s].tokens = entries[s].tokens
    <3>1. entries[s] \in Entry /\ clock + 1 \in Nat
      BY DEF EntriesAreGood
    <3>2. QED
      BY <2>7, <3>1 DEF Entry
  <2>9. EntriesAreGood'
    BY <2>4, <2>7, <2>8 DEF EntriesAreGood
  <2>10. \A x \in DOMAIN entries : entries'[x].ns = entries[x].ns /\ entries'[x].tokens = entries[x].tokens
    BY <2>7, <2>8
  <2>11. TrieIsExact'
    <3>1. \A x \in DOMAIN entries : Path(entries'[x].ns, entries'[x].tokens) = Path(entries[x].ns, entries[x].tokens)
      BY <2>10
    <3>2. DOMAIN entries' = DOMAIN entries /\ nodes' = nodes
      BY <2>4, <2>7
    <3>3. UNION {Path(entries'[x].ns, entries'[x].tokens) : x \in DOMAIN entries'}
            = UNION {Path(entries[x].ns, entries[x].tokens) : x \in DOMAIN entries}
      BY <3>1, <3>2
    <3>4. \A node \in DOMAIN nodes :
            {x \in DOMAIN entries' : node \in Path(entries'[x].ns, entries'[x].tokens)}
              = {x \in DOMAIN entries : node \in Path(entries[x].ns, entries[x].tokens)}
      BY <3>1, <3>2
    <3>5. TrieIsExact' <=>
            /\ DOMAIN nodes' = UNION {Path(entries'[x].ns, entries'[x].tokens) : x \in DOMAIN entries'}
            /\ \A node \in DOMAIN nodes' :
                 nodes'[node] = {x \in DOMAIN entries' : node \in Path(entries'[x].ns, entries'[x].tokens)}
      BY DEF TrieIsExact, Path, Node
    <3>6. QED
      BY <3>2, <3>3, <3>4, <3>5 DEF TrieIsExact
  <2>12. QED
    BY <2>9, <2>11
<1>4. QED
  BY <1>2, <1>3

IndexInv == EntriesAreGood /\ TrieIsExact

LEMMA IndexInvHolds == TrieSpec => []IndexInv
<1>1. TrieInit => IndexInv
  <2>1. SUFFICES ASSUME TrieInit PROVE IndexInv
    OBVIOUS
  <2>2. nodes = <<>> /\ entries = <<>> /\ clock = 0 /\ DOMAIN nodes = {} /\ DOMAIN entries = {}
    BY <2>1 DEF TrieInit
  <2>3. QED
    BY <2>2 DEF IndexInv, EntriesAreGood, TrieIsExact
<1>2. IndexInv /\ [TrieNext]_trieVars => IndexInv'
  <2>1. SUFFICES ASSUME IndexInv, [TrieNext]_trieVars PROVE IndexInv'
    OBVIOUS
  <2>2. ASSUME UNCHANGED <<nodes, entries, clock>> PROVE IndexInv'
    BY <2>1, <2>2 DEF IndexInv, EntriesAreGood, TrieIsExact, Path, Node
  <2>3. ASSUME NEW s \in CacheSequences, NEW ns \in Namespaces, NEW t \in Lists, Insert(s, ns, t) PROVE IndexInv'
    BY <2>1, <2>3, InsertKeeps DEF IndexInv
  <2>4. ASSUME NEW s, NEW t, Refuse(s, t) PROVE IndexInv'
    BY <2>2, <2>4 DEF Refuse
  <2>5. ASSUME NEW s \in CacheSequences, Erase(s) PROVE IndexInv'
    BY <2>1, <2>5, EraseKeeps DEF IndexInv
  <2>6. ASSUME NEW ns \in Namespaces, NEW t \in Lists, NEW limit \in Limits, Match(ns, t, limit) PROVE IndexInv'
    BY <2>1, <2>6, MatchKeeps DEF IndexInv
  <2>7. CASE Least
    BY <2>2, <2>7 DEF Least
  <2>8. CASE UNCHANGED trieVars
    BY <2>2, <2>8 DEF trieVars
  <2>9. QED
    BY <2>1, <2>3, <2>4, <2>5, <2>6, <2>7, <2>8 DEF TrieNext
<1>3. QED
  BY <1>1, <1>2, PTL DEF TrieSpec

\* The trie holds the paths of the entries and nothing else, and each node
\* knows exactly the entries whose path it is on: for any tokens, namespaces
\* and lists that share paths or end on the way of others, and however often
\* entries come and go.  Pruning cuts neither too little nor too much.
THEOREM TrieExact == TrieSpec => []TrieIsExact
<1>1. IndexInv => TrieIsExact
  BY DEF IndexInv
<1>2. QED
  BY <1>1, IndexInvHolds, PTL

-----------------------------------------------------------------------------
(***************************************************************************)
(* What match() finds, and when.                                           *)
(***************************************************************************)
\* Whatever is looked up, the walk down the trie ends at the longest prefix
\* of whole blocks that an entry of the namespace begins with, and at that
\* node stand the entries that begin with it.
MatchIsLongest ==
  \A ns \in Namespaces, tokens \in Lists, limit \in Limits :
    LET n == Reused(ns, tokens, limit)
    IN /\ n = Cache!MatchedTokens(IndexOfEntries, ns, tokens, limit)
       /\ n # 0 => nodes[Node(ns, tokens, n)] = Cache!Owners(IndexOfEntries, ns, SubSeq(tokens, 1, n))

\* least_recently_used() has one answer: no two entries were used at the same
\* time, and none will be used at a time that was.
UsesAreDistinct ==
  \A s \in DOMAIN entries :
    /\ entries[s].last_used \in 1..clock
    /\ \A x \in DOMAIN entries \ {s} : entries[x].last_used # entries[s].last_used

LEMMA OwnersAre ==
  ASSUME EntriesAreGood, TrieIsExact, NEW ns, NEW t \in Lists, NEW n \in 0..Len(t)
  PROVE  /\ Known(ns, t, n) => nodes[Node(ns, t, n)] = Cache!Owners(IndexOfEntries, ns, SubSeq(t, 1, n))
         /\ Known(ns, t, n) <=> Cache!Owners(IndexOfEntries, ns, SubSeq(t, 1, n)) # {}
<1> DEFINE prefix == SubSeq(t, 1, n)
           owners == Cache!Owners(IndexOfEntries, ns, prefix)
<1>1. Len(prefix) = n
  <2>1. n \in 0..n
    BY ListsAreSeqs
  <2>2. QED
    BY <2>1, PrefixOfPrefix
<1>2. owners = {s \in DOMAIN entries :
                  /\ entries[s].ns = ns /\ Len(entries[s].tokens) >= n
                  /\ SubSeq(entries[s].tokens, 1, n) = prefix}
  <2>1. DOMAIN IndexOfEntries = DOMAIN entries
    BY DEF IndexOfEntries
  <2>2. \A s \in DOMAIN entries :
          IndexOfEntries[s].ns = entries[s].ns /\ IndexOfEntries[s].tokens = entries[s].tokens
    BY DEF IndexOfEntries
  <2> HIDE DEF prefix
  <2>3. QED
    BY <1>1, <2>1, <2>2 DEF Cache!Owners
<1>3. ASSUME NEW s \in DOMAIN entries
      PROVE  s \in owners <=> Node(ns, t, n) \in PathOf(s)
  <2>1. PICK u \in Lists : u = entries[s].tokens
    BY DEF EntriesAreGood, Entry
  <2>2. Len(u) \in Nat /\ n \in Nat
    BY ListsAreSeqs
  <2>3. ASSUME s \in owners PROVE Node(ns, t, n) \in PathOf(s)
    <3>1. entries[s].ns = ns /\ Len(u) >= n /\ SubSeq(u, 1, n) = prefix
      BY <1>2, <2>1, <2>3
    <3>2. Node(ns, t, n) = Node(entries[s].ns, u, n) /\ n \in 0..Len(u)
      BY <2>2, <3>1 DEF Node
    <3>3. QED
      BY <2>1, <3>2 DEF PathOf, Path
  <2>4. ASSUME Node(ns, t, n) \in PathOf(s) PROVE s \in owners
    <3>1. PICK k \in 0..Len(u) : Node(ns, t, n) = Node(entries[s].ns, u, k)
      BY <2>1, <2>4 DEF PathOf, Path
    <3>2. ns = entries[s].ns /\ n = k /\ prefix = SubSeq(u, 1, k)
      BY <3>1, SameNode
    <3>3. Len(u) >= n
      BY <2>2, <3>2
    <3>4. QED
      BY <1>2, <2>1, <3>2, <3>3
  <2>5. QED
    BY <2>3, <2>4
<1>4. owners = {s \in DOMAIN entries : Node(ns, t, n) \in PathOf(s)}
  BY <1>2, <1>3
<1>5. Known(ns, t, n) <=> \E s \in DOMAIN entries : Node(ns, t, n) \in PathOf(s)
  BY DEF Known, TrieIsExact, PathOf
<1>6. Known(ns, t, n) => nodes[Node(ns, t, n)] = {s \in DOMAIN entries : Node(ns, t, n) \in PathOf(s)}
  BY DEF Known, TrieIsExact, PathOf
<1> HIDE DEF owners
<1>7. QED
  BY <1>4, <1>5, <1>6 DEF owners

LEMMA LongestIs ==
  ASSUME EntriesAreGood, TrieIsExact, NEW ns, NEW t \in Lists, NEW limit \in Nat
  PROVE  LET n == Reused(ns, t, limit)
         IN /\ n = Cache!MatchedTokens(IndexOfEntries, ns, t, limit)
            /\ n # 0 => nodes[Node(ns, t, n)] = Cache!Owners(IndexOfEntries, ns, SubSeq(t, 1, n))
<1>1. PICK r : r = Reused(ns, t, limit)
  OBVIOUS
<1>2. PICK L \in Nat : L = Len(t)
  BY ListsAreSeqs
<1>3. /\ r \in 0..L /\ r <= limit /\ r % BlockSize = 0
      /\ r # 0 => Known(ns, t, r)
      /\ \A n \in 1..L : n <= limit /\ n % BlockSize = 0 /\ Known(ns, t, n) => n <= r
  BY <1>1, <1>2, ReusedIs
<1>4. PICK l \in Nat : l = Min({L, limit}) /\ l <= L /\ l <= limit /\ l \in {L, limit}
  <2>1. MinimumIs({L, limit}, Min({L, limit}))
    BY LeastOf
  <2>2. QED
    BY <2>1 DEF MinimumIs
<1> DEFINE S == {0} \cup {n \in 1..l : n % BlockSize = 0 /\ Cache!Owners(IndexOfEntries, ns, SubSeq(t, 1, n)) # {}}
<1>5. S = {0} \cup {n \in 1..l : n % BlockSize = 0 /\ Known(ns, t, n)}
  <2>1. \A n \in 1..l : Known(ns, t, n) <=> Cache!Owners(IndexOfEntries, ns, SubSeq(t, 1, n)) # {}
    BY <1>2, <1>4, OwnersAre
  <2>2. QED
    BY <2>1
<1>6. Cache!MatchedTokens(IndexOfEntries, ns, t, limit) = Max(S)
  <2>1. \A T : Cache!Max(T) = Max(T) /\ Cache!Min(T) = Min(T)
    BY DEF Max, Min, Cache!Max, Cache!Min
  <2>2. Cache!MatchedTokens(IndexOfEntries, ns, t, limit) = Cache!Max(S)
    <3>1. l = Cache!Min({Len(t), limit})
      BY <1>2, <1>4, <2>1
    <3>2. QED
      BY <3>1 DEF Cache!MatchedTokens
  <2> HIDE DEF S
  <2>3. QED
    BY <2>1, <2>2
<1>7. r \in S /\ S \subseteq Nat /\ \A n \in S : n <= r
  BY <1>3, <1>4, <1>5
<1>8. Max(S) = r
  <2> HIDE DEF S
  <2>1. QED
    BY <1>7, GreatestIs
<1>9. r # 0 => nodes[Node(ns, t, r)] = Cache!Owners(IndexOfEntries, ns, SubSeq(t, 1, r))
  BY <1>2, <1>3, OwnersAre
<1>10. QED
  BY <1>1, <1>6, <1>8, <1>9

\* The clock has gone past every use.
LEMMA UsesKeep ==
  ASSUME IndexInv, UsesAreDistinct, [TrieNext]_trieVars
  PROVE  UsesAreDistinct'
<1>1. clock \in Nat /\ \A s \in DOMAIN entries : entries[s].last_used \in 1..clock
  BY DEF IndexInv, EntriesAreGood, UsesAreDistinct
\* One entry, new or old, is used now; the others are as they were.
<1>2. ASSUME NEW s, clock' = clock + 1, s \in DOMAIN entries', entries'[s].last_used = clock + 1,
             \A x \in DOMAIN entries' : x # s => x \in DOMAIN entries /\ entries'[x].last_used = entries[x].last_used
      PROVE  UsesAreDistinct'
  <2>1. \A x \in DOMAIN entries' : entries'[x].last_used \in 1..clock'
    BY <1>1, <1>2
  <2>2. ASSUME NEW x \in DOMAIN entries', NEW y \in DOMAIN entries', x # y
        PROVE  entries'[x].last_used # entries'[y].last_used
    <3>1. CASE x # s /\ y # s
      BY <1>2, <2>2, <3>1 DEF UsesAreDistinct
    <3>2. CASE x = s \/ y = s
      <4>1. \A z \in DOMAIN entries' : z # s => entries'[z].last_used <= clock /\ entries'[z].last_used \in Nat
        BY <1>1, <1>2
      <4>2. QED
        BY <1>1, <1>2, <2>2, <3>2, <4>1
    <3>3. QED
      BY <3>1, <3>2
  <2>3. QED
    BY <2>1, <2>2 DEF UsesAreDistinct
\* Nothing is used, some entries may be gone.
<1>3. ASSUME clock' = clock, DOMAIN entries' \subseteq DOMAIN entries,
             \A x \in DOMAIN entries' : entries'[x] = entries[x]
      PROVE  UsesAreDistinct'
  BY <1>1, <1>3 DEF UsesAreDistinct
<1>4. ASSUME NEW s, NEW ns, NEW t, Insert(s, ns, t) PROVE UsesAreDistinct'
  BY <1>2, <1>4 DEF Insert
<1>5. ASSUME NEW s, Erase(s) PROVE UsesAreDistinct'
  BY <1>3, <1>5 DEF Erase, Restrict
<1>6. ASSUME NEW ns \in Namespaces, NEW t \in Lists, NEW limit \in Limits, Match(ns, t, limit) PROVE UsesAreDistinct'
  <2>1. PICK n : n = Reused(ns, t, limit)
    OBVIOUS
  <2>2. CASE n = 0
    BY <1>3, <1>6, <2>1, <2>2 DEF Match
  <2>3. CASE n # 0
    <3>1. PICK owners : owners = nodes[Node(ns, t, n)]
      OBVIOUS
    <3>2. owners # {} /\ clock' = clock + 1 /\ entries' = UsedAt(Min(owners))
      BY <1>6, <2>1, <2>3, <3>1 DEF Match
    <3>3. owners \subseteq DOMAIN entries /\ owners \subseteq Nat
      <4>1. Known(ns, t, n)
        BY <2>1, <2>3, IndexAssumption, ReusedIs DEF IndexInv
      <4>2. QED
        BY <3>1, <4>1, IndexAssumption DEF Known, IndexInv, TrieIsExact, EntriesAreGood
    <3>4. PICK s \in DOMAIN entries : s = Min(owners)
      BY <3>2, <3>3, LeastOf DEF MinimumIs
    <3>5. entries[s] \in Entry
      BY DEF IndexInv, EntriesAreGood
    <3>6. DOMAIN entries' = DOMAIN entries /\ entries'[s].last_used = clock + 1
      BY <3>2, <3>4, <3>5 DEF UsedAt, Entry
    <3>7. \A x \in DOMAIN entries : x # s => entries'[x] = entries[x]
      BY <3>2, <3>4 DEF UsedAt
    <3>8. QED
      BY <1>2, <3>2, <3>6, <3>7
  <2>4. QED
    BY <2>2, <2>3
<1>7. ASSUME UNCHANGED <<entries, clock>> PROVE UsesAreDistinct'
  BY <1>3, <1>7
<1>8. QED
  BY <1>4, <1>5, <1>6, <1>7 DEF TrieNext, Refuse, Least, trieVars

\* Whatever lists are in the trie and whatever is looked up, at any block
\* size and limit, match() answers the longest prefix of whole blocks that an
\* entry of the namespace begins with, and its node names these entries.
THEOREM MatchLongest == TrieSpec => []MatchIsLongest
<1>1. IndexInv => MatchIsLongest
  BY IndexAssumption, LongestIs DEF IndexInv, MatchIsLongest
<1>2. QED
  BY <1>1, IndexInvHolds, PTL

\* However often entries are used, inserted and erased, no two of them have
\* the same time of last use: least_recently_used() has one answer.
THEOREM UsesDistinct == TrieSpec => []UsesAreDistinct
<1>1. TrieInit => UsesAreDistinct
  BY DEF TrieInit, UsesAreDistinct
<1>2. QED
  BY <1>1, UsesKeep, IndexInvHolds, PTL DEF TrieSpec

-----------------------------------------------------------------------------
(***************************************************************************)
(* The order of use.                                                       *)
(***************************************************************************)
HasUses(e) == IsFiniteSet(DOMAIN e) /\ \A s \in DOMAIN e : e[s].last_used \in Nat
SameUses(e, f, S) == \A s \in S : e[s].last_used = f[s].last_used

\* All entries, the one that was used least recently first.
UseOrder(e, q) == q \in Seq(DOMAIN e) /\ Len(q) = Cardinality(DOMAIN e) /\ Sorted(q, e)

LEMMA UseOrderMeans ==
  ASSUME NEW e, NEW q, UseOrder(e, q)
  PROVE  /\ Len(q) \in Nat /\ DOMAIN q = 1..Len(q)
         /\ \A i \in 1..Len(q) : q[i] \in DOMAIN e
         /\ \A s \in DOMAIN e : \E i \in 1..Len(q) : q[i] = s
         /\ \A i, j \in 1..Len(q) : i < j => e[q[i]].last_used < e[q[j]].last_used
<1>1. q \in Seq(DOMAIN e) /\ Range(q) = DOMAIN e
  BY DEF UseOrder, Sorted
<1>2. Len(q) \in Nat /\ DOMAIN q = 1..Len(q) /\ \A i \in 1..Len(q) : q[i] \in DOMAIN e
  BY <1>1, LenProperties, ElementOfSeq
<1>3. \A s \in DOMAIN e : \E i \in 1..Len(q) : q[i] = s
  BY <1>1, <1>2 DEF Range
<1>4. QED
  BY <1>2, <1>3 DEF UseOrder, Sorted

\* There is one order of use.
LEMMA OneUseOrder ==
  ASSUME NEW e, HasUses(e), NEW q, NEW p, UseOrder(e, q), UseOrder(e, p)
  PROVE  q = p
<1> DEFINE n == Len(q)
           T == {i \in 1..n : q[i] # p[i]}
<1>1. Len(p) = n /\ n \in Nat
  BY UseOrderMeans DEF UseOrder
<1>2. CASE T = {}
  BY <1>1, <1>2, SeqEqual DEF UseOrder
<1>3. CASE T # {}
  <2>1. T \in SUBSET Nat
    OBVIOUS
  <2>2. PICK i \in T : \A j \in T : i <= j
    <3> HIDE DEF T
    <3>1. QED
      BY <1>3, <2>1, LeastExists
  <2>3. i \in 1..n /\ q[i] # p[i] /\ \A j \in 1..n : j < i => q[j] = p[j]
    BY <2>2
  \* What one order has at that place comes later in the other.
  <2>4. ASSUME NEW a, NEW b, UseOrder(e, a), UseOrder(e, b), Len(a) = n, Len(b) = n,
               a[i] # b[i], \A j \in 1..n : j < i => a[j] = b[j]
        PROVE  e[b[i]].last_used < e[a[i]].last_used
    <3>1. a[i] \in DOMAIN e /\ e[a[i]].last_used \in Nat
      BY <2>3, <2>4, UseOrderMeans DEF HasUses
    <3>2. PICK j \in 1..n : b[j] = a[i]
      <4>1. \A s \in DOMAIN e : \E j \in 1..Len(b) : b[j] = s
        <5>1. UseOrder(e, b)
          BY <2>4
        <5>2. QED
          BY <5>1, UseOrderMeans
      <4>2. QED
        BY <2>4, <3>1, <4>1
    <3>3. ~(j < i)
      <4>1. SUFFICES ASSUME j < i PROVE FALSE
        OBVIOUS
      <4>2. a[j] = a[i] /\ e[a[j]].last_used < e[a[i]].last_used
        BY <2>3, <2>4, <3>2, <4>1, UseOrderMeans
      <4>3. QED
        BY <3>1, <4>2
    <3>4. i < j
      BY <2>3, <2>4, <3>2, <3>3
    <3>5. e[b[i]].last_used < e[b[j]].last_used
      BY <2>3, <2>4, <3>4, UseOrderMeans
    <3>6. QED
      BY <3>2, <3>5
  <2>5. e[p[i]].last_used < e[q[i]].last_used
    BY <1>1, <2>3, <2>4
  <2>6. e[q[i]].last_used < e[p[i]].last_used
    BY <1>1, <2>3, <2>4
  <2>7. e[q[i]].last_used \in Nat /\ e[p[i]].last_used \in Nat
    BY <1>1, <2>3, UseOrderMeans DEF HasUses
  <2>8. QED
    BY <2>5, <2>6, <2>7
<1>4. QED
  BY <1>2, <1>3

LEMMA ByLastUseIs ==
  ASSUME NEW e, HasUses(e), NEW q, UseOrder(e, q)
  PROVE  ByLastUse(e) = q
<1>1. PICK n \in Nat : n = Cardinality(DOMAIN e)
  BY FS_CardinalityType DEF HasUses
<1>2. q \in [1..n -> DOMAIN e] /\ Sorted(q, e)
  BY <1>1, UseOrderMeans, LenProperties DEF UseOrder
<1>3. ASSUME NEW c \in [1..n -> DOMAIN e], Sorted(c, e) PROVE c = q
  <2>1. UseOrder(e, c)
    BY <1>1, <1>3, FunctionIsSeq DEF UseOrder
  <2>2. QED
    BY <2>1, OneUseOrder
<1>4. ByLastUse(e) = CHOOSE c \in [1..n -> DOMAIN e] : Sorted(c, e)
  BY <1>1 DEF ByLastUse
<1>5. QED
  BY <1>2, <1>3, <1>4

\* What is used last comes last.
LEMMA UseAdded ==
  ASSUME NEW e, NEW f, NEW q, NEW s, HasUses(e), UseOrder(e, q), s \notin DOMAIN e,
         DOMAIN f = DOMAIN e \cup {s}, SameUses(e, f, DOMAIN e),
         f[s].last_used \in Nat, \A x \in DOMAIN e : e[x].last_used < f[s].last_used
  PROVE  HasUses(f) /\ UseOrder(f, Append(q, s))
<1>1. HasUses(f) /\ Cardinality(DOMAIN f) = Cardinality(DOMAIN e) + 1
  BY FS_AddElement DEF HasUses, SameUses
<1>2. PICK n \in Nat : n = Len(q)
  BY UseOrderMeans
<1>3. PICK p : p = Append(q, s)
  OBVIOUS
<1>4. q \in Seq(DOMAIN f) /\ s \in DOMAIN f
  BY DEF UseOrder
<1>5. /\ p \in Seq(DOMAIN f) /\ Range(p) = Range(q) \cup {s} /\ Len(p) = n + 1
      /\ p[n + 1] = s /\ \A i \in 1..n : p[i] = q[i]
  BY <1>2, <1>3, <1>4, AppendedTable, AppendProperties
<1>6. DOMAIN p = 1..(n + 1) /\ Range(p) = DOMAIN f
  BY <1>5, LenProperties DEF UseOrder, Sorted
<1>7. ASSUME NEW i \in 1..(n + 1), NEW j \in 1..(n + 1), i < j
      PROVE  f[p[i]].last_used < f[p[j]].last_used
  <2>1. i \in 1..n /\ p[i] = q[i] /\ q[i] \in DOMAIN e /\ f[q[i]].last_used = e[q[i]].last_used
    <3>1. i \in 1..n
      BY <1>7
    <3>2. p[i] = q[i] /\ q[i] \in DOMAIN e
      BY <1>2, <1>5, <3>1, UseOrderMeans
    <3>3. f[q[i]].last_used = e[q[i]].last_used
      BY <3>2 DEF SameUses
    <3>4. QED
      BY <3>1, <3>2, <3>3
  <2>2. CASE j = n + 1
    BY <1>5, <2>1, <2>2
  <2>3. CASE j # n + 1
    <3>1. j \in 1..n /\ p[j] = q[j] /\ q[j] \in DOMAIN e /\ f[q[j]].last_used = e[q[j]].last_used
      <4>1. j \in 1..n
        BY <2>3
      <4>2. q[j] \in DOMAIN e
        BY <1>2, <4>1, UseOrderMeans
      <4>3. QED
        BY <1>5, <4>1, <4>2 DEF SameUses
    <3>2. e[q[i]].last_used < e[q[j]].last_used
      BY <1>2, <1>7, <2>1, <3>1, UseOrderMeans
    <3>3. QED
      BY <2>1, <3>1, <3>2
  <2>4. QED
    BY <2>2, <2>3
<1>8. UseOrder(f, p)
  BY <1>1, <1>2, <1>5, <1>6, <1>7 DEF UseOrder, Sorted
<1>9. QED
  BY <1>1, <1>3, <1>8

\* An entry that goes leaves the others in their order.
LEMMA UseRemoved ==
  ASSUME NEW e, NEW f, NEW q, NEW s \in DOMAIN e, HasUses(e), UseOrder(e, q),
         DOMAIN f = DOMAIN e \ {s}, SameUses(e, f, DOMAIN f)
  PROVE  HasUses(f) /\ UseOrder(f, Cache!Without(q, s))
<1>1. /\ HasUses(f) /\ Cardinality(DOMAIN f) = Cardinality(DOMAIN e) - 1
  BY FS_RemoveElement, FS_CardinalityType DEF HasUses, SameUses
<1>2. PICK n \in Nat : n = Len(q)
  BY UseOrderMeans
<1>3. DOMAIN q = 1..n /\ \A i \in 1..n : q[i] \in DOMAIN e
  BY <1>2, UseOrderMeans
<1>4. PICK i \in 1..n : i = (CHOOSE k \in DOMAIN q : q[k] = s) /\ q[i] = s
  BY <1>2, <1>3, UseOrderMeans
<1>5. PICK c : c = Cache!Without(q, s)
  OBVIOUS
<1>6. c = SubSeq(q, 1, i - 1) \o SubSeq(q, i + 1, Len(q))
  BY <1>4, <1>5 DEF Cache!Without
<1>7. /\ c \in Seq(DOMAIN e) /\ Len(c) = n - 1 /\ DOMAIN c = 1..(n - 1)
      /\ \A k \in 1..(n - 1) : c[k] = IF k < i THEN q[k] ELSE q[k + 1]
  BY <1>2, <1>6, CutOne DEF UseOrder
<1> DEFINE m(k) == IF k < i THEN k ELSE k + 1
<1>8. \A k \in 1..(n - 1) : m(k) \in 1..n /\ m(k) # i /\ c[k] = q[m(k)]
  BY <1>7
<1>9. \A k, l \in 1..(n - 1) : k < l => m(k) < m(l)
  OBVIOUS
<1>10. \A j \in 1..n : j # i => \E k \in 1..(n - 1) : m(k) = j
  <2>1. ASSUME NEW j \in 1..n, j # i PROVE \E k \in 1..(n - 1) : m(k) = j
    <3>1. CASE j < i
      <4>1. j \in 1..(n - 1) /\ m(j) = j
        BY <3>1
      <4>2. QED
        BY <4>1
    <3>2. CASE j > i
      <4>1. j - 1 \in 1..(n - 1) /\ m(j - 1) = j
        BY <3>2
      <4>2. QED
        BY <4>1
    <3>3. QED
      BY <2>1, <3>1, <3>2
  <2>2. QED
    BY <2>1
<1> HIDE DEF m
<1>11. \A j, k \in 1..n : q[j] = q[k] => j = k
  <2>1. ASSUME NEW j \in 1..n, NEW k \in 1..n, j < k PROVE q[j] # q[k]
    <3>1. e[q[j]].last_used < e[q[k]].last_used /\ e[q[k]].last_used \in Nat
      BY <1>2, <1>3, <2>1, UseOrderMeans DEF HasUses
    <3>2. QED
      BY <3>1
  <2>2. QED
    BY <2>1
<1>12. Range(c) = DOMAIN f
  <2>1. ASSUME NEW k \in 1..(n - 1) PROVE c[k] \in DOMAIN f
    BY <1>3, <1>4, <1>8, <1>11
  <2>2. ASSUME NEW x \in DOMAIN f PROVE \E k \in 1..(n - 1) : c[k] = x
    <3>1. PICK j \in 1..n : q[j] = x
      BY <1>2, UseOrderMeans
    <3>2. j # i
      BY <1>4, <3>1
    <3>3. QED
      BY <1>8, <1>10, <3>1, <3>2
  <2>3. Range(c) \subseteq DOMAIN f
    BY <1>7, <2>1 DEF Range
  <2>4. DOMAIN f \subseteq Range(c)
    BY <1>7, <2>2 DEF Range
  <2>5. QED
    BY <2>3, <2>4
<1>13. c \in Seq(DOMAIN f)
  <2>1. n - 1 \in Nat
    BY <1>4
  <2>2. c \in [1..(n - 1) -> DOMAIN f]
    BY <1>7, <1>12, LenProperties DEF Range
  <2>3. QED
    BY <2>1, <2>2, FunctionIsSeq
<1>14. ASSUME NEW k \in 1..(n - 1), NEW l \in 1..(n - 1), k < l
       PROVE  f[c[k]].last_used < f[c[l]].last_used
  <2>1. e[q[m(k)]].last_used < e[q[m(l)]].last_used
    BY <1>2, <1>8, <1>9, <1>14, UseOrderMeans
  <2>2. c[k] \in DOMAIN f /\ c[l] \in DOMAIN f
    BY <1>7, <1>12 DEF Range
  <2>3. QED
    BY <1>8, <2>1, <2>2 DEF SameUses
<1>15. UseOrder(f, c)
  BY <1>1, <1>2, <1>7, <1>12, <1>13, <1>14 DEF UseOrder, Sorted
<1>16. QED
  BY <1>1, <1>5, <1>15

-----------------------------------------------------------------------------
(***************************************************************************)
(* The tokens of all entries.                                              *)
(***************************************************************************)
Lengths(e) == [s \in DOMAIN e |-> Len(e[s].tokens)]
TokensOf(e) == SumFunctionOnSet(Lengths(e), DOMAIN e)
HasTokens(e) == \A s \in DOMAIN e : Len(e[s].tokens) \in Nat
SameTokens(e, f, S) == \A s \in S : e[s].tokens = f[s].tokens

LEMMA TokenCountIs == ASSUME NEW e PROVE Cache!TokenCount(e) = TokensOf(e)
<1> DEFINE L == [s \in DOMAIN e |-> Len(e[s].tokens)]
<1>1. L = Lengths(e) /\ DOMAIN L = DOMAIN e
  BY DEF Lengths
<1>2. Cache!SumFunctionOnSet(L, DOMAIN e) = SumFunctionOnSet(L, DOMAIN e)
  BY DEF Cache!SumFunctionOnSet, Cache!FoldFunctionOnSet, Cache!MapThenFoldSet,
         SumFunctionOnSet, FoldFunctionOnSet, MapThenFoldSet
<1>3. Cache!TokenCount(e) = Cache!SumFunctionOnSet(L, DOMAIN L)
  BY DEF Cache!TokenCount, Cache!SumFunction
<1> HIDE DEF L
<1>4. QED
  BY <1>1, <1>2, <1>3 DEF TokensOf

LEMMA TokensAdded ==
  ASSUME NEW e, NEW f, NEW s, IsFiniteSet(DOMAIN e), s \notin DOMAIN e, DOMAIN f = DOMAIN e \cup {s},
         SameTokens(e, f, DOMAIN e), HasTokens(f)
  PROVE  TokensOf(f) = Len(f[s].tokens) + TokensOf(e) /\ TokensOf(e) \in Nat
<1>1. IsFiniteSet(DOMAIN f) /\ s \in DOMAIN f /\ DOMAIN f \ {s} = DOMAIN e
  BY FS_AddElement
<1>2. AllNat(Lengths(f), DOMAIN f) /\ Lengths(f)[s] = Len(f[s].tokens)
  BY <1>1 DEF AllNat, HasTokens, Lengths
<1>3. /\ SumFunctionOnSet(Lengths(f), DOMAIN e) \in Nat
      /\ TokensOf(f) = Len(f[s].tokens) + SumFunctionOnSet(Lengths(f), DOMAIN e)
  BY <1>1, <1>2, SumWithout DEF TokensOf
<1>4. \A x \in DOMAIN e : Lengths(f)[x] = Lengths(e)[x]
  BY DEF Lengths, SameTokens
<1>5. SumFunctionOnSet(Lengths(f), DOMAIN e) = TokensOf(e)
  <2>1. PICK l : l = Lengths(f)
    OBVIOUS
  <2>2. PICK k : k = Lengths(e)
    OBVIOUS
  <2>3. SumFunctionOnSet(l, DOMAIN e) = SumFunctionOnSet(k, DOMAIN e)
    BY <1>4, <2>1, <2>2, SumOfSame
  <2>4. QED
    BY <2>1, <2>2, <2>3 DEF TokensOf
<1>6. QED
  BY <1>3, <1>5

-----------------------------------------------------------------------------
(***************************************************************************)
(* The trie implements the index that the Engine relies on.                *)
(***************************************************************************)
IndexOf(e) == [s \in DOMAIN e |-> [ns |-> e[s].ns, tokens |-> e[s].tokens]]

LEMMA IndexOfIs == IndexOfEntries = IndexOf(entries) /\ IndexOfEntries' = IndexOf(entries')
BY DEF IndexOfEntries, IndexOf

LEMMA IndexTokens == ASSUME NEW e PROVE Cache!TokenCount(IndexOf(e)) = TokensOf(e)
<1>1. DOMAIN IndexOf(e) = DOMAIN e /\ Lengths(IndexOf(e)) = Lengths(e)
  BY DEF IndexOf, Lengths
<1>2. QED
  BY <1>1, TokenCountIs DEF TokensOf

\* The count is exact, and there is an order of use.
CacheInv ==
  /\ HasUses(entries) /\ UseOrder(entries, ByLastUse(entries))
  /\ token_count = TokensOf(entries)

LEMMA EntriesHaveTokens ==
  ASSUME EntriesAreGood
  PROVE  HasTokens(entries) /\ \A s \in DOMAIN entries : entries[s] \in Entry /\ entries[s].tokens \in Lists
<1>1. \A s \in DOMAIN entries : entries[s] \in Entry /\ entries[s].tokens \in Lists
  BY DEF EntriesAreGood, Entry
<1>2. QED
  BY <1>1, ListsAreSeqs DEF HasTokens

\* The order that is chosen after a step.
LEMMA NextOrder ==
  ASSUME NEW q, HasUses(entries'), UseOrder(entries', q)
  PROVE  ByLastUse(entries)' = q /\ UseOrder(entries, ByLastUse(entries))' /\ HasUses(entries)'
<1>1. PICK e : e = entries'
  OBVIOUS
<1>2. ByLastUse(e) = q
  BY <1>1, ByLastUseIs
<1>3. ByLastUse(entries)' = q
  BY <1>1, <1>2
<1>4. QED
  BY <1>3

LEMMA InsertRefines ==
  ASSUME IndexInv, UsesAreDistinct, CacheInv,
         NEW s \in CacheSequences, NEW ns \in Namespaces, NEW t \in Lists, Insert(s, ns, t)
  PROVE  CacheInv' /\ Cache!SpecInsert(s, ns, t)
<1>1. PICK e : e = entries
  OBVIOUS
<1>2. PICK f : f = entries'
  OBVIOUS
<1>3. /\ s \notin DOMAIN e /\ DOMAIN f = DOMAIN e \cup {s} /\ clock' = clock + 1
      /\ f[s] = [ns |-> ns, tokens |-> t, last_used |-> clock'] /\ \A x \in DOMAIN e : f[x] = e[x]
      /\ t # <<>> /\ Len(t) % BlockSize = 0
      /\ token_count' = token_count + Len(t) /\ answer' = Answer("insert", s, token_count')
  BY <1>1, <1>2 DEF Insert, Insertable
<1>4. f[s].last_used = clock + 1 /\ f[s].tokens = t /\ f[s].ns = ns /\ clock \in Nat
  BY <1>3 DEF IndexInv, EntriesAreGood
<1>5. HasUses(e) /\ UseOrder(e, ByLastUse(e)) /\ token_count = TokensOf(e)
  BY <1>1 DEF CacheInv
<1>6. SameUses(e, f, DOMAIN e) /\ SameTokens(e, f, DOMAIN e)
  BY <1>3 DEF SameUses, SameTokens
<1>7. \A x \in DOMAIN e : e[x].last_used < f[s].last_used
  BY <1>1, <1>4 DEF UsesAreDistinct
<1>8. PICK q : q = ByLastUse(e)
  OBVIOUS
<1>9. HasUses(f) /\ UseOrder(f, Append(q, s))
  <2>1. f[s].last_used \in Nat
    BY <1>4
  <2>2. QED
    BY <1>3, <1>5, <1>6, <1>7, <1>8, <2>1, UseAdded
<1>10. ByLastUse(entries)' = Append(ByLastUse(entries), s) /\ UseOrder(entries, ByLastUse(entries))' /\ HasUses(entries)'
  BY <1>1, <1>2, <1>8, <1>9, NextOrder
<1>11. HasTokens(f)
  BY <1>1, <1>3, <1>4, EntriesHaveTokens, ListsAreSeqs DEF HasTokens, IndexInv
<1>12. token_count' = TokensOf(f)
  <2>1. TokensOf(f) = Len(t) + TokensOf(e) /\ TokensOf(e) \in Nat
    BY <1>3, <1>4, <1>5, <1>6, <1>11, TokensAdded DEF HasUses
  <2>2. Len(t) \in Nat
    BY ListsAreSeqs
  <2>3. QED
    BY <1>3, <1>5, <2>1, <2>2
<1>13. CacheInv'
  BY <1>2, <1>10, <1>12 DEF CacheInv
<1>14. IndexOfEntries' = Cache!Inserted(IndexOfEntries, s, [ns |-> ns, tokens |-> t])
  <2>1. IndexOf(f) = [x \in DOMAIN IndexOf(e) \cup {s} |-> IF x = s THEN [ns |-> ns, tokens |-> t] ELSE IndexOf(e)[x]]
    BY <1>3, <1>4 DEF IndexOf
  <2>2. QED
    BY <1>1, <1>2, <2>1, IndexOfIs DEF Cache!Inserted
<1>15. answer' = Cache!Answer("insert", s, Cache!TokenCount(IndexOfEntries'))
  <2>1. Cache!TokenCount(IndexOfEntries') = TokensOf(f)
    BY <1>2, IndexOfIs, IndexTokens
  <2>2. QED
    BY <1>3, <1>12, <2>1 DEF Answer, Cache!Answer
<1>16. Cache!Insertable(s, t)
  <2>1. DOMAIN IndexOfEntries = DOMAIN e
    BY <1>1 DEF IndexOfEntries
  <2>2. QED
    BY <1>3, <2>1 DEF Cache!Insertable
<1>17. QED
  BY <1>10, <1>13, <1>14, <1>15, <1>16 DEF Cache!SpecInsert

LEMMA EraseRefines ==
  ASSUME IndexInv, CacheInv, NEW s \in CacheSequences, Erase(s)
  PROVE  CacheInv' /\ Cache!SpecErase(s)
<1>1. PICK e : e = entries
  OBVIOUS
<1>2. PICK f : f = entries'
  OBVIOUS
<1>3. /\ s \in DOMAIN e /\ DOMAIN f = DOMAIN e \ {s} /\ \A x \in DOMAIN f : f[x] = e[x]
      /\ token_count' = token_count - Len(e[s].tokens) /\ answer' = Answer("erase", s, token_count')
  BY <1>1, <1>2 DEF Erase, Restrict
<1>4. HasUses(e) /\ UseOrder(e, ByLastUse(e)) /\ token_count = TokensOf(e)
  BY <1>1 DEF CacheInv
<1>5. SameUses(e, f, DOMAIN f) /\ SameTokens(f, e, DOMAIN f)
  BY <1>3 DEF SameUses, SameTokens
<1>6. PICK q : q = ByLastUse(e)
  OBVIOUS
<1>7. HasUses(f) /\ UseOrder(f, Cache!Without(q, s))
  BY <1>3, <1>4, <1>5, <1>6, UseRemoved
<1>8. ByLastUse(entries)' = Cache!Without(ByLastUse(entries), s) /\ UseOrder(entries, ByLastUse(entries))' /\ HasUses(entries)'
  BY <1>1, <1>2, <1>6, <1>7, NextOrder
<1>9. token_count' = TokensOf(f)
  <2>1. HasTokens(e)
    BY <1>1, EntriesHaveTokens DEF IndexInv
  <2>2. IsFiniteSet(DOMAIN f) /\ s \notin DOMAIN f /\ DOMAIN e = DOMAIN f \cup {s}
    BY <1>3, <1>7 DEF HasUses
  <2>3. TokensOf(e) = Len(e[s].tokens) + TokensOf(f) /\ TokensOf(f) \in Nat
    BY <1>5, <2>1, <2>2, TokensAdded
  <2>4. Len(e[s].tokens) \in Nat
    BY <1>3, <2>1 DEF HasTokens
  <2>5. QED
    BY <1>3, <1>4, <2>3, <2>4
<1>10. CacheInv'
  BY <1>2, <1>8, <1>9 DEF CacheInv
<1>11. IndexOfEntries' = Cache!Erased(IndexOfEntries, s)
  <2>1. DOMAIN IndexOf(e) = DOMAIN e /\ IndexOf(f) = [x \in DOMAIN IndexOf(e) \ {s} |-> IndexOf(e)[x]]
    BY <1>3 DEF IndexOf
  <2>2. QED
    BY <1>1, <1>2, <2>1, IndexOfIs DEF Cache!Erased, Cache!Restrict
<1>12. answer' = Cache!Answer("erase", s, Cache!TokenCount(IndexOfEntries'))
  <2>1. Cache!TokenCount(IndexOfEntries') = TokensOf(f)
    BY <1>2, IndexOfIs, IndexTokens
  <2>2. QED
    BY <1>3, <1>9, <2>1 DEF Answer, Cache!Answer
<1>13. s \in DOMAIN IndexOfEntries
  BY <1>1, <1>3 DEF IndexOfEntries
<1>14. QED
  BY <1>8, <1>10, <1>11, <1>12, <1>13 DEF Cache!SpecErase

LEMMA MatchRefines ==
  ASSUME IndexInv, UsesAreDistinct, CacheInv,
         NEW ns \in Namespaces, NEW t \in Lists, NEW limit \in Limits, Match(ns, t, limit)
  PROVE  CacheInv' /\ Cache!SpecMatch(ns, t, limit)
<1>1. PICK n : n = Reused(ns, t, limit)
  OBVIOUS
<1>2. /\ n = Cache!MatchedTokens(IndexOfEntries, ns, t, limit)
      /\ n # 0 => nodes[Node(ns, t, n)] = Cache!Owners(IndexOfEntries, ns, SubSeq(t, 1, n))
      /\ n # 0 => Known(ns, t, n)
  BY <1>1, IndexAssumption, LongestIs, ReusedIs DEF IndexInv
<1>3. CASE n = 0
  <2>1. UNCHANGED <<entries, token_count>> /\ answer' = Nothing("match")
    BY <1>1, <1>3 DEF Match
  <2>2. IndexOfEntries' = IndexOfEntries /\ ByLastUse(entries)' = ByLastUse(entries)
    BY <2>1 DEF IndexOfEntries
  <2>3. CacheInv'
    BY <2>1, <2>2 DEF CacheInv
  <2>4. answer' = Cache!Nothing("match")
    BY <2>1 DEF Nothing, Answer, Cache!Nothing, Cache!Answer
  <2>5. QED
    BY <1>2, <1>3, <2>2, <2>3, <2>4 DEF Cache!SpecMatch
<1>4. CASE n # 0
  <2>1. PICK owners : owners = nodes[Node(ns, t, n)]
    OBVIOUS
  <2>2. /\ owners # {} /\ clock' = clock + 1 /\ entries' = UsedAt(Min(owners))
        /\ answer' = Answer("match", Min(owners), n) /\ token_count' = token_count
    BY <1>1, <1>4, <2>1 DEF Match
  <2>3. owners \subseteq DOMAIN entries /\ owners \subseteq Nat
    BY <1>2, <1>4, <2>1, IndexAssumption DEF Known, IndexInv, TrieIsExact, EntriesAreGood
  <2>4. PICK s \in DOMAIN entries : s = Min(owners)
    BY <2>2, <2>3, LeastOf DEF MinimumIs
  <2>5. s = Cache!MatchedOwner(IndexOfEntries, ns, t, n)
    BY <1>2, <1>4, <2>1, <2>4 DEF Cache!MatchedOwner, Min, Cache!Min
  <2>6. PICK e : e = entries
    OBVIOUS
  <2>7. PICK f : f = entries'
    OBVIOUS
  <2>8. e[s] \in Entry /\ clock \in Nat
    BY <2>6 DEF IndexInv, EntriesAreGood
  <2>9. /\ DOMAIN f = DOMAIN e /\ s \in DOMAIN e /\ f[s].last_used = clock + 1
        /\ f[s].tokens = e[s].tokens /\ f[s].ns = e[s].ns
        /\ \A x \in DOMAIN e : x # s => f[x] = e[x]
    <3>1. f = [e EXCEPT ![s].last_used = clock + 1]
      BY <2>2, <2>4, <2>6, <2>7 DEF UsedAt
    <3>2. f[s] = [e[s] EXCEPT !.last_used = clock + 1]
      BY <2>4, <2>6, <3>1
    <3>3. QED
      BY <2>4, <2>6, <2>8, <3>1, <3>2 DEF Entry
  <2>10. PICK q : q = ByLastUse(e)
    OBVIOUS
  <2>11. HasUses(e) /\ UseOrder(e, q) /\ token_count = TokensOf(e)
    BY <2>6, <2>10 DEF CacheInv
  \* The entry goes, and comes back as the one used last.
  <2>12. PICK g : g = [x \in DOMAIN e \ {s} |-> e[x]]
    OBVIOUS
  <2>13. /\ DOMAIN g = DOMAIN e \ {s} /\ SameUses(e, g, DOMAIN g) /\ SameUses(g, f, DOMAIN g)
         /\ \A x \in DOMAIN g : g[x] = e[x]
    BY <2>9, <2>12 DEF SameUses
  <2>14. HasUses(g) /\ UseOrder(g, Cache!Without(q, s))
    BY <2>9, <2>11, <2>13, UseRemoved
  <2>15. \A x \in DOMAIN g : g[x].last_used < f[s].last_used
    BY <2>6, <2>8, <2>9, <2>13 DEF UsesAreDistinct
  <2>16. UseOrder(f, Append(Cache!Without(q, s), s)) /\ HasUses(f)
    <3>1. s \notin DOMAIN g /\ DOMAIN f = DOMAIN g \cup {s} /\ f[s].last_used \in Nat
      BY <2>8, <2>9, <2>13
    <3>2. PICK p : p = Cache!Without(q, s)
      OBVIOUS
    <3>3. QED
      BY <2>13, <2>14, <2>15, <3>1, <3>2, UseAdded
  <2>17. /\ ByLastUse(entries)' = Cache!Touched(ByLastUse(entries), s)
         /\ UseOrder(entries, ByLastUse(entries))' /\ HasUses(entries)'
    <3>1. PICK p : p = Append(Cache!Without(q, s), s)
      OBVIOUS
    <3>2. ByLastUse(entries)' = p /\ UseOrder(entries, ByLastUse(entries))' /\ HasUses(entries)'
      BY <2>7, <2>16, <3>1, NextOrder
    <3>3. QED
      BY <2>6, <2>10, <3>1, <3>2 DEF Cache!Touched
  <2>18. IndexOf(f) = IndexOf(e)
    <3>1. \A x \in DOMAIN e : f[x].ns = e[x].ns /\ f[x].tokens = e[x].tokens
      BY <2>9
    <3>2. QED
      BY <2>9, <3>1 DEF IndexOf
  <2>19. IndexOfEntries' = IndexOfEntries
    BY <2>6, <2>7, <2>18, IndexOfIs
  <2>20. TokensOf(f) = TokensOf(e)
    BY <2>18, IndexTokens
  <2>21. CacheInv'
    BY <2>2, <2>7, <2>11, <2>17, <2>20 DEF CacheInv
  <2>22. answer' = Cache!Answer("match", s, n)
    BY <2>2, <2>4 DEF Answer, Cache!Answer
  <2>23. QED
    BY <1>2, <1>4, <2>5, <2>17, <2>19, <2>21, <2>22 DEF Cache!SpecMatch
<1>5. QED
  BY <1>3, <1>4

LEMMA LeastRefines ==
  ASSUME IndexInv, CacheInv, Least
  PROVE  CacheInv' /\ Cache!SpecLeast
<1>1. UNCHANGED <<entries, token_count>>
  BY DEF Least
<1>2. IndexOfEntries' = IndexOfEntries /\ ByLastUse(entries)' = ByLastUse(entries)
  BY <1>1 DEF IndexOfEntries
<1>3. CacheInv'
  BY <1>1, <1>2 DEF CacheInv
<1>4. PICK e : e = entries
  OBVIOUS
<1>5. PICK q : q = ByLastUse(e)
  OBVIOUS
<1>6. HasUses(e) /\ UseOrder(e, q)
  BY <1>4, <1>5 DEF CacheInv
<1>7. PICK n \in Nat : n = Len(q)
  BY <1>6, UseOrderMeans
<1>8. CASE n = 0
  <2>1. q = <<>> /\ DOMAIN e = {}
    <3>1. q \in Seq(DOMAIN e) /\ Len(q) = 0
      BY <1>6, <1>7, <1>8 DEF UseOrder
    <3>2. \A s \in DOMAIN e : \E i \in 1..0 : q[i] = s
      BY <1>6, <3>1, UseOrderMeans
    <3>3. DOMAIN e = {}
      BY <3>2
    <3>4. q = <<>>
      BY <3>1, EmptySeq
    <3>5. QED
      BY <3>3, <3>4
  <2>2. answer' = Cache!Nothing("least")
    BY <1>4, <2>1 DEF Least, Nothing, Answer, Cache!Nothing, Cache!Answer
  <2>3. QED
    BY <1>2, <1>3, <1>4, <1>5, <2>1, <2>2 DEF Cache!SpecLeast
<1>9. CASE n # 0
  <2>1. q # <<>> /\ Head(q) = q[1] /\ 1 \in 1..n
    BY <1>6, <1>7, <1>9, HeadTailProperties DEF UseOrder
  <2>2. PICK h : h = q[1]
    OBVIOUS
  <2>3. h \in DOMAIN e
    BY <1>6, <1>7, <2>1, <2>2, UseOrderMeans
  <2>4. ASSUME NEW x \in DOMAIN e, x # h PROVE e[h].last_used < e[x].last_used
    <3>1. PICK j \in 1..n : q[j] = x
      BY <1>6, <1>7, UseOrderMeans
    <3>2. 1 < j
      BY <2>2, <2>4, <3>1
    <3>3. QED
      BY <1>6, <1>7, <2>1, <2>2, <3>1, <3>2, UseOrderMeans
  <2>5. \A x \in DOMAIN e : e[x].last_used \in Nat
    BY <1>6 DEF HasUses
  <2>6. (CHOOSE s \in DOMAIN e : \A x \in DOMAIN e : e[s].last_used <= e[x].last_used) = h
    <3>1. \A x \in DOMAIN e : e[h].last_used <= e[x].last_used
      BY <2>3, <2>4, <2>5
    <3>2. ASSUME NEW s \in DOMAIN e, \A x \in DOMAIN e : e[s].last_used <= e[x].last_used PROVE s = h
      <4>1. SUFFICES ASSUME s # h PROVE FALSE
        OBVIOUS
      <4>2. e[h].last_used < e[s].last_used /\ e[s].last_used <= e[h].last_used
        BY <2>3, <2>4, <3>2, <4>1
      <4>3. QED
        BY <2>3, <2>5, <4>2
    <3>3. QED
      BY <2>3, <3>1, <3>2
  <2>7. answer' = Cache!Answer("least", h, 0)
    BY <1>4, <2>3, <2>6 DEF Least, Answer, Cache!Answer
  <2>8. QED
    BY <1>2, <1>3, <1>4, <1>5, <2>1, <2>2, <2>7 DEF Cache!SpecLeast
<1>10. QED
  BY <1>8, <1>9

LEMMA NextRefinesCache ==
  ASSUME IndexInv, UsesAreDistinct, CacheInv, [TrieNext]_trieVars
  PROVE  CacheInv' /\ [Cache!SpecNext]_Cache!specVars
<1>1. ASSUME NEW s \in CacheSequences, NEW ns \in Namespaces, NEW t \in Lists, Insert(s, ns, t)
      PROVE  CacheInv' /\ Cache!SpecNext
  BY <1>1, InsertRefines DEF Cache!SpecNext
<1>2. ASSUME UNCHANGED <<entries, token_count>>
      PROVE  CacheInv' /\ IndexOfEntries' = IndexOfEntries /\ ByLastUse(entries)' = ByLastUse(entries)
  BY <1>2 DEF CacheInv, IndexOfEntries
<1>3. ASSUME NEW s \in CacheSequences, NEW ns \in Namespaces, NEW t \in Lists, Refuse(s, t)
      PROVE  CacheInv' /\ Cache!SpecNext
  <2>1. CacheInv' /\ IndexOfEntries' = IndexOfEntries /\ ByLastUse(entries)' = ByLastUse(entries)
    BY <1>2, <1>3 DEF Refuse
  <2>2. ~Cache!Insertable(s, t)
    BY <1>3 DEF Refuse, Insertable, Cache!Insertable, IndexOfEntries
  <2>3. answer' = Cache!Nothing("refuse")
    BY <1>3 DEF Refuse, Nothing, Answer, Cache!Nothing, Cache!Answer
  <2>4. Cache!SpecRefuse(s, t)
    BY <2>1, <2>2, <2>3 DEF Cache!SpecRefuse
  <2>5. QED
    BY <2>1, <2>4 DEF Cache!SpecNext
<1>4. ASSUME NEW s \in CacheSequences, Erase(s) PROVE CacheInv' /\ Cache!SpecNext
  BY <1>4, EraseRefines DEF Cache!SpecNext
<1>5. ASSUME NEW ns \in Namespaces, NEW t \in Lists, NEW limit \in Limits, Match(ns, t, limit)
      PROVE  CacheInv' /\ Cache!SpecNext
  BY <1>5, MatchRefines DEF Cache!SpecNext
<1>6. CASE Least
  BY <1>6, LeastRefines DEF Cache!SpecNext
<1>7. CASE UNCHANGED trieVars
  <2>1. UNCHANGED <<entries, token_count>> /\ answer' = answer
    BY <1>7 DEF trieVars
  <2>2. QED
    BY <1>2, <2>1 DEF Cache!specVars
<1>8. QED
  BY <1>1, <1>3, <1>4, <1>5, <1>6, <1>7 DEF TrieNext

LEMMA InitRefinesCache == TrieInit => CacheInv /\ UsesAreDistinct /\ Cache!SpecInit
<1>1. SUFFICES ASSUME TrieInit PROVE CacheInv /\ UsesAreDistinct /\ Cache!SpecInit
  OBVIOUS
<1>2. entries = <<>> /\ token_count = 0 /\ DOMAIN entries = {} /\ answer = Nothing("none")
  BY <1>1 DEF TrieInit, Nothing, Answer
<1>3. HasUses(entries) /\ Cardinality(DOMAIN entries) = 0
  BY <1>2, FS_EmptySet DEF HasUses
<1>4. PICK q : q = <<>>
  OBVIOUS
<1>5. q \in Seq(DOMAIN entries) /\ Len(q) = 0 /\ DOMAIN q = {} /\ Range(q) = {}
  BY <1>4 DEF Range
<1>6. UseOrder(entries, q)
  BY <1>2, <1>3, <1>5 DEF UseOrder, Sorted
<1>7. ByLastUse(entries) = q
  BY <1>3, <1>6, ByLastUseIs
<1>8. TokensOf(entries) = 0
  BY <1>2, SumOf DEF TokensOf
<1>9. CacheInv
  BY <1>2, <1>3, <1>6, <1>7, <1>8 DEF CacheInv
<1>10. UsesAreDistinct
  BY <1>2 DEF UsesAreDistinct
<1>11. IndexOfEntries = <<>>
  BY <1>2 DEF IndexOfEntries
<1>12. answer = Cache!Nothing("none")
  BY <1>2 DEF Nothing, Answer, Cache!Nothing, Cache!Answer
<1>13. QED
  BY <1>4, <1>7, <1>9, <1>10, <1>11, <1>12 DEF Cache!SpecInit

\* Call by call, the trie with its clock and its count of tokens is the index
\* that the Engine relies on: a function from sequences to entries, with the
\* order in which they were used and the sum of their tokens.  What it answers
\* to insert(), erase(), match() and least_recently_used() is what the index
\* answers.
THEOREM TrieImplementsCache == TrieSpec => IsPrefixCache
<1>1. TrieInit => CacheInv /\ UsesAreDistinct /\ Cache!SpecInit
  BY InitRefinesCache
<1>2. IndexInv /\ UsesAreDistinct /\ CacheInv /\ [TrieNext]_trieVars
        => CacheInv' /\ [Cache!SpecNext]_Cache!specVars
  BY NextRefinesCache
<1>3. TrieSpec => []CacheInv
  BY <1>1, <1>2, IndexInvHolds, UsesDistinct, PTL DEF TrieSpec
<1>4. QED
  BY <1>1, <1>2, <1>3, IndexInvHolds, UsesDistinct, PTL DEF TrieSpec, IsPrefixCache, Cache!Spec

-----------------------------------------------------------------------------
(***************************************************************************)
(* A sequence of texts, strung together.                                   *)
(***************************************************************************)
\* What is strung together on the way, from the left.
Strung(s, n, g) == g[1] = s[1] /\ \A i \in 2..n : g[i] = g[i - 1] \o s[i]

LEMMA StrungExists ==
  ASSUME NEW S, NEW s \in Seq(Seq(S)), Len(s) # 0
  PROVE  \E g : Strung(s, Len(s), g) /\ FlattenSeq(s) = g[Len(s)]
<1> DEFINE Made(n, g) == g = [i \in 1..n |-> IF i = 1 THEN s[i] ELSE g[i - 1] \o s[i]]
           T == {n \in Nat : \E g : Made(n, g)}
<1>1. 0 \in T
  <2>1. Made(0, [i \in 1..0 |-> 0])
    OBVIOUS
  <2>2. QED
    BY <2>1
<1>2. ASSUME NEW n \in T PROVE n + 1 \in T
  <2>1. PICK g : g = [i \in 1..n |-> IF i = 1 THEN s[i] ELSE g[i - 1] \o s[i]]
    OBVIOUS
  <2>2. PICK h : h = [i \in 1..(n + 1) |-> IF i = 1 THEN s[i] ELSE g[i - 1] \o s[i]]
    OBVIOUS
  <2>3. \A i \in 1..n : h[i] = g[i]
    <3>1. \A i \in 1..n : i \in 1..(n + 1)
      OBVIOUS
    <3> HIDE DEF T
    <3>2. QED
      BY <2>1, <2>2, <3>1
  <2>4. \A i \in 1..(n + 1) : h[i] = IF i = 1 THEN s[i] ELSE h[i - 1] \o s[i]
    <3>1. ASSUME NEW i \in 1..(n + 1), i # 1 PROVE h[i - 1] = g[i - 1]
      <4>1. i - 1 \in 1..n
        BY <3>1
      <4>2. QED
        BY <2>3, <4>1
    <3>2. QED
      BY <2>2, <3>1
  <2>5. h = [i \in 1..(n + 1) |-> IF i = 1 THEN s[i] ELSE h[i - 1] \o s[i]]
    BY <2>2, <2>4
  <2>6. n + 1 \in Nat
    OBVIOUS
  <2>7. Made(n + 1, h)
    BY <2>5
  <2> HIDE DEF Made
  <2>8. QED
    BY <2>6, <2>7
<1>3. Len(s) \in T
  <2>1. T \in SUBSET Nat /\ Len(s) \in Nat
    BY LenProperties
  <2> HIDE DEF T
  <2>2. QED
    BY <1>1, <1>2, <2>1, AllNumbers
<1>4. PICK g : g = CHOOSE h : Made(Len(s), h)
  OBVIOUS
<1>5. Made(Len(s), g)
  BY <1>3, <1>4
<1>6. FlattenSeq(s) = g[Len(s)]
  BY <1>4 DEF FlattenSeq
<1>7. Strung(s, Len(s), g)
  <2>1. PICK n \in Nat : n = Len(s)
    BY LenProperties
  <2>2. g = [i \in 1..n |-> IF i = 1 THEN s[i] ELSE g[i - 1] \o s[i]] /\ n # 0
    BY <1>5, <2>1
  <2> HIDE DEF Made
  <2>3. 1 \in 1..n /\ \A i \in 2..n : i \in 1..n /\ i # 1
    BY <2>2
  <2>4. g[1] = s[1] /\ \A i \in 2..n : g[i] = g[i - 1] \o s[i]
    BY <2>2, <2>3
  <2>5. QED
    BY <2>1, <2>4 DEF Strung
<1>8. QED
  BY <1>6, <1>7

LEMMA StrungAgree ==
  ASSUME NEW s, NEW n \in Nat, n # 0, NEW g, NEW h, Strung(s, n, g), Strung(s, n, h)
  PROVE  g[n] = h[n]
<1> DEFINE T == {i \in Nat : i + 1 \in 1..n => g[i + 1] = h[i + 1]}
<1>1. 0 \in T
  BY DEF Strung
<1>2. ASSUME NEW i \in T PROVE i + 1 \in T
  <2>1. SUFFICES ASSUME (i + 1) + 1 \in 1..n PROVE g[(i + 1) + 1] = h[(i + 1) + 1]
    OBVIOUS
  <2>2. PICK j \in 2..n : j = (i + 1) + 1 /\ j - 1 = i + 1
    BY <2>1
  <2>3. g[j - 1] = h[j - 1]
    BY <1>2, <2>2
  <2>4. QED
    BY <2>2, <2>3 DEF Strung
<1>3. n - 1 \in T
  <2>1. T \in SUBSET Nat /\ n - 1 \in Nat
    OBVIOUS
  <2> HIDE DEF T
  <2>2. QED
    BY <1>1, <1>2, <2>1, AllNumbers
<1>4. QED
  BY <1>3

LEMMA FlattenIs ==
  ASSUME NEW S, NEW s \in Seq(Seq(S)), Len(s) # 0, NEW g, Strung(s, Len(s), g)
  PROVE  FlattenSeq(s) = g[Len(s)]
<1>1. PICK h : Strung(s, Len(s), h) /\ FlattenSeq(s) = h[Len(s)]
  BY StrungExists
<1>2. Len(s) \in Nat
  BY LenProperties
<1>3. QED
  BY <1>1, <1>2, StrungAgree

Parts(S, s, t, u) == s \in Seq(S) /\ t \in Seq(S) /\ u \in Seq(S)

LEMMA Associate ==
  ASSUME NEW S, NEW s, NEW t, NEW u, Parts(S, s, t, u)
  PROVE  (s \o t) \o u = s \o (t \o u)
BY ConcatAssociative DEF Parts

LEMMA FlattenEmpty == FlattenSeq(<<>>) = <<>>
BY DEF FlattenSeq

LEMMA StrungSeqs ==
  ASSUME NEW S, NEW s \in Seq(Seq(S)), NEW g, Strung(s, Len(s), g)
  PROVE  \A i \in 1..Len(s) : g[i] \in Seq(S)
<1> DEFINE T == {i \in Nat : i + 1 \in 1..Len(s) => g[i + 1] \in Seq(S)}
<1>1. Len(s) \in Nat /\ \A i \in 1..Len(s) : s[i] \in Seq(S)
  BY LenProperties, ElementOfSeq
<1>2. 0 \in T
  BY <1>1 DEF Strung
<1>3. ASSUME NEW i \in T PROVE i + 1 \in T
  <2>1. SUFFICES ASSUME (i + 1) + 1 \in 1..Len(s) PROVE g[(i + 1) + 1] \in Seq(S)
    OBVIOUS
  <2>2. PICK j \in 2..Len(s) : j = (i + 1) + 1 /\ j - 1 = i + 1
    BY <1>1, <2>1
  <2>3. g[j - 1] \in Seq(S)
    BY <1>1, <1>3, <2>2
  <2>4. g[j] = g[j - 1] \o s[j] /\ s[j] \in Seq(S)
    <3>1. j \in 1..Len(s)
      BY <1>1, <2>2
    <3>2. QED
      BY <1>1, <3>1 DEF Strung
  <2>5. QED
    BY <2>2, <2>3, <2>4, ConcatProperties
<1>4. T = Nat
  <2>1. T \in SUBSET Nat
    OBVIOUS
  <2> HIDE DEF T
  <2>2. QED
    BY <1>2, <1>3, <2>1, AllNumbers
<1>5. ASSUME NEW i \in 1..Len(s) PROVE g[i] \in Seq(S)
  <2>1. i - 1 \in Nat /\ (i - 1) + 1 = i
    BY <1>1
  <2>2. \A j \in Nat : j + 1 \in 1..Len(s) => g[j + 1] \in Seq(S)
    BY <1>4
  <2>3. QED
    BY <2>1, <2>2
<1>6. QED
  BY <1>5

LEMMA FlattenSeqs ==
  ASSUME NEW S, NEW s \in Seq(Seq(S))
  PROVE  FlattenSeq(s) \in Seq(S)
<1>1. PICK n \in Nat : n = Len(s)
  BY LenProperties
<1>2. CASE n = 0
  <2>1. s = <<>>
    BY <1>1, <1>2, EmptySeq
  <2>2. <<>> \in Seq(S)
    BY EmptySeq
  <2>3. QED
    BY <2>1, <2>2, FlattenEmpty
<1>3. CASE n # 0
  <2>1. PICK g : Strung(s, n, g) /\ FlattenSeq(s) = g[n]
    BY <1>1, <1>3, StrungExists
  <2>2. n \in 1..n
    BY <1>3
  <2>3. QED
    BY <1>1, <2>1, <2>2, StrungSeqs
<1>4. QED
  BY <1>2, <1>3

\* After its first places, which hold one text and nothing more, come the
\* places of another.
Starts(s, k, a, u) ==
  /\ Len(s) = k + Len(u) /\ s[1] = a
  /\ \A i \in 2..k : s[i] = <<>>
  /\ \A i \in 1..Len(u) : s[k + i] = u[i]

LEMMA FlattenStarts ==
  ASSUME NEW S, NEW s \in Seq(Seq(S)), NEW u \in Seq(Seq(S)), NEW k \in Nat \ {0}, NEW a \in Seq(S), Starts(s, k, a, u)
  PROVE  FlattenSeq(s) = a \o FlattenSeq(u)
<1>1. PICK m \in Nat : m = Len(u)
  BY LenProperties
<1>2. PICK n \in Nat : n = Len(s) /\ n = k + m /\ n # 0
  BY <1>1 DEF Starts
<1>3. s[1] = a /\ (\A i \in 2..k : s[i] = <<>>) /\ \A i \in 1..m : s[k + i] = u[i]
  BY <1>1 DEF Starts
<1>4. CASE m = 0
  <2>1. PICK h : h = [i \in 1..n |-> a]
    OBVIOUS
  <2>2. \A i \in 2..n : h[i] = h[i - 1] \o s[i]
    <3>1. a \o <<>> = a
      BY ConcatEmptySeq
    <3>2. \A i \in 2..n : i - 1 \in 1..n /\ i \in 1..n /\ i \in 2..k
      BY <1>2, <1>4
    <3>3. QED
      BY <1>3, <2>1, <3>1, <3>2
  <2>3. Strung(s, n, h)
    <3>1. h[1] = a
      BY <1>2, <2>1
    <3>2. QED
      BY <1>3, <2>2, <3>1 DEF Strung
  <2>4. FlattenSeq(s) = a
    <3>1. h[n] = a
      BY <1>2, <2>1
    <3>2. FlattenSeq(s) = h[n]
      BY <1>2, <2>3, FlattenIs
    <3>3. QED
      BY <3>1, <3>2
  <2>5. FlattenSeq(u) = <<>>
    BY <1>1, <1>4, EmptySeq, FlattenEmpty
  <2>6. QED
    BY <2>4, <2>5, ConcatEmptySeq
<1>5. CASE m # 0
  <2>1. PICK g : Strung(u, m, g) /\ FlattenSeq(u) = g[m]
    BY <1>1, <1>5, StrungExists
  <2>2. \A i \in 1..m : g[i] \in Seq(S) /\ u[i] \in Seq(S)
    BY <1>1, <2>1, StrungSeqs, ElementOfSeq
  <2>3. PICK h : h = [i \in 1..n |-> IF i <= k THEN a ELSE a \o g[i - k]]
    OBVIOUS
  <2>4. ASSUME NEW i \in 2..n PROVE h[i] = h[i - 1] \o s[i]
    <3>1. i \in 1..n /\ i - 1 \in 1..n
      BY <2>4
    <3>2. CASE i <= k
      <4>1. h[i] = a /\ h[i - 1] = a /\ s[i] = <<>>
        BY <1>3, <2>3, <3>1, <3>2
      <4>2. QED
        BY <4>1, ConcatEmptySeq
    <3>3. CASE i = k + 1
      <4>1. h[i] = a \o g[1] /\ h[i - 1] = a
        <5>1. ~(i <= k) /\ i - k = 1 /\ i - 1 <= k
          BY <3>3
        <5>2. QED
          BY <2>3, <3>1, <5>1
      <4>2. s[i] = u[1] /\ g[1] = u[1]
        BY <1>3, <1>5, <2>1, <3>3 DEF Strung
      <4>3. QED
        BY <4>1, <4>2
    <3>4. CASE i > k + 1
      <4>1. PICK j \in 2..m : j = i - k
        BY <1>2, <3>4
      <4>2. ~(i <= k) /\ ~(i - 1 <= k) /\ (i - 1) - k = j - 1 /\ k + j = i /\ j \in 1..m /\ j - 1 \in 1..m
        BY <3>4, <4>1
      <4>3. h[i] = a \o g[j] /\ h[i - 1] = a \o g[j - 1] /\ s[i] = u[j]
        BY <1>3, <2>3, <3>1, <4>1, <4>2
      <4>4. g[j] = g[j - 1] \o u[j]
        BY <2>1, <4>1 DEF Strung
      <4>5. (a \o g[j - 1]) \o u[j] = a \o (g[j - 1] \o u[j])
        <5>1. g[j - 1] \in Seq(S) /\ u[j] \in Seq(S)
          BY <2>2, <4>2
        <5>2. PICK x \in Seq(S), y \in Seq(S) : x = g[j - 1] /\ y = u[j]
          BY <5>1
        <5>3. (a \o x) \o y = a \o (x \o y)
          <6>1. Parts(S, a, x, y)
            BY DEF Parts
          <6>2. QED
            BY <6>1, Associate
        <5>4. QED
          BY <5>2, <5>3
      <4>6. QED
        BY <4>3, <4>4, <4>5
    <3>5. i <= k \/ i = k + 1 \/ i > k + 1
      OBVIOUS
    <3>6. QED
      BY <3>2, <3>3, <3>4, <3>5
  <2>5. Strung(s, n, h)
    <3>1. h[1] = a
      BY <1>2, <2>3
    <3>2. QED
      BY <1>3, <2>4, <3>1 DEF Strung
  <2>6. FlattenSeq(s) = h[n]
    BY <1>2, <2>5, FlattenIs
  <2>7. h[n] = a \o g[m]
    <3>1. ~(n <= k) /\ n - k = m /\ n \in 1..n
      BY <1>2, <1>5
    <3>2. QED
      BY <2>3, <3>1
  <2>8. QED
    BY <2>1, <2>6, <2>7
<1>6. QED
  BY <1>4, <1>5

LEMMA FlattenAppend ==
  ASSUME NEW S, NEW s \in Seq(Seq(S)), NEW e \in Seq(S)
  PROVE  FlattenSeq(Append(s, e)) = FlattenSeq(s) \o e
<1>1. PICK n \in Nat : n = Len(s)
  BY LenProperties
<1>2. PICK p : p = Append(s, e)
  OBVIOUS
<1>3. p \in Seq(Seq(S)) /\ Len(p) = n + 1 /\ p[n + 1] = e /\ \A i \in 1..n : p[i] = s[i]
  BY <1>1, <1>2, AppendProperties
<1>4. CASE n = 0
  <2>1. Strung(p, 1, p)
    BY DEF Strung
  <2>2. FlattenSeq(p) = e
    <3>1. Len(p) = 1 /\ p[1] = e
      BY <1>3, <1>4
    <3>2. Strung(p, Len(p), p) /\ Len(p) # 0
      BY <2>1, <3>1
    <3>3. FlattenSeq(p) = p[Len(p)]
      BY <1>3, <3>2, FlattenIs
    <3>4. QED
      BY <3>1, <3>3
  <2>3. FlattenSeq(s) = <<>>
    BY <1>1, <1>4, EmptySeq, FlattenEmpty
  <2>4. QED
    BY <1>2, <2>2, <2>3, ConcatEmptySeq
<1>5. CASE n # 0
  <2>1. PICK g : Strung(s, n, g) /\ FlattenSeq(s) = g[n]
    BY <1>1, <1>5, StrungExists
  <2>2. PICK h : h = [i \in 1..(n + 1) |-> IF i <= n THEN g[i] ELSE g[n] \o e]
    OBVIOUS
  <2>3. h[1] = p[1]
    BY <1>3, <1>5, <2>1, <2>2 DEF Strung
  <2>4. ASSUME NEW i \in 2..(n + 1) PROVE h[i] = h[i - 1] \o p[i]
    <3>1. i \in 1..(n + 1) /\ i - 1 \in 1..n /\ i - 1 \in 1..(n + 1)
      BY <2>4
    <3>2. h[i - 1] = g[i - 1]
      BY <2>2, <3>1
    <3>3. CASE i <= n
      <4>1. h[i] = g[i] /\ p[i] = s[i] /\ i \in 2..n
        BY <1>3, <2>2, <3>1, <3>3
      <4>2. QED
        BY <2>1, <3>2, <4>1 DEF Strung
    <3>4. CASE i = n + 1
      <4>1. h[i] = g[n] \o e /\ i - 1 = n /\ p[i] = e
        BY <1>3, <2>2, <3>1, <3>4
      <4>2. QED
        BY <3>2, <4>1
    <3>5. i <= n \/ i = n + 1
      BY <2>4
    <3>6. QED
      BY <3>3, <3>4, <3>5
  <2>5. Strung(p, n + 1, h)
    BY <2>3, <2>4 DEF Strung
  <2>6. FlattenSeq(p) = h[n + 1] /\ h[n + 1] = g[n] \o e
    <3>1. FlattenSeq(p) = h[n + 1]
      <4>1. Len(p) # 0
        BY <1>3
      <4>2. QED
        BY <1>3, <2>5, <4>1, FlattenIs
    <3>2. n + 1 \in 1..(n + 1) /\ ~(n + 1 <= n)
      OBVIOUS
    <3>3. QED
      BY <2>2, <3>1, <3>2
  <2>7. QED
    BY <1>2, <2>1, <2>6
<1>6. QED
  BY <1>4, <1>5

LEMMA FlattenTail ==
  ASSUME NEW S, NEW s \in Seq(Seq(S)), s # <<>>
  PROVE  FlattenSeq(s) = Head(s) \o FlattenSeq(Tail(s)) /\ Tail(s) \in Seq(Seq(S)) /\ Head(s) \in Seq(S)
<1>1. /\ Tail(s) \in Seq(Seq(S)) /\ Head(s) \in Seq(S) /\ Len(Tail(s)) = Len(s) - 1
      /\ \A i \in 1..Len(Tail(s)) : Tail(s)[i] = s[i + 1]
      /\ Len(s) \in Nat /\ Head(s) = s[1]
  BY HeadTailProperties, LenProperties
<1>2. PICK u : u = Tail(s)
  OBVIOUS
<1>3. PICK m \in Nat : m = Len(u) /\ Len(s) = 1 + m
  <2>1. Len(u) \in Nat
    BY <1>1, <1>2, LenProperties
  <2>2. Len(u) = Len(s) - 1
    BY <1>1, <1>2
  <2>3. PICK x \in Nat, y \in Nat : x = Len(u) /\ y = Len(s)
    BY <1>1, <2>1
  <2>4. y = 1 + x
    BY <2>2, <2>3
  <2>5. QED
    BY <2>3, <2>4
<1>4. Starts(s, 1, Head(s), u)
  BY <1>1, <1>2, <1>3 DEF Starts
<1>5. FlattenSeq(s) = Head(s) \o FlattenSeq(u)
  <2>1. PICK a \in Seq(S) : a = Head(s)
    BY <1>1
  <2>2. u \in Seq(Seq(S)) /\ 1 \in Nat \ {0}
    BY <1>1, <1>2
  <2>3. PICK k \in Nat \ {0} : k = 1
    OBVIOUS
  <2>4. Starts(s, k, a, u)
    BY <1>4, <2>1, <2>3
  <2>5. FlattenSeq(s) = a \o FlattenSeq(u)
    BY <2>2, <2>4, FlattenStarts
  <2>6. QED
    BY <2>1, <2>5
<1>6. QED
  BY <1>1, <1>2, <1>5

-----------------------------------------------------------------------------
(***************************************************************************)
(* Bytes, and where characters stand among them.                           *)
(***************************************************************************)
Byte == 0..255
Strings == Seq(Byte)
Lead(b) == b < 128 \/ Follows(b) # {}

\* From p on, m bytes are a character as far as they go.
Goes(B, p, m) ==
  /\ Lead(B[p]) /\ m <= Size(B[p])
  /\ m >= 2 => B[p + 1] \in Follows(B[p])
  /\ \A i \in 3..m : B[p + i - 1] \in 128..191

CharAt(B, p) == p + Size(B[p]) - 1 <= Len(B) /\ Goes(B, p, Size(B[p]))
TailAt(B, p) == Len(B) - p + 1 < Size(B[p]) /\ Goes(B, p, Len(B) - p + 1)

LEMMA Bytes ==
  ASSUME NEW b \in Byte
  PROVE  /\ Size(b) \in 1..4
         /\ Width(b) = IF Lead(b) THEN Size(b) ELSE 0
         /\ Lead(b) => ~(b \in 128..191)
         /\ Follows(b) \subseteq 128..191
         /\ Lead(b) /\ Size(b) > 1 => b \in 194..244
<1>1. Size(b) \in 1..4
  BY DEF Size
<1>2. Follows(b) # {} <=> b \in 194..244
  <2>1. CASE b \in 194..244
    <3>1. Follows(b) \in {128..191, 160..191, 128..159, 144..191, 128..143}
      BY <2>1 DEF Follows, Byte
    <3>2. QED
      BY <2>1, <3>1
  <2>2. CASE ~(b \in 194..244)
    BY <2>2 DEF Follows, Byte
  <2>3. QED
    BY <2>1, <2>2
<1>3. Lead(b) <=> b < 128 \/ b \in 194..244
  BY <1>2 DEF Lead
<1>4. Width(b) = IF b < 128 \/ b \in 194..244 THEN Size(b) ELSE 0
  BY DEF Width, Size, Byte
<1>5. Follows(b) \subseteq 128..191
  BY DEF Follows, Byte
<1>6. b < 128 => Size(b) = 1
  BY DEF Size
<1>7. QED
  BY <1>1, <1>3, <1>4, <1>5, <1>6 DEF Byte

LEMMA FollowsAre ==
  ASSUME NEW b \in Byte
  PROVE  Follows(b) \subseteq 128..191
BY DEF Follows, Byte

LEMMA SecondIs ==
  ASSUME NEW b \in 194..244, NEW c
  PROVE  Second(b, c) <=> c \in Follows(b)
BY DEF Second, Follows

\* What goes on is no beginning.
LEMMA GoesOn ==
  ASSUME NEW B \in Strings, NEW p \in 1..Len(B), NEW m \in Nat, p + m - 1 <= Len(B), Goes(B, p, m), NEW i \in 2..m
  PROVE  ~Lead(B[p + i - 1])
<1>1. Len(B) \in Nat /\ \A j \in 1..Len(B) : B[j] \in Byte
  BY LenProperties, ElementOfSeq DEF Strings
<1>2. B[p] \in Byte /\ p + i - 1 \in 1..Len(B) /\ B[p + i - 1] \in Byte
  BY <1>1
<1>3. B[p + i - 1] \in 128..191
  <2>1. CASE i = 2
    <3>1. p + i - 1 = p + 1 /\ m >= 2
      BY <2>1
    <3>2. B[p + 1] \in Follows(B[p])
      BY <3>1 DEF Goes
    <3>3. Follows(B[p]) \subseteq 128..191
      <4>1. PICK b \in Byte : b = B[p]
        BY <1>2
      <4>2. Follows(b) \subseteq 128..191
        BY FollowsAre
      <4>3. QED
        BY <4>1, <4>2
    <3>4. QED
      BY <3>1, <3>2, <3>3
  <2>2. CASE i # 2
    <3>1. i \in 3..m
      BY <2>2
    <3>2. QED
      BY <3>1 DEF Goes
  <2>3. QED
    BY <2>1, <2>2
<1>4. QED
  BY <1>2, <1>3, Bytes

LEMMA BeginsIs ==
  ASSUME NEW B \in Strings, NEW p \in 1..Len(B), NEW q \in p..Len(B)
  PROVE  /\ Begins(SubSeq(B, p, q)) <=> Goes(B, p, q - p + 1)
         /\ WellFormed(SubSeq(B, p, q)) <=> Goes(B, p, q - p + 1) /\ q - p + 1 = Size(B[p])
<1>1. Len(B) \in Nat /\ \A i \in 1..Len(B) : B[i] \in Byte
  BY LenProperties, ElementOfSeq DEF Strings
<1>2. PICK m \in Nat \ {0} : m = q - p + 1
  BY <1>1
<1>3. PICK w : w = SubSeq(B, p, q)
  OBVIOUS
<1>4. Len(w) = m /\ \A i \in 1..m : w[i] = B[p + i - 1]
  <2>1. p \in Int /\ q \in Int /\ p <= q /\ \A i \in p..q : B[i] \in Byte
    BY <1>1
  <2>2. QED
    BY <1>2, <1>3, <2>1, SubSeqProperties
<1>5. w[1] = B[p] /\ (m >= 2 => w[2] = B[p + 1]) /\ \A i \in 3..m : w[i] = B[p + i - 1]
  <2>1. 1 \in 1..m /\ p + 1 - 1 = p /\ p + 2 - 1 = p + 1 /\ (m >= 2 => 2 \in 1..m)
    BY <1>2
  <2>2. \A i \in 3..m : i \in 1..m
    OBVIOUS
  <2>3. QED
    BY <1>4, <2>1, <2>2
<1>6. Begins(w) <=> Goes(B, p, m)
  <2>1. Begins(w) <=> /\ Lead(w[1]) /\ m <= Size(w[1])
                      /\ m >= 2 => w[2] \in Follows(w[1])
                      /\ \A i \in 3..m : w[i] \in 128..191
    BY <1>4 DEF Begins, Lead
  <2>2. (\A i \in 3..m : w[i] \in 128..191) <=> \A i \in 3..m : B[p + i - 1] \in 128..191
    BY <1>5
  <2>3. QED
    BY <1>5, <2>1, <2>2 DEF Goes
<1>7. QED
  BY <1>2, <1>3, <1>4, <1>5, <1>6 DEF WellFormed

\* The first bytes, as the loop sees them.
LEMMA FirstIs ==
  ASSUME NEW B \in Strings, B # <<>>
  PROVE  /\ Valid(B) /\ ~Short(B) <=> CharAt(B, 1)
         /\ Valid(B) /\ Short(B) <=> TailAt(B, 1)
         /\ CharAt(B, 1) => Width(B[1]) = Size(B[1]) /\ Size(B[1]) \in 1..Len(B)
         /\ TailAt(B, 1) => Len(B) \in 1..3
<1>1. PICK n \in Nat \ {0} : n = Len(B)
  BY EmptySeq DEF Strings
<1>2. \A i \in 1..n : B[i] \in Byte
  BY <1>1, ElementOfSeq DEF Strings
<1>3. PICK b \in Byte : b = B[1]
  BY <1>2
<1>4. PICK w \in 1..4 : w = Size(b) /\ Width(b) = (IF Lead(b) THEN w ELSE 0) /\ (Lead(b) /\ w > 1 => b \in 194..244)
  <2>1. PICK w : w = Size(b)
    OBVIOUS
  <2>2. w \in 1..4 /\ Width(b) = (IF Lead(b) THEN w ELSE 0) /\ (Lead(b) /\ w > 1 => b \in 194..244)
    BY <2>1, Bytes
  <2>3. QED
    BY <2>1, <2>2
<1>5. CASE ~Lead(b)
  <2>1. ~Valid(B)
    BY <1>3, <1>4, <1>5 DEF Valid
  <2>2. ~CharAt(B, 1) /\ ~TailAt(B, 1)
    BY <1>3, <1>5 DEF CharAt, TailAt, Goes
  <2>3. QED
    BY <2>1, <2>2
<1>6. CASE Lead(b)
  <2>1. PICK m \in 1..4 : m <= n /\ m <= w /\ (m = n \/ m = w)
    <3>1. CASE n <= w
      BY <3>1
    <3>2. CASE ~(n <= w)
      BY <3>2
    <3>3. QED
      BY <3>1, <3>2
  <2>2. Valid(B) <=> \A i \in 2..m : IF i = 2 THEN Second(b, B[2]) ELSE B[i] \in 128..191
    <3>1. Valid(B) <=> \A i \in 2..w : i <= n => IF i = 2 THEN Second(b, B[2]) ELSE B[i] \in 128..191
      <4>1. Width(B[1]) = w /\ w # 0
        BY <1>3, <1>4, <1>6
      <4>2. Valid(B) <=> w # 0 /\ \A i \in 2..w : i <= Len(B) => IF i = 2 THEN Second(B[1], B[2]) ELSE B[i] \in 128..191
        BY <4>1 DEF Valid
      <4>3. QED
        BY <1>1, <1>3, <4>1, <4>2
    <3>2. \A i : i \in 2..m <=> i \in 2..w /\ i <= n
      BY <2>1
    <3>3. QED
      BY <3>1, <3>2
  <2>3. m >= 2 => (Second(b, B[2]) <=> B[2] \in Follows(b))
    <3>1. m >= 2 => b \in 194..244
      BY <1>4, <1>6, <2>1
    <3>2. PICK c : c = B[2]
      OBVIOUS
    <3>3. QED
      BY <3>1, <3>2, SecondIs
  <2>4. Goes(B, 1, m) <=> (m >= 2 => B[2] \in Follows(b)) /\ \A i \in 3..m : B[i] \in 128..191
    <3>1. 1 + 1 = 2 /\ \A i \in 3..m : 1 + i - 1 = i
      OBVIOUS
    <3>2. QED
      BY <1>3, <1>4, <1>6, <2>1, <3>1 DEF Goes
  <2>5. Valid(B) <=> Goes(B, 1, m)
    <3>1. (\A i \in 2..m : IF i = 2 THEN Second(b, B[2]) ELSE B[i] \in 128..191)
            <=> (m >= 2 => Second(b, B[2])) /\ \A i \in 3..m : B[i] \in 128..191
      <4>1. \A i : i \in 2..m <=> (i = 2 /\ m >= 2) \/ i \in 3..m
        BY <2>1
      <4>2. \A i \in 3..m : i # 2
        OBVIOUS
      <4>3. QED
        BY <4>1, <4>2
    <3>2. QED
      BY <2>2, <2>3, <2>4, <3>1
  <2>6. Short(B) <=> n < w
    BY <1>1, <1>3, <1>4, <1>6 DEF Short
  <2>7. CharAt(B, 1) <=> w <= n /\ Goes(B, 1, w)
    BY <1>1, <1>3, <1>4 DEF CharAt
  <2>8. TailAt(B, 1) <=> n < w /\ Goes(B, 1, n)
    <3>1. n - 1 + 1 = n
      OBVIOUS
    <3>2. QED
      BY <1>1, <1>3, <1>4, <3>1 DEF TailAt
  <2>9. (w <= n => m = w) /\ (n < w => m = n)
    BY <2>1
  <2>10. Valid(B) /\ ~Short(B) <=> CharAt(B, 1)
    BY <2>5, <2>6, <2>7, <2>9
  <2>11. Valid(B) /\ Short(B) <=> TailAt(B, 1)
    BY <2>5, <2>6, <2>8, <2>9
  <2>12. CharAt(B, 1) => Width(B[1]) = Size(B[1]) /\ Size(B[1]) \in 1..Len(B)
    BY <1>1, <1>3, <1>4, <1>6, <2>7
  <2>13. TailAt(B, 1) => Len(B) \in 1..3
    BY <1>1, <2>8
  <2>14. QED
    BY <2>10, <2>11, <2>12, <2>13
<1>7. QED
  BY <1>5, <1>6

-----------------------------------------------------------------------------
(***************************************************************************)
(* The meaning of a byte string, position by position.                     *)
(***************************************************************************)
CharOf(B, p) == SubSeq(B, p, p + Size(B[p]) - 1)
Inside(B, p) == \E q \in 1..Len(B) : CharAt(B, q) /\ q <= p /\ p <= q + Size(B[q]) - 1
Behind(B, p) == \E q \in 1..Len(B) : TailAt(B, q) /\ q < p
At(B, p) ==
  IF CharAt(B, p) THEN <<CharOf(B, p)>>
  ELSE IF Inside(B, p) \/ Behind(B, p) THEN <<>> ELSE <<Replacement>>

LEMMA Sizes ==
  ASSUME NEW B \in Strings, NEW p \in 1..Len(B)
  PROVE  B[p] \in Byte /\ Size(B[p]) \in 1..4 /\ Len(B) \in Nat
<1>1. PICK b \in Byte : b = B[p]
  BY ElementOfSeq DEF Strings
<1>2. Size(b) \in 1..4
  BY Bytes
<1>3. QED
  BY <1>1, <1>2, LenProperties DEF Strings

LEMMA MeaningIs ==
  ASSUME NEW B \in Strings
  PROVE  Meaning(B) = FlattenSeq([p \in 1..Len(B) |-> At(B, p)])
<1> DEFINE n == Len(B)
           characters == {w \in (1..n) \X (1..n) : w[1] <= w[2] /\ WellFormed(SubSeq(B, w[1], w[2]))}
           tails == {p \in 1..n : Begins(SubSeq(B, p, n)) /\ ~WellFormed(SubSeq(B, p, n))}
           at(p) == IF \E w \in characters : w[1] = p
                    THEN LET w == CHOOSE w \in characters : w[1] = p IN <<SubSeq(B, w[1], w[2])>>
                    ELSE IF \E w \in characters : p \in w[1]..w[2] THEN <<>>
                    ELSE IF \E q \in tails : q < p THEN <<>>
                    ELSE <<Replacement>>
<1>1. Meaning(B) = FlattenSeq([p \in 1..n |-> at(p)])
  BY DEF Meaning
<1>2. n \in Nat
  BY LenProperties DEF Strings
<1>3. \A p \in 1..n, q \in 1..n : <<p, q>> \in characters <=> CharAt(B, p) /\ q = p + Size(B[p]) - 1
  <2>1. ASSUME NEW p \in 1..n, NEW q \in 1..n
        PROVE  <<p, q>> \in characters <=> CharAt(B, p) /\ q = p + Size(B[p]) - 1
    <3>1. PICK z \in 1..4 : z = Size(B[p])
      BY Sizes
    <3>2. <<p, q>> \in characters <=> p <= q /\ WellFormed(SubSeq(B, p, q))
      OBVIOUS
    <3>3. CASE ~(p <= q)
      <4>1. q # p + z - 1
        BY <3>3
      <4>2. QED
        BY <3>1, <3>2, <3>3, <4>1
    <3>4. CASE p <= q
      <4>1. q \in p..Len(B)
        BY <3>4
      <4>2. WellFormed(SubSeq(B, p, q)) <=> Goes(B, p, q - p + 1) /\ q - p + 1 = z
        BY <3>1, <4>1, BeginsIs
      <4>3. q - p + 1 = z <=> q = p + z - 1
        OBVIOUS
      <4>4. CharAt(B, p) <=> p + z - 1 <= n /\ Goes(B, p, z)
        BY <3>1 DEF CharAt
      <4>5. q = p + z - 1 => p + z - 1 <= n
        OBVIOUS
      <4>6. QED
        BY <3>1, <3>2, <3>4, <4>2, <4>3, <4>4, <4>5
    <3>5. QED
      BY <3>3, <3>4
  <2>2. QED
    BY <2>1
<1>4. \A p \in 1..n : CharAt(B, p) => p + Size(B[p]) - 1 \in p..n
  BY <1>2, Sizes DEF CharAt
<1>5. \A w \in characters : w = <<w[1], w[2]>> /\ w[1] \in 1..n /\ w[2] \in 1..n
  OBVIOUS
<1>6. \A p \in 1..n : p \in tails <=> TailAt(B, p)
  <2>1. ASSUME NEW p \in 1..n PROVE p \in tails <=> TailAt(B, p)
    <3>1. PICK z \in 1..4 : z = Size(B[p])
      BY Sizes
    <3>2. n \in p..Len(B)
      BY <1>2
    <3>3. p \in tails <=> Goes(B, p, n - p + 1) /\ n - p + 1 # z
      BY <3>1, <3>2, BeginsIs
    <3>4. Goes(B, p, n - p + 1) => n - p + 1 <= z
      BY <3>1 DEF Goes
    <3>5. TailAt(B, p) <=> n - p + 1 < z /\ Goes(B, p, n - p + 1)
      BY <3>1 DEF TailAt
    <3>6. n - p + 1 \in Int
      BY <1>2
    <3>7. QED
      BY <3>3, <3>4, <3>5, <3>6
  <2>2. QED
    BY <2>1
<1>7. tails \subseteq 1..n
  OBVIOUS
<1> HIDE DEF characters, tails
<1>8. ASSUME NEW p \in 1..n PROVE at(p) = At(B, p)
  <2>1. CASE CharAt(B, p)
    <3>1. PICK c : c = <<p, p + Size(B[p]) - 1>>
      OBVIOUS
    <3>2. c \in characters /\ c[1] = p /\ c[2] = p + Size(B[p]) - 1
      BY <1>2, <1>3, <1>4, <2>1, <3>1
    <3>3. \A w \in characters : w[1] = p => w = c
      BY <1>3, <1>5, <3>1
    <3>4. (CHOOSE w \in characters : w[1] = p) = c
      BY <3>2, <3>3
    <3>5. at(p) = <<SubSeq(B, c[1], c[2])>>
      BY <3>2, <3>4
    <3>6. QED
      BY <2>1, <3>2, <3>5 DEF At, CharOf
  <2>2. CASE ~CharAt(B, p)
    <3>1. ~\E w \in characters : w[1] = p
      BY <1>3, <1>5, <2>2
    <3>2. (\E w \in characters : p \in w[1]..w[2]) <=> Inside(B, p)
      <4>1. ASSUME NEW w \in characters, p \in w[1]..w[2] PROVE Inside(B, p)
        <5>1. CharAt(B, w[1]) /\ w[2] = w[1] + Size(B[w[1]]) - 1 /\ w[1] \in 1..n
          BY <1>3, <1>5
        <5>2. w[1] <= p /\ p <= w[2]
          BY <1>5, <4>1
        <5>3. QED
          BY <5>1, <5>2 DEF Inside
      <4>2. ASSUME Inside(B, p) PROVE \E w \in characters : p \in w[1]..w[2]
        <5>1. PICK q \in 1..n : CharAt(B, q) /\ q <= p /\ p <= q + Size(B[q]) - 1
          BY <4>2 DEF Inside
        <5>2. PICK e \in 1..n : e = q + Size(B[q]) - 1
          BY <1>2, <1>4, <5>1
        <5>3. <<q, e>> \in characters
          BY <1>3, <5>1, <5>2
        <5>4. p \in q..e
          BY <5>1, <5>2
        <5>5. QED
          BY <5>3, <5>4
      <4>3. QED
        BY <4>1, <4>2
    <3>3. (\E q \in tails : q < p) <=> Behind(B, p)
      BY <1>6, <1>7 DEF Behind
    <3>4. QED
      BY <2>2, <3>1, <3>2, <3>3 DEF At
  <2>3. QED
    BY <2>1, <2>2
<1>9. [p \in 1..n |-> at(p)] = [p \in 1..n |-> At(B, p)]
  BY <1>8
<1>10. QED
  BY <1>1, <1>9

-----------------------------------------------------------------------------
(***************************************************************************)
(* One round of the loop takes a piece of the meaning from the front.      *)
(***************************************************************************)
\* R is what comes after the first k bytes of B.
After(B, k, R) == Len(B) = k + Len(R) /\ \A i \in 1..Len(R) : R[i] = B[k + i]

LEMMA AfterIs ==
  ASSUME NEW B \in Strings, NEW k \in 0..Len(B)
  PROVE  SubSeq(B, k + 1, Len(B)) \in Strings /\ After(B, k, SubSeq(B, k + 1, Len(B)))
<1>1. PICK n \in Nat : n = Len(B)
  BY LenProperties DEF Strings
<1>2. k + 1 \in Int /\ n \in Int /\ \A i \in (k + 1)..n : B[i] \in Byte
  <2>1. \A i \in 1..n : B[i] \in Byte
    BY <1>1, ElementOfSeq DEF Strings
  <2>2. \A i \in (k + 1)..n : i \in 1..n
    BY <1>1
  <2>3. QED
    BY <1>1, <2>1, <2>2
<1>3. PICK R : R = SubSeq(B, k + 1, n)
  OBVIOUS
<1>4. /\ R \in Strings /\ Len(R) = (IF k + 1 <= n THEN n - (k + 1) + 1 ELSE 0)
      /\ \A i \in 1..(n - (k + 1) + 1) : R[i] = B[(k + 1) + i - 1]
  BY <1>2, <1>3, SubSeqProperties DEF Strings
<1>5. n - (k + 1) + 1 = n - k /\ (~(k + 1 <= n) => n - k = 0) /\ n - k \in Nat
  BY <1>1
<1>6. \A i \in 1..(n - k) : (k + 1) + i - 1 = k + i
  BY <1>1
<1>7. Len(R) = n - k
  BY <1>4, <1>5
<1>8. \A i \in 1..Len(R) : R[i] = B[k + i]
  BY <1>4, <1>5, <1>6, <1>7
<1>9. QED
  BY <1>1, <1>3, <1>4, <1>5, <1>7, <1>8 DEF After

LEMMA GoesAfter ==
  ASSUME NEW B \in Strings, NEW R \in Strings, NEW k \in Nat, After(B, k, R),
         NEW p \in 1..Len(R), NEW m \in Nat, p + m - 1 <= Len(R)
  PROVE  Goes(B, k + p, m) <=> Goes(R, p, m)
<1>1. PICK n \in Nat : n = Len(R)
  BY LenProperties DEF Strings
<1>2. \A i \in 1..n : R[i] = B[k + i]
  BY <1>1 DEF After
<1>3. R[p] = B[k + p]
  BY <1>1, <1>2
<1>4. m >= 2 => R[p + 1] = B[k + p + 1]
  <2>1. m >= 2 => p + 1 \in 1..n /\ k + (p + 1) = k + p + 1
    BY <1>1
  <2>2. QED
    BY <1>2, <2>1
<1>5. \A i \in 3..m : R[p + i - 1] = B[k + p + i - 1]
  <2>1. \A i \in 3..m : p + i - 1 \in 1..n /\ k + (p + i - 1) = k + p + i - 1
    BY <1>1
  <2>2. QED
    BY <1>2, <2>1
<1>6. QED
  BY <1>3, <1>4, <1>5 DEF Goes

LEMMA StartsAfter ==
  ASSUME NEW B \in Strings, NEW R \in Strings, NEW k \in Nat, After(B, k, R), NEW p \in 1..Len(R)
  PROVE  /\ B[k + p] = R[p]
         /\ CharAt(B, k + p) <=> CharAt(R, p)
         /\ TailAt(B, k + p) <=> TailAt(R, p)
<1>1. PICK n \in Nat : n = Len(R)
  BY LenProperties DEF Strings
<1>2. Len(B) = k + n /\ B[k + p] = R[p]
  BY <1>1 DEF After
<1>3. PICK z \in 1..4 : z = Size(R[p])
  BY Sizes
<1>4. CharAt(B, k + p) <=> CharAt(R, p)
  <2>1. k + p + z - 1 <= k + n <=> p + z - 1 <= n
    BY <1>1
  <2>2. p + z - 1 <= n => (Goes(B, k + p, z) <=> Goes(R, p, z))
    BY <1>1, GoesAfter
  <2>3. QED
    BY <1>1, <1>2, <1>3, <2>1, <2>2 DEF CharAt
<1>5. TailAt(B, k + p) <=> TailAt(R, p)
  <2>1. PICK m \in Nat : m = n - p + 1 /\ p + m - 1 <= n
    <3>1. n - p + 1 \in Nat /\ p + (n - p + 1) - 1 <= n
      BY <1>1
    <3>2. QED
      BY <3>1
  <2>2. (k + n) - (k + p) + 1 = m
    BY <1>1, <2>1
  <2>3. Goes(B, k + p, m) <=> Goes(R, p, m)
    BY <1>1, <2>1, GoesAfter
  <2>4. QED
    BY <1>1, <1>2, <1>3, <2>1, <2>2, <2>3 DEF TailAt
<1>6. QED
  BY <1>2, <1>4, <1>5

\* Nothing reaches beyond the first k bytes.
Closed(B, k) ==
  \A q \in 1..k : ~TailAt(B, q) /\ (CharAt(B, q) => q + Size(B[q]) - 1 <= k)

LEMMA AtAfter ==
  ASSUME NEW B \in Strings, NEW R \in Strings, NEW k \in Nat, After(B, k, R), Closed(B, k), NEW p \in 1..Len(R)
  PROVE  At(B, k + p) = At(R, p)
<1>1. PICK n \in Nat : n = Len(R)
  BY LenProperties DEF Strings
<1>2. Len(B) = k + n
  BY <1>1 DEF After
<1>3. ASSUME CharAt(R, p) PROVE CharOf(B, k + p) = CharOf(R, p)
  <2>1. PICK z \in 1..4 : z = Size(R[p])
    BY Sizes
  <2>2. p + z - 1 <= n /\ B[k + p] = R[p]
    BY <1>1, <1>3, <2>1, StartsAfter DEF CharAt
  <2>3. PICK u : u = SubSeq(R, p, p + z - 1)
    OBVIOUS
  <2>4. PICK v : v = SubSeq(B, k + p, k + p + z - 1)
    OBVIOUS
  <2>5. \A i \in 1..n : R[i] \in Byte /\ R[i] = B[k + i]
    BY <1>1, ElementOfSeq DEF After, Strings
  <2>6. u \in Strings /\ Len(u) = z /\ \A i \in 1..z : u[i] = R[p + i - 1]
    <3>1. p \in Int /\ p + z - 1 \in Int /\ p <= p + z - 1 /\ (p + z - 1) - p + 1 = z
      BY <1>1
    <3>2. \A i \in p..(p + z - 1) : R[i] \in Byte
      <4>1. \A i \in p..(p + z - 1) : i \in 1..n
        BY <1>1, <2>2
      <4>2. QED
        BY <2>5, <4>1
    <3>3. QED
      BY <2>3, <3>1, <3>2, SubSeqProperties DEF Strings
  <2>7. v \in Strings /\ Len(v) = z /\ \A i \in 1..z : v[i] = B[k + p + i - 1]
    <3>1. k + p \in Int /\ k + p + z - 1 \in Int /\ k + p <= k + p + z - 1 /\ (k + p + z - 1) - (k + p) + 1 = z
      BY <1>1
    <3>2. \A i \in (k + p)..(k + p + z - 1) : B[i] \in Byte
      <4>1. \A i \in (k + p)..(k + p + z - 1) : i \in 1..(k + n)
        BY <1>1, <2>2
      <4>2. \A i \in 1..(k + n) : B[i] \in Byte
        BY <1>2, ElementOfSeq DEF Strings
      <4>3. QED
        BY <4>1, <4>2
    <3>3. QED
      BY <2>4, <3>1, <3>2, SubSeqProperties DEF Strings
  <2>8. \A i \in 1..z : u[i] = v[i]
    <3>1. \A i \in 1..z : p + i - 1 \in 1..n /\ k + (p + i - 1) = k + p + i - 1
      BY <1>1, <2>2
    <3>2. QED
      BY <2>5, <2>6, <2>7, <3>1
  <2>9. u = v
    BY <2>6, <2>7, <2>8, SeqEqual DEF Strings
  <2>10. QED
    BY <2>1, <2>2, <2>3, <2>4, <2>9 DEF CharOf
<1>4. Inside(B, k + p) <=> Inside(R, p)
  <2>1. ASSUME Inside(B, k + p) PROVE Inside(R, p)
    <3>1. PICK q \in 1..(k + n) : CharAt(B, q) /\ q <= k + p /\ k + p <= q + Size(B[q]) - 1
      BY <1>2, <2>1 DEF Inside
    <3>2. PICK z \in 1..4 : z = Size(B[q])
      BY <1>2, Sizes
    <3>3. ~(q <= k)
      <4>1. SUFFICES ASSUME q <= k PROVE FALSE
        OBVIOUS
      <4>2. q + z - 1 <= k
        BY <3>1, <3>2, <4>1 DEF Closed
      <4>3. QED
        BY <1>1, <3>1, <3>2, <4>2
    <3>4. PICK r \in 1..n : q = k + r
      <4>1. q - k \in 1..n /\ q = k + (q - k)
        BY <1>1, <3>1, <3>3
      <4>2. QED
        BY <4>1
    <3>5. CharAt(R, r) /\ R[r] = B[q]
      BY <1>1, <3>1, <3>4, StartsAfter
    <3>6. r <= p /\ p <= r + z - 1
      BY <1>1, <3>1, <3>2, <3>4
    <3>7. QED
      BY <1>1, <3>2, <3>5, <3>6 DEF Inside
  <2>2. ASSUME Inside(R, p) PROVE Inside(B, k + p)
    <3>1. PICK r \in 1..n : CharAt(R, r) /\ r <= p /\ p <= r + Size(R[r]) - 1
      BY <1>1, <2>2 DEF Inside
    <3>2. PICK z \in 1..4 : z = Size(R[r])
      BY <1>1, Sizes
    <3>3. CharAt(B, k + r) /\ R[r] = B[k + r]
      BY <1>1, <3>1, StartsAfter
    <3>4. k + r \in 1..(k + n) /\ k + r <= k + p /\ k + p <= k + r + z - 1
      BY <1>1, <3>1, <3>2
    <3>5. QED
      BY <1>2, <3>2, <3>3, <3>4 DEF Inside
  <2>3. QED
    BY <2>1, <2>2
<1>5. Behind(B, k + p) <=> Behind(R, p)
  <2>1. ASSUME Behind(B, k + p) PROVE Behind(R, p)
    <3>1. PICK q \in 1..(k + n) : TailAt(B, q) /\ q < k + p
      BY <1>2, <2>1 DEF Behind
    <3>2. ~(q <= k)
      BY <3>1 DEF Closed
    <3>3. PICK r \in 1..n : q = k + r
      <4>1. q - k \in 1..n /\ q = k + (q - k)
        BY <1>1, <3>1, <3>2
      <4>2. QED
        BY <4>1
    <3>4. TailAt(R, r) /\ r < p
      BY <1>1, <3>1, <3>3, StartsAfter
    <3>5. QED
      BY <1>1, <3>4 DEF Behind
  <2>2. ASSUME Behind(R, p) PROVE Behind(B, k + p)
    <3>1. PICK r \in 1..n : TailAt(R, r) /\ r < p
      BY <1>1, <2>2 DEF Behind
    <3>2. TailAt(B, k + r) /\ k + r \in 1..(k + n) /\ k + r < k + p
      BY <1>1, <3>1, StartsAfter
    <3>3. QED
      BY <1>2, <3>2 DEF Behind
  <2>3. QED
    BY <2>1, <2>2
<1>6. CharAt(B, k + p) <=> CharAt(R, p)
  BY StartsAfter
<1>7. QED
  BY <1>3, <1>4, <1>5, <1>6 DEF At

\* What can neither be taken from the front nor is empty is taken as
\* Step says: the first k places mean one character.
LEMMA FrontIs ==
  ASSUME NEW B \in Strings, B # <<>>, ~TailAt(B, 1)
  PROVE  /\ Step(B).taken \in 1..Len(B) /\ Step(B).char \in Strings
         /\ Closed(B, Step(B).taken)
         /\ At(B, 1) = <<Step(B).char>>
         /\ \A i \in 2..Step(B).taken : At(B, i) = <<>>
<1>1. PICK n \in Nat \ {0} : n = Len(B)
  BY EmptySeq DEF Strings
<1>2. 1 \in 1..n
  BY <1>1
<1>3. CASE CharAt(B, 1)
  <2>1. PICK z \in 1..4 : z = Size(B[1])
    BY <1>1, <1>2, Sizes
  <2>2. z <= n /\ Goes(B, 1, z)
    <3>1. 1 + z - 1 = z
      OBVIOUS
    <3>2. QED
      BY <1>1, <1>3, <2>1, <3>1 DEF CharAt
  <2>3. Valid(B) /\ ~Short(B) /\ Width(B[1]) = z
    BY <1>3, <2>1, FirstIs
  <2>4. Step(B) = [taken |-> z, char |-> SubSeq(B, 1, z)]
    BY <2>3 DEF Step
  <2>5. SubSeq(B, 1, z) \in Strings /\ CharOf(B, 1) = SubSeq(B, 1, z)
    <3>1. \A i \in 1..z : B[i] \in Byte
      <4>1. \A i \in 1..z : i \in 1..n
        BY <2>2
      <4>2. QED
        BY <1>1, <4>1, ElementOfSeq DEF Strings
    <3>2. 1 \in Int /\ z \in Int /\ 1 + z - 1 = z
      OBVIOUS
    <3>3. QED
      BY <2>1, <3>1, <3>2, SubSeqProperties DEF Strings, CharOf
  <2>6. ASSUME NEW q \in 2..z PROVE ~CharAt(B, q) /\ ~TailAt(B, q)
    <3>1. 1 + z - 1 <= n /\ 1 + q - 1 = q /\ z \in Nat
      BY <2>2
    <3>2. ~Lead(B[q])
      BY <1>1, <1>2, <2>2, <2>6, <3>1, GoesOn
    <3>3. QED
      BY <3>2 DEF CharAt, TailAt, Goes
  <2>7. Closed(B, z)
    <3>1. ASSUME NEW q \in 1..z PROVE ~TailAt(B, q) /\ (CharAt(B, q) => q + Size(B[q]) - 1 <= z)
      <4>1. CASE q = 1
        BY <2>1, <4>1
      <4>2. CASE q # 1
        <5>1. q \in 2..z
          BY <4>2
        <5>2. QED
          BY <2>6, <5>1
      <4>3. QED
        BY <4>1, <4>2
    <3>2. QED
      BY <3>1 DEF Closed
  <2>8. At(B, 1) = <<SubSeq(B, 1, z)>>
    BY <1>3, <2>5 DEF At
  <2>9. ASSUME NEW i \in 2..z PROVE At(B, i) = <<>>
    <3>1. Inside(B, i)
      <4>1. 1 <= i /\ i <= 1 + z - 1
        OBVIOUS
      <4>2. QED
        BY <1>1, <1>2, <1>3, <2>1, <4>1 DEF Inside
    <3>2. QED
      BY <2>6, <3>1 DEF At
  <2>10. z \in 1..n
    BY <2>2
  <2>11. QED
    BY <1>1, <2>4, <2>5, <2>7, <2>8, <2>9, <2>10
<1>4. CASE ~CharAt(B, 1)
  <2>1. ~Valid(B)
    BY <1>4, FirstIs
  <2>2. Step(B) = [taken |-> 1, char |-> Replacement]
    BY <2>1 DEF Step
  <2>3. Closed(B, 1)
    BY <1>4 DEF Closed
  <2>4. At(B, 1) = <<Replacement>>
    <3>1. ~Inside(B, 1)
      <4>1. \A q \in 1..n : q <= 1 => q = 1
        OBVIOUS
      <4>2. QED
        BY <1>1, <1>4, <4>1 DEF Inside
    <3>2. ~Behind(B, 1)
      <4>1. \A q \in 1..n : ~(q < 1)
        OBVIOUS
      <4>2. QED
        BY <1>1, <4>1 DEF Behind
    <3>3. QED
      BY <1>4, <3>1, <3>2 DEF At
  <2>5. Replacement \in Strings
    BY DEF Replacement, Strings, Byte
  <2>6. QED
    BY <1>1, <1>2, <2>2, <2>3, <2>4, <2>5
<1>5. QED
  BY <1>3, <1>4

LEMMA OneText == \A c \in Strings : <<c>> \in Seq(Strings)
OBVIOUS

LEMMA AtIs ==
  ASSUME NEW B \in Strings, NEW p \in 1..Len(B)
  PROVE  At(B, p) \in Seq(Strings)
<1>1. Replacement \in Strings
  BY DEF Replacement, Strings, Byte
<1>2. CharAt(B, p) => CharOf(B, p) \in Strings
  <2>1. PICK z \in 1..4 : z = Size(B[p])
    BY Sizes
  <2>2. PICK n \in Nat : n = Len(B)
    BY LenProperties DEF Strings
  <2>3. SUFFICES ASSUME CharAt(B, p) PROVE CharOf(B, p) \in Strings
    OBVIOUS
  <2>4. p + z - 1 <= n
    BY <2>1, <2>2, <2>3 DEF CharAt
  <2>5. \A i \in p..(p + z - 1) : B[i] \in Byte
    <3>1. \A i \in p..(p + z - 1) : i \in 1..n
      BY <2>2, <2>4
    <3>2. QED
      BY <2>2, <3>1, ElementOfSeq DEF Strings
  <2>6. p \in Int /\ p + z - 1 \in Int
    BY <2>2
  <2>7. QED
    BY <2>1, <2>5, <2>6, SubSeqProperties DEF Strings, CharOf
<1>3. <<>> \in Seq(Strings) /\ \A c \in Strings : <<c>> \in Seq(Strings)
  OBVIOUS
<1>4. QED
  BY <1>1, <1>2, <1>3 DEF At

\* The places of a byte string, as texts.
LEMMA PlacesAre ==
  ASSUME NEW B \in Strings, NEW s, s = [p \in 1..Len(B) |-> At(B, p)]
  PROVE  /\ s \in Seq(Seq(Strings)) /\ Len(s) = Len(B) /\ Meaning(B) = FlattenSeq(s)
         /\ \A p \in 1..Len(B) : s[p] = At(B, p)
<1>1. PICK n \in Nat : n = Len(B)
  BY LenProperties DEF Strings
<1>2. \A p \in 1..n : At(B, p) \in Seq(Strings)
  BY <1>1, AtIs
<1>3. s = [p \in 1..n |-> At(B, p)]
  BY <1>1
<1>4. s \in [1..n -> Seq(Strings)]
  BY <1>2, <1>3
<1>5. s \in Seq(Seq(Strings)) /\ Len(s) = n
  BY <1>4
<1>6. QED
  BY <1>1, <1>3, <1>5, MeaningIs

LEMMA MeaningSeq ==
  ASSUME NEW B \in Strings
  PROVE  Meaning(B) \in Seq(Strings)
<1>1. PICK s : s = [p \in 1..Len(B) |-> At(B, p)]
  OBVIOUS
<1>2. QED
  BY <1>1, PlacesAre, FlattenSeqs

LEMMA MeaningOfNothing == <<>> \in Strings /\ Meaning(<<>>) = <<>>
<1>1. PICK B : B = <<>>
  OBVIOUS
<1>2. B \in Strings /\ Len(B) = 0
  BY <1>1 DEF Strings
<1>3. PICK s : s = [p \in 1..Len(B) |-> At(B, p)]
  OBVIOUS
<1>4. s \in Seq(Seq(Strings)) /\ Len(s) = 0 /\ Meaning(B) = FlattenSeq(s)
  BY <1>2, <1>3, PlacesAre
<1>5. s = <<>>
  BY <1>4, EmptySeq
<1>6. QED
  BY <1>1, <1>2, <1>4, <1>5, FlattenEmpty

\* The first k places mean the character c.
MeansFirst(B, k, c) == At(B, 1) = <<c>> /\ \A i \in 2..k : At(B, i) = <<>>

LEMMA MeaningSplits ==
  ASSUME NEW B \in Strings, NEW k \in 1..Len(B), NEW c \in Strings, NEW R \in Strings,
         After(B, k, R), Closed(B, k), MeansFirst(B, k, c)
  PROVE  Meaning(B) = <<c>> \o Meaning(R)
<1>1. PICK n \in Nat : n = Len(B)
  BY LenProperties DEF Strings
<1>2. k \in 1..n /\ k \in Nat \ {0} /\ At(B, 1) = <<c>> /\ \A i \in 2..k : At(B, i) = <<>>
  BY <1>1 DEF MeansFirst
<1>3. PICK m \in Nat : m = Len(R) /\ n = k + m
  BY <1>1, LenProperties DEF Strings, After
<1>4. PICK s : s = [p \in 1..Len(B) |-> At(B, p)]
  OBVIOUS
<1>5. PICK u : u = [p \in 1..Len(R) |-> At(R, p)]
  OBVIOUS
<1>6. /\ s \in Seq(Seq(Strings)) /\ Len(s) = n /\ Meaning(B) = FlattenSeq(s)
      /\ \A p \in 1..n : s[p] = At(B, p)
  BY <1>1, <1>4, PlacesAre
<1>7. /\ u \in Seq(Seq(Strings)) /\ Len(u) = m /\ Meaning(R) = FlattenSeq(u)
      /\ \A p \in 1..m : u[p] = At(R, p)
  BY <1>3, <1>5, PlacesAre
<1>8. Starts(s, k, <<c>>, u)
  <2>1. s[1] = <<c>> /\ \A i \in 2..k : s[i] = <<>>
    <3>1. 1 \in 1..n /\ \A i \in 2..k : i \in 1..n
      BY <1>2
    <3>2. QED
      BY <1>2, <1>6, <3>1
  <2>2. ASSUME NEW i \in 1..m PROVE s[k + i] = u[i]
    <3>1. k + i \in 1..n
      BY <1>2, <1>3, <2>2
    <3>2. At(B, k + i) = At(R, i)
      BY <1>2, <1>3, <2>2, AtAfter
    <3>3. QED
      BY <1>6, <1>7, <3>1, <3>2
  <2>3. QED
    BY <1>3, <1>6, <1>7, <2>1, <2>2 DEF Starts
<1>9. PICK a \in Seq(Strings) : a = <<c>>
  BY OneText
<1>10. FlattenSeq(s) = a \o FlattenSeq(u)
  <2>1. Starts(s, k, a, u)
    BY <1>8, <1>9
  <2>2. k \in Nat \ {0} /\ s \in Seq(Seq(Strings)) /\ u \in Seq(Seq(Strings))
    BY <1>2, <1>6, <1>7
  <2>3. QED
    BY <2>1, <2>2, FlattenStarts
<1>11. QED
  BY <1>6, <1>7, <1>9, <1>10

LEMMA MeaningStep ==
  ASSUME NEW B \in Strings, B # <<>>, ~TailAt(B, 1),
         NEW k, k = Step(B).taken, NEW R, R = SubSeq(B, k + 1, Len(B))
  PROVE  R \in Strings /\ Meaning(B) = <<Step(B).char>> \o Meaning(R)
<1>1. PICK j \in 1..Len(B) : j = k
  BY FrontIs
<1>2. PICK c \in Strings : c = Step(B).char
  BY FrontIs
<1>3. Closed(B, j) /\ MeansFirst(B, j, c)
  BY <1>1, <1>2, FrontIs DEF MeansFirst
<1>4. PICK Q \in Strings : Q = R /\ After(B, j, Q)
  <2>1. j \in 0..Len(B)
    BY LenProperties DEF Strings
  <2>2. QED
    BY <1>1, <2>1, AfterIs
<1>5. Meaning(B) = <<c>> \o Meaning(Q)
  BY <1>3, <1>4, MeaningSplits
<1>6. QED
  BY <1>2, <1>4, <1>5

\* The beginning of a character, and nothing else, means one replacement.
LEMMA MeaningWaits ==
  ASSUME NEW B \in Strings, B # <<>>, TailAt(B, 1)
  PROVE  Meaning(B) = <<Replacement>> /\ Len(B) \in 1..3
<1>1. PICK n \in 1..3 : n = Len(B)
  BY FirstIs
<1>2. Goes(B, 1, n) /\ ~CharAt(B, 1)
  <2>1. n - 1 + 1 = n
    OBVIOUS
  <2>2. Goes(B, 1, n)
    BY <1>1, <2>1 DEF TailAt
  <2>3. Short(B)
    BY FirstIs
  <2>4. QED
    BY <2>2, <2>3, FirstIs
<1>3. At(B, 1) = <<Replacement>>
  <2>1. ~Inside(B, 1)
    <3>1. \A q \in 1..n : q <= 1 => q = 1
      OBVIOUS
    <3>2. QED
      BY <1>1, <1>2, <3>1 DEF Inside
  <2>2. ~Behind(B, 1)
    <3>1. \A q \in 1..n : ~(q < 1)
      OBVIOUS
    <3>2. QED
      BY <1>1, <3>1 DEF Behind
  <2>3. QED
    BY <1>2, <2>1, <2>2 DEF At
<1>4. ASSUME NEW i \in 2..n PROVE At(B, i) = <<>>
  <2>1. 1 \in 1..n /\ n \in Nat /\ 1 + n - 1 <= n /\ 1 + i - 1 = i
    OBVIOUS
  <2>2. ~Lead(B[i])
    BY <1>1, <1>2, <2>1, GoesOn
  <2>3. ~CharAt(B, i)
    BY <2>2 DEF CharAt, Goes
  <2>4. Behind(B, i)
    BY <1>1, <2>1 DEF Behind
  <2>5. QED
    BY <2>3, <2>4 DEF At
<1>5. PICK s : s = [p \in 1..Len(B) |-> At(B, p)]
  OBVIOUS
<1>6. /\ s \in Seq(Seq(Strings)) /\ Len(s) = n /\ Meaning(B) = FlattenSeq(s)
      /\ \A p \in 1..n : s[p] = At(B, p)
  BY <1>1, <1>5, PlacesAre
<1>7. PICK a \in Seq(Strings) : a = <<Replacement>>
  <2>1. Replacement \in Strings
    BY DEF Replacement, Strings, Byte
  <2>2. QED
    BY <2>1, OneText
<1>8. PICK u \in Seq(Seq(Strings)) : u = <<>>
  <2>1. <<>> \in Seq(Seq(Strings))
    OBVIOUS
  <2>2. QED
    BY <2>1
<1>9. Starts(s, n, a, u)
  <2>1. s[1] = a /\ \A i \in 2..n : s[i] = <<>>
    <3>1. 1 \in 1..n /\ \A i \in 2..n : i \in 1..n
      OBVIOUS
    <3>2. QED
      BY <1>3, <1>4, <1>6, <1>7, <3>1
  <2>2. Len(u) = 0 /\ n = n + 0
    BY <1>8
  <2>3. QED
    BY <1>6, <2>1, <2>2 DEF Starts
<1>10. FlattenSeq(s) = a \o FlattenSeq(u)
  <2>1. n \in Nat \ {0}
    OBVIOUS
  <2>2. QED
    BY <1>6, <1>9, <2>1, FlattenStarts
<1>11. FlattenSeq(u) = <<>>
  BY <1>8, FlattenEmpty
<1>12. QED
  BY <1>1, <1>6, <1>7, <1>10, <1>11, ConcatEmptySeq

\* What the loop leaves after one round.
Rest(B) == SubSeq(B, Step(B).taken + 1, Len(B))

LEMMA RestIs ==
  ASSUME NEW B \in Strings, B # <<>>, ~TailAt(B, 1)
  PROVE  /\ Rest(B) \in Strings /\ Meaning(B) = <<Step(B).char>> \o Meaning(Rest(B))
         /\ After(B, Step(B).taken, Rest(B)) /\ Step(B).taken \in 1..Len(B) /\ Step(B).char \in Strings
<1>1. PICK k : k = Step(B).taken
  OBVIOUS
<1>2. k \in 1..Len(B) /\ Len(B) \in Nat
  BY <1>1, FrontIs, LenProperties DEF Strings
<1>3. k \in 0..Len(B)
  BY <1>2
<1>4. Rest(B) = SubSeq(B, k + 1, Len(B))
  BY <1>1 DEF Rest
<1>5. After(B, k, Rest(B))
  BY <1>3, <1>4, AfterIs
<1>6. Rest(B) \in Strings /\ Meaning(B) = <<Step(B).char>> \o Meaning(Rest(B))
  BY <1>1, <1>4, MeaningStep
<1>7. QED
  BY <1>1, <1>2, <1>5, <1>6, FrontIs

LEMMA FrontBytes ==
  ASSUME NEW X, NEW z \in Nat, \A i \in 1..z : X[i] \in Byte
  PROVE  SubSeq(X, 1, z) \in Strings /\ Len(SubSeq(X, 1, z)) = z /\ \A i \in 1..z : SubSeq(X, 1, z)[i] = X[i]
<1>1. PICK a \in Int : a = 1
  OBVIOUS
<1>2. a \in Int /\ z \in Int /\ (IF a <= z THEN z - a + 1 ELSE 0) = z /\ z - a + 1 = z /\ \A i \in 1..z : a + i - 1 = i
  BY <1>1
<1>3. \A i \in a..z : X[i] \in Byte
  BY <1>1
<1>4. /\ SubSeq(X, a, z) \in Strings /\ Len(SubSeq(X, a, z)) = (IF a <= z THEN z - a + 1 ELSE 0)
      /\ \A i \in 1..(z - a + 1) : SubSeq(X, a, z)[i] = X[a + i - 1]
  BY <1>2, <1>3, SubSeqProperties DEF Strings
<1>5. Len(SubSeq(X, a, z)) = z /\ \A i \in 1..z : SubSeq(X, a, z)[i] = X[i]
  BY <1>2, <1>4
<1>6. QED
  BY <1>1, <1>4, <1>5

\* A round depends on nothing that comes later.
LEMMA Extends ==
  ASSUME NEW B \in Strings, NEW C \in Strings, B # <<>>, ~TailAt(B, 1), NEW X, X = B \o C
  PROVE  /\ X \in Strings /\ X # <<>> /\ ~TailAt(X, 1)
         /\ Step(X) = Step(B)
<1>1. PICK n \in Nat : n = Len(B)
  BY LenProperties DEF Strings
<1>2. n # 0
  BY <1>1, EmptySeq DEF Strings
<1>3. PICK l \in Nat : l = Len(C)
  BY LenProperties DEF Strings
<1>4. X \in Strings /\ Len(X) = n + l /\ \A i \in 1..n : X[i] = B[i]
  <2>1. X \in Strings /\ Len(X) = n + l /\ \A i \in 1..(n + l) : X[i] = IF i <= n THEN B[i] ELSE C[i - n]
    BY <1>1, <1>3, ConcatProperties DEF Strings
  <2>2. \A i \in 1..n : i \in 1..(n + l) /\ i <= n
    OBVIOUS
  <2>3. QED
    BY <2>1, <2>2
<1>5. X # <<>>
  <2>1. Len(X) # 0
    BY <1>2, <1>4
  <2>2. QED
    BY <2>1, EmptySeq DEF Strings
<1>6. 1 \in 1..n /\ X[1] = B[1] /\ 1 \in 1..Len(X) /\ 1 \in 1..Len(B)
  BY <1>1, <1>2, <1>4
<1>7. CASE CharAt(B, 1)
  <2>1. PICK z \in 1..4 : z = Size(B[1])
    BY <1>6, Sizes
  <2>2. z <= n /\ Goes(B, 1, z)
    <3>1. 1 + z - 1 = z
      OBVIOUS
    <3>2. QED
      BY <1>1, <1>7, <2>1, <3>1 DEF CharAt
  <2>3. Goes(X, 1, z)
    <3>1. z >= 2 => X[1 + 1] = B[1 + 1]
      <4>1. z >= 2 => 1 + 1 \in 1..n
        BY <2>2
      <4>2. QED
        BY <1>4, <4>1
    <3>2. \A i \in 3..z : X[1 + i - 1] = B[1 + i - 1]
      <4>1. \A i \in 3..z : 1 + i - 1 \in 1..n
        BY <2>2
      <4>2. QED
        BY <1>4, <4>1
    <3>3. QED
      BY <1>6, <2>2, <3>1, <3>2 DEF Goes
  <2>4. CharAt(X, 1)
    <3>1. 1 + z - 1 <= n + l
      BY <2>2
    <3>2. QED
      BY <1>4, <1>6, <2>1, <2>3, <3>1 DEF CharAt
  <2>5. Valid(X) /\ ~Short(X) /\ Width(X[1]) = z /\ ~TailAt(X, 1)
    <3>1. Valid(X) /\ ~Short(X)
      BY <1>4, <1>5, <2>4, FirstIs
    <3>2. ~TailAt(X, 1)
      BY <1>4, <1>5, <3>1, FirstIs
    <3>3. Width(X[1]) = Size(X[1])
      BY <1>4, <1>5, <2>4, FirstIs
    <3>4. QED
      BY <1>6, <2>1, <3>1, <3>2, <3>3
  <2>6. Valid(B) /\ ~Short(B) /\ Width(B[1]) = z
    BY <1>7, <2>1, FirstIs
  <2>7. SubSeq(X, 1, z) = SubSeq(B, 1, z)
    <3>1. \A i \in 1..z : X[i] = B[i] /\ B[i] \in Byte /\ X[i] \in Byte
      <4>1. \A i \in 1..z : i \in 1..n /\ i \in 1..Len(B)
        BY <1>1, <2>2
      <4>2. \A i \in 1..z : B[i] \in Byte
        BY <4>1, ElementOfSeq DEF Strings
      <4>3. QED
        BY <1>4, <4>1, <4>2
    <3>3. SubSeq(X, 1, z) \in Strings /\ Len(SubSeq(X, 1, z)) = z /\ \A i \in 1..z : SubSeq(X, 1, z)[i] = X[i]
      <4>1. PICK V : V = X
        OBVIOUS
      <4>2. \A i \in 1..z : V[i] \in Byte
        BY <3>1, <4>1
      <4>3. z \in Nat
        OBVIOUS
      <4>4. SubSeq(V, 1, z) \in Strings /\ Len(SubSeq(V, 1, z)) = z /\ \A i \in 1..z : SubSeq(V, 1, z)[i] = V[i]
        BY <4>2, <4>3, FrontBytes
      <4>5. QED
        BY <4>1, <4>4
    <3>4. SubSeq(B, 1, z) \in Strings /\ Len(SubSeq(B, 1, z)) = z /\ \A i \in 1..z : SubSeq(B, 1, z)[i] = B[i]
      BY <3>1, FrontBytes
    <3>5. PICK u : u = SubSeq(X, 1, z)
      OBVIOUS
    <3>6. PICK v : v = SubSeq(B, 1, z)
      OBVIOUS
    <3>7. u \in Strings /\ v \in Strings /\ Len(u) = z /\ Len(v) = z /\ \A i \in 1..z : u[i] = v[i]
      BY <3>1, <3>3, <3>4, <3>5, <3>6
    <3>8. u = v
      BY <3>7, SeqEqual DEF Strings
    <3>9. QED
      BY <3>5, <3>6, <3>8
  <2>8. Step(X) = [taken |-> z, char |-> SubSeq(X, 1, z)]
    BY <2>5 DEF Step
  <2>9. Step(B) = [taken |-> z, char |-> SubSeq(B, 1, z)]
    BY <2>6 DEF Step
  <2>10. QED
    BY <1>4, <1>5, <2>5, <2>7, <2>8, <2>9
<1>8. CASE ~CharAt(B, 1)
  <2>1. ~Valid(B)
    BY <1>8, FirstIs
  <2>2. ~Valid(X)
    <3>1. SUFFICES ASSUME Valid(X) PROVE Valid(B)
      BY <2>1
    <3>2. PICK w : w = Width(B[1])
      OBVIOUS
    <3>3. w # 0 /\ \A i \in 2..w : i <= n + l => IF i = 2 THEN Second(B[1], X[2]) ELSE X[i] \in 128..191
      BY <1>4, <1>6, <3>1, <3>2 DEF Valid
    <3>4. w \in Nat
      BY <3>2 DEF Width
    <3>5. \A i \in 2..w : i <= n => i <= n + l /\ i \in 1..n
      BY <3>4
    <3>6. \A i \in 2..w : i <= n => IF i = 2 THEN Second(B[1], B[2]) ELSE B[i] \in 128..191
      BY <1>4, <3>3, <3>5
    <3>7. QED
      BY <1>1, <3>2, <3>3, <3>6 DEF Valid
  <2>3. ~TailAt(X, 1)
    BY <1>4, <1>5, <2>2, FirstIs
  <2>4. Step(X) = Step(B)
    BY <2>1, <2>2 DEF Step
  <2>5. QED
    BY <1>4, <1>5, <2>3, <2>4
<1>9. QED
  BY <1>7, <1>8

LEMMA MeaningMore ==
  ASSUME NEW B \in Strings, NEW C \in Strings, B # <<>>, ~TailAt(B, 1)
  PROVE  Meaning(B \o C) = <<Step(B).char>> \o Meaning(Rest(B) \o C)
<1>1. PICK X : X = B \o C
  OBVIOUS
<1>2. X \in Strings /\ X # <<>> /\ ~TailAt(X, 1) /\ Step(X) = Step(B)
  BY <1>1, Extends
<1>3. PICK k : k = Step(B).taken
  OBVIOUS
<1>4. PICK R \in Strings : R = Rest(B) /\ After(B, k, R) /\ k \in 1..Len(B)
  BY <1>3, RestIs
<1>5. PICK Y \in Strings : Y = Rest(X) /\ After(X, k, Y) /\ Meaning(X) = <<Step(B).char>> \o Meaning(Y)
  BY <1>2, <1>3, RestIs
<1>6. PICK n \in Nat, l \in Nat, m \in Nat, y \in Nat : n = Len(B) /\ l = Len(C) /\ m = Len(R) /\ y = Len(Y)
  BY LenProperties DEF Strings
<1>7. n = k + m /\ k \in 1..n /\ \A i \in 1..m : R[i] = B[k + i]
  BY <1>4, <1>6 DEF After
<1>8. Len(X) = n + l /\ \A i \in 1..(n + l) : X[i] = IF i <= n THEN B[i] ELSE C[i - n]
  BY <1>1, <1>6, ConcatProperties DEF Strings
<1>9. n + l = k + y /\ \A i \in 1..y : Y[i] = X[k + i]
  BY <1>5, <1>6, <1>8 DEF After
<1>10. PICK Z : Z = R \o C
  OBVIOUS
<1>11. Z \in Strings /\ Len(Z) = m + l /\ \A i \in 1..(m + l) : Z[i] = IF i <= m THEN R[i] ELSE C[i - m]
  BY <1>6, <1>10, ConcatProperties DEF Strings
<1>12. y = m + l
  BY <1>7, <1>9
<1>13. ASSUME NEW i \in 1..y PROVE Y[i] = Z[i]
  <2>1. k + i \in 1..(n + l) /\ i \in 1..(m + l)
    BY <1>7, <1>12, <1>13
  <2>2. CASE i <= m
    <3>1. k + i <= n /\ i \in 1..m
      BY <1>7, <1>13, <2>2
    <3>2. Y[i] = B[k + i] /\ Z[i] = R[i] /\ R[i] = B[k + i]
      BY <1>7, <1>8, <1>9, <1>11, <1>13, <2>1, <2>2, <3>1
    <3>3. QED
      BY <3>2
  <2>3. CASE ~(i <= m)
    <3>1. ~(k + i <= n) /\ (k + i) - n = i - m
      BY <1>7, <1>13, <2>3
    <3>2. Y[i] = C[(k + i) - n] /\ Z[i] = C[i - m]
      BY <1>8, <1>9, <1>11, <1>13, <2>1, <2>3, <3>1
    <3>3. QED
      BY <3>1, <3>2
  <2>4. QED
    BY <2>2, <2>3
<1>14. Y = Z
  BY <1>6, <1>11, <1>12, <1>13, SeqEqual DEF Strings
<1>15. QED
  BY <1>1, <1>4, <1>5, <1>10, <1>14

-----------------------------------------------------------------------------
(***************************************************************************)
(* The loop of drain().                                                    *)
(***************************************************************************)
From(B, p) == SubSeq(B, p, Len(B))

LEMMA StepTakes ==
  ASSUME NEW B \in Strings, B # <<>>
  PROVE  /\ Step(B).taken \in 1..Len(B) /\ Step(B).char \in Strings
         /\ TailAt(B, 1) => Step(B).taken = Len(B) /\ Step(B).char = Replacement
<1>1. CASE ~TailAt(B, 1)
  BY <1>1, FrontIs
<1>2. CASE TailAt(B, 1)
  <2>1. Valid(B) /\ Short(B) /\ Len(B) \in 1..3
    BY <1>2, FirstIs
  <2>2. Step(B) = [taken |-> Len(B), char |-> Replacement]
    BY <2>1 DEF Step
  <2>3. Replacement \in Strings
    BY DEF Replacement, Strings, Byte
  <2>4. QED
    BY <2>1, <2>2, <2>3
<1>3. QED
  BY <1>1, <1>2

LEMMA FromIs ==
  ASSUME NEW B \in Strings, NEW p \in 1..(Len(B) + 1)
  PROVE  /\ From(B, p) \in Strings /\ After(B, p - 1, From(B, p))
         /\ Len(From(B, p)) = Len(B) + 1 - p /\ Len(B) \in Nat
<1>1. PICK n \in Nat : n = Len(B)
  BY LenProperties DEF Strings
<1>2. PICK k \in 0..n : k = p - 1 /\ k + 1 = p
  <2>1. p - 1 \in 0..n /\ (p - 1) + 1 = p
    BY <1>1
  <2>2. QED
    BY <2>1
<1>3. SubSeq(B, k + 1, Len(B)) \in Strings /\ After(B, k, SubSeq(B, k + 1, Len(B)))
  BY <1>1, AfterIs
<1>4. PICK R \in Strings : R = From(B, p) /\ After(B, k, R)
  BY <1>2, <1>3 DEF From
<1>5. PICK m \in Nat : m = Len(R) /\ n = k + m
  BY <1>1, <1>4, LenProperties DEF Strings, After
<1>6. m = n + 1 - p
  BY <1>2, <1>5
<1>7. QED
  BY <1>1, <1>2, <1>4, <1>5, <1>6

LEMMA FromRest ==
  ASSUME NEW B \in Strings, NEW p \in 1..(Len(B) + 1), From(B, p) # <<>>
  PROVE  /\ p + Step(From(B, p)).taken \in (p + 1)..(Len(B) + 1)
         /\ Rest(From(B, p)) = From(B, p + Step(From(B, p)).taken)
<1>1. PICK n \in Nat : n = Len(B)
  BY LenProperties DEF Strings
<1>2. PICK R \in Strings : R = From(B, p) /\ After(B, p - 1, R) /\ Len(R) = n + 1 - p
  BY <1>1, FromIs
<1>3. PICK m \in Nat : m = Len(R) /\ m = n + 1 - p
  BY <1>2, LenProperties DEF Strings
<1>4. PICK k \in 1..m : k = Step(R).taken
  BY <1>2, <1>3, StepTakes
<1>5. PICK q : q = p + k
  OBVIOUS
<1>6. q \in (p + 1)..(n + 1) /\ q \in 1..(n + 1) /\ q - 1 = (p - 1) + k /\ n + 1 - q = m - k /\ m - k \in Nat
  BY <1>1, <1>3, <1>5
<1>7. PICK F \in Strings : F = From(B, q) /\ After(B, q - 1, F) /\ Len(F) = m - k
  BY <1>1, <1>6, FromIs
<1>8. PICK G \in Strings : G = Rest(R) /\ After(R, k, G)
  <2>1. k \in 0..Len(R)
    BY <1>3
  <2>2. QED
    BY <1>4, <2>1, AfterIs DEF Rest
<1>9. Len(G) = m - k
  <2>1. PICK g \in Nat : g = Len(G) /\ m = k + g
    BY <1>3, <1>8, LenProperties DEF Strings, After
  <2>2. g = m - k
    BY <2>1
  <2>3. QED
    BY <2>1, <2>2
<1>10. ASSUME NEW i \in 1..(m - k) PROVE F[i] = G[i]
  <2>1. F[i] = B[(q - 1) + i]
    BY <1>7, <1>10 DEF After
  <2>2. G[i] = R[k + i]
    BY <1>8, <1>9, <1>10 DEF After
  <2>3. R[k + i] = B[(p - 1) + (k + i)]
    <3>1. k + i \in 1..Len(R)
      BY <1>3, <1>6, <1>10
    <3>2. QED
      BY <1>2, <3>1 DEF After
  <2>4. (p - 1) + (k + i) = (q - 1) + i
    BY <1>6, <1>10
  <2>5. QED
    BY <2>1, <2>2, <2>3, <2>4
<1>11. F = G
  BY <1>7, <1>9, <1>10, SeqEqual DEF Strings
<1>12. QED
  BY <1>1, <1>2, <1>4, <1>5, <1>6, <1>7, <1>8, <1>11

LEMMA FromFirst ==
  ASSUME NEW B \in Strings
  PROVE  From(B, 1) = B
<1>1. PICK n \in Nat : n = Len(B)
  BY LenProperties DEF Strings
<1>2. 1 \in 1..(n + 1) /\ 1 - 1 = 0 /\ n + 1 - 1 = n
  OBVIOUS
<1>3. PICK F \in Strings : F = From(B, 1) /\ After(B, 1 - 1, F) /\ Len(F) = n + 1 - 1
  BY <1>1, <1>2, FromIs
<1>4. \A i \in 1..n : F[i] = B[(1 - 1) + i] /\ (1 - 1) + i = i
  BY <1>2, <1>3 DEF After
<1>5. F = B
  BY <1>1, <1>2, <1>3, <1>4, SeqEqual DEF Strings
<1>6. QED
  BY <1>3, <1>5

\* One round, and the rounds together.
Round(B, final, g, p) ==
  IF From(B, p) = <<>> \/ Waits(From(B, p), final) THEN [text |-> <<>>, pending |-> From(B, p)]
  ELSE [g[p + Step(From(B, p)).taken] EXCEPT !.text = <<Step(From(B, p)).char>> \o @]

LEMMA RoundsExist ==
  ASSUME NEW B \in Strings, NEW final
  PROVE  \E g : g = [p \in 1..(Len(B) + 1) |-> Round(B, final, g, p)]
<1>1. PICK n \in Nat : n = Len(B)
  BY LenProperties DEF Strings
<1> DEFINE Made(d, g) == g = [p \in (n + 1 - d)..(n + 1) |-> Round(B, final, g, p)]
           T == {d \in Nat : d <= n => \E g : Made(d, g)}
<1>2. ASSUME NEW d \in Nat, d <= n, NEW g, NEW h, NEW p \in (n + 1 - d)..(n + 1),
             \A q \in (p + 1)..(n + 1) : g[q] = h[q]
      PROVE  Round(B, final, g, p) = Round(B, final, h, p)
  <2>1. p \in 1..(n + 1)
    BY <1>2
  <2>2. CASE From(B, p) = <<>>
    BY <2>2 DEF Round
  <2>3. CASE From(B, p) # <<>>
    <3>1. PICK q : q = p + Step(From(B, p)).taken
      OBVIOUS
    <3>2. q \in (p + 1)..(n + 1)
      BY <1>1, <2>1, <2>3, <3>1, FromRest
    <3>3. g[q] = h[q]
      BY <1>2, <3>2
    <3>4. QED
      BY <3>1, <3>3 DEF Round
  <2>4. QED
    BY <2>2, <2>3
<1>3. 0 \in T
  <2>1. PICK g : g = [p \in (n + 1 - 0)..(n + 1) |-> Round(B, final, 0, p)]
    OBVIOUS
  <2>2. ASSUME NEW p \in (n + 1 - 0)..(n + 1) PROVE Round(B, final, 0, p) = Round(B, final, g, p)
    <3>1. \A q \in (p + 1)..(n + 1) : FALSE
      BY <2>2
    <3>2. \A q \in (p + 1)..(n + 1) : 0[q] = g[q]
      BY <3>1
    <3>3. 0 \in Nat /\ 0 <= n
      OBVIOUS
    <3>4. QED
      BY <1>2, <3>2, <3>3
  <2>3. g = [p \in (n + 1 - 0)..(n + 1) |-> Round(B, final, g, p)]
    BY <2>1, <2>2
  <2>4. Made(0, g)
    BY <2>3
  <2> HIDE DEF Made
  <2>5. QED
    BY <2>4
<1>4. ASSUME NEW d \in T PROVE d + 1 \in T
  <2>1. SUFFICES ASSUME d + 1 <= n PROVE \E h : Made(d + 1, h)
    OBVIOUS
  <2>2. d \in Nat /\ d <= n
    BY <2>1
  <2>3. PICK g : g = [p \in (n + 1 - d)..(n + 1) |-> Round(B, final, g, p)]
    BY <2>2
  <2>4. PICK h : h = [p \in (n + 1 - (d + 1))..(n + 1) |-> IF p = n - d THEN Round(B, final, g, p) ELSE g[p]]
    OBVIOUS
  <2>5. \A p \in (n + 1 - d)..(n + 1) : h[p] = g[p]
    <3>1. \A p \in (n + 1 - d)..(n + 1) : p \in (n + 1 - (d + 1))..(n + 1) /\ p # n - d
      BY <2>2
    <3>2. QED
      BY <2>4, <3>1
  <2>6. ASSUME NEW p \in (n + 1 - (d + 1))..(n + 1) PROVE h[p] = Round(B, final, h, p)
    <3>1. \A q \in (p + 1)..(n + 1) : q \in (n + 1 - d)..(n + 1)
      BY <2>2, <2>6
    <3>2. \A q \in (p + 1)..(n + 1) : g[q] = h[q]
      BY <2>5, <3>1
    <3>3. Round(B, final, g, p) = Round(B, final, h, p)
      <4>1. PICK e \in Nat : e = d + 1
        BY <2>2
      <4>2. e <= n /\ p \in (n + 1 - e)..(n + 1)
        BY <2>1, <2>6, <4>1
      <4>3. QED
        BY <1>2, <3>2, <4>2
    <3>4. CASE p = n - d
      BY <2>4, <2>6, <3>3, <3>4
    <3>5. CASE p # n - d
      <4>1. p \in (n + 1 - d)..(n + 1)
        BY <2>2, <2>6, <3>5
      <4>2. QED
        BY <2>3, <2>5, <3>3, <4>1
    <3>6. QED
      BY <3>4, <3>5
  <2>7. h = [p \in (n + 1 - (d + 1))..(n + 1) |-> Round(B, final, h, p)]
    BY <2>4, <2>6
  <2>8. Made(d + 1, h)
    BY <2>7
  <2> HIDE DEF Made
  <2>9. QED
    BY <2>8
<1>5. \E g : Made(n, g)
  <2>1. T \in SUBSET Nat
    OBVIOUS
  <2>2. n \in T
    <3> HIDE DEF T
    <3>1. QED
      BY <1>3, <1>4, <2>1, AllNumbers
  <2>3. QED
    BY <2>2
<1>6. PICK g : Made(n, g)
  BY <1>5
<1>7. n + 1 - n = 1
  OBVIOUS
<1>8. g = [p \in 1..(n + 1) |-> Round(B, final, g, p)]
  BY <1>6, <1>7
<1> HIDE DEF Made
<1>9. QED
  BY <1>1, <1>8

LEMMA DrainIs ==
  ASSUME NEW B \in Strings, NEW final
  PROVE  \E g : g = [p \in 1..(Len(B) + 1) |-> Round(B, final, g, p)] /\ Drain(B, final) = g[1]
<1>1. PICK g : g = CHOOSE h : h = [p \in 1..(Len(B) + 1) |-> Round(B, final, h, p)]
  OBVIOUS
<1>2. g = [p \in 1..(Len(B) + 1) |-> Round(B, final, g, p)]
  BY <1>1, RoundsExist
<1>3. Drain(B, final) = (CHOOSE h : h = [p \in 1..(Len(B) + 1) |-> Round(B, final, h, p)])[1]
  BY DEF Drain, Round, From
<1>4. Drain(B, final) = g[1]
  BY <1>1, <1>3
<1>5. QED
  BY <1>2, <1>4

-----------------------------------------------------------------------------
(***************************************************************************)
(* What a drain delivers of the bytes it is given.                         *)
(***************************************************************************)
\* Nothing is held back, or the beginning of one character.
Idle(P) == P = <<>> \/ TailAt(P, 1)

Drained(d) ==
  /\ d.text \in Seq(Strings) /\ d.pending \in Strings
  /\ d = [text |-> d.text, pending |-> d.pending]

\* Whatever follows, the text comes before what the rest will mean.
Delivers(d, B) ==
  /\ Drained(d) /\ Idle(d.pending)
  /\ \A C \in Strings : Meaning(B \o C) = d.text \o Meaning(d.pending \o C)

Finishes(d, B) == Drained(d) /\ d.pending = <<>> /\ d.text = Meaning(B)

Before(c, d) == [d EXCEPT !.text = <<c>> \o @]

LEMMA BeforeIs ==
  ASSUME NEW c \in Strings, NEW d, Drained(d)
  PROVE  /\ Drained(Before(c, d)) /\ Before(c, d).pending = d.pending
         /\ Before(c, d).text = <<c>> \o d.text
<1>1. PICK t \in Seq(Strings), P \in Strings : d = [text |-> t, pending |-> P]
  BY DEF Drained
<1>2. PICK a \in Seq(Strings) : a = <<c>>
  BY OneText
<1>3. PICK x \in Seq(Strings) : x = a \o t
  BY ConcatProperties
<1>4. d.text = t /\ d.pending = P
  BY <1>1
<1>5. Before(c, d) = [d EXCEPT !.text = x]
  BY <1>2, <1>3, <1>4 DEF Before
<1>6. [d EXCEPT !.text = x] = [text |-> x, pending |-> P]
  BY <1>1
<1>7. PICK e : e = [text |-> x, pending |-> P]
  OBVIOUS
<1>8. e.text = x /\ e.pending = P
  BY <1>7
<1>9. Drained(e)
  BY <1>7, <1>8 DEF Drained
<1>10. Before(c, d) = e
  BY <1>5, <1>6, <1>7
<1>11. QED
  BY <1>2, <1>3, <1>4, <1>8, <1>9, <1>10

LEMMA DeliversIdle ==
  ASSUME NEW B \in Strings, Idle(B)
  PROVE  Delivers([text |-> <<>>, pending |-> B], B)
<1>1. PICK d : d = [text |-> <<>>, pending |-> B]
  OBVIOUS
<1>2. d.text = <<>> /\ d.pending = B
  BY <1>1
<1>3. <<>> \in Seq(Strings)
  OBVIOUS
<1>4. Drained(d)
  BY <1>1, <1>2, <1>3 DEF Drained
<1>5. ASSUME NEW C \in Strings PROVE Meaning(B \o C) = d.text \o Meaning(d.pending \o C)
  <2>1. B \o C \in Strings
    BY ConcatProperties DEF Strings
  <2>2. <<>> \o Meaning(B \o C) = Meaning(B \o C)
    BY <2>1, MeaningSeq, ConcatEmptySeq
  <2>3. QED
    BY <1>2, <2>2
<1>6. QED
  BY <1>1, <1>2, <1>4, <1>5 DEF Delivers

LEMMA DeliversStep ==
  ASSUME NEW B \in Strings, B # <<>>, ~TailAt(B, 1), NEW d, Delivers(d, Rest(B))
  PROVE  Delivers(Before(Step(B).char, d), B)
<1>1. PICK R \in Strings : R = Rest(B)
  BY RestIs
<1>2. PICK c \in Strings : c = Step(B).char
  BY RestIs
<1>3. PICK a \in Seq(Strings) : a = <<c>>
  BY OneText
<1>4. PICK e : e = Before(c, d)
  OBVIOUS
<1>5. PICK t \in Seq(Strings), P \in Strings : t = d.text /\ P = d.pending
  BY DEF Delivers, Drained
<1>6. Drained(e) /\ e.pending = P /\ e.text = a \o t
  BY <1>3, <1>4, <1>5, BeforeIs DEF Delivers
<1>7. Idle(P)
  BY <1>5 DEF Delivers
<1>8. ASSUME NEW C \in Strings PROVE Meaning(B \o C) = e.text \o Meaning(e.pending \o C)
  <2>1. Meaning(B \o C) = a \o Meaning(R \o C)
    BY <1>1, <1>2, <1>3, MeaningMore
  <2>2. Meaning(R \o C) = t \o Meaning(P \o C)
    BY <1>1, <1>5 DEF Delivers
  <2>3. PICK m \in Seq(Strings) : m = Meaning(P \o C)
    <3>1. P \o C \in Strings
      BY ConcatProperties DEF Strings
    <3>2. QED
      BY <3>1, MeaningSeq
  <2>4. a \o (t \o m) = (a \o t) \o m
    <3>1. Parts(Strings, a, t, m)
      BY DEF Parts
    <3>2. QED
      BY <3>1, Associate
  <2>5. QED
    BY <1>6, <2>1, <2>2, <2>3, <2>4
<1>9. Delivers(e, B)
  BY <1>6, <1>7, <1>8 DEF Delivers
<1>10. QED
  BY <1>2, <1>4, <1>9

LEMMA FinishesNothing == Finishes([text |-> <<>>, pending |-> <<>>], <<>>)
<1>1. PICK d : d = [text |-> <<>>, pending |-> <<>>]
  OBVIOUS
<1>2. d.text = <<>> /\ d.pending = <<>>
  BY <1>1
<1>3. <<>> \in Seq(Strings)
  OBVIOUS
<1>4. Drained(d)
  BY <1>1, <1>2, <1>3, MeaningOfNothing DEF Drained
<1>5. QED
  BY <1>1, <1>2, <1>4, MeaningOfNothing DEF Finishes

LEMMA FinishesStep ==
  ASSUME NEW B \in Strings, B # <<>>, NEW d, Finishes(d, Rest(B))
  PROVE  Finishes(Before(Step(B).char, d), B)
<1>1. PICK c \in Strings : c = Step(B).char
  BY StepTakes
<1>2. Drained(Before(c, d)) /\ Before(c, d).pending = <<>> /\ Before(c, d).text = <<c>> \o Meaning(Rest(B))
  BY BeforeIs DEF Finishes
<1>3. Meaning(B) = <<c>> \o Meaning(Rest(B))
  <2>1. CASE ~TailAt(B, 1)
    BY <1>1, <2>1, RestIs
  <2>2. CASE TailAt(B, 1)
    <3>1. PICK n \in Nat : n = Len(B)
      BY LenProperties DEF Strings
    <3>2. c = Replacement /\ Rest(B) = SubSeq(B, n + 1, n) /\ Meaning(B) = <<c>>
      BY <1>1, <2>2, <3>1, StepTakes, MeaningWaits DEF Rest
    <3>3. n + 1 \in 1..(Len(B) + 1) /\ n + 1 - (n + 1) = 0
      BY <3>1
    <3>4. PICK R \in Strings : R = From(B, n + 1) /\ Len(R) = n + 1 - (n + 1)
      BY <3>1, <3>3, FromIs
    <3>5. R = <<>>
      BY <3>3, <3>4, EmptySeq DEF Strings
    <3>6. Rest(B) = <<>>
      BY <3>1, <3>2, <3>4, <3>5 DEF From
    <3>7. <<c>> \o <<>> = <<c>>
      BY ConcatEmptySeq, OneText
    <3>8. QED
      BY <3>2, <3>6, <3>7, MeaningOfNothing
  <2>3. QED
    BY <2>1, <2>2
<1>4. QED
  BY <1>1, <1>2, <1>3 DEF Finishes

\* The bytes so far, in the middle of a request.
LEMMA DrainDelivers ==
  ASSUME NEW B \in Strings
  PROVE  Delivers(Drain(B, FALSE), B)
<1>1. PICK g : g = [p \in 1..(Len(B) + 1) |-> Round(B, FALSE, g, p)] /\ Drain(B, FALSE) = g[1]
  BY DrainIs
<1>2. PICK n \in Nat : n = Len(B)
  BY LenProperties DEF Strings
<1>3. \A p \in 1..(n + 1) : g[p] = Round(B, FALSE, g, p)
  BY <1>1, <1>2
<1> DEFINE T == {d \in Nat : \A p \in 1..(n + 1) : n + 1 - p <= d => Delivers(g[p], From(B, p))}
<1>4. ASSUME NEW p \in 1..(n + 1), \A q \in 1..(n + 1) : q > p => Delivers(g[q], From(B, q))
      PROVE  Delivers(g[p], From(B, p))
  <2>1. PICK R \in Strings : R = From(B, p)
    BY <1>2, FromIs
  <2>2. CASE Idle(R)
    <3>1. R = <<>> \/ Waits(R, FALSE)
      BY <2>2, FirstIs DEF Idle, Waits
    <3>2. g[p] = [text |-> <<>>, pending |-> R]
      BY <1>3, <2>1, <3>1 DEF Round
    <3>3. QED
      BY <2>1, <2>2, <3>2, DeliversIdle
  <2>3. CASE ~Idle(R)
    <3>1. R # <<>> /\ ~TailAt(R, 1) /\ ~Waits(R, FALSE)
      BY <2>3, FirstIs DEF Idle, Waits
    <3>2. PICK q : q = p + Step(R).taken
      OBVIOUS
    <3>3. q \in (p + 1)..(n + 1) /\ Rest(R) = From(B, q)
      BY <1>2, <2>1, <3>1, <3>2, FromRest
    <3>4. Delivers(g[q], From(B, q))
      <4>1. q \in 1..(n + 1) /\ q > p
        BY <3>3
      <4>2. QED
        BY <1>4, <4>1
    <3>5. g[p] = Before(Step(R).char, g[q])
      BY <1>3, <2>1, <3>1, <3>2 DEF Round, Before
    <3>6. Delivers(Before(Step(R).char, g[q]), R)
      BY <3>1, <3>3, <3>4, DeliversStep
    <3>7. QED
      BY <2>1, <3>5, <3>6
  <2>4. QED
    BY <2>2, <2>3
<1>5. 0 \in T
  <2>1. ASSUME NEW p \in 1..(n + 1), n + 1 - p <= 0 PROVE Delivers(g[p], From(B, p))
    <3>1. \A q \in 1..(n + 1) : ~(q > p)
      BY <2>1
    <3>2. QED
      BY <1>4, <3>1
  <2>2. QED
    BY <2>1
<1>6. ASSUME NEW d \in T PROVE d + 1 \in T
  <2>1. d \in Nat /\ \A q \in 1..(n + 1) : n + 1 - q <= d => Delivers(g[q], From(B, q))
    OBVIOUS
  <2>2. ASSUME NEW p \in 1..(n + 1), n + 1 - p <= d + 1 PROVE Delivers(g[p], From(B, p))
    <3>1. ASSUME NEW q \in 1..(n + 1), q > p PROVE Delivers(g[q], From(B, q))
      <4>1. n + 1 - q <= d
        BY <2>1, <2>2, <3>1
      <4>2. QED
        BY <2>1, <4>1
    <3>2. QED
      BY <1>4, <3>1
  <2>3. d + 1 \in Nat
    BY <2>1
  <2>4. QED
    BY <2>2, <2>3
<1>7. n \in T
  <2>1. T \in SUBSET Nat
    OBVIOUS
  <2> HIDE DEF T
  <2>2. QED
    BY <1>5, <1>6, <2>1, AllNumbers
<1>8. Delivers(g[1], From(B, 1))
  <2>1. 1 \in 1..(n + 1) /\ n + 1 - 1 <= n
    OBVIOUS
  <2>2. QED
    BY <1>7, <2>1
<1>9. From(B, 1) = B
  BY <1>2, FromFirst
<1>10. QED
  BY <1>1, <1>8, <1>9

\* What is left, at the end of a request.
LEMMA DrainFinishes ==
  ASSUME NEW B \in Strings
  PROVE  Finishes(Drain(B, TRUE), B)
<1>1. PICK g : g = [p \in 1..(Len(B) + 1) |-> Round(B, TRUE, g, p)] /\ Drain(B, TRUE) = g[1]
  BY DrainIs
<1>2. PICK n \in Nat : n = Len(B)
  BY LenProperties DEF Strings
<1>3. \A p \in 1..(n + 1) : g[p] = Round(B, TRUE, g, p)
  BY <1>1, <1>2
<1> DEFINE T == {d \in Nat : \A p \in 1..(n + 1) : n + 1 - p <= d => Finishes(g[p], From(B, p))}
<1>4. ASSUME NEW p \in 1..(n + 1), \A q \in 1..(n + 1) : q > p => Finishes(g[q], From(B, q))
      PROVE  Finishes(g[p], From(B, p))
  <2>1. PICK R \in Strings : R = From(B, p)
    BY <1>2, FromIs
  <2>2. CASE R = <<>>
    <3>1. g[p] = [text |-> <<>>, pending |-> <<>>]
      BY <1>3, <2>1, <2>2 DEF Round
    <3>2. QED
      BY <2>1, <2>2, <3>1, FinishesNothing
  <2>3. CASE R # <<>>
    <3>1. ~Waits(R, TRUE)
      BY DEF Waits
    <3>2. PICK q : q = p + Step(R).taken
      OBVIOUS
    <3>3. q \in (p + 1)..(n + 1) /\ Rest(R) = From(B, q)
      BY <1>2, <2>1, <2>3, <3>2, FromRest
    <3>4. Finishes(g[q], From(B, q))
      <4>1. q \in 1..(n + 1) /\ q > p
        BY <3>3
      <4>2. QED
        BY <1>4, <4>1
    <3>5. g[p] = Before(Step(R).char, g[q])
      BY <1>3, <2>1, <2>3, <3>1, <3>2 DEF Round, Before
    <3>6. Finishes(Before(Step(R).char, g[q]), R)
      BY <2>3, <3>3, <3>4, FinishesStep
    <3>7. QED
      BY <2>1, <3>5, <3>6
  <2>4. QED
    BY <2>2, <2>3
<1>5. 0 \in T
  <2>1. ASSUME NEW p \in 1..(n + 1), n + 1 - p <= 0 PROVE Finishes(g[p], From(B, p))
    <3>1. \A q \in 1..(n + 1) : ~(q > p)
      BY <2>1
    <3>2. QED
      BY <1>4, <3>1
  <2>2. QED
    BY <2>1
<1>6. ASSUME NEW d \in T PROVE d + 1 \in T
  <2>1. d \in Nat /\ \A q \in 1..(n + 1) : n + 1 - q <= d => Finishes(g[q], From(B, q))
    OBVIOUS
  <2>2. ASSUME NEW p \in 1..(n + 1), n + 1 - p <= d + 1 PROVE Finishes(g[p], From(B, p))
    <3>1. ASSUME NEW q \in 1..(n + 1), q > p PROVE Finishes(g[q], From(B, q))
      <4>1. n + 1 - q <= d
        BY <2>1, <2>2, <3>1
      <4>2. QED
        BY <2>1, <4>1
    <3>2. QED
      BY <1>4, <3>1
  <2>3. d + 1 \in Nat
    BY <2>1
  <2>4. QED
    BY <2>2, <2>3
<1>7. n \in T
  <2>1. T \in SUBSET Nat
    OBVIOUS
  <2> HIDE DEF T
  <2>2. QED
    BY <1>5, <1>6, <2>1, AllNumbers
<1>8. Finishes(g[1], From(B, 1))
  <2>1. 1 \in 1..(n + 1) /\ n + 1 - 1 <= n
    OBVIOUS
  <2>2. QED
    BY <1>7, <2>1
<1>9. From(B, 1) = B
  BY <1>2, FromFirst
<1>10. QED
  BY <1>1, <1>8, <1>9

-----------------------------------------------------------------------------
(***************************************************************************)
(* The text of a request.                                                  *)
(***************************************************************************)
\* What the client has, and what waits for it.
Sent(t, x) == t \o FlattenSeq(x)

\* Whatever comes next, what was sent is the beginning of what the bytes mean,
\* and what is pending is all that the rest depends on.
FedAs(f, s, P) == \A C \in Strings : Meaning(f \o C) = s \o Meaning(P \o C)

LEMMA TextsAssociate ==
  ASSUME NEW s \in Seq(Strings), NEW t \in Seq(Strings), NEW u \in Seq(Strings)
  PROVE  s \o (t \o u) = (s \o t) \o u
<1>1. Parts(Strings, s, t, u)
  BY DEF Parts
<1>2. QED
  BY <1>1, Associate

LEMMA SentSeq ==
  ASSUME NEW t \in Seq(Strings), NEW x \in Seq(Seq(Strings))
  PROVE  Sent(t, x) \in Seq(Strings)
<1>1. PICK y \in Seq(Strings) : y = FlattenSeq(x)
  BY FlattenSeqs
<1>2. t \o y \in Seq(Strings)
  BY ConcatProperties
<1>3. QED
  BY <1>1, <1>2 DEF Sent

LEMMA SentMore ==
  ASSUME NEW t \in Seq(Strings), NEW x \in Seq(Seq(Strings)), NEW e \in Seq(Strings)
  PROVE  Sent(t, Append(x, e)) = Sent(t, x) \o e
<1>1. PICK y \in Seq(Strings) : y = FlattenSeq(x)
  BY FlattenSeqs
<1>2. FlattenSeq(Append(x, e)) = y \o e
  BY <1>1, FlattenAppend
<1>3. t \o (y \o e) = (t \o y) \o e
  BY TextsAssociate
<1>4. QED
  BY <1>1, <1>2, <1>3 DEF Sent

LEMMA SentTaken ==
  ASSUME NEW t \in Seq(Strings), NEW x \in Seq(Seq(Strings)), x # <<>>
  PROVE  /\ Sent(t \o Head(x), Tail(x)) = Sent(t, x)
         /\ t \o Head(x) \in Seq(Strings) /\ Tail(x) \in Seq(Seq(Strings))
<1>1. PICK e \in Seq(Strings) : e = Head(x) /\ FlattenSeq(x) = e \o FlattenSeq(Tail(x))
  BY FlattenTail
<1>2. PICK u \in Seq(Seq(Strings)) : u = Tail(x)
  BY FlattenTail
<1>3. PICK y \in Seq(Strings) : y = FlattenSeq(u)
  BY FlattenSeqs
<1>4. t \o (e \o y) = (t \o e) \o y
  BY TextsAssociate
<1>5. t \o e \in Seq(Strings)
  BY ConcatProperties
<1>6. QED
  BY <1>1, <1>2, <1>3, <1>4, <1>5 DEF Sent

LEMMA FedNow ==
  ASSUME NEW f \in Strings, NEW s \in Seq(Strings), NEW P \in Strings, FedAs(f, s, P)
  PROVE  Meaning(f) = s \o Meaning(P)
<1>1. <<>> \in Strings
  BY MeaningOfNothing
<1>2. Meaning(f \o <<>>) = s \o Meaning(P \o <<>>)
  BY <1>1 DEF FedAs
<1>3. f \o <<>> = f /\ P \o <<>> = P
  BY ConcatEmptySeq DEF Strings
<1>4. QED
  BY <1>2, <1>3

LEMMA FedPiece ==
  ASSUME NEW f \in Strings, NEW s \in Seq(Strings), NEW P \in Strings, FedAs(f, s, P),
         NEW piece \in Strings, NEW d, Delivers(d, P \o piece)
  PROVE  FedAs(f \o piece, s \o d.text, d.pending)
<1>1. PICK t \in Seq(Strings), Q \in Strings : t = d.text /\ Q = d.pending
  BY DEF Delivers, Drained
<1>2. ASSUME NEW C \in Strings PROVE Meaning((f \o piece) \o C) = (s \o t) \o Meaning(Q \o C)
  <2>1. (f \o piece) \o C = f \o (piece \o C)
    <3>1. Parts(Byte, f, piece, C)
      BY DEF Parts, Strings
    <3>2. QED
      BY <3>1, Associate
  <2>2. (P \o piece) \o C = P \o (piece \o C)
    <3>1. Parts(Byte, P, piece, C)
      BY DEF Parts, Strings
    <3>2. QED
      BY <3>1, Associate
  <2>3. piece \o C \in Strings
    BY ConcatProperties DEF Strings
  <2>4. Meaning(f \o (piece \o C)) = s \o Meaning(P \o (piece \o C))
    BY <2>3 DEF FedAs
  <2>5. Meaning((P \o piece) \o C) = t \o Meaning(Q \o C)
    BY <1>1 DEF Delivers
  <2>6. PICK m \in Seq(Strings) : m = Meaning(Q \o C)
    <3>1. Q \o C \in Strings
      BY ConcatProperties DEF Strings
    <3>2. QED
      BY <3>1, MeaningSeq
  <2>7. s \o (t \o m) = (s \o t) \o m
    <3>1. Parts(Strings, s, t, m)
      BY DEF Parts
    <3>2. QED
      BY <3>1, Associate
  <2>8. QED
    BY <2>1, <2>2, <2>4, <2>5, <2>6, <2>7
<1>3. QED
  BY <1>1, <1>2 DEF FedAs

LEMMA FedEnd ==
  ASSUME NEW f \in Strings, NEW s \in Seq(Strings), NEW P \in Strings, FedAs(f, s, P),
         NEW d, Finishes(d, P)
  PROVE  Meaning(f) = (s \o d.text) \o Meaning(<<>>)
<1>1. PICK t \in Seq(Strings) : t = d.text /\ t = Meaning(P)
  BY DEF Finishes, Drained
<1>2. Meaning(f) = s \o t
  BY <1>1, FedNow
<1>3. (s \o t) \o <<>> = s \o t
  <2>1. s \o t \in Seq(Strings)
    BY ConcatProperties
  <2>2. QED
    BY <2>1, ConcatEmptySeq
<1>4. QED
  BY <1>1, <1>2, <1>3, MeaningOfNothing

-----------------------------------------------------------------------------
\* One request: its phase, its events, its bytes, what is pending, the texts
\* that wait and the text that was taken.
TextOf(ph, b, f, P, x, t, c) ==
  /\ Len(b) = Len(x)
  /\ Idle(P)
  /\ ~c => Meaning(f) = Sent(t, x) \o Meaning(P)
  /\ ~c /\ ph # "closed" => FedAs(f, Sent(t, x), P)

Phases == {"new", "rejected", "open", "closed"}
Events == Seq(Terminals \cup {"token"})

TextTypes ==
  /\ phase \in [Requests -> Phases] /\ buffer \in [Requests -> Events]
  /\ fed \in [Requests -> Strings] /\ pending \in [Requests -> Strings]
  /\ texts \in [Requests -> Seq(Seq(Strings))] /\ taken \in [Requests -> Seq(Strings)]
  /\ cut \in [Requests -> BOOLEAN]

TextInv ==
  /\ TextTypes
  /\ \A r \in Requests : TextOf(phase[r], buffer[r], fed[r], pending[r], texts[r], taken[r], cut[r])

LEMMA TextStarts == TextInit => TextInv
<1> SUFFICES ASSUME TextInit PROVE TextInv
  OBVIOUS
<1>1. <<>> \in Strings /\ <<>> \in Events /\ <<>> \in Seq(Strings) /\ <<>> \in Seq(Seq(Strings))
  BY MeaningOfNothing DEF Events
<1>2. TextTypes
  BY <1>1 DEF TextInit, StreamInit, TextTypes, Phases
<1>3. Sent(<<>>, <<>>) = <<>>
  <2>1. <<>> \o <<>> = <<>>
    BY <1>1, ConcatEmptySeq
  <2>2. QED
    BY <2>1, FlattenEmpty DEF Sent
<1>4. ASSUME NEW C \in Strings PROVE Meaning(<<>> \o C) = <<>> \o Meaning(<<>> \o C)
  <2>1. <<>> \o C = C
    BY ConcatEmptySeq DEF Strings
  <2>2. <<>> \o Meaning(C) = Meaning(C)
    BY MeaningSeq, ConcatEmptySeq
  <2>3. QED
    BY <2>1, <2>2
<1>5. FedAs(<<>>, <<>>, <<>>)
  BY <1>4 DEF FedAs
<1>6. Meaning(<<>>) = <<>> \o Meaning(<<>>)
  BY <1>1, <1>5, FedNow
<1>7. Idle(<<>>)
  BY DEF Idle
<1>8. ASSUME NEW r \in Requests
      PROVE  TextOf(phase[r], buffer[r], fed[r], pending[r], texts[r], taken[r], cut[r])
  <2>1. /\ phase[r] = "new" /\ buffer[r] = <<>> /\ fed[r] = <<>> /\ pending[r] = <<>>
        /\ texts[r] = <<>> /\ taken[r] = <<>> /\ cut[r] = FALSE
    BY DEF TextInit, StreamInit
  <2>2. TextOf("new", <<>>, <<>>, <<>>, <<>>, <<>>, FALSE)
    BY <1>3, <1>5, <1>6, <1>7 DEF TextOf
  <2>3. QED
    BY <2>1, <2>2
<1>9. QED
  BY <1>2, <1>8 DEF TextInv

\* What one request does, the others do not notice.
LEMMA OthersKeep ==
  ASSUME TextInv, TextTypes', NEW r \in Requests,
         \A q \in Requests \ {r} :
           /\ phase'[q] = phase[q] /\ buffer'[q] = buffer[q] /\ fed'[q] = fed[q] /\ pending'[q] = pending[q]
           /\ texts'[q] = texts[q] /\ taken'[q] = taken[q] /\ cut'[q] = cut[q],
         TextOf(phase'[r], buffer'[r], fed'[r], pending'[r], texts'[r], taken'[r], cut'[r])
  PROVE  TextInv'
<1>1. ASSUME NEW q \in Requests
      PROVE  TextOf(phase'[q], buffer'[q], fed'[q], pending'[q], texts'[q], taken'[q], cut'[q])
  <2>1. CASE q = r
    BY <2>1
  <2>2. CASE q # r
    BY <2>2 DEF TextInv
  <2>3. QED
    BY <2>1, <2>2
<1>2. QED
  BY <1>1 DEF TextInv

LEMMA PutOne ==
  ASSUME NEW S, NEW s \in Seq(S), NEW e \in S
  PROVE  Append(s, e) \in Seq(S) /\ Len(Append(s, e)) = Len(s) + 1
BY AppendProperties

LEMMA TakeOne ==
  ASSUME NEW S, NEW s \in Seq(S), s # <<>>
  PROVE  Tail(s) \in Seq(S) /\ Len(Tail(s)) = Len(s) - 1
BY HeadTailProperties

LEMMA TextEnds ==
  ASSUME NEW b \in Events, NEW f \in Strings, NEW P \in Strings, NEW x \in Seq(Seq(Strings)),
         NEW t \in Seq(Strings), NEW c, TextOf("open", b, f, P, x, t, c),
         NEW kind \in Terminals
  PROVE  /\ TextOf("closed", Append(b, kind), f, <<>>, Append(x, Drain(P, TRUE).text), t, c)
         /\ Append(b, kind) \in Events /\ Append(x, Drain(P, TRUE).text) \in Seq(Seq(Strings))
<1>1. PICK d : d = Drain(P, TRUE)
  OBVIOUS
<1>2. Finishes(d, P)
  BY <1>1, DrainFinishes
<1>3. PICK e \in Seq(Strings) : e = d.text
  BY <1>2 DEF Finishes, Drained
<1>4. Append(x, e) \in Seq(Seq(Strings)) /\ Len(Append(x, e)) = Len(x) + 1
  BY PutOne
<1>5. Append(b, kind) \in Events /\ Len(Append(b, kind)) = Len(b) + 1
  <2>1. kind \in Terminals \cup {"token"}
    OBVIOUS
  <2>2. QED
    BY <2>1, PutOne DEF Events
<1>6. Len(Append(b, kind)) = Len(Append(x, e))
  BY <1>4, <1>5 DEF TextOf
<1>7. PICK s \in Seq(Strings) : s = Sent(t, x)
  BY SentSeq
<1>8. ASSUME ~c PROVE Meaning(f) = Sent(t, Append(x, e)) \o Meaning(<<>>)
  <2>1. FedAs(f, s, P)
    BY <1>7, <1>8 DEF TextOf
  <2>2. Meaning(f) = (s \o e) \o Meaning(<<>>)
    BY <1>2, <1>3, <2>1, FedEnd
  <2>3. Sent(t, Append(x, e)) = s \o e
    BY <1>7, SentMore
  <2>4. QED
    BY <2>2, <2>3
<1>9. Idle(<<>>)
  BY DEF Idle
<1>10. TextOf("closed", Append(b, kind), f, <<>>, Append(x, e), t, c)
  BY <1>6, <1>8, <1>9 DEF TextOf
<1>11. QED
  BY <1>1, <1>3, <1>4, <1>5, <1>10

LEMMA TextCut ==
  ASSUME NEW b \in Events, NEW f, NEW g, NEW P \in Strings, NEW x \in Seq(Seq(Strings)),
         NEW Q \in Strings, NEW t, NEW c, TextOf("open", b, f, Q, x, t, c), NEW kind \in Terminals
  PROVE  /\ TextOf("closed", Append(b, kind), g, <<>>, Append(x, Drain(P, TRUE).text), t, TRUE)
         /\ Append(b, kind) \in Events /\ Append(x, Drain(P, TRUE).text) \in Seq(Seq(Strings))
<1>1. PICK d : d = Drain(P, TRUE)
  OBVIOUS
<1>2. PICK e \in Seq(Strings) : e = d.text
  BY <1>1, DrainFinishes DEF Finishes, Drained
<1>3. Append(x, e) \in Seq(Seq(Strings)) /\ Len(Append(x, e)) = Len(x) + 1
  BY PutOne
<1>4. Append(b, kind) \in Events /\ Len(Append(b, kind)) = Len(b) + 1
  <2>1. kind \in Terminals \cup {"token"}
    OBVIOUS
  <2>2. QED
    BY <2>1, PutOne DEF Events
<1>5. Len(Append(b, kind)) = Len(Append(x, e))
  BY <1>3, <1>4 DEF TextOf
<1>6. TextOf("closed", Append(b, kind), g, <<>>, Append(x, e), t, TRUE)
  BY <1>5 DEF TextOf, Idle
<1>7. QED
  BY <1>1, <1>2, <1>3, <1>4, <1>6

LEMMA TextGrows ==
  ASSUME NEW b \in Events, NEW f \in Strings, NEW P \in Strings, NEW x \in Seq(Seq(Strings)),
         NEW t \in Seq(Strings), NEW c, TextOf("open", b, f, P, x, t, c),
         NEW piece \in Strings, NEW d, d = Drain(P \o piece, FALSE)
  PROVE  /\ TextOf("open", Append(b, "token"), f \o piece, d.pending, Append(x, d.text), t, c)
         /\ Append(b, "token") \in Events /\ Append(x, d.text) \in Seq(Seq(Strings))
         /\ f \o piece \in Strings /\ d.pending \in Strings
<1>1. P \o piece \in Strings /\ f \o piece \in Strings
  BY ConcatProperties DEF Strings
<1>2. Delivers(d, P \o piece)
  BY <1>1, DrainDelivers
<1>3. PICK e \in Seq(Strings), Q \in Strings : e = d.text /\ Q = d.pending
  BY <1>2 DEF Delivers, Drained
<1>4. Idle(Q)
  BY <1>2, <1>3 DEF Delivers
<1>5. Append(x, e) \in Seq(Seq(Strings)) /\ Len(Append(x, e)) = Len(x) + 1
  BY PutOne
<1>6. Append(b, "token") \in Events /\ Len(Append(b, "token")) = Len(b) + 1
  <2>1. "token" \in Terminals \cup {"token"}
    OBVIOUS
  <2>2. QED
    BY <2>1, PutOne DEF Events
<1>7. Len(Append(b, "token")) = Len(Append(x, e))
  BY <1>5, <1>6 DEF TextOf
<1>8. PICK s \in Seq(Strings) : s = Sent(t, x)
  BY SentSeq
<1>9. Sent(t, Append(x, e)) = s \o e
  BY <1>8, SentMore
<1>10. s \o e \in Seq(Strings)
  BY ConcatProperties
<1>11. ASSUME ~c PROVE FedAs(f \o piece, s \o e, Q) /\ Meaning(f \o piece) = (s \o e) \o Meaning(Q)
  <2>1. FedAs(f, s, P)
    BY <1>8, <1>11 DEF TextOf
  <2>2. FedAs(f \o piece, s \o d.text, d.pending)
    BY <1>2, <2>1, FedPiece
  <2>3. FedAs(f \o piece, s \o e, Q)
    BY <1>3, <2>2
  <2>4. QED
    BY <1>1, <1>10, <2>3, FedNow
<1>12. TextOf("open", Append(b, "token"), f \o piece, Q, Append(x, e), t, c)
  BY <1>4, <1>7, <1>9, <1>11 DEF TextOf
<1>13. QED
  BY <1>1, <1>3, <1>5, <1>6, <1>12

LEMMA TextTaken ==
  ASSUME NEW ph, NEW b \in Events, NEW f, NEW P, NEW x \in Seq(Seq(Strings)),
         NEW t \in Seq(Strings), NEW c, TextOf(ph, b, f, P, x, t, c), b # <<>>
  PROVE  /\ TextOf(ph, Tail(b), f, P, Tail(x), t \o Head(x), c)
         /\ Tail(b) \in Events /\ Tail(x) \in Seq(Seq(Strings)) /\ t \o Head(x) \in Seq(Strings)
<1>1. Tail(b) \in Events /\ Len(Tail(b)) = Len(b) - 1
  BY TakeOne DEF Events
<1>2. x # <<>>
  <2>1. Len(b) # 0
    BY EmptySeq DEF Events
  <2>2. Len(x) # 0
    BY <2>1 DEF TextOf
  <2>3. QED
    BY <2>2, EmptySeq
<1>3. Tail(x) \in Seq(Seq(Strings)) /\ Len(Tail(x)) = Len(x) - 1
  BY <1>2, TakeOne
<1>4. Sent(t \o Head(x), Tail(x)) = Sent(t, x) /\ t \o Head(x) \in Seq(Strings)
  BY <1>2, SentTaken
<1>5. Len(Tail(b)) = Len(Tail(x))
  BY <1>1, <1>3 DEF TextOf
<1>6. TextOf(ph, Tail(b), f, P, Tail(x), t \o Head(x), c)
  BY <1>4, <1>5 DEF TextOf
<1>7. QED
  BY <1>1, <1>3, <1>4, <1>6

LEMMA TextBegins ==
  ASSUME TextInv, NEW r \in Requests, Begin(r)
  PROVE  TextInv'
<1>1. /\ phase[r] = "new" /\ phase' = [phase EXCEPT ![r] = "open"] /\ buffer' = buffer
      /\ fed' = fed /\ pending' = pending /\ texts' = texts /\ taken' = taken /\ cut' = cut
  BY DEF Begin, Submit, textVars
<1>2. TextTypes'
  BY <1>1 DEF TextInv, TextTypes, Phases
<1>3. phase'[r] = "open" /\ \A q \in Requests \ {r} : phase'[q] = phase[q]
  BY <1>1 DEF TextInv, TextTypes
<1>4. TextOf("new", buffer[r], fed[r], pending[r], texts[r], taken[r], cut[r])
  BY <1>1 DEF TextInv
<1>5. TextOf("open", buffer[r], fed[r], pending[r], texts[r], taken[r], cut[r])
  BY <1>4 DEF TextOf
<1>6. QED
  BY <1>1, <1>2, <1>3, <1>5, OthersKeep

LEMMA TextEndsHere ==
  ASSUME TextInv, NEW r \in Requests, End(r)
  PROVE  TextInv'
<1>1. PICK kind \in Terminals : buffer' = [buffer EXCEPT ![r] = Append(@, kind)]
  BY DEF End, EndText, PutTerminal
<1>2. PICK e : e = Drain(pending[r], TRUE).text
  OBVIOUS
<1>3. /\ phase[r] = "open" /\ phase' = [phase EXCEPT ![r] = "closed"]
      /\ texts' = [texts EXCEPT ![r] = Append(@, e)] /\ pending' = [pending EXCEPT ![r] = <<>>]
      /\ fed' = fed /\ taken' = taken /\ cut' = cut
  BY <1>2 DEF End, EndText, PutTerminal
<1>4. /\ buffer[r] \in Events /\ fed[r] \in Strings /\ pending[r] \in Strings /\ texts[r] \in Seq(Seq(Strings))
      /\ taken[r] \in Seq(Strings) /\ cut[r] \in BOOLEAN
  BY DEF TextInv, TextTypes
<1>5. TextOf("open", buffer[r], fed[r], pending[r], texts[r], taken[r], cut[r])
  BY <1>3 DEF TextInv
<1>6. /\ TextOf("closed", Append(buffer[r], kind), fed[r], <<>>, Append(texts[r], e), taken[r], cut[r])
      /\ Append(buffer[r], kind) \in Events /\ Append(texts[r], e) \in Seq(Seq(Strings))
  <2>1. PICK b \in Events, f \in Strings, P \in Strings, x \in Seq(Seq(Strings)), t \in Seq(Strings) :
          b = buffer[r] /\ f = fed[r] /\ P = pending[r] /\ x = texts[r] /\ t = taken[r]
    BY <1>4
  <2>2. PICK c : c = cut[r]
    OBVIOUS
  <2>3. TextOf("open", b, f, P, x, t, c) /\ e = Drain(P, TRUE).text
    BY <1>2, <1>5, <2>1, <2>2
  <2>4. /\ TextOf("closed", Append(b, kind), f, <<>>, Append(x, e), t, c)
        /\ Append(b, kind) \in Events /\ Append(x, e) \in Seq(Seq(Strings))
    BY <2>3, TextEnds
  <2>5. QED
    BY <2>1, <2>2, <2>4
<1>7. TextTypes'
  <2>1. /\ phase' \in [Requests -> Phases] /\ buffer' \in [Requests -> Events]
    BY <1>1, <1>3, <1>6 DEF TextInv, TextTypes, Phases
  <2>2. pending' \in [Requests -> Strings]
    BY <1>3, MeaningOfNothing DEF TextInv, TextTypes
  <2>3. texts' \in [Requests -> Seq(Seq(Strings))]
    BY <1>3, <1>6 DEF TextInv, TextTypes
  <2>4. QED
    BY <1>3, <2>1, <2>2, <2>3 DEF TextInv, TextTypes
<1>8. /\ phase'[r] = "closed" /\ buffer'[r] = Append(buffer[r], kind) /\ texts'[r] = Append(texts[r], e)
      /\ pending'[r] = <<>>
  BY <1>1, <1>3 DEF TextInv, TextTypes
<1>9. \A q \in Requests \ {r} : /\ phase'[q] = phase[q] /\ buffer'[q] = buffer[q] /\ texts'[q] = texts[q]
                                /\ pending'[q] = pending[q]
  BY <1>1, <1>3 DEF TextInv, TextTypes
<1>10. TextOf(phase'[r], buffer'[r], fed'[r], pending'[r], texts'[r], taken'[r], cut'[r])
  BY <1>3, <1>6, <1>8
<1>11. QED
  BY <1>3, <1>7, <1>9, <1>10, OthersKeep

LEMMA TextAdds ==
  ASSUME TextInv, NEW r \in Requests, NEW piece \in Pieces, Token(r, piece)
  PROVE  TextInv'
<1>1. piece \in Strings
  BY TextAssumption DEF Strings, Byte
<1>2. PICK d : d = Drain(pending[r] \o piece, FALSE)
  OBVIOUS
<1>3. /\ phase[r] = "open" /\ fed' = [fed EXCEPT ![r] = @ \o piece] /\ taken' = taken
      /\ \/ /\ PutToken(r)
            /\ texts' = [texts EXCEPT ![r] = Append(@, d.text)]
            /\ pending' = [pending EXCEPT ![r] = d.pending]
            /\ cut' = cut
         \/ /\ EndText(r, d.pending)
            /\ cut' = [cut EXCEPT ![r] = TRUE]
  BY <1>2 DEF Token
<1>4. /\ buffer[r] \in Events /\ fed[r] \in Strings /\ pending[r] \in Strings /\ texts[r] \in Seq(Seq(Strings))
      /\ taken[r] \in Seq(Strings) /\ cut[r] \in BOOLEAN
  BY DEF TextInv, TextTypes
<1>5. TextOf("open", buffer[r], fed[r], pending[r], texts[r], taken[r], cut[r])
  BY <1>3 DEF TextInv
<1>6. /\ TextOf("open", Append(buffer[r], "token"), fed[r] \o piece, d.pending, Append(texts[r], d.text), taken[r], cut[r])
      /\ Append(buffer[r], "token") \in Events /\ Append(texts[r], d.text) \in Seq(Seq(Strings))
      /\ fed[r] \o piece \in Strings /\ d.pending \in Strings
  <2>1. PICK b \in Events, f \in Strings, P \in Strings, x \in Seq(Seq(Strings)), t \in Seq(Strings) :
          b = buffer[r] /\ f = fed[r] /\ P = pending[r] /\ x = texts[r] /\ t = taken[r]
    BY <1>4
  <2>2. PICK c : c = cut[r]
    OBVIOUS
  <2>3. TextOf("open", b, f, P, x, t, c) /\ d = Drain(P \o piece, FALSE)
    BY <1>2, <1>5, <2>1, <2>2
  <2>4. /\ TextOf("open", Append(b, "token"), f \o piece, d.pending, Append(x, d.text), t, c)
        /\ Append(b, "token") \in Events /\ Append(x, d.text) \in Seq(Seq(Strings))
        /\ f \o piece \in Strings /\ d.pending \in Strings
    BY <1>1, <2>3, TextGrows
  <2>5. QED
    BY <2>1, <2>2, <2>4
<1>7. /\ fed' \in [Requests -> Strings] /\ fed'[r] = fed[r] \o piece
      /\ \A q \in Requests \ {r} : fed'[q] = fed[q]
  BY <1>3, <1>6 DEF TextInv, TextTypes
<1>8. CASE /\ PutToken(r)
           /\ texts' = [texts EXCEPT ![r] = Append(@, d.text)]
           /\ pending' = [pending EXCEPT ![r] = d.pending]
           /\ cut' = cut
  <2>1. phase' = phase /\ buffer' = [buffer EXCEPT ![r] = Append(@, "token")]
    BY <1>8 DEF PutToken
  <2>2. TextTypes'
    <3>1. buffer' \in [Requests -> Events]
      BY <1>6, <2>1 DEF TextInv, TextTypes
    <3>2. pending' \in [Requests -> Strings]
      BY <1>6, <1>8 DEF TextInv, TextTypes
    <3>3. texts' \in [Requests -> Seq(Seq(Strings))]
      BY <1>6, <1>8 DEF TextInv, TextTypes
    <3>4. QED
      BY <1>3, <1>7, <1>8, <2>1, <3>1, <3>2, <3>3 DEF TextInv, TextTypes
  <2>3. /\ buffer'[r] = Append(buffer[r], "token") /\ texts'[r] = Append(texts[r], d.text)
        /\ pending'[r] = d.pending
    BY <1>8, <2>1 DEF TextInv, TextTypes
  <2>4. \A q \in Requests \ {r} : buffer'[q] = buffer[q] /\ texts'[q] = texts[q] /\ pending'[q] = pending[q]
    BY <1>8, <2>1 DEF TextInv, TextTypes
  <2>5. TextOf(phase'[r], buffer'[r], fed'[r], pending'[r], texts'[r], taken'[r], cut'[r])
    BY <1>3, <1>6, <1>7, <1>8, <2>1, <2>3
  <2>6. QED
    BY <1>3, <1>7, <1>8, <2>1, <2>2, <2>4, <2>5, OthersKeep
<1>9. CASE EndText(r, d.pending) /\ cut' = [cut EXCEPT ![r] = TRUE]
  <2>1. PICK kind \in Terminals : buffer' = [buffer EXCEPT ![r] = Append(@, kind)]
    BY <1>9 DEF EndText, PutTerminal
  <2>2. PICK e : e = Drain(d.pending, TRUE).text
    OBVIOUS
  <2>3. /\ phase' = [phase EXCEPT ![r] = "closed"]
        /\ texts' = [texts EXCEPT ![r] = Append(@, e)] /\ pending' = [pending EXCEPT ![r] = <<>>]
    BY <1>9, <2>2 DEF EndText, PutTerminal
  <2>4. /\ TextOf("closed", Append(buffer[r], kind), fed[r] \o piece, <<>>, Append(texts[r], e), taken[r], TRUE)
        /\ Append(buffer[r], kind) \in Events /\ Append(texts[r], e) \in Seq(Seq(Strings))
    BY <1>4, <1>5, <1>6, <2>2, TextCut
  <2>5. TextTypes'
    <3>1. phase' \in [Requests -> Phases] /\ buffer' \in [Requests -> Events]
      BY <2>1, <2>3, <2>4 DEF TextInv, TextTypes, Phases
    <3>2. pending' \in [Requests -> Strings]
      BY <2>3, MeaningOfNothing DEF TextInv, TextTypes
    <3>3. texts' \in [Requests -> Seq(Seq(Strings))]
      BY <2>3, <2>4 DEF TextInv, TextTypes
    <3>4. cut' \in [Requests -> BOOLEAN]
      BY <1>9 DEF TextInv, TextTypes
    <3>5. QED
      BY <1>3, <1>7, <3>1, <3>2, <3>3, <3>4 DEF TextInv, TextTypes
  <2>6. /\ phase'[r] = "closed" /\ buffer'[r] = Append(buffer[r], kind) /\ texts'[r] = Append(texts[r], e)
        /\ pending'[r] = <<>> /\ cut'[r] = TRUE
    BY <1>9, <2>1, <2>3 DEF TextInv, TextTypes
  <2>7. \A q \in Requests \ {r} : /\ phase'[q] = phase[q] /\ buffer'[q] = buffer[q] /\ texts'[q] = texts[q]
                                  /\ pending'[q] = pending[q] /\ cut'[q] = cut[q]
    BY <1>9, <2>1, <2>3 DEF TextInv, TextTypes
  <2>8. TextOf(phase'[r], buffer'[r], fed'[r], pending'[r], texts'[r], taken'[r], cut'[r])
    BY <1>3, <1>7, <2>4, <2>6
  <2>9. QED
    BY <1>3, <1>7, <2>5, <2>7, <2>8, OthersKeep
<1>10. QED
  BY <1>3, <1>8, <1>9

LEMMA TextComes ==
  ASSUME TextInv, NEW r \in Requests, ClientTakes(r)
  PROVE  TextInv'
<1>1. /\ buffer[r] # <<>> /\ buffer' = [buffer EXCEPT ![r] = Tail(@)] /\ phase' = phase
      /\ taken' = [taken EXCEPT ![r] = @ \o Head(texts[r])] /\ texts' = [texts EXCEPT ![r] = Tail(@)]
      /\ fed' = fed /\ pending' = pending /\ cut' = cut
  BY DEF ClientTakes, Take
<1>2. /\ buffer[r] \in Events /\ texts[r] \in Seq(Seq(Strings)) /\ taken[r] \in Seq(Strings)
  BY DEF TextInv, TextTypes
<1>3. TextOf(phase[r], buffer[r], fed[r], pending[r], texts[r], taken[r], cut[r])
  BY DEF TextInv
<1>4. /\ TextOf(phase[r], Tail(buffer[r]), fed[r], pending[r], Tail(texts[r]), taken[r] \o Head(texts[r]), cut[r])
      /\ Tail(buffer[r]) \in Events /\ Tail(texts[r]) \in Seq(Seq(Strings)) /\ taken[r] \o Head(texts[r]) \in Seq(Strings)
  BY <1>1, <1>2, <1>3, TextTaken
<1>5. TextTypes'
  <2>1. buffer' \in [Requests -> Events]
    BY <1>1, <1>4 DEF TextInv, TextTypes
  <2>2. taken' \in [Requests -> Seq(Strings)]
    BY <1>1, <1>4 DEF TextInv, TextTypes
  <2>3. texts' \in [Requests -> Seq(Seq(Strings))]
    BY <1>1, <1>4 DEF TextInv, TextTypes
  <2>4. QED
    BY <1>1, <2>1, <2>2, <2>3 DEF TextInv, TextTypes
<1>6. buffer'[r] = Tail(buffer[r]) /\ texts'[r] = Tail(texts[r]) /\ taken'[r] = taken[r] \o Head(texts[r])
  BY <1>1 DEF TextInv, TextTypes
<1>7. \A q \in Requests \ {r} : buffer'[q] = buffer[q] /\ texts'[q] = texts[q] /\ taken'[q] = taken[q]
  BY <1>1 DEF TextInv, TextTypes
<1>8. TextOf(phase'[r], buffer'[r], fed'[r], pending'[r], texts'[r], taken'[r], cut'[r])
  BY <1>1, <1>4, <1>6
<1>9. QED
  BY <1>1, <1>5, <1>7, <1>8, OthersKeep

LEMMA TextSteps == TextInv /\ [TextNext]_allVars => TextInv'
<1> SUFFICES ASSUME TextInv, [TextNext]_allVars PROVE TextInv'
  OBVIOUS
<1>1. ASSUME NEW r \in Requests, Begin(r) PROVE TextInv'
  BY <1>1, TextBegins
<1>2. ASSUME NEW r \in Requests, End(r) PROVE TextInv'
  BY <1>2, TextEndsHere
<1>3. ASSUME NEW r \in Requests, ClientTakes(r) PROVE TextInv'
  BY <1>3, TextComes
<1>4. ASSUME NEW r \in Requests, NEW piece \in Pieces, Token(r, piece) PROVE TextInv'
  BY <1>4, TextAdds
<1>5. CASE UNCHANGED allVars
  <2>1. UNCHANGED <<phase, buffer, fed, pending, texts, taken, cut>>
    BY <1>5 DEF allVars, streamVars, textVars
  <2>2. QED
    BY <2>1 DEF TextInv, TextTypes
<1>6. QED
  BY <1>1, <1>2, <1>3, <1>4, <1>5 DEF TextNext

LEMMA TextInvIsExact == TextInv => TextIsExact
<1> SUFFICES ASSUME TextInv, NEW r \in Requests
             PROVE  /\ Len(pending[r]) <= 3
                    /\ ~cut[r] =>
                         LET sent == taken[r] \o FlattenSeq(texts[r])
                         IN Meaning(fed[r]) = IF pending[r] = <<>> THEN sent ELSE Append(sent, Replacement)
  BY DEF TextIsExact
<1>1. PICK P \in Strings : P = pending[r]
  BY DEF TextInv, TextTypes
<1>2. PICK s \in Seq(Strings) : s = taken[r] \o FlattenSeq(texts[r]) /\ s = Sent(taken[r], texts[r])
  <2>1. taken[r] \in Seq(Strings) /\ texts[r] \in Seq(Seq(Strings))
    BY DEF TextInv, TextTypes
  <2>2. Sent(taken[r], texts[r]) \in Seq(Strings)
    BY <2>1, SentSeq
  <2>3. QED
    BY <2>2 DEF Sent
<1>3. Idle(P) /\ (~cut[r] => Meaning(fed[r]) = s \o Meaning(P))
  BY <1>1, <1>2 DEF TextInv, TextOf
<1>4. CASE P = <<>>
  <2>1. s \o <<>> = s
    BY ConcatEmptySeq
  <2>2. Len(P) = 0
    BY <1>4
  <2>3. ~cut[r] => Meaning(fed[r]) = s
    BY <1>3, <1>4, <2>1, MeaningOfNothing
  <2>4. QED
    BY <1>1, <1>2, <1>4, <2>2, <2>3
<1>5. CASE P # <<>>
  <2>1. Meaning(P) = <<Replacement>> /\ Len(P) \in 1..3
    BY <1>3, <1>5, MeaningWaits DEF Idle
  <2>2. Append(s, Replacement) = s \o <<Replacement>>
    <3>1. Replacement \in Strings
      BY DEF Replacement, Strings, Byte
    <3>2. QED
      BY <3>1, AppendIsConcat
  <2>3. Len(P) <= 3
    <3>1. \A i \in 1..3 : i <= 3
      OBVIOUS
    <3>2. QED
      BY <2>1, <3>1
  <2>4. ~cut[r] => Meaning(fed[r]) = Append(s, Replacement)
    BY <1>3, <2>1, <2>2
  <2>5. QED
    BY <1>1, <1>2, <1>5, <2>3, <2>4
<1>6. QED
  BY <1>4, <1>5

\* However the bytes are cut into tokens: a client that keeps up gets what they
\* mean as a whole.
THEOREM TextExact == TextSpec => []TextIsExact
<1>1. TextInit => TextInv
  BY TextStarts
<1>2. TextInv /\ [TextNext]_allVars => TextInv'
  BY TextSteps
<1>3. TextInv => TextIsExact
  BY TextInvIsExact
<1>4. QED
  BY <1>1, <1>2, <1>3, PTL DEF TextSpec

-----------------------------------------------------------------------------
(***************************************************************************)
(* The scheduler: its plan exists, is the only one, and leaves no token of *)
(* the budget unused while a prompt could take it.                         *)
(***************************************************************************)
Summed(t, n) == SumFunctionOnSet(t, 1..n)

\* i's slice is the least of what is left, what its prompt has, and a chunk.
GetsLeast(prefill, remaining, budget, t, i) ==
  /\ t[i] \in {budget - Summed(t, i - 1), remaining[prefill[i]], PrefillChunk}
  /\ t[i] <= budget - Summed(t, i - 1)
  /\ t[i] <= remaining[prefill[i]]
  /\ t[i] <= PrefillChunk

\* The slices of the first n prompts.
Gives(prefill, remaining, budget, t, n) ==
  /\ t \in [1..n -> 1..BatchTokens]
  /\ \A i \in 1..n : GetsLeast(prefill, remaining, budget, t, i)

LEMMA AllotmentsAre ==
  ASSUME NEW S, NEW prefill \in Seq(S), NEW remaining, NEW budget \in Nat, NEW t
  PROVE  t \in Allotments(prefill, remaining, budget)
           <=> \E n \in 0..Len(prefill) :
                 /\ Gives(prefill, remaining, budget, t, n)
                 /\ n < Len(prefill) => budget - Summed(t, n) = 0
<1> DEFINE Ends(n) == n < Len(prefill) => budget - Summed(t, n) = 0
           All == \A i \in DOMAIN t :
                    LET least == {budget - SumFunctionOnSet(t, 1..(i - 1)),
                                  remaining[prefill[i]], PrefillChunk}
                    IN t[i] \in least /\ \A x \in least : t[i] <= x
           Over == Len(t) < Len(prefill)
                     => budget - SumFunctionOnSet(t, 1..((Len(t) + 1) - 1)) = 0
<1>1. t \in Allotments(prefill, remaining, budget)
        <=> /\ \E n \in 0..Len(prefill) : t \in [1..n -> 1..BatchTokens]
            /\ All /\ Over
  BY DEF Allotments
<1>2. ASSUME NEW n \in 0..Len(prefill), t \in [1..n -> 1..BatchTokens]
      PROVE  /\ All <=> \A i \in 1..n : GetsLeast(prefill, remaining, budget, t, i)
             /\ Over <=> Ends(n)
  <2>1. n \in Nat /\ DOMAIN t = 1..n
    BY <1>2, LenProperties
  <2>2. Len(t) = n
    BY <1>2, <2>1, FunctionIsSeq
  <2>3. All <=> \A i \in 1..n : GetsLeast(prefill, remaining, budget, t, i)
    BY <2>1 DEF GetsLeast, Summed
  <2>4. (Len(t) + 1) - 1 = n
    BY <2>1, <2>2
  <2>5. Over <=> Ends(n)
    BY <2>2, <2>4 DEF Summed
  <2>6. QED
    BY <2>3, <2>5
<1> HIDE DEF All, Over
<1>3. QED
  BY <1>1, <1>2 DEF Gives

LEMMA SumTo ==
  ASSUME NEW t, NEW k \in Nat, k > 0, \A i \in 1..k : t[i] \in Nat
  PROVE  Summed(t, k - 1) \in Nat /\ Summed(t, k) = t[k] + Summed(t, k - 1)
<1>1. k \in 1..k /\ (1..k) \ {k} = 1..(k - 1)
  OBVIOUS
<1>2. IsFiniteSet(1..k)
  BY FS_Interval
<1>3. PICK J, x : J = 1..k /\ x = k
  OBVIOUS
<1>4. AllNat(t, J) /\ IsFiniteSet(J) /\ x \in J
  BY <1>1, <1>2, <1>3 DEF AllNat
<1>5. /\ SumFunctionOnSet(t, J \ {x}) \in Nat
      /\ SumFunctionOnSet(t, J) = t[x] + SumFunctionOnSet(t, J \ {x})
  BY <1>4, SumWithout
<1>6. J \ {x} = 1..(k - 1)
  BY <1>1, <1>3
<1>7. QED
  BY <1>3, <1>5, <1>6 DEF Summed

LEMMA SumToSame ==
  ASSUME NEW t, NEW u, NEW k \in Nat, \A i \in 1..k : t[i] = u[i]
  PROVE  Summed(t, k) = Summed(u, k)
<1>1. IsFiniteSet(1..k)
  BY FS_Interval
<1>2. PICK J : J = 1..k
  OBVIOUS
<1>3. SumFunctionOnSet(t, J) = SumFunctionOnSet(u, J)
  BY <1>1, <1>2, SumOfSame
<1>4. QED
  BY <1>2, <1>3 DEF Summed

LEMMA GivesNothing ==
  ASSUME NEW prefill, NEW remaining, NEW budget
  PROVE  Gives(prefill, remaining, budget, [i \in 1..0 |-> 1], 0) /\ Summed([i \in 1..0 |-> 1], 0) = 0
<1>1. 1..0 = {}
  OBVIOUS
<1>2. Summed([i \in 1..0 |-> 1], 0) = 0
  BY <1>1, SumOf DEF Summed
<1>3. [i \in 1..0 |-> 1] \in [1..0 -> 1..BatchTokens]
  BY <1>1
<1>4. QED
  BY <1>1, <1>2, <1>3 DEF Gives

\* What is given is within the budget.
LEMMA GivesInBudget ==
  ASSUME NEW prefill, NEW remaining, NEW budget \in Nat, NEW n \in Nat, NEW t,
         Gives(prefill, remaining, budget, t, n)
  PROVE  Summed(t, n) \in 0..budget
<1>1. CASE n = 0
  <2>1. 1..n = {}
    BY <1>1
  <2>2. Summed(t, n) = 0
    BY <2>1, SumOf DEF Summed
  <2>3. QED
    BY <2>2
<1>2. CASE n > 0
  <2>1. \A i \in 1..n : t[i] \in Nat
    BY DEF Gives
  <2>2. Summed(t, n - 1) \in Nat /\ Summed(t, n) = t[n] + Summed(t, n - 1)
    BY <1>2, <2>1, SumTo
  <2>3. t[n] \in Nat /\ t[n] <= budget - Summed(t, n - 1)
    BY <1>2, <2>1 DEF Gives, GetsLeast
  <2>4. QED
    BY <2>2, <2>3
<1>3. QED
  BY <1>1, <1>2

\* One more slice.
LEMMA GivesOneMore ==
  ASSUME NEW prefill, NEW remaining, NEW budget \in Nat, NEW n \in Nat, NEW t,
         Gives(prefill, remaining, budget, t, n), Summed(t, n) < budget,
         remaining[prefill[n + 1]] \in Nat \ {0}
  PROVE  \E u : Gives(prefill, remaining, budget, u, n + 1)
<1>1. PICK m \in Nat, left \in Nat : m = Summed(t, n) /\ left = budget - m /\ left > 0
  BY GivesInBudget
<1>2. PICK rem \in Nat, chunk \in Nat :
        /\ rem = remaining[prefill[n + 1]] /\ rem > 0
        /\ chunk = PrefillChunk /\ chunk > 0 /\ chunk <= BatchTokens
  BY SchedulerAssumption
<1>3. PICK c \in Nat : /\ c \in {left, rem, chunk} /\ c > 0
                       /\ c <= left /\ c <= rem /\ c <= chunk
  <2>1. CASE left <= rem /\ left <= chunk
    BY <1>1, <2>1
  <2>2. CASE rem <= left /\ rem <= chunk
    BY <1>2, <2>2
  <2>3. CASE chunk <= left /\ chunk <= rem
    BY <1>2, <2>3
  <2>4. QED
    BY <2>1, <2>2, <2>3
<1> DEFINE u == [i \in 1..(n + 1) |-> IF i <= n THEN t[i] ELSE c]
<1>4. u \in [1..(n + 1) -> 1..BatchTokens]
  <2>1. c \in 1..BatchTokens
    BY <1>2, <1>3, SchedulerAssumption
  <2>2. \A i \in 1..(n + 1) : i <= n => t[i] \in 1..BatchTokens
    BY DEF Gives
  <2>3. QED
    BY <2>1, <2>2
<1>5. (\A i \in 1..n : u[i] = t[i]) /\ u[n + 1] = c
  <2>1. \A i \in 1..n : i \in 1..(n + 1) /\ i <= n
    OBVIOUS
  <2>2. n + 1 \in 1..(n + 1) /\ ~(n + 1 <= n)
    OBVIOUS
  <2>3. QED
    BY <2>1, <2>2
<1> HIDE DEF u
<1>6. ASSUME NEW i \in 1..(n + 1) PROVE Summed(u, i - 1) = Summed(t, i - 1)
  <2>1. PICK k \in Nat : k = i - 1 /\ k <= n
    OBVIOUS
  <2>2. \A j \in 1..k : u[j] = t[j]
    BY <1>5, <2>1
  <2>3. Summed(u, k) = Summed(t, k)
    BY <2>2, SumToSame
  <2>4. QED
    BY <2>1, <2>3
<1>7. ASSUME NEW i \in 1..n PROVE GetsLeast(prefill, remaining, budget, u, i)
  <2>1. u[i] = t[i] /\ Summed(u, i - 1) = Summed(t, i - 1)
    BY <1>5, <1>6
  <2>2. GetsLeast(prefill, remaining, budget, t, i)
    BY DEF Gives
  <2>3. QED
    BY <2>1, <2>2 DEF GetsLeast
<1>8. GetsLeast(prefill, remaining, budget, u, n + 1)
  <2>1. Summed(u, (n + 1) - 1) = m /\ (n + 1) - 1 = n
    BY <1>1, <1>6
  <2>2. QED
    BY <1>1, <1>2, <1>3, <1>5, <2>1 DEF GetsLeast
<1>9. \A i \in 1..(n + 1) : GetsLeast(prefill, remaining, budget, u, i)
  <2>1. \A i \in 1..(n + 1) : i \in 1..n \/ i = n + 1
    OBVIOUS
  <2>2. QED
    BY <1>7, <1>8, <2>1
<1>10. QED
  BY <1>4, <1>9 DEF Gives

Reaches(prefill, remaining, budget, n) ==
  \E t : \E m \in 0..n :
    /\ Gives(prefill, remaining, budget, t, m)
    /\ m < n => budget - Summed(t, m) = 0

\* There is an allotment: by the number of prompts that are looked at.
LEMMA AllotmentExists ==
  ASSUME NEW S, NEW prefill \in Seq(S), NEW remaining, NEW budget \in Nat,
         \A i \in 1..Len(prefill) : remaining[prefill[i]] \in Nat \ {0}
  PROVE  \E t : t \in Allotments(prefill, remaining, budget)
<1> DEFINE T == {n \in Nat : n <= Len(prefill) => Reaches(prefill, remaining, budget, n)}
<1>1. Len(prefill) \in Nat
  BY LenProperties
<1>2. 0 \in T
  <2>1. 0 \in 0..0 /\ ~(0 < 0)
    OBVIOUS
  <2>2. PICK t : Gives(prefill, remaining, budget, t, 0)
    BY GivesNothing
  <2>3. Reaches(prefill, remaining, budget, 0)
    BY <2>1, <2>2 DEF Reaches
  <2>4. QED
    BY <2>3
<1>3. ASSUME NEW n \in T PROVE n + 1 \in T
  <2> SUFFICES ASSUME n + 1 <= Len(prefill) PROVE Reaches(prefill, remaining, budget, n + 1)
    OBVIOUS
  <2>1. n \in Nat /\ n <= Len(prefill) /\ n + 1 \in 1..Len(prefill)
    BY <1>1
  <2>2. PICK t : \E m \in 0..n : /\ Gives(prefill, remaining, budget, t, m)
                                 /\ m < n => budget - Summed(t, m) = 0
    <3>1. Reaches(prefill, remaining, budget, n)
      BY <1>3, <2>1
    <3>2. QED
      BY <3>1 DEF Reaches
  <2>3. PICK m \in 0..n : /\ Gives(prefill, remaining, budget, t, m)
                          /\ m < n => budget - Summed(t, m) = 0
    BY <2>2
  <2>4. m \in Nat /\ m \in 0..(n + 1) /\ Summed(t, m) \in 0..budget
    BY <2>1, <2>3, GivesInBudget
  <2>5. CASE Summed(t, m) = budget
    <3>1. budget - Summed(t, m) = 0
      BY <2>5
    <3>2. QED
      BY <2>3, <2>4, <3>1 DEF Reaches
  <2>6. CASE Summed(t, m) # budget
    <3>1. Summed(t, m) < budget /\ m = n
      BY <2>1, <2>3, <2>4, <2>6
    <3>2. PICK u : Gives(prefill, remaining, budget, u, n + 1)
      BY <2>1, <2>3, <3>1, GivesOneMore
    <3>3. n + 1 \in 0..(n + 1) /\ ~(n + 1 < n + 1)
      BY <2>1
    <3>4. QED
      BY <3>2, <3>3 DEF Reaches
  <2>7. QED
    BY <2>5, <2>6
<1>4. T = Nat
  <2>1. T \in SUBSET Nat
    OBVIOUS
  <2> HIDE DEF T
  <2>2. QED
    BY <1>2, <1>3, <2>1, AllNumbers
<1>5. Reaches(prefill, remaining, budget, Len(prefill))
  <2>1. Len(prefill) \in T /\ Len(prefill) <= Len(prefill)
    BY <1>1, <1>4
  <2>2. QED
    BY <2>1
<1>6. PICK t : \E m \in 0..Len(prefill) :
        /\ Gives(prefill, remaining, budget, t, m)
        /\ m < Len(prefill) => budget - Summed(t, m) = 0
  BY <1>5 DEF Reaches
<1>7. t \in Allotments(prefill, remaining, budget)
  BY <1>6, AllotmentsAre
<1>8. QED
  BY <1>7

\* Two allotments agree as far as both go.
Agree(t, u, k) == \A i \in 1..k : t[i] = u[i]

LEMMA AllotmentsAgree ==
  ASSUME NEW prefill, NEW remaining, NEW budget \in Nat, NEW k \in Nat,
         NEW t, NEW u, NEW n \in Nat, NEW m \in Nat, k <= n, k <= m,
         Gives(prefill, remaining, budget, t, n), Gives(prefill, remaining, budget, u, m)
  PROVE  Agree(t, u, k)
<1> DEFINE T == {j \in Nat : j <= k => \A i \in 1..j : t[i] = u[i]}
<1>1. 0 \in T
  OBVIOUS
<1>2. ASSUME NEW j \in T PROVE j + 1 \in T
  <2> SUFFICES ASSUME j + 1 <= k PROVE \A i \in 1..(j + 1) : t[i] = u[i]
    OBVIOUS
  <2>1. j \in Nat /\ (j + 1) - 1 = j /\ \A i \in 1..j : t[i] = u[i]
    OBVIOUS
  <2>2. Summed(t, j) = Summed(u, j)
    BY <2>1, SumToSame
  <2>3. j + 1 \in 1..n /\ j + 1 \in 1..m
    BY <2>1
  <2>4. /\ GetsLeast(prefill, remaining, budget, t, j + 1)
        /\ GetsLeast(prefill, remaining, budget, u, j + 1)
        /\ t[j + 1] \in Nat /\ u[j + 1] \in Nat
    BY <2>3 DEF Gives
  <2>5. t[j + 1] <= u[j + 1] /\ u[j + 1] <= t[j + 1]
    BY <2>1, <2>2, <2>4 DEF GetsLeast
  <2>6. t[j + 1] = u[j + 1]
    BY <2>4, <2>5
  <2>7. \A i \in 1..(j + 1) : i \in 1..j \/ i = j + 1
    BY <2>1
  <2>8. QED
    BY <2>1, <2>6, <2>7
<1>3. T = Nat
  <2>1. T \in SUBSET Nat
    OBVIOUS
  <2> HIDE DEF T
  <2>2. QED
    BY <1>1, <1>2, <2>1, AllNumbers
<1>4. k \in T /\ k <= k
  BY <1>3
<1>5. QED
  BY <1>4 DEF Agree

\* An allotment that stops early has used up the budget: no other goes on.
LEMMA NoneGoesOn ==
  ASSUME NEW prefill, NEW remaining, NEW budget \in Nat,
         NEW t, NEW u, NEW n \in Nat, NEW m \in Nat, n < m, budget - Summed(t, n) = 0,
         Gives(prefill, remaining, budget, t, n), Gives(prefill, remaining, budget, u, m)
  PROVE  FALSE
<1>1. \A i \in 1..n : t[i] = u[i]
  <2>1. PICK k \in Nat : k = n /\ k <= n /\ k <= m
    OBVIOUS
  <2>2. Agree(t, u, k)
    BY <2>1, AllotmentsAgree
  <2>3. QED
    BY <2>1, <2>2 DEF Agree
<1>2. Summed(t, n) = Summed(u, n)
  BY <1>1, SumToSame
<1>3. n + 1 \in 1..m /\ (n + 1) - 1 = n
  OBVIOUS
<1>4. GetsLeast(prefill, remaining, budget, u, n + 1) /\ u[n + 1] \in 1..BatchTokens
  BY <1>3 DEF Gives
<1>5. u[n + 1] <= 0 /\ u[n + 1] > 0
  BY <1>2, <1>3, <1>4, SchedulerAssumption DEF GetsLeast
<1>6. QED
  BY <1>4, <1>5, SchedulerAssumption

LEMMA AllotmentIsOne ==
  ASSUME NEW S, NEW prefill \in Seq(S), NEW remaining, NEW budget \in Nat,
         NEW t \in Allotments(prefill, remaining, budget),
         NEW u \in Allotments(prefill, remaining, budget)
  PROVE  t = u
<1>1. PICK n \in 0..Len(prefill) : /\ Gives(prefill, remaining, budget, t, n)
                                   /\ n < Len(prefill) => budget - Summed(t, n) = 0
  BY AllotmentsAre
<1>2. PICK m \in 0..Len(prefill) : /\ Gives(prefill, remaining, budget, u, m)
                                   /\ m < Len(prefill) => budget - Summed(u, m) = 0
  BY AllotmentsAre
<1>3. n \in Nat /\ m \in Nat /\ Len(prefill) \in Nat
  BY LenProperties
<1>4. ~(n < m)
  <2>1. n < m => budget - Summed(t, n) = 0
    BY <1>1, <1>2, <1>3
  <2>2. QED
    BY <1>1, <1>2, <1>3, <2>1, NoneGoesOn
<1>5. ~(m < n)
  <2>1. m < n => budget - Summed(u, m) = 0
    BY <1>1, <1>2, <1>3
  <2>2. QED
    BY <1>1, <1>2, <1>3, <2>1, NoneGoesOn
<1>6. n = m
  BY <1>3, <1>4, <1>5
<1>7. \A i \in 1..n : t[i] = u[i]
  <2>1. PICK k \in Nat : k = n /\ k <= n /\ k <= m
    BY <1>3, <1>6
  <2>2. Agree(t, u, k)
    <3>1. Gives(prefill, remaining, budget, t, n) /\ Gives(prefill, remaining, budget, u, m)
      BY <1>1, <1>2
    <3>2. QED
      BY <1>3, <2>1, <3>1, AllotmentsAgree
  <2>3. QED
    BY <2>1, <2>2 DEF Agree
<1>8. t \in [1..n -> 1..BatchTokens] /\ u \in [1..n -> 1..BatchTokens]
  BY <1>1, <1>2, <1>6 DEF Gives
<1>9. QED
  BY <1>7, <1>8

LEMMA DecodesFit ==
  ASSUME NEW S, NEW decode \in Seq(S), NEW prefill
  PROVE  DecodeCount(decode, prefill) \in Nat /\ BatchTokens - DecodeCount(decode, prefill) \in Nat
BY SchedulerAssumption, LenProperties DEF DecodeCount

(* schedule_batch() is a function: for any orders in which the sorts leave *)
(* the requests, and as long as each prompt has something left, there is   *)
(* exactly one plan, so that the worker is never without one.              *)
THEOREM PlanIsOne ==
  ASSUME NEW S, NEW decode \in Seq(S), NEW prefill \in Seq(S), NEW remaining,
         \A i \in 1..Len(prefill) : remaining[prefill[i]] \in Nat \ {0}
  PROVE  \E plan : Plans(decode, prefill, remaining) = {plan}
<1>1. PICK n \in Nat, budget \in Nat :
        n = DecodeCount(decode, prefill) /\ budget = BatchTokens - n
  BY DecodesFit
<1>2. PICK t : t \in Allotments(prefill, remaining, budget)
  BY AllotmentExists
<1>3. \A u \in Allotments(prefill, remaining, budget) : u = t
  BY <1>2, AllotmentIsOne
<1>4. Allotments(prefill, remaining, budget) = {t}
  BY <1>2, <1>3
<1> DEFINE plan(s) == [decodes  |-> SubSeq(decode, 1, n),
                       prefills |-> [i \in 1..Len(s) |-> [key |-> prefill[i], tokens |-> s[i]]]]
<1>5. Plans(decode, prefill, remaining) = {plan(s) : s \in {t}}
  BY <1>1, <1>4 DEF Plans
<1>6. PICK p : p = plan(t)
  OBVIOUS
<1> HIDE DEF plan
<1>7. {plan(s) : s \in {t}} = {p}
  BY <1>6
<1>8. QED
  BY <1>5, <1>7

(* A batch leaves nothing of the budget unused while a prompt could take   *)
(* it: if some prompt got less than a chunk and less than what it has      *)
(* left, the decodes and the slices make up the whole budget.              *)
THEOREM PlanWastesNothing ==
  ASSUME NEW S, NEW decode \in Seq(S), NEW prefill \in Seq(S), NEW remaining,
         \A i \in 1..Len(prefill) : remaining[prefill[i]] \in Nat \ {0},
         NEW plan \in Plans(decode, prefill, remaining),
         NEW i \in 1..Len(prefill),
         i \in 1..Len(plan.prefills)
           => /\ plan.prefills[i].tokens < remaining[prefill[i]]
              /\ plan.prefills[i].tokens < PrefillChunk
  PROVE  Len(plan.decodes) + Summed([j \in 1..Len(plan.prefills) |-> plan.prefills[j].tokens],
                                    Len(plan.prefills)) = BatchTokens
<1>1. PICK n \in Nat, budget \in Nat :
        n = DecodeCount(decode, prefill) /\ budget = BatchTokens - n
  BY DecodesFit
<1>2. PICK t \in Allotments(prefill, remaining, budget) :
        plan = [decodes  |-> SubSeq(decode, 1, n),
                prefills |-> [j \in 1..Len(t) |-> [key |-> prefill[j], tokens |-> t[j]]]]
  BY <1>1 DEF Plans
<1>3. PICK k \in 0..Len(prefill) : /\ Gives(prefill, remaining, budget, t, k)
                                   /\ k < Len(prefill) => budget - Summed(t, k) = 0
  BY AllotmentsAre
<1>4. k \in Nat /\ Len(prefill) \in Nat /\ i \in Nat
  BY LenProperties
<1>5. Len(t) = k
  BY <1>3, <1>4, FunctionIsSeq DEF Gives
<1>6. /\ Len(plan.prefills) = k
      /\ \A j \in 1..k : plan.prefills[j].tokens = t[j]
  <2>1. plan.prefills = [j \in 1..k |-> [key |-> prefill[j], tokens |-> t[j]]]
    BY <1>2, <1>5
  <2>2. \A j \in 1..k : plan.prefills[j] = [key |-> prefill[j], tokens |-> t[j]]
    BY <2>1
  <2>3. QED
    BY <1>4, <2>1, <2>2, FunctionIsSeq
<1>7. Len(plan.decodes) = n
  <2>1. n <= Len(decode)
    BY <1>1, SchedulerAssumption, LenProperties DEF DecodeCount
  <2>2. Len(SubSeq(decode, 1, n)) = n
    BY <1>1, <2>1, SubSeqProperties
  <2>3. QED
    BY <1>2, <2>2
<1>8. Summed([j \in 1..Len(plan.prefills) |-> plan.prefills[j].tokens], Len(plan.prefills))
        = Summed(t, k)
  <2>1. PICK s : s = [j \in 1..Len(plan.prefills) |-> plan.prefills[j].tokens]
    OBVIOUS
  <2>2. \A j \in 1..k : s[j] = t[j]
    BY <1>6, <2>1
  <2>3. Summed(s, k) = Summed(t, k)
    BY <1>4, <2>2, SumToSame
  <2>4. QED
    BY <1>6, <2>1, <2>3
<1>9. budget - Summed(t, k) = 0 /\ Summed(t, k) \in 0..budget
  <2>1. Summed(t, k) \in 0..budget
    BY <1>3, <1>4, GivesInBudget
  <2>2. CASE k < Len(prefill)
    BY <1>3, <2>1, <2>2
  <2>3. CASE k = Len(prefill)
    <3>1. i \in 1..k
      BY <2>3
    <3>2. t[i] < remaining[prefill[i]] /\ t[i] < PrefillChunk
      BY <1>6, <3>1
    <3>3. t[i] \in Nat /\ GetsLeast(prefill, remaining, budget, t, i)
      BY <1>3, <3>1 DEF Gives
    <3>4. t[i] = budget - Summed(t, i - 1)
      BY <3>2, <3>3, SchedulerAssumption DEF GetsLeast
    <3>5. PICK q \in Nat : q = i /\ q > 0 /\ q <= k
      BY <1>4, <3>1
    <3>6. \A j \in 1..k : t[j] \in Nat /\ t[j] > 0
      BY <1>3, SchedulerAssumption DEF Gives
    <3>7. \A j \in 1..q : t[j] \in Nat
      BY <3>5, <3>6
    <3>8. Summed(t, q - 1) \in Nat /\ Summed(t, q) = t[q] + Summed(t, q - 1)
      BY <3>5, <3>7, SumTo
    <3>9. budget - Summed(t, q) = 0
      BY <3>4, <3>5, <3>7, <3>8
    <3>10. q = k
      <4>1. CASE q < k
        <5>1. q + 1 \in 1..k /\ (q + 1) - 1 = q
          BY <1>4, <3>5, <4>1
        <5>2. t[q + 1] <= budget - Summed(t, q) /\ t[q + 1] > 0 /\ t[q + 1] \in Nat
          BY <1>3, <3>6, <5>1 DEF Gives, GetsLeast
        <5>3. QED
          BY <3>9, <5>2
      <4>2. QED
        BY <1>4, <3>5, <4>1
    <3>11. QED
      BY <2>1, <3>9, <3>10
  <2>4. QED
    BY <1>4, <2>2, <2>3
<1>10. n + Summed(t, k) = BatchTokens
  <2>1. PICK x \in Nat, b \in Nat : x = Summed(t, k) /\ b = BatchTokens
    BY <1>9, SchedulerAssumption
  <2>2. budget = b - n /\ budget - x = 0
    BY <1>1, <1>9, <2>1
  <2>3. n + x = b
    BY <2>2
  <2>4. QED
    BY <2>1, <2>3
<1>11. QED
  BY <1>7, <1>8, <1>10
=============================================================================
