------------------------------- MODULE CpuProofs ------------------------------
(***************************************************************************)
(* The CPU runtime, for any number of sequences, pages, tokens of a page   *)
(* and limits of a batch: its page counts are exact, what a forward checks *)
(* in advance suffices, and it implements a SharedKvStore; and in the      *)
(* hands of the Engine it never refuses a batch.                           *)
(***************************************************************************)
EXTENDS CreditedRuntime, CommonLemmas

-----------------------------------------------------------------------------
(***************************************************************************)
(* Positions and pages.                                                    *)
(***************************************************************************)
\* A length that ends with a page, and one that ends within a page.
LEMMA FullPages ==
  ASSUME NEW n \in Nat, n % PageTokens = 0
  PROVE  /\ PagesFor(n) \in Nat /\ n \div PageTokens = PagesFor(n)
         /\ PagesFor(n + 1) = PagesFor(n) + 1
<1> DEFINE m == n \div PageTokens
<1>1. PageTokens \in Nat \ {0} /\ m \in Nat /\ n = PageTokens * m
  BY PagedKVAssumption
<1> HIDE DEF m
<1>2. n + PageTokens - 1 = PageTokens * m + (PageTokens - 1) /\ PageTokens * m \in Nat
  BY <1>1
<1>3. (n + PageTokens - 1) \div PageTokens = m
  BY <1>1, <1>2, QuotientIs
<1>4. PICK q \in Nat : q = m + 1
  BY <1>1
<1>5. (n + 1) + PageTokens - 1 = PageTokens * q + 0 /\ 0 \in 0..(PageTokens - 1)
  BY <1>1, <1>4
<1>6. ((n + 1) + PageTokens - 1) \div PageTokens = q
  BY <1>1, <1>5, QuotientIs
<1>7. QED
  BY <1>1, <1>3, <1>4, <1>6 DEF PagesFor, m

LEMMA PartialPages ==
  ASSUME NEW n \in Nat, n % PageTokens # 0
  PROVE  /\ PagesFor(n) \in Nat \ {0} /\ n \div PageTokens + 1 = PagesFor(n)
         /\ PagesFor(n + 1) = PagesFor(n)
<1> DEFINE m == n \div PageTokens
           r == n % PageTokens
<1>1. PageTokens \in Nat \ {0} /\ m \in Nat /\ n = PageTokens * m + r /\ r \in 1..(PageTokens - 1)
  BY PagedKVAssumption
<1> HIDE DEF m, r
<1>2. PICK q \in Nat : q = m + 1
  BY <1>1
<1>3. n + PageTokens - 1 = PageTokens * q + (r - 1) /\ r - 1 \in 0..(PageTokens - 1)
  BY <1>1, <1>2
<1>4. (n + PageTokens - 1) \div PageTokens = q
  BY <1>1, <1>3, QuotientIs
<1>5. (n + 1) + PageTokens - 1 = PageTokens * q + r /\ r \in 0..(PageTokens - 1)
  BY <1>1, <1>2
<1>6. ((n + 1) + PageTokens - 1) \div PageTokens = q
  BY <1>1, <1>5, QuotientIs
<1>7. QED
  BY <1>1, <1>2, <1>4, <1>6 DEF PagesFor, m

LEMMA PagesOfLengths ==
  /\ \A n \in Nat : PagesFor(n) \in Nat
  /\ \A n, k \in Nat : n <= k => PagesFor(n) <= PagesFor(k)
  /\ PagesFor(0) = 0
<1>1. ASSUME NEW n \in Nat PROVE PagesFor(n) \in Nat /\ n + PageTokens - 1 \in Nat
  BY Quotient, PagedKVAssumption DEF PagesFor
<1>2. ASSUME NEW n \in Nat, NEW k \in Nat, n <= k PROVE PagesFor(n) <= PagesFor(k)
  <2>1. n + PageTokens - 1 <= k + PageTokens - 1
    BY <1>2, PagedKVAssumption
  <2>2. QED
    BY <1>1, <2>1, QuotientGrows, PagedKVAssumption DEF PagesFor
<1>3. PagesFor(0) = 0
  <2>1. 0 = PageTokens * 0 + 0 /\ 0 \in 0..(PageTokens - 1) /\ PageTokens \in Nat \ {0}
    BY PagedKVAssumption
  <2>2. 0 \div PageTokens = 0 /\ 0 % PageTokens = 0
    BY <2>1, QuotientIs
  <2>3. QED
    BY <2>2, FullPages
<1>4. QED
  BY <1>1, <1>2, <1>3

\* The page and the offset of a position.
PageOf(q) == q \div PageTokens + 1
Offsets == 0..(PageTokens - 1)

LEMMA PlaceOfPosition ==
  ASSUME NEW q \in Nat
  PROVE  /\ PageOf(q) \in Nat \ {0} /\ q % PageTokens \in Offsets
         /\ \A n \in Nat : q < n => PageOf(q) <= PagesFor(n)
         /\ PageOf(q) = PagesFor(q + 1)
<1>1. q \div PageTokens \in Nat /\ q % PageTokens \in Offsets
  BY PagedKVAssumption, Quotient DEF Offsets
<1>2. PageOf(q) = PagesFor(q + 1)
  BY FullPages, PartialPages DEF PageOf
<1>3. ASSUME NEW n \in Nat, q < n PROVE PageOf(q) <= PagesFor(n)
  BY <1>2, <1>3, PagesOfLengths
<1>4. QED
  BY <1>1, <1>2, <1>3 DEF PageOf

LEMMA PositionsApart ==
  ASSUME NEW q \in Nat, NEW x \in Nat, PageOf(q) = PageOf(x), q % PageTokens = x % PageTokens
  PROVE  q = x
<1>1. /\ q = PageTokens * (q \div PageTokens) + (q % PageTokens)
      /\ x = PageTokens * (x \div PageTokens) + (x % PageTokens)
      /\ q \div PageTokens \in Nat /\ x \div PageTokens \in Nat
  BY PagedKVAssumption
<1>2. q \div PageTokens = x \div PageTokens
  BY <1>1 DEF PageOf
<1>3. QED
  BY <1>1, <1>2

-----------------------------------------------------------------------------
(***************************************************************************)
(* PagedKV: the counts.                                                    *)
(***************************************************************************)
Holders(p) == {s \in Slots : p \in Range(table[s])}
Contents == [Offsets -> Tokens \cup {Junk}]

PagesExact ==
  /\ table \in [Slots -> Seq(Pages)] /\ length \in [Slots -> Nat]
  /\ refs \in [Pages -> Nat] /\ data \in [Pages -> Contents]
  /\ \A s \in Slots : IsInjective(table[s]) /\ Len(table[s]) = PagesFor(length[s])
  /\ \A p \in Pages : refs[p] = Cardinality(Holders(p))
  /\ free = {p \in Pages : refs[p] = 0}

LEMMA HoldersAreFinite ==
  \A p : IsFiniteSet(Holders(p)) /\ Cardinality(Holders(p)) \in Nat
  BY PagedKVAssumption, FS_Subset, FS_CardinalityType DEF Holders

LEMMA UsesOfTable ==
  ASSUME NEW t \in Seq(Pages), IsInjective(t), NEW p
  PROVE  Uses(t, p) = IF p \in Range(t) THEN 1 ELSE 0
<1> DEFINE at == {i \in DOMAIN t : t[i] = p}
<1>1. CASE p \in Range(t)
  <2>1. PICK i \in DOMAIN t : t[i] = p
    BY <1>1 DEF Range
  <2>2. at = {i}
    BY <2>1 DEF IsInjective
  <2>3. QED
    BY <1>1, <2>2, FS_Singleton DEF Uses
<1>2. CASE p \notin Range(t)
  <2>1. at = {}
    BY <1>2 DEF Range
  <2>2. QED
    BY <1>2, <2>1, FS_EmptySet DEF Uses
<1>3. QED
  BY <1>1, <1>2

LEMMA PagesExactIsRefsExact == PagesExact => RefsAreExact
<1> SUFFICES ASSUME PagesExact PROVE RefsAreExact
  OBVIOUS
<1>1. ASSUME NEW s \in Slots, NEW p PROVE /\ Uses(table[s], p) > 0 <=> p \in Range(table[s])
                                          /\ Uses(table[s], p) <= 1
  <2>1. table[s] \in Seq(Pages) /\ IsInjective(table[s])
    BY DEF PagesExact
  <2>2. QED
    BY <2>1, UsesOfTable
<1>2. \A p : {s \in Slots : Uses(table[s], p) > 0} = Holders(p)
  BY <1>1 DEF Holders
<1>3. QED
  BY <1>1, <1>2 DEF PagesExact, RefsAreExact

\* A page in a table is in use.
LEMMA HeldIsUsed ==
  ASSUME PagesExact, NEW s \in Slots, NEW p \in Range(table[s])
  PROVE  p \in Pages /\ refs[p] > 0 /\ p \notin free
<1>1. p \in Pages
  BY ElementOfSeq, LenProperties DEF PagesExact, Range
<1>2. Holders(p) # {}
  BY DEF Holders
<1>3. Cardinality(Holders(p)) # 0
  BY <1>2, HoldersAreFinite, FS_EmptySet
<1>4. QED
  BY <1>1, <1>3, HoldersAreFinite DEF PagesExact

\* Whatever replaces a table, the counts follow it.
LEMMA TableReplaced ==
  ASSUME PagesExact, NEW t \in Slots, NEW new \in Seq(Pages),
         table' = [table EXCEPT ![t] = new],
         refs' \in [Pages -> Nat],
         \A p \in Pages : refs'[p] = (refs[p] + (IF p \in Range(new) THEN 1 ELSE 0))
                                     - (IF p \in Range(table[t]) THEN 1 ELSE 0)
  PROVE  \A p \in Pages : refs'[p] = Cardinality(Holders(p)')
<1> SUFFICES ASSUME NEW p \in Pages PROVE refs'[p] = Cardinality(Holders(p)')
  OBVIOUS
<1>1. /\ table'[t] = new /\ \A s \in Slots \ {t} : table'[s] = table[s]
      /\ refs[p] = Cardinality(Holders(p))
  BY DEF PagesExact
<1>2. /\ Holders(p)' \ {t} = Holders(p) \ {t}
      /\ t \in Holders(p)' <=> p \in Range(new)
      /\ t \in Holders(p) <=> p \in Range(table[t])
  BY <1>1 DEF Holders
<1>3. IsFiniteSet(Holders(p))
  BY HoldersAreFinite
<1>4. QED
  BY <1>1, <1>2, <1>3, OneChanged

-----------------------------------------------------------------------------
(***************************************************************************)
(* append().                                                               *)
(***************************************************************************)
\* What every reader of the pages sees of it.
Appended(s) ==
  /\ PagesExact' /\ length' = [length EXCEPT ![s] = @ + 1]
  /\ \A t \in Slots \ {s} : table'[t] = table[t]
  /\ \A t \in Slots : \A q \in 0..(length[t] - 1) :
       /\ data'[table'[t][PageOf(q)]][q % PageTokens] = data[table[t][PageOf(q)]][q % PageTokens]
       /\ refs[table[t][PageOf(q)]] = 1 => refs'[table'[t][PageOf(q)]] = 1
  /\ refs'[table'[s][PageOf(length[s])]] = 1
  /\ \A p \in Pages \ free : refs'[p] <= refs[p]
  /\ IF NeedsPage(s) THEN \E p \in free : free' = free \ {p} ELSE free' = free

\* Positions below the length have a page.
LEMMA HeldPages ==
  ASSUME PagesExact, NEW t \in Slots, NEW q \in 0..(length[t] - 1)
  PROVE  /\ PageOf(q) \in 1..Len(table[t]) /\ q % PageTokens \in Offsets
         /\ table[t][PageOf(q)] \in Range(table[t])
         /\ table[t][PageOf(q)] \in Pages \ free /\ refs[table[t][PageOf(q)]] > 0
<1>1. table[t] \in Seq(Pages) /\ length[t] \in Nat /\ Len(table[t]) = PagesFor(length[t])
  BY DEF PagesExact
<1>2. q \in Nat /\ q < length[t]
  BY <1>1
<1>3. PageOf(q) \in 1..Len(table[t]) /\ q % PageTokens \in Offsets
  <2>1. PageOf(q) \in Nat \ {0} /\ q % PageTokens \in Offsets /\ PageOf(q) <= PagesFor(length[t])
    BY <1>1, <1>2, PlaceOfPosition
  <2>2. PagesFor(length[t]) \in Nat
    BY <1>1, PagesOfLengths
  <2>3. QED
    BY <1>1, <2>1, <2>2
<1>4. table[t][PageOf(q)] \in Range(table[t])
  BY <1>1, <1>3, LenProperties DEF Range
<1>5. QED
  BY <1>3, <1>4, HeldIsUsed

LEMMA AppendInPlace ==
  ASSUME PagesExact, NEW s \in Slots, AppendPosition(s), ~NeedsPage(s)
  PROVE  Appended(s)
<1>1. /\ length' = [length EXCEPT ![s] = @ + 1] /\ UNCHANGED <<table, refs, data, free>>
      /\ length[s] \in Nat /\ length[s] % PageTokens # 0 /\ ~(refs[LastPage(s)] > 1)
      /\ table[s] \in Seq(Pages) /\ Len(table[s]) = PagesFor(length[s])
  BY DEF AppendPosition, NeedsPage, Partial, Copies, PagesExact
<1>2. /\ PagesFor(length[s]) \in Nat \ {0} /\ PageOf(length[s]) = PagesFor(length[s])
      /\ PagesFor(length[s] + 1) = PagesFor(length[s])
  BY <1>1, PartialPages DEF PageOf
<1>3. PagesExact'
  <2>1. length' \in [Slots -> Nat] /\ \A t \in Slots : PagesFor(length'[t]) = PagesFor(length[t])
    BY <1>1, <1>2 DEF PagesExact
  <2>2. \A p : Holders(p)' = Holders(p)
    BY <1>1 DEF Holders
  <2>3. QED
    BY <1>1, <2>1, <2>2 DEF PagesExact
<1>4. refs[table[s][PageOf(length[s])]] = 1
  <2>1. LastPage(s) = table[s][PageOf(length[s])] /\ LastPage(s) \in Range(table[s])
    BY <1>1, <1>2, LenProperties DEF LastPage, Range
  <2>2. LastPage(s) \in Pages /\ refs[LastPage(s)] > 0 /\ refs[LastPage(s)] \in Nat
    BY <2>1, HeldIsUsed DEF PagesExact
  <2>3. QED
    BY <1>1, <2>1, <2>2
<1>5. \A p \in Pages : refs[p] <= refs[p]
  BY DEF PagesExact
<1>6. QED
  BY <1>1, <1>3, <1>4, <1>5 DEF Appended

LEMMA AppendFresh ==
  ASSUME PagesExact, NEW s \in Slots, AppendPosition(s), ~Partial(s)
  PROVE  Appended(s)
<1>1. NeedsPage(s) /\ ~Copies(s)
  BY DEF NeedsPage, Copies
<1>2. PICK p \in free : /\ free' = free \ {p} /\ table' = [table EXCEPT ![s] = Append(@, p)]
                        /\ refs' = [refs EXCEPT ![p] = 1] /\ data' = data
                        /\ length' = [length EXCEPT ![s] = @ + 1]
  BY <1>1 DEF AppendPosition
<1> DEFINE old == table[s]
           new == Append(table[s], p)
<1>3. /\ length[s] \in Nat /\ length[s] % PageTokens = 0 /\ old \in Seq(Pages)
      /\ Len(old) = PagesFor(length[s]) /\ IsInjective(old) /\ Len(old) \in Nat
      /\ p \in Pages /\ refs[p] = 0 /\ refs \in [Pages -> Nat] /\ DOMAIN table = Slots
  BY LenProperties DEF Partial, PagesExact
<1>4. /\ PageOf(length[s]) = Len(old) + 1 /\ PagesFor(length[s] + 1) = Len(old) + 1
  BY <1>3, FullPages DEF PageOf
<1>5. p \notin Range(old)
  BY HeldIsUsed, <1>2
<1>6. /\ new \in Seq(Pages) /\ Len(new) = Len(old) + 1 /\ Range(new) = Range(old) \cup {p}
      /\ \A i \in 1..Len(old) : new[i] = old[i]
      /\ new[Len(old) + 1] = p
  BY <1>3, AppendProperties, AppendedTable
<1>7. IsInjective(new)
  <2>1. DOMAIN new = 1..(Len(old) + 1) /\ DOMAIN old = 1..Len(old)
    BY <1>3, <1>6, LenProperties
  <2>2. \A i \in 1..Len(old) : old[i] \in Range(old)
    BY <2>1 DEF Range
  <2> HIDE DEF new, old
  <2>3. QED
    BY SMTT(30), <1>3, <1>5, <1>6, <2>1, <2>2 DEF IsInjective
<1>8. /\ table'[s] = new /\ \A t \in Slots \ {s} : table'[t] = table[t]
      /\ refs'[p] = 1 /\ \A x \in Pages \ {p} : refs'[x] = refs[x]
  BY <1>2, <1>3
<1>9. PagesExact'
  <2>1. \A x \in Pages : refs'[x] = (refs[x] + (IF x \in Range(new) THEN 1 ELSE 0))
                                    - (IF x \in Range(old) THEN 1 ELSE 0)
    <3> SUFFICES ASSUME NEW x \in Pages
                 PROVE  refs'[x] = (refs[x] + (IF x \in Range(new) THEN 1 ELSE 0))
                                   - (IF x \in Range(old) THEN 1 ELSE 0)
      OBVIOUS
    <3> HIDE DEF new, old
    <3>1. refs[x] \in Nat
      BY <1>3
    <3>2. CASE x = p
      BY <1>3, <1>5, <1>6, <1>8, <3>1, <3>2
    <3>3. CASE x # p
      <4>1. x \in Range(new) <=> x \in Range(old)
        BY <1>6, <3>3
      <4>2. QED
        BY <1>8, <3>1, <3>3, <4>1
    <3>4. QED
      BY <3>2, <3>3
  <2>2. refs' \in [Pages -> Nat]
    BY <1>2, <1>3
  <2>3. table' = [table EXCEPT ![s] = new]
    BY <1>2
  <2>4. \A x \in Pages : refs'[x] = Cardinality(Holders(x)')
    BY <1>6, <2>1, <2>2, <2>3, TableReplaced
  <2>5. free' = {x \in Pages : refs'[x] = 0}
    BY <1>2, <1>3, <1>8 DEF PagesExact
  <2>6. table' \in [Slots -> Seq(Pages)] /\ length' \in [Slots -> Nat]
    BY <1>2, <1>6 DEF PagesExact
  <2>7. ASSUME NEW t \in Slots PROVE IsInjective(table'[t]) /\ Len(table'[t]) = PagesFor(length'[t])
    <3>1. CASE t = s
      BY <1>2, <1>3, <1>4, <1>6, <1>7, <1>8, <3>1 DEF PagesExact
    <3>2. CASE t # s
      BY <1>2, <1>8, <3>2 DEF PagesExact
    <3>3. QED
      BY <3>1, <3>2
  <2>8. QED
    BY <1>2, <2>2, <2>4, <2>5, <2>6, <2>7 DEF PagesExact
<1>10. ASSUME NEW t \in Slots, NEW q \in 0..(length[t] - 1)
       PROVE  /\ table'[t][PageOf(q)] = table[t][PageOf(q)]
              /\ refs'[table[t][PageOf(q)]] = refs[table[t][PageOf(q)]]
  <2>1. PageOf(q) \in 1..Len(table[t]) /\ table[t][PageOf(q)] \in Pages \ {p}
    BY <1>2, HeldPages
  <2>2. table'[t][PageOf(q)] = table[t][PageOf(q)]
    BY <1>6, <1>8, <2>1
  <2>3. QED
    BY <1>8, <2>1, <2>2
<1>11. \A x \in Pages \ free : refs'[x] <= refs[x]
  BY <1>2, <1>3, <1>8
<1>12. refs'[table'[s][PageOf(length[s])]] = 1
  BY <1>4, <1>6, <1>8
<1>13. \A t \in Slots : \A q \in 0..(length[t] - 1) :
         /\ data'[table'[t][PageOf(q)]][q % PageTokens] = data[table[t][PageOf(q)]][q % PageTokens]
         /\ refs[table[t][PageOf(q)]] = 1 => refs'[table'[t][PageOf(q)]] = 1
  BY <1>2, <1>10
<1> HIDE DEF new, old
<1>14. QED
  BY <1>1, <1>2, <1>8, <1>9, <1>11, <1>12, <1>13 DEF Appended

LEMMA AppendCopies ==
  ASSUME PagesExact, NEW s \in Slots, AppendPosition(s), Copies(s)
  PROVE  Appended(s)
<1> DEFINE old  == table[s]
           n    == Len(table[s])
           last == LastPage(s)
<1>1. PICK p \in free : /\ free' = free \ {p} /\ table' = [table EXCEPT ![s][Len(table[s])] = p]
                        /\ refs' = [refs EXCEPT ![p] = 1, ![LastPage(s)] = @ - 1]
                        /\ data' = [data EXCEPT ![p] = data[LastPage(s)]]
                        /\ length' = [length EXCEPT ![s] = @ + 1]
  BY DEF AppendPosition, NeedsPage
<1> DEFINE new == [table[s] EXCEPT ![Len(table[s])] = p]
<1>2. /\ length[s] \in Nat /\ length[s] % PageTokens # 0 /\ old \in Seq(Pages)
      /\ n = PagesFor(length[s]) /\ IsInjective(old) /\ refs[last] > 1
      /\ p \in Pages /\ refs[p] = 0 /\ refs \in [Pages -> Nat] /\ DOMAIN table = Slots
      /\ data \in [Pages -> Contents]
  BY DEF Copies, Partial, PagesExact
<1>3. n \in Nat \ {0} /\ PageOf(length[s]) = n /\ PagesFor(length[s] + 1) = n
  BY <1>2, PartialPages DEF PageOf
<1>4. DOMAIN old = 1..n /\ n \in DOMAIN old /\ last = old[n] /\ last \in Range(old)
  BY <1>2, <1>3, LenProperties DEF LastPage, Range
<1>5. last \in Pages /\ p \notin Range(old) /\ p # last
  BY <1>1, <1>4, HeldIsUsed
<1>6. /\ new \in Seq(Pages) /\ Len(new) = n /\ DOMAIN new = 1..n /\ new[n] = p
      /\ \A i \in 1..n : i # n => new[i] = old[i]
  BY <1>2, <1>4, ExceptSeq
<1>7. /\ table'[s] = new /\ \A t \in Slots \ {s} : table'[t] = table[t]
      /\ table' = [table EXCEPT ![s] = new]
      /\ refs'[p] = 1 /\ refs'[last] = refs[last] - 1
      /\ \A x \in Pages \ {p, last} : refs'[x] = refs[x]
      /\ data'[p] = data[last] /\ \A x \in Pages \ {p} : data'[x] = data[x]
  BY <1>1, <1>2, <1>5
<1>8. refs' \in [Pages -> Nat] /\ data' \in [Pages -> Contents]
  <2>1. refs[last] - 1 \in Nat
    BY <1>2, <1>5
  <2>2. QED
    BY <1>1, <1>2, <1>5, <2>1
<1> HIDE DEF old, n, last, new
<1>9. IsInjective(new) /\ Range(new) = (Range(old) \ {last}) \cup {p}
  <2>1. \A i \in 1..n : old[i] \in Range(old) /\ (old[i] = last => i = n)
    BY <1>2, <1>4 DEF Range, IsInjective
  <2>2. IsInjective(new)
    BY <1>2, <1>4, <1>5, <1>6, <2>1 DEF IsInjective
  <2>3. Range(new) \subseteq (Range(old) \ {last}) \cup {p}
    BY <1>4, <1>6, <2>1 DEF Range
  <2>4. ASSUME NEW x \in Range(old) \ {last} PROVE x \in Range(new)
    <3>1. PICK i \in 1..n : x = old[i]
      BY <1>4 DEF Range
    <3>2. i # n /\ new[i] = x
      BY <1>4, <1>6, <2>4, <3>1
    <3>3. QED
      BY <1>6, <3>2 DEF Range
  <2>5. p \in Range(new)
    BY <1>3, <1>6 DEF Range
  <2>6. QED
    BY <2>2, <2>3, <2>4, <2>5
<1>10. PagesExact'
  <2>1. ASSUME NEW x \in Pages
        PROVE  refs'[x] = (refs[x] + (IF x \in Range(new) THEN 1 ELSE 0))
                          - (IF x \in Range(table[s]) THEN 1 ELSE 0)
    <3>0. Range(table[s]) = Range(old) /\ refs[x] \in Nat
      BY <1>2 DEF old
    <3>1. CASE x = p
      BY <1>2, <1>5, <1>7, <1>9, <3>0, <3>1
    <3>2. CASE x = last
      BY <1>4, <1>5, <1>7, <1>9, <3>0, <3>2
    <3>3. CASE x \notin {p, last}
      <4>1. x \in Range(new) <=> x \in Range(old)
        BY <1>9, <3>3
      <4>2. QED
        BY <1>7, <3>0, <3>3, <4>1
    <3>4. QED
      BY <3>1, <3>2, <3>3
  <2>2. \A x \in Pages : refs'[x] = Cardinality(Holders(x)')
    BY <1>6, <1>7, <1>8, <2>1, TableReplaced
  <2>3. free' = {x \in Pages : refs'[x] = 0}
    <3>1. refs'[last] # 0
      BY <1>2, <1>5, <1>7
    <3>2. ASSUME NEW x \in Pages PROVE x \in free' <=> refs'[x] = 0
      BY <1>1, <1>2, <1>5, <1>7, <3>1 DEF PagesExact
    <3>3. QED
      BY <1>1, <3>2 DEF PagesExact
  <2>4. table' \in [Slots -> Seq(Pages)] /\ length' \in [Slots -> Nat]
    <3>1. table \in [Slots -> Seq(Pages)] /\ length \in [Slots -> Nat]
      BY DEF PagesExact
    <3>2. table' \in [Slots -> Seq(Pages)]
      BY <1>6, <1>7, <3>1
    <3>3. QED
      BY <1>1, <3>1, <3>2
  <2>5. ASSUME NEW t \in Slots PROVE IsInjective(table'[t]) /\ Len(table'[t]) = PagesFor(length'[t])
    <3>1. CASE t = s
      BY <1>1, <1>2, <1>3, <1>6, <1>7, <1>9, <3>1 DEF PagesExact
    <3>2. CASE t # s
      BY <1>1, <1>7, <3>2 DEF PagesExact
    <3>3. QED
      BY <3>1, <3>2
  <2>6. QED
    BY <1>8, <2>2, <2>3, <2>4, <2>5 DEF PagesExact
<1>11. ASSUME NEW t \in Slots, NEW q \in 0..(length[t] - 1)
       PROVE  /\ data'[table'[t][PageOf(q)]] = data[table[t][PageOf(q)]]
              /\ refs[table[t][PageOf(q)]] = 1 => refs'[table'[t][PageOf(q)]] = 1
  <2>1. PageOf(q) \in 1..Len(table[t]) /\ table[t][PageOf(q)] \in Pages \ {p}
    BY <1>1, HeldPages
  <2>2. CASE t = s /\ PageOf(q) = n
    BY <1>4, <1>6, <1>7, <2>2 DEF old
  <2>3. CASE t # s \/ PageOf(q) # n
    <3>1. table'[t][PageOf(q)] = table[t][PageOf(q)]
      BY <1>6, <1>7, <2>1, <2>3 DEF old, n
    <3>2. refs[table[t][PageOf(q)]] = 1 => table[t][PageOf(q)] # last
      BY <1>2
    <3>3. QED
      BY <1>7, <2>1, <3>1, <3>2
  <2>4. QED
    BY <2>2, <2>3
<1>12. \A x \in Pages \ free : refs'[x] <= refs[x]
  <2>1. \A x \in Pages : refs[x] \in Nat
    BY <1>2
  <2>2. \A x \in Pages \ free : x # p /\ (x # last => refs'[x] = refs[x])
    BY <1>1, <1>7
  <2>3. refs[last] - 1 <= refs[last]
    BY <1>5, <2>1
  <2>4. QED
    BY <1>7, <2>1, <2>2, <2>3
<1>13. refs'[table'[s][PageOf(length[s])]] = 1
  BY <1>3, <1>6, <1>7
<1>14. NeedsPage(s)
  BY DEF NeedsPage
<1>15. QED
  BY ZenonT(30), <1>1, <1>7, <1>10, <1>11, <1>12, <1>13, <1>14 DEF Appended

LEMMA AppendIsAppended ==
  ASSUME PagesExact, NEW s \in Slots, AppendPosition(s) PROVE Appended(s)
  BY AppendInPlace, AppendFresh, AppendCopies DEF NeedsPage

-----------------------------------------------------------------------------
(***************************************************************************)
(* store(), clear() and share_prefix().                                    *)
(***************************************************************************)
\* A page that counts one holder is at one place.
LEMMA OnlyHolder ==
  ASSUME PagesExact, NEW s \in Slots, NEW t \in Slots,
         NEW i \in 1..Len(table[s]), NEW j \in 1..Len(table[t]),
         refs[table[s][i]] = 1, table[t][j] = table[s][i]
  PROVE  s = t /\ i = j
<1>1. /\ DOMAIN table[s] = 1..Len(table[s]) /\ DOMAIN table[t] = 1..Len(table[t])
      /\ IsInjective(table[s]) /\ table[s][i] \in Pages
  BY LenProperties, ElementOfSeq DEF PagesExact
<1>2. s \in Holders(table[s][i]) /\ t \in Holders(table[s][i])
  BY <1>1 DEF Holders, Range
<1>3. Cardinality(Holders(table[s][i])) = 1
  BY <1>1 DEF PagesExact
<1>4. s = t
  BY <1>2, <1>3, HoldersAreFinite, FS_Singleton
<1>5. QED
  BY <1>1, <1>4 DEF IsInjective

LEMMA StoreKeepsPages ==
  ASSUME PagesExact, NEW s \in Slots, NEW q \in 0..(length[s] - 1), NEW content \in Tokens,
         StorePosition(s, q, content), refs[table[s][PageOf(q)]] = 1
  PROVE  /\ PagesExact'
         /\ data'[table[s][PageOf(q)]][q % PageTokens] = content
         /\ \A t \in Slots : \A x \in 0..(length[t] - 1) :
              ~(t = s /\ x = q) => data'[table[t][PageOf(x)]][x % PageTokens]
                                     = data[table[t][PageOf(x)]][x % PageTokens]
<1> DEFINE page == table[s][PageOf(q)]
           o    == q % PageTokens
<1>1. UNCHANGED <<table, length, refs, free>> /\ data' = [data EXCEPT ![page][o] = content]
  BY DEF StorePosition, PageAt, PageOf
<1>2. PageOf(q) \in 1..Len(table[s]) /\ o \in Offsets /\ page \in Pages
  BY HeldPages
<1>3. data \in [Pages -> Contents] /\ DOMAIN data[page] = Offsets
  BY <1>2 DEF PagesExact, Contents
<1> HIDE DEF page, o
<1>4. /\ data'[page][o] = content
      /\ \A p \in Pages, x \in Offsets : ~(p = page /\ x = o) => data'[p][x] = data[p][x]
      /\ data' \in [Pages -> Contents]
  <2>1. [data[page] EXCEPT ![o] = content] \in Contents
    BY <1>2, <1>3 DEF Contents
  <2>2. data' = [data EXCEPT ![page] = [data[page] EXCEPT ![o] = content]]
    BY <1>1
  <2>3. data' \in [Pages -> Contents]
    BY <1>3, <2>1, <2>2
  <2>4. \A x \in Offsets : data'[page][x] = IF x = o THEN content ELSE data[page][x]
    BY <1>2, <1>3, <2>2
  <2>5. \A p \in Pages : p # page => data'[p] = data[p]
    BY <1>3, <2>2
  <2>6. QED
    BY <1>2, <2>3, <2>4, <2>5
<1>5. PagesExact'
  <2>1. \A p : Holders(p)' = Holders(p)
    BY <1>1 DEF Holders
  <2>2. QED
    BY <1>1, <1>4, <2>1 DEF PagesExact
<1>6. ASSUME NEW t \in Slots, NEW x \in 0..(length[t] - 1), ~(t = s /\ x = q)
      PROVE  data'[table[t][PageOf(x)]][x % PageTokens] = data[table[t][PageOf(x)]][x % PageTokens]
  <2>1. /\ PageOf(x) \in 1..Len(table[t]) /\ x % PageTokens \in Offsets
        /\ table[t][PageOf(x)] \in Pages
    BY HeldPages
  <2>2. ASSUME table[t][PageOf(x)] = page, x % PageTokens = o PROVE FALSE
    <3>1. t = s /\ PageOf(x) = PageOf(q)
      BY <1>2, <2>1, <2>2, OnlyHolder DEF page
    <3>2. x \in Nat /\ q \in Nat
      BY DEF PagesExact
    <3>3. x = q
      BY <2>2, <3>1, <3>2, PositionsApart DEF o
    <3>4. QED
      BY <1>6, <3>1, <3>3
  <2>3. QED
    BY <1>4, <2>1, <2>2
<1>7. QED
  BY <1>4, <1>5, <1>6 DEF page, o

\* A sequence gets another table, of pages that are in use, and what is left of
\* the old one is freed.
LEMMA ReleaseKeepsPages ==
  ASSUME PagesExact, NEW t \in Slots, NEW new \in Seq(Pages), NEW n \in Nat,
         IsInjective(new), Len(new) = PagesFor(n),
         \A p \in Range(new) : refs[p] > 0,
         table' = [table EXCEPT ![t] = new], length' = [length EXCEPT ![t] = n],
         refs' = Dropped([p \in Pages |-> refs[p] + Uses(new, p)], table[t]), Release
  PROVE  /\ PagesExact'
         /\ \A s \in Slots : \A i \in 1..Len(table'[s]) : data'[table'[s][i]] = data[table'[s][i]]
<1>1. /\ table[t] \in Seq(Pages) /\ IsInjective(table[t]) /\ refs \in [Pages -> Nat]
      /\ table \in [Slots -> Seq(Pages)] /\ length \in [Slots -> Nat] /\ data \in [Pages -> Contents]
  BY DEF PagesExact
<1>2. \A p \in Pages : refs'[p] = (refs[p] + (IF p \in Range(new) THEN 1 ELSE 0))
                                  - (IF p \in Range(table[t]) THEN 1 ELSE 0)
  BY <1>1, UsesOfTable DEF Dropped
<1>3. refs' \in [Pages -> Nat]
  <2>1. \A p \in Range(table[t]) : refs[p] > 0
    BY HeldIsUsed
  <2>2. ASSUME NEW p \in Pages PROVE refs'[p] \in Nat
    <3>1. PICK x \in Nat : x = refs[p] /\ (p \in Range(table[t]) => x > 0)
      BY <1>1, <2>1
    <3>2. PICK y \in {0, 1} : y = IF p \in Range(new) THEN 1 ELSE 0
      OBVIOUS
    <3>3. refs'[p] = (x + y) - (IF p \in Range(table[t]) THEN 1 ELSE 0)
      BY <1>2, <3>1, <3>2
    <3>4. QED
      BY <3>1, <3>2, <3>3
  <2>3. QED
    BY <2>2 DEF Dropped
<1>4. \A p \in Pages : refs'[p] = Cardinality(Holders(p)')
  BY <1>2, <1>3, TableReplaced
<1>5. free' = {p \in Pages : refs'[p] = 0}
  <2>1. free' = free \cup {p \in Pages : refs[p] # 0 /\ refs'[p] = 0}
    BY DEF Release
  <2>2. ASSUME NEW p \in Pages, refs[p] = 0 PROVE refs'[p] = 0
    <3>1. p \notin Range(new) /\ p \notin Range(table[t])
      BY <2>2, HeldIsUsed
    <3>2. QED
      BY <1>2, <2>2, <3>1
  <2>3. free = {p \in Pages : refs[p] = 0}
    BY DEF PagesExact
  <2>4. QED
    BY <2>1, <2>2, <2>3
<1>6. table' \in [Slots -> Seq(Pages)] /\ length' \in [Slots -> Nat]
  BY <1>1
<1>7. ASSUME NEW s \in Slots PROVE IsInjective(table'[s]) /\ Len(table'[s]) = PagesFor(length'[s])
  BY <1>1 DEF PagesExact
<1>8. data' \in [Pages -> Contents] /\ \A p \in Pages \ free' : data'[p] = data[p]
  <2>1. data' = [p \in Pages |-> IF p \in free' THEN EmptyPage ELSE data[p]]
    BY DEF Release
  <2>2. EmptyPage \in Contents
    BY DEF EmptyPage, Contents, Offsets
  <2>3. \A p \in Pages : data[p] \in Contents
    BY <1>1
  <2>4. data' \in [Pages -> Contents]
    BY <2>1, <2>2, <2>3
  <2>5. QED
    BY <2>1, <2>4
<1>9. PagesExact'
  BY <1>3, <1>4, <1>5, <1>6, <1>7, <1>8 DEF PagesExact
<1>10. ASSUME NEW s \in Slots, NEW p \in Range(table'[s]) PROVE p \in Pages /\ data'[p] = data[p]
  <2>1. table'[s] \in Seq(Pages) /\ s \in Holders(p)'
    BY <1>6 DEF Holders
  <2>2. p \in Pages
    BY <2>1, LenProperties, ElementOfSeq DEF Range
  <2>3. IsFiniteSet(Holders(p)') /\ Holders(p)' # {}
    BY <2>1, FS_Subset, PagedKVAssumption DEF Holders
  <2>4. Cardinality(Holders(p)') # 0
    BY <2>3, FS_EmptySet
  <2>5. p \notin free'
    BY <1>4, <1>5, <2>2, <2>4
  <2>6. QED
    BY <1>8, <2>2, <2>5
<1>11. ASSUME NEW s \in Slots, NEW i \in 1..Len(table'[s]) PROVE table'[s][i] \in Range(table'[s])
  <2>1. table'[s] \in Seq(Pages)
    BY <1>6
  <2>2. QED
    BY <2>1, LenProperties DEF Range
<1>12. QED
  BY <1>9, <1>10, <1>11

LEMMA ClearKeepsPages ==
  ASSUME PagesExact, NEW t \in Slots, Clear(t)
  PROVE  /\ PagesExact' /\ table' = [table EXCEPT ![t] = <<>>] /\ length' = [length EXCEPT ![t] = 0]
         /\ \A s \in Slots : \A i \in 1..Len(table'[s]) : data'[table'[s][i]] = data[table'[s][i]]
<1> DEFINE none == <<>>
<1>1. none \in Seq(Pages) /\ IsInjective(none) /\ Len(none) = PagesFor(0) /\ Range(none) = {}
  BY PagesOfLengths DEF IsInjective, Range
<1>2. [p \in Pages |-> refs[p] + Uses(none, p)] = refs
  <2>1. \A p : Uses(none, p) = 0
    BY <1>1, UsesOfTable
  <2>2. refs \in [Pages -> Nat]
    BY DEF PagesExact
  <2> HIDE DEF none
  <2>3. QED
    BY <2>1, <2>2
<1>3. /\ refs' = Dropped([p \in Pages |-> refs[p] + Uses(none, p)], table[t]) /\ Release
      /\ table' = [table EXCEPT ![t] = none] /\ length' = [length EXCEPT ![t] = 0]
  BY <1>2 DEF Clear
<1> HIDE DEF none
<1>4. QED
  BY <1>1, <1>3, ReleaseKeepsPages DEF none

LEMMA ShareKeepsPages ==
  ASSUME PagesExact, NEW s \in Slots, NEW t \in Slots, NEW n \in Nat, SharePrefix(s, t, n)
  PROVE  /\ PagesExact' /\ s # t /\ n <= length[s] /\ PagesFor(n) \in 0..Len(table[s])
         /\ table' = [table EXCEPT ![t] = SubSeq(table[s], 1, PagesFor(n))]
         /\ length' = [length EXCEPT ![t] = n]
         /\ \A x \in Slots : \A i \in 1..Len(table'[x]) : data'[table'[x][i]] = data[table'[x][i]]
<1> DEFINE new == SubSeq(table[s], 1, PagesFor(n))
<1>1. /\ s # t /\ n <= length[s] /\ refs' = Dropped(Retained(new), table[t]) /\ Release
      /\ table' = [table EXCEPT ![t] = new] /\ length' = [length EXCEPT ![t] = n]
  BY DEF SharePrefix
<1>2. /\ table[s] \in Seq(Pages) /\ IsInjective(table[s]) /\ length[s] \in Nat
      /\ Len(table[s]) = PagesFor(length[s])
  BY DEF PagesExact
<1>3. PagesFor(n) \in 0..Len(table[s])
  BY <1>1, <1>2, PagesOfLengths
<1>4. new \in Seq(Pages) /\ IsInjective(new) /\ Len(new) = PagesFor(n) /\ Range(new) \subseteq Range(table[s])
  BY <1>2, <1>3, PrefixTable
<1>5. \A p \in Range(new) : refs[p] > 0
  BY <1>4, HeldIsUsed
<1>6. Retained(new) = [p \in Pages |-> refs[p] + Uses(new, p)]
  BY DEF Retained
<1> HIDE DEF new
<1>7. QED
  BY <1>1, <1>3, <1>4, <1>5, <1>6, ReleaseKeepsPages DEF new

-----------------------------------------------------------------------------
(***************************************************************************)
(* A batch: where its inputs go.                                           *)
(***************************************************************************)
Batches == Seq([slot : Slots, token : Tokens, position : Nat])
Earlier(batch, s, k) == {j \in Of(batch, s) : j < k}

LEMMA BatchElement ==
  ASSUME NEW batch \in Batches, NEW i \in DOMAIN batch
  PROVE  batch[i].slot \in Slots /\ batch[i].token \in Tokens /\ batch[i].position \in Nat
<1> DEFINE S == [slot : Slots, token : Tokens, position : Nat]
<1>1. batch \in Seq(S)
  BY DEF Batches
<1> HIDE DEF S
<1>2. batch[i] \in S
  BY <1>1, LenProperties, ElementOfSeq
<1>3. QED
  BY <1>2 DEF S

LEMMA BatchCounts ==
  ASSUME NEW batch \in Batches, NEW s \in Slots
  PROVE  /\ IsFiniteSet(Of(batch, s)) /\ Cardinality(Of(batch, s)) \in Nat
         /\ \A k : /\ Cardinality(Earlier(batch, s, k)) \in Nat
                   /\ Cardinality(Earlier(batch, s, k)) <= Cardinality(Of(batch, s))
         /\ \A i \in Of(batch, s) : Cardinality(Earlier(batch, s, i)) < Cardinality(Of(batch, s))
         /\ \A i, j \in Of(batch, s) :
              i < j => Cardinality(Earlier(batch, s, i)) < Cardinality(Earlier(batch, s, j))
         /\ \A k \in DOMAIN batch :
              Cardinality(Earlier(batch, s, k + 1))
                = Cardinality(Earlier(batch, s, k)) + (IF batch[k].slot = s THEN 1 ELSE 0)
         /\ Cardinality(Earlier(batch, s, 1)) = 0
         /\ Earlier(batch, s, Len(batch) + 1) = Of(batch, s)
<1>1. Len(batch) \in Nat /\ DOMAIN batch = 1..Len(batch)
  BY LenProperties DEF Batches
<1>2. Of(batch, s) \subseteq 1..Len(batch)
  BY <1>1 DEF Of
<1>3. IsFiniteSet(Of(batch, s)) /\ Cardinality(Of(batch, s)) \in Nat
  <2>1. 1 \in Int /\ Len(batch) \in Int
    BY <1>1
  <2>2. IsFiniteSet(1..Len(batch))
    BY <2>1, FS_Interval
  <2>3. QED
    BY <1>2, <2>2, FS_Subset, FS_CardinalityType
<1>4. ASSUME NEW k
      PROVE  /\ IsFiniteSet(Earlier(batch, s, k)) /\ Cardinality(Earlier(batch, s, k)) \in Nat
             /\ Cardinality(Earlier(batch, s, k)) <= Cardinality(Of(batch, s))
  <2>1. Earlier(batch, s, k) \subseteq Of(batch, s)
    BY DEF Earlier
  <2>2. QED
    BY <1>3, <2>1, FS_Subset, FS_CardinalityType
<1>5. ASSUME NEW k \in DOMAIN batch
      PROVE  Cardinality(Earlier(batch, s, k + 1))
                = Cardinality(Earlier(batch, s, k)) + (IF batch[k].slot = s THEN 1 ELSE 0)
  <2>1. CASE batch[k].slot = s
    <3>1. Earlier(batch, s, k + 1) = Earlier(batch, s, k) \cup {k} /\ k \notin Earlier(batch, s, k)
      BY <1>1, <2>1 DEF Earlier, Of
    <3>2. QED
      BY <1>4, <2>1, <3>1, OneMore
  <2>2. CASE batch[k].slot # s
    <3>1. Earlier(batch, s, k + 1) = Earlier(batch, s, k)
      BY <1>1, <2>2 DEF Earlier, Of
    <3>2. QED
      BY <1>4, <2>2, <3>1
  <2>3. QED
    BY <2>1, <2>2
<1>6. ASSUME NEW i \in Of(batch, s), NEW T, Earlier(batch, s, i) \subseteq T, i \in T, IsFiniteSet(T)
      PROVE  Cardinality(Earlier(batch, s, i)) < Cardinality(T)
  <2>1. i \in 1..Len(batch) /\ i \notin Earlier(batch, s, i)
    BY <1>2 DEF Earlier
  <2>2. /\ Cardinality(Earlier(batch, s, i)) <= Cardinality(T) /\ Cardinality(T) \in Nat
        /\ Cardinality(T) = Cardinality(Earlier(batch, s, i)) => T = Earlier(batch, s, i)
    BY <1>6, FS_Subset, FS_CardinalityType
  <2>3. QED
    BY <1>4, <1>6, <2>1, <2>2
<1>7. ASSUME NEW i \in Of(batch, s)
      PROVE  Cardinality(Earlier(batch, s, i)) < Cardinality(Of(batch, s))
  <2>1. Earlier(batch, s, i) \subseteq Of(batch, s)
    BY DEF Earlier
  <2>2. QED
    BY <1>3, <1>6, <2>1
<1>8. ASSUME NEW i \in Of(batch, s), NEW j \in Of(batch, s), i < j
      PROVE  Cardinality(Earlier(batch, s, i)) < Cardinality(Earlier(batch, s, j))
  <2>1. Earlier(batch, s, i) \subseteq Earlier(batch, s, j) /\ i \in Earlier(batch, s, j)
    BY <1>1, <1>2, <1>8 DEF Earlier
  <2>2. QED
    BY <1>4, <1>6, <2>1
<1>9. Cardinality(Earlier(batch, s, 1)) = 0
  <2>1. Earlier(batch, s, 1) = {}
    BY <1>1, <1>2 DEF Earlier
  <2>2. QED
    BY <2>1, FS_EmptySet
<1>10. Earlier(batch, s, Len(batch) + 1) = Of(batch, s)
  BY <1>1, <1>2 DEF Earlier
<1>11. QED
  BY <1>3, <1>4, <1>5, <1>7, <1>8, <1>9, <1>10

-----------------------------------------------------------------------------
(***************************************************************************)
(* The invariant of a forward.                                             *)
(***************************************************************************)
Count(s) == Cardinality(Of(request, s))

\* The pages that the rest of the appends will ask for, by sequence.
Needs == [s \in Slots |-> NeededForSlot(s, base[s] + Count(s) - length[s])]

BatchIsPlaced ==
  /\ request \in Batches /\ request # <<>> /\ base \in [Slots -> Nat]
  /\ \A i \in DOMAIN request :
       request[i].position = base[request[i].slot]
                             + Cardinality(Earlier(request, request[i].slot, i))

\* What has been appended is in pages of its own.
OwnPages ==
  \A s \in Slots : \A q \in base[s]..(length[s] - 1) : refs[table[s][PageOf(q)]] = 1

Appending ==
  /\ Cardinality(Pairs(Slots, Needs)) <= Cardinality(free)
  /\ \E k \in 1..(Len(request) + 1) :
       /\ todo = k..Len(request)
       /\ \A s \in Slots : length[s] = base[s] + Cardinality(Earlier(request, s, k))

Storing ==
  /\ todo \subseteq DOMAIN request
  /\ \A s \in Slots : length[s] = base[s] + Count(s)
  /\ \A i \in DOMAIN request \ todo :
       data[PageAt(request[i].slot, request[i].position)][request[i].position % PageTokens]
         = request[i].token

Running ==
  /\ pc \in {"idle", "append", "store"}
  /\ pc # "idle" => BatchIsPlaced /\ OwnPages
  /\ pc = "append" => Appending
  /\ pc = "store" => Storing

Inv == PagesExact /\ Running

\* What is needed for a sequence that is to grow.
LEMMA NeedsOf ==
  ASSUME PagesExact, BatchIsPlaced, NEW t \in Slots, base[t] + Count(t) >= length[t]
  PROVE  /\ Needs[t] = IF base[t] + Count(t) = length[t] THEN 0
                       ELSE PagesFor(base[t] + Count(t)) - PagesFor(length[t]) + (IF Copies(t) THEN 1 ELSE 0)
         /\ Needs[t] \in Nat
         /\ base[t] + Count(t) > length[t] /\ NeedsPage(t) => Needs[t] > 0
<1>1. length[t] \in Nat /\ base[t] \in Nat /\ Count(t) \in Nat /\ base[t] + Count(t) \in Nat
  BY BatchCounts DEF PagesExact, BatchIsPlaced, Count
<1>2. Needs[t] = IF base[t] + Count(t) = length[t] THEN 0
                 ELSE PagesFor(base[t] + Count(t)) - PagesFor(length[t]) + (IF Copies(t) THEN 1 ELSE 0)
  <2>1. length[t] + (base[t] + Count(t) - length[t]) = base[t] + Count(t)
        /\ (base[t] + Count(t) - length[t] = 0 <=> base[t] + Count(t) = length[t])
    BY <1>1
  <2>2. QED
    BY <2>1 DEF Needs, NeededForSlot
<1>3. /\ PagesFor(length[t]) \in Nat /\ PagesFor(base[t] + Count(t)) \in Nat
      /\ PagesFor(length[t]) <= PagesFor(base[t] + Count(t))
      /\ base[t] + Count(t) > length[t] => PagesFor(length[t] + 1) <= PagesFor(base[t] + Count(t))
  BY <1>1, PagesOfLengths
<1>4. ASSUME base[t] + Count(t) > length[t], NeedsPage(t) PROVE Needs[t] > 0
  <2>1. CASE Copies(t)
    BY <1>1, <1>2, <1>3, <1>4, <2>1
  <2>2. CASE ~Partial(t)
    <3>1. PagesFor(length[t] + 1) = PagesFor(length[t]) + 1
      BY <1>1, <2>2, FullPages DEF Partial
    <3>2. QED
      BY <1>1, <1>2, <1>3, <1>4, <3>1
  <2>3. QED
    BY <1>4, <2>1, <2>2 DEF NeedsPage
<1>5. QED
  BY <1>2, <1>3, <1>4

\* A page that is asked for is needed, and asked for no more once it is there.
LEMMA NeedsShrink ==
  ASSUME PagesExact, BatchIsPlaced, NEW s \in Slots, Appended(s), UNCHANGED <<request, base>>,
         \A t \in Slots : base[t] + Count(t) >= length[t], base[s] + Count(s) > length[s]
  PROVE  /\ Needs \in [Slots -> Nat] /\ Needs' \in [Slots -> Nat]
         /\ \A t \in Slots : Needs'[t] <= Needs[t]
         /\ NeedsPage(s) => Needs'[s] < Needs[s]
<1>1. /\ length' = [length EXCEPT ![s] = @ + 1] /\ length \in [Slots -> Nat]
      /\ base \in [Slots -> Nat] /\ \A t \in Slots : Count(t) \in Nat /\ Count(t)' = Count(t)
      /\ PagesExact'
  BY BatchCounts DEF Appended, PagesExact, BatchIsPlaced, Count
<1>2. ASSUME NEW t \in Slots, NEW n \in Nat, n <= base[t] + Count(t)
      PROVE  /\ PagesFor(n) \in Nat /\ PagesFor(base[t] + Count(t)) \in Nat
             /\ PagesFor(n) <= PagesFor(base[t] + Count(t))
  BY <1>1, <1>2, PagesOfLengths
<1>3. ASSUME NEW t \in Slots
      PROVE  /\ Needs[t] = IF base[t] + Count(t) = length[t] THEN 0
                           ELSE PagesFor(base[t] + Count(t)) - PagesFor(length[t]) + (IF Copies(t) THEN 1 ELSE 0)
             /\ Needs[t] \in Nat
  BY NeedsOf
<1>4. ASSUME NEW t \in Slots
      PROVE  /\ Needs'[t] = IF base[t] + Count(t) = length'[t] THEN 0
                            ELSE PagesFor(base[t] + Count(t)) - PagesFor(length'[t]) + (IF Copies(t)' THEN 1 ELSE 0)
             /\ Needs'[t] \in Nat
  <2>1. length'[t] \in Nat /\ length'[t] <= base[t] + Count(t)
    BY <1>1
  <2>2. length'[t] + (base[t] + Count(t) - length'[t]) = base[t] + Count(t)
        /\ (base[t] + Count(t) - length'[t] = 0 <=> base[t] + Count(t) = length'[t])
    BY <1>1, <2>1
  <2>3. Needs'[t] = IF base[t] + Count(t) = length'[t] THEN 0
                    ELSE PagesFor(base[t] + Count(t)) - PagesFor(length'[t]) + (IF Copies(t)' THEN 1 ELSE 0)
    BY <1>1, <2>2 DEF Needs, NeededForSlot
  <2>4. QED
    BY <1>2, <2>1, <2>3
<1>5. ASSUME NEW t \in Slots \ {s} PROVE Needs'[t] <= Needs[t]
  <2>1. length'[t] = length[t] /\ table'[t] = table[t]
    BY <1>1 DEF Appended
  <2>2. Copies(t)' => Copies(t)
    <3> SUFFICES ASSUME Copies(t)' PROVE Copies(t)
      OBVIOUS
    <3>1. length[t] % PageTokens # 0 /\ refs'[LastPage(t)] > 1
      BY <2>1 DEF Copies, Partial, LastPage
    <3>2. length[t] \in Nat /\ table[t] \in Seq(Pages) /\ Len(table[t]) = PagesFor(length[t])
      BY DEF PagesExact
    <3>3. LastPage(t) \in Range(table[t])
      BY <3>1, <3>2, PartialPages, LenProperties DEF LastPage, Range
    <3>4. LastPage(t) \in Pages \ free
      BY <3>3, HeldIsUsed
    <3>5. refs'[LastPage(t)] <= refs[LastPage(t)] /\ refs'[LastPage(t)] \in Nat /\ refs[LastPage(t)] \in Nat
      BY <1>1, <3>4 DEF Appended, PagesExact
    <3>6. QED
      BY <3>1, <3>5 DEF Copies, Partial
  <2>3. PagesFor(base[t] + Count(t)) \in Nat /\ PagesFor(length[t]) \in Nat
    BY <1>1, PagesOfLengths
  <2>4. QED
    BY <1>3, <1>4, <2>1, <2>2, <2>3
<1>6. Needs'[s] <= Needs[s] /\ (NeedsPage(s) => Needs'[s] < Needs[s])
  <2>1. length'[s] = length[s] + 1 /\ length[s] \in Nat
    BY <1>1
  <2>2. ~Copies(s)'
    <3> SUFFICES ASSUME Partial(s)' PROVE refs'[LastPage(s)'] = 1
      BY DEF Copies
    <3>1. Len(table'[s]) = PagesFor(length[s] + 1)
      BY <1>1, <2>1 DEF PagesExact
    <3>2. LastPage(s)' = table'[s][PageOf(length[s])]
      BY <2>1, <3>1, PlaceOfPosition DEF LastPage
    <3>3. QED
      BY <3>2 DEF Appended
  <2>3. /\ PagesFor(base[s] + Count(s)) \in Nat /\ PagesFor(length[s] + 1) \in Nat
        /\ PagesFor(length[s] + 1) <= PagesFor(base[s] + Count(s)) /\ PagesFor(length[s]) \in Nat
    BY <1>1, <1>2, <2>1, PagesOfLengths
  <2>4. Needs'[s] = PagesFor(base[s] + Count(s)) - PagesFor(length[s] + 1)
    BY <1>4, <2>1, <2>2, <2>3
  <2>5. CASE Partial(s)
    <3>1. PagesFor(length[s] + 1) = PagesFor(length[s])
      BY <2>1, <2>5, PartialPages DEF Partial
    <3>2. NeedsPage(s) <=> Copies(s)
      BY <2>5 DEF NeedsPage
    <3>3. QED
      BY <1>1, <1>3, <2>1, <2>3, <2>4, <3>1, <3>2
  <2>6. CASE ~Partial(s)
    <3>1. PagesFor(length[s] + 1) = PagesFor(length[s]) + 1
      BY <2>1, <2>6, FullPages DEF Partial
    <3>2. ~Copies(s)
      BY <2>6 DEF Copies
    <3>3. QED
      BY <1>1, <1>3, <2>1, <2>3, <2>4, <3>1, <3>2
  <2>7. QED
    BY <2>5, <2>6
<1>7. QED
  BY <1>3, <1>4, <1>5, <1>6 DEF Needs

-----------------------------------------------------------------------------
(***************************************************************************)
(* Every action keeps the invariant.                                       *)
(***************************************************************************)
LEMMA InvStarts == Init => Inv
<1> SUFFICES ASSUME Init PROVE Inv
  OBVIOUS
<1>1. /\ table = [s \in Slots |-> <<>>] /\ length = [s \in Slots |-> 0]
      /\ refs = [p \in Pages |-> 0] /\ free = Pages
      /\ data = [p \in Pages |-> EmptyPage] /\ pc = "idle"
  BY DEF Init, InitKV
<1>2. EmptyPage \in Contents
  BY DEF EmptyPage, Contents, Offsets
<1>3. \A p : Cardinality(Holders(p)) = 0
  <2>1. \A p : Holders(p) = {}
    BY <1>1 DEF Holders, Range
  <2>2. QED
    BY <2>1, FS_EmptySet
<1>4. \A s \in Slots : IsInjective(table[s]) /\ Len(table[s]) = PagesFor(length[s])
  BY <1>1, PagesOfLengths DEF IsInjective
<1>5. PagesExact
  BY <1>1, <1>2, <1>3, <1>4 DEF PagesExact
<1>6. QED
  BY <1>1, <1>5 DEF Inv, Running

\* Reject, Attend and Fail.
LEMMA ReturnKeeps ==
  ASSUME PagesExact, NEW read, Return(read), UNCHANGED kvVars PROVE Inv'
<1>1. UNCHANGED <<table, length, refs, data, free>> /\ pc' = "idle"
  BY DEF Return, kvVars
<1>2. PagesExact'
  BY <1>1 DEF PagesExact, Holders
<1>3. QED
  BY <1>1, <1>2 DEF Inv, Running

\* A batch that forward() builds from a wish.
LEMMA WishIsPlaced ==
  ASSUME length \in [Slots -> Nat], NEW wish \in Wishes
  PROVE  LET batch == Placed(wish)
         IN /\ batch \in Batches /\ batch # <<>> /\ DOMAIN batch = DOMAIN wish
            /\ DOMAIN batch = 1..Len(batch)
            /\ \A i \in DOMAIN batch :
                 /\ batch[i].slot \in Slots
                 /\ batch[i].position = length[batch[i].slot]
                                        + Cardinality(Earlier(batch, batch[i].slot, i))
<1> DEFINE batch == Placed(wish)
<1>1. PICK n \in 1..BatchTokens : wish \in [1..n -> [slot : Slots, token : Tokens]]
  BY DEF Wishes
<1>2. n \in Nat \ {0} /\ DOMAIN wish = 1..n
  BY <1>1, RuntimeAssumption
<1>3. DOMAIN batch = 1..n /\ \A i \in 1..n : batch[i].slot = wish[i].slot /\ batch[i].token = wish[i].token
  BY <1>2 DEF Placed
<1>4. \A s : Of(batch, s) = Of(wish, s)
  BY <1>2, <1>3 DEF Of
<1>5. \A s, i : IsFiniteSet(Earlier(batch, s, i)) /\ Cardinality(Earlier(batch, s, i)) \in Nat
  <2>1. 1 \in Int /\ n \in Int
    BY <1>2
  <2>2. IsFiniteSet(1..n)
    BY <2>1, FS_Interval
  <2>3. \A s, i : Earlier(batch, s, i) \subseteq 1..n
    BY <1>3 DEF Earlier, Of
  <2>4. QED
    BY <2>2, <2>3, FS_Subset, FS_CardinalityType
<1>6. ASSUME NEW i \in 1..n
      PROVE  /\ batch[i] = [slot |-> wish[i].slot, token |-> wish[i].token,
                            position |-> length[wish[i].slot] + Cardinality(Earlier(batch, wish[i].slot, i))]
             /\ wish[i].slot \in Slots /\ wish[i].token \in Tokens
  BY <1>1, <1>2, <1>4 DEF Placed, Earlier
<1>7. ASSUME NEW i \in 1..n PROVE batch[i] \in [slot : Slots, token : Tokens, position : Nat]
  <2> HIDE DEF batch
  <2>1. PICK x \in Nat : x = length[wish[i].slot] + Cardinality(Earlier(batch, wish[i].slot, i))
    <3>1. Cardinality(Earlier(batch, wish[i].slot, i)) \in Nat /\ length[wish[i].slot] \in Nat
      BY <1>5, <1>6
    <3>2. QED
      BY <3>1
  <2>2. batch[i] = [slot |-> wish[i].slot, token |-> wish[i].token, position |-> x]
    BY <1>6, <2>1
  <2>3. wish[i].slot \in Slots /\ wish[i].token \in Tokens
    BY <1>6
  <2>4. QED
    BY <2>2, <2>3
<1>8. batch = [i \in 1..n |-> batch[i]]
  BY <1>2 DEF Placed
<1> HIDE DEF batch
<1>9. batch \in [1..n -> [slot : Slots, token : Tokens, position : Nat]]
  BY <1>7, <1>8
<1>10. batch \in Batches /\ Len(batch) = n
  <2> DEFINE S == [slot : Slots, token : Tokens, position : Nat]
  <2>1. n \in Nat /\ batch \in [1..n -> S]
    BY <1>2, <1>9
  <2> HIDE DEF S
  <2>2. batch \in Seq(S) /\ Len(batch) = n
    BY <2>1, FunctionIsSeq
  <2>3. QED
    BY <2>2 DEF Batches, S
<1>11. batch # <<>>
  BY <1>2, <1>10
<1>12. QED
  BY <1>2, <1>3, <1>6, <1>10, <1>11 DEF batch

LEMMA ForwardKeeps == ASSUME Inv, Forward PROVE Inv'
<1>1. PICK wish \in Wishes :
        /\ PagesNeeded(Gains(Placed(wish))) <= Cardinality(free)
        /\ request' = Placed(wish) /\ todo' = DOMAIN Placed(wish)
  BY DEF Forward
<1>2. /\ base' = length /\ pc' = "append" /\ UNCHANGED <<table, length, refs, data, free>>
      /\ length \in [Slots -> Nat]
  BY DEF Forward, Inv, PagesExact, kvVars
<1>3. PagesExact'
  BY <1>2 DEF Inv, PagesExact, Holders
<1>4. /\ request' \in Batches /\ request' # <<>> /\ todo' = 1..Len(request')
      /\ \A i \in DOMAIN request' :
           /\ request'[i].slot \in Slots
           /\ request'[i].position = length[request'[i].slot]
                                     + Cardinality(Earlier(request', request'[i].slot, i))
  BY <1>1, <1>2, WishIsPlaced
<1>5. BatchIsPlaced'
  BY <1>2, <1>4 DEF BatchIsPlaced
<1>6. OwnPages'
  BY <1>2 DEF OwnPages
<1>7. Cardinality(Pairs(Slots, Needs))' <= Cardinality(free')
  <2>1. \A s \in Slots : Needs'[s] = NeededForSlot(s, Gains(request')[s])
    <3> TAKE s \in Slots
    <3>1. Cardinality(Of(request', s)) \in Nat /\ length[s] \in Nat
      BY <1>2, <1>4, BatchCounts
    <3>2. Gains(request')[s] = Cardinality(Of(request', s))
      BY DEF Gains
    <3>3. length[s] + Cardinality(Of(request', s)) - length[s] = Gains(request')[s]
      BY <3>1, <3>2
    <3>4. Needs'[s] = NeededForSlot(s, base[s] + Count(s) - length[s])'
      BY DEF Needs
    <3>5. base'[s] + Count(s)' - length'[s] = Gains(request')[s]
      BY <1>2, <3>3 DEF Count
    <3>6. QED
      BY <1>2, <3>4, <3>5 DEF NeededForSlot, Copies, Partial, LastPage
  <2>2. Pairs(Slots, Needs)' = UNION {{s} \X (1..NeededForSlot(s, Gains(request')[s])) : s \in Slots}
    BY <2>1 DEF Pairs
  <2>3. QED
    BY <1>1, <1>2, <2>2 DEF PagesNeeded
<1>8. \A s \in Slots : length'[s] = base'[s] + Cardinality(Earlier(request, s, 1)')
  <2> TAKE s \in Slots
  <2>1. Cardinality(Earlier(request', s, 1)) = 0
    BY <1>4, BatchCounts
  <2>2. QED
    BY <1>2, <2>1 DEF Earlier, Of
<1>9. Appending'
  <2>1. Len(request') \in Nat
    BY <1>4, LenProperties DEF Batches
  <2>2. 1 \in 1..(Len(request') + 1)
    BY <2>1
  <2>3. QED
    BY <1>4, <1>7, <1>8, <2>2 DEF Appending
<1>10. QED
  BY <1>2, <1>3, <1>5, <1>6, <1>9 DEF Inv, Running

LEMMA AppendKeeps == ASSUME Inv, AppendNext PROVE Inv'
<1>1. /\ PagesExact /\ BatchIsPlaced /\ OwnPages /\ Appending /\ pc = "append" /\ todo # {}
      /\ UNCHANGED <<pc, request, base, context>>
  BY DEF AppendNext, Inv, Running
<1>2. PICK k \in 1..(Len(request) + 1) :
        /\ todo = k..Len(request)
        /\ \A t \in Slots : length[t] = base[t] + Cardinality(Earlier(request, t, k))
  BY <1>1 DEF Appending
<1>3. /\ request \in Batches /\ Len(request) \in Nat /\ DOMAIN request = 1..Len(request)
      /\ base \in [Slots -> Nat] /\ length \in [Slots -> Nat]
  BY <1>1, LenProperties DEF BatchIsPlaced, Batches, PagesExact
<1>4. k \in 1..Len(request) /\ k + 1 \in 1..(Len(request) + 1)
  BY <1>1, <1>2, <1>3
<1> DEFINE s == request[k].slot
<1>5. s \in Slots /\ k \in Of(request, s)
  BY <1>3, <1>4, BatchElement DEF Of
<1>6. AppendPosition(s) /\ todo' = (k + 1)..Len(request)
  <2>1. (CHOOSE j \in todo : \A x \in todo : j <= x) = k
    BY <1>2, <1>3, <1>4
  <2>2. todo \ {k} = (k + 1)..Len(request)
    BY <1>2, <1>3, <1>4
  <2>3. QED
    BY <2>1, <2>2 DEF AppendNext
<1> HIDE DEF s
<1>7. Appended(s)
  BY <1>1, <1>5, <1>6, AppendIsAppended
<1>8. /\ PagesExact' /\ length'[s] = length[s] + 1 /\ \A t \in Slots \ {s} : length'[t] = length[t]
  BY <1>3, <1>5, <1>7 DEF Appended
<1>9. ASSUME NEW t \in Slots
      PROVE  /\ base[t] + Count(t) >= length[t]
             /\ length'[t] = base[t] + Cardinality(Earlier(request, t, k + 1))
             /\ base[t] + Count(t) >= length'[t]
  <2>1. /\ Cardinality(Earlier(request, t, k)) \in Nat /\ Count(t) \in Nat
        /\ Cardinality(Earlier(request, t, k)) <= Count(t)
        /\ Cardinality(Earlier(request, t, k + 1)) <= Count(t)
        /\ Cardinality(Earlier(request, t, k + 1))
             = Cardinality(Earlier(request, t, k)) + (IF request[k].slot = t THEN 1 ELSE 0)
        /\ base[t] \in Nat
    BY <1>3, <1>4, BatchCounts DEF Count
  <2>2. CASE t = s
    <3>1. Cardinality(Earlier(request, t, k + 1)) = Cardinality(Earlier(request, t, k)) + 1
      BY <2>1, <2>2 DEF s
    <3>2. length'[t] = length[t] + 1 /\ length[t] = base[t] + Cardinality(Earlier(request, t, k))
      BY <1>2, <1>8, <2>2
    <3>3. QED
      BY <2>1, <3>1, <3>2
  <2>3. CASE t # s
    BY <1>2, <1>8, <2>1, <2>3 DEF s
  <2>4. QED
    BY <2>2, <2>3
<1>10. base[s] + Count(s) > length[s]
  <2>1. /\ Cardinality(Earlier(request, s, k)) < Count(s) /\ Count(s) \in Nat
        /\ Cardinality(Earlier(request, s, k)) \in Nat
    BY <1>3, <1>5, BatchCounts DEF Count
  <2>2. QED
    BY <1>2, <1>3, <1>5, <2>1
<1>11. Cardinality(Pairs(Slots, Needs))' <= Cardinality(free')
  <2>1. /\ Needs \in [Slots -> Nat] /\ Needs' \in [Slots -> Nat]
        /\ \A t \in Slots : Needs'[t] <= Needs[t]
        /\ NeedsPage(s) => Needs'[s] < Needs[s]
    BY <1>1, <1>5, <1>7, <1>9, <1>10, NeedsShrink
  <2>2. /\ Cardinality(Pairs(Slots, Needs')) <= Cardinality(Pairs(Slots, Needs))
        /\ NeedsPage(s) => Cardinality(Pairs(Slots, Needs')) < Cardinality(Pairs(Slots, Needs))
        /\ Cardinality(Pairs(Slots, Needs)) \in Nat /\ Cardinality(Pairs(Slots, Needs')) \in Nat
    BY <1>5, <2>1, FewerPairs, PairsAreFinite, PagedKVAssumption
  <2>3. Pairs(Slots, Needs)' = Pairs(Slots, Needs')
    BY DEF Pairs
  <2>4. Cardinality(Pairs(Slots, Needs)) <= Cardinality(free)
    BY <1>1 DEF Appending
  <2>5. IsFiniteSet(free) /\ Cardinality(free) \in Nat
    BY <1>1, PagedKVAssumption, FS_Subset, FS_CardinalityType DEF PagesExact
  <2>6. CASE NeedsPage(s)
    <3>1. PICK p \in free : free' = free \ {p}
      BY <1>7, <2>6 DEF Appended
    <3>2. Cardinality(free') = Cardinality(free) - 1
      BY <2>5, <3>1, OneLess
    <3>3. QED
      BY <2>2, <2>3, <2>4, <2>5, <2>6, <3>2
  <2>7. CASE ~NeedsPage(s)
    <3>1. free' = free
      BY <1>7, <2>7 DEF Appended
    <3>2. QED
      BY <2>2, <2>3, <2>4, <2>5, <3>1
  <2>8. QED
    BY <2>6, <2>7
<1>12. Appending'
  <2>1. \A t \in Slots : Earlier(request, t, k + 1)' = Earlier(request, t, k + 1)
    BY <1>1 DEF Earlier, Of
  <2>2. \A t \in Slots : length'[t] = base'[t] + Cardinality(Earlier(request, t, k + 1)')
    BY <1>1, <1>9, <2>1
  <2>3. QED
    BY <1>1, <1>4, <1>6, <1>11, <2>2 DEF Appending
<1>13. OwnPages'
  <2> SUFFICES ASSUME NEW t \in Slots, NEW q \in base[t]..(length'[t] - 1)
               PROVE  refs'[table'[t][PageOf(q)]] = 1
    BY <1>1 DEF OwnPages
  <2>1. base[t] \in Nat /\ length[t] \in Nat
    BY <1>3
  <2>2. CASE q \in base[t]..(length[t] - 1)
    <3>1. q \in 0..(length[t] - 1) /\ refs[table[t][PageOf(q)]] = 1
      BY <1>1, <2>1, <2>2 DEF OwnPages
    <3>2. QED
      BY <1>7, <3>1 DEF Appended
  <2>3. CASE q \notin base[t]..(length[t] - 1)
    <3>1. t = s /\ q = length[s]
      BY <1>5, <1>8, <2>1, <2>3
    <3>2. QED
      BY <1>7, <3>1 DEF Appended
  <2>4. QED
    BY <2>2, <2>3
<1>14. BatchIsPlaced'
  BY <1>1 DEF BatchIsPlaced, Earlier, Of
<1>15. QED
  BY <1>1, <1>8, <1>12, <1>13, <1>14 DEF Inv, Running

LEMMA ComputeKeeps == ASSUME Inv, Compute PROVE Inv'
<1>1. /\ PagesExact /\ BatchIsPlaced /\ OwnPages /\ Appending /\ pc' = "store" /\ todo = {}
      /\ todo' = DOMAIN request /\ UNCHANGED <<request, base, table, length, refs, data, free>>
  BY DEF Compute, Inv, Running, kvVars
<1>2. request \in Batches /\ Len(request) \in Nat /\ DOMAIN request = 1..Len(request)
  BY <1>1, LenProperties DEF BatchIsPlaced, Batches
<1>3. PICK k \in 1..(Len(request) + 1) :
        /\ todo = k..Len(request)
        /\ \A t \in Slots : length[t] = base[t] + Cardinality(Earlier(request, t, k))
  BY <1>1 DEF Appending
<1>4. k = Len(request) + 1
  <2>1. k \in Nat /\ k <= Len(request) + 1 /\ k \notin todo
    BY <1>1, <1>2
  <2>2. QED
    BY <1>2, <1>3, <2>1
<1>5. \A t \in Slots : length[t] = base[t] + Count(t)
  BY <1>2, <1>3, <1>4, BatchCounts DEF Count
<1>6. Storing'
  BY <1>1, <1>5 DEF Storing, Count, Of
<1>7. PagesExact' /\ BatchIsPlaced' /\ OwnPages'
  BY <1>1 DEF PagesExact, Holders, BatchIsPlaced, OwnPages, Earlier, Of
<1>8. QED
  BY <1>1, <1>6, <1>7 DEF Inv, Running

\* Where an input goes: below the length that the appends have led to, and
\* where no other input goes.
LEMMA InputsApart ==
  ASSUME BatchIsPlaced, length \in [Slots -> Nat], \A t \in Slots : length[t] = base[t] + Count(t),
         NEW i \in DOMAIN request
  PROVE  /\ request[i].slot \in Slots /\ request[i].token \in Tokens
         /\ request[i].position \in base[request[i].slot]..(length[request[i].slot] - 1)
         /\ base[request[i].slot] \in Nat
         /\ \A j \in DOMAIN request :
              request[j].slot = request[i].slot /\ request[j].position = request[i].position => j = i
<1> DEFINE s == request[i].slot
<1>1. request \in Batches /\ Len(request) \in Nat /\ DOMAIN request = 1..Len(request)
  BY LenProperties DEF BatchIsPlaced, Batches
<1>2. s \in Slots /\ i \in Of(request, s) /\ request[i].token \in Tokens
  BY <1>1, BatchElement DEF Of
<1>3. base[s] \in Nat /\ length[s] \in Nat
  BY <1>2 DEF BatchIsPlaced
<1>4. \A j \in Of(request, s) : request[j].position = base[s] + Cardinality(Earlier(request, s, j))
  BY <1>1 DEF BatchIsPlaced, Of
<1> HIDE DEF s
<1>5. /\ \A k : Cardinality(Earlier(request, s, k)) \in Nat
      /\ Cardinality(Earlier(request, s, i)) < Count(s) /\ Count(s) \in Nat
      /\ \A j, k \in Of(request, s) :
           j < k => Cardinality(Earlier(request, s, j)) < Cardinality(Earlier(request, s, k))
  BY <1>1, <1>2, BatchCounts DEF Count
<1>6. request[i].position \in base[s]..(length[s] - 1)
  BY <1>2, <1>3, <1>4, <1>5
<1>7. ASSUME NEW j \in Of(request, s), request[j].position = request[i].position PROVE j = i
  <2>1. i \in Nat /\ j \in Nat
    BY <1>1, <1>2 DEF Of
  <2>2. Cardinality(Earlier(request, s, j)) = Cardinality(Earlier(request, s, i))
    BY <1>2, <1>3, <1>4, <1>5, <1>7
  <2>3. ~(i < j) /\ ~(j < i)
    BY <1>2, <1>5, <2>2
  <2>4. QED
    BY <2>1, <2>3
<1>8. QED
  BY <1>2, <1>3, <1>6, <1>7 DEF s, Of

LEMMA StoreKeeps == ASSUME Inv, Store PROVE Inv'
<1>1. /\ PagesExact /\ BatchIsPlaced /\ OwnPages /\ Storing /\ pc = "store"
      /\ UNCHANGED <<pc, request, base, context>> /\ length \in [Slots -> Nat]
  BY DEF Store, Inv, Running, PagesExact
<1>2. PICK i \in todo : /\ Exclusive(i) /\ todo' = todo \ {i}
                        /\ StorePosition(request[i].slot, request[i].position, request[i].token)
  BY DEF Store
<1> DEFINE s == request[i].slot
           q == request[i].position
<1>3. UNCHANGED <<table, length, refs, free>>
  BY <1>2 DEF StorePosition
<1>4. i \in DOMAIN request /\ todo \subseteq DOMAIN request /\ \A t \in Slots : length[t] = base[t] + Count(t)
  BY <1>1 DEF Storing
<1>5. /\ s \in Slots /\ request[i].token \in Tokens /\ q \in 0..(length[s] - 1)
      /\ \A j \in DOMAIN request \ {i} : ~(request[j].slot = s /\ request[j].position = q)
  BY <1>1, <1>4, InputsApart
<1>6. refs[table[s][PageOf(q)]] = 1
  BY <1>2 DEF Exclusive, PageAt, PageOf
<1>7. /\ PagesExact'
      /\ data'[table[s][PageOf(q)]][q % PageTokens] = request[i].token
      /\ \A t \in Slots : \A x \in 0..(length[t] - 1) :
           ~(t = s /\ x = q) => data'[table[t][PageOf(x)]][x % PageTokens]
                                  = data[table[t][PageOf(x)]][x % PageTokens]
  BY <1>1, <1>2, <1>5, <1>6, StoreKeepsPages
<1>8. ASSUME NEW j \in DOMAIN request \ todo'
      PROVE  data'[PageAt(request[j].slot, request[j].position)'][request[j].position % PageTokens]
               = request[j].token
  <2>1. PageAt(request[j].slot, request[j].position)' = table[request[j].slot][PageOf(request[j].position)]
    BY <1>1, <1>3 DEF PageAt, PageOf
  <2>2. CASE j = i
    BY <1>7, <2>1, <2>2
  <2>3. CASE j # i
    <3>1. request[j].slot \in Slots /\ request[j].position \in 0..(length[request[j].slot] - 1)
      BY <1>1, <1>4, InputsApart
    <3>2. data[table[request[j].slot][PageOf(request[j].position)]][request[j].position % PageTokens]
            = request[j].token
      BY <1>1, <1>2, <2>3 DEF Storing, PageAt, PageOf
    <3>3. QED
      BY <1>5, <1>7, <2>1, <2>3, <3>1, <3>2
  <2>4. QED
    BY <2>2, <2>3
<1>9. Storing'
  <2>1. todo' \subseteq DOMAIN request' /\ \A t \in Slots : length'[t] = base'[t] + Count(t)'
    BY <1>1, <1>2, <1>3, <1>4 DEF Count, Of
  <2>2. QED
    BY <1>1, <1>8, <2>1 DEF Storing
<1>10. BatchIsPlaced' /\ OwnPages'
  BY <1>1, <1>3 DEF BatchIsPlaced, OwnPages, Earlier, Of
<1>11. QED
  BY <1>1, <1>7, <1>9, <1>10 DEF Inv, Running

LEMMA InvStays == Inv /\ [Next]_vars => Inv'
<1> SUFFICES ASSUME Inv, [Next]_vars PROVE Inv'
  OBVIOUS
<1>1. CASE Reject
  BY <1>1, ReturnKeeps DEF Inv, Reject
<1>2. CASE Forward
  BY <1>2, ForwardKeeps
<1>3. CASE AppendNext
  BY <1>3, AppendKeeps
<1>4. CASE Compute
  BY <1>4, ComputeKeeps
<1>5. CASE Store
  BY <1>5, StoreKeeps
<1>6. CASE Attend
  <2>1. PICK read : Return(read)
    BY <1>6 DEF Attend
  <2>2. QED
    BY <1>6, <2>1, ReturnKeeps DEF Inv, Attend
<1>7. CASE Fail
  BY <1>7, ReturnKeeps DEF Inv, Fail
<1>8. CASE Share
  <2>0. PICK s \in Slots, t \in Slots : \E n \in 0..length[s] : SharePrefix(s, t, n)
    BY <1>8 DEF Share
  <2>1. PICK n \in 0..length[s] : SharePrefix(s, t, n)
    BY <2>0
  <2>2. n \in Nat /\ pc' = "idle"
    BY <1>8 DEF Inv, PagesExact, Share, hostVars
  <2>3. PagesExact'
    BY <2>1, <2>2, ShareKeepsPages DEF Inv
  <2>4. QED
    BY <2>2, <2>3 DEF Inv, Running
<1>9. CASE ClearSequence
  <2>1. PICK s \in Slots : Clear(s)
    BY <1>9 DEF ClearSequence
  <2>2. PagesExact'
    BY <2>1, ClearKeepsPages DEF Inv
  <2>3. pc' = "idle"
    BY <1>9 DEF ClearSequence, hostVars
  <2>4. QED
    BY <2>2, <2>3 DEF Inv, Running
<1>10. CASE UNCHANGED vars
  <2>1. UNCHANGED <<table, length, refs, data, free, pc, request, base, todo, context>>
    BY <1>10 DEF vars, kvVars, hostVars
  <2>2. PagesExact'
    BY <2>1 DEF Inv, PagesExact, Holders
  <2>3. BatchIsPlaced' <=> BatchIsPlaced
    BY <2>1 DEF BatchIsPlaced, Earlier, Of
  <2>4. OwnPages' <=> OwnPages
    BY <2>1 DEF OwnPages
  <2>5. Appending' <=> Appending
    BY <2>1 DEF Appending, Earlier, Of, Needs, Count, NeededForSlot, Copies, Partial, LastPage, Pairs
  <2>6. Storing' <=> Storing
    BY <2>1 DEF Storing, Count, Of, PageAt
  <2>7. QED
    BY <2>1, <2>2, <2>3, <2>4, <2>5, <2>6 DEF Inv, Running
<1>11. QED
  BY <1>1, <1>2, <1>3, <1>4, <1>5, <1>6, <1>7, <1>8, <1>9, <1>10 DEF Next

LEMMA InvHolds == Spec => []Inv
<1>1. QED
  BY InvStarts, InvStays, PTL DEF Spec

-----------------------------------------------------------------------------
(***************************************************************************)
(* What a forward checked in advance suffices.                             *)
(***************************************************************************)
LEMMA InvIsCovered == Inv => ForwardIsCovered
<1> SUFFICES ASSUME Inv PROVE ForwardIsCovered
  OBVIOUS
<1>1. ASSUME pc = "append", todo # {},
             NeedsPage(request[CHOOSE j \in todo : \A x \in todo : j <= x].slot)
      PROVE  free # {}
  <2>1. PagesExact /\ BatchIsPlaced /\ Appending
    BY <1>1 DEF Inv, Running
  <2>2. PICK k \in 1..(Len(request) + 1) :
          /\ todo = k..Len(request)
          /\ \A t \in Slots : length[t] = base[t] + Cardinality(Earlier(request, t, k))
    BY <2>1 DEF Appending
  <2>3. /\ request \in Batches /\ Len(request) \in Nat /\ DOMAIN request = 1..Len(request)
        /\ base \in [Slots -> Nat]
    BY <2>1, LenProperties DEF BatchIsPlaced, Batches
  <2>4. k \in 1..Len(request)
    BY <1>1, <2>2, <2>3
  <2> DEFINE s == request[k].slot
  <2>5. s \in Slots /\ k \in Of(request, s)
    BY <2>3, <2>4, BatchElement DEF Of
  <2>6. NeedsPage(s)
    <3>1. (CHOOSE j \in todo : \A x \in todo : j <= x) = k
      BY <2>2, <2>3, <2>4
    <3>2. QED
      BY <1>1, <3>1
  <2> HIDE DEF s
  <2>7. ASSUME NEW t \in Slots PROVE base[t] + Count(t) >= length[t] /\ Needs[t] \in Nat
    <3>1. /\ Cardinality(Earlier(request, t, k)) \in Nat /\ Count(t) \in Nat /\ base[t] \in Nat
          /\ Cardinality(Earlier(request, t, k)) <= Count(t)
      BY <2>3, BatchCounts DEF Count
    <3>2. base[t] + Count(t) >= length[t]
      BY <2>2, <3>1
    <3>3. QED
      BY <2>1, <3>2, NeedsOf
  <2>8. base[s] + Count(s) > length[s]
    <3>1. /\ Cardinality(Earlier(request, s, k)) < Count(s) /\ Count(s) \in Nat
          /\ Cardinality(Earlier(request, s, k)) \in Nat /\ base[s] \in Nat
      BY <2>3, <2>5, BatchCounts DEF Count
    <3>2. QED
      BY <2>2, <2>5, <3>1
  <2>9. Needs[s] > 0
    BY <2>1, <2>5, <2>6, <2>7, <2>8, NeedsOf
  <2>10. <<s, 1>> \in Pairs(Slots, Needs)
    BY <2>5, <2>7, <2>9 DEF Pairs
  <2>11. Needs \in [Slots -> Nat]
    BY <2>7 DEF Needs
  <2>12. Cardinality(Pairs(Slots, Needs)) \in Nat \ {0}
    BY <2>10, <2>11, PairsAreFinite, PagedKVAssumption, FS_EmptySet
  <2>13. ASSUME free = {} PROVE FALSE
    <3>1. Cardinality(free) = 0 /\ Cardinality(Pairs(Slots, Needs)) <= Cardinality(free)
      BY <2>1, <2>13, FS_EmptySet DEF Appending
    <3>2. QED
      BY <2>12, <3>1
  <2>14. QED
    BY <2>13
<1>2. ASSUME pc = "store", NEW i \in todo PROVE Exclusive(i)
  <2>1. BatchIsPlaced /\ OwnPages /\ Storing /\ length \in [Slots -> Nat]
    BY <1>2 DEF Inv, Running, PagesExact
  <2>2. i \in DOMAIN request /\ \A t \in Slots : length[t] = base[t] + Count(t)
    BY <1>2, <2>1 DEF Storing
  <2>3. /\ request[i].slot \in Slots
        /\ request[i].position \in base[request[i].slot]..(length[request[i].slot] - 1)
    BY <2>1, <2>2, InputsApart
  <2>4. QED
    BY <2>1, <2>3 DEF OwnPages, Exclusive, PageAt, PageOf
<1>3. QED
  BY <1>1, <1>2 DEF ForwardIsCovered

\* The pages know exactly how many sequences hold them, and the free ones are
\* those that no sequence holds: PagedKV's refs and free list.
THEOREM RefsExact == Spec => []RefsAreExact
<1>1. Inv => RefsAreExact
  BY PagesExactIsRefsExact DEF Inv
<1>2. QED
  BY <1>1, InvHolds, PTL

\* forward() checks its batch against the free pages once, and neither an
\* append in the middle of it runs out of pages nor a store meets a page that
\* another sequence shares.
THEOREM Covered == Spec => []ForwardIsCovered
<1>1. QED
  BY InvIsCovered, InvHolds, PTL

-----------------------------------------------------------------------------
(***************************************************************************)
(* The runtime is a store of sequences that do not disturb each other.     *)
(***************************************************************************)
Read(s, q) == data[table[s][PageOf(q)]][q % PageTokens]
Cells == Tokens \cup {Junk}

Sure(s) == IF pc = "idle" THEN length[s] ELSE base[s]
Kv == [s \in Slots |-> Held(s, Sure(s))]
Asked == IF pc = "idle" THEN Nothing
         ELSE [s \in Slots |-> [n \in 1..Cardinality(Of(request, s)) |-> InputAt(s, base[s] + n - 1).token]]

\* What a sequence holds, as what is read at its positions.
LEMMA HeldIsRead == \A s, n : Held(s, n) = [k \in 1..n |-> Read(s, k - 1)]
  BY DEF Held, Read, PageAt, PageOf

LEMMA ReadIsCell ==
  ASSUME PagesExact, NEW s \in Slots, NEW q \in 0..(length[s] - 1) PROVE Read(s, q) \in Cells
<1>1. table[s][PageOf(q)] \in Pages /\ q % PageTokens \in Offsets
  BY HeldPages
<1>2. data[table[s][PageOf(q)]] \in Contents
  BY <1>1 DEF PagesExact
<1>3. QED
  BY <1>1, <1>2 DEF Contents, Cells, Read

LEMMA HeldIsSeq ==
  ASSUME PagesExact, NEW s \in Slots, NEW n \in 0..length[s]
  PROVE  /\ Held(s, n) \in [1..n -> Cells] /\ Held(s, n) \in Seq(Cells) /\ Len(Held(s, n)) = n
         /\ \A k \in 1..n : Held(s, n)[k] = Read(s, k - 1)
<1>1. length[s] \in Nat /\ n \in Nat
  BY DEF PagesExact
<1>2. \A k \in 1..n : k - 1 \in 0..(length[s] - 1)
  BY <1>1
<1>3. Held(s, n) \in [1..n -> Cells]
  BY <1>2, HeldIsRead, ReadIsCell
<1>4. QED
  BY <1>1, <1>3, HeldIsRead, FunctionIsSeq

\* Each position that a batch adds to a sequence has its input.
LEMMA EveryPosition ==
  ASSUME BatchIsPlaced, NEW s \in Slots, NEW q \in base[s]..(base[s] + Count(s) - 1)
  PROVE  InputAt(s, q) \in {request[i] : i \in {j \in Of(request, s) : request[j].position = q}}
<1>1. request \in Batches /\ base[s] \in Nat
  BY DEF BatchIsPlaced
<1>2. /\ \A i \in Of(request, s) : /\ Cardinality(Earlier(request, s, i)) \in Nat
                                   /\ Cardinality(Earlier(request, s, i)) < Count(s)
      /\ \A i, j \in Of(request, s) :
           i < j => Cardinality(Earlier(request, s, i)) < Cardinality(Earlier(request, s, j))
      /\ Count(s) \in Nat
  BY <1>1, BatchCounts DEF Count
<1> DEFINE f == [i \in Of(request, s) |-> Cardinality(Earlier(request, s, i))]
           T == 0..(Count(s) - 1)
<1>3. f \in [Of(request, s) -> T]
  BY <1>2
<1>4. ASSUME NEW i \in Of(request, s), NEW j \in Of(request, s), f[i] = f[j] PROVE i = j
  <2>1. i \in Nat /\ j \in Nat
    BY <1>1, LenProperties DEF Of, Batches
  <2>2. ~(i < j) /\ ~(j < i)
    BY <1>2, <1>4
  <2>3. QED
    BY <2>1, <2>2
<1>5. IsFiniteSet(T) /\ Cardinality(T) = Cardinality(Of(request, s))
  <2>1. 0 \in Int /\ Count(s) - 1 \in Int
    BY <1>2
  <2>2. IsFiniteSet(T) /\ Cardinality(T) = IF 0 > Count(s) - 1 THEN 0 ELSE (Count(s) - 1) - 0 + 1
    BY <2>1, FS_Interval
  <2>3. Cardinality(T) = Count(s)
    BY <1>2, <2>2
  <2>4. QED
    BY <2>2, <2>3 DEF Count
<1>6. q - base[s] \in T
  BY <1>1, <1>2
<1> HIDE DEF f, T
<1>7. PICK i \in Of(request, s) : f[i] = q - base[s]
  BY <1>3, <1>4, <1>5, <1>6, NothingLeftOut
<1>8. request[i].position = q
  <2>1. request[i].position = base[s] + f[i]
    BY DEF BatchIsPlaced, Of, f
  <2>2. f[i] \in Nat
    BY <1>2 DEF f
  <2>3. QED
    BY <1>1, <1>2, <1>7, <2>1
<1>9. QED
  BY <1>8 DEF InputAt

\* The abstract actions, in the runtime's terms.
LEMMA AbstractActions ==
  /\ SharedStore!Init <=> Kv = [s \in Slots |-> <<>>] /\ Asked = Nothing /\ context = Nothing
  /\ SharedStore!Ask <=> /\ Asked = Nothing /\ Asked' # Nothing
                         /\ \E s \in Slots : Asked'[s] # <<>>
                         /\ context' = Nothing /\ Kv' = Kv
  /\ SharedStore!Answer <=> /\ Asked # Nothing
                            /\ Kv' = [s \in Slots |-> Kv[s] \o Asked[s]]
                            /\ context' = [s \in {t \in Slots : Asked[t] # <<>>} |-> Kv'[s]]
                            /\ Asked' = Nothing
  /\ SharedStore!Refuse <=> Asked = Nothing /\ context' = Nothing /\ Kv' = Kv /\ Asked' = Asked
  /\ SharedStore!Fail <=> /\ Asked # Nothing /\ Asked' = Nothing /\ context' = Nothing
                          /\ \A s \in Slots :
                               /\ Len(Kv'[s]) \in Len(Kv[s])..(Len(Kv[s]) + Len(Asked[s]))
                               /\ SubSeq(Kv'[s], 1, Len(Kv[s])) = Kv[s]
  /\ SharedStore!Share <=> /\ Asked = Nothing
                           /\ \E s, t \in Slots : \E n \in 0..Len(Kv[s]) :
                                s # t /\ Kv' = [Kv EXCEPT ![t] = SubSeq(Kv[s], 1, n)]
                           /\ Asked' = Asked /\ context' = context
  /\ SharedStore!Clear <=> /\ Asked = Nothing
                           /\ \E s \in Slots : Kv' = [Kv EXCEPT ![s] = <<>>]
                           /\ Asked' = Asked /\ context' = context
  /\ UNCHANGED SharedStore!vars <=> Kv' = Kv /\ Asked' = Asked /\ context' = context
  BY DEF SharedStore!Init, SharedStore!Ask, SharedStore!Answer, SharedStore!Refuse, SharedStore!Fail,
         SharedStore!Share, SharedStore!Clear, SharedStore!vars, SharedStore!Idle, Nothing, Kv, Asked, Sure

\* What is asked of the store while a forward runs.
LEMMA AskedIs ==
  ASSUME BatchIsPlaced, pc # "idle"
  PROVE  /\ Asked # Nothing
         /\ \A s \in Slots : /\ Asked[s] \in [1..Count(s) -> Cells]
                             /\ \A n \in 1..Count(s) : Asked[s][n] = InputAt(s, base[s] + n - 1).token
                             /\ Asked[s] \in Seq(Cells) /\ Len(Asked[s]) = Count(s) /\ Count(s) \in Nat
                             /\ Asked[s] # <<>> <=> Of(request, s) # {}
<1>1. Asked = [s \in Slots |-> [n \in 1..Count(s) |-> InputAt(s, base[s] + n - 1).token]]
  BY DEF Asked, Count
<1>2. Asked # Nothing
  <2>1. DOMAIN Asked = Slots /\ DOMAIN Nothing = {}
    BY <1>1 DEF Nothing
  <2>2. QED
    BY <2>1, PagedKVAssumption
<1>3. ASSUME NEW s \in Slots
      PROVE  /\ Asked[s] \in [1..Count(s) -> Cells]
             /\ \A n \in 1..Count(s) : Asked[s][n] = InputAt(s, base[s] + n - 1).token
             /\ Asked[s] \in Seq(Cells) /\ Len(Asked[s]) = Count(s) /\ Count(s) \in Nat
             /\ Asked[s] # <<>> <=> Of(request, s) # {}
  <2>1. request \in Batches /\ base[s] \in Nat
    BY DEF BatchIsPlaced
  <2>2. IsFiniteSet(Of(request, s)) /\ Count(s) \in Nat
    BY <2>1, BatchCounts DEF Count
  <2>3. ASSUME NEW n \in 1..Count(s) PROVE InputAt(s, base[s] + n - 1).token \in Cells
    <3>1. base[s] + n - 1 \in base[s]..(base[s] + Count(s) - 1)
      BY <2>1, <2>2
    <3>2. PICK i \in Of(request, s) : InputAt(s, base[s] + n - 1) = request[i]
      BY <3>1, EveryPosition
    <3>3. request[i].token \in Tokens
      BY <2>1, BatchElement DEF Of
    <3>4. QED
      BY <3>2, <3>3 DEF Cells
  <2>4. Asked[s] = [n \in 1..Count(s) |-> InputAt(s, base[s] + n - 1).token]
    BY <1>1
  <2>5. Asked[s] \in [1..Count(s) -> Cells]
    BY <2>3, <2>4
  <2>6. Asked[s] \in Seq(Cells) /\ Len(Asked[s]) = Count(s)
    BY <2>2, <2>5, FunctionIsSeq
  <2>7. Asked[s] # <<>> <=> Count(s) # 0
    BY <2>6, EmptySeq
  <2>8. Count(s) = 0 <=> Of(request, s) = {}
    BY <2>2, FS_EmptySet DEF Count
  <2>9. QED
    BY <2>2, <2>4, <2>5, <2>6, <2>7, <2>8
<1>4. QED
  BY <1>2, <1>3

LEMMA ForwardAsks == ASSUME Inv, Forward PROVE SharedStore!Ask
<1>1. PICK wish \in Wishes : request' = Placed(wish)
  BY DEF Forward
<1>2. /\ base' = length /\ pc = "idle" /\ pc' = "append" /\ context' = Nothing
      /\ UNCHANGED <<table, length, refs, data, free>> /\ length \in [Slots -> Nat]
  BY DEF Forward, Inv, PagesExact, kvVars
<1>3. Kv' = Kv
  BY <1>2 DEF Kv, Sure, Held, PageAt
<1>4. Asked' = [s \in Slots |-> [n \in 1..Cardinality(Of(request', s)) |-> InputAt(s, base[s] + n - 1)'.token]]
  BY <1>2 DEF Asked
<1>5. Asked' # Nothing
  <2>1. DOMAIN Asked' = Slots /\ DOMAIN Nothing = {}
    BY <1>4 DEF Nothing
  <2>2. QED
    BY <2>1, PagedKVAssumption
<1>6. request' \in Batches /\ request' # <<>>
  BY <1>1, <1>2, WishIsPlaced
<1>7. 1 \in DOMAIN request'
  BY <1>6, LenProperties, EmptySeq DEF Batches
<1> DEFINE s == request'[1].slot
<1>8. s \in Slots /\ 1 \in Of(request', s)
  BY <1>6, <1>7, BatchElement DEF Of
<1> HIDE DEF s
<1>9. Cardinality(Of(request', s)) \in Nat \ {0}
  BY <1>6, <1>8, BatchCounts, FS_EmptySet
<1>10. 1 \in DOMAIN Asked'[s]
  BY <1>4, <1>8, <1>9
<1>11. Asked'[s] # <<>>
  BY <1>10
<1>12. Asked = Nothing
  BY <1>2 DEF Asked
<1>13. QED
  BY <1>2, <1>3, <1>5, <1>8, <1>11, <1>12, AbstractActions

\* While a forward runs, the store is what it was when it began.
LEMMA RunningStutters ==
  ASSUME pc # "idle", pc' # "idle", UNCHANGED <<request, base, context>>,
         base \in [Slots -> Nat],
         \A s \in Slots : \A q \in 0..(base[s] - 1) : Read(s, q)' = Read(s, q)
  PROVE  UNCHANGED SharedStore!vars
<1>1. Asked' = Asked
  BY DEF Asked, InputAt, Of
<1>2. ASSUME NEW s \in Slots PROVE Held(s, base[s])' = Held(s, base[s])
  <2>1. \A k \in 1..base[s] : Read(s, k - 1)' = Read(s, k - 1)
    <3> TAKE k \in 1..base[s]
    <3>1. k - 1 \in 0..(base[s] - 1)
      OBVIOUS
    <3> DEFINE q == k - 1
    <3>2. Read(s, q)' = Read(s, q)
      BY <3>1
    <3>3. QED
      BY <3>2
  <2>2. Held(s, base[s])' = [k \in 1..base[s] |-> Read(s, k - 1)']
    BY DEF Held, Read, PageAt, PageOf
  <2>3. QED
    BY <2>1, <2>2, HeldIsRead
<1>3. Kv' = Kv
  BY <1>2 DEF Kv, Sure
<1>4. QED
  BY <1>1, <1>3, AbstractActions

\* Where the lengths stand while a forward runs.
LEMMA Lengths ==
  ASSUME Inv, pc # "idle", NEW s \in Slots
  PROVE  /\ base[s] \in Nat /\ length[s] \in Nat /\ Count(s) \in Nat
         /\ base[s] <= length[s] /\ length[s] <= base[s] + Count(s)
<1>1. /\ request \in Batches /\ base[s] \in Nat /\ length[s] \in Nat
  BY DEF Inv, PagesExact, Running, BatchIsPlaced
<1>2. Count(s) \in Nat /\ \A k : /\ Cardinality(Earlier(request, s, k)) \in Nat
                                 /\ Cardinality(Earlier(request, s, k)) <= Count(s)
  BY <1>1, BatchCounts DEF Count
<1>3. CASE pc = "append"
  <2>1. PICK k : length[s] = base[s] + Cardinality(Earlier(request, s, k))
    BY <1>3 DEF Inv, Running, Appending
  <2>2. QED
    BY <1>1, <1>2, <2>1
<1>4. CASE pc = "store"
  BY <1>1, <1>2, <1>4 DEF Inv, Running, Storing
<1>5. QED
  BY <1>1, <1>3, <1>4 DEF Inv, Running

LEMMA AppendStutters == ASSUME Inv, AppendNext PROVE UNCHANGED SharedStore!vars
<1>1. /\ PagesExact /\ BatchIsPlaced /\ Appending /\ pc = "append" /\ todo # {}
      /\ UNCHANGED <<pc, request, base, context>>
  BY DEF AppendNext, Inv, Running
<1>2. PICK i \in DOMAIN request : AppendPosition(request[i].slot)
  <2>1. PICK k \in 1..(Len(request) + 1) : todo = k..Len(request)
    BY <1>1 DEF Appending
  <2>2. Len(request) \in Nat /\ DOMAIN request = 1..Len(request)
    BY <1>1, LenProperties DEF BatchIsPlaced, Batches
  <2>3. (CHOOSE j \in todo : \A x \in todo : j <= x) = k /\ k \in DOMAIN request
    BY <1>1, <2>1, <2>2
  <2>4. QED
    BY <2>3 DEF AppendNext
<1>3. request[i].slot \in Slots
  BY <1>1, <1>2, BatchElement DEF BatchIsPlaced
<1>4. Appended(request[i].slot)
  BY <1>1, <1>2, <1>3, AppendIsAppended
<1>5. ASSUME NEW s \in Slots, NEW q \in 0..(base[s] - 1) PROVE Read(s, q)' = Read(s, q)
  <2>1. q \in 0..(length[s] - 1)
    BY <1>1, Lengths
  <2>2. QED
    BY <1>4, <2>1 DEF Appended, Read
<1>6. QED
  BY <1>1, <1>5, RunningStutters DEF BatchIsPlaced

LEMMA StoreStutters == ASSUME Inv, Store PROVE UNCHANGED SharedStore!vars
<1>1. /\ PagesExact /\ BatchIsPlaced /\ OwnPages /\ Storing /\ pc = "store"
      /\ UNCHANGED <<pc, request, base, context>> /\ length \in [Slots -> Nat]
  BY DEF Store, Inv, Running, PagesExact
<1>2. PICK i \in todo : /\ Exclusive(i)
                        /\ StorePosition(request[i].slot, request[i].position, request[i].token)
  BY DEF Store
<1>3. /\ i \in DOMAIN request /\ \A t \in Slots : length[t] = base[t] + Count(t)
      /\ table' = table
  BY <1>1, <1>2 DEF Storing, StorePosition
<1> DEFINE s == request[i].slot
           q == request[i].position
<1>4. /\ s \in Slots /\ request[i].token \in Tokens /\ q \in base[s]..(length[s] - 1)
      /\ q \in 0..(length[s] - 1) /\ base[s] \in Nat
  BY <1>1, <1>3, InputsApart
<1>5. refs[table[s][PageOf(q)]] = 1
  BY <1>2 DEF Exclusive, PageAt, PageOf
<1>6. \A t \in Slots : \A x \in 0..(length[t] - 1) :
        ~(t = s /\ x = q) => data'[table[t][PageOf(x)]][x % PageTokens]
                               = data[table[t][PageOf(x)]][x % PageTokens]
  BY <1>1, <1>2, <1>4, <1>5, StoreKeepsPages
<1> HIDE DEF s, q
<1>7. ASSUME NEW t \in Slots, NEW x \in 0..(base[t] - 1) PROVE Read(t, x)' = Read(t, x)
  <2>1. x \in 0..(length[t] - 1) /\ ~(t = s /\ x = q)
    BY <1>1, <1>4, Lengths
  <2>2. QED
    BY <1>3, <1>6, <2>1 DEF Read
<1>8. QED
  BY <1>1, <1>7, RunningStutters DEF BatchIsPlaced

LEMMA ComputeStutters == ASSUME Inv, Compute PROVE UNCHANGED SharedStore!vars
<1>1. /\ pc = "append" /\ pc' = "store" /\ UNCHANGED <<request, base, context>> /\ UNCHANGED <<table, data>>
      /\ base \in [Slots -> Nat]
  BY DEF Compute, kvVars, Inv, Running, BatchIsPlaced
<1>2. \A s, q : Read(s, q)' = Read(s, q)
  BY <1>1 DEF Read
<1>3. QED
  BY <1>1, <1>2, RunningStutters

LEMMA AttendAnswers == ASSUME Inv, Attend PROVE SharedStore!Answer
<1>1. /\ PagesExact /\ BatchIsPlaced /\ Storing /\ pc = "store" /\ todo = {} /\ pc' = "idle"
      /\ UNCHANGED <<table, length, refs, data, free>>
      /\ context' = [s \in {t \in Slots : Of(request, t) # {}} |-> Held(s, length[s])]
  BY DEF Attend, AllStored, Return, Inv, Running, kvVars
<1>2. /\ Asked # Nothing
      /\ \A s \in Slots : /\ Asked[s] \in [1..Count(s) -> Cells] /\ Count(s) \in Nat
                          /\ \A n \in 1..Count(s) : Asked[s][n] = InputAt(s, base[s] + n - 1).token
                          /\ Asked[s] \in Seq(Cells) /\ Len(Asked[s]) = Count(s)
                          /\ Asked[s] # <<>> <=> Of(request, s) # {}
  BY <1>1, AskedIs
<1>3. Asked' = Nothing
  BY <1>1 DEF Asked
<1>4. Kv = [s \in Slots |-> Held(s, base[s])] /\ Kv' = [s \in Slots |-> Held(s, length[s])]
  BY <1>1 DEF Kv, Sure, Held, PageAt
<1>5. ASSUME NEW s \in Slots PROVE Held(s, length[s]) = Held(s, base[s]) \o Asked[s]
  <2>1. base[s] \in Nat /\ Count(s) \in Nat /\ length[s] = base[s] + Count(s)
    BY <1>1, Lengths DEF Storing
  <2>2. base[s] \in 0..length[s] /\ length[s] \in 0..length[s]
    BY <2>1
  <2>3. /\ Held(s, base[s]) \in [1..base[s] -> Cells] /\ Held(s, length[s]) \in [1..length[s] -> Cells]
        /\ \A k \in 1..base[s] : Held(s, base[s])[k] = Read(s, k - 1)
        /\ \A k \in 1..length[s] : Held(s, length[s])[k] = Read(s, k - 1)
    BY <1>1, <2>2, HeldIsSeq
  <2>4. \A k \in 1..base[s] : Held(s, length[s])[k] = Held(s, base[s])[k]
    BY <2>1, <2>3
  <2>5. ASSUME NEW k \in 1..Count(s) PROVE Held(s, length[s])[base[s] + k] = Asked[s][k]
    <3> DEFINE q == base[s] + k - 1
    <3>1. q \in base[s]..(base[s] + Count(s) - 1) /\ base[s] + k \in 1..length[s]
      BY <2>1
    <3>2. PICK i \in Of(request, s) : request[i].position = q /\ InputAt(s, q) = request[i]
      BY <1>1, <3>1, EveryPosition
    <3>3. i \in DOMAIN request /\ request[i].slot = s
      BY DEF Of
    <3>4. Read(s, q) = request[i].token
      BY <1>1, <3>2, <3>3 DEF Storing, Read, PageAt, PageOf
    <3>5. Held(s, length[s])[base[s] + k] = Read(s, q)
      <4>1. PICK m \in 1..length[s] : m = base[s] + k
        BY <3>1
      <4>2. m - 1 = q
        BY <2>1, <4>1
      <4>3. Held(s, length[s])[m] = Read(s, m - 1)
        BY <2>3
      <4>4. QED
        BY <4>1, <4>2, <4>3
    <3>6. QED
      BY <1>2, <3>2, <3>4, <3>5
  <2> DEFINE a == Held(s, base[s])
             b == Asked[s]
             c == Held(s, length[s])
  <2>6. a \in Seq(Cells) /\ Len(a) = base[s] /\ c \in Seq(Cells) /\ Len(c) = length[s]
    BY <1>1, <2>2, HeldIsSeq
  <2>7. b \in Seq(Cells) /\ Len(b) = Count(s)
    BY <1>2
  <2>8. /\ \A k \in 1..Len(a) : c[k] = a[k]
        /\ \A k \in 1..Len(b) : c[Len(a) + k] = b[k]
        /\ Len(c) = Len(a) + Len(b)
    BY <2>1, <2>4, <2>5, <2>6, <2>7
  <2> HIDE DEF a, b, c
  <2>9. c = a \o b
    BY <2>6, <2>7, <2>8, JoinedSeq
  <2>10. QED
    BY <2>9 DEF a, b, c
<1>6. Kv' = [s \in Slots |-> Kv[s] \o Asked[s]]
  BY <1>4, <1>5
<1>7. context' = [s \in {t \in Slots : Asked[t] # <<>>} |-> Kv'[s]]
  <2>1. {t \in Slots : Asked[t] # <<>>} = {t \in Slots : Of(request, t) # {}}
    BY <1>2
  <2>2. QED
    BY <1>1, <1>4, <2>1
<1>8. QED
  BY <1>2, <1>3, <1>6, <1>7, AbstractActions

\* A prefix of what a sequence holds.
LEMMA HeldPrefix ==
  ASSUME PagesExact, NEW s \in Slots, NEW n \in 0..length[s], NEW m \in 0..n
  PROVE  SubSeq(Held(s, n), 1, m) = Held(s, m)
<1>1. n \in Nat /\ m \in Nat /\ m \in 0..length[s]
  BY DEF PagesExact
<1>2. /\ Held(s, n) \in Seq(Cells) /\ Len(Held(s, n)) = n
      /\ \A k \in 1..n : Held(s, n)[k] = Read(s, k - 1)
      /\ Held(s, m) \in Seq(Cells) /\ Len(Held(s, m)) = m
      /\ \A k \in 1..m : Held(s, m)[k] = Read(s, k - 1)
  BY <1>1, HeldIsSeq
<1> DEFINE h == Held(s, n)
           g == Held(s, m)
           u == SubSeq(h, 1, m)
<1> HIDE DEF h, g
<1>3. /\ u \in Seq(Cells) /\ Len(u) = m /\ \A i \in 1..m : u[i] = h[i]
  <2>1. h \in Seq(Cells) /\ m \in 0..Len(h)
    BY <1>1, <1>2 DEF h
  <2>2. QED
    BY <2>1, PrefixTable
<1> HIDE DEF u
<1>4. \A i \in 1..m : u[i] = g[i]
  BY <1>1, <1>2, <1>3 DEF h, g
<1>5. u = g
  BY <1>2, <1>3, <1>4, SeqEqual DEF g
<1>6. QED
  BY <1>5 DEF u, h, g

LEMMA FailFails == ASSUME Inv, Fail PROVE SharedStore!Fail
<1>1. /\ PagesExact /\ BatchIsPlaced /\ pc # "idle" /\ pc' = "idle" /\ context' = Nothing
      /\ UNCHANGED <<table, length, refs, data, free>>
  BY DEF Fail, Return, Inv, Running, kvVars
<1>2. Asked # Nothing /\ \A s \in Slots : Len(Asked[s]) = Count(s)
  BY <1>1, AskedIs
<1>3. Asked' = Nothing
  BY <1>1 DEF Asked
<1>4. Kv = [s \in Slots |-> Held(s, base[s])] /\ Kv' = [s \in Slots |-> Held(s, length[s])]
  BY <1>1 DEF Kv, Sure, Held, PageAt
<1>5. ASSUME NEW s \in Slots
      PROVE  /\ Len(Kv'[s]) \in Len(Kv[s])..(Len(Kv[s]) + Len(Asked[s]))
             /\ SubSeq(Kv'[s], 1, Len(Kv[s])) = Kv[s]
  <2>1. /\ base[s] \in Nat /\ length[s] \in Nat /\ Count(s) \in Nat
        /\ base[s] <= length[s] /\ length[s] <= base[s] + Count(s)
    BY <1>1, Lengths
  <2>2. base[s] \in 0..length[s] /\ length[s] \in 0..length[s]
    BY <2>1
  <2>3. Len(Held(s, base[s])) = base[s] /\ Len(Held(s, length[s])) = length[s]
    BY <1>1, <2>2, HeldIsSeq
  <2>4. SubSeq(Held(s, length[s]), 1, base[s]) = Held(s, base[s])
    BY <1>1, <2>2, HeldPrefix
  <2>5. Kv[s] = Held(s, base[s]) /\ Kv'[s] = Held(s, length[s])
    BY <1>4
  <2>6. Len(Kv'[s]) = length[s] /\ Len(Kv[s]) = base[s] /\ Len(Asked[s]) = Count(s)
    BY <1>2, <2>3, <2>5
  <2>7. length[s] \in base[s]..(base[s] + Count(s))
    BY <2>1
  <2>8. QED
    BY <2>3, <2>4, <2>5, <2>6, <2>7
<1>6. QED
  BY <1>1, <1>2, <1>3, <1>5, AbstractActions

\* An idle runtime replaces a table by one that reads the same.
Replaced(s, t, n) ==
  /\ pc = "idle" /\ UNCHANGED hostVars
  /\ n \in 0..length[s]
  /\ table' = [table EXCEPT ![t] = SubSeq(table[s], 1, PagesFor(n))]
  /\ length' = [length EXCEPT ![t] = n]
  /\ \A x \in Slots : \A i \in 1..Len(table'[x]) : data'[table'[x][i]] = data[table'[x][i]]

LEMMA IdleReplaces ==
  ASSUME PagesExact, PagesExact', NEW s \in Slots, NEW t \in Slots, NEW n, Replaced(s, t, n)
  PROVE  Kv' = [Kv EXCEPT ![t] = SubSeq(Kv[s], 1, n)]
<1>0. /\ pc = "idle" /\ UNCHANGED hostVars
      /\ n \in 0..length[s]
      /\ table' = [table EXCEPT ![t] = SubSeq(table[s], 1, PagesFor(n))]
      /\ length' = [length EXCEPT ![t] = n]
      /\ \A x \in Slots : \A i \in 1..Len(table'[x]) : data'[table'[x][i]] = data[table'[x][i]]
  BY DEF Replaced
<1>1. /\ pc' = "idle" /\ length \in [Slots -> Nat] /\ table \in [Slots -> Seq(Pages)]
      /\ Len(table[s]) = PagesFor(length[s]) /\ n \in Nat
  BY <1>0 DEF hostVars, PagesExact
<1>2. /\ table'[t] = SubSeq(table[s], 1, PagesFor(n)) /\ length'[t] = n
      /\ \A x \in Slots \ {t} : table'[x] = table[x] /\ length'[x] = length[x]
  BY <1>0, <1>1
<1>3. Kv = [x \in Slots |-> Held(x, length[x])]
  BY <1>0 DEF Kv, Sure
<1>4. Kv' = [x \in Slots |-> [k \in 1..length'[x] |-> data'[table'[x][PageOf(k - 1)]][(k - 1) % PageTokens]]]
  BY <1>1 DEF Kv, Sure, Held, PageAt, PageOf
<1>5. ASSUME NEW x \in Slots, NEW k \in 1..length'[x]
      PROVE  data'[table'[x][PageOf(k - 1)]] = data[table'[x][PageOf(k - 1)]]
  <2>1. length'[x] \in Nat /\ table'[x] \in Seq(Pages) /\ Len(table'[x]) = PagesFor(length'[x])
    BY DEF PagesExact
  <2>2. k - 1 \in Nat /\ k - 1 < length'[x]
    BY <2>1
  <2>3. PageOf(k - 1) \in Nat \ {0} /\ PageOf(k - 1) <= PagesFor(length'[x])
    BY <2>1, <2>2, PlaceOfPosition
  <2>4. PageOf(k - 1) \in 1..Len(table'[x])
    BY <2>1, <2>3, LenProperties
  <2>5. QED
    BY <1>0, <2>4
<1>6. ASSUME NEW x \in Slots \ {t} PROVE Kv'[x] = Kv[x]
  <2>1. Kv'[x] = [k \in 1..length[x] |-> data[table[x][PageOf(k - 1)]][(k - 1) % PageTokens]]
    BY <1>2, <1>4, <1>5
  <2>2. QED
    BY <1>3, <2>1 DEF Held, PageAt, PageOf
<1>7. Kv'[t] = SubSeq(Kv[s], 1, n)
  <2>1. ASSUME NEW k \in 1..n PROVE table'[t][PageOf(k - 1)] = table[s][PageOf(k - 1)]
    <3>1. k - 1 \in Nat /\ k - 1 < n /\ PagesFor(n) \in 0..Len(table[s])
      BY <1>0, <1>1, PagesOfLengths
    <3>2. PageOf(k - 1) \in 1..PagesFor(n)
      <4>1. PageOf(k - 1) \in Nat \ {0} /\ PageOf(k - 1) <= PagesFor(n)
        BY <1>1, <3>1, PlaceOfPosition
      <4>2. PagesFor(n) \in Nat
        BY <1>0, <1>1, PagesOfLengths
      <4>3. QED
        BY <4>1, <4>2
    <3>3. table[s] \in Seq(Pages)
      BY <1>1
    <3>4. QED
      BY <1>2, <3>1, <3>2, <3>3, PrefixTable
  <2>2. Kv'[t] = [k \in 1..n |-> data[table[s][PageOf(k - 1)]][(k - 1) % PageTokens]]
    <3>1. \A k \in 1..n : data'[table'[t][PageOf(k - 1)]] = data[table[s][PageOf(k - 1)]]
      <4> SUFFICES ASSUME NEW k \in 1..n
                   PROVE  data'[table'[t][PageOf(k - 1)]] = data[table[s][PageOf(k - 1)]]
        OBVIOUS
      <4>1. data'[table'[t][PageOf(k - 1)]] = data[table'[t][PageOf(k - 1)]]
        BY <1>2, <1>5
      <4>2. table'[t][PageOf(k - 1)] = table[s][PageOf(k - 1)]
        BY <2>1
      <4>3. QED
        BY <4>1, <4>2, Zenon
    <3> DEFINE New(k) == data'[table'[t][PageOf(k - 1)]][(k - 1) % PageTokens]
               Old(k) == data[table[s][PageOf(k - 1)]][(k - 1) % PageTokens]
    <3>2. Kv'[t] = [k \in 1..n |-> New(k)]
      BY <1>2, <1>4
    <3>3. \A k \in 1..n : New(k) = Old(k)
      BY <3>1
    <3> HIDE DEF New, Old
    <3>4. Kv'[t] = [k \in 1..n |-> Old(k)]
      BY <3>2, <3>3
    <3>5. QED
      BY <3>4 DEF Old
  <2>3. Kv'[t] = Held(s, n)
    BY <2>2 DEF Held, PageAt, PageOf
  <2>4. length[s] \in 0..length[s]
    BY <1>1
  <2>5. SubSeq(Held(s, length[s]), 1, n) = Held(s, n)
    BY <1>0, <2>4, HeldPrefix
  <2>6. QED
    BY <1>3, <2>3, <2>5
<1>8. Kv' = [x \in Slots |-> Kv'[x]] /\ Kv = [x \in Slots |-> Kv[x]]
  BY DEF Kv
<1>9. QED
  BY <1>6, <1>7, <1>8

LEMMA ShareShares == ASSUME Inv, Share PROVE SharedStore!Share
<1>1. PICK s \in Slots, t \in Slots : \E n \in 0..length[s] : SharePrefix(s, t, n)
  BY DEF Share
<1>2. PICK n \in 0..length[s] : SharePrefix(s, t, n)
  BY <1>1
<1>3. /\ PagesExact /\ length[s] \in Nat /\ pc = "idle" /\ UNCHANGED hostVars
      /\ n \in Nat /\ length[s] \in 0..length[s]
  <2>1. PagesExact /\ pc = "idle" /\ UNCHANGED hostVars
    BY DEF Inv, Share
  <2>2. length[s] \in Nat
    BY <2>1 DEF PagesExact
  <2>3. QED
    BY <2>1, <2>2
<1>4. /\ PagesExact' /\ s # t
      /\ table' = [table EXCEPT ![t] = SubSeq(table[s], 1, PagesFor(n))]
      /\ length' = [length EXCEPT ![t] = n]
      /\ \A x \in Slots : \A i \in 1..Len(table'[x]) : data'[table'[x][i]] = data[table'[x][i]]
  BY <1>2, <1>3, ShareKeepsPages
<1>5. Kv' = [Kv EXCEPT ![t] = SubSeq(Kv[s], 1, n)]
  <2>1. Replaced(s, t, n)
    BY <1>2, <1>3, <1>4 DEF Replaced
  <2>2. QED
    BY <1>3, <1>4, <2>1, IdleReplaces
<1>6. Len(Kv[s]) = length[s]
  BY <1>3, HeldIsSeq DEF Kv, Sure
<1>7. Asked = Nothing /\ Asked' = Nothing /\ context' = context
  BY <1>3 DEF Asked, hostVars
<1>8. QED
  BY <1>4, <1>5, <1>6, <1>7, AbstractActions

LEMMA ClearClears == ASSUME Inv, ClearSequence PROVE SharedStore!Clear
<1>1. PICK t \in Slots : Clear(t)
  BY DEF ClearSequence
<1>2. PagesExact /\ length[t] \in Nat /\ pc = "idle" /\ UNCHANGED hostVars /\ 0 \in 0..length[t]
  BY DEF Inv, PagesExact, ClearSequence
<1>3. /\ PagesExact' /\ table' = [table EXCEPT ![t] = <<>>] /\ length' = [length EXCEPT ![t] = 0]
      /\ \A x \in Slots : \A i \in 1..Len(table'[x]) : data'[table'[x][i]] = data[table'[x][i]]
  BY <1>1, <1>2, ClearKeepsPages
<1>4. SubSeq(table[t], 1, PagesFor(0)) = <<>> /\ SubSeq(Kv[t], 1, 0) = <<>>
  BY PagesOfLengths, SubSeqEmpty
<1>5. Kv' = [Kv EXCEPT ![t] = SubSeq(Kv[t], 1, 0)]
  <2>1. table' = [table EXCEPT ![t] = SubSeq(table[t], 1, PagesFor(0))]
    BY <1>3, <1>4
  <2>2. Replaced(t, t, 0)
    BY <1>2, <1>3, <2>1 DEF Replaced
  <2>3. QED
    BY <1>2, <1>3, <2>2, IdleReplaces
<1>6. Asked = Nothing /\ Asked' = Nothing /\ context' = context
  BY <1>2 DEF Asked, hostVars
<1>7. QED
  BY <1>4, <1>5, <1>6, AbstractActions

LEMMA RejectRefuses == ASSUME Reject PROVE SharedStore!Refuse
<1>1. pc = "idle" /\ pc' = "idle" /\ context' = Nothing /\ UNCHANGED <<table, length, data>>
  BY DEF Reject, Return, kvVars
<1>2. Asked = Nothing /\ Asked' = Nothing /\ Kv' = Kv
  BY <1>1 DEF Asked, Kv, Sure, Held, PageAt
<1>3. QED
  BY <1>1, <1>2, AbstractActions

LEMMA StoreStarts == Init => SharedStore!Init
<1> SUFFICES ASSUME Init PROVE SharedStore!Init
  OBVIOUS
<1>1. pc = "idle" /\ context = Nothing /\ length = [s \in Slots |-> 0]
  BY DEF Init, InitKV
<1>2. \A s : Held(s, 0) = <<>>
  BY HeldIsRead
<1>3. Kv = [s \in Slots |-> <<>>]
  BY <1>1, <1>2 DEF Kv, Sure
<1>4. Asked = Nothing
  BY <1>1 DEF Asked
<1>5. QED
  BY <1>1, <1>3, <1>4, AbstractActions

LEMMA StoreSteps == Inv /\ [Next]_vars => [SharedStore!Next]_(SharedStore!vars)
<1> SUFFICES ASSUME Inv, [Next]_vars PROVE SharedStore!Next \/ UNCHANGED SharedStore!vars
  OBVIOUS
<1>1. CASE Reject
  BY <1>1, RejectRefuses DEF SharedStore!Next
<1>2. CASE Forward
  BY <1>2, ForwardAsks DEF SharedStore!Next
<1>3. CASE AppendNext
  BY <1>3, AppendStutters
<1>4. CASE Compute
  BY <1>4, ComputeStutters
<1>5. CASE Store
  BY <1>5, StoreStutters
<1>6. CASE Attend
  BY <1>6, AttendAnswers DEF SharedStore!Next
<1>7. CASE Fail
  BY <1>7, FailFails DEF SharedStore!Next
<1>8. CASE Share
  BY <1>8, ShareShares DEF SharedStore!Next
<1>9. CASE ClearSequence
  BY <1>9, ClearClears DEF SharedStore!Next
<1>10. CASE UNCHANGED vars
  <2>1. UNCHANGED <<table, length, data, pc, request, base, context>>
    BY <1>10 DEF vars, kvVars, hostVars
  <2>2. Kv' = Kv /\ Asked' = Asked
    BY <2>1 DEF Kv, Asked, Sure, Held, PageAt, InputAt, Of
  <2>3. QED
    BY <2>1, <2>2, AbstractActions
<1>11. QED
  BY <1>1, <1>2, <1>3, <1>4, <1>5, <1>6, <1>7, <1>8, <1>9, <1>10 DEF Next

\* For all that its pages are shared, copied, given back and written by
\* several threads, forward(), share_prefix() and clear_sequence() are those
\* of a store that gives every sequence its own tokens.
THEOREM IsStore == Spec => IsSharedStore
<1>1. Spec => SharedStore!Init /\ [][SharedStore!Next]_(SharedStore!vars)
  BY StoreStarts, StoreSteps, InvHolds, PTL DEF Spec
<1>2. QED
  BY <1>1 DEF IsSharedStore, SharedStore!Spec

-----------------------------------------------------------------------------
(***************************************************************************)
(* The Engine's credits cover the pages.  A credit stands for a page: two  *)
(* sequences that share a credit share the page at that place of their     *)
(* tables, and a credit whose page is still to come has one owner.         *)
(***************************************************************************)
Owners(b) == {s \in Slots : b \in Range(blocks[s])}

CreditsExact ==
  /\ blocks \in [Slots -> Seq(Blocks)] /\ credits \in [Blocks -> Nat]
  /\ \A s \in Slots : IsInjective(blocks[s])
  /\ \A b \in Blocks : credits[b] = Cardinality(Owners(b))

Budgets ==
  /\ limit \in [RequestSlots -> Nat]
  /\ \A r \in RequestSlots : Len(blocks[r]) = PagesFor(limit[r])
  /\ pc # "idle" =>
       \A s \in Slots : Count(s) > 0 => s \in RequestSlots /\ base[s] + Count(s) < limit[s]

\* Only full pages are shared.
WholePages ==
  \A s, t \in Slots : \A i \in 1..Len(table[s]) :
    s # t /\ table[s][i] \in Range(table[t]) => i * PageTokens <= length[s]

PagesOfBlocks ==
  /\ \A s \in Slots : Len(table[s]) <= Len(blocks[s])
  /\ \A s, t \in Slots : \A i \in 1..Len(table[s]), j \in 1..Len(table[t]) :
       blocks[s][i] = blocks[t][j] => table[s][i] = table[t][j]
  /\ \A s, t \in Slots : \A i \in (Len(table[s]) + 1)..Len(blocks[s]) :
       s # t => blocks[s][i] \notin Range(blocks[t])

CreditInv == CreditsExact /\ Budgets /\ WholePages /\ PagesOfBlocks

LEMMA OwnersAreFinite ==
  \A b : IsFiniteSet(Owners(b)) /\ Cardinality(Owners(b)) \in Nat
  BY PagedKVAssumption, FS_Subset, FS_CardinalityType DEF Owners

\* Whatever replaces the credits of a sequence, the counts follow it.
LEMMA CreditsReplaced ==
  ASSUME CreditsExact, NEW t \in Slots, NEW new \in Seq(Blocks), IsInjective(new),
         blocks' = [blocks EXCEPT ![t] = new],
         credits' \in [Blocks -> Nat],
         \A b \in Blocks : credits'[b] = (credits[b] + (IF b \in Range(new) THEN 1 ELSE 0))
                                         - (IF b \in Range(blocks[t]) THEN 1 ELSE 0)
  PROVE  CreditsExact'
<1>1. /\ blocks'[t] = new /\ \A s \in Slots \ {t} : blocks'[s] = blocks[s]
      /\ blocks' \in [Slots -> Seq(Blocks)]
      /\ \A s \in Slots : IsInjective(blocks'[s])
  BY DEF CreditsExact
<1>2. ASSUME NEW b \in Blocks PROVE credits'[b] = Cardinality(Owners(b)')
  <2>1. /\ Owners(b)' \ {t} = Owners(b) \ {t}
        /\ t \in Owners(b)' <=> b \in Range(new)
        /\ t \in Owners(b) <=> b \in Range(blocks[t])
    BY <1>1 DEF Owners
  <2>2. IsFiniteSet(Owners(b)) /\ credits[b] = Cardinality(Owners(b))
    BY OwnersAreFinite DEF CreditsExact
  <2>3. QED
    BY <2>1, <2>2, OneChanged
<1>3. QED
  BY <1>1, <1>2 DEF CreditsExact

LEMMA OwnedIsCounted ==
  ASSUME CreditsExact, NEW s \in Slots, NEW b \in Range(blocks[s])
  PROVE  b \in Blocks /\ credits[b] > 0 /\ b \notin Credits!FreeBlocks(credits)
<1>1. b \in Blocks
  BY ElementOfSeq, LenProperties DEF CreditsExact, Range
<1>2. Owners(b) # {}
  BY DEF Owners
<1>3. Cardinality(Owners(b)) # 0
  BY <1>2, OwnersAreFinite, FS_EmptySet
<1>4. QED
  BY <1>1, <1>3, OwnersAreFinite DEF CreditsExact, Credits!FreeBlocks

\* Nothing is ever copied.
LEMMA NoCopies ==
  ASSUME PagesExact, WholePages, NEW s \in Slots PROVE ~Copies(s)
<1> SUFFICES ASSUME Copies(s) PROVE FALSE
  OBVIOUS
<1> DEFINE n == Len(table[s])
           last == LastPage(s)
<1>1. /\ length[s] \in Nat /\ length[s] % PageTokens # 0 /\ refs[last] > 1
      /\ table[s] \in Seq(Pages) /\ n = PagesFor(length[s])
  BY DEF Copies, Partial, PagesExact
<1>2. n \in Nat \ {0} /\ n = length[s] \div PageTokens + 1
  BY <1>1, PartialPages
<1>3. last = table[s][n] /\ last \in Range(table[s]) /\ n \in 1..Len(table[s])
  BY <1>1, <1>2, LenProperties DEF LastPage, Range
<1>4. last \in Pages /\ refs[last] = Cardinality(Holders(last))
  BY <1>3, HeldIsUsed DEF PagesExact
<1>5. PICK t \in Slots \ {s} : last \in Range(table[t])
  <2>1. ASSUME Holders(last) \subseteq {s} PROVE FALSE
    <3>1. Cardinality(Holders(last)) <= 1
      <4>1. IsFiniteSet({s}) /\ Cardinality({s}) = 1
        BY FS_Singleton
      <4>2. QED
        BY <2>1, <4>1, FS_Subset
    <3>2. QED
      BY <1>1, <1>4, <3>1, HoldersAreFinite
  <2>2. QED
    BY <2>1 DEF Holders
<1>6. n * PageTokens <= length[s]
  BY <1>3, <1>5 DEF WholePages
<1>7. length[s] < PageTokens * (length[s] \div PageTokens) + PageTokens /\ length[s] \div PageTokens \in Nat
  BY <1>1, PagedKVAssumption, Quotient
<1>8. PICK m \in Nat : m = length[s] \div PageTokens
  BY <1>7
<1>9. n * PageTokens = PageTokens * m + PageTokens /\ PageTokens * m \in Nat
  BY SMTT(30), <1>2, <1>8, PagedKVAssumption
<1>10. QED
  BY <1>1, <1>6, <1>7, <1>8, <1>9, PagedKVAssumption

\* A sequence without credits starts from whole blocks of another one, with
\* fresh blocks for the rest of what it may grow to.
Shares(a, b, n, shared, fresh) ==
  /\ n \in Nat /\ n % PageTokens = 0
  /\ SharePrefix(a, b, n) /\ blocks[b] = <<>>
  /\ shared = SubSeq(blocks[a], 1, n \div PageTokens)
  /\ fresh \in Seq(Blocks) /\ IsInjective(fresh) /\ Range(fresh) \subseteq Credits!FreeBlocks(credits)
  /\ blocks' = [blocks EXCEPT ![b] = shared \o fresh]
  /\ credits' = Credits!Retained(Credits!Allocated(credits, fresh), shared)

\* What sharing m pages leaves.
TablesShared(a, b, n, m, shared, fresh) ==
  /\ n = m * PageTokens /\ n \in Nat /\ a # b /\ n <= length[a]
  /\ PagesExact' /\ length' = [length EXCEPT ![b] = n]
  /\ Len(table'[b]) = m /\ \A i \in 1..m : table'[b][i] = table[a][i]
  /\ \A s \in Slots \ {b} : table'[s] = table[s] /\ blocks'[s] = blocks[s]
  /\ m <= Len(blocks[a]) /\ Len(shared) = m /\ shared \in Seq(Blocks)
  /\ Range(shared) \subseteq Range(blocks[a])
  /\ blocks'[b] \in Seq(Blocks) /\ IsInjective(blocks'[b])
  /\ Range(blocks'[b]) = Range(shared) \cup Range(fresh)
  /\ Len(blocks'[b]) = m + Len(fresh)
  /\ \A i \in 1..m : blocks'[b][i] = blocks[a][i]
  /\ \A i \in (m + 1)..Len(blocks'[b]) : blocks'[b][i] \in Range(fresh)
  /\ \A x \in Range(shared) : \E i \in 1..m : x = blocks[a][i]

LEMMA SharedTables ==
  ASSUME PagesExact, CreditsExact, PagesOfBlocks, NEW a \in Slots, NEW b \in Slots,
         NEW n, NEW shared, NEW fresh, Shares(a, b, n, shared, fresh)
  PROVE  \E m \in 0..Len(table[a]) : TablesShared(a, b, n, m, shared, fresh)
<1>1. /\ n \in Nat /\ n % PageTokens = 0 /\ SharePrefix(a, b, n)
      /\ shared = SubSeq(blocks[a], 1, n \div PageTokens)
      /\ fresh \in Seq(Blocks) /\ IsInjective(fresh)
      /\ Range(fresh) \subseteq Credits!FreeBlocks(credits)
      /\ blocks' = [blocks EXCEPT ![b] = shared \o fresh]
  BY DEF Shares
<1> DEFINE m == n \div PageTokens
<1>2. /\ PagesExact' /\ a # b /\ n <= length[a] /\ PagesFor(n) \in 0..Len(table[a])
      /\ table' = [table EXCEPT ![b] = SubSeq(table[a], 1, PagesFor(n))]
      /\ length' = [length EXCEPT ![b] = n]
  BY <1>1, ShareKeepsPages
<1>3. m = PagesFor(n) /\ m \in Nat /\ n = m * PageTokens
  <2>1. m = PagesFor(n) /\ m \in Nat
    BY <1>1, FullPages
  <2>2. n = PageTokens * m + (n % PageTokens)
    BY <1>1, PagedKVAssumption
  <2>3. QED
    BY <1>1, <2>1, <2>2, PagedKVAssumption
<1>4. shared = SubSeq(blocks[a], 1, m)
  BY <1>1
<1> HIDE DEF m
<1>5. /\ table[a] \in Seq(Pages) /\ blocks[a] \in Seq(Blocks) /\ IsInjective(blocks[a])
      /\ m \in 0..Len(table[a]) /\ m \in 0..Len(blocks[a])
      /\ table \in [Slots -> Seq(Pages)] /\ blocks \in [Slots -> Seq(Blocks)]
  <2>1. Len(table[a]) \in Nat /\ Len(blocks[a]) \in Nat /\ Len(table[a]) <= Len(blocks[a])
    BY LenProperties DEF PagesExact, CreditsExact, PagesOfBlocks
  <2>2. QED
    BY <1>2, <1>3, <2>1 DEF PagesExact, CreditsExact
<1>6. Len(table'[b]) = m /\ \A i \in 1..m : table'[b][i] = table[a][i]
  <2>1. table'[b] = SubSeq(table[a], 1, m)
    BY <1>2, <1>3, <1>5
  <2>2. QED
    BY <1>5, <2>1, PrefixTable
<1>7. \A s \in Slots \ {b} : table'[s] = table[s] /\ blocks'[s] = blocks[s]
  BY <1>1, <1>2, <1>5
<1>8. /\ shared \in Seq(Blocks) /\ Len(shared) = m /\ DOMAIN shared = 1..m
      /\ \A i \in 1..m : shared[i] = blocks[a][i]
      /\ Range(shared) \subseteq Range(blocks[a]) /\ IsInjective(shared)
  BY <1>4, <1>5, PrefixTable
<1>9. Range(shared) \cap Range(fresh) = {}
  BY <1>1, <1>8, OwnedIsCounted
<1> DEFINE new == shared \o fresh
<1>10. blocks'[b] = new
  BY <1>1, <1>5
<1>11. new \in Seq(Blocks) /\ IsInjective(new) /\ Range(new) = Range(shared) \cup Range(fresh)
  <2>1. shared \in Seq(Blocks) /\ IsInjective(shared)
    BY <1>8
  <2>2. fresh \in Seq(Blocks) /\ IsInjective(fresh)
    BY <1>1
  <2>3. QED
    BY <1>9, <2>1, <2>2, ConcatTables
<1>12. /\ Len(new) = m + Len(fresh) /\ Len(fresh) \in Nat /\ DOMAIN fresh = 1..Len(fresh)
       /\ \A i \in 1..(m + Len(fresh)) : new[i] = IF i <= m THEN shared[i] ELSE fresh[i - m]
  BY <1>1, <1>8, ConcatProperties, LenProperties
<1> HIDE DEF new
<1>13. \A i \in 1..m : new[i] = blocks[a][i]
  BY <1>3, <1>8, <1>12
<1>14. ASSUME NEW i \in (m + 1)..Len(new) PROVE new[i] \in Range(fresh)
  <2>0. PICK k \in Nat : k = Len(fresh)
    BY <1>12
  <2>1. i - m \in 1..k /\ i \in 1..(m + k) /\ ~(i <= m)
    <3>1. Len(new) = m + k /\ m \in Nat
      BY <1>3, <1>12, <2>0
    <3>2. i \in (m + 1)..(m + k)
      BY <3>1
    <3>3. QED
      BY <2>0, <3>1, <3>2
  <2>3. new[i] = fresh[i - m]
    BY <1>12, <2>0, <2>1
  <2>4. QED
    BY <1>12, <2>0, <2>1, <2>3 DEF Range
<1>15. \A x \in Range(shared) : \E i \in 1..m : x = blocks[a][i]
  BY <1>8 DEF Range
<1>16. /\ blocks'[b] \in Seq(Blocks) /\ IsInjective(blocks'[b])
       /\ Range(blocks'[b]) = Range(shared) \cup Range(fresh)
       /\ Len(blocks'[b]) = m + Len(fresh)
       /\ \A i \in 1..m : blocks'[b][i] = blocks[a][i]
       /\ \A i \in (m + 1)..Len(blocks'[b]) : blocks'[b][i] \in Range(fresh)
  BY <1>10, <1>11, <1>12, <1>13, <1>14
<1>17. m \in 0..Len(table[a]) /\ m <= Len(blocks[a])
  BY <1>5
<1>18. n = m * PageTokens /\ n \in Nat /\ a # b /\ n <= length[a] /\ PagesExact'
       /\ length' = [length EXCEPT ![b] = n]
  BY <1>1, <1>2, <1>3
<1> HIDE DEF new
<1>19. Len(shared) = m /\ shared \in Seq(Blocks) /\ Range(shared) \subseteq Range(blocks[a])
  BY <1>8
<1>20. TablesShared(a, b, n, m, shared, fresh)
  BY <1>6, <1>7, <1>15, <1>16, <1>17, <1>18, <1>19 DEF TablesShared
<1>21. QED
  BY <1>17, <1>20

LEMMA SharingKeepsCredits ==
  ASSUME PagesExact, CreditsExact, WholePages, PagesOfBlocks, NEW a \in Slots, NEW b \in Slots,
         NEW n, NEW shared, NEW fresh, Shares(a, b, n, shared, fresh)
  PROVE  CreditsExact' /\ WholePages' /\ PagesOfBlocks'
<1> DEFINE Given == Credits!Allocated(credits, fresh)
           From(s) == IF s = b THEN a ELSE s
<1> HIDE DEF Given
<1>0. PICK m \in 0..Len(table[a]) : TablesShared(a, b, n, m, shared, fresh)
  BY SharedTables
<1>1. /\ n = m * PageTokens /\ n \in Nat /\ a # b /\ n <= length[a]
      /\ PagesExact' /\ length' = [length EXCEPT ![b] = n]
      /\ Len(table'[b]) = m /\ \A i \in 1..m : table'[b][i] = table[a][i]
      /\ \A s \in Slots \ {b} : table'[s] = table[s] /\ blocks'[s] = blocks[s]
      /\ m <= Len(blocks[a]) /\ Len(shared) = m /\ shared \in Seq(Blocks)
      /\ Range(shared) \subseteq Range(blocks[a])
      /\ blocks'[b] \in Seq(Blocks) /\ IsInjective(blocks'[b])
      /\ Range(blocks'[b]) = Range(shared) \cup Range(fresh)
      /\ Len(blocks'[b]) = m + Len(fresh)
      /\ \A i \in 1..m : blocks'[b][i] = blocks[a][i]
      /\ \A i \in (m + 1)..Len(blocks'[b]) : blocks'[b][i] \in Range(fresh)
      /\ \A x \in Range(shared) : \E i \in 1..m : x = blocks[a][i]
  BY <1>0 DEF TablesShared
<1>2. /\ blocks[b] = <<>> /\ Range(fresh) \subseteq Credits!FreeBlocks(credits)
      /\ fresh \in Seq(Blocks) /\ Len(fresh) \in Nat
      /\ blocks' = [blocks EXCEPT ![b] = blocks'[b]]
      /\ credits' = Credits!Retained(Given, shared)
  BY LenProperties DEF Shares, CreditsExact, Given
<1>3. /\ m \in Nat /\ length \in [Slots -> Nat] /\ \A s \in Slots : Len(table[s]) \in Nat
      /\ \A s \in Slots : DOMAIN table[s] = 1..Len(table[s]) /\ DOMAIN blocks[s] = 1..Len(blocks[s])
      /\ \A s \in Slots : IsInjective(table[s]) /\ IsInjective(blocks[s])
      /\ \A s \in Slots : Len(blocks[s]) \in Nat
  BY LenProperties DEF PagesExact, CreditsExact
<1>4. /\ credits \in [Blocks -> Nat] /\ \A x \in Range(fresh) : x \in Blocks /\ credits[x] = 0
      /\ \A x \in Range(shared) : x \in Blocks /\ credits[x] > 0
  <2>1. \A x \in Range(shared) : x \in Blocks /\ credits[x] > 0
    BY <1>1, OwnedIsCounted
  <2>2. QED
    BY <1>2, <2>1 DEF CreditsExact, Credits!FreeBlocks
<1>5. CreditsExact'
  <2>1. ASSUME NEW x \in Blocks
        PROVE  /\ credits'[x] \in Nat
               /\ credits'[x] = (credits[x] + (IF x \in Range(blocks'[b]) THEN 1 ELSE 0))
                                - (IF x \in Range(blocks[b]) THEN 1 ELSE 0)
    <3>1. credits[x] \in Nat /\ x \notin Range(blocks[b])
      BY <1>2, <1>4 DEF Range
    <3>2. credits'[x] = IF x \in Range(shared) THEN Given[x] + 1 ELSE Given[x]
      BY <1>2 DEF Credits!Retained, Credits!Range, Range
    <3>3. CASE x \in Range(fresh)
      <4>1. x \notin Range(shared) /\ credits[x] = 0 /\ x \in Range(blocks'[b])
        BY <1>1, <1>4, <3>3
      <4>2. Given[x] = 1
        BY <3>3 DEF Given, Credits!Allocated, Credits!Range, Range
      <4>3. credits'[x] = 1
        BY <3>2, <4>1, <4>2
      <4>4. QED
        BY <3>1, <4>1, <4>3
    <3>4. CASE x \notin Range(fresh)
      <4>1. x \in Range(blocks'[b]) <=> x \in Range(shared)
        BY <1>1, <3>4
      <4>2. Given[x] = credits[x]
        BY <3>4 DEF Given, Credits!Allocated, Credits!Range, Range
      <4>3. credits'[x] = IF x \in Range(shared) THEN credits[x] + 1 ELSE credits[x]
        BY <3>2, <4>2
      <4>4. QED
        BY <3>1, <4>1, <4>3
    <3>5. QED
      BY <3>3, <3>4
  <2>2. credits' \in [Blocks -> Nat]
    <3>1. credits' = [x \in Blocks |-> credits'[x]]
      BY <1>2 DEF Credits!Retained
    <3>2. QED
      BY <2>1, <3>1
  <2>3. PICK new \in Seq(Blocks) : new = blocks'[b]
    BY <1>1
  <2>4. /\ IsInjective(new) /\ blocks' = [blocks EXCEPT ![b] = new]
        /\ \A x \in Blocks : credits'[x] = (credits[x] + (IF x \in Range(new) THEN 1 ELSE 0))
                                            - (IF x \in Range(blocks[b]) THEN 1 ELSE 0)
    BY <1>1, <1>2, <2>1, <2>3
  <2>5. QED
    BY <2>2, <2>4, CreditsReplaced
<1>6. ASSUME NEW i \in 1..m PROVE i * PageTokens <= n
  <2>1. n = m * PageTokens /\ m \in Nat /\ PageTokens \in Nat
    BY <1>1, <1>3, PagedKVAssumption
  <2>2. i \in Nat /\ i <= m
    BY <2>1
  <2>3. i * PageTokens <= m * PageTokens
    BY <2>1, <2>2, TimesGrows
  <2>4. QED
    BY <2>1, <2>3
<1>7. WholePages'
  <2> SUFFICES ASSUME NEW s \in Slots, NEW t \in Slots, NEW i \in 1..Len(table'[s]),
                      s # t, table'[s][i] \in Range(table'[t])
               PROVE  i * PageTokens <= length'[s]
    BY DEF WholePages
  <2>1. CASE s = b
    BY <1>1, <1>3, <1>6, <2>1
  <2>2. CASE s # b /\ t # b
    <3>1. /\ table'[s] = table[s] /\ table'[t] = table[t] /\ length'[s] = length[s]
      BY <1>1, <1>3, <2>2
    <3>2. QED
      BY <3>1 DEF WholePages
  <2>3. CASE s # b /\ t = b
    <3>1. table'[s] = table[s] /\ length'[s] = length[s]
      BY <1>1, <1>3, <2>3
    <3>2. PICK j \in 1..m : table[s][i] = table[a][j]
      <4>1. table'[b] \in Seq(Pages)
        BY <1>1 DEF PagesExact
      <4>2. DOMAIN table'[b] = 1..m
        BY <1>1, <4>1, LenProperties
      <4>3. QED
        BY <1>1, <2>3, <3>1, <4>2 DEF Range
    <3>3. j \in 1..Len(table[a])
      BY <1>1, <1>3
    <3>4. CASE s = a
      <4>1. i = j
        BY <1>3, <3>1, <3>2, <3>3, <3>4 DEF IsInjective
      <4>2. i * PageTokens <= n /\ n <= length[a] /\ i * PageTokens \in Nat
        BY <1>1, <1>3, <1>6, <4>1, PagedKVAssumption
      <4>3. QED
        BY <1>1, <1>3, <3>1, <3>4, <4>2
    <3>5. CASE s # a
      <4>1. table[s][i] \in Range(table[a])
        BY <1>3, <3>2, <3>3 DEF Range
      <4>2. QED
        BY <3>1, <3>5, <4>1 DEF WholePages
    <3>6. QED
      BY <3>4, <3>5
  <2>4. QED
    BY <2>1, <2>2, <2>3
<1>8. ASSUME NEW s \in Slots, NEW i \in 1..Len(table'[s])
      PROVE  /\ From(s) \in Slots /\ i \in 1..Len(table[From(s)])
             /\ table'[s][i] = table[From(s)][i] /\ blocks'[s][i] = blocks[From(s)][i]
  <2>1. CASE s = b
    <3>1. i \in 1..m
      BY <1>1, <2>1
    <3>2. i \in 1..Len(table[a])
      BY <1>1, <1>3, <3>1
    <3>3. QED
      BY <1>1, <2>1, <3>1, <3>2
  <2>2. CASE s # b
    BY <1>1, <2>2
  <2>3. QED
    BY <2>1, <2>2
<1> HIDE DEF From
<1>9. PagesOfBlocks'
  <2>1. ASSUME NEW s \in Slots PROVE Len(table'[s]) <= Len(blocks'[s])
    <3>1. CASE s = b
      BY <1>1, <1>2, <1>3, <3>1
    <3>2. CASE s # b
      BY <1>1, <3>2 DEF PagesOfBlocks
    <3>3. QED
      BY <3>1, <3>2
  <2>2. ASSUME NEW s \in Slots, NEW t \in Slots, NEW i \in 1..Len(table'[s]), NEW j \in 1..Len(table'[t]),
               blocks'[s][i] = blocks'[t][j]
        PROVE  table'[s][i] = table'[t][j]
    <3>1. /\ From(s) \in Slots /\ i \in 1..Len(table[From(s)])
          /\ table'[s][i] = table[From(s)][i] /\ blocks'[s][i] = blocks[From(s)][i]
      BY <1>8
    <3>2. /\ From(t) \in Slots /\ j \in 1..Len(table[From(t)])
          /\ table'[t][j] = table[From(t)][j] /\ blocks'[t][j] = blocks[From(t)][j]
      BY <1>8
    <3>3. PICK u \in Slots, v \in Slots : u = From(s) /\ v = From(t)
      BY <3>1, <3>2
    <3>4. i \in 1..Len(table[u]) /\ j \in 1..Len(table[v]) /\ blocks[u][i] = blocks[v][j]
      BY <2>2, <3>1, <3>2, <3>3
    <3>5. table[u][i] = table[v][j]
      <4>1. \A k \in 1..Len(table[u]), l \in 1..Len(table[v]) :
              blocks[u][k] = blocks[v][l] => table[u][k] = table[v][l]
        BY DEF PagesOfBlocks
      <4>2. QED
        BY <3>4, <4>1
    <3>6. QED
      BY <3>1, <3>2, <3>3, <3>5
  <2>3. ASSUME NEW s \in Slots, NEW t \in Slots, NEW i \in (Len(table'[s]) + 1)..Len(blocks'[s]), s # t
        PROVE  blocks'[s][i] \notin Range(blocks'[t])
    <3>1. CASE s = b
      <4>1. blocks'[s][i] \in Range(fresh) /\ blocks'[t] = blocks[t]
        BY <1>1, <2>3, <3>1
      <4>2. blocks'[s][i] \in Credits!FreeBlocks(credits)
        BY <1>2, <4>1
      <4>3. QED
        BY <4>1, <4>2, OwnedIsCounted
    <3>2. CASE s # b /\ t # b
      <4>1. table'[s] = table[s] /\ blocks'[s] = blocks[s] /\ blocks'[t] = blocks[t]
        BY <1>1, <3>2
      <4>2. QED
        BY <2>3, <4>1 DEF PagesOfBlocks
    <3>3. CASE s # b /\ t = b
      <4>1. table'[s] = table[s] /\ blocks'[s] = blocks[s]
        BY <1>1, <3>3
      <4>2. i \in 1..Len(blocks[s]) /\ i \in (Len(table[s]) + 1)..Len(blocks[s])
        BY <1>3, <4>1
      <4>3. blocks[s][i] \in Range(blocks[s])
        BY <1>3, <4>2 DEF Range
      <4>4. blocks[s][i] \notin Range(fresh)
        BY <1>2, <4>3, OwnedIsCounted
      <4>5. ASSUME blocks[s][i] \in Range(shared) PROVE FALSE
        <5>1. PICK j \in 1..m : blocks[s][i] = blocks[a][j]
          BY <1>1, <4>5
        <5>2. j \in 1..Len(blocks[a]) /\ j <= Len(table[a])
          BY <1>1, <1>3
        <5>3. CASE s = a
          <6>1. i = j
            BY <1>3, <4>2, <5>1, <5>2, <5>3 DEF IsInjective
          <6>2. QED
            BY <1>3, <4>2, <5>2, <5>3, <6>1
        <5>4. CASE s # a
          <6>1. blocks[s][i] \in Range(blocks[a])
            BY <1>3, <5>1, <5>2 DEF Range
          <6>2. QED
            BY <4>2, <5>4, <6>1 DEF PagesOfBlocks
        <5>5. QED
          BY <5>3, <5>4
      <4>6. QED
        BY <1>1, <3>3, <4>1, <4>4, <4>5
    <3>4. QED
      BY <3>1, <3>2, <3>3
  <2>4. QED
    BY <2>1, <2>2, <2>3 DEF PagesOfBlocks
<1>10. QED
  BY <1>5, <1>7, <1>9

LEMMA GivingBackKeepsCredits ==
  ASSUME PagesExact, CreditsExact, WholePages, PagesOfBlocks, NEW b \in Slots, GiveBack(b)
  PROVE  CreditsExact' /\ WholePages' /\ PagesOfBlocks' /\ blocks' = [blocks EXCEPT ![b] = <<>>]
<1> DEFINE none == <<>>
<1>1. /\ Clear(b) /\ blocks' = [blocks EXCEPT ![b] = none]
      /\ credits' = Credits!Released(credits, blocks[b])
  BY DEF GiveBack, Emptied
<1>2. /\ PagesExact' /\ table' = [table EXCEPT ![b] = <<>>] /\ length' = [length EXCEPT ![b] = 0]
  BY <1>1, ClearKeepsPages
<1>3. /\ table \in [Slots -> Seq(Pages)] /\ length \in [Slots -> Nat] /\ blocks \in [Slots -> Seq(Blocks)]
      /\ credits \in [Blocks -> Nat]
  BY DEF PagesExact, CreditsExact
<1>4. none \in Seq(Blocks) /\ IsInjective(none) /\ Range(none) = {} /\ Len(none) = 0
  BY DEF IsInjective, Range
<1>5. /\ table'[b] = none /\ blocks'[b] = none
      /\ \A s \in Slots \ {b} : table'[s] = table[s] /\ blocks'[s] = blocks[s] /\ length'[s] = length[s]
  BY <1>1, <1>2, <1>3
<1> HIDE DEF none
<1>6. CreditsExact'
  <2>1. ASSUME NEW x \in Blocks
        PROVE  /\ credits'[x] \in Nat
               /\ credits'[x] = (credits[x] + (IF x \in Range(none) THEN 1 ELSE 0))
                                - (IF x \in Range(blocks[b]) THEN 1 ELSE 0)
    <3>1. credits[x] \in Nat /\ (x \in Range(blocks[b]) => credits[x] > 0)
      BY <1>3, OwnedIsCounted
    <3>2. credits'[x] = IF x \in Range(blocks[b]) THEN credits[x] - 1 ELSE credits[x]
      BY <1>1 DEF Credits!Released, Credits!Range, Range
    <3>3. CASE x \in Range(blocks[b])
      BY <1>4, <3>1, <3>2, <3>3
    <3>4. CASE x \notin Range(blocks[b])
      BY <1>4, <3>1, <3>2, <3>4
    <3>5. QED
      BY <3>3, <3>4
  <2>2. credits' \in [Blocks -> Nat]
    <3>1. credits' = [x \in Blocks |-> credits'[x]]
      BY <1>1 DEF Credits!Released
    <3>2. QED
      BY <2>1, <3>1
  <2>3. QED
    BY <1>1, <1>4, <2>1, <2>2, CreditsReplaced
<1>7. \A s \in Slots : Range(table'[s]) \subseteq Range(table[s]) /\ Range(blocks'[s]) \subseteq Range(blocks[s])
  BY <1>4, <1>5
<1>8. ASSUME NEW s \in Slots, NEW i \in 1..Len(table'[s])
      PROVE  table'[s] = table[s] /\ blocks'[s] = blocks[s] /\ length'[s] = length[s]
  BY <1>4, <1>5
<1>9. ASSUME NEW s \in Slots, NEW i \in 1..Len(blocks'[s])
      PROVE  table'[s] = table[s] /\ blocks'[s] = blocks[s]
  BY <1>4, <1>5
<1>10. WholePages'
  <2> SUFFICES ASSUME NEW s \in Slots, NEW t \in Slots, NEW i \in 1..Len(table'[s]),
                      s # t, table'[s][i] \in Range(table'[t])
               PROVE  i * PageTokens <= length'[s]
    BY DEF WholePages
  <2>1. table'[s] = table[s] /\ length'[s] = length[s] /\ table[s][i] \in Range(table[t])
    BY <1>7, <1>8
  <2>2. QED
    BY <2>1 DEF WholePages
<1>11. PagesOfBlocks'
  <2>1. ASSUME NEW s \in Slots PROVE Len(table'[s]) <= Len(blocks'[s])
    <3>1. CASE s = b
      BY <1>4, <1>5, <3>1
    <3>2. CASE s # b
      BY <1>5, <3>2 DEF PagesOfBlocks
    <3>3. QED
      BY <3>1, <3>2
  <2>2. ASSUME NEW s \in Slots, NEW t \in Slots, NEW i \in 1..Len(table'[s]), NEW j \in 1..Len(table'[t]),
               blocks'[s][i] = blocks'[t][j]
        PROVE  table'[s][i] = table'[t][j]
    <3>1. /\ table'[s] = table[s] /\ blocks'[s] = blocks[s]
          /\ table'[t] = table[t] /\ blocks'[t] = blocks[t]
      BY <1>8
    <3>2. QED
      BY SMTT(30), <2>2, <3>1 DEF PagesOfBlocks
  <2>3. ASSUME NEW s \in Slots, NEW t \in Slots, NEW i \in (Len(table'[s]) + 1)..Len(blocks'[s]), s # t
        PROVE  blocks'[s][i] \notin Range(blocks'[t])
    <3>1. table'[s] \in Seq(Pages) /\ Len(table'[s]) \in Nat
      BY <1>2, LenProperties DEF PagesExact
    <3>2. i \in 1..Len(blocks'[s])
      BY <3>1
    <3>3. table'[s] = table[s] /\ blocks'[s] = blocks[s] /\ Range(blocks'[t]) \subseteq Range(blocks[t])
      BY <1>7, <1>9, <3>2
    <3>4. QED
      BY <2>3, <3>3 DEF PagesOfBlocks
  <2>4. QED
    BY <2>1, <2>2, <2>3 DEF PagesOfBlocks
<1>12. QED
  BY <1>1, <1>6, <1>10, <1>11 DEF none

\* The sequence that the next append is for has a position to come.
LEMMA NextToAppend ==
  ASSUME Inv, AppendNext
  PROVE  /\ UNCHANGED <<pc, request, base, context>> /\ pc = "append"
         /\ \E s \in Slots : AppendPosition(s) /\ Count(s) > 0 /\ base[s] + Count(s) > length[s]
<1>1. /\ BatchIsPlaced /\ Appending /\ pc = "append" /\ todo # {}
      /\ UNCHANGED <<pc, request, base, context>>
  BY DEF AppendNext, Inv, Running
<1>2. PICK k \in 1..(Len(request) + 1) :
        /\ todo = k..Len(request)
        /\ \A t \in Slots : length[t] = base[t] + Cardinality(Earlier(request, t, k))
  BY <1>1 DEF Appending
<1>3. /\ request \in Batches /\ Len(request) \in Nat /\ DOMAIN request = 1..Len(request)
      /\ base \in [Slots -> Nat]
  BY <1>1, LenProperties DEF BatchIsPlaced, Batches
<1>4. k \in 1..Len(request)
  BY <1>1, <1>2, <1>3
<1> DEFINE s == request[k].slot
<1>5. s \in Slots /\ k \in Of(request, s)
  BY <1>3, <1>4, BatchElement DEF Of
<1>6. AppendPosition(s)
  <2>1. (CHOOSE j \in todo : \A x \in todo : j <= x) = k
    BY <1>2, <1>3, <1>4
  <2>2. QED
    BY <2>1 DEF AppendNext
<1> HIDE DEF s
<1>7. /\ Cardinality(Earlier(request, s, k)) < Count(s) /\ Count(s) \in Nat
      /\ Cardinality(Earlier(request, s, k)) \in Nat
  BY <1>3, <1>5, BatchCounts DEF Count
<1>8. Count(s) > 0 /\ base[s] + Count(s) > length[s]
  BY <1>2, <1>3, <1>5, <1>7
<1>9. QED
  BY <1>1, <1>5, <1>6, <1>8

\* A page that joins a table has a credit there that nobody shares.
LEMMA PageJoins ==
  ASSUME PagesExact, CreditsExact, WholePages, PagesOfBlocks, UNCHANGED blocks,
         NEW s \in Slots, NEW p \in free, table' = [table EXCEPT ![s] = Append(@, p)],
         length' = [length EXCEPT ![s] = @ + 1], Len(table[s]) + 1 <= Len(blocks[s])
  PROVE  WholePages' /\ PagesOfBlocks'
<1>1. PICK n \in Nat : n = Len(table[s])
  BY LenProperties DEF PagesExact
<1>2. /\ p \in Pages /\ table \in [Slots -> Seq(Pages)] /\ length \in [Slots -> Nat]
      /\ \A t \in Slots : IsInjective(blocks[t]) /\ Len(blocks[t]) \in Nat /\ DOMAIN blocks[t] = 1..Len(blocks[t])
      /\ \A t \in Slots : Len(table[t]) \in Nat /\ DOMAIN table[t] = 1..Len(table[t])
  BY LenProperties DEF PagesExact, CreditsExact
<1>3. \A t \in Slots : p \notin Range(table[t])
  BY HeldIsUsed
<1>4. /\ table'[s] \in Seq(Pages) /\ Len(table'[s]) = n + 1 /\ table'[s][n + 1] = p
      /\ \A i \in 1..n : table'[s][i] = table[s][i]
      /\ \A t \in Slots \ {s} : table'[t] = table[t]
  <2>1. table'[s] = Append(table[s], p) /\ table[s] \in Seq(Pages)
    BY <1>2
  <2>2. QED
    BY <1>1, <1>2, <2>1, AppendProperties
<1>5. Range(table'[s]) = Range(table[s]) \cup {p}
  <2>1. table'[s] = Append(table[s], p) /\ table[s] \in Seq(Pages)
    BY <1>2
  <2>2. QED
    BY <1>2, <2>1, AppendedTable
<1>6. \A t \in Slots : length'[t] \in Nat /\ length'[t] >= length[t] /\ length[t] \in Nat
  BY <1>2
<1>7. n + 1 \in 1..Len(blocks[s])
  BY <1>1, <1>2
<1>8. ASSUME NEW x \in Slots, NEW i \in 1..Len(table'[x])
      PROVE  \/ x = s /\ i = n + 1 /\ table'[x][i] = p
             \/ i \in 1..Len(table[x]) /\ table'[x][i] = table[x][i]
  BY <1>1, <1>4
<1>9. WholePages'
  <2> SUFFICES ASSUME NEW x \in Slots, NEW t \in Slots, NEW i \in 1..Len(table'[x]),
                      x # t, table'[x][i] \in Range(table'[t])
               PROVE  i * PageTokens <= length'[x]
    BY DEF WholePages
  <2>1. i \in 1..Len(table[x]) /\ table'[x][i] = table[x][i]
    <3>1. CASE x = s /\ i = n + 1 /\ table'[x][i] = p
      <4>1. table'[t] = table[t]
        BY <1>4, <3>1
      <4>2. QED
        BY <1>3, <3>1, <4>1
    <3>2. QED
      BY <1>8, <3>1
  <2>2. table[x][i] \in Range(table[x])
    BY <1>2, <2>1 DEF Range
  <2>3. table[x][i] \in Range(table[t])
    <3>1. Range(table'[t]) \subseteq Range(table[t]) \cup {p}
      BY <1>4, <1>5
    <3>2. QED
      BY <1>3, <2>1, <2>2, <3>1
  <2>4. i * PageTokens <= length[x] /\ i * PageTokens \in Nat
    BY <1>2, <2>1, <2>3, PagedKVAssumption DEF WholePages
  <2>5. QED
    BY <1>6, <2>4
<1>10. PagesOfBlocks'
  <2>1. ASSUME NEW x \in Slots PROVE Len(table'[x]) <= Len(blocks'[x])
    <3>1. CASE x = s
      BY <1>1, <1>4, <3>1
    <3>2. CASE x # s
      BY <1>4, <3>2 DEF PagesOfBlocks
    <3>3. QED
      BY <3>1, <3>2
  <2>2. \A x \in Slots : Len(table[x]) <= Len(blocks[x])
    BY DEF PagesOfBlocks
  <2>3. ASSUME NEW y \in Slots, NEW j \in 1..Len(table'[y]), blocks[s][n + 1] = blocks[y][j]
        PROVE  table'[y][j] = p
    <3>1. j \in 1..Len(blocks[y])
      BY <1>2, <1>4, <2>1, LenProperties
    <3>2. CASE y = s
      <4>1. j = n + 1
        BY <1>2, <1>7, <2>3, <3>1, <3>2 DEF IsInjective
      <4>2. QED
        BY <1>4, <3>2, <4>1
    <3>3. CASE y # s
      <4>1. blocks[y][j] \in Range(blocks[y])
        BY <1>2, <3>1 DEF Range
      <4>2. n + 1 \in (Len(table[s]) + 1)..Len(blocks[s])
        BY <1>1, <1>7
      <4>3. blocks[s][n + 1] \notin Range(blocks[y])
        BY <3>3, <4>2 DEF PagesOfBlocks
      <4>4. QED
        BY <2>3, <4>1, <4>3
    <3>4. QED
      BY <3>2, <3>3
  <2>4. ASSUME NEW x \in Slots, NEW y \in Slots, NEW i \in 1..Len(table'[x]), NEW j \in 1..Len(table'[y]),
               blocks'[x][i] = blocks'[y][j]
        PROVE  table'[x][i] = table'[y][j]
    <3>1. CASE x = s /\ i = n + 1
      <4>1. table'[y][j] = p
        BY <2>3, <2>4, <3>1
      <4>2. QED
        BY <1>4, <3>1, <4>1
    <3>2. CASE y = s /\ j = n + 1
      <4>1. table'[x][i] = p
        BY <2>3, <2>4, <3>2
      <4>2. QED
        BY <1>4, <3>2, <4>1
    <3>3. CASE ~(x = s /\ i = n + 1) /\ ~(y = s /\ j = n + 1)
      <4>1. /\ i \in 1..Len(table[x]) /\ table'[x][i] = table[x][i]
            /\ j \in 1..Len(table[y]) /\ table'[y][j] = table[y][j]
        BY <1>8, <3>3
      <4>2. \A k \in 1..Len(table[x]), l \in 1..Len(table[y]) :
              blocks[x][k] = blocks[y][l] => table[x][k] = table[y][l]
        BY DEF PagesOfBlocks
      <4>3. QED
        BY <2>4, <4>1, <4>2
    <3>4. QED
      BY <3>1, <3>2, <3>3
  <2>5. ASSUME NEW x \in Slots, NEW t \in Slots, NEW i \in (Len(table'[x]) + 1)..Len(blocks'[x]), x # t
        PROVE  blocks'[x][i] \notin Range(blocks'[t])
    <3>1. Len(table'[x]) \in Nat /\ Len(table'[x]) >= Len(table[x]) /\ Len(table[x]) \in Nat
      BY <1>1, <1>2, <1>4
    <3>2. i \in (Len(table[x]) + 1)..Len(blocks[x])
      BY <1>2, <3>1
    <3>3. QED
      BY <2>5, <3>2 DEF PagesOfBlocks
  <2>6. QED
    BY <2>1, <2>4, <2>5 DEF PagesOfBlocks
<1>11. QED
  BY <1>9, <1>10

LEMMA AppendKeepsCredits ==
  ASSUME Inv, CreditInv, AppendNext, UNCHANGED creditVars PROVE CreditInv'
<1>1. PICK s \in Slots : AppendPosition(s) /\ Count(s) > 0 /\ base[s] + Count(s) > length[s]
  BY NextToAppend
<1>2. /\ UNCHANGED <<pc, request, base, blocks, credits, limit>> /\ pc = "append"
      /\ PagesExact /\ CreditsExact /\ Budgets /\ WholePages /\ PagesOfBlocks
  BY NextToAppend DEF creditVars, Inv, CreditInv
<1>3. CreditsExact'
  BY <1>2 DEF CreditsExact, Owners
<1>4. Budgets'
  BY <1>2 DEF Budgets, Count, Of
<1>5. s \in RequestSlots /\ base[s] + Count(s) < limit[s] /\ limit[s] \in Nat /\ Len(blocks[s]) = PagesFor(limit[s])
  BY <1>1, <1>2 DEF Budgets
<1>6. /\ length[s] \in Nat /\ Len(table[s]) = PagesFor(length[s])
      /\ length' = [length EXCEPT ![s] = @ + 1] /\ length \in [Slots -> Nat]
  BY <1>1, <1>2 DEF PagesExact, AppendPosition
<1>7. length[s] + 1 <= limit[s]
  <2>1. base[s] + Count(s) \in Nat
    <3>1. BatchIsPlaced
      BY <1>2 DEF Inv, Running
    <3>2. Count(s) \in Nat /\ base[s] \in Nat
      BY <3>1, BatchCounts DEF Count, BatchIsPlaced
    <3>3. QED
      BY <3>2
  <2>2. QED
    BY <1>1, <1>5, <1>6, <2>1
<1>8. ~Copies(s)
  BY <1>2, NoCopies
<1>9. CASE Partial(s)
  <2>1. UNCHANGED table
    BY <1>1, <1>8, <1>9 DEF AppendPosition, NeedsPage
  <2>2. \A t \in Slots : length'[t] \in Nat /\ length'[t] >= length[t] /\ length[t] \in Nat
    BY <1>6
  <2>3. WholePages'
    <3> SUFFICES ASSUME NEW x \in Slots, NEW t \in Slots, NEW i \in 1..Len(table[x]),
                        x # t, table[x][i] \in Range(table[t])
                 PROVE  i * PageTokens <= length'[x]
      BY <2>1 DEF WholePages
    <3>1. i * PageTokens <= length[x] /\ i * PageTokens \in Nat
      BY <1>2, PagedKVAssumption DEF WholePages
    <3>2. QED
      BY <2>2, <3>1
  <2>4. PagesOfBlocks'
    BY <1>2, <2>1 DEF PagesOfBlocks
  <2>5. QED
    BY <1>3, <1>4, <2>3, <2>4 DEF CreditInv
<1>10. CASE ~Partial(s)
  <2>1. PICK p \in free : table' = [table EXCEPT ![s] = Append(@, p)]
    BY <1>1, <1>8, <1>10 DEF AppendPosition, NeedsPage
  <2>2. Len(table[s]) + 1 <= Len(blocks[s])
    <3>1. PagesFor(length[s] + 1) = Len(table[s]) + 1
      BY <1>6, <1>10, FullPages DEF Partial
    <3>2. PagesFor(length[s] + 1) <= PagesFor(limit[s])
      BY <1>5, <1>6, <1>7, PagesOfLengths
    <3>3. QED
      BY <1>5, <3>1, <3>2
  <2>3. WholePages' /\ PagesOfBlocks'
    BY <1>2, <1>6, <2>1, <2>2, PageJoins
  <2>4. QED
    BY <1>3, <1>4, <2>3 DEF CreditInv
<1>11. QED
  BY <1>9, <1>10

LEMMA FreshBlocks ==
  ASSUME CreditsExact, NEW need \in Nat, need <= Cardinality(Credits!FreeBlocks(credits)),
         NEW fresh, fresh = CHOOSE t \in Credits!FreshTables(credits, need) : TRUE
  PROVE  /\ fresh \in Seq(Blocks) /\ IsInjective(fresh) /\ Len(fresh) = need
         /\ Range(fresh) \subseteq Credits!FreeBlocks(credits)
<1> DEFINE F == Credits!FreeBlocks(credits)
<1>1. IsFiniteSet(F) /\ F \subseteq Blocks
  BY CreditAssumption, FS_Subset DEF Credits!FreeBlocks
<1>2. need <= Cardinality(F)
  OBVIOUS
<1>3. Credits!FreshTables(credits, need) = Injection(1..need, F)
  BY DEF Credits!FreshTables, Credits!Injection, Credits!IsInjective, Injection, IsInjective
<1> HIDE DEF F
<1>4. Injection(1..need, F) # {}
  BY <1>1, <1>2, EnoughToTake
<1>5. fresh \in Injection(1..need, F)
  BY <1>3, <1>4
<1>6. fresh \in [1..need -> F] /\ IsInjective(fresh)
  BY <1>5 DEF Injection
<1>7. fresh \in Seq(F) /\ Len(fresh) = need
  BY <1>6, FunctionIsSeq
<1>8. fresh \in Seq(Blocks)
  BY <1>1, <1>6, FunctionIsSeq
<1>9. Range(fresh) \subseteq F
  BY <1>6 DEF Range
<1>10. QED
  BY <1>6, <1>7, <1>8, <1>9 DEF F

LEMMA AdmitKeepsCredits ==
  ASSUME Inv, CreditInv, NEW s \in RequestSlots, Admit(s) PROVE CreditInv'
<1>1. /\ PagesExact /\ CreditsExact /\ Budgets /\ WholePages /\ PagesOfBlocks
      /\ s \in Slots /\ limit[s] = 0 /\ pc' = "idle" /\ Context \in Nat
  BY RuntimeAssumption DEF Inv, CreditInv, Admit, hostVars, RequestSlots
<1>2. PICK total \in 2..(Context + 1), c \in CacheSlots :
        \E p \in 1..(total - 1), n \in 0..(PageTokens * Len(blocks[c])) :
          /\ n % PageTokens = 0 /\ n < p
          /\ LET shared == SubSeq(blocks[c], 1, n \div PageTokens)
                 need   == PagesFor(total) - Len(shared)
             IN /\ need <= Cardinality(Credits!FreeBlocks(credits))
                /\ LET fresh == CHOOSE t \in Credits!FreshTables(credits, need) : TRUE
                   IN /\ blocks' = [blocks EXCEPT ![s] = shared \o fresh]
                      /\ credits' = Credits!Retained(Credits!Allocated(credits, fresh), shared)
             /\ SharePrefix(c, s, n)
          /\ limit' = [limit EXCEPT ![s] = total]
  BY ZenonT(30) DEF Admit
<1>3. PICK p \in 1..(total - 1), n \in 0..(PageTokens * Len(blocks[c])) :
        /\ n % PageTokens = 0 /\ n < p
        /\ LET shared == SubSeq(blocks[c], 1, n \div PageTokens)
               need   == PagesFor(total) - Len(shared)
           IN /\ need <= Cardinality(Credits!FreeBlocks(credits))
              /\ LET fresh == CHOOSE t \in Credits!FreshTables(credits, need) : TRUE
                 IN /\ blocks' = [blocks EXCEPT ![s] = shared \o fresh]
                    /\ credits' = Credits!Retained(Credits!Allocated(credits, fresh), shared)
           /\ SharePrefix(c, s, n)
        /\ limit' = [limit EXCEPT ![s] = total]
  BY <1>2
<1> DEFINE shared == SubSeq(blocks[c], 1, n \div PageTokens)
           need   == PagesFor(total) - Len(shared)
           fresh  == CHOOSE t \in Credits!FreshTables(credits, need) : TRUE
<1>4. /\ n \in Nat /\ total \in Nat /\ n <= total /\ c \in Slots
      /\ n % PageTokens = 0 /\ SharePrefix(c, s, n)
      /\ need <= Cardinality(Credits!FreeBlocks(credits))
      /\ blocks' = [blocks EXCEPT ![s] = shared \o fresh]
      /\ credits' = Credits!Retained(Credits!Allocated(credits, fresh), shared)
      /\ limit' = [limit EXCEPT ![s] = total]
  <2>1. n \in Nat
    BY <1>3
  <2>2. total \in Nat /\ n <= total /\ c \in Slots
    BY <1>1, <1>3, <2>1, CreditAssumption
  <2>3. QED
    BY <1>3, <2>1, <2>2
<1>5. PICK m \in Nat : m = n \div PageTokens /\ m = PagesFor(n) /\ m <= Len(blocks[c])
  <2>1. n \div PageTokens = PagesFor(n) /\ PagesFor(n) \in Nat
    BY <1>4, FullPages
  <2>2. PagesFor(n) <= Len(table[c])
    BY <1>1, <1>4, ShareKeepsPages
  <2>3. Len(table[c]) <= Len(blocks[c]) /\ Len(table[c]) \in Nat /\ Len(blocks[c]) \in Nat
    BY <1>1, <1>4, LenProperties DEF PagesOfBlocks, PagesExact, CreditsExact
  <2>4. QED
    BY <2>1, <2>2, <2>3
<1>6. Len(shared) = m
  <2>1. blocks[c] \in Seq(Blocks) /\ m \in 0..Len(blocks[c])
    BY <1>1, <1>4, <1>5, LenProperties DEF CreditsExact
  <2>2. QED
    BY <1>5, <2>1, PrefixTable
<1>7. need \in Nat /\ PagesFor(total) \in Nat
  <2>1. PagesFor(n) <= PagesFor(total) /\ PagesFor(total) \in Nat
    BY <1>4, PagesOfLengths
  <2>2. QED
    BY <1>5, <1>6, <2>1
<1>8. blocks[s] = <<>>
  <2>1. Len(blocks[s]) = 0 /\ blocks[s] \in Seq(Blocks)
    BY <1>1, PagesOfLengths DEF Budgets, CreditsExact
  <2>2. QED
    BY <2>1, EmptySeq
<1> HIDE DEF shared, need
<1>9. /\ fresh \in Seq(Blocks) /\ IsInjective(fresh) /\ Len(fresh) = need
      /\ Range(fresh) \subseteq Credits!FreeBlocks(credits)
  BY <1>1, <1>4, <1>7, FreshBlocks
<1> HIDE DEF fresh
<1>10. Shares(c, s, n, shared, fresh)
  BY <1>4, <1>8, <1>9 DEF Shares, shared
<1>11. CreditsExact' /\ WholePages' /\ PagesOfBlocks'
  BY <1>1, <1>4, <1>10, SharingKeepsCredits
<1>12. Len(blocks'[s]) = PagesFor(total) /\ \A x \in Slots \ {s} : blocks'[x] = blocks[x]
  <2>1. Len(blocks'[s]) = Len(shared) + Len(fresh) /\ \A x \in Slots \ {s} : blocks'[x] = blocks[x]
    BY <1>1, <1>4, <1>10, SharedTables DEF TablesShared
  <2>2. QED
    BY <1>5, <1>6, <1>7, <1>9, <2>1 DEF need
<1>13. Budgets'
  <2>1. limit' \in [RequestSlots -> Nat]
    BY <1>1, <1>4 DEF Budgets
  <2>2. ASSUME NEW r \in RequestSlots PROVE Len(blocks'[r]) = PagesFor(limit'[r])
    <3>1. CASE r = s
      BY <1>1, <1>4, <1>12, <3>1 DEF Budgets
    <3>2. CASE r # s
      BY <1>1, <1>4, <1>12, <3>2 DEF Budgets, RequestSlots
    <3>3. QED
      BY <3>1, <3>2
  <2>3. QED
    BY <1>1, <2>1, <2>2 DEF Budgets
<1>14. QED
  BY <1>11, <1>13 DEF CreditInv

LEMMA CachePromptKeepsCredits ==
  ASSUME Inv, CreditInv, NEW s \in RequestSlots, NEW c \in CacheSlots, CachePrompt(s, c) PROVE CreditInv'
<1> DEFINE none == <<>>
<1>1. /\ PagesExact /\ CreditsExact /\ Budgets /\ WholePages /\ PagesOfBlocks
      /\ s \in Slots /\ c \in Slots /\ c \notin RequestSlots /\ blocks[c] = none
      /\ pc' = "idle" /\ UNCHANGED limit
  BY CreditAssumption DEF Inv, CreditInv, CachePrompt, Cached, hostVars, RequestSlots
<1>2. PICK n \in 1..prompt[s] :
        /\ n % PageTokens = 0
        /\ LET shared == SubSeq(blocks[s], 1, n \div PageTokens)
           IN blocks' = [blocks EXCEPT ![c] = shared] /\ credits' = Credits!Retained(credits, shared)
        /\ SharePrefix(s, c, n)
  BY DEF CachePrompt
<1> DEFINE shared == SubSeq(blocks[s], 1, n \div PageTokens)
<1>3. /\ n \in Nat /\ n % PageTokens = 0 /\ SharePrefix(s, c, n)
      /\ blocks' = [blocks EXCEPT ![c] = shared] /\ credits' = Credits!Retained(credits, shared)
  BY <1>2
<1>4. shared \in Seq(Blocks)
  <2>1. n \div PageTokens = PagesFor(n) /\ PagesFor(n) \in 0..Len(table[s])
    BY <1>1, <1>3, FullPages, ShareKeepsPages
  <2>2. Len(table[s]) <= Len(blocks[s]) /\ Len(table[s]) \in Nat /\ Len(blocks[s]) \in Nat
    BY <1>1, LenProperties DEF PagesOfBlocks, PagesExact, CreditsExact
  <2>3. blocks[s] \in Seq(Blocks) /\ n \div PageTokens \in 0..Len(blocks[s])
    BY <1>1, <2>1, <2>2 DEF CreditsExact
  <2>4. QED
    BY <2>3, PrefixTable
<1> HIDE DEF shared
<1>5. none \in Seq(Blocks) /\ IsInjective(none) /\ Range(none) = {} /\ shared \o none = shared
  BY <1>4 DEF IsInjective, Range
<1>6. Credits!Allocated(credits, none) = credits
  <2>1. Credits!Range(none) = {}
    BY DEF Credits!Range
  <2>2. credits \in [Blocks -> Nat]
    BY <1>1 DEF CreditsExact
  <2> HIDE DEF none
  <2>3. Credits!Allocated(credits, none) = [b \in Blocks |-> credits[b]]
    BY <2>1 DEF Credits!Allocated
  <2>4. QED
    BY <2>2, <2>3
<1> HIDE DEF none
<1>7. Shares(s, c, n, shared, none)
  BY <1>1, <1>3, <1>5, <1>6 DEF Shares, shared, none
<1>8. CreditsExact' /\ WholePages' /\ PagesOfBlocks'
  BY <1>1, <1>7, SharingKeepsCredits
<1>9. Budgets'
  <2>1. \A r \in RequestSlots : blocks'[r] = blocks[r]
    BY <1>1, <1>3 DEF CreditsExact, RequestSlots
  <2>2. QED
    BY <1>1, <2>1 DEF Budgets
<1>10. QED
  BY <1>8, <1>9 DEF CreditInv

LEMMA EvictKeepsCredits ==
  ASSUME Inv, CreditInv, NEW c \in CacheSlots, Evict(c) PROVE CreditInv'
<1>1. /\ PagesExact /\ CreditsExact /\ Budgets /\ WholePages /\ PagesOfBlocks
      /\ c \in Slots /\ c \notin RequestSlots /\ GiveBack(c) /\ pc' = "idle" /\ UNCHANGED limit
  BY CreditAssumption DEF Inv, CreditInv, Evict, GiveBack, hostVars, RequestSlots
<1>2. CreditsExact' /\ WholePages' /\ PagesOfBlocks' /\ blocks' = [blocks EXCEPT ![c] = <<>>]
  BY <1>1, GivingBackKeepsCredits
<1>3. \A r \in RequestSlots : blocks'[r] = blocks[r]
  BY <1>1, <1>2 DEF CreditsExact, RequestSlots
<1>4. QED
  BY <1>1, <1>2, <1>3 DEF Budgets, CreditInv

LEMMA FinishKeepsCredits ==
  ASSUME Inv, CreditInv, NEW s \in RequestSlots, Finish(s) PROVE CreditInv'
<1>1. /\ PagesExact /\ CreditsExact /\ Budgets /\ WholePages /\ PagesOfBlocks
      /\ s \in Slots /\ GiveBack(s) /\ pc' = "idle" /\ limit' = [limit EXCEPT ![s] = 0]
  BY DEF Inv, CreditInv, Finish, GiveBack, hostVars, RequestSlots
<1>2. CreditsExact' /\ WholePages' /\ PagesOfBlocks' /\ blocks' = [blocks EXCEPT ![s] = <<>>]
  BY <1>1, GivingBackKeepsCredits
<1>3. ASSUME NEW r \in RequestSlots PROVE Len(blocks'[r]) = PagesFor(limit'[r])
  <2>1. CASE r = s
    <3>1. blocks'[r] = <<>> /\ limit'[r] = 0
      BY <1>1, <1>2, <2>1 DEF Budgets, CreditsExact
    <3>2. QED
      BY <3>1, PagesOfLengths
  <2>2. CASE r # s
    BY <1>1, <1>2, <2>2 DEF Budgets, CreditsExact, RequestSlots
  <2>3. QED
    BY <2>1, <2>2
<1>4. limit' \in [RequestSlots -> Nat]
  BY <1>1 DEF Budgets
<1>5. QED
  BY <1>1, <1>2, <1>3, <1>4 DEF Budgets, CreditInv

\* The steps that leave the tables as they are.
LEMMA TablesKept ==
  ASSUME CreditInv, UNCHANGED <<table, length, blocks, credits, limit>> PROVE CreditsExact' /\ WholePages' /\ PagesOfBlocks'
<1>1. CreditsExact /\ WholePages /\ PagesOfBlocks
  BY DEF CreditInv
<1>2. CreditsExact'
  BY <1>1 DEF CreditsExact, Owners
<1>3. WholePages'
  BY <1>1 DEF WholePages
<1>4. PagesOfBlocks'
  BY <1>1 DEF PagesOfBlocks
<1>5. QED
  BY <1>2, <1>3, <1>4

LEMMA BatchKeepsCredits ==
  ASSUME Inv, CreditInv, CreditedForward PROVE CreditInv'
<1>1. /\ UNCHANGED <<table, length, blocks, credits, limit>> /\ base' = length /\ Budgets
      /\ WithinLimits(Gains(request'))
  BY DEF CreditedForward, Forward, kvVars, creditVars, CreditInv
<1>2. ASSUME NEW s \in Slots, Count(s)' > 0 PROVE s \in RequestSlots /\ base'[s] + Count(s)' < limit'[s]
  <2>1. Gains(request')[s] = Count(s)'
    BY DEF Gains, Count, Of
  <2>2. s \in RequestSlots /\ length[s] + Gains(request')[s] < limit[s]
    BY <1>1, <1>2, <2>1 DEF WithinLimits
  <2>3. QED
    BY <1>1, <2>1, <2>2
<1>3. Budgets'
  BY <1>1, <1>2 DEF Budgets
<1>4. QED
  BY <1>1, <1>3, TablesKept DEF CreditInv

LEMMA RestKeepsCredits ==
  ASSUME CreditInv, UNCHANGED <<table, length, blocks, credits, limit>>,
         \/ pc' = "idle"
         \/ pc # "idle" /\ UNCHANGED <<request, base>>
         \/ UNCHANGED <<pc, request, base>>
  PROVE  CreditInv'
<1>1. Budgets'
  BY DEF CreditInv, Budgets, Count, Of
<1>2. QED
  BY <1>1, TablesKept DEF CreditInv

\* Sequences that may grow by pages for which they have credits find them free.
LEMMA CreditsCover ==
  ASSUME PagesExact, CreditsExact, PagesOfBlocks, NEW more \in [Slots -> Nat],
         \A s \in Slots : Len(table[s]) + more[s] <= Len(blocks[s])
  PROVE  Cardinality(Pairs(Slots, more)) <= Cardinality(free)
<1> DEFINE Credit(s, k) == blocks[s][Len(table[s]) + k]
           Spent == {b \in Blocks : \E s \in Slots : \E i \in 1..Len(table[s]) : blocks[s][i] = b}
           Used == Pages \ free
           credit == [x \in Pairs(Slots, more) |-> Credit(x[1], x[2])]
           page == [b \in Spent |->
                      CHOOSE p : \E s \in Slots : \E i \in 1..Len(table[s]) : blocks[s][i] = b /\ table[s][i] = p]
<1>1. \A s \in Slots : /\ Len(table[s]) \in Nat /\ DOMAIN table[s] = 1..Len(table[s])
                       /\ Len(blocks[s]) \in Nat /\ DOMAIN blocks[s] = 1..Len(blocks[s])
                       /\ blocks[s] \in Seq(Blocks) /\ IsInjective(blocks[s])
                       /\ Len(table[s]) <= Len(blocks[s])
  BY LenProperties DEF PagesExact, CreditsExact, PagesOfBlocks
<1>2. ASSUME NEW s \in Slots, NEW k \in 1..more[s]
      PROVE  /\ Len(table[s]) + k \in (Len(table[s]) + 1)..Len(blocks[s])
             /\ Len(table[s]) + k \in 1..Len(blocks[s])
             /\ Credit(s, k) \in Blocks /\ Credit(s, k) \in Range(blocks[s])
             /\ \A t \in Slots : s # t => Credit(s, k) \notin Range(blocks[t])
  <2>1. PICK n \in Nat, m \in Nat : n = Len(table[s]) /\ m = Len(blocks[s])
    BY <1>1
  <2>2. n + more[s] <= m /\ more[s] \in Nat
    BY <2>1
  <2>3. n + k \in (n + 1)..m /\ n + k \in 1..m
    BY <2>1, <2>2
  <2>4. blocks[s][n + k] \in Blocks /\ blocks[s][n + k] \in Range(blocks[s])
    BY <1>1, <2>1, <2>3, ElementOfSeq DEF Range
  <2>5. \A t \in Slots : s # t => blocks[s][n + k] \notin Range(blocks[t])
    BY <2>1, <2>3 DEF PagesOfBlocks
  <2>6. QED
    BY <2>1, <2>3, <2>4, <2>5
<1> HIDE DEF Credit, Spent, Used, credit, page
<1>3. ASSUME NEW s \in Slots, NEW t \in Slots, NEW k \in 1..more[s], NEW l \in 1..more[t],
             Credit(s, k) = Credit(t, l)
      PROVE  s = t /\ k = l
  <2>1. s = t
    BY <1>2, <1>3
  <2>2. PICK n \in Nat : n = Len(table[s])
    BY <1>1
  <2>3. n + k \in DOMAIN blocks[s] /\ n + l \in DOMAIN blocks[s] /\ blocks[s][n + k] = blocks[s][n + l]
    BY <1>1, <1>2, <1>3, <2>1, <2>2 DEF Credit
  <2>4. n + k = n + l
    BY <1>1, <2>3 DEF IsInjective
  <2>5. QED
    BY <2>1, <2>2, <2>4
<1>4. ASSUME NEW s \in Slots, NEW k \in 1..more[s] PROVE Credit(s, k) \notin Spent
  <2> SUFFICES ASSUME NEW t \in Slots, NEW i \in 1..Len(table[t]), blocks[t][i] = Credit(s, k) PROVE FALSE
    BY DEF Spent
  <2>1. i \in 1..Len(blocks[t])
    BY <1>1
  <2>2. blocks[t][i] \in Range(blocks[t])
    BY <1>1, <2>1 DEF Range
  <2>3. s = t
    BY <1>2, <2>2
  <2>4. PICK n \in Nat : n = Len(table[s])
    BY <1>1
  <2>5. n + k = i
    <3>1. n + k \in DOMAIN blocks[s] /\ i \in DOMAIN blocks[s] /\ blocks[s][n + k] = blocks[s][i]
      BY <1>1, <1>2, <2>1, <2>3, <2>4 DEF Credit
    <3>2. QED
      BY <1>1, <3>1 DEF IsInjective
  <2>6. QED
    BY <2>3, <2>4, <2>5
<1>5. /\ IsFiniteSet(Blocks) /\ Spent \subseteq Blocks /\ IsFiniteSet(Spent) /\ IsFiniteSet(Blocks \ Spent)
      /\ Cardinality(Blocks \ Spent) = Cardinality(Blocks) - Cardinality(Spent)
      /\ Cardinality(Spent) \in Nat /\ Cardinality(Blocks) \in Nat
  <2>1. IsFiniteSet(Blocks) /\ Spent \subseteq Blocks
    BY CreditAssumption DEF Spent
  <2>2. Blocks \cap Spent = Spent
    BY <2>1
  <2>3. IsFiniteSet(Spent)
    BY <2>1, FS_Subset
  <2>4. IsFiniteSet(Blocks \ Spent) /\ Cardinality(Blocks \ Spent) = Cardinality(Blocks) - Cardinality(Spent)
    BY <2>1, <2>2, FS_Difference
  <2>5. QED
    BY <2>1, <2>3, <2>4, FS_CardinalityType
<1>6. Cardinality(Pairs(Slots, more)) <= Cardinality(Blocks \ Spent)
  <2>1. \A x \in Pairs(Slots, more) : x = <<x[1], x[2]>> /\ x[1] \in Slots /\ x[2] \in 1..more[x[1]]
    BY DEF Pairs
  <2>2. \A x \in Pairs(Slots, more) : credit[x] = Credit(x[1], x[2])
    BY DEF credit
  <2>3. \A x \in Pairs(Slots, more) : credit[x] \in Blocks \ Spent
    BY <1>2, <1>4, <2>1, <2>2
  <2>4. credit \in [Pairs(Slots, more) -> Blocks \ Spent]
    BY <2>3 DEF credit
  <2>5. ASSUME NEW x \in Pairs(Slots, more), NEW y \in Pairs(Slots, more), credit[x] = credit[y] PROVE x = y
    <3>1. x[1] = y[1] /\ x[2] = y[2]
      BY <1>3, <2>1, <2>2, <2>5
    <3>2. QED
      BY <2>1, <3>1
  <2>6. credit \in Injection(Pairs(Slots, more), Blocks \ Spent)
    BY <2>4, <2>5 DEF Injection, IsInjective
  <2>7. QED
    BY <1>5, <2>6, FS_Injection
<1>7. Cardinality(Used) <= Cardinality(Spent)
  <2>1. ASSUME NEW s \in Slots, NEW i \in 1..Len(table[s])
        PROVE  blocks[s][i] \in Spent /\ page[blocks[s][i]] = table[s][i]
    <3>1. i \in 1..Len(blocks[s])
      BY <1>1
    <3>2. blocks[s][i] \in Blocks
      BY <1>1, <3>1, ElementOfSeq
    <3>3. blocks[s][i] \in Spent
      BY <3>2 DEF Spent
    <3>4. ASSUME NEW t \in Slots, NEW j \in 1..Len(table[t]), blocks[t][j] = blocks[s][i]
          PROVE  table[t][j] = table[s][i]
      <4>1. \A k \in 1..Len(table[t]), l \in 1..Len(table[s]) :
              blocks[t][k] = blocks[s][l] => table[t][k] = table[s][l]
        BY DEF PagesOfBlocks
      <4>2. QED
        BY <3>4, <4>1
    <3>5. \A p : (\E t \in Slots : \E j \in 1..Len(table[t]) : blocks[t][j] = blocks[s][i] /\ table[t][j] = p)
                   <=> p = table[s][i]
      BY <3>4
    <3>6. QED
      BY <3>3, <3>5 DEF page
  <2> DEFINE T == {page[b] : b \in Spent}
  <2>2. IsFiniteSet(T) /\ Cardinality(T) <= Cardinality(Spent)
    <3>1. page \in Surjection(Spent, T)
      <4>1. page \in [Spent -> T] /\ \A t \in T : \E b \in Spent : page[b] = t
        BY DEF page
      <4>2. QED
        BY <4>1 DEF Surjection
    <3>2. QED
      BY <1>5, <3>1, FS_Surjection
  <2>3. Used \subseteq T
    <3> SUFFICES ASSUME NEW p \in Used PROVE \E b \in Spent : page[b] = p
      OBVIOUS
    <3>1. p \in Pages /\ refs[p] # 0 /\ refs[p] = Cardinality(Holders(p))
      BY DEF Used, PagesExact
    <3>2. Holders(p) # {}
      BY <3>1, FS_EmptySet
    <3>3. PICK s \in Slots : p \in Range(table[s])
      BY <3>2 DEF Holders
    <3>4. PICK i \in 1..Len(table[s]) : table[s][i] = p
      BY <1>1, <3>3 DEF Range
    <3>5. QED
      BY <2>1, <3>4
  <2> HIDE DEF T
  <2>4. Cardinality(Used) <= Cardinality(T) /\ Cardinality(Used) \in Nat /\ Cardinality(T) \in Nat
    BY <2>2, <2>3, FS_Subset, FS_CardinalityType
  <2>5. QED
    BY <1>5, <2>2, <2>4
<1>8. /\ Cardinality(Used) = Cardinality(Pages) - Cardinality(free)
      /\ Cardinality(free) \in Nat /\ Cardinality(Pages) \in Nat
  <2>1. free \subseteq Pages /\ IsFiniteSet(Pages)
    BY PagedKVAssumption DEF PagesExact
  <2>2. Pages \cap free = free
    BY <2>1
  <2>3. Cardinality(Used) = Cardinality(Pages) - Cardinality(free)
    BY <2>1, <2>2, FS_Difference DEF Used
  <2>4. QED
    BY <2>1, <2>3, FS_Subset, FS_CardinalityType
<1>9. Cardinality(Pairs(Slots, more)) \in Nat /\ Cardinality(Blocks) = Cardinality(Pages)
  BY PairsAreFinite, PagedKVAssumption, CreditAssumption
<1>10. QED
  BY <1>5, <1>6, <1>7, <1>8, <1>9

LEMMA InvNeverRefuses == Inv /\ CreditInv => NeverRefused
<1> SUFFICES ASSUME Inv, CreditInv, NEW more \in [RequestSlots -> 0..BatchTokens],
                    WithinLimits([s \in Slots |-> IF s \in RequestSlots THEN more[s] ELSE 0])
             PROVE  PagesNeeded([s \in Slots |-> IF s \in RequestSlots THEN more[s] ELSE 0]) <= Cardinality(free)
  BY DEF NeverRefused
<1> DEFINE all == [s \in Slots |-> IF s \in RequestSlots THEN more[s] ELSE 0]
           needs == [s \in Slots |-> NeededForSlot(s, all[s])]
<1>1. all \in [Slots -> Nat] /\ WithinLimits(all)
  BY RuntimeAssumption
<1> HIDE DEF all
<1>2. PagesExact /\ CreditsExact /\ Budgets /\ WholePages /\ PagesOfBlocks
  BY DEF Inv, CreditInv
<1>3. ASSUME NEW s \in Slots
      PROVE  NeededForSlot(s, all[s]) \in Nat /\ Len(table[s]) + NeededForSlot(s, all[s]) <= Len(blocks[s])
  <2>1. /\ Len(table[s]) = PagesFor(length[s]) /\ length[s] \in Nat /\ Len(table[s]) \in Nat
        /\ Len(table[s]) <= Len(blocks[s]) /\ Len(blocks[s]) \in Nat
    BY <1>2, LenProperties DEF PagesExact, CreditsExact, PagesOfBlocks
  <2>2. CASE all[s] = 0
    BY <2>1, <2>2 DEF NeededForSlot
  <2>3. CASE all[s] # 0
    <3>1. s \in RequestSlots /\ length[s] + all[s] < limit[s] /\ all[s] \in Nat
      BY <1>1, <2>3 DEF WithinLimits
    <3>2. limit[s] \in Nat /\ Len(blocks[s]) = PagesFor(limit[s])
      BY <1>2, <3>1 DEF Budgets
    <3>3. /\ PagesFor(length[s] + all[s]) <= PagesFor(limit[s])
          /\ PagesFor(length[s]) <= PagesFor(length[s] + all[s])
          /\ PagesFor(length[s] + all[s]) \in Nat
      <4>1. /\ length[s] + all[s] \in Nat /\ length[s] + all[s] <= limit[s]
            /\ length[s] <= length[s] + all[s]
        BY <2>1, <3>1, <3>2
      <4>2. QED
        BY <2>1, <3>2, <4>1, PagesOfLengths
    <3>4. ~Copies(s)
      BY <1>2, NoCopies
    <3>5. NeededForSlot(s, all[s]) = PagesFor(length[s] + all[s]) - PagesFor(length[s])
      BY <2>1, <2>3, <3>3, <3>4 DEF NeededForSlot
    <3>6. QED
      BY <2>1, <3>2, <3>3, <3>5
  <2>4. QED
    BY <2>2, <2>3
<1>4. needs \in [Slots -> Nat] /\ \A s \in Slots : Len(table[s]) + needs[s] <= Len(blocks[s])
  BY <1>3
<1>5. PagesNeeded(all) = Cardinality(Pairs(Slots, needs))
  BY DEF PagesNeeded, Pairs
<1> HIDE DEF needs
<1>6. PagesNeeded(all) <= Cardinality(free)
  BY <1>2, <1>4, <1>5, CreditsCover
<1>7. QED
  BY <1>6 DEF all

LEMMA CreditInvStarts == CreditedInit => Inv /\ CreditInv
<1> SUFFICES ASSUME CreditedInit PROVE Inv /\ CreditInv
  OBVIOUS
<1> DEFINE none == <<>>
<1>1. /\ Init /\ table = [s \in Slots |-> none] /\ length = [s \in Slots |-> 0] /\ pc = "idle"
      /\ blocks = [s \in Slots |-> none] /\ credits = [b \in Blocks |-> 0]
      /\ limit = [s \in RequestSlots |-> 0]
  BY DEF CreditedInit, Init, InitKV
<1>2. none \in Seq(Blocks) /\ IsInjective(none) /\ Range(none) = {} /\ Len(none) = 0
  BY DEF IsInjective, Range
<1> HIDE DEF none
<1>3. CreditsExact
  <2>1. \A b : Owners(b) = {}
    BY <1>1, <1>2 DEF Owners
  <2>2. QED
    BY <1>1, <1>2, <2>1, FS_EmptySet DEF CreditsExact
<1>4. Budgets
  BY <1>1, <1>2, PagesOfLengths DEF Budgets, RequestSlots
<1>5. WholePages
  BY <1>1, <1>2 DEF WholePages
<1>6. PagesOfBlocks
  BY <1>1, <1>2 DEF PagesOfBlocks
<1>7. QED
  BY <1>1, <1>3, <1>4, <1>5, <1>6, InvStarts DEF CreditInv

\* The Engine uses the runtime as it is.
LEMMA EngineUsesRuntime == Inv /\ [CreditedNext]_creditedVars => [Next]_vars
<1> SUFFICES ASSUME Inv, [CreditedNext]_creditedVars PROVE Next \/ UNCHANGED vars
  OBVIOUS
<1>1. ASSUME NEW a \in Slots, NEW b \in Slots, NEW n \in Nat, SharePrefix(a, b, n), pc = "idle", UNCHANGED hostVars
      PROVE  Share
  <2>1. n <= length[a] /\ length[a] \in Nat
    BY <1>1 DEF SharePrefix, Inv, PagesExact
  <2>2. n \in 0..length[a]
    BY <2>1
  <2>3. QED
    BY <1>1, <2>2 DEF Share
<1>2. ASSUME NEW s \in RequestSlots, Admit(s) PROVE Share
  <2>1. PICK total \in 2..(Context + 1), c \in CacheSlots :
          \E p \in 1..(total - 1), n \in 0..(PageTokens * Len(blocks[c])) : SharePrefix(c, s, n)
    BY <1>2 DEF Admit
  <2>2. PICK n \in 0..(PageTokens * Len(blocks[c])) : SharePrefix(c, s, n)
    BY <2>1
  <2>3. c \in Slots /\ s \in Slots /\ pc = "idle" /\ UNCHANGED hostVars /\ n \in Nat
    BY <1>2, <2>2, CreditAssumption DEF Admit, RequestSlots
  <2>4. QED
    BY <1>1, <2>2, <2>3
<1>3. ASSUME NEW s \in RequestSlots, NEW c \in CacheSlots, CachePrompt(s, c) PROVE Share
  <2>1. PICK n \in 1..prompt[s] : SharePrefix(s, c, n)
    BY <1>3 DEF CachePrompt
  <2>2. c \in Slots /\ s \in Slots /\ pc = "idle" /\ UNCHANGED hostVars /\ n \in Nat
    BY <1>3, <2>1, CreditAssumption DEF CachePrompt, RequestSlots
  <2>3. QED
    BY <1>1, <2>1, <2>2
<1>4. ASSUME NEW s \in Slots, pc = "idle", GiveBack(s) PROVE ClearSequence
  BY <1>4 DEF GiveBack, Emptied, ClearSequence
<1>5. CASE \E s \in RequestSlots : Admit(s) \/ Finish(s) \/ \E c \in CacheSlots : CachePrompt(s, c)
  BY <1>2, <1>3, <1>4, <1>5 DEF Finish, Next, RequestSlots
<1>6. CASE \E c \in CacheSlots : Evict(c)
  BY <1>4, <1>6, CreditAssumption DEF Evict, Next
<1>7. CASE CreditedForward
  BY <1>7 DEF CreditedForward, Next
<1>8. CASE (AppendNext \/ Compute \/ Store \/ Attend) /\ UNCHANGED creditVars
  BY <1>8 DEF Next
<1>9. CASE UNCHANGED creditedVars
  BY <1>9 DEF creditedVars
<1>10. QED
  BY <1>5, <1>6, <1>7, <1>8, <1>9 DEF CreditedNext

LEMMA CreditInvStays == Inv /\ CreditInv /\ [CreditedNext]_creditedVars => CreditInv'
<1> SUFFICES ASSUME Inv, CreditInv, [CreditedNext]_creditedVars PROVE CreditInv'
  OBVIOUS
<1>1. ASSUME NEW s \in RequestSlots, Admit(s) \/ Finish(s) \/ \E c \in CacheSlots : CachePrompt(s, c)
      PROVE  CreditInv'
  BY <1>1, AdmitKeepsCredits, FinishKeepsCredits, CachePromptKeepsCredits
<1>2. CASE \E c \in CacheSlots : Evict(c)
  BY <1>2, EvictKeepsCredits
<1>3. CASE CreditedForward
  BY <1>3, BatchKeepsCredits
<1>4. CASE AppendNext /\ UNCHANGED creditVars
  BY <1>4, AppendKeepsCredits
<1>5. CASE (Compute \/ Store) /\ UNCHANGED creditVars
  <2>1. UNCHANGED <<table, length, blocks, credits, limit, request, base>> /\ pc # "idle"
    BY <1>5 DEF Compute, Store, StorePosition, kvVars, creditVars
  <2>2. QED
    BY <2>1, RestKeepsCredits
<1>6. CASE Attend /\ UNCHANGED creditVars
  <2>1. UNCHANGED <<table, length, blocks, credits, limit>> /\ pc' = "idle"
    BY <1>6 DEF Attend, Return, kvVars, creditVars
  <2>2. QED
    BY <2>1, RestKeepsCredits
<1>7. CASE UNCHANGED creditedVars
  <2>1. UNCHANGED <<table, length, blocks, credits, limit, pc, request, base>>
    BY <1>7 DEF creditedVars, vars, kvVars, hostVars, creditVars
  <2>2. QED
    BY <2>1, RestKeepsCredits
<1>8. QED
  BY <1>1, <1>2, <1>3, <1>4, <1>5, <1>6, <1>7 DEF CreditedNext

\* A request that was admitted with block credits for its prompt and all of
\* its output never meets a forward() that lacks pages, whatever is shared,
\* cached and evicted beside it: the Engine's "batch exceeds available pages"
\* does not occur.
THEOREM NotRefused == CreditedSpec => []NeverRefused
<1>1. Inv /\ CreditInv /\ [CreditedNext]_creditedVars => (Inv /\ CreditInv)'
  BY EngineUsesRuntime, InvStays, CreditInvStays
<1>2. QED
  BY <1>1, CreditInvStarts, InvNeverRefuses, PTL DEF CreditedSpec
=============================================================================
