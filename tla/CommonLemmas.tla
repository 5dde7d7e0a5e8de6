----------------------------- MODULE CommonLemmas -----------------------------
(***************************************************************************)
(* Lemmas that the proofs about several components share: quotients, which *)
(* blocks and pages are counted with, tables (sequences of blocks or       *)
(* pages), sets of holders, ranks in a batch, and queues.                  *)
(***************************************************************************)
EXTENDS Naturals, Sequences, FiniteSets, Functions, SequenceTheorems, FiniteSetTheorems, TLAPS

LEMMA Quotient ==
  ASSUME NEW a \in Nat, NEW d \in Nat \ {0}
  PROVE  a \div d \in Nat /\ d * (a \div d) <= a /\ a < d * (a \div d) + d
<1>1. a = d * (a \div d) + (a % d) /\ a % d \in 0..(d - 1) /\ a \div d \in Nat
  OBVIOUS
<1>2. PICK m \in Nat : m = d * (a \div d)
  BY <1>1
<1>3. QED
  BY <1>1, <1>2

LEMMA QuotientGrows ==
  ASSUME NEW a \in Nat, NEW b \in Nat, NEW d \in Nat \ {0}, a <= b
  PROVE  a \div d <= b \div d
<1>1. PICK p \in Nat : p = a \div d
  BY Quotient
<1>2. PICK q \in Nat : q = b \div d
  BY Quotient
<1>3. d * p <= a /\ b < d * q + d
  BY <1>1, <1>2, Quotient
<1>4. ASSUME p >= q + 1 PROVE FALSE
  <2>1. PICK e \in Nat : p = q + 1 + e
    BY <1>4
  <2>2. d * p = d * q + d + d * e /\ d * e \in Nat /\ d * q \in Nat
    BY <2>1
  <2>3. PICK x \in Nat, y \in Nat : x = d * q /\ y = d * e
    BY <2>2
  <2>4. QED
    BY <1>3, <2>2, <2>3
<1>5. QED
  BY <1>1, <1>2, <1>4

\* A quotient and a remainder are the only ones of their kind.
LEMMA QuotientIs ==
  ASSUME NEW d \in Nat \ {0}, NEW q \in Nat, NEW r \in 0..(d - 1), NEW a, a = d * q + r
  PROVE  a \in Nat /\ a \div d = q /\ a % d = r
<1>1. d * q \in Nat /\ a \in Nat
  OBVIOUS
<1>2. PICK p \in Nat : p = a \div d
  BY <1>1, Quotient
<1>3. d * p <= a /\ a < d * p + d /\ d * p \in Nat
  BY <1>1, <1>2, Quotient
<1>4. ASSUME NEW x \in Nat, NEW y \in Nat, d * x <= a, a < d * y + d PROVE ~(x >= y + 1)
  <2> SUFFICES ASSUME x >= y + 1 PROVE FALSE
    OBVIOUS
  <2>1. PICK e \in Nat : x = y + 1 + e
    OBVIOUS
  <2>2. d * x = d * y + d + d * e /\ d * e \in Nat /\ d * y \in Nat
    BY <2>1
  <2>3. PICK u \in Nat, v \in Nat : u = d * y /\ v = d * e
    BY <2>2
  <2>4. QED
    BY <1>1, <1>4, <2>2, <2>3
<1>5. PICK m \in Nat : m = d * q
  BY <1>1
<1>6. d * q <= a /\ a < d * q + d
  BY <1>5
<1>7. ~(p >= q + 1) /\ ~(q >= p + 1)
  BY <1>3, <1>4, <1>6
<1>8. p = q
  BY <1>7
<1>9. a = d * p + (a % d) /\ a % d \in 0..(d - 1)
  BY <1>1, <1>2
<1>10. QED
  BY <1>2, <1>5, <1>8, <1>9

-----------------------------------------------------------------------------
\* A function on 1..n is a sequence of length n.
LEMMA FunctionIsSeq ==
  ASSUME NEW S, NEW n \in Nat, NEW f \in [1..n -> S]
  PROVE  f \in Seq(S) /\ Len(f) = n
  OBVIOUS

\* Two tables with no block in common make one table.
LEMMA ConcatTables ==
  ASSUME NEW S, NEW s \in Seq(S), NEW t \in Seq(S)
  PROVE  /\ s \o t \in Seq(S)
         /\ Range(s \o t) = Range(s) \cup Range(t)
         /\ IsInjective(s) /\ IsInjective(t) /\ Range(s) \cap Range(t) = {}
              => IsInjective(s \o t)
<1> DEFINE u == s \o t
<1>1. /\ u \in Seq(S) /\ Len(u) = Len(s) + Len(t)
      /\ Len(s) \in Nat /\ Len(t) \in Nat
      /\ DOMAIN u = 1..(Len(s) + Len(t)) /\ DOMAIN s = 1..Len(s) /\ DOMAIN t = 1..Len(t)
      /\ \A i \in 1..(Len(s) + Len(t)) : u[i] = IF i <= Len(s) THEN s[i] ELSE t[i - Len(s)]
  BY ConcatProperties, LenProperties
<1> HIDE DEF u
<1>2. Range(u) = Range(s) \cup Range(t)
  <2>1. ASSUME NEW i \in 1..Len(s) PROVE i \in DOMAIN u /\ u[i] = s[i]
    BY <1>1
  <2>2. ASSUME NEW i \in 1..Len(t)
        PROVE  Len(s) + i \in DOMAIN u /\ u[Len(s) + i] = t[i]
    BY SMTT(30), <1>1
  <2>3. ASSUME NEW i \in DOMAIN u PROVE u[i] \in Range(s) \cup Range(t)
    <3>1. CASE i <= Len(s)
      BY <1>1, <3>1 DEF Range
    <3>2. CASE i > Len(s)
      <4>1. i - Len(s) \in 1..Len(t) /\ u[i] = t[i - Len(s)]
        BY <1>1, <3>2
      <4>2. QED
        BY <1>1, <4>1 DEF Range
    <3>3. QED
      BY <1>1, <3>1, <3>2
  <2>4. Range(u) \subseteq Range(s) \cup Range(t)
    BY <2>3 DEF Range
  <2>5. ASSUME NEW x \in Range(s) PROVE x \in Range(u)
    <3>1. PICK i \in 1..Len(s) : x = s[i]
      BY <1>1 DEF Range
    <3>2. QED
      BY <2>1, <3>1 DEF Range
  <2>6. ASSUME NEW x \in Range(t) PROVE x \in Range(u)
    <3>1. PICK i \in 1..Len(t) : x = t[i]
      BY <1>1 DEF Range
    <3>2. QED
      BY <2>2, <3>1 DEF Range
  <2>7. QED
    BY <2>4, <2>5, <2>6
<1>3. ASSUME IsInjective(s), IsInjective(t), Range(s) \cap Range(t) = {}
      PROVE  IsInjective(u)
  <2> SUFFICES ASSUME NEW i \in DOMAIN u, NEW j \in DOMAIN u, u[i] = u[j] PROVE i = j
    BY DEF IsInjective
  <2>1. CASE i <= Len(s) /\ j <= Len(s)
    BY <1>1, <1>3, <2>1 DEF IsInjective
  <2>2. CASE i > Len(s) /\ j > Len(s)
    <3>1. i - Len(s) \in DOMAIN t /\ j - Len(s) \in DOMAIN t
      BY <1>1, <2>2
    <3>2. t[i - Len(s)] = t[j - Len(s)]
      BY <1>1, <2>2
    <3>3. i - Len(s) = j - Len(s)
      BY <1>3, <3>1, <3>2 DEF IsInjective
    <3>4. QED
      BY <1>1, <3>3
  <2>3. CASE i <= Len(s) /\ j > Len(s)
    <3>1. i \in DOMAIN s /\ j - Len(s) \in DOMAIN t /\ s[i] = t[j - Len(s)]
      BY <1>1, <2>3
    <3>2. QED
      BY <1>3, <3>1 DEF Range
  <2>4. CASE i > Len(s) /\ j <= Len(s)
    <3>1. j \in DOMAIN s /\ i - Len(s) \in DOMAIN t /\ s[j] = t[i - Len(s)]
      BY <1>1, <2>4
    <3>2. QED
      BY <1>3, <3>1 DEF Range
  <2>5. QED
    BY <1>1, <2>1, <2>2, <2>3, <2>4
<1>4. QED
  BY <1>1, <1>2, <1>3 DEF u

LEMMA AppendedTable ==
  ASSUME NEW S, NEW s \in Seq(S), NEW e \in S
  PROVE  Append(s, e) \in Seq(S) /\ Range(Append(s, e)) = Range(s) \cup {e}
<1> DEFINE t == <<e>>
<1>1. t \in Seq(S) /\ Range(t) = {e}
  BY DEF Range
<1>2. Append(s, e) = s \o t
  BY AppendIsConcat
<1> HIDE DEF t
<1>3. s \o t \in Seq(S) /\ Range(s \o t) = Range(s) \cup Range(t)
  BY <1>1, ConcatTables
<1>4. QED
  BY <1>1, <1>2, <1>3

\* The first n blocks of a table make a table.
LEMMA PrefixTable ==
  ASSUME NEW S, NEW t \in Seq(S), NEW n \in 0..Len(t)
  PROVE  /\ SubSeq(t, 1, n) \in Seq(S)
         /\ Len(SubSeq(t, 1, n)) = n
         /\ DOMAIN SubSeq(t, 1, n) = 1..n
         /\ \A i \in 1..n : SubSeq(t, 1, n)[i] = t[i]
         /\ Range(SubSeq(t, 1, n)) \subseteq Range(t)
         /\ IsInjective(t) => IsInjective(SubSeq(t, 1, n))
<1> DEFINE u == SubSeq(t, 1, n)
<1>1. Len(t) \in Nat /\ DOMAIN t = 1..Len(t) /\ \A i \in 1..n : t[i] \in S
  BY LenProperties, ElementOfSeq
<1>2. u \in Seq(S) /\ Len(u) = n /\ \A i \in 1..n : u[i] = t[i]
  BY <1>1, SubSeqProperties
<1>3. DOMAIN u = 1..n
  BY <1>2, LenProperties
<1> HIDE DEF u
<1>4. Range(u) \subseteq Range(t)
  BY <1>1, <1>2, <1>3 DEF Range
<1>5. IsInjective(t) => IsInjective(u)
  BY <1>1, <1>2, <1>3 DEF IsInjective
<1>6. QED
  BY <1>2, <1>3, <1>4, <1>5 DEF u

LEMMA AfterPlace ==
  ASSUME NEW n \in Nat, NEW i \in 1..n
  PROVE  /\ i \in Int /\ i <= n /\ n - (i + 1) + 1 = n - i /\ (~(i + 1 <= n) => n - i = 0)
         /\ \A k \in 1..(n - i) : (i + 1) + k - 1 = i + k
<1>1. i \in Int /\ i <= n
  OBVIOUS
<1>2. \A k \in 1..(n - i) : (i + 1) + k - 1 = i + k
  BY <1>1
<1>3. n - (i + 1) + 1 = n - i /\ (~(i + 1 <= n) => n - i = 0)
  BY <1>1
<1>4. QED
  BY <1>1, <1>2, <1>3

\* A sequence without one of its places.
LEMMA CutOne ==
  ASSUME NEW S, NEW t \in Seq(S), NEW i \in 1..Len(t)
  PROVE  LET c == SubSeq(t, 1, i - 1) \o SubSeq(t, i + 1, Len(t))
         IN /\ c \in Seq(S) /\ Len(c) = Len(t) - 1 /\ DOMAIN c = 1..(Len(t) - 1)
            /\ \A k \in 1..(Len(t) - 1) : c[k] = IF k < i THEN t[k] ELSE t[k + 1]
<1> DEFINE u == SubSeq(t, 1, i - 1)
           v == SubSeq(t, i + 1, Len(t))
<1>1. Len(t) \in Nat /\ DOMAIN t = 1..Len(t) /\ \A k \in 1..Len(t) : t[k] \in S
  BY LenProperties, ElementOfSeq
<1>2. i \in 1..Len(t)
  OBVIOUS
<1>3. u \in Seq(S) /\ Len(u) = i - 1 /\ DOMAIN u = 1..(i - 1) /\ \A k \in 1..(i - 1) : u[k] = t[k]
  <2>1. i - 1 \in 0..Len(t)
    BY <1>1, <1>2
  <2>2. QED
    BY <1>1, <2>1, PrefixTable
<1>4. /\ v \in Seq(S) /\ Len(v) = Len(t) - i /\ DOMAIN v = 1..(Len(t) - i)
      /\ \A k \in 1..(Len(t) - i) : v[k] = t[i + k]
  <2>1. i + 1 \in 1..(Len(t) + 1) /\ \A k \in (i + 1)..Len(t) : t[k] \in S
    BY <1>1, <1>2
  <2>2. v \in Seq(S) /\ Len(v) = (IF i + 1 <= Len(t) THEN Len(t) - (i + 1) + 1 ELSE 0)
        /\ \A k \in 1..(Len(t) - (i + 1) + 1) : v[k] = t[(i + 1) + k - 1]
    BY <1>1, <2>1, SubSeqProperties
  <2>3. Len(v) = Len(t) - i /\ \A k \in 1..(Len(t) - i) : v[k] = t[i + k]
    <3>1. /\ i \in Int /\ i <= Len(t) /\ Len(t) - (i + 1) + 1 = Len(t) - i
          /\ (~(i + 1 <= Len(t)) => Len(t) - i = 0)
      BY <1>1, <1>2, AfterPlace
    <3>2. \A k \in 1..(Len(t) - i) : (i + 1) + k - 1 = i + k
      BY <1>1, <1>2, AfterPlace
    <3>3. Len(v) = Len(t) - i
      BY <2>2, <3>1
    <3>4. QED
      BY <2>2, <3>1, <3>2, <3>3
  <2>4. QED
    BY <2>2, <2>3, LenProperties
<1> HIDE DEF u, v
<1>5. /\ u \o v \in Seq(S) /\ Len(u \o v) = Len(t) - 1 /\ DOMAIN (u \o v) = 1..(Len(t) - 1)
      /\ \A k \in 1..(Len(t) - 1) : (u \o v)[k] = IF k < i THEN t[k] ELSE t[k + 1]
  <2>1. /\ u \o v \in Seq(S) /\ Len(u \o v) = Len(u) + Len(v) /\ DOMAIN (u \o v) = 1..Len(u \o v)
        /\ \A k \in 1..(Len(u) + Len(v)) :
             (u \o v)[k] = IF k <= Len(u) THEN u[k] ELSE v[k - Len(u)]
    BY <1>3, <1>4, ConcatProperties, LenProperties
  <2>2. Len(u) + Len(v) = Len(t) - 1
    BY <1>1, <1>2, <1>3, <1>4
  <2>3. ASSUME NEW k \in 1..(Len(t) - 1) PROVE (u \o v)[k] = IF k < i THEN t[k] ELSE t[k + 1]
    <3>1. CASE k < i
      <4>1. k \in 1..(i - 1) /\ k <= Len(u)
        BY <1>1, <1>2, <1>3, <3>1
      <4>2. QED
        BY <1>3, <2>1, <2>2, <3>1, <4>1
    <3>2. CASE ~(k < i)
      <4>1. k - (i - 1) \in 1..(Len(t) - i) /\ ~(k <= i - 1) /\ i + (k - (i - 1)) = k + 1
        BY <1>1, <1>2, <3>2
      <4>2. PICK j : j = k - (i - 1)
        OBVIOUS
      <4>3. v[j] = t[i + j] /\ i + j = k + 1
        BY <1>4, <4>1, <4>2
      <4>4. (u \o v)[k] = IF k <= Len(u) THEN u[k] ELSE v[k - Len(u)]
        BY <2>1, <2>2
      <4>5. ~(k <= Len(u)) /\ k - Len(u) = j
        BY <1>3, <4>1, <4>2
      <4>6. QED
        BY <3>2, <4>3, <4>4, <4>5
    <3>3. QED
      BY <3>1, <3>2
  <2>4. QED
    BY <2>1, <2>2, <2>3
<1>6. QED
  BY <1>5 DEF u, v

\* The holders of a block, when one more of them holds it or one less.
LEMMA OneMore ==
  ASSUME NEW S, IsFiniteSet(S), NEW x, x \notin S
  PROVE  IsFiniteSet(S \cup {x}) /\ Cardinality(S \cup {x}) = Cardinality(S) + 1
  BY FS_AddElement

LEMMA OneLess ==
  ASSUME NEW S, IsFiniteSet(S), NEW x \in S
  PROVE  IsFiniteSet(S \ {x}) /\ Cardinality(S \ {x}) = Cardinality(S) - 1
         /\ Cardinality(S) \in Nat /\ Cardinality(S) > 0
  BY FS_RemoveElement, FS_CardinalityType, FS_EmptySet

-----------------------------------------------------------------------------
(***************************************************************************)
(* Sums over finite sets, as numbers of pairs.                             *)
(***************************************************************************)
Pairs(S, f) == UNION {{s} \X (1..f[s]) : s \in S}

LEMMA FiniteImage ==
  ASSUME NEW S, IsFiniteSet(S), NEW f
  PROVE  IsFiniteSet({f[s] : s \in S})
<1> DEFINE T == {f[s] : s \in S}
           g == [s \in S |-> f[s]]
<1>1. g \in Surjection(S, T)
  BY DEF Surjection
<1>2. QED
  BY <1>1, FS_Surjection

LEMMA PairsAreFinite ==
  ASSUME NEW S, IsFiniteSet(S), NEW f \in [S -> Nat]
  PROVE  IsFiniteSet(Pairs(S, f)) /\ Cardinality(Pairs(S, f)) \in Nat
<1> DEFINE g == [s \in S |-> {s} \X (1..f[s])]
<1>1. ASSUME NEW s \in S PROVE IsFiniteSet(g[s])
  <2>1. f[s] \in Int /\ 1 \in Int
    OBVIOUS
  <2>2. IsFiniteSet({s}) /\ IsFiniteSet(1..f[s])
    BY <2>1, FS_Singleton, FS_Interval
  <2>3. QED
    BY <2>2, FS_Product
<1>2. {g[s] : s \in S} = {{s} \X (1..f[s]) : s \in S}
  OBVIOUS
<1> HIDE DEF g
<1>3. IsFiniteSet({g[s] : s \in S})
  BY FiniteImage
<1>4. IsFiniteSet(UNION {g[s] : s \in S})
  BY <1>1, <1>3, FS_UNION
<1>5. IsFiniteSet(Pairs(S, f))
  BY <1>2, <1>4 DEF Pairs
<1>6. QED
  BY <1>5, FS_CardinalityType

\* A sum grows with its terms.
LEMMA FewerPairs ==
  ASSUME NEW S, IsFiniteSet(S), NEW f \in [S -> Nat], NEW g \in [S -> Nat],
         \A s \in S : f[s] <= g[s]
  PROVE  /\ Cardinality(Pairs(S, f)) <= Cardinality(Pairs(S, g))
         /\ \A s \in S : f[s] < g[s] => Cardinality(Pairs(S, f)) < Cardinality(Pairs(S, g))
<1>1. /\ IsFiniteSet(Pairs(S, f)) /\ Cardinality(Pairs(S, f)) \in Nat
      /\ IsFiniteSet(Pairs(S, g)) /\ Cardinality(Pairs(S, g)) \in Nat
  BY PairsAreFinite
<1>2. \A s : \A k : /\ <<s, k>> \in Pairs(S, f) <=> s \in S /\ k \in 1..f[s]
                    /\ <<s, k>> \in Pairs(S, g) <=> s \in S /\ k \in 1..g[s]
  BY DEF Pairs
<1>3. Pairs(S, f) \subseteq Pairs(S, g)
  <2>1. ASSUME NEW s \in S PROVE 1..f[s] \subseteq 1..g[s]
    OBVIOUS
  <2>2. QED
    BY <2>1 DEF Pairs
<1>4. Cardinality(Pairs(S, f)) <= Cardinality(Pairs(S, g))
  BY <1>1, <1>3, FS_Subset
<1>5. ASSUME NEW s \in S, f[s] < g[s] PROVE Cardinality(Pairs(S, f)) < Cardinality(Pairs(S, g))
  <2>1. <<s, g[s]>> \in Pairs(S, g) /\ <<s, g[s]>> \notin Pairs(S, f)
    BY <1>2, <1>5
  <2>2. Cardinality(Pairs(S, f)) # Cardinality(Pairs(S, g))
    BY <1>1, <1>3, <2>1, FS_Subset
  <2>3. QED
    BY <1>1, <1>4, <2>2
<1>6. QED
  BY <1>4, <1>5

-----------------------------------------------------------------------------
\* A sequence of two parts.
LEMMA JoinedSeq ==
  ASSUME NEW S, NEW a \in Seq(S), NEW b \in Seq(S), NEW c \in Seq(S),
         Len(c) = Len(a) + Len(b),
         \A k \in 1..Len(a) : c[k] = a[k],
         \A k \in 1..Len(b) : c[Len(a) + k] = b[k]
  PROVE  c = a \o b
<1>1. Len(a) \in Nat /\ Len(b) \in Nat
  BY LenProperties
<1>2. PICK m \in Nat, n \in Nat, l \in Nat : m = Len(a) /\ n = Len(b) /\ l = m + n
  BY <1>1
<1>3. /\ a \o b \in Seq(S) /\ Len(a \o b) = l
      /\ \A i \in 1..l : (a \o b)[i] = IF i <= m THEN a[i] ELSE b[i - m]
  <2>1. /\ a \o b \in Seq(S) /\ Len(a \o b) = Len(a) + Len(b)
        /\ \A i \in 1..(Len(a) + Len(b)) : (a \o b)[i] = IF i <= Len(a) THEN a[i] ELSE b[i - Len(a)]
    BY ConcatProperties
  <2>2. QED
    BY <1>2, <2>1
<1>4. ASSUME NEW i \in 1..l PROVE c[i] = (a \o b)[i]
  <2>1. CASE i <= m
    BY <1>2, <1>3, <2>1
  <2>2. CASE i > m
    <3>1. i - m \in 1..n /\ m + (i - m) = i
      BY <1>2, <2>2
    <3>2. c[i] = b[i - m]
      BY <1>2, <3>1
    <3>3. QED
      BY <1>3, <2>2, <3>2
  <2>3. QED
    BY <1>2, <2>1, <2>2
<1>5. QED
  BY <1>2, <1>3, <1>4, SeqEqual

\* An injection into a set of the same size leaves nothing out.
LEMMA NothingLeftOut ==
  ASSUME NEW S, NEW T, IsFiniteSet(T), NEW f \in [S -> T], Cardinality(S) = Cardinality(T),
         \A x, y \in S : f[x] = f[y] => x = y,
         NEW t \in T
  PROVE  \E x \in S : f[x] = t
<1>1. f \in Injection(S, T)
  BY DEF Injection, IsInjective
<1>2. f \in Surjection(S, T)
  BY <1>1, FS_Injection
<1>3. QED
  BY <1>2 DEF Surjection

\* There are that many different elements to take.
LEMMA EnoughToTake ==
  ASSUME NEW S, IsFiniteSet(S), NEW n \in Nat, n <= Cardinality(S)
  PROVE  Injection(1..n, S) # {}
<1>1. Cardinality(S) \in Nat /\ Bijection(1..Cardinality(S), S) # {}
  BY FS_CardinalityType DEF ExistsBijection
<1>2. PICK f \in [1..Cardinality(S) -> S] : IsInjective(f)
  BY <1>1 DEF Bijection, Injection
<1>3. \A i \in 1..n : i \in 1..Cardinality(S) /\ f[i] \in S
  BY <1>1
<1>4. [i \in 1..n |-> f[i]] \in Injection(1..n, S)
  BY <1>2, <1>3 DEF Injection, IsInjective
<1>5. QED
  BY <1>4

LEMMA TimesGrows ==
  ASSUME NEW i \in Nat, NEW m \in Nat, NEW d \in Nat, i <= m
  PROVE  i * d \in Nat /\ m * d \in Nat /\ i * d <= m * d
<1>1. PICK e \in Nat : m = i + e
  OBVIOUS
<1>2. m * d = i * d + e * d /\ i * d \in Nat /\ e * d \in Nat
  BY <1>1
<1>3. PICK x \in Nat, y \in Nat : x = i * d /\ y = e * d
  BY <1>2
<1>4. QED
  BY <1>2, <1>3

\* Holders, when one of them changes.
LEMMA OneChanged ==
  ASSUME NEW F, IsFiniteSet(F), NEW G, NEW t, G \ {t} = F \ {t}
  PROVE  /\ Cardinality(F) \in Nat
         /\ (t \in G <=> t \in F) => Cardinality(G) = Cardinality(F)
         /\ t \in G /\ t \notin F => Cardinality(G) = Cardinality(F) + 1
         /\ t \notin G /\ t \in F => Cardinality(G) = Cardinality(F) - 1
<1>1. (t \in G <=> t \in F) => G = F
  OBVIOUS
<1>2. ASSUME t \in G, t \notin F PROVE Cardinality(G) = Cardinality(F) + 1
  <2>1. G = F \cup {t}
    BY <1>2
  <2>2. QED
    BY <1>2, <2>1, OneMore
<1>3. ASSUME t \notin G, t \in F PROVE Cardinality(G) = Cardinality(F) - 1
  <2>1. G = F \ {t}
    BY <1>3
  <2>2. QED
    BY <1>3, <2>1, OneLess
<1>4. QED
  BY <1>1, <1>2, <1>3, FS_CardinalityType

-----------------------------------------------------------------------------
(***************************************************************************)
(* The rank of a number in a finite set: how many are smaller.             *)
(***************************************************************************)
Rank(S, i) == Cardinality({j \in S : j < i})

\* Ranks are 0, 1, ... and each belongs to one element, the last to the
\* greatest.
LEMMA Ranks ==
  ASSUME NEW S, \A i \in S : i \in Nat, IsFiniteSet(S)
  PROVE  /\ Cardinality(S) \in Nat
         /\ \A i \in S : Rank(S, i) \in 0..(Cardinality(S) - 1)
         /\ \A i, k \in S : Rank(S, i) = Rank(S, k) => i = k
         /\ \A r \in 0..(Cardinality(S) - 1) : \E i \in S : Rank(S, i) = r
         /\ \A i \in S : (\A j \in S : j <= i) <=> Rank(S, i) = Cardinality(S) - 1
<1>1. Cardinality(S) \in Nat
  BY FS_CardinalityType
<1>2. ASSUME NEW T \in SUBSET S, NEW U \in SUBSET S, T \subseteq U, T # U
      PROVE  Cardinality(T) \in Nat /\ Cardinality(U) \in Nat /\ Cardinality(T) < Cardinality(U)
  <2>1. IsFiniteSet(U)
    BY FS_Subset
  <2>2. Cardinality(T) <= Cardinality(U) /\ (Cardinality(T) = Cardinality(U) => T = U) /\ IsFiniteSet(T)
    BY <1>2, <2>1, FS_Subset
  <2>3. QED
    BY <1>2, <2>1, <2>2, FS_CardinalityType
<1>3. ASSUME NEW i \in S
      PROVE  Rank(S, i) \in 0..(Cardinality(S) - 1)
  <2>1. {j \in S : j < i} \in SUBSET S /\ i \notin {j \in S : j < i}
    OBVIOUS
  <2>2. Cardinality({j \in S : j < i}) \in Nat /\ Cardinality({j \in S : j < i}) < Cardinality(S)
    BY <1>2, <2>1
  <2>3. QED
    BY <1>1, <2>2 DEF Rank
<1>4. ASSUME NEW i \in S, NEW k \in S, i < k PROVE Rank(S, i) < Rank(S, k)
  <2> DEFINE T == {j \in S : j < i}
             U == {j \in S : j < k}
  <2>1. ASSUME NEW j \in T PROVE j \in U
    <3>1. j \in Nat /\ i \in Nat /\ k \in Nat /\ j < i
      OBVIOUS
    <3>2. QED
      BY <1>4, <3>1
  <2>2. i \in U /\ i \notin T
    BY <1>4
  <2>3. QED
    BY <1>2, <2>1, <2>2 DEF Rank
<1>5. ASSUME NEW i \in S, NEW k \in S, Rank(S, i) = Rank(S, k) PROVE i = k
  <2>1. ~(i < k) /\ ~(k < i) /\ i \in Nat /\ k \in Nat
    BY <1>3, <1>4, <1>5
  <2>2. QED
    BY <2>1
<1>6. ASSUME NEW r \in 0..(Cardinality(S) - 1) PROVE \E i \in S : Rank(S, i) = r
  <2> DEFINE f == [i \in S |-> Rank(S, i)]
             T == 0..(Cardinality(S) - 1)
  <2>1. f \in [S -> T]
    BY <1>3
  <2>2. IsFiniteSet(T) /\ Cardinality(T) = Cardinality(S)
    <3>1. 0 \in Int /\ Cardinality(S) - 1 \in Int
      BY <1>1
    <3>2. IsFiniteSet(T) /\ Cardinality(T) = IF 0 > Cardinality(S) - 1 THEN 0 ELSE (Cardinality(S) - 1) - 0 + 1
      BY <3>1, FS_Interval
    <3>3. QED
      BY <1>1, <3>2
  <2>3. r \in T /\ Cardinality(S) = Cardinality(T)
    BY <2>2
  <2>4. ASSUME NEW x \in S, NEW y \in S, f[x] = f[y] PROVE x = y
    BY <1>5, <2>4
  <2> HIDE DEF f, T
  <2>5. \E i \in S : f[i] = r
    BY <2>1, <2>2, <2>3, <2>4, NothingLeftOut
  <2>6. QED
    BY <2>5 DEF f
<1>7. ASSUME NEW i \in S PROVE (\A j \in S : j <= i) <=> Rank(S, i) = Cardinality(S) - 1
  <2> DEFINE T == {j \in S : j < i}
  <2>1. T \subseteq S /\ IsFiniteSet(T) /\ i \notin T /\ i \in Nat
    BY FS_Subset
  <2>2. IsFiniteSet(T \cup {i}) /\ Cardinality(T \cup {i}) = Cardinality(T) + 1 /\ Cardinality(T) \in Nat
    BY <2>1, OneMore, FS_CardinalityType
  <2>3. T \cup {i} \subseteq S
    BY <2>1
  <2>4. (\A j \in S : j <= i) <=> T \cup {i} = S
    <3>1. \A j \in S : j <= i <=> j \in T \cup {i}
      BY <2>1
    <3>2. QED
      BY <2>3, <3>1
  <2>5. T \cup {i} = S <=> Cardinality(T \cup {i}) = Cardinality(S)
    BY <2>3, FS_Subset
  <2>6. Rank(S, i) = Cardinality(T)
    BY DEF Rank
  <2> HIDE DEF T
  <2>7. QED
    BY <1>1, <2>2, <2>4, <2>5, <2>6
<1>8. QED
  BY <1>1, <1>3, <1>5, <1>6, <1>7

-----------------------------------------------------------------------------
\* Two queues in a row are one: an element goes from the second to the first,
\* or leaves the first.
LEMMA QueuesInARow ==
  ASSUME NEW S, NEW s \in Seq(S), NEW t \in Seq(S)
  PROVE  /\ s \o t \in Seq(S)
         /\ t # <<>> => /\ Append(s, Head(t)) \o Tail(t) = s \o t
                        /\ Append(s, Head(t)) \in Seq(S) /\ Tail(t) \in Seq(S)
         /\ s # <<>> => /\ Tail(s) \o t = Tail(s \o t) /\ Head(s \o t) = Head(s)
                        /\ s \o t # <<>> /\ Tail(s) \in Seq(S)
         /\ <<>> \o t = t /\ s \o <<>> = s
<1>1. s \o t \in Seq(S) /\ <<>> \o t = t /\ s \o <<>> = s
  OBVIOUS
<1>2. ASSUME t # <<>>
      PROVE  /\ Append(s, Head(t)) \o Tail(t) = s \o t
             /\ Append(s, Head(t)) \in Seq(S) /\ Tail(t) \in Seq(S)
  BY <1>2
<1>3. ASSUME s # <<>>
      PROVE  /\ Tail(s) \o t = Tail(s \o t) /\ Head(s \o t) = Head(s)
             /\ s \o t # <<>> /\ Tail(s) \in Seq(S)
  BY <1>3
<1>4. QED
  BY <1>1, <1>2, <1>3

-----------------------------------------------------------------------------
(***************************************************************************)
(* Least and greatest numbers.                                             *)
(***************************************************************************)
LEMMA LeastExists ==
  ASSUME NEW T \in SUBSET Nat, T # {}
  PROVE  \E x \in T : \A y \in T : x <= y
<1>1. PICK x \in T : \A y \in T : ~(<<y, x>> \in OpToRel(<, Nat))
  BY WFMin, NatLessThanWellFounded
<1>2. ASSUME NEW y \in T PROVE x <= y
  <2>1. y < x => <<y, x>> \in OpToRel(<, Nat)
    BY DEF OpToRel
  <2>2. ~(y < x)
    BY <1>1, <2>1, Zenon
  <2>3. x \in Nat /\ y \in Nat
    OBVIOUS
  <2>4. QED
    BY <2>2, <2>3
<1>3. QED
  BY <1>2

LEMMA GreatestExists ==
  ASSUME NEW T \in SUBSET Nat, T # {}, NEW n \in Nat, \A x \in T : x <= n
  PROVE  \E x \in T : \A y \in T : x >= y
<1> DEFINE Above == {n - y : y \in T}
<1>1. Above \in SUBSET Nat /\ Above # {}
  <2>1. \A y \in T : n - y \in Nat
    OBVIOUS
  <2>2. QED
    BY <2>1
<1>2. PICK z \in Above : \A y \in Above : z <= y
  BY <1>1, LeastExists
<1>3. PICK x \in T : z = n - x
  BY <1>2
<1>4. ASSUME NEW y \in T PROVE x >= y
  <2>1. n - y \in Above
    OBVIOUS
  <2>2. n - x <= n - y
    BY <1>2, <1>3, <2>1
  <2>3. x \in Nat /\ y \in Nat
    OBVIOUS
  <2> HIDE DEF Above
  <2>4. QED
    BY <2>2, <2>3
<1>5. QED
  BY <1>4

-----------------------------------------------------------------------------
(***************************************************************************)
(* Induction, over sets of numbers and sets of finite sets, and sums.      *)
(***************************************************************************)
LEMMA AllNumbers ==
  ASSUME NEW T \in SUBSET Nat, 0 \in T, \A n \in T : n + 1 \in T
  PROVE  T = Nat
<1>1. SUFFICES ASSUME Nat \ T # {} PROVE FALSE
  OBVIOUS
<1>2. PICK n \in Nat \ T : \A m \in Nat \ T : n <= m
  BY <1>1, LeastExists
<1>3. n # 0 /\ n - 1 \in Nat
  BY <1>2
<1>4. n - 1 \in T
  <2>1. ~(n <= n - 1)
    BY <1>3
  <2>2. QED
    BY <1>2, <1>3, <2>1
<1>5. (n - 1) + 1 \in T
  BY <1>4
<1>6. (n - 1) + 1 = n
  BY <1>3
<1>7. QED
  BY <1>2, <1>5, <1>6

\* A set is good if it is good whenever each set with one element less is.
LEMMA AllSubsets ==
  ASSUME NEW I, IsFiniteSet(I), NEW Good \in SUBSET (SUBSET I),
         \A s \in SUBSET I : (\A x \in s : s \ {x} \in Good) => s \in Good
  PROVE  I \in Good
<1> DEFINE T == {n \in Nat : \A s \in SUBSET I : Cardinality(s) = n => s \in Good}
<1>1. \A s \in SUBSET I : IsFiniteSet(s) /\ Cardinality(s) \in Nat
  BY FS_Subset, FS_CardinalityType
<1>2. 0 \in T
  <2>1. ASSUME NEW s \in SUBSET I, Cardinality(s) = 0 PROVE s \in Good
    <3>1. s = {}
      BY <1>1, <2>1, FS_EmptySet
    <3>2. QED
      BY <3>1
  <2>2. QED
    BY <2>1
<1>3. ASSUME NEW n \in T PROVE n + 1 \in T
  <2>1. n \in Nat /\ \A s \in SUBSET I : Cardinality(s) = n => s \in Good
    OBVIOUS
  <2>2. ASSUME NEW s \in SUBSET I, Cardinality(s) = n + 1 PROVE s \in Good
    <3>1. ASSUME NEW x \in s PROVE s \ {x} \in Good
      <4>1. Cardinality(s \ {x}) = Cardinality(s) - 1
        BY <1>1, FS_RemoveElement
      <4>2. Cardinality(s \ {x}) = n
        BY <2>1, <2>2, <4>1
      <4>3. QED
        BY <2>1, <4>2
    <3>2. QED
      BY <3>1
  <2>3. QED
    BY <2>1, <2>2
<1>4. T = Nat
  <2>1. T \in SUBSET Nat
    OBVIOUS
  <2> HIDE DEF T
  <2>2. QED
    BY <1>2, <1>3, <2>1, AllNumbers
<1>5. Cardinality(I) \in T
  BY <1>1, <1>4
<1>6. QED
  BY <1>5

\* The recursion by which a sum is defined.
One(s) == CHOOSE x \in s : TRUE
Adds(fun, D, g) ==
  g = [s \in D |-> IF s = {} THEN 0 ELSE fun[One(s)] + g[s \ {One(s)}]]

LEMMA SumUnfolds ==
  ASSUME NEW fun, NEW I
  PROVE  SumFunctionOnSet(fun, I) = (CHOOSE g : Adds(fun, SUBSET I, g))[I]
BY DEF SumFunctionOnSet, FoldFunctionOnSet, MapThenFoldSet, Adds, One

LEMMA OneIsIn == ASSUME NEW s, s # {} PROVE One(s) \in s
BY DEF One

LEMMA AddsExists == ASSUME NEW fun, NEW I, IsFiniteSet(I) PROVE \E g : Adds(fun, SUBSET I, g)
<1> DEFINE Small(n) == {s \in SUBSET I : Cardinality(s) <= n}
           T == {n \in Nat : \E g : Adds(fun, Small(n), g)}
<1>1. \A s \in SUBSET I : IsFiniteSet(s) /\ Cardinality(s) \in Nat
  BY FS_Subset, FS_CardinalityType
<1>2. \A s \in SUBSET I : s # {} => Cardinality(s \ {One(s)}) = Cardinality(s) - 1
  BY <1>1, OneIsIn, FS_RemoveElement
<1>3. \A s \in SUBSET I : s # {} => Cardinality(s) # 0
  BY <1>1, FS_EmptySet
<1>4. 0 \in T
  <2>1. \A s \in Small(0) : s = {}
    BY <1>1, <1>3
  <2>2. PICK g : g = [s \in Small(0) |-> 0]
    OBVIOUS
  <2>3. Adds(fun, Small(0), g)
    <3> HIDE DEF Small
    <3>1. QED
      BY <2>1, <2>2 DEF Adds
  <2>4. QED
    BY <2>3
<1>5. ASSUME NEW n \in T PROVE n + 1 \in T
  <2>1. n \in Nat
    OBVIOUS
  <2>2. PICK g : Adds(fun, Small(n), g)
    OBVIOUS
  <2>3. PICK h : h = [s \in Small(n + 1) |-> IF s = {} THEN 0 ELSE fun[One(s)] + g[s \ {One(s)}]]
    OBVIOUS
  <2>4. ASSUME NEW s \in Small(n + 1), s # {}
        PROVE  h[s \ {One(s)}] = g[s \ {One(s)}]
    <3>1. PICK t : t = s \ {One(s)}
      OBVIOUS
    <3>2. t \in SUBSET I /\ Cardinality(t) = Cardinality(s) - 1 /\ Cardinality(s) <= n + 1
      BY <1>2, <2>4, <3>1
    <3>3. t \in Small(n) /\ t \in Small(n + 1)
      BY <1>1, <2>1, <3>2
    <3> HIDE DEF Small
    <3>4. h[t] = IF t = {} THEN 0 ELSE fun[One(t)] + g[t \ {One(t)}]
      BY <2>3, <3>3
    <3>5. g[t] = IF t = {} THEN 0 ELSE fun[One(t)] + g[t \ {One(t)}]
      BY <2>2, <3>3 DEF Adds
    <3>6. QED
      BY <3>1, <3>4, <3>5
  <2>5. Adds(fun, Small(n + 1), h)
    <3> HIDE DEF Small
    <3>1. \A s \in Small(n + 1) : (IF s = {} THEN 0 ELSE fun[One(s)] + g[s \ {One(s)}])
                                    = (IF s = {} THEN 0 ELSE fun[One(s)] + h[s \ {One(s)}])
      BY <2>4
    <3>2. QED
      BY <2>3, <3>1 DEF Adds
  <2>6. QED
    BY <2>1, <2>5
<1>6. T = Nat
  <2>1. T \in SUBSET Nat
    OBVIOUS
  <2> HIDE DEF T
  <2>2. QED
    BY <1>4, <1>5, <2>1, AllNumbers
<1>7. PICK n \in Nat : n = Cardinality(I)
  BY <1>1
<1>8. Small(n) = SUBSET I
  <2>1. \A s \in SUBSET I : Cardinality(s) <= n
    BY <1>7, FS_Subset
  <2>2. QED
    BY <2>1
<1>9. n \in T
  BY <1>6
<1>10. QED
  BY <1>8, <1>9

SumBy(fun, I, g) == Adds(fun, SUBSET I, g)

LEMMA SumAdds ==
  ASSUME NEW fun, NEW I, IsFiniteSet(I)
  PROVE  \E g : SumBy(fun, I, g) /\ SumFunctionOnSet(fun, I) = g[I]
<1>1. Adds(fun, SUBSET I, CHOOSE g : Adds(fun, SUBSET I, g))
  BY AddsExists
<1>2. QED
  BY <1>1, SumUnfolds DEF SumBy

\* The sums of the subsets come from one function.
LEMMA AddsAgree ==
  ASSUME NEW fun, NEW I, IsFiniteSet(I), NEW g, SumBy(fun, I, g),
         NEW J \in SUBSET I, NEW h, SumBy(fun, J, h)
  PROVE  h[J] = g[J]
<1> DEFINE Good == {s \in SUBSET J : h[s] = g[s]}
<1>1. \A s \in SUBSET J : (\A x \in s : s \ {x} \in Good) => s \in Good
  <2>1. SUFFICES ASSUME NEW s \in SUBSET J, \A x \in s : s \ {x} \in Good PROVE h[s] = g[s]
    OBVIOUS
  <2>2. s # {} => h[s \ {One(s)}] = g[s \ {One(s)}]
    BY <2>1, OneIsIn
  <2>3. h[s] = IF s = {} THEN 0 ELSE fun[One(s)] + h[s \ {One(s)}]
    BY DEF SumBy, Adds
  <2>4. s \in SUBSET I
    OBVIOUS
  <2>5. g[s] = IF s = {} THEN 0 ELSE fun[One(s)] + g[s \ {One(s)}]
    BY <2>4 DEF SumBy, Adds
  <2>6. QED
    BY <2>2, <2>3, <2>5
<1>2. IsFiniteSet(J) /\ Good \in SUBSET (SUBSET J)
  BY FS_Subset
<1>3. J \in Good
  <2> HIDE DEF Good
  <2>1. QED
    BY <1>1, <1>2, AllSubsets
<1>4. QED
  BY <1>3

LEMMA SumOf == ASSUME NEW fun PROVE SumFunctionOnSet(fun, {}) = 0
<1>1. PICK g : SumBy(fun, {}, g) /\ SumFunctionOnSet(fun, {}) = g[{}]
  BY SumAdds, FS_EmptySet
<1>2. QED
  BY <1>1 DEF SumBy, Adds

LEMMA SumOneMore ==
  ASSUME NEW fun, NEW I, IsFiniteSet(I), \A i \in I : fun[i] \in Nat
  PROVE  /\ SumFunctionOnSet(fun, I) \in Nat
         /\ \A x \in I : /\ SumFunctionOnSet(fun, I \ {x}) \in Nat
                         /\ SumFunctionOnSet(fun, I) = fun[x] + SumFunctionOnSet(fun, I \ {x})
<1>1. PICK g : SumBy(fun, I, g) /\ SumFunctionOnSet(fun, I) = g[I]
  BY SumAdds
<1>2. ASSUME NEW s \in SUBSET I PROVE SumFunctionOnSet(fun, s) = g[s]
  <2>1. IsFiniteSet(s)
    BY FS_Subset
  <2>2. PICK h : SumBy(fun, s, h) /\ SumFunctionOnSet(fun, s) = h[s]
    BY <2>1, SumAdds
  <2>3. SumBy(fun, I, g) /\ SumBy(fun, s, h)
    BY <1>1, <2>2
  <2>4. h[s] = g[s]
    BY <2>3, AddsAgree
  <2>5. QED
    BY <1>1, <2>2, <2>4
<1> DEFINE Good == {s \in SUBSET I : g[s] \in Nat /\ \A x \in s : g[s \ {x}] \in Nat /\ g[s] = fun[x] + g[s \ {x}]}
<1>3. ASSUME NEW s \in SUBSET I, \A x \in s : s \ {x} \in Good
      PROVE  s \in Good
  <2>1. g[s] = IF s = {} THEN 0 ELSE fun[One(s)] + g[s \ {One(s)}]
    BY <1>1 DEF SumBy, Adds
  <2>2. CASE s = {}
    BY <2>1, <2>2
  <2>3. CASE s # {}
    <3>1. PICK c \in s : c = One(s)
      BY <2>3, OneIsIn
    <3>2. g[s] = fun[c] + g[s \ {c}]
      BY <2>1, <2>3, <3>1
    <3>3. ASSUME NEW x \in s PROVE g[s \ {x}] \in Nat
      BY <1>3
    <3>4. ASSUME NEW x \in s PROVE g[s] = fun[x] + g[s \ {x}]
      <4>1. CASE x = c
        BY <3>2, <4>1
      <4>2. CASE x # c
        <5>1. PICK rest : rest = (s \ {c}) \ {x}
          OBVIOUS
        <5>2. rest = (s \ {x}) \ {c} /\ x \in s \ {c} /\ c \in s \ {x}
          BY <4>2, <5>1
        <5>3. g[s \ {c}] = fun[x] + g[rest] /\ g[rest] \in Nat
          BY <1>3, <5>1, <5>2
        <5>4. g[s \ {x}] = fun[c] + g[rest]
          BY <1>3, <5>1, <5>2
        <5>5. fun[x] \in Nat /\ fun[c] \in Nat
          OBVIOUS
        <5>6. QED
          BY <3>2, <5>3, <5>4, <5>5
      <4>3. QED
        BY <4>1, <4>2
    <3>5. g[s] \in Nat
      BY <3>2, <3>3
    <3>6. QED
      BY <3>3, <3>4, <3>5
  <2>4. QED
    BY <2>2, <2>3
<1>4. I \in Good
  <2>1. Good \in SUBSET (SUBSET I)
    OBVIOUS
  <2> HIDE DEF Good
  <2>2. QED
    BY <1>3, <2>1, AllSubsets
<1>5. g[I] \in Nat /\ \A x \in I : g[I \ {x}] \in Nat /\ g[I] = fun[x] + g[I \ {x}]
  BY <1>4
<1>6. QED
  BY <1>2, <1>5

LEMMA SumOfSame ==
  ASSUME NEW fun, NEW gun, NEW I, IsFiniteSet(I), \A i \in I : fun[i] = gun[i]
  PROVE  SumFunctionOnSet(fun, I) = SumFunctionOnSet(gun, I)
<1>1. PICK g : SumBy(fun, I, g) /\ SumFunctionOnSet(fun, I) = g[I]
  BY SumAdds
<1>2. PICK h : SumBy(gun, I, h) /\ SumFunctionOnSet(gun, I) = h[I]
  BY SumAdds
<1>3. \A s \in SUBSET I : s # {} => One(s) \in s /\ fun[One(s)] = gun[One(s)]
  BY OneIsIn
<1>4. g = [s \in SUBSET I |-> IF s = {} THEN 0 ELSE fun[One(s)] + g[s \ {One(s)}]]
  BY <1>1 DEF SumBy, Adds
<1>5. \A s \in SUBSET I : (IF s = {} THEN 0 ELSE fun[One(s)] + g[s \ {One(s)}])
                            = (IF s = {} THEN 0 ELSE gun[One(s)] + g[s \ {One(s)}])
  BY <1>3
<1>6. SumBy(gun, I, g)
  BY <1>4, <1>5 DEF SumBy, Adds
<1>7. I \in SUBSET I
  OBVIOUS
<1>8. h[I] = g[I]
  <2>1. SumBy(gun, I, g) /\ SumBy(gun, I, h)
    BY <1>2, <1>6
  <2>2. QED
    BY <1>7, <2>1, AddsAgree
<1>9. QED
  BY <1>1, <1>2, <1>8

AllNat(fun, s) == \A i \in s : fun[i] \in Nat

LEMMA SumWithout ==
  ASSUME NEW fun, NEW s, IsFiniteSet(s), AllNat(fun, s), NEW x \in s
  PROVE  /\ SumFunctionOnSet(fun, s \ {x}) \in Nat
         /\ SumFunctionOnSet(fun, s) = fun[x] + SumFunctionOnSet(fun, s \ {x})
BY SumOneMore DEF AllNat

\* The sum over two sets that are apart.
LEMMA SumOfApart ==
  ASSUME NEW fun, NEW A, NEW B, IsFiniteSet(A), IsFiniteSet(B), A \cap B = {},
         \A i \in A \cup B : fun[i] \in Nat
  PROVE  /\ SumFunctionOnSet(fun, A \cup B) = SumFunctionOnSet(fun, A) + SumFunctionOnSet(fun, B)
         /\ SumFunctionOnSet(fun, A) \in Nat /\ SumFunctionOnSet(fun, B) \in Nat
<1> DEFINE Sum(s) == SumFunctionOnSet(fun, s)
           Good == {s \in SUBSET A : Sum(s \cup B) = Sum(s) + Sum(B)}
<1>1. Sum(A) \in Nat /\ Sum(B) \in Nat
  BY SumOneMore
<1>2. ASSUME NEW s \in SUBSET A, \A x \in s : s \ {x} \in Good PROVE s \in Good
  <2>1. CASE s = {}
    <3>1. s \cup B = B /\ Sum(s) = 0
      BY <2>1, SumOf
    <3>2. Sum(s \cup B) = Sum(B)
      BY <3>1
    <3> HIDE DEF Sum
    <3>3. Sum(s \cup B) = Sum(s) + Sum(B)
      BY <1>1, <3>1, <3>2
    <3>4. QED
      BY <3>3
  <2>2. CASE s # {}
    <3>1. PICK x \in s : TRUE
      BY <2>2
    <3>2. PICK all : all = s \cup B
      OBVIOUS
    <3>3. IsFiniteSet(all) /\ IsFiniteSet(s) /\ x \in all /\ all \ {x} = (s \ {x}) \cup B
      BY <3>2, FS_Subset, FS_Union
    <3>4. AllNat(fun, all)
      BY <3>2 DEF AllNat
    <3>5. fun[x] \in Nat /\ Sum(all) = fun[x] + Sum(all \ {x})
      BY <3>3, <3>4, SumWithout DEF AllNat
    <3>6. Sum(s \ {x}) \in Nat /\ Sum(s) = fun[x] + Sum(s \ {x})
      <4>1. AllNat(fun, s)
        BY DEF AllNat
      <4>2. QED
        BY <3>1, <3>3, <4>1, SumWithout
    <3>7. Sum(all \ {x}) = Sum(s \ {x}) + Sum(B)
      BY <1>2, <3>1, <3>3
    <3> HIDE DEF Sum
    <3>8. Sum(s \cup B) = Sum(s) + Sum(B)
      BY <1>1, <3>2, <3>5, <3>6, <3>7
    <3>9. QED
      BY <3>8
  <2>3. QED
    BY <2>1, <2>2
<1>3. A \in Good
  <2>1. Good \in SUBSET (SUBSET A)
    OBVIOUS
  <2> HIDE DEF Good
  <2>2. QED
    BY <1>2, <2>1, AllSubsets
<1>4. QED
  BY <1>1, <1>3

\* Terms that grow add what they grow by.
LEMMA SumOfBoth ==
  ASSUME NEW fun, NEW more, NEW gun, NEW I, IsFiniteSet(I),
         \A i \in I : fun[i] \in Nat /\ more[i] \in Nat /\ gun[i] = fun[i] + more[i]
  PROVE  SumFunctionOnSet(gun, I) = SumFunctionOnSet(fun, I) + SumFunctionOnSet(more, I)
<1> DEFINE F(s) == SumFunctionOnSet(fun, s)
           M(s) == SumFunctionOnSet(more, s)
           G(s) == SumFunctionOnSet(gun, s)
           Good == {s \in SUBSET I : G(s) = F(s) + M(s)}
<1>1. ASSUME NEW s \in SUBSET I, \A x \in s : s \ {x} \in Good PROVE s \in Good
  <2>1. CASE s = {}
    <3>1. F(s) = 0 /\ M(s) = 0 /\ G(s) = 0
      BY <2>1, SumOf
    <3>2. QED
      BY <3>1
  <2>2. CASE s # {}
    <3>1. PICK x \in s : TRUE
      BY <2>2
    <3>2. IsFiniteSet(s)
      BY FS_Subset
    <3>3. fun[x] \in Nat /\ more[x] \in Nat /\ gun[x] = fun[x] + more[x]
      BY <3>1
    <3>4. F(s \ {x}) \in Nat /\ F(s) = fun[x] + F(s \ {x})
      <4>1. AllNat(fun, s)
        BY DEF AllNat
      <4>2. QED
        BY <3>1, <3>2, <4>1, SumWithout
    <3>5. M(s \ {x}) \in Nat /\ M(s) = more[x] + M(s \ {x})
      <4>1. AllNat(more, s)
        BY DEF AllNat
      <4>2. QED
        BY <3>1, <3>2, <4>1, SumWithout
    <3>6. AllNat(gun, s)
      <4>1. \A i \in s : fun[i] \in Nat /\ more[i] \in Nat /\ gun[i] = fun[i] + more[i]
        OBVIOUS
      <4>2. QED
        BY <4>1 DEF AllNat
    <3>7. G(s \ {x}) \in Nat /\ G(s) = gun[x] + G(s \ {x})
      BY <3>1, <3>2, <3>6, SumWithout
    <3>8. G(s \ {x}) = F(s \ {x}) + M(s \ {x})
      BY <1>1, <3>1
    <3> HIDE DEF F, M, G
    <3>9. G(s) = F(s) + M(s)
      BY <3>3, <3>4, <3>5, <3>7, <3>8
    <3>10. QED
      BY <3>9
  <2>3. QED
    BY <2>1, <2>2
<1>2. I \in Good
  <2>1. Good \in SUBSET (SUBSET I)
    OBVIOUS
  <2> HIDE DEF Good
  <2>2. QED
    BY <1>1, <2>1, AllSubsets
<1>3. QED
  BY <1>2

\* Terms listed under other indices have the same sum.
LEMMA SumOfImage ==
  ASSUME NEW fun, NEW gun, NEW I, IsFiniteSet(I), NEW m,
         \A i, j \in I : m[i] = m[j] => i = j,
         \A i \in I : fun[i] \in Nat /\ gun[m[i]] = fun[i]
  PROVE  SumFunctionOnSet(gun, {m[i] : i \in I}) = SumFunctionOnSet(fun, I)
<1> DEFINE At(s) == {m[i] : i \in s}
           F(s) == SumFunctionOnSet(fun, s)
           G(s) == SumFunctionOnSet(gun, s)
           Good == {s \in SUBSET I : G(At(s)) = F(s)}
<1>1. ASSUME NEW s \in SUBSET I, \A x \in s : s \ {x} \in Good PROVE s \in Good
  <2>1. CASE s = {}
    <3>1. F(s) = 0 /\ At(s) = {} /\ G({}) = 0
      BY <2>1, SumOf
    <3>2. QED
      BY <3>1
  <2>2. CASE s # {}
    <3>1. PICK x \in s : TRUE
      BY <2>2
    <3>2. IsFiniteSet(s)
      BY FS_Subset
    <3>3. IsFiniteSet(At(s))
      BY <3>2, FiniteImage
    <3>4. fun[x] \in Nat /\ gun[m[x]] = fun[x] /\ m[x] \in At(s)
      BY <3>1
    <3>5. At(s) \ {m[x]} = At(s \ {x})
      BY <3>1
    <3>6. F(s \ {x}) \in Nat /\ F(s) = fun[x] + F(s \ {x})
      <4>1. AllNat(fun, s)
        BY DEF AllNat
      <4>2. QED
        BY <3>1, <3>2, <4>1, SumWithout
    <3>7. AllNat(gun, At(s))
      BY DEF AllNat
    <3>8. PICK all, y : all = At(s) /\ y = m[x]
      OBVIOUS
    <3>9. G(all) = gun[y] + G(all \ {y})
      BY <3>3, <3>4, <3>7, <3>8, SumWithout
    <3>10. G(At(s \ {x})) = F(s \ {x})
      BY <1>1, <3>1
    <3> HIDE DEF F, G, At
    <3>11. G(At(s)) = F(s)
      BY <3>4, <3>5, <3>6, <3>8, <3>9, <3>10
    <3>12. QED
      BY <3>11
  <2>3. QED
    BY <2>1, <2>2
<1>2. I \in Good
  <2>1. Good \in SUBSET (SUBSET I)
    OBVIOUS
  <2> HIDE DEF Good
  <2>2. QED
    BY <1>1, <2>1, AllSubsets
<1>3. QED
  BY <1>2

Renamed(fun, I, m, gun, J) ==
  /\ J = {m[i] : i \in I}
  /\ \A i, j \in I : m[i] = m[j] => i = j
  /\ \A i \in I : fun[i] \in Nat /\ gun[m[i]] = fun[i]

LEMMA SumRenamed ==
  ASSUME NEW fun, NEW gun, NEW I, IsFiniteSet(I), NEW m, NEW J, Renamed(fun, I, m, gun, J)
  PROVE  SumFunctionOnSet(gun, J) = SumFunctionOnSet(fun, I)
<1>1. J = {m[i] : i \in I}
  BY DEF Renamed
<1>2. SumFunctionOnSet(gun, {m[i] : i \in I}) = SumFunctionOnSet(fun, I)
  BY SumOfImage DEF Renamed
<1>3. QED
  BY <1>1, <1>2

\* A sum of zeros, and a sum of ones.
LEMMA SumOfAlike ==
  ASSUME NEW fun, NEW I, IsFiniteSet(I), NEW c \in {0, 1}, \A i \in I : fun[i] = c
  PROVE  SumFunctionOnSet(fun, I) = IF c = 0 THEN 0 ELSE Cardinality(I)
<1> DEFINE F(s) == SumFunctionOnSet(fun, s)
           Good == {s \in SUBSET I : F(s) = IF c = 0 THEN 0 ELSE Cardinality(s)}
<1>1. ASSUME NEW s \in SUBSET I, \A x \in s : s \ {x} \in Good PROVE s \in Good
  <2>1. CASE s = {}
    BY <2>1, SumOf, FS_EmptySet
  <2>2. CASE s # {}
    <3>1. PICK x \in s : TRUE
      BY <2>2
    <3>2. IsFiniteSet(s)
      BY FS_Subset
    <3>3. /\ Cardinality(s) \in Nat /\ Cardinality(s \ {x}) \in Nat
          /\ Cardinality(s \ {x}) = Cardinality(s) - 1
      BY <3>1, <3>2, FS_CardinalityType, FS_RemoveElement, FS_Subset
    <3>4. F(s \ {x}) \in Nat /\ F(s) = fun[x] + F(s \ {x}) /\ fun[x] = c
      <4>1. AllNat(fun, s) /\ fun[x] = c
        BY DEF AllNat
      <4>2. QED
        BY <3>1, <3>2, <4>1, SumWithout
    <3>5. F(s \ {x}) = IF c = 0 THEN 0 ELSE Cardinality(s \ {x})
      BY <1>1, <3>1
    <3> HIDE DEF F
    <3>6. F(s) = IF c = 0 THEN 0 ELSE Cardinality(s)
      BY <3>3, <3>4, <3>5
    <3>7. QED
      BY <3>6
  <2>3. QED
    BY <2>1, <2>2
<1>2. I \in Good
  <2>1. Good \in SUBSET (SUBSET I)
    OBVIOUS
  <2> HIDE DEF Good
  <2>2. QED
    BY <1>1, <2>1, AllSubsets
<1>3. QED
  BY <1>2

\* Each of some terms grows by one, each of some others by an amount of its
\* own, and the rest not at all.
Grows(I, old, new, n, a, k, b, t) ==
  /\ \A i \in 1..n : a[i] \in I /\ new[a[i]] = old[a[i]] + 1
  /\ \A i \in 1..k : b[i] \in I /\ t[i] \in Nat /\ new[b[i]] = old[b[i]] + t[i]
  /\ \A i, j \in 1..n : a[i] = a[j] => i = j
  /\ \A i, j \in 1..k : b[i] = b[j] => i = j
  /\ \A i \in 1..n : \A j \in 1..k : a[i] # b[j]
  /\ \A s \in I : (\A i \in 1..n : a[i] # s) /\ (\A i \in 1..k : b[i] # s) => new[s] = old[s]

\* What they grow by in all.
LEMMA SumGrows ==
  ASSUME NEW I, IsFiniteSet(I), NEW old, NEW new, NEW n \in Nat, NEW k \in Nat, NEW a, NEW b,
         NEW t, Grows(I, old, new, n, a, k, b, t), AllNat(old, I)
  PROVE  /\ SumFunctionOnSet(old, I) \in Nat /\ SumFunctionOnSet(t, 1..k) \in Nat
         /\ SumFunctionOnSet(new, I) = SumFunctionOnSet(old, I) + (n + SumFunctionOnSet(t, 1..k))
<1> DEFINE A == {a[i] : i \in 1..n}
           B == {b[i] : i \in 1..k}
           C == I \ (A \cup B)
<1> USE DEF Grows, AllNat
<1>1. PICK ones : ones = [i \in 1..n |-> 1]
  OBVIOUS
<1>2. PICK more : more = [s \in I |-> new[s] - old[s]]
  OBVIOUS
<1>3. \A i \in 1..n : more[a[i]] = 1
  <2>1. ASSUME NEW i \in 1..n PROVE more[a[i]] = 1
    <3>1. PICK x \in I : x = a[i]
      OBVIOUS
    <3>2. old[x] \in Nat /\ new[x] = old[x] + 1 /\ more[x] = new[x] - old[x]
      BY <1>2, <3>1
    <3>3. more[x] = 1
      BY <3>2
    <3>4. QED
      BY <3>1, <3>3
  <2>2. QED
    BY <2>1
<1>4. \A i \in 1..k : t[i] \in Nat /\ more[b[i]] = t[i]
  <2>1. ASSUME NEW i \in 1..k PROVE t[i] \in Nat /\ more[b[i]] = t[i]
    <3>1. PICK x \in I : x = b[i]
      OBVIOUS
    <3>2. t[i] \in Nat /\ old[x] \in Nat /\ new[x] = old[x] + t[i] /\ more[x] = new[x] - old[x]
      BY <1>2, <3>1
    <3>3. more[x] = t[i]
      BY <3>2
    <3>4. QED
      BY <3>1, <3>2, <3>3
  <2>2. QED
    BY <2>1
<1>5. \A s \in C : more[s] = 0
  <2>1. ASSUME NEW s \in C PROVE more[s] = 0
    <3>1. (\A i \in 1..n : a[i] # s) /\ (\A i \in 1..k : b[i] # s) /\ s \in I
      BY <2>1
    <3>2. new[s] = old[s] /\ old[s] \in Nat /\ more[s] = new[s] - old[s]
      BY <1>2, <3>1
    <3>3. QED
      BY <3>2
  <2>2. QED
    BY <2>1
<1>6. /\ IsFiniteSet(1..n) /\ Cardinality(1..n) = n /\ IsFiniteSet(1..k)
  BY FS_Interval
<1>7. IsFiniteSet(A) /\ IsFiniteSet(B) /\ IsFiniteSet(C)
  <2>1. A \subseteq I /\ B \subseteq I /\ C \subseteq I
    OBVIOUS
  <2> HIDE DEF A, B, C
  <2>2. QED
    BY <2>1, FS_Subset
<1>8. A \cap B = {} /\ (A \cup B) \cap C = {} /\ (A \cup B) \cup C = I /\ IsFiniteSet(A \cup B)
  <2>1. A \subseteq I /\ B \subseteq I /\ A \cap B = {}
    OBVIOUS
  <2>2. IsFiniteSet(A \cup B)
    BY <2>1, FS_Subset
  <2> HIDE DEF A, B
  <2>3. QED
    BY <2>1, <2>2
<1>9. SumFunctionOnSet(more, A) = n
  <2>1. \A i \in 1..n : ones[i] = 1
    BY <1>1
  <2>2. SumFunctionOnSet(ones, 1..n) = n
    BY <1>6, <2>1, SumOfAlike
  <2>3. Renamed(ones, 1..n, a, more, A)
    BY <1>3, <2>1 DEF Renamed
  <2> HIDE DEF A
  <2>4. SumFunctionOnSet(more, A) = SumFunctionOnSet(ones, 1..n)
    BY <1>6, <2>3, SumRenamed
  <2>5. QED
    BY <2>2, <2>4
<1>10. SumFunctionOnSet(more, B) = SumFunctionOnSet(t, 1..k) /\ SumFunctionOnSet(t, 1..k) \in Nat
  <2>1. SumFunctionOnSet(more, B) = SumFunctionOnSet(t, 1..k)
    <3>1. Renamed(t, 1..k, b, more, B)
      BY <1>4 DEF Renamed
    <3> HIDE DEF B
    <3>2. QED
      BY <1>6, <3>1, SumRenamed
  <2>2. SumFunctionOnSet(t, 1..k) \in Nat
    BY <1>4, <1>6, SumOneMore
  <2>3. QED
    BY <2>1, <2>2
<1>11. SumFunctionOnSet(more, C) = 0
  BY <1>5, <1>7, SumOfAlike
<1>12. \A s \in I : more[s] \in Nat
  <2>1. (\A s \in A : more[s] \in Nat) /\ (\A s \in B : more[s] \in Nat) /\ (\A s \in C : more[s] \in Nat)
    BY <1>3, <1>4, <1>5
  <2> HIDE DEF A, B, C
  <2>2. QED
    BY <1>8, <2>1
<1> HIDE DEF A, B, C
<1>13. SumFunctionOnSet(more, I) = n + SumFunctionOnSet(t, 1..k)
  <2>1. PICK D : D = A \cup B
    OBVIOUS
  <2>2. /\ IsFiniteSet(D) /\ D \cap C = {} /\ D \cup C = I
        /\ \A s \in D \cup C : more[s] \in Nat
        /\ \A s \in A \cup B : more[s] \in Nat
    BY <1>8, <1>12, <2>1
  <2>3. SumFunctionOnSet(more, A \cup B) = SumFunctionOnSet(more, A) + SumFunctionOnSet(more, B)
    BY <1>7, <1>8, <2>2, SumOfApart
  <2>4. SumFunctionOnSet(more, D \cup C) = SumFunctionOnSet(more, D) + SumFunctionOnSet(more, C)
    BY <1>7, <2>2, SumOfApart
  <2>5. SumFunctionOnSet(more, D) = n + SumFunctionOnSet(t, 1..k)
    BY <1>9, <1>10, <2>1, <2>3
  <2>6. SumFunctionOnSet(more, I) = SumFunctionOnSet(more, D) + 0
    BY <1>11, <2>2, <2>4
  <2>7. QED
    BY <1>10, <2>5, <2>6
<1>14. SumFunctionOnSet(old, I) \in Nat
  BY SumOneMore
<1>15. SumFunctionOnSet(new, I) = SumFunctionOnSet(old, I) + SumFunctionOnSet(more, I)
  <2>1. \A s \in I : old[s] \in Nat /\ more[s] \in Nat /\ new[s] = old[s] + more[s]
    <3>1. ASSUME NEW s \in I PROVE old[s] \in Nat /\ more[s] \in Nat /\ new[s] = old[s] + more[s]
      <4>1. old[s] \in Nat /\ more[s] \in Nat
        BY <1>12
      <4>2. new[s] \in Nat
        <5>1. CASE s \in A
          BY <4>1, <5>1 DEF A
        <5>2. CASE s \in B
          BY <4>1, <5>2 DEF B
        <5>3. CASE s \in C
          BY <4>1, <5>3 DEF A, B, C
        <5>4. QED
          BY <1>8, <5>1, <5>2, <5>3
      <4>3. more[s] = new[s] - old[s]
        BY <1>2
      <4>4. QED
        BY <4>1, <4>2, <4>3
    <3>2. QED
      BY <3>1
  <2>2. QED
    BY <2>1, SumOfBoth
<1>16. QED
  BY <1>10, <1>13, <1>14, <1>15
=============================================================================
