--------------------------- MODULE CudaPagesProofs ---------------------------
(***************************************************************************)
(* The pages and the answers of the GPU runtime, for any number of         *)
(* sequences, pages and tokens: whichever calls come in which order and    *)
(* fail where, each page is in one place, the table matches the lengths,   *)
(* and a forward answers from all that was appended to its sequences.      *)
(***************************************************************************)
EXTENDS CudaRuntime, FunctionTheorems, CommonLemmas

Place == Slots \X Blocks
Entry(t, k) == t[k[1]][k[2]]
Used(t) == {k \in Place : Entry(t, k) \in Pages}
Mapped(t) == {Entry(t, k) : k \in Used(t)}
Exclusive(t) == \A k, l \in Place : Entry(t, k) \in Pages /\ Entry(t, k) = Entry(t, l) => k = l
Extends(t, u) == \A k \in Place : Entry(u, k) \in Pages => Entry(t, k) = Entry(u, k)
Covers(t, length) == \A s \in Slots, b \in Blocks : t[s][b] \in Pages <=> b < PagesFor(length[s])

-----------------------------------------------------------------------------
(***************************************************************************)
(* The number of pages of a length.                                        *)
(***************************************************************************)
LEMMA PagesOfLengths ==
  /\ \A n \in Nat : PagesFor(n) \in Nat
  /\ \A n, k \in Nat : n <= k => PagesFor(n) <= PagesFor(k)
  /\ PagesFor(0) = 0
<1>1. ASSUME NEW n \in Nat PROVE PagesFor(n) \in Nat /\ n + PageTokens - 1 \in Nat
  BY Quotient, PageTableAssumption DEF PagesFor
<1>2. ASSUME NEW n \in Nat, NEW k \in Nat, n <= k PROVE PagesFor(n) <= PagesFor(k)
  <2>1. n + PageTokens - 1 <= k + PageTokens - 1
    BY <1>2, PageTableAssumption
  <2>2. QED
    BY <1>1, <2>1, QuotientGrows, PageTableAssumption DEF PagesFor
<1>3. PagesFor(0) = 0
  <2>1. PICK q \in Nat : q = (PageTokens - 1) \div PageTokens
    BY Quotient, PageTableAssumption
  <2>2. PageTokens * q <= PageTokens - 1
    BY <2>1, Quotient, PageTableAssumption
  <2>3. q = 0
    <3>1. ASSUME q >= 1 PROVE FALSE
      <4>1. PICK e \in Nat : q = 1 + e
        BY <3>1
      <4>2. PageTokens * q = PageTokens + PageTokens * e /\ PageTokens * e \in Nat
        BY <4>1, PageTableAssumption
      <4>3. PICK x \in Nat : x = PageTokens * e
        BY <4>2
      <4>4. QED
        BY <2>2, <4>2, <4>3, PageTableAssumption
    <3>2. QED
      BY <3>1
  <2>4. 0 + PageTokens - 1 = PageTokens - 1
    BY PageTableAssumption
  <2>5. QED
    BY <2>1, <2>3, <2>4 DEF PagesFor
<1>4. QED
  BY <1>1, <1>2, <1>3

-----------------------------------------------------------------------------
(***************************************************************************)
(* The invariant.                                                          *)
(***************************************************************************)
Types ==
  /\ active \in Tables /\ free \subseteq Pages /\ journal \subseteq Pages
  /\ lengths \in [Slots -> Nat] /\ IsFiniteSet(DOMAIN request)

\* The two classes and the host go through their phases together.
PhasesAgree ==
  \/ pc = "idle" /\ phase = pagePhase /\ phase \in {"ready", "poisoned"}
  \/ pc = "prepare" /\ phase = "prepared" /\ pagePhase = "ready"
  \/ pc = "prepared" /\ phase = "prepared" /\ pagePhase = "prepared"
  \/ pc = "enqueue" /\ phase = "executing" /\ pagePhase = "executing"
  \/ pc = "finish" /\ phase = "poisoned" /\ pagePhase = "poisoned"

TableIsExact ==
  /\ Exclusive(active) /\ Mapped(active) \cap (free \cup journal) = {}
  /\ pagePhase # "poisoned" => free \cup journal \cup Mapped(active) = Pages
  /\ Covers(active, lengths)

\* The plan adds its pages to the table, and to what is mapped.
PlanIsExact ==
  /\ pagePhase = "ready" => journal = {}
  /\ pagePhase = "prepared" => journal \subseteq free
  /\ pagePhase = "executing" => journal \cap free = {}
  /\ pc \in {"prepared", "enqueue", "finish"} =>
       /\ pending \in Tables /\ Exclusive(pending)
       /\ Mapped(pending) = Mapped(active) \cup journal
       /\ Covers(pending, Wanted) /\ Extends(pending, active)
       /\ journal = {} => pending = active

Inv == Types /\ PhasesAgree /\ TableIsExact /\ PlanIsExact

LEMMA Starts == Init => Inv
<1> SUFFICES ASSUME Init PROVE Inv
  OBVIOUS
<1>1. \A s \in Slots, b \in Blocks : active[s][b] = NoPage
  BY DEF Init, InitPages, EmptyTable
<1>2. Types
  <2>1. active \in Tables
    BY DEF Init, InitPages, EmptyTable, Tables
  <2>2. IsFiniteSet(DOMAIN request)
    <3>1. DOMAIN request = {}
      BY DEF Init
    <3>2. QED
      BY <3>1, FS_EmptySet
  <2>3. QED
    BY <2>1, <2>2 DEF Types, Init, InitPages
<1>3. PhasesAgree
  BY DEF Init, InitPages, PhasesAgree
<1>4. NoPage \notin Pages
  BY PageTableAssumption
<1>5. Used(active) = {} /\ Mapped(active) = {} /\ Exclusive(active)
  BY <1>1, <1>4 DEF Used, Mapped, Exclusive, Entry, Place
<1>6. Covers(active, lengths)
  BY <1>1, <1>4, PagesOfLengths DEF Covers, Init, Blocks
<1>7. TableIsExact /\ PlanIsExact
  BY <1>5, <1>6 DEF TableIsExact, PlanIsExact, Init, InitPages
<1>8. QED
  BY <1>2, <1>3, <1>7 DEF Inv

-----------------------------------------------------------------------------
(***************************************************************************)
(* The steps.                                                              *)
(***************************************************************************)
LEMMA WantedGrows == Types => Wanted \in [Slots -> Nat] /\ \A s \in Slots : lengths[s] <= Wanted[s]
<1> SUFFICES ASSUME Types PROVE Wanted \in [Slots -> Nat] /\ \A s \in Slots : lengths[s] <= Wanted[s]
  OBVIOUS
<1>1. ASSUME NEW s \in Slots PROVE Cardinality(Of(request, s)) \in Nat /\ lengths[s] \in Nat
  <2>1. Of(request, s) \subseteq DOMAIN request
    BY DEF Of
  <2>2. QED
    BY <2>1, FS_Subset, FS_CardinalityType DEF Types
<1>2. QED
  BY <1>1 DEF Wanted

\* A step of the host alone, between calls or within one.
LEMMA HostMoves ==
  ASSUME Inv, UNCHANGED <<active, pending, free, journal, pagePhase, lengths>>,
         pc' \in {"idle", "prepare"} \/ UNCHANGED <<pc, request>>,
         IsFiniteSet(DOMAIN request'), PhasesAgree'
  PROVE  Inv'
<1>1. Types'
  BY DEF Inv, Types
<1>2. TableIsExact'
  BY DEF Inv, TableIsExact, Exclusive, Mapped, Used, Entry, Covers
<1>3. PlanIsExact'
  <2>1. CASE UNCHANGED <<pc, request>>
    <3>1. Wanted' = Wanted
      BY <2>1 DEF Wanted
    <3>2. Covers(pending, Wanted) => Covers(pending, Wanted)'
      BY <3>1 DEF Covers
    <3>3. QED
      BY <2>1, <3>2 DEF Inv, PlanIsExact, Exclusive, Extends, Mapped, Used, Entry
  <2>2. CASE pc' \in {"idle", "prepare"}
    BY <2>2 DEF Inv, PlanIsExact
  <2>3. QED
    BY <2>1, <2>2
<1>4. QED
  BY <1>1, <1>2, <1>3 DEF Inv

\* The plan of prepare().
LEMMA PrepareStep ==
  ASSUME Inv, Prepare PROVE Inv'
<1> DEFINE new == NewBlocks(lengths, Wanted)
<1>1. /\ Types /\ TableIsExact /\ pagePhase = "ready" /\ phase = "prepared" /\ journal = {}
      /\ active' = active /\ free' = free /\ lengths' = lengths /\ request' = request
      /\ phase' = phase /\ pagePhase' = "prepared" /\ pc' = "prepared" /\ pc = "prepare"
  BY DEF Inv, Prepare, PreparePages, PhasesAgree, PlanIsExact
<1>2. PICK plan \in [new -> free] :
        /\ \A k, l \in new : plan[k] = plan[l] => k = l
        /\ pending' = [s \in Slots |-> [b \in Blocks |->
                         IF <<s, b>> \in new THEN plan[<<s, b>>] ELSE active[s][b]]]
        /\ journal' = {plan[k] : k \in new}
  BY DEF Prepare, PreparePages
<1>3. /\ Exclusive(active) /\ Mapped(active) \cap free = {}
      /\ Covers(active, lengths) /\ free \subseteq Pages
  BY <1>1 DEF TableIsExact, Types
<1>4. new \subseteq Place
  BY DEF NewBlocks, Place
<1>5. ASSUME NEW k \in Place
      PROVE  Entry(pending', k) = IF k \in new THEN plan[k] ELSE Entry(active, k)
  <2>1. PICK s \in Slots, b \in Blocks : k = <<s, b>>
    BY DEF Place
  <2>2. QED
    BY <1>2, <2>1 DEF Entry
<1>6. Wanted \in [Slots -> Nat] /\ lengths \in [Slots -> Nat] /\ \A s \in Slots : lengths[s] <= Wanted[s]
  BY <1>1, WantedGrows DEF Types
<1>7. \A k \in new : Entry(active, k) \notin Pages
  <2>1. SUFFICES ASSUME NEW k \in new PROVE Entry(active, k) \notin Pages
    OBVIOUS
  <2>2. k[1] \in Slots /\ k[2] \in Blocks /\ k[2] >= PagesFor(lengths[k[1]])
    BY <2>1 DEF NewBlocks
  <2>3. PagesFor(lengths[k[1]]) \in Nat /\ k[2] \in Int
    BY <1>6, <2>2, PagesOfLengths DEF Blocks
  <2>4. ~(k[2] < PagesFor(lengths[k[1]]))
    BY <2>2, <2>3
  <2>5. QED
    BY <1>3, <2>2, <2>4 DEF Covers, Entry
<1>8. \A k \in new : plan[k] \in free
  BY <1>2
<1> HIDE DEF new
<1>9. pending' \in Tables
  <2>1. ASSUME NEW s \in Slots, NEW b \in Blocks
        PROVE  (IF <<s, b>> \in new THEN plan[<<s, b>>] ELSE active[s][b]) \in Pages \cup {NoPage}
    <3>1. active[s][b] \in Pages \cup {NoPage}
      BY <1>1 DEF Types, Tables
    <3>2. QED
      BY <1>3, <1>8, <3>1
  <2>2. QED
    BY <1>2, <2>1 DEF Tables
<1>10. Exclusive(pending')
  <2>1. SUFFICES ASSUME NEW k \in Place, NEW l \in Place, Entry(pending', k) \in Pages,
                        Entry(pending', k) = Entry(pending', l)
                 PROVE  k = l
    BY DEF Exclusive
  <2>2. \A x \in Place : Entry(active, x) \in Pages => Entry(active, x) \in Mapped(active)
    BY DEF Mapped, Used
  <2>3. CASE k \in new /\ l \in new
    BY <1>2, <1>5, <2>1, <2>3
  <2>4. CASE k \notin new /\ l \notin new
    BY <1>3, <1>5, <2>1, <2>4 DEF Exclusive
  <2>5. CASE k \in new /\ l \notin new
    BY <1>3, <1>5, <1>8, <2>1, <2>2, <2>5
  <2>6. CASE k \notin new /\ l \in new
    BY <1>3, <1>5, <1>8, <2>1, <2>2, <2>6
  <2>7. QED
    BY <2>3, <2>4, <2>5, <2>6
<1>11. Mapped(pending') = Mapped(active) \cup journal'
  <2>1. ASSUME NEW p \in Mapped(pending') PROVE p \in Mapped(active) \cup journal'
    <3>1. PICK k \in Place : Entry(pending', k) \in Pages /\ p = Entry(pending', k)
      BY <2>1 DEF Mapped, Used
    <3>2. QED
      BY <1>2, <1>5, <3>1 DEF Mapped, Used
  <2>2. ASSUME NEW p \in Mapped(active) PROVE p \in Mapped(pending')
    <3>1. PICK k \in Place : Entry(active, k) \in Pages /\ p = Entry(active, k)
      BY <2>2 DEF Mapped, Used
    <3>2. k \notin new
      BY <1>7, <3>1
    <3>3. QED
      BY <1>5, <3>1, <3>2 DEF Mapped, Used
  <2>3. ASSUME NEW p \in journal' PROVE p \in Mapped(pending')
    <3>1. PICK k \in new : p = plan[k]
      BY <1>2, <2>3
    <3>2. k \in Place /\ Entry(pending', k) = p /\ p \in Pages
      BY <1>3, <1>4, <1>5, <1>8, <3>1
    <3>3. QED
      BY <3>2 DEF Mapped, Used
  <2>4. QED
    BY <2>1, <2>2, <2>3
<1>12. Covers(pending', Wanted)
  <2>1. SUFFICES ASSUME NEW s \in Slots, NEW b \in Blocks
                 PROVE  pending'[s][b] \in Pages <=> b < PagesFor(Wanted[s])
    BY DEF Covers
  <2>2. /\ PagesFor(lengths[s]) \in Nat /\ PagesFor(Wanted[s]) \in Nat
        /\ PagesFor(lengths[s]) <= PagesFor(Wanted[s]) /\ b \in Int
    BY <1>6, PagesOfLengths DEF Blocks
  <2>3. <<s, b>> \in Place /\ Entry(pending', <<s, b>>) = pending'[s][b] /\ Entry(active, <<s, b>>) = active[s][b]
    BY DEF Place, Entry
  <2>4. <<s, b>> \in new <=> b >= PagesFor(lengths[s]) /\ b < PagesFor(Wanted[s])
    BY DEF new, NewBlocks
  <2>5. active[s][b] \in Pages <=> b < PagesFor(lengths[s])
    BY <1>3 DEF Covers
  <2>6. pending'[s][b] = IF <<s, b>> \in new THEN plan[<<s, b>>] ELSE active[s][b]
    BY <1>5, <2>3
  <2>7. CASE <<s, b>> \in new
    BY <1>3, <1>8, <2>4, <2>6, <2>7
  <2>8. CASE <<s, b>> \notin new
    <3>1. b < PagesFor(lengths[s]) <=> b < PagesFor(Wanted[s])
      BY <2>2, <2>4, <2>8
    <3>2. QED
      BY <2>5, <2>6, <2>8, <3>1
  <2>9. QED
    BY <2>7, <2>8
<1>13. /\ journal' \subseteq free
       /\ \A k \in Place : Entry(active, k) \in Pages => Entry(pending', k) = Entry(active, k)
       /\ journal' = {} => pending' = active
  <2>1. \A k \in Place : k \notin new => Entry(pending', k) = Entry(active, k)
    BY <1>5
  <2>2. ASSUME journal' = {} PROVE pending' = active
    <3>1. new = {}
      BY <1>2, <2>2
    <3>2. \A s \in Slots : \A b \in Blocks : pending'[s][b] = active[s][b]
      <4>1. SUFFICES ASSUME NEW s \in Slots, NEW b \in Blocks PROVE pending'[s][b] = active[s][b]
        OBVIOUS
      <4>2. <<s, b>> \in Place /\ Entry(pending', <<s, b>>) = pending'[s][b] /\ Entry(active, <<s, b>>) = active[s][b]
        BY DEF Place, Entry
      <4>3. QED
        BY <2>1, <3>1, <4>2
    <3>3. active \in Tables
      BY <1>1 DEF Types
    <3>4. \A s \in Slots : pending'[s] = active[s]
      BY <1>9, <3>2, <3>3 DEF Tables
    <3>5. QED
      BY <1>9, <3>3, <3>4 DEF Tables
  <2>3. \A k \in Place : Entry(active, k) \in Pages => Entry(pending', k) = Entry(active, k)
    BY <1>7, <2>1
  <2>4. journal' \subseteq free
    BY <1>2, <1>8
  <2>5. QED
    BY <2>2, <2>3, <2>4
<1>14. Wanted' = Wanted
  BY <1>1 DEF Wanted
<1>15. Types'
  BY <1>1, <1>3, <1>13 DEF Types
<1>16. PhasesAgree'
  BY <1>1 DEF PhasesAgree
<1>17. TableIsExact'
  <2>1. Mapped(active) \cap (free \cup journal') = {} /\ free \cup journal' \cup Mapped(active) = Pages
    BY <1>1, <1>3, <1>13 DEF TableIsExact
  <2>2. Exclusive(active)' /\ Mapped(active)' = Mapped(active) /\ Covers(active, lengths)'
    BY <1>1, <1>3 DEF Exclusive, Mapped, Used, Entry, Covers
  <2>3. QED
    BY <1>1, <2>1, <2>2 DEF TableIsExact
<1>18. PlanIsExact'
  <2>1. Mapped(pending)' = Mapped(pending') /\ Mapped(active)' = Mapped(active)
    BY <1>1 DEF Mapped, Used, Entry
  <2>2. Exclusive(pending)' /\ Covers(pending, Wanted)' /\ Extends(pending, active)'
    BY <1>1, <1>10, <1>12, <1>13, <1>14 DEF Exclusive, Extends, Entry, Covers
  <2>3. QED
    BY <1>1, <1>9, <1>11, <1>13, <2>1, <2>2 DEF PlanIsExact
<1>19. QED
  BY <1>15, <1>16, <1>17, <1>18 DEF Inv

LEMMA CommitStep ==
  ASSUME Inv, Commit PROVE Inv'
<1>1. /\ pc = "enqueue" /\ pagePhase = "executing" /\ phase = "executing"
      /\ Types /\ TableIsExact /\ PlanIsExact
  BY DEF Inv, Commit, PhasesAgree
<1>2. /\ active' = pending /\ journal' = {} /\ free' = free /\ pagePhase' = "ready"
      /\ lengths' = Wanted /\ phase' = "ready" /\ pc' = "idle" /\ request' = <<>>
  BY <1>1 DEF Commit, CommitPages, Published, Return
<1>3. /\ pending \in Tables /\ Exclusive(pending) /\ Mapped(pending) = Mapped(active) \cup journal
      /\ Covers(pending, Wanted) /\ journal \cap free = {}
      /\ Mapped(active) \cap free = {} /\ free \cup journal \cup Mapped(active) = Pages
  BY <1>1 DEF PlanIsExact, TableIsExact
<1>4. Types'
  <2>1. DOMAIN request' = {}
    BY <1>2
  <2>2. QED
    BY <1>1, <1>2, <1>3, <2>1, WantedGrows, FS_EmptySet DEF Types
<1>5. PhasesAgree'
  BY <1>2 DEF PhasesAgree
<1>6. Exclusive(active)' /\ Mapped(active)' = Mapped(pending) /\ Covers(active, lengths)'
  BY <1>2, <1>3 DEF Exclusive, Mapped, Used, Entry, Covers
<1>7. TableIsExact' /\ PlanIsExact'
  BY <1>2, <1>3, <1>6 DEF TableIsExact, PlanIsExact
<1>8. QED
  BY <1>4, <1>5, <1>7 DEF Inv

\* A sequence gives back its pages, and nobody else's.
LEMMA ClearStep ==
  ASSUME Inv, ClearSequence PROVE Inv'
<1>1. /\ pc = "idle" /\ phase = "ready" /\ pagePhase = "ready" /\ journal = {}
      /\ Types /\ TableIsExact
  BY DEF Inv, ClearSequence, PhasesAgree, PlanIsExact
<1>2. PICK s \in Slots : ClearPages(s) /\ lengths' = [lengths EXCEPT ![s] = 0]
  BY DEF ClearSequence
<1> DEFINE released == {active[s][b] : b \in Blocks} \ {NoPage}
<1>3. /\ free' = free \cup released /\ active' = [active EXCEPT ![s] = [b \in Blocks |-> NoPage]]
      /\ journal' = journal /\ pagePhase' = pagePhase
  BY <1>2 DEF ClearPages, Emptied
<1>4. phase' = phase /\ pc' = pc /\ request' = request
  BY DEF ClearSequence
<1>5. released \subseteq Pages /\ NoPage \notin Pages
  BY <1>1, PageTableAssumption DEF Types, Tables
<1>6. ASSUME NEW k \in Place
      PROVE  Entry(active', k) = IF k[1] = s THEN NoPage ELSE Entry(active, k)
  <2>1. PICK q \in Slots, b \in Blocks : k = <<q, b>>
    BY DEF Place
  <2>2. QED
    BY <1>1, <1>3, <2>1 DEF Entry, Types, Tables
<1>7. \A p \in released : \E k \in Place : k[1] = s /\ p = Entry(active, k)
  <2>1. SUFFICES ASSUME NEW b \in Blocks PROVE \E k \in Place : k[1] = s /\ active[s][b] = Entry(active, k)
    OBVIOUS
  <2>2. <<s, b>> \in Place /\ <<s, b>>[1] = s /\ Entry(active, <<s, b>>) = active[s][b]
    BY DEF Place, Entry
  <2>3. QED
    BY <2>2
<1>8. Exclusive(active) /\ Mapped(active) \cap free = {} /\ free \cup Mapped(active) = Pages
  BY <1>1 DEF TableIsExact
<1>9. Exclusive(active')
  BY <1>5, <1>6, <1>8 DEF Exclusive
<1>10. Mapped(active') = Mapped(active) \ released
  <2>1. ASSUME NEW p \in Mapped(active') PROVE p \in Mapped(active) /\ p \notin released
    <3>1. PICK k \in Place : Entry(active', k) \in Pages /\ p = Entry(active', k)
      BY <2>1 DEF Mapped, Used
    <3>2. k[1] # s /\ p = Entry(active, k) /\ p \in Pages
      BY <1>5, <1>6, <3>1
    <3>3. p \notin released
      BY <1>7, <1>8, <3>2 DEF Exclusive
    <3>4. QED
      BY <3>2, <3>3 DEF Mapped, Used
  <2>2. ASSUME NEW p \in Mapped(active), p \notin released PROVE p \in Mapped(active')
    <3>1. PICK k \in Place : Entry(active, k) \in Pages /\ p = Entry(active, k)
      BY <2>2 DEF Mapped, Used
    <3>2. k[1] # s
      BY <1>5, <2>2, <3>1 DEF Entry, Place
    <3>3. QED
      BY <1>6, <3>1, <3>2 DEF Mapped, Used
  <2>3. QED
    BY <2>1, <2>2
<1>11. released \subseteq Mapped(active)
  BY <1>5, <1>7 DEF Mapped, Used
<1> HIDE DEF released
<1>12. Mapped(active') \cap free' = {} /\ free' \cup Mapped(active') = Pages
  BY <1>3, <1>8, <1>10, <1>11
<1>13. Covers(active', lengths')
  <2>1. Covers(active, lengths) /\ lengths \in [Slots -> Nat]
    BY <1>1 DEF TableIsExact, Types
  <2>2. ASSUME NEW q \in Slots, NEW b \in Blocks PROVE active'[q][b] \in Pages <=> b < PagesFor(lengths'[q])
    <3>1. CASE q = s
      <4>1. active'[q][b] = NoPage /\ lengths'[q] = 0 /\ ~(b < 0)
        BY <1>1, <1>2, <1>3, <2>1, <3>1 DEF Types, Tables, Blocks
      <4>2. QED
        BY <1>5, <4>1, PagesOfLengths
    <3>2. CASE q # s
      <4>1. active'[q][b] = active[q][b] /\ lengths'[q] = lengths[q]
        BY <1>1, <1>2, <1>3, <2>1, <3>2 DEF Types, Tables
      <4>2. QED
        BY <2>1, <4>1 DEF Covers
    <3>3. QED
      BY <3>1, <3>2
  <2>3. QED
    BY <2>2 DEF Covers
<1>14. Types'
  <2>1. active' \in Tables
    BY <1>1, <1>3 DEF Types, Tables
  <2>2. lengths' \in [Slots -> Nat]
    BY <1>1, <1>2 DEF Types
  <2>3. QED
    BY <1>1, <1>3, <1>4, <1>5, <2>1, <2>2 DEF Types
<1>15. PhasesAgree'
  BY <1>1, <1>3, <1>4 DEF PhasesAgree
<1>16. TableIsExact' /\ PlanIsExact'
  <2>1. Exclusive(active)' /\ Mapped(active)' = Mapped(active') /\ Covers(active, lengths)'
    BY <1>9, <1>13 DEF Exclusive, Mapped, Used, Entry, Covers
  <2>2. QED
    BY <1>1, <1>3, <1>4, <1>12, <2>1 DEF TableIsExact, PlanIsExact
<1>17. QED
  BY <1>14, <1>15, <1>16 DEF Inv

LEMMA InvStep == Inv /\ [Next]_vars => Inv'
<1> SUFFICES ASSUME Inv, [Next]_vars PROVE Inv'
  OBVIOUS
<1>1. Types /\ PhasesAgree
  BY DEF Inv
<1>2. IsFiniteSet(DOMAIN <<>>)
  <2>1. DOMAIN <<>> = {}
    OBVIOUS
  <2>2. QED
    BY <2>1, FS_EmptySet
<1>3. CASE Reject
  <2>1. /\ pc = "idle" /\ pc' = "idle" /\ request' = <<>> /\ phase' = phase /\ lengths' = lengths
        /\ UNCHANGED pageVars
    BY <1>3 DEF Reject, Return
  <2>2. PhasesAgree'
    BY <1>1, <2>1 DEF PhasesAgree, pageVars
  <2>3. pagePhase = "ready" \/ pagePhase = "poisoned"
    BY <1>1, <2>1 DEF PhasesAgree
  <2>4. QED
    BY <1>2, <2>1, <2>2, <2>3, HostMoves DEF pageVars
<1>4. CASE Forward
  <2>1. /\ pc = "idle" /\ pc' = "prepare" /\ phase = "ready" /\ phase' = "prepared"
        /\ lengths' = lengths /\ UNCHANGED pageVars /\ request' \in Batches
    BY <1>4 DEF Forward
  <2>2. PhasesAgree' /\ pagePhase = "ready"
    BY <1>1, <2>1 DEF PhasesAgree, pageVars
  <2>3. IsFiniteSet(DOMAIN request')
    <3>1. PICK n \in Nat : DOMAIN request' = 1..n
      BY <2>1, CudaAssumption DEF Batches
    <3>2. QED
      BY <3>1, FS_Interval
  <2>4. QED
    BY <2>1, <2>2, <2>3, HostMoves DEF pageVars
<1>5. CASE Prepare
  BY <1>5, PrepareStep
<1>6. CASE Abandon
  <2>1. /\ phase' = (IF pagePhase = "poisoned" THEN "poisoned" ELSE "ready")
        /\ pc' = "idle" /\ request' = <<>> /\ lengths' = lengths
    BY <1>6 DEF Abandon, Return
  <2>2. CASE pc = "prepare" /\ UNCHANGED pageVars
    <3>1. pagePhase = "ready" /\ phase # "poisoned"
      BY <1>1, <2>2 DEF PhasesAgree
    <3>2. PhasesAgree'
      BY <2>1, <2>2, <3>1 DEF PhasesAgree, pageVars
    <3>3. QED
      BY <1>2, <2>1, <2>2, <3>1, <3>2, HostMoves DEF pageVars
  <2>3. CASE pc = "prepared" /\ DiscardPages
    <3>1. pagePhase = "prepared" /\ phase = "prepared"
      BY <1>1, <2>3 DEF PhasesAgree
    <3>2. journal' = {} /\ pagePhase' = "ready" /\ active' = active /\ free' = free /\ phase' = "ready"
      BY <2>1, <2>3, <3>1 DEF DiscardPages
    <3>3. /\ Exclusive(active) /\ Mapped(active) \cap free = {} /\ free \cup Mapped(active) = Pages
          /\ Covers(active, lengths)
      BY <3>1 DEF Inv, TableIsExact, PlanIsExact
    <3>4. Types'
      BY <1>1, <1>2, <2>1, <3>2 DEF Types
    <3>5. PhasesAgree' /\ PlanIsExact'
      BY <2>1, <3>2 DEF PhasesAgree, PlanIsExact
    <3>6. Exclusive(active)' /\ Mapped(active)' = Mapped(active) /\ Covers(active, lengths)'
      BY <2>1, <3>2, <3>3 DEF Exclusive, Mapped, Used, Entry, Covers
    <3>7. TableIsExact'
      BY <3>2, <3>3, <3>6 DEF TableIsExact
    <3>8. QED
      BY <3>4, <3>5, <3>7 DEF Inv
  <2>4. QED
    BY <1>6, <2>2, <2>3 DEF Abandon
<1>7. CASE Start
  <2>1. pc = "prepared" /\ pagePhase = "prepared" /\ phase = "prepared"
    BY <1>1, <1>7 DEF Start, PhasesAgree
  <2>2. /\ free' = free \ journal /\ pagePhase' = "executing" /\ phase' = "executing" /\ pc' = "enqueue"
        /\ active' = active /\ pending' = pending /\ journal' = journal
        /\ lengths' = lengths /\ request' = request
    BY <1>7, <2>1 DEF Start, BeginExecution, Taken
  <2>3. Wanted' = Wanted
    BY <2>2 DEF Wanted
  <2>4. Types' /\ PhasesAgree'
    BY <1>1, <2>2 DEF Types, PhasesAgree
  <2>5. /\ Exclusive(active)' <=> Exclusive(active)
        /\ Exclusive(pending)' <=> Exclusive(pending)
        /\ Mapped(active)' = Mapped(active) /\ Mapped(pending)' = Mapped(pending)
        /\ Covers(active, lengths)' <=> Covers(active, lengths)
        /\ Covers(pending, Wanted)' <=> Covers(pending, Wanted)
        /\ Extends(pending, active)' <=> Extends(pending, active)
    BY <2>2, <2>3 DEF Exclusive, Extends, Mapped, Used, Entry, Covers
  <2>6. /\ Mapped(active) \cap (free \cup journal) = {} /\ free \cup journal \cup Mapped(active) = Pages
        /\ Exclusive(active) /\ Covers(active, lengths)
        /\ pending \in Tables /\ Exclusive(pending)
        /\ Mapped(pending) = Mapped(active) \cup journal /\ Covers(pending, Wanted)
        /\ Extends(pending, active) /\ (journal = {} => pending = active)
    BY <2>1 DEF Inv, TableIsExact, PlanIsExact
  <2>7. TableIsExact' /\ PlanIsExact'
    BY <2>2, <2>5, <2>6 DEF TableIsExact, PlanIsExact
  <2>8. QED
    BY <2>4, <2>7 DEF Inv
<1>8. CASE Commit
  BY <1>8, CommitStep
<1>9. CASE Fail
  <2>1. /\ pc = "enqueue" /\ pagePhase = "executing" /\ pagePhase' = "poisoned" /\ phase' = "poisoned"
        /\ pc' = "finish" /\ free' = free /\ active' = active /\ journal' = journal
        /\ lengths' = lengths /\ request' = request /\ pending' = pending
    BY <1>1, <1>9 DEF Fail, PoisonPages, PhasesAgree
  <2>2. Types' /\ PhasesAgree' /\ Wanted' = Wanted
    BY <1>1, <2>1 DEF Types, PhasesAgree, Wanted
  <2>3. /\ Exclusive(active)' <=> Exclusive(active)
        /\ Exclusive(pending)' <=> Exclusive(pending)
        /\ Mapped(active)' = Mapped(active) /\ Mapped(pending)' = Mapped(pending)
        /\ Covers(active, lengths)' <=> Covers(active, lengths)
        /\ Covers(pending, Wanted)' <=> Covers(pending, Wanted)
        /\ Extends(pending, active)' <=> Extends(pending, active)
    BY <2>1, <2>2 DEF Exclusive, Extends, Mapped, Used, Entry, Covers
  <2>4. TableIsExact'
    BY <2>1, <2>3 DEF Inv, TableIsExact
  <2>5. PlanIsExact'
    BY <2>1, <2>3 DEF Inv, PlanIsExact
  <2>6. QED
    BY <2>2, <2>4, <2>5 DEF Inv
<1>10. CASE Finish
  <2>1. /\ pc = "finish" /\ pc' = "idle" /\ request' = <<>> /\ phase' = phase /\ lengths' = lengths
        /\ UNCHANGED pageVars
    BY <1>10 DEF Finish, Return
  <2>2. PhasesAgree' /\ pagePhase = "poisoned"
    BY <1>1, <2>1 DEF PhasesAgree, pageVars
  <2>3. QED
    BY <1>2, <2>1, <2>2, HostMoves DEF pageVars
<1>11. CASE ClearSequence
  BY <1>11, ClearStep
<1>12. CASE Enqueue \/ DeviceCopy \/ DeviceKernels \/ UNCHANGED vars
  <2>1. UNCHANGED <<pageVars, lengths, phase, pc, request>>
    BY <1>12 DEF Enqueue, DeviceCopy, DeviceKernels, vars, hostVars
  <2>2. Wanted' = Wanted
    BY <2>1 DEF Wanted
  <2>3. PhasesAgree' /\ IsFiniteSet(DOMAIN request')
    BY <1>1, <2>1 DEF PhasesAgree, pageVars, Types
  <2>4. QED
    BY <2>1, <2>2, <2>3, HostMoves DEF pageVars
<1>13. QED
  BY <1>3, <1>4, <1>5, <1>6, <1>7, <1>8, <1>9, <1>10, <1>11, <1>12 DEF Next

-----------------------------------------------------------------------------
\* As many pages are mapped as places use one, when no page is in two places.
LEMMA OnePlaceEach ==
  ASSUME Types, Exclusive(active)
  PROVE  Cardinality(Mapped(active)) = Cardinality(Used(active))
<1>1. IsFiniteSet(Pages) /\ Mapped(active) \subseteq Pages
  BY PageTableAssumption DEF Mapped, Used
<1>2. IsFiniteSet(Mapped(active))
  BY <1>1, FS_Subset
<1> DEFINE f == [k \in Used(active) |-> Entry(active, k)]
<1>3. f \in Bijection(Used(active), Mapped(active))
  <2>1. f \in [Used(active) -> Mapped(active)]
    BY DEF Mapped
  <2>2. \A k, l \in Used(active) : f[k] = f[l] => k = l
    BY DEF Exclusive, Used
  <2>3. \A p \in Mapped(active) : \E k \in Used(active) : f[k] = p
    BY DEF Mapped
  <2>4. QED
    BY <2>1, <2>2, <2>3, Fun_IsBij
<1>4. ExistsBijection(Mapped(active), Used(active))
  BY <1>3, Fun_ExistsBijSymmetric DEF ExistsBijection
<1>5. QED
  BY <1>2, <1>4, FS_Bijection

\* Pages and lengths, which two classes keep, tell one story, whatever plan is
\* made, taken back, committed or poisoned.
THEOREM PagesStayExact == Spec => []PagesAreExact
<1>1. Inv => PagesAreExact
  <2> SUFFICES ASSUME Inv PROVE PagesAreExact
    OBVIOUS
  <2>1. Used(active) = {k \in Slots \X Blocks : active[k[1]][k[2]] \in Pages}
    BY DEF Used, Entry, Place
  <2>2. Mapped(active) = {active[k[1]][k[2]] : k \in Used(active)}
    BY DEF Mapped, Entry
  <2>3. Cardinality(Mapped(active)) = Cardinality(Used(active))
    BY OnePlaceEach DEF Inv, TableIsExact
  <2>4. /\ Mapped(active) \cap (free \cup journal) = {}
        /\ pagePhase # "poisoned" => free \cup journal \cup Mapped(active) = Pages
        /\ phase # "poisoned" => Matches(lengths)
    BY DEF Inv, TableIsExact, Covers, Matches
  <2>5. pc = "idle" => phase = pagePhase
    BY DEF Inv, PhasesAgree
  <2>6. QED
    BY <2>1, <2>2, <2>3, <2>4, <2>5 DEF PagesAreExact
<1>2. QED
  BY <1>1, Starts, InvStep, PTL DEF Spec

-----------------------------------------------------------------------------
(***************************************************************************)
(* Positions and batches.                                                  *)
(***************************************************************************)
LEMMA PlaceOfPosition ==
  ASSUME NEW q \in Nat
  PROVE  /\ q \div PageTokens \in Nat /\ q % PageTokens \in 0..(PageTokens - 1)
         /\ \A n \in Nat : q < n => q \div PageTokens < PagesFor(n)
         /\ \A n \in 0..MaxLen : q < n => q \div PageTokens \in Blocks
         /\ \A x \in Nat : q \div PageTokens = x \div PageTokens /\ q % PageTokens = x % PageTokens => q = x
<1> DEFINE b == q \div PageTokens
           r == q % PageTokens
<1>0. PageTokens \in Nat \ {0}
  BY PageTableAssumption
<1>1. /\ b \in Nat /\ r \in 0..(PageTokens - 1) /\ q = PageTokens * b + r /\ PageTokens \in Nat \ {0}
  BY <1>0
<1>2. \A x \in Nat : x = PageTokens * (x \div PageTokens) + (x % PageTokens)
  BY <1>0
<1>3. \A x \in Nat : b = x \div PageTokens /\ r = x % PageTokens => q = x
  BY <1>1, <1>2
<1> HIDE DEF b, r
<1>4. PagesFor(q + 1) = b + 1
  <2>1. PICK c \in Nat : c = b + 1
    BY <1>1
  <2>2. (q + 1) + PageTokens - 1 = PageTokens * c + r
    BY <1>1, <2>1
  <2>3. ((q + 1) + PageTokens - 1) \div PageTokens = c
    BY <1>1, <2>2, QuotientIs
  <2>4. QED
    BY <2>1, <2>3 DEF PagesFor
<1>5. ASSUME NEW n \in Nat, q < n PROVE b < PagesFor(n)
  <2>1. q + 1 \in Nat /\ q + 1 <= n
    BY <1>5
  <2>2. PagesFor(q + 1) <= PagesFor(n) /\ PagesFor(n) \in Nat
    BY <2>1, PagesOfLengths
  <2>3. QED
    BY <1>1, <1>4, <2>2
<1>6. ASSUME NEW n \in 0..MaxLen, q < n PROVE b \in Blocks
  <2>1. MaxLen \in Nat /\ q < MaxLen
    BY <1>6, PageTableAssumption
  <2>2. b < PagesFor(MaxLen) /\ PagesFor(MaxLen) \in Nat
    BY <1>5, <2>1, PagesOfLengths
  <2>3. QED
    BY <1>1, <2>2 DEF Blocks
<1>7. QED
  BY <1>1, <1>3, <1>5, <1>6 DEF b, r

\* A batch that is accepted continues each sequence: its inputs have the
\* positions that follow, each of them once.
LEMMA BatchContinues ==
  ASSUME NEW len \in [Slots -> 0..MaxLen], NEW batch \in Batches, NEW s \in Slots,
         \A i \in DOMAIN batch : batch[i].position < MaxLen,
         \A i \in Of(batch, s) : batch[i].position = len[s] + Rank(Of(batch, s), i)
  PROVE  /\ Cardinality(Of(batch, s)) \in Nat
         /\ len[s] + Cardinality(Of(batch, s)) \in 0..MaxLen
         /\ \A i \in Of(batch, s) : /\ i \in Nat /\ batch[i].token \in Tokens
                                    /\ batch[i].position \in len[s]..(len[s] + Cardinality(Of(batch, s)) - 1)
         /\ \A i, j \in Of(batch, s) : batch[i].position = batch[j].position => i = j
         /\ \A q \in len[s]..(len[s] + Cardinality(Of(batch, s)) - 1) :
              \E i \in Of(batch, s) : batch[i].position = q
         /\ Of(batch, s) = {} <=> Cardinality(Of(batch, s)) = 0
         /\ \A i \in Of(batch, s) :
              (\A j \in Of(batch, s) : j <= i)
                <=> batch[i].position = len[s] + Cardinality(Of(batch, s)) - 1
<1> DEFINE S == Of(batch, s)
<1>1. PICK n \in 0..BatchTokens : batch \in [1..n -> Inputs]
  BY DEF Batches
<1>2. n \in Nat /\ len[s] \in Nat /\ len[s] <= MaxLen /\ MaxLen \in Nat
  BY CudaAssumption, PageTableAssumption
<1>3. S \subseteq 1..n /\ (\A i \in S : i \in Nat) /\ DOMAIN batch = 1..n
  BY <1>1, <1>2 DEF Of
<1>4. IsFiniteSet(S)
  <2>1. 1 \in Int /\ n \in Int
    BY <1>2
  <2>2. IsFiniteSet(1..n)
    BY <2>1, FS_Interval
  <2>3. QED
    BY <1>3, <2>2, FS_Subset
<1>5. ASSUME NEW i \in S PROVE batch[i].token \in Tokens /\ batch[i].position < MaxLen
  <2>1. i \in 1..n
    BY <1>3
  <2>2. batch[i] \in Inputs
    BY <1>1, <2>1
  <2>3. QED
    BY <1>3, <2>1, <2>2 DEF Inputs
<1>6. \A i \in S : batch[i].position = len[s] + Rank(S, i)
  OBVIOUS
<1> HIDE DEF S
<1>7. /\ Cardinality(S) \in Nat
      /\ \A i \in S : Rank(S, i) \in 0..(Cardinality(S) - 1)
      /\ \A i, k \in S : Rank(S, i) = Rank(S, k) => i = k
      /\ \A r \in 0..(Cardinality(S) - 1) : \E i \in S : Rank(S, i) = r
      /\ \A i \in S : (\A j \in S : j <= i) <=> Rank(S, i) = Cardinality(S) - 1
  BY <1>3, <1>4, Ranks
<1>8. \A i \in S : batch[i].position \in len[s]..(len[s] + Cardinality(S) - 1)
  BY <1>2, <1>6, <1>7
<1>9. \A i, j \in S : batch[i].position = batch[j].position => i = j
  <2>1. SUFFICES ASSUME NEW i \in S, NEW j \in S, batch[i].position = batch[j].position PROVE i = j
    OBVIOUS
  <2>2. Rank(S, i) = Rank(S, j)
    BY <1>2, <1>6, <1>7, <2>1
  <2>3. QED
    BY <1>7, <2>2
<1>10. \A q \in len[s]..(len[s] + Cardinality(S) - 1) : \E i \in S : batch[i].position = q
  <2>1. SUFFICES ASSUME NEW q \in len[s]..(len[s] + Cardinality(S) - 1) PROVE \E i \in S : batch[i].position = q
    OBVIOUS
  <2>2. q - len[s] \in 0..(Cardinality(S) - 1)
    BY <1>2, <1>7
  <2>3. PICK i \in S : Rank(S, i) = q - len[s]
    BY <1>7, <2>2
  <2>4. batch[i].position = q
    BY <1>2, <1>6, <1>7, <2>3
  <2>5. QED
    BY <2>4
<1>11. S = {} <=> Cardinality(S) = 0
  BY <1>4, FS_EmptySet
<1>12. len[s] + Cardinality(S) \in 0..MaxLen
  <2>1. CASE S = {}
    BY <1>2, <1>11, <2>1
  <2>2. CASE S # {}
    <3>1. len[s] + Cardinality(S) - 1 \in len[s]..(len[s] + Cardinality(S) - 1)
      BY <1>2, <1>7, <1>11, <2>2
    <3>2. PICK i \in S : batch[i].position = len[s] + Cardinality(S) - 1
      BY <1>10, <3>1
    <3>3. len[s] + Cardinality(S) - 1 < MaxLen
      BY <1>5, <3>2
    <3>4. QED
      BY <1>2, <1>7, <3>3
  <2>3. QED
    BY <2>1, <2>2
<1>13. \A i \in S : (\A j \in S : j <= i) <=> batch[i].position = len[s] + Cardinality(S) - 1
  BY <1>2, <1>6, <1>7
<1>14. QED
  BY <1>3, <1>5, <1>7, <1>8, <1>9, <1>10, <1>11, <1>12, <1>13 DEF S

-----------------------------------------------------------------------------
(***************************************************************************)
(* The device.  What it still has to do for the forward, part of which the *)
(* host has yet to enqueue, says how far it has come.                      *)
(***************************************************************************)
Cells == Tokens \cup {Junk}
ReadAt(t, s, q) == memory[t[s][q \div PageTokens]][q % PageTokens]

Work == {"table", "inputs", "kernels"}
ToGo == stream \o todo
Underway == pc \in {"enqueue", "finish"}

\* The kernels have run: the positions of the batch are in the pages of the
\* plan, and the answers were read from the whole of each sequence.
IsComputed ==
  /\ \A s \in Slots : \A q \in lengths[s]..(Wanted[s] - 1) : ReadAt(pending, s, q) = InputAt(s, q).token
  /\ context = [s \in {t \in Slots : Of(request, t) # {}} |->
                  [n \in 1..Wanted[s] |-> ReadAt(pending, s, n - 1)]]

Stage ==
  \/ ToGo = <<"table", "inputs", "kernels">>
  \/ ToGo = <<"inputs", "kernels">> /\ deviceTable = pending
  \/ ToGo = <<"kernels">> /\ deviceTable = pending /\ inputs = request
  \/ ToGo = <<>> /\ deviceTable = pending /\ IsComputed

DeviceInStep ==
  /\ memory \in [Pages -> [0..(PageTokens - 1) -> Cells]]
  /\ stream \in Seq(Work) /\ todo \in Seq(Work)
  /\ ~Underway => stream = <<>> /\ todo = <<>>
  /\ ~Underway /\ phase # "poisoned" => dirty \/ deviceTable = active
  /\ Underway => Stage

BatchIsAccepted ==
  /\ lengths \in [Slots -> 0..MaxLen] /\ request \in Batches
  /\ throughRunner \in BOOLEAN /\ reusable \in BOOLEAN
  /\ pc = "idle" => request = <<>>
  /\ pc # "idle" => Acceptable(request) /\ (throughRunner => reusable)

StoreInv == BatchIsAccepted /\ DeviceInStep

LEMMA AcceptedBatch ==
  ASSUME BatchIsAccepted, pc # "idle", NEW s \in Slots
  PROVE  /\ Cardinality(Of(request, s)) \in Nat /\ lengths[s] \in 0..MaxLen /\ lengths[s] \in Nat
         /\ Wanted[s] = lengths[s] + Cardinality(Of(request, s)) /\ Wanted[s] \in 0..MaxLen /\ Wanted[s] \in Nat
         /\ \A i \in Of(request, s) :
              /\ request[i].token \in Tokens
              /\ request[i].position \in lengths[s]..(Wanted[s] - 1)
              /\ InputAt(s, request[i].position) = request[i]
         /\ \A q \in lengths[s]..(Wanted[s] - 1) :
              \E i \in Of(request, s) : request[i].position = q /\ InputAt(s, q) = request[i]
         /\ \A i, j \in Of(request, s) : request[i].position = request[j].position => i = j
         /\ Of(request, s) = {} <=> Cardinality(Of(request, s)) = 0
         /\ \A i \in Of(request, s) :
              (\A j \in Of(request, s) : j <= i) <=> request[i].position = Wanted[s] - 1
<1>1. /\ lengths \in [Slots -> 0..MaxLen] /\ request \in Batches
      /\ \A i \in DOMAIN request : request[i].position < MaxLen
  BY DEF BatchIsAccepted, Acceptable
<1>2. \A i \in Of(request, s) : request[i].position = lengths[s] + Rank(Of(request, s), i)
  BY DEF BatchIsAccepted, Acceptable, InOrder, Of, Rank
<1>3. Wanted[s] = lengths[s] + Cardinality(Of(request, s))
  BY DEF Wanted
<1>4. /\ Cardinality(Of(request, s)) \in Nat
      /\ Wanted[s] \in 0..MaxLen
      /\ \A i \in Of(request, s) : /\ request[i].token \in Tokens
                                   /\ request[i].position \in lengths[s]..(Wanted[s] - 1)
      /\ \A i, j \in Of(request, s) : request[i].position = request[j].position => i = j
      /\ \A q \in lengths[s]..(Wanted[s] - 1) : \E i \in Of(request, s) : request[i].position = q
      /\ Of(request, s) = {} <=> Cardinality(Of(request, s)) = 0
      /\ \A i \in Of(request, s) :
           (\A j \in Of(request, s) : j <= i) <=> request[i].position = Wanted[s] - 1
  BY <1>1, <1>2, <1>3, BatchContinues
<1>5. ASSUME NEW i \in Of(request, s) PROVE InputAt(s, request[i].position) = request[i]
  <2> DEFINE c == CHOOSE j \in Of(request, s) : request[j].position = request[i].position
  <2>1. c \in Of(request, s) /\ request[c].position = request[i].position
    OBVIOUS
  <2>2. c = i
    BY <1>4, <2>1
  <2>3. QED
    BY <2>2 DEF InputAt
<1>6. \A q \in lengths[s]..(Wanted[s] - 1) :
        \E i \in Of(request, s) : request[i].position = q /\ InputAt(s, q) = request[i]
  BY <1>4, <1>5
<1>7. lengths[s] \in 0..MaxLen /\ lengths[s] \in Nat /\ Wanted[s] \in Nat
  BY <1>1, <1>4, PageTableAssumption
<1>8. QED
  BY <1>3, <1>4, <1>5, <1>6, <1>7

\* The positions of all sequences have cells of their own in the plan's
\* table, and those that are committed keep theirs.
LEMMA PlannedCells ==
  ASSUME Inv, BatchIsAccepted, pc \in {"prepared", "enqueue", "finish"},
         NEW s \in Slots, NEW q \in 0..(Wanted[s] - 1)
  PROVE  /\ q \in Nat /\ pending[s][q \div PageTokens] \in Pages /\ q % PageTokens \in 0..(PageTokens - 1)
         /\ q < lengths[s] => active[s][q \div PageTokens] = pending[s][q \div PageTokens]
         /\ \A t \in Slots : \A x \in 0..(Wanted[t] - 1) :
              /\ pending[s][q \div PageTokens] = pending[t][x \div PageTokens]
              /\ q % PageTokens = x % PageTokens
              => t = s /\ x = q
<1>1. /\ Exclusive(pending) /\ Covers(pending, Wanted) /\ Extends(pending, active) /\ Covers(active, lengths)
  BY DEF Inv, PlanIsExact, TableIsExact
<1>2. ASSUME NEW t \in Slots, NEW x \in 0..(Wanted[t] - 1)
      PROVE  /\ x \in Nat /\ x \div PageTokens \in Blocks /\ x % PageTokens \in 0..(PageTokens - 1)
             /\ <<t, x \div PageTokens>> \in Place
             /\ Entry(pending, <<t, x \div PageTokens>>) = pending[t][x \div PageTokens]
             /\ Entry(active, <<t, x \div PageTokens>>) = active[t][x \div PageTokens]
             /\ pending[t][x \div PageTokens] \in Pages
             /\ x < lengths[t] => active[t][x \div PageTokens] \in Pages
  <2>1. Wanted[t] \in 0..MaxLen /\ Wanted[t] \in Nat /\ lengths[t] \in Nat
    BY AcceptedBatch
  <2>2. x \in Nat /\ x < Wanted[t]
    BY <2>1
  <2>3. /\ x % PageTokens \in 0..(PageTokens - 1)
        /\ x \div PageTokens \in Blocks
        /\ x \div PageTokens < PagesFor(Wanted[t])
        /\ x < lengths[t] => x \div PageTokens < PagesFor(lengths[t])
    BY <2>1, <2>2, PlaceOfPosition
  <2>4. QED
    BY <1>1, <2>2, <2>3 DEF Covers, Place, Entry
<1>3. q < lengths[s] => active[s][q \div PageTokens] = pending[s][q \div PageTokens]
  BY <1>1, <1>2 DEF Extends
<1>4. ASSUME NEW t \in Slots, NEW x \in 0..(Wanted[t] - 1),
             pending[s][q \div PageTokens] = pending[t][x \div PageTokens], q % PageTokens = x % PageTokens
      PROVE  t = s /\ x = q
  <2>1. <<s, q \div PageTokens>> = <<t, x \div PageTokens>>
    <3>1. PICK k \in Place : k = <<s, q \div PageTokens>>
      BY <1>2
    <3>2. PICK l \in Place : l = <<t, x \div PageTokens>>
      BY <1>2
    <3>3. Entry(pending, k) \in Pages /\ Entry(pending, k) = Entry(pending, l)
      BY <1>2, <1>4, <3>1, <3>2
    <3>4. k = l
      BY <1>1, <3>3 DEF Exclusive
    <3>5. QED
      BY <3>1, <3>2, <3>4
  <2>2. q \in Nat /\ x \in Nat /\ q \div PageTokens = x \div PageTokens
    BY <1>2, <2>1
  <2>3. q = x
    BY <1>4, <2>2, PlaceOfPosition
  <2>4. QED
    BY <2>1, <2>3
<1>5. QED
  BY <1>2, <1>3, <1>4

\* The kernels write the positions of the batch, and no other that a sequence
\* has; the answers are what is then there.
LEMMA KernelsCompute ==
  ASSUME Inv, StoreInv, Underway, deviceTable = pending, inputs = request, DeviceKernels
  PROVE  /\ memory' \in [Pages -> [0..(PageTokens - 1) -> Cells]]
         /\ \A s \in Slots : \A q \in 0..(lengths[s] - 1) : ReadAt(pending, s, q)' = ReadAt(pending, s, q)
         /\ IsComputed'
<1>1. /\ UNCHANGED <<pageVars, hostVars, deviceTable>> /\ pending' = pending
      /\ lengths' = lengths /\ request' = request /\ Wanted' = Wanted
      /\ BatchIsAccepted /\ pc # "idle" /\ pc \in {"prepared", "enqueue", "finish"}
      /\ memory \in [Pages -> [0..(PageTokens - 1) -> Cells]]
  BY DEF DeviceKernels, pageVars, hostVars, Wanted, StoreInv, Underway, DeviceInStep
<1>2. memory' = [p \in Pages |-> [o \in 0..(PageTokens - 1) |->
       IF Writers(p, o) = {} THEN memory[p][o] ELSE inputs[CHOOSE i \in Writers(p, o) : TRUE].token]]
  BY DEF DeviceKernels
<1>3. ASSUME NEW i \in DOMAIN request
      PROVE  /\ request[i].slot \in Slots /\ i \in Of(request, request[i].slot) /\ request[i].token \in Tokens
             /\ request[i].position \in lengths[request[i].slot]..(Wanted[request[i].slot] - 1)
             /\ request[i].position \in 0..(Wanted[request[i].slot] - 1)
  <2>1. request[i].slot \in Slots /\ i \in Of(request, request[i].slot)
    <3>1. PICK n \in 0..BatchTokens : request \in [1..n -> Inputs]
      BY <1>1 DEF Batches, BatchIsAccepted
    <3>2. request[i] \in Inputs
      BY <3>1
    <3>3. QED
      BY <3>2 DEF Inputs, Of
  <2>2. /\ request[i].token \in Tokens /\ lengths[request[i].slot] \in Nat
        /\ request[i].position \in lengths[request[i].slot]..(Wanted[request[i].slot] - 1)
        /\ Wanted[request[i].slot] \in Nat
    BY <1>1, <2>1, AcceptedBatch
  <2>3. QED
    BY <2>1, <2>2
<1>4. ASSUME NEW p, NEW o, NEW i \in Writers(p, o)
      PROVE  /\ i \in DOMAIN request /\ pending[request[i].slot][request[i].position \div PageTokens] = p
             /\ request[i].position % PageTokens = o
  BY DEF Writers, Page, Offset
<1>5. memory' \in [Pages -> [0..(PageTokens - 1) -> Cells]]
  <2>1. ASSUME NEW p \in Pages, NEW o \in 0..(PageTokens - 1)
        PROVE  (IF Writers(p, o) = {} THEN memory[p][o] ELSE inputs[CHOOSE i \in Writers(p, o) : TRUE].token) \in Cells
    <3>1. CASE Writers(p, o) = {}
      BY <1>1, <3>1
    <3>2. CASE Writers(p, o) # {}
      <4>1. PICK i \in Writers(p, o) : i = CHOOSE j \in Writers(p, o) : TRUE
        BY <3>2
      <4>2. request[i].token \in Tokens
        BY <1>3, <1>4
      <4>3. QED
        BY <3>2, <4>1, <4>2 DEF Cells
    <3>3. QED
      BY <3>1, <3>2
  <2>2. QED
    BY <1>2, <2>1
<1>6. ASSUME NEW s \in Slots, NEW q \in 0..(Wanted[s] - 1)
      PROVE  ReadAt(pending, s, q)' = IF q < lengths[s] THEN ReadAt(pending, s, q) ELSE InputAt(s, q).token
  <2> DEFINE p == pending[s][q \div PageTokens]
             o == q % PageTokens
  <2>1. /\ q \in Nat /\ p \in Pages /\ o \in 0..(PageTokens - 1)
        /\ \A t \in Slots : \A x \in 0..(Wanted[t] - 1) :
              p = pending[t][x \div PageTokens] /\ o = x % PageTokens => t = s /\ x = q
    BY <1>1, PlannedCells
  <2>2. /\ lengths[s] \in Nat /\ Wanted[s] \in Nat
        /\ \A y \in lengths[s]..(Wanted[s] - 1) :
              \E i \in Of(request, s) : request[i].position = y /\ InputAt(s, y) = request[i]
        /\ \A i, j \in Of(request, s) : request[i].position = request[j].position => i = j
    BY <1>1, AcceptedBatch
  <2>3. ReadAt(pending, s, q)' = memory'[p][o] /\ ReadAt(pending, s, q) = memory[p][o]
    BY <1>1 DEF ReadAt
  <2>4. \A i \in Writers(p, o) : i \in Of(request, s) /\ request[i].position = q
    <3>1. SUFFICES ASSUME NEW i \in Writers(p, o) PROVE i \in Of(request, s) /\ request[i].position = q
      OBVIOUS
    <3>2. /\ i \in DOMAIN request /\ pending[request[i].slot][request[i].position \div PageTokens] = p
          /\ request[i].position % PageTokens = o
      BY <1>4
    <3>3. request[i].slot = s /\ request[i].position = q
      BY <1>3, <2>1, <3>2
    <3>4. QED
      BY <3>2, <3>3 DEF Of
  <2>5. \A i \in Of(request, s) : request[i].position = q => i \in Writers(p, o)
    BY DEF Writers, Page, Offset, Of
  <2>6. memory'[p][o] = IF Writers(p, o) = {} THEN memory[p][o] ELSE inputs[CHOOSE i \in Writers(p, o) : TRUE].token
    BY <1>2, <2>1
  <2> HIDE DEF p, o
  <2>7. CASE q < lengths[s]
    <3>1. \A i \in Of(request, s) : request[i].position \in lengths[s]..(Wanted[s] - 1)
      BY <1>1, AcceptedBatch
    <3>2. Writers(p, o) = {}
      BY <2>1, <2>2, <2>4, <2>7, <3>1
    <3>3. QED
      BY <2>3, <2>6, <2>7, <3>2
  <2>8. CASE ~(q < lengths[s])
    <3>1. q \in lengths[s]..(Wanted[s] - 1)
      BY <2>1, <2>2, <2>8
    <3>2. PICK i \in Of(request, s) : request[i].position = q /\ InputAt(s, q) = request[i]
      BY <2>2, <3>1
    <3>3. Writers(p, o) = {i}
      BY <2>2, <2>4, <2>5, <3>2
    <3>4. (CHOOSE j \in Writers(p, o) : TRUE) = i
      BY <3>3
    <3>5. QED
      BY <2>3, <2>6, <2>8, <3>2, <3>3, <3>4
  <2>9. QED
    BY <2>7, <2>8
<1> DEFINE last(s)  == CHOOSE i \in Of(inputs, s) : \A j \in Of(inputs, s) : j <= i
           reads(s) == 0..inputs[last(s)].position
           asked    == {s \in Slots : Of(inputs, s) # {}}
<1>7. ASSUME NEW s \in asked PROVE reads(s) = 0..(Wanted[s] - 1) /\ Cardinality(reads(s)) = Wanted[s]
  <2>1. /\ Wanted[s] = lengths[s] + Cardinality(Of(request, s)) /\ Wanted[s] \in Nat /\ lengths[s] \in Nat
        /\ Cardinality(Of(request, s)) \in Nat /\ Cardinality(Of(request, s)) # 0
        /\ \A q \in lengths[s]..(Wanted[s] - 1) : \E i \in Of(request, s) : request[i].position = q
        /\ \A i \in Of(request, s) :
              (\A j \in Of(request, s) : j <= i) <=> request[i].position = Wanted[s] - 1
    BY <1>1, AcceptedBatch
  <2>2. Wanted[s] - 1 \in lengths[s]..(Wanted[s] - 1)
    BY <2>1
  <2>3. \E i \in Of(request, s) : \A j \in Of(request, s) : j <= i
    BY <2>1, <2>2
  <2>4. last(s) \in Of(request, s) /\ \A j \in Of(request, s) : j <= last(s)
    BY <2>3
  <2>5. request[last(s)].position = Wanted[s] - 1
    BY <2>1, <2>4
  <2>6. reads(s) = 0..(Wanted[s] - 1)
    BY <2>5
  <2>7. Cardinality(0..(Wanted[s] - 1)) = Wanted[s]
    <3>1. 0 \in Int /\ Wanted[s] - 1 \in Int
      BY <2>1
    <3>2. Cardinality(0..(Wanted[s] - 1)) = IF 0 > Wanted[s] - 1 THEN 0 ELSE (Wanted[s] - 1) - 0 + 1
      BY <3>1, FS_Interval
    <3>3. QED
      BY <2>1, <3>2
  <2>8. QED
    BY <2>6, <2>7
<1>8. \A s \in asked : \A q \in reads(s) : Page(s, q) # NoPage
  <2>1. SUFFICES ASSUME NEW s \in asked, NEW q \in reads(s) PROVE Page(s, q) # NoPage
    OBVIOUS
  <2>2. q \in 0..(Wanted[s] - 1) /\ s \in Slots
    BY <1>7
  <2>3. pending[s][q \div PageTokens] \in Pages
    BY <1>1, <2>2, PlannedCells
  <2>4. QED
    BY <2>3, PageTableAssumption DEF Page
<1>9. context' = [s \in asked |-> [n \in 1..Cardinality(reads(s)) |-> memory'[Page(s, n - 1)][Offset(n - 1)]]]
  <2>1. IF \E s \in asked : \E q \in reads(s) : Page(s, q) = NoPage
        THEN status' = "bad" /\ UNCHANGED context
        ELSE /\ status' = "ok"
             /\ context' = [s \in asked |-> [n \in 1..Cardinality(reads(s)) |->
                              memory'[Page(s, n - 1)][Offset(n - 1)]]]
    BY DEF DeviceKernels
  <2>2. ~\E s \in asked : \E q \in reads(s) : Page(s, q) = NoPage
    BY <1>8
  <2> HIDE DEF asked, reads
  <2>3. QED
    BY <2>1, <2>2
<1>10. context' = [s \in {t \in Slots : Of(request, t) # {}} |-> [n \in 1..Wanted[s] |-> ReadAt(pending, s, n - 1)']]
  <2>1. asked = {t \in Slots : Of(request, t) # {}}
    OBVIOUS
  <2>2. \A s, n : memory'[Page(s, n - 1)][Offset(n - 1)] = ReadAt(pending, s, n - 1)'
    BY <1>1 DEF Page, Offset, ReadAt
  <2> HIDE DEF asked, reads
  <2>3. QED
    BY <1>7, <1>9, <2>1, <2>2
<1>11. IsComputed'
  <2>1. ASSUME NEW s \in Slots, NEW q \in lengths[s]..(Wanted[s] - 1)
        PROVE  ReadAt(pending, s, q)' = InputAt(s, q).token
    <3>1. lengths[s] \in Nat /\ Wanted[s] \in Nat
      BY <1>1, AcceptedBatch
    <3>2. q \in 0..(Wanted[s] - 1) /\ ~(q < lengths[s])
      BY <3>1
    <3>3. QED
      BY <1>6, <3>2
  <2>2. \A s, q : InputAt(s, q)' = InputAt(s, q)
    BY <1>1 DEF InputAt, Of
  <2>3. \A t : Of(request, t)' = Of(request, t)
    BY <1>1 DEF Of
  <2>4. QED
    BY <1>1, <1>10, <2>1, <2>2, <2>3 DEF IsComputed
<1>12. ASSUME NEW s \in Slots, NEW q \in 0..(lengths[s] - 1)
       PROVE  ReadAt(pending, s, q)' = ReadAt(pending, s, q)
  <2>1. lengths[s] \in Nat /\ Wanted[s] \in Nat /\ lengths[s] <= Wanted[s]
    BY <1>1, AcceptedBatch
  <2>2. q \in 0..(Wanted[s] - 1) /\ q < lengths[s]
    BY <2>1
  <2>3. QED
    BY <1>6, <2>2
<1>13. QED
  BY <1>5, <1>11, <1>12

\* The batch in progress is one that was accepted.
LEMMA AcceptedStays == Inv /\ StoreInv /\ [Next]_vars => BatchIsAccepted'
<1> SUFFICES ASSUME Inv, StoreInv, [Next]_vars PROVE BatchIsAccepted'
  OBVIOUS
<1>1. BatchIsAccepted /\ PhasesAgree
  BY DEF StoreInv, Inv
<1>2. <<>> \in Batches
  <2>1. <<>> \in [1..0 -> Inputs] /\ 0 \in 0..BatchTokens
    BY CudaAssumption
  <2>2. QED
    BY <2>1 DEF Batches
<1>3. CASE Forward
  <2>1. /\ lengths' = lengths /\ UNCHANGED <<throughRunner, reusable>> /\ pc' = "prepare"
        /\ throughRunner => reusable
        /\ \E batch \in Batches : Acceptable(batch) /\ request' = batch
    BY <1>3 DEF Forward, Healthy
  <2>2. \A batch : batch = request' /\ Acceptable(batch) => Acceptable(request)'
    BY <2>1 DEF Acceptable, InOrder, Of
  <2>3. Acceptable(request)' /\ request' \in Batches
    BY <2>1, <2>2
  <2>4. QED
    BY <1>1, <2>1, <2>3 DEF BatchIsAccepted
<1>4. CASE Reject \/ Abandon \/ Finish
  <2>1. pc' = "idle" /\ request' = <<>> /\ UNCHANGED <<lengths, throughRunner>> /\ reusable' \in BOOLEAN
    BY <1>4 DEF Reject, Abandon, Finish, Return
  <2>2. QED
    BY <1>1, <1>2, <2>1 DEF BatchIsAccepted
<1>5. CASE Commit
  <2>1. /\ pc = "enqueue" /\ pc' = "idle" /\ request' = <<>> /\ lengths' = Wanted
        /\ UNCHANGED throughRunner /\ reusable' \in BOOLEAN
    BY <1>5 DEF Commit, Return, Published
  <2>2. Wanted \in [Slots -> 0..MaxLen]
    <3>1. \A s \in Slots : Wanted[s] \in 0..MaxLen
      BY <1>1, <2>1, AcceptedBatch
    <3>2. QED
      BY <3>1 DEF Wanted
  <2>3. QED
    BY <1>1, <1>2, <2>1, <2>2 DEF BatchIsAccepted
<1>6. CASE ClearSequence
  <2>1. pc = "idle" /\ UNCHANGED <<pc, request, throughRunner, reusable>>
    BY <1>6 DEF ClearSequence
  <2>2. PICK s \in Slots : lengths' = [lengths EXCEPT ![s] = 0]
    BY <1>6 DEF ClearSequence
  <2>3. lengths' \in [Slots -> 0..MaxLen]
    BY <1>1, <2>2, PageTableAssumption DEF BatchIsAccepted
  <2>4. QED
    BY <1>1, <2>1, <2>3 DEF BatchIsAccepted
<1>7. CASE Prepare \/ Start \/ Enqueue \/ Fail \/ DeviceCopy \/ DeviceKernels \/ UNCHANGED vars
  <2>1. UNCHANGED <<lengths, request, throughRunner, reusable>> /\ (pc' = "idle" <=> pc = "idle")
    BY <1>7 DEF Prepare, Start, Enqueue, Fail, DeviceCopy, DeviceKernels, vars, hostVars
  <2>2. Acceptable(request)' <=> Acceptable(request)
    BY <2>1 DEF Acceptable, InOrder, Of
  <2>3. QED
    BY <1>1, <2>1, <2>2 DEF BatchIsAccepted
<1>8. QED
  BY <1>3, <1>4, <1>5, <1>6, <1>7 DEF Next

\* The device stands still while the host plans, and when a call is over.
LEMMA DeviceRests ==
  ASSUME DeviceInStep, ~Underway, ~Underway',
         UNCHANGED <<memory, stream, todo, deviceTable>> \/ (stream' = <<>> /\ todo' = <<>> /\ UNCHANGED <<memory, deviceTable>>),
         active' = active, dirty' = dirty, phase = "poisoned" => phase' = "poisoned"
  PROVE  DeviceInStep'
<1>1. stream = <<>> /\ todo = <<>> /\ stream' = <<>> /\ todo' = <<>> /\ UNCHANGED <<memory, deviceTable>>
  BY DEF DeviceInStep
<1>2. <<>> \in Seq(Work)
  OBVIOUS
<1>3. QED
  BY <1>1, <1>2 DEF DeviceInStep

LEMMA StageKept ==
  ASSUME Stage, UNCHANGED <<pending, deviceTable, inputs, memory, context, lengths, request>>, ToGo' = ToGo
  PROVE  Stage'
<1>1. IsComputed' <=> IsComputed
  BY DEF IsComputed, Wanted, Of, InputAt, ReadAt
<1>2. QED
  BY <1>1 DEF Stage

LEMMA StartKeeps == ASSUME Inv, StoreInv, Start PROVE DeviceInStep'
<1>1. /\ pc = "prepared" /\ pagePhase = "prepared" /\ pc' = "enqueue" /\ todo' = DeviceWork /\ phase # "poisoned"
      /\ UNCHANGED <<active, pending, journal, dirty, stream, deviceTable, inputs, memory>>
  BY DEF Start, BeginExecution, Inv, PhasesAgree, deviceVars
<1>2. DeviceInStep /\ stream = <<>> /\ (dirty \/ deviceTable = active)
  BY <1>1 DEF StoreInv, DeviceInStep, Underway
<1>3. /\ DeviceWork \in Seq(Work)
      /\ UploadRequired => DeviceWork = <<"table", "inputs", "kernels">>
      /\ ~UploadRequired => DeviceWork = <<"inputs", "kernels">>
  <2>1. <<"inputs", "kernels">> \in Seq(Work) /\ <<"table">> \in Seq(Work)
    BY DEF Work
  <2>2. <<"table">> \o <<"inputs", "kernels">> \in Seq(Work)
    BY <2>1, ConcatProperties
  <2>3. <<"table">> \o <<"inputs", "kernels">> = <<"table", "inputs", "kernels">>
    <3> DEFINE a == <<"table">>
               b == <<"inputs", "kernels">>
               c == <<"table", "inputs", "kernels">>
    <3>1. /\ a \in Seq(Work) /\ b \in Seq(Work) /\ c \in Seq(Work)
          /\ Len(a) = 1 /\ Len(b) = 2 /\ Len(c) = 3
          /\ c[1] = a[1] /\ c[2] = b[1] /\ c[3] = b[2]
      BY DEF Work
    <3> HIDE DEF a, b, c
    <3>2. \A k \in 1..Len(a) : c[k] = a[k]
      BY <3>1
    <3>3. \A k \in 1..Len(b) : c[Len(a) + k] = b[k]
      BY <3>1
    <3>4. Len(c) = Len(a) + Len(b)
      BY <3>1
    <3>5. c = a \o b
      BY <3>1, <3>2, <3>3, <3>4, JoinedSeq
    <3>6. QED
      BY <3>5 DEF a, b, c
  <2>4. <<>> \o <<"inputs", "kernels">> = <<"inputs", "kernels">>
    BY <2>1, QueuesInARow
  <2>5. QED
    BY <2>1, <2>2, <2>3, <2>4 DEF DeviceWork
<1>4. ToGo' = DeviceWork
  BY <1>1, <1>2, <1>3, QueuesInARow DEF ToGo
<1>5. ~UploadRequired => deviceTable = pending
  BY <1>1, <1>2 DEF UploadRequired, Inv, PlanIsExact
<1>6. Stage'
  BY <1>1, <1>3, <1>4, <1>5 DEF Stage
<1>7. QED
  BY <1>1, <1>2, <1>3, <1>6 DEF DeviceInStep, Underway

LEMMA EnqueueKeeps == ASSUME StoreInv, Enqueue PROVE DeviceInStep'
<1>1. /\ pc = "enqueue" /\ todo # <<>> /\ stream' = Append(stream, Head(todo)) /\ todo' = Tail(todo) /\ pc' = pc
      /\ UNCHANGED <<pending, deviceTable, inputs, memory, context, lengths, request>>
      /\ DeviceInStep
  BY DEF Enqueue, pageVars, StoreInv
<1>2. /\ stream \in Seq(Work) /\ todo \in Seq(Work) /\ Underway /\ Underway' /\ Stage
      /\ memory' \in [Pages -> [0..(PageTokens - 1) -> Cells]]
  BY <1>1 DEF DeviceInStep, Underway
<1>3. ToGo' = ToGo /\ stream' \in Seq(Work) /\ todo' \in Seq(Work)
  BY <1>1, <1>2, QueuesInARow DEF ToGo
<1>4. QED
  BY <1>1, <1>2, <1>3, StageKept DEF DeviceInStep

LEMMA FailKeeps == ASSUME StoreInv, Inv, Fail PROVE DeviceInStep'
<1>1. /\ pc = "enqueue" /\ pc' = "finish" /\ DeviceInStep
      /\ UNCHANGED <<pending, deviceTable, inputs, memory, context, lengths, request, stream, todo>>
  BY DEF Fail, PoisonPages, StoreInv, deviceVars
<1>2. Underway /\ Underway' /\ Stage /\ ToGo' = ToGo
  BY <1>1 DEF DeviceInStep, Underway, ToGo
<1>3. Stage'
  BY <1>1, <1>2, StageKept
<1>4. QED
  BY <1>1, <1>2, <1>3 DEF DeviceInStep

\* What a step of the device does, by how far it has come.
LEMMA DeviceAdvances ==
  ASSUME StoreInv, stream # <<>>, stream' = Tail(stream), todo' = todo
  PROVE  /\ Underway /\ Head(stream) = Head(ToGo) /\ ToGo' = Tail(ToGo) /\ ToGo # <<>>
         /\ stream' \in Seq(Work) /\ todo' \in Seq(Work)
         /\ Head(stream) = "table" => ToGo' = <<"inputs", "kernels">>
         /\ Head(stream) = "inputs" => ToGo' = <<"kernels">> /\ deviceTable = pending
         /\ Head(stream) = "kernels" => ToGo' = <<>> /\ deviceTable = pending /\ inputs = request
<1>1. stream \in Seq(Work) /\ todo \in Seq(Work) /\ Underway /\ Stage
  BY DEF StoreInv, DeviceInStep
<1>2. /\ Head(stream) = Head(ToGo) /\ ToGo' = Tail(ToGo) /\ ToGo # <<>>
      /\ stream' \in Seq(Work) /\ todo' \in Seq(Work)
  BY <1>1, QueuesInARow DEF ToGo
<1>3. CASE ToGo = <<"table", "inputs", "kernels">>
  <2>1. Head(ToGo) = "table" /\ Tail(ToGo) = <<"inputs", "kernels">>
    BY <1>3
  <2>2. QED
    BY <1>1, <1>2, <2>1
<1>4. CASE ToGo = <<"inputs", "kernels">> /\ deviceTable = pending
  <2>1. Head(ToGo) = "inputs" /\ Tail(ToGo) = <<"kernels">>
    BY <1>4
  <2>2. QED
    BY <1>1, <1>2, <1>4, <2>1
<1>5. CASE ToGo = <<"kernels">> /\ deviceTable = pending /\ inputs = request
  <2>1. Head(ToGo) = "kernels" /\ Tail(ToGo) = <<>>
    BY <1>5
  <2>2. QED
    BY <1>1, <1>2, <1>5, <2>1
<1>6. QED
  BY <1>1, <1>2, <1>3, <1>4, <1>5 DEF Stage

LEMMA CopyKeeps == ASSUME StoreInv, DeviceCopy PROVE DeviceInStep'
<1>1. /\ stream # <<>> /\ Head(stream) # "kernels" /\ stream' = Tail(stream) /\ todo' = todo /\ Copied
      /\ UNCHANGED <<pending, active, dirty, phase, pc, request, memory>> /\ DeviceInStep
  BY DEF DeviceCopy, StoreInv, pageVars, hostVars
<1>2. /\ Underway /\ ToGo # <<>> /\ stream' \in Seq(Work) /\ todo' \in Seq(Work)
      /\ Head(stream) = "table" => ToGo' = <<"inputs", "kernels">>
      /\ Head(stream) = "inputs" => ToGo' = <<"kernels">> /\ deviceTable = pending
  BY <1>1, DeviceAdvances
<1>3. Underway' /\ memory' \in [Pages -> [0..(PageTokens - 1) -> Cells]]
  BY <1>1, <1>2 DEF Underway, DeviceInStep
<1>4. Head(stream) \in Work
  <2>1. stream \in Seq(Work)
    BY <1>1 DEF DeviceInStep
  <2>2. QED
    BY <1>1, <2>1
<1>5. CASE Head(stream) = "table"
  <2>1. deviceTable' = pending'
    BY <1>1, <1>5 DEF Copied
  <2>2. Stage'
    BY <1>2, <1>5, <2>1 DEF Stage
  <2>3. QED
    BY <1>2, <1>3, <2>2 DEF DeviceInStep
<1>6. CASE Head(stream) = "inputs"
  <2>1. inputs' = request' /\ deviceTable' = deviceTable
    BY <1>1, <1>6 DEF Copied
  <2>2. Stage'
    BY <1>1, <1>2, <1>6, <2>1 DEF Stage
  <2>3. QED
    BY <1>2, <1>3, <2>2 DEF DeviceInStep
<1>7. QED
  BY <1>1, <1>4, <1>5, <1>6 DEF Work

LEMMA KernelsKeep == ASSUME Inv, StoreInv, DeviceKernels PROVE DeviceInStep'
<1>1. /\ stream # <<>> /\ Head(stream) = "kernels" /\ stream' = Tail(stream) /\ todo' = todo
      /\ UNCHANGED <<pending, pc, deviceTable>>
  BY DEF DeviceKernels, pageVars, hostVars
<1>2. /\ Underway /\ stream' \in Seq(Work) /\ todo' \in Seq(Work)
      /\ ToGo' = <<>> /\ deviceTable = pending /\ inputs = request
  BY <1>1, DeviceAdvances
<1>3. IsComputed' /\ memory' \in [Pages -> [0..(PageTokens - 1) -> Cells]]
  BY <1>2, KernelsCompute
<1>4. QED
  BY <1>1, <1>2, <1>3 DEF DeviceInStep, Underway, Stage

\* When all is enqueued and the stream is empty, the device is done.
LEMMA DrainedIsComputed ==
  ASSUME StoreInv, pc = "enqueue", todo = <<>>, stream = <<>>
  PROVE  deviceTable = pending /\ IsComputed
<1>1. ToGo = <<>>
  BY DEF ToGo
<1>2. ToGo # <<"table", "inputs", "kernels">> /\ ToGo # <<"inputs", "kernels">> /\ ToGo # <<"kernels">>
  <2>1. Len(ToGo) = 0
    BY <1>1
  <2>2. /\ Len(<<"table", "inputs", "kernels">>) # 0 /\ Len(<<"inputs", "kernels">>) # 0
        /\ Len(<<"kernels">>) # 0
    OBVIOUS
  <2>3. QED
    BY <2>1, <2>2
<1>3. QED
  BY <1>2 DEF StoreInv, DeviceInStep, Stage, Underway

LEMMA StoreInvStep == Inv /\ StoreInv /\ [Next]_vars => StoreInv'
<1> SUFFICES ASSUME Inv, StoreInv, [Next]_vars PROVE DeviceInStep'
  BY AcceptedStays DEF StoreInv
<1>1. DeviceInStep /\ PhasesAgree /\ Types
  BY DEF StoreInv, Inv
<1>2. CASE Reject
  <2>1. /\ ~Underway /\ ~Underway' /\ todo' = <<>> /\ phase' = phase
        /\ UNCHANGED <<memory, stream, deviceTable, active, dirty>>
    BY <1>2 DEF Reject, Return, Underway, pageVars, deviceVars
  <2>2. stream' = <<>>
    BY <1>1, <2>1 DEF DeviceInStep
  <2>3. QED
    BY <1>1, <2>1, <2>2, DeviceRests
<1>3. CASE Forward
  <2>1. /\ ~Underway /\ ~Underway' /\ phase = "ready"
        /\ UNCHANGED <<memory, stream, todo, deviceTable, active, dirty>>
    BY <1>3 DEF Forward, Underway, pageVars, deviceVars
  <2>2. QED
    BY <1>1, <2>1, DeviceRests
<1>4. CASE Prepare
  <2>1. /\ ~Underway /\ ~Underway' /\ phase' = phase
        /\ UNCHANGED <<memory, stream, todo, deviceTable, active, dirty>>
    BY <1>4 DEF Prepare, PreparePages, Underway, deviceVars
  <2>2. QED
    BY <1>1, <2>1, DeviceRests
<1>5. CASE Abandon
  <2>1. /\ pc \in {"prepare", "prepared"} /\ pc' = "idle" /\ todo' = <<>> /\ phase \in {"ready", "prepared"}
        /\ UNCHANGED <<memory, stream, deviceTable, active, dirty>>
    BY <1>1, <1>5 DEF Abandon, Return, deviceVars, pageVars, DiscardPages, PoisonPages, PhasesAgree
  <2>2. ~Underway /\ ~Underway' /\ stream' = <<>>
    BY <1>1, <2>1 DEF Underway, DeviceInStep
  <2>3. QED
    BY <1>1, <2>1, <2>2, DeviceRests
<1>6. CASE Start
  BY <1>6, StartKeeps
<1>7. CASE Enqueue
  BY <1>7, EnqueueKeeps
<1>8. CASE Commit
  <2>1. /\ pc = "enqueue" /\ todo = <<>> /\ stream = <<>> /\ pc' = "idle" /\ todo' = <<>>
        /\ pagePhase = "executing" /\ active' = pending
        /\ UNCHANGED <<memory, stream, deviceTable>>
    BY <1>1, <1>8 DEF Commit, CommitPages, Return, Drained, PhasesAgree, deviceVars
  <2>2. deviceTable' = active'
    BY <2>1, DrainedIsComputed
  <2>3. QED
    BY <1>1, <2>1, <2>2 DEF DeviceInStep, Underway
<1>9. CASE Fail
  BY <1>9, FailKeeps
<1>10. CASE Finish
  <2>1. /\ pc' = "idle" /\ todo' = <<>> /\ stream' = <<>> /\ phase' = "poisoned" /\ memory' = memory
    BY <1>1, <1>10 DEF Finish, Return, PhasesAgree
  <2>2. <<>> \in Seq(Work)
    OBVIOUS
  <2>3. QED
    BY <1>1, <2>1, <2>2 DEF DeviceInStep, Underway
<1>11. CASE ClearSequence
  <2>1. /\ pc = "idle" /\ UNCHANGED <<pc, phase, todo, stream, memory, deviceTable>> /\ phase = "ready"
    BY <1>11 DEF ClearSequence, deviceVars
  <2>2. PICK s \in Slots : ClearPages(s)
    BY <1>11 DEF ClearSequence
  <2>3. ASSUME ~dirty' PROVE ~dirty /\ active' = active
    <3>1. dirty' = (dirty \/ {active[s][b] : b \in Blocks} \ {NoPage} # {})
      BY <2>2 DEF ClearPages, Dirtied
    <3>2. \A b \in Blocks : active[s][b] = NoPage
      BY <2>3, <3>1
    <3>3. active \in [Slots -> [Blocks -> Pages \cup {NoPage}]]
      BY <1>1 DEF Types, Tables
    <3>4. active[s] = [b \in Blocks |-> NoPage]
      BY <3>2, <3>3
    <3>5. active' = [active EXCEPT ![s] = [b \in Blocks |-> NoPage]]
      BY <2>2 DEF ClearPages, Emptied
    <3>6. active' = active
      BY <3>3, <3>4, <3>5
    <3>7. ~dirty
      BY <2>3, <3>1
    <3>8. QED
      BY <3>6, <3>7
  <2>4. QED
    BY <1>1, <2>1, <2>3 DEF DeviceInStep, Underway
<1>12. CASE DeviceCopy
  BY <1>12, CopyKeeps
<1>13. CASE DeviceKernels
  BY <1>13, KernelsKeep
<1>14. CASE UNCHANGED vars
  <2>1. UNCHANGED <<pending, active, dirty, phase, pc, deviceTable, inputs, memory, context, lengths, request, stream, todo>>
    BY <1>14 DEF vars, pageVars, hostVars, deviceVars
  <2>2. ToGo' = ToGo
    BY <2>1 DEF ToGo
  <2>3. Stage => Stage'
    BY <2>1, <2>2, StageKept
  <2>4. QED
    BY <1>1, <2>1, <2>3 DEF DeviceInStep, Underway
<1>15. QED
  BY <1>2, <1>3, <1>4, <1>5, <1>6, <1>7, <1>8, <1>9, <1>10, <1>11, <1>12, <1>13, <1>14 DEF Next

LEMMA StoreInvStarts == Init => StoreInv
<1> SUFFICES ASSUME Init PROVE StoreInv
  OBVIOUS
<1>1. <<>> \in Batches
  <2>1. <<>> \in [1..0 -> Inputs] /\ 0 \in 0..BatchTokens
    BY CudaAssumption
  <2>2. QED
    BY <2>1 DEF Batches
<1>2. BatchIsAccepted
  BY <1>1, PageTableAssumption DEF Init, BatchIsAccepted
<1>3. memory \in [Pages -> [0..(PageTokens - 1) -> Cells]]
  BY DEF Init, Cells
<1>4. DeviceInStep
  <2>1. <<>> \in Seq(Work)
    OBVIOUS
  <2>2. QED
    BY <1>3, <2>1 DEF Init, InitPages, DeviceInStep, Underway
<1>5. QED
  BY <1>2, <1>4 DEF StoreInv

-----------------------------------------------------------------------------
(***************************************************************************)
(* The refinement of KvStore.                                              *)
(***************************************************************************)
Kv == [s \in Slots |-> [n \in 1..lengths[s] |->
         LET page == active[s][(n - 1) \div PageTokens]
         IN IF page \in Pages THEN memory[page][Offset(n - 1)] ELSE Junk]]
Asked == IF pc = "idle" THEN Nothing
         ELSE [s \in Slots |-> [n \in 1..Cardinality(Of(request, s)) |->
                                  InputAt(s, lengths[s] + n - 1).token]]
Answered == IF pc = "idle" THEN context ELSE Nothing
Able == (throughRunner => Healthy) /\ RuntimeReady

\* The abstract actions, in the runtime's terms.
LEMMA AbstractActions ==
  /\ Store!Init <=> Kv = [s \in Slots |-> <<>>] /\ Asked = Nothing /\ Answered = Nothing /\ (Able = TRUE)
  /\ Store!Ask <=> /\ Able /\ Asked = Nothing /\ Asked' # Nothing
                   /\ \E s \in Slots : Asked'[s] # <<>>
                   /\ \A s \in Slots : Len(Kv[s]) + Len(Asked'[s]) <= MaxLen
                   /\ Answered' = Nothing /\ Kv' = Kv /\ Able' = Able
  /\ Store!Answer <=> /\ Able /\ Asked # Nothing
                      /\ Kv' = [s \in Slots |-> Kv[s] \o Asked[s]]
                      /\ Answered' = [s \in {t \in Slots : Asked[t] # <<>>} |-> Kv'[s]]
                      /\ Asked' = Nothing /\ Able' = Able
  /\ Store!Fail <=> Asked # Nothing /\ Able' = FALSE /\ Kv' = Kv /\ Asked' = Asked /\ Answered' = Answered
  /\ Store!Refuse <=> Asked' = Nothing /\ Answered' = Nothing /\ Able' \in {Able, FALSE} /\ Kv' = Kv
  /\ Store!Clear <=> /\ Able /\ Asked = Nothing
                     /\ \E s \in Slots : Kv' = [Kv EXCEPT ![s] = <<>>]
                     /\ Asked' = Asked /\ Answered' = Answered /\ Able' = Able
  /\ UNCHANGED Store!vars <=> Kv' = Kv /\ Asked' = Asked /\ Answered' = Answered /\ Able' = Able
  BY DEF Store!Init, Store!Ask, Store!Answer, Store!Fail, Store!Refuse, Store!Clear, Store!vars,
         Store!Idle, Nothing, Kv, Asked, Answered, Able

LEMMA KvKept == UNCHANGED <<lengths, active, memory>> => Kv' = Kv
  BY DEF Kv

\* What a sequence holds is what is read through the committed table.
LEMMA KvIsRead ==
  ASSUME Inv, BatchIsAccepted, NEW s \in Slots
  PROVE  /\ Kv[s] = [n \in 1..lengths[s] |-> ReadAt(active, s, n - 1)]
         /\ \A n \in 1..lengths[s] : active[s][(n - 1) \div PageTokens] \in Pages
<1>1. lengths[s] \in 0..MaxLen /\ lengths[s] \in Nat
  BY PageTableAssumption DEF BatchIsAccepted
<1>2. Covers(active, lengths)
  BY DEF Inv, TableIsExact
<1>3. ASSUME NEW n \in 1..lengths[s] PROVE active[s][(n - 1) \div PageTokens] \in Pages
  <2>1. n - 1 \in Nat /\ n - 1 < lengths[s]
    BY <1>1
  <2>2. PICK q \in Nat : q = n - 1
    BY <2>1
  <2>3. q \div PageTokens \in Blocks /\ q \div PageTokens < PagesFor(lengths[s])
    BY <1>1, <2>1, <2>2, PlaceOfPosition
  <2>4. active[s][q \div PageTokens] \in Pages
    BY <1>2, <2>3 DEF Covers
  <2>5. QED
    BY <2>2, <2>4
<1>4. Kv[s] = [n \in 1..lengths[s] |->
         LET page == active[s][(n - 1) \div PageTokens]
         IN IF page \in Pages THEN memory[page][Offset(n - 1)] ELSE Junk]
  BY DEF Kv
<1>5. \A n \in 1..lengths[s] :
        (LET page == active[s][(n - 1) \div PageTokens]
         IN IF page \in Pages THEN memory[page][Offset(n - 1)] ELSE Junk) = ReadAt(active, s, n - 1)
  BY <1>3 DEF ReadAt, Offset
<1>6. QED
  BY <1>3, <1>4, <1>5

\* During a call every position of a sequence, old and new, is read from a
\* cell through the plan's table.
LEMMA ReadsAreCells ==
  ASSUME Inv, StoreInv, Underway, NEW s \in Slots
  PROVE  /\ \A q \in 0..(Wanted[s] - 1) : ReadAt(pending, s, q) \in Cells
         /\ \A q \in 0..(lengths[s] - 1) : ReadAt(active, s, q) = ReadAt(pending, s, q)
         /\ Kv[s] = [n \in 1..lengths[s] |-> ReadAt(pending, s, n - 1)]
<1>1. /\ BatchIsAccepted /\ pc # "idle" /\ pc \in {"prepared", "enqueue", "finish"}
      /\ memory \in [Pages -> [0..(PageTokens - 1) -> Cells]]
  BY DEF StoreInv, Underway, DeviceInStep
<1>2. lengths[s] \in Nat /\ Wanted[s] \in Nat /\ lengths[s] <= Wanted[s]
  BY <1>1, AcceptedBatch
<1>3. ASSUME NEW q \in 0..(Wanted[s] - 1) PROVE ReadAt(pending, s, q) \in Cells
  <2>1. pending[s][q \div PageTokens] \in Pages /\ q % PageTokens \in 0..(PageTokens - 1)
    BY <1>1, PlannedCells
  <2>2. QED
    BY <1>1, <2>1 DEF ReadAt
<1>4. ASSUME NEW q \in 0..(lengths[s] - 1) PROVE ReadAt(active, s, q) = ReadAt(pending, s, q)
  <2>1. q \in 0..(Wanted[s] - 1) /\ q < lengths[s]
    BY <1>2
  <2>2. active[s][q \div PageTokens] = pending[s][q \div PageTokens]
    BY <1>1, <2>1, PlannedCells
  <2>3. QED
    BY <2>2 DEF ReadAt
<1>5. \A n \in 1..lengths[s] : n - 1 \in 0..(lengths[s] - 1)
  BY <1>2
<1>6. Kv[s] = [n \in 1..lengths[s] |-> ReadAt(active, s, n - 1)]
  BY <1>1, KvIsRead
<1>7. QED
  BY <1>3, <1>4, <1>5, <1>6

\* What is asked while a call is in progress.
LEMMA AskedIs ==
  ASSUME BatchIsAccepted, pc # "idle"
  PROVE  /\ Asked # Nothing
         /\ \A s \in Slots : /\ Asked[s] \in Seq(Cells) /\ Len(Asked[s]) = Cardinality(Of(request, s))
                             /\ \A n \in 1..Cardinality(Of(request, s)) :
                                  Asked[s][n] = InputAt(s, lengths[s] + n - 1).token
                             /\ Asked[s] # <<>> <=> Of(request, s) # {}
<1>1. Asked = [s \in Slots |-> [n \in 1..Cardinality(Of(request, s)) |-> InputAt(s, lengths[s] + n - 1).token]]
  BY DEF Asked
<1>2. Asked # Nothing
  <2>1. DOMAIN Asked = Slots /\ DOMAIN Nothing = {}
    BY <1>1 DEF Nothing
  <2>2. QED
    BY <2>1, PageTableAssumption
<1>3. ASSUME NEW s \in Slots
      PROVE  /\ Asked[s] \in Seq(Cells) /\ Len(Asked[s]) = Cardinality(Of(request, s))
             /\ \A n \in 1..Cardinality(Of(request, s)) :
                  Asked[s][n] = InputAt(s, lengths[s] + n - 1).token
             /\ Asked[s] # <<>> <=> Of(request, s) # {}
  <2> DEFINE c == Cardinality(Of(request, s))
  <2>1. /\ c \in Nat /\ lengths[s] \in Nat /\ Wanted[s] = lengths[s] + c
        /\ \A i \in Of(request, s) : request[i].token \in Tokens
        /\ \A q \in lengths[s]..(Wanted[s] - 1) :
             \E i \in Of(request, s) : request[i].position = q /\ InputAt(s, q) = request[i]
        /\ Of(request, s) = {} <=> c = 0
    BY AcceptedBatch
  <2> HIDE DEF c
  <2>2. ASSUME NEW n \in 1..c PROVE InputAt(s, lengths[s] + n - 1).token \in Cells
    <3>1. lengths[s] + n - 1 \in lengths[s]..(Wanted[s] - 1)
      BY <2>1
    <3>2. PICK i \in Of(request, s) : InputAt(s, lengths[s] + n - 1) = request[i]
      BY <2>1, <3>1
    <3>3. QED
      BY <2>1, <3>2 DEF Cells
  <2>3. Asked[s] = [n \in 1..c |-> InputAt(s, lengths[s] + n - 1).token]
    BY <1>1 DEF c
  <2>4. Asked[s] \in [1..c -> Cells]
    BY <2>2, <2>3
  <2>5. Asked[s] \in Seq(Cells) /\ Len(Asked[s]) = c
    BY <2>1, <2>4, FunctionIsSeq
  <2>6. Asked[s] # <<>> <=> c # 0
    BY <2>5, EmptySeq
  <2>7. QED
    BY <2>1, <2>3, <2>5, <2>6 DEF c
<1>4. QED
  BY <1>2, <1>3

LEMMA ForwardAsks == ASSUME Inv, StoreInv, Forward PROVE Store!Ask
<1>1. /\ pc = "idle" /\ pc' = "prepare" /\ phase = "ready" /\ phase' = "prepared" /\ (throughRunner => Healthy)
      /\ UNCHANGED <<lengths, active, memory, pagePhase, throughRunner, reusable>>
      /\ BatchIsAccepted /\ pagePhase = "ready"
      /\ lengths \in [Slots -> 0..MaxLen]
  BY DEF Forward, pageVars, deviceVars, StoreInv, BatchIsAccepted, Inv, PhasesAgree
<1>2. PICK batch \in Batches : Acceptable(batch) /\ request' = batch
  BY DEF Forward
<1>3. Able /\ Able'
  BY <1>1 DEF Able, Healthy, RuntimeReady
<1>4. Able' = Able
  BY <1>3 DEF Able
<1>5. Asked = Nothing /\ Answered' = Nothing /\ Kv' = Kv
  BY <1>1, KvKept DEF Asked, Answered
<1>6. Asked' = [s \in Slots |-> [n \in 1..Cardinality(Of(batch, s)) |-> InputAt(s, lengths[s] + n - 1)'.token]]
  BY <1>1, <1>2 DEF Asked, Of
<1>7. Asked' # Nothing
  <2>1. DOMAIN Asked' = Slots /\ DOMAIN Nothing = {}
    BY <1>6 DEF Nothing
  <2>2. QED
    BY <2>1, PageTableAssumption
<1>8. ASSUME NEW s \in Slots
      PROVE  /\ Cardinality(Of(batch, s)) \in Nat
             /\ lengths[s] + Cardinality(Of(batch, s)) <= MaxLen /\ lengths[s] \in Nat
             /\ Of(batch, s) = {} <=> Cardinality(Of(batch, s)) = 0
  <2>1. \A i \in DOMAIN batch : batch[i].position < MaxLen
    BY <1>2 DEF Acceptable
  <2>2. \A i \in Of(batch, s) : batch[i].position = lengths[s] + Rank(Of(batch, s), i)
    BY <1>2 DEF Acceptable, InOrder, Of, Rank
  <2>3. /\ Cardinality(Of(batch, s)) \in Nat /\ lengths[s] + Cardinality(Of(batch, s)) \in 0..MaxLen
        /\ Of(batch, s) = {} <=> Cardinality(Of(batch, s)) = 0
    BY <1>1, <2>1, <2>2, BatchContinues
  <2>4. QED
    BY <1>1, <2>3, PageTableAssumption
<1>9. ASSUME NEW s \in Slots
      PROVE  Len(Asked'[s]) = Cardinality(Of(batch, s)) /\ Len(Kv[s]) = lengths[s]
             /\ DOMAIN Asked'[s] = 1..Cardinality(Of(batch, s))
  <2>1. Asked'[s] = [n \in 1..Cardinality(Of(batch, s)) |-> InputAt(s, lengths[s] + n - 1)'.token]
    BY <1>6
  <2>2. Kv[s] = [n \in 1..lengths[s] |-> ReadAt(active, s, n - 1)]
    BY <1>1, KvIsRead
  <2>3. Cardinality(Of(batch, s)) \in Nat /\ lengths[s] \in Nat
    BY <1>8
  <2>4. QED
    BY <2>1, <2>2, <2>3
<1>10. \E s \in Slots : Asked'[s] # <<>>
  <2>1. Len(batch) \in 1..BatchTokens
    BY <1>2 DEF Acceptable
  <2>2. PICK n \in 0..BatchTokens : batch \in [1..n -> Inputs]
    BY DEF Batches
  <2>3. 1 \in 1..n
    BY <2>1, <2>2, CudaAssumption
  <2>4. batch[1].slot \in Slots /\ 1 \in Of(batch, batch[1].slot)
    BY <2>2, <2>3 DEF Inputs, Of
  <2>5. Cardinality(Of(batch, batch[1].slot)) \in Nat \ {0}
    BY <1>8, <2>4
  <2>6. 1 \in DOMAIN Asked'[batch[1].slot]
    BY <1>9, <2>4, <2>5
  <2>7. Asked'[batch[1].slot] # <<>>
    BY <2>6
  <2>8. QED
    BY <2>4, <2>7
<1>11. \A s \in Slots : Len(Kv[s]) + Len(Asked'[s]) <= MaxLen
  BY <1>8, <1>9
<1>12. QED
  BY <1>3, <1>4, <1>5, <1>7, <1>10, <1>11, AbstractActions

LEMMA CommitAnswers == ASSUME Inv, StoreInv, Commit PROVE Store!Answer
<1>1. /\ pc = "enqueue" /\ todo = <<>> /\ stream = <<>> /\ pc' = "idle" /\ phase' = "ready" /\ phase = "executing"
      /\ pagePhase = "executing" /\ pagePhase' = "ready" /\ active' = pending /\ lengths' = Wanted
      /\ UNCHANGED <<memory, throughRunner>> /\ context' = context
      /\ reusable' = (reusable /\ (throughRunner => "ok" = "ok"))
  BY DEF Commit, CommitPages, Return, Drained, Published, Inv, PhasesAgree, deviceVars
<1>2. BatchIsAccepted /\ pc # "idle" /\ Underway /\ IsComputed /\ pc \in {"prepared", "enqueue", "finish"}
  BY <1>1, DrainedIsComputed DEF StoreInv, Underway
<1>3. Able /\ Able'
  BY <1>1, <1>2 DEF Able, Healthy, RuntimeReady, BatchIsAccepted
<1>4. Able' = Able
  BY <1>3 DEF Able
<1>5. Asked' = Nothing /\ Answered' = context
  BY <1>1 DEF Asked, Answered
<1>6. ASSUME NEW s \in Slots
      PROVE  Kv'[s] = [n \in 1..Wanted[s] |-> ReadAt(pending, s, n - 1)] /\ Kv'[s] = Kv[s] \o Asked[s]
  <2> DEFINE a == Kv[s]
             b == Asked[s]
             c == [n \in 1..Wanted[s] |-> ReadAt(pending, s, n - 1)]
             k == Cardinality(Of(request, s))
  <2>1. /\ k \in Nat /\ lengths[s] \in Nat /\ Wanted[s] = lengths[s] + k /\ Wanted[s] \in Nat
    BY <1>2, AcceptedBatch
  <2>2. Kv'[s] = [n \in 1..Wanted[s] |->
           LET page == pending[s][(n - 1) \div PageTokens]
           IN IF page \in Pages THEN memory[page][Offset(n - 1)] ELSE Junk]
    BY <1>1 DEF Kv
  <2>3. ASSUME NEW n \in 1..Wanted[s]
        PROVE  pending[s][(n - 1) \div PageTokens] \in Pages /\ ReadAt(pending, s, n - 1) \in Cells
    <3>1. n - 1 \in 0..(Wanted[s] - 1)
      BY <2>1
    <3>2. PICK q \in 0..(Wanted[s] - 1) : q = n - 1
      BY <3>1
    <3>3. pending[s][q \div PageTokens] \in Pages /\ ReadAt(pending, s, q) \in Cells
      BY <1>2, PlannedCells, ReadsAreCells
    <3>4. QED
      BY <3>2, <3>3
  <2>4. Kv'[s] = c
    BY <2>2, <2>3 DEF ReadAt, Offset
  <2>5. c \in [1..Wanted[s] -> Cells]
    BY <2>3
  <2>6. c \in Seq(Cells) /\ Len(c) = Wanted[s]
    BY <2>1, <2>5, FunctionIsSeq
  <2>7. a = [n \in 1..lengths[s] |-> ReadAt(pending, s, n - 1)]
    BY <1>2, ReadsAreCells
  <2>8. \A n \in 1..lengths[s] : n \in 1..Wanted[s]
    BY <2>1
  <2>9. a \in [1..lengths[s] -> Cells]
    BY <2>3, <2>7, <2>8
  <2>10. a \in Seq(Cells) /\ Len(a) = lengths[s] /\ \A n \in 1..lengths[s] : c[n] = a[n]
    BY <2>1, <2>7, <2>8, <2>9, FunctionIsSeq
  <2>11. /\ b \in Seq(Cells) /\ Len(b) = k
         /\ \A n \in 1..k : b[n] = InputAt(s, lengths[s] + n - 1).token
    BY <1>2, AskedIs
  <2>12. ASSUME NEW n \in 1..k PROVE c[lengths[s] + n] = b[n]
    <3>1. PICK q \in lengths[s]..(Wanted[s] - 1) : q = lengths[s] + n - 1
      BY <2>1
    <3>2. PICK m \in 1..Wanted[s] : m = lengths[s] + n
      BY <2>1
    <3>3. m - 1 = q
      BY <2>1, <3>1, <3>2
    <3>4. ReadAt(pending, s, q) = InputAt(s, q).token
      BY <1>2 DEF IsComputed
    <3>5. c[m] = ReadAt(pending, s, m - 1)
      OBVIOUS
    <3> HIDE DEF a, b, c, k
    <3>6. c[m] = InputAt(s, q).token
      BY <3>3, <3>4, <3>5
    <3>7. b[n] = InputAt(s, q).token
      BY <2>11, <3>1
    <3>8. QED
      BY <3>2, <3>6, <3>7
  <2> HIDE DEF a, b, c, k
  <2>13. /\ Len(c) = Len(a) + Len(b) /\ \A n \in 1..Len(a) : c[n] = a[n]
         /\ \A n \in 1..Len(b) : c[Len(a) + n] = b[n]
    BY <2>1, <2>6, <2>10, <2>11, <2>12
  <2>14. c = a \o b
    BY <2>6, <2>10, <2>11, <2>13, JoinedSeq
  <2>15. QED
    BY <2>4, <2>14 DEF a, b, c
<1>7. Kv' = [s \in Slots |-> Kv[s] \o Asked[s]]
  <2>1. Kv' = [s \in Slots |-> Kv'[s]]
    BY DEF Kv
  <2>2. QED
    BY <1>6, <2>1
<1>8. Asked # Nothing /\ {t \in Slots : Asked[t] # <<>>} = {t \in Slots : Of(request, t) # {}}
  BY <1>2, AskedIs
<1>9. Answered' = [s \in {t \in Slots : Asked[t] # <<>>} |-> Kv'[s]]
  <2>1. context = [s \in {t \in Slots : Of(request, t) # {}} |-> [n \in 1..Wanted[s] |-> ReadAt(pending, s, n - 1)]]
    BY <1>2 DEF IsComputed
  <2>2. \A s \in {t \in Slots : Of(request, t) # {}} : Kv'[s] = [n \in 1..Wanted[s] |-> ReadAt(pending, s, n - 1)]
    BY <1>6
  <2>3. QED
    BY <1>5, <1>8, <2>1, <2>2
<1>10. QED
  BY <1>3, <1>4, <1>5, <1>7, <1>8, <1>9, AbstractActions

\* A call that ends without an answer.
LEMMA ReturnRefuses ==
  ASSUME pc' = "idle", context' = Nothing, UNCHANGED <<lengths, active, memory>>, Able' => Able
  PROVE  Store!Refuse
<1>1. Asked' = Nothing /\ Answered' = Nothing /\ Kv' = Kv
  BY KvKept DEF Asked, Answered
<1>2. Able' \in {Able, FALSE}
  <2>1. Able' \in BOOLEAN /\ Able \in BOOLEAN
    BY DEF Able
  <2>2. QED
    BY <2>1
<1>3. QED
  BY <1>1, <1>2, AbstractActions

\* The host or the device does its part, and nothing is seen of it.
LEMMA CallStutters ==
  ASSUME pc # "idle", pc' # "idle", UNCHANGED <<lengths, request, throughRunner, reusable>>, Kv' = Kv,
         RuntimeReady' <=> RuntimeReady
  PROVE  UNCHANGED Store!vars
<1>1. Asked' = Asked /\ Answered' = Answered
  BY DEF Asked, Answered, InputAt, Of
<1>2. Able' = Able
  BY DEF Able, Healthy
<1>3. QED
  BY <1>1, <1>2, AbstractActions

LEMMA FailFails == ASSUME Inv, StoreInv, Fail PROVE Store!Fail
<1>1. /\ pc = "enqueue" /\ pc' = "finish" /\ phase' = "poisoned" /\ BatchIsAccepted
      /\ UNCHANGED <<lengths, request, active, memory>>
  BY DEF Fail, PoisonPages, deviceVars, StoreInv
<1>2. Asked # Nothing /\ Asked' = Asked /\ Answered' = Answered /\ Kv' = Kv
  BY <1>1, AskedIs, KvKept DEF Asked, Answered, InputAt, Of
<1>3. Able' = FALSE
  BY <1>1 DEF Able, RuntimeReady
<1>4. QED
  BY <1>2, <1>3, AbstractActions

LEMMA ClearClears == ASSUME Inv, StoreInv, ClearSequence PROVE Store!Clear
<1>1. /\ pc = "idle" /\ pc' = "idle" /\ phase = "ready" /\ phase' = phase /\ (throughRunner => Healthy)
      /\ UNCHANGED <<memory, context, throughRunner, reusable>> /\ Types
      /\ lengths \in [Slots -> 0..MaxLen] /\ pagePhase = "ready"
  BY DEF ClearSequence, deviceVars, Inv, PhasesAgree, StoreInv, BatchIsAccepted
<1>2. PICK s \in Slots : ClearPages(s) /\ lengths' = [lengths EXCEPT ![s] = 0]
  BY DEF ClearSequence
<1>3. active' = [active EXCEPT ![s] = [b \in Blocks |-> NoPage]] /\ pagePhase' = pagePhase
  BY <1>2 DEF ClearPages, Emptied
<1>4. active \in [Slots -> [Blocks -> Pages \cup {NoPage}]]
  BY <1>1 DEF Types, Tables
<1>5. \A t \in Slots \ {s} : Kv'[t] = Kv[t]
  <2>1. SUFFICES ASSUME NEW t \in Slots \ {s} PROVE Kv'[t] = Kv[t]
    OBVIOUS
  <2>2. lengths'[t] = lengths[t] /\ active'[t] = active[t]
    BY <1>1, <1>2, <1>3, <1>4
  <2>3. QED
    BY <1>1, <2>2 DEF Kv
<1>6. Kv'[s] = <<>>
  <2>1. lengths'[s] = 0
    BY <1>1, <1>2
  <2>2. Kv'[s] = [n \in 1..0 |-> (LET page == active[s][(n - 1) \div PageTokens]
                                  IN IF page \in Pages THEN memory[page][Offset(n - 1)] ELSE Junk)']
    BY <2>1 DEF Kv
  <2>3. QED
    BY <2>2
<1>7. Kv' = [Kv EXCEPT ![s] = <<>>]
  <2>1. Kv' = [t \in Slots |-> Kv'[t]] /\ Kv = [t \in Slots |-> Kv[t]]
    BY DEF Kv
  <2>2. QED
    BY <1>5, <1>6, <2>1
<1>8. Able /\ Able'
  BY <1>1, <1>3 DEF Able, Healthy, RuntimeReady
<1>9. Able' = Able
  BY <1>8 DEF Able
<1>10. Asked = Nothing /\ Asked' = Asked /\ Answered' = Answered
  BY <1>1 DEF Asked, Answered
<1>11. QED
  BY <1>7, <1>8, <1>9, <1>10, AbstractActions

LEMMA KernelsStutter == ASSUME Inv, StoreInv, DeviceKernels PROVE UNCHANGED Store!vars
<1>1. /\ stream # <<>> /\ Head(stream) = "kernels" /\ stream' = Tail(stream)
      /\ UNCHANGED <<todo, pending, active, pc, lengths, request, phase, pagePhase, throughRunner, reusable>>
  BY DEF DeviceKernels, pageVars, hostVars
<1>2. Underway /\ deviceTable = pending /\ inputs = request
  BY <1>1, DeviceAdvances
<1>3. \A s \in Slots : \A q \in 0..(lengths[s] - 1) : ReadAt(pending, s, q)' = ReadAt(pending, s, q)
  BY <1>2, KernelsCompute
<1>4. BatchIsAccepted /\ pc # "idle" /\ pc' # "idle" /\ pc \in {"prepared", "enqueue", "finish"}
  BY <1>1, <1>2 DEF StoreInv, Underway
<1>5. ASSUME NEW s \in Slots PROVE Kv'[s] = Kv[s]
  <2>1. /\ Kv[s] = [n \in 1..lengths[s] |-> ReadAt(pending, s, n - 1)]
        /\ \A q \in 0..(lengths[s] - 1) : ReadAt(active, s, q) = ReadAt(pending, s, q)
    BY <1>2, ReadsAreCells
  <2>2. Kv'[s] = [n \in 1..lengths[s] |->
           LET page == active[s][(n - 1) \div PageTokens]
           IN IF page \in Pages THEN memory'[page][Offset(n - 1)] ELSE Junk]
    BY <1>1 DEF Kv
  <2>3. lengths[s] \in Nat /\ Wanted[s] \in Nat /\ lengths[s] <= Wanted[s]
    BY <1>4, AcceptedBatch
  <2>4. ASSUME NEW n \in 1..lengths[s]
        PROVE  /\ active[s][(n - 1) \div PageTokens] \in Pages
               /\ memory'[active[s][(n - 1) \div PageTokens]][Offset(n - 1)] = ReadAt(pending, s, n - 1)
    <3>1. PICK q \in 0..(lengths[s] - 1) : q = n - 1
      BY <2>3
    <3>2. q \in 0..(Wanted[s] - 1) /\ q < lengths[s]
      BY <2>3
    <3>3. pending[s][q \div PageTokens] \in Pages /\ active[s][q \div PageTokens] = pending[s][q \div PageTokens]
      BY <1>4, <3>2, PlannedCells
    <3>4. memory'[pending[s][q \div PageTokens]][q % PageTokens] = ReadAt(pending, s, q)
      BY <1>1, <1>3 DEF ReadAt
    <3>5. QED
      BY <3>1, <3>3, <3>4 DEF Offset
  <2>5. QED
    BY <2>1, <2>2, <2>4
<1>6. Kv' = Kv
  <2>1. Kv' = [t \in Slots |-> Kv'[t]] /\ Kv = [t \in Slots |-> Kv[t]]
    BY DEF Kv
  <2>2. QED
    BY <1>5, <2>1
<1>7. RuntimeReady' <=> RuntimeReady
  BY <1>1 DEF RuntimeReady
<1>8. QED
  BY <1>1, <1>4, <1>6, <1>7, CallStutters

LEMMA StoreStarts == Init => Store!Init
<1> SUFFICES ASSUME Init PROVE Store!Init
  OBVIOUS
<1>1. /\ pc = "idle" /\ context = Nothing /\ lengths = [s \in Slots |-> 0] /\ phase = "ready"
      /\ pagePhase = "ready" /\ reusable = TRUE
  BY DEF Init, InitPages
<1>2. Kv = [s \in Slots |-> <<>>]
  <2>1. ASSUME NEW s \in Slots PROVE Kv[s] = <<>>
    <3>1. Kv[s] = [n \in 1..0 |-> LET page == active[s][(n - 1) \div PageTokens]
                                  IN IF page \in Pages THEN memory[page][Offset(n - 1)] ELSE Junk]
      BY <1>1 DEF Kv
    <3>2. QED
      BY <3>1
  <2>2. Kv = [s \in Slots |-> Kv[s]]
    BY DEF Kv
  <2>3. QED
    BY <2>1, <2>2
<1>3. Able = TRUE
  BY <1>1 DEF Able, Healthy, RuntimeReady
<1>4. QED
  BY <1>1, <1>2, <1>3, AbstractActions DEF Asked, Answered

LEMMA StoreSteps == Inv /\ StoreInv /\ [Next]_vars => [Store!Next]_(Store!vars)
<1> SUFFICES ASSUME Inv, StoreInv, [Next]_vars PROVE Store!Next \/ UNCHANGED Store!vars
  OBVIOUS
<1>1. PhasesAgree
  BY DEF Inv
<1>2. CASE Reject
  <2>1. /\ pc' = "idle" /\ context' = Nothing /\ UNCHANGED <<lengths, active, memory, phase, pagePhase, throughRunner>>
        /\ (reusable' => reusable) /\ (reusable' = (reusable /\ (throughRunner => "threw" = "ok")))
    BY <1>2 DEF Reject, Return, pageVars, deviceVars
  <2>2. Able' => Able
    BY <2>1 DEF Able, Healthy, RuntimeReady
  <2>3. QED
    BY <2>1, <2>2, ReturnRefuses DEF Store!Next
<1>3. CASE Forward
  BY <1>3, ForwardAsks DEF Store!Next
<1>4. CASE Prepare \/ Start \/ Enqueue \/ DeviceCopy
  <2>1. /\ pc # "idle" /\ pc' # "idle" /\ UNCHANGED <<lengths, request, throughRunner, reusable, active, memory>>
        /\ RuntimeReady' <=> RuntimeReady
    <3>1. CASE Prepare
      BY <1>1, <3>1 DEF Prepare, PreparePages, PhasesAgree, RuntimeReady, deviceVars
    <3>2. CASE Start
      BY <1>1, <3>2 DEF Start, BeginExecution, PhasesAgree, RuntimeReady, deviceVars
    <3>3. CASE Enqueue
      BY <1>1, <3>3 DEF Enqueue, RuntimeReady, pageVars
    <3>4. CASE DeviceCopy
      <4>1. stream # <<>> /\ UNCHANGED <<pageVars, hostVars, memory>>
        BY <3>4 DEF DeviceCopy
      <4>2. pc # "idle"
        BY <4>1 DEF StoreInv, DeviceInStep, Underway
      <4>3. QED
        BY <4>1, <4>2 DEF pageVars, hostVars, RuntimeReady
    <3>5. QED
      BY <1>4, <3>1, <3>2, <3>3, <3>4
  <2>2. QED
    BY <2>1, KvKept, CallStutters
<1>5. CASE Abandon
  <2>1. /\ pc' = "idle" /\ context' = Nothing /\ UNCHANGED <<lengths, active, memory, throughRunner>>
        /\ (reusable' = (reusable /\ (throughRunner => "threw" = "ok")))
        /\ phase # "poisoned" /\ pagePhase # "poisoned"
    BY <1>1, <1>5 DEF Abandon, Return, DiscardPages, PoisonPages, PhasesAgree, pageVars, deviceVars
  <2>2. Able' => Able
    BY <2>1 DEF Able, Healthy, RuntimeReady
  <2>3. QED
    BY <2>1, <2>2, ReturnRefuses DEF Store!Next
<1>6. CASE Commit
  BY <1>6, CommitAnswers DEF Store!Next
<1>7. CASE Fail
  BY <1>7, FailFails DEF Store!Next
<1>8. CASE Finish
  <2>1. /\ pc' = "idle" /\ context' = Nothing /\ UNCHANGED <<lengths, active, memory, phase>>
        /\ phase = "poisoned"
    BY <1>1, <1>8 DEF Finish, Return, PhasesAgree, pageVars
  <2>2. Able' => Able
    BY <2>1 DEF Able, Healthy, RuntimeReady
  <2>3. QED
    BY <2>1, <2>2, ReturnRefuses DEF Store!Next
<1>9. CASE ClearSequence
  BY <1>9, ClearClears DEF Store!Next
<1>10. CASE DeviceKernels
  BY <1>10, KernelsStutter
<1>11. CASE UNCHANGED vars
  <2>1. UNCHANGED <<lengths, active, memory, pc, request, context, phase, pagePhase, throughRunner, reusable>>
    BY <1>11 DEF vars, pageVars, hostVars, deviceVars
  <2>2. Kv' = Kv /\ Asked' = Asked /\ Answered' = Answered /\ Able' = Able
    BY <2>1 DEF Kv, Asked, Answered, Able, Healthy, RuntimeReady, InputAt, Of
  <2>3. QED
    BY <2>2, AbstractActions
<1>12. QED
  BY <1>2, <1>3, <1>4, <1>5, <1>6, <1>7, <1>8, <1>9, <1>10, <1>11 DEF Next

\* The runtime is a store: whatever the order in which the device works, what
\* a forward answers was read from everything that was appended to its
\* sequences since they were cleared, and nothing else.
THEOREM IsStore == Spec => IsKvStore
<1>1. Init => Inv /\ StoreInv
  BY Starts, StoreInvStarts
<1>2. Inv /\ StoreInv /\ [Next]_vars => (Inv /\ StoreInv)'
  BY InvStep, StoreInvStep
<1>3. Spec => Store!Init /\ [][Store!Next]_(Store!vars)
  BY <1>1, <1>2, StoreStarts, StoreSteps, PTL DEF Spec
<1>4. QED
  BY <1>3 DEF IsKvStore, Store!Spec
=============================================================================
