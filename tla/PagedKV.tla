------------------------------- MODULE PagedKV -------------------------------
(***************************************************************************)
(* PagedKV of src/src/minillm/paged_kv.cpp: the KV cache of the CPU        *)
(* runtime.  A sequence is a table of pages; sequences share the pages of  *)
(* a prefix, and the one that appends to a shared page gets a copy of it.  *)
(* The free pages are a set: their order is of no consequence.             *)
(***************************************************************************)
EXTENDS Naturals, Sequences, FiniteSets

CONSTANTS Slots, Pages,
          PageTokens,   \* tokens a page holds
          Junk          \* what a page holds that nobody wrote since it was free

ASSUME PagedKVAssumption ==
  /\ PageTokens \in Nat \ {0}
  /\ IsFiniteSet(Pages) /\ Pages # {} /\ IsFiniteSet(Slots) /\ Slots # {}

VARIABLES table, length,  \* Sequence::pages and ::length
          refs, data,     \* Page::refs and ::data
          free

kvVars == <<table, length, refs, data, free>>

EmptyPage == [o \in 0..(PageTokens - 1) |-> Junk]

InitKV ==
  /\ table = [s \in Slots |-> <<>>] /\ length = [s \in Slots |-> 0]
  /\ refs = [p \in Pages |-> 0] /\ free = Pages
  /\ data = [p \in Pages |-> EmptyPage]

PagesFor(tokens) == (tokens + PageTokens - 1) \div PageTokens

\* page_at()
PageAt(s, position) == table[s][position \div PageTokens + 1]

Partial(s) == length[s] % PageTokens # 0
LastPage(s) == table[s][Len(table[s])]

Copies(s) == Partial(s) /\ refs[LastPage(s)] > 1

NeedsPage(s) == ~Partial(s) \/ Copies(s)

\* append(): the sequence gains a position, in a page of its own.
AppendPosition(s) ==
  /\ length' = [length EXCEPT ![s] = @ + 1]
  /\ IF ~NeedsPage(s) THEN UNCHANGED <<table, refs, data, free>>
     ELSE \E p \in free :
            /\ free' = free \ {p}
            /\ IF Copies(s)
               THEN /\ table' = [table EXCEPT ![s][Len(table[s])] = p]
                    /\ refs' = [refs EXCEPT ![p] = 1, ![LastPage(s)] = @ - 1]
                    /\ data' = [data EXCEPT ![p] = data[LastPage(s)]]
               ELSE /\ table' = [table EXCEPT ![s] = Append(@, p)]
                    /\ refs' = [refs EXCEPT ![p] = 1]
                    /\ UNCHANGED data

\* store()
StorePosition(s, position, content) ==
  /\ data' = [data EXCEPT ![PageAt(s, position)][position % PageTokens] = content]
  /\ UNCHANGED <<table, length, refs, free>>

Uses(pages, p) == Cardinality({i \in DOMAIN pages : pages[i] = p})

\* What clear() leaves of given reference counts.
Dropped(counts, pages) == [p \in Pages |-> counts[p] - Uses(pages, p)]

\* The pages that nobody uses any more are free, and what they hold is
\* nobody's.
Release ==
  /\ free' = free \cup {p \in Pages : refs[p] # 0 /\ refs'[p] = 0}
  /\ data' = [p \in Pages |-> IF p \in free' THEN EmptyPage ELSE data[p]]

Clear(s) ==
  /\ refs' = Dropped(refs, table[s])
  /\ Release
  /\ table' = [table EXCEPT ![s] = <<>>]
  /\ length' = [length EXCEPT ![s] = 0]

\* Slip: the shared pages are not counted.
RetainedNever(pages) == refs

Retained(pages) == [p \in Pages |-> refs[p] + Uses(pages, p)]

\* share_prefix(): the source's pages are retained before the target is cleared.
SharePrefix(source, target, tokens) ==
  /\ source # target /\ tokens <= length[source]
  /\ LET shared == SubSeq(table[source], 1, PagesFor(tokens))
     IN /\ refs' = Dropped(Retained(shared), table[target])
        /\ Release
        /\ table' = [table EXCEPT ![target] = shared]
        /\ length' = [length EXCEPT ![target] = tokens]

\* Each page knows how many tables hold it, and is free if none does.
RefsAreExact ==
  /\ \A p \in Pages : refs[p] = Cardinality({s \in Slots : Uses(table[s], p) > 0})
  /\ \A s \in Slots : /\ Len(table[s]) = PagesFor(length[s])
                      /\ \A p \in Pages : Uses(table[s], p) <= 1
  /\ free = {p \in Pages : refs[p] = 0}
=============================================================================
