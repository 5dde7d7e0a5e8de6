--------------------------- MODULE PrefixCacheSpec ---------------------------
(***************************************************************************)
(* The index of cached prefixes as the Engine uses it (Engine extends      *)
(* PrefixCache): a function from sequences to entries, an order of use, and*)
(* the answer of the last call.  PrefixIndex, the trie, implements it.     *)
(***************************************************************************)
EXTENDS PrefixCache

CONSTANTS CacheSequences,  \* the sequences that may own an entry
          Namespaces,
          Lists,           \* the token lists that are inserted and looked up
          Limits           \* max_reuse, as the Engine calls it

VARIABLES index,    \* sequence -> [ns, tokens]
          order,    \* the sequences of the index, least recently used first
          answer    \* what the last call returned

specVars == <<index, order, answer>>

Answer(call, sequence, tokens) == [call |-> call, sequence |-> sequence, tokens |-> tokens]
Nothing(call) == Answer(call, 0, 0)

SpecInit == index = <<>> /\ order = <<>> /\ answer = Nothing("none")

Insertable(s, tokens) == tokens # <<>> /\ Len(tokens) % BlockSize = 0 /\ s \notin DOMAIN index

SpecInsert(s, ns, tokens) ==
  /\ Insertable(s, tokens)
  /\ index' = Inserted(index, s, [ns |-> ns, tokens |-> tokens])
  /\ order' = Append(order, s)
  /\ answer' = Answer("insert", s, TokenCount(index'))

SpecRefuse(s, tokens) ==
  /\ ~Insertable(s, tokens) /\ answer' = Nothing("refuse") /\ UNCHANGED <<index, order>>

SpecErase(s) ==
  /\ s \in DOMAIN index
  /\ index' = Erased(index, s)
  /\ order' = Without(order, s)
  /\ answer' = Answer("erase", s, TokenCount(index'))

SpecMatch(ns, tokens, limit) ==
  LET n == MatchedTokens(index, ns, tokens, limit)
  IN IF n = 0 THEN answer' = Nothing("match") /\ UNCHANGED <<index, order>>
     ELSE LET s == MatchedOwner(index, ns, tokens, n)
          IN /\ order' = Touched(order, s) /\ answer' = Answer("match", s, n)
             /\ UNCHANGED index

SpecLeast ==
  /\ answer' = IF order = <<>> THEN Nothing("least") ELSE Answer("least", Head(order), 0)
  /\ UNCHANGED <<index, order>>

SpecNext ==
  \/ \E s \in CacheSequences, ns \in Namespaces, tokens \in Lists :
       SpecInsert(s, ns, tokens) \/ SpecRefuse(s, tokens)
  \/ \E s \in CacheSequences : SpecErase(s)
  \/ \E ns \in Namespaces, tokens \in Lists, limit \in Limits : SpecMatch(ns, tokens, limit)
  \/ SpecLeast

Spec == SpecInit /\ [][SpecNext]_specVars
=============================================================================
