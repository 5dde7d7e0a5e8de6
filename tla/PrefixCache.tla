---------------------------- MODULE PrefixCache ----------------------------
(***************************************************************************)
(* What the Engine relies on from its index of cached prompt prefixes      *)
(* (src/src/prefix_index.cpp): the longest block-aligned prefix of a       *)
(* prompt that some entry of the same namespace owns, the least sequence   *)
(* among its owners, and the order in which entries were last used.  An    *)
(* index is a function from the entries' sequences to the entries; the     *)
(* order of use is a sequence, oldest first, that stands for the           *)
(* last_used clocks.                                                       *)
(***************************************************************************)
EXTENDS Naturals, Sequences, FiniteSets, FiniteSetsExt, Functions

CONSTANT BlockSize     \* EngineConfig::block_size

\* Slip: one trie for all namespaces.
OwnersInAny(index, ns, tokens) ==
  {s \in DOMAIN index :
     /\ Len(index[s].tokens) >= Len(tokens)
     /\ SubSeq(index[s].tokens, 1, Len(tokens)) = tokens}

\* The owners of the trie node that `tokens` leads to, under a namespace.
Owners(index, ns, tokens) ==
  {s \in DOMAIN index :
     /\ index[s].ns = ns
     /\ Len(index[s].tokens) >= Len(tokens)
     /\ SubSeq(index[s].tokens, 1, Len(tokens)) = tokens}

\* match(): how many tokens of the prompt can be reused, at most `limit` ...
MatchedTokens(index, ns, tokens, limit) ==
  Max({0} \cup {n \in 1..Min({Len(tokens), limit}) :
                  /\ n % BlockSize = 0
                  /\ Owners(index, ns, SubSeq(tokens, 1, n)) # {}})

\* ... and whose they are, when there are any.
MatchedOwner(index, ns, tokens, n) == Min(Owners(index, ns, SubSeq(tokens, 1, n)))

\* The order without an entry that is in it.
Without(order, s) ==
  LET i == CHOOSE i \in DOMAIN order : order[i] = s
  IN SubSeq(order, 1, i - 1) \o SubSeq(order, i + 1, Len(order))

\* A match makes the entry the most recently used.
Touched(order, s) == Append(Without(order, s), s)

\* token_count(): the tokens the entries hold.
TokenCount(index) == SumFunction([s \in DOMAIN index |-> Len(index[s].tokens)])

\* insert() and erase().
Inserted(index, s, entry) ==
  [x \in DOMAIN index \cup {s} |-> IF x = s THEN entry ELSE index[x]]
Erased(index, s) == Restrict(index, DOMAIN index \ {s})
=============================================================================
