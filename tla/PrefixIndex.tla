----------------------------- MODULE PrefixIndex -----------------------------
(***************************************************************************)
(* src/src/prefix_index.cpp: a trie of tokens for each namespace, whose    *)
(* nodes know the sequences that own them, beside a map of the entries with*)
(* the time of their last use.  A node is named by the path that leads to  *)
(* it; `nodes` maps the paths that exist to the owners.                    *)
(***************************************************************************)
EXTENDS Naturals, Sequences, FiniteSets, FiniteSetsExt, SequencesExt, Functions

CONSTANTS BlockSize, CacheSequences, Namespaces, Lists, Limits,
          ClockMax      \* bound: the inserts and the matches of a run

\* A block has a token at least, and what is looked up are lists of tokens.
ASSUME IndexAssumption ==
  /\ BlockSize \in Nat \ {0} /\ CacheSequences \subseteq Nat /\ Limits \subseteq Nat /\ ClockMax \in Nat
  /\ Lists \subseteq Seq(UNION {Range(tokens) : tokens \in Lists})

VARIABLES nodes,        \* roots_ and all below: [ns, path] -> owners
          entries,      \* entries_: sequence -> [ns, tokens, last_used]
          token_count, clock,
          answer

trieVars == <<nodes, entries, token_count, clock, answer>>

TrieInit ==
  /\ nodes = <<>> /\ entries = <<>> /\ token_count = 0 /\ clock = 0
  /\ answer = [call |-> "none", sequence |-> 0, tokens |-> 0]

Answer(call, sequence, tokens) == [call |-> call, sequence |-> sequence, tokens |-> tokens]
Nothing(call) == Answer(call, 0, 0)

Node(ns, tokens, n) == [ns |-> ns, path |-> SubSeq(tokens, 1, n)]
Path(ns, tokens) == {Node(ns, tokens, n) : n \in 0..Len(tokens)}
OwnersOf(node) == IF node \in DOMAIN nodes THEN nodes[node] ELSE {}

-----------------------------------------------------------------------------
Insertable(s, tokens) ==
  tokens # <<>> /\ Len(tokens) % BlockSize = 0 /\ s \notin DOMAIN entries

\* A sequence owns every node on its path, from the root.
Joined(s, ns, tokens) ==
  [node \in DOMAIN nodes \cup Path(ns, tokens) |->
     OwnersOf(node) \cup (IF node \in Path(ns, tokens) THEN {s} ELSE {})]

Insert(s, ns, tokens) ==
  /\ clock < ClockMax /\ Insertable(s, tokens)
  /\ nodes' = Joined(s, ns, tokens)
  /\ token_count' = token_count + Len(tokens)
  /\ clock' = clock + 1
  /\ entries' = [x \in DOMAIN entries \cup {s} |->
                   IF x = s THEN [ns |-> ns, tokens |-> tokens, last_used |-> clock'] ELSE entries[x]]
  /\ answer' = Answer("insert", s, token_count')

Refuse(s, tokens) ==
  /\ ~Insertable(s, tokens) /\ answer' = Nothing("refuse")
  /\ UNCHANGED <<nodes, entries, token_count, clock>>

\* The owner leaves every node of its path.
Left(s, ns, tokens) ==
  [node \in DOMAIN nodes |-> IF node \in Path(ns, tokens) THEN nodes[node] \ {s} ELSE nodes[node]]

Below(node, top) == node.ns = top.ns /\ IsPrefix(top.path, node.path)

\* Slip: only the last node goes, and nodes without owners stay above it.
PrunedLast(left, ns, tokens) ==
  LET top == Node(ns, tokens, Len(tokens))
  IN IF left[top] # {} THEN left
     ELSE Restrict(left, {node \in DOMAIN left : ~Below(node, top)})

\* Bottom-up from the end of the path, and with each child all that is below
\* it, as far as no owner is left; then the root itself.
Pruned(left, ns, tokens) ==
  LET empty(n) == left[Node(ns, tokens, n)] = {}
      cut == {n \in 0..Len(tokens) : \A k \in n..Len(tokens) : empty(k)}
  IN IF cut = {} THEN left
     ELSE Restrict(left, {node \in DOMAIN left : ~Below(node, Node(ns, tokens, Min(cut)))})

Erase(s) ==
  /\ s \in DOMAIN entries
  /\ LET entry == entries[s]
     IN /\ nodes' = Pruned(Left(s, entry.ns, entry.tokens), entry.ns, entry.tokens)
        /\ token_count' = token_count - Len(entry.tokens)
  /\ entries' = Restrict(entries, DOMAIN entries \ {s})
  /\ answer' = Answer("erase", s, token_count')
  /\ UNCHANGED clock

\* How far the walk comes, and the last boundary of a block on its way.
Walked(ns, tokens, limit) ==
  Max({0} \cup {n \in 0..Min({Len(tokens), limit}) : \A k \in 0..n : Node(ns, tokens, k) \in DOMAIN nodes})
Reused(ns, tokens, limit) == LET n == Walked(ns, tokens, limit) IN n - (n % BlockSize)

\* Slip: the clock goes on, and the entry that is matched is not marked.
UsedAtNever(s) == entries
\* The entry that is matched is the one used last.
UsedAt(s) == [entries EXCEPT ![s].last_used = clock + 1]

Match(ns, tokens, limit) ==
  LET n == Reused(ns, tokens, limit)
  IN IF n = 0 THEN answer' = Nothing("match") /\ UNCHANGED <<nodes, entries, token_count, clock>>
     ELSE LET owners == nodes[Node(ns, tokens, n)]
          IN /\ clock < ClockMax /\ owners # {}
             /\ answer' = Answer("match", Min(owners), n)
             /\ clock' = clock + 1 /\ entries' = UsedAt(Min(owners))
             /\ UNCHANGED <<nodes, token_count>>

Least ==
  /\ answer' = IF DOMAIN entries = {} THEN Nothing("least")
               ELSE Answer("least",
                           CHOOSE s \in DOMAIN entries :
                             \A x \in DOMAIN entries : entries[s].last_used <= entries[x].last_used, 0)
  /\ UNCHANGED <<nodes, entries, token_count, clock>>

TrieNext ==
  \/ \E s \in CacheSequences, ns \in Namespaces, tokens \in Lists :
       Insert(s, ns, tokens) \/ Refuse(s, tokens)
  \/ \E s \in CacheSequences : Erase(s)
  \/ \E ns \in Namespaces, tokens \in Lists, limit \in Limits : Match(ns, tokens, limit)
  \/ Least

TrieSpec == TrieInit /\ [][TrieNext]_trieVars

-----------------------------------------------------------------------------
\* The trie holds the paths of the entries and nothing else: a node that
\* nobody owns would be a leak, and match() would take the first owner of an
\* empty set.
TrieIsExact ==
  /\ DOMAIN nodes = UNION {Path(entries[s].ns, entries[s].tokens) : s \in DOMAIN entries}
  /\ \A node \in DOMAIN nodes :
       nodes[node] = {s \in DOMAIN entries : node \in Path(entries[s].ns, entries[s].tokens)}

\* The trie and the clocks are the index and the order of use that the Engine
\* relies on, call by call.
IndexOfEntries == [s \in DOMAIN entries |-> [ns |-> entries[s].ns, tokens |-> entries[s].tokens]]

Sorted(order, of) ==
  /\ Range(order) = DOMAIN of
  /\ \A i, j \in DOMAIN order : i < j => of[order[i]].last_used < of[order[j]].last_used
ByLastUse(of) == CHOOSE order \in [1..Cardinality(DOMAIN of) -> DOMAIN of] : Sorted(order, of)

Cache == INSTANCE PrefixCacheSpec WITH index <- IndexOfEntries, order <- ByLastUse(entries)
IsPrefixCache == Cache!Spec
=============================================================================
