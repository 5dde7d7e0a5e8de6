--------------------------- MODULE EngineProperties ---------------------------
(***************************************************************************)
(* What the Engine must guarantee, to its clients and about what it owns.  *)
(***************************************************************************)
EXTENDS Engine

Slices == [key : Requests, tokens : Nat]
Phases == {"loop", "asleep", "expire", "admit", "iterate", "collect", "emit", "close",
           "catch", "drain", "terminate", "stopped"}

TypeOK ==
  /\ status \in [Requests -> {"new", "accepted", "rejected"}]
  /\ events \in [Requests -> Seq([kind : Terminals \cup {"token"}, n : Nat])]
  /\ finished \in [Requests -> BOOLEAN]
  /\ cancelled \in [Requests -> BOOLEAN]
  /\ late \in [Requests -> BOOLEAN]
  /\ incoming \in Seq(Requests)
  /\ registry \in [Ids -> Requests \cup {None}]
  /\ stopping \in BOOLEAN /\ failed \in BOOLEAN
  /\ pc \in Phases
  /\ todo \subseteq Requests /\ published \subseteq Requests
  /\ waiting \subseteq Requests /\ active \subseteq Requests
  /\ cand \in Requests \cup {None} /\ ending \in Requests \cup {None}
  /\ reason \in Terminals \cup {None}
  /\ batch \in Seq(Slices) /\ samples \in Seq(Requests)
  /\ item \in [Requests -> [sequence : ActiveSeqs \cup {None}, blocks : Seq(Blocks),
                            processed : Nat, generated : Nat, done : BOOLEAN]]
  /\ freeSeqs \subseteq ActiveSeqs /\ freeCacheSeqs \subseteq CacheSeqs
  /\ refs \in [Blocks -> Nat]
  /\ DOMAIN cache \subseteq CacheSeqs /\ used \in Seq(CacheSeqs)
  /\ counters \in [{"completed", "cancelled", "timed_out", "failed"} -> Nat]

-----------------------------------------------------------------------------
(***************************************************************************)
(* Requests and their ends.                                                *)
(***************************************************************************)
\* Accepted, and its terminal event neither emitted nor about to be.
Live(r) == status[r] = "accepted" /\ ~finished[r] /\ ending # r

\* The registry, which terminal() erases by id, holds exactly the live
\* requests: a later request with the id of one that ended is never erased
\* in its place, and a client that sees the end of a request may use its id.
RegistryIsExact ==
  /\ \A r \in Requests : Live(r) <=> registry[IdOf[r]] = r
  /\ \A i \in Ids : registry[i] # None => IdOf[registry[i]] = i

\* A live request is always in a collection the worker will go through,
\* also when a submission races with stop() or with a failure: nothing comes
\* in once terminate_all() has drained.
NoRequestIsLost ==
  LET comingIn == IF pc \in {"terminate", "stopped"} THEN {} ELSE Range(incoming)
  IN \A r \in Requests : Live(r) => r \in comingIn \cup waiting \cup Undone

\* Every accepted request is outstanding or counted once, under one outcome.
Ended == {r \in Requests : status[r] = "accepted" /\ ~Live(r)}
CountersBalance ==
  counters["completed"] + counters["cancelled"] + counters["timed_out"] + counters["failed"]
    = Cardinality(Ended)

\* Each request's events are a RequestStream.
PhaseOf(r) == IF status[r] # "accepted" THEN status[r]
              ELSE IF finished[r] THEN "closed" ELSE "open"
Kinds(stream) == [i \in 1..Len(stream) |-> stream[i].kind]
Stream == INSTANCE RequestStream WITH
  Capacity <- EventBuffer,
  phase    <- [r \in Requests |-> PhaseOf(r)],
  buffer   <- [r \in Requests |-> Kinds(events[r])]
IsRequestStream == Stream!StreamSpec

\* An accepted request ends, whatever its client does or does not do.
AcceptedEnds == \A r \in Requests : status[r] = "accepted" ~> finished[r]

\* stop() returns, and so does a worker that fails.
StopReturns == stopping \/ failed ~> pc = "stopped"

-----------------------------------------------------------------------------
(***************************************************************************)
(* Block credits, sequences and KV.                                        *)
(***************************************************************************)
\* A block has as many references as requests and cache entries that list
\* it: none is freed while one of them uses it, none is kept for nobody.
BlocksAreAccounted ==
  \A b \in Blocks :
    refs[b] = Cardinality({r \in Undone : b \in Range(item[r].blocks)})
              + Cardinality({s \in DOMAIN cache : b \in Range(cache[s].blocks)})

\* A sequence of the runner is free or has one owner, and behind a worker
\* that has stopped, however it did, nothing is held or waits: each sequence
\* and each block was given back, once.
SequencesAreAccounted ==
  /\ \A r, q \in Undone : item[r].sequence = item[q].sequence => r = q
  /\ freeSeqs = ActiveSeqs \ {item[r].sequence : r \in Undone}
  /\ freeCacheSeqs = CacheSeqs \ DOMAIN cache
  /\ DOMAIN cache = Range(used)
  /\ pc = "stopped" => Range(incoming) \cup waiting \cup Undone \cup DOMAIN cache = {}

\* Before a batch, once the expired are gone, the runner holds for each
\* admitted request exactly the tokens of its own namespace that it has been
\* fed, within the blocks reserved for it; for a cache entry, exactly the
\* cached prefix.  So the next position of every request is the next free
\* one, whatever was shared, evicted, dropped or reused before.
KvHoldsItsRequest ==
  pc \in {"admit", "iterate"} =>
    /\ \A r \in Undone :
         /\ kv[item[r].sequence] =
              Cells(r, SubSeq(Prompt[r], 1, item[r].processed)
                       \o [i \in 1..(item[r].generated - 1) |-> 0])
         /\ Len(kv[item[r].sequence]) <= BlockSize * Len(item[r].blocks)
    /\ \A s \in DOMAIN cache :
         kv[s] = [i \in 1..Len(cache[s].tokens) |->
                    [ns |-> cache[s].ns, token |-> cache[s].tokens[i]]]
    /\ pc = "iterate" => \A r \in active : Position(r) = Len(kv[item[r].sequence])

\* A pool nobody else uses fits every request: the worker never meets the
\* logic_error "no request fits an otherwise idle KV pool".
IdlePoolFits ==
  pc = "admit" /\ active = {} /\ used = <<>> => \A r \in waiting : Fits(r)

\* A batch always feeds the model something and never more than its budget:
\* the worker never meets "scheduler made no progress".
TokensIn(q) == SumFunction([s \in ActiveSeqs |-> Len(q[s])])
BatchesFitTheBudget ==
  [][pc = "iterate" /\ pc' = "collect" => TokensIn(kv') - TokensIn(kv) \in 1..BatchTokens]_vars

-----------------------------------------------------------------------------
\* engine.cpp:494: "the whole batch is validated before any token of it is
\* published, so that a later entry that fails leaks none of the batch's
\* partial output": a batch that throws has published all of the samples it
\* had left to handle, or none.
NoPartialBatch ==
  [][pc # "catch" /\ pc' = "catch" => published = {} \/ Range(samples) \subseteq published]_vars
=============================================================================
