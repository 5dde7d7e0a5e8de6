-------------------------------- MODULE Engine --------------------------------
(***************************************************************************)
(* The continuous-batching Engine of src/src/engine.cpp: any number of     *)
(* client threads submit, cancel and read requests while one worker        *)
(* thread admits them, runs the model on batches of their tokens, shares   *)
(* cached prompt prefixes among them, and ends each with one terminal      *)
(* event.  A step of the worker is what it does between two points where   *)
(* another thread can see or change something, or where the backend can    *)
(* fail; "pc" names the point it has reached.                              *)
(*                                                                         *)
(* Time is abstract: a deadline may pass at any moment, and the clock may  *)
(* put waiting requests in any order.  The model runner is external: it    *)
(* appends what a batch feeds it to the KV of the batch's sequences, and   *)
(* any call on it may leave it unusable (require_reusable then throws).    *)
(***************************************************************************)
EXTENDS Scheduler, BlockCredits, PrefixCache

CONSTANTS
  Requests,       \* the calls of Engine::submit, all with valid arguments
  IdOf,           \* the id each carries; two requests may carry the same
  Prompt,         \* its tokens
  MaxTokens,      \* RequestInput::max_tokens
  Namespace,      \* RequestInput::cache_namespace
  MaxActive, QueueCapacity, EventBuffer,   \* EngineConfig
  CacheEntries, CacheTokens,               \* EngineConfig::prefix_cache_*
  Cancellable,    \* the requests a client may cancel
  Timed,          \* the requests whose deadline may pass
  BackendMayFail, \* whether calls on the model runner may fail
  None

ASSUME EngineAssumption ==
  /\ IdOf \in [Requests -> Range(IdOf)] /\ None \notin Requests /\ None \notin Nat
  /\ Prompt \in [Requests -> Seq(Nat) \ {<<>>}]
  /\ MaxTokens \in [Requests -> Nat \ {0}]
  /\ DOMAIN Namespace = Requests
  /\ {MaxActive, QueueCapacity, EventBuffer, BlockSize} \subseteq Nat \ {0}
  /\ MaxActive <= BatchTokens
  /\ {CacheEntries, CacheTokens} \subseteq Nat
  /\ CacheEntries > 0 => CacheTokens >= BlockSize
  /\ Cancellable \subseteq Requests /\ Timed \subseteq Requests
  /\ BackendMayFail \in BOOLEAN

VARIABLES
  \* RequestHandle, one per request
  status,      \* what submit() returned: "new", "accepted" or "rejected"
  events,      \* events_, the buffer next() reads
  finished,    \* finished_
  cancelled,   \* cancelled_
  late,        \* whether Clock::now() has reached deadline_
  \* shared by the threads under Engine::Impl::mutex
  incoming, registry, stopping, failed,
  \* the worker's own
  pc,
  todo,        \* the requests expire_requests() has yet to look at
  cand,        \* the request admit() or cache_prompt() works on
  batch,       \* the prefill slices whose progress is not recorded yet
  samples,     \* the requests whose sample is not handled yet
  ending,      \* the request terminal() unregistered and emits to next
  reason,      \* the terminal event it emits, or that finish() will
  published,   \* the requests this iteration emitted a token to (history)
  waiting, active,
  item,        \* the Active object of each request in active
  freeSeqs, freeCacheSeqs,
  refs,        \* the block credits
  cache, used, \* the prefix index and its order of use
  kv,          \* what the runner holds for each sequence
  counters

handleVars == <<status, events, finished, cancelled, late>>
sharedVars == <<incoming, registry, stopping, failed>>
batchVars  == <<batch, samples, published>>
itemVars   == <<waiting, active, item, freeSeqs, refs>>
cacheVars  == <<cache, used, freeCacheSeqs>>
endVars    == <<ending, reason, registry, counters>>
vars == <<handleVars, sharedVars, pc, todo, cand, batchVars, ending, reason,
          itemVars, cacheVars, kv, counters>>

Ids == Range(IdOf)
ActiveSeqs == 0..(MaxActive - 1)
CacheSeqs  == MaxActive..(MaxActive + CacheEntries - 1)

\* finish_reason or error_code of a terminal event; "shutdown" is the
\* cancellation of requests a stopping Engine still held.
Terminals == {"stop", "length", "cancelled", "timeout", "backpressure",
              "shutdown", "backend_error"}
ASSUME NoReason == None \notin Terminals
CounterOf(why) ==
  CASE why \in {"stop", "length"}        -> "completed"
    [] why \in {"cancelled", "shutdown"} -> "cancelled"
    [] why = "timeout"                   -> "timed_out"
    [] OTHER                             -> "failed"

NoItem == [sequence |-> None, blocks |-> <<>>, processed |-> 0,
           generated |-> 0, done |-> FALSE]

\* Whether the calls this step makes on the runner all succeed.
Outcomes == IF BackendMayFail THEN BOOLEAN ELSE {TRUE}

-----------------------------------------------------------------------------
\* The constructor returns once the worker has looked at the backend: it is
\* about to loop, or it has failed and ended.
Init ==
  /\ status = [r \in Requests |-> "new"]
  /\ events = [r \in Requests |-> <<>>]
  /\ finished = [r \in Requests |-> FALSE]
  /\ cancelled = [r \in Requests |-> FALSE]
  /\ late = [r \in Requests |-> FALSE]
  /\ incoming = <<>> /\ registry = [i \in Ids |-> None]
  /\ stopping = FALSE
  /\ \E ok \in Outcomes : failed = ~ok /\ pc = IF ok THEN "loop" ELSE "stopped"
  /\ todo = {} /\ cand = None /\ batch = <<>> /\ samples = <<>>
  /\ ending = None /\ reason = None /\ published = {}
  /\ waiting = {} /\ active = {} /\ item = [r \in Requests |-> NoItem]
  /\ freeSeqs = ActiveSeqs /\ freeCacheSeqs = CacheSeqs
  /\ refs = [b \in Blocks |-> 0]
  /\ cache = <<>> /\ used = <<>>
  /\ kv = [s \in ActiveSeqs \cup CacheSeqs |-> <<>>]
  /\ counters = [c \in {"completed", "cancelled", "timed_out", "failed"} |-> 0]

-----------------------------------------------------------------------------
(***************************************************************************)
(* The clients.                                                            *)
(***************************************************************************)
Outstanding == Cardinality({i \in Ids : registry[i] # None})

\* Slip: the worker is not notified.
NotifyNobody == pc' = pc

\* cv.notify: a sleeping worker looks at its condition again.
Notify == pc' = IF pc = "asleep" THEN "loop" ELSE pc

\* Slip: an id in flight is taken again.
AcceptableTwice(r) == ~stopping /\ ~failed /\ Outstanding < QueueCapacity

\* submit(), the part under the mutex.
Acceptable(r) ==
  /\ ~stopping /\ ~failed
  /\ Outstanding < QueueCapacity
  /\ registry[IdOf[r]] = None

Accept(r) ==
  /\ status[r] = "new" /\ Acceptable(r)
  /\ status' = [status EXCEPT ![r] = "accepted"]
  /\ registry' = [registry EXCEPT ![IdOf[r]] = r]
  /\ incoming' = Append(incoming, r)
  /\ Notify
  /\ UNCHANGED <<events, finished, cancelled, late, stopping, failed, todo, cand,
                 batchVars, ending, reason, itemVars, cacheVars, kv, counters>>

Reject(r) ==
  /\ status[r] = "new" /\ ~Acceptable(r)
  /\ status' = [status EXCEPT ![r] = "rejected"]
  /\ UNCHANGED <<events, finished, cancelled, late, sharedVars, pc, todo, cand,
                 batchVars, ending, reason, itemVars, cacheVars, kv, counters>>

\* cancel(id), when the id is registered; otherwise it changes nothing.
Cancel(i) ==
  /\ registry[i] \in Cancellable /\ ~cancelled[registry[i]]
  /\ cancelled' = [cancelled EXCEPT ![registry[i]] = TRUE]
  /\ Notify
  /\ UNCHANGED <<status, events, finished, late, sharedVars, todo, cand, batchVars,
                 ending, reason, itemVars, cacheVars, kv, counters>>

\* RequestHandle::next() with an event to return.
ClientNext(r) ==
  /\ events[r] # <<>>
  /\ events' = [events EXCEPT ![r] = Tail(@)]
  /\ UNCHANGED <<status, finished, cancelled, late, sharedVars, pc, todo, cand,
                 batchVars, ending, reason, itemVars, cacheVars, kv, counters>>

DeadlinePasses(r) ==
  /\ r \in Timed /\ status[r] = "accepted" /\ ~finished[r] /\ ~late[r]
  /\ late' = [late EXCEPT ![r] = TRUE]
  /\ UNCHANGED <<status, events, finished, cancelled, sharedVars, pc, todo, cand,
                 batchVars, ending, reason, itemVars, cacheVars, kv, counters>>

\* Slip: stop() only sets its flag.
StopSilently ==
  /\ ~stopping /\ stopping' = TRUE
  /\ UNCHANGED <<handleVars, incoming, registry, failed, pc, todo, cand, batchVars,
                 ending, reason, itemVars, cacheVars, kv, counters>>

\* stop(), up to the join.
Stop ==
  /\ ~stopping /\ stopping' = TRUE
  /\ Notify
  /\ UNCHANGED <<handleVars, incoming, registry, failed, todo, cand, batchVars,
                 ending, reason, itemVars, cacheVars, kv, counters>>

-----------------------------------------------------------------------------
(***************************************************************************)
(* How the worker ends a request.                                          *)
(***************************************************************************)
\* The worker is at l and owes no client a terminal event.
At(l) == pc = l /\ ending = None

\* Slip: a request that both collections hold is counted twice.
TerminalRecounts(r, why) ==
  /\ counters' = [counters EXCEPT ![CounterOf(why)] = @ + 1]
  /\ IF finished[r] THEN UNCHANGED <<registry, ending, reason>>
     ELSE /\ registry' = [registry EXCEPT ![IdOf[r]] = None]
          /\ ending' = r /\ reason' = why

\* terminal(), up to the release of the mutex: the id is free before the
\* client can see the event.
Terminal(r, why) ==
  IF finished[r]
  THEN UNCHANGED endVars
  ELSE /\ counters' = [counters EXCEPT ![CounterOf(why)] = @ + 1]
       /\ registry' = [registry EXCEPT ![IdOf[r]] = None]
       /\ ending' = r /\ reason' = why

\* terminal(), the emit.
EmitTerminal ==
  /\ ending # None
  /\ events' = [events EXCEPT ![ending] =
                  Append(@, [kind |-> reason, n |-> item[ending].generated])]
  /\ finished' = [finished EXCEPT ![ending] = TRUE]
  /\ ending' = None /\ reason' = None
  /\ UNCHANGED <<status, cancelled, late, sharedVars, pc, todo, cand, batchVars,
                 itemVars, cacheVars, kv, counters>>

\* finish(), when the backend stays usable ...
Finish(r, why) ==
  /\ kv' = [kv EXCEPT ![item[r].sequence] = <<>>]
  /\ refs' = Released(refs, item[r].blocks)
  /\ freeSeqs' = freeSeqs \cup {item[r].sequence}
  /\ item' = [item EXCEPT ![r].blocks = <<>>, ![r].done = TRUE]
  /\ Terminal(r, why)

\* Slip: the sequence is given back before the check that throws.
FinishThrowsLate(r) ==
  /\ freeSeqs' = freeSeqs \cup {item[r].sequence}
  /\ pc' = "catch" /\ UNCHANGED <<kv, refs, item, endVars>>

\* ... and when it does not: require_reusable() throws before any release.
FinishThrows(r) == pc' = "catch" /\ UNCHANGED <<kv, refs, freeSeqs, item, endVars>>

\* erase_finished()
Undone == {r \in active : ~item[r].done}
EraseFinished ==
  /\ active' = Undone
  /\ item' = [r \in Requests |-> IF r \in Undone THEN item[r] ELSE NoItem]

-----------------------------------------------------------------------------
(***************************************************************************)
(* run(): sleep, drain, expire.                                            *)
(***************************************************************************)
Sleep ==
  /\ At("loop") /\ ~stopping
  /\ active = {} /\ waiting = {} /\ incoming = <<>>
  /\ pc' = "asleep"
  /\ UNCHANGED <<handleVars, sharedVars, todo, cand, batchVars, ending, reason,
                 itemVars, cacheVars, kv, counters>>

\* Slip: the requests that did not fit before are overwritten.
DrainReplaces == waiting' = Range(incoming) /\ incoming' = <<>>

\* drain_incoming()
Drain ==
  /\ waiting' = waiting \cup Range(incoming)
  /\ incoming' = <<>>

BeginIteration ==
  /\ At("loop") /\ ~stopping
  /\ active # {} \/ waiting # {} \/ incoming # <<>>
  /\ Drain
  /\ todo' = waiting' \cup active
  /\ pc' = "expire"
  /\ UNCHANGED <<handleVars, registry, stopping, failed, cand, batchVars, ending,
                 reason, active, item, freeSeqs, refs, cacheVars, kv, counters>>

Expired(r) == cancelled[r] \/ late[r]

ExpiryReason(r) == IF cancelled[r] THEN "cancelled" ELSE "timeout"

\* expire_requests() looks at the waiting requests, then the active ones.
Visit(r) ==
  /\ At("expire") /\ r \in todo
  /\ r \in active => todo \cap waiting = {}
  /\ todo' = todo \ {r}

VisitLive(r) ==
  /\ Visit(r) /\ ~Expired(r)
  /\ UNCHANGED <<handleVars, sharedVars, pc, cand, batchVars, ending, reason,
                 itemVars, cacheVars, kv, counters>>

ExpireWaiting(r) ==
  /\ Visit(r) /\ Expired(r) /\ r \in waiting
  /\ waiting' = waiting \ {r}
  /\ Terminal(r, ExpiryReason(r))
  /\ UNCHANGED <<handleVars, incoming, stopping, failed, pc, cand, batchVars,
                 active, item, freeSeqs, refs, cacheVars, kv>>

ExpireActive(r) ==
  /\ Visit(r) /\ Expired(r) /\ r \in active
  /\ \E ok \in Outcomes :
       IF ok THEN Finish(r, ExpiryReason(r)) /\ UNCHANGED pc ELSE FinishThrows(r)
  /\ UNCHANGED <<handleVars, incoming, stopping, failed, cand, batchVars, waiting,
                 active, cacheVars>>

EndExpire ==
  /\ At("expire") /\ todo = {}
  /\ EraseFinished
  /\ pc' = "admit"
  /\ UNCHANGED <<handleVars, sharedVars, todo, cand, batchVars, ending, reason,
                 waiting, freeSeqs, refs, cacheVars, kv, counters>>

-----------------------------------------------------------------------------
(***************************************************************************)
(* admit_waiting() and admit().                                            *)
(***************************************************************************)
\* The blocks of a request's whole budget of tokens.
TotalBlocks(r) == (Len(Prompt[r]) + MaxTokens[r] + BlockSize - 1) \div BlockSize

\* submit() checks that it is within max_model_len, validate() that this is
\* within context_tokens.
ASSUME RequestsFit ==
  /\ IsFiniteSet(Requests) /\ IsFiniteSet(Blocks)
  /\ \A r \in Requests : TotalBlocks(r) <= Cardinality(Blocks)

\* The last prompt token is always computed: it yields the first sample.
Reusable(r) == MatchedTokens(cache, Namespace[r], Prompt[r], Len(Prompt[r]) - 1)
Source(r)   == MatchedOwner(cache, Namespace[r], Prompt[r], Reusable(r))
NewBlocks(r) == TotalBlocks(r) - Reusable(r) \div BlockSize
Fits(r) == NewBlocks(r) <= Cardinality(FreeBlocks(refs))

\* The order of use after match().
AfterMatch(n, s) == IF n = 0 THEN used ELSE Touched(used, s)

\* evict(), of the least recently used entry; it throws after the fact.
Evict(order, check) ==
  /\ cache' = Erased(cache, Head(order))
  /\ used' = Tail(order)
  /\ kv' = [kv EXCEPT ![Head(order)] = <<>>]
  /\ refs' = Released(refs, cache[Head(order)].blocks)
  /\ freeCacheSeqs' = freeCacheSeqs \cup {Head(order)}
  /\ \E ok \in IF check THEN Outcomes ELSE {TRUE} :
       pc' = IF ok THEN pc ELSE "catch"

Candidate(r) ==
  /\ At("admit") /\ r \in waiting /\ freeSeqs # {}
  /\ cand \in {None, r}

AdmitEvict(r) ==
  /\ Candidate(r) /\ ~Fits(r) /\ used # <<>>
  /\ Evict(AfterMatch(Reusable(r), Source(r)), TRUE)
  /\ cand' = r
  /\ UNCHANGED <<handleVars, sharedVars, todo, batchVars, ending, reason, waiting,
                 active, item, freeSeqs, counters>>

\* admit() publishes the ownership first: when the backend then fails, the
\* request is both active and waiting.  Sequences and free blocks are
\* interchangeable, so the choice of one is left to CHOOSE.
Admit(r) ==
  /\ Candidate(r) /\ Fits(r)
  /\ LET reuse  == Reusable(r)
         shared == IF reuse = 0 THEN <<>>
                   ELSE SubSeq(cache[Source(r)].blocks, 1, reuse \div BlockSize)
         fresh  == CHOOSE t \in FreshTables(refs, NewBlocks(r)) : TRUE
         s      == CHOOSE s \in freeSeqs : TRUE
     IN \E ok \in Outcomes :
          /\ item' = [item EXCEPT ![r] =
                        [sequence |-> s, blocks |-> shared \o fresh,
                         processed |-> reuse, generated |-> 0, done |-> FALSE]]
          /\ refs' = Retained(Allocated(refs, fresh), shared)
          /\ freeSeqs' = freeSeqs \ {s}
          /\ used' = AfterMatch(reuse, Source(r))
          /\ kv' = [kv EXCEPT ![s] = IF ok /\ reuse > 0
                                     THEN SubSeq(kv[Source(r)], 1, reuse) ELSE <<>>]
          /\ active' = active \cup {r}
          /\ waiting' = IF ok THEN waiting \ {r} ELSE waiting
          /\ pc' = IF ok THEN "admit" ELSE "catch"
  /\ cand' = None
  /\ UNCHANGED <<handleVars, sharedVars, todo, batchVars, ending, reason, cache,
                 freeCacheSeqs, counters>>

\* admit() returns false once it has evicted everything in vain.
Misfit(r) == used = <<>> /\ ~Fits(r)
AdmitFails(r) ==
  /\ Candidate(r) /\ cand = r /\ Misfit(r)
  /\ cand' = None
  /\ UNCHANGED <<handleVars, sharedVars, pc, todo, batchVars, ending, reason,
                 itemVars, cacheVars, kv, counters>>

\* The loop ends when nobody is left, no sequence is, the first misfit has
\* waited admission_reserve_ms, or all that are left are misfits.
EndAdmit ==
  /\ At("admit") /\ cand = None
  /\ waiting = {} \/ freeSeqs = {} \/ \E r \in waiting : Misfit(r)
  /\ pc' = IF active = {} THEN "loop" ELSE "iterate"
  /\ UNCHANGED <<handleVars, sharedVars, todo, cand, batchVars, ending, reason,
                 itemVars, cacheVars, kv, counters>>

-----------------------------------------------------------------------------
(***************************************************************************)
(* iteration(): run a batch, record its progress, publish its samples.     *)
(***************************************************************************)
Remaining(r) == Len(Prompt[r]) - item[r].processed
Decoding == {r \in active : Remaining(r) = 0}

\* The tokens a request feeds the runner, tagged with its namespace; every
\* token the model samples is 0.
Cells(r, tokens) == [i \in 1..Len(tokens) |-> [ns |-> Namespace[r], token |-> tokens[i]]]
PromptCells(s) ==
  LET done == item[s.key].processed
  IN Cells(s.key, SubSeq(Prompt[s.key], done + 1, done + s.tokens))

\* The position the engine gives the first of them.
Position(r) == IF Remaining(r) > 0 THEN item[r].processed
               ELSE Len(Prompt[r]) + item[r].generated - 1

\* What the runner holds after a batch.
Fed(plan) ==
  [q \in DOMAIN kv |->
     kv[q] \o
       IF \E r \in Range(plan.decodes) : item[r].sequence = q
       THEN Cells(CHOOSE r \in Range(plan.decodes) : item[r].sequence = q, <<0>>)
       ELSE IF \E s \in Range(plan.prefills) : item[s.key].sequence = q
       THEN PromptCells(CHOOSE s \in Range(plan.prefills) : item[s.key].sequence = q)
       ELSE <<>>]

\* The runner takes the batch and samples a token for each request that
\* decodes, and for each whose prompt the batch completes (see Collect).
Execute ==
  /\ At("iterate")
  /\ \E decode \in Orders(Decoding), prefill \in Orders(active \ Decoding) :
     \E plan \in Plans(decode, prefill, [r \in active |-> Remaining(r)]) :
       kv' = Fed(plan) /\ batch' = plan.prefills /\ samples' = plan.decodes
  /\ pc' = "collect"
  /\ UNCHANGED <<handleVars, sharedVars, todo, cand, published, ending, reason,
                 itemVars, cacheVars, counters>>

\* The runner throws, is left unusable, or returns samples that do not
\* match the batch: nothing of the batch is recorded.
ExecuteFails ==
  /\ At("iterate") /\ BackendMayFail
  /\ pc' = "catch"
  /\ UNCHANGED <<handleVars, sharedVars, todo, cand, batchVars, ending, reason,
                 itemVars, cacheVars, kv, counters>>

\* cache_prompt() keeps whole blocks of the prompt, as many as the cache may hold.
CacheLength(r) ==
  IF CacheEntries = 0 THEN 0
  ELSE (Min({Len(Prompt[r]), CacheTokens}) \div BlockSize) * BlockSize

Collect ==
  /\ At("collect") /\ cand = None /\ batch # <<>>
  /\ LET s == Head(batch)
         complete == s.tokens = Remaining(s.key)
     IN /\ item' = [item EXCEPT ![s.key].processed = @ + s.tokens]
        /\ samples' = IF complete THEN Append(samples, s.key) ELSE samples
        /\ cand' = IF complete /\ ~Expired(s.key) /\ CacheLength(s.key) > 0
                   THEN s.key ELSE None
  /\ batch' = Tail(batch)
  /\ UNCHANGED <<handleVars, sharedVars, pc, todo, published, ending, reason,
                 waiting, active, freeSeqs, refs, cacheVars, kv, counters>>

\* cache_prompt() of cand: a match of the whole length, an eviction, or room.
Cached(r) == MatchedTokens(cache, Namespace[r], Prompt[r], CacheLength(r))
CachedBy(r) == MatchedOwner(cache, Namespace[r], Prompt[r], Cached(r))
CacheFull(r) == freeCacheSeqs = {} \/ TokenCount(cache) + CacheLength(r) > CacheTokens

CacheHit ==
  /\ At("collect") /\ cand # None /\ Cached(cand) = CacheLength(cand)
  /\ used' = Touched(used, CachedBy(cand))
  /\ cand' = None
  /\ UNCHANGED <<handleVars, sharedVars, pc, todo, batchVars, ending, reason,
                 itemVars, cache, freeCacheSeqs, kv, counters>>

CacheEvict ==
  /\ At("collect") /\ cand # None /\ Cached(cand) # CacheLength(cand)
  /\ used # <<>> /\ CacheFull(cand)
  /\ Evict(AfterMatch(Cached(cand), CachedBy(cand)), TRUE)
  /\ UNCHANGED <<handleVars, sharedVars, todo, cand, batchVars, ending, reason,
                 waiting, active, item, freeSeqs, counters>>

CacheInsert ==
  /\ At("collect") /\ cand # None /\ Cached(cand) # CacheLength(cand)
  /\ used = <<>> \/ ~CacheFull(cand)
  /\ LET length == CacheLength(cand)
         s      == CHOOSE s \in freeCacheSeqs : TRUE
         entry  == [ns     |-> Namespace[cand],
                    tokens |-> SubSeq(Prompt[cand], 1, length),
                    blocks |-> SubSeq(item[cand].blocks, 1, length \div BlockSize)]
     IN \E ok \in Outcomes :
          /\ cache' = Inserted(cache, s, entry)
          /\ used' = Append(AfterMatch(Cached(cand), CachedBy(cand)), s)
          /\ freeCacheSeqs' = freeCacheSeqs \ {s}
          /\ refs' = Retained(refs, entry.blocks)
          /\ kv' = [kv EXCEPT ![s] = IF ok THEN SubSeq(kv[item[cand].sequence], 1, length)
                                     ELSE <<>>]
          /\ pc' = IF ok THEN pc ELSE "catch"
  /\ cand' = None
  /\ UNCHANGED <<handleVars, sharedVars, todo, batchVars, ending, reason, waiting,
                 active, item, freeSeqs, counters>>

EndCollect ==
  /\ At("collect") /\ cand = None /\ batch = <<>>
  /\ pc' = "emit"
  /\ UNCHANGED <<handleVars, sharedVars, todo, cand, batchVars, ending, reason,
                 itemVars, cacheVars, kv, counters>>

\* The sample of a request that expired while the model ran is dropped.
DropSample ==
  /\ At("emit") /\ samples # <<>> /\ Expired(Head(samples))
  /\ samples' = Tail(samples)
  /\ UNCHANGED <<handleVars, sharedVars, pc, todo, cand, batch, published, ending,
                 reason, itemVars, cacheVars, kv, counters>>

\* Slip: one token too many is buffered.
HasRoomForOneMore(r) == ~finished[r] /\ Len(events[r]) <= EventBuffer

\* RequestHandle::emit() of a token; the usage counts it already.
HasRoom(r) == ~finished[r] /\ Len(events[r]) < EventBuffer
TokenEvent(r) == [kind |-> "token", n |-> item[r].generated + 1]

\* How the request ends after this token, if it does.
Verdict(r, eog) ==
  IF ~HasRoom(r) THEN "backpressure"
  ELSE IF eog THEN "stop"
  ELSE IF item[r].generated + 1 >= MaxTokens[r] THEN "length" ELSE None

EmitToken ==
  /\ At("emit") /\ samples # <<>> /\ ~Expired(Head(samples))
  /\ LET r == Head(samples)
     IN \E eog \in BOOLEAN :
          /\ item' = [item EXCEPT ![r].generated = @ + 1]
          /\ IF HasRoom(r)
             THEN /\ events' = [events EXCEPT ![r] = Append(@, TokenEvent(r))]
                  /\ published' = published \cup {r}
             ELSE UNCHANGED <<events, published>>
          /\ reason' = Verdict(r, eog)
          /\ IF Verdict(r, eog) = None
             THEN samples' = Tail(samples) /\ UNCHANGED pc
             ELSE pc' = "close" /\ UNCHANGED samples
  /\ UNCHANGED <<status, finished, cancelled, late, sharedVars, todo, cand, batch,
                 ending, waiting, active, freeSeqs, refs, cacheVars, kv, counters>>

\* token_piece() throws: the token is counted and never emitted.
EmitThrows ==
  /\ At("emit") /\ samples # <<>> /\ ~Expired(Head(samples)) /\ BackendMayFail
  /\ item' = [item EXCEPT ![Head(samples)].generated = @ + 1]
  /\ pc' = "catch"
  /\ UNCHANGED <<handleVars, sharedVars, todo, cand, batchVars, ending, reason,
                 waiting, active, freeSeqs, refs, cacheVars, kv, counters>>

\* The request of the sample at hand ends.
Close ==
  /\ At("close")
  /\ \E ok \in Outcomes :
       IF ok THEN Finish(Head(samples), reason) /\ pc' = "emit"
             ELSE FinishThrows(Head(samples))
  /\ samples' = Tail(samples)
  /\ UNCHANGED <<handleVars, incoming, stopping, failed, todo, cand, batch,
                 published, waiting, active, cacheVars>>

EndIteration ==
  /\ At("emit") /\ samples = <<>>
  /\ EraseFinished
  /\ published' = {}
  /\ pc' = "loop"
  /\ UNCHANGED <<handleVars, sharedVars, todo, cand, batch, samples, ending, reason,
                 waiting, freeSeqs, refs, cacheVars, kv, counters>>

-----------------------------------------------------------------------------
(***************************************************************************)
(* The end of run(): terminate_all(), on request or after an exception.    *)
(***************************************************************************)
\* terminate_all() looks at the backend before anything else.
BeginStop ==
  /\ At("loop") /\ stopping
  /\ \E ok \in Outcomes : pc' = IF ok THEN "drain" ELSE "catch"
  /\ UNCHANGED <<handleVars, sharedVars, todo, cand, batchVars, ending, reason,
                 itemVars, cacheVars, kv, counters>>

\* The handler of the worker's exceptions; what they unwound is forgotten.
Catch ==
  /\ At("catch")
  /\ failed' = TRUE
  /\ todo' = {} /\ cand' = None /\ batch' = <<>> /\ samples' = <<>> /\ reason' = None
  /\ pc' = "drain"
  /\ UNCHANGED <<handleVars, incoming, registry, stopping, published, ending,
                 itemVars, cacheVars, kv, counters>>

DrainLast ==
  /\ At("drain")
  /\ Drain
  /\ pc' = "terminate"
  /\ UNCHANGED <<handleVars, registry, stopping, failed, todo, cand, batchVars,
                 ending, reason, active, item, freeSeqs, refs, cacheVars, kv, counters>>

\* After an exception the backend is not checked any more.
LastReason == IF failed THEN "backend_error" ELSE "shutdown"

TerminateActive(r) ==
  /\ At("terminate") /\ r \in Undone
  /\ \E ok \in IF failed THEN {TRUE} ELSE Outcomes :
       IF ok THEN Finish(r, LastReason) /\ UNCHANGED pc ELSE FinishThrows(r)
  /\ UNCHANGED <<handleVars, incoming, stopping, failed, todo, cand, batchVars,
                 waiting, active, cacheVars>>

TerminateWaiting(r) ==
  /\ At("terminate") /\ Undone = {} /\ r \in waiting
  /\ waiting' = waiting \ {r}
  /\ Terminal(r, LastReason)
  /\ UNCHANGED <<handleVars, incoming, stopping, failed, pc, todo, cand, batchVars,
                 active, item, freeSeqs, refs, cacheVars, kv>>

TerminateCache ==
  /\ At("terminate") /\ Undone = {} /\ waiting = {} /\ used # <<>>
  /\ Evict(used, ~failed)
  /\ UNCHANGED <<handleVars, sharedVars, todo, cand, batchVars, ending, reason,
                 waiting, active, item, freeSeqs, counters>>

EndTerminate ==
  /\ At("terminate") /\ Undone = {} /\ waiting = {} /\ used = <<>>
  /\ EraseFinished
  /\ pc' = "stopped"
  /\ UNCHANGED <<handleVars, sharedVars, todo, cand, batchVars, ending, reason,
                 waiting, freeSeqs, refs, cacheVars, kv, counters>>

-----------------------------------------------------------------------------
Expire(r) == VisitLive(r) \/ ExpireWaiting(r) \/ ExpireActive(r)
Admission(r) == AdmitEvict(r) \/ Admit(r) \/ AdmitFails(r)
CachePrompt == CacheHit \/ CacheEvict \/ CacheInsert
Emission == DropSample \/ EmitToken \/ EmitThrows \/ Close
Termination == \/ BeginStop \/ Catch \/ DrainLast \/ TerminateCache \/ EndTerminate
               \/ \E r \in Requests : TerminateActive(r) \/ TerminateWaiting(r)

Worker ==
  \/ EmitTerminal \/ Sleep \/ BeginIteration \/ EndExpire \/ EndAdmit
  \/ Execute \/ ExecuteFails \/ Collect \/ CachePrompt \/ EndCollect
  \/ Emission \/ EndIteration \/ Termination
  \/ \E r \in Requests : Expire(r) \/ Admission(r)

Client ==
  \/ Stop
  \/ \E i \in Ids : Cancel(i)
  \/ \E r \in Requests : Accept(r) \/ Reject(r) \/ ClientNext(r) \/ DeadlinePasses(r)

\* The worker's thread has ended.
Stopped == pc = "stopped" /\ UNCHANGED vars

Next == Worker \/ Client \/ Stopped

Spec == Init /\ [][Next]_vars

\* The worker is a thread the system schedules and its backend calls return;
\* nothing makes a client submit, read, cancel or stop.
FairSpec == Spec /\ WF_vars(Worker)
=============================================================================
