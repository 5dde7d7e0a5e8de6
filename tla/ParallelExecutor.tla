--------------------------- MODULE ParallelExecutor ---------------------------
(***************************************************************************)
(* ParallelExecutor of src/src/minillm/parallel.cpp: one thread calls run, *)
(* which hands a range of indices, a grain at a time, to itself and to     *)
(* Threads - 1 helper threads, and returns when all of them have reported. *)
(* A step is a critical section of the mutex, an atomic claim, a notify,   *)
(* or a call of the body.  Profiling is left out.                          *)
(***************************************************************************)
EXTENDS Naturals, FiniteSets

CONSTANTS Threads,   \* the constructor's argument
          Calls,     \* the arguments of run(): a count and a grain
          Wide,      \* 2^64: size_t counts modulo this
          MaxRuns    \* bound: the calls of run() that reach the helpers

Caller  == 0
Helpers == 1..(Threads - 1)
Workers == 0..(Threads - 1)

\* next_ does not wrap around: the callers pass grains of at most 256.
ASSUME ExecutorAssumption ==
  /\ Threads \in 1..256 /\ {Wide, MaxRuns} \subseteq Nat
  /\ Calls \subseteq [count : Nat, grain : Nat]
  /\ \A c \in Calls : c.count + (Threads + 1) * c.grain < Wide

VARIABLES
  pc,          \* where each thread is
  seen,        \* each helper's own `generation`
  generation, remaining, stop,     \* under the mutex
  count, grain, next,              \* the range, and the first unclaimed index
  error,       \* who threw first, or Threads
  chunk,       \* the indices each thread is applying the body to
  times,       \* how often the body was called for each index (history)
  done,        \* the indices it was applied to in this call (history)
  result       \* what the last call returned

callVars == <<count, grain, times, done, result>>
vars == <<pc, seen, generation, remaining, stop, next, error, chunk, callVars>>

NoError == Threads

Init ==
  /\ pc = [w \in Workers |-> IF w = Caller THEN "constructing" ELSE "unborn"]
  /\ seen = [w \in Helpers |-> 0]
  /\ generation = 0 /\ remaining = 0 /\ stop = FALSE
  /\ count = 0 /\ grain = 1 /\ next = 0
  /\ error = NoError /\ chunk = [w \in Workers |-> {}]
  /\ times = [i \in 0..(count - 1) |-> 0] /\ done = {} /\ result = "none"

-----------------------------------------------------------------------------
\* The waiters that a notify wakes look at their condition again.
Woken(at, waiters) == [w \in Workers |-> IF w \in waiters /\ at[w] = "asleep" THEN "wait" ELSE at[w]]

\* The constructor starts the helpers one by one.
Construct ==
  /\ pc[Caller] = "constructing"
  /\ \E h \in Helpers :
       /\ pc[h] = "unborn" /\ \A g \in 1..(h - 1) : pc[g] # "unborn"
       /\ pc' = [pc EXCEPT ![h] = "wait"]
  /\ UNCHANGED <<seen, generation, remaining, stop, next, error, chunk, callVars>>

Constructed ==
  /\ pc[Caller] = "constructing" /\ \A h \in Helpers : pc[h] # "unborn"
  /\ pc' = [pc EXCEPT ![Caller] = "idle"]
  /\ UNCHANGED <<seen, generation, remaining, stop, next, error, chunk, callVars>>

\* The destructor, or a constructor that cannot start a thread, stops those
\* there are, notifies them and joins them.
Shutdown ==
  /\ \/ pc[Caller] = "idle"
     \/ pc[Caller] = "constructing" /\ \E h \in Helpers : pc[h] = "unborn"
  /\ stop' = TRUE
  /\ pc' = [pc EXCEPT ![Caller] = "stopping"]
  /\ UNCHANGED <<seen, generation, remaining, next, error, chunk, callVars>>

NotifyStop ==
  /\ pc[Caller] = "stopping"
  /\ pc' = [Woken(pc, Helpers) EXCEPT ![Caller] = "joining"]
  /\ UNCHANGED <<seen, generation, remaining, stop, next, error, chunk, callVars>>

Joined ==
  /\ pc[Caller] = "joining" /\ \A h \in Helpers : pc[h] \in {"unborn", "ended"}
  /\ pc' = [pc EXCEPT ![Caller] = "gone"]
  /\ UNCHANGED <<seen, generation, remaining, stop, next, error, chunk, callVars>>

-----------------------------------------------------------------------------
ToReport == Cardinality(Helpers)
Reset == next' = 0 /\ error' = NoError

\* run(), up to the notify of the helpers.
Run ==
  /\ pc[Caller] = "idle" /\ generation < MaxRuns
  /\ \E c \in Calls :
       /\ c.count > 0 /\ c.grain > 0
       /\ count' = c.count /\ grain' = c.grain
  /\ Reset
  /\ remaining' = ToReport
  /\ generation' = generation + 1
  /\ times' = [i \in 0..(count' - 1) |-> 0] /\ done' = {} /\ result' = "none"
  /\ pc' = [pc EXCEPT ![Caller] = "notify"]
  /\ UNCHANGED <<seen, stop, chunk>>

\* run() with nothing to do, or with a grain of zero.
RunTrivially ==
  /\ pc[Caller] = "idle"
  /\ \E c \in Calls :
       /\ c.count = 0 \/ c.grain = 0
       /\ result' = IF c.count = 0 THEN "ok" ELSE "invalid"
  /\ UNCHANGED <<pc, seen, generation, remaining, stop, next, error, chunk, count, grain, times, done>>

NotifyStart ==
  /\ pc[Caller] = "notify"
  /\ pc' = [Woken(pc, Helpers) EXCEPT ![Caller] = "claim"]
  /\ UNCHANGED <<seen, generation, remaining, stop, next, error, chunk, callVars>>

Noted(h) == [seen EXCEPT ![h] = generation]

\* A helper waits for a generation it has not seen, or for the end.
Wait(h) ==
  /\ pc[h] = "wait"
  /\ pc' = [pc EXCEPT ![h] = IF stop THEN "ended"
                             ELSE IF generation # seen[h] THEN "claim" ELSE "asleep"]
  /\ seen' = IF stop THEN seen ELSE Noted(h)
  /\ UNCHANGED <<generation, remaining, stop, next, error, chunk, callVars>>

\* A waiter may wake for no reason.
WakeSpuriously(w) ==
  /\ pc[w] = "asleep"
  /\ pc' = [pc EXCEPT ![w] = IF w = Caller THEN "await" ELSE "wait"]
  /\ UNCHANGED <<seen, generation, remaining, stop, next, error, chunk, callVars>>

-----------------------------------------------------------------------------
\* Where a thread goes when it has nothing left to claim.
Leave(w) == IF w = Caller THEN "await" ELSE "report"

\* Slip: a load and a store.  Another thread's store may come between, and
\* is lost, or this one's may be.
AdvanceInTwo == next' \in {next, (next + grain) % Wide}

\* next_.fetch_add(grain_)
Advance == next' = (next + grain) % Wide

Claimed == {i \in next..(next + grain - 1) : i < count}

\* consume(), the claim of a chunk and the call of the body for it.
Claim(w) ==
  /\ pc[w] = "claim"
  /\ Advance
  /\ chunk' = [chunk EXCEPT ![w] = Claimed]
  /\ times' = [i \in DOMAIN times |-> IF i \in Claimed THEN times[i] + 1 ELSE times[i]]
  /\ pc' = [pc EXCEPT ![w] = IF next >= count THEN Leave(w) ELSE "work"]
  /\ UNCHANGED <<seen, generation, remaining, stop, error, count, grain, done, result>>

\* The body returns.
Work(w) ==
  /\ pc[w] = "work"
  /\ done' = done \cup chunk[w]
  /\ chunk' = [chunk EXCEPT ![w] = {}]
  /\ pc' = [pc EXCEPT ![w] = "claim"]
  /\ UNCHANGED <<seen, generation, remaining, stop, next, error, count, grain, times, result>>

\* The body throws at index k; the first error of a call is kept.
WorkThrows(w) ==
  /\ pc[w] = "work"
  /\ \E k \in chunk[w] : done' = done \cup {i \in chunk[w] : i < k}
  /\ chunk' = [chunk EXCEPT ![w] = {}]
  /\ error' = IF error = NoError THEN w ELSE error
  /\ pc' = [pc EXCEPT ![w] = Leave(w)]
  /\ UNCHANGED <<seen, generation, remaining, stop, next, count, grain, times, result>>

\* Slip: nobody is notified.
LastNever(at, left) == at

\* done_.notify_one, by the last helper.
Last(at, left) == IF left = 0 /\ at[Caller] = "asleep" THEN [at EXCEPT ![Caller] = "await"] ELSE at

Report(h) ==
  /\ pc[h] = "report"
  /\ remaining' = remaining - 1
  /\ pc' = Last([pc EXCEPT ![h] = "wait"], remaining')
  /\ UNCHANGED <<seen, generation, stop, next, error, chunk, callVars>>

\* Slip: the caller returns when it has nothing left to claim itself.
AllReportedAlways == TRUE
AllReported == remaining = 0

\* The end of run().
Await ==
  /\ pc[Caller] = "await"
  /\ IF AllReported
     THEN /\ result' = IF error = NoError THEN "ok" ELSE "threw"
          /\ pc' = [pc EXCEPT ![Caller] = "idle"]
     ELSE /\ pc' = [pc EXCEPT ![Caller] = "asleep"]
          /\ UNCHANGED result
  /\ UNCHANGED <<seen, generation, remaining, stop, next, error, chunk, count, grain, times, done>>

-----------------------------------------------------------------------------
Consume(w) == Claim(w) \/ Work(w) \/ WorkThrows(w)
HelperStep(h) == Wait(h) \/ Consume(h) \/ Report(h)
CallerStep == \/ Construct \/ Constructed \/ NotifyStart \/ Consume(Caller) \/ Await
              \/ NotifyStop \/ Joined

Gone == pc[Caller] = "gone" /\ UNCHANGED vars

Next ==
  \/ Run \/ RunTrivially \/ Shutdown \/ CallerStep \/ Gone
  \/ \E h \in Helpers : HelperStep(h)
  \/ \E w \in Workers : WakeSpuriously(w)

Spec == Init /\ [][Next]_vars

\* Threads are scheduled and bodies return; nobody has to call or destroy.
FairSpec == Spec /\ WF_vars(CallerStep) /\ \A h \in Helpers : WF_vars(HelperStep(h))

-----------------------------------------------------------------------------
TypeOK ==
  /\ pc \in [Workers -> {"constructing", "idle", "notify", "await", "stopping", "joining", "gone",
                         "unborn", "wait", "asleep", "claim", "work", "report", "ended"}]
  /\ seen \in [Helpers -> Nat]
  /\ generation \in Nat /\ remaining \in 0..(Threads - 1) /\ stop \in BOOLEAN
  /\ count \in Nat /\ grain \in Nat /\ next \in 0..(Wide - 1)
  /\ error \in 0..Threads
  /\ chunk \in [Workers -> SUBSET Nat] /\ times \in [DOMAIN times -> Nat] /\ done \subseteq Nat
  /\ result \in {"none", "ok", "invalid", "threw"}

\* A helper that is at a call's range or its body, or has yet to report,
\* is one the call waits for: none reads the range while run() replaces it,
\* and none calls a body that its caller has left behind.
Busy(h) == pc[h] \in {"claim", "work", "report"}
NobodyOutlivesTheCall ==
  pc[Caller] \in {"constructing", "idle", "stopping", "joining", "gone"} =>
    \A h \in Helpers : ~Busy(h)

\* Each helper reports once for each generation, which it cannot miss.
RemainingIsExact ==
  ~stop => remaining = Cardinality({h \in Helpers : Busy(h) \/ seen[h] # generation})

\* run() does what a caller expects of a parallel loop: the body is never
\* called twice for an index, however the claims of the threads interleave,
\* and was called for each when run() succeeds; an error comes of a body that
\* throws, when the others are done; and the next call knows nothing of it.
InRun == pc[Caller] \in {"notify", "claim", "work", "await", "asleep"}
For == INSTANCE ParallelFor WITH
  running <- InRun,
  open    <- UNION {chunk[w] : w \in Workers},
  result  <- IF InRun /\ error # NoError THEN "threw" ELSE result
IsParallelFor == For!Spec

\* run() and the destructor return.
CallsReturn ==
  /\ pc[Caller] = "notify" ~> pc[Caller] = "idle"
  /\ pc[Caller] = "stopping" ~> pc[Caller] = "gone"
=============================================================================
