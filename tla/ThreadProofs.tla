----------------------------- MODULE ThreadProofs -----------------------------
(***************************************************************************)
(* The threads beside the Engine's.  Of ParallelExecutor, for every number *)
(* of threads, range and grain: a call waits for exactly the helpers that  *)
(* have to do with it, and it is a parallel loop (ParallelFor); the        *)
(* argument has two parts, who owes a report, and what the claims of a     *)
(* call have covered so far.  Of serve_http, for any number of requests    *)
(* and tokens: nobody is left without an answer, no work is left without a *)
(* client, and the wait of the monitor is for handlers that have begun.    *)
(***************************************************************************)
EXTENDS ParallelExecutor, HttpServer, FiniteSetTheorems, SequenceTheorems, TLAPS

-----------------------------------------------------------------------------
(***************************************************************************)
(* The parallel loop.                                                      *)
(***************************************************************************)
Idling  == {"constructing", "idle"}
Ending  == {"stopping", "joining", "gone"}
InCall  == {"notify", "claim", "work", "await", "asleep"}
AtHelper == {"unborn", "wait", "asleep", "claim", "work", "report", "ended"}

Shape ==
  /\ pc \in [Workers -> Idling \cup Ending \cup InCall \cup AtHelper]
  /\ pc[Caller] \in Idling \cup Ending \cup InCall
  /\ \A h \in Helpers : pc[h] \in AtHelper
  /\ seen \in [Helpers -> Nat] /\ generation \in Nat
  /\ stop \in BOOLEAN /\ error \in 0..Threads

LEMMA People ==
  /\ Threads \in Nat \ {0} /\ Caller \in Workers /\ Workers = Helpers \cup {Caller}
  /\ Caller \notin Helpers /\ NoError \notin Workers
  /\ IsFiniteSet(Helpers) /\ Cardinality(Helpers) \in Nat
  /\ IsFiniteSet(Workers) /\ Cardinality(Workers) = Threads
<1>1. Threads \in Nat \ {0}
  BY ExecutorAssumption
<1>2. IsFiniteSet(Helpers) /\ Cardinality(Helpers) \in Nat
  BY <1>1, FS_Interval, FS_CardinalityType DEF Helpers
<1>3. IsFiniteSet(Workers) /\ Cardinality(Workers) = Threads
  BY <1>1, FS_Interval DEF Workers
<1>4. QED
  BY <1>1, <1>2, <1>3 DEF Workers, Helpers, Caller, NoError

-----------------------------------------------------------------------------
(***************************************************************************)
(* Who owes a report: those that have yet to see the call, and those in it.*)
(***************************************************************************)
Owing == {h \in Helpers : Busy(h) \/ seen[h] # generation}

Calm ==
  /\ stop <=> pc[Caller] \in Ending
  /\ pc[Caller] \in Idling => \A h \in Helpers : seen[h] = generation
  /\ \A h \in Helpers : Busy(h) => seen[h] = generation
  /\ NobodyOutlivesTheCall
  /\ RemainingIsExact

LEMMA OwingIsFinite == IsFiniteSet(Owing) /\ Cardinality(Owing) \in Nat
BY People, FS_Subset, FS_CardinalityType DEF Owing

LEMMA RemainingCounts == Calm /\ ~stop => remaining = Cardinality(Owing)
BY DEF Calm, RemainingIsExact, Owing

\* A step of the caller alone.
LEMMA CallerMoves ==
  ASSUME Shape, Calm, UNCHANGED <<seen, generation, remaining>>,
         \A h \in Helpers : Busy(h)' <=> Busy(h),
         stop' <=> pc'[Caller] \in Ending,
         pc'[Caller] \in Idling => pc[Caller] \in Idling,
         pc[Caller] \in Ending => pc'[Caller] \in Ending,
         pc'[Caller] \in Ending => pc[Caller] \in Idling \cup Ending
  PROVE  Calm'
<1>1. Owing' = Owing
  BY DEF Owing
<1>2. RemainingIsExact'
  <2>1. SUFFICES ASSUME ~stop' PROVE remaining' = Cardinality(Owing')
    BY DEF RemainingIsExact, Owing
  <2>2. ~stop
    BY <2>1 DEF Calm
  <2>3. QED
    BY <2>2, <1>1, RemainingCounts
<1>3. NobodyOutlivesTheCall'
  BY DEF Calm, NobodyOutlivesTheCall, Idling, Ending
<1>4. QED
  BY <1>2, <1>3 DEF Calm

\* A step that changes nobody's part in the call.
LEMMA NobodyMoves ==
  ASSUME Shape, Calm, UNCHANGED <<seen, generation, remaining, stop>>,
         \A h \in Helpers : Busy(h)' <=> Busy(h),
         pc'[Caller] = pc[Caller] \/ (pc[Caller] \in InCall /\ pc'[Caller] \in InCall)
  PROVE  Calm'
<1>1. CASE pc'[Caller] = pc[Caller]
  BY <1>1, CallerMoves DEF Calm
<1>2. CASE pc[Caller] \in InCall /\ pc'[Caller] \in InCall
  BY <1>2, CallerMoves DEF Calm, InCall, Idling, Ending
<1>3. QED
  BY <1>1, <1>2

LEMMA ShapeStep == Shape /\ [Next]_vars => Shape'
<1> SUFFICES ASSUME Shape, [Next]_vars PROVE Shape'
  OBVIOUS
<1> USE People DEF Shape, Idling, Ending, InCall, AtHelper
<1>1. CASE Construct \/ Constructed \/ Shutdown \/ Joined
  BY <1>1 DEF Construct, Constructed, Shutdown, Joined
<1>2. CASE NotifyStop
  BY <1>2 DEF NotifyStop, Woken
<1>3. CASE NotifyStart
  BY <1>3 DEF NotifyStart, Woken
<1>4. CASE Run
  BY <1>4 DEF Run, Reset, NoError
<1>5. CASE RunTrivially \/ Gone \/ UNCHANGED vars
  BY <1>5 DEF RunTrivially, Gone, vars
<1>6. ASSUME NEW h \in Helpers, Wait(h)
      PROVE  Shape'
  BY <1>6 DEF Wait, Noted
<1>7. ASSUME NEW w \in Workers, Claim(w)
      PROVE  Shape'
  BY <1>7 DEF Claim, Leave
<1>8. ASSUME NEW w \in Workers, Work(w)
      PROVE  Shape'
  BY <1>8 DEF Work
<1>9. ASSUME NEW w \in Workers, WorkThrows(w)
      PROVE  Shape'
  <2>1. error' \in 0..Threads
    BY <1>9 DEF WorkThrows, Workers
  <2>2. QED
    BY <1>9, <2>1 DEF WorkThrows, Leave
<1>10. ASSUME NEW h \in Helpers, Report(h)
       PROVE  Shape'
  BY <1>10 DEF Report, Last
<1>11. ASSUME NEW w \in Workers, WakeSpuriously(w)
       PROVE  Shape'
  BY <1>11 DEF WakeSpuriously
<1>12. CASE Await
  BY <1>12 DEF Await
<1>13. QED
  BY <1>1, <1>2, <1>3, <1>4, <1>5, <1>6, <1>7, <1>8, <1>9, <1>10, <1>11, <1>12
  DEF Next, CallerStep, HelperStep, Consume

LEMMA CalmStep == Shape /\ Calm /\ [Next]_vars => Calm'
<1> SUFFICES ASSUME Shape, Calm, [Next]_vars PROVE Calm'
  OBVIOUS
<1>1. CASE Construct
  BY <1>1, People, NobodyMoves DEF Construct, Shape, Busy, callVars
<1>2. CASE Constructed
  BY <1>2, People, CallerMoves DEF Constructed, Shape, Busy, callVars, Calm, Idling, Ending
<1>3. CASE Shutdown
  BY <1>3, People, CallerMoves DEF Shutdown, Shape, Busy, callVars, Idling, Ending
<1>4. CASE NotifyStop
  BY <1>4, People, CallerMoves DEF NotifyStop, Woken, Shape, Busy, callVars, Calm, Idling, Ending
<1>5. CASE Joined
  BY <1>5, People, CallerMoves DEF Joined, Shape, Busy, callVars, Calm, Idling, Ending
<1>6. CASE NotifyStart
  BY <1>6, People, NobodyMoves DEF NotifyStart, Woken, Shape, Busy, callVars, InCall
<1>7. CASE Run
  <2>1. /\ pc[Caller] = "idle" /\ generation' = generation + 1 /\ remaining' = Cardinality(Helpers)
        /\ stop' = stop /\ seen' = seen /\ pc' = [pc EXCEPT ![Caller] = "notify"]
    BY <1>7 DEF Run, ToReport
  <2>2. /\ ~stop /\ \A h \in Helpers : seen[h] = generation /\ ~Busy(h)
    BY <2>1 DEF Calm, NobodyOutlivesTheCall, Idling, Ending
  <2>3. pc'[Caller] = "notify" /\ \A h \in Helpers : ~Busy(h)'
    BY <2>1, <2>2, People DEF Shape, Busy
  <2>4. Owing' = Helpers
    BY <2>1, <2>2 DEF Owing, Shape
  <2>5. QED
    BY <2>1, <2>2, <2>3, <2>4 DEF Calm, NobodyOutlivesTheCall, RemainingIsExact, Owing, Idling, Ending
<1>8. CASE RunTrivially \/ Gone \/ UNCHANGED vars
  BY <1>8, NobodyMoves DEF RunTrivially, Gone, vars, Busy
<1>9. ASSUME NEW h \in Helpers, Wait(h)
      PROVE  Calm'
  <2>1. CASE stop \/ generation = seen[h]
    <3>1. pc' = [pc EXCEPT ![h] = IF stop THEN "ended" ELSE "asleep"]
      BY <1>9, <2>1 DEF Wait
    <3>2. seen' = seen
      BY <1>9, <2>1 DEF Wait, Noted, Shape
    <3>3. QED
      BY <1>9, <3>1, <3>2, People, NobodyMoves DEF Wait, Shape, Busy
  <2>2. CASE ~stop /\ generation # seen[h]
    <3>1. /\ pc' = [pc EXCEPT ![h] = "claim"] /\ seen' = [seen EXCEPT ![h] = generation]
          /\ UNCHANGED <<generation, remaining, stop>> /\ pc[h] = "wait"
      BY <1>9, <2>2 DEF Wait, Noted
    <3>2. pc[Caller] \in InCall
      BY <2>2 DEF Calm, Shape
    <3>3. pc'[Caller] = pc[Caller]
      BY <3>1, People DEF Shape
    <3>4. Owing' = Owing
      <4>1. h \in Owing /\ Busy(h)'
        BY <2>2, <3>1, People DEF Owing, Shape, Busy
      <4>2. \A g \in Helpers : g # h => pc'[g] = pc[g] /\ seen'[g] = seen[g]
        BY <3>1, People DEF Shape
      <4>3. \A g \in Helpers : g \in Owing' <=> g \in Owing
        BY <3>1, <4>1, <4>2 DEF Owing, Busy
      <4>4. QED
        BY <4>3 DEF Owing
    <3>5. RemainingIsExact'
      BY <2>2, <3>1, <3>4, RemainingCounts DEF RemainingIsExact, Owing
    <3>6. \A g \in Helpers : Busy(g)' => seen'[g] = generation'
      BY <3>1 DEF Shape, Calm, Busy
    <3>7. QED
      BY <3>1, <3>2, <3>3, <3>5, <3>6 DEF Calm, NobodyOutlivesTheCall, InCall, Idling, Ending
  <2>3. QED
    BY <2>1, <2>2
<1>10. ASSUME NEW w \in Workers, Claim(w) \/ Work(w) \/ WorkThrows(w)
       PROVE  Calm'
  <2>1. /\ pc[w] \in {"claim", "work"} /\ UNCHANGED <<seen, generation, remaining, stop>>
        /\ \E to \in {Leave(w), "claim", "work"} : pc' = [pc EXCEPT ![w] = to]
    BY <1>10 DEF Claim, Work, WorkThrows
  <2>2. CASE w = Caller
    <3>1. pc[Caller] \in InCall /\ pc'[Caller] \in InCall
      BY <2>1, <2>2, People DEF Shape, Leave, InCall
    <3>2. \A h \in Helpers : pc'[h] = pc[h]
      BY <2>1, <2>2, People DEF Shape
    <3>3. QED
      BY <2>1, <3>1, <3>2, NobodyMoves DEF Busy
  <2>3. CASE w \in Helpers
    <3>1. pc'[Caller] = pc[Caller]
      BY <2>1, <2>3, People DEF Shape
    <3>2. \A h \in Helpers : Busy(h)' <=> Busy(h)
      BY <2>1, <2>3, People DEF Shape, Leave, Busy
    <3>3. QED
      BY <2>1, <3>1, <3>2, NobodyMoves
  <2>4. QED
    BY <2>2, <2>3, People
<1>11. ASSUME NEW h \in Helpers, Report(h)
       PROVE  Calm'
  <2>1. /\ Busy(h) /\ remaining' = remaining - 1 /\ UNCHANGED <<seen, generation, stop>>
        /\ pc[h] = "report"
    BY <1>11 DEF Report, Busy
  <2>2. pc[Caller] \in InCall /\ ~stop /\ seen[h] = generation
    BY <2>1 DEF Calm, NobodyOutlivesTheCall, Shape, Idling, Ending, InCall
  <2>3. /\ pc'[h] = "wait" /\ \A g \in Helpers : g # h => pc'[g] = pc[g]
        /\ pc'[Caller] \in InCall
    BY <1>11, <2>2, People DEF Report, Last, Shape, InCall
  <2>4. h \in Owing /\ Owing' = Owing \ {h}
    BY <2>1, <2>2, <2>3 DEF Owing, Busy
  <2>5. Cardinality(Owing') = Cardinality(Owing) - 1
    BY <2>4, OwingIsFinite, FS_RemoveElement
  <2>6. RemainingIsExact'
    BY <2>1, <2>2, <2>5, RemainingCounts DEF RemainingIsExact, Owing
  <2>7. \A g \in Helpers : Busy(g)' => seen'[g] = generation'
    BY <2>1, <2>3 DEF Busy, Calm
  <2>8. QED
    BY <2>1, <2>2, <2>3, <2>6, <2>7 DEF Calm, NobodyOutlivesTheCall, InCall, Idling, Ending
<1>12. ASSUME NEW w \in Workers, WakeSpuriously(w)
       PROVE  Calm'
  BY <1>12, People, NobodyMoves DEF WakeSpuriously, Shape, Busy, InCall
<1>13. CASE Await
  <2>1. pc[Caller] = "await" /\ ~stop /\ UNCHANGED <<seen, generation, remaining, stop>>
    BY <1>13 DEF Await, Calm, Ending
  <2>2. CASE ~AllReported
    <3>1. pc' = [pc EXCEPT ![Caller] = "asleep"]
      BY <1>13, <2>2 DEF Await
    <3>2. QED
      BY <2>1, <3>1, People, NobodyMoves DEF Shape, Busy, InCall
  <2>3. CASE AllReported
    <3>1. pc' = [pc EXCEPT ![Caller] = "idle"] /\ remaining = 0
      BY <1>13, <2>3 DEF Await, AllReported
    <3>2. Owing = {}
      BY <2>1, <3>1, RemainingCounts, OwingIsFinite, FS_EmptySet
    <3>3. \A h \in Helpers : ~Busy(h) /\ seen[h] = generation
      BY <3>2 DEF Owing
    <3>4. pc'[Caller] = "idle" /\ \A h \in Helpers : pc'[h] = pc[h]
      BY <3>1, People DEF Shape
    <3>5. Owing' = Owing /\ \A h \in Helpers : ~Busy(h)'
      BY <2>1, <3>3, <3>4 DEF Owing, Busy
    <3>6. QED
      BY <2>1, <3>1, <3>2, <3>3, <3>4, <3>5, RemainingCounts
      DEF Calm, NobodyOutlivesTheCall, RemainingIsExact, Owing, Idling, Ending
  <2>4. QED
    BY <2>2, <2>3
<1>14. QED
  BY <1>1, <1>2, <1>3, <1>4, <1>5, <1>6, <1>7, <1>8, <1>9, <1>10, <1>11, <1>12, <1>13, People
  DEF Next, CallerStep, HelperStep, Consume

LEMMA CalmStarts == Init => Shape /\ Calm
<1> SUFFICES ASSUME Init PROVE Shape /\ Calm
  OBVIOUS
<1>1. Shape
  <2>1. error \in 0..Threads
    BY People DEF Init, NoError
  <2>2. \A w \in Workers : pc[w] \in Idling \cup AtHelper
    BY DEF Init, Idling, AtHelper
  <2>3. pc[Caller] \in Idling /\ \A h \in Helpers : pc[h] \in AtHelper
    BY People DEF Init, Idling, AtHelper
  <2>4. pc \in [Workers -> Idling \cup Ending \cup InCall \cup AtHelper]
    BY <2>2 DEF Init
  <2>5. QED
    BY <2>1, <2>3, <2>4 DEF Init, Shape
<1>2. pc[Caller] = "constructing" /\ \A h \in Helpers : pc[h] = "unborn" /\ seen[h] = 0
  BY People DEF Init
<1>3. Owing = {}
  BY <1>2 DEF Owing, Busy, Init
<1>4. RemainingIsExact
  BY <1>3, FS_EmptySet DEF RemainingIsExact, Owing, Init
<1>5. QED
  BY <1>1, <1>2, <1>4 DEF Calm, NobodyOutlivesTheCall, Busy, Idling, Ending, Init

\* When run() has returned, and before it has begun, no helper is at its range
\* or its body, whatever wakes up when.
THEOREM NobodyOutlives == Spec => []NobodyOutlivesTheCall
<1>1. Calm => NobodyOutlivesTheCall
  BY DEF Calm
<1>2. QED
  BY <1>1, CalmStarts, ShapeStep, CalmStep, PTL DEF Spec

-----------------------------------------------------------------------------
(***************************************************************************)
(* What the claims of a call have covered.  A thread that has claimed past *)
(* the end, or thrown, has left the loop; each of them has advanced the    *)
(* counter once too often at most, so it stays below Wide.                 *)
(***************************************************************************)
Left(w) == IF w = Caller THEN pc[w] \in {"await", "asleep"}
           ELSE seen[w] = generation /\ pc[w] \notin {"claim", "work"}
LeftOnes == {w \in Workers : Left(w)}

Running == pc[Caller] \in InCall

\* The indices that bodies are at work on.
Open == UNION {chunk[w] : w \in Workers}

ChunksAreOwn ==
  /\ chunk \in [Workers -> SUBSET Nat] /\ done \subseteq Nat
  /\ \A w \in Workers : pc[w] = "work" <=> chunk[w] # {}
  /\ \A w \in Workers : \A i \in chunk[w] : i < count /\ i < next /\ i \notin done
  /\ \A v, w \in Workers : v # w => chunk[v] \cap chunk[w] = {}
  /\ \A i \in done : i < count /\ i < next

\* The body was called once for each index that has been claimed.
CallsAreCounted == times = [i \in 0..(count - 1) |-> IF i < next THEN 1 ELSE 0]

CounterIsBounded ==
  /\ count \in Nat \ {0} /\ grain \in Nat \ {0} /\ next \in Nat
  /\ count + (Threads + 1) * grain < Wide
  /\ next <= count + grain * (1 + Cardinality(LeftOnes))

NothingIsSkipped ==
  error = NoError =>
    /\ \A i \in Nat : i < count /\ i < next => i \in done \/ \E w \in Workers : i \in chunk[w]
    /\ LeftOnes # {} => next >= count

LoopIsCovered ==
  /\ ~Running => \A w \in Workers : chunk[w] = {}
  /\ chunk \in [Workers -> SUBSET Nat]
  /\ Running => /\ ChunksAreOwn /\ CallsAreCounted /\ CounterIsBounded /\ NothingIsSkipped
                /\ result = "none"

LEMMA LeftIsFinite == IsFiniteSet(LeftOnes) /\ Cardinality(LeftOnes) \in Nat
BY People, FS_Subset, FS_CardinalityType DEF LeftOnes

LEMMA OpenMore ==
  ASSUME NEW w \in Workers, chunk \in [Workers -> SUBSET Nat], chunk[w] = {}, NEW c,
         chunk' = [chunk EXCEPT ![w] = c]
  PROVE  Open' = Open \cup c
<1>1. \A v \in Workers : chunk'[v] = IF v = w THEN c ELSE chunk[v]
  OBVIOUS
<1>2. \A i : i \in Open' <=> \E v \in Workers : i \in chunk'[v]
  BY DEF Open
<1>3. \A i : i \in Open <=> \E v \in Workers : i \in chunk[v]
  BY DEF Open
<1>4. \A i : i \in Open' <=> i \in Open \/ i \in c
  BY <1>1, <1>2, <1>3
<1>5. QED
  BY <1>4

LEMMA OpenLess ==
  ASSUME NEW w \in Workers, chunk \in [Workers -> SUBSET Nat],
         \A u, v \in Workers : u # v => chunk[u] \cap chunk[v] = {},
         chunk' = [chunk EXCEPT ![w] = {}]
  PROVE  Open' = Open \ chunk[w] /\ chunk[w] \subseteq Open
<1>1. \A v \in Workers : chunk'[v] = IF v = w THEN {} ELSE chunk[v]
  OBVIOUS
<1>2. \A i : i \in Open' <=> \E v \in Workers : i \in chunk'[v]
  BY DEF Open
<1>3. \A i : i \in Open <=> \E v \in Workers : i \in chunk[v]
  BY DEF Open
<1>4. \A i : i \in Open' <=> i \in Open /\ i \notin chunk[w]
  BY <1>1, <1>2, <1>3
<1>5. QED
  BY <1>3, <1>4

LEMMA NothingOpen == (\A w \in Workers : chunk[w] = {}) => Open = {}
BY DEF Open

LEMMA OneMore == \A g, n \in Nat : g * (1 + (n + 1)) = g * (1 + n) + g
OBVIOUS

\* A worker that is still in the loop can claim without a wrap.
LEMMA NoWrap ==
  ASSUME Shape, CounterIsBounded, NEW w \in Workers, ~Left(w)
  PROVE  (next + grain) % Wide = next + grain
<1>1. LeftOnes \subseteq Workers \ {w}
  BY DEF LeftOnes
<1>2. IsFiniteSet(Workers \ {w}) /\ Cardinality(Workers \ {w}) = Threads - 1
  BY People, FS_RemoveElement
<1>3. PICK n \in Nat : n = Cardinality(LeftOnes)
  BY LeftIsFinite
<1>4. 1 + n <= Threads
  BY <1>1, <1>2, <1>3, FS_Subset, People
<1>5. PICK g \in Nat : g = grain
  BY DEF CounterIsBounded
<1>6. (1 + n) * g <= Threads * g
  <2>1. \A x, y, k \in Nat : x <= y => x * k <= y * k
    OBVIOUS
  <2>2. QED
    BY <1>4, <2>1, People
<1>7. g * (1 + n) = (1 + n) * g /\ (Threads + 1) * g = Threads * g + g
  BY People
<1>8. next + g <= count + (1 + n) * g + g
  BY <1>3, <1>5, <1>7 DEF CounterIsBounded
<1>9. PICK a \in Nat, b \in Nat : a = (1 + n) * g /\ b = Threads * g
  BY People
<1>10. next + g < Wide
  <2>1. next + g <= count + (b + g)
    BY <1>5, <1>6, <1>8, <1>9 DEF CounterIsBounded
  <2>2. count + (b + g) < Wide
    BY <1>5, <1>7, <1>9 DEF CounterIsBounded
  <2>3. QED
    BY <1>5, <1>9, <2>1, <2>2, ExecutorAssumption DEF CounterIsBounded
<1>11. QED
  BY <1>5, <1>10, ExecutorAssumption DEF CounterIsBounded

\* A step that touches neither the range nor the chunks, and lets nobody leave.
LEMMA NobodyLeaves ==
  ASSUME Shape, LoopIsCovered,
         UNCHANGED <<chunk, times, done, count, grain, next, error, result>>, Running' <=> Running,
         \A w \in Workers : (pc'[w] = "work" <=> pc[w] = "work"),
         Running => \A w \in Workers : Left(w)' <=> Left(w)
  PROVE  LoopIsCovered'
<1>1. CASE ~Running
  BY <1>1 DEF LoopIsCovered
<1>2. CASE Running
  <2>1. LeftOnes' = LeftOnes
    BY <1>2 DEF LeftOnes
  <2>2. ChunksAreOwn' /\ CounterIsBounded' /\ NothingIsSkipped'
    BY <1>2, <2>1 DEF LoopIsCovered, ChunksAreOwn, CounterIsBounded, NothingIsSkipped
  <2>3. CallsAreCounted'
    BY <1>2 DEF LoopIsCovered, CallsAreCounted
  <2>4. QED
    BY <1>2, <2>2, <2>3 DEF LoopIsCovered
<1>3. QED
  BY <1>1, <1>2

LEMMA ClaimCovers ==
  ASSUME Shape, Calm, LoopIsCovered, NEW w \in Workers, Claim(w)
  PROVE  /\ LoopIsCovered' /\ Running /\ Running'
         /\ \/ UNCHANGED <<times, Open>>
            \/ \E new \in SUBSET {i \in 0..(count - 1) : times[i] = 0} :
                 /\ new # {}
                 /\ times' = [i \in 0..(count - 1) |-> IF i \in new THEN 1 ELSE times[i]]
                 /\ Open' = Open \cup new
<1>1. /\ pc[w] = "claim" /\ UNCHANGED <<seen, generation, stop, error, count, grain, done, result>>
      /\ next' = (next + grain) % Wide
      /\ chunk' = [chunk EXCEPT ![w] = Claimed]
      /\ Claimed = {i \in next..(next + grain - 1) : i < count}
      /\ times' = [i \in DOMAIN times |-> IF i \in Claimed THEN times[i] + 1 ELSE times[i]]
      /\ pc' = [pc EXCEPT ![w] = IF next >= count THEN Leave(w) ELSE "work"]
  BY DEF Claim, Advance, Claimed
<1>2. Running
  BY <1>1, People DEF Running, InCall, Calm, NobodyOutlivesTheCall, Busy, Shape, Idling, Ending
<1>3. /\ ChunksAreOwn /\ CallsAreCounted /\ CounterIsBounded /\ NothingIsSkipped
      /\ result = "none"
  BY <1>2 DEF LoopIsCovered
<1>4. ~Left(w) /\ w \notin LeftOnes
  BY <1>1 DEF Left, LeftOnes
<1>5. next' = next + grain
  BY <1>1, <1>3, <1>4, NoWrap
<1>6. /\ next \in Nat /\ grain \in Nat \ {0} /\ count \in Nat
      /\ \A v \in Workers : v # w => pc'[v] = pc[v] /\ chunk'[v] = chunk[v]
      /\ chunk[w] = {} /\ chunk'[w] = {i \in next..(next + grain - 1) : i < count}
      /\ pc'[w] = IF next >= count THEN Leave(w) ELSE "work"
      /\ chunk' \in [Workers -> SUBSET Nat]
  BY <1>1, <1>3 DEF CounterIsBounded, ChunksAreOwn, Shape
<1>7. Running'
  BY <1>2, <1>6, People DEF Running, InCall, Leave
<1>8. ChunksAreOwn'
  <2>1. \A v \in Workers : pc'[v] = "work" <=> chunk'[v] # {}
    <3>1. next < count => next \in chunk'[w]
      BY <1>6
    <3>2. pc'[w] = "work" <=> chunk'[w] # {}
      <4>1. Leave(w) # "work"
        BY DEF Leave
      <4>2. CASE next >= count
        <5>1. pc'[w] # "work"
          BY <1>6, <4>1, <4>2
        <5>2. \A i \in next..(next + grain - 1) : ~(i < count)
          BY <1>6, <4>2
        <5>3. QED
          BY <1>6, <5>1, <5>2
      <4>3. CASE next < count
        <5>1. ~(next >= count)
          BY <1>6, <4>3
        <5>2. pc'[w] = "work"
          BY <1>6, <5>1
        <5>3. chunk'[w] # {}
          BY <3>1, <4>3
        <5>4. QED
          BY <5>2, <5>3
      <4>4. QED
        BY <1>6, <4>2, <4>3
    <3>3. QED
      BY <1>3, <1>6, <3>2 DEF ChunksAreOwn
  <2>2. \A v \in Workers : \A i \in chunk'[v] : i < count' /\ i < next' /\ i \notin done'
    BY <1>1, <1>3, <1>5, <1>6 DEF ChunksAreOwn
  <2>3. \A u, v \in Workers : u # v => chunk'[u] \cap chunk'[v] = {}
    <3>1. \A v \in Workers : \A i \in chunk[v] : ~(i >= next)
      BY <1>3, <1>6 DEF ChunksAreOwn
    <3>2. \A v \in Workers : v # w => chunk'[w] \cap chunk'[v] = {}
      BY <1>6, <3>1
    <3>3. QED
      BY <1>3, <1>6, <3>2 DEF ChunksAreOwn
  <2>4. QED
    BY <1>1, <1>3, <1>5, <1>6, <2>1, <2>2, <2>3 DEF ChunksAreOwn
<1>9. /\ \A i \in 0..(count - 1) : i \in Claimed <=> i >= next /\ i < next + grain
      /\ Claimed \subseteq 0..(count - 1)
      /\ next \in Nat /\ grain \in Nat \ {0} /\ count \in Nat
  BY <1>1, <1>6
<1>10. /\ \A i \in 0..(count - 1) : times[i] = IF i < next THEN 1 ELSE 0
       /\ \A i \in Claimed : times[i] = 0
  <2>1. \A i \in 0..(count - 1) : times[i] = IF i < next THEN 1 ELSE 0
    BY <1>3 DEF CallsAreCounted
  <2>2. \A i \in Claimed : times[i] = 0
    BY <1>9, <2>1
  <2>3. QED
    BY <2>1, <2>2
<1>11. times' = [i \in 0..(count - 1) |-> IF i \in Claimed THEN 1 ELSE times[i]]
  <2>1. DOMAIN times = 0..(count - 1)
    BY <1>3 DEF CallsAreCounted
  <2>2. \A i \in 0..(count - 1) : i \in Claimed => times[i] + 1 = 1
    BY <1>10
  <2>3. QED
    BY <1>1, <2>1, <2>2
<1>12. CallsAreCounted'
  <2>1. \A i \in 0..(count - 1) : (IF i \in Claimed THEN 1 ELSE times[i]) = IF i < next + grain THEN 1 ELSE 0
    BY <1>9, <1>10
  <2>2. times' = [i \in 0..(count - 1) |-> IF i < next + grain THEN 1 ELSE 0]
    BY <1>11, <2>1
  <2>3. QED
    BY <1>1, <1>5, <2>2 DEF CallsAreCounted
<1>13. Open' = Open \cup Claimed
  BY <1>1, <1>3, <1>6, OpenMore DEF ChunksAreOwn
<1>14. \/ UNCHANGED <<times, Open>>
       \/ \E new \in SUBSET {i \in 0..(count - 1) : times[i] = 0} :
            /\ new # {}
            /\ times' = [i \in 0..(count - 1) |-> IF i \in new THEN 1 ELSE times[i]]
            /\ Open' = Open \cup new
  <2>1. CASE Claimed = {}
    <3>1. times' = [i \in 0..(count - 1) |-> times[i]]
      BY <1>11, <2>1
    <3>2. times' = times
      BY <1>3, <3>1 DEF CallsAreCounted
    <3>3. QED
      BY <1>13, <2>1, <3>2
  <2>2. CASE Claimed # {}
    <3>1. Claimed \in SUBSET {i \in 0..(count - 1) : times[i] = 0}
      BY <1>9, <1>10
    <3>2. QED
      BY <1>11, <1>13, <2>2, <3>1
  <2>3. QED
    BY <2>1, <2>2
<1>15. CASE next < count
  <2>1. LeftOnes' = LeftOnes
    BY <1>1, <1>4, <1>6, <1>15 DEF LeftOnes, Left
  <2>2. CounterIsBounded'
    <3>1. PICK n \in Nat : n = Cardinality(LeftOnes)
      BY LeftIsFinite
    <3>2. grain * (1 + n) >= grain /\ grain * (1 + n) \in Nat
      BY <1>6, <3>1
    <3>3. next + grain <= count + grain * (1 + n)
      BY <1>6, <1>15, <3>2
    <3>4. QED
      BY <1>1, <1>3, <1>5, <2>1, <3>1, <3>3 DEF CounterIsBounded
  <2>3. NothingIsSkipped'
    <3>1. SUFFICES ASSUME error = NoError PROVE NothingIsSkipped'
      BY <1>1 DEF NothingIsSkipped
    <3>2. LeftOnes = {}
      BY <1>3, <1>6, <1>15, <3>1 DEF NothingIsSkipped
    <3>3. ASSUME NEW i \in Nat, i < count, i < next + grain
          PROVE  i \in done \/ \E v \in Workers : i \in chunk'[v]
      <4>1. CASE i < next
        BY <1>3, <1>6, <3>1, <3>3, <4>1 DEF NothingIsSkipped
      <4>2. CASE i >= next
        BY <1>6, <3>3, <4>2
      <4>3. QED
        BY <4>1, <4>2, <1>6
    <3>4. QED
      BY <1>1, <1>5, <2>1, <3>2, <3>3 DEF NothingIsSkipped
  <2>4. QED
    BY <1>1, <1>2, <1>3, <1>6, <1>7, <1>8, <1>12, <1>14, <2>2, <2>3 DEF LoopIsCovered
<1>16. CASE next >= count
  <2>1. LeftOnes' = LeftOnes \cup {w}
    <3>1. Left(w)'
      BY <1>1, <1>6, <1>16, People DEF Left, Leave, Calm, Busy
    <3>2. \A v \in Workers : v # w => (Left(v)' <=> Left(v))
      BY <1>1, <1>6 DEF Left
    <3>3. QED
      BY <3>1, <3>2 DEF LeftOnes
  <2>2. Cardinality(LeftOnes') = Cardinality(LeftOnes) + 1
    BY <1>4, <2>1, LeftIsFinite, FS_AddElement
  <2>3. CounterIsBounded'
    <3>1. PICK n \in Nat : n = Cardinality(LeftOnes)
      BY LeftIsFinite
    <3>2. PICK k \in Nat : k = grain * (1 + n)
      BY <1>6, <3>1
    <3>3. grain * (1 + (n + 1)) = k + grain
      BY <1>6, <3>1, <3>2, OneMore
    <3>4. next + grain <= count + (k + grain)
      BY <1>3, <1>6, <3>1, <3>2 DEF CounterIsBounded
    <3>5. QED
      BY <1>1, <1>3, <1>5, <1>6, <2>2, <3>1, <3>3, <3>4 DEF CounterIsBounded
  <2>4. NothingIsSkipped'
    BY <1>1, <1>3, <1>5, <1>6, <1>16 DEF NothingIsSkipped
  <2>5. QED
    BY <1>1, <1>2, <1>3, <1>6, <1>7, <1>8, <1>12, <1>14, <2>3, <2>4 DEF LoopIsCovered
<1>17. QED
  BY <1>2, <1>6, <1>7, <1>15, <1>16, <1>14

\* A body that returns, or throws after some of its indices.
LEMMA WorkCovers ==
  ASSUME Shape, Calm, LoopIsCovered, NEW w \in Workers, Work(w) \/ WorkThrows(w)
  PROVE  /\ LoopIsCovered' /\ Running /\ Running'
         /\ chunk[w] \subseteq Open /\ chunk[w] # {} /\ Open' = Open \ chunk[w]
         /\ WorkThrows(w) => error' # NoError
<1>1. /\ pc[w] = "work" /\ UNCHANGED <<seen, generation, stop, count, grain, next, times, result>>
      /\ chunk' = [chunk EXCEPT ![w] = {}]
      /\ \E to \in {Leave(w), "claim"} : pc' = [pc EXCEPT ![w] = to]
      /\ done \subseteq done' /\ done' \subseteq done \cup chunk[w]
  BY DEF Work, WorkThrows
<1>2. Running
  BY <1>1, People DEF Running, InCall, Calm, NobodyOutlivesTheCall, Busy, Shape, Idling, Ending
<1>3. /\ ChunksAreOwn /\ CallsAreCounted /\ CounterIsBounded /\ NothingIsSkipped
      /\ result = "none"
  BY <1>2 DEF LoopIsCovered
<1>4. /\ next \in Nat /\ grain \in Nat \ {0} /\ count \in Nat
      /\ \A v \in Workers : v # w => pc'[v] = pc[v] /\ chunk'[v] = chunk[v]
      /\ chunk[w] # {} /\ chunk'[w] = {} /\ pc'[w] \in {Leave(w), "claim"}
      /\ chunk' \in [Workers -> SUBSET Nat]
  BY <1>1, <1>3 DEF CounterIsBounded, ChunksAreOwn, Shape
<1>5. Running'
  BY <1>2, <1>4, People DEF Running, InCall, Leave
<1>6. /\ chunk[w] \subseteq Open /\ chunk[w] # {} /\ Open' = Open \ chunk[w]
      /\ CallsAreCounted'
  <2>1. CallsAreCounted'
    BY <1>1, <1>3 DEF CallsAreCounted
  <2>2. QED
    BY <1>1, <1>3, <1>4, <2>1, OpenLess DEF ChunksAreOwn
<1>7. ChunksAreOwn'
  <2>1. \A v \in Workers : pc'[v] = "work" <=> chunk'[v] # {}
    BY <1>3, <1>4 DEF ChunksAreOwn, Leave
  <2>2. \A v \in Workers : \A i \in chunk'[v] : i < count' /\ i < next' /\ i \notin done'
    BY <1>1, <1>3, <1>4 DEF ChunksAreOwn
  <2>3. \A u, v \in Workers : u # v => chunk'[u] \cap chunk'[v] = {}
    BY <1>3, <1>4 DEF ChunksAreOwn
  <2>4. done' \subseteq Nat /\ \A i \in done' : i < count' /\ i < next'
    BY <1>1, <1>3 DEF ChunksAreOwn
  <2>5. QED
    BY <1>4, <2>1, <2>2, <2>3, <2>4 DEF ChunksAreOwn
<1>8. \A v \in Workers : Left(v) => Left(v)'
  BY <1>1, <1>4 DEF Left
<1>9. CounterIsBounded'
  <2>1. LeftOnes \subseteq LeftOnes'
    BY <1>8 DEF LeftOnes
  <2>2. IsFiniteSet(LeftOnes') /\ Cardinality(LeftOnes') \in Nat
    BY People, FS_Subset, FS_CardinalityType DEF LeftOnes
  <2>3. PICK n \in Nat, k \in Nat : n = Cardinality(LeftOnes) /\ k = Cardinality(LeftOnes')
    BY <2>2, LeftIsFinite
  <2>4. n <= k
    BY <2>1, <2>2, <2>3, FS_Subset
  <2>5. grain * (1 + n) <= grain * (1 + k)
    <3>1. \A g, x, y \in Nat : x <= y => g * (1 + x) <= g * (1 + y)
      OBVIOUS
    <3>2. QED
      BY <1>4, <2>4, <3>1
  <2>6. PICK a \in Nat, b \in Nat : a = grain * (1 + n) /\ b = grain * (1 + k)
    BY <1>4
  <2>7. next <= count + b
    BY <1>3, <1>4, <2>3, <2>5, <2>6 DEF CounterIsBounded
  <2>8. QED
    BY <1>1, <1>3, <2>3, <2>6, <2>7 DEF CounterIsBounded
<1>10. CASE Work(w)
  <2>1. done' = done \cup chunk[w] /\ error' = error /\ pc'[w] = "claim"
    BY <1>1, <1>10, <1>4 DEF Work, Shape
  <2>3. LeftOnes' = LeftOnes
    BY <1>1, <1>4, <2>1 DEF LeftOnes, Left
  <2>4. NothingIsSkipped'
    <3>1. SUFFICES ASSUME error = NoError PROVE NothingIsSkipped'
      BY <2>1 DEF NothingIsSkipped
    <3>2. \A i \in Nat : i < count /\ i < next => i \in done' \/ \E v \in Workers : i \in chunk'[v]
      BY <1>3, <1>4, <2>1, <3>1 DEF NothingIsSkipped
    <3>3. QED
      BY <1>1, <1>3, <2>3, <3>1, <3>2 DEF NothingIsSkipped
  <2>5. ~WorkThrows(w)
    BY <1>1, <1>4, <2>1 DEF WorkThrows, Leave, Shape
  <2>6. QED
    BY <1>1, <1>2, <1>3, <1>4, <1>5, <1>6, <1>7, <1>9, <2>4, <2>5 DEF LoopIsCovered
<1>11. CASE WorkThrows(w)
  <2>1. error' # NoError
    BY <1>11, People DEF WorkThrows
  <2>2. NothingIsSkipped'
    BY <2>1 DEF NothingIsSkipped, NoError
  <2>3. ~Work(w)
    BY <1>1, <1>11, <1>4 DEF Work, WorkThrows, Leave, Shape
  <2>4. QED
    BY <1>1, <1>2, <1>3, <1>4, <1>5, <1>6, <1>7, <1>9, <2>1, <2>2, <2>3 DEF LoopIsCovered
<1>12. QED
  BY <1>10, <1>11

LEMMA RunCovers ==
  ASSUME Shape, Calm, LoopIsCovered, Run
  PROVE  LoopIsCovered' /\ ~Running /\ Running' /\ count' \in Nat \ {0}
<1>1. PICK c \in Calls : c.count > 0 /\ c.grain > 0 /\ count' = c.count /\ grain' = c.grain
  BY DEF Run
<1>2. /\ count' \in Nat \ {0} /\ grain' \in Nat \ {0}
      /\ count' + (Threads + 1) * grain' < Wide
  BY <1>1, ExecutorAssumption
<1>3. /\ pc[Caller] = "idle" /\ pc' = [pc EXCEPT ![Caller] = "notify"] /\ next' = 0
      /\ generation' = generation + 1 /\ seen' = seen /\ chunk' = chunk
      /\ done' = {} /\ result' = "none" /\ times' = [i \in 0..(count' - 1) |-> 0]
  BY DEF Run, Reset
<1>4. ~Running /\ \A w \in Workers : chunk[w] = {}
  BY <1>3 DEF Running, InCall, LoopIsCovered
<1>5. \A h \in Helpers : seen[h] = generation /\ ~Busy(h)
  BY <1>3 DEF Calm, NobodyOutlivesTheCall, Idling, Ending
<1>6. pc'[Caller] = "notify" /\ \A h \in Helpers : pc'[h] = pc[h]
  BY <1>3, People DEF Shape
<1>7. LeftOnes' = {}
  BY <1>3, <1>5, <1>6, People DEF LeftOnes, Left, Shape
<1>8. ChunksAreOwn'
  BY <1>3, <1>4, <1>5, <1>6, People DEF ChunksAreOwn, LoopIsCovered, Busy
<1>9. CounterIsBounded'
  <2>1. Cardinality(LeftOnes') = 0
    BY <1>7, FS_EmptySet
  <2>2. \A x, y \in Nat : x * (1 + y) \in Nat
    OBVIOUS
  <2>3. grain' * (1 + Cardinality(LeftOnes')) \in Nat
    <3>1. grain' \in Nat /\ Cardinality(LeftOnes') \in Nat
      BY <1>2, <2>1
    <3>2. QED
      BY <2>2, <3>1
  <2>4. QED
    BY <1>2, <1>3, <2>3 DEF CounterIsBounded
<1>10. NothingIsSkipped'
  BY <1>3, <1>7 DEF NothingIsSkipped
<1>11. CallsAreCounted'
  <2>1. \A i \in 0..(count' - 1) : ~(i < 0)
    BY <1>2
  <2>2. QED
    BY <1>3, <2>1 DEF CallsAreCounted
<1>12. QED
  BY <1>2, <1>3, <1>4, <1>6, <1>8, <1>9, <1>10, <1>11 DEF LoopIsCovered, Running, InCall

\* What the caller gets: an error if there was one, success only if all is done.
LEMMA AwaitCovers ==
  ASSUME Shape, Calm, LoopIsCovered, Await
  PROVE  /\ LoopIsCovered' /\ Running /\ result = "none"
         /\ AllReported => /\ ~Running' /\ result' = (IF error = NoError THEN "ok" ELSE "threw")
                           /\ error = NoError => done = 0..(count - 1)
                           /\ Open = {} /\ Open' = Open
         /\ ~AllReported => Running' /\ result' = result
<1>1. /\ pc[Caller] = "await" /\ ~stop
      /\ UNCHANGED <<seen, generation, remaining, stop, next, error, chunk, count, grain, times, done>>
  BY DEF Await, Calm, Ending
<1>2. Running /\ ChunksAreOwn /\ CounterIsBounded /\ NothingIsSkipped /\ result = "none"
  BY <1>1 DEF Running, InCall, LoopIsCovered
<1>3. CASE ~AllReported
  <2>1. pc' = [pc EXCEPT ![Caller] = "asleep"] /\ result' = result
    BY <1>3 DEF Await
  <2>2. /\ pc'[Caller] = "asleep" /\ \A h \in Helpers : pc'[h] = pc[h]
        /\ Running'
    BY <2>1, People DEF Shape, Running, InCall
  <2>3. \A w \in Workers : (Left(w)' <=> Left(w)) /\ (pc'[w] = "work" <=> pc[w] = "work")
    BY <1>1, <2>2, People DEF Left
  <2>4. LoopIsCovered'
    BY <1>1, <1>2, <2>1, <2>2, <2>3, NobodyLeaves
  <2>5. QED
    BY <1>2, <1>3, <2>1, <2>2, <2>4
<1>4. CASE AllReported
  <2>1. /\ pc' = [pc EXCEPT ![Caller] = "idle"] /\ remaining = 0
        /\ result' = IF error = NoError THEN "ok" ELSE "threw"
    BY <1>4 DEF Await, AllReported
  <2>2. Owing = {}
    BY <1>1, <2>1, RemainingCounts, OwingIsFinite, FS_EmptySet
  <2>3. \A w \in Workers : pc[w] # "work"
    BY <1>1, <2>2, People DEF Owing, Busy
  <2>4. \A w \in Workers : chunk[w] = {}
    BY <1>2, <2>3 DEF ChunksAreOwn
  <2>5. ~Running'
    BY <2>1, People DEF Shape, Running, InCall
  <2>6. LoopIsCovered'
    BY <1>1, <2>4, <2>5 DEF LoopIsCovered
  <2>7. error = NoError => done = 0..(count - 1)
    <3>1. SUFFICES ASSUME error = NoError PROVE done = 0..(count - 1)
      OBVIOUS
    <3>2. Caller \in LeftOnes
      BY <1>1, People DEF LeftOnes, Left
    <3>3. next >= count /\ \A i \in Nat : i < count /\ i < next => i \in done
      BY <1>2, <2>4, <3>1, <3>2 DEF NothingIsSkipped
    <3>4. \A i \in done : i \in Nat /\ i < count
      BY <1>2 DEF ChunksAreOwn
    <3>5. count \in Nat /\ next \in Nat
      BY <1>2 DEF CounterIsBounded
    <3>6. \A i \in 0..(count - 1) : i \in done
      BY <3>3, <3>5
    <3>7. \A i \in done : i \in 0..(count - 1)
      BY <3>4, <3>5
    <3>8. QED
      BY <3>6, <3>7
  <2>8. Open = {} /\ Open' = Open
    BY <1>1, <2>4, NothingOpen DEF Open
  <2>9. QED
    BY <1>2, <1>4, <2>1, <2>5, <2>6, <2>7, <2>8
<1>5. QED
  BY <1>3, <1>4

LEMMA LoopStarts == Init => LoopIsCovered
BY People DEF Init, LoopIsCovered, Running, InCall

\* Every step of the threads is a step of the loop, or none.
LEMMA LoopStep ==
  ASSUME Shape, Calm, LoopIsCovered, [Next]_vars
  PROVE  LoopIsCovered' /\ [For!Next]_(For!vars)
<1> DEFINE outcome == IF Running /\ error # NoError THEN "threw" ELSE result
           step    == [For!Next]_(For!vars)
<1> USE DEF InRun
<1>1. ASSUME UNCHANGED <<count, times, Open, done, result, error>>, Running' <=> Running
      PROVE  step
  BY <1>1 DEF For!vars, Running, InCall, NoError, Open
<1>2. chunk' = chunk => Open' = Open
  BY DEF Open
<1>3. CASE Construct \/ Constructed \/ Shutdown \/ NotifyStop \/ Joined
  <2>1. ~Running /\ ~Running' /\ UNCHANGED <<chunk, callVars, error>>
    BY <1>3, People
    DEF Construct, Constructed, Shutdown, NotifyStop, Joined, Running, InCall, Shape, Woken
  <2>2. LoopIsCovered'
    BY <2>1 DEF LoopIsCovered
  <2>3. QED
    BY <1>1, <1>2, <2>1, <2>2 DEF callVars
<1>4. CASE Run
  <2>1. For!Call
    BY <1>4, <1>2, RunCovers DEF For!Call, For!Indices, Run, Reset, Running, InCall, Open
  <2>2. QED
    BY <1>4, <2>1, RunCovers DEF For!Next
<1>5. CASE RunTrivially
  <2>1. ~Running /\ ~Running' /\ chunk' = chunk
    BY <1>5 DEF RunTrivially, Running, InCall
  <2>2. For!Trivial
    BY <1>5, <1>2, <2>1 DEF For!Trivial, RunTrivially, Running, InCall, Open
  <2>3. QED
    BY <2>1, <2>2 DEF For!Next, LoopIsCovered
<1>6. CASE NotifyStart
  <2>1. /\ pc[Caller] = "notify" /\ pc' = [Woken(pc, Helpers) EXCEPT ![Caller] = "claim"]
        /\ UNCHANGED <<chunk, callVars, seen, generation, next, error>>
    BY <1>6 DEF NotifyStart
  <2>2. /\ pc'[Caller] = "claim"
        /\ \A h \in Helpers : pc'[h] = IF pc[h] = "asleep" THEN "wait" ELSE pc[h]
    BY <2>1, People DEF Woken, Shape
  <2>3. /\ \A w \in Workers : (pc'[w] = "work" <=> pc[w] = "work") /\ (Left(w)' <=> Left(w))
        /\ Running /\ Running'
    BY <2>1, <2>2, People DEF Left, Running, InCall
  <2>4. QED
    BY <1>1, <1>2, <2>1, <2>3, NobodyLeaves DEF callVars
<1>7. ASSUME NEW h \in Helpers, Wait(h)
      PROVE  LoopIsCovered' /\ step
  <2>1. /\ pc[h] = "wait" /\ UNCHANGED <<generation, next, error, chunk, callVars>>
        /\ pc' = [pc EXCEPT ![h] = IF stop THEN "ended"
                                   ELSE IF generation # seen[h] THEN "claim" ELSE "asleep"]
        /\ seen' = IF stop THEN seen ELSE [seen EXCEPT ![h] = generation]
    BY <1>7 DEF Wait, Noted
  <2>2. pc'[Caller] = pc[Caller] /\ \A w \in Workers : w # h => pc'[w] = pc[w]
    BY <2>1, People DEF Shape
  <2>3. \A w \in Workers : pc'[w] = "work" <=> pc[w] = "work"
    BY <2>1, <2>2 DEF Shape
  <2>4. ASSUME Running PROVE \A w \in Workers : Left(w)' <=> Left(w)
    <3>1. ~stop
      BY <2>4 DEF Running, Calm, InCall, Ending
    <3>2. Left(h)' <=> Left(h)
      BY <2>1, <3>1, People DEF Left, Shape
    <3>3. \A w \in Workers : w # h => (Left(w)' <=> Left(w))
      BY <2>1, <2>2, <3>1, People DEF Left, Shape
    <3>4. QED
      BY <3>2, <3>3
  <2>5. Running' <=> Running
    BY <2>2 DEF Running
  <2>6. QED
    BY <1>1, <1>2, <2>1, <2>3, <2>4, <2>5, NobodyLeaves DEF callVars
<1>8. ASSUME NEW w \in Workers, Claim(w)
      PROVE  LoopIsCovered' /\ step
  <2>1. /\ Running /\ Running' /\ LoopIsCovered' /\ UNCHANGED <<count, done, result, error>>
    BY <1>8, ClaimCovers DEF Claim
  <2>2. CASE UNCHANGED <<times, Open>>
    BY <1>1, <2>1, <2>2
  <2>3. CASE \E new \in SUBSET {i \in 0..(count - 1) : times[i] = 0} :
               /\ new # {}
               /\ times' = [i \in 0..(count - 1) |-> IF i \in new THEN 1 ELSE times[i]]
               /\ Open' = Open \cup new
    <3>1. For!Begin
      BY <2>1, <2>3 DEF For!Begin, For!Indices, Running, InCall, Open
    <3>2. QED
      BY <2>1, <3>1 DEF For!Next
  <2>4. QED
    BY <1>8, <2>2, <2>3, ClaimCovers
<1>9. ASSUME NEW w \in Workers, Work(w)
      PROVE  LoopIsCovered' /\ step
  <2>1. /\ Running /\ Running' /\ UNCHANGED <<count, times, result, error>>
        /\ chunk[w] \subseteq Open /\ chunk[w] # {} /\ Open' = Open \ chunk[w]
        /\ done' = done \cup chunk[w]
    BY <1>9, WorkCovers DEF Work
  <2>2. For!Do
    BY <2>1 DEF For!Do, Running, InCall, NoError, Open
  <2>3. QED
    BY <1>9, <2>2, WorkCovers DEF For!Next
<1>10. ASSUME NEW w \in Workers, WorkThrows(w)
      PROVE  LoopIsCovered' /\ step
  <2>1. /\ Running /\ Running' /\ UNCHANGED <<count, times>> /\ error' # NoError
        /\ chunk[w] \subseteq Open /\ Open' = Open \ chunk[w]
    BY <1>10, WorkCovers DEF WorkThrows
  <2>2. PICK k \in chunk[w] : done' = done \cup {i \in chunk[w] : i < k}
    BY <1>10 DEF WorkThrows
  <2>3. PICK some : some = {i \in chunk[w] : i < k}
    OBVIOUS
  <2>4. some \in SUBSET chunk[w] /\ some # chunk[w] /\ done' = done \cup some
    <3>1. k \in Nat
      BY <2>1, <2>2 DEF LoopIsCovered
    <3>2. k \notin some
      BY <2>3, <3>1
    <3>3. QED
      BY <2>2, <2>3, <3>2
  <2>5. For!Throw
    BY <2>1, <2>4 DEF For!Throw, Running, InCall, NoError, Open
  <2>6. QED
    BY <1>10, <2>5, WorkCovers DEF For!Next
<1>11. ASSUME NEW h \in Helpers, Report(h)
       PROVE  LoopIsCovered' /\ step
  <2>1. /\ pc[h] = "report" /\ UNCHANGED <<seen, generation, next, error, chunk, callVars>>
        /\ pc' = Last([pc EXCEPT ![h] = "wait"], remaining')
    BY <1>11 DEF Report
  <2>2. /\ pc'[h] = "wait" /\ \A g \in Helpers : g # h => pc'[g] = pc[g]
        /\ pc'[Caller] = pc[Caller] \/ (pc[Caller] = "asleep" /\ pc'[Caller] = "await")
    BY <2>1, People DEF Last, Shape
  <2>3. /\ \A w \in Workers : (pc'[w] = "work" <=> pc[w] = "work") /\ (Left(w)' <=> Left(w))
        /\ Running' <=> Running
    BY <2>1, <2>2, People DEF Left, Running, InCall
  <2>4. QED
    BY <1>1, <1>2, <2>1, <2>3, NobodyLeaves DEF callVars
<1>12. ASSUME NEW w \in Workers, WakeSpuriously(w)
       PROVE  LoopIsCovered' /\ step
  <2>1. /\ pc[w] = "asleep" /\ UNCHANGED <<seen, generation, next, error, chunk, callVars>>
        /\ pc'[w] = IF w = Caller THEN "await" ELSE "wait"
        /\ \A v \in Workers : v # w => pc'[v] = pc[v]
    BY <1>12 DEF WakeSpuriously, Shape
  <2>2. /\ \A v \in Workers : (pc'[v] = "work" <=> pc[v] = "work") /\ (Left(v)' <=> Left(v))
        /\ Running' <=> Running
    BY <2>1, People DEF Left, Running, InCall
  <2>3. QED
    BY <1>1, <1>2, <2>1, <2>2, NobodyLeaves DEF callVars
<1>13. CASE Await
  <2>1. CASE AllReported
    <3>1. For!Return
      BY <1>13, <2>1, AwaitCovers DEF For!Return, For!Indices, Await, Running, InCall, Open
    <3>2. QED
      BY <1>13, <3>1, AwaitCovers DEF For!Next
  <2>2. CASE ~AllReported
    BY <1>1, <1>13, <1>2, <2>2, AwaitCovers DEF Await
  <2>3. QED
    BY <2>1, <2>2
<1>14. CASE Gone \/ UNCHANGED vars
  <2>1. UNCHANGED vars
    BY <1>14 DEF Gone
  <2>2. \A w \in Workers : Left(w)' <=> Left(w)
    BY <2>1 DEF vars, Left
  <2>3. QED
    BY <1>1, <1>2, <2>1, <2>2, NobodyLeaves DEF vars, callVars, Running
<1>15. QED
  BY <1>3, <1>4, <1>5, <1>6, <1>7, <1>8, <1>9, <1>10, <1>11, <1>12, <1>13, <1>14, People
  DEF Next, CallerStep, HelperStep, Consume

\* Whatever the number of threads, the range and the grain, and whichever
\* bodies throw: run() is a parallel loop.
THEOREM IsLoop == Spec => IsParallelFor
<1>1. Init => For!Init
  BY People DEF Init, For!Init, For!Indices, InRun
<1>2. QED
  BY <1>1, CalmStarts, ShapeStep, CalmStep, LoopStarts, LoopStep, PTL DEF Spec, IsParallelFor, For!Spec

-----------------------------------------------------------------------------
(***************************************************************************)
(* The HTTP server.                                                        *)
(***************************************************************************)
Held == {"leased", "between", "provide", "closing", "collect"}
Places == Held \cup {"new", "reply", "over"}
Holders == {r \in Requests : at[r] \in Held}

HttpShape ==
  /\ at \in [Requests -> Places]
  /\ given \in [Requests -> 0..MaxTokens]
  /\ events \in [Requests -> Seq(Events)] /\ text \in [Requests -> Seq(Events)]
  /\ sent \in [Requests -> Seq(Events \cup {Done})]
  /\ accepted \subseteq Requests /\ ended \subseteq Requests
  /\ cancelled \subseteq Requests /\ gone \subseteq Requests
  /\ monitor \in {"watch", "engine", "ending", "drain", "stop", "over"}
  /\ main \in {"listening", "closed", "returned"}
  /\ interrupted \in BOOLEAN /\ stopping \in BOOLEAN /\ gaveUp \in BOOLEAN /\ engineStopping \in BOOLEAN

\* A lease for each handler that holds one.
LeasesAreCounted == IsFiniteSet(Holders) /\ active = Cardinality(Holders)

\* The monitor's progress, and what it waited for.
Drained ==
  /\ monitor # "watch" => stopping
  /\ monitor \in {"stop", "over"} /\ ~gaveUp => active = 0
  /\ main # "listening" => monitor = "over"

LEMMA HoldersAre == HttpShape => Holders = {r \in Requests : Holding(r)}
BY DEF Holders, Holding, Held

-----------------------------------------------------------------------------
(***************************************************************************)
(* The story of a request: where its handler is, and what has been said.   *)
(***************************************************************************)
\* The tokens after the a-th, up to the b-th.
Piece(a, b) == [i \in 1..(b - a) |-> Token(a + i)]

\* What has come to the client of a stream, or to the handler without one.
Heard(r) == IF r \in Streams THEN sent[r] ELSE text[r]

Speaking(r) ==
  \E k \in 0..given[r] : Heard(r) = Piece(0, k) /\ events[r] = Piece(k, given[r])

Finishing(r) ==
  \E k \in 0..given[r] : Heard(r) = Piece(0, k) /\ events[r] = Append(Piece(k, given[r]), End)

Told(r) == sent[r] = Piece(0, given[r]) \o <<End, Done>>

Taken(r) ==
  /\ at[r] \in {"closing", "reply", "over"} /\ events[r] = <<>>
  /\ IF r \in Streams THEN Told(r) ELSE text[r] = Piece(0, given[r])

Stands(r) ==
  /\ r \in ended => r \in accepted
  /\ at[r] \in {"new", "leased"} => r \notin accepted
  /\ at[r] \in {"between", "provide", "closing"} => r \in accepted /\ r \in Streams
  /\ at[r] \in {"collect", "reply"} => r \in accepted /\ r \notin Streams
  /\ at[r] = "reply" => r \in ended /\ events[r] = <<>>
  /\ at[r] = "over" /\ r \in accepted => r \in ended \cup cancelled

Says(r) ==
  /\ r \notin accepted => given[r] = 0 /\ events[r] = <<>> /\ text[r] = <<>> /\ sent[r] = <<>>
  /\ r \in accepted /\ r \notin ended => Speaking(r)
  /\ r \in ended => Finishing(r) \/ Taken(r)
  /\ r \notin Streams /\ at[r] # "over" => sent[r] = <<>>

IsAnswered(r) ==
  /\ r \notin Streams /\ at[r] = "over" /\ r \in accepted /\ r \notin gone =>
       r \in ended /\ sent[r] = Append(Piece(0, given[r]), End)
  /\ r \in Streams /\ at[r] \in {"closing", "over"} /\ r \in accepted /\ r \notin gone /\ ~gaveUp =>
       r \in ended /\ Told(r)

Story(r) == Stands(r) /\ Says(r) /\ IsAnswered(r)

\* A step that does not concern a request leaves its story as it is.
Unconcerned(r) ==
  /\ at'[r] = at[r] /\ given'[r] = given[r]
  /\ events'[r] = events[r] /\ text'[r] = text[r] /\ sent'[r] = sent[r]
  /\ (r \in accepted' <=> r \in accepted) /\ (r \in ended' <=> r \in ended)
  /\ (r \in gone => r \in gone') /\ (r \in cancelled => r \in cancelled') /\ (gaveUp => gaveUp')

LEMMA Elsewhere ==
  ASSUME NEW r \in Requests, Story(r), Unconcerned(r)
  PROVE  Story(r)'
<1> USE DEF Unconcerned
<1>1. Speaking(r)' <=> Speaking(r)
  BY DEF Speaking, Heard
<1>2. Finishing(r)' <=> Finishing(r)
  BY DEF Finishing, Heard
<1>3. Told(r)' <=> Told(r)
  BY DEF Told
<1>4. Taken(r)' <=> Taken(r)
  BY <1>3 DEF Taken
<1>5. Stands(r)'
  BY DEF Story, Stands
<1>6. Says(r)'
  BY <1>1, <1>2, <1>4 DEF Story, Says
<1>7. IsAnswered(r)'
  BY <1>3 DEF Story, IsAnswered
<1>8. QED
  BY <1>5, <1>6, <1>7 DEF Story

-----------------------------------------------------------------------------
(***************************************************************************)
(* Sequences of tokens.                                                    *)
(***************************************************************************)
Words == {Token(n) : n \in Nat} \cup {End, Done}

LEMMA TokenIsNoEnd == ASSUME NEW n PROVE Token(n) # End
BY DEF Token, End

LEMMA PieceIs ==
  ASSUME NEW a \in Nat, NEW b \in Nat, a <= b
  PROVE  /\ Piece(a, b) \in Seq(Words) /\ Len(Piece(a, b)) = b - a
         /\ \A i \in 1..(b - a) : Piece(a, b)[i] = Token(a + i)
<1>1. \A i \in 1..(b - a) : a + i \in Nat /\ Token(a + i) \in Words
  BY DEF Words
<1>2. b - a \in Nat
  OBVIOUS
<1>3. QED
  BY <1>1, <1>2 DEF Piece

LEMMA NothingToSay == \A k \in Nat : Piece(k, k) = <<>>
<1>1. ASSUME NEW k \in Nat PROVE Piece(k, k) = <<>>
  <2>1. Piece(k, k) \in Seq(Words) /\ Len(Piece(k, k)) = 0
    BY PieceIs
  <2>2. QED
    BY <2>1, EmptySeq
<1>2. QED
  BY <1>1

LEMMA SayOne ==
  ASSUME NEW k \in Nat, NEW n \in Nat, k <= n
  PROVE  /\ Append(Piece(k, n), Token(n + 1)) = Piece(k, n + 1)
         /\ Piece(k, n) \o <<Token(n + 1)>> = Piece(k, n + 1)
<1>1. /\ Piece(k, n) \in Seq(Words) /\ Len(Piece(k, n)) = n - k
      /\ \A i \in 1..(n - k) : Piece(k, n)[i] = Token(k + i)
  BY PieceIs
<1>2. /\ Piece(k, n + 1) \in Seq(Words) /\ Len(Piece(k, n + 1)) = n - k + 1
      /\ \A i \in 1..(n + 1 - k) : Piece(k, n + 1)[i] = Token(k + i)
  <2>1. n + 1 \in Nat /\ k <= n + 1 /\ n + 1 - k = n - k + 1
    OBVIOUS
  <2>2. QED
    BY <2>1, PieceIs
<1>3. Token(n + 1) \in Words
  BY DEF Words
<1>4. PICK s \in Seq(Words) : s = Append(Piece(k, n), Token(n + 1))
  BY <1>1, <1>3, AppendProperties
<1>5. /\ Len(s) = n - k + 1
      /\ \A i \in 1..(n - k) : s[i] = Piece(k, n)[i]
      /\ s[n - k + 1] = Token(n + 1)
  BY <1>1, <1>3, <1>4, AppendProperties
<1>6. ASSUME NEW i \in 1..(n - k + 1) PROVE s[i] = Piece(k, n + 1)[i]
  <2>1. CASE i \in 1..(n - k)
    <3>1. s[i] = Token(k + i)
      BY <1>1, <1>5, <2>1
    <3>2. i \in 1..(n + 1 - k)
      BY <2>1
    <3>3. QED
      BY <1>2, <3>1, <3>2
  <2>2. CASE i = n - k + 1
    <3>1. k + i = n + 1 /\ i \in 1..(n + 1 - k)
      BY <2>2
    <3>2. QED
      BY <1>2, <1>5, <2>2, <3>1
  <2>3. QED
    BY <2>1, <2>2
<1>7. s = Piece(k, n + 1)
  BY <1>2, <1>5, <1>6, SeqEqual
<1>8. Piece(k, n) \o <<Token(n + 1)>> = Append(Piece(k, n), Token(n + 1))
  BY <1>1, <1>3, AppendIsConcat
<1>9. QED
  BY <1>4, <1>7, <1>8

LEMMA HearOne ==
  ASSUME NEW k \in Nat, NEW n \in Nat, k < n
  PROVE  Piece(k, n) # <<>> /\ Head(Piece(k, n)) = Token(k + 1) /\ Tail(Piece(k, n)) = Piece(k + 1, n)
<1>1. /\ Piece(k, n) \in Seq(Words) /\ Len(Piece(k, n)) = n - k
      /\ \A i \in 1..(n - k) : Piece(k, n)[i] = Token(k + i)
  BY PieceIs
<1>2. Piece(k, n) # <<>>
  BY <1>1, EmptySeq
<1>3. Head(Piece(k, n)) = Token(k + 1)
  BY <1>1, <1>2, HeadTailProperties
<1>4. PICK t \in Seq(Words) : t = Tail(Piece(k, n))
  BY <1>1, <1>2, HeadTailProperties
<1>5. Len(t) = n - k - 1 /\ \A i \in 1..(n - k - 1) : t[i] = Token(k + (i + 1))
  BY <1>1, <1>2, <1>4, HeadTailProperties
<1>6. /\ Piece(k + 1, n) \in Seq(Words) /\ Len(Piece(k + 1, n)) = n - k - 1
      /\ \A i \in 1..(n - k - 1) : Piece(k + 1, n)[i] = Token((k + 1) + i)
  <2>1. k + 1 \in Nat /\ k + 1 <= n /\ n - (k + 1) = n - k - 1
    OBVIOUS
  <2>2. QED
    BY <2>1, PieceIs
<1>7. \A i \in 1..(n - k - 1) : t[i] = Piece(k + 1, n)[i]
  <2>1. \A i \in 1..(n - k - 1) : k + (i + 1) = (k + 1) + i
    OBVIOUS
  <2>2. QED
    BY <1>5, <1>6, <2>1
<1>8. t = Piece(k + 1, n)
  BY <1>5, <1>6, <1>7, SeqEqual
<1>9. QED
  BY <1>2, <1>3, <1>4, <1>8

LEMMA HearOneBeforeTheEnd ==
  ASSUME NEW s \in Seq(Words), s # <<>>, NEW e \in Words
  PROVE  Append(s, e) # <<>> /\ Head(Append(s, e)) = Head(s) /\ Tail(Append(s, e)) = Append(Tail(s), e)
BY HeadTailAppend, AppendProperties

LEMMA TheEnd ==
  /\ Append(<<>>, End) # <<>> /\ Head(Append(<<>>, End)) = End /\ Tail(Append(<<>>, End)) = <<>>
OBVIOUS

LEMMA EndIsSomething ==
  ASSUME NEW k \in Nat, NEW n \in Nat, k <= n
  PROVE  Append(Piece(k, n), End) # <<>>
<1>1. Piece(k, n) \in Seq(Words) /\ End \in Words
  BY PieceIs DEF Words
<1>2. QED
  BY <1>1, AppendProperties

\* A response that was told to the end is complete.
LEMMA ToldIsComplete ==
  ASSUME NEW r \in Requests, given[r] \in Nat,
         \/ r \in Streams /\ Told(r)
         \/ r \notin Streams /\ sent[r] = Append(Piece(0, given[r]), End)
  PROVE  Complete(r)
<1>1. Piece(0, given[r]) = [i \in 1..given[r] |-> Token(i)]
  BY DEF Piece
<1>2. Append(Piece(0, given[r]), End) = Piece(0, given[r]) \o <<End>>
  <2>1. Piece(0, given[r]) \in Seq(Words) /\ End \in Words
    <3>1. 0 <= given[r]
      OBVIOUS
    <3>2. QED
      BY <3>1, PieceIs DEF Words
  <2>2. QED
    BY <2>1, AppendIsConcat
<1>3. QED
  BY <1>1, <1>2 DEF Complete, Told

-----------------------------------------------------------------------------
(***************************************************************************)
(* The steps.                                                              *)
(***************************************************************************)
Inv == HttpShape /\ LeasesAreCounted /\ Drained /\ \A r \in Requests : Story(r)

LEMMA Starts == HttpInit => Inv
<1> SUFFICES ASSUME HttpInit PROVE Inv
  OBVIOUS
<1>1. HttpShape
  <2>1. <<>> \in Seq(Events) /\ <<>> \in Seq(Events \cup {Done})
    OBVIOUS
  <2>2. /\ at \in [Requests -> Places] /\ given \in [Requests -> 0..MaxTokens]
        /\ events \in [Requests -> Seq(Events)] /\ text \in [Requests -> Seq(Events)]
        /\ sent \in [Requests -> Seq(Events \cup {Done})]
    BY <2>1, HttpAssumption DEF HttpInit, Places
  <2>3. QED
    BY <2>2 DEF HttpInit, HttpShape
<1>2. Holders = {}
  BY DEF HttpInit, Holders, Held
<1>3. LeasesAreCounted
  BY <1>2, FS_EmptySet DEF HttpInit, LeasesAreCounted
<1>4. Drained
  BY DEF HttpInit, Drained
<1>5. \A r \in Requests : Story(r)
  BY DEF HttpInit, Story, Stands, Says, IsAnswered
<1>6. QED
  BY <1>1, <1>3, <1>4, <1>5 DEF Inv

\* What an event of the Engine or of a response is made of.
LEMMA MarkedEvents ==
  ASSUME NEW e \in Events
  PROVE  Marked(e) \in Seq(Events \cup {Done})
<1>1. End \in Events
  BY DEF Events
<1>2. <<e>> \in Seq(Events \cup {Done}) /\ <<End, Done>> \in Seq(Events \cup {Done})
  BY <1>1
<1>3. QED
  BY Zenon, <1>2 DEF Marked

LEMMA HttpShapeStep == HttpShape /\ [HttpNext]_httpVars => HttpShape'
<1> SUFFICES ASSUME HttpShape, [HttpNext]_httpVars PROVE HttpShape'
  OBVIOUS
<1> USE DEF HttpShape
<1>1. CASE UNCHANGED httpVars
  BY <1>1 DEF httpVars, drainVars, engineVars, answerVars, answerVars
<1>2. ASSUME NEW r \in Requests, Lease(r) PROVE HttpShape'
  BY <1>2 DEF Lease, Goes, engineVars, answerVars, Places, Held
<1>3. ASSUME NEW r \in Requests, Submit(r) \/ SubmitThrows(r) PROVE HttpShape'
  BY <1>3 DEF Submit, SubmitThrows, Goes, engineVars, answerVars, drainVars, Places, Held
<1>4. ASSUME NEW r \in Requests, NextChunk(r) \/ GiveUp(r) PROVE HttpShape'
  BY <1>4 DEF NextChunk, GiveUp, Goes, engineVars, answerVars, drainVars, Places, Held
<1>5. ASSUME NEW r \in Requests, ProvideFails(r) \/ Release(r) \/ CollectFails(r) PROVE HttpShape'
  <2>1. /\ \E to \in {"closing", "over"} : at' = [at EXCEPT ![r] = to]
        /\ cancelled' \in {cancelled, cancelled \cup {r}}
        /\ UNCHANGED <<interrupted, stopping, monitor, main, gaveUp, gone, engineStopping, accepted,
                       ended, given, events, text, sent>>
    BY <1>5 DEF ProvideFails, Release, CollectFails, Leaves, Goes, drainVars, answerVars
  <2>2. at' \in [Requests -> Places]
    BY <2>1 DEF Places, Held
  <2>3. cancelled' \subseteq Requests
    BY <2>1
  <2>4. QED
    BY <2>1, <2>2, <2>3
<1>6. ASSUME NEW r \in Requests, Provide(r) PROVE HttpShape'
  <2>1. Head(events[r]) \in Events /\ Tail(events[r]) \in Seq(Events)
    BY <1>6, HeadTailProperties DEF Provide
  <2>2. sent[r] \o Marked(Head(events[r])) \in Seq(Events \cup {Done})
    BY <2>1, MarkedEvents, ConcatProperties
  <2>3. at' \in [Requests -> Places]
    BY <1>6 DEF Provide, Goes, Places, Held
  <2>4. QED
    BY <1>6, <2>1, <2>2, <2>3 DEF Provide, engineVars, answerVars, drainVars
<1>7. ASSUME NEW r \in Requests, Collect(r) PROVE HttpShape'
  <2>1. /\ Tail(events[r]) \in Seq(Events) /\ Head(events[r]) \in Events
        /\ Append(text[r], Head(events[r])) \in Seq(Events)
    BY <1>7, HeadTailProperties, AppendProperties DEF Collect
  <2>2. at' \in [Requests -> Places]
    BY <1>7 DEF Collect, Goes, Places, Held
  <2>3. text' \in [Requests -> Seq(Events)]
    BY <1>7, <2>1 DEF Collect, Collected
  <2>4. QED
    BY <1>7, <2>1, <2>2, <2>3 DEF Collect, engineVars
<1>8. ASSUME NEW r \in Requests, Reply(r) PROVE HttpShape'
  <2>1. Append(text[r], End) \in Seq(Events \cup {Done})
    <3>1. End \in Events
      BY DEF Events
    <3>2. Append(text[r], End) \in Seq(Events)
      BY <3>1, AppendProperties
    <3>3. QED
      BY <3>2
  <2>2. at' \in [Requests -> Places]
    BY <1>8 DEF Reply, Goes, Places, Held
  <2>3. QED
    BY <1>8, <2>1, <2>2 DEF Reply, engineVars, answerVars, drainVars
<1>9. CASE Monitor
  BY <1>9 DEF Monitor, Refuse, StopEngine, EngineStopped, Drain, DrainTimeout, StopServer,
     MonitorGoes, Closed, drainVars, engineVars, answerVars
<1>10. CASE Return \/ Interrupt \/ Served
  BY <1>10 DEF Return, Interrupt, Served, httpVars, drainVars, engineVars, answerVars
<1>11. ASSUME NEW r \in Requests, Disconnect(r) \/ Delete(r) PROVE HttpShape'
  BY <1>11 DEF Disconnect, Delete, drainVars, engineVars, answerVars
<1>12. ASSUME NEW r \in Requests, EngineToken(r) \/ EngineEnds(r) PROVE HttpShape'
  <2>1. \A e \in Events : Append(events[r], e) \in Seq(Events)
    BY AppendProperties
  <2>2. EngineToken(r) => given[r] + 1 \in 1..MaxTokens
    BY HttpAssumption DEF EngineToken
  <2>3. End \in Events /\ (EngineToken(r) => Token(given[r] + 1) \in Events)
    BY <2>2 DEF Events
  <2>4. events' \in [Requests -> Seq(Events)]
    BY <1>12, <2>1, <2>3 DEF EngineToken, EngineEnds
  <2>5. given' \in [Requests -> 0..MaxTokens]
    BY <1>12, <2>2 DEF EngineToken, EngineEnds
  <2>6. QED
    BY <1>12, <2>4, <2>5 DEF EngineToken, EngineEnds, drainVars, engineVars, answerVars
<1>13. QED
  BY <1>1, <1>2, <1>3, <1>4, <1>5, <1>6, <1>7, <1>8, <1>9, <1>10, <1>11, <1>12 DEF HttpNext, Handler

\* The ways in which a step moves a handler.
Stays == Holders' = Holders /\ active' = active
Enters == \E r \in Requests \ Holders : ~stopping /\ Holders' = Holders \cup {r} /\ active' = active + 1
Exits == \E r \in Holders : Holders' = Holders \ {r} /\ active' = active - 1

LEMMA Moves == HttpShape /\ [HttpNext]_httpVars => Stays \/ Enters \/ Exits
<1> SUFFICES ASSUME HttpShape, [HttpNext]_httpVars PROVE Stays \/ Enters \/ Exits
  OBVIOUS
<1>1. CASE at' = at /\ active' = active
  BY <1>1 DEF Stays, Holders
<1>2. ASSUME NEW r \in Requests, NEW to, at' = [at EXCEPT ![r] = to]
      PROVE  /\ at[r] \in Held /\ to \in Held => Holders' = Holders
             /\ at[r] \notin Held /\ to \notin Held => Holders' = Holders
             /\ at[r] \in Held /\ to \notin Held => Holders' = Holders \ {r} /\ r \in Holders
             /\ at[r] \notin Held /\ to \in Held => Holders' = Holders \cup {r} /\ r \notin Holders
  <2>1. \A x \in Requests : at'[x] = IF x = r THEN to ELSE at[x]
    BY <1>2 DEF HttpShape
  <2>2. QED
    BY <2>1 DEF Holders
<1>3. ASSUME NEW r \in Requests, Lease(r) PROVE Stays \/ Enters
  <2>1. CASE at' = [at EXCEPT ![r] = "leased"] /\ at[r] = "new" /\ ~stopping /\ active' = active + 1
    <3>1. Holders' = Holders \cup {r} /\ r \notin Holders
      BY <1>2, <2>1 DEF Held
    <3>2. QED
      BY <2>1, <3>1 DEF Enters
  <2>2. CASE at' = [at EXCEPT ![r] = "over"] /\ at[r] = "new" /\ active' = active
    <3>1. Holders' = Holders
      <4>1. "over" \notin Held /\ "new" \notin Held /\ "collect" \in Held
        BY DEF Held
      <4>2. QED
        BY Zenon, <1>2, <2>2, <4>1
    <3>2. QED
      BY <2>2, <3>1 DEF Stays
  <2>3. QED
    BY <1>3, <2>1, <2>2 DEF Lease, Granted, Goes
<1>4. ASSUME NEW r \in Requests, SubmitThrows(r) \/ Release(r) \/ CollectFails(r) PROVE Exits
  <2>1. at' = [at EXCEPT ![r] = "over"] /\ at[r] \in {"leased", "closing", "collect"} /\ active' = active - 1
    BY <1>4 DEF SubmitThrows, Release, CollectFails, Goes, Unlease
  <2>2. Holders' = Holders \ {r} /\ r \in Holders
    BY <1>2, <2>1 DEF Held
  <2>3. QED
    BY <2>1, <2>2 DEF Exits
<1>5. ASSUME NEW r \in Requests, Submit(r) \/ NextChunk(r) \/ GiveUp(r) \/ ProvideFails(r) \/ Provide(r)
      PROVE  Stays
  <2>1. PICK to \in {"between", "collect", "provide", "closing"} :
          at' = [at EXCEPT ![r] = to] /\ at[r] \in {"leased", "between", "provide"} /\ active' = active
    BY <1>5 DEF Submit, NextChunk, GiveUp, ProvideFails, Provide, Goes, drainVars
  <2>2. Holders' = Holders
    <3>1. /\ \A p \in {"between", "collect", "provide", "closing", "leased"} : p \in Held
          /\ "reply" \notin Held /\ "over" \notin Held
      BY DEF Held
    <3>2. QED
      BY <1>2, <2>1, <3>1
  <2>3. QED
    BY <2>1, <2>2 DEF Stays
<1>6. ASSUME NEW r \in Requests, Collect(r) PROVE Stays \/ Exits
  <2>1. CASE at' = [at EXCEPT ![r] = "reply"] /\ at[r] = "collect" /\ active' = active - 1
    <3>1. Holders' = Holders \ {r} /\ r \in Holders
      BY <1>2, <2>1 DEF Held
    <3>2. QED
      BY <2>1, <3>1 DEF Exits
  <2>2. CASE at' = [at EXCEPT ![r] = "collect"] /\ at[r] = "collect" /\ active' = active
    <3>1. Holders' = Holders
      <4>1. "over" \notin Held /\ "new" \notin Held /\ "collect" \in Held
        BY DEF Held
      <4>2. QED
        BY Zenon, <1>2, <2>2, <4>1
    <3>2. QED
      BY <2>2, <3>1 DEF Stays
  <2>3. QED
    BY <1>6, <2>1, <2>2 DEF Collect, Goes, Unlease
<1>7. ASSUME NEW r \in Requests, Reply(r) PROVE Stays
  <2>1. at' = [at EXCEPT ![r] = "over"] /\ at[r] = "reply" /\ active' = active
    BY <1>7 DEF Reply, Goes, drainVars
  <2>2. Holders' = Holders
    <3>1. /\ \A p \in {"between", "collect", "provide", "closing", "leased"} : p \in Held
          /\ "reply" \notin Held /\ "over" \notin Held
      BY DEF Held
    <3>2. QED
      BY <1>2, <2>1, <3>1
  <2>3. QED
    BY <2>1, <2>2 DEF Stays
<1>8. CASE Monitor
  BY <1>1, <1>8 DEF Monitor, Refuse, StopEngine, EngineStopped, Drain, DrainTimeout, StopServer, drainVars
<1>9. CASE Return \/ Interrupt \/ Served \/ UNCHANGED httpVars
  BY <1>1, <1>9 DEF Return, Interrupt, Served, httpVars, drainVars
<1>10. ASSUME NEW r \in Requests, Disconnect(r) \/ Delete(r) \/ EngineToken(r) \/ EngineEnds(r) PROVE Stays
  BY <1>10 DEF Disconnect, Delete, EngineToken, EngineEnds, drainVars, Stays, Holders
<1>11. QED
  BY <1>3, <1>4, <1>5, <1>6, <1>7, <1>8, <1>9, <1>10 DEF HttpNext, Handler

LEMMA LeasesStep == LeasesAreCounted /\ (Stays \/ Enters \/ Exits) => LeasesAreCounted'
<1> SUFFICES ASSUME LeasesAreCounted, Stays \/ Enters \/ Exits PROVE LeasesAreCounted'
  OBVIOUS
<1>1. CASE Stays
  BY <1>1 DEF LeasesAreCounted, Stays
<1>2. CASE Enters
  BY <1>2, FS_AddElement DEF LeasesAreCounted, Enters
<1>3. CASE Exits
  BY <1>3, FS_RemoveElement DEF LeasesAreCounted, Exits
<1>4. QED
  BY <1>1, <1>2, <1>3

LEMMA NobodyHolds == LeasesAreCounted /\ active = 0 => Holders = {}
BY FS_EmptySet DEF LeasesAreCounted

\* While the service stops nobody enters, and nobody can leave what is empty.
LEMMA EmptyStays ==
  ASSUME LeasesAreCounted, stopping, active = 0, Stays \/ Enters \/ Exits
  PROVE  active' = 0
BY NobodyHolds DEF Stays, Enters, Exits

LEMMA DrainedStep == Inv /\ [HttpNext]_httpVars => Drained'
<1> SUFFICES ASSUME Inv, [HttpNext]_httpVars PROVE Drained'
  OBVIOUS
<1>1. HttpShape /\ LeasesAreCounted /\ Drained
  BY DEF Inv
<1>2. Stays \/ Enters \/ Exits
  BY <1>1, Moves
<1>3. stopping /\ active = 0 => active' = 0
  BY <1>1, <1>2, EmptyStays
<1>4. CASE /\ UNCHANGED <<monitor, main, gaveUp, stopping>>
  BY <1>1, <1>3, <1>4 DEF Drained
<1>5. CASE Monitor
  <2>1. CASE Refuse
    BY <1>1, <2>1 DEF Refuse, MonitorGoes, Drained
  <2>2. CASE StopEngine \/ EngineStopped
    BY <1>1, <2>2 DEF StopEngine, EngineStopped, MonitorGoes, Drained, drainVars
  <2>3. CASE Drain \/ DrainTimeout
    BY <1>1, <2>3 DEF Drain, DrainTimeout, NoLease, MonitorGoes, Drained, drainVars
  <2>4. CASE StopServer
    BY <1>1, <2>4 DEF StopServer, MonitorGoes, Drained, drainVars
  <2>5. QED
    BY <1>5, <2>1, <2>2, <2>3, <2>4 DEF Monitor
<1>6. CASE Return
  BY <1>1, <1>6 DEF Return, Drained, drainVars
<1>7. CASE Interrupt \/ Served \/ UNCHANGED httpVars
  BY <1>4, <1>7 DEF Interrupt, Served, httpVars, drainVars
<1>8. ASSUME NEW r \in Requests, Lease(r) \/ Handler(r) PROVE Drained'
  BY <1>4, <1>8 DEF Lease, Handler, Submit, SubmitThrows, NextChunk, ProvideFails, Provide, GiveUp,
     Release, Collect, CollectFails, Reply, drainVars
<1>9. ASSUME NEW r \in Requests, Disconnect(r) \/ Delete(r) \/ EngineToken(r) \/ EngineEnds(r) PROVE Drained'
  BY <1>4, <1>9 DEF Disconnect, Delete, EngineToken, EngineEnds, drainVars
<1>10. QED
  BY <1>5, <1>6, <1>7, <1>8, <1>9 DEF HttpNext

-----------------------------------------------------------------------------
(***************************************************************************)
(* The steps of the story.                                                 *)
(***************************************************************************)
\* The words of a request stay what they are when neither is touched.
LEMMA SameWords ==
  ASSUME NEW r \in Requests, given'[r] = given[r], events'[r] = events[r],
         text'[r] = text[r], sent'[r] = sent[r]
  PROVE  /\ Speaking(r)' <=> Speaking(r)
         /\ Finishing(r)' <=> Finishing(r)
         /\ Told(r)' <=> Told(r)
BY DEF Speaking, Finishing, Told, Heard

\* A handler that moves on with nothing read or written.
LEMMA MovesOn ==
  ASSUME NEW r \in Requests, Story(r), Stands(r)', IsAnswered(r)',
         given'[r] = given[r], events'[r] = events[r], text'[r] = text[r], sent'[r] = sent[r],
         r \in accepted' <=> r \in accepted, r \in ended' <=> r \in ended,
         at[r] \in {"closing", "reply", "over"} => at'[r] \in {"closing", "reply", "over"},
         at[r] = "over" => at'[r] = "over"
  PROVE  Story(r)'
<1>1. Taken(r) => Taken(r)'
  BY SameWords DEF Taken
<1>2. Says(r)'
  BY <1>1, SameWords DEF Story, Says
<1>3. QED
  BY <1>2 DEF Story

\* A request that is not accepted has no story yet.
LEMMA NoStory ==
  ASSUME NEW r \in Requests, Story(r), at[r] \in {"new", "leased"}, at'[r] \in {"leased", "over"},
         given' = given, events' = events, text' = text, sent' = sent,
         accepted' = accepted, ended' = ended
  PROVE  Story(r)'
<1>1. /\ r \notin accepted /\ r \notin ended
      /\ given[r] = 0 /\ events[r] = <<>> /\ text[r] = <<>> /\ sent[r] = <<>>
  BY DEF Story, Stands, Says
<1>2. Stands(r)'
  BY <1>1 DEF Stands
<1>3. IsAnswered(r)'
  BY <1>1 DEF IsAnswered
<1>4. Says(r)'
  BY <1>1 DEF Says
<1>5. QED
  BY <1>2, <1>3, <1>4 DEF Story

\* Nobody is between two chunks when the server closes after a full drain.
LEMMA ClosedAfterAll ==
  ASSUME LeasesAreCounted, Drained, main # "listening", ~gaveUp, NEW r \in Requests
  PROVE  at[r] \notin Held
<1>1. Holders = {}
  BY NobodyHolds DEF Drained
<1>2. QED
  BY <1>1 DEF Holders

LEMMA SubmitStory ==
  ASSUME HttpShape, NEW r \in Requests, Story(r), Submit(r) PROVE Story(r)'
<1>1. /\ at[r] = "leased" /\ at'[r] = IF r \in Streams THEN "between" ELSE "collect"
      /\ accepted' = accepted \cup {r} /\ ended' = ended
      /\ given' = given /\ events' = events /\ text' = text /\ sent' = sent
  BY DEF Submit, Goes, HttpShape, answerVars
<1>2. r \notin ended /\ given[r] = 0 /\ events[r] = <<>> /\ text[r] = <<>> /\ sent[r] = <<>>
  BY <1>1 DEF Story, Stands, Says
<1>3. Stands(r)'
  BY <1>1, <1>2 DEF Stands
<1>4. IsAnswered(r)'
  BY <1>1 DEF IsAnswered
<1>5. Speaking(r)'
  <2>1. Piece(0, 0) = <<>> /\ 0 \in 0..0
    BY NothingToSay
  <2>2. QED
    BY <1>1, <1>2, <2>1 DEF Speaking, Heard
<1>6. Says(r)'
  BY <1>1, <1>2, <1>5 DEF Says
<1>7. QED
  BY <1>3, <1>4, <1>6 DEF Story

LEMMA WaitingStory ==
  ASSUME HttpShape, LeasesAreCounted, Drained, NEW r \in Requests, Story(r), NextChunk(r) \/ GiveUp(r)
  PROVE  Story(r)'
<1>1. /\ at[r] = "between" /\ at'[r] \in {"provide", "closing"}
      /\ at'[r] = "closing" => r \in gone \/ main # "listening"
      /\ given' = given /\ events' = events /\ text' = text /\ sent' = sent
      /\ accepted' = accepted /\ ended' = ended
      /\ gone' = gone /\ gaveUp' = gaveUp /\ cancelled' = cancelled
  BY DEF NextChunk, GiveUp, Goes, Listening, HttpShape, engineVars, answerVars
<1>2. Stands(r)'
  BY <1>1 DEF Story, Stands
<1>3. ~gaveUp => main = "listening"
  BY <1>1, ClosedAfterAll DEF Held
<1>4. IsAnswered(r)'
  BY <1>1, <1>2, <1>3 DEF IsAnswered, Stands
<1>5. QED
  BY <1>1, <1>2, <1>4, MovesOn

LEMMA FailsStory ==
  ASSUME HttpShape, NEW r \in Requests, Story(r), ProvideFails(r) \/ CollectFails(r) PROVE Story(r)'
<1>1. /\ (at[r] = "provide" /\ at'[r] = "closing") \/ (at[r] = "collect" /\ at'[r] = "over")
      /\ r \in gone' /\ r \in cancelled'
      /\ given' = given /\ events' = events /\ text' = text /\ sent' = sent
      /\ accepted' = accepted /\ ended' = ended
  BY DEF ProvideFails, CollectFails, Leaves, Goes, HttpShape, answerVars
<1>2. Stands(r)'
  BY <1>1 DEF Story, Stands
<1>3. IsAnswered(r)'
  BY <1>1 DEF IsAnswered
<1>4. QED
  BY <1>1, <1>2, <1>3, MovesOn

LEMMA ReleaseStory ==
  ASSUME HttpShape, NEW r \in Requests, Story(r), Release(r) PROVE Story(r)'
<1>1. /\ at[r] = "closing" /\ at'[r] = "over" /\ (r \in ended \/ r \in cancelled')
      /\ given' = given /\ events' = events /\ text' = text /\ sent' = sent
      /\ accepted' = accepted /\ ended' = ended
      /\ gone' = gone /\ gaveUp' = gaveUp
  BY DEF Release, Finished, Goes, HttpShape, answerVars
<1>2. Stands(r)'
  BY <1>1 DEF Story, Stands
<1>3. IsAnswered(r)'
  BY <1>1, SameWords DEF Story, Stands, IsAnswered
<1>4. QED
  BY <1>1, <1>2, <1>3, MovesOn

\* What the first event is, and what is left after it.
LEMMA NextWord ==
  ASSUME HttpShape, NEW r \in Requests, Story(r), r \in accepted,
         at[r] \in {"provide", "collect"}, events[r] # <<>>
  PROVE  \E k \in 0..given[r] :
           /\ Heard(r) = Piece(0, k)
           /\ \/ /\ r \notin ended /\ k < given[r]
                 /\ Head(events[r]) = Token(k + 1) /\ Tail(events[r]) = Piece(k + 1, given[r])
              \/ /\ r \in ended /\ k < given[r]
                 /\ Head(events[r]) = Token(k + 1) /\ Tail(events[r]) = Append(Piece(k + 1, given[r]), End)
              \/ /\ r \in ended /\ k = given[r]
                 /\ Head(events[r]) = End /\ Tail(events[r]) = <<>>
<1>1. given[r] \in Nat
  BY HttpAssumption DEF HttpShape
<1>2. CASE r \notin ended
  <2>1. PICK k \in 0..given[r] : Heard(r) = Piece(0, k) /\ events[r] = Piece(k, given[r])
    BY <1>2 DEF Story, Says, Speaking
  <2>2. k # given[r]
    BY <1>1, <2>1, NothingToSay
  <2>3. k < given[r] /\ k \in Nat
    BY <1>1, <2>2
  <2>4. Head(events[r]) = Token(k + 1) /\ Tail(events[r]) = Piece(k + 1, given[r])
    BY <1>1, <2>1, <2>3, HearOne
  <2>5. QED
    BY Zenon, <1>2, <2>1, <2>3, <2>4
<1>3. CASE r \in ended
  <2>1. PICK k \in 0..given[r] : Heard(r) = Piece(0, k) /\ events[r] = Append(Piece(k, given[r]), End)
    BY <1>3 DEF Story, Says, Finishing, Taken
  <2>2. CASE k = given[r]
    <3>1. Head(events[r]) = End /\ Tail(events[r]) = <<>>
      BY <1>1, <2>1, <2>2, NothingToSay, TheEnd
    <3>2. QED
      BY Zenon, <1>3, <2>1, <2>2, <3>1
  <2>3. CASE k # given[r]
    <3>1. k < given[r] /\ k \in Nat /\ k <= given[r]
      BY <1>1, <2>3
    <3>2. /\ Piece(k, given[r]) \in Seq(Words) /\ Piece(k, given[r]) # <<>>
          /\ Head(Piece(k, given[r])) = Token(k + 1) /\ Tail(Piece(k, given[r])) = Piece(k + 1, given[r])
      <4>1. Piece(k, given[r]) \in Seq(Words)
        BY <1>1, <3>1, PieceIs
      <4>2. QED
        BY <1>1, <3>1, <4>1, HearOne
    <3>3. Head(events[r]) = Token(k + 1) /\ Tail(events[r]) = Append(Piece(k + 1, given[r]), End)
      BY <2>1, <3>2, HearOneBeforeTheEnd DEF Words
    <3>4. QED
      BY Zenon, <1>3, <2>1, <3>1, <3>3
  <2>4. QED
    BY <2>2, <2>3
<1>4. QED
  BY <1>2, <1>3

\* One token more has been heard, and is no longer to come.
LEMMA WordHeard ==
  ASSUME HttpShape, NEW r \in Requests, given'[r] = given[r],
         NEW k \in 0..given[r], k < given[r], Heard(r)' = Piece(0, k + 1)
  PROVE  /\ events'[r] = Piece(k + 1, given[r]) => Speaking(r)'
         /\ events'[r] = Append(Piece(k + 1, given[r]), End) => Finishing(r)'
<1>1. k + 1 \in 0..given'[r]
  BY HttpAssumption DEF HttpShape
<1>2. QED
  BY Zenon, <1>1 DEF Speaking, Finishing

LEMMA ProvideStory ==
  ASSUME HttpShape, NEW r \in Requests, Story(r), Provide(r) PROVE Story(r)'
<1>1. /\ at[r] = "provide" /\ at'[r] = (IF Head(events[r]) = End THEN "closing" ELSE "between")
      /\ events[r] # <<>> /\ events'[r] = Tail(events[r]) /\ sent'[r] = sent[r] \o Marked(Head(events[r]))
      /\ accepted' = accepted /\ ended' = ended /\ given' = given
  BY DEF Provide, Goes, HttpShape, engineVars
<1>2. r \in accepted /\ r \in Streams /\ Heard(r) = sent[r] /\ Heard(r)' = sent'[r]
  BY <1>1 DEF Story, Stands, Heard
<1>3. Stands(r)'
  BY <1>1, <1>2 DEF Story, Stands
<1>4. PICK k \in 0..given[r] :
        /\ sent[r] = Piece(0, k)
        /\ \/ /\ r \notin ended /\ k < given[r]
              /\ Head(events[r]) = Token(k + 1) /\ Tail(events[r]) = Piece(k + 1, given[r])
           \/ /\ r \in ended /\ k < given[r]
              /\ Head(events[r]) = Token(k + 1) /\ Tail(events[r]) = Append(Piece(k + 1, given[r]), End)
           \/ /\ r \in ended /\ k = given[r]
              /\ Head(events[r]) = End /\ Tail(events[r]) = <<>>
  BY Zenon, <1>1, <1>2, NextWord
<1>5. CASE k < given[r] /\ Head(events[r]) = Token(k + 1)
  <2>1. at'[r] = "between" /\ sent'[r] = sent[r] \o <<Token(k + 1)>>
    BY <1>1, <1>5, TokenIsNoEnd DEF Marked
  <2>2. sent'[r] = Piece(0, k + 1)
    <3>1. k \in Nat /\ 0 <= k
      OBVIOUS
    <3>2. QED
      BY <1>4, <2>1, <3>1, SayOne
  <2>3. IsAnswered(r)'
    BY <2>1, <1>2 DEF IsAnswered
  <2>4. (r \notin ended => Speaking(r)') /\ (r \in ended => Finishing(r)')
    <3>1. /\ r \notin ended => events'[r] = Piece(k + 1, given[r])
          /\ r \in ended => events'[r] = Append(Piece(k + 1, given[r]), End)
      BY Zenon, <1>1, <1>4, <1>5, TokenIsNoEnd
    <3>2. QED
      BY Zenon, <1>1, <1>2, <1>5, <2>2, <3>1, WordHeard
  <2>5. Says(r)'
    BY <1>1, <1>2, <2>4 DEF Says
  <2>6. QED
    BY <1>3, <2>3, <2>5 DEF Story
<1>6. CASE r \in ended /\ k = given[r] /\ Head(events[r]) = End /\ Tail(events[r]) = <<>>
  <2>1. at'[r] = "closing" /\ sent'[r] = sent[r] \o <<End, Done>>
    BY <1>1, <1>6 DEF Marked
  <2>2. Told(r)'
    BY <1>1, <1>4, <1>6, <2>1 DEF Told
  <2>3. Taken(r)'
    BY <1>1, <1>2, <1>6, <2>1, <2>2 DEF Taken
  <2>4. QED
    BY <1>1, <1>2, <1>3, <1>6, <2>1, <2>2, <2>3 DEF Story, Says, IsAnswered
<1>7. QED
  BY <1>4, <1>5, <1>6

LEMMA CollectStory ==
  ASSUME HttpShape, NEW r \in Requests, Story(r), Collect(r) PROVE Story(r)'
<1>1. /\ at[r] = "collect" /\ at'[r] = (IF Head(events[r]) = End THEN "reply" ELSE "collect")
      /\ events[r] # <<>> /\ events'[r] = Tail(events[r]) /\ sent' = sent
      /\ text'[r] = IF Head(events[r]) = End THEN text[r] ELSE Append(text[r], Head(events[r]))
      /\ accepted' = accepted /\ ended' = ended /\ given' = given
  BY DEF Collect, Collected, Goes, HttpShape, engineVars
<1>2. r \in accepted /\ r \notin Streams /\ sent[r] = <<>> /\ Heard(r) = text[r] /\ Heard(r)' = text'[r]
  BY <1>1 DEF Story, Stands, Says, Heard
<1>3. IsAnswered(r)'
  BY <1>1, <1>2 DEF IsAnswered
<1>4. PICK k \in 0..given[r] :
        /\ text[r] = Piece(0, k)
        /\ \/ /\ r \notin ended /\ k < given[r]
              /\ Head(events[r]) = Token(k + 1) /\ Tail(events[r]) = Piece(k + 1, given[r])
           \/ /\ r \in ended /\ k < given[r]
              /\ Head(events[r]) = Token(k + 1) /\ Tail(events[r]) = Append(Piece(k + 1, given[r]), End)
           \/ /\ r \in ended /\ k = given[r]
              /\ Head(events[r]) = End /\ Tail(events[r]) = <<>>
  BY Zenon, <1>1, <1>2, NextWord
<1>5. CASE k < given[r] /\ Head(events[r]) = Token(k + 1)
  <2>1. at'[r] = "collect" /\ text'[r] = Append(text[r], Token(k + 1))
    BY <1>1, <1>5, TokenIsNoEnd
  <2>2. text'[r] = Piece(0, k + 1)
    <3>1. k \in Nat /\ 0 <= k
      OBVIOUS
    <3>2. QED
      BY <1>4, <2>1, <3>1, SayOne
  <2>3. Stands(r)'
    BY <1>1, <1>2, <2>1 DEF Story, Stands
  <2>4. (r \notin ended => Speaking(r)') /\ (r \in ended => Finishing(r)')
    <3>1. /\ r \notin ended => events'[r] = Piece(k + 1, given[r])
          /\ r \in ended => events'[r] = Append(Piece(k + 1, given[r]), End)
      BY Zenon, <1>1, <1>4, <1>5, TokenIsNoEnd
    <3>2. QED
      BY Zenon, <1>1, <1>2, <1>5, <2>2, <3>1, WordHeard
  <2>5. Says(r)'
    BY <1>1, <1>2, <2>4 DEF Says
  <2>6. QED
    BY <1>3, <2>3, <2>5 DEF Story
<1>6. CASE r \in ended /\ k = given[r] /\ Head(events[r]) = End /\ Tail(events[r]) = <<>>
  <2>1. Stands(r)'
    BY <1>1, <1>2, <1>6 DEF Stands
  <2>2. Taken(r)'
    BY <1>1, <1>2, <1>4, <1>6 DEF Taken
  <2>3. QED
    BY <1>1, <1>2, <1>3, <1>6, <2>1, <2>2 DEF Story, Says
<1>7. QED
  BY <1>4, <1>5, <1>6

LEMMA ReplyStory ==
  ASSUME HttpShape, NEW r \in Requests, Story(r), Reply(r) PROVE Story(r)'
<1>1. /\ at[r] = "reply" /\ at'[r] = "over" /\ events' = events /\ text' = text /\ given' = given
      /\ r \notin gone => sent'[r] = Append(text[r], End)
      /\ accepted' = accepted /\ ended' = ended /\ gone' = gone /\ cancelled' = cancelled
  BY DEF Reply, Goes, HttpShape, engineVars
<1>2. r \in accepted /\ r \notin Streams /\ r \in ended /\ events[r] = <<>>
  BY <1>1 DEF Story, Stands
<1>3. Taken(r)
  <2>1. ASSUME NEW k \in 0..given[r] PROVE Append(Piece(k, given[r]), End) # <<>>
    <3>1. given[r] \in Nat
      BY HttpAssumption DEF HttpShape
    <3>2. k \in Nat /\ k <= given[r]
      BY <3>1
    <3>3. QED
      BY <3>1, <3>2, EndIsSomething
  <2>2. ~Finishing(r)
    BY <1>2, <2>1 DEF Finishing
  <2>3. QED
    BY <1>2, <2>2 DEF Story, Says
<1>4. text[r] = Piece(0, given[r])
  BY <1>2, <1>3 DEF Taken
<1>5. Stands(r)'
  BY <1>1, <1>2 DEF Stands
<1>6. Taken(r)'
  BY <1>1, <1>2, <1>4 DEF Taken
<1>7. QED
  BY <1>1, <1>2, <1>4, <1>5, <1>6 DEF Story, Says, IsAnswered

LEMMA EngineStory ==
  ASSUME HttpShape, NEW r \in Requests, Story(r), EngineToken(r) \/ EngineEnds(r) PROVE Story(r)'
<1>1. /\ r \in accepted /\ r \notin ended /\ at' = at /\ text' = text /\ sent' = sent
      /\ accepted' = accepted /\ gone' = gone /\ gaveUp' = gaveUp /\ cancelled' = cancelled
  BY DEF EngineToken, EngineEnds, answerVars
<1>2. at[r] # "reply" /\ Heard(r)' = Heard(r)
  BY <1>1 DEF Story, Stands, Heard
<1>3. given[r] \in Nat
  BY HttpAssumption DEF HttpShape
<1>4. PICK k \in 0..given[r] : Heard(r) = Piece(0, k) /\ events[r] = Piece(k, given[r])
  BY <1>1 DEF Story, Says, Speaking
<1>5. IsAnswered(r)'
  BY <1>1 DEF Story, IsAnswered
<1>6. CASE EngineToken(r)
  <2>1. /\ events'[r] = Append(events[r], Token(given[r] + 1)) /\ ended' = ended
        /\ given'[r] = given[r] + 1
    BY <1>6 DEF EngineToken, HttpShape
  <2>2. events'[r] = Piece(k, given'[r])
    <3>1. k \in Nat /\ k <= given[r]
      BY <1>3
    <3>2. QED
      BY <1>3, <1>4, <2>1, <3>1, SayOne
  <2>3. k \in 0..given'[r]
    BY <1>3, <2>1
  <2>4. Speaking(r)'
    BY Zenon, <1>2, <1>4, <2>2, <2>3 DEF Speaking
  <2>5. QED
    BY <1>1, <1>2, <1>5, <2>1, <2>4 DEF Story, Stands, Says
<1>7. CASE EngineEnds(r)
  <2>1. events'[r] = Append(events[r], End) /\ ended' = ended \cup {r} /\ given' = given
    BY <1>7 DEF EngineEnds, HttpShape
  <2>2. Finishing(r)'
    BY Zenon, <1>2, <1>4, <2>1 DEF Finishing
  <2>3. QED
    BY <1>1, <1>2, <1>5, <2>1, <2>2 DEF Story, Stands, Says
<1>8. QED
  BY <1>6, <1>7

-----------------------------------------------------------------------------
\* A step concerns one request at most.
LEMMA OthersStories ==
  ASSUME \A x \in Requests : Story(x), NEW r \in Requests, Story(r)',
         \A x \in Requests \ {r} : Unconcerned(x)
  PROVE  \A x \in Requests : Story(x)'
<1>1. ASSUME NEW x \in Requests PROVE Story(x)'
  <2>1. CASE x = r
    BY <2>1
  <2>2. CASE x # r
    BY <2>2, Elsewhere
  <2>3. QED
    BY <2>1, <2>2
<1>2. QED
  BY <1>1

LEMMA HandlerFrames ==
  ASSUME HttpShape, NEW r \in Requests, NEW x \in Requests \ {r}, Lease(r) \/ Handler(r)
  PROVE  Unconcerned(x)
<1> USE DEF Unconcerned, Goes, HttpShape, engineVars, answerVars, drainVars
<1>1. CASE Lease(r) \/ SubmitThrows(r) \/ NextChunk(r) \/ GiveUp(r)
  BY <1>1 DEF Lease, SubmitThrows, NextChunk, GiveUp
<1>2. CASE Submit(r) \/ Provide(r) \/ Collect(r) \/ Reply(r)
  BY <1>2 DEF Submit, Provide, Collect, Reply
<1>3. CASE ProvideFails(r) \/ Release(r) \/ CollectFails(r)
  BY <1>3 DEF ProvideFails, Release, CollectFails, Leaves
<1>4. QED
  BY <1>1, <1>2, <1>3 DEF Handler

LEMMA StoryStep == Inv /\ [HttpNext]_httpVars => \A r \in Requests : Story(r)'
<1> SUFFICES ASSUME Inv, [HttpNext]_httpVars PROVE \A r \in Requests : Story(r)'
  OBVIOUS
<1>1. HttpShape /\ LeasesAreCounted /\ Drained /\ \A r \in Requests : Story(r)
  BY DEF Inv
<1>2. ASSUME \A x \in Requests : Unconcerned(x) PROVE \A x \in Requests : Story(x)'
  BY <1>1, <1>2, Elsewhere
<1>3. ASSUME NEW r \in Requests, Lease(r) \/ Handler(r) PROVE \A x \in Requests : Story(x)'
  <2>1. \A x \in Requests \ {r} : Unconcerned(x)
    BY <1>1, <1>3, HandlerFrames
  <2>2. CASE Lease(r) \/ SubmitThrows(r)
    <3>1. /\ at[r] \in {"new", "leased"} /\ at'[r] \in {"leased", "over"}
          /\ given' = given /\ events' = events /\ text' = text /\ sent' = sent
          /\ accepted' = accepted /\ ended' = ended
      BY <1>1, <2>2 DEF Lease, SubmitThrows, Goes, HttpShape, engineVars, answerVars
    <3>2. Story(r)'
      BY <1>1, <3>1, NoStory
    <3>3. QED
      BY <1>1, <2>1, <3>2, OthersStories
  <2>3. CASE Handler(r) /\ ~SubmitThrows(r)
    <3>1. Story(r)'
      BY <1>1, <2>3, SubmitStory, WaitingStory, FailsStory, ReleaseStory, ProvideStory, CollectStory,
         ReplyStory DEF Handler
    <3>2. QED
      BY <1>1, <2>1, <3>1, OthersStories
  <2>4. QED
    BY <1>3, <2>2, <2>3
<1>4. ASSUME NEW r \in Requests, EngineToken(r) \/ EngineEnds(r) PROVE \A x \in Requests : Story(x)'
  <2>1. \A x \in Requests \ {r} : Unconcerned(x)
    BY <1>1, <1>4 DEF EngineToken, EngineEnds, Unconcerned, HttpShape, engineVars, answerVars
  <2>2. Story(r)'
    BY <1>1, <1>4, EngineStory
  <2>3. QED
    BY <1>1, <2>1, <2>2, OthersStories
<1>5. ASSUME NEW r \in Requests, Disconnect(r) \/ Delete(r) PROVE \A x \in Requests : Story(x)'
  BY <1>2, <1>5 DEF Disconnect, Delete, Unconcerned, engineVars, answerVars
<1>6. CASE Monitor
  BY <1>1, <1>2, <1>6 DEF Monitor, Refuse, StopEngine, EngineStopped, Drain, DrainTimeout, StopServer,
     Unconcerned, engineVars, answerVars, HttpShape
<1>7. CASE Return \/ Interrupt \/ Served \/ UNCHANGED httpVars
  BY <1>2, <1>7 DEF Return, Interrupt, Served, httpVars, Unconcerned, engineVars, answerVars
<1>8. QED
  BY <1>3, <1>4, <1>5, <1>6, <1>7 DEF HttpNext

LEMMA InvStep == Inv /\ [HttpNext]_httpVars => Inv'
<1> SUFFICES ASSUME Inv, [HttpNext]_httpVars PROVE Inv'
  OBVIOUS
<1>1. HttpShape'
  BY HttpShapeStep DEF Inv
<1>2. LeasesAreCounted'
  BY Moves, LeasesStep DEF Inv
<1>3. Drained'
  BY DrainedStep
<1>4. \A r \in Requests : Story(r)'
  BY StoryStep
<1>5. QED
  BY <1>1, <1>2, <1>3, <1>4 DEF Inv

LEMMA Invariance == HttpSpec => []Inv
BY Starts, InvStep, PTL DEF HttpSpec

-----------------------------------------------------------------------------
\* The variables have their types, and the drain counts the handlers that
\* hold a lease, however they come to lose it.
THEOREM TypeCorrect == HttpSpec => []HttpTypeOK
<1>1. Inv => HttpTypeOK
  BY HoldersAre DEF Inv, HttpShape, Places, Held, LeasesAreCounted, HttpTypeOK
<1>2. QED
  BY <1>1, Invariance, PTL

\* A client that stays gets the whole answer of an accepted request, whenever
\* the service is told to stop, unless the bounded wait ran out.
THEOREM Answered == HttpSpec => []AcceptedAreAnswered
<1>1. Inv => AcceptedAreAnswered
  <2> SUFFICES ASSUME Inv, NEW r \in accepted \ gone, at[r] = "over", ~gaveUp PROVE Complete(r)
    BY DEF AcceptedAreAnswered
  <2>1. r \in Requests /\ Story(r)
    BY DEF Inv, HttpShape
  <2>2. \/ r \in Streams /\ Told(r)
        \/ r \notin Streams /\ sent[r] = Append(Piece(0, given[r]), End)
    BY <2>1 DEF Story, IsAnswered
  <2>3. given[r] \in Nat
    BY <2>1, HttpAssumption DEF Inv, HttpShape
  <2>4. QED
    BY <2>1, <2>2, <2>3, ToldIsComplete
<1>2. QED
  BY <1>1, Invariance, PTL

\* Whatever becomes of a handler, its request has ended or been cancelled.
THEOREM NotAbandoned == HttpSpec => []NoRequestIsAbandoned
<1>1. Inv => NoRequestIsAbandoned
  BY DEF Inv, HttpShape, Story, Stands, NoRequestIsAbandoned
<1>2. QED
  BY <1>1, Invariance, PTL

\* While the service stops, a drain that has come to an end stays so.
THEOREM DrainStaysFinal == HttpSpec => DrainIsFinal
<1>1. Inv /\ [HttpNext]_httpVars => [stopping /\ active = 0 => active' = 0]_httpVars
  BY Moves, EmptyStays DEF Inv
<1>2. QED
  BY <1>1, Invariance, PTL DEF HttpSpec, DrainIsFinal
===============================================================================
