----------------------------- MODULE EngineProofs -----------------------------
(***************************************************************************)
(* The life of a request, for any requests, ids, prompts and limits.       *)
(* First the requests: none is lost or ended twice, the registry names     *)
(* exactly the live ones, and what a client sees of each is a              *)
(* RequestStream.  That argument follows them through the worker's         *)
(* collections, whatever the worker does with what it owns.  Then what it  *)
(* owns: each sequence has one owner, and each block as many references as *)
(* owners list it.                                                         *)
(***************************************************************************)
EXTENDS EngineProperties, CommonLemmas

-----------------------------------------------------------------------------
(***************************************************************************)
(* The inductive invariant.                                                *)
(***************************************************************************)
Event == [kind : Terminals \cup {"token"}, n : Nat]
Outcome == {"completed", "cancelled", "timed_out", "failed"}

\* The shape of what this argument looks at.
Shape ==
  /\ status \in [Requests -> {"new", "accepted", "rejected"}]
  /\ events \in [Requests -> Seq(Event)]
  /\ finished \in [Requests -> BOOLEAN]
  /\ incoming \in Seq(Requests)
  /\ registry \in [Ids -> Requests \cup {None}]
  /\ pc \in Phases
  /\ stopping \in BOOLEAN /\ failed \in BOOLEAN
  /\ ending \in Requests \cup {None}
  /\ reason \in Terminals \cup {None}
  /\ batch \in Seq(Slices) /\ samples \in Seq(Requests)
  /\ counters \in [Outcome -> Nat]

\* Every request has an item, of which the worker counts the tokens.
ItemShape ==
  /\ item = [r \in Requests |-> item[r]]
  /\ \A r \in Requests :
       /\ item[r] = [sequence |-> item[r].sequence, blocks |-> item[r].blocks,
                     processed |-> item[r].processed, generated |-> item[r].generated,
                     done |-> item[r].done]
       /\ item[r].generated \in Nat
       /\ item[r].done \in BOOLEAN

Accepted == {r \in Requests : status[r] = "accepted"}

\* The worker only ever handles accepted requests.
AcceptedOnly ==
  /\ Range(incoming) \subseteq Accepted
  /\ waiting \subseteq Accepted
  /\ active \subseteq Accepted
  /\ todo \subseteq Accepted
  /\ \A i \in 1..Len(batch) : batch[i].key \in Accepted
  /\ \A i \in 1..Len(samples) : samples[i] \in Accepted

\* A request that has ended, or is about to, was accepted; it ends once,
\* with a terminal event.
EndsOnce ==
  /\ \A r \in Requests : finished[r] => r \in Accepted
  /\ ending # None => ending \in Accepted /\ ~finished[ending] /\ reason \in Terminals
  /\ pc = "close" => ending = None /\ samples # <<>> /\ reason \in Terminals

\* The worker goes through its last drain only when submit() refuses.
DrainsLast == pc \in {"drain", "terminate", "stopped"} => stopping \/ failed

IInv == /\ Shape /\ ItemShape /\ AcceptedOnly /\ EndsOnce /\ DrainsLast
        /\ RegistryIsExact /\ NoRequestIsLost

-----------------------------------------------------------------------------
(***************************************************************************)
(* Steps that leave the requests where they are.                           *)
(***************************************************************************)
\* What a quiet step may do to the worker's position and to its lists.
Quiet ==
  /\ UNCHANGED <<status, events, finished, ending, registry, incoming, waiting, active,
                 item, stopping, failed, reason, counters>>
  /\ pc' \in Phases
  /\ todo' \subseteq todo
  /\ batch' \in Seq(Slices) /\ \A i \in 1..Len(batch') : batch'[i].key \in Accepted
  /\ samples' \in Seq(Requests) /\ \A i \in 1..Len(samples') : samples'[i] \in Accepted
  /\ pc' \in {"drain", "terminate", "stopped"} => stopping \/ failed
  /\ pc' \in {"terminate", "stopped"} => pc \in {"terminate", "stopped"}
  /\ pc' = "close" => pc = "close" /\ samples' = samples

LEMMA QuietStep == ASSUME IInv, Quiet PROVE IInv'
<1> USE DEF Quiet
<1>1. Shape'
  BY DEF IInv, Shape
<1>2. ItemShape'
  BY DEF IInv, ItemShape
<1>3. AcceptedOnly'
  BY DEF IInv, AcceptedOnly, Accepted
<1>4. EndsOnce' /\ DrainsLast'
  BY DEF IInv, EndsOnce, DrainsLast, Accepted
<1>5. RegistryIsExact'
  BY DEF IInv, RegistryIsExact, Live
<1>6. NoRequestIsLost'
  BY DEF IInv, NoRequestIsLost, Live, Undone
<1>7. QED
  BY <1>1, <1>2, <1>3, <1>4, <1>5, <1>6 DEF IInv

\* The lists that a quiet step does not touch stay what they were.
LEMMA ListsAsTheyAre ==
  ASSUME IInv
  PROVE  /\ events \in [Requests -> Seq(Event)] /\ pc \in Phases
         /\ batch \in Seq(Slices) /\ \A i \in 1..Len(batch) : batch[i].key \in Accepted
         /\ samples \in Seq(Requests) /\ \A i \in 1..Len(samples) : samples[i] \in Accepted
         /\ pc \in {"drain", "terminate", "stopped"} => stopping \/ failed
  BY DEF IInv, Shape, AcceptedOnly, DrainsLast

\* Tail drops nothing but the head.
LEMMA TailAccepted ==
  ASSUME IInv, samples # <<>>
  PROVE  /\ Tail(samples) \in Seq(Requests)
         /\ \A i \in 1..Len(Tail(samples)) : Tail(samples)[i] \in Accepted
         /\ Head(samples) \in Accepted
  BY ListsAsTheyAre, HeadTailProperties, LenProperties

LEMMA BatchTailAccepted ==
  ASSUME IInv, batch # <<>>
  PROVE  /\ Tail(batch) \in Seq(Slices)
         /\ \A i \in 1..Len(Tail(batch)) : Tail(batch)[i].key \in Accepted
         /\ Head(batch).key \in Accepted
  BY ListsAsTheyAre, HeadTailProperties, LenProperties

LEMMA AppendAccepted ==
  ASSUME IInv, NEW r \in Accepted
  PROVE  /\ Append(samples, r) \in Seq(Requests)
         /\ \A i \in 1..Len(Append(samples, r)) : Append(samples, r)[i] \in Accepted
<1>1. r \in Requests /\ samples \in Seq(Requests) /\ Len(samples) \in Nat
  BY ListsAsTheyAre, LenProperties DEF Accepted
<1>2. QED
  BY <1>1, ListsAsTheyAre, AppendProperties

\* A batch is made of active requests, each of them once.
LEMMA PlanIsActive ==
  ASSUME IInv,
         NEW decode \in Orders(Decoding), NEW prefill \in Orders(active \ Decoding),
         NEW plan \in Plans(decode, prefill, [r \in active |-> Remaining(r)])
  PROVE  /\ plan.prefills \in Seq(Slices)
         /\ \A i \in 1..Len(plan.prefills) : plan.prefills[i].key \in Accepted
         /\ plan.decodes \in Seq(Requests)
         /\ \A i \in 1..Len(plan.decodes) : plan.decodes[i] \in Accepted
         /\ IsInjective(plan.decodes) /\ Range(plan.decodes) \subseteq Decoding
         /\ \A i \in 1..Len(plan.prefills) : plan.prefills[i].key \in active \ Decoding
         /\ \A i, j \in 1..Len(plan.prefills) :
              plan.prefills[i].key = plan.prefills[j].key => i = j
         /\ \A i \in 1..Len(plan.prefills) :
              /\ plan.prefills[i].tokens \in Nat /\ plan.prefills[i].tokens > 0
              /\ plan.prefills[i].tokens <= Remaining(plan.prefills[i].key)
<1> DEFINE n == DecodeCount(decode, prefill)
<1>1. Decoding \subseteq Accepted /\ active \subseteq Accepted /\ Accepted \subseteq Requests
  BY DEF IInv, AcceptedOnly, Decoding, Accepted
<1>2. IsFiniteSet(active) /\ IsFiniteSet(Decoding) /\ IsFiniteSet(active \ Decoding)
  BY <1>1, RequestsFit, FS_Subset DEF Decoding
<1>3. decode \in Seq(Accepted) /\ prefill \in Seq(Accepted)
  <2>1. Cardinality(Decoding) \in Nat /\ Cardinality(active \ Decoding) \in Nat
    BY <1>2, FS_CardinalityType
  <2>2. /\ decode \in [1..Cardinality(Decoding) -> Accepted]
        /\ prefill \in [1..Cardinality(active \ Decoding) -> Accepted]
    BY <1>1 DEF Orders, Injection
  <2>3. QED
    BY <2>1, <2>2, FunctionIsSeq
<1>4. n \in 0..Len(decode)
  BY <1>3, SchedulerAssumption, LenProperties DEF DecodeCount
<1>5. PICK t \in Allotments(prefill, [r \in active |-> Remaining(r)], BatchTokens - n) :
        plan = [decodes  |-> SubSeq(decode, 1, n),
                prefills |-> [i \in 1..Len(t) |-> [key |-> prefill[i], tokens |-> t[i]]]]
  BY DEF Plans
<1> HIDE DEF n
<1>6. PICK k \in 0..Len(prefill) : t \in [1..k -> 1..BatchTokens]
  BY <1>5 DEF Allotments
<1>7. t \in Seq(1..BatchTokens) /\ Len(t) \in Nat /\ Len(t) <= Len(prefill)
      /\ t \in [1..Len(t) -> 1..BatchTokens]
  <2>1. k \in Nat /\ k <= Len(prefill)
    BY <1>3, LenProperties
  <2>2. t \in Seq(1..BatchTokens) /\ Len(t) = k
    BY <1>6, <2>1, FunctionIsSeq
  <2>3. QED
    BY <1>6, <2>1, <2>2
<1>8. ASSUME NEW i \in 1..Len(t)
      PROVE  prefill[i] \in Accepted /\ t[i] \in Nat
  BY <1>3, <1>7, LenProperties, ElementOfSeq, SchedulerAssumption
<1>9. \A i \in 1..Len(t) : [key |-> prefill[i], tokens |-> t[i]] \in Slices
  BY <1>1, <1>8 DEF Slices
<1>10. plan.prefills \in Seq(Slices) /\ Len(plan.prefills) = Len(t)
  <2>1. plan.prefills = [i \in 1..Len(t) |-> [key |-> prefill[i], tokens |-> t[i]]]
    BY <1>5
  <2>2. QED
    BY <1>7, <1>9, <2>1
<1>11. \A i \in 1..Len(plan.prefills) : plan.prefills[i].key \in Accepted
  BY <1>5, <1>8, <1>10
<1>12. plan.decodes \in Seq(Accepted)
  BY <1>3, <1>4, <1>5, LenProperties, ElementOfSeq, SubSeqProperties
<1>13. IsInjective(plan.decodes) /\ Range(plan.decodes) \subseteq Decoding
  <2>1. IsInjective(decode) /\ Range(decode) \subseteq Decoding
    BY DEF Orders, Injection, IsInjective, Range
  <2>2. plan.decodes = SubSeq(decode, 1, n)
    BY <1>5
  <2>3. QED
    BY <1>3, <1>4, <2>1, <2>2, PrefixTable
<1>14. /\ \A i \in 1..Len(t) : prefill[i] \in active \ Decoding
       /\ \A i, j \in 1..Len(t) : prefill[i] = prefill[j] => i = j
  <2>1. /\ Len(prefill) \in Nat /\ DOMAIN prefill = 1..Len(prefill)
        /\ \A i \in 1..Len(t) : i \in 1..Len(prefill)
    BY <1>3, <1>7, LenProperties
  <2>2. /\ \A i \in DOMAIN prefill : prefill[i] \in active \ Decoding
        /\ \A i, j \in DOMAIN prefill : prefill[i] = prefill[j] => i = j
    BY DEF Orders, Injection, IsInjective
  <2>3. QED
    BY <2>1, <2>2
<1>15. \A i \in 1..Len(plan.prefills) :
         plan.prefills[i].key = prefill[i] /\ plan.prefills[i].tokens = t[i]
  BY <1>5, <1>10
<1>16. ASSUME NEW i \in 1..Len(t)
       PROVE  t[i] \in Nat /\ t[i] > 0 /\ t[i] <= Remaining(prefill[i])
  <2>1. t[i] \in 1..BatchTokens /\ i \in DOMAIN t /\ prefill[i] \in active
    BY <1>7, <1>14
  <2>2. t[i] <= [r \in active |-> Remaining(r)][prefill[i]]
    BY <1>5, <2>1 DEF Allotments
  <2>3. QED
    BY <2>1, <2>2, SchedulerAssumption
<1>17. \A i \in 1..Len(plan.prefills) :
         /\ plan.prefills[i].tokens \in Nat /\ plan.prefills[i].tokens > 0
         /\ plan.prefills[i].tokens <= Remaining(plan.prefills[i].key)
  BY <1>10, <1>15, <1>16
<1>18. QED
  BY <1>1, <1>10, <1>11, <1>12, <1>13, <1>14, <1>15, <1>17, SeqMonotonic, ElementOfSeq

LEMMA QuietSteps ==
  ASSUME IInv,
         \/ \E r \in Requests : \/ DeadlinePasses(r) \/ VisitLive(r)
                               \/ AdmitEvict(r) \/ AdmitFails(r)
         \/ \E i \in Ids : Cancel(i)
         \/ Sleep \/ EndAdmit \/ Execute \/ ExecuteFails \/ CachePrompt \/ EndCollect
         \/ DropSample \/ BeginStop \/ TerminateCache \/ UNCHANGED vars
  PROVE  Quiet
<1> USE ListsAsTheyAre DEF sharedVars, handleVars, batchVars, itemVars, cacheVars
<1>1. ASSUME NEW r \in Requests, DeadlinePasses(r) PROVE Quiet
  BY <1>1 DEF DeadlinePasses, Quiet
<1>2. ASSUME NEW r \in Requests, VisitLive(r) PROVE Quiet
  BY <1>2 DEF VisitLive, Visit, Quiet
<1>3. ASSUME NEW r \in Requests, AdmitEvict(r) PROVE Quiet
  BY <1>3 DEF AdmitEvict, Evict, Candidate, At, Phases, Quiet
<1>4. ASSUME NEW r \in Requests, AdmitFails(r) PROVE Quiet
  BY <1>4 DEF AdmitFails, Quiet
<1>5. ASSUME NEW i \in Ids, Cancel(i) PROVE Quiet
  BY <1>5 DEF Cancel, Notify, Phases, Quiet
<1>6. CASE Sleep
  BY <1>6 DEF Sleep, Phases, Quiet
<1>7. CASE EndAdmit
  BY <1>7 DEF EndAdmit, Phases, Quiet
<1>8. CASE Execute
  <2>1. PICK decode \in Orders(Decoding), prefill \in Orders(active \ Decoding) :
        \E plan \in Plans(decode, prefill, [r \in active |-> Remaining(r)]) :
          kv' = Fed(plan) /\ batch' = plan.prefills /\ samples' = plan.decodes
    BY <1>8 DEF Execute
  <2>2. PICK plan \in Plans(decode, prefill, [r \in active |-> Remaining(r)]) :
          batch' = plan.prefills /\ samples' = plan.decodes
    BY <2>1
  <2>3. QED
    BY <1>8, <2>2, PlanIsActive DEF Execute, Phases, Quiet
<1>9. CASE ExecuteFails
  BY <1>9 DEF ExecuteFails, Phases, Quiet
<1>10. CASE CachePrompt
  <2>1. CASE CacheHit
    BY <2>1 DEF CacheHit, Quiet
  <2>2. CASE CacheEvict
    BY <2>2 DEF CacheEvict, Evict, At, Phases, Quiet
  <2>3. CASE CacheInsert
    BY <2>3 DEF CacheInsert, At, Phases, Quiet
  <2>4. QED
    BY <1>10, <2>1, <2>2, <2>3 DEF CachePrompt
<1>11. CASE EndCollect
  BY <1>11 DEF EndCollect, Phases, Quiet
<1>12. CASE DropSample
  BY <1>12, TailAccepted DEF DropSample, At, Quiet
<1>13. CASE BeginStop
  BY <1>13 DEF BeginStop, At, Phases, Quiet
<1>14. CASE TerminateCache
  BY <1>14 DEF TerminateCache, Evict, At, Phases, Quiet
<1>15. CASE UNCHANGED vars
  BY <1>15 DEF vars, Quiet
<1>16. QED
  BY <1>1, <1>2, <1>3, <1>4, <1>5, <1>6, <1>7, <1>8, <1>9, <1>10, <1>11, <1>12,
     <1>13, <1>14, <1>15

-----------------------------------------------------------------------------
(***************************************************************************)
(* The clients' steps.                                                     *)
(***************************************************************************)
LEMMA IdsOfRequests == \A r \in Requests : IdOf[r] \in Ids
  BY EngineAssumption DEF Ids

LEMMA TakeStep == ASSUME IInv, NEW r \in Requests, ClientNext(r) PROVE IInv'
<1> USE DEF ClientNext, sharedVars, batchVars, itemVars, cacheVars
<1>1. events[r] \in Seq(Event) /\ events[r] # <<>>
  BY DEF IInv, Shape
<1>2. Tail(events[r]) \in Seq(Event)
  BY <1>1, HeadTailProperties
<1>3. Shape' /\ ItemShape'
  BY <1>2 DEF IInv, Shape, ItemShape
<1>4. AcceptedOnly' /\ EndsOnce' /\ DrainsLast'
  BY DEF IInv, AcceptedOnly, EndsOnce, DrainsLast, Accepted
<1>5. RegistryIsExact' /\ NoRequestIsLost'
  BY DEF IInv, RegistryIsExact, NoRequestIsLost, Live, Undone
<1>6. QED
  BY <1>3, <1>4, <1>5 DEF IInv

LEMMA AcceptStep == ASSUME IInv, NEW r \in Requests, Accept(r) PROVE IInv'
<1> USE DEF Accept, batchVars, itemVars, cacheVars
<1>1. /\ status[r] = "new" /\ ~stopping /\ ~failed /\ registry[IdOf[r]] = None
      /\ IdOf[r] \in Ids /\ r # None
  BY IdsOfRequests, EngineAssumption DEF Acceptable
<1>2. ~finished[r] /\ ending # r
  BY <1>1 DEF IInv, EndsOnce, Accepted
<1>3. Accepted' = Accepted \cup {r}
  BY DEF Accepted, IInv, Shape
<1>4. /\ Append(incoming, r) \in Seq(Requests)
      /\ Range(Append(incoming, r)) = Range(incoming) \cup {r}
  BY AppendedTable DEF IInv, Shape
<1>5. /\ pc' \in Phases
      /\ pc' \in {"drain", "terminate", "stopped", "close"} <=> pc \in {"drain", "terminate", "stopped", "close"}
      /\ pc' = "close" <=> pc = "close"
  BY DEF Notify, IInv, Shape, Phases
<1>6. pc' \notin {"terminate", "stopped"}
  BY <1>1, <1>5 DEF IInv, DrainsLast, Notify
<1>7. Shape'
  BY <1>4, <1>5 DEF IInv, Shape
<1>8. ItemShape'
  BY DEF IInv, ItemShape
<1>9. AcceptedOnly'
  BY <1>3, <1>4 DEF IInv, AcceptedOnly
<1>10. EndsOnce' /\ DrainsLast'
  BY <1>1, <1>3, <1>5 DEF IInv, EndsOnce, DrainsLast, Notify
<1>11. \A q \in Requests : Live(q)' <=> Live(q) \/ q = r
  BY <1>1, <1>2 DEF Live, IInv, Shape
<1>12. RegistryIsExact'
  <2>1. \A q \in Requests : q # r /\ IdOf[q] = IdOf[r] => ~Live(q)
    BY <1>1, EngineAssumption DEF IInv, RegistryIsExact
  <2>2. QED
    BY <1>1, <1>11, <2>1, IdsOfRequests DEF IInv, RegistryIsExact, Shape
<1>13. NoRequestIsLost'
  BY <1>4, <1>6, <1>11 DEF IInv, NoRequestIsLost, Undone
<1>14. QED
  BY <1>7, <1>8, <1>9, <1>10, <1>12, <1>13 DEF IInv

LEMMA RejectStep == ASSUME IInv, NEW r \in Requests, Reject(r) PROVE IInv'
<1> USE DEF Reject, sharedVars, batchVars, itemVars, cacheVars
<1>1. Accepted' = Accepted
  BY DEF Accepted, IInv, Shape
<1>2. Shape' /\ ItemShape'
  BY DEF IInv, Shape, ItemShape
<1>3. AcceptedOnly' /\ EndsOnce' /\ DrainsLast'
  BY <1>1 DEF IInv, AcceptedOnly, EndsOnce, DrainsLast
<1>4. \A q \in Requests : Live(q)' <=> Live(q)
  BY DEF Live, IInv, Shape
<1>5. RegistryIsExact' /\ NoRequestIsLost'
  BY <1>4 DEF IInv, RegistryIsExact, NoRequestIsLost, Undone
<1>6. QED
  BY <1>2, <1>3, <1>5 DEF IInv

LEMMA StopStep == ASSUME IInv, Stop PROVE IInv'
<1> USE DEF Stop, handleVars, batchVars, itemVars, cacheVars
<1>1. pc' \in Phases /\ (pc' = pc \/ pc' = "loop") /\ stopping'
  BY DEF Notify, IInv, Shape, Phases
<1>2. Shape' /\ ItemShape'
  BY <1>1 DEF IInv, Shape, ItemShape
<1>3. AcceptedOnly' /\ EndsOnce' /\ DrainsLast'
  BY <1>1 DEF IInv, AcceptedOnly, EndsOnce, DrainsLast, Accepted
<1>4. RegistryIsExact'
  BY DEF IInv, RegistryIsExact, Live
<1>5. NoRequestIsLost'
  BY <1>1 DEF IInv, NoRequestIsLost, Live, Undone
<1>6. QED
  BY <1>2, <1>3, <1>4, <1>5 DEF IInv

-----------------------------------------------------------------------------
(***************************************************************************)
(* The end of a request.                                                   *)
(***************************************************************************)
\* terminal() of an accepted request: it and no other stops being live.
LEMMA TerminalEnds ==
  ASSUME IInv, ending = None, NEW r \in Accepted, NEW why \in Terminals, Terminal(r, why),
         UNCHANGED <<status, finished>>
  PROVE  /\ registry' \in [Ids -> Requests \cup {None}]
         /\ ending' \in Requests \cup {None}
         /\ reason' \in Terminals \cup {None}
         /\ counters' \in [Outcome -> Nat]
         /\ ending' # None => ending' \in Accepted /\ ~finished[ending'] /\ reason' \in Terminals
         /\ \A q \in Requests : Live(q)' <=> Live(q) /\ q # r
         /\ RegistryIsExact'
<1>1. r \in Requests /\ r # None /\ status[r] = "accepted" /\ IdOf[r] \in Ids
  BY IdsOfRequests, EngineAssumption DEF Accepted
<1>2. CASE finished[r]
  <2>1. UNCHANGED endVars
    BY <1>2 DEF Terminal
  <2>2. \A q \in Requests : Live(q)' <=> Live(q)
    BY <2>1 DEF endVars, Live
  <2>3. ~Live(r)
    BY <1>2 DEF Live
  <2>4. QED
    BY <2>1, <2>2, <2>3 DEF endVars, IInv, Shape, EndsOnce, RegistryIsExact
<1>3. CASE ~finished[r]
  <2>1. /\ counters' = [counters EXCEPT ![CounterOf(why)] = @ + 1]
        /\ registry' = [registry EXCEPT ![IdOf[r]] = None]
        /\ ending' = r /\ reason' = why
    BY <1>3 DEF Terminal
  <2>2. Live(r) /\ registry[IdOf[r]] = r
    BY <1>1, <1>3, EngineAssumption DEF Live, IInv, RegistryIsExact
  <2>3. \A q \in Requests : Live(q)' <=> Live(q) /\ q # r
    BY <1>1, <2>1, EngineAssumption DEF Live
  <2>4. RegistryIsExact'
    <3>1. /\ registry \in [Ids -> Requests \cup {None}] /\ None \notin Requests
          /\ \A q \in Requests : IdOf[q] \in Ids
      BY IdsOfRequests, EngineAssumption DEF IInv, Shape
    <3>2. \A i \in Ids : registry'[i] = IF i = IdOf[r] THEN None ELSE registry[i]
      BY <2>1, <3>1
    <3>3. /\ \A q \in Requests : Live(q) <=> registry[IdOf[q]] = q
          /\ \A i \in Ids : registry[i] # None => IdOf[registry[i]] = i
      BY DEF IInv, RegistryIsExact
    <3>4. ASSUME NEW q \in Requests PROVE Live(q)' <=> registry'[IdOf[q]] = q
      BY <2>2, <2>3, <3>1, <3>2, <3>3
    <3>5. ASSUME NEW i \in Ids, registry'[i] # None PROVE IdOf[registry'[i]] = i
      BY <3>2, <3>3, <3>5
    <3>6. QED
      BY <3>4, <3>5 DEF RegistryIsExact
  <2>5. counters' \in [Outcome -> Nat]
    <3>1. CounterOf(why) \in Outcome
      BY DEF CounterOf, Outcome, Terminals
    <3>2. QED
      BY <2>1, <3>1 DEF IInv, Shape
  <2>6. QED
    BY <1>1, <1>3, <2>1, <2>3, <2>4, <2>5 DEF IInv, Shape
<1>4. QED
  BY <1>2, <1>3

LEMMA EmitTerminalStep == ASSUME IInv, EmitTerminal PROVE IInv'
<1> USE DEF EmitTerminal, sharedVars, batchVars, itemVars, cacheVars
<1>1. /\ ending \in Requests /\ ending \in Accepted /\ ~finished[ending]
      /\ reason \in Terminals /\ pc # "close"
  BY DEF IInv, EndsOnce, Accepted
<1>2. [kind |-> reason, n |-> item[ending].generated] \in Event
  BY <1>1 DEF IInv, ItemShape, Event
<1>3. Shape'
  BY <1>1, <1>2 DEF IInv, Shape
<1>4. ItemShape' /\ AcceptedOnly' /\ DrainsLast'
  BY DEF IInv, ItemShape, AcceptedOnly, DrainsLast, Accepted
<1>5. EndsOnce'
  BY <1>1 DEF IInv, EndsOnce, Accepted, Shape
<1>6. \A q \in Requests : Live(q)' <=> Live(q)
  BY <1>1, EngineAssumption DEF Live, IInv, Shape
<1>7. RegistryIsExact' /\ NoRequestIsLost'
  BY <1>6 DEF IInv, RegistryIsExact, NoRequestIsLost, Undone
<1>8. QED
  BY <1>3, <1>4, <1>5, <1>7 DEF IInv

\* finish() marks the item.
LEMMA FinishEnds ==
  ASSUME IInv, NEW r \in Accepted, NEW why, Finish(r, why), UNCHANGED active
  PROVE  ItemShape' /\ Undone' = Undone \ {r}
<1>1. r \in Requests
  BY DEF Accepted
<1>2. item' = [item EXCEPT ![r].blocks = <<>>, ![r].done = TRUE]
  BY DEF Finish
<1>3. /\ item' = [q \in Requests |-> item'[q]]
      /\ item'[r] = [item[r] EXCEPT !.blocks = <<>>, !.done = TRUE]
      /\ \A q \in Requests \ {r} : item'[q] = item[q]
  BY <1>1, <1>2 DEF IInv, ItemShape
<1>4. item'[r] = [sequence |-> item[r].sequence, blocks |-> <<>>,
                  processed |-> item[r].processed, generated |-> item[r].generated,
                  done |-> TRUE]
  BY <1>1, <1>3 DEF IInv, ItemShape
<1>5. ItemShape'
  BY <1>1, <1>3, <1>4 DEF IInv, ItemShape
<1>6. active \subseteq Requests
  BY DEF IInv, AcceptedOnly, Accepted
<1>7. QED
  BY <1>3, <1>4, <1>5, <1>6 DEF Undone

\* A step that ends r, and takes it out of the waiting requests or finishes
\* its item.
Ends(r, why) ==
  /\ ending = None /\ why \in Terminals /\ Terminal(r, why)
  /\ UNCHANGED <<status, events, finished, incoming, stopping, failed, batch>>
  /\ waiting \ {r} \subseteq waiting' /\ waiting' \subseteq waiting
  /\ active' = active /\ ItemShape' /\ Undone \ {r} \subseteq Undone'
  /\ todo' \subseteq todo
  /\ samples' = samples \/ (samples # <<>> /\ samples' = Tail(samples))
  /\ pc' = IF pc = "close" THEN "emit" ELSE pc

LEMMA EndStep == ASSUME IInv, NEW r \in Accepted, NEW why, Ends(r, why) PROVE IInv'
<1> USE DEF Ends
<1>1. samples' \in Seq(Requests) /\ \A i \in 1..Len(samples') : samples'[i] \in Accepted
  BY ListsAsTheyAre, TailAccepted
<1>2. /\ registry' \in [Ids -> Requests \cup {None}]
      /\ ending' \in Requests \cup {None}
      /\ reason' \in Terminals \cup {None}
      /\ counters' \in [Outcome -> Nat]
      /\ ending' # None => ending' \in Accepted /\ ~finished[ending'] /\ reason' \in Terminals
      /\ \A q \in Requests : Live(q)' <=> Live(q) /\ q # r
      /\ RegistryIsExact'
  BY TerminalEnds
<1>3. pc' \in Phases /\ pc' # "close"
      /\ (pc' \in {"drain", "terminate", "stopped"} => pc' = pc)
  BY ListsAsTheyAre DEF Phases
<1>4. Shape'
  BY <1>1, <1>2, <1>3 DEF IInv, Shape
<1>5. Accepted' = Accepted
  BY DEF Accepted
<1>6. AcceptedOnly'
  BY <1>1, <1>5 DEF IInv, AcceptedOnly
<1>7. EndsOnce' /\ DrainsLast'
  BY <1>2, <1>3, <1>5 DEF IInv, EndsOnce, DrainsLast
<1>8. NoRequestIsLost'
  BY <1>2, <1>3 DEF IInv, NoRequestIsLost
<1>9. QED
  BY <1>2, <1>4, <1>6, <1>7, <1>8 DEF IInv

\* An exception on the way leaves the requests as they were.
Throwing ==
  /\ UNCHANGED <<status, events, finished, ending, registry, incoming, waiting, active, item,
                 stopping, failed, reason, counters, batch>>
  /\ todo' \subseteq todo
  /\ samples' = samples \/ (samples # <<>> /\ samples' = Tail(samples))
  /\ pc' = "catch"

LEMMA ThrowStep == ASSUME IInv, Throwing PROVE Quiet
<1>1. samples' \in Seq(Requests) /\ \A i \in 1..Len(samples') : samples'[i] \in Accepted
  BY ListsAsTheyAre, TailAccepted DEF Throwing
<1>2. QED
  BY <1>1, ListsAsTheyAre DEF Throwing, Quiet, Phases

LEMMA ReasonsAreTerminals ==
  ASSUME NEW r
  PROVE  ExpiryReason(r) \in Terminals /\ LastReason \in Terminals
  BY DEF ExpiryReason, LastReason, Terminals

LEMMA EndSteps ==
  ASSUME IInv,
         \/ \E r \in Requests : \/ ExpireWaiting(r) \/ ExpireActive(r)
                               \/ TerminateActive(r) \/ TerminateWaiting(r)
         \/ Close
  PROVE  Quiet \/ \E r \in Accepted : \E why \in Terminals : Ends(r, why)
<1> USE DEF handleVars, batchVars, At
<1>1. ASSUME NEW r \in Requests, ExpireWaiting(r)
      PROVE  Quiet \/ \E q \in Accepted : \E why \in Terminals : Ends(q, why)
  <2>1. r \in Accepted
    BY <1>1 DEF ExpireWaiting, IInv, AcceptedOnly
  <2>2. ItemShape' /\ Undone' = Undone
    BY <1>1 DEF ExpireWaiting, IInv, ItemShape, Undone
  <2>3. Ends(r, ExpiryReason(r))
    BY <1>1, <2>2, ReasonsAreTerminals DEF ExpireWaiting, Visit, Ends
  <2>4. QED
    BY <2>1, <2>3, ReasonsAreTerminals
<1>2. ASSUME NEW r \in Requests, ExpireActive(r)
      PROVE  Quiet \/ \E q \in Accepted : \E why \in Terminals : Ends(q, why)
  <2>1. r \in Accepted
    BY <1>2 DEF ExpireActive, IInv, AcceptedOnly
  <2>2. CASE Finish(r, ExpiryReason(r)) /\ UNCHANGED pc
    <3>1. ItemShape' /\ Undone' = Undone \ {r}
      BY <1>2, <2>1, <2>2, FinishEnds DEF ExpireActive
    <3>2. Ends(r, ExpiryReason(r))
      BY <1>2, <2>2, <3>1, ReasonsAreTerminals DEF ExpireActive, Visit, Finish, Ends
    <3>3. QED
      BY <2>1, <3>2, ReasonsAreTerminals
  <2>3. CASE FinishThrows(r)
    <3>1. Throwing
      BY <1>2, <2>3 DEF ExpireActive, Visit, FinishThrows, endVars, Throwing
    <3>2. QED
      BY <3>1, ThrowStep
  <2>4. QED
    BY <1>2, <2>2, <2>3 DEF ExpireActive
<1>3. ASSUME NEW r \in Requests, TerminateActive(r)
      PROVE  Quiet \/ \E q \in Accepted : \E why \in Terminals : Ends(q, why)
  <2>1. r \in Accepted
    BY <1>3 DEF TerminateActive, Undone, IInv, AcceptedOnly
  <2>2. CASE Finish(r, LastReason) /\ UNCHANGED pc
    <3>1. ItemShape' /\ Undone' = Undone \ {r}
      BY <1>3, <2>1, <2>2, FinishEnds DEF TerminateActive
    <3>2. Ends(r, LastReason)
      BY <1>3, <2>2, <3>1, ReasonsAreTerminals DEF TerminateActive, Finish, Ends
    <3>3. QED
      BY <2>1, <3>2, ReasonsAreTerminals
  <2>3. CASE FinishThrows(r)
    <3>1. Throwing
      BY <1>3, <2>3 DEF TerminateActive, FinishThrows, endVars, Throwing
    <3>2. QED
      BY <3>1, ThrowStep
  <2>4. QED
    BY <1>3, <2>2, <2>3 DEF TerminateActive
<1>4. ASSUME NEW r \in Requests, TerminateWaiting(r)
      PROVE  Quiet \/ \E q \in Accepted : \E why \in Terminals : Ends(q, why)
  <2>1. r \in Accepted
    BY <1>4 DEF TerminateWaiting, IInv, AcceptedOnly
  <2>2. ItemShape' /\ Undone' = Undone
    BY <1>4 DEF TerminateWaiting, IInv, ItemShape, Undone
  <2>3. Ends(r, LastReason)
    BY <1>4, <2>2, ReasonsAreTerminals DEF TerminateWaiting, Ends
  <2>4. QED
    BY <2>1, <2>3, ReasonsAreTerminals
<1>5. CASE Close
  <2>1. samples # <<>> /\ reason \in Terminals
    BY <1>5 DEF Close, IInv, EndsOnce
  <2>2. Head(samples) \in Accepted
    BY <2>1, TailAccepted
  <2>3. CASE Finish(Head(samples), reason) /\ pc' = "emit"
    <3>1. ItemShape' /\ Undone' = Undone \ {Head(samples)}
      BY <1>5, <2>2, <2>3, FinishEnds DEF Close
    <3>2. Ends(Head(samples), reason)
      BY <1>5, <2>1, <2>3, <3>1 DEF Close, Finish, Ends
    <3>3. QED
      BY <2>1, <2>2, <3>2
  <2>4. CASE FinishThrows(Head(samples))
    <3>1. Throwing
      BY <1>5, <2>1, <2>4 DEF Close, FinishThrows, endVars, Throwing
    <3>2. QED
      BY <3>1, ThrowStep
  <2>5. QED
    BY <1>5, <2>3, <2>4 DEF Close
<1>6. QED
  BY <1>1, <1>2, <1>3, <1>4, <1>5

-----------------------------------------------------------------------------
(***************************************************************************)
(* The steps that move requests from one collection to another.            *)
(***************************************************************************)
\* What such a step keeps: nothing is ended, and whoever was in a collection
\* still is in one.
Moves ==
  /\ UNCHANGED <<status, finished, ending, registry, stopping, counters>>
  /\ failed' \in BOOLEAN /\ (failed => failed')
  /\ events' \in [Requests -> Seq(Event)]
  /\ incoming' \in Seq(Requests)
  /\ pc' \in Phases /\ reason' \in Terminals \cup {None}
  /\ batch' \in Seq(Slices) /\ samples' \in Seq(Requests)
  /\ ItemShape'
  /\ Range(incoming') \cup waiting' \cup active' \cup todo' \subseteq Accepted
  /\ \A i \in 1..Len(batch') : batch'[i].key \in Accepted
  /\ \A i \in 1..Len(samples') : samples'[i] \in Accepted
  /\ ending # None => reason' = reason
  /\ pc' = "close" => ending = None /\ samples' # <<>> /\ reason' \in Terminals
  /\ pc' \in {"drain", "terminate", "stopped"} => stopping \/ failed'
  /\ (IF pc \in {"terminate", "stopped"} THEN {} ELSE Range(incoming))
       \cup waiting \cup Undone
     \subseteq (IF pc' \in {"terminate", "stopped"} THEN {} ELSE Range(incoming'))
                 \cup waiting' \cup Undone'

LEMMA MoveStep == ASSUME IInv, Moves PROVE IInv'
<1> USE DEF Moves
<1>1. Accepted' = Accepted
  BY DEF Accepted
<1>2. Shape' /\ ItemShape'
  BY DEF IInv, Shape
<1>3. AcceptedOnly'
  BY <1>1 DEF AcceptedOnly
<1>4. EndsOnce' /\ DrainsLast'
  BY <1>1 DEF IInv, EndsOnce, DrainsLast
<1>5. \A q \in Requests : Live(q)' <=> Live(q)
  BY DEF Live
<1>6. RegistryIsExact'
  BY <1>5 DEF IInv, RegistryIsExact
<1>7. NoRequestIsLost'
  BY <1>5 DEF IInv, NoRequestIsLost
<1>8. QED
  BY <1>2, <1>3, <1>4, <1>6, <1>7 DEF IInv

\* The lists, once more, as a step that moves requests needs them.
LEMMA CollectionsAsTheyAre ==
  ASSUME IInv
  PROVE  /\ incoming \in Seq(Requests) /\ reason \in Terminals \cup {None}
         /\ failed \in BOOLEAN
         /\ Range(incoming) \subseteq Accepted /\ waiting \subseteq Accepted
         /\ active \subseteq Accepted /\ todo \subseteq Accepted
         /\ Undone \subseteq active /\ Accepted \subseteq Requests
         /\ pc = "close" => ending = None
  BY DEF IInv, Shape, AcceptedOnly, EndsOnce, Undone, Accepted

LEMMA EmptySequence == ASSUME NEW S PROVE <<>> \in Seq(S) /\ Len(<<>>) = 0 /\ Range(<<>>) = {}
  BY DEF Range

\* erase_finished() keeps the undone.
LEMMA EraseKeeps ==
  ASSUME IInv, EraseFinished PROVE ItemShape' /\ Undone' = Undone /\ active' = Undone
<1>1. \A r \in Requests : item'[r] = IF r \in Undone THEN item[r] ELSE NoItem
  BY DEF EraseFinished
<1>2. item' = [r \in Requests |-> item'[r]]
  BY DEF EraseFinished
<1>3. NoItem.generated \in Nat /\ NoItem.done \in BOOLEAN
      /\ NoItem = [sequence |-> NoItem.sequence, blocks |-> NoItem.blocks,
                   processed |-> NoItem.processed, generated |-> NoItem.generated,
                   done |-> NoItem.done]
  BY DEF NoItem
<1>4. ItemShape'
  BY <1>1, <1>2, <1>3 DEF IInv, ItemShape
<1>5. active' = Undone /\ Undone \subseteq Requests
  BY CollectionsAsTheyAre DEF EraseFinished
<1>6. \A r \in Undone : item'[r] = item[r] /\ ~item[r].done
  BY <1>1, <1>5 DEF Undone
<1>7. QED
  BY <1>4, <1>5, <1>6 DEF Undone

LEMMA DrainMoves ==
  ASSUME IInv, Drain
  PROVE  /\ incoming' \in Seq(Requests) /\ Range(incoming') = {}
         /\ waiting' = waiting \cup Range(incoming) /\ waiting' \subseteq Accepted
  BY CollectionsAsTheyAre, EmptySequence DEF Drain

\* A step that replaces one item, or counts tokens of it, keeps the others.
LEMMA OneItemChanges ==
  ASSUME IInv, NEW r \in Requests, NEW s, NEW blocks, NEW n, NEW g \in Nat, NEW done \in BOOLEAN,
         item' = [item EXCEPT ![r] = [sequence |-> s, blocks |-> blocks, processed |-> n,
                                      generated |-> g, done |-> done]]
  PROVE  /\ ItemShape' /\ item'[r].done = done
         /\ \A q \in Requests \ {r} : item'[q] = item[q]
<1>1. /\ item' = [q \in Requests |-> item'[q]]
      /\ item'[r] = [sequence |-> s, blocks |-> blocks, processed |-> n,
                     generated |-> g, done |-> done]
      /\ \A q \in Requests \ {r} : item'[q] = item[q]
  BY DEF IInv, ItemShape
<1>2. QED
  BY <1>1 DEF IInv, ItemShape

LEMMA CountingKeeps ==
  ASSUME IInv, NEW r \in Accepted, NEW k, UNCHANGED active,
         \/ item' = [item EXCEPT ![r].processed = @ + k]
         \/ item' = [item EXCEPT ![r].generated = @ + 1]
  PROVE  ItemShape' /\ Undone' = Undone
<1>1. r \in Requests /\ active \subseteq Requests
  BY DEF Accepted, IInv, AcceptedOnly
<1>2. \E n, g : g \in Nat /\
        item' = [item EXCEPT ![r] = [sequence |-> item[r].sequence, blocks |-> item[r].blocks,
                                     processed |-> n, generated |-> g, done |-> item[r].done]]
  <2>1. CASE item' = [item EXCEPT ![r].processed = @ + k]
    <3>1. [item[r] EXCEPT !.processed = @ + k]
            = [sequence |-> item[r].sequence, blocks |-> item[r].blocks,
               processed |-> item[r].processed + k, generated |-> item[r].generated,
               done |-> item[r].done]
      BY <1>1 DEF IInv, ItemShape
    <3>2. QED
      BY <1>1, <2>1, <3>1 DEF IInv, ItemShape
  <2>2. CASE item' = [item EXCEPT ![r].generated = @ + 1]
    <3>1. [item[r] EXCEPT !.generated = @ + 1]
            = [sequence |-> item[r].sequence, blocks |-> item[r].blocks,
               processed |-> item[r].processed, generated |-> item[r].generated + 1,
               done |-> item[r].done]
      BY <1>1 DEF IInv, ItemShape
    <3>2. item[r].generated + 1 \in Nat
      BY <1>1 DEF IInv, ItemShape
    <3>3. item' = [item EXCEPT ![r] = [item[r] EXCEPT !.generated = @ + 1]]
      BY <1>1, <2>2 DEF IInv, ItemShape
    <3>4. QED
      BY <3>1, <3>2, <3>3
  <2>3. QED
    BY <2>1, <2>2
<1>3. PICK n, g : /\ g \in Nat
                  /\ item' = [item EXCEPT ![r] =
                               [sequence |-> item[r].sequence, blocks |-> item[r].blocks,
                                processed |-> n, generated |-> g, done |-> item[r].done]]
  BY <1>2
<1>4. item[r].done \in BOOLEAN
  BY <1>1 DEF IInv, ItemShape
<1>5. ItemShape' /\ item'[r].done = item[r].done /\ \A q \in Requests \ {r} : item'[q] = item[q]
  BY <1>1, <1>3, <1>4, OneItemChanges
<1>6. QED
  BY <1>1, <1>5 DEF Undone

LEMMA MoveSteps ==
  ASSUME IInv,
         \/ BeginIteration \/ EndExpire \/ (\E r \in Requests : Admit(r))
         \/ Collect \/ EmitToken \/ EmitThrows \/ EndIteration
         \/ Catch \/ DrainLast \/ EndTerminate
  PROVE  Moves /\ (UNCHANGED events \/ EmitToken)
<1> USE ListsAsTheyAre, CollectionsAsTheyAre
    DEF handleVars, sharedVars, batchVars, itemVars, cacheVars, At
<1>1. CASE BeginIteration
  <2>1. ItemShape' /\ Undone' = Undone
    BY <1>1 DEF BeginIteration, IInv, ItemShape, Undone
  <2>2. Moves
    BY <1>1, <2>1, DrainMoves DEF BeginIteration, Phases, Moves
  <2>3. QED
    BY <2>2, <1>1 DEF BeginIteration
<1>2. CASE EndExpire
  <2>1. Moves
    BY <1>2, EraseKeeps DEF EndExpire, Phases, Moves
  <2>2. QED
    BY <2>1, <1>2 DEF EndExpire
<1>3. ASSUME NEW r \in Requests, Admit(r)
      PROVE  Moves /\ (UNCHANGED events \/ EmitToken)
  <2> DEFINE shared == IF Reusable(r) = 0 THEN <<>>
                       ELSE SubSeq(cache[Source(r)].blocks, 1, Reusable(r) \div BlockSize)
             fresh  == CHOOSE t \in FreshTables(refs, NewBlocks(r)) : TRUE
             s      == CHOOSE s \in freeSeqs : TRUE
             blocks == shared \o fresh
  <2>1. PICK ok \in Outcomes :
          /\ item' = [item EXCEPT ![r] =
                        [sequence |-> s, blocks |-> blocks, processed |-> Reusable(r),
                         generated |-> 0, done |-> FALSE]]
          /\ active' = active \cup {r}
          /\ waiting' = IF ok THEN waiting \ {r} ELSE waiting
          /\ pc' = IF ok THEN "admit" ELSE "catch"
    BY <1>3, Zenon DEF Admit
  <2> HIDE DEF s, blocks
  <2>2. r \in waiting /\ pc = "admit" /\ ending = None
    BY <1>3 DEF Admit, Candidate
  <2>3. ItemShape' /\ ~item'[r].done /\ \A q \in Requests \ {r} : item'[q] = item[q]
    BY <2>1, OneItemChanges
  <2>4. Undone' = Undone \cup {r}
    BY <2>1, <2>3 DEF Undone
  <2>5. Moves
    BY <1>3, <2>1, <2>2, <2>3, <2>4 DEF Admit, Phases, Moves
  <2>6. QED
    BY <2>5, <1>3 DEF Admit
<1>4. CASE Collect
  <2>1. /\ batch # <<>> /\ batch' = Tail(batch) /\ pc = "collect"
        /\ item' = [item EXCEPT ![Head(batch).key].processed = @ + Head(batch).tokens]
        /\ samples' = samples \/ samples' = Append(samples, Head(batch).key)
    BY <1>4 DEF Collect
  <2>2. /\ Head(batch).key \in Accepted
        /\ batch' \in Seq(Slices) /\ \A i \in 1..Len(batch') : batch'[i].key \in Accepted
    BY <2>1, BatchTailAccepted
  <2>3. samples' \in Seq(Requests) /\ \A i \in 1..Len(samples') : samples'[i] \in Accepted
    BY <2>1, <2>2, AppendAccepted
  <2>4. active' = active
    BY <1>4 DEF Collect
  <2>5. ItemShape' /\ Undone' = Undone
    BY <2>1, <2>2, <2>4, CountingKeeps
  <2>6. Moves
    BY <1>4, <2>1, <2>2, <2>3, <2>5 DEF Collect, Phases, Moves
  <2>7. QED
    BY <2>6, <1>4 DEF Collect
<1>5. CASE EmitToken
  <2> DEFINE r == Head(samples)
  <2>1. PICK eog \in BOOLEAN :
          /\ item' = [item EXCEPT ![r].generated = @ + 1]
          /\ events' = (IF HasRoom(r) THEN [events EXCEPT ![r] = Append(@, TokenEvent(r))]
                        ELSE events)
          /\ reason' = Verdict(r, eog)
          /\ IF Verdict(r, eog) = None
             THEN samples' = Tail(samples) /\ pc' = pc
             ELSE pc' = "close" /\ samples' = samples
    BY <1>5 DEF EmitToken
  <2>2. samples # <<>> /\ ending = None /\ pc = "emit"
    BY <1>5 DEF EmitToken
  <2>3. r \in Accepted
    BY <2>2, TailAccepted
  <2>4. Verdict(r, eog) \in Terminals \cup {None}
    BY DEF Verdict, Terminals
  <2> HIDE DEF r
  <2>5. active' = active
    BY <1>5 DEF EmitToken
  <2>6. ItemShape' /\ Undone' = Undone
    BY <2>1, <2>3, <2>5, CountingKeeps
  <2>7. events' \in [Requests -> Seq(Event)]
    <3>1. TokenEvent(r) \in Event
      BY <2>3 DEF TokenEvent, Event, IInv, ItemShape
    <3>2. QED
      BY <2>1, <2>3, <3>1
  <2>8. samples' \in Seq(Requests) /\ \A i \in 1..Len(samples') : samples'[i] \in Accepted
    BY <2>1, <2>2, TailAccepted
  <2>9. Moves
    BY <1>5, <2>1, <2>2, <2>4, <2>6, <2>7, <2>8 DEF EmitToken, Phases, Moves
  <2>10. QED
    BY <2>9, <1>5
<1>6. CASE EmitThrows
  <2>1. /\ samples # <<>> /\ ending = None
        /\ item' = [item EXCEPT ![Head(samples)].generated = @ + 1]
    BY <1>6 DEF EmitThrows
  <2>2. Head(samples) \in Accepted
    BY <2>1, TailAccepted
  <2>3. active' = active
    BY <1>6 DEF EmitThrows
  <2>4. ItemShape' /\ Undone' = Undone
    BY <2>1, <2>2, <2>3, CountingKeeps
  <2>5. Moves
    BY <1>6, <2>4 DEF EmitThrows, Phases, Moves
  <2>6. QED
    BY <2>5, <1>6 DEF EmitThrows
<1>7. CASE EndIteration
  <2>1. Moves
    BY <1>7, EraseKeeps DEF EndIteration, Phases, Moves
  <2>2. QED
    BY <2>1, <1>7 DEF EndIteration
<1>8. CASE Catch
  <2>1. ItemShape' /\ Undone' = Undone
    BY <1>8 DEF Catch, IInv, ItemShape, Undone
  <2>2. Moves
    BY <1>8, <2>1, EmptySequence DEF Catch, Phases, Moves
  <2>3. QED
    BY <2>2, <1>8 DEF Catch
<1>9. CASE DrainLast
  <2>1. ItemShape' /\ Undone' = Undone
    BY <1>9 DEF DrainLast, IInv, ItemShape, Undone
  <2>2. Moves
    BY <1>9, <2>1, DrainMoves DEF DrainLast, Phases, Moves
  <2>3. QED
    BY <2>2, <1>9 DEF DrainLast
<1>10. CASE EndTerminate
  <2>1. Moves
    BY <1>10, EraseKeeps DEF EndTerminate, Phases, Moves
  <2>2. QED
    BY <2>1, <1>10 DEF EndTerminate
<1>11. QED
  BY <1>1, <1>2, <1>3, <1>4, <1>5, <1>6, <1>7, <1>8, <1>9, <1>10

-----------------------------------------------------------------------------
(***************************************************************************)
(* Every step is of one of these kinds.                                    *)
(***************************************************************************)
LEMMA StepKinds ==
  ASSUME IInv, [Next]_vars
  PROVE  \/ Quiet
         \/ Moves /\ (UNCHANGED events \/ EmitToken)
         \/ Stop \/ EmitTerminal
         \/ \E r \in Requests : ClientNext(r) \/ Accept(r) \/ Reject(r)
         \/ \E r \in Accepted : \E why \in Terminals : Ends(r, why)
<1>1. CASE Worker
  BY <1>1, QuietSteps, MoveSteps, EndSteps
     DEF Worker, Emission, Termination, Expire, Admission
<1>2. CASE Client
  BY <1>2, QuietSteps DEF Client
<1>3. CASE Stopped \/ UNCHANGED vars
  BY <1>3, QuietSteps DEF Stopped
<1>4. QED
  BY <1>1, <1>2, <1>3 DEF Next

LEMMA NextIInv == IInv /\ [Next]_vars => IInv'
  BY StepKinds, QuietStep, MoveStep, StopStep, EmitTerminalStep, TakeStep, AcceptStep,
     RejectStep, EndStep

LEMMA InitIInv == Init => IInv
<1> SUFFICES ASSUME Init PROVE IInv
  OBVIOUS
<1> USE DEF Init
<1>1. <<>> \in Seq(Requests) /\ <<>> \in Seq(Slices) /\ <<>> \in Seq(Event)
      /\ Range(<<>>) = {} /\ Len(<<>>) = 0
  BY EmptySequence
<1>2. pc \in {"loop", "stopped"} /\ (pc = "stopped" => failed) /\ failed \in BOOLEAN
  BY DEF Outcomes
<1>3. Shape
  BY <1>1, <1>2 DEF Shape, Phases, Outcome
<1>4. ItemShape
  BY DEF ItemShape, NoItem
<1>5. AcceptedOnly /\ EndsOnce /\ DrainsLast
  BY <1>1, <1>2 DEF AcceptedOnly, EndsOnce, DrainsLast
<1>6. RegistryIsExact /\ NoRequestIsLost
  BY IdsOfRequests, EngineAssumption DEF RegistryIsExact, NoRequestIsLost, Live
<1>7. QED
  BY <1>3, <1>4, <1>5, <1>6 DEF IInv

\* What the steps of the worker and of its clients keep true of the requests.
THEOREM InvariantHolds == Spec => []IInv
<1>1. QED
  BY InitIInv, NextIInv, PTL DEF Spec

\* The registry names exactly the live requests, so that terminal() erases
\* by id what it means to, and submit() refuses exactly the ids in flight.
THEOREM RegistryExact == Spec => []RegistryIsExact
<1>1. IInv => RegistryIsExact
  BY DEF IInv
<1>2. QED
  BY <1>1, InvariantHolds, PTL

\* Whatever races with stop() or with a failure, an accepted request stays in
\* a collection that the worker will still go through.
THEOREM NoneLost == Spec => []NoRequestIsLost
<1>1. IInv => NoRequestIsLost
  BY DEF IInv
<1>2. QED
  BY <1>1, InvariantHolds, PTL

-----------------------------------------------------------------------------
(***************************************************************************)
(* The statistics.                                                         *)
(***************************************************************************)
Balance(c) == c["completed"] + c["cancelled"] + c["timed_out"] + c["failed"]

LEMMA OneMoreCounted ==
  ASSUME NEW c \in [Outcome -> Nat], NEW k \in Outcome
  PROVE  Balance([c EXCEPT ![k] = @ + 1]) = Balance(c) + 1
<1> DEFINE d == [c EXCEPT ![k] = @ + 1]
<1>1. \A o \in Outcome : c[o] \in Nat /\ d[o] = IF o = k THEN c[o] + 1 ELSE c[o]
  OBVIOUS
<1> HIDE DEF d
<1>2. k \in {"completed", "cancelled", "timed_out", "failed"}
  BY DEF Outcome
<1>3. QED
  <2>1. Balance(d) = Balance(c) + 1
    BY <1>1, <1>2 DEF Balance, Outcome
  <2>2. QED
    BY <2>1 DEF d

LEMMA CountedOnce ==
  ASSUME IInv, NEW r \in Accepted, NEW why \in Terminals, Ends(r, why), CountersBalance
  PROVE  CountersBalance'
<1> USE DEF Ends
<1>1. r \in Requests /\ status[r] = "accepted" /\ status' = status /\ ending = None /\ r # None
  BY EngineAssumption DEF Accepted
<1>2. \A q \in Requests : Live(q)' <=> Live(q) /\ q # r
  BY TerminalEnds
<1>3. CASE finished[r]
  <2>1. counters' = counters /\ ~Live(r)
    BY <1>3 DEF Terminal, endVars, Live
  <2>2. Ended' = Ended
    BY <1>1, <1>2, <2>1 DEF Ended
  <2>3. QED
    BY <2>1, <2>2 DEF CountersBalance
<1>4. CASE ~finished[r]
  <2>1. Live(r) /\ counters' = [counters EXCEPT ![CounterOf(why)] = @ + 1]
    BY <1>1, <1>4 DEF Terminal, Live
  <2>2. Ended' = Ended \cup {r} /\ r \notin Ended
    BY <1>1, <1>2, <2>1 DEF Ended
  <2>3. IsFiniteSet(Ended)
    BY RequestsFit, FS_Subset DEF Ended
  <2>4. Cardinality(Ended') = Cardinality(Ended) + 1
    BY <2>2, <2>3, FS_AddElement
  <2>5. CounterOf(why) \in Outcome
    BY DEF CounterOf, Outcome, Terminals
  <2>6. Balance(counters') = Balance(counters) + 1
    BY <2>1, <2>5, OneMoreCounted DEF IInv, Shape
  <2>7. QED
    BY <2>4, <2>6 DEF CountersBalance, Balance
<1>5. QED
  BY <1>3, <1>4

\* Every accepted request is outstanding or counted once, also when the
\* worker meets it in two collections, or twice after an exception.
THEOREM CountersExact == Spec => []CountersBalance
<1>1. Init => CountersBalance
  <2> SUFFICES ASSUME Init PROVE CountersBalance
    OBVIOUS
  <2>1. Ended = {}
    BY DEF Init, Ended
  <2>2. QED
    BY <2>1, FS_EmptySet DEF Init, CountersBalance
<1>2. IInv /\ CountersBalance /\ [Next]_vars => CountersBalance'
  <2> SUFFICES ASSUME IInv, CountersBalance, [Next]_vars PROVE CountersBalance'
    OBVIOUS
  <2>1. ASSUME UNCHANGED <<counters, status>>, \A q \in Requests : Live(q)' <=> Live(q)
        PROVE  CountersBalance'
    <3>1. Ended' = Ended
      BY <2>1 DEF Ended
    <3>2. QED
      BY <2>1, <3>1 DEF CountersBalance
  <2>2. CASE Quiet
    BY <2>1, <2>2 DEF Quiet, Live
  <2>3. CASE Moves
    BY <2>1, <2>3 DEF Moves, Live
  <2>4. CASE Stop
    BY <2>1, <2>4 DEF Stop, handleVars, Live
  <2>5. CASE EmitTerminal
    <3>1. ending \in Requests /\ ~finished[ending]
      BY <2>5 DEF EmitTerminal, IInv, EndsOnce, Accepted
    <3>2. \A q \in Requests : Live(q)' <=> Live(q)
      BY <2>5, <3>1, EngineAssumption DEF EmitTerminal, Live, IInv, Shape
    <3>3. QED
      BY <2>1, <2>5, <3>2 DEF EmitTerminal
  <2>6. ASSUME NEW r \in Requests, ClientNext(r) PROVE CountersBalance'
    BY <2>1, <2>6 DEF ClientNext, Live
  <2>7. ASSUME NEW r \in Requests, Reject(r) PROVE CountersBalance'
    <3>1. Ended' = Ended /\ counters' = counters
      BY <2>7 DEF Reject, Ended, Live, IInv, Shape
    <3>2. QED
      BY <3>1 DEF CountersBalance
  <2>8. ASSUME NEW r \in Requests, Accept(r) PROVE CountersBalance'
    <3>1. ~finished[r] /\ ending # r
      BY <2>8, EngineAssumption DEF Accept, IInv, EndsOnce, Accepted
    <3>2. Ended' = Ended /\ counters' = counters
      BY <2>8, <3>1 DEF Accept, Ended, Live, IInv, Shape
    <3>3. QED
      BY <3>2 DEF CountersBalance
  <2>9. QED
    BY StepKinds, CountedOnce, <2>2, <2>3, <2>4, <2>5, <2>6, <2>7, <2>8
<1>3. QED
  BY <1>1, <1>2, InvariantHolds, PTL DEF Spec

-----------------------------------------------------------------------------
(***************************************************************************)
(* The Engine implements a RequestStream for each request.                 *)
(***************************************************************************)
LEMMA KindsInStream ==
  ASSUME NEW stream \in Seq(Event)
  PROVE  \A i \in 1..Len(stream) : stream[i].kind \in Terminals \cup {"token"}
<1>1. \A i \in 1..Len(stream) : stream[i] \in Event
  BY ElementOfSeq
<1>2. \A e \in Event : e.kind \in Terminals \cup {"token"}
  BY DEF Event
<1>3. QED
  BY <1>1, <1>2

\* The kinds of a buffer follow what is put into it and taken from it.
LEMMA KindsOfAppend ==
  ASSUME NEW stream \in Seq(Event), NEW e \in Event
  PROVE  Kinds(Append(stream, e)) = Append(Kinds(stream), e.kind)
<1>1. /\ Len(stream) \in Nat /\ Append(stream, e) \in Seq(Event)
      /\ Len(Append(stream, e)) = Len(stream) + 1
      /\ \A i \in 1..(Len(stream) + 1) :
           Append(stream, e)[i] = IF i = Len(stream) + 1 THEN e ELSE stream[i]
  BY AppendProperties, LenProperties
<1> DEFINE Kind == Terminals \cup {"token"}
<1>2. \A i \in 1..Len(stream) : stream[i].kind \in Kind
  BY KindsInStream
<1>3. Kinds(stream) \in Seq(Kind) /\ Len(Kinds(stream)) = Len(stream)
  BY <1>1, <1>2 DEF Kinds
<1>4. \A i \in 1..Len(stream) : Kinds(stream)[i] = stream[i].kind
  BY DEF Kinds
<1>5. e.kind \in Kind
  BY DEF Event
<1> HIDE DEF Kind
<1>6. Append(Kinds(stream), e.kind)
        = [i \in 1..(Len(stream) + 1) |->
             IF i = Len(stream) + 1 THEN e.kind ELSE stream[i].kind]
  BY <1>1, <1>3, <1>4, <1>5
<1>7. Kinds(Append(stream, e))
        = [i \in 1..(Len(stream) + 1) |->
             IF i = Len(stream) + 1 THEN e.kind ELSE stream[i].kind]
  BY <1>1 DEF Kinds
<1>8. QED
  BY <1>6, <1>7

LEMMA SequenceIsFunction ==
  ASSUME NEW S, NEW t \in Seq(S) PROVE t = [i \in 1..Len(t) |-> t[i]]
  BY LenProperties

LEMMA KindsOfTail ==
  ASSUME NEW stream \in Seq(Event), stream # <<>>
  PROVE  Kinds(stream) # <<>> /\ Kinds(Tail(stream)) = Tail(Kinds(stream))
<1> DEFINE Kind == Terminals \cup {"token"}
<1>1. \A i \in 1..Len(stream) : stream[i].kind \in Kind
  BY KindsInStream
<1>2. Len(stream) \in Nat /\ Len(stream) > 0
  BY LenProperties, EmptySeq
<1>3. /\ Kinds(stream) \in Seq(Kind) /\ Len(Kinds(stream)) = Len(stream)
      /\ \A i \in 1..Len(stream) : Kinds(stream)[i] = stream[i].kind
  BY <1>1, <1>2 DEF Kinds
<1> HIDE DEF Kind
<1>4. Kinds(stream) # <<>>
  BY <1>2, <1>3
<1>5. Tail(Kinds(stream)) = [i \in 1..(Len(stream) - 1) |-> stream[i + 1].kind]
  <2> DEFINE kinds == Kinds(stream)
  <2>1. /\ kinds \in Seq(Kind) /\ kinds # <<>> /\ Len(kinds) = Len(stream)
        /\ \A i \in 1..(Len(stream) - 1) : kinds[i + 1] = stream[i + 1].kind
    BY <1>2, <1>3, <1>4
  <2> HIDE DEF kinds
  <2>2. Tail(kinds) \in Seq(Kind) /\ Len(Tail(kinds)) = Len(kinds) - 1
    BY <2>1, HeadTailProperties
  <2>3. \A i \in 1..(Len(kinds) - 1) : Tail(kinds)[i] = kinds[i + 1]
    BY <2>1, <2>2, HeadTailProperties
  <2>4. Tail(kinds) = [i \in 1..(Len(stream) - 1) |-> Tail(kinds)[i]]
    BY <2>1, <2>2, SequenceIsFunction
  <2>5. QED
    BY <1>2, <2>1, <2>3, <2>4 DEF kinds
<1>6. Kinds(Tail(stream)) = [i \in 1..(Len(stream) - 1) |-> stream[i + 1].kind]
  BY <1>2, HeadTailProperties DEF Kinds
<1>7. QED
  BY <1>4, <1>5, <1>6

LEMMA KindsLength ==
  ASSUME NEW stream \in Seq(Event) PROVE Len(Kinds(stream)) = Len(stream)
  BY LenProperties DEF Kinds

LEMMA StreamInit == Init => Stream!StreamInit
<1> SUFFICES ASSUME Init PROVE Stream!StreamInit
  OBVIOUS
<1>1. Kinds(<<>>) = <<>>
  BY EmptySequence DEF Kinds
<1>2. \A r \in Requests : PhaseOf(r) = "new" /\ events[r] = <<>>
  BY DEF Init, PhaseOf
<1>3. QED
  BY <1>1, <1>2 DEF Stream!StreamInit

\* A step that changes neither phases nor events is a stutter.
LEMMA StreamStutters ==
  ASSUME UNCHANGED <<status, events, finished>> PROVE UNCHANGED Stream!streamVars
  BY DEF Stream!streamVars, PhaseOf

LEMMA StreamStep ==
  ASSUME IInv, [Next]_vars PROVE [Stream!StreamNext]_(Stream!streamVars)
<1> DEFINE phase  == [r \in Requests |-> PhaseOf(r)]
           buffer == [r \in Requests |-> Kinds(events[r])]
<1>1. CASE \/ Quiet \/ Stop \/ (Moves /\ UNCHANGED events)
           \/ \E r \in Accepted : \E why \in Terminals : Ends(r, why)
  <2>1. UNCHANGED <<status, events, finished>>
    BY <1>1 DEF Quiet, Stop, handleVars, Moves, Ends
  <2>2. QED
    BY <2>1, StreamStutters
<1>2. ASSUME NEW r \in Requests, ClientNext(r) PROVE Stream!Take(r)
  <2>1. events[r] \in Seq(Event) /\ events[r] # <<>> /\ events' = [events EXCEPT ![r] = Tail(@)]
        /\ UNCHANGED <<status, finished>> /\ events \in [Requests -> Seq(Event)]
    BY <1>2 DEF ClientNext, IInv, Shape
  <2>2. Kinds(events[r]) # <<>> /\ Kinds(Tail(events[r])) = Tail(Kinds(events[r]))
    BY <2>1, KindsOfTail
  <2>3. buffer[r] # <<>> /\ buffer' = [buffer EXCEPT ![r] = Tail(@)]
    BY <2>1, <2>2
  <2>4. phase' = phase
    BY <2>1 DEF PhaseOf
  <2>5. QED
    BY <2>3, <2>4 DEF Stream!Take
<1>3. ASSUME NEW r \in Requests, Accept(r) PROVE Stream!Submit(r)
  <2>1. status[r] = "new" /\ status' = [status EXCEPT ![r] = "accepted"]
        /\ UNCHANGED <<events, finished>> /\ status = [q \in Requests |-> status[q]]
    BY <1>3 DEF Accept, IInv, Shape
  <2>2. ~finished[r]
    BY <2>1 DEF IInv, EndsOnce, Accepted
  <2>3. phase[r] = "new" /\ phase' = [phase EXCEPT ![r] = "open"]
    BY <2>1, <2>2 DEF PhaseOf
  <2>4. buffer' = buffer
    BY <2>1
  <2>5. QED
    BY <2>3, <2>4 DEF Stream!Submit
<1>4. ASSUME NEW r \in Requests, Reject(r) PROVE Stream!Reject(r)
  <2>1. status[r] = "new" /\ status' = [status EXCEPT ![r] = "rejected"]
        /\ UNCHANGED <<events, finished>> /\ status = [q \in Requests |-> status[q]]
    BY <1>4 DEF Reject, IInv, Shape
  <2>2. phase[r] = "new" /\ phase' = [phase EXCEPT ![r] = "rejected"]
    BY <2>1 DEF PhaseOf
  <2>3. buffer' = buffer
    BY <2>1
  <2>4. QED
    BY <2>2, <2>3 DEF Stream!Reject
<1>5. CASE EmitTerminal
  <2> DEFINE e == [kind |-> reason, n |-> item[ending].generated]
  <2>1. /\ ending \in Requests /\ status[ending] = "accepted" /\ ~finished[ending]
        /\ reason \in Terminals /\ events[ending] \in Seq(Event) /\ e \in Event
        /\ events \in [Requests -> Seq(Event)] /\ finished \in [Requests -> BOOLEAN]
    BY <1>5 DEF EmitTerminal, IInv, EndsOnce, Accepted, Shape, ItemShape, Event
  <2>2. /\ events' = [events EXCEPT ![ending] = Append(@, e)]
        /\ finished' = [finished EXCEPT ![ending] = TRUE] /\ status' = status
    BY <1>5 DEF EmitTerminal
  <2>3. Kinds(Append(events[ending], e)) = Append(Kinds(events[ending]), reason)
    BY <2>1, KindsOfAppend
  <2> HIDE DEF e
  <2>4. buffer' = [buffer EXCEPT ![ending] = Append(@, reason)]
    BY <2>1, <2>2, <2>3
  <2>5. phase[ending] = "open" /\ phase' = [phase EXCEPT ![ending] = "closed"]
    BY <2>1, <2>2 DEF PhaseOf
  <2>6. Stream!PutTerminal(ending)
    BY <2>1, <2>4, <2>5 DEF Stream!PutTerminal
  <2>7. QED
    BY <2>1, <2>6 DEF Stream!StreamNext
<1>6. CASE EmitToken
  <2> DEFINE r == Head(samples)
  <2>1. /\ UNCHANGED <<status, finished>>
        /\ events' = IF HasRoom(r) THEN [events EXCEPT ![r] = Append(@, TokenEvent(r))] ELSE events
        /\ samples # <<>>
    BY <1>6 DEF EmitToken
  <2>2. r \in Requests /\ status[r] = "accepted"
    BY <2>1, TailAccepted DEF Accepted
  <2> HIDE DEF r
  <2>3. CASE ~HasRoom(r)
    BY <2>1, <2>3, StreamStutters
  <2>4. CASE HasRoom(r)
    <3>1. /\ events[r] \in Seq(Event) /\ events \in [Requests -> Seq(Event)]
          /\ TokenEvent(r) \in Event /\ TokenEvent(r).kind = "token"
      <4>1. item[r].generated + 1 \in Nat
        BY <2>2 DEF IInv, ItemShape
      <4>2. TokenEvent(r) \in Event /\ TokenEvent(r).kind = "token"
        BY <4>1 DEF TokenEvent, Event
      <4>3. QED
        BY <2>2, <4>2 DEF IInv, Shape
    <3>2. Kinds(Append(events[r], TokenEvent(r))) = Append(Kinds(events[r]), "token")
      BY <3>1, KindsOfAppend
    <3>3. buffer' = [buffer EXCEPT ![r] = Append(@, "token")]
      BY <2>1, <2>2, <2>4, <3>1, <3>2
    <3>4. Len(buffer[r]) < EventBuffer
      BY <2>2, <2>4, <3>1, KindsLength DEF HasRoom
    <3>5. phase[r] = "open" /\ phase' = phase
      BY <2>1, <2>2, <2>4 DEF HasRoom, PhaseOf
    <3>6. Stream!PutToken(r)
      BY <3>3, <3>4, <3>5 DEF Stream!PutToken
    <3>7. QED
      BY <2>2, <3>6 DEF Stream!StreamNext
  <2>5. QED
    BY <2>3, <2>4
<1>7. QED
  BY StepKinds, <1>1, <1>2, <1>3, <1>4, <1>5, <1>6 DEF Stream!StreamNext

\* What a client sees of each request is a RequestStream: a bounded buffer of
\* tokens and one terminal event, last, whatever the worker goes through.
THEOREM EngineStreams == Spec => IsRequestStream
<1>1. Spec => Stream!StreamInit /\ [][Stream!StreamNext]_(Stream!streamVars)
  BY StreamInit, StreamStep, InvariantHolds, PTL DEF Spec
<1>2. QED
  BY <1>1 DEF IsRequestStream, Stream!StreamSpec

-----------------------------------------------------------------------------
(***************************************************************************)
(* What follows from any RequestStream for a client that reads it.  A      *)
(* stream that is not closed keeps room for its terminal event.            *)
(***************************************************************************)
GoodStream(phase, buffer) ==
  /\ phase \in {"new", "rejected", "open", "closed"}
  /\ buffer \in Seq(Terminals \cup {"token"})
  /\ \A i \in 1..Len(buffer) : buffer[i] \in Terminals <=> phase = "closed" /\ i = Len(buffer)
  /\ Len(buffer) <= IF phase = "closed" THEN EventBuffer + 1 ELSE EventBuffer

StreamInv == \A r \in Requests : GoodStream(PhaseOf(r), Kinds(events[r]))

LEMMA TokenInStream ==
  ASSUME NEW b, GoodStream("open", b), Len(b) < EventBuffer
  PROVE  GoodStream("open", Append(b, "token"))
<1>1. /\ b \in Seq(Terminals \cup {"token"}) /\ Len(b) \in Nat /\ EventBuffer \in Nat
      /\ \A i \in 1..Len(b) : b[i] \notin Terminals
  BY EngineAssumption, LenProperties DEF GoodStream
<1>2. /\ Append(b, "token") \in Seq(Terminals \cup {"token"})
      /\ Len(Append(b, "token")) = Len(b) + 1
      /\ \A i \in 1..Len(b) : Append(b, "token")[i] = b[i]
      /\ Append(b, "token")[Len(b) + 1] = "token"
  BY <1>1, AppendProperties
<1>3. "token" \notin Terminals
  BY DEF Terminals
<1> HIDE DEF Terminals
<1>4. \A i \in 1..(Len(b) + 1) : Append(b, "token")[i] \notin Terminals
  BY <1>1, <1>2, <1>3
<1>5. QED
  BY <1>1, <1>2, <1>4 DEF GoodStream

LEMMA TerminalInStream ==
  ASSUME NEW b, GoodStream("open", b), NEW kind \in Terminals
  PROVE  GoodStream("closed", Append(b, kind))
<1>1. /\ b \in Seq(Terminals \cup {"token"}) /\ Len(b) \in Nat /\ EventBuffer \in Nat
      /\ Len(b) <= EventBuffer /\ \A i \in 1..Len(b) : b[i] \notin Terminals
  BY EngineAssumption, LenProperties DEF GoodStream
<1>2. /\ Append(b, kind) \in Seq(Terminals \cup {"token"}) /\ Len(Append(b, kind)) = Len(b) + 1
      /\ \A i \in 1..Len(b) : Append(b, kind)[i] = b[i]
      /\ Append(b, kind)[Len(b) + 1] = kind
  BY <1>1, AppendProperties
<1>3. \A i \in 1..(Len(b) + 1) : Append(b, kind)[i] \in Terminals <=> i = Len(b) + 1
  BY <1>1, <1>2
<1>4. QED
  BY <1>1, <1>2, <1>3 DEF GoodStream

LEMMA TakenFromStream ==
  ASSUME NEW p, NEW b, GoodStream(p, b), b # <<>> PROVE GoodStream(p, Tail(b))
  BY EngineAssumption DEF GoodStream

\* What the actions of a stream leave of another one, and of their own.
LEMMA StreamInvStays == StreamInv /\ [Stream!StreamNext]_(Stream!streamVars) => StreamInv'
<1> DEFINE phase  == [r \in Requests |-> PhaseOf(r)]
           buffer == [r \in Requests |-> Kinds(events[r])]
<1> SUFFICES ASSUME \A r \in Requests : GoodStream(phase[r], buffer[r]),
                    [Stream!StreamNext]_(Stream!streamVars)
             PROVE  \A r \in Requests : GoodStream(phase'[r], buffer'[r])
  BY DEF StreamInv
<1>1. CASE UNCHANGED Stream!streamVars
  <2>1. phase' = phase /\ buffer' = buffer
    BY <1>1 DEF Stream!streamVars
  <2> HIDE DEF phase, buffer
  <2>2. QED
    BY <2>1
<1>2. ASSUME NEW r \in Requests, NEW p, NEW b, GoodStream(p, b),
             phase' = [phase EXCEPT ![r] = p], buffer' = [buffer EXCEPT ![r] = b]
      PROVE  \A q \in Requests : GoodStream(phase'[q], buffer'[q])
  <2>1. DOMAIN phase = Requests /\ DOMAIN buffer = Requests
    OBVIOUS
  <2> HIDE DEF phase, buffer
  <2>2. QED
    BY <1>2, <2>1
<1>3. ASSUME NEW r \in Requests, Stream!Submit(r) \/ Stream!Reject(r)
      PROVE  \E p : GoodStream(p, buffer[r]) /\ phase' = [phase EXCEPT ![r] = p] /\ buffer' = buffer
  <2>1. /\ phase[r] = "new" /\ buffer' = buffer
        /\ phase' = [phase EXCEPT ![r] = "open"] \/ phase' = [phase EXCEPT ![r] = "rejected"]
    BY <1>3 DEF Stream!Submit, Stream!Reject
  <2> HIDE DEF phase, buffer
  <2>2. GoodStream("open", buffer[r]) /\ GoodStream("rejected", buffer[r])
    BY <2>1 DEF GoodStream
  <2>3. QED
    BY <2>1, <2>2
<1>4. ASSUME NEW r \in Requests, Stream!PutToken(r) \/ Stream!Take(r)
      PROVE  \E b : GoodStream(phase[r], b) /\ buffer' = [buffer EXCEPT ![r] = b] /\ phase' = phase
  <2>1. /\ phase' = phase
        /\ \/ /\ phase[r] = "open" /\ Len(buffer[r]) < EventBuffer
              /\ buffer' = [buffer EXCEPT ![r] = Append(buffer[r], "token")]
           \/ buffer[r] # <<>> /\ buffer' = [buffer EXCEPT ![r] = Tail(buffer[r])]
    BY <1>4 DEF Stream!PutToken, Stream!Take
  <2> HIDE DEF phase, buffer
  <2>2. QED
    BY <2>1, TokenInStream, TakenFromStream
<1>5. ASSUME NEW r \in Requests, Stream!PutTerminal(r)
      PROVE  \E b : /\ GoodStream("closed", b) /\ phase' = [phase EXCEPT ![r] = "closed"]
                    /\ buffer' = [buffer EXCEPT ![r] = b]
  <2>1. PICK kind \in Terminals : buffer' = [buffer EXCEPT ![r] = Append(buffer[r], kind)]
    BY <1>5 DEF Stream!PutTerminal
  <2>2. phase[r] = "open" /\ phase' = [phase EXCEPT ![r] = "closed"]
    BY <1>5 DEF Stream!PutTerminal
  <2> HIDE DEF phase, buffer
  <2>3. QED
    BY <2>1, <2>2, TerminalInStream
<1>6. \A r \in Requests : /\ [phase EXCEPT ![r] = phase[r]] = phase
                          /\ [buffer EXCEPT ![r] = buffer[r]] = buffer
  OBVIOUS
<1>7. Stream!StreamNext => \A q \in Requests : GoodStream(phase'[q], buffer'[q])
  <2> SUFFICES ASSUME NEW r \in Requests,
                      \/ Stream!Submit(r) \/ Stream!Reject(r) \/ Stream!PutToken(r)
                      \/ Stream!PutTerminal(r) \/ Stream!Take(r)
               PROVE  \A q \in Requests : GoodStream(phase'[q], buffer'[q])
    BY DEF Stream!StreamNext
  <2> HIDE DEF phase, buffer
  <2>1. CASE Stream!Submit(r) \/ Stream!Reject(r)
    BY <2>1, <1>2, <1>3, <1>6
  <2>2. CASE Stream!PutToken(r) \/ Stream!Take(r)
    BY <2>2, <1>2, <1>4, <1>6
  <2>3. CASE Stream!PutTerminal(r)
    BY <2>3, <1>2, <1>5
  <2>4. QED
    BY <2>1, <2>2, <2>3
<1>8. QED
  BY <1>1, <1>7

LEMMA StreamInvHolds == IsRequestStream => []StreamInv
<1>1. Stream!StreamInit => StreamInv
  <2> SUFFICES ASSUME Stream!StreamInit, NEW r \in Requests PROVE GoodStream(PhaseOf(r), Kinds(events[r]))
    BY DEF StreamInv
  <2>1. /\ [q \in Requests |-> PhaseOf(q)][r] = "new"
        /\ [q \in Requests |-> Kinds(events[q])][r] = <<>>
    BY DEF Stream!StreamInit
  <2>2. PhaseOf(r) = "new" /\ Kinds(events[r]) = <<>>
    BY <2>1
  <2>3. GoodStream("new", <<>>)
    <3>1. <<>> \in Seq(Terminals \cup {"token"}) /\ Len(<<>>) = 0
      OBVIOUS
    <3>2. QED
      BY <3>1, EngineAssumption DEF GoodStream
  <2>4. QED
    BY <2>2, <2>3
<1>2. QED
  BY <1>1, StreamInvStays, PTL DEF IsRequestStream, Stream!StreamSpec

\* Nothing follows a terminal event, and a reader that takes everything
\* sees it last, once: what next() relies on when it reports the end.
THEOREM TerminalLast == Spec => []Stream!TerminalComesLast
<1>1. StreamInv => Stream!TerminalComesLast
  BY DEF StreamInv, GoodStream, Stream!TerminalComesLast
<1>2. QED
  BY <1>1, EngineStreams, StreamInvHolds, PTL

\* emit() bounds what a slow client costs.
THEOREM BufferBounded == Spec => []Stream!BufferIsBounded
<1>1. StreamInv => Stream!BufferIsBounded
  <2> SUFFICES ASSUME StreamInv, NEW r \in Requests PROVE Len(Kinds(events[r])) <= EventBuffer + 1
    BY DEF Stream!BufferIsBounded
  <2>1. Len(Kinds(events[r])) \in Nat /\ EventBuffer \in Nat
    BY EngineAssumption, LenProperties DEF StreamInv, GoodStream
  <2>2. Len(Kinds(events[r])) <= EventBuffer \/ Len(Kinds(events[r])) <= EventBuffer + 1
    BY DEF StreamInv, GoodStream
  <2>3. QED
    BY <2>1, <2>2
<1>2. QED
  BY <1>1, EngineStreams, StreamInvHolds, PTL

-----------------------------------------------------------------------------
(***************************************************************************)
(* The sequences.  First, that a match names an entry of the cache, and    *)
(* that the order of use stays a list of the entries, each once.           *)
(***************************************************************************)
\* An entry of the namespace that begins with the m tokens matched.
Shares(index, owner, ns, tokens, m) ==
  /\ owner \in DOMAIN index /\ index[owner].ns = ns
  /\ Len(index[owner].tokens) >= m
  /\ SubSeq(index[owner].tokens, 1, m) = SubSeq(tokens, 1, m)

\* A match names an entry of the namespace, which begins with the tokens matched.
LEMMA MatchIsAnEntry ==
  ASSUME NEW index, DOMAIN index \subseteq Nat, NEW ns, NEW S, NEW tokens \in Seq(S),
         NEW limit \in Int, NEW m, m = MatchedTokens(index, ns, tokens, limit),
         NEW owner, owner = MatchedOwner(index, ns, tokens, m)
  PROVE  /\ m \in 0..Len(tokens) /\ (m # 0 => m <= limit)
         /\ m # 0 => Shares(index, owner, ns, tokens, m)
<1> DEFINE Lengths == {0} \cup {n \in 1..Min({Len(tokens), limit}) :
                  /\ n % BlockSize = 0
                  /\ Owners(index, ns, SubSeq(tokens, 1, n)) # {}}
           owners == Owners(index, ns, SubSeq(tokens, 1, m))
<1>1. m = Max(Lengths) /\ Len(tokens) \in Nat
  BY LenProperties DEF MatchedTokens
<1>2. Lengths \in SUBSET Nat /\ 0 \in Lengths
  OBVIOUS
<1>3. \A x \in Lengths : x <= Len(tokens) /\ (x # 0 => x <= limit)
  <2>1. /\ Min({Len(tokens), limit}) \in Int
        /\ Min({Len(tokens), limit}) <= Len(tokens) /\ Min({Len(tokens), limit}) <= limit
    <3>1. \E x \in {Len(tokens), limit} : \A y \in {Len(tokens), limit} : x =< y
      BY <1>1
    <3>2. /\ Min({Len(tokens), limit}) \in {Len(tokens), limit}
          /\ \A y \in {Len(tokens), limit} : Min({Len(tokens), limit}) =< y
      BY <3>1 DEF Min
    <3>3. QED
      BY <1>1, <3>2
  <2>2. QED
    BY <1>1, <2>1
<1>4. \E x \in Lengths : \A y \in Lengths : x >= y
  <2> HIDE DEF Lengths
  <2>1. QED
    BY <1>1, <1>2, <1>3, GreatestExists
<1>5. m \in Lengths
  <2> HIDE DEF Lengths
  <2>1. QED
    BY <1>1, <1>4 DEF Max
<1>6. m \in 0..Len(tokens) /\ (m # 0 => m <= limit)
  <2> HIDE DEF Lengths
  <2>1. QED
    BY <1>1, <1>2, <1>3, <1>5
<1>7. ASSUME m # 0 PROVE Shares(index, owner, ns, tokens, m)
  <2>1. owners # {} /\ owners \subseteq DOMAIN index
    BY <1>5, <1>7 DEF Owners
  <2>2. Len(SubSeq(tokens, 1, m)) = m
    BY <1>6, PrefixTable
  <2>3. \A x \in owners : /\ index[x].ns = ns /\ Len(index[x].tokens) >= m
                          /\ SubSeq(index[x].tokens, 1, m) = SubSeq(tokens, 1, m)
    BY <2>2 DEF Owners
  <2>4. \E x \in owners : \A y \in owners : x <= y
    <3>1. owners \in SUBSET Nat
      BY <2>1
    <3> HIDE DEF owners
    <3>2. QED
      BY <2>1, <3>1, LeastExists
  <2>5. Min(owners) \in owners
    <3> HIDE DEF owners
    <3>1. QED
      BY <2>4 DEF Min
  <2>6. owner \in owners
    BY <2>5 DEF MatchedOwner
  <2> HIDE DEF owners
  <2>7. QED
    BY <2>1, <2>3, <2>6 DEF Shares
<1>8. QED
  BY <1>6, <1>7

-----------------------------------------------------------------------------
\* The order of use is a list of the entries, each once.
Order(t, S) == t \in Seq(S) /\ IsInjective(t)

LEMMA TailOfOrder ==
  ASSUME NEW S, NEW t, Order(t, S), t # <<>>
  PROVE  Order(Tail(t), S) /\ Range(Tail(t)) = Range(t) \ {Head(t)} /\ Head(t) \in Range(t)
<1>1. /\ t \in Seq(S) /\ Len(t) \in Nat /\ Len(t) >= 1 /\ DOMAIN t = 1..Len(t) /\ Head(t) = t[1]
      /\ Tail(t) \in Seq(S) /\ Len(Tail(t)) = Len(t) - 1 /\ DOMAIN Tail(t) = 1..(Len(t) - 1)
      /\ \A i \in 1..(Len(t) - 1) : Tail(t)[i] = t[i + 1]
  <2>1. t \in Seq(S) /\ Len(t) \in Nat /\ DOMAIN t = 1..Len(t)
    BY LenProperties DEF Order
  <2>2. Len(t) >= 1
    BY <2>1, EmptySeq
  <2>3. /\ Head(t) = t[1] /\ Tail(t) \in Seq(S) /\ Len(Tail(t)) = Len(t) - 1
        /\ \A i \in 1..Len(Tail(t)) : Tail(t)[i] = t[i + 1]
    BY <2>1, HeadTailProperties
  <2>4. DOMAIN Tail(t) = 1..(Len(t) - 1)
    BY <2>3, LenProperties
  <2>5. QED
    BY <2>1, <2>2, <2>3, <2>4
<1>2. \A i, j \in 1..Len(t) : t[i] = t[j] => i = j
  BY <1>1 DEF Order, IsInjective
<1>3. IsInjective(Tail(t))
  BY <1>1, <1>2 DEF IsInjective
<1>4. ASSUME NEW x \in Range(Tail(t)) PROVE x \in Range(t) \ {Head(t)}
  <2>1. PICK i \in 1..(Len(t) - 1) : x = t[i + 1]
    BY <1>1, <1>4 DEF Range
  <2>2. i + 1 \in 1..Len(t) /\ i + 1 # 1 /\ 1 \in 1..Len(t)
    BY <1>1
  <2>3. QED
    BY <1>1, <1>2, <2>1, <2>2 DEF Range
<1>5. ASSUME NEW x \in Range(t), x # Head(t) PROVE x \in Range(Tail(t))
  <2>1. PICK i \in 1..Len(t) : x = t[i]
    BY <1>1, <1>5 DEF Range
  <2>2. i # 1
    BY <1>1, <1>5, <2>1
  <2>3. i - 1 \in 1..(Len(t) - 1) /\ (i - 1) + 1 = i
    BY <1>1, <2>2
  <2>4. QED
    BY <1>1, <2>1, <2>3 DEF Range
<1>6. Head(t) \in Range(t)
  BY <1>1 DEF Range
<1>7. QED
  BY <1>1, <1>3, <1>4, <1>5, <1>6 DEF Order

LEMMA AppendToOrder ==
  ASSUME NEW S, NEW t, Order(t, S), NEW e \in S, e \notin Range(t)
  PROVE  Order(Append(t, e), S) /\ Range(Append(t, e)) = Range(t) \cup {e}
<1>1. t \in Seq(S) /\ Len(t) \in Nat /\ DOMAIN t = 1..Len(t)
  BY LenProperties DEF Order
<1>2. /\ Append(t, e) \in Seq(S) /\ DOMAIN Append(t, e) = 1..(Len(t) + 1)
      /\ \A i \in 1..(Len(t) + 1) : Append(t, e)[i] = IF i = Len(t) + 1 THEN e ELSE t[i]
  BY <1>1, AppendProperties, LenProperties
<1>3. IsInjective(Append(t, e))
  <2>1. SUFFICES ASSUME NEW i \in 1..(Len(t) + 1), NEW j \in 1..(Len(t) + 1),
                        Append(t, e)[i] = Append(t, e)[j]
                 PROVE  i = j
    BY <1>2 DEF IsInjective
  <2>2. \A k \in 1..Len(t) : t[k] # e
    BY <1>1 DEF Range
  <2>3. \A k, l \in 1..Len(t) : t[k] = t[l] => k = l
    BY <1>1 DEF Order, IsInjective
  <2>4. QED
    BY <1>1, <1>2, <2>1, <2>2, <2>3
<1>4. QED
  BY <1>1, <1>2, <1>3, AppendedTable DEF Order

LEMMA OrderOfFewer ==
  ASSUME NEW S, NEW t, Order(t, S), NEW U, Range(t) \subseteq U PROVE Order(t, U)
<1>1. t \in Seq(S) /\ Len(t) \in Nat /\ DOMAIN t = 1..Len(t)
  BY LenProperties DEF Order
<1>2. t \in [1..Len(t) -> U]
  BY <1>1 DEF Range
<1>3. t \in Seq(U)
  BY <1>1, <1>2
<1>4. QED
  BY <1>3 DEF Order

LEMMA RangeOfOrder ==
  ASSUME NEW S, NEW t, Order(t, S) PROVE Range(t) \subseteq S
BY LenProperties, ElementOfSeq DEF Order, Range

\* A use moves an entry to the end.
LEMMA TouchedOrder ==
  ASSUME NEW S, NEW t, Order(t, S), NEW s \in Range(t)
  PROVE  Order(Touched(t, s), S) /\ Range(Touched(t, s)) = Range(t)
<1> DEFINE i == CHOOSE i \in DOMAIN t : t[i] = s
           u == SubSeq(t, 1, i - 1)
           v == SubSeq(t, i + 1, Len(t))
<1>1. t \in Seq(S) /\ Len(t) \in Nat /\ DOMAIN t = 1..Len(t) /\ \A k \in 1..Len(t) : t[k] \in S
  BY LenProperties, ElementOfSeq DEF Order
<1>2. i \in 1..Len(t) /\ t[i] = s
  BY <1>1 DEF Range
<1>3. Touched(t, s) = Append(u \o v, s)
  BY DEF Touched, Without
<1>4. \A k, l \in 1..Len(t) : t[k] = t[l] => k = l
  BY <1>1 DEF Order, IsInjective
<1> HIDE DEF i
<1>5. u \o v \in Seq(S) /\ DOMAIN (u \o v) = 1..(Len(t) - 1)
  BY <1>1, <1>2, CutOne
<1>6. \A k \in 1..(Len(t) - 1) : (u \o v)[k] = IF k < i THEN t[k] ELSE t[k + 1]
  BY <1>1, <1>2, CutOne
<1> HIDE DEF u, v
<1>7. \A k \in 1..(Len(t) - 1) :
        LET m == IF k < i THEN k ELSE k + 1 IN m \in 1..Len(t) /\ m # i /\ (u \o v)[k] = t[m]
  <2>1. \A k \in 1..(Len(t) - 1) :
          LET m == IF k < i THEN k ELSE k + 1 IN m \in 1..Len(t) /\ m # i
    BY <1>1, <1>2
  <2>2. QED
    BY <1>5, <1>6, <2>1
<1>8. Order(u \o v, S)
  <2>1. ASSUME NEW k \in 1..(Len(t) - 1), NEW l \in 1..(Len(t) - 1), (u \o v)[k] = (u \o v)[l]
        PROVE  k = l
    <3> DEFINE m(x) == IF x < i THEN x ELSE x + 1
    <3>1. m(k) \in 1..Len(t) /\ m(l) \in 1..Len(t) /\ t[m(k)] = t[m(l)]
      BY <1>7, <2>1
    <3>2. m(k) = m(l)
      BY <1>4, <3>1
    <3>3. QED
      BY <1>2, <3>2
  <2>2. QED
    BY <1>5, <1>6, <2>1 DEF Order, IsInjective
<1>9. Range(u \o v) = Range(t) \ {s}
  <2>1. ASSUME NEW x \in Range(u \o v) PROVE x \in Range(t) \ {s}
    <3>1. PICK k \in 1..(Len(t) - 1) : x = (u \o v)[k]
      BY <1>5, <1>6, <2>1 DEF Range
    <3>2. PICK l \in 1..Len(t) : l # i /\ x = t[l]
      BY <1>7, <3>1
    <3>3. QED
      BY <1>1, <1>2, <1>4, <3>2 DEF Range
  <2>2. ASSUME NEW x \in Range(t), x # s PROVE x \in Range(u \o v)
    <3>1. PICK l \in 1..Len(t) : x = t[l]
      BY <1>1, <2>2 DEF Range
    <3>2. l # i
      BY <1>2, <2>2, <3>1
    <3>3. CASE l < i
      <4>1. l \in 1..(Len(t) - 1) /\ (u \o v)[l] = t[l]
        <5>1. l \in 1..(Len(t) - 1)
          BY <1>1, <1>2, <3>3
        <5>2. QED
          BY <1>5, <1>6, <3>3, <5>1
      <4>2. QED
        BY <1>5, <1>6, <3>1, <4>1 DEF Range
    <3>4. CASE l > i
      <4>1. l - 1 \in 1..(Len(t) - 1) /\ ~(l - 1 < i) /\ (l - 1) + 1 = l
        BY <1>1, <1>2, <3>4
      <4>2. (u \o v)[l - 1] = t[l]
        BY <1>5, <1>6, <4>1
      <4>3. QED
        BY <1>5, <1>6, <3>1, <4>1, <4>2 DEF Range
    <3>5. QED
      BY <1>1, <1>2, <3>2, <3>3, <3>4
  <2>3. QED
    BY <2>1, <2>2
<1>10. s \in S
  BY <1>1, <1>2
<1>11. s \notin Range(u \o v) /\ Range(t) = Range(u \o v) \cup {s}
  BY <1>9
<1>12. QED
  BY <1>3, <1>8, <1>10, <1>11, AppendToOrder

-----------------------------------------------------------------------------
(***************************************************************************)
(* A sequence is free or has one owner.  This needs the collections to     *)
(* stay apart, so that nobody is admitted or finished twice.               *)
(***************************************************************************)
SequencesTaken ==
  /\ \A r \in Undone : item[r].sequence \in ActiveSeqs
  /\ \A r, q \in Undone : item[r].sequence = item[q].sequence => r = q
  /\ freeSeqs = ActiveSeqs \ {item[r].sequence : r \in Undone}

CacheTaken ==
  /\ Order(used, CacheSeqs) /\ DOMAIN cache = Range(used)
  /\ freeCacheSeqs = CacheSeqs \ DOMAIN cache

\* Nobody is admitted twice; only an admission that fails half way leaves a
\* request both waiting and active.
Apart ==
  /\ Range(incoming) \cap (waiting \cup active) = {}
  /\ pc \notin {"catch", "drain", "terminate", "stopped"} => waiting \cap active = {}

\* Nobody is finished twice: those the worker goes through are undone, and
\* each is in its lists once.
Turns ==
  /\ pc \in {"loop", "asleep", "admit", "iterate"} => active = Undone
  /\ pc = "iterate" => cand = None
  /\ pc = "expire" => todo \cap active \subseteq Undone
  /\ pc \in {"collect", "emit", "close"} => Order(samples, Undone)
  /\ pc = "collect" =>
       /\ \A i \in 1..Len(batch) : batch[i].key \in Undone \ Range(samples)
       /\ \A i, j \in 1..Len(batch) : batch[i].key = batch[j].key => i = j
       /\ cand # None => cand \in Undone /\ CacheLength(cand) > 0

\* What terminate_all() leaves.
Leaves ==
  /\ pc \in {"terminate", "stopped"} => incoming = <<>>
  /\ pc = "stopped" => waiting = {} /\ Undone = {} /\ used = <<>>

Exclusive == SequencesTaken /\ CacheTaken /\ Apart /\ Turns /\ Leaves

\* Steps that neither take nor give a sequence.
LEMMA SequencesStay ==
  ASSUME SequencesTaken, UNCHANGED freeSeqs, Undone' = Undone,
         \A r \in Undone : item'[r].sequence = item[r].sequence
  PROVE  SequencesTaken'
BY DEF SequencesTaken

\* A step of the worker or of a client that leaves all collections alone.
LEMMA Rests ==
  ASSUME IInv, Exclusive, UNCHANGED <<incoming, waiting, active, item, freeSeqs, cacheVars>>,
         \/ /\ pc' = pc /\ todo' \subseteq todo /\ UNCHANGED <<batch, samples>>
            /\ pc \in {"collect", "iterate"} => cand' = cand
         \/ pc \in {"loop", "asleep"} /\ pc' \in {"loop", "asleep"}
         \/ pc = "admit" /\ pc' \in {"loop", "iterate"} /\ cand' = None
         \/ pc' \in {"catch", "drain"}
         \/ pc = "collect" /\ pc' = "emit" /\ UNCHANGED samples
  PROVE  Exclusive'
<1>1. Undone' = Undone
  BY DEF Undone
<1>2. SequencesTaken'
  BY <1>1, SequencesStay DEF Exclusive
<1>3. CacheTaken' /\ Apart'
  BY DEF Exclusive, CacheTaken, Apart, cacheVars
<1>4. Turns'
  BY <1>1 DEF Exclusive, Turns, CacheLength
<1>5. Leaves'
  BY <1>1 DEF Exclusive, Leaves, cacheVars
<1>6. QED
  BY <1>2, <1>3, <1>4, <1>5 DEF Exclusive

LEMMA RestingSteps ==
  ASSUME IInv, Exclusive,
         \/ \E r \in Requests : \/ DeadlinePasses(r) \/ ClientNext(r) \/ Reject(r)
                               \/ VisitLive(r) \/ AdmitFails(r)
         \/ \E i \in Ids : Cancel(i)
         \/ Stop \/ EmitTerminal \/ Sleep \/ EndAdmit \/ ExecuteFails \/ EndCollect
         \/ BeginStop \/ Catch \/ UNCHANGED vars
  PROVE  Exclusive'
<1> USE Rests DEF sharedVars, handleVars, batchVars, itemVars
<1>1. ASSUME NEW r \in Requests, DeadlinePasses(r) PROVE Exclusive'
  BY <1>1 DEF DeadlinePasses
<1>2. ASSUME NEW r \in Requests, ClientNext(r) PROVE Exclusive'
  BY <1>2 DEF ClientNext
<1>3. ASSUME NEW r \in Requests, Reject(r) PROVE Exclusive'
  BY <1>3 DEF Reject
<1>4. ASSUME NEW r \in Requests, VisitLive(r) PROVE Exclusive'
  BY <1>4 DEF VisitLive, Visit
<1>5. ASSUME NEW r \in Requests, AdmitFails(r) PROVE Exclusive'
  BY <1>5 DEF AdmitFails, Candidate, At
<1>6. ASSUME NEW i \in Ids, Cancel(i) PROVE Exclusive'
  BY <1>6 DEF Cancel, Notify
<1>7. CASE Stop
  BY <1>7 DEF Stop, Notify
<1>8. CASE EmitTerminal
  BY <1>8 DEF EmitTerminal
<1>9. CASE Sleep
  BY <1>9 DEF Sleep, At
<1>10. CASE EndAdmit
  BY <1>10 DEF EndAdmit, At
<1>11. CASE ExecuteFails
  BY <1>11 DEF ExecuteFails
<1>12. CASE EndCollect
  BY <1>12 DEF EndCollect, At
<1>13. CASE BeginStop
  BY <1>13 DEF BeginStop
<1>14. CASE Catch
  BY <1>14 DEF Catch
<1>15. CASE UNCHANGED vars
  BY <1>15 DEF vars
<1>16. QED
  BY <1>1, <1>2, <1>3, <1>4, <1>5, <1>6, <1>7, <1>8, <1>9, <1>10, <1>11, <1>12,
     <1>13, <1>14, <1>15

LEMMA AcceptRests == ASSUME IInv, Exclusive, NEW r \in Requests, Accept(r) PROVE Exclusive'
<1> USE DEF Accept, batchVars, itemVars
<1>1. /\ status[r] = "new" /\ ~stopping /\ ~failed
      /\ pc' = IF pc = "asleep" THEN "loop" ELSE pc
  BY DEF Acceptable, Notify
<1>2. r \notin active \cup waiting /\ pc \notin {"drain", "terminate", "stopped"}
  BY <1>1 DEF IInv, AcceptedOnly, Accepted, DrainsLast
<1>3. Range(Append(incoming, r)) = Range(incoming) \cup {r}
  BY AppendedTable DEF IInv, Shape
<1>4. Undone' = Undone
  BY DEF Undone
<1>5. SequencesTaken'
  BY <1>4, SequencesStay DEF Exclusive
<1>6. CacheTaken' /\ Apart'
  BY <1>1, <1>2, <1>3 DEF Exclusive, CacheTaken, Apart, cacheVars
<1>7. Turns' /\ Leaves'
  BY <1>1, <1>2, <1>4 DEF Exclusive, Turns, CacheLength, Leaves
<1>8. QED
  BY <1>5, <1>6, <1>7 DEF Exclusive

-----------------------------------------------------------------------------
\* finish() gives back one sequence.
LEMMA FinishGives ==
  ASSUME IInv, SequencesTaken, NEW r \in Undone, NEW why, Finish(r, why), UNCHANGED active
  PROVE  SequencesTaken' /\ Undone' = Undone \ {r}
<1>1. r \in Accepted /\ r \in Requests /\ Undone \subseteq Requests
  BY CollectionsAsTheyAre
<1>2. Undone' = Undone \ {r}
  BY <1>1, FinishEnds
<1>3. /\ item' = [item EXCEPT ![r].blocks = <<>>, ![r].done = TRUE]
      /\ freeSeqs' = freeSeqs \cup {item[r].sequence}
  BY DEF Finish
<1>4. \A q \in Undone \ {r} : item'[q] = item[q]
  BY <1>1, <1>3 DEF IInv, ItemShape
<1>5. /\ \A q \in Undone : item[q].sequence \in ActiveSeqs
      /\ \A p, q \in Undone : item[p].sequence = item[q].sequence => p = q
      /\ freeSeqs = ActiveSeqs \ {item[q].sequence : q \in Undone}
  BY DEF SequencesTaken
<1>6. {item'[q].sequence : q \in Undone'} = {item[q].sequence : q \in Undone} \ {item[r].sequence}
  BY <1>2, <1>4, <1>5
<1>7. freeSeqs' = ActiveSeqs \ {item'[q].sequence : q \in Undone'}
  BY <1>3, <1>5, <1>6
<1>8. /\ \A q \in Undone' : item'[q].sequence \in ActiveSeqs
      /\ \A p, q \in Undone' : item'[p].sequence = item'[q].sequence => p = q
  BY <1>2, <1>4, <1>5
<1>9. QED
  BY <1>2, <1>7, <1>8 DEF SequencesTaken

\* evict() gives back the sequence of an entry.
LEMMA EvictGives ==
  ASSUME CacheTaken, NEW order, Order(order, CacheSeqs), Range(order) = Range(used), order # <<>>,
         NEW check, Evict(order, check)
  PROVE  CacheTaken'
<1>1. /\ cache' = Erased(cache, Head(order)) /\ used' = Tail(order)
      /\ freeCacheSeqs' = freeCacheSeqs \cup {Head(order)}
  BY DEF Evict
<1>2. DOMAIN cache' = DOMAIN cache \ {Head(order)}
  BY <1>1 DEF Erased, Restrict
<1>3. /\ Order(Tail(order), CacheSeqs) /\ Range(Tail(order)) = Range(order) \ {Head(order)}
      /\ Head(order) \in Range(order)
  BY TailOfOrder
<1>4. Range(order) \subseteq CacheSeqs
  BY LenProperties, ElementOfSeq DEF Order, Range
<1>5. QED
  BY <1>1, <1>2, <1>3, <1>4 DEF CacheTaken

LEMMA EntryMatched ==
  ASSUME CacheTaken, NEW r \in Requests, NEW limit \in Int,
         NEW n, n = MatchedTokens(cache, Namespace[r], Prompt[r], limit),
         NEW s, s = MatchedOwner(cache, Namespace[r], Prompt[r], n)
  PROVE  /\ n \in 0..Len(Prompt[r]) /\ (n # 0 => n <= limit)
         /\ n # 0 => Shares(cache, s, Namespace[r], Prompt[r], n)
<1>1. CacheSeqs \subseteq Nat
  BY EngineAssumption DEF CacheSeqs
<1>2. Range(used) \subseteq CacheSeqs
  BY RangeOfOrder DEF CacheTaken
<1>3. DOMAIN cache \subseteq Nat /\ Prompt[r] \in Seq(Nat)
  BY <1>1, <1>2, EngineAssumption DEF CacheTaken
<1>4. QED
  BY <1>3, MatchIsAnEntry

\* What admit() reuses of the prompt leaves its last token to be computed.
LEMMA ReusableMatches ==
  ASSUME CacheTaken, NEW r \in Requests
  PROVE  /\ Reusable(r) \in 0..(Len(Prompt[r]) - 1) /\ Reusable(r) \in 0..Len(Prompt[r])
         /\ Reusable(r) # 0 =>
              Shares(cache, Source(r), Namespace[r], Prompt[r], Reusable(r))
<1>1. Prompt[r] \in Seq(Nat) \ {<<>>}
  BY EngineAssumption
<1>2. PICK n \in Nat : n = Len(Prompt[r]) /\ n > 0
  BY <1>1, LenProperties, EmptySeq
<1>3. n - 1 \in Int
  BY <1>2
<1> DEFINE m == MatchedTokens(cache, Namespace[r], Prompt[r], n - 1)
           s == MatchedOwner(cache, Namespace[r], Prompt[r], m)
<1>4. Reusable(r) = m /\ Source(r) = s
  BY <1>2 DEF Reusable, Source
<1>5. /\ m \in 0..Len(Prompt[r]) /\ (m # 0 => m <= n - 1)
      /\ m # 0 => Shares(cache, s, Namespace[r], Prompt[r], m)
  BY <1>3, EntryMatched
<1> HIDE DEF m, s
<1>6. m \in 0..(n - 1)
  BY <1>2, <1>5
<1>7. QED
  BY <1>2, <1>4, <1>5, <1>6

LEMMA MatchKeepsOrder ==
  ASSUME CacheTaken, NEW r \in Requests, NEW limit \in Int,
         NEW n, n = MatchedTokens(cache, Namespace[r], Prompt[r], limit),
         NEW s, s = MatchedOwner(cache, Namespace[r], Prompt[r], n)
  PROVE  Order(AfterMatch(n, s), CacheSeqs) /\ Range(AfterMatch(n, s)) = Range(used)
<1>1. CASE n = 0
  BY <1>1 DEF AfterMatch, CacheTaken
<1>2. CASE n # 0
  <2>1. s \in DOMAIN cache
    BY <1>2, EntryMatched DEF Shares
  <2>2. QED
    BY <1>2, <2>1, TouchedOrder DEF AfterMatch, CacheTaken
<1>3. QED
  BY <1>1, <1>2

-----------------------------------------------------------------------------
\* The steps that move, admit and erase requests.
LEMMA ItemsRest ==
  ASSUME Exclusive, UNCHANGED <<active, item, freeSeqs, cacheVars>>
  PROVE  Undone' = Undone /\ SequencesTaken' /\ CacheTaken'
<1>1. Undone' = Undone
  BY DEF Undone
<1>2. SequencesTaken'
  BY <1>1, SequencesStay DEF Exclusive
<1>3. CacheTaken'
  BY DEF Exclusive, CacheTaken, cacheVars
<1>4. QED
  BY <1>1, <1>2, <1>3

LEMMA EraseRests ==
  ASSUME IInv, Exclusive, EraseFinished, UNCHANGED <<freeSeqs, cacheVars>>
  PROVE  Undone' = Undone /\ active' = Undone /\ SequencesTaken' /\ CacheTaken'
<1>1. Undone' = Undone /\ active' = Undone
  BY EraseKeeps
<1>2. \A r \in Undone : item'[r] = item[r]
  BY CollectionsAsTheyAre DEF EraseFinished
<1>3. SequencesTaken'
  BY <1>1, <1>2, SequencesStay DEF Exclusive
<1>4. CacheTaken'
  BY DEF Exclusive, CacheTaken, cacheVars
<1>5. QED
  BY <1>1, <1>3, <1>4

LEMMA DrainRests == ASSUME IInv, Exclusive, BeginIteration \/ DrainLast PROVE Exclusive'
<1> USE DEF batchVars, cacheVars, handleVars
<1>1. /\ incoming' = <<>> /\ Range(incoming') = {} /\ waiting' = waiting \cup Range(incoming)
      /\ UNCHANGED <<active, item, freeSeqs, cacheVars, samples, batch>>
      /\ pc \in {"loop", "drain"}
      /\ (pc = "loop" => pc' = "expire") /\ (pc = "drain" => pc' = "terminate")
  BY DrainMoves DEF BeginIteration, DrainLast, Drain, At
<1>2. Undone' = Undone /\ SequencesTaken' /\ CacheTaken'
  BY <1>1, ItemsRest
<1>3. Apart'
  BY <1>1 DEF Exclusive, Apart
<1>4. Turns'
  BY <1>1, <1>2 DEF Exclusive, Turns
<1>5. Leaves'
  BY <1>1 DEF Leaves
<1>6. QED
  BY <1>2, <1>3, <1>4, <1>5 DEF Exclusive

LEMMA EraseKeepsApart ==
  ASSUME IInv, Exclusive, EndExpire \/ EndIteration \/ EndTerminate PROVE Exclusive'
<1> USE DEF batchVars, cacheVars, handleVars, sharedVars
<1>1. /\ EraseFinished /\ UNCHANGED <<incoming, waiting, freeSeqs, cacheVars>>
      /\ \/ pc \in {"expire", "emit"} /\ pc' \in {"admit", "loop"}
         \/ pc = "terminate" /\ pc' = "stopped" /\ Undone = {} /\ waiting = {} /\ used = <<>>
  BY DEF EndExpire, EndIteration, EndTerminate, At
<1>2. Undone' = Undone /\ active' = Undone /\ SequencesTaken' /\ CacheTaken'
  BY <1>1, EraseRests
<1>3. Undone \subseteq active
  BY DEF Undone
<1>4. Apart'
  BY <1>1, <1>2, <1>3 DEF Exclusive, Apart
<1>5. Turns'
  BY <1>1, <1>2 DEF Turns
<1>6. Leaves'
  BY <1>1, <1>2 DEF Exclusive, Leaves
<1>7. QED
  BY <1>2, <1>4, <1>5, <1>6 DEF Exclusive

LEMMA WaitingEnds ==
  ASSUME IInv, Exclusive, NEW r \in Requests, ExpireWaiting(r) \/ TerminateWaiting(r)
  PROVE  Exclusive'
<1> USE DEF batchVars, cacheVars, handleVars
<1>1. /\ waiting' = waiting \ {r} /\ todo' \subseteq todo /\ pc \in {"expire", "terminate"}
      /\ UNCHANGED <<incoming, pc, active, item, freeSeqs, cacheVars, samples, batch>>
  BY DEF ExpireWaiting, TerminateWaiting, Visit, At
<1>2. Undone' = Undone /\ SequencesTaken' /\ CacheTaken'
  BY <1>1, ItemsRest
<1>3. Apart' /\ Turns' /\ Leaves'
  BY <1>1, <1>2 DEF Exclusive, Apart, Turns, Leaves
<1>4. QED
  BY <1>2, <1>3 DEF Exclusive

LEMMA ActiveEnds ==
  ASSUME IInv, Exclusive, NEW r \in Requests, ExpireActive(r) \/ TerminateActive(r)
  PROVE  Exclusive'
<1> USE DEF batchVars, cacheVars, handleVars
<1>1. /\ r \in Undone /\ pc \in {"expire", "terminate"}
      /\ pc = "expire" => todo' = todo \ {r}
      /\ UNCHANGED <<incoming, waiting, active, cacheVars>>
  BY DEF ExpireActive, TerminateActive, Visit, At, Exclusive, Turns
<1>2. CacheTaken'
  BY <1>1 DEF Exclusive, CacheTaken
<1>3. CASE FinishThrows(r)
  <2>1. UNCHANGED <<item, freeSeqs>> /\ pc' = "catch"
    BY <1>3 DEF FinishThrows
  <2>2. Undone' = Undone /\ SequencesTaken'
    BY <1>1, <2>1, ItemsRest
  <2>3. Apart' /\ Turns' /\ Leaves'
    BY <1>1, <2>1 DEF Exclusive, Apart, Turns, Leaves
  <2>4. QED
    BY <1>2, <2>2, <2>3 DEF Exclusive
<1>4. ASSUME NEW why, Finish(r, why), UNCHANGED pc PROVE Exclusive'
  <2>1. SequencesTaken' /\ Undone' = Undone \ {r}
    BY <1>1, <1>4, FinishGives DEF Exclusive
  <2>2. Apart' /\ Leaves'
    BY <1>1, <1>4, <2>1 DEF Exclusive, Apart, Leaves
  <2>3. Turns'
    BY <1>1, <1>4, <2>1 DEF Exclusive, Turns
  <2>4. QED
    BY <1>2, <2>1, <2>2, <2>3 DEF Exclusive
<1>5. QED
  BY <1>3, <1>4 DEF ExpireActive, TerminateActive

LEMMA CloseGives == ASSUME IInv, Exclusive, Close PROVE Exclusive'
<1> USE DEF batchVars, cacheVars, handleVars
<1>1. /\ pc = "close" /\ samples # <<>> /\ samples' = Tail(samples)
      /\ UNCHANGED <<incoming, waiting, active, cacheVars>>
  BY DEF Close, At, IInv, EndsOnce
<1>2. Order(samples, Undone) /\ Head(samples) \in Undone
  <2>1. Order(samples, Undone)
    BY <1>1 DEF Exclusive, Turns
  <2>2. QED
    BY <1>1, <2>1, HeadTailProperties DEF Order
<1>3. CacheTaken'
  BY <1>1 DEF Exclusive, CacheTaken
<1>4. CASE FinishThrows(Head(samples))
  <2>1. UNCHANGED <<item, freeSeqs>> /\ pc' = "catch"
    BY <1>4 DEF FinishThrows
  <2>2. Undone' = Undone /\ SequencesTaken'
    BY <1>1, <2>1, ItemsRest
  <2>3. Apart' /\ Turns' /\ Leaves'
    BY <1>1, <2>1 DEF Exclusive, Apart, Turns, Leaves
  <2>4. QED
    BY <1>3, <2>2, <2>3 DEF Exclusive
<1>5. CASE Finish(Head(samples), reason) /\ pc' = "emit"
  <2>1. SequencesTaken' /\ Undone' = Undone \ {Head(samples)}
    BY <1>1, <1>2, <1>5, FinishGives DEF Exclusive
  <2>2. Order(samples', Undone')
    <3>1. Order(Tail(samples), Undone) /\ Range(Tail(samples)) = Range(samples) \ {Head(samples)}
      BY <1>1, <1>2, TailOfOrder
    <3>2. Range(samples) \subseteq Undone
      BY <1>2, RangeOfOrder
    <3>3. Range(Tail(samples)) \subseteq Undone'
      BY <2>1, <3>1, <3>2
    <3>4. QED
      BY <1>1, <3>1, <3>3, OrderOfFewer
  <2>3. Apart' /\ Leaves'
    BY <1>1, <1>5 DEF Exclusive, Apart, Leaves
  <2>4. Turns'
    BY <1>5, <2>2 DEF Turns
  <2>5. QED
    BY <1>3, <2>1, <2>3, <2>4 DEF Exclusive
<1>6. QED
  BY <1>4, <1>5 DEF Close

-----------------------------------------------------------------------------
\* The samples and the batch.
LEMMA SampleDrops == ASSUME IInv, Exclusive, DropSample PROVE Exclusive'
<1> USE DEF handleVars, sharedVars, itemVars, cacheVars, At
<1>1. /\ pc = "emit" /\ samples # <<>> /\ samples' = Tail(samples)
      /\ UNCHANGED <<pc, incoming, waiting, active, item, freeSeqs, cacheVars>>
  BY DEF DropSample
<1>2. Undone' = Undone /\ SequencesTaken' /\ CacheTaken'
  BY <1>1, ItemsRest
<1>3. Order(samples', Undone)
  BY <1>1, TailOfOrder DEF Exclusive, Turns
<1>4. Apart' /\ Turns' /\ Leaves'
  BY <1>1, <1>2, <1>3 DEF Exclusive, Apart, Turns, Leaves
<1>5. QED
  BY <1>2, <1>4 DEF Exclusive

\* Counting tokens leaves the sequence of every item.
LEMMA CountingSequences ==
  ASSUME IInv, NEW r \in Requests, NEW k,
         \/ item' = [item EXCEPT ![r].processed = @ + k]
         \/ item' = [item EXCEPT ![r].generated = @ + 1]
  PROVE  \A q \in Requests : item'[q].sequence = item[q].sequence
<1>1. CASE item' = [item EXCEPT ![r].processed = @ + k]
  BY <1>1 DEF IInv, ItemShape
<1>2. CASE item' = [item EXCEPT ![r].generated = @ + 1]
  BY <1>2 DEF IInv, ItemShape
<1>3. QED
  BY <1>1, <1>2

LEMMA CountingRests ==
  ASSUME IInv, Exclusive, NEW r \in Accepted, NEW k, UNCHANGED <<active, freeSeqs, cacheVars>>,
         \/ item' = [item EXCEPT ![r].processed = @ + k]
         \/ item' = [item EXCEPT ![r].generated = @ + 1]
  PROVE  Undone' = Undone /\ SequencesTaken' /\ CacheTaken'
<1>1. Undone' = Undone /\ Undone \subseteq Requests /\ r \in Requests
  BY CountingKeeps, CollectionsAsTheyAre
<1>2. \A q \in Requests : item'[q].sequence = item[q].sequence
  BY <1>1, CountingSequences
<1>3. SequencesTaken'
  BY <1>1, <1>2, SequencesStay DEF Exclusive
<1>4. CacheTaken'
  BY DEF Exclusive, CacheTaken, cacheVars
<1>5. QED
  BY <1>1, <1>3, <1>4

LEMMA EmitRests == ASSUME IInv, Exclusive, EmitToken \/ EmitThrows PROVE Exclusive'
<1> USE DEF handleVars, sharedVars, batchVars
<1>1. /\ pc = "emit" /\ samples # <<>>
      /\ item' = [item EXCEPT ![Head(samples)].generated = @ + 1]
      /\ UNCHANGED <<incoming, waiting, active, freeSeqs, cacheVars>>
  BY DEF EmitToken, EmitThrows, At
<1>2. /\ samples' = samples \/ samples' = Tail(samples)
      /\ pc' \in {"emit", "close", "catch"}
  BY <1>1 DEF EmitToken, EmitThrows
<1>3. Undone' = Undone /\ SequencesTaken' /\ CacheTaken'
  BY <1>1, TailAccepted, CountingRests
<1>4. Order(samples, Undone) /\ Order(Tail(samples), Undone)
  BY <1>1, TailOfOrder DEF Exclusive, Turns
<1>5. Apart' /\ Leaves'
  BY <1>1, <1>2 DEF Exclusive, Apart, Leaves
<1>6. Turns'
  BY <1>2, <1>3, <1>4 DEF Turns
<1>7. QED
  BY <1>3, <1>5, <1>6 DEF Exclusive

LEMMA ExecuteLists == ASSUME IInv, Exclusive, Execute PROVE Exclusive'
<1> USE DEF handleVars, sharedVars, itemVars, At
<1>1. PICK decode \in Orders(Decoding), prefill \in Orders(active \ Decoding) :
        \E plan \in Plans(decode, prefill, [r \in active |-> Remaining(r)]) :
          kv' = Fed(plan) /\ batch' = plan.prefills /\ samples' = plan.decodes
  BY DEF Execute
<1>2. PICK plan \in Plans(decode, prefill, [r \in active |-> Remaining(r)]) :
        batch' = plan.prefills /\ samples' = plan.decodes
  BY <1>1
<1>3. /\ plan.decodes \in Seq(Requests) /\ IsInjective(plan.decodes)
      /\ Range(plan.decodes) \subseteq Decoding
      /\ \A i \in 1..Len(plan.prefills) : plan.prefills[i].key \in active \ Decoding
      /\ \A i, j \in 1..Len(plan.prefills) : plan.prefills[i].key = plan.prefills[j].key => i = j
  BY <1>1, <1>2, PlanIsActive
<1>4. /\ pc = "iterate" /\ pc' = "collect" /\ cand' = None
      /\ UNCHANGED <<incoming, waiting, active, item, freeSeqs, cacheVars>>
  BY DEF Execute, Exclusive, Turns
<1>5. Undone' = Undone /\ SequencesTaken' /\ CacheTaken'
  BY <1>4, ItemsRest
<1>6. active = Undone /\ Decoding \subseteq active
  BY <1>4 DEF Exclusive, Turns, Decoding
<1>7. Order(samples', Undone')
  BY <1>2, <1>3, <1>5, <1>6, OrderOfFewer DEF Order
<1>8. /\ \A i \in 1..Len(batch') : batch'[i].key \in Undone' \ Range(samples')
      /\ \A i, j \in 1..Len(batch') : batch'[i].key = batch'[j].key => i = j
  BY <1>2, <1>3, <1>5, <1>6
<1>9. Apart' /\ Leaves'
  BY <1>4 DEF Exclusive, Apart, Leaves
<1>10. Turns'
  BY <1>4, <1>7, <1>8 DEF Turns
<1>11. QED
  BY <1>5, <1>9, <1>10 DEF Exclusive

LEMMA CollectLists == ASSUME IInv, Exclusive, Collect PROVE Exclusive'
<1> USE DEF handleVars, sharedVars, At
<1> DEFINE r == Head(batch).key
<1>1. /\ pc = "collect" /\ pc' = pc /\ batch # <<>> /\ batch' = Tail(batch)
      /\ item' = [item EXCEPT ![r].processed = @ + Head(batch).tokens]
      /\ samples' = samples \/ samples' = Append(samples, r)
      /\ cand' # None => cand' = r /\ CacheLength(r) > 0
      /\ UNCHANGED <<incoming, waiting, active, freeSeqs, cacheVars>>
  BY DEF Collect
<1>2. r \in Accepted
  BY <1>1, BatchTailAccepted
<1>3. Undone' = Undone /\ SequencesTaken' /\ CacheTaken'
  BY <1>1, <1>2, CountingRests
<1>4. /\ batch \in Seq(Slices) /\ Len(batch) \in Nat /\ Len(batch) >= 1 /\ Head(batch) = batch[1]
      /\ Len(Tail(batch)) = Len(batch) - 1
      /\ \A i \in 1..(Len(batch) - 1) : Tail(batch)[i] = batch[i + 1]
  <2>1. batch \in Seq(Slices) /\ Len(batch) \in Nat
    BY ListsAsTheyAre, LenProperties
  <2>2. Len(batch) >= 1
    BY <1>1, <2>1, EmptySeq
  <2>3. QED
    BY <1>1, <2>1, <2>2, HeadTailProperties
<1>5. /\ Order(samples, Undone)
      /\ \A i \in 1..Len(batch) : batch[i].key \in Undone \ Range(samples)
      /\ \A i, j \in 1..Len(batch) : batch[i].key = batch[j].key => i = j
  BY <1>1 DEF Exclusive, Turns
<1>6. r \in Undone \ Range(samples)
  BY <1>4, <1>5
<1>7. /\ \A i \in 1..Len(batch') : batch'[i].key \in Undone \ (Range(samples) \cup {r})
      /\ \A i, j \in 1..Len(batch') : batch'[i].key = batch'[j].key => i = j
  <2>1. \A i \in 1..Len(batch') : i + 1 \in 1..Len(batch) /\ i + 1 # 1 /\ batch'[i] = batch[i + 1]
    BY <1>1, <1>4
  <2>2. 1 \in 1..Len(batch)
    BY <1>4
  <2>3. \A i \in 1..Len(batch') : batch'[i].key # r
    BY <1>4, <1>5, <2>1, <2>2
  <2>4. \A i, j \in 1..Len(batch') : batch'[i].key = batch'[j].key => i + 1 = j + 1
    BY SMTT(30), <1>5, <2>1
  <2>5. QED
    BY <1>5, <2>1, <2>3, <2>4
<1>8. /\ Order(Append(samples, r), Undone)
      /\ Range(Append(samples, r)) = Range(samples) \cup {r}
  BY <1>5, <1>6, AppendToOrder
<1> HIDE DEF r
<1>9. Order(samples', Undone) /\ Range(samples') \subseteq Range(samples) \cup {r}
  BY <1>1, <1>5, <1>8
<1>10. Apart' /\ Leaves'
  BY <1>1 DEF Exclusive, Apart, Leaves
<1>11. (cand # None => cand \in Undone /\ CacheLength(cand) > 0)'
  BY <1>1, <1>3, <1>6 DEF CacheLength
<1>12. Turns'
  BY <1>1, <1>3, <1>7, <1>9, <1>11 DEF Turns
<1>13. QED
  BY <1>3, <1>10, <1>12 DEF Exclusive

-----------------------------------------------------------------------------
\* The prefix cache.
LEMMA CacheLengthIsInt ==
  ASSUME NEW r \in Requests
  PROVE  CacheLength(r) \in Int /\ (CacheLength(r) > 0 => CacheEntries > 0)
<1>1. /\ Prompt[r] \in Seq(Nat) /\ CacheTokens \in Nat /\ CacheEntries \in Nat
      /\ BlockSize \in Nat \ {0}
  BY EngineAssumption
<1>2. Len(Prompt[r]) \in Nat
  BY <1>1, LenProperties
<1>3. Min({Len(Prompt[r]), CacheTokens}) \in Nat
  <2>1. \E x \in {Len(Prompt[r]), CacheTokens} : \A y \in {Len(Prompt[r]), CacheTokens} : x =< y
    BY <1>1, <1>2
  <2>2. Min({Len(Prompt[r]), CacheTokens}) \in {Len(Prompt[r]), CacheTokens}
    BY <2>1 DEF Min
  <2>3. QED
    BY <1>1, <1>2, <2>2
<1> DEFINE m == Min({Len(Prompt[r]), CacheTokens})
<1> HIDE DEF m
<1>4. m \in Nat /\ m \div BlockSize \in Int
  BY <1>1, <1>3 DEF m
<1>5. (m \div BlockSize) * BlockSize \in Int
  BY <1>1, <1>4
<1>6. QED
  BY <1>1, <1>5 DEF CacheLength, m

LEMMA NobodyUsed ==
  ASSUME NEW S, NEW t, Order(t, S) PROVE t = <<>> <=> Range(t) = {}
<1>1. t \in Seq(S) /\ Len(t) \in Nat /\ DOMAIN t = 1..Len(t)
  BY LenProperties DEF Order
<1>2. CASE t # <<>>
  BY <1>2, TailOfOrder
<1>3. CASE t = <<>>
  BY <1>3, EmptySequence
<1>4. QED
  BY <1>2, <1>3

LEMMA CacheUses ==
  ASSUME IInv, Exclusive, pc = "collect", cand # None
  PROVE  /\ cand \in Undone /\ cand \in Requests
         /\ CacheLength(cand) > 0 /\ CacheEntries > 0
         /\ Order(AfterMatch(Cached(cand), CachedBy(cand)), CacheSeqs)
         /\ Range(AfterMatch(Cached(cand), CachedBy(cand))) = Range(used)
<1>1. cand \in Undone /\ cand \in Requests /\ CacheLength(cand) > 0
  BY CollectionsAsTheyAre DEF Exclusive, Turns
<1>2. CacheLength(cand) \in Int /\ CacheEntries > 0
  BY <1>1, CacheLengthIsInt
<1>3. QED
  BY <1>1, <1>2, MatchKeepsOrder DEF Exclusive, Cached, CachedBy

LEMMA AdmissionUses ==
  ASSUME Exclusive, NEW r \in Requests
  PROVE  /\ Order(AfterMatch(Reusable(r), Source(r)), CacheSeqs)
         /\ Range(AfterMatch(Reusable(r), Source(r))) = Range(used)
<1>1. Len(Prompt[r]) - 1 \in Int
  BY EngineAssumption, LenProperties
<1>2. QED
  BY <1>1, MatchKeepsOrder DEF Exclusive, Reusable, Source

LEMMA HitRests == ASSUME IInv, Exclusive, CacheHit PROVE Exclusive'
<1> USE DEF handleVars, sharedVars, itemVars, batchVars, At
<1>1. /\ pc = "collect" /\ pc' = pc /\ cand # None /\ cand' = None
      /\ Cached(cand) = CacheLength(cand)
      /\ used' = Touched(used, CachedBy(cand))
      /\ UNCHANGED <<incoming, waiting, active, item, freeSeqs, cache, freeCacheSeqs, batch,
                     samples>>
  BY DEF CacheHit
<1>2. used' = AfterMatch(Cached(cand), CachedBy(cand))
  BY <1>1, CacheUses DEF AfterMatch
<1>3. CacheTaken'
  BY <1>1, <1>2, CacheUses DEF Exclusive, CacheTaken
<1>4. Undone' = Undone
  BY <1>1 DEF Undone
<1>5. SequencesTaken'
  BY <1>1, <1>4, SequencesStay DEF Exclusive
<1>6. Apart' /\ Turns' /\ Leaves'
  BY <1>1, <1>4 DEF Exclusive, Apart, Turns, Leaves
<1>7. QED
  BY <1>3, <1>5, <1>6 DEF Exclusive

LEMMA EvictRests ==
  ASSUME IInv, Exclusive, CacheEvict \/ TerminateCache \/ \E r \in Requests : AdmitEvict(r)
  PROVE  Exclusive'
<1> USE DEF handleVars, sharedVars, itemVars, batchVars, At
<1>1. /\ UNCHANGED <<incoming, waiting, active, item, freeSeqs, batch, samples>>
      /\ pc \in {"collect", "admit", "terminate"} /\ pc' \in {pc, "catch"} /\ used # <<>>
      /\ pc = "collect" => cand' = cand
  BY DEF CacheEvict, TerminateCache, AdmitEvict, Candidate, Evict
<1>2. Undone' = Undone
  BY <1>1 DEF Undone
<1>3. SequencesTaken'
  BY <1>1, <1>2, SequencesStay DEF Exclusive
<1>4. Apart' /\ Turns' /\ Leaves'
  BY <1>1, <1>2 DEF Exclusive, Apart, Turns, CacheLength, Leaves
<1>5. ASSUME NEW order, Order(order, CacheSeqs), Range(order) = Range(used),
             NEW check, Evict(order, check)
      PROVE  CacheTaken'
  <2>1. order # <<>>
    BY <1>1, <1>5, NobodyUsed DEF Exclusive, CacheTaken
  <2>2. QED
    BY <1>5, <2>1, EvictGives DEF Exclusive
<1>6. ASSUME CacheEvict PROVE CacheTaken'
  <2> DEFINE order == AfterMatch(Cached(cand), CachedBy(cand))
  <2>1. pc = "collect" /\ cand # None /\ Evict(order, TRUE)
    BY <1>6 DEF CacheEvict
  <2>2. Order(order, CacheSeqs) /\ Range(order) = Range(used)
    BY <2>1, CacheUses
  <2> HIDE DEF order
  <2>3. QED
    BY <1>5, <2>1, <2>2
<1>7. ASSUME TerminateCache PROVE CacheTaken'
  <2>1. Order(used, CacheSeqs)
    BY DEF Exclusive, CacheTaken
  <2>2. Evict(used, ~failed)
    BY <1>7 DEF TerminateCache
  <2>3. QED
    BY <1>5, <2>1, <2>2
<1>8. ASSUME NEW r \in Requests, AdmitEvict(r) PROVE CacheTaken'
  BY <1>5, <1>8, AdmissionUses DEF AdmitEvict
<1>9. QED
  BY <1>3, <1>4, <1>6, <1>7, <1>8 DEF Exclusive

LEMMA InsertTakes == ASSUME IInv, Exclusive, CacheInsert PROVE Exclusive'
<1> USE DEF handleVars, sharedVars, itemVars, batchVars, At
<1> DEFINE s == CHOOSE s \in freeCacheSeqs : TRUE
           order == AfterMatch(Cached(cand), CachedBy(cand))
<1>1. /\ pc = "collect" /\ pc' \in {pc, "catch"} /\ cand # None /\ cand' = None
      /\ used = <<>> \/ freeCacheSeqs # {}
      /\ used' = Append(order, s) /\ freeCacheSeqs' = freeCacheSeqs \ {s}
      /\ \E entry : cache' = Inserted(cache, s, entry)
      /\ UNCHANGED <<incoming, waiting, active, item, freeSeqs, batch, samples>>
  BY Zenon DEF CacheInsert, CacheFull
<1>2. Order(order, CacheSeqs) /\ Range(order) = Range(used) /\ CacheEntries > 0
  BY <1>1, CacheUses
<1>3. /\ Order(used, CacheSeqs) /\ DOMAIN cache = Range(used)
      /\ freeCacheSeqs = CacheSeqs \ DOMAIN cache
  BY DEF Exclusive, CacheTaken
<1>4. freeCacheSeqs # {}
  <2>1. MaxActive \in CacheSeqs
    BY <1>2, EngineAssumption DEF CacheSeqs
  <2>2. QED
    BY <1>1, <1>3, <2>1, NobodyUsed
<1>5. s \in CacheSeqs \ Range(used)
  BY <1>3, <1>4
<1> HIDE DEF s, order
<1>6. DOMAIN cache' = DOMAIN cache \cup {s}
  BY <1>1 DEF Inserted
<1>7. Order(used', CacheSeqs) /\ Range(used') = Range(used) \cup {s}
  BY <1>1, <1>2, <1>5, AppendToOrder
<1>8. CacheTaken'
  BY <1>1, <1>3, <1>6, <1>7 DEF CacheTaken
<1>9. Undone' = Undone
  BY <1>1 DEF Undone
<1>10. SequencesTaken'
  BY <1>1, <1>9, SequencesStay DEF Exclusive
<1>11. Apart' /\ Turns' /\ Leaves'
  BY <1>1, <1>9 DEF Exclusive, Apart, Turns, Leaves
<1>12. QED
  BY <1>8, <1>10, <1>11 DEF Exclusive

\* admit() takes a free sequence for a request that has none.
LEMMA AdmitTakes == ASSUME IInv, Exclusive, NEW r \in Requests, Admit(r) PROVE Exclusive'
<1> USE DEF handleVars, sharedVars, batchVars, At
<1> DEFINE shared == IF Reusable(r) = 0 THEN <<>>
                     ELSE SubSeq(cache[Source(r)].blocks, 1, Reusable(r) \div BlockSize)
           fresh  == CHOOSE t \in FreshTables(refs, NewBlocks(r)) : TRUE
           s      == CHOOSE s \in freeSeqs : TRUE
           blocks == shared \o fresh
<1>1. PICK ok \in Outcomes :
        /\ item' = [item EXCEPT ![r] =
                      [sequence |-> s, blocks |-> blocks, processed |-> Reusable(r),
                       generated |-> 0, done |-> FALSE]]
        /\ freeSeqs' = freeSeqs \ {s}
        /\ used' = AfterMatch(Reusable(r), Source(r))
        /\ active' = active \cup {r}
        /\ waiting' = IF ok THEN waiting \ {r} ELSE waiting
        /\ pc' = IF ok THEN "admit" ELSE "catch"
  BY Zenon DEF Admit
<1>2. /\ r \in waiting /\ pc = "admit" /\ freeSeqs # {}
      /\ UNCHANGED <<incoming, cache, freeCacheSeqs>>
  BY DEF Admit, Candidate
<1>3. s \in freeSeqs
  BY <1>2
<1> HIDE DEF s, blocks
<1>4. ItemShape' /\ ~item'[r].done /\ \A q \in Requests \ {r} : item'[q] = item[q]
  BY <1>1, OneItemChanges
<1>5. item'[r].sequence = s
  BY <1>1 DEF IInv, ItemShape
<1>6. /\ active = Undone /\ waiting \cap active = {}
      /\ Range(incoming) \cap (waiting \cup active) = {}
  BY <1>2 DEF Exclusive, Turns, Apart
<1>7. Undone' = Undone \cup {r} /\ r \notin Undone /\ Undone \subseteq Requests
  BY <1>1, <1>2, <1>4, <1>6, CollectionsAsTheyAre DEF Undone
<1>8. SequencesTaken'
  <2>1. /\ \A q \in Undone : item[q].sequence \in ActiveSeqs /\ item'[q] = item[q]
        /\ \A p, q \in Undone : item[p].sequence = item[q].sequence => p = q
        /\ freeSeqs = ActiveSeqs \ {item[q].sequence : q \in Undone}
    BY <1>4, <1>7 DEF Exclusive, SequencesTaken
  <2>2. {item'[q].sequence : q \in Undone'} = {item[q].sequence : q \in Undone} \cup {s}
    BY <1>5, <1>7, <2>1
  <2>3. \A q \in Undone : item[q].sequence # s
    BY <1>3, <2>1
  <2>4. /\ \A q \in Undone' : item'[q].sequence \in ActiveSeqs
        /\ \A p, q \in Undone' : item'[p].sequence = item'[q].sequence => p = q
    BY <1>3, <1>5, <1>7, <2>1, <2>3
  <2>5. freeSeqs' = ActiveSeqs \ {item'[q].sequence : q \in Undone'}
    BY <1>1, <2>1, <2>2
  <2>6. QED
    BY <2>4, <2>5 DEF SequencesTaken
<1>9. CacheTaken'
  BY <1>1, <1>2, AdmissionUses DEF Exclusive, CacheTaken
<1>10. Apart'
  <2>1. r \notin Range(incoming)
    BY <1>2, <1>6
  <2>2. QED
    BY <1>1, <1>2, <1>6, <2>1 DEF Apart
<1>11. Turns' /\ Leaves'
  BY <1>1, <1>2, <1>6, <1>7 DEF Turns, Leaves
<1>12. QED
  BY <1>8, <1>9, <1>10, <1>11 DEF Exclusive

-----------------------------------------------------------------------------
LEMMA InitExclusive == Init => Exclusive
<1> SUFFICES ASSUME Init PROVE Exclusive
  OBVIOUS
<1> USE DEF Init
<1>1. Undone = {} /\ pc \in {"loop", "stopped"}
  BY DEF Undone
<1>2. <<>> \in Seq(CacheSeqs) /\ Range(<<>>) = {} /\ IsInjective(<<>>) /\ DOMAIN <<>> = {}
  BY EmptySequence DEF IsInjective
<1>3. SequencesTaken /\ CacheTaken /\ Apart
  BY <1>1, <1>2 DEF SequencesTaken, CacheTaken, Order, Apart
<1>4. Turns /\ Leaves
  BY <1>1 DEF Turns, Leaves
<1>5. QED
  BY <1>3, <1>4 DEF Exclusive

LEMMA NextExclusive == IInv /\ Exclusive /\ [Next]_vars => Exclusive'
<1> SUFFICES ASSUME IInv, Exclusive, [Next]_vars PROVE Exclusive'
  OBVIOUS
<1>1. CASE Worker
  BY <1>1, RestingSteps, DrainRests, EraseKeepsApart, WaitingEnds, ActiveEnds, CloseGives,
     SampleDrops, EmitRests, ExecuteLists, CollectLists, HitRests, EvictRests, InsertTakes,
     AdmitTakes
     DEF Worker, Emission, Termination, Expire, Admission, CachePrompt
<1>2. CASE Client
  BY <1>2, RestingSteps, AcceptRests DEF Client
<1>3. CASE Stopped \/ UNCHANGED vars
  BY <1>3, RestingSteps DEF Stopped
<1>4. QED
  BY <1>1, <1>2, <1>3 DEF Next

\* Each sequence of the runner is free or has one owner, whatever is shared,
\* evicted or interrupted by an exception, and a worker that has stopped has
\* given all of them back and holds no request.
THEOREM SequencesExact == Spec => []SequencesAreAccounted
<1>1. Exclusive => SequencesAreAccounted
  <2> SUFFICES ASSUME Exclusive PROVE SequencesAreAccounted
    OBVIOUS
  <2>1. pc = "stopped" => Range(incoming) \cup waiting \cup Undone \cup DOMAIN cache = {}
    BY EmptySequence DEF Exclusive, Leaves, CacheTaken
  <2>2. QED
    BY <2>1 DEF Exclusive, SequencesTaken, CacheTaken, SequencesAreAccounted
<1>2. QED
  BY <1>1, InitExclusive, NextExclusive, InvariantHolds, PTL DEF Spec

-----------------------------------------------------------------------------
(***************************************************************************)
(* The blocks: a request keeps the whole table of its budget and a cache   *)
(* entry the blocks of its tokens, so what admit() and cache_prompt() copy *)
(* from a table is in it, and each release gives back what was taken.      *)
(***************************************************************************)
Held(b) == {r \in Undone : b \in Range(item[r].blocks)}
Kept(b) == {s \in DOMAIN cache : b \in Range(cache[s].blocks)}

Tabled ==
  /\ refs \in [Blocks -> Nat]
  /\ \A r \in Undone :
       item[r].blocks \in Seq(Blocks) /\ Len(item[r].blocks) = TotalBlocks(r)
  /\ \A s \in DOMAIN cache :
       /\ cache[s].blocks \in Seq(Blocks) /\ Len(cache[s].tokens) \in Nat
       /\ Len(cache[s].tokens) \div BlockSize <= Len(cache[s].blocks)

Counted == \A b \in Blocks : refs[b] = Cardinality(Held(b)) + Cardinality(Kept(b))

Credited == Tabled /\ Counted

LEMMA HoldersAreFinite ==
  ASSUME IInv, Exclusive, NEW b
  PROVE  /\ IsFiniteSet(Held(b)) /\ IsFiniteSet(Kept(b))
         /\ Cardinality(Held(b)) \in Nat /\ Cardinality(Kept(b)) \in Nat
<1>1. Held(b) \subseteq Requests
  BY CollectionsAsTheyAre DEF Held
<1>2. Kept(b) \subseteq CacheSeqs
  BY RangeOfOrder DEF Exclusive, CacheTaken, Kept
<1>3. IsFiniteSet(CacheSeqs)
  BY EngineAssumption, FS_Interval DEF CacheSeqs
<1>4. QED
  BY <1>1, <1>2, <1>3, RequestsFit, FS_Subset, FS_CardinalityType

\* Only what somebody holds is not free.
LEMMA FreeIsUnheld ==
  ASSUME IInv, Exclusive, Credited, NEW b \in FreeBlocks(refs)
  PROVE  Held(b) = {} /\ Kept(b) = {}
<1>1. Cardinality(Held(b)) = 0 /\ Cardinality(Kept(b)) = 0
  BY HoldersAreFinite DEF Credited, Counted, FreeBlocks
<1>2. QED
  BY <1>1, HoldersAreFinite, FS_EmptySet

-----------------------------------------------------------------------------
\* Steps that leave the tables alone.
LEMMA CreditsRest ==
  ASSUME Credited, UNCHANGED <<refs, cache>>, Undone' = Undone,
         \A r \in Undone : item'[r].blocks = item[r].blocks
  PROVE  Credited'
<1>1. Tabled'
  BY DEF Credited, Tabled, TotalBlocks
<1>2. ASSUME NEW b PROVE Held(b)' = Held(b) /\ Kept(b)' = Kept(b)
  BY DEF Held, Kept
<1>3. Counted'
  BY <1>2 DEF Credited, Counted
<1>4. QED
  BY <1>1, <1>3 DEF Credited

LEMMA ItemsUntouched ==
  ASSUME Credited, UNCHANGED <<active, item, refs, cache>> PROVE Credited'
<1>1. Undone' = Undone
  BY DEF Undone
<1>2. QED
  BY <1>1, CreditsRest

LEMMA CreditsUntouched ==
  ASSUME Credited,
         \/ \E r \in Requests : \/ DeadlinePasses(r) \/ ClientNext(r) \/ Accept(r) \/ Reject(r)
                               \/ VisitLive(r) \/ AdmitFails(r)
                               \/ ExpireWaiting(r) \/ TerminateWaiting(r)
         \/ \E i \in Ids : Cancel(i)
         \/ Stop \/ EmitTerminal \/ Sleep \/ BeginIteration \/ EndAdmit
         \/ Execute \/ ExecuteFails \/ CacheHit \/ EndCollect \/ DropSample
         \/ BeginStop \/ Catch \/ DrainLast \/ UNCHANGED vars
  PROVE  Credited'
<1> USE ItemsUntouched DEF itemVars, cacheVars
<1>1. ASSUME NEW r \in Requests, DeadlinePasses(r) PROVE Credited'
  BY <1>1 DEF DeadlinePasses
<1>2. ASSUME NEW r \in Requests, ClientNext(r) PROVE Credited'
  BY <1>2 DEF ClientNext
<1>3. ASSUME NEW r \in Requests, Accept(r) PROVE Credited'
  BY <1>3 DEF Accept
<1>4. ASSUME NEW r \in Requests, Reject(r) PROVE Credited'
  BY <1>4 DEF Reject
<1>5. ASSUME NEW r \in Requests, VisitLive(r) PROVE Credited'
  BY <1>5 DEF VisitLive
<1>6. ASSUME NEW r \in Requests, AdmitFails(r) PROVE Credited'
  BY <1>6 DEF AdmitFails
<1>7. ASSUME NEW r \in Requests, ExpireWaiting(r) PROVE Credited'
  BY <1>7 DEF ExpireWaiting
<1>8. ASSUME NEW r \in Requests, TerminateWaiting(r) PROVE Credited'
  BY <1>8 DEF TerminateWaiting
<1>9. ASSUME NEW i \in Ids, Cancel(i) PROVE Credited'
  BY <1>9 DEF Cancel
<1>10. CASE Stop
  BY <1>10 DEF Stop
<1>11. CASE EmitTerminal
  BY <1>11 DEF EmitTerminal
<1>12. CASE Sleep
  BY <1>12 DEF Sleep
<1>13. CASE BeginIteration
  BY <1>13 DEF BeginIteration
<1>14. CASE EndAdmit
  BY <1>14 DEF EndAdmit
<1>15. CASE Execute
  BY <1>15 DEF Execute
<1>16. CASE ExecuteFails
  BY <1>16 DEF ExecuteFails
<1>17. CASE CacheHit
  BY <1>17 DEF CacheHit
<1>18. CASE EndCollect
  BY <1>18 DEF EndCollect
<1>19. CASE DropSample
  BY <1>19 DEF DropSample
<1>20. CASE BeginStop
  BY <1>20 DEF BeginStop
<1>21. CASE Catch
  BY <1>21 DEF Catch
<1>22. CASE DrainLast
  BY <1>22 DEF DrainLast
<1>23. CASE UNCHANGED vars
  BY <1>23 DEF vars
<1>24. QED
  BY <1>1, <1>2, <1>3, <1>4, <1>5, <1>6, <1>7, <1>8, <1>9, <1>10, <1>11, <1>12, <1>13,
     <1>14, <1>15, <1>16, <1>17, <1>18, <1>19, <1>20, <1>21, <1>22, <1>23

LEMMA CreditsErased ==
  ASSUME IInv, Credited, EndExpire \/ EndIteration \/ EndTerminate PROVE Credited'
<1>1. EraseFinished /\ UNCHANGED <<refs, cache>>
  BY DEF EndExpire, EndIteration, EndTerminate, cacheVars
<1>2. Undone' = Undone
  BY <1>1, EraseKeeps
<1>3. \A r \in Undone : item'[r] = item[r]
  BY <1>1, CollectionsAsTheyAre DEF EraseFinished
<1>4. QED
  BY <1>1, <1>2, <1>3, CreditsRest

LEMMA CountingBlocks ==
  ASSUME IInv, NEW r \in Requests, NEW k,
         \/ item' = [item EXCEPT ![r].processed = @ + k]
         \/ item' = [item EXCEPT ![r].generated = @ + 1]
  PROVE  \A q \in Requests : item'[q].blocks = item[q].blocks
<1>1. CASE item' = [item EXCEPT ![r].processed = @ + k]
  BY <1>1 DEF IInv, ItemShape
<1>2. CASE item' = [item EXCEPT ![r].generated = @ + 1]
  BY <1>2 DEF IInv, ItemShape
<1>3. QED
  BY <1>1, <1>2

LEMMA CreditsWhileCounting ==
  ASSUME IInv, Credited, Collect \/ EmitToken \/ EmitThrows PROVE Credited'
<1>1. \E r \in Accepted : \E k : \/ item' = [item EXCEPT ![r].processed = @ + k]
                                 \/ item' = [item EXCEPT ![r].generated = @ + 1]
  <2>1. CASE Collect
    <3>1. /\ batch # <<>>
          /\ item' = [item EXCEPT ![Head(batch).key].processed = @ + Head(batch).tokens]
      BY <2>1 DEF Collect
    <3>2. QED
      BY <3>1, BatchTailAccepted
  <2>2. CASE EmitToken \/ EmitThrows
    <3>1. samples # <<>> /\ item' = [item EXCEPT ![Head(samples)].generated = @ + 1]
      BY <2>2 DEF EmitToken, EmitThrows
    <3>2. QED
      BY <3>1, TailAccepted
  <2>3. QED
    BY <2>1, <2>2
<1>2. UNCHANGED <<active, refs, cache>>
  BY DEF Collect, EmitToken, EmitThrows, cacheVars
<1>3. PICK r \in Accepted : \E k : \/ item' = [item EXCEPT ![r].processed = @ + k]
                                  \/ item' = [item EXCEPT ![r].generated = @ + 1]
  BY <1>1
<1>4. r \in Requests /\ Undone \subseteq Requests
  BY CollectionsAsTheyAre
<1>5. Undone' = Undone
  BY <1>2, <1>3, CountingKeeps
<1>6. \A q \in Undone : item'[q].blocks = item[q].blocks
  BY <1>3, <1>4, CountingBlocks
<1>7. QED
  BY <1>2, <1>5, <1>6, CreditsRest

-----------------------------------------------------------------------------
\* finish() gives back the table of a request.
LEMMA FinishReleases ==
  ASSUME IInv, Exclusive, Credited, NEW r \in Undone, NEW why, Finish(r, why),
         UNCHANGED <<active, cache>>
  PROVE  Credited'
<1>1. r \in Accepted /\ r \in Requests /\ Undone \subseteq Requests
  BY CollectionsAsTheyAre
<1>2. Undone' = Undone \ {r}
  BY <1>1, FinishEnds
<1>3. \A q \in Undone \ {r} : item'[q] = item[q]
  BY <1>1 DEF Finish, IInv, ItemShape
<1>4. refs' = [b \in Blocks |-> IF b \in Range(item[r].blocks) THEN refs[b] - 1 ELSE refs[b]]
  BY DEF Finish, Released
<1>5. ASSUME NEW b \in Blocks
      PROVE  /\ refs'[b] = Cardinality(Held(b)') + Cardinality(Kept(b)')
             /\ refs'[b] \in Nat
  <2>1. Held(b)' = Held(b) \ {r} /\ Kept(b)' = Kept(b)
    BY <1>2, <1>3 DEF Held, Kept
  <2>2. refs[b] = Cardinality(Held(b)) + Cardinality(Kept(b)) /\ refs[b] \in Nat
    BY DEF Credited, Tabled, Counted
  <2>3. CASE b \in Range(item[r].blocks)
    <3>1. r \in Held(b)
      BY <2>3 DEF Held
    <3>2. /\ Cardinality(Held(b) \ {r}) = Cardinality(Held(b)) - 1
          /\ Cardinality(Held(b)) \in Nat /\ Cardinality(Held(b)) > 0
      BY <3>1, HoldersAreFinite, OneLess
    <3>3. refs'[b] = refs[b] - 1 /\ Cardinality(Kept(b)) \in Nat
      BY <1>4, <2>3, HoldersAreFinite
    <3>4. QED
      BY <2>1, <2>2, <3>2, <3>3
  <2>4. CASE b \notin Range(item[r].blocks)
    <3>1. Held(b) \ {r} = Held(b)
      BY <2>4 DEF Held
    <3>2. QED
      BY <1>4, <2>1, <2>2, <2>4, <3>1
  <2>5. QED
    BY <2>3, <2>4
<1>6. Counted'
  BY <1>5 DEF Counted
<1>7. Tabled'
  <2>1. refs' \in [Blocks -> Nat]
    BY <1>4, <1>5
  <2>2. QED
    BY <1>2, <1>3, <2>1 DEF Credited, Tabled, TotalBlocks
<1>8. QED
  BY <1>6, <1>7 DEF Credited

LEMMA CreditsAtEnds ==
  ASSUME IInv, Exclusive, Credited,
         Close \/ \E r \in Requests : ExpireActive(r) \/ TerminateActive(r)
  PROVE  Credited'
<1> USE DEF cacheVars
<1>1. CASE Close
  <2>1. pc = "close" /\ samples # <<>>
    BY <1>1 DEF Close, At, IInv, EndsOnce
  <2>2. Order(samples, Undone)
    BY <2>1 DEF Exclusive, Turns
  <2>3. Head(samples) \in Undone
    BY <2>1, <2>2, HeadTailProperties DEF Order
  <2>4. CASE FinishThrows(Head(samples))
    BY <1>1, <2>4, ItemsUntouched DEF Close, FinishThrows
  <2>5. CASE Finish(Head(samples), reason)
    BY <1>1, <2>3, <2>5, FinishReleases DEF Close
  <2>6. QED
    BY <1>1, <2>4, <2>5 DEF Close
<1>2. ASSUME NEW r \in Requests, ExpireActive(r) PROVE Credited'
  <2>1. r \in Undone
    BY <1>2 DEF ExpireActive, Visit, At, Exclusive, Turns
  <2>2. CASE FinishThrows(r)
    BY <1>2, <2>2, ItemsUntouched DEF ExpireActive, FinishThrows
  <2>3. CASE Finish(r, ExpiryReason(r))
    BY <1>2, <2>1, <2>3, FinishReleases DEF ExpireActive
  <2>4. QED
    BY <1>2, <2>2, <2>3 DEF ExpireActive
<1>3. ASSUME NEW r \in Requests, TerminateActive(r) PROVE Credited'
  <2>1. r \in Undone
    BY <1>3 DEF TerminateActive
  <2>2. CASE FinishThrows(r)
    BY <1>3, <2>2, ItemsUntouched DEF TerminateActive, FinishThrows
  <2>3. CASE Finish(r, LastReason)
    BY <1>3, <2>1, <2>3, FinishReleases DEF TerminateActive
  <2>4. QED
    BY <1>3, <2>2, <2>3 DEF TerminateActive
<1>4. QED
  BY <1>1, <1>2, <1>3

\* evict() gives back the blocks of an entry.
LEMMA EvictReleases ==
  ASSUME IInv, Exclusive, Credited, NEW order, NEW check, Evict(order, check),
         Head(order) \in DOMAIN cache, UNCHANGED <<active, item>>
  PROVE  Credited'
<1> DEFINE h == Head(order)
<1>1. Undone' = Undone
  BY DEF Undone
<1>2. /\ refs' = [b \in Blocks |-> IF b \in Range(cache[h].blocks) THEN refs[b] - 1 ELSE refs[b]]
      /\ DOMAIN cache' = DOMAIN cache \ {h}
      /\ \A s \in DOMAIN cache \ {h} : cache'[s] = cache[s]
  BY DEF Evict, Released, Erased, Restrict
<1> HIDE DEF h
<1>3. h \in DOMAIN cache
  BY DEF h
<1>4. ASSUME NEW b \in Blocks
      PROVE  /\ refs'[b] = Cardinality(Held(b)') + Cardinality(Kept(b)')
             /\ refs'[b] \in Nat
  <2>1. Held(b)' = Held(b) /\ Kept(b)' = Kept(b) \ {h}
    BY <1>1, <1>2 DEF Held, Kept
  <2>2. refs[b] = Cardinality(Held(b)) + Cardinality(Kept(b)) /\ refs[b] \in Nat
    BY DEF Credited, Tabled, Counted
  <2>3. CASE b \in Range(cache[h].blocks)
    <3>1. h \in Kept(b)
      BY <1>3, <2>3 DEF Kept
    <3>2. /\ Cardinality(Kept(b) \ {h}) = Cardinality(Kept(b)) - 1
          /\ Cardinality(Kept(b)) \in Nat /\ Cardinality(Kept(b)) > 0
      BY <3>1, HoldersAreFinite, OneLess
    <3>3. refs'[b] = refs[b] - 1 /\ Cardinality(Held(b)) \in Nat
      BY <1>2, <2>3, HoldersAreFinite
    <3>4. QED
      BY <2>1, <2>2, <3>2, <3>3
  <2>4. CASE b \notin Range(cache[h].blocks)
    <3>1. Kept(b) \ {h} = Kept(b)
      BY <2>4 DEF Kept
    <3>2. QED
      BY <1>2, <2>1, <2>2, <2>4, <3>1
  <2>5. QED
    BY <2>3, <2>4
<1>5. Counted'
  BY <1>4 DEF Counted
<1>6. Tabled'
  <2>1. refs' \in [Blocks -> Nat]
    BY <1>2, <1>4
  <2>2. QED
    BY <1>1, <1>2, <2>1 DEF Credited, Tabled, TotalBlocks
<1>7. QED
  BY <1>5, <1>6 DEF Credited

LEMMA CreditsAfterEviction ==
  ASSUME IInv, Exclusive, Credited,
         CacheEvict \/ TerminateCache \/ \E r \in Requests : AdmitEvict(r)
  PROVE  Credited'
<1> USE DEF itemVars, At
<1>1. used # <<>> /\ UNCHANGED <<active, item>>
  BY DEF CacheEvict, TerminateCache, AdmitEvict
<1>2. ASSUME NEW order, Order(order, CacheSeqs), Range(order) = Range(used),
             NEW check, Evict(order, check)
      PROVE  Credited'
  <2>1. order # <<>>
    BY <1>1, <1>2, NobodyUsed DEF Exclusive, CacheTaken
  <2>2. Head(order) \in DOMAIN cache
    BY <1>2, <2>1, TailOfOrder DEF Exclusive, CacheTaken
  <2>3. QED
    BY <1>1, <1>2, <2>2, EvictReleases
<1>3. CASE CacheEvict
  <2> DEFINE order == AfterMatch(Cached(cand), CachedBy(cand))
  <2>1. pc = "collect" /\ cand # None /\ Evict(order, TRUE)
    BY <1>3 DEF CacheEvict
  <2>2. Order(order, CacheSeqs) /\ Range(order) = Range(used)
    BY <2>1, CacheUses
  <2> HIDE DEF order
  <2>3. QED
    BY <1>2, <2>1, <2>2
<1>4. CASE TerminateCache
  <2>1. Order(used, CacheSeqs)
    BY DEF Exclusive, CacheTaken
  <2>2. Evict(used, ~failed)
    BY <1>4 DEF TerminateCache
  <2>3. QED
    BY <1>2, <2>1, <2>2
<1>5. ASSUME NEW r \in Requests, AdmitEvict(r) PROVE Credited'
  BY <1>2, <1>5, AdmissionUses DEF AdmitEvict
<1>6. QED
  BY <1>3, <1>4, <1>5

-----------------------------------------------------------------------------
\* How many blocks a number of tokens fills.
\* The budget of a request covers every prefix of its prompt.
LEMMA BudgetCovers ==
  ASSUME NEW r \in Requests, NEW k \in 0..Len(Prompt[r])
  PROVE  k \div BlockSize \in Nat /\ TotalBlocks(r) \in Nat /\ k \div BlockSize <= TotalBlocks(r)
<1>1. BlockSize \in Nat \ {0} /\ Len(Prompt[r]) \in Nat /\ MaxTokens[r] \in Nat \ {0}
  BY EngineAssumption, LenProperties
<1>2. k \in Nat /\ Len(Prompt[r]) + MaxTokens[r] + BlockSize - 1 \in Nat
      /\ k <= Len(Prompt[r]) + MaxTokens[r] + BlockSize - 1
  BY <1>1
<1>3. QED
  BY <1>1, <1>2, Quotient, QuotientGrows DEF TotalBlocks

\* allocate() finds what it was asked for.
LEMMA FreshTable ==
  ASSUME NEW n \in Nat, n <= Cardinality(FreeBlocks(refs)),
         NEW t, t = CHOOSE u \in FreshTables(refs, n) : TRUE
  PROVE  t \in Seq(Blocks) /\ Len(t) = n /\ Range(t) \subseteq FreeBlocks(refs)
<1> DEFINE free == FreeBlocks(refs)
<1>1. IsFiniteSet(free) /\ free \subseteq Blocks
  BY RequestsFit, FS_Subset DEF FreeBlocks
<1>2. Cardinality(free) \in Nat /\ n <= Cardinality(free)
  BY <1>1, FS_CardinalityType
<1> HIDE DEF free
<1>3. Bijection(1..Cardinality(free), free) # {}
  BY <1>1, FS_CardinalityType DEF ExistsBijection
<1>4. PICK f \in [1..Cardinality(free) -> free] : IsInjective(f)
  BY <1>3 DEF Bijection, Injection
<1>5. [i \in 1..n |-> f[i]] \in Injection(1..n, free)
  <2>1. \A i \in 1..n : i \in 1..Cardinality(free) /\ f[i] \in free
    BY <1>2
  <2>2. QED
    BY <1>4, <2>1 DEF Injection, IsInjective
<1>6. t \in Injection(1..n, free)
  BY <1>5 DEF FreshTables, free
<1>7. t \in [1..n -> free] /\ t \in [1..n -> Blocks]
  BY <1>1, <1>6 DEF Injection
<1>8. t \in Seq(Blocks) /\ Len(t) = n
  BY <1>7, FunctionIsSeq
<1>9. Range(t) \subseteq free
  BY <1>7 DEF Range
<1>10. QED
  BY <1>8, <1>9 DEF free

\* What admit() shares is in the table of an entry, so that it is in use.
LEMMA SharedPrefix ==
  ASSUME Exclusive, Credited, NEW r \in Requests,
         NEW shared, shared = IF Reusable(r) = 0 THEN <<>>
                              ELSE SubSeq(cache[Source(r)].blocks, 1, Reusable(r) \div BlockSize)
  PROVE  /\ Reusable(r) \in 0..Len(Prompt[r])
         /\ shared \in Seq(Blocks) /\ Len(shared) = Reusable(r) \div BlockSize
         /\ \A b \in Range(shared) : Kept(b) # {}
<1>1. BlockSize \in Nat \ {0} /\ Len(Prompt[r]) \in Nat
  BY EngineAssumption, LenProperties
<1>2. /\ Reusable(r) \in 0..Len(Prompt[r])
      /\ Reusable(r) # 0 => /\ Source(r) \in DOMAIN cache
                            /\ Len(cache[Source(r)].tokens) >= Reusable(r)
  BY ReusableMatches DEF Exclusive, Shares
<1>3. CASE Reusable(r) = 0
  <2>1. 0 \div BlockSize = 0
    BY <1>1
  <2>2. QED
    BY <1>2, <1>3, <2>1, EmptySequence
<1>4. CASE Reusable(r) # 0
  <2> DEFINE blocks == cache[Source(r)].blocks
             k == Reusable(r) \div BlockSize
  <2>1. blocks \in Seq(Blocks) /\ Len(cache[Source(r)].tokens) \in Nat
        /\ Len(cache[Source(r)].tokens) \div BlockSize <= Len(blocks)
    BY <1>2, <1>4 DEF Credited, Tabled
  <2>2. k \in Nat /\ k <= Len(cache[Source(r)].tokens) \div BlockSize
        /\ Len(cache[Source(r)].tokens) \div BlockSize \in Nat
    <3>1. PICK c \in Nat : c = Len(cache[Source(r)].tokens)
      BY <2>1
    <3>2. Reusable(r) \in Nat /\ Reusable(r) <= c
      BY <1>1, <1>2, <1>4, <3>1
    <3>3. k \in Nat /\ c \div BlockSize \in Nat /\ k <= c \div BlockSize
      BY <1>1, <3>2, Quotient, QuotientGrows
    <3>4. QED
      BY <3>1, <3>3
  <2> HIDE DEF k, blocks
  <2>3. k \in 0..Len(blocks)
    BY <2>1, <2>2, LenProperties
  <2>4. shared = SubSeq(blocks, 1, k)
    BY <1>4 DEF blocks, k
  <2>5. shared \in Seq(Blocks) /\ Len(shared) = k /\ Range(shared) \subseteq Range(blocks)
    <3>1. /\ SubSeq(blocks, 1, k) \in Seq(Blocks) /\ Len(SubSeq(blocks, 1, k)) = k
          /\ Range(SubSeq(blocks, 1, k)) \subseteq Range(blocks)
      BY <2>1, <2>3, PrefixTable
    <3>2. QED
      BY <2>4, <3>1
  <2>6. \A b \in Range(shared) : Source(r) \in Kept(b)
    BY <1>2, <1>4, <2>5 DEF Kept, blocks
  <2>7. QED
    BY <1>2, <2>5, <2>6 DEF k
<1>5. QED
  BY <1>3, <1>4

LEMMA CreditsOfAdmit ==
  ASSUME IInv, Exclusive, Credited, NEW r \in Requests, Admit(r) PROVE Credited'
<1> DEFINE shared == IF Reusable(r) = 0 THEN <<>>
                     ELSE SubSeq(cache[Source(r)].blocks, 1, Reusable(r) \div BlockSize)
           fresh  == CHOOSE t \in FreshTables(refs, NewBlocks(r)) : TRUE
           s      == CHOOSE s \in freeSeqs : TRUE
           blocks == shared \o fresh
<1>1. /\ item' = [item EXCEPT ![r] =
                    [sequence |-> s, blocks |-> blocks, processed |-> Reusable(r),
                     generated |-> 0, done |-> FALSE]]
      /\ refs' = Retained(Allocated(refs, fresh), shared)
      /\ active' = active \cup {r}
  BY Zenon DEF Admit
<1>2. /\ r \in waiting /\ pc = "admit" /\ cache' = cache
      /\ NewBlocks(r) <= Cardinality(FreeBlocks(refs))
  BY DEF Admit, Candidate, At, Fits
<1>3. /\ Reusable(r) \in 0..Len(Prompt[r])
      /\ shared \in Seq(Blocks) /\ Len(shared) = Reusable(r) \div BlockSize
      /\ \A b \in Range(shared) : Kept(b) # {}
  BY SharedPrefix
<1>4. NewBlocks(r) \in Nat /\ Reusable(r) \div BlockSize + NewBlocks(r) = TotalBlocks(r)
  <2>1. PICK k \in Nat : k = Reusable(r) \div BlockSize
    BY <1>3, BudgetCovers
  <2>2. TotalBlocks(r) \in Nat /\ k <= TotalBlocks(r)
    BY <1>3, <2>1, BudgetCovers
  <2>3. QED
    BY <2>1, <2>2 DEF NewBlocks
<1>5. /\ fresh \in Seq(Blocks) /\ Len(fresh) = NewBlocks(r)
      /\ Range(fresh) \subseteq FreeBlocks(refs)
  BY <1>2, <1>4, FreshTable
<1> HIDE DEF s, shared, fresh
<1>6. /\ blocks \in Seq(Blocks) /\ Len(blocks) = TotalBlocks(r)
      /\ Range(blocks) = Range(shared) \cup Range(fresh)
  <2>1. /\ shared \o fresh \in Seq(Blocks)
        /\ Range(shared \o fresh) = Range(shared) \cup Range(fresh)
    BY <1>3, <1>5, ConcatTables
  <2>2. Len(shared \o fresh) = Len(shared) + Len(fresh)
    BY <1>3, <1>5, ConcatProperties
  <2>3. Len(shared \o fresh) = TotalBlocks(r)
    BY <1>3, <1>4, <1>5, <2>2
  <2>4. QED
    BY <2>1, <2>3
<1> HIDE DEF blocks
<1>7. \A b \in Range(fresh) : Held(b) = {} /\ Kept(b) = {} /\ b \notin Range(shared)
  BY <1>3, <1>5, FreeIsUnheld
<1>8. ~item'[r].done /\ item'[r].blocks = blocks /\ \A q \in Requests \ {r} : item'[q] = item[q]
  BY <1>1 DEF IInv, ItemShape
<1>9. r \notin active /\ Undone \subseteq Requests
  BY <1>2, CollectionsAsTheyAre DEF Exclusive, Apart
<1>10. Undone' = Undone \cup {r} /\ r \notin Undone
  BY <1>1, <1>8, <1>9, CollectionsAsTheyAre DEF Undone
<1>11. refs' = [b \in Blocks |-> IF b \in Range(shared) THEN
                                   (IF b \in Range(fresh) THEN 1 ELSE refs[b]) + 1
                                 ELSE IF b \in Range(fresh) THEN 1 ELSE refs[b]]
  BY <1>1 DEF Retained, Allocated
<1>12. ASSUME NEW b \in Blocks
       PROVE  /\ refs'[b] = Cardinality(Held(b)') + Cardinality(Kept(b)')
              /\ refs'[b] \in Nat
  <2>1. /\ Held(b)' = IF b \in Range(blocks) THEN Held(b) \cup {r} ELSE Held(b)
        /\ Kept(b)' = Kept(b) /\ r \notin Held(b)
    BY <1>2, <1>8, <1>9, <1>10 DEF Held, Kept
  <2>2. refs[b] = Cardinality(Held(b)) + Cardinality(Kept(b)) /\ refs[b] \in Nat
    BY DEF Credited, Tabled, Counted
  <2>3. Cardinality(Held(b) \cup {r}) = Cardinality(Held(b)) + 1
        /\ Cardinality(Held(b)) \in Nat /\ Cardinality(Kept(b)) \in Nat
    BY <2>1, HoldersAreFinite, OneMore
  <2>4. CASE b \in Range(fresh)
    <3>1. refs'[b] = 1 /\ b \in Range(blocks)
      BY <1>6, <1>7, <1>11, <2>4
    <3>2. Cardinality(Held(b)) = 0 /\ Cardinality(Kept(b)) = 0
      BY <1>7, <2>4, FS_EmptySet
    <3>3. QED
      BY <2>1, <2>3, <3>1, <3>2
  <2>5. CASE b \in Range(shared)
    <3>1. refs'[b] = refs[b] + 1 /\ b \in Range(blocks)
      BY <1>6, <1>7, <1>11, <2>5
    <3>2. QED
      BY <2>1, <2>2, <2>3, <3>1
  <2>6. CASE b \notin Range(shared) /\ b \notin Range(fresh)
    BY <1>6, <1>11, <2>1, <2>2, <2>6
  <2>7. QED
    BY <2>4, <2>5, <2>6
<1>13. Counted'
  BY <1>12 DEF Counted
<1>14. Tabled'
  <2>1. refs' \in [Blocks -> Nat]
    BY <1>11, <1>12
  <2>2. QED
    BY <1>2, <1>6, <1>8, <1>9, <1>10, <2>1 DEF Credited, Tabled, TotalBlocks
<1>15. QED
  BY <1>13, <1>14 DEF Credited

\* cache_prompt() keeps a prefix of the prompt.
LEMMA CachedPrefix ==
  ASSUME NEW r \in Requests PROVE CacheLength(r) \in 0..Len(Prompt[r])
<1>1. /\ CacheTokens \in Nat /\ BlockSize \in Nat \ {0} /\ Len(Prompt[r]) \in Nat
  BY EngineAssumption, LenProperties
<1>2. PICK m \in Nat : m = Min({Len(Prompt[r]), CacheTokens}) /\ m <= Len(Prompt[r])
  <2>1. \E x \in {Len(Prompt[r]), CacheTokens} : \A y \in {Len(Prompt[r]), CacheTokens} : x =< y
    BY <1>1
  <2>2. /\ Min({Len(Prompt[r]), CacheTokens}) \in {Len(Prompt[r]), CacheTokens}
        /\ \A y \in {Len(Prompt[r]), CacheTokens} : Min({Len(Prompt[r]), CacheTokens}) =< y
    BY <2>1 DEF Min
  <2>3. QED
    BY <1>1, <2>2
<1>3. PICK q \in Nat : q = m \div BlockSize /\ BlockSize * q <= m
  BY <1>1, Quotient
<1>4. q * BlockSize \in Nat /\ q * BlockSize = BlockSize * q
  BY <1>1, <1>3
<1>5. CacheLength(r) = IF CacheEntries = 0 THEN 0 ELSE q * BlockSize
  BY <1>2, <1>3 DEF CacheLength
<1>6. q * BlockSize \in 0..Len(Prompt[r]) /\ 0 \in 0..Len(Prompt[r])
  BY <1>1, <1>2, <1>3, <1>4
<1>7. QED
  BY <1>5, <1>6

LEMMA CreditsOfInsert ==
  ASSUME IInv, Exclusive, Credited, CacheInsert PROVE Credited'
<1> USE DEF itemVars, At
<1> DEFINE length == CacheLength(cand)
           s      == CHOOSE s \in freeCacheSeqs : TRUE
           tokens == SubSeq(Prompt[cand], 1, length)
           blocks == SubSeq(item[cand].blocks, 1, length \div BlockSize)
           entry  == [ns |-> Namespace[cand], tokens |-> tokens, blocks |-> blocks]
<1>1. /\ pc = "collect" /\ cand # None
      /\ used = <<>> \/ freeCacheSeqs # {}
      /\ cache' = Inserted(cache, s, entry) /\ refs' = Retained(refs, entry.blocks)
      /\ UNCHANGED <<active, item>>
  BY Zenon DEF CacheInsert, CacheFull
<1>2. cand \in Undone /\ cand \in Requests /\ CacheEntries > 0
  BY <1>1, CacheUses
<1>3. s \notin DOMAIN cache
  <2>1. /\ Order(used, CacheSeqs) /\ DOMAIN cache = Range(used)
        /\ freeCacheSeqs = CacheSeqs \ DOMAIN cache
    BY DEF Exclusive, CacheTaken
  <2>2. MaxActive \in CacheSeqs
    BY <1>2, EngineAssumption DEF CacheSeqs
  <2>3. freeCacheSeqs # {}
    BY <1>1, <2>1, <2>2, NobodyUsed
  <2>4. QED
    BY <2>1, <2>3
<1>4. tokens \in Seq(Nat) /\ Len(tokens) = length /\ length \in Nat
  <2>1. Prompt[cand] \in Seq(Nat) /\ length \in 0..Len(Prompt[cand])
    BY <1>2, CachedPrefix, EngineAssumption
  <2>2. QED
    BY <2>1, PrefixTable
<1>5. /\ blocks \in Seq(Blocks) /\ Len(blocks) = length \div BlockSize
      /\ length \div BlockSize \in Nat
  <2>1. item[cand].blocks \in Seq(Blocks) /\ Len(item[cand].blocks) = TotalBlocks(cand)
    BY <1>2 DEF Credited, Tabled
  <2>2. PICK k \in Nat : /\ k = length \div BlockSize /\ k <= TotalBlocks(cand)
                         /\ TotalBlocks(cand) \in Nat
    BY <1>2, CachedPrefix, BudgetCovers
  <2>3. k \in 0..Len(item[cand].blocks)
    BY <2>1, <2>2
  <2>4. /\ SubSeq(item[cand].blocks, 1, k) \in Seq(Blocks)
        /\ Len(SubSeq(item[cand].blocks, 1, k)) = k
    BY <2>1, <2>3, PrefixTable
  <2>5. QED
    BY <2>2, <2>4
<1> HIDE DEF s, tokens, blocks, length
<1>6. /\ DOMAIN cache' = DOMAIN cache \cup {s}
      /\ cache'[s].tokens = tokens /\ cache'[s].blocks = blocks
      /\ \A x \in DOMAIN cache : cache'[x] = cache[x]
  BY <1>1, <1>3 DEF Inserted
<1>7. refs' = [b \in Blocks |-> IF b \in Range(blocks) THEN refs[b] + 1 ELSE refs[b]]
  BY <1>1 DEF Retained
<1>8. Undone' = Undone
  BY <1>1 DEF Undone
<1>9. ASSUME NEW b \in Blocks
      PROVE  /\ refs'[b] = Cardinality(Held(b)') + Cardinality(Kept(b)')
             /\ refs'[b] \in Nat
  <2>1. /\ Held(b)' = Held(b) /\ s \notin Kept(b)
        /\ Kept(b)' = IF b \in Range(blocks) THEN Kept(b) \cup {s} ELSE Kept(b)
    BY <1>1, <1>3, <1>6, <1>8 DEF Held, Kept
  <2>2. refs[b] = Cardinality(Held(b)) + Cardinality(Kept(b)) /\ refs[b] \in Nat
    BY DEF Credited, Tabled, Counted
  <2>3. /\ Cardinality(Kept(b) \cup {s}) = Cardinality(Kept(b)) + 1
        /\ Cardinality(Held(b)) \in Nat /\ Cardinality(Kept(b)) \in Nat
    BY <2>1, HoldersAreFinite, OneMore
  <2>4. QED
    BY <1>7, <2>1, <2>2, <2>3
<1>10. Counted'
  BY <1>9 DEF Counted
<1>11. Tabled'
  <2>1. refs' \in [Blocks -> Nat]
    BY <1>7, <1>9
  <2>2. length \div BlockSize <= length \div BlockSize
    BY <1>5
  <2>3. QED
    BY <1>1, <1>4, <1>5, <1>6, <1>8, <2>1, <2>2 DEF Credited, Tabled, TotalBlocks
<1>12. QED
  BY <1>10, <1>11 DEF Credited

-----------------------------------------------------------------------------
LEMMA InitCredited == Init => Credited
<1> SUFFICES ASSUME Init PROVE Credited
  OBVIOUS
<1>1. Undone = {} /\ DOMAIN cache = {} /\ refs = [b \in Blocks |-> 0]
  BY DEF Init, Undone
<1>2. \A b : Held(b) = {} /\ Kept(b) = {}
  BY <1>1 DEF Held, Kept
<1>3. Counted
  <2>1. ASSUME NEW b \in Blocks PROVE Cardinality(Held(b)) = 0 /\ Cardinality(Kept(b)) = 0
    BY <1>2, FS_EmptySet, Zenon
  <2>2. QED
    BY <1>1, <2>1 DEF Counted
<1>4. Tabled
  BY <1>1 DEF Tabled
<1>5. QED
  BY <1>3, <1>4 DEF Credited

LEMMA NextCredited == IInv /\ Exclusive /\ Credited /\ [Next]_vars => Credited'
<1> SUFFICES ASSUME IInv, Exclusive, Credited, [Next]_vars PROVE Credited'
  OBVIOUS
<1>1. CASE Worker
  BY <1>1, CreditsUntouched, CreditsErased, CreditsWhileCounting, CreditsAtEnds,
     CreditsAfterEviction, CreditsOfAdmit, CreditsOfInsert
     DEF Worker, Emission, Termination, Expire, Admission, CachePrompt
<1>2. CASE Client
  BY <1>2, CreditsUntouched DEF Client
<1>3. CASE Stopped \/ UNCHANGED vars
  BY <1>3, CreditsUntouched DEF Stopped
<1>4. QED
  BY <1>1, <1>2, <1>3 DEF Next

\* What the worker has handed out: sequences, cache entries and blocks.
THEOREM CreditsHold == Spec => [](Exclusive /\ Credited)
<1>1. QED
  BY InitExclusive, NextExclusive, InitCredited, NextCredited, InvariantHolds, PTL DEF Spec

\* Each block has as many references as requests and cache entries list it,
\* whatever they share, in whichever order they end, and when the backend
\* fails in the middle of any of it.
THEOREM BlocksExact == Spec => []BlocksAreAccounted
<1>1. Credited => BlocksAreAccounted
  BY DEF Credited, Counted, Held, Kept, BlocksAreAccounted
<1>2. QED
  BY <1>1, CreditsHold, PTL

\* So a pool nobody else uses has all its blocks free, and every request fits.
THEOREM IdleFits == Spec => []IdlePoolFits
<1>1. IInv /\ Exclusive /\ Credited => IdlePoolFits
  <2> SUFFICES ASSUME IInv, Exclusive, Credited, pc = "admit", active = {}, used = <<>>,
                      NEW r \in waiting
               PROVE  Fits(r)
    BY DEF IdlePoolFits
  <2>1. Undone = {} /\ DOMAIN cache = {} /\ r \in Requests
    BY CollectionsAsTheyAre, EmptySequence DEF Undone, Exclusive, CacheTaken
  <2>2. \A b \in Blocks : Held(b) = {} /\ Kept(b) = {}
    BY <2>1 DEF Held, Kept
  <2>3. \A b \in Blocks : refs[b] = 0
    <3>1. ASSUME NEW b \in Blocks PROVE Cardinality(Held(b)) = 0 /\ Cardinality(Kept(b)) = 0
      BY <2>2, FS_EmptySet, Zenon
    <3>2. QED
      BY <3>1 DEF Credited, Counted
  <2>4. FreeBlocks(refs) = Blocks
    BY <2>3 DEF FreeBlocks
  <2>5. Reusable(r) \in 0..Len(Prompt[r])
    BY <2>1, SharedPrefix
  <2>6. PICK k \in Nat : k = Reusable(r) \div BlockSize /\ TotalBlocks(r) \in Nat
    BY <2>1, <2>5, BudgetCovers
  <2>7. TotalBlocks(r) <= Cardinality(Blocks) /\ Cardinality(Blocks) \in Nat
    BY <2>1, RequestsFit, FS_CardinalityType
  <2>8. QED
    BY <2>4, <2>6, <2>7 DEF Fits, NewBlocks
<1>2. QED
  BY <1>1, CreditsHold, InvariantHolds, PTL

-----------------------------------------------------------------------------
(***************************************************************************)
(* What the runner holds, in each phase of an iteration.  A request that   *)
(* has expired while its sample was dropped is an exception until it is    *)
(* finished, and so is everything after an exception.                      *)
(***************************************************************************)
\* The tokens of a request: its prompt, then what the model sampled.
CellAt(r, i) == [ns |-> Namespace[r], token |-> IF i <= Len(Prompt[r]) THEN Prompt[r][i] ELSE 0]
TextOf(r, n) == [i \in 1..n |-> CellAt(r, i)]
Written(r, n) == kv[item[r].sequence] = TextOf(r, n)

WithinBudget(r) ==
  item[r].processed \in 0..Len(Prompt[r]) /\ item[r].generated < MaxTokens[r]

\* Between batches: the last token sampled has not been fed yet.
FedTokens(r) == item[r].processed + (IF item[r].generated = 0 THEN 0 ELSE item[r].generated - 1)
Steady(r) ==
  /\ item[r].processed = Len(Prompt[r]) <=> item[r].generated > 0
  /\ Written(r, FedTokens(r))

\* A slice of the batch that is not recorded yet.
Sliced(r, n) ==
  /\ item[r].generated = 0 /\ n > 0 /\ item[r].processed + n <= Len(Prompt[r])
  /\ Written(r, item[r].processed + n)

\* A sample that is not handled yet.
Sampled(r) ==
  item[r].processed = Len(Prompt[r]) /\ Written(r, Len(Prompt[r]) + item[r].generated)

Right(r) ==
  /\ WithinBudget(r)
  /\ r \in Range(samples) => Sampled(r)
  /\ \A i \in 1..Len(batch) : batch[i].key = r => Sliced(r, batch[i].tokens)
  /\ r \in Range(samples) \/ (\E i \in 1..Len(batch) : batch[i].key = r) \/ Steady(r)

Over == {"catch", "drain", "terminate", "stopped"}
Exempt(r) ==
  \/ pc \in Over
  \/ Expired(r) /\ (pc \in {"loop", "asleep", "emit", "close"} \/ (pc = "expire" /\ r \in todo))
  \/ pc = "close" /\ r = Head(samples)

Cell(e, i) == [ns |-> e.ns, token |-> e.tokens[i]]
EntryWritten(s) ==
  /\ cache[s].tokens \in Seq(Nat)
  /\ kv[s] = [i \in 1..Len(cache[s].tokens) |-> Cell(cache[s], i)]

ListsInPhase ==
  /\ pc \in {"loop", "asleep", "expire", "admit", "iterate"} => batch = <<>> /\ samples = <<>>
  /\ pc \in {"emit", "close"} => batch = <<>>
  /\ pc = "collect" /\ cand # None => cand \in Range(samples)

KvInv ==
  /\ DOMAIN kv = ActiveSeqs \cup CacheSeqs /\ DOMAIN cancelled = Requests /\ DOMAIN late = Requests
  /\ ListsInPhase
  /\ \A r \in Undone : Exempt(r) \/ Right(r)
  /\ pc \notin Over => \A s \in DOMAIN cache : EntryWritten(s)

-----------------------------------------------------------------------------
\* Texts.
LEMMA PrefixOfFunction ==
  ASSUME NEW n \in Nat, NEW f, f = [i \in 1..n |-> f[i]], NEW m \in 0..n
  PROVE  SubSeq(f, 1, m) = [i \in 1..m |-> f[i]]
<1> DEFINE S == {f[i] : i \in 1..n}
           g == [i \in 1..m |-> f[i]]
<1>1. f \in Seq(S) /\ Len(f) = n
  <2>1. f \in [1..n -> S]
    OBVIOUS
  <2> HIDE DEF S
  <2>2. QED
    BY <2>1, FunctionIsSeq
<1>2. m \in Nat /\ \A i \in 1..m : f[i] \in S
  OBVIOUS
<1>3. g \in Seq(S) /\ Len(g) = m
  <2>1. g \in [1..m -> S]
    BY <1>2
  <2> HIDE DEF S, g
  <2>2. QED
    BY <1>2, <2>1, FunctionIsSeq
<1> HIDE DEF S
<1>4. /\ SubSeq(f, 1, m) \in Seq(S) /\ Len(SubSeq(f, 1, m)) = m
      /\ \A i \in 1..m : SubSeq(f, 1, m)[i] = f[i]
  BY <1>1, PrefixTable
<1>5. \A i \in 1..m : SubSeq(f, 1, m)[i] = g[i]
  BY <1>4
<1> HIDE DEF g
<1>6. SubSeq(f, 1, m) = g
  BY <1>3, <1>4, <1>5, SeqEqual
<1>7. QED
  BY <1>6 DEF g

\* Tokens fed in their turn continue a text.
LEMMA TextGrows ==
  ASSUME NEW r, NEW n \in Nat, NEW k \in Nat
  PROVE  /\ TextOf(r, n) \o [i \in 1..k |-> CellAt(r, n + i)] = TextOf(r, n + k)
         /\ Len(TextOf(r, n)) = n
         /\ TextOf(r, n) \o <<>> = TextOf(r, n)
<1> DEFINE S == {CellAt(r, i) : i \in Nat}
           a == TextOf(r, n)
           b == [i \in 1..k |-> CellAt(r, n + i)]
           c == TextOf(r, n + k)
<1>1. \A i \in Nat : CellAt(r, i) \in S
  OBVIOUS
<1> HIDE DEF S
<1>2. a \in [1..n -> S] /\ b \in [1..k -> S] /\ c \in [1..(n + k) -> S] /\ n + k \in Nat
  BY <1>1 DEF TextOf
<1>3. /\ \A i \in 1..n : c[i] = a[i]
      /\ \A i \in 1..k : c[n + i] = b[i]
  <2>1. \A i \in 1..k : n + i \in 1..(n + k)
    OBVIOUS
  <2>2. \A i \in 1..n : i \in 1..(n + k)
    OBVIOUS
  <2>3. QED
    BY <2>1, <2>2 DEF TextOf
<1> HIDE DEF a, b, c
<1>4. a \in Seq(S) /\ Len(a) = n /\ b \in Seq(S) /\ Len(b) = k /\ c \in Seq(S) /\ Len(c) = n + k
  BY <1>2, FunctionIsSeq
<1>5. c = a \o b
  BY <1>3, <1>4, JoinedSeq
<1>6. a \o <<>> = a
  BY <1>4, ConcatEmptySeq
<1>7. QED
  BY <1>4, <1>5, <1>6 DEF a, b, c

\* What a batch feeds for a decode and for a slice of a prompt.
LEMMA FedDecode ==
  ASSUME NEW r \in Requests, NEW n \in Nat, n >= Len(Prompt[r])
  PROVE  Cells(r, <<0>>) = [i \in 1..1 |-> CellAt(r, n + i)]
<1>1. Len(Prompt[r]) \in Nat
  BY EngineAssumption, LenProperties
<1>2. \A i \in 1..1 : i = 1 /\ ~(n + i <= Len(Prompt[r])) /\ <<0>>[i] = 0
  BY <1>1
<1>3. Len(<<0>>) = 1
  OBVIOUS
<1>4. QED
  BY <1>2, <1>3 DEF Cells, CellAt

LEMMA FedSlice ==
  ASSUME NEW r \in Requests, NEW d \in Nat, NEW n \in Nat, d + n <= Len(Prompt[r]), n > 0
  PROVE  Cells(r, SubSeq(Prompt[r], d + 1, d + n)) = [i \in 1..n |-> CellAt(r, d + i)]
<1>1. Prompt[r] \in Seq(Nat) /\ Len(Prompt[r]) \in Nat /\ DOMAIN Prompt[r] = 1..Len(Prompt[r])
  BY EngineAssumption, LenProperties
<1> DEFINE t == SubSeq(Prompt[r], d + 1, d + n)
<1>2. PICK l \in Nat, e \in Int, f \in Int : l = Len(Prompt[r]) /\ e = d + 1 /\ f = d + n
  BY <1>1
<1>3. e <= f /\ f - e + 1 = n /\ e..f \subseteq 1..l
  BY <1>2
<1>4. \A i \in e..f : Prompt[r][i] \in Nat
  BY <1>1, <1>2, <1>3, ElementOfSeq
<1>5. Len(t) = n /\ \A i \in 1..n : t[i] = Prompt[r][e + i - 1]
  BY <1>2, <1>3, <1>4, SubSeqProperties
<1>6. \A i \in 1..n : e + i - 1 = d + i /\ d + i <= l
  BY <1>2
<1>7. \A i \in 1..n : t[i] = Prompt[r][d + i] /\ d + i <= Len(Prompt[r])
  BY <1>2, <1>5, <1>6
<1> HIDE DEF t
<1>8. Cells(r, t) = [i \in 1..n |-> CellAt(r, d + i)]
  BY <1>5, <1>7 DEF Cells, CellAt
<1>9. QED
  BY <1>8 DEF t

-----------------------------------------------------------------------------
\* Steps that leave what a request looks at alone.
LEMMA RightStays ==
  ASSUME NEW r, Right(r), item'[r] = item[r],
         kv'[item[r].sequence] = kv[item[r].sequence],
         batch' = batch, r \in Range(samples') <=> r \in Range(samples)
  PROVE  Right(r)'
BY DEF Right, WithinBudget, Sampled, Sliced, Steady, FedTokens, Written

LEMMA EntryStays ==
  ASSUME NEW s, EntryWritten(s), cache'[s] = cache[s], kv'[s] = kv[s]
  PROVE  EntryWritten(s)'
BY DEF EntryWritten, Cell

LEMMA KvRests ==
  ASSUME KvInv, UNCHANGED <<active, item, kv, cache, batch, samples>>, ListsInPhase',
         DOMAIN cancelled' = Requests, DOMAIN late' = Requests,
         \A r \in Undone : Exempt(r) => Exempt(r)',
         pc \in Over => pc' \in Over
  PROVE  KvInv'
<1>1. Undone' = Undone
  BY DEF Undone
<1>2. ASSUME NEW r \in Undone PROVE Exempt(r)' \/ Right(r)'
  BY <1>2, RightStays DEF KvInv
<1>3. \A s \in DOMAIN cache : EntryWritten(s) => EntryWritten(s)'
  BY EntryStays
<1>4. QED
  BY <1>1, <1>2, <1>3 DEF KvInv

\* After an exception nothing is claimed any more.
LEMMA KvGivenUp ==
  ASSUME KvInv, DOMAIN kv' = DOMAIN kv, UNCHANGED <<cancelled, late>>, pc' \in Over PROVE KvInv'
BY DEF KvInv, ListsInPhase, Exempt, Over

LEMMA KvRestingSteps ==
  ASSUME IInv, Exclusive, KvInv,
         \/ \E r \in Requests : \/ DeadlinePasses(r) \/ ClientNext(r) \/ Accept(r) \/ Reject(r)
                               \/ VisitLive(r) \/ AdmitFails(r) \/ ExpireWaiting(r)
         \/ \E i \in Ids : Cancel(i)
         \/ Stop \/ EmitTerminal \/ Sleep \/ BeginIteration \/ EndAdmit \/ CacheHit \/ EndCollect
         \/ UNCHANGED vars
  PROVE  KvInv'
<1> USE DEF sharedVars, handleVars, batchVars, itemVars, cacheVars, At
<1>0. /\ UNCHANGED <<active, item, kv, cache, batch, samples>>
      /\ pc \in Over => pc' \in Over
  <2>1. UNCHANGED <<active, item, kv, cache, batch, samples>>
    BY DEF DeadlinePasses, ClientNext, Accept, Reject, VisitLive, AdmitFails, ExpireWaiting, Cancel,
           Stop, EmitTerminal, Sleep, BeginIteration, EndAdmit, CacheHit, EndCollect, vars
  <2>2. pc \in Over => pc' \in Over
    BY DEF DeadlinePasses, ClientNext, Accept, Reject, VisitLive, AdmitFails, ExpireWaiting, Cancel,
           Stop, EmitTerminal, Sleep, BeginIteration, EndAdmit, CacheHit, EndCollect, vars, Notify,
           Visit, Candidate, Over
  <2>3. QED
    BY <2>1, <2>2
<1> USE DEF KvInv, ListsInPhase, Exempt, Expired, Over
<1>1. ASSUME NEW r \in Requests, DeadlinePasses(r) PROVE KvInv'
  <2>1. late' = [late EXCEPT ![r] = TRUE] /\ UNCHANGED <<pc, todo, cand, cancelled>>
    BY <1>1 DEF DeadlinePasses
  <2>2. DOMAIN late' = Requests /\ \A q \in Requests : late[q] => late'[q]
    BY <2>1
  <2>3. QED
    BY <1>0, <2>1, <2>2, KvRests, CollectionsAsTheyAre
<1>2. ASSUME NEW r \in Requests, ClientNext(r) \/ Reject(r) \/ AdmitFails(r) PROVE KvInv'
  BY <1>0, <1>2, KvRests DEF ClientNext, Reject, AdmitFails, Candidate
<1>3. ASSUME NEW r \in Requests, Accept(r) PROVE KvInv'
  BY <1>0, <1>3, KvRests DEF Accept, Notify
<1>4. ASSUME NEW r \in Requests, VisitLive(r) PROVE KvInv'
  BY <1>0, <1>4, KvRests DEF VisitLive, Visit
<1>5. ASSUME NEW r \in Requests, ExpireWaiting(r) PROVE KvInv'
  <2>1. pc = "expire" /\ pc' = pc /\ todo' = todo \ {r} /\ r \in waiting /\ UNCHANGED <<cand, cancelled, late>>
    BY <1>5 DEF ExpireWaiting, Visit
  <2>2. r \notin Undone
    BY <2>1 DEF Exclusive, Apart, Undone
  <2>3. QED
    BY <1>0, <2>1, <2>2, KvRests, CollectionsAsTheyAre
<1>6. ASSUME NEW i \in Ids, Cancel(i) PROVE KvInv'
  <2>1. cancelled' = [cancelled EXCEPT ![registry[i]] = TRUE] /\ UNCHANGED <<todo, cand, late>> /\ Notify
    BY <1>6 DEF Cancel
  <2>2. DOMAIN cancelled' = Requests /\ \A q \in Requests : cancelled[q] => cancelled'[q]
    BY <2>1
  <2>3. QED
    BY <1>0, <2>1, <2>2, KvRests, CollectionsAsTheyAre DEF Notify
<1>7. CASE Stop
  BY <1>0, <1>7, KvRests DEF Stop, Notify
<1>8. CASE EmitTerminal
  BY <1>0, <1>8, KvRests DEF EmitTerminal
<1>9. CASE Sleep
  BY <1>0, <1>9, KvRests DEF Sleep
<1>10. CASE BeginIteration
  BY <1>0, <1>10, KvRests DEF BeginIteration, Undone
<1>11. CASE EndAdmit
  BY <1>0, <1>11, KvRests DEF EndAdmit
<1>12. CASE CacheHit
  BY <1>0, <1>12, KvRests DEF CacheHit
<1>13. CASE EndCollect
  BY <1>0, <1>13, KvRests DEF EndCollect
<1>14. CASE UNCHANGED vars
  BY <1>0, <1>14, KvRests DEF vars
<1>15. QED
  BY <1>1, <1>2, <1>3, <1>4, <1>5, <1>6, <1>7, <1>8, <1>9, <1>10, <1>11, <1>12, <1>13, <1>14

-----------------------------------------------------------------------------
\* Steps into and behind an exception.
LEMMA KvAfterFailures ==
  ASSUME IInv, Exclusive, KvInv,
         \/ ExecuteFails \/ EmitThrows \/ BeginStop \/ Catch \/ DrainLast \/ TerminateCache
         \/ EndTerminate
         \/ \E r \in Requests : TerminateActive(r) \/ TerminateWaiting(r)
  PROVE  KvInv'
<1> USE DEF sharedVars, handleVars, batchVars, itemVars, cacheVars, At
<1>1. pc' \in Over /\ UNCHANGED <<cancelled, late>>
  BY DEF ExecuteFails, EmitThrows, BeginStop, Catch, DrainLast, TerminateCache, Evict, EndTerminate,
         TerminateActive, TerminateWaiting, FinishThrows, Over
<1>2. DOMAIN kv' = DOMAIN kv
  BY DEF ExecuteFails, EmitThrows, BeginStop, Catch, DrainLast, TerminateCache, Evict, EndTerminate,
         TerminateActive, TerminateWaiting, FinishThrows, Finish
<1>3. QED
  BY <1>1, <1>2, KvGivenUp

\* erase_finished()
LEMMA KvErased ==
  ASSUME IInv, Exclusive, KvInv, EndExpire \/ EndIteration PROVE KvInv'
<1> USE DEF sharedVars, handleVars, batchVars, itemVars, cacheVars, At
<1>1. /\ EraseFinished /\ UNCHANGED <<kv, cache, batch, samples, cand, todo, cancelled, late>>
      /\ \/ pc = "expire" /\ todo = {} /\ pc' = "admit"
         \/ pc = "emit" /\ samples = <<>> /\ pc' = "loop"
  BY DEF EndExpire, EndIteration
<1>2. Undone' = Undone /\ \A r \in Undone : item'[r] = item[r]
  BY <1>1, EraseKeeps, CollectionsAsTheyAre DEF EraseFinished
<1>3. ASSUME NEW r \in Undone PROVE Exempt(r)' \/ Right(r)'
  <2>1. Right(r) => Right(r)'
    BY <1>1, <1>2, RightStays
  <2>2. Exempt(r) => Exempt(r)'
    BY <1>1 DEF Exempt, Expired, Over
  <2>3. QED
    BY <2>1, <2>2 DEF KvInv
<1>4. \A s \in DOMAIN cache : EntryWritten(s) => EntryWritten(s)'
  BY <1>1, EntryStays
<1>5. ListsInPhase'
  BY <1>1 DEF KvInv, ListsInPhase
<1>6. QED
  BY <1>1, <1>2, <1>3, <1>4, <1>5 DEF KvInv, Over

\* finish() clears one sequence, which is nobody else's.
LEMMA FinishClears ==
  ASSUME IInv, Exclusive, KvInv, NEW r \in Undone, NEW why, Finish(r, why), UNCHANGED active
  PROVE  /\ Undone' = Undone \ {r} /\ DOMAIN kv' = DOMAIN kv
         /\ \A q \in Undone' : item'[q] = item[q] /\ kv'[item[q].sequence] = kv[item[q].sequence]
         /\ \A s \in CacheSeqs : kv'[s] = kv[s]
<1>1. r \in Accepted /\ r \in Requests /\ Undone \subseteq Requests
  BY CollectionsAsTheyAre
<1>2. Undone' = Undone \ {r}
  BY <1>1, FinishEnds
<1>3. \A q \in Undone \ {r} : item'[q] = item[q]
  BY <1>1 DEF Finish, IInv, ItemShape
<1>4. kv' = [kv EXCEPT ![item[r].sequence] = <<>>]
  BY DEF Finish
<1>5. /\ \A q \in Undone : item[q].sequence \in ActiveSeqs /\ item[q].sequence \in DOMAIN kv
      /\ \A q \in Undone \ {r} : item[q].sequence # item[r].sequence
      /\ CacheSeqs \subseteq DOMAIN kv
  BY DEF Exclusive, SequencesTaken, KvInv
<1>6. \A s \in CacheSeqs : s \notin ActiveSeqs
  BY EngineAssumption DEF CacheSeqs, ActiveSeqs
<1>7. QED
  BY <1>2, <1>3, <1>4, <1>5, <1>6

LEMMA EntriesAreCacheSeqs == ASSUME Exclusive PROVE DOMAIN cache \subseteq CacheSeqs
  BY RangeOfOrder DEF Exclusive, CacheTaken

LEMMA KvExpires ==
  ASSUME IInv, Exclusive, KvInv, NEW r \in Requests, ExpireActive(r) PROVE KvInv'
<1> USE DEF sharedVars, handleVars, batchVars, itemVars, cacheVars, At
<1>1. /\ pc = "expire" /\ todo' = todo \ {r} /\ r \in Undone
      /\ UNCHANGED <<active, cache, batch, samples, cand, cancelled, late>>
  BY DEF ExpireActive, Visit, Exclusive, Turns
<1>2. CASE FinishThrows(r)
  <2>1. pc' \in Over /\ kv' = kv
    BY <1>2 DEF FinishThrows, Over
  <2>2. QED
    BY <1>1, <2>1, KvGivenUp
<1>3. CASE Finish(r, ExpiryReason(r)) /\ pc' = pc
  <2>1. /\ Undone' = Undone \ {r} /\ DOMAIN kv' = DOMAIN kv
        /\ \A q \in Undone' : item'[q] = item[q] /\ kv'[item[q].sequence] = kv[item[q].sequence]
        /\ \A s \in CacheSeqs : kv'[s] = kv[s]
    BY <1>1, <1>3, FinishClears
  <2>2. ASSUME NEW q \in Undone' PROVE Exempt(q)' \/ Right(q)'
    <3>1. q \in Undone /\ q # r
      BY <2>1
    <3>2. Right(q) => Right(q)'
      BY <1>1, <2>1, RightStays
    <3>3. Exempt(q) => Exempt(q)'
      BY <1>1, <1>3, <3>1 DEF Exempt, Expired, Over
    <3>4. QED
      BY <3>1, <3>2, <3>3 DEF KvInv
  <2>3. \A s \in DOMAIN cache : EntryWritten(s) => EntryWritten(s)'
    BY <1>1, <2>1, EntriesAreCacheSeqs, EntryStays
  <2>4. ListsInPhase'
    BY <1>1, <1>3 DEF KvInv, ListsInPhase
  <2>5. QED
    BY <1>1, <1>3, <2>1, <2>2, <2>3, <2>4 DEF KvInv
<1>4. QED
  BY <1>2, <1>3 DEF ExpireActive

LEMMA SamplesInTurn ==
  ASSUME Exclusive, pc \in {"emit", "close"}, samples # <<>>
  PROVE  /\ Head(samples) \in Undone
         /\ \A q : q # Head(samples) => (q \in Range(Tail(samples)) <=> q \in Range(samples))
         /\ Head(samples) \in Range(samples) /\ Head(samples) \notin Range(Tail(samples))
<1>1. Order(samples, Undone)
  BY DEF Exclusive, Turns
<1>2. /\ Range(Tail(samples)) = Range(samples) \ {Head(samples)}
      /\ Head(samples) \in Range(samples)
  BY <1>1, TailOfOrder
<1>3. QED
  BY <1>1, <1>2, RangeOfOrder

LEMMA KvCloses == ASSUME IInv, Exclusive, KvInv, Close PROVE KvInv'
<1> USE DEF sharedVars, handleVars, batchVars, itemVars, cacheVars, At
<1> DEFINE r == Head(samples)
<1>1. /\ pc = "close" /\ samples # <<>> /\ samples' = Tail(samples)
      /\ UNCHANGED <<active, cache, batch, cand, todo, cancelled, late>>
  BY DEF Close, IInv, EndsOnce
<1>2. /\ r \in Undone
      /\ \A q : q # r => (q \in Range(samples') <=> q \in Range(samples))
  BY <1>1, SamplesInTurn
<1>3. CASE FinishThrows(r)
  <2>1. pc' \in Over /\ kv' = kv
    BY <1>3 DEF FinishThrows, Over
  <2>2. QED
    BY <1>1, <2>1, KvGivenUp
<1>4. CASE Finish(r, reason) /\ pc' = "emit"
  <2>1. /\ Undone' = Undone \ {r} /\ DOMAIN kv' = DOMAIN kv
        /\ \A q \in Undone' : item'[q] = item[q] /\ kv'[item[q].sequence] = kv[item[q].sequence]
        /\ \A s \in CacheSeqs : kv'[s] = kv[s]
    BY <1>1, <1>2, <1>4, FinishClears
  <2>2. ASSUME NEW q \in Undone' PROVE Exempt(q)' \/ Right(q)'
    <3>1. q \in Undone /\ q # r
      BY <2>1
    <3>2. Right(q) => Right(q)'
      BY <1>1, <1>2, <2>1, <3>1, RightStays
    <3>3. Exempt(q) => Exempt(q)'
      BY <1>1, <1>4, <3>1 DEF Exempt, Expired, Over
    <3>4. QED
      BY <3>1, <3>2, <3>3 DEF KvInv
  <2>3. \A s \in DOMAIN cache : EntryWritten(s) => EntryWritten(s)'
    BY <1>1, <2>1, EntriesAreCacheSeqs, EntryStays
  <2>4. ListsInPhase'
    BY <1>1, <1>4 DEF KvInv, ListsInPhase
  <2>5. QED
    BY <1>1, <1>4, <2>1, <2>2, <2>3, <2>4 DEF KvInv, Over
<1>5. QED
  BY <1>3, <1>4 DEF Close

\* A dropped sample is that of a request which has expired.
LEMMA KvDrops == ASSUME IInv, Exclusive, KvInv, DropSample PROVE KvInv'
<1> USE DEF sharedVars, handleVars, batchVars, itemVars, cacheVars, At
<1> DEFINE r == Head(samples)
<1>1. /\ pc = "emit" /\ pc' = pc /\ samples # <<>> /\ samples' = Tail(samples) /\ Expired(r)
      /\ UNCHANGED <<active, item, kv, cache, batch, cand, todo, cancelled, late>>
  BY DEF DropSample
<1>2. \A q : q # r => (q \in Range(samples') <=> q \in Range(samples))
  BY <1>1, SamplesInTurn
<1>3. Undone' = Undone
  BY <1>1 DEF Undone
<1>4. ASSUME NEW q \in Undone PROVE Exempt(q)' \/ Right(q)'
  <2>1. q = r => Exempt(q)'
    BY <1>1 DEF Exempt, Expired
  <2>2. q # r /\ Right(q) => Right(q)'
    BY <1>1, <1>2, RightStays
  <2>3. Exempt(q) => Exempt(q)'
    BY <1>1 DEF Exempt, Expired, Over
  <2>4. QED
    BY <2>1, <2>2, <2>3 DEF KvInv
<1>5. \A s \in DOMAIN cache : EntryWritten(s) => EntryWritten(s)'
  BY <1>1, EntryStays
<1>6. ListsInPhase'
  BY <1>1 DEF KvInv, ListsInPhase
<1>7. QED
  BY <1>1, <1>3, <1>4, <1>5, <1>6 DEF KvInv, Over

-----------------------------------------------------------------------------
\* Counting the tokens of one request.
LEMMA CountedItem ==
  ASSUME IInv, NEW r \in Requests, NEW k
  PROVE  /\ item' = [item EXCEPT ![r].processed = @ + k] =>
              /\ item'[r].processed = item[r].processed + k
              /\ item'[r].generated = item[r].generated /\ item'[r].sequence = item[r].sequence
              /\ \A q \in Requests \ {r} : item'[q] = item[q]
         /\ item' = [item EXCEPT ![r].generated = @ + 1] =>
              /\ item'[r].generated = item[r].generated + 1
              /\ item'[r].processed = item[r].processed /\ item'[r].sequence = item[r].sequence
              /\ \A q \in Requests \ {r} : item'[q] = item[q]
BY DEF IInv, ItemShape

LEMMA KvEmits == ASSUME IInv, Exclusive, KvInv, EmitToken PROVE KvInv'
<1> USE DEF sharedVars, handleVars, batchVars, itemVars, cacheVars, At
<1>0. PICK r : r = Head(samples)
  OBVIOUS
<1>1. /\ pc = "emit" /\ samples # <<>> /\ ~Expired(r)
      /\ item' = [item EXCEPT ![r].generated = @ + 1]
      /\ UNCHANGED <<active, kv, cache, batch, cand, todo, cancelled, late>>
  BY <1>0 DEF EmitToken
<1>2. PICK eog \in BOOLEAN : IF Verdict(r, eog) = None
                             THEN samples' = Tail(samples) /\ pc' = pc
                             ELSE pc' = "close" /\ samples' = samples
  BY <1>0, <1>1 DEF EmitToken
<1>3. /\ r \in Undone /\ r \in Range(samples) /\ r \notin Range(Tail(samples))
      /\ \A q : q # r => (q \in Range(Tail(samples)) <=> q \in Range(samples))
      /\ r \in Accepted /\ r \in Requests /\ Undone \subseteq Requests
  BY <1>0, <1>1, SamplesInTurn, CollectionsAsTheyAre
<1>4. WithinBudget(r) /\ Sampled(r) /\ batch = <<>>
  BY <1>1, <1>3 DEF KvInv, ListsInPhase, Exempt, Right, Over
<1>5. Undone' = Undone
  BY <1>1, <1>3, CountingKeeps
<1>6. /\ item'[r].generated = item[r].generated + 1 /\ item[r].generated \in Nat
      /\ item'[r].processed = item[r].processed /\ item'[r].sequence = item[r].sequence
      /\ \A q \in Requests \ {r} : item'[q] = item[q]
  BY <1>1, <1>3, CountedItem DEF IInv, ItemShape
<1>7. CASE Verdict(r, eog) = None
  <2>1. samples' = Tail(samples) /\ pc' = pc
    BY <1>2, <1>7
  <2>2. item[r].generated + 1 < MaxTokens[r]
    <3>1. ~(item[r].generated + 1 >= MaxTokens[r])
      BY <1>7, NoReason DEF Verdict, Terminals
    <3>2. MaxTokens[r] \in Nat
      BY <1>3, EngineAssumption
    <3>3. QED
      BY <1>6, <3>1, <3>2
  <2>3. Len(Prompt[r]) \in Nat
    BY <1>3, EngineAssumption, LenProperties
  <2>4. WithinBudget(r)' /\ Steady(r)'
    <3>1. FedTokens(r)' = Len(Prompt[r]) + item[r].generated
      BY <1>4, <1>6, <2>3 DEF FedTokens, Sampled
    <3>2. Written(r, Len(Prompt[r]) + item[r].generated)
      BY <1>4 DEF Sampled
    <3>3. Written(r, FedTokens(r))'
      BY <1>1, <1>6, <3>1, <3>2 DEF Written
    <3>4. QED
      BY <1>4, <1>6, <2>2, <3>3 DEF WithinBudget, Steady, Sampled
  <2>5. Right(r)'
    BY <1>1, <1>3, <1>4, <2>1, <2>4 DEF Right
  <2>6. ASSUME NEW q \in Undone PROVE Exempt(q)' \/ Right(q)'
    <3>1. q # r /\ Right(q) => Right(q)'
      BY <1>1, <1>3, <1>6, <2>1, RightStays
    <3>2. Exempt(q) => Exempt(q)'
      BY <1>1, <2>1 DEF Exempt, Expired, Over
    <3>3. QED
      BY <2>5, <3>1, <3>2 DEF KvInv
  <2>7. ListsInPhase'
    BY <1>1, <2>1 DEF KvInv, ListsInPhase
  <2>8. \A s \in DOMAIN cache : EntryWritten(s) => EntryWritten(s)'
    BY <1>1, EntryStays
  <2>9. QED
    BY <1>1, <1>5, <2>1, <2>6, <2>7, <2>8 DEF KvInv, Over
<1>8. CASE Verdict(r, eog) # None
  <2>1. samples' = samples /\ pc' = "close"
    BY <1>2, <1>8
  <2>2. ASSUME NEW q \in Undone PROVE Exempt(q)' \/ Right(q)'
    <3>1. q = r => Exempt(q)'
      BY <1>0, <2>1, <1>1 DEF Exempt
    <3>2. q # r /\ Right(q) => Right(q)'
      BY <1>1, <1>3, <1>6, <2>1, RightStays
    <3>3. Exempt(q) => Exempt(q)'
      BY <1>1, <2>1 DEF Exempt, Expired, Over
    <3>4. QED
      BY <3>1, <3>2, <3>3 DEF KvInv
  <2>3. ListsInPhase'
    BY <1>1, <2>1 DEF KvInv, ListsInPhase
  <2>4. \A s \in DOMAIN cache : EntryWritten(s) => EntryWritten(s)'
    BY <1>1, EntryStays
  <2>5. QED
    BY <1>1, <1>5, <2>1, <2>2, <2>3, <2>4 DEF KvInv, Over
<1>9. QED
  BY <1>7, <1>8

\* A slice is recorded, and its request is sampled once its prompt is complete.
LEMMA KvCollects == ASSUME IInv, Exclusive, KvInv, Collect PROVE KvInv'
<1> USE DEF sharedVars, handleVars, batchVars, itemVars, cacheVars, At
<1>0. PICK r, n : r = Head(batch).key /\ n = Head(batch).tokens
  OBVIOUS
<1> DEFINE complete == n = Remaining(r)
<1>1. /\ pc = "collect" /\ pc' = pc /\ cand = None /\ batch # <<>> /\ batch' = Tail(batch)
      /\ item' = [item EXCEPT ![r].processed = @ + n]
      /\ samples' = IF complete THEN Append(samples, r) ELSE samples
      /\ cand' # None => cand' = r /\ complete
      /\ UNCHANGED <<active, kv, cache, todo, cancelled, late>>
  BY <1>0 DEF Collect
<1>2. /\ batch \in Seq(Slices) /\ Len(batch) \in Nat /\ Len(batch) >= 1 /\ Head(batch) = batch[1]
      /\ Len(batch') = Len(batch) - 1
      /\ \A i \in 1..(Len(batch) - 1) : batch'[i] = batch[i + 1]
  <2>1. batch \in Seq(Slices) /\ Len(batch) \in Nat
    BY ListsAsTheyAre, LenProperties
  <2>2. Len(batch) >= 1
    BY <1>1, <2>1, EmptySeq
  <2>3. QED
    BY <1>1, <2>1, <2>2, HeadTailProperties
<1>3. /\ Order(samples, Undone)
      /\ \A i \in 1..Len(batch) : batch[i].key \in Undone \ Range(samples)
      /\ \A i, j \in 1..Len(batch) : batch[i].key = batch[j].key => i = j
  BY <1>1 DEF Exclusive, Turns
<1>4. /\ 1 \in 1..Len(batch) /\ batch[1].key = r /\ batch[1].tokens = n /\ n \in Nat
      /\ r \in Undone \ Range(samples)
  <2>1. 1 \in 1..Len(batch) /\ batch[1].key = r /\ batch[1].tokens = n
    BY <1>0, <1>2
  <2>2. batch[1] \in Slices
    BY <1>2, <2>1, ElementOfSeq
  <2>3. n \in Nat
    BY <2>1, <2>2 DEF Slices
  <2>4. QED
    BY <1>3, <2>1, <2>3
<1>5. /\ \A i \in 1..Len(batch') : i + 1 \in 1..Len(batch) /\ batch'[i] = batch[i + 1]
      /\ \A i \in 1..Len(batch') : batch'[i].key # r
  <2>1. \A i \in 1..Len(batch') : i + 1 \in 1..Len(batch) /\ i + 1 # 1 /\ batch'[i] = batch[i + 1]
    BY <1>2
  <2>2. QED
    BY <1>3, <1>4, <2>1
<1>6. r \in Accepted /\ r \in Requests /\ Undone \subseteq Requests /\ Undone' = Undone
  <2>1. r \in Accepted /\ r \in Requests /\ Undone \subseteq Requests
    BY <1>4, CollectionsAsTheyAre
  <2>2. QED
    BY <1>1, <2>1, CountingKeeps
<1>7. /\ item'[r].processed = item[r].processed + n
      /\ item'[r].generated = item[r].generated /\ item'[r].sequence = item[r].sequence
      /\ \A q \in Requests \ {r} : item'[q] = item[q]
  BY <1>1, <1>6, CountedItem
<1>8. /\ Order(Append(samples, r), Undone)
      /\ Range(Append(samples, r)) = Range(samples) \cup {r}
  BY <1>3, <1>4, AppendToOrder
<1>9. \A q : ~Exempt(q)
  BY <1>1 DEF Exempt, Over
<1>10. WithinBudget(r) /\ Sliced(r, n)
  <2>1. Right(r)
    BY <1>4, <1>9 DEF KvInv
  <2>2. QED
    BY <1>4, <2>1 DEF Right
<1>11. Right(r)'
  <2>1. /\ Len(Prompt[r]) \in Nat /\ item[r].processed \in 0..Len(Prompt[r])
        /\ item[r].generated = 0 /\ n > 0 /\ item[r].processed + n <= Len(Prompt[r])
    BY <1>6, <1>10, EngineAssumption, LenProperties DEF WithinBudget, Sliced
  <2>2. WithinBudget(r)'
    BY <1>4, <1>7, <1>10, <2>1 DEF WithinBudget
  <2>3. Written(r, item[r].processed)'
    BY <1>1, <1>7, <1>10 DEF Sliced, Written
  <2>4. CASE complete
    <3>1. item[r].processed + n = Len(Prompt[r])
      BY <1>0, <1>4, <2>1, <2>4 DEF Remaining
    <3>2. Sampled(r)'
      BY <1>7, <2>1, <2>3, <3>1 DEF Sampled
    <3>3. QED
      BY <1>1, <1>5, <1>8, <2>2, <2>4, <3>2 DEF Right
  <2>5. CASE ~complete
    <3>1. item[r].processed + n # Len(Prompt[r])
      BY <1>0, <1>4, <2>1, <2>5 DEF Remaining
    <3>2. FedTokens(r)' = item[r].processed'
      BY <1>4, <1>7, <2>1 DEF FedTokens
    <3>3. Steady(r)'
      BY <1>7, <2>1, <2>3, <3>1, <3>2 DEF Steady
    <3>4. QED
      BY <1>1, <1>4, <1>5, <2>2, <2>5, <3>3 DEF Right
  <2>6. QED
    BY <2>4, <2>5
<1>12. ASSUME NEW q \in Undone, q # r PROVE Right(q)'
  <2>1. Right(q) /\ item'[q] = item[q] /\ kv'[item[q].sequence] = kv[item[q].sequence]
    BY <1>1, <1>6, <1>7, <1>9, <1>12 DEF KvInv
  <2>2. q \in Range(samples') <=> q \in Range(samples)
    BY <1>1, <1>8, <1>12
  <2>3. \A i \in 1..Len(batch') : batch'[i].key = q => Sliced(q, batch'[i].tokens)
    BY <1>5, <2>1 DEF Right
  <2>4. ASSUME NEW i \in 1..Len(batch), batch[i].key = q
        PROVE  \E j \in 1..Len(batch') : batch'[j].key = q
    <3>1. i # 1
      BY <1>4, <1>12, <2>4
    <3>2. i - 1 \in 1..(Len(batch) - 1) /\ (i - 1) + 1 = i
      BY <1>2, <3>1
    <3>3. QED
      BY <1>2, <2>4, <3>2
  <2>5. QED
    BY <1>1, <2>1, <2>2, <2>3, <2>4
       DEF Right, WithinBudget, Sampled, Sliced, Steady, FedTokens, Written
<1>13. ListsInPhase'
  BY <1>1, <1>8 DEF ListsInPhase
<1>14. \A s \in DOMAIN cache : EntryWritten(s) => EntryWritten(s)'
  BY <1>1, EntryStays
<1>15. QED
  BY <1>1, <1>6, <1>11, <1>12, <1>13, <1>14 DEF KvInv

-----------------------------------------------------------------------------
\* evict() clears the sequence of an entry, which is no request's.
LEMMA KvEvictionClears ==
  ASSUME IInv, Exclusive, KvInv, pc \in {"admit", "collect"}, pc = "collect" => cand' = cand,
         UNCHANGED <<active, item, batch, samples, cancelled, late>>,
         NEW order, Order(order, CacheSeqs), Range(order) = Range(used), order # <<>>,
         Evict(order, TRUE)
  PROVE  KvInv'
<1>1. PICK h : /\ h = Head(order) /\ cache' = Erased(cache, h) /\ kv' = [kv EXCEPT ![h] = <<>>]
               /\ pc' \in {pc, "catch"}
  BY DEF Evict
<1>2. h \in DOMAIN cache /\ h \in CacheSeqs /\ h \in DOMAIN kv
  BY <1>1, TailOfOrder, EntriesAreCacheSeqs DEF Exclusive, CacheTaken, KvInv
<1>3. DOMAIN kv' = DOMAIN kv
  BY <1>1
<1>4. CASE pc' = "catch"
  BY <1>3, <1>4, KvGivenUp DEF Over
<1>5. CASE pc' = pc
  <2>1. Undone' = Undone
    BY DEF Undone
  <2>2. \A q : ~Exempt(q)
    BY DEF Exempt, Over
  <2>3. ASSUME NEW r \in Undone PROVE Right(r)'
    <3>1. item[r].sequence \in ActiveSeqs /\ Right(r)
      BY <2>2 DEF Exclusive, SequencesTaken, KvInv
    <3>2. item[r].sequence # h
      BY <1>2, <3>1, EngineAssumption DEF CacheSeqs, ActiveSeqs
    <3>3. kv'[item[r].sequence] = kv[item[r].sequence]
      BY <1>1, <3>2
    <3>4. QED
      BY <3>1, <3>3, RightStays
  <2>4. DOMAIN cache' = DOMAIN cache \ {h} /\ \A s \in DOMAIN cache' : cache'[s] = cache[s]
    BY <1>1 DEF Erased, Restrict
  <2>5. ASSUME NEW s \in DOMAIN cache' PROVE EntryWritten(s)'
    <3>1. s \in DOMAIN cache /\ s # h /\ cache'[s] = cache[s] /\ kv'[s] = kv[s]
      BY <1>1, <2>4
    <3>2. EntryWritten(s)
      BY <3>1 DEF KvInv, Over
    <3>3. QED
      BY <3>1, <3>2, EntryStays
  <2>6. ListsInPhase'
    BY <1>5 DEF KvInv, ListsInPhase
  <2>7. QED
    BY <1>3, <2>1, <2>3, <2>5, <2>6 DEF KvInv
<1>6. QED
  BY <1>1, <1>4, <1>5

LEMMA KvEvicts ==
  ASSUME IInv, Exclusive, KvInv, CacheEvict \/ \E r \in Requests : AdmitEvict(r)
  PROVE  KvInv'
<1> USE DEF sharedVars, handleVars, batchVars, itemVars, cacheVars, At
<1>1. /\ used # <<>> /\ UNCHANGED <<active, item, batch, samples, cancelled, late>>
      /\ pc \in {"admit", "collect"} /\ (pc = "collect" => cand' = cand)
  BY DEF CacheEvict, AdmitEvict, Candidate
<1>2. ASSUME NEW order, Order(order, CacheSeqs), Range(order) = Range(used), Evict(order, TRUE)
      PROVE  KvInv'
  <2>1. order # <<>>
    BY <1>1, <1>2, NobodyUsed DEF Exclusive, CacheTaken
  <2>2. QED
    BY <1>1, <1>2, <2>1, KvEvictionClears
<1>3. CASE CacheEvict
  <2> DEFINE order == AfterMatch(Cached(cand), CachedBy(cand))
  <2>1. pc = "collect" /\ cand # None /\ Evict(order, TRUE)
    BY <1>3 DEF CacheEvict
  <2>2. Order(order, CacheSeqs) /\ Range(order) = Range(used)
    BY <2>1, CacheUses
  <2> HIDE DEF order
  <2>3. QED
    BY <1>2, <2>1, <2>2
<1>4. ASSUME NEW r \in Requests, AdmitEvict(r) PROVE KvInv'
  BY <1>2, <1>4, AdmissionUses DEF AdmitEvict
<1>5. QED
  BY <1>3, <1>4

\* An entry that shares a prefix with a prompt holds the request's first tokens.
LEMMA SharedText ==
  ASSUME NEW r \in Requests, NEW s, NEW m \in 0..Len(Prompt[r]), EntryWritten(s),
         Shares(cache, s, Namespace[r], Prompt[r], m)
  PROVE  SubSeq(kv[s], 1, m) = TextOf(r, m)
<1>1. PICK tokens \in Seq(Nat) : tokens = cache[s].tokens
  BY DEF EntryWritten
<1>2. /\ Len(tokens) \in Nat /\ m \in 0..Len(tokens)
      /\ kv[s] = [i \in 1..Len(tokens) |-> Cell(cache[s], i)]
  BY <1>1, LenProperties, EngineAssumption DEF Shares, EntryWritten
<1>3. kv[s] = [i \in 1..Len(tokens) |-> kv[s][i]]
  BY <1>2
<1>4. SubSeq(kv[s], 1, m) = [i \in 1..m |-> kv[s][i]]
  BY <1>2, <1>3, PrefixOfFunction
<1>5. ASSUME NEW i \in 1..m PROVE kv[s][i] = CellAt(r, i)
  <2>1. SubSeq(tokens, 1, m)[i] = tokens[i]
    BY <1>2, PrefixTable
  <2>2. SubSeq(Prompt[r], 1, m)[i] = Prompt[r][i]
    BY EngineAssumption, PrefixTable
  <2>3. Len(Prompt[r]) \in Nat /\ Len(tokens) \in Nat
    BY <1>2, EngineAssumption, LenProperties
  <2>4. i \in 1..Len(tokens) /\ i <= Len(Prompt[r])
    BY <1>2, <2>3
  <2>5. kv[s][i] = Cell(cache[s], i)
    BY <1>2, <2>4
  <2>6. QED
    BY <1>1, <2>1, <2>2, <2>4, <2>5 DEF Shares, Cell, CellAt
<1>6. QED
  BY <1>4, <1>5 DEF TextOf

\* admit() copies the prefix it reuses, or leaves the sequence empty.
LEMMA KvAdmits == ASSUME IInv, Exclusive, KvInv, NEW r \in Requests, Admit(r) PROVE KvInv'
<1> USE DEF handleVars, sharedVars, batchVars, At
<1> DEFINE shared == IF Reusable(r) = 0 THEN <<>>
                     ELSE SubSeq(cache[Source(r)].blocks, 1, Reusable(r) \div BlockSize)
           fresh  == CHOOSE t \in FreshTables(refs, NewBlocks(r)) : TRUE
           s      == CHOOSE s \in freeSeqs : TRUE
           blocks == shared \o fresh
<1>1. PICK ok \in Outcomes :
        /\ item' = [item EXCEPT ![r] =
                      [sequence |-> s, blocks |-> blocks, processed |-> Reusable(r),
                       generated |-> 0, done |-> FALSE]]
        /\ kv' = [kv EXCEPT ![s] = IF ok /\ Reusable(r) > 0
                                   THEN SubSeq(kv[Source(r)], 1, Reusable(r)) ELSE <<>>]
        /\ active' = active \cup {r}
        /\ pc' = IF ok THEN "admit" ELSE "catch"
  BY Zenon DEF Admit
<1> HIDE DEF blocks
<1>2. /\ r \in waiting /\ pc = "admit" /\ freeSeqs # {}
      /\ UNCHANGED <<cache, batch, samples, cancelled, late>>
  BY DEF Admit, Candidate
<1>3. s \in freeSeqs
  BY <1>2
<1> HIDE DEF s
<1>4. s \in freeSeqs /\ s \in ActiveSeqs /\ s \in DOMAIN kv /\ DOMAIN kv' = DOMAIN kv
      /\ \A q \in Undone : item[q].sequence # s
  BY <1>1, <1>3 DEF Exclusive, SequencesTaken, KvInv
<1>5. CASE ~ok
  BY <1>1, <1>2, <1>4, <1>5, KvGivenUp DEF Over
<1>6. CASE ok
  <2>1. pc' = "admit" /\ batch = <<>> /\ samples = <<>> /\ \A q : ~Exempt(q)
    BY <1>1, <1>2, <1>6 DEF KvInv, ListsInPhase, Exempt, Over
  <2>2. /\ item'[r].sequence = s /\ item'[r].processed = Reusable(r) /\ item'[r].generated = 0
        /\ ~item'[r].done /\ \A q \in Requests \ {r} : item'[q] = item[q]
    BY <1>1 DEF IInv, ItemShape
  <2>3. Undone' = Undone \cup {r} /\ r \notin Undone /\ Undone \subseteq Requests
    BY <1>1, <1>2, <2>2, CollectionsAsTheyAre DEF Exclusive, Turns, Apart, Undone
  <2>4. PICK m \in Nat : /\ m = Reusable(r) /\ m \in 0..Len(Prompt[r]) /\ m # Len(Prompt[r])
                         /\ m # 0 => /\ Source(r) \in DOMAIN cache
                                     /\ Shares(cache, Source(r), Namespace[r], Prompt[r], m)
    <3>1. /\ Reusable(r) \in 0..(Len(Prompt[r]) - 1) /\ Reusable(r) \in 0..Len(Prompt[r])
          /\ Reusable(r) # 0 => Shares(cache, Source(r), Namespace[r], Prompt[r], Reusable(r))
      BY ReusableMatches DEF Exclusive
    <3>2. Len(Prompt[r]) \in Nat
      BY EngineAssumption, LenProperties
    <3>3. Reusable(r) \in Nat /\ Reusable(r) # Len(Prompt[r])
      BY <3>1, <3>2
    <3>4. QED
      BY <3>1, <3>3 DEF Shares
  <2>5. kv'[s] = TextOf(r, m)
    <3>1. CASE m = 0
      BY <1>1, <1>4, <2>4, <3>1 DEF TextOf
    <3>2. CASE m # 0
      <4>1. EntryWritten(Source(r))
        BY <1>2, <2>4, <3>2 DEF KvInv, Over
      <4>2. kv'[s] = SubSeq(kv[Source(r)], 1, m)
        BY <1>1, <1>4, <1>6, <2>4, <3>2
      <4>3. QED
        BY <2>4, <3>2, <4>1, <4>2, SharedText
    <3>3. QED
      BY <3>1, <3>2
  <2>6. Right(r)'
    <3>1. WithinBudget(r)' /\ FedTokens(r)' = m
      BY <2>2, <2>4, EngineAssumption DEF WithinBudget, FedTokens
    <3>2. Written(r, FedTokens(r))'
      BY <2>2, <2>5, <3>1 DEF Written
    <3>3. Steady(r)'
      BY <2>2, <2>4, <3>2 DEF Steady
    <3>4. Len(batch') = 0 /\ Range(samples') = {}
      BY <1>2, <2>1, EmptySequence
    <3>5. QED
      BY <3>1, <3>3, <3>4 DEF Right
  <2>7. ASSUME NEW q \in Undone PROVE Right(q)'
    <3>1. item'[q] = item[q] /\ kv'[item[q].sequence] = kv[item[q].sequence] /\ Right(q)
      BY <1>1, <1>4, <2>1, <2>2, <2>3 DEF KvInv
    <3>2. QED
      BY <1>2, <3>1, RightStays
  <2>8. ASSUME NEW x \in DOMAIN cache PROVE EntryWritten(x)'
    <3>1. x # s /\ EntryWritten(x)
      BY <1>2, <1>4, EntriesAreCacheSeqs, EngineAssumption DEF CacheSeqs, ActiveSeqs, KvInv, Over
    <3>2. QED
      BY <1>1, <1>2, <3>1, EntryStays
  <2>9. ListsInPhase'
    BY <1>2, <2>1 DEF ListsInPhase
  <2>10. QED
    BY <1>2, <1>4, <2>3, <2>6, <2>7, <2>8, <2>9 DEF KvInv
<1>7. QED
  BY <1>5, <1>6

\* cache_prompt() copies what the request has computed of its prompt.
LEMMA KvInserts == ASSUME IInv, Exclusive, KvInv, CacheInsert PROVE KvInv'
<1> USE DEF handleVars, sharedVars, itemVars, batchVars, At
<1> DEFINE length == CacheLength(cand)
           next   == CHOOSE s \in freeCacheSeqs : TRUE
           blocks == SubSeq(item[cand].blocks, 1, length \div BlockSize)
           entry  == [ns |-> Namespace[cand], tokens |-> SubSeq(Prompt[cand], 1, length),
                      blocks |-> blocks]
<1>0. PICK ok \in Outcomes :
        /\ cache' = Inserted(cache, next, entry)
        /\ kv' = [kv EXCEPT ![next] = IF ok THEN SubSeq(kv[item[cand].sequence], 1, length)
                                       ELSE <<>>]
        /\ pc' = IF ok THEN pc ELSE "catch"
  BY Zenon DEF CacheInsert
<1> HIDE DEF blocks
<1>1. PICK r, n, s :
        /\ r = cand /\ n = CacheLength(cand) /\ s = CHOOSE x \in freeCacheSeqs : TRUE
        /\ cache' = Inserted(cache, s, [ns |-> Namespace[r], tokens |-> SubSeq(Prompt[r], 1, n),
                                        blocks |-> blocks])
        /\ kv' = [kv EXCEPT ![s] = IF ok THEN SubSeq(kv[item[r].sequence], 1, n) ELSE <<>>]
        /\ pc' = IF ok THEN pc ELSE "catch"
  BY <1>0
<1> HIDE DEF length, next, entry
<1>2. /\ pc = "collect" /\ r # None /\ cand' = None
      /\ used = <<>> \/ freeCacheSeqs # {}
      /\ UNCHANGED <<active, item, batch, samples, cancelled, late>>
  BY <1>1 DEF CacheInsert, CacheFull
<1>3. r \in Undone /\ r \in Requests /\ CacheEntries > 0
  BY <1>1, <1>2, CacheUses
<1>4. s \in CacheSeqs \ DOMAIN cache
  <2>1. /\ Order(used, CacheSeqs) /\ DOMAIN cache = Range(used)
        /\ freeCacheSeqs = CacheSeqs \ DOMAIN cache
    BY DEF Exclusive, CacheTaken
  <2>2. MaxActive \in CacheSeqs
    BY <1>3, EngineAssumption DEF CacheSeqs
  <2>3. freeCacheSeqs # {}
    BY <1>2, <2>1, <2>2, NobodyUsed
  <2>4. QED
    BY <1>1, <2>1, <2>3
<1>5. s \in DOMAIN kv /\ DOMAIN kv' = DOMAIN kv /\ s \notin ActiveSeqs
  BY <1>1, <1>4, EngineAssumption DEF KvInv, CacheSeqs, ActiveSeqs
<1>6. CASE ~ok
  BY <1>1, <1>2, <1>5, <1>6, KvGivenUp DEF Over
<1>7. CASE ok
  <2>1. pc' = "collect" /\ (\A q : ~Exempt(q)) /\ Undone' = Undone
    BY <1>1, <1>2, <1>7 DEF Exempt, Over, Undone
  <2>2. ASSUME NEW q \in Undone PROVE Right(q)'
    <3>1. Right(q) /\ item[q].sequence \in ActiveSeqs
      BY <2>1 DEF KvInv, Exclusive, SequencesTaken
    <3>2. kv'[item[q].sequence] = kv[item[q].sequence]
      BY <1>1, <1>5, <3>1 DEF KvInv
    <3>3. QED
      BY <1>2, <3>1, <3>2, RightStays
  <2>3. /\ DOMAIN cache' = DOMAIN cache \cup {s}
        /\ cache'[s].ns = Namespace[r] /\ cache'[s].tokens = SubSeq(Prompt[r], 1, n)
        /\ \A x \in DOMAIN cache : cache'[x] = cache[x]
    BY <1>1, <1>4 DEF Inserted
  <2>4. ASSUME NEW x \in DOMAIN cache PROVE EntryWritten(x)'
    <3>1. EntryWritten(x) /\ x # s /\ x \in DOMAIN kv
      BY <1>2, <1>4, EntriesAreCacheSeqs DEF KvInv, Over
    <3>2. cache'[x] = cache[x] /\ kv'[x] = kv[x]
      BY <1>1, <2>3, <3>1
    <3>3. QED
      BY <3>1, <3>2, EntryStays
  <2>5. EntryWritten(s)'
    <3>1. PICK l \in Nat : l = Len(Prompt[r]) /\ n \in 0..l /\ item[r].generated \in Nat
      BY <1>1, <1>3, CachedPrefix, EngineAssumption, LenProperties DEF IInv, ItemShape
    <3>2. PICK k \in Nat : k = l + item[r].generated /\ n \in 0..k
      BY <3>1
    <3>3. kv[item[r].sequence] = TextOf(r, k)
      <4>1. r \in Range(samples)
        BY <1>1, <1>2 DEF KvInv, ListsInPhase
      <4>2. Sampled(r)
        BY <1>3, <2>1, <4>1 DEF KvInv, Right
      <4>3. QED
        BY <3>1, <3>2, <4>2 DEF Sampled, Written
    <3>4. kv'[s] = SubSeq(TextOf(r, k), 1, n)
      BY <1>1, <1>5, <1>7, <3>3
    <3>5. TextOf(r, k) = [i \in 1..k |-> TextOf(r, k)[i]]
      BY DEF TextOf
    <3>6. kv'[s] = [i \in 1..n |-> TextOf(r, k)[i]]
      BY <3>2, <3>4, <3>5, PrefixOfFunction
    <3>7. /\ SubSeq(Prompt[r], 1, n) \in Seq(Nat) /\ Len(SubSeq(Prompt[r], 1, n)) = n
          /\ \A i \in 1..n : SubSeq(Prompt[r], 1, n)[i] = Prompt[r][i]
      <4>1. Prompt[r] \in Seq(Nat) /\ n \in 0..Len(Prompt[r])
        BY <1>3, <3>1, EngineAssumption
      <4>2. QED
        BY <4>1, PrefixTable
    <3>8. ASSUME NEW i \in 1..n
          PROVE  TextOf(r, k)[i] = [ns |-> Namespace[r], token |-> SubSeq(Prompt[r], 1, n)[i]]
      <4>1. i \in 1..k /\ i <= l
        BY <3>1, <3>2
      <4>2. QED
        BY <3>1, <3>7, <4>1 DEF TextOf, CellAt
    <3>9. kv'[s] = [i \in 1..n |-> Cell(cache'[s], i)]
      BY ZenonT(30), <2>3, <3>6, <3>8 DEF Cell
    <3>10. QED
      BY <2>3, <3>7, <3>9 DEF EntryWritten, Cell
  <2>6. ListsInPhase'
    BY <1>2, <2>1 DEF ListsInPhase
  <2>7. QED
    BY <1>2, <1>5, <2>1, <2>2, <2>3, <2>4, <2>5, <2>6 DEF KvInv
<1>8. QED
  BY <1>6, <1>7

-----------------------------------------------------------------------------
LEMMA NothingFed ==
  ASSUME NEW n \in Nat, NEW f, f = [i \in 1..n |-> f[i]] PROVE f \o <<>> = f
<1> DEFINE S == {f[i] : i \in 1..n}
<1>1. f \in [1..n -> S]
  OBVIOUS
<1> HIDE DEF S
<1>2. f \in Seq(S)
  BY <1>1, FunctionIsSeq
<1>3. QED
  BY <1>2, ConcatEmptySeq

\* What a batch made of distinct active requests feeds to each sequence.
LEMMA FedToEach ==
  ASSUME Exclusive, active = Undone, Undone \subseteq Requests, NEW plan,
         Range(plan.decodes) \subseteq Decoding, plan.prefills \in Seq(Slices),
         \A i \in 1..Len(plan.prefills) : plan.prefills[i].key \in active \ Decoding,
         \A i, j \in 1..Len(plan.prefills) :
           plan.prefills[i].key = plan.prefills[j].key => i = j,
         ActiveSeqs \cup CacheSeqs \subseteq DOMAIN kv
  PROVE  /\ \A q \in Range(plan.decodes) :
              Fed(plan)[item[q].sequence] = kv[item[q].sequence] \o Cells(q, <<0>>)
         /\ \A i \in 1..Len(plan.prefills) :
              LET p == plan.prefills[i]
              IN Fed(plan)[item[p.key].sequence] = kv[item[p.key].sequence] \o PromptCells(p)
         /\ \A q \in Undone :
              \/ q \in Range(plan.decodes) \/ \E i \in 1..Len(plan.prefills) : plan.prefills[i].key = q
              \/ Fed(plan)[item[q].sequence] = kv[item[q].sequence] \o <<>>
         /\ \A s \in CacheSeqs : Fed(plan)[s] = kv[s] \o <<>>
<1> DEFINE D == Range(plan.decodes)
           P == Range(plan.prefills)
<1>1. DOMAIN plan.prefills = 1..Len(plan.prefills)
  BY LenProperties
<1>2. /\ D \subseteq Undone /\ (\A s \in P : s.key \in Undone /\ s.key \notin D)
      /\ \A s, t \in P : s.key = t.key => s = t
      /\ \A i \in 1..Len(plan.prefills) : plan.prefills[i] \in P
      /\ \A s \in P : \E i \in 1..Len(plan.prefills) : plan.prefills[i] = s
  <2>1. \A i \in 1..Len(plan.prefills) : plan.prefills[i] \in P
    BY <1>1 DEF Range
  <2>2. \A s \in P : \E i \in 1..Len(plan.prefills) : plan.prefills[i] = s
    BY <1>1 DEF Range
  <2>3. D \subseteq Undone
    BY DEF Decoding
  <2> HIDE DEF P, D
  <2>4. \A s \in P : s.key \in Undone /\ s.key \notin Decoding
    BY <2>2
  <2>5. \A s, t \in P : s.key = t.key => s = t
    BY <2>2
  <2>6. QED
    BY <2>1, <2>2, <2>3, <2>4, <2>5 DEF D
<1>3. /\ \A q \in Undone : item[q].sequence \in ActiveSeqs
      /\ \A p, q \in Undone : item[p].sequence = item[q].sequence => p = q
  BY DEF Exclusive, SequencesTaken
<1>4. \A s \in DOMAIN kv :
        Fed(plan)[s] =
          kv[s] \o IF \E r \in D : item[r].sequence = s
                   THEN Cells(CHOOSE r \in D : item[r].sequence = s, <<0>>)
                   ELSE IF \E p \in P : item[p.key].sequence = s
                   THEN PromptCells(CHOOSE p \in P : item[p.key].sequence = s)
                   ELSE <<>>
  BY DEF Fed
<1> HIDE DEF D, P
<1>5. ASSUME NEW q \in D
      PROVE  Fed(plan)[item[q].sequence] = kv[item[q].sequence] \o Cells(q, <<0>>)
  <2>1. q \in Undone /\ item[q].sequence \in DOMAIN kv
    BY <1>2, <1>3
  <2>2. (CHOOSE r \in D : item[r].sequence = item[q].sequence) = q
    BY <1>2, <1>3, <2>1
  <2>3. QED
    BY <1>4, <2>1, <2>2
<1>6. ASSUME NEW p \in P
      PROVE  Fed(plan)[item[p.key].sequence] = kv[item[p.key].sequence] \o PromptCells(p)
  <2>1. p.key \in Undone /\ p.key \notin D /\ item[p.key].sequence \in DOMAIN kv
    BY <1>2, <1>3
  <2>2. ~\E r \in D : item[r].sequence = item[p.key].sequence
    BY <1>2, <1>3, <2>1
  <2>3. (CHOOSE t \in P : item[t.key].sequence = item[p.key].sequence) = p
    BY <1>2, <1>3, <2>1
  <2>4. QED
    BY <1>4, <2>1, <2>2, <2>3
<1>7. ASSUME NEW q \in Undone, q \notin D, \A p \in P : p.key # q
      PROVE  Fed(plan)[item[q].sequence] = kv[item[q].sequence] \o <<>>
  <2>1. /\ item[q].sequence \in DOMAIN kv
        /\ ~\E r \in D : item[r].sequence = item[q].sequence
        /\ ~\E p \in P : item[p.key].sequence = item[q].sequence
    BY <1>2, <1>3, <1>7
  <2>2. QED
    BY <1>4, <2>1
<1>8. ASSUME NEW s \in CacheSeqs PROVE Fed(plan)[s] = kv[s] \o <<>>
  <2>1. s \notin ActiveSeqs
    BY EngineAssumption DEF CacheSeqs, ActiveSeqs
  <2>2. /\ s \in DOMAIN kv
        /\ ~\E r \in D : item[r].sequence = s
        /\ ~\E p \in P : item[p.key].sequence = s
    BY <1>2, <1>3, <2>1
  <2>3. QED
    BY <1>4, <2>2
<1>9. ASSUME NEW q \in Undone, q \notin D,
             ~\E i \in 1..Len(plan.prefills) : plan.prefills[i].key = q
      PROVE  \A p \in P : p.key # q
  BY <1>2, <1>9
<1>10. QED
  BY <1>2, <1>5, <1>6, <1>7, <1>8, <1>9 DEF D

\* A batch feeds each of its requests its next tokens, and nobody else any.
LEMMA KvExecutes == ASSUME IInv, Exclusive, KvInv, Execute PROVE KvInv'
<1> USE DEF handleVars, sharedVars, itemVars, cacheVars, At
<1>1. PICK decode \in Orders(Decoding), prefill \in Orders(active \ Decoding) :
        \E plan \in Plans(decode, prefill, [r \in active |-> Remaining(r)]) :
          kv' = Fed(plan) /\ batch' = plan.prefills /\ samples' = plan.decodes
  BY DEF Execute
<1>2. PICK plan \in Plans(decode, prefill, [r \in active |-> Remaining(r)]) :
        kv' = Fed(plan) /\ batch' = plan.prefills /\ samples' = plan.decodes
  BY <1>1
<1>3. /\ plan.prefills \in Seq(Slices) /\ Range(plan.decodes) \subseteq Decoding
      /\ \A i \in 1..Len(plan.prefills) : plan.prefills[i].key \in active \ Decoding
      /\ \A i, j \in 1..Len(plan.prefills) : plan.prefills[i].key = plan.prefills[j].key => i = j
      /\ \A i \in 1..Len(plan.prefills) :
           /\ plan.prefills[i].tokens \in Nat /\ plan.prefills[i].tokens > 0
           /\ plan.prefills[i].tokens <= Remaining(plan.prefills[i].key)
  BY <1>1, <1>2, PlanIsActive
<1>4. /\ pc = "iterate" /\ pc' = "collect" /\ cand' = None /\ batch = <<>> /\ samples = <<>>
      /\ UNCHANGED <<active, item, cache, cancelled, late>>
  BY DEF Execute, Exclusive, Turns, KvInv, ListsInPhase
<1>5. active = Undone /\ Undone \subseteq Requests /\ Undone' = Undone /\ \A q : ~Exempt(q)
  BY <1>4, CollectionsAsTheyAre DEF Exclusive, Turns, Exempt, Over, Undone
<1>6. ActiveSeqs \cup CacheSeqs \subseteq DOMAIN kv
  BY DEF KvInv
<1>7. DOMAIN kv' = DOMAIN kv
  BY <1>2 DEF Fed
<1>8. /\ \A q \in Range(samples') :
           kv'[item[q].sequence] = kv[item[q].sequence] \o Cells(q, <<0>>)
      /\ \A i \in 1..Len(batch') :
           kv'[item[batch'[i].key].sequence] =
             kv[item[batch'[i].key].sequence] \o PromptCells(batch'[i])
      /\ \A q \in Undone :
           \/ q \in Range(samples') \/ \E i \in 1..Len(batch') : batch'[i].key = q
           \/ kv'[item[q].sequence] = kv[item[q].sequence] \o <<>>
      /\ \A s \in CacheSeqs : kv'[s] = kv[s] \o <<>>
  BY <1>2, <1>3, <1>5, <1>6, FedToEach
<1>9. /\ Range(samples') \subseteq Decoding
      /\ \A i \in 1..Len(batch') :
           /\ batch'[i].key \in active \ Decoding
           /\ batch'[i].tokens \in Nat /\ batch'[i].tokens > 0
           /\ batch'[i].tokens <= Remaining(batch'[i].key)
      /\ \A i, j \in 1..Len(batch') : batch'[i].key = batch'[j].key => i = j
  BY <1>2, <1>3
<1>10. ASSUME NEW r \in Undone
       PROVE  /\ WithinBudget(r) /\ Steady(r) /\ Len(Prompt[r]) \in Nat
              /\ item[r].processed \in Nat /\ item[r].generated \in Nat
              /\ item'[r] = item[r]
              /\ r \in Decoding <=> item[r].processed = Len(Prompt[r])
  <2>1. Right(r) /\ r \in Requests
    BY <1>5, <1>10 DEF KvInv
  <2>2. Len(batch) = 0 /\ Range(samples) = {}
    BY <1>4, EmptySequence
  <2>3. WithinBudget(r) /\ Steady(r)
    BY <2>1, <2>2 DEF Right
  <2>4. Len(Prompt[r]) \in Nat /\ item[r].processed \in Nat /\ item[r].generated \in Nat
    <3>1. Len(Prompt[r]) \in Nat
      BY <2>1, EngineAssumption, LenProperties
    <3>2. item[r].processed \in Nat /\ item[r].generated \in Nat
      BY <2>1, <2>3, <3>1 DEF IInv, ItemShape, WithinBudget
    <3>3. QED
      BY <3>1, <3>2
  <2>5. QED
    BY <1>4, <1>5, <2>3, <2>4 DEF Decoding, Remaining
<1>11. ASSUME NEW r \in Undone, r \in Range(samples') PROVE Right(r)'
  <2>1. r \in Requests /\ item[r].processed = Len(Prompt[r]) /\ item[r].generated > 0
    BY <1>5, <1>9, <1>10, <1>11 DEF Steady
  <2>2. PICK n \in Nat : /\ n = FedTokens(r) /\ n >= Len(Prompt[r])
                         /\ n + 1 = Len(Prompt[r]) + item[r].generated
    <3>1. FedTokens(r) = Len(Prompt[r]) + (item[r].generated - 1)
      BY <1>10, <2>1 DEF FedTokens
    <3>2. PICK l \in Nat, h \in Nat :
            l = Len(Prompt[r]) /\ h = item[r].generated - 1 /\ item[r].generated = h + 1
      BY <1>10, <2>1
    <3>3. l + h \in Nat /\ l + h >= l /\ l + h + 1 = l + (h + 1)
      BY <3>2
    <3>4. QED
      BY <3>1, <3>2, <3>3
  <2>3. kv'[item[r].sequence] = TextOf(r, n) \o [i \in 1..1 |-> CellAt(r, n + i)]
    BY <1>8, <1>10, <1>11, <2>1, <2>2, FedDecode DEF Steady, Written
  <2>4. kv'[item[r].sequence] = TextOf(r, n + 1)
    BY ZenonT(30), <2>2, <2>3, TextGrows
  <2>5. Sampled(r)'
    BY <1>10, <2>1, <2>2, <2>4 DEF Sampled, Written
  <2>6. WithinBudget(r)'
    BY <1>10 DEF WithinBudget
  <2>7. \A i \in 1..Len(batch') : batch'[i].key # r
    BY <1>9, <1>11
  <2>8. QED
    BY <1>11, <2>5, <2>6, <2>7 DEF Right
<1>12. ASSUME NEW r \in Undone, NEW j \in 1..Len(batch'), batch'[j].key = r PROVE Right(r)'
  <2>1. PICK n \in Nat : n = batch'[j].tokens /\ n > 0 /\ n <= Remaining(r)
    BY <1>9, <1>12
  <2>2. PICK d \in Nat : d = item[r].processed /\ d + n <= Len(Prompt[r])
    BY <1>10, <2>1 DEF Remaining
  <2>3. r \in Requests /\ item[r].generated = 0 /\ FedTokens(r) = d
    <3>1. r \notin Decoding
      BY <1>9, <1>12
    <3>2. ~(item[r].generated > 0)
      BY <1>10, <3>1 DEF Steady
    <3>3. QED
      BY <1>5, <1>10, <2>2, <3>2 DEF FedTokens
  <2>4. PromptCells(batch'[j]) = Cells(r, SubSeq(Prompt[r], d + 1, d + n))
    BY <1>12, <2>1, <2>2 DEF PromptCells
  <2>5. kv'[item[r].sequence] = TextOf(r, d) \o [i \in 1..n |-> CellAt(r, d + i)]
    <3>1. kv[item[r].sequence] = TextOf(r, d)
      BY <1>10, <2>3 DEF Steady, Written
    <3>2. Cells(r, SubSeq(Prompt[r], d + 1, d + n)) = [i \in 1..n |-> CellAt(r, d + i)]
      BY <2>1, <2>2, <2>3, FedSlice
    <3>3. QED
      BY ZenonT(30), <1>8, <1>12, <2>4, <3>1, <3>2
  <2>6. kv'[item[r].sequence] = TextOf(r, d + n)
    BY <2>5, TextGrows
  <2>7. Sliced(r, n)'
    BY <1>10, <2>1, <2>2, <2>3, <2>6 DEF Sliced, Written
  <2>8. WithinBudget(r)'
    BY <1>10 DEF WithinBudget
  <2>9. \A i \in 1..Len(batch') : batch'[i].key = r => batch'[i].tokens = n
    BY <1>9, <1>12, <2>1
  <2>10. r \notin Range(samples')
    BY <1>9, <1>12
  <2>11. QED
    BY <1>12, <2>7, <2>8, <2>9, <2>10 DEF Right
<1>13. ASSUME NEW r \in Undone, r \notin Range(samples'),
              ~\E i \in 1..Len(batch') : batch'[i].key = r
       PROVE  Right(r)'
  <2>1. PICK n \in Nat : n = FedTokens(r)
    BY <1>10 DEF FedTokens
  <2>2. kv[item[r].sequence] = TextOf(r, n)
    BY <1>10, <2>1 DEF Steady, Written
  <2>3. kv'[item[r].sequence] = kv[item[r].sequence]
    BY <1>8, <1>13, <2>1, <2>2, TextGrows
  <2>4. Steady(r)' /\ WithinBudget(r)'
    BY <1>10, <2>3 DEF Steady, WithinBudget, FedTokens, Written
  <2>5. QED
    BY <1>13, <2>4 DEF Right
<1>14. ASSUME NEW s \in DOMAIN cache PROVE EntryWritten(s)'
  <2>1. EntryWritten(s) /\ s \in CacheSeqs
    BY <1>4, EntriesAreCacheSeqs DEF KvInv, Over
  <2>2. PICK n \in Nat : n = Len(cache[s].tokens)
    BY <2>1, LenProperties DEF EntryWritten
  <2>3. kv[s] = [i \in 1..n |-> kv[s][i]]
    BY <2>1, <2>2 DEF EntryWritten
  <2>4. kv'[s] = kv[s]
    BY <1>8, <2>1, <2>3, NothingFed
  <2>5. QED
    BY <1>4, <2>1, <2>4, EntryStays
<1>15. ListsInPhase'
  BY <1>4 DEF ListsInPhase
<1>16. QED
  BY <1>4, <1>5, <1>7, <1>11, <1>12, <1>13, <1>14, <1>15 DEF KvInv

-----------------------------------------------------------------------------
LEMMA InitKv == Init => KvInv
<1> SUFFICES ASSUME Init PROVE KvInv
  OBVIOUS
<1>1. Undone = {} /\ DOMAIN cache = {} /\ batch = <<>> /\ samples = <<>>
  BY DEF Init, Undone
<1>2. /\ DOMAIN kv = ActiveSeqs \cup CacheSeqs /\ DOMAIN cancelled = Requests
      /\ DOMAIN late = Requests /\ cand = None
  BY DEF Init
<1>3. QED
  BY <1>1, <1>2 DEF KvInv, ListsInPhase

LEMMA NextKv == IInv /\ Exclusive /\ KvInv /\ [Next]_vars => KvInv'
<1> SUFFICES ASSUME IInv, Exclusive, KvInv, [Next]_vars PROVE KvInv'
  OBVIOUS
<1>1. CASE Worker
  BY <1>1, KvRestingSteps, KvAfterFailures, KvErased, KvExpires, KvCloses, KvDrops, KvEmits,
     KvCollects, KvEvicts, KvAdmits, KvInserts, KvExecutes
     DEF Worker, Emission, Termination, Expire, Admission, CachePrompt
<1>2. CASE Client
  BY <1>2, KvRestingSteps DEF Client
<1>3. CASE Stopped \/ UNCHANGED vars
  BY <1>3, KvRestingSteps DEF Stopped
<1>4. QED
  BY <1>1, <1>2, <1>3 DEF Next

\* The tokens fed, as the property lists them.
LEMMA FedTextListed ==
  ASSUME NEW r \in Requests, NEW d \in 0..Len(Prompt[r]), NEW g \in Nat,
         d = Len(Prompt[r]) <=> g > 0
  PROVE  Cells(r, SubSeq(Prompt[r], 1, d) \o [i \in 1..(g - 1) |-> 0])
           = TextOf(r, d + (IF g = 0 THEN 0 ELSE g - 1))
<1>1. PICK l \in Nat, k \in Nat : l = Len(Prompt[r]) /\ k = (IF g = 0 THEN 0 ELSE g - 1)
  BY EngineAssumption, LenProperties
<1> DEFINE a == SubSeq(Prompt[r], 1, d)
           b == [i \in 1..(g - 1) |-> 0]
<1>2. a \in Seq(Nat) /\ Len(a) = d /\ d \in Nat /\ \A i \in 1..d : a[i] = Prompt[r][i]
  <2>1. Prompt[r] \in Seq(Nat) /\ d \in Nat
    BY <1>1, EngineAssumption
  <2>2. QED
    BY <2>1, PrefixTable
<1>3. b \in Seq(Nat) /\ Len(b) = k
  <2>1. 1..(g - 1) = 1..k
    BY <1>1
  <2>2. b \in [1..k -> Nat]
    BY <2>1
  <2> HIDE DEF b
  <2>3. QED
    BY <2>2, FunctionIsSeq
<1>4. \A i \in 1..k : b[i] = 0
  BY <1>1
<1> HIDE DEF a, b
<1>5. /\ Len(a \o b) = d + k
      /\ \A i \in 1..(d + k) : (a \o b)[i] = IF i <= d THEN a[i] ELSE b[i - d]
  <2>1. /\ Len(a \o b) = Len(a) + Len(b)
        /\ \A i \in 1..(Len(a) + Len(b)) :
             (a \o b)[i] = IF i <= Len(a) THEN a[i] ELSE b[i - Len(a)]
    BY <1>2, <1>3, ConcatProperties
  <2>2. QED
    BY <1>2, <1>3, <2>1
<1>6. ASSUME NEW i \in 1..(d + k)
      PROVE  (a \o b)[i] = IF i <= l THEN Prompt[r][i] ELSE 0
  <2>1. CASE i <= d
    BY <1>1, <1>2, <1>5, <2>1
  <2>2. CASE i > d
    <3>1. k > 0 /\ d = l /\ i - d \in 1..k
      BY <1>1, <1>2, <2>2
    <3>2. (a \o b)[i] = 0
      BY <1>2, <1>4, <1>5, <2>2, <3>1
    <3>3. QED
      BY <1>1, <1>2, <2>2, <3>1, <3>2
  <2>3. i \in Int /\ d \in Int
    BY <1>2
  <2>4. i <= d \/ i > d
    BY <2>3
  <2>5. QED
    BY <2>1, <2>2, <2>4
<1>7. Cells(r, a \o b) = TextOf(r, d + k)
  BY <1>1, <1>5, <1>6 DEF Cells, TextOf, CellAt
<1>8. QED
  BY <1>1, <1>7 DEF a, b

\* The blocks of a request are enough for all the tokens it may feed.
LEMMA BlocksForAll ==
  ASSUME NEW r \in Requests, NEW n \in Nat, n < Len(Prompt[r]) + MaxTokens[r]
  PROVE  n <= BlockSize * TotalBlocks(r)
<1>1. PICK b \in Nat \ {0}, l \in Nat, m \in Nat :
        b = BlockSize /\ l = Len(Prompt[r]) /\ m = MaxTokens[r]
  BY EngineAssumption, LenProperties
<1>2. PICK x \in Nat : x = l + m + b - 1
  BY <1>1
<1>3. x \div b \in Nat /\ b * (x \div b) <= x /\ x < b * (x \div b) + b
  BY <1>1, <1>2, Quotient
<1>4. PICK y \in Nat : y = b * (x \div b) /\ x < y + b
  BY <1>1, <1>3
<1>5. n <= y
  <2>1. n < l + m
    BY <1>1
  <2>2. QED
    BY <1>2, <1>4, <2>1
<1>6. QED
  BY <1>1, <1>2, <1>4, <1>5 DEF TotalBlocks

\* The tokens fed, the prompt's and the sampled ones, are fewer than the
\* prompt's and the budget's together.
LEMMA FedOfAll ==
  ASSUME NEW l \in Nat, NEW m \in Nat, NEW d \in Nat, NEW g \in Nat, d <= l, g < m
  PROVE  d + (IF g = 0 THEN 0 ELSE g - 1) < l + m
<1>1. CASE g = 0
  BY <1>1
<1>2. CASE g # 0
  BY <1>2
<1>3. QED
  BY <1>1, <1>2

\* Before a batch the runner holds for each admitted request exactly the
\* tokens it has been fed, of its own namespace and within its blocks, and
\* for each cache entry exactly the cached prefix, whatever was shared,
\* copied, evicted, dropped or cleared before.
THEOREM KvHolds == Spec => []KvHoldsItsRequest
<1>1. IInv /\ Exclusive /\ Credited /\ KvInv => KvHoldsItsRequest
  <2> SUFFICES ASSUME IInv, Exclusive, Credited, KvInv, pc \in {"admit", "iterate"}
               PROVE  KvHoldsItsRequest
    BY DEF KvHoldsItsRequest
  <2>1. active = Undone /\ Undone \subseteq Requests /\ \A q : ~Exempt(q)
    BY CollectionsAsTheyAre DEF Exclusive, Turns, Exempt, Over
  <2>2. Len(batch) = 0 /\ Range(samples) = {}
    BY EmptySequence DEF KvInv, ListsInPhase
  <2>3. ASSUME NEW r \in Undone
        PROVE  /\ kv[item[r].sequence] =
                    Cells(r, SubSeq(Prompt[r], 1, item[r].processed)
                             \o [i \in 1..(item[r].generated - 1) |-> 0])
               /\ Len(kv[item[r].sequence]) <= BlockSize * Len(item[r].blocks)
               /\ Position(r) = Len(kv[item[r].sequence])
    <3>1. Right(r) /\ r \in Requests
      BY <2>1 DEF KvInv
    <3>2. WithinBudget(r) /\ Steady(r)
      BY <2>2, <3>1 DEF Right
    <3>3. PICK l \in Nat, d \in Nat, g \in Nat, m \in Nat :
            /\ l = Len(Prompt[r]) /\ d = item[r].processed /\ g = item[r].generated
            /\ m = MaxTokens[r] /\ d <= l /\ g < m /\ (d = l <=> g > 0)
      <4>1. Len(Prompt[r]) \in Nat /\ MaxTokens[r] \in Nat
        BY <3>1, EngineAssumption, LenProperties
      <4>2. item[r].processed \in Nat /\ item[r].generated \in Nat
        BY <3>1, <3>2, <4>1 DEF IInv, ItemShape, WithinBudget
      <4>3. QED
        BY <3>2, <4>1, <4>2 DEF WithinBudget, Steady
    <3>4. PICK n \in Nat : n = d + (IF g = 0 THEN 0 ELSE g - 1)
      BY <3>3
    <3>5. kv[item[r].sequence] = TextOf(r, n)
      BY <3>2, <3>3, <3>4 DEF Steady, Written, FedTokens
    <3>6. TextOf(r, n) = Cells(r, SubSeq(Prompt[r], 1, item[r].processed)
                                  \o [i \in 1..(item[r].generated - 1) |-> 0])
      <4>1. d \in 0..Len(Prompt[r]) /\ (d = Len(Prompt[r]) <=> g > 0)
        BY <3>3
      <4>2. QED
        BY <3>1, <3>3, <3>4, <4>1, FedTextListed
    <3>7. Len(TextOf(r, n)) = n
      BY TextGrows
    <3>8. Len(item[r].blocks) = TotalBlocks(r)
      BY DEF Credited, Tabled
    <3>9. n <= BlockSize * TotalBlocks(r)
      <4>1. n < l + m
        BY <3>3, <3>4, FedOfAll
      <4>2. n \in Nat /\ r \in Requests /\ n < Len(Prompt[r]) + MaxTokens[r]
        BY <3>1, <3>3, <4>1
      <4>3. QED
        BY <4>2, BlocksForAll
    <3>10. Position(r) = n
      BY <3>3, <3>4 DEF Position, Remaining
    <3>11. QED
      BY <3>5, <3>6, <3>7, <3>8, <3>9, <3>10
  <2>4. \A s \in DOMAIN cache :
          kv[s] = [i \in 1..Len(cache[s].tokens) |->
                     [ns |-> cache[s].ns, token |-> cache[s].tokens[i]]]
    BY DEF KvInv, Over, EntryWritten, Cell
  <2>5. QED
    BY <2>1, <2>3, <2>4 DEF KvHoldsItsRequest
<1>2. QED
  BY <1>1, InitKv, NextKv, InvariantHolds, CreditsHold, PTL DEF Spec

-----------------------------------------------------------------------------
(***************************************************************************)
(* What a batch feeds in all.                                              *)
(***************************************************************************)
Summed(t, n) == SumFunctionOnSet(t, 1..n)

\* The prefill slices share what is left of the budget, and use some of it.
LEMMA AllotmentFits ==
  ASSUME NEW S, NEW prefill \in Seq(S), NEW remaining, NEW budget \in Nat,
         NEW t \in Allotments(prefill, remaining, budget)
  PROVE  /\ Len(t) \in Nat /\ t \in [1..Len(t) -> 1..BatchTokens]
         /\ Summed(t, Len(t)) \in 0..budget
         /\ prefill # <<>> /\ budget > 0 => Summed(t, Len(t)) > 0
<1>1. PICK k \in 0..Len(prefill) : t \in [1..k -> 1..BatchTokens]
  BY DEF Allotments
<1>2. k \in Nat /\ Len(t) = k /\ DOMAIN t = 1..k
  <2>1. k \in Nat
    BY <1>1, LenProperties
  <2>2. Len(t) = k /\ DOMAIN t = 1..k
    BY <1>1, <2>1, FunctionIsSeq
  <2>3. QED
    BY <2>1, <2>2
<1>3. \A i \in 1..k : t[i] \in Nat /\ t[i] > 0
  BY <1>1, SchedulerAssumption
<1>4. ASSUME k > 0
      PROVE  /\ Summed(t, k - 1) \in Nat /\ Summed(t, k) = t[k] + Summed(t, k - 1)
             /\ t[k] <= budget - Summed(t, k - 1)
  <2>1. k \in 1..k /\ (1..k) \ {k} = 1..(k - 1) /\ IsFiniteSet(1..k)
    <3>1. k \in 1..k /\ (1..k) \ {k} = 1..(k - 1)
      BY <1>2, <1>4
    <3>2. IsFiniteSet(1..k)
      BY <1>2, FS_Interval
    <3>3. QED
      BY <3>1, <3>2
  <2>2. PICK J : J = 1..k
    OBVIOUS
  <2>3. /\ SumFunctionOnSet(t, J \ {k}) \in Nat
        /\ SumFunctionOnSet(t, J) = t[k] + SumFunctionOnSet(t, J \ {k})
    <3>1. PICK x : x = k
      OBVIOUS
    <3>2. AllNat(t, J) /\ IsFiniteSet(J) /\ x \in J
      BY <1>3, <2>1, <2>2, <3>1 DEF AllNat
    <3>3. /\ SumFunctionOnSet(t, J \ {x}) \in Nat
          /\ SumFunctionOnSet(t, J) = t[x] + SumFunctionOnSet(t, J \ {x})
      BY <3>2, SumWithout
    <3>4. QED
      BY <3>1, <3>3
  <2>4. t[k] <= budget - SumFunctionOnSet(t, 1..(k - 1))
    <3>1. \A i \in DOMAIN t : t[i] <= budget - SumFunctionOnSet(t, 1..(i - 1))
      BY DEF Allotments
    <3>2. QED
      BY <1>2, <2>1, <3>1
  <2>5. QED
    BY <2>1, <2>2, <2>3, <2>4 DEF Summed
<1>5. CASE k = 0
  <2>1. 1..k = {} /\ 1..(1 - 1) = {} /\ SumFunctionOnSet(t, {}) = 0
    BY <1>5, SumOf
  <2>2. Summed(t, k) = 0
    BY <2>1 DEF Summed
  <2>3. prefill # <<>> => budget = 0
    <3>1. ASSUME prefill # <<>> PROVE budget = 0
      <4>1. Len(prefill) > 0
        BY <3>1, EmptySeq, LenProperties
      <4>2. budget - SumFunctionOnSet(t, 1..((Len(t) + 1) - 1)) = 0
        BY <1>2, <1>5, <4>1 DEF Allotments
      <4>3. 1..((Len(t) + 1) - 1) = {}
        BY <1>2, <1>5
      <4>4. budget - 0 = 0
        BY <2>1, <4>2, <4>3
      <4>5. QED
        BY <4>4
    <3>2. QED
      BY <3>1
  <2>4. QED
    BY <1>1, <1>2, <2>2, <2>3
<1>6. CASE k > 0
  <2>1. PICK m \in Nat, x \in Nat, z \in Nat :
          /\ m = Summed(t, k - 1) /\ x = t[k] /\ z = Summed(t, k)
          /\ z = x + m /\ x > 0 /\ x <= budget - m
    <3>1. t[k] \in Nat /\ t[k] > 0
      BY <1>2, <1>3, <1>6
    <3>2. Summed(t, k) \in Nat
      BY <1>4, <1>6, <3>1
    <3>3. QED
      BY <1>4, <1>6, <3>1, <3>2
  <2>2. z \in 0..budget /\ z > 0
    BY <2>1
  <2>3. QED
    BY <1>1, <1>2, <2>1, <2>2
<1>7. QED
  BY <1>2, <1>5, <1>6

\* The tokens of a batch, as the scheduler plans them.
Slots(plan) == [i \in 1..Len(plan.prefills) |-> plan.prefills[i].tokens]
Planned(plan) == Len(plan.decodes) + Summed(Slots(plan), Len(plan.prefills))

LEMMA PlanFits ==
  ASSUME IInv, active # {},
         NEW decode \in Orders(Decoding), NEW prefill \in Orders(active \ Decoding),
         NEW plan \in Plans(decode, prefill, [r \in active |-> Remaining(r)])
  PROVE  Planned(plan) \in 1..BatchTokens
<1> DEFINE n == DecodeCount(decode, prefill)
<1>1. /\ Decoding \subseteq active /\ active \subseteq Requests
      /\ IsFiniteSet(active) /\ IsFiniteSet(Decoding) /\ IsFiniteSet(active \ Decoding)
  <2>1. active \subseteq Requests
    BY CollectionsAsTheyAre
  <2>2. QED
    BY <2>1, RequestsFit, FS_Subset DEF Decoding
<1>2. /\ decode \in Seq(Requests) /\ Len(decode) = Cardinality(Decoding)
      /\ prefill \in Seq(Requests) /\ Len(prefill) = Cardinality(active \ Decoding)
  <2>1. Cardinality(Decoding) \in Nat /\ Cardinality(active \ Decoding) \in Nat
    BY <1>1, FS_CardinalityType
  <2>2. /\ decode \in [1..Cardinality(Decoding) -> Requests]
        /\ prefill \in [1..Cardinality(active \ Decoding) -> Requests]
    BY <1>1 DEF Orders, Injection
  <2>3. QED
    BY <2>1, <2>2, FunctionIsSeq
<1>3. /\ n \in 0..Len(decode) /\ n \in Nat /\ n <= BatchTokens /\ BatchTokens \in Nat
      /\ BatchTokens > 0
  BY <1>2, SchedulerAssumption, LenProperties DEF DecodeCount
<1>4. n = 0 => prefill # <<>>
  <2>1. ASSUME n = 0, prefill = <<>> PROVE FALSE
    <3>1. Len(decode) = 0
      BY <1>2, <2>1, SchedulerAssumption, LenProperties DEF DecodeCount
    <3>2. Cardinality(Decoding) = 0 /\ Cardinality(active \ Decoding) = 0
      BY <1>2, <2>1, <3>1, EmptySequence
    <3>3. Decoding = {} /\ active \ Decoding = {}
      BY <1>1, <3>2, FS_EmptySet
    <3>4. QED
      BY <3>3
  <2>2. QED
    BY <2>1
<1>5. PICK t \in Allotments(prefill, [r \in active |-> Remaining(r)], BatchTokens - n) :
        plan = [decodes  |-> SubSeq(decode, 1, n),
                prefills |-> [i \in 1..Len(t) |-> [key |-> prefill[i], tokens |-> t[i]]]]
  BY DEF Plans
<1> HIDE DEF n
<1>6. BatchTokens - n \in Nat
  BY <1>3
<1>7. /\ Len(t) \in Nat /\ t \in [1..Len(t) -> 1..BatchTokens]
      /\ Summed(t, Len(t)) \in 0..(BatchTokens - n)
      /\ prefill # <<>> /\ BatchTokens - n > 0 => Summed(t, Len(t)) > 0
  BY <1>2, <1>5, <1>6, AllotmentFits
<1>8. Len(plan.decodes) = n
  <2>1. plan.decodes = SubSeq(decode, 1, n)
    BY <1>5
  <2>2. QED
    BY <1>2, <1>3, <2>1, PrefixTable
<1>9. /\ Len(plan.prefills) = Len(t)
      /\ \A i \in 1..Len(t) : plan.prefills[i].tokens = t[i]
  <2>1. plan.prefills = [i \in 1..Len(t) |-> [key |-> prefill[i], tokens |-> t[i]]]
    BY <1>5
  <2>2. Len(plan.prefills) = Len(t)
    <3>1. PICK V : V = {[key |-> prefill[i], tokens |-> t[i]] : i \in 1..Len(t)}
      OBVIOUS
    <3>2. plan.prefills \in [1..Len(t) -> V]
      BY <2>1, <3>1
    <3>3. QED
      BY <1>7, <3>2, FunctionIsSeq
  <2>3. QED
    BY <2>1, <2>2
<1>10. Slots(plan) = t
  <2>1. Slots(plan) = [i \in 1..Len(t) |-> t[i]]
    BY <1>9 DEF Slots
  <2>2. QED
    BY <1>7, <2>1
<1>11. PICK z \in Nat : z = Summed(t, Len(t)) /\ z <= BatchTokens - n
                        /\ (prefill # <<>> /\ BatchTokens - n > 0 => z > 0)
  BY <1>6, <1>7
<1>12. Planned(plan) = n + z
  BY <1>8, <1>9, <1>10, <1>11 DEF Planned
<1>13. n + z > 0
  <2>1. CASE n = 0
    BY <1>3, <1>4, <1>11, <2>1
  <2>2. CASE n > 0
    BY <1>3, <1>11, <2>2
  <2>3. QED
    BY <1>3, <2>1, <2>2
<1>14. QED
  BY <1>3, <1>11, <1>12, <1>13

\* What the runner holds for a sequence is a sequence of cells.
Table(f) == f \in Seq(Range(f))

LEMMA SeqIsTable == ASSUME NEW S, NEW f \in Seq(S) PROVE Table(f)
<1>1. Len(f) \in Nat /\ DOMAIN f = 1..Len(f) /\ f = [i \in 1..Len(f) |-> f[i]]
  BY LenProperties, SequenceIsFunction
<1>2. PICK n \in Nat : n = Len(f)
  BY <1>1
<1>3. f \in [1..n -> Range(f)]
  BY <1>1, <1>2 DEF Range
<1>4. QED
  BY <1>3, FunctionIsSeq DEF Table

LEMMA ListIsTable ==
  ASSUME NEW n \in Nat, NEW f, f = [i \in 1..n |-> f[i]] PROVE Table(f) /\ Len(f) = n
<1>1. f \in [1..n -> Range(f)]
  BY DEF Range
<1>2. QED
  BY <1>1, FunctionIsSeq DEF Table

LEMMA JoinedTables ==
  ASSUME NEW f, NEW g, Table(f), Table(g)
  PROVE  Table(f \o g) /\ Len(f \o g) = Len(f) + Len(g) /\ Len(f) \in Nat /\ Len(g) \in Nat
<1>1. PICK S : S = Range(f) \cup Range(g)
  OBVIOUS
<1>2. f \in Seq(S) /\ g \in Seq(S)
  BY <1>1, SeqMonotonic DEF Table
<1>3. f \o g \in Seq(S) /\ Len(f \o g) = Len(f) + Len(g)
  BY <1>2, ConcatProperties
<1>4. QED
  BY <1>2, <1>3, SeqIsTable, LenProperties

LEMMA NoCells == Table(<<>>) /\ Len(<<>>) = 0
BY EmptySequence DEF Table

TablesHeld == \A s \in ActiveSeqs \cup CacheSeqs : Table(kv[s])

LEMMA CellsFed ==
  ASSUME NEW r \in Requests, NEW d \in Nat, NEW n \in Nat, d + n <= Len(Prompt[r]), n > 0
  PROVE  /\ Table(Cells(r, SubSeq(Prompt[r], d + 1, d + n)))
         /\ Len(Cells(r, SubSeq(Prompt[r], d + 1, d + n))) = n
<1>1. PICK f : f = [i \in 1..n |-> CellAt(r, d + i)]
  OBVIOUS
<1>2. f = [i \in 1..n |-> f[i]]
  BY <1>1
<1>3. Cells(r, SubSeq(Prompt[r], d + 1, d + n)) = f
  BY <1>1, FedSlice
<1>4. QED
  BY <1>2, <1>3, ListIsTable

LEMMA CellFed == ASSUME NEW r PROVE Table(Cells(r, <<0>>)) /\ Len(Cells(r, <<0>>)) = 1
<1>1. PICK f : f = [i \in 1..1 |-> [ns |-> Namespace[r], token |-> <<0>>[i]]]
  OBVIOUS
<1>2. f = [i \in 1..1 |-> f[i]] /\ Len(<<0>>) = 1
  BY <1>1
<1>3. Cells(r, <<0>>) = f
  BY <1>1, <1>2 DEF Cells
<1>4. QED
  BY <1>2, <1>3, ListIsTable

\* A batch feeds one token for each request that decodes, each slice's tokens
\* to the request it is a slice of, and nothing to anybody else.
LEMMA FedLengths ==
  ASSUME Exclusive, active = Undone, Undone \subseteq Requests, TablesHeld, NEW plan,
         plan.decodes \in Seq(Requests), Range(plan.decodes) \subseteq Decoding,
         plan.prefills \in Seq(Slices),
         \A i \in 1..Len(plan.prefills) : plan.prefills[i].key \in active \ Decoding,
         \A i, j \in 1..Len(plan.prefills) :
           plan.prefills[i].key = plan.prefills[j].key => i = j,
         \A i \in 1..Len(plan.prefills) :
           LET p == plan.prefills[i]
           IN /\ p.tokens \in Nat /\ p.tokens > 0 /\ item[p.key].processed \in Nat
              /\ item[p.key].processed + p.tokens <= Len(Prompt[p.key]),
         ActiveSeqs \cup CacheSeqs = DOMAIN kv
  PROVE  /\ \A s \in ActiveSeqs \cup CacheSeqs : Table(Fed(plan)[s])
         /\ \A q \in Range(plan.decodes) :
              Len(Fed(plan)[item[q].sequence]) = Len(kv[item[q].sequence]) + 1
         /\ \A i \in 1..Len(plan.prefills) :
              LET p == plan.prefills[i]
              IN Len(Fed(plan)[item[p.key].sequence]) = Len(kv[item[p.key].sequence]) + p.tokens
         /\ \A s \in ActiveSeqs :
              \/ \E q \in Range(plan.decodes) : item[q].sequence = s
              \/ \E i \in 1..Len(plan.prefills) : item[plan.prefills[i].key].sequence = s
              \/ Len(Fed(plan)[s]) = Len(kv[s])
<1> DEFINE D == Range(plan.decodes)
           n == Len(plan.prefills)
<1>1. /\ \A q \in D : Fed(plan)[item[q].sequence] = kv[item[q].sequence] \o Cells(q, <<0>>)
      /\ \A i \in 1..n :
           LET p == plan.prefills[i]
           IN Fed(plan)[item[p.key].sequence] = kv[item[p.key].sequence] \o PromptCells(p)
      /\ \A s \in CacheSeqs : Fed(plan)[s] = kv[s] \o <<>>
  BY FedToEach
<1>2. /\ \A q \in D : q \in Undone /\ item[q].sequence \in ActiveSeqs
      /\ \A i \in 1..n : /\ plan.prefills[i].key \in Undone /\ plan.prefills[i].key \in Requests
                         /\ item[plan.prefills[i].key].sequence \in ActiveSeqs
  BY DEF Exclusive, SequencesTaken, Decoding
<1>3. ASSUME NEW q \in D
      PROVE  /\ Table(Fed(plan)[item[q].sequence])
             /\ Len(Fed(plan)[item[q].sequence]) = Len(kv[item[q].sequence]) + 1
  <2>1. PICK s : s = item[q].sequence /\ s \in ActiveSeqs
    BY <1>2
  <2>2. PICK f : f = kv[s] /\ Table(f)
    BY <2>1 DEF TablesHeld
  <2>3. PICK g : g = Cells(q, <<0>>) /\ Table(g) /\ Len(g) = 1
    BY CellFed
  <2>4. Fed(plan)[s] = f \o g
    BY <1>1, <2>1, <2>2, <2>3
  <2>5. Table(f \o g) /\ Len(f \o g) = Len(f) + 1
    BY <2>2, <2>3, JoinedTables
  <2>6. Table(Fed(plan)[s]) /\ Len(Fed(plan)[s]) = Len(kv[s]) + 1
    BY <2>2, <2>4, <2>5
  <2>7. QED
    BY <2>1, <2>6
<1>4. ASSUME NEW i \in 1..n
      PROVE  LET p == plan.prefills[i]
             IN /\ Table(Fed(plan)[item[p.key].sequence])
                /\ Len(Fed(plan)[item[p.key].sequence]) = Len(kv[item[p.key].sequence]) + p.tokens
  <2>1. PICK p, s, r, d, m :
          /\ p = plan.prefills[i] /\ r = p.key /\ s = item[r].sequence
          /\ d = item[r].processed /\ m = p.tokens
    OBVIOUS
  <2>2. s \in ActiveSeqs /\ r \in Requests /\ d \in Nat /\ m \in Nat /\ m > 0 /\ d + m <= Len(Prompt[r])
    BY <1>2, <2>1
  <2>3. PICK f : f = kv[s] /\ Table(f)
    BY <2>2 DEF TablesHeld
  <2>4. PICK g : g = Cells(r, SubSeq(Prompt[r], d + 1, d + m)) /\ Table(g) /\ Len(g) = m
    BY <2>2, CellsFed
  <2>5. PromptCells(p) = g
    BY <2>1, <2>4 DEF PromptCells
  <2>6. Fed(plan)[s] = f \o g
    BY <1>1, <2>1, <2>3, <2>5
  <2>7. Table(f \o g) /\ Len(f \o g) = Len(f) + m
    BY <2>3, <2>4, JoinedTables
  <2>8. Table(Fed(plan)[s]) /\ Len(Fed(plan)[s]) = Len(kv[s]) + m
    BY <2>3, <2>6, <2>7
  <2>9. QED
    BY <2>1, <2>8
<1>5. ASSUME NEW s \in ActiveSeqs \cup CacheSeqs, Fed(plan)[s] = kv[s] \o <<>>
      PROVE  Table(Fed(plan)[s]) /\ Len(Fed(plan)[s]) = Len(kv[s])
  <2>1. PICK f : f = kv[s] /\ Table(f)
    BY DEF TablesHeld
  <2>2. Fed(plan)[s] = f \o <<>>
    BY <1>5, <2>1
  <2>3. Table(f \o <<>>) /\ Len(f \o <<>>) = Len(f) + 0 /\ Len(f) \in Nat
    BY <2>1, JoinedTables, NoCells
  <2>4. QED
    BY <2>1, <2>2, <2>3
<1>6. ASSUME NEW s \in ActiveSeqs,
             ~\E q \in D : item[q].sequence = s,
             ~\E i \in 1..n : item[plan.prefills[i].key].sequence = s
      PROVE  Fed(plan)[s] = kv[s] \o <<>>
  <2>1. \A p \in Range(plan.prefills) : \E i \in 1..n : p = plan.prefills[i]
    BY LenProperties DEF Range
  <2>2. ~\E p \in Range(plan.prefills) : item[p.key].sequence = s
    BY <1>6, <2>1
  <2>3. s \in DOMAIN kv
    OBVIOUS
  <2>4. QED
    BY <1>6, <2>2, <2>3 DEF Fed
<1>7. ASSUME NEW s \in ActiveSeqs \cup CacheSeqs PROVE Table(Fed(plan)[s])
  <2>1. CASE s \in CacheSeqs
    BY <1>1, <1>5, <2>1
  <2>2. CASE s \in ActiveSeqs
    <3>1. CASE \E q \in D : item[q].sequence = s
      BY <1>3, <3>1
    <3>2. CASE \E i \in 1..n : item[plan.prefills[i].key].sequence = s
      BY <1>4, <3>2
    <3>3. QED
      BY <1>5, <1>6, <2>2, <3>1, <3>2
  <2>3. QED
    BY <2>1, <2>2
<1>8. QED
  BY <1>3, <1>4, <1>5, <1>6, <1>7

\* A batch feeds at least a token, and no more than its budget.
LEMMA ExecuteFeeds ==
  ASSUME IInv, Exclusive, KvInv, TablesHeld, Execute
  PROVE  /\ TablesHeld'
         /\ active # {} => TokensIn(kv') - TokensIn(kv) \in 1..BatchTokens
<1> USE DEF handleVars, sharedVars, itemVars, cacheVars, At
<1>1. PICK decode \in Orders(Decoding), prefill \in Orders(active \ Decoding) :
        \E plan \in Plans(decode, prefill, [r \in active |-> Remaining(r)]) : kv' = Fed(plan)
  BY DEF Execute
<1>2. PICK plan \in Plans(decode, prefill, [r \in active |-> Remaining(r)]) : kv' = Fed(plan)
  BY <1>1
<1>3. /\ pc = "iterate" /\ active = Undone /\ Undone \subseteq Requests /\ Decoding \subseteq Undone
  BY CollectionsAsTheyAre DEF Execute, Exclusive, Turns, Undone, Decoding
<1>4. DOMAIN kv = ActiveSeqs \cup CacheSeqs
  BY DEF KvInv
<1> DEFINE D == Range(plan.decodes)
           n == Len(plan.decodes)
           k == Len(plan.prefills)
<1>5. /\ plan.decodes \in Seq(Requests) /\ D \subseteq Decoding /\ IsInjective(plan.decodes)
      /\ plan.prefills \in Seq(Slices)
      /\ \A i \in 1..k : plan.prefills[i].key \in active \ Decoding
      /\ \A i, j \in 1..k : plan.prefills[i].key = plan.prefills[j].key => i = j
      /\ \A i \in 1..k : /\ plan.prefills[i].tokens \in Nat /\ plan.prefills[i].tokens > 0
                         /\ plan.prefills[i].tokens <= Remaining(plan.prefills[i].key)
  BY <1>2, PlanIsActive
<1>6. \A i \in 1..k :
        LET p == plan.prefills[i]
        IN /\ p.tokens \in Nat /\ p.tokens > 0 /\ item[p.key].processed \in Nat
           /\ item[p.key].processed + p.tokens <= Len(Prompt[p.key])
  <2>1. ASSUME NEW i \in 1..k
        PROVE  LET p == plan.prefills[i]
               IN /\ p.tokens \in Nat /\ p.tokens > 0 /\ item[p.key].processed \in Nat
                  /\ item[p.key].processed + p.tokens <= Len(Prompt[p.key])
    <3>1. PICK r, d, m : r = plan.prefills[i].key /\ m = plan.prefills[i].tokens /\ d = item[r].processed
      OBVIOUS
    <3>2. r \in Requests /\ m \in Nat /\ m > 0 /\ m <= Len(Prompt[r]) - d
      BY <1>3, <1>5, <3>1 DEF Remaining
    <3>3. d \in Nat /\ Len(Prompt[r]) \in Nat
      <4>1. r \in Undone /\ ~Exempt(r)
        BY <1>3, <1>5, <3>1 DEF Exempt, Over
      <4>2. d \in 0..Len(Prompt[r])
        BY <3>1, <4>1 DEF KvInv, Right, WithinBudget
      <4>3. Len(Prompt[r]) \in Nat
        BY <3>2, EngineAssumption, LenProperties
      <4>4. QED
        BY <4>2, <4>3
    <3>4. d + m <= Len(Prompt[r])
      BY <3>2, <3>3
    <3>5. QED
      BY <3>1, <3>2, <3>3, <3>4
  <2>2. QED
    BY <2>1
<1>7. /\ \A s \in ActiveSeqs \cup CacheSeqs : Table(kv'[s])
      /\ \A q \in D : Len(kv'[item[q].sequence]) = Len(kv[item[q].sequence]) + 1
      /\ \A i \in 1..k :
           LET p == plan.prefills[i]
           IN Len(kv'[item[p.key].sequence]) = Len(kv[item[p.key].sequence]) + p.tokens
      /\ \A s \in ActiveSeqs :
           \/ \E q \in D : item[q].sequence = s
           \/ \E i \in 1..k : item[plan.prefills[i].key].sequence = s
           \/ Len(kv'[s]) = Len(kv[s])
  BY <1>2, <1>3, <1>4, <1>5, <1>6, FedLengths
<1>8. TablesHeld'
  BY <1>7 DEF TablesHeld
<1>9. ASSUME active # {} PROVE TokensIn(kv') - TokensIn(kv) \in 1..BatchTokens
  <2>1. PICK old, new, a, b, t :
          /\ old = [s \in ActiveSeqs |-> Len(kv[s])]
          /\ new = [s \in ActiveSeqs |-> Len(kv'[s])]
          /\ a = [i \in 1..n |-> item[plan.decodes[i]].sequence]
          /\ b = [i \in 1..k |-> item[plan.prefills[i].key].sequence]
          /\ t = Slots(plan)
    OBVIOUS
  <2>2. n \in Nat /\ k \in Nat /\ DOMAIN plan.decodes = 1..n
    BY <1>5, LenProperties
  <2>3. /\ \A i \in 1..n : plan.decodes[i] \in D /\ plan.decodes[i] \in Undone
        /\ \A q \in D : \E i \in 1..n : plan.decodes[i] = q
        /\ \A i, j \in 1..n : plan.decodes[i] = plan.decodes[j] => i = j
    BY <1>3, <1>5, <2>2 DEF Range, IsInjective
  <2>4. \A i \in 1..k : plan.prefills[i].key \in Undone
    BY <1>3, <1>5
  <2>5. /\ \A q \in Undone : item[q].sequence \in ActiveSeqs
        /\ \A p, q \in Undone : item[p].sequence = item[q].sequence => p = q
    BY DEF Exclusive, SequencesTaken
  <2>6. IsFiniteSet(ActiveSeqs)
    BY EngineAssumption, FS_Interval DEF ActiveSeqs
  <2>7. \A s \in ActiveSeqs : old[s] \in Nat
    <3>1. \A s \in ActiveSeqs : Len(kv[s]) \in Nat
      BY LenProperties DEF TablesHeld, Table
    <3>2. QED
      BY <2>1, <3>1
  <2> HIDE DEF n, k, D
  <2>8. \A i \in 1..n : a[i] \in ActiveSeqs /\ new[a[i]] = old[a[i]] + 1
    BY <1>7, <2>1, <2>3, <2>5
  <2>9. \A i \in 1..k : b[i] \in ActiveSeqs /\ t[i] \in Nat /\ new[b[i]] = old[b[i]] + t[i]
    <3>1. ASSUME NEW i \in 1..k
          PROVE  b[i] \in ActiveSeqs /\ t[i] \in Nat /\ new[b[i]] = old[b[i]] + t[i]
      <4>1. PICK s : s = item[plan.prefills[i].key].sequence
        OBVIOUS
      <4>2. s \in ActiveSeqs /\ b[i] = s
        BY <2>1, <2>4, <2>5, <4>1
      <4>3. t[i] = plan.prefills[i].tokens
        BY <2>1 DEF Slots, k
      <4>4. t[i] \in Nat
        BY <1>6, <4>3
      <4>5. Len(kv'[s]) = Len(kv[s]) + t[i]
        BY <1>7, <4>1, <4>3
      <4>6. QED
        BY <2>1, <4>2, <4>4, <4>5
    <3>2. QED
      BY <3>1
  <2>10. \A i, j \in 1..n : a[i] = a[j] => i = j
    BY <2>1, <2>3, <2>5
  <2>11. \A i, j \in 1..k : b[i] = b[j] => i = j
    BY <1>5, <2>1, <2>4, <2>5 DEF k
  <2>12. \A i \in 1..n : \A j \in 1..k : a[i] # b[j]
    <3>1. ASSUME NEW i \in 1..n, NEW j \in 1..k PROVE a[i] # b[j]
      <4>1. plan.decodes[i] \in Decoding
        BY <1>5, <2>3 DEF D
      <4>2. plan.prefills[j].key \notin Decoding
        BY <1>5 DEF k
      <4>3. QED
        BY <2>1, <2>3, <2>4, <2>5, <4>1, <4>2
    <3>2. QED
      BY <3>1
  <2>13. ASSUME NEW s \in ActiveSeqs, \A i \in 1..n : a[i] # s, \A i \in 1..k : b[i] # s
         PROVE  new[s] = old[s]
    <3>1. ~\E q \in D : item[q].sequence = s
      BY <2>1, <2>3, <2>13
    <3>2. ~\E i \in 1..k : item[plan.prefills[i].key].sequence = s
      BY <2>1, <2>13
    <3>3. Len(kv'[s]) = Len(kv[s])
      BY <1>7, <3>1, <3>2
    <3>4. QED
      BY <2>1, <3>3
  <2>14. PICK x, y, z :
           /\ x = SumFunctionOnSet(old, ActiveSeqs) /\ y = SumFunctionOnSet(new, ActiveSeqs)
           /\ z = SumFunctionOnSet(t, 1..k)
    OBVIOUS
  <2>15. x \in Nat /\ z \in Nat /\ y = x + (n + z)
    <3>1. Grows(ActiveSeqs, old, new, n, a, k, b, t) /\ AllNat(old, ActiveSeqs)
      BY <2>7, <2>8, <2>9, <2>10, <2>11, <2>12, <2>13 DEF Grows, AllNat
    <3>2. QED
      BY <2>2, <2>6, <2>14, <3>1, SumGrows
  <2>16. n + z \in 1..BatchTokens
    <3>1. Planned(plan) \in 1..BatchTokens
      BY <1>2, <1>9, PlanFits
    <3>2. QED
      BY <2>1, <2>14, <3>1 DEF Planned, Summed, n, k
  <2>17. TokensIn(kv) = x /\ TokensIn(kv') = y
    <3>1. DOMAIN old = ActiveSeqs /\ DOMAIN new = ActiveSeqs
      BY <2>1
    <3>2. SumFunction(old) = x /\ SumFunction(new) = y
      BY <2>14, <3>1 DEF SumFunction
    <3>3. QED
      BY <2>1, <3>2 DEF TokensIn
  <2>18. QED
    BY <2>2, <2>15, <2>16, <2>17, SchedulerAssumption
<1>10. QED
  BY <1>8, <1>9

\* Most steps leave what the runner holds alone, or clear one sequence.
Cleared == kv' = kv \/ \E x : kv' = [kv EXCEPT ![x] = <<>>]

LEMMA ClearedTables ==
  ASSUME TablesHeld, DOMAIN kv = ActiveSeqs \cup CacheSeqs, Cleared PROVE TablesHeld'
<1>1. CASE kv' = kv
  BY <1>1 DEF TablesHeld
<1>2. ASSUME NEW x, kv' = [kv EXCEPT ![x] = <<>>] PROVE TablesHeld'
  <2>1. ASSUME NEW s \in ActiveSeqs \cup CacheSeqs PROVE Table(kv'[s])
    <3>1. kv'[s] = kv[s] \/ kv'[s] = <<>>
      BY <1>2
    <3>2. QED
      BY <3>1, NoCells DEF TablesHeld
  <2>2. QED
    BY <2>1 DEF TablesHeld
<1>3. QED
  BY <1>1, <1>2 DEF Cleared

LEMMA ClearingSteps ==
  ASSUME \/ Client \/ Stopped \/ UNCHANGED vars
         \/ EmitTerminal \/ Sleep \/ BeginIteration \/ EndExpire \/ EndAdmit
         \/ ExecuteFails \/ Collect \/ CacheHit \/ CacheEvict \/ EndCollect
         \/ Emission \/ EndIteration \/ Termination
         \/ \E r \in Requests : Expire(r) \/ AdmitEvict(r) \/ AdmitFails(r)
  PROVE  Cleared
<1> USE DEF sharedVars, handleVars, batchVars, itemVars, cacheVars, Cleared
<1>1. CASE Client \/ Stopped \/ UNCHANGED vars
  BY <1>1 DEF Client, Stopped, vars, Stop, Cancel, Accept, Reject, ClientNext, DeadlinePasses
<1>2. CASE \/ EmitTerminal \/ Sleep \/ BeginIteration \/ EndExpire \/ EndAdmit
           \/ ExecuteFails \/ Collect \/ CacheHit \/ EndCollect \/ EndIteration
  BY <1>2 DEF EmitTerminal, Sleep, BeginIteration, EndExpire, EndAdmit, ExecuteFails, Collect,
              CacheHit, EndCollect, EndIteration
<1>3. CASE CacheEvict
  BY <1>3 DEF CacheEvict, Evict
<1>4. CASE Emission
  BY <1>4 DEF Emission, DropSample, EmitToken, EmitThrows, Close, Finish, FinishThrows
<1>5. CASE Termination
  BY <1>5 DEF Termination, BeginStop, Catch, DrainLast, TerminateCache, EndTerminate, Evict,
              TerminateActive, TerminateWaiting, Finish, FinishThrows
<1>6. ASSUME NEW r \in Requests, Expire(r) PROVE Cleared
  BY <1>6 DEF Expire, VisitLive, ExpireWaiting, ExpireActive, Finish, FinishThrows
<1>7. ASSUME NEW r \in Requests, AdmitEvict(r) \/ AdmitFails(r) PROVE Cleared
  BY <1>7 DEF AdmitEvict, AdmitFails, Evict
<1>8. QED
  BY <1>1, <1>2, <1>3, <1>4, <1>5, <1>6, <1>7

LEMMA AdmitTables ==
  ASSUME IInv, Exclusive, KvInv, TablesHeld, NEW r \in Requests, Admit(r) PROVE TablesHeld'
<1> USE DEF handleVars, sharedVars, batchVars, At
<1> DEFINE shared == IF Reusable(r) = 0 THEN <<>>
                     ELSE SubSeq(cache[Source(r)].blocks, 1, Reusable(r) \div BlockSize)
           fresh  == CHOOSE t \in FreshTables(refs, NewBlocks(r)) : TRUE
           place  == CHOOSE s \in freeSeqs : TRUE
           blocks == shared \o fresh
           text   == SubSeq(kv[Source(r)], 1, Reusable(r))
<1>0. PICK ok \in Outcomes :
        /\ item' = [item EXCEPT ![r] =
                      [sequence |-> place, blocks |-> blocks, processed |-> Reusable(r),
                       generated |-> 0, done |-> FALSE]]
        /\ kv' = [kv EXCEPT ![place] = IF ok /\ Reusable(r) > 0 THEN text ELSE <<>>]
        /\ active' = active \cup {r}
        /\ pc' = IF ok THEN "admit" ELSE "catch"
  BY Zenon DEF Admit
<1> HIDE DEF blocks, place, text
<1>1. PICK s :
        /\ s = place /\ item' = [item EXCEPT ![r] =
                         [sequence |-> s, blocks |-> blocks, processed |-> Reusable(r),
                          generated |-> 0, done |-> FALSE]]
        /\ kv' = [kv EXCEPT ![s] = IF ok /\ Reusable(r) > 0 THEN text ELSE <<>>]
        /\ active' = active \cup {r} /\ pc' = (IF ok THEN "admit" ELSE "catch")
  BY <1>0
<1>2. DOMAIN kv = ActiveSeqs \cup CacheSeqs /\ DOMAIN kv' = DOMAIN kv
  BY <1>1 DEF KvInv
<1>3. CASE ~(ok /\ Reusable(r) > 0)
  <2>1. Cleared
    BY <1>1, <1>3 DEF Cleared
  <2>2. QED
    BY <1>2, <2>1, ClearedTables
<1>4. CASE ok /\ Reusable(r) > 0
  <2>1. pc' = "admit" /\ KvInv'
    BY <1>1, <1>4, KvAdmits
  <2>2. item'[r].sequence = s /\ item'[r].generated = 0 /\ ~item'[r].done
    BY <1>1 DEF IInv, ItemShape
  <2>3. r \in Undone'
    BY <1>1, <2>2 DEF Undone
  <2>4. Right(r)' /\ batch' = <<>> /\ samples' = <<>>
    BY <2>1, <2>3 DEF KvInv, ListsInPhase, Exempt, Over
  <2>5. WithinBudget(r)' /\ Steady(r)'
    <3>1. Len(batch') = 0 /\ Range(samples') = {}
      BY <2>4, EmptySequence
    <3>2. QED
      BY <2>4, <3>1 DEF Right
  <2>6. PICK n \in Nat : kv'[s] = TextOf(r, n)
    <3>1. Len(Prompt[r]) \in Nat
      BY EngineAssumption, LenProperties
    <3>2. item'[r].processed \in Nat /\ kv'[s] = TextOf(r, item'[r].processed)
      BY <2>2, <2>5, <3>1 DEF WithinBudget, Steady, FedTokens, Written
    <3>3. QED
      BY <3>2
  <2>7. Table(kv'[s])
    <3>1. TextOf(r, n) = [i \in 1..n |-> TextOf(r, n)[i]]
      BY DEF TextOf
    <3>2. QED
      BY <2>6, <3>1, ListIsTable
  <2>8. \A q \in ActiveSeqs \cup CacheSeqs : q # s => kv'[q] = kv[q]
    BY <1>1, <1>2
  <2>9. QED
    BY <2>7, <2>8 DEF TablesHeld
<1>5. QED
  BY <1>3, <1>4

LEMMA InsertTables ==
  ASSUME IInv, Exclusive, KvInv, TablesHeld, CacheInsert PROVE TablesHeld'
<1> USE DEF handleVars, sharedVars, batchVars, At
<1> DEFINE length == CacheLength(cand)
           place  == CHOOSE s \in freeCacheSeqs : TRUE
           blocks == SubSeq(item[cand].blocks, 1, length \div BlockSize)
           entry  == [ns |-> Namespace[cand], tokens |-> SubSeq(Prompt[cand], 1, length),
                      blocks |-> blocks]
           text   == SubSeq(kv[item[cand].sequence], 1, length)
<1>0. PICK ok \in Outcomes :
        /\ cache' = Inserted(cache, place, entry)
        /\ kv' = [kv EXCEPT ![place] = IF ok THEN text ELSE <<>>]
        /\ pc' = IF ok THEN pc ELSE "catch"
  BY Zenon DEF CacheInsert
<1> HIDE DEF length, place, blocks, entry, text
<1>1. PICK s :
        /\ s = place /\ cache' = Inserted(cache, s, entry)
        /\ kv' = [kv EXCEPT ![s] = IF ok THEN text ELSE <<>>]
        /\ pc' = (IF ok THEN pc ELSE "catch")
  BY <1>0
<1>2. pc = "collect" /\ DOMAIN kv = ActiveSeqs \cup CacheSeqs /\ DOMAIN kv' = DOMAIN kv
  BY <1>1 DEF KvInv, CacheInsert
<1>3. CASE ~ok
  <2>1. Cleared
    BY <1>1, <1>3 DEF Cleared
  <2>2. QED
    BY <1>2, <2>1, ClearedTables
<1>4. CASE ok
  <2>1. KvInv' /\ pc' \notin Over /\ s \in DOMAIN cache'
    BY <1>1, <1>2, <1>4, KvInserts DEF Over, Inserted
  <2>2. PICK n \in Nat : kv'[s] = [i \in 1..n |-> kv'[s][i]]
    <3>1. EntryWritten(s)'
      BY <2>1 DEF KvInv
    <3>2. PICK n : n = Len(cache'[s].tokens)
      OBVIOUS
    <3>3. n \in Nat /\ kv'[s] = [i \in 1..n |-> Cell(cache'[s], i)]
      BY <3>1, <3>2, LenProperties DEF EntryWritten
    <3>4. QED
      BY <3>3
  <2>3. Table(kv'[s])
    BY <2>2, ListIsTable
  <2>4. \A q \in ActiveSeqs \cup CacheSeqs : q # s => kv'[q] = kv[q]
    BY <1>1, <1>2
  <2>5. QED
    BY <2>3, <2>4 DEF TablesHeld
<1>5. QED
  BY <1>3, <1>4

NextTables == TablesHeld'
LEMMA TablesStep ==
  ASSUME IInv, Exclusive, KvInv, TablesHeld, [Next]_vars PROVE NextTables
<1>1. DOMAIN kv = ActiveSeqs \cup CacheSeqs
  BY DEF KvInv
<1>2. CASE Cleared
  BY <1>1, <1>2, ClearedTables DEF NextTables
<1>3. CASE Execute
  BY <1>3, ExecuteFeeds DEF NextTables
<1>4. CASE CacheInsert
  BY <1>4, InsertTables DEF NextTables
<1>5. ASSUME NEW r \in Requests, Admit(r) PROVE NextTables
  BY <1>5, AdmitTables DEF NextTables
<1>6. QED
  BY <1>2, <1>3, <1>4, <1>5, ClearingSteps DEF Next, Worker, CachePrompt, Admission

\* A batch is run only when there is a request to run.
SomeoneActive == pc = "iterate" => active # {}

LEMMA ActiveStep == SomeoneActive /\ [Next]_vars => SomeoneActive'
<1> SUFFICES ASSUME SomeoneActive, [Next]_vars PROVE SomeoneActive'
  OBVIOUS
<1> USE DEF sharedVars, handleVars, batchVars, itemVars, cacheVars, At, SomeoneActive
<1>1. CASE Client \/ Stopped \/ UNCHANGED vars
  BY <1>1 DEF Client, Stopped, vars, Stop, Cancel, Accept, Reject, ClientNext, DeadlinePasses, Notify
<1>2. CASE \/ EmitTerminal \/ Sleep \/ BeginIteration \/ EndExpire \/ EndAdmit \/ Execute
           \/ ExecuteFails \/ Collect \/ CacheHit \/ EndCollect \/ EndIteration
  BY <1>2 DEF EmitTerminal, Sleep, BeginIteration, EndExpire, EndAdmit, Execute, ExecuteFails,
              Collect, CacheHit, EndCollect, EndIteration
<1>3. CASE CacheEvict \/ CacheInsert
  BY <1>3 DEF CacheEvict, CacheInsert, Evict
<1>4. CASE Emission
  BY <1>4 DEF Emission, DropSample, EmitToken, EmitThrows, Close, Finish, FinishThrows
<1>5. CASE Termination
  BY <1>5 DEF Termination, BeginStop, Catch, DrainLast, TerminateCache, EndTerminate, Evict,
              TerminateActive, TerminateWaiting, FinishThrows
<1>6. ASSUME NEW r \in Requests, Expire(r) PROVE SomeoneActive'
  BY <1>6 DEF Expire, Visit, VisitLive, ExpireWaiting, ExpireActive, FinishThrows
<1>7. ASSUME NEW r \in Requests, Admission(r) PROVE SomeoneActive'
  BY <1>7 DEF Admission, Admit, AdmitEvict, AdmitFails, Evict, Candidate
<1>8. QED
  BY <1>1, <1>2, <1>3, <1>4, <1>5, <1>6, <1>7 DEF Next, Worker, CachePrompt

\* Only the run of a batch takes the worker from "iterate" to "collect".
LEMMA OnlyExecute == [Next]_vars /\ pc = "iterate" /\ pc' = "collect" => Execute
<1> SUFFICES ASSUME [Next]_vars, pc = "iterate", pc' = "collect" PROVE Execute
  OBVIOUS
<1> USE DEF sharedVars, handleVars, batchVars, itemVars, cacheVars, At
<1>1. CASE Client \/ Stopped \/ UNCHANGED vars
  BY <1>1 DEF Client, Stopped, vars, Stop, Cancel, Accept, Reject, ClientNext, DeadlinePasses, Notify
<1>2. CASE \/ EmitTerminal \/ Sleep \/ BeginIteration \/ EndExpire \/ EndAdmit \/ Execute
           \/ ExecuteFails \/ Collect \/ CacheHit \/ EndCollect \/ EndIteration
  BY <1>2 DEF EmitTerminal, Sleep, BeginIteration, EndExpire, EndAdmit,
              ExecuteFails, Collect, CacheHit, EndCollect, EndIteration
<1>3. CASE CacheEvict \/ CacheInsert
  BY <1>3 DEF CacheEvict, CacheInsert
<1>4. CASE Emission
  BY <1>4 DEF Emission, DropSample, EmitToken, EmitThrows, Close
<1>5. CASE Termination
  BY <1>5 DEF Termination, BeginStop, Catch, DrainLast, TerminateCache, EndTerminate,
              TerminateActive, TerminateWaiting
<1>6. ASSUME NEW r \in Requests, Expire(r) PROVE Execute
  BY <1>6 DEF Expire, Visit, VisitLive, ExpireWaiting, ExpireActive
<1>7. ASSUME NEW r \in Requests, Admission(r) PROVE Execute
  BY <1>7 DEF Admission, Admit, AdmitEvict, AdmitFails, Candidate
<1>8. QED
  BY <1>1, <1>2, <1>3, <1>4, <1>5, <1>6, <1>7 DEF Next, Worker, CachePrompt

Feeds == KvInv /\ TablesHeld /\ SomeoneActive

\* Every batch the worker runs feeds the model at least one token and at most
\* batch_tokens, whatever the policy, the order of the requests and what is
\* left of their prompts: the sum, over all sequences, of what the runner
\* holds grows by a number in 1..BatchTokens.
THEOREM BatchesFit == Spec => BatchesFitTheBudget
<1>1. Init => Feeds
  <2> SUFFICES ASSUME Init PROVE Feeds
    OBVIOUS
  <2>1. KvInv
    BY InitKv
  <2>2. TablesHeld
    <3>1. \A s \in ActiveSeqs \cup CacheSeqs : kv[s] = <<>>
      BY DEF Init
    <3>2. QED
      BY <3>1, NoCells DEF TablesHeld
  <2>3. SomeoneActive
    BY DEF Init, SomeoneActive
  <2>4. QED
    BY <2>1, <2>2, <2>3 DEF Feeds
<1>2. IInv /\ Exclusive /\ Feeds /\ [Next]_vars => Feeds'
  <2> SUFFICES ASSUME IInv, Exclusive, Feeds, [Next]_vars PROVE Feeds'
    OBVIOUS
  <2>1. KvInv'
    BY NextKv DEF Feeds
  <2>2. TablesHeld'
    BY TablesStep DEF Feeds, NextTables
  <2>3. SomeoneActive'
    BY ActiveStep DEF Feeds
  <2>4. QED
    BY <2>1, <2>2, <2>3 DEF Feeds
<1>3. IInv /\ Exclusive /\ Feeds /\ [Next]_vars
        => (pc = "iterate" /\ pc' = "collect" => TokensIn(kv') - TokensIn(kv) \in 1..BatchTokens)
  <2> SUFFICES ASSUME IInv, Exclusive, Feeds, [Next]_vars, pc = "iterate", pc' = "collect"
               PROVE  TokensIn(kv') - TokensIn(kv) \in 1..BatchTokens
    OBVIOUS
  <2>1. Execute
    BY OnlyExecute
  <2>2. KvInv /\ TablesHeld /\ active # {}
    BY DEF Feeds, SomeoneActive
  <2>3. QED
    BY <2>1, <2>2, ExecuteFeeds
<1>4. Spec => [](IInv /\ Exclusive)
  BY InvariantHolds, CreditsHold, PTL
<1>5. Spec => []Feeds
  BY <1>1, <1>2, <1>4, PTL DEF Spec
<1>6. QED
  BY <1>3, <1>4, <1>5, PTL DEF Spec, BatchesFitTheBudget
=============================================================================
