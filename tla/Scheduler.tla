------------------------------ MODULE Scheduler ------------------------------
(***************************************************************************)
(* schedule_batch() of src/src/scheduler.cpp: the slices of the next       *)
(* batch, given the requests that decode and the requests that still       *)
(* prefill, each already in the order stable_sort leaves them in.  A       *)
(* prefill slice says how many tokens of a prompt the batch feeds.         *)
(***************************************************************************)
EXTENDS Naturals, Sequences, FiniteSets, Functions

CONSTANTS BatchTokens,   \* EngineConfig::batch_tokens
          PrefillChunk,  \* EngineConfig::prefill_chunk
          Policy         \* EngineConfig::policy: "mixed" or "prefill_first"

ASSUME SchedulerAssumption ==
  /\ BatchTokens \in Nat \ {0}
  /\ PrefillChunk \in 1..BatchTokens
  /\ Policy \in {"mixed", "prefill_first"}

\* Effective priority depends on the clock, so stable_sort may leave a set
\* of requests in any order.
Orders(S) == Injection(1..Cardinality(S), S)

\* One token for each request that decodes, most urgent first, while the
\* budget lasts; none at all while prefill_first has a prompt to prefill.
DecodeCount(decode, prefill) ==
  IF Policy = "prefill_first" /\ prefill # <<>> THEN 0
  ELSE IF Len(decode) <= BatchTokens THEN Len(decode) ELSE BatchTokens

\* Greedy: each prompt in turn gets the least of what is left of the budget,
\* what is left of the prompt, and a chunk, until the prompts or the budget
\* are used up.  There is one such allotment.
Allotments(prefill, remaining, budget) ==
  {t \in UNION {[1..n -> 1..BatchTokens] : n \in 0..Len(prefill)} :
     LET left(i) == budget - SumFunctionOnSet(t, 1..(i - 1))
     IN /\ \A i \in DOMAIN t :
             LET least == {left(i), remaining[prefill[i]], PrefillChunk}
             IN t[i] \in least /\ \A x \in least : t[i] <= x
        /\ Len(t) < Len(prefill) => left(Len(t) + 1) = 0}

\* Slip: the prompts get the whole budget, not what the decodes leave.
PlansOverBudget(decode, prefill, remaining) ==
  {[decodes  |-> SubSeq(decode, 1, DecodeCount(decode, prefill)),
    prefills |-> [i \in 1..Len(t) |-> [key |-> prefill[i], tokens |-> t[i]]]] :
     t \in Allotments(prefill, remaining, BatchTokens)}

\* The batch plan for these orders (a set of one): the requests that decode
\* a token each, and the prefill slices.
Plans(decode, prefill, remaining) ==
  LET n == DecodeCount(decode, prefill)
  IN {[decodes  |-> SubSeq(decode, 1, n),
       prefills |-> [i \in 1..Len(t) |-> [key |-> prefill[i], tokens |-> t[i]]]] :
        t \in Allotments(prefill, remaining, BatchTokens - n)}
=============================================================================
