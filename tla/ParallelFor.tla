----------------------------- MODULE ParallelFor -----------------------------
(***************************************************************************)
(* What ParallelExecutor::run promises its caller: while the call runs,    *)
(* the body is called for ranges of indices that no other body of the call *)
(* was called for, and it returns from them or throws; the call returns    *)
(* when no body is at work any more, with success only if every index was  *)
(* done, and with an error if a body threw.                                *)
(***************************************************************************)
EXTENDS Naturals

VARIABLES running,   \* whether a call is in progress
          count,     \* its number of indices
          times,     \* how often the body was called for each of them
          open,      \* the indices that bodies are at work on
          done,      \* the indices done so far
          result     \* what the call returned, or "none"; "threw" in advance

vars == <<running, count, times, open, done, result>>

Indices == 0..(count - 1)

Init == /\ ~running /\ count = 0 /\ times = [i \in Indices |-> 0]
        /\ open = {} /\ done = {} /\ result = "none"

Call == /\ ~running /\ running'
        /\ count' \in Nat \ {0} /\ times' = [i \in Indices' |-> 0]
        /\ done' = {} /\ result' = "none" /\ UNCHANGED open

\* Nothing to do, or a grain of zero.
Trivial == /\ ~running /\ result' \in {"ok", "invalid"}
           /\ UNCHANGED <<running, count, times, open, done>>

\* A body is called for some indices, the first time for each.
Begin == /\ running
         /\ \E new \in SUBSET {i \in Indices : times[i] = 0} :
              /\ new # {}
              /\ times' = [i \in Indices |-> IF i \in new THEN 1 ELSE times[i]]
              /\ open' = open \cup new
         /\ UNCHANGED <<running, count, done, result>>

\* A body returns.
Do == /\ running
      /\ \E part \in SUBSET open :
           part # {} /\ open' = open \ part /\ done' = done \cup part
      /\ UNCHANGED <<running, count, times, result>>

\* A body throws, after some of its indices perhaps; the rest is left undone.
Throw == /\ running
         /\ \E part \in SUBSET open : \E some \in SUBSET part :
              some # part /\ open' = open \ part /\ done' = done \cup some
         /\ result' = "threw" /\ UNCHANGED <<running, count, times>>

Return == /\ running /\ ~running' /\ open = {}
          /\ result' = IF result = "threw" THEN "threw" ELSE "ok"
          /\ result' = "ok" => done = Indices
          /\ UNCHANGED <<count, times, open, done>>

Next == Call \/ Trivial \/ Begin \/ Do \/ Throw \/ Return

Spec == Init /\ [][Next]_vars
=============================================================================
