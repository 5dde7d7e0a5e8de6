------------------------------- MODULE KvStore -------------------------------
(***************************************************************************)
(* What the GPU runtime promises: a store that remembers, for every        *)
(* sequence, the tokens appended to it since it was cleared.  A forward    *)
(* appends all of its tokens and answers from the whole of each sequence   *)
(* it touched, or appends nothing; once it has failed on the device, the   *)
(* store never answers again.                                              *)
(***************************************************************************)
EXTENDS Naturals, Sequences

CONSTANTS Keys, MaxLen

Idle == [s \in {} |-> <<>>]

VARIABLES kv,       \* the tokens of each sequence
          asked,    \* the tokens of the forward in progress, or Idle
          answer,   \* what the last forward read to answer, by sequence
          healthy

vars == <<kv, asked, answer, healthy>>

Init == /\ kv = [s \in Keys |-> <<>>] /\ asked = Idle
        /\ answer = [s \in {} |-> <<>>] /\ healthy = TRUE

Ask == /\ healthy /\ asked = Idle /\ asked' # Idle
       /\ \E s \in Keys : asked'[s] # <<>>
       /\ \A s \in Keys : Len(kv[s]) + Len(asked'[s]) <= MaxLen
       /\ answer' = Idle /\ UNCHANGED <<kv, healthy>>

Answer == /\ healthy /\ asked # Idle
          /\ kv' = [s \in Keys |-> kv[s] \o asked[s]]
          /\ answer' = [s \in {t \in Keys : asked[t] # <<>>} |-> kv'[s]]
          /\ asked' = Idle /\ UNCHANGED healthy

\* The device fails.
Fail == asked # Idle /\ healthy' = FALSE /\ UNCHANGED <<kv, asked, answer>>

\* The forward returns an error; its caller may have to give up the store.
Refuse == /\ asked' = Idle /\ answer' = Idle /\ healthy' \in {healthy, FALSE}
          /\ UNCHANGED kv

Clear == /\ healthy /\ asked = Idle
         /\ \E s \in Keys : kv' = [kv EXCEPT ![s] = <<>>]
         /\ UNCHANGED <<asked, answer, healthy>>

Next == Ask \/ Answer \/ Fail \/ Refuse \/ Clear

Spec == Init /\ [][Next]_vars
=============================================================================
