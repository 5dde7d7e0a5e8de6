---------------------------- MODULE SharedKvStore ----------------------------
(***************************************************************************)
(* What the CPU runtime promises: a store that remembers, for every        *)
(* sequence, the tokens appended to it since it was cleared, and that can  *)
(* start a sequence from a prefix of another one without ever letting the  *)
(* two disturb each other.  A forward answers from the whole of each       *)
(* sequence it extends.  One that fails may leave sequences that it was to *)
(* extend longer, with contents nobody should read, and touches no other.  *)
(***************************************************************************)
EXTENDS Naturals, Sequences

CONSTANTS Keys

VARIABLES kv,       \* the tokens of each sequence
          asked,    \* the tokens of the forward in progress, or Idle
          answer    \* what the last forward read to answer, by sequence

vars == <<kv, asked, answer>>

Idle == [s \in {} |-> <<>>]

Init == kv = [s \in Keys |-> <<>>] /\ asked = Idle /\ answer = Idle

Ask == /\ asked = Idle /\ asked' # Idle
       /\ \E s \in Keys : asked'[s] # <<>>
       /\ answer' = Idle /\ UNCHANGED kv

Answer == /\ asked # Idle
          /\ kv' = [s \in Keys |-> kv[s] \o asked[s]]
          /\ answer' = [s \in {t \in Keys : asked[t] # <<>>} |-> kv'[s]]
          /\ asked' = Idle

Refuse == asked = Idle /\ answer' = Idle /\ UNCHANGED <<kv, asked>>

Fail == /\ asked # Idle /\ asked' = Idle /\ answer' = Idle
        /\ \A s \in Keys :
             /\ Len(kv'[s]) \in Len(kv[s])..(Len(kv[s]) + Len(asked[s]))
             /\ SubSeq(kv'[s], 1, Len(kv[s])) = kv[s]

Share == /\ asked = Idle
         /\ \E s, t \in Keys : \E n \in 0..Len(kv[s]) :
              s # t /\ kv' = [kv EXCEPT ![t] = SubSeq(kv[s], 1, n)]
         /\ UNCHANGED <<asked, answer>>

Clear == /\ asked = Idle
         /\ \E s \in Keys : kv' = [kv EXCEPT ![s] = <<>>]
         /\ UNCHANGED <<asked, answer>>

Next == Ask \/ Answer \/ Refuse \/ Fail \/ Share \/ Clear

Spec == Init /\ [][Next]_vars
=============================================================================
