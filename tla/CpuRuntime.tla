------------------------------ MODULE CpuRuntime -----------------------------
(***************************************************************************)
(* Runtime::forward, share_prefix and clear_sequence of                    *)
(* src/src/minillm/runtime.cpp over PagedKV.  A forward checks its batch,  *)
(* reserves pages for all of it, appends the positions one by one, and     *)
(* then the threads of the ParallelExecutor store the positions in any     *)
(* order; attention reads when all have stored.  An error on the way, or   *)
(* in MiniRunner afterwards (logits that are not finite), takes nothing    *)
(* back.                                                                   *)
(***************************************************************************)
EXTENDS PagedKV, Functions

CONSTANTS Tokens,
          BatchTokens,  \* RuntimeConfig::batch_tokens
          Context       \* trained_context: no sequence is longer

ASSUME RuntimeAssumption == {BatchTokens, Context} \subseteq Nat \ {0} /\ Junk \notin Tokens

Inputs == [slot : Slots, position : 0..Context, token : Tokens]

VARIABLES pc, request,
          base,      \* the lengths when the forward began, while it runs (history)
          todo,      \* how many inputs are appended, or which are not yet stored
          context    \* what the last forward read to answer, by sequence

hostVars == <<pc, request, base, todo, context>>
vars == <<kvVars, hostVars>>

Nothing == [s \in {} |-> <<>>]

Init == /\ InitKV /\ pc = "idle" /\ request = <<>> /\ base = [s \in Slots |-> 0]
        /\ todo = {} /\ context = Nothing

Of(batch, s) == {i \in DOMAIN batch : batch[i].slot = s}

\* The batches that forward() accepts: each input continues its sequence, at
\* the position after those that come before it.
Wishes == UNION {[1..n -> [slot : Slots, token : Tokens]] : n \in 1..BatchTokens}
Placed(wish) ==
  [i \in DOMAIN wish |->
     [slot |-> wish[i].slot, token |-> wish[i].token,
      position |-> length[wish[i].slot] + Cardinality({j \in Of(wish, wish[i].slot) : j < i})]]
Acceptable(batch) == \A i \in DOMAIN batch : batch[i].position < Context

\* Slip: the copy of a shared last page is not counted.
NeededForSlotUncopied(s, more) == PagesFor(length[s] + more) - PagesFor(length[s])

NeededForSlot(s, more) ==
  IF more = 0 THEN 0
  ELSE PagesFor(length[s] + more) - PagesFor(length[s]) + (IF Copies(s) THEN 1 ELSE 0)

\* Their sum, as the number of pages to come.
PagesNeeded(more) == Cardinality(UNION {{s} \X (1..NeededForSlot(s, more[s])) : s \in Slots})

Gains(batch) == [s \in Slots |-> Cardinality(Of(batch, s))]

-----------------------------------------------------------------------------
Return(read) ==
  /\ pc' = "idle" /\ request' = <<>> /\ todo' = {} /\ context' = read
  /\ base' = [s \in Slots |-> 0]

\* A batch that does not continue its sequences, or that needs too many pages;
\* there always is one to try.
Reject == pc = "idle" /\ Return(Nothing) /\ UNCHANGED kvVars

\* The start of forward(), to the appends.
Forward ==
  /\ pc = "idle"
  /\ \E wish \in Wishes :
       LET batch == Placed(wish)
       IN /\ Acceptable(batch)
          /\ PagesNeeded(Gains(batch)) <= Cardinality(free)
          /\ request' = batch /\ todo' = DOMAIN batch
  /\ base' = length
  /\ pc' = "append" /\ context' = Nothing
  /\ UNCHANGED kvVars

AppendNext ==
  /\ pc = "append" /\ todo # {}
  /\ LET i == CHOOSE j \in todo : \A k \in todo : j <= k
     IN AppendPosition(request[i].slot) /\ todo' = todo \ {i}
  /\ UNCHANGED <<pc, request, base, context>>

\* The layers are computed on all of the batch.
Compute ==
  /\ pc = "append" /\ todo = {}
  /\ pc' = "store" /\ todo' = DOMAIN request
  /\ UNCHANGED <<kvVars, request, base, context>>

Exclusive(i) == refs[PageAt(request[i].slot, request[i].position)] = 1

\* Some thread stores a position; store() throws unless the page is exclusive.
Store ==
  /\ pc = "store"
  /\ \E i \in todo :
       /\ Exclusive(i)
       /\ StorePosition(request[i].slot, request[i].position, request[i].token)
       /\ todo' = todo \ {i}
  /\ UNCHANGED <<pc, request, base, context>>

\* Slip: attention begins while other threads still store.
AllStoredAlways == TRUE
AllStored == todo = {}

\* What the tables give for the first n positions of a sequence.
Held(s, n) == [k \in 1..n |-> data[PageAt(s, k - 1)][(k - 1) % PageTokens]]

Attend ==
  /\ pc = "store" /\ AllStored
  /\ Return([s \in {t \in Slots : Of(request, t) # {}} |-> Held(s, length[s])])
  /\ UNCHANGED kvVars

\* An allocation, a store or the check of the logits throws.
Fail == pc # "idle" /\ Return(Nothing) /\ UNCHANGED kvVars

Share ==
  /\ pc = "idle"
  /\ \E source, target \in Slots : \E n \in 0..length[source] : SharePrefix(source, target, n)
  /\ UNCHANGED hostVars

ClearSequence == pc = "idle" /\ (\E s \in Slots : Clear(s)) /\ UNCHANGED hostVars

Next == \/ Reject \/ Forward \/ AppendNext \/ Compute \/ Store \/ Attend \/ Fail
        \/ Share \/ ClearSequence

Spec == Init /\ [][Next]_vars

-----------------------------------------------------------------------------
TypeOK ==
  /\ table \in [Slots -> Seq(Pages)] /\ length \in [Slots -> 0..Context]
  /\ refs \in [Pages -> 0..Cardinality(Slots)] /\ free \subseteq Pages
  /\ data \in [Pages -> [0..(PageTokens - 1) -> Tokens \cup {Junk}]]
  /\ pc \in {"idle", "append", "store"} /\ request \in Seq(Inputs)
  /\ base \in [Slots -> 0..Context] /\ todo \subseteq DOMAIN request

\* What forward() checked before it changed anything is enough: no append
\* runs out of pages half way, and no store meets a page that is shared.
ForwardIsCovered ==
  /\ pc = "append" /\ todo # {} =>
       LET i == CHOOSE j \in todo : \A k \in todo : j <= k
       IN NeedsPage(request[i].slot) => free # {}
  /\ pc = "store" => \A i \in todo : Exclusive(i)

InputAt(s, position) ==
  request[CHOOSE i \in Of(request, s) : request[i].position = position]

\* The runtime is a store of sequences that do not disturb each other.
SharedStore == INSTANCE SharedKvStore WITH
  Keys   <- Slots,
  kv     <- [s \in Slots |-> Held(s, IF pc = "idle" THEN length[s] ELSE base[s])],
  answer <- context,
  asked  <- IF pc = "idle" THEN Nothing
            ELSE [s \in Slots |-> [n \in 1..Cardinality(Of(request, s)) |-> InputAt(s, base[s] + n - 1).token]]
IsSharedStore == SharedStore!Spec
=============================================================================
