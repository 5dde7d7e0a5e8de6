----------------------------- MODULE CudaRuntime -----------------------------
(***************************************************************************)
(* CudaRuntime::forward and clear_sequence (src/src/minillm/cuda): one     *)
(* host thread checks a batch against the lengths (BatchState) and the     *)
(* pages (PageTable), starts the device, enqueues work on a stream that    *)
(* runs on its own, waits for it and publishes lengths and pages at once.  *)
(* MiniCudaRunner, which fails for good after any error, is a caller.      *)
(***************************************************************************)
EXTENDS PageTable, Sequences

CONSTANTS Tokens,
          BatchTokens,  \* a forward takes at most this many
          Junk          \* what a cell holds that was never written

ASSUME CudaAssumption == BatchTokens \in Nat \ {0} /\ Junk \notin Tokens

Inputs  == [slot : Slots, position : 0..MaxLen, token : Tokens]
Batches == UNION {[1..n -> Inputs] : n \in 0..BatchTokens}

VARIABLES
  lengths, phase,      \* BatchState: lengths_ and phase_
  pc, request, todo,   \* the host thread, its batch, what it has yet to enqueue
  throughRunner,       \* whether MiniCudaRunner owns the runtime
  reusable,            \* MiniCudaRunner::reusable_
  stream,              \* the work the device has yet to do
  deviceTable, inputs, \* what the device was given
  memory, context,     \* the pages, and what the forward read to answer, by slot
  status

hostVars == <<lengths, phase, pc, request, todo, throughRunner, reusable>>
deviceVars == <<stream, deviceTable, inputs, memory, status>>
vars == <<pageVars, hostVars, deviceVars, context>>

Nothing == [s \in {} |-> <<>>]

Init ==
  /\ InitPages
  /\ lengths = [s \in Slots |-> 0] /\ phase = "ready"
  /\ pc = "idle" /\ request = <<>> /\ todo = <<>>
  /\ throughRunner \in BOOLEAN /\ reusable = TRUE
  /\ stream = <<>> /\ deviceTable = EmptyTable /\ inputs = <<>>
  /\ memory = [p \in Pages |-> [o \in 0..(PageTokens - 1) |-> Junk]]
  /\ context = Nothing /\ status = "ok"

RuntimeReady == phase # "poisoned" /\ pagePhase # "poisoned"
Healthy == reusable /\ RuntimeReady

-----------------------------------------------------------------------------
\* BatchState

Of(batch, s) == {i \in DOMAIN batch : batch[i].slot = s}

\* pending_lengths(), which each prepare computes from lengths_.
Wanted == [s \in Slots |-> lengths[s] + Cardinality(Of(request, s))]

InOrder(batch, i) ==
  batch[i].position = lengths[batch[i].slot] + Cardinality({j \in Of(batch, batch[i].slot) : j < i})

Acceptable(batch) ==
  /\ Len(batch) \in 1..BatchTokens
  /\ \A i \in DOMAIN batch : batch[i].position < MaxLen /\ InOrder(batch, i)

-----------------------------------------------------------------------------
\* A call ends; the runner gives up after an error.
Return(how) ==
  /\ pc' = "idle" /\ request' = <<>> /\ todo' = <<>>
  /\ context' = IF how = "ok" THEN context ELSE Nothing
  /\ reusable' = (reusable /\ (throughRunner => how = "ok"))

\* A call that is refused at once, as there always is one to make: with an
\* empty batch or one that does not continue its sequences, of a runtime that
\* is not ready, or of a runner that is not healthy.
Reject ==
  /\ pc = "idle"
  /\ Return("threw")
  /\ UNCHANGED <<pageVars, deviceVars, lengths, phase, throughRunner>>

\* state.prepare()
Forward ==
  /\ pc = "idle" /\ (throughRunner => Healthy) /\ phase = "ready"
  /\ \E batch \in Batches : Acceptable(batch) /\ request' = batch
  /\ pc' = "prepare" /\ phase' = "prepared"
  /\ context' = Nothing
  /\ UNCHANGED <<pageVars, deviceVars, lengths, todo, throughRunner, reusable>>

Prepare ==
  /\ pc = "prepare"
  /\ PreparePages(lengths, Wanted)
  /\ pc' = "prepared"
  /\ UNCHANGED <<deviceVars, context, lengths, phase, request, todo, throughRunner, reusable>>

\* pages->prepare() throws, or an allocation after it: the handler takes the
\* plan back and the runtime goes on.
Abandon ==
  /\ \/ pc = "prepare" /\ PagesRefuse(lengths, Wanted) /\ UNCHANGED pageVars
     \/ pc = "prepared" /\ DiscardPages
  /\ phase' = IF pagePhase = "poisoned" THEN "poisoned" ELSE "ready"
  /\ Return("threw")
  /\ UNCHANGED <<deviceVars, lengths, throughRunner>>

DeviceWork == (IF UploadRequired THEN <<"table">> ELSE <<>>) \o <<"inputs", "kernels">>

Start ==
  /\ pc = "prepared" /\ BeginExecution
  /\ phase' = "executing" /\ pc' = "enqueue" /\ todo' = DeviceWork
  /\ UNCHANGED <<deviceVars, context, lengths, request, throughRunner, reusable>>

Enqueue ==
  /\ pc = "enqueue" /\ todo # <<>>
  /\ stream' = Append(stream, Head(todo)) /\ todo' = Tail(todo)
  /\ UNCHANGED <<pageVars, lengths, phase, pc, request, throughRunner, reusable,
                 deviceTable, inputs, memory, context, status>>

\* Slip: the host does not wait.
DrainedAlways == TRUE
Drained == stream = <<>>

Published == Wanted

\* synchronize() returned and the status is good: pages and lengths are
\* published, with nothing in between that could fail.
Commit ==
  /\ pc = "enqueue" /\ todo = <<>> /\ Drained /\ status = "ok"
  /\ CommitPages
  /\ lengths' = Published /\ phase' = "ready"
  /\ Return("ok")
  /\ UNCHANGED <<deviceVars, throughRunner>>

\* An enqueue, the wait or the status fails.
Fail ==
  /\ pc = "enqueue"
  /\ phase' = "poisoned" /\ PoisonPages
  /\ pc' = "finish"
  /\ UNCHANGED <<deviceVars, context, lengths, request, todo, throughRunner, reusable>>

\* finish_noexcept() waits for the device, or for the error that ends it.
Finish ==
  /\ pc = "finish" /\ stream' = <<>>
  /\ Return("threw")
  /\ UNCHANGED <<pageVars, lengths, phase, throughRunner,
                 deviceTable, inputs, memory, status>>

\* Of a runtime that is not ready, refused; of an unhealthy runner, ignored.
ClearSequence ==
  /\ pc = "idle" /\ (throughRunner => Healthy) /\ phase = "ready"
  /\ \E s \in Slots : /\ ClearPages(s)
                      /\ lengths' = [lengths EXCEPT ![s] = 0]
  /\ UNCHANGED <<deviceVars, context, phase, pc, request, todo, throughRunner, reusable>>

-----------------------------------------------------------------------------
\* The device

Copied == CASE Head(stream) = "table"  -> deviceTable' = pending /\ UNCHANGED inputs
            [] Head(stream) = "inputs" -> inputs' = request /\ UNCHANGED deviceTable

\* The device reads the host's buffers when it comes to the copy.
DeviceCopy ==
  /\ stream # <<>> /\ Head(stream) # "kernels"
  /\ Copied
  /\ stream' = Tail(stream)
  /\ UNCHANGED <<pageVars, hostVars, memory, context, status>>

Page(s, position)   == deviceTable[s][position \div PageTokens]
Offset(position)    == position % PageTokens
Writers(page, cell) == {i \in DOMAIN inputs : /\ Page(inputs[i].slot, inputs[i].position) = page
                                              /\ Offset(inputs[i].position) = cell}

\* store_kv and causal_attention: every input's cell is written, then every
\* input reads its sequence up to its own position; the answers go where the
\* inputs were.
DeviceKernels ==
  /\ stream # <<>> /\ Head(stream) = "kernels"
  /\ stream' = Tail(stream) /\ inputs' = <<>>
  /\ memory' = [p \in Pages |-> [o \in 0..(PageTokens - 1) |->
       IF Writers(p, o) = {} THEN memory[p][o] ELSE inputs[CHOOSE i \in Writers(p, o) : TRUE].token]]
  /\ LET last(s)  == CHOOSE i \in Of(inputs, s) : \A j \in Of(inputs, s) : j <= i
         reads(s) == 0..inputs[last(s)].position
         asked    == {s \in Slots : Of(inputs, s) # {}}
     IN IF \E s \in asked : \E q \in reads(s) : Page(s, q) = NoPage
        THEN status' = "bad" /\ UNCHANGED context
        ELSE /\ status' = "ok"
             /\ context' = [s \in asked |-> [n \in 1..Cardinality(reads(s)) |->
                              memory'[Page(s, n - 1)][Offset(n - 1)]]]
  /\ UNCHANGED <<pageVars, hostVars, deviceTable>>

-----------------------------------------------------------------------------
Next ==
  \/ Reject \/ Forward \/ Prepare \/ Abandon \/ Start \/ Enqueue \/ Commit \/ Fail \/ Finish
  \/ ClearSequence \/ DeviceCopy \/ DeviceKernels

Spec == Init /\ [][Next]_vars

-----------------------------------------------------------------------------
TypeOK ==
  /\ TypeOKPages
  /\ lengths \in [Slots -> 0..MaxLen]
  /\ phase \in {"ready", "prepared", "executing", "poisoned"}
  /\ pc \in {"idle", "prepare", "prepared", "enqueue", "finish"}
  /\ request \in Batches /\ inputs \in Batches
  /\ todo \in Seq({"table", "inputs", "kernels"}) /\ stream \in Seq({"table", "inputs", "kernels"})
  /\ {throughRunner, reusable} \subseteq BOOLEAN
  /\ deviceTable \in Tables
  /\ memory \in [Pages -> [0..(PageTokens - 1) -> Tokens \cup {Junk}]]
  /\ status \in {"ok", "bad"}

\* Pages and lengths, which two classes keep, tell one story.  Every page is
\* free or in the committed table, in one place of it, and the plan of a
\* forward uses no page that a sequence still has.  Whenever a call can begin
\* or plan, each sequence has exactly the pages its length needs: prepare()
\* never meets a table that does not match the lengths.
PagesAreExact ==
  LET places == {k \in Slots \X Blocks : active[k[1]][k[2]] \in Pages}
      mapped == {active[k[1]][k[2]] : k \in places}
  IN /\ Cardinality(mapped) = Cardinality(places)
     /\ mapped \cap (free \cup journal) = {}
     /\ pagePhase # "poisoned" => free \cup journal \cup mapped = Pages
     /\ phase # "poisoned" => Matches(lengths)
     /\ pc = "idle" => phase = pagePhase

InputAt(s, position) ==
  request[CHOOSE i \in Of(request, s) : request[i].position = position]

\* The runtime is a store: what attention read is what was appended.
Store == INSTANCE KvStore WITH
  Keys    <- Slots,
  kv      <- [s \in Slots |-> [n \in 1..lengths[s] |->
                LET page == active[s][(n - 1) \div PageTokens]
                IN IF page \in Pages THEN memory[page][Offset(n - 1)] ELSE Junk]],
  answer  <- IF pc = "idle" THEN context ELSE Nothing,
  asked   <- IF pc = "idle" THEN Nothing
             ELSE [s \in Slots |-> [n \in 1..Cardinality(Of(request, s)) |->
                                       InputAt(s, lengths[s] + n - 1).token]],
  healthy <- (throughRunner => Healthy) /\ RuntimeReady
IsKvStore == Store!Spec
=============================================================================
