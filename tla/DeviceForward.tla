---------------------------- MODULE DeviceForward ----------------------------
(***************************************************************************)
(* The forwards of a CudaRuntime that has started (runtime.cpp, layer.cpp, *)
(* matrix.cpp, ops.cu, attention.cu of src/src/minillm/cuda).  A forward   *)
(* is a program of kernels and copies that share a few scratch regions of  *)
(* one workspace, enqueued without waiting and executed in order.  Numbers *)
(* are left out: a region holds the name of the value that it was computed *)
(* to be, or junk if what was computed is none of the model's values; and  *)
(* whether it was rounded to F16.  All layers have the same weights here.  *)
(* Which pages the kernels find the cache in is in CudaRuntime.            *)
(***************************************************************************)
EXTENDS CudaStartup

CONSTANTS Layers,      \* of the model
          Modes,       \* what forwards are asked for: {}, "tokens", or "tokens" and "logits"
          ForwardsMax, \* bound: forwards of one runtime
          QueuedMax    \* bound: operations in flight

ASSUME ForwardAssumption ==
  /\ Modes \subseteq {{}, {"tokens"}, {"tokens", "logits"}}
  /\ Layers \in Nat \ {0} /\ ForwardsMax \in Nat /\ QueuedMax \in Nat \ {0}

VARIABLES runs, asked, step, \* forwards begun; what this one is asked for, and its next operation
          values, cache,     \* what the regions hold, and of each layer the rows stored
          bad,               \* the regions that hold a number that is not finite
          status,            \* the status region: error bits and the first bad row
          received           \* host memory that the device writes

forwardVars == <<runs, asked, step, values, cache, bad, status, received>>
vars == <<startupVars, forwardVars>>

Val(name, layer, run) == [name |-> name, layer |-> layer, run |-> run, half |-> FALSE]
Junk == Val("junk", 0, 0)

Clean    == [bits |-> 0, row |-> IntMax]
Zero     == [bits |-> 0, row |-> 0]
Recorded == [bits |-> 1, row |-> 0]

Init ==
  /\ StartupInit
  /\ runs = 0 /\ asked = {} /\ step = 1
  /\ values = << >> /\ cache = [l \in 1..Layers |-> <<>>] /\ bad = {}
  /\ status = Zero
  /\ received = [status |-> Zero, tokens |-> Junk, logits |-> Junk]

-----------------------------------------------------------------------------
(***************************************************************************)
(* What a forward enqueues.  An operation has a weight, the regions that it*)
(* reads and the one that it writes; "host" is the host memory of a copy.  *)
(***************************************************************************)
Op(kernel, weight, reads, writes) ==
  [kernel |-> kernel, weight |-> weight, reads |-> reads, writes |-> writes, layer |-> 0, host |-> "none"]

Upload(name)         == [Op("upload", "none", <<>>, name) EXCEPT !.host = "host"]
Download(name, host) == [Op("download", "none", <<name>>, name) EXCEPT !.host = host]

Half == m.precision = "f16"

\* prepare_matrix_input(): with F16 weights, the input is rounded into the one
\* region that all products share.
Prepare(input) == IF Half THEN <<Op("cast", "none", <<input>>, "matrix_input")>> ELSE <<>>
Prepared(input) == IF Half THEN "matrix_input" ELSE input

Multiply(input, weight, output) == Op("multiply", weight, <<Prepared(input)>>, output)

\* Products of one input, which is prepared once.
Group(input, products) ==
  Prepare(input) \o [k \in DOMAIN products |-> Multiply(input, products[k][1], products[k][2])]

\* LayerExecutor::enqueue()
AttentionWork ==
  <<Op("norm", "attn_norm", <<"hidden">>, "normalized")>>
  \o Group("normalized", <<<<"attn_q", "query">>, <<"attn_k", "key">>, <<"attn_v", "value">>>>)
  \o <<Op("norm", "attn_q_norm", <<"query">>, "query"), Op("norm", "attn_k_norm", <<"key">>, "key"),
       Op("rope", "none", <<"query", "positions">>, "query"), Op("rope", "none", <<"key", "positions">>, "key"),
       Op("store", "none", <<"key", "value", "slots", "positions">>, "kv"),
       Op("qk", "none", <<"kv", "query", "slots", "positions">>, "scores"),
       Op("softmax", "none", <<"scores", "slots", "positions">>, "probabilities"),
       Op("pv", "none", <<"kv", "probabilities", "slots", "positions">>, "attention")>>
  \o Group("attention", <<<<"attn_output", "projected">>>>)
  \o <<Op("add", "none", <<"hidden", "projected">>, "hidden"),
       Op("norm", "ffn_norm", <<"hidden">>, "normalized")>>

Opened == Group("normalized", <<<<"ffn_gate", "gate">>, <<"ffn_up", "up">>>>)
Activated == <<Op("swiglu", "none", <<"gate", "up">>, "gate")>>
Closing == <<Op("add", "none", <<"hidden", "down">>, "hidden"), Op("finite", "none", <<"hidden">>, "status")>>

\* Slip: the gate is prepared before it is activated.
FeedForwardEarly ==
  Opened \o Prepare("gate") \o Activated \o <<Multiply("gate", "ffn_down", "down")>> \o Closing

FeedForwardWork == Opened \o Activated \o Group("gate", <<<<"ffn_down", "down">>>>) \o Closing

LayerWork == AttentionWork \o FeedForwardWork

At(layer, work) == [k \in DOMAIN work |-> [work[k] EXCEPT !.layer = layer]]

\* reset_status()
Reset == <<Op("reset", "none", <<>>, "status")>>

Inputs == {"tokens", "positions", "slots", "selected_rows"}

Beginning ==
  (IF "table" \in asked THEN <<Upload("kv_block_table")>> ELSE <<>>) \o Reset
  \o <<Upload("tokens"), Upload("positions"), Upload("slots")>>
  \o (IF "tokens" \in asked THEN <<Upload("selected_rows")>> ELSE <<>>)
  \o <<Op("gather", "token_embd", <<"tokens">>, "hidden")>>

\* One layer after the other.
EveryLayer ==
  LET work == LayerWork
      n    == Len(work)
  IN [k \in 1..(Layers * n) |-> [work[((k - 1) % n) + 1] EXCEPT !.layer = ((k - 1) \div n) + 1]]

Selection ==
  IF "tokens" \notin asked THEN <<>>
  ELSE <<Op("norm", "output_norm", <<"hidden">>, "normalized"),
         Op("gather", "none", <<"normalized", "selected_rows">>, "selected_hidden")>>
       \o Group("selected_hidden", <<<<"output", "logits">>>>)
       \o <<Op("argmax", "none", <<"logits">>, "tokens"), Download("tokens", "host")>>
       \o (IF "logits" \in asked THEN <<Download("logits", "result")>> ELSE <<>>)

Work == Beginning \o EveryLayer \o At(Layers + 1, Selection) \o <<Download("status", "host")>>

-----------------------------------------------------------------------------
(***************************************************************************)
(* What each kernel requires of its operands before it is launched.        *)
(***************************************************************************)
WeightNamed(name) ==
  LET items == arenas.weights.items
  IN items[CHOOSE k \in DOMAIN items : items[k].name = name]

ColumnsOf(name) == RegionNamed(name).columns

\* Whose columns the first operand has: a rounded input those of what it is of.
SourceOf(work, k) ==
  IF work[k].reads[1] = "matrix_input"
  THEN work[Max({j \in 1..k : work[j].kernel = "cast"})].reads[1]
  ELSE work[k].reads[1]

ShapesFit(work, k) ==
  LET op == work[k] IN
  CASE op.kernel = "cast"     -> ColumnsOf(op.reads[1]) <= ColumnsOf("matrix_input")
    [] op.kernel = "multiply" -> /\ ColumnsOf(SourceOf(work, k)) = WeightNamed(op.weight).columns
                                 /\ ColumnsOf(op.writes) = WeightNamed(op.weight).rows
                                 /\ WeightNamed(op.weight).width = (IF Half THEN 2 ELSE 4)
    [] op.kernel = "norm"     -> /\ WeightNamed(op.weight).rows = 1
                                 /\ ColumnsOf(op.reads[1]) % WeightNamed(op.weight).columns = 0
                                 /\ ColumnsOf(op.reads[1]) = ColumnsOf(op.writes)
    [] op.kernel = "gather"   -> ColumnsOf(op.writes) =
                                   (IF op.weight = "none" THEN ColumnsOf(op.reads[1])
                                    ELSE WeightNamed(op.weight).columns)
    [] op.kernel = "rope"     -> /\ ColumnsOf("rope_coefficients") % 2 = 0
                                 /\ ColumnsOf(op.reads[1]) % ColumnsOf("rope_coefficients") = 0
    [] op.kernel = "store"    -> ColumnsOf("key") = KeyValue /\ ColumnsOf("value") = KeyValue
    [] op.kernel \in {"qk", "softmax", "pv"} ->
         /\ dims.heads % dims.kv_heads = 0
         /\ ColumnsOf("query") = Query /\ ColumnsOf("attention") = Query
         /\ ColumnsOf("scores") = dims.heads * c.max_model_len
         /\ ColumnsOf("probabilities") = ColumnsOf("scores")
    [] op.kernel \in {"add", "swiglu"} -> ColumnsOf(op.reads[1]) = ColumnsOf(op.reads[2])
    [] op.kernel = "argmax"   -> ColumnsOf("tokens") = 1
    [] OTHER -> TRUE

\* Kernels that write their first operand in place.
InPlace(op) == op.kernel \in {"norm", "rope", "add", "swiglu"} /\ op.reads[1] = op.writes

\* Regions that a kernel reads or writes besides.
Besides(op) ==
  (IF op.kernel = "rope" THEN {"rope_coefficients"} ELSE {})
  \cup (IF op.kernel \in {"store", "qk", "pv"} /\ m.layout = "paged" THEN {"kv_block_table"} ELSE {})
  \cup (IF op.kernel \in {"cast", "gather", "rope", "store", "qk", "softmax", "pv", "argmax"}
        THEN {"status"} ELSE {})

\* overlaps(); the cache is a buffer of its own.
Overlap(x, y) ==
  IF "kv" \in {x, y} THEN x = y
  ELSE LET a == RegionNamed(x)
           b == RegionNamed(y)
       IN a.offset < b.offset + b.bytes /\ b.offset < a.offset + a.bytes

Apart(op) ==
  \A x \in (Range(op.reads) \ (IF InPlace(op) THEN {op.writes} ELSE {})) \cup Besides(op) :
    ~Overlap(x, op.writes)

Accepts(work, k) ==
  ShapesFit(work, k) /\ (work[k].kernel \notin {"upload", "download", "reset"} => Apart(work[k]))

-----------------------------------------------------------------------------
(***************************************************************************)
(* The model's formulas, as the CPU's Runtime computes them: which value a *)
(* kernel makes of which others.                                           *)
(***************************************************************************)
Formula(value, kernel, weight, of) == [value |-> value, kernel |-> kernel, weight |-> weight, of |-> of]

Embedding == {Formula("hidden", "gather", "token_embd", <<"tokens">>),
         Formula("chosen", "gather", "none", <<"last", "selected_rows">>)}

Norm == {Formula("input", "norm", "attn_norm", <<"hidden">>),
         Formula("even_q", "norm", "attn_q_norm", <<"q">>), Formula("even_k", "norm", "attn_k_norm", <<"k">>),
         Formula("ffn_input", "norm", "ffn_norm", <<"attended">>),
         Formula("last", "norm", "output_norm", <<"hidden">>)}

Product == {
  Formula("q", "multiply", "attn_q", <<"input">>), Formula("k", "multiply", "attn_k", <<"input">>),
  Formula("v", "multiply", "attn_v", <<"input">>), Formula("heeded", "multiply", "attn_output", <<"mixed">>),
  Formula("opened", "multiply", "ffn_gate", <<"ffn_input">>),
  Formula("raised", "multiply", "ffn_up", <<"ffn_input">>),
  Formula("lowered", "multiply", "ffn_down", <<"passed">>),
  Formula("answers", "multiply", "output", <<"chosen">>)}

Rotation == {Formula("turned_q", "rope", "none", <<"even_q", "positions">>),
             Formula("turned_k", "rope", "none", <<"even_k", "positions">>)}

Attention == {Formula("likeness", "qk", "none", <<"rows", "turned_q", "slots", "positions">>),
              Formula("shares", "softmax", "none", <<"likeness", "slots", "positions">>),
              Formula("mixed", "pv", "none", <<"rows", "shares", "slots", "positions">>)}

Elementwise == {Formula("attended", "add", "none", <<"hidden", "heeded">>),
              Formula("passed", "swiglu", "none", <<"opened", "raised">>),
              Formula("hidden", "add", "none", <<"attended", "lowered">>)}

Choice == {Formula("best", "argmax", "none", <<"answers">>)}

Formulas == Embedding \cup Norm \cup Product \cup Rotation \cup Attention \cup Elementwise \cup Choice

\* A layer starts from the hidden values that the one before it has left.
LayerOf(name, layer) ==
  CASE name \in Inputs   -> 0
    [] name = "hidden"   -> layer - 1
    [] OTHER             -> layer

\* What the cache holds of a layer after so many forwards.
RowsAfter(layer, n) ==
  [i \in 1..n |-> <<Val("turned_k", layer, i), Val("v", layer, i), Val("slots", 0, i), Val("positions", 0, i)>>]

Operand(name, layer) ==
  IF name # "kv" THEN values[name]
  ELSE IF cache[layer] = RowsAfter(layer, runs) THEN Val("rows", layer, runs) ELSE Junk

Operands(op) == [k \in DOMAIN op.reads |-> Operand(op.reads[k], op.layer)]

Result(op) ==
  LET operands == Operands(op)
      half == Half /\ op.kernel = "multiply"
      wanted(name) == [Val(name, LayerOf(name, op.layer), runs) EXCEPT !.half = half]
      fits(f) == /\ f.kernel = op.kernel /\ f.weight = op.weight
                 /\ operands = [k \in DOMAIN f.of |-> wanted(f.of[k])]
      found == {f \in Formulas : fits(f)}
  IN IF found = {} THEN Junk ELSE Val((CHOOSE f \in found : TRUE).value, op.layer, runs)

-----------------------------------------------------------------------------
\* The host: one forward at a time.  The table is uploaded when it has changed.
BeginForward ==
  /\ pc = "ready" /\ runs < ForwardsMax
  /\ pc' = "forward" /\ stack' = Append(stack, "result")
  /\ runs' = runs + 1 /\ step' = 1
  /\ \E a \in Modes : asked' \in (IF m.layout = "paged" THEN {a, a \cup {"table"}} ELSE {a})
  /\ values' = IF runs = 0 THEN [k \in {WorkspaceShapes[j].name : j \in DOMAIN WorkspaceShapes} |-> Junk]
               ELSE values
  /\ UNCHANGED <<startVars, held, stream, lost, memory, loadVars, planVars, cache, bad, status, received>>

\* The bytes that an operation of a forward writes, or reads for the host.
Placed(op) ==
  IF op.writes = "kv" THEN Operation("kv", 0, 0, "kernel", "none")
  ELSE LET r == RegionNamed(op.writes) IN Operation("workspace", r.offset, r.bytes, "kernel", op.host)

Enqueue ==
  /\ pc = "forward" /\ ~lost /\ Len(stream) < QueuedMax
  /\ LET work == Work IN
       /\ step <= Len(work) /\ Accepts(work, step)
       /\ stream' = Append(stream, [Placed(work[step]) EXCEPT !.does = work[step]])
  /\ step' = step + 1
  /\ UNCHANGED <<startVars, hostVars, lost, memory, loadVars, planVars,
                 runs, asked, values, cache, bad, status, received>>

\* Kernels whose result may overflow, though what they read is finite.
Overflowing == {"multiply", "cast", "store", "qk", "swiglu", "add"}

\* Slip: what a layer adds to the hidden values goes unseen.
WatchingAttention == {"cast", "store", "qk", "softmax", "pv", "argmax"}

\* Kernels that record a number that is not finite.
Watching == {"cast", "store", "qk", "softmax", "pv", "finite", "argmax"}

\* What is not finite stays so, through every kernel.
Spreads(op, overflows) == overflows \/ \E k \in DOMAIN op.reads : op.reads[k] \in bad

Compute(op) ==
  \E overflows \in (IF op.kernel \in Overflowing /\ bad = {} THEN BOOLEAN ELSE {FALSE}) :
    /\ values' = CASE op.writes \in {"kv", "status"} -> values
                   [] op.kernel = "cast" -> [values EXCEPT ![op.writes] = [values[op.reads[1]] EXCEPT !.half = TRUE]]
                   [] OTHER -> [values EXCEPT ![op.writes] = Result(op)]
    /\ cache' = IF op.kernel = "store" THEN [cache EXCEPT ![op.layer] = Append(@, Operands(op))] ELSE cache
    /\ bad' = IF Spreads(op, overflows) THEN bad \cup ({op.writes} \ {"status"})
              ELSE bad \ ({op.writes} \ {"kv"})
    /\ status' = IF op.kernel \in Watching /\ Spreads(op, overflows) THEN Recorded ELSE status
    /\ UNCHANGED received

\* The device does the next operation of a forward.
Execute ==
  /\ stream # <<>> /\ Head(stream).fill = "kernel"
  /\ stream' = Tail(stream)
  /\ LET op == Head(stream).does IN
     CASE op.kernel = "upload" ->
            values' = [values EXCEPT ![op.writes] = Val(op.writes, 0, runs)]
            /\ UNCHANGED <<cache, bad, status, received>>
       [] op.kernel = "reset" -> status' = Clean /\ UNCHANGED <<values, cache, bad, received>>
       [] op.kernel = "download" ->
            received' = [received EXCEPT ![op.writes] = IF op.writes = "status" THEN status ELSE values[op.writes]]
            /\ UNCHANGED <<values, cache, bad, status>>
       [] OTHER -> Compute(op)
  /\ UNCHANGED <<startVars, hostVars, lost, memory, loadVars, planVars, runs, asked, step>>

Settled == stream = <<>>

\* All is enqueued, the device has come to the end, and its status is good.
Commit ==
  /\ pc = "forward" /\ step > Len(Work) /\ ~lost /\ Settled /\ received.status = Clean
  /\ pc' = "ready" /\ stack' = Front(stack)
  /\ UNCHANGED <<startVars, held, stream, lost, memory, loadVars, planVars, forwardVars>>

\* There is no other forward, and what the regions hold is of no account.
Forget ==
  /\ values' = << >> /\ cache' = [l \in 1..Layers |-> <<>>] /\ bad' = {} /\ status' = Zero
  /\ received' = [status |-> Zero, tokens |-> Junk, logits |-> Junk]
  /\ runs' = ForwardsMax /\ asked' = {} /\ step' = 1

\* A call fails, an operand is refused or the status is bad: the handler waits
\* for the device.
Fail ==
  /\ pc = "forward" /\ Settled
  /\ pc' = "poisoned" /\ stack' = Front(stack)
  /\ Forget
  /\ UNCHANGED <<startVars, held, stream, lost, memory, loadVars, planVars>>

Gone == pc = "gone" /\ UNCHANGED vars

Startup == HostStep \/ ExecuteCopy \/ Lose
Next == \/ Startup /\ UNCHANGED forwardVars
        \/ Destroy /\ Forget
        \/ BeginForward \/ Enqueue \/ Execute \/ Commit \/ Fail \/ Gone

Spec == Init /\ [][Next]_vars

\* The host goes on while it can, and the device does what it was given.
FairSpec == /\ Spec
            /\ WF_vars(HostStep /\ UNCHANGED forwardVars) /\ WF_vars(ExecuteCopy /\ UNCHANGED forwardVars)
            /\ WF_vars(Fail) /\ WF_vars(Execute)

-----------------------------------------------------------------------------
\* When a forward has returned, every layer's cache has the rows of every
\* batch, and what the host was given are this batch's tokens and logits:
\* the value that the formulas name, whatever scratch was reused on the way.
ForwardIsExact ==
  pc = "ready" /\ runs > 0 =>
    /\ \A l \in 1..Layers : cache[l] = RowsAfter(l, runs)
    /\ "tokens" \in asked => received.tokens = Val("best", Layers + 1, runs)
    /\ "logits" \in asked => received.logits = Val("answers", Layers + 1, runs)

\* When the device has come to the end of a forward, its status is clean
\* exactly when every number that counts is finite: an overflow in any kernel
\* of any layer is noticed, and a sound batch is not condemned.
StatusIsExact ==
  pc = "forward" /\ step > Len(Work) /\ stream = <<>> /\ ~lost =>
    (received.status = Clean <=> bad = {})

\* No kernel refuses its operands: the plan's regions have the shapes that
\* the weights ask for, and no output overlaps what is still read.
OperandsAreAccepted ==
  pc = "forward" => LET work == Work IN step <= Len(work) => Accepts(work, step)
=============================================================================
