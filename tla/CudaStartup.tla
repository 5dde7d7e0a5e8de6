----------------------------- MODULE CudaStartup -----------------------------
(***************************************************************************)
(* The life of a CudaRuntime, from its configuration to the last destructor*)
(* (src/src/minillm/cuda: runtime.cpp, storage.cpp, context.cpp; and       *)
(* gguf_model.cpp, qwen3_model.cpp): members are constructed one after the *)
(* other, each may throw, and what was constructed is destroyed in reverse.*)
(* The weights are uploaded through a host buffer, and the device works    *)
(* off its stream on its own time, so the order of what is waited for and  *)
(* what is freed matters.  The forwards of the runtime, once it is ready,  *)
(* are in DeviceForward.                                                   *)
(***************************************************************************)
EXTENDS MemoryPlan, Config, SequencesExt, FiniteSetsExt

CONSTANTS Starts,        \* model files, engine and model configurations, and whether to serve
          LayerNames,    \* the weights of a layer, in the order of the plan
          StagingBytes,  \* weight_staging_bytes: 8 MiB in the code
          CublasBytes    \* the workspace of cuBLAS

LayerWeights == {"attn_norm", "attn_q_norm", "attn_k_norm", "ffn_norm", "attn_q", "attn_k",
                 "attn_v", "attn_output", "ffn_gate", "ffn_up", "ffn_down"}

ASSUME StagingAssumption == StagingBytes \in Nat

\* Numbers are sizes, and there is nothing else to rely on in a file or a
\* configuration that has not been checked yet.
ASSUME StartsAssumption ==
  /\ LayerNames \in Seq(LayerWeights) /\ Range(LayerNames) = LayerWeights
  /\ \A start \in Starts :
       LET f == start[1]
       IN /\ f.base \in Nat /\ f.size \in Nat
          /\ \A name \in DOMAIN f.tensors :
               f.tensors[name] \in [offset : Nat, bytes : Nat, rows : Nat, columns : Nat, type : STRING]
          /\ f.dims \in [embedding : Nat, heads : Nat, kv_heads : Nat, head_dim : Nat,
                        feed_forward : Nat, trained : Nat]
          /\ start[2][1] \in
               [context_tokens : Nat, max_model_len : Nat, max_active : Nat, batch_tokens : Nat,
                prefill_chunk : Nat, block_size : Nat, queue_capacity : Nat, event_buffer_size : Nat,
                prefix_cache_entries : Nat, prefix_cache_tokens : Nat]
          /\ start[2][2].layout \in {"paged", "contiguous"}
          /\ start[3] \in BOOLEAN

VARIABLES file, config, serving,   \* what is started, and whether by MiniCudaRunner
          pc,
          stack,      \* what is fully constructed, and the waits owed on the way out
          held,       \* the resources of the system and the device in our hands
          stream,     \* the operations that the device has yet to do
          lost,       \* whether the device has failed for good
          memory,     \* what the device's buffers hold, byte by byte
          staging,    \* what the host buffer of an upload holds
          item, first \* the upload's progress: which item, and from which row

startVars == <<file, config, serving>>
hostVars  == <<pc, stack, held>>
loadVars  == <<staging, item, first>>
startupVars == <<startVars, hostVars, stream, lost, memory, loadVars, planVars>>

c == config[1]
m == config[2]

StartupInit ==
  /\ \E start \in Starts : file = start[1] /\ config = start[2] /\ serving = start[3]
  /\ pc = "config" /\ stack = <<>> /\ held = {}
  /\ stream = <<>> /\ lost = FALSE
  /\ memory = [weights |-> <<>>, workspace |-> <<>>, kv |-> "none"]
  /\ staging = <<>> /\ item = 1 /\ first = 0
  /\ PlanInit

-----------------------------------------------------------------------------
(***************************************************************************)
(* What is wanted of the file and of the device.                           *)
(***************************************************************************)
dims == file.dims
Query    == dims.heads * dims.head_dim
KeyValue == dims.kv_heads * dims.head_dim

WeightNames == <<"token_embd", "output_norm", "output">> \o LayerNames
Norms == {"output_norm", "attn_norm", "attn_q_norm", "attn_k_norm", "ffn_norm"}

\* The shapes that Qwen3Model requires, as <<rows, columns>>.
Shape == [
  token_embd  |-> <<file.tensors["token_embd"].rows, dims.embedding>>,
  output      |-> <<file.tensors["token_embd"].rows, dims.embedding>>,
  output_norm |-> <<1, dims.embedding>>, attn_norm |-> <<1, dims.embedding>>,
  ffn_norm    |-> <<1, dims.embedding>>,
  attn_q_norm |-> <<1, dims.head_dim>>, attn_k_norm |-> <<1, dims.head_dim>>,
  attn_q      |-> <<Query, dims.embedding>>,
  attn_k      |-> <<KeyValue, dims.embedding>>, attn_v |-> <<KeyValue, dims.embedding>>,
  attn_output |-> <<dims.embedding, Query>>,
  ffn_gate    |-> <<dims.feed_forward, dims.embedding>>,
  ffn_up      |-> <<dims.feed_forward, dims.embedding>>,
  ffn_down    |-> <<dims.embedding, dims.feed_forward>>]

Tied == "output" \notin DOMAIN file.tensors
Read(name) == name # "output" \/ ~Tied

\* load_dimensions()
DimensionsAreSupported ==
  /\ \A d \in {dims.embedding, dims.heads, dims.kv_heads, dims.head_dim, dims.feed_forward, dims.trained} :
       d \in 1..ExtentMax
  /\ dims.heads % dims.kv_heads = 0 /\ dims.head_dim % 2 = 0

ModelIsSupported ==
  /\ DimensionsAreSupported
  /\ \A k \in DOMAIN WeightNames : LET name == WeightNames[k] IN
       Read(name) => /\ name \in DOMAIN file.tensors /\ Viewable(file.tensors[name])
                     /\ Shaped(file.tensors[name], Shape[name][1], Shape[name][2])

Stored16(name) == m.precision = "f16" /\ name \notin Norms

WeightShape(name) ==
  LET t == file.tensors[name]
  IN [name |-> name, rows |-> t.rows, columns |-> t.columns, width |-> IF Stored16(name) THEN 2 ELSE 4]

\* One row of staging: as F32, and once more when it is stored as F16.
RowStaging(shape) == shape.columns * (IF shape.width = 2 THEN 6 ELSE 4)
Capacity == KvCapacity(m.layout, c.max_active, c.max_model_len, Asked(c, m))

Region(name, rows, columns) == [name |-> name, rows |-> rows, columns |-> columns, width |-> 4]

\* Slip: the shared input region has room for the hidden values alone.
HiddenColumns == dims.embedding

\* The widest input of any product.
InputColumns == Max({dims.embedding, Query, dims.feed_forward})

WorkspaceShapes ==
  LET b == c.batch_tokens
      wide(name, columns) == Region(name, b, columns)
  IN <<wide("hidden", dims.embedding), wide("normalized", dims.embedding), wide("query", Query),
       wide("key", KeyValue), wide("value", KeyValue), wide("attention", Query),
       wide("projected", dims.embedding), wide("gate", dims.feed_forward), wide("up", dims.feed_forward),
       wide("down", dims.embedding), wide("selected_hidden", dims.embedding),
       wide("scores", dims.heads * c.max_model_len), wide("probabilities", dims.heads * c.max_model_len),
       wide("logits", file.tensors["token_embd"].rows),
       wide("tokens", 1), wide("positions", 1), wide("slots", 1), wide("selected_rows", 1),
       Region("pending_lengths", c.max_active, 1), wide("samples", 3), Region("status", 1, 2),
       Region("rope_coefficients", c.max_model_len, dims.head_dim)>>
     \o (IF m.precision = "f16"
         THEN <<[wide("matrix_input", InputColumns) EXCEPT !.width = 2]>>
         ELSE <<>>)
     \o (IF m.layout = "paged"
         THEN <<Region("kv_block_table", c.max_active, Blocks(c.max_model_len, KvPageTokens))>>
         ELSE <<>>)

KvBytes == Capacity * 2 * KeyValue * 2     \* of one layer
TotalBytes == arenas.weights.bytes + arenas.workspace.bytes + KvBytes + CublasBytes

\* What remains of the device's free memory for the plan (memory_budget(),
\* with a reserve that is given with the file and no limit of the user's).
Budget == LET free == file.free IN
          Min({free - (free + 4) \div 5, IF free > file.reserve THEN free - file.reserve ELSE 0})

-----------------------------------------------------------------------------
(***************************************************************************)
(* Objects and resources.  The resources of an object that is still being  *)
(* constructed are released by its constructor's own handler; those of one *)
(* that is complete by its destructor.                                     *)
(***************************************************************************)
Parts == [mappedFile |-> <<"fd", "mapping">>, metadata |-> <<"metadata">>, tokenizer |-> <<"vocabulary">>,
          host |-> <<"host">>, context |-> <<"stream", "handle", "cublas">>,
          weights |-> <<"weights">>, workspace |-> <<"workspace">>, kv |-> <<"kv">>,
          events |-> <<"start", "stop">>]
OnDevice == {"context", "weights", "workspace", "kv", "events"}
PartsOf(object) == IF object \in DOMAIN Parts THEN Range(Parts[object]) ELSE {}

After == [config |-> "mappedFile", mappedFile |-> "metadata", metadata |-> "bounds", bounds |-> "shapes",
          shapes |-> "tokenizer", tokenizer |-> "host", host |-> "plan", context |-> "budget",
          budget |-> "weights", weights |-> "workspace", workspace |-> "kv", kv |-> "clear",
          settle |-> "events", events |-> "device", device |-> "ready"]

\* The storage, once its buffers exist, and the runtime, once it is complete,
\* wait for the device before they let anything go.
Pushed(object) == IF object = "kv" THEN <<object, "finish">> ELSE <<object>>

\* What a byte of a buffer holds: whose element, and of which row and column.
Cell(name, row, column) == <<name, row, column>>

Contents(object) ==
  CASE object = "weights"   -> [memory EXCEPT !.weights = [a \in 1..arenas.weights.bytes |-> Cell("junk", 0, 0)]]
    [] object = "workspace" -> [memory EXCEPT !.workspace = [a \in 1..arenas.workspace.bytes |-> Cell("junk", 0, 0)]]
    [] object = "kv"        -> [memory EXCEPT !.kv = "junk"]
    [] OTHER -> memory

\* The resources are taken one after the other.
NextPart(object, k) ==
  /\ Parts[object][k] \notin held
  /\ \A j \in 1..(k - 1) : Parts[object][j] \in held

\* A constructor takes its next resource; with the last it is complete.
Acquire ==
  /\ pc \in DOMAIN Parts /\ (pc \in OnDevice => ~lost)
  /\ \E k \in DOMAIN Parts[pc] :
       /\ NextPart(pc, k) /\ held' = held \cup {Parts[pc][k]}
       /\ IF k = Len(Parts[pc])
          THEN stack' = stack \o Pushed(pc) /\ pc' = After[pc] /\ memory' = Contents(pc)
          ELSE UNCHANGED <<stack, pc, memory>>
  /\ UNCHANGED <<startVars, stream, lost, loadVars, planVars>>

\* The checks between two constructors.
CheckPasses ==
  CASE pc = "config" ->
         /\ serving => MiniCudaAccepts(c, m)
         /\ ~KvRefused(m.layout, c.max_active, c.max_model_len, Asked(c, m), KvPageTokens)
         /\ m.layout = "paged" => m.precision = "f32"
         /\ m.device >= 0 /\ c.batch_tokens \in 1..128
    [] pc = "bounds" -> \A name \in DOMAIN file.tensors : Inside(file, file.tensors[name])
    [] pc = "shapes" -> ModelIsSupported
    [] pc = "budget" -> ~lost /\ TotalBytes <= Budget
    [] pc = "settle" -> ~lost /\ stream = <<>>
    [] pc = "device" -> ~lost
    [] OTHER -> FALSE

Check ==
  /\ CheckPasses /\ pc' = After[pc]
  /\ stack' = IF pc = "device" THEN Append(stack, "finish") ELSE stack
  /\ UNCHANGED <<startVars, held, stream, lost, memory, loadVars, planVars>>

\* Slip: a row may be wider than the staging buffer.
FitsStagingAlways(shape) == TRUE

FitsStaging(shape) == RowStaging(shape) <= StagingBytes

\* make_memory_plan(): the next item, or the end of an arena.
PlanWeight ==
  LET k == Len(arenas.weights.items) + 1
  IN IF k > Len(WeightNames) THEN Close("weights", "workspace")
     ELSE IF ~Read(WeightNames[k]) THEN PlaceAlias(WeightNames[k])
     ELSE LET shape == WeightShape(WeightNames[k])
          IN Dimension(shape.rows) /\ FitsStaging(shape) /\ Place("weights", shape)

PlanRegion ==
  LET k == Len(arenas.workspace.items) + 1
  IN IF k <= Len(WorkspaceShapes) THEN Place("workspace", WorkspaceShapes[k])
     ELSE /\ Close("workspace", "laid")
          /\ KvBytes <= SizeMax /\ TotalBytes <= SizeMax \div 2

Plan ==
  /\ pc = "plan" /\ c.max_model_len <= dims.trained
  /\ PlanWeight \/ PlanRegion
  /\ pc' = IF planned' = "laid" THEN "context" ELSE "plan"
  /\ UNCHANGED <<startVars, stack, held, stream, lost, memory, loadVars>>

-----------------------------------------------------------------------------
(***************************************************************************)
(* The device works off its stream in order.  An operation concerns bytes  *)
(* of a buffer; it fills them with a value, or copies them from or to host *)
(* memory, which it reads when it runs and not when it is enqueued; a      *)
(* forward's does more (DeviceForward).                                    *)
(***************************************************************************)
Operation(buffer, offset, bytes, fill, host) ==
  [buffer |-> buffer, offset |-> offset, bytes |-> bytes, fill |-> fill, host |-> host, does |-> "none"]

Whole(buffer, fill) == Operation(buffer, 0, Len(memory[buffer]), fill, "none")

RegionNamed(name) ==
  LET items == arenas.workspace.items
  IN items[CHOOSE k \in DOMAIN items : items[k].name = name]

\* The workspace to zero, the block table to -1, the KV cache to NaN.
Clear ==
  /\ pc = "clear" /\ ~lost
  /\ stream' = <<Whole("workspace", "zero")>>
       \o (IF m.layout = "paged"
           THEN LET table == RegionNamed("kv_block_table")
                IN <<Operation("workspace", table.offset, table.bytes, "unmapped", "none")>>
           ELSE <<>>)
       \o <<Operation("kv", 0, 0, "nan", "none")>>
  /\ pc' = "upload"
  /\ UNCHANGED <<startVars, stack, held, lost, memory, loadVars, planVars>>

Effect(op) ==
  IF op.buffer = "kv" THEN [memory EXCEPT !.kv = op.fill]
  ELSE [memory EXCEPT ![op.buffer] =
          [a \in DOMAIN @ |-> IF a \notin (op.offset + 1)..(op.offset + op.bytes) THEN @[a]
                              ELSE IF op.host = "none" THEN Cell(op.fill, 0, 0)
                              ELSE IF a - op.offset \in DOMAIN staging THEN staging[a - op.offset]
                              ELSE Cell("junk", 0, 0)]]

ExecuteCopy ==
  /\ stream # <<>> /\ Head(stream).fill # "kernel"
  /\ stream' = Tail(stream)
  /\ memory' = Effect(Head(stream))
  /\ UNCHANGED <<startVars, hostVars, lost, loadVars, planVars>>

\* The device fails for good: what is in flight is never done, and every call
\* fails from now on.
Lose ==
  /\ "stream" \in held /\ ~lost
  /\ lost' = TRUE /\ stream' = <<>>
  /\ UNCHANGED <<startVars, hostVars, memory, loadVars, planVars>>

(***************************************************************************)
(* The upload: each weight, then the table of rotations, in chunks of whole*)
(* rows.                                                                   *)
(***************************************************************************)
UploadList == Append(arenas.weights.items, RegionNamed("rope_coefficients"))
Current == UploadList[item]
BufferOf == IF item = Len(UploadList) THEN "workspace" ELSE "weights"
RowsPerChunk == Min({Current.rows, StagingBytes \div RowStaging(Current)})
Count == Min({RowsPerChunk, Current.rows - first})

\* The bytes of the rows of a chunk.
Rows(name, from, count, columns, width) ==
  [k \in 1..(count * columns * width) |->
     Cell(name, from + ((k - 1) \div (columns * width)), ((k - 1) \div width) % columns)]

\* Slip: the host buffer goes out of scope before the wait of its handler.
FrameFirst == <<"finish", "staging">>

\* The host buffer is declared outside the block whose handler waits.
Frame == <<"staging", "finish">>

StartItem ==
  /\ pc = "upload"
  /\ IF item > Len(UploadList) THEN pc' = "settle" /\ UNCHANGED <<stack, item>>
     ELSE IF Current.alias THEN item' = item + 1 /\ UNCHANGED <<stack, pc>>
     ELSE stack' = stack \o Frame /\ pc' = "decode" /\ UNCHANGED item
  /\ first' = 0
  /\ staging' = IF pc' = "decode" THEN Rows("zero", 0, RowsPerChunk, Current.columns, Current.width)
                ELSE staging
  /\ UNCHANGED <<startVars, held, stream, lost, memory, planVars>>

Decode ==
  /\ pc = "decode"
  /\ LET new == Rows(Current.name, first, Count, Current.columns, Current.width)
     IN staging' = new \o SubSeq(staging, Len(new) + 1, Len(staging))
  /\ pc' = "copy"
  /\ UNCHANGED <<startVars, stack, held, stream, lost, memory, item, first, planVars>>

Copy ==
  /\ pc = "copy" /\ ~lost
  /\ stream' = Append(stream, Operation(BufferOf, Current.offset + first * Current.columns * Current.width,
                                        Count * Current.columns * Current.width, "none", "staging"))
  /\ pc' = "await"
  /\ UNCHANGED <<startVars, stack, held, lost, memory, loadVars, planVars>>

\* Slip: the next chunk is decoded while the last one is still being copied.
CopiedAlways == TRUE
Copied == stream = <<>>

Await ==
  /\ pc = "await" /\ ~lost /\ Copied
  /\ first' = first + RowsPerChunk
  /\ IF first' < Current.rows THEN pc' = "decode" /\ UNCHANGED <<stack, item>>
     ELSE /\ pc' = "upload" /\ item' = item + 1
          /\ stack' = SubSeq(stack, 1, Len(stack) - Len(Frame))
  /\ UNCHANGED <<startVars, held, stream, lost, memory, staging, planVars>>

-----------------------------------------------------------------------------
\* What the buffers hold is of no account any more.
Discard ==
  /\ LET junk(buffer) == [a \in DOMAIN buffer |-> Cell("junk", 0, 0)]
     IN memory' = [memory EXCEPT !.weights = junk(@), !.workspace = junk(@)]
  /\ staging' = <<>> /\ item' = 1 /\ first' = 0

Destroy ==
  /\ pc \in {"ready", "poisoned"} /\ pc' = "unwind"
  /\ Discard
  /\ UNCHANGED <<startVars, stack, held, stream, lost, planVars>>

\* Slip: a constructor that fails leaves what it has taken.
LeftBehind(object) == {}

\* close() of MappedFile, cleanup() of CudaContext and of Events, called where
\* the constructor gives up.
GivenUp(object) == PartsOf(object)

Throw ==
  /\ pc \notin {"ready", "forward", "poisoned", "unwind", "gone"}
  /\ pc' = "unwind"
  /\ held' = IF lost /\ pc \in OnDevice THEN held ELSE held \ GivenUp(pc)
  /\ Discard
  /\ UNCHANGED <<startVars, stack, stream, lost, planVars>>

\* The destructors, last constructed first.  The context waits for its stream.
Unwind ==
  /\ pc = "unwind"
  /\ IF stack = <<>> THEN pc' = "gone" /\ UNCHANGED <<stack, held>>
     ELSE LET top == Last(stack)
          IN /\ top \in {"finish", "context"} => stream = <<>>
             /\ stack' = Front(stack)
             /\ held' = IF lost /\ top \in OnDevice THEN held ELSE held \ PartsOf(top)
             /\ UNCHANGED pc
  /\ UNCHANGED <<startVars, stream, lost, memory, loadVars, planVars>>

HostStep == Check \/ Acquire \/ Plan \/ Clear \/ StartItem \/ Decode \/ Copy \/ Await \/ Throw \/ Unwind

-----------------------------------------------------------------------------
\* While an operation is in flight, its stream and its buffer exist, it stays
\* inside the buffer, and the host memory that it reads or writes exists.
MemoryIsSafe ==
  \A k \in DOMAIN stream : LET op == stream[k] IN
    /\ {"stream", op.buffer} \subseteq held
    /\ op.buffer # "kv" => op.offset + op.bytes <= Len(memory[op.buffer])
    /\ op.host # "none" => op.host \in Range(stack)

\* However construction ends, with whichever step it fails, everything is
\* given back; only a device that is lost keeps what was on it.
NothingLeaks ==
  pc = "gone" => held \subseteq (IF lost THEN UNION {PartsOf(o) : o \in OnDevice} ELSE {})

CellAt(buffer, shape, row, column, byte) ==
  memory[buffer][shape.offset + (row * shape.columns + column) * shape.width + byte]

Uploaded(buffer, shape) ==
  \A row \in 0..(shape.rows - 1), column \in 0..(shape.columns - 1), byte \in 1..shape.width :
    CellAt(buffer, shape, row, column, byte) = Cell(shape.name, row, column)

\* What the upload has left behind is on the device, row by row: every weight,
\* under each of its names, and the rotations.  When the runtime is ready, the
\* rest is as cleared.
LoadedIsExact ==
  /\ pc \in {"upload", "settle", "ready"} => \A k \in 1..(item - 1) :
       LET w == UploadList[k]
       IN Uploaded(IF k = Len(UploadList) THEN "workspace" ELSE "weights",
                   IF w.alias THEN [w EXCEPT !.name = "token_embd"] ELSE w)
  /\ pc = "ready" =>
       /\ item = Len(UploadList) + 1 /\ memory.kv = "nan"
       /\ \A k \in DOMAIN arenas.workspace.items : LET r == arenas.workspace.items[k] IN
            r.name # "rope_coefficients" =>
              \A a \in 1..r.bytes : memory.workspace[r.offset + a] =
                                      Cell(IF r.name = "kv_block_table" THEN "unmapped" ELSE "zero", 0, 0)

\* No row that is decoded reaches beyond the file.
RowsStayInFile ==
  pc = "decode" /\ BufferOf = "weights" => RowsInside(file, file.tensors[Current.name])

\* A serving configuration that passed the checks is one that the Engine takes
\* with this runner, and whose credits the KV cache covers.
ConfigIsSound ==
  serving /\ pc = "ready" => EngineAccepts(c, CudaCapabilities(c, m)) /\ Sound(c, m)

\* Construction ends: it does not go round in an upload that makes no progress.
StartupEnds == <>(pc \in {"ready", "gone"})
=============================================================================
