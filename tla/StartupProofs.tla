---------------------------- MODULE StartupProofs ----------------------------
(***************************************************************************)
(* What holds of the start of a GPU runtime for every file, configuration, *)
(* size and width: no accepted row reaches beyond its file, no two regions *)
(* of a plan overlap, an accepted configuration is one the Engine can work *)
(* with, a construction that fails leaves nothing behind, and one that     *)
(* succeeds leaves the model's weights on the device.                      *)
(***************************************************************************)
EXTENDS DeviceForward, SequenceTheorems, TLAPS

-----------------------------------------------------------------------------
(***************************************************************************)
(* Arithmetic.                                                             *)
(***************************************************************************)
LEMMA ProductIsNatural == \A x, y \in Nat : x * y \in Nat
OBVIOUS

LEMMA ProductGrows ==
  ASSUME NEW x \in Nat, NEW y \in Nat, NEW k \in Nat, x <= y
  PROVE  x * k <= y * k
OBVIOUS

LEMMA Division ==
  ASSUME NEW n \in Nat, NEW d \in Nat \ {0}
  PROVE  /\ n \div d \in Nat /\ n % d \in 0..(d - 1)
         /\ n = d * (n \div d) + (n % d)
OBVIOUS

\* There is but one quotient and one rest.
LEMMA DivisionIs ==
  ASSUME NEW q \in Nat, NEW d \in Nat \ {0}, NEW r \in 0..(d - 1)
  PROVE  (d * q + r) % d = r /\ (d * q + r) \div d = q
<1>1. PICK n \in Nat : n = d * q + r
  BY ProductIsNatural
<1>2. PICK p \in Nat : p = n \div d
  BY Division
<1>3. PICK e \in 0..(d - 1) : e = n % d
  BY Division
<1>4. d * q + r = d * p + e
  BY <1>1, <1>2, <1>3, Division
<1>5. d * q \in Nat /\ d * p \in Nat
  BY ProductIsNatural
<1>6. ~(q >= p + 1)
  <2>1. SUFFICES ASSUME q >= p + 1 PROVE FALSE
    OBVIOUS
  <2>2. d * q >= d * p + d
    BY <2>1
  <2>3. QED
    BY <1>3, <1>4, <1>5, <2>2
<1>7. ~(p >= q + 1)
  <2>1. SUFFICES ASSUME p >= q + 1 PROVE FALSE
    OBVIOUS
  <2>2. d * p >= d * q + d
    BY <2>1
  <2>3. QED
    BY <1>3, <1>4, <1>5, <2>2
<1>8. p = q
  BY <1>6, <1>7
<1>9. e = r
  BY <1>3, <1>4, <1>5, <1>8
<1>10. QED
  BY <1>1, <1>2, <1>3, <1>8, <1>9

LEMMA MultipleIsAligned ==
  ASSUME NEW q \in Nat, NEW d \in Nat \ {0}
  PROVE  (d * q) % d = 0
<1>1. (d * q + 0) % d = 0
  BY DivisionIs
<1>2. d * q + 0 = d * q
  BY ProductIsNatural
<1>3. QED
  BY <1>1, <1>2

\* What align() does: up to the next multiple.
LEMMA AlignedUp ==
  ASSUME NEW n \in Nat
  PROVE  /\ Aligned(n) \in Nat /\ Aligned(n) % Alignment = 0
         /\ n <= Aligned(n) /\ Aligned(n) <= n + Alignment - 1
<1>1. Alignment \in Nat \ {0}
  BY PlanAssumption
<1>2. PICK k \in Nat : k = n + Alignment - 1
  BY <1>1
<1>3. PICK q \in Nat : q = k \div Alignment
  BY <1>1, Division
<1>4. PICK e \in 0..(Alignment - 1) : e = k % Alignment
  BY <1>1, Division
<1>5. Aligned(n) = k - e /\ k - e = Alignment * q
  BY <1>1, <1>2, <1>3, <1>4, Division DEF Aligned
<1>6. (Alignment * q) % Alignment = 0
  BY <1>1, MultipleIsAligned
<1>7. QED
  BY <1>1, <1>2, <1>4, <1>5, <1>6

-----------------------------------------------------------------------------
(***************************************************************************)
(* Files: what the checks of gguf_model.cpp and qwen3_model.cpp give.      *)
(***************************************************************************)
Tensor == [offset : Nat, bytes : Nat, rows : Nat, columns : Nat,
           type : {"F32", "F16", "Q8_0"}]

\* A row of a width that the model allows is computed without wrapping around.
LEMMA RowFits ==
  ASSUME NEW type \in {"F32", "F16", "Q8_0"}, NEW columns \in Nat,
         columns <= ExtentMax * ExtentMax
  PROVE  RowSize(type, columns) \in Nat /\ RowBytes(type, columns) = RowSize(type, columns)
<1>1. PICK e \in Nat : e = ExtentMax * ExtentMax
  BY FileAssumption
<1>2. SizeMax \in Nat /\ 4 * e <= SizeMax
  BY <1>1, FileAssumption
<1>3. RowSize(type, columns) \in 0..(4 * columns)
  <2>1. (columns \div 32) * 34 \in 0..(4 * columns)
    OBVIOUS
  <2>2. QED
    BY <2>1 DEF RowSize
<1>4. RowSize(type, columns) \in 0..SizeMax
  BY <1>1, <1>2, <1>3
<1>5. QED
  BY <1>2, <1>4 DEF RowBytes

\* Every row of an accepted tensor lies inside the file.
LEMMA RowsOfAcceptedTensor ==
  ASSUME NEW f, f.base \in Nat, f.size \in Nat,
         NEW t, t.offset \in Nat, t.bytes \in Nat, t.rows \in Nat, t.columns \in Nat,
         Inside(f, t), Viewable(t), t.columns <= ExtentMax * ExtentMax
  PROVE  RowsInside(f, t)
<1>1. t.type \in {"F32", "F16", "Q8_0"}
  BY DEF Viewable
<1>2. PICK size \in Nat : size = RowSize(t.type, t.columns) /\ size = RowBytes(t.type, t.columns)
  BY <1>1, RowFits
<1>3. f.base + t.offset + t.bytes <= f.size /\ t.rows * size = t.bytes
  BY <1>2 DEF Inside, Viewable
<1>4. SUFFICES ASSUME NEW k \in 0..(t.rows - 1)
               PROVE  RowStart(f, t, k) + RowSize(t.type, t.columns) <= f.size
  BY DEF RowsInside
<1>5. (k + 1) * size <= t.rows * size
  BY ProductGrows
<1>6. (k + 1) * size = k * size + size /\ k * size \in Nat
  OBVIOUS
<1>7. QED
  BY <1>2, <1>3, <1>5, <1>6 DEF RowStart

-----------------------------------------------------------------------------
(***************************************************************************)
(* Configurations: what config.cpp gives.                                  *)
(***************************************************************************)
EngineConfig ==
  [context_tokens : Nat, max_model_len : Nat, max_active : Nat, batch_tokens : Nat,
   prefill_chunk : Nat, block_size : Nat, queue_capacity : Nat, event_buffer_size : Nat,
   prefix_cache_entries : Nat, prefix_cache_tokens : Nat]

\* The blocks of a shorter text are no more than those of a longer one.
LEMMA BlocksWithin ==
  ASSUME NEW size \in Nat \ {0}, NEW n \in Nat, NEW most \in Nat,
         n <= most, most % size = 0
  PROVE  Blocks(n, size) <= most \div size
<1>1. PICK q \in Nat : q = most \div size /\ most = size * q
  BY Division
<1>2. PICK k \in Nat : k = n + size - 1
  OBVIOUS
<1>3. PICK p \in Nat : p = k \div size
  BY Division
<1>4. size * p <= k
  BY <1>2, <1>3, Division
<1>5. CASE p <= q
  BY <1>1, <1>2, <1>3, <1>5 DEF Blocks
<1>6. CASE p >= q + 1
  <2>1. size * p >= size * q + size
    BY <1>6
  <2>2. QED
    BY <2>1, <1>1, <1>2, <1>4
<1>7. QED
  BY <1>5, <1>6

\* What the capacity contract gives of a paged cache.
LEMMA PagedCapacity ==
  ASSUME NEW tokens \in Nat, NEW size \in Nat, NEW length \in Nat, NEW active \in Nat,
         ~KvRefused("paged", active, length, tokens, size)
  PROVE  /\ size = 16 /\ active \in 1..4 /\ length \in 1..2048 /\ tokens # 0
         /\ tokens = 16 * (tokens \div 16)
         /\ tokens \div 16 \in 1..512
         /\ tokens \div 16 <= active * Blocks(length, 16)
<1>1. /\ size = 16 /\ active \in 1..4 /\ length \in 1..2048
      /\ tokens # 0 /\ tokens % size = 0
      /\ tokens <= active * Blocks(length, size) * size
  <2>1. /\ active \in UpTo(4) /\ length \in UpTo(2048) /\ size = KvPageTokens
        /\ tokens # 0 /\ tokens % size = 0
        /\ ~(tokens > active * Blocks(length, size) * size)
    BY DEF KvRefused
  <2>2. /\ size = 16 /\ active \in 1..4 /\ length \in 1..2048
    BY <2>1 DEF KvPageTokens, UpTo
  <2>3. PICK b \in Nat : b = Blocks(length, size)
    BY <2>2 DEF Blocks
  <2>4. PICK p \in Nat : p = active * b
    BY <2>2, <2>3
  <2>5. tokens <= p * 16
    BY <2>1, <2>2, <2>3, <2>4
  <2>6. QED
    BY <2>1, <2>2, <2>3, <2>4, <2>5
<1>2. tokens % 16 = 0
  BY <1>1
<1>3. PICK q \in Nat : q = tokens \div 16 /\ tokens = 16 * q
  BY <1>2
<1>4. PICK b \in 1..128 : b = Blocks(length, 16)
  BY <1>1 DEF Blocks
<1>5. active * b \in 1..512
  <2>1. CASE active = 1
    BY <2>1, <1>4
  <2>2. CASE active = 2
    BY <2>2, <1>4
  <2>3. CASE active = 3
    BY <2>3, <1>4
  <2>4. CASE active = 4
    BY <2>4, <1>4
  <2>5. QED
    BY <1>1, <2>1, <2>2, <2>3, <2>4
<1>6. PICK p \in 1..512 : p = active * b
  BY <1>5
<1>7. 16 * q <= p * 16
  BY <1>1, <1>3, <1>4, <1>6
<1>8. QED
  BY <1>1, <1>3, <1>4, <1>6, <1>7

\* The conjuncts of the Engine's own check that matter here.
LEMMA ValidGives ==
  ASSUME NEW e, Valid(e)
  PROVE  /\ e.block_size > 0 /\ e.context_tokens % e.block_size = 0
         /\ e.max_model_len \in 2..e.context_tokens /\ e.max_active \in 1..128
         /\ e.batch_tokens \in e.max_active..e.context_tokens /\ e.prefill_chunk \in 1..e.batch_tokens
         /\ e.prefix_cache_entries > 0 => e.prefix_cache_tokens >= e.block_size
<1>1. /\ e.block_size > 0 /\ e.context_tokens % e.block_size = 0
      /\ e.max_model_len \in 2..e.context_tokens /\ e.max_active \in UpTo(128)
      /\ e.batch_tokens \in e.max_active..e.context_tokens /\ e.prefill_chunk \in UpTo(e.batch_tokens)
      /\ e.prefix_cache_entries > 0 => e.prefix_cache_tokens >= e.block_size
  BY DEF Valid
<1>2. UpTo(128) = 1..128 /\ UpTo(e.batch_tokens) = 1..e.batch_tokens
  BY Zenon DEF UpTo
<1>3. QED
  BY Zenon, <1>1, <1>2

LEMMA CreditsOf ==
  ASSUME NEW tokens \in Nat, NEW size \in Nat \ {0}, tokens % size = 0
  PROVE  tokens = size * (tokens \div size) /\ tokens \div size \in Nat
<1>1. tokens = size * (tokens \div size) + (tokens % size) /\ tokens \div size \in Nat
  BY Division
<1>2. PICK q \in Nat : q = size * (tokens \div size)
  BY <1>1
<1>3. QED
  BY <1>1, <1>2

\* A configuration that both checks accept is one that the Engine takes, and
\* it has what the models assume.
LEMMA AcceptedConfig ==
  ASSUME NEW e \in EngineConfig, NEW k,
         k.layout \in {"paged", "contiguous"}, MiniCudaAccepts(e, k)
  PROVE  EngineAccepts(e, CudaCapabilities(e, k)) /\ Sound(e, k)
<1>1. /\ e.context_tokens \in Nat /\ e.max_model_len \in Nat /\ e.max_active \in Nat
      /\ e.batch_tokens \in Nat /\ e.prefill_chunk \in Nat /\ e.block_size \in Nat
      /\ e.prefix_cache_entries \in Nat /\ e.prefix_cache_tokens \in Nat
  BY DEF EngineConfig
<1>2. Valid(e) /\ e.prefix_cache_entries = 0 /\ e.prefix_cache_tokens = 0
  BY DEF MiniCudaAccepts
<1>3. /\ e.block_size > 0 /\ e.context_tokens % e.block_size = 0
      /\ e.max_model_len \in 2..e.context_tokens /\ e.max_active \in 1..128
      /\ e.batch_tokens \in e.max_active..e.context_tokens /\ e.prefill_chunk \in 1..e.batch_tokens
      /\ e.prefix_cache_entries > 0 => e.prefix_cache_tokens >= e.block_size
  BY <1>2, ValidGives
<1> DEFINE tokens == e.context_tokens
           size   == e.block_size
           length == e.max_model_len
           active == e.max_active
<1>4. /\ tokens \in Nat /\ size \in Nat \ {0} /\ length \in Nat /\ active \in Nat
      /\ tokens % size = 0 /\ length <= tokens
  BY <1>1, <1>3
<1>5. LongestRequestFits(e)
  <2> HIDE DEF tokens, size, length
  <2>1. Blocks(length, size) <= tokens \div size
    BY <1>4, BlocksWithin
  <2>2. QED
    BY <2>1 DEF LongestRequestFits, Credits, tokens, size, length
<1>6. tokens = size * (tokens \div size) /\ tokens \div size \in Nat
  <2> HIDE DEF tokens, size
  <2>1. QED
    BY <1>4, CreditsOf
<1>7. Sound(e, k) <=> CreditsAreCovered(e, k)
  BY <1>1, <1>3, <1>5 DEF Sound
<1>8. CASE k.layout = "paged"
  <2>1. ~KvRefused("paged", active, length, tokens, size)
    BY <1>8 DEF MiniCudaAccepts
  <2> HIDE DEF tokens, size, length, active
  <2>2. /\ size = 16 /\ tokens = 16 * (tokens \div 16)
        /\ tokens \div 16 \in 1..512
        /\ tokens \div 16 <= active * Blocks(length, 16)
    BY <1>4, <2>1, PagedCapacity
  <2>3. KvCapacity(k.layout, active, length, Asked(e, k)) = tokens
    BY <1>8 DEF KvCapacity, Asked, tokens
  <2>4. Credits(e) = tokens \div 16
    BY <2>2 DEF Credits, tokens, size
  <2>5. e.block_size = 16 /\ e.max_active = active /\ e.max_model_len = length
    BY <2>2 DEF size, active, length
  <2>6. CreditsAreCovered(e, k)
    BY <1>4, <2>2, <2>3, <2>4, <2>5 DEF CreditsAreCovered, KvPageTokens, UpTo
  <2>7. EngineAccepts(e, CudaCapabilities(e, k))
    BY <1>1, <1>2, <1>8, <2>5 DEF EngineAccepts, CudaCapabilities, KvPageTokens
  <2>8. QED
    BY <1>7, <2>6, <2>7
<1>9. CASE k.layout = "contiguous"
  <2>1. tokens <= active * length
    BY <1>9 DEF MiniCudaAccepts
  <2>2. KvCapacity(k.layout, e.max_active, e.max_model_len, Asked(e, k)) = active * length
    BY <1>9 DEF KvCapacity
  <2>3. CreditsAreCovered(e, k)
    BY <1>6, <1>9, <2>1, <2>2 DEF CreditsAreCovered, Credits
  <2>4. EngineAccepts(e, CudaCapabilities(e, k))
    BY <1>1, <1>2, <1>9 DEF EngineAccepts, CudaCapabilities
  <2>5. QED
    BY <1>7, <2>3, <2>4
<1>10. QED
  BY <1>8, <1>9

-----------------------------------------------------------------------------
(***************************************************************************)
(* Plans: what make_memory_plan() gives.                                   *)
(***************************************************************************)
Names ==
  {"token_embd", "output_norm", "output", "attn_norm", "attn_q_norm", "attn_k_norm", "ffn_norm",
   "attn_q", "attn_k", "attn_v", "attn_output", "ffn_gate", "ffn_up", "ffn_down",
   "hidden", "normalized", "query", "key", "value", "attention", "projected", "gate", "up", "down",
   "selected_hidden", "scores", "probabilities", "logits", "tokens", "positions", "slots",
   "selected_rows", "pending_lengths", "samples", "status", "rope_coefficients", "matrix_input",
   "kv_block_table"}
ShapeSet == [name : Names, rows : Nat, columns : Nat, width : {2, 4}]
ItemSet  == [name : Names, rows : Nat, columns : Nat, width : {2, 4},
             offset : Nat, bytes : Nat, alias : BOOLEAN]
ArenaSet == [items : Seq(ItemSet), bytes : Nat, payload : Nat]

LEMMA BytesAreNatural == \A shape \in ShapeSet : BytesOf(shape) \in Nat
BY DEF ShapeSet, BytesOf

\* An arena stays sound when one more item is placed ...
LEMMA PlacedIsSound ==
  ASSUME NEW arena \in ArenaSet, ArenaIsSound(arena),
         NEW shape \in ShapeSet, Placeable(arena, shape)
  PROVE  With(arena, shape) \in ArenaSet /\ ArenaIsSound(With(arena, shape))
<1> DEFINE new == With(arena, shape)
           n   == Len(arena.items)
<1>1. /\ arena.items \in Seq(ItemSet) /\ arena.bytes \in Nat /\ arena.payload \in Nat
      /\ n \in Nat /\ DOMAIN arena.items = 1..n
  BY LenProperties DEF ArenaSet
<1>2. BytesOf(shape) \in Nat /\ SizeMax \in Nat
  BY BytesAreNatural, FileAssumption
<1>3. PICK at \in Nat : at = Offset(arena) /\ at % Alignment = 0 /\ arena.bytes <= at
  BY <1>1, AlignedUp DEF Offset
<1>4. Item(arena, shape) \in ItemSet
  BY <1>2, <1>3 DEF Item, ItemSet, ShapeSet
<1>5. /\ new.items = Append(arena.items, Item(arena, shape))
      /\ new.bytes = at + BytesOf(shape) /\ new.payload = arena.payload + BytesOf(shape)
  BY <1>3 DEF With
<1>6. new \in ArenaSet
  <2>1. Append(arena.items, Item(arena, shape)) \in Seq(ItemSet)
    BY <1>1, <1>4, AppendProperties
  <2>2. QED
    BY <1>1, <1>2, <1>3, <2>1 DEF With, ArenaSet
<1>7. /\ DOMAIN new.items = 1..(n + 1)
      /\ \A i \in 1..n : new.items[i] = arena.items[i]
      /\ new.items[n + 1] = Item(arena, shape)
  BY <1>1, <1>4, <1>5, AppendProperties
<1>8. /\ new.items[n + 1].offset = at /\ new.items[n + 1].bytes = BytesOf(shape)
      /\ ~new.items[n + 1].alias
  BY <1>3, <1>7 DEF Item
<1>9. \A i \in 1..n : arena.items[i].offset \in Nat /\ arena.items[i].bytes \in Nat
  <2>1. \A i \in 1..n : arena.items[i] \in ItemSet
    BY <1>1, ElementOfSeq
  <2>2. QED
    BY <2>1 DEF ItemSet
<1>10. Owned(new) = Owned(arena) \cup {n + 1} /\ Owned(arena) \subseteq 1..n
  BY <1>1, <1>7, <1>8 DEF Owned
<1> HIDE DEF new
<1>11. ASSUME NEW i \in Owned(new)
       PROVE  /\ new.items[i].offset % Alignment = 0
              /\ new.items[i].offset + new.items[i].bytes <= new.bytes
              /\ \A j \in Owned(new) :
                   i < j => new.items[i].offset + new.items[i].bytes <= new.items[j].offset
  <2>1. CASE i = n + 1
    <3>1. new.items[i].offset = at /\ new.items[i].bytes = BytesOf(shape)
      BY <2>1, <1>8
    <3>2. \A j \in Owned(new) : ~(i < j)
      BY <2>1, <1>1, <1>10
    <3>3. new.items[i].offset % Alignment = 0
      BY <3>1, <1>3
    <3>4. new.items[i].offset + new.items[i].bytes <= new.bytes
      BY <3>1, <1>2, <1>3, <1>5
    <3>5. QED
      BY <3>2, <3>3, <3>4
  <2>2. CASE i \in Owned(arena)
    <3>1. /\ i \in 1..n /\ arena.items[i].offset % Alignment = 0
          /\ arena.items[i].offset + arena.items[i].bytes <= arena.bytes
          /\ \A j \in Owned(arena) :
               i < j => arena.items[i].offset + arena.items[i].bytes <= arena.items[j].offset
      BY <2>2, <1>10 DEF ArenaIsSound
    <3>2. new.items[i].offset + new.items[i].bytes <= at
      BY SMTT(30), <3>1, <1>1, <1>3, <1>7, <1>9
    <3>3. ASSUME NEW j \in Owned(new), i < j
          PROVE  new.items[i].offset + new.items[i].bytes <= new.items[j].offset
      <4>1. CASE j = n + 1
        BY <4>1, <3>2, <1>8
      <4>2. CASE j \in Owned(arena)
        BY <4>2, <3>1, <3>3, <1>7, <1>10
      <4>3. QED
        BY <4>1, <4>2, <1>10
    <3>4. new.items[i].offset + new.items[i].bytes <= new.bytes
      BY SMTT(30), <3>1, <3>2, <1>2, <1>3, <1>5, <1>7, <1>9
    <3>5. QED
      BY <3>1, <3>3, <3>4, <1>7
  <2>3. QED
    BY <2>1, <2>2, <1>10
<1>12. \A i \in DOMAIN new.items \ Owned(new) :
         new.items[i].offset = new.items[1].offset /\ new.items[i].bytes = new.items[1].bytes
  <2>1. SUFFICES ASSUME NEW i \in DOMAIN new.items \ Owned(new)
                 PROVE  new.items[i].offset = new.items[1].offset /\ new.items[i].bytes = new.items[1].bytes
    OBVIOUS
  <2>2. i \in DOMAIN arena.items \ Owned(arena) /\ i \in 1..n /\ 1 \in 1..n
    BY <2>1, <1>1, <1>7, <1>10
  <2>3. QED
    BY <2>2, <1>7 DEF ArenaIsSound
<1>13. new.payload <= new.bytes /\ new.bytes <= SizeMax
  <2>1. arena.payload <= arena.bytes /\ at + BytesOf(shape) <= SizeMax
    BY <1>3 DEF ArenaIsSound, Placeable, Offset
  <2>2. QED
    BY <2>1, <1>1, <1>2, <1>3, <1>5
<1>14. QED
  BY <1>6, <1>11, <1>12, <1>13 DEF ArenaIsSound, new

\* ... when an alias is added, and when its end is aligned.
LEMMA AliasedIsSound ==
  ASSUME NEW arena \in ArenaSet, ArenaIsSound(arena), arena.items # <<>>, NEW name \in Names,
         NEW more, more = [Head(arena.items) EXCEPT !.name = name, !.alias = TRUE],
         NEW new, new = [arena EXCEPT !.items = Append(arena.items, more)]
  PROVE  new \in ArenaSet /\ ArenaIsSound(new)
<1> DEFINE n == Len(arena.items)
<1>1. /\ arena.items \in Seq(ItemSet) /\ arena.bytes \in Nat /\ arena.payload \in Nat
      /\ n \in Nat /\ DOMAIN arena.items = 1..n
  BY LenProperties DEF ArenaSet
<1>2. n >= 1 /\ Head(arena.items) = arena.items[1] /\ arena.items[1] \in ItemSet
  BY <1>1, HeadTailProperties, ElementOfSeq, EmptySeq
<1>3. /\ more \in ItemSet /\ more.alias
      /\ more.offset = arena.items[1].offset /\ more.bytes = arena.items[1].bytes
  BY <1>2 DEF ItemSet
<1>4. /\ new.items = Append(arena.items, more) /\ new.items \in Seq(ItemSet)
      /\ new.bytes = arena.bytes /\ new.payload = arena.payload /\ new \in ArenaSet
  <2>1. Append(arena.items, more) \in Seq(ItemSet)
    BY <1>1, <1>3, AppendProperties
  <2>2. QED
    BY <2>1 DEF ArenaSet
<1>5. /\ DOMAIN new.items = 1..(n + 1)
      /\ \A i \in 1..n : new.items[i] = arena.items[i]
      /\ new.items[n + 1] = more
  BY <1>1, <1>3, <1>4, AppendProperties
<1>6. Owned(new) = Owned(arena) /\ Owned(arena) \subseteq 1..n
  BY <1>1, <1>3, <1>5 DEF Owned
<1>7. \A i \in DOMAIN new.items \ Owned(new) : i = n + 1 \/ i \in DOMAIN arena.items \ Owned(arena)
  BY <1>1, <1>5, <1>6
<1>8. \A i \in DOMAIN new.items \ Owned(new) :
         new.items[i].offset = new.items[1].offset /\ new.items[i].bytes = new.items[1].bytes
  BY <1>1, <1>2, <1>3, <1>5, <1>7 DEF ArenaIsSound
<1>9. \A i \in Owned(new) : new.items[i] = arena.items[i]
  BY <1>5, <1>6
<1>10. ASSUME NEW i \in Owned(new)
       PROVE  /\ new.items[i].offset % Alignment = 0
              /\ new.items[i].offset + new.items[i].bytes <= new.bytes
              /\ \A j \in Owned(new) :
                   i < j => new.items[i].offset + new.items[i].bytes <= new.items[j].offset
  BY <1>4, <1>6, <1>9 DEF ArenaIsSound
<1>11. new.payload <= new.bytes /\ new.bytes <= SizeMax
  BY <1>4 DEF ArenaIsSound
<1>12. QED
  BY <1>4, <1>8, <1>10, <1>11 DEF ArenaIsSound

LEMMA ClosedIsSound ==
  ASSUME NEW arena \in ArenaSet, ArenaIsSound(arena), arena.bytes + Alignment - 1 <= SizeMax,
         NEW new, new = [arena EXCEPT !.bytes = Aligned(arena.bytes)]
  PROVE  new \in ArenaSet /\ ArenaIsSound(new)
<1>1. /\ arena.items \in Seq(ItemSet) /\ arena.bytes \in Nat /\ arena.payload \in Nat
      /\ DOMAIN arena.items = 1..Len(arena.items) /\ Len(arena.items) \in Nat
  BY LenProperties DEF ArenaSet
<1>2. PICK at \in Nat : at = Aligned(arena.bytes) /\ arena.bytes <= at /\ at <= arena.bytes + Alignment - 1
  BY <1>1, AlignedUp
<1>3. new.items = arena.items /\ new.payload = arena.payload /\ new.bytes = at /\ new \in ArenaSet
  BY <1>1, <1>2 DEF ArenaSet
<1>4. Owned(new) = Owned(arena) /\ Owned(arena) \subseteq 1..Len(arena.items)
  BY <1>1, <1>3 DEF Owned
<1>5. \A i \in 1..Len(arena.items) : arena.items[i].offset \in Nat /\ arena.items[i].bytes \in Nat
  <2>1. \A i \in 1..Len(arena.items) : arena.items[i] \in ItemSet
    BY <1>1, ElementOfSeq
  <2>2. QED
    BY <2>1 DEF ItemSet
<1>6. \A i \in Owned(new) : new.items[i].offset + new.items[i].bytes <= new.bytes
  BY SMTT(30), <1>1, <1>2, <1>3, <1>4, <1>5 DEF ArenaIsSound
<1>7. new.payload <= new.bytes /\ new.bytes <= SizeMax
  BY <1>1, <1>2, <1>3, PlanAssumption, FileAssumption DEF ArenaIsSound
<1>8. QED
  BY <1>3, <1>4, <1>6, <1>7 DEF ArenaIsSound

\* The plan's state: its shape, and what it promises.
PlanIsSound ==
  /\ arenas \in [weights : ArenaSet, workspace : ArenaSet]
  /\ RegionsAreDisjoint

LEMMA PlanStarts == PlanInit => PlanIsSound
<1>1. SUFFICES ASSUME PlanInit PROVE PlanIsSound
  OBVIOUS
<1>2. EmptyArena \in ArenaSet
  BY EmptySeq DEF EmptyArena, ArenaSet
<1>3. ArenaIsSound(EmptyArena)
  BY FileAssumption DEF EmptyArena, ArenaIsSound, Owned
<1>4. QED
  BY <1>1, <1>2, <1>3 DEF PlanInit, PlanIsSound, RegionsAreDisjoint

LEMMA ArenaOf ==
  ASSUME PlanIsSound, NEW a \in {"weights", "workspace"}
  PROVE  arenas[a] \in ArenaSet /\ ArenaIsSound(arenas[a])
BY DEF PlanIsSound, RegionsAreDisjoint

LEMMA ArenaChanges ==
  ASSUME PlanIsSound, NEW a \in {"weights", "workspace"}, NEW new \in ArenaSet, ArenaIsSound(new),
         arenas' = [arenas EXCEPT ![a] = new]
  PROVE  PlanIsSound'
BY DEF PlanIsSound, RegionsAreDisjoint

LEMMA PlaceKeeps ==
  ASSUME PlanIsSound, NEW a \in {"weights", "workspace"}, NEW shape \in ShapeSet, Place(a, shape)
  PROVE  PlanIsSound'
<1>1. With(arenas[a], shape) \in ArenaSet /\ ArenaIsSound(With(arenas[a], shape))
  BY ArenaOf, PlacedIsSound DEF Place
<1>2. QED
  BY <1>1, ArenaChanges DEF Place

LEMMA AliasKeeps ==
  ASSUME PlanIsSound, NEW name \in Names, PlaceAlias(name)
  PROVE  PlanIsSound'
<1> DEFINE more == [Head(arenas.weights.items) EXCEPT !.name = name, !.alias = TRUE]
           new  == [arenas["weights"] EXCEPT !.items = Append(arenas["weights"].items, more)]
<1>1. arenas' = [arenas EXCEPT !["weights"] = new] /\ arenas["weights"].items # <<>>
  BY DEF PlaceAlias
<1>2. new \in ArenaSet /\ ArenaIsSound(new)
  BY <1>1, ArenaOf, AliasedIsSound
<1>3. QED
  BY <1>1, <1>2, ArenaChanges

LEMMA CloseKeeps ==
  ASSUME PlanIsSound, NEW a \in {"weights", "workspace"}, NEW next, Close(a, next)
  PROVE  PlanIsSound'
<1> DEFINE new == [arenas[a] EXCEPT !.bytes = Aligned(arenas[a].bytes)]
<1>1. arenas' = [arenas EXCEPT ![a] = new] /\ arenas[a].bytes + Alignment - 1 <= SizeMax
  BY DEF Close
<1>2. new \in ArenaSet /\ ArenaIsSound(new)
  BY <1>1, ArenaOf, ClosedIsSound
<1>3. QED
  BY <1>1, <1>2, ArenaChanges

-----------------------------------------------------------------------------
(***************************************************************************)
(* The order of the start: what has been checked by when.                  *)
(***************************************************************************)
Constructors == {"mappedFile", "metadata", "tokenizer", "host", "context", "weights", "workspace",
                 "kv", "events"}
Loading == {"clear", "upload", "decode", "copy", "await", "settle"}
Pcs == {"config", "bounds", "shapes", "plan", "budget", "device", "ready", "forward", "poisoned",
        "unwind", "gone"} \cup Constructors \cup Loading

PastConfig == Pcs \ {"config", "unwind", "gone"}
PastBounds == PastConfig \ {"mappedFile", "metadata", "bounds"}
PastShapes == PastBounds \ {"shapes"}

\* What is started is one of the starts, and the host is at a known place.
Started ==
  /\ \E start \in Starts : file = start[1] /\ config = start[2] /\ serving = start[3]
  /\ pc \in Pcs

Checked ==
  /\ pc \in PastConfig /\ serving => MiniCudaAccepts(c, m)
  /\ pc \in PastBounds => \A name \in DOMAIN file.tensors : Inside(file, file.tensors[name])
  /\ pc \in PastShapes => ModelIsSupported

LEMMA ConstructorsHaveParts == DOMAIN Parts = Constructors
BY DEF Parts, Constructors

LEMMA Order ==
  /\ After["config"] = "mappedFile" /\ After["mappedFile"] = "metadata"
  /\ After["metadata"] = "bounds" /\ After["bounds"] = "shapes"
  /\ After["shapes"] = "tokenizer" /\ After["tokenizer"] = "host" /\ After["host"] = "plan"
  /\ After["context"] = "budget" /\ After["budget"] = "weights"
  /\ After["weights"] = "workspace" /\ After["workspace"] = "kv" /\ After["kv"] = "clear"
  /\ After["settle"] = "events" /\ After["events"] = "device" /\ After["device"] = "ready"
BY DEF After

\* A step that a check does not guard.
Onward ==
  /\ UNCHANGED startVars /\ pc' \in Pcs
  /\ pc' \in PastConfig => pc \in PastConfig
  /\ pc' \in PastBounds => pc \in PastBounds
  /\ pc' \in PastShapes => pc \in PastShapes

LEMMA OnwardKeeps == ASSUME Started, Checked, Onward PROVE Started' /\ Checked'
<1>1. /\ file' = file /\ config' = config /\ serving' = serving
      /\ c' = c /\ m' = m /\ (ModelIsSupported)' = ModelIsSupported
  BY DEF Onward, startVars, c, m, ModelIsSupported, DimensionsAreSupported, dims, WeightNames,
         Read, Tied, Shape, Query, KeyValue
<1>2. Started'
  BY <1>1 DEF Started, Onward
<1>3. QED
  BY <1>1, <1>2 DEF Checked, Onward

LEMMA CheckKeeps == ASSUME Started, Checked, Check PROVE Started' /\ Checked'
<1>1. /\ file' = file /\ config' = config /\ serving' = serving
      /\ c' = c /\ m' = m /\ (ModelIsSupported)' = ModelIsSupported
  BY DEF Check, startVars, c, m, ModelIsSupported, DimensionsAreSupported, dims, WeightNames,
         Read, Tied, Shape, Query, KeyValue
<1>2. pc' = After[pc] /\ CheckPasses
  BY DEF Check
<1>3. CASE pc = "config"
  BY <1>1, <1>2, <1>3, Order
  DEF Started, Checked, CheckPasses, Pcs, PastConfig, PastBounds, PastShapes, Constructors
<1>4. CASE pc = "bounds"
  BY <1>1, <1>2, <1>4, Order
  DEF Started, Checked, CheckPasses, Pcs, PastConfig, PastBounds, PastShapes, Constructors
<1>5. CASE pc = "shapes"
  BY <1>1, <1>2, <1>5, Order
  DEF Started, Checked, CheckPasses, Pcs, PastConfig, PastBounds, PastShapes, Constructors
<1>6. CASE pc \in {"budget", "settle", "device"}
  <2>1. Onward
    BY <1>2, <1>6, Order
    DEF Check, Onward, Pcs, PastConfig, PastBounds, PastShapes, Constructors, Loading
  <2>2. QED
    BY <2>1, OnwardKeeps
<1>7. QED
  BY <1>2, <1>3, <1>4, <1>5, <1>6 DEF CheckPasses

LEMMA StepsGoOnward ==
  ASSUME Started, [Next]_vars, ~Check
  PROVE  Onward
<1> USE DEF Onward, startVars, Pcs, PastConfig, PastBounds, PastShapes, Constructors, Loading, Started
<1>1. CASE Acquire
  BY <1>1, ConstructorsHaveParts, Order DEF Acquire
<1>2. CASE Plan \/ Clear \/ StartItem
  BY <1>2 DEF Plan, Clear, StartItem
<1>3. CASE Decode \/ Copy \/ Await
  BY <1>3 DEF Decode, Copy, Await
<1>4. CASE Throw \/ Unwind \/ Destroy
  BY <1>4 DEF Throw, Unwind, Destroy
<1>5. CASE ExecuteCopy \/ Lose
  BY <1>5 DEF ExecuteCopy, Lose, hostVars
<1>6. CASE BeginForward \/ Enqueue \/ Execute
  BY <1>6 DEF BeginForward, Enqueue, Execute, hostVars
<1>7. CASE Commit \/ Fail
  BY <1>7 DEF Commit, Fail
<1>8. CASE Gone \/ UNCHANGED vars
  BY <1>8 DEF Gone, vars, startupVars, hostVars
<1>9. QED
  BY <1>1, <1>2, <1>3, <1>4, <1>5, <1>6, <1>7, <1>8 DEF Next, Startup, HostStep

LEMMA CourseStep == Started /\ Checked /\ [Next]_vars => Started' /\ Checked'
BY StepsGoOnward, OnwardKeeps, CheckKeeps

LEMMA CourseStarts == Init => Started /\ Checked
BY DEF Init, StartupInit, Started, Checked, Pcs, PastConfig, PastBounds, PastShapes

\* What is known of every file and configuration.
LEMMA StartTypes ==
  ASSUME Started
  PROVE  /\ file.base \in Nat /\ file.size \in Nat
         /\ \A name \in DOMAIN file.tensors :
              file.tensors[name] \in [offset : Nat, bytes : Nat, rows : Nat, columns : Nat, type : STRING]
         /\ dims \in [embedding : Nat, heads : Nat, kv_heads : Nat, head_dim : Nat,
                      feed_forward : Nat, trained : Nat]
         /\ c \in EngineConfig /\ m.layout \in {"paged", "contiguous"} /\ serving \in BOOLEAN
<1>1. PICK start \in Starts : file = start[1] /\ config = start[2] /\ serving = start[3]
  BY DEF Started
<1>2. QED
  BY <1>1, StartsAssumption DEF dims, c, m, EngineConfig

(***************************************************************************)
(* A configuration that is ready to serve was accepted, so the Engine takes*)
(* it and the KV cache covers its credits.                                 *)
(***************************************************************************)
THEOREM ConfigSound == Spec => []ConfigIsSound
<1>1. Started /\ Checked => ConfigIsSound
  <2>1. SUFFICES ASSUME Started, Checked, serving, pc = "ready"
                 PROVE  EngineAccepts(c, CudaCapabilities(c, m)) /\ Sound(c, m)
    BY DEF ConfigIsSound
  <2>2. MiniCudaAccepts(c, m)
    BY <2>1 DEF Checked, PastConfig, Pcs
  <2>3. QED
    BY <2>1, <2>2, StartTypes, AcceptedConfig
<1>2. QED
  BY <1>1, CourseStarts, CourseStep, PTL DEF Spec

-----------------------------------------------------------------------------
(***************************************************************************)
(* Every shape that is placed is one of numbers, and only Plan places.     *)
(***************************************************************************)
LEMMA WeightsAreNames ==
  WeightNames \in Seq(Names)
<1>1. LayerNames \in Seq(Names)
  <2>1. LayerWeights \subseteq Names
    BY DEF LayerWeights, Names
  <2>2. QED
    BY <2>1, StartsAssumption
<1>2. <<"token_embd", "output_norm", "output">> \in Seq(Names)
  BY DEF Names
<1>3. QED
  BY <1>1, <1>2, ConcatProperties DEF WeightNames

LEMMA MaxIsOne ==
  ASSUME NEW x \in Nat, NEW y \in Nat, NEW z \in Nat
  PROVE  Max({x, y, z}) \in Nat
<1>1. \E w \in {x, y, z} : \A v \in {x, y, z} : w >= v
  OBVIOUS
<1>2. QED
  BY <1>1 DEF Max

\* The sizes that the shapes are made of.
LEMMA SizesAreNatural ==
  ASSUME Started
  PROVE  /\ c.batch_tokens \in Nat /\ c.max_active \in Nat /\ c.max_model_len \in Nat
         /\ dims.embedding \in Nat /\ dims.feed_forward \in Nat /\ dims.head_dim \in Nat
         /\ Query \in Nat /\ KeyValue \in Nat /\ dims.heads * c.max_model_len \in Nat
         /\ InputColumns \in Nat /\ Blocks(c.max_model_len, KvPageTokens) \in Nat
<1>1. /\ c.batch_tokens \in Nat /\ c.max_active \in Nat /\ c.max_model_len \in Nat
      /\ dims.embedding \in Nat /\ dims.feed_forward \in Nat /\ dims.head_dim \in Nat
      /\ dims.heads \in Nat /\ dims.kv_heads \in Nat
  BY StartTypes DEF EngineConfig
<1>2. Query \in Nat /\ KeyValue \in Nat /\ dims.heads * c.max_model_len \in Nat
  BY <1>1, ProductIsNatural DEF Query, KeyValue
<1>3. InputColumns \in Nat
  BY <1>1, <1>2, MaxIsOne DEF InputColumns
<1>4. Blocks(c.max_model_len, KvPageTokens) \in Nat
  BY <1>1 DEF Blocks, KvPageTokens
<1>5. QED
  BY <1>1, <1>2, <1>3, <1>4

LEMMA WeightIsShape ==
  ASSUME Started, NEW name \in DOMAIN file.tensors, name \in Names
  PROVE  WeightShape(name) \in ShapeSet
BY StartTypes DEF WeightShape, ShapeSet

LEMMA RegionIsShape ==
  ASSUME NEW name \in Names, NEW rows \in Nat, NEW columns \in Nat
  PROVE  Region(name, rows, columns) \in ShapeSet
BY DEF Region, ShapeSet

LEMMA RegionsAreShapes ==
  ASSUME Started, file.tensors["token_embd"].rows \in Nat
  PROVE  WorkspaceShapes \in Seq(ShapeSet)
<1> DEFINE b == c.batch_tokens
           wide(name, columns) == Region(name, b, columns)
           always == <<wide("hidden", dims.embedding), wide("normalized", dims.embedding), wide("query", Query),
             wide("key", KeyValue), wide("value", KeyValue), wide("attention", Query),
             wide("projected", dims.embedding), wide("gate", dims.feed_forward), wide("up", dims.feed_forward),
             wide("down", dims.embedding), wide("selected_hidden", dims.embedding),
             wide("scores", dims.heads * c.max_model_len), wide("probabilities", dims.heads * c.max_model_len),
             wide("logits", file.tensors["token_embd"].rows),
             wide("tokens", 1), wide("positions", 1), wide("slots", 1), wide("selected_rows", 1),
             Region("pending_lengths", c.max_active, 1), wide("samples", 3), Region("status", 1, 2),
             Region("rope_coefficients", c.max_model_len, dims.head_dim)>>
           half  == IF m.precision = "f16"
                    THEN <<[wide("matrix_input", InputColumns) EXCEPT !.width = 2]>> ELSE <<>>
           paged == IF m.layout = "paged"
                    THEN <<Region("kv_block_table", c.max_active, Blocks(c.max_model_len, KvPageTokens))>>
                    ELSE <<>>
<1>1. always \in Seq(ShapeSet)
  <2>1. /\ wide("hidden", dims.embedding) \in ShapeSet /\ wide("normalized", dims.embedding) \in ShapeSet
        /\ wide("query", Query) \in ShapeSet /\ wide("key", KeyValue) \in ShapeSet
        /\ wide("value", KeyValue) \in ShapeSet /\ wide("attention", Query) \in ShapeSet
        /\ wide("projected", dims.embedding) \in ShapeSet /\ wide("gate", dims.feed_forward) \in ShapeSet
        /\ wide("up", dims.feed_forward) \in ShapeSet /\ wide("down", dims.embedding) \in ShapeSet
        /\ wide("selected_hidden", dims.embedding) \in ShapeSet
    BY SizesAreNatural, RegionIsShape DEF Names
  <2>2. /\ wide("scores", dims.heads * c.max_model_len) \in ShapeSet
        /\ wide("probabilities", dims.heads * c.max_model_len) \in ShapeSet
        /\ wide("logits", file.tensors["token_embd"].rows) \in ShapeSet
    BY SizesAreNatural, RegionIsShape DEF Names
  <2>3. /\ wide("tokens", 1) \in ShapeSet /\ wide("positions", 1) \in ShapeSet
        /\ wide("slots", 1) \in ShapeSet /\ wide("selected_rows", 1) \in ShapeSet
        /\ Region("pending_lengths", c.max_active, 1) \in ShapeSet /\ wide("samples", 3) \in ShapeSet
        /\ Region("status", 1, 2) \in ShapeSet
        /\ Region("rope_coefficients", c.max_model_len, dims.head_dim) \in ShapeSet
    BY SizesAreNatural, RegionIsShape DEF Names
  <2> HIDE DEF wide
  <2>4. QED
    BY <2>1, <2>2, <2>3
<1>2. half \in Seq(ShapeSet)
  <2>1. [wide("matrix_input", InputColumns) EXCEPT !.width = 2] \in ShapeSet
    BY SizesAreNatural DEF Region, ShapeSet, Names
  <2>2. QED
    BY <2>1
<1>3. paged \in Seq(ShapeSet)
  <2>1. Region("kv_block_table", c.max_active, Blocks(c.max_model_len, KvPageTokens)) \in ShapeSet
    BY SizesAreNatural, RegionIsShape DEF Names
  <2>2. QED
    BY <2>1
<1>4. (always \o half) \o paged \in Seq(ShapeSet)
  BY <1>1, <1>2, <1>3, ConcatProperties
<1>5. WorkspaceShapes = (always \o half) \o paged
  BY DEF WorkspaceShapes
<1>6. QED
  BY <1>4, <1>5

\* A name that is read was checked with the model.
LEMMA ReadNamesExist ==
  ASSUME Started, ModelIsSupported, NEW k \in 1..Len(WeightNames), Read(WeightNames[k])
  PROVE  /\ WeightNames[k] \in Names /\ WeightNames[k] \in DOMAIN file.tensors
         /\ Viewable(file.tensors[WeightNames[k]])
         /\ Shaped(file.tensors[WeightNames[k]], Shape[WeightNames[k]][1], Shape[WeightNames[k]][2])
BY WeightsAreNames, ElementOfSeq, LenProperties DEF ModelIsSupported

LEMMA EmbeddingExists ==
  ASSUME Started, ModelIsSupported
  PROVE  file.tensors["token_embd"].rows \in Nat
<1>1. 1 \in 1..Len(WeightNames) /\ WeightNames[1] = "token_embd"
  BY StartsAssumption, ConcatProperties, LenProperties DEF WeightNames
<1>2. QED
  BY <1>1, ReadNamesExist, StartTypes DEF Read

LEMMA PlanStep ==
  ASSUME Started, Checked, PlanIsSound, Plan
  PROVE  PlanIsSound'
<1>1. ModelIsSupported
  BY DEF Plan, Checked, PastShapes, PastBounds, PastConfig, Pcs
<1>2. CASE PlanWeight
  <2> DEFINE k == Len(arenas.weights.items) + 1
  <2>1. k \in Nat \ {0}
    BY ArenaOf, LenProperties DEF ArenaSet
  <2>2. CASE k > Len(WeightNames)
    BY <1>2, <2>2, CloseKeeps DEF PlanWeight
  <2>3. CASE k <= Len(WeightNames) /\ ~Read(WeightNames[k])
    <3>1. PlaceAlias(WeightNames[k]) /\ k \in 1..Len(WeightNames)
      BY <1>2, <2>1, <2>3, LenProperties, WeightsAreNames DEF PlanWeight
    <3>2. WeightNames[k] \in Names
      BY <3>1, WeightsAreNames, ElementOfSeq
    <3>3. QED
      BY <3>1, <3>2, AliasKeeps
  <2>4. CASE k <= Len(WeightNames) /\ Read(WeightNames[k])
    <3>1. Place("weights", WeightShape(WeightNames[k])) /\ k \in 1..Len(WeightNames)
      BY <1>2, <2>1, <2>4, LenProperties, WeightsAreNames DEF PlanWeight
    <3>2. WeightShape(WeightNames[k]) \in ShapeSet
      BY <1>1, <2>4, <3>1, ReadNamesExist, WeightIsShape
    <3>3. QED
      BY <3>1, <3>2, PlaceKeeps
  <2>5. QED
    BY <2>1, <2>2, <2>3, <2>4, WeightsAreNames, LenProperties
<1>3. CASE PlanRegion
  <2> DEFINE k == Len(arenas.workspace.items) + 1
  <2>1. k \in Nat \ {0} /\ WorkspaceShapes \in Seq(ShapeSet)
    BY <1>1, ArenaOf, LenProperties, EmbeddingExists, RegionsAreShapes DEF ArenaSet
  <2>2. CASE k <= Len(WorkspaceShapes)
    <3>1. Place("workspace", WorkspaceShapes[k]) /\ k \in 1..Len(WorkspaceShapes)
      BY <1>3, <2>1, <2>2, LenProperties DEF PlanRegion
    <3>2. WorkspaceShapes[k] \in ShapeSet
      BY <2>1, <3>1, ElementOfSeq
    <3>3. QED
      BY <3>1, <3>2, PlaceKeeps
  <2>3. CASE ~(k <= Len(WorkspaceShapes))
    BY <1>3, <2>3, CloseKeeps DEF PlanRegion
  <2>4. QED
    BY <2>2, <2>3
<1>4. QED
  BY <1>2, <1>3 DEF Plan

LEMMA OthersDoNotPlan == ASSUME [Next]_vars, ~Plan PROVE UNCHANGED planVars
<1>1. CASE Check \/ Acquire \/ Clear \/ StartItem
  BY <1>1 DEF Check, Acquire, Clear, StartItem
<1>2. CASE Decode \/ Copy \/ Await
  BY <1>2 DEF Decode, Copy, Await
<1>3. CASE Throw \/ Unwind \/ Destroy
  BY <1>3 DEF Throw, Unwind, Destroy
<1>4. CASE ExecuteCopy \/ Lose
  BY <1>4 DEF ExecuteCopy, Lose
<1>5. CASE BeginForward \/ Enqueue \/ Execute \/ Commit \/ Fail
  BY <1>5 DEF BeginForward, Enqueue, Execute, Commit, Fail
<1>6. CASE Gone \/ UNCHANGED vars
  BY <1>6 DEF Gone, vars, startupVars
<1>7. QED
  BY <1>1, <1>2, <1>3, <1>4, <1>5, <1>6 DEF Next, Startup, HostStep

\* However the sizes of a model are, and whatever overflows: no two regions of
\* a plan overlap, and all lie in their arena.
THEOREM RegionsDisjoint == Spec => []RegionsAreDisjoint
<1>1. Init => PlanIsSound
  BY PlanStarts DEF Init, StartupInit
<1>2. Started /\ Checked /\ PlanIsSound /\ [Next]_vars => PlanIsSound'
  <2>1. SUFFICES ASSUME Started, Checked, PlanIsSound, [Next]_vars PROVE PlanIsSound'
    OBVIOUS
  <2>2. CASE Plan
    BY <2>1, <2>2, PlanStep
  <2>3. CASE ~Plan
    BY <2>1, <2>3, OthersDoNotPlan DEF planVars, PlanIsSound, RegionsAreDisjoint
  <2>4. QED
    BY <2>2, <2>3
<1>3. PlanIsSound => RegionsAreDisjoint
  BY DEF PlanIsSound
<1>4. QED
  BY <1>1, <1>2, <1>3, CourseStarts, CourseStep, PTL DEF Spec

-----------------------------------------------------------------------------
(***************************************************************************)
(* The weights of the plan are those of the model, in order, so the upload *)
(* reads rows of tensors that were checked.                                *)
(***************************************************************************)
WeightsAreListed ==
  /\ Len(arenas.weights.items) <= Len(WeightNames)
  /\ \A k \in 1..Len(arenas.weights.items) :
       /\ arenas.weights.items[k].name = WeightNames[k]
       /\ arenas.weights.items[k].alias <=> ~Read(WeightNames[k])

UploadIsOnItsWay ==
  /\ item \in Nat \ {0}
  /\ pc \in {"decode", "copy", "await"} =>
       /\ item <= Len(arenas.weights.items) + 1
       /\ item <= Len(arenas.weights.items) => ~arenas.weights.items[item].alias

LEMMA SameNames ==
  ASSUME [Next]_vars
  PROVE  /\ file' = file /\ config' = config /\ WeightNames' = WeightNames
         /\ \A name : (Read(name))' = Read(name)
<1>1. UNCHANGED startVars
  <2>1. CASE Check \/ Acquire \/ Plan \/ Clear \/ StartItem
    BY <2>1 DEF Check, Acquire, Plan, Clear, StartItem
  <2>2. CASE Decode \/ Copy \/ Await
    BY <2>2 DEF Decode, Copy, Await
  <2>3. CASE Throw \/ Unwind \/ Destroy
    BY <2>3 DEF Throw, Unwind, Destroy
  <2>4. CASE ExecuteCopy \/ Lose
    BY <2>4 DEF ExecuteCopy, Lose
  <2>5. CASE BeginForward \/ Enqueue \/ Execute \/ Commit \/ Fail
    BY <2>5 DEF BeginForward, Enqueue, Execute, Commit, Fail
  <2>6. CASE Gone \/ UNCHANGED vars
    BY <2>6 DEF Gone, vars, startupVars
  <2>7. QED
    BY <2>1, <2>2, <2>3, <2>4, <2>5, <2>6 DEF Next, Startup, HostStep
<1>2. QED
  BY <1>1 DEF startVars, WeightNames, Read, Tied

\* One more weight is placed, under the name that is next.
LEMMA ListGrows ==
  ASSUME PlanIsSound, WeightsAreListed, WeightNames' = WeightNames,
         \A name : (Read(name))' = Read(name),
         NEW more, more.name = WeightNames[Len(arenas.weights.items) + 1],
         more.alias <=> ~Read(WeightNames[Len(arenas.weights.items) + 1]),
         Len(arenas.weights.items) + 1 <= Len(WeightNames),
         arenas.weights'.items = Append(arenas.weights.items, more)
  PROVE  WeightsAreListed'
<1> DEFINE items == arenas.weights.items
           new   == arenas.weights'.items
<1>1. items \in Seq(ItemSet) /\ Len(items) \in Nat
  BY ArenaOf, LenProperties DEF ArenaSet
<1>2. Len(new) = Len(items) + 1
  BY <1>1
<1>3. \A k \in 1..Len(items) : new[k] = items[k]
  BY <1>1
<1>4. new[Len(items) + 1] = more
  BY <1>1
<1>5. Len(WeightNames) \in Nat
  BY WeightsAreNames, LenProperties
<1> HIDE DEF items, new
<1>6. ASSUME NEW k \in 1..Len(new)
      PROVE  new[k].name = WeightNames[k] /\ (new[k].alias <=> ~Read(WeightNames[k]))
  <2>1. CASE k \in 1..Len(items)
    BY <2>1, <1>3 DEF WeightsAreListed, items
  <2>2. CASE k = Len(items) + 1
    BY <2>2, <1>4 DEF items
  <2>3. QED
    BY <2>1, <2>2, <1>1, <1>2
<1>7. QED
  BY <1>1, <1>2, <1>5, <1>6 DEF WeightsAreListed, items, new

LEMMA ListKept ==
  ASSUME WeightsAreListed, WeightNames' = WeightNames, \A name : (Read(name))' = Read(name),
         arenas.weights'.items = arenas.weights.items
  PROVE  WeightsAreListed'
BY DEF WeightsAreListed

LEMMA PlanLists ==
  ASSUME Started, Checked, PlanIsSound, WeightsAreListed, Plan, [Next]_vars
  PROVE  WeightsAreListed'
<1> DEFINE items == arenas.weights.items
           k     == Len(items) + 1
<1>1. /\ items \in Seq(ItemSet) /\ Len(items) \in Nat /\ Len(WeightNames) \in Nat
      /\ arenas \in [weights : ArenaSet, workspace : ArenaSet]
  BY ArenaOf, LenProperties, WeightsAreNames DEF ArenaSet, PlanIsSound
<1>2. WeightNames' = WeightNames /\ \A name : (Read(name))' = Read(name)
  BY SameNames
<1>3. CASE PlanWeight
  <2>1. CASE k > Len(WeightNames)
    <3>1. arenas.weights'.items = items
      BY <1>1, <1>3, <2>1 DEF PlanWeight, Close, ArenaSet
    <3>2. QED
      BY <1>2, <3>1, ListKept
  <2>2. CASE k <= Len(WeightNames) /\ ~Read(WeightNames[k])
    <3> DEFINE more == [Head(items) EXCEPT !.name = WeightNames[k], !.alias = TRUE]
    <3>1. PlaceAlias(WeightNames[k]) /\ ~(k > Len(WeightNames))
      BY <1>1, <1>3, <2>2 DEF PlanWeight
    <3>2. arenas.weights'.items = Append(items, more) /\ items # <<>>
      BY <1>1, <3>1 DEF PlaceAlias, ArenaSet
    <3>3. Head(items) \in ItemSet
      BY <1>1, <3>2, HeadTailProperties
    <3>4. more.name = WeightNames[k] /\ more.alias
      BY <3>3 DEF ItemSet
    <3> HIDE DEF more
    <3>5. QED
      BY <1>2, <2>2, <3>2, <3>4, ListGrows
  <2>3. CASE k <= Len(WeightNames) /\ Read(WeightNames[k])
    <3> DEFINE more == Item(arenas.weights, WeightShape(WeightNames[k]))
    <3>1. Place("weights", WeightShape(WeightNames[k])) /\ ~(k > Len(WeightNames))
      BY <1>1, <1>3, <2>3 DEF PlanWeight
    <3>2. arenas.weights'.items = Append(items, more)
      BY <1>1, <3>1 DEF Place, With, ArenaSet
    <3>3. more.name = WeightNames[k] /\ ~more.alias
      BY DEF Item, WeightShape
    <3> HIDE DEF more
    <3>4. QED
      BY <1>2, <2>3, <3>2, <3>3, ListGrows
  <2>4. QED
    BY <1>1, <2>1, <2>2, <2>3
<1>4. CASE PlanRegion
  <2>1. arenas.weights' = arenas.weights
    BY <1>1, <1>4 DEF PlanRegion, Place, Close
  <2>2. QED
    BY <1>2, <2>1, ListKept
<1>5. QED
  BY <1>3, <1>4 DEF Plan

LEMMA UploadStep ==
  ASSUME Started, PlanIsSound, UploadIsOnItsWay, [Next]_vars
  PROVE  UploadIsOnItsWay'
<1> DEFINE items == arenas.weights.items
<1>1. items \in Seq(ItemSet) /\ Len(items) \in Nat
  BY ArenaOf, LenProperties DEF ArenaSet
<1>2. Len(UploadList) = Len(items) + 1 /\ \A k \in 1..Len(items) : UploadList[k] = items[k]
  BY <1>1 DEF UploadList
<1>3. item \in Nat \ {0}
  BY DEF UploadIsOnItsWay
<1>4. CASE Plan
  BY <1>3, <1>4 DEF Plan, UploadIsOnItsWay, loadVars
<1>5. ASSUME ~Plan
      PROVE  arenas' = arenas
  BY <1>5, OthersDoNotPlan DEF planVars
<1>6. CASE StartItem
  <2>1. arenas' = arenas
    BY <1>6 DEF StartItem, planVars
  <2>2. CASE item > Len(UploadList)
    BY <1>3, <1>6, <2>2 DEF StartItem, UploadIsOnItsWay
  <2>3. CASE ~(item > Len(UploadList)) /\ Current.alias
    BY <1>3, <1>6, <2>3 DEF StartItem, UploadIsOnItsWay
  <2>4. CASE ~(item > Len(UploadList)) /\ ~Current.alias
    BY <1>1, <1>2, <1>3, <1>6, <2>1, <2>4 DEF StartItem, UploadIsOnItsWay, Current
  <2>5. QED
    BY <2>2, <2>3, <2>4
<1>7. CASE Decode \/ Copy \/ Await
  <2>1. arenas' = arenas /\ pc \in {"decode", "copy", "await"}
    BY <1>7 DEF Decode, Copy, Await, planVars
  <2>2. CASE item' = item
    BY <1>3, <2>1, <2>2 DEF UploadIsOnItsWay
  <2>3. CASE item' = item + 1 /\ pc' = "upload"
    BY <1>3, <2>3 DEF UploadIsOnItsWay
  <2>4. QED
    BY <1>7, <2>2, <2>3 DEF Decode, Copy, Await, loadVars
<1>8. CASE Throw \/ Destroy
  BY <1>8 DEF Throw, Destroy, Discard, UploadIsOnItsWay
<1>9. ASSUME item' = item, arenas' = arenas, pc' \in {"decode", "copy", "await"} => pc' = pc
      PROVE  UploadIsOnItsWay'
  BY <1>9 DEF UploadIsOnItsWay
<1>10. CASE Check \/ Acquire \/ Clear \/ Unwind
  <2>1. arenas' = arenas /\ item' = item
    BY <1>10 DEF Check, Acquire, Clear, Unwind, planVars, loadVars
  <2>2. pc' \in {"decode", "copy", "await"} => pc' = pc
    <3>1. CASE Check
      BY <3>1, Order DEF Check, CheckPasses
    <3>2. CASE Acquire
      BY <3>2, Order, ConstructorsHaveParts DEF Acquire, Constructors
    <3>3. CASE Clear \/ Unwind
      BY <3>3 DEF Clear, Unwind
    <3>4. QED
      BY <1>10, <3>1, <3>2, <3>3
  <2>3. QED
    BY <2>1, <2>2, <1>9
<1>11. CASE ExecuteCopy \/ Lose
  BY <1>9, <1>11 DEF ExecuteCopy, Lose, hostVars, loadVars, planVars
<1>12. CASE BeginForward \/ Enqueue \/ Execute
  BY <1>9, <1>12 DEF BeginForward, Enqueue, Execute, hostVars, loadVars, planVars
<1>13. CASE Commit \/ Fail \/ Gone \/ UNCHANGED vars
  BY <1>9, <1>13 DEF Commit, Fail, Gone, vars, startupVars, hostVars, loadVars, planVars
<1>14. QED
  BY <1>4, <1>6, <1>7, <1>8, <1>10, <1>11, <1>12, <1>13 DEF Next, Startup, HostStep

\* The widest row that Qwen3Model asks for.
LEMMA ColumnsAreBounded ==
  ASSUME Started, DimensionsAreSupported, NEW k \in 1..Len(WeightNames)
  PROVE  Shape[WeightNames[k]][2] \in Nat /\ Shape[WeightNames[k]][2] <= ExtentMax * ExtentMax
<1> DEFINE e == ExtentMax
           All == {"token_embd", "output_norm", "output"} \cup LayerWeights
<1>1. e \in Nat \ {0} /\ e * e \in Nat
  BY FileAssumption
<1>2. /\ dims.embedding \in 1..e /\ dims.heads \in 1..e /\ dims.head_dim \in 1..e
      /\ dims.feed_forward \in 1..e
  BY DEF DimensionsAreSupported
<1> HIDE DEF e
<1>3. e <= e * e
  BY <1>1
<1>4. Query \in Nat /\ Query <= e * e
  <2>1. dims.heads * dims.head_dim <= e * dims.head_dim
    BY <1>1, <1>2, ProductGrows
  <2>2. dims.head_dim * e <= e * e
    BY <1>1, <1>2, ProductGrows
  <2>3. e * dims.head_dim = dims.head_dim * e
    BY <1>1, <1>2
  <2>4. dims.heads * dims.head_dim \in Nat /\ e * dims.head_dim \in Nat
    BY <1>1, <1>2, ProductIsNatural
  <2>5. QED
    BY <1>1, <2>1, <2>2, <2>3, <2>4 DEF Query
<1>5. WeightNames[k] \in All
  <2>1. LayerNames \in Seq(All)
    BY StartsAssumption
  <2>2. <<"token_embd", "output_norm", "output">> \in Seq(All)
    OBVIOUS
  <2>3. WeightNames \in Seq(All)
    BY <2>1, <2>2, ConcatProperties DEF WeightNames
  <2>4. QED
    BY <2>3, ElementOfSeq
<1>6. Shape[WeightNames[k]][2] \in {dims.embedding, dims.head_dim, Query, dims.feed_forward}
  BY <1>5 DEF Shape, LayerWeights
<1> HIDE DEF e
<1>7. PICK w \in Nat : w = e * e
  BY <1>1
<1>8. dims.embedding \in Nat /\ dims.head_dim \in Nat /\ dims.feed_forward \in Nat
  BY <1>1, <1>2
<1>9. /\ dims.embedding <= w /\ dims.head_dim <= w /\ dims.feed_forward <= w
      /\ Query \in Nat /\ Query <= w
  BY <1>1, <1>2, <1>3, <1>4, <1>7
<1>10. \A v \in {dims.embedding, dims.head_dim, Query, dims.feed_forward} : v \in Nat /\ v <= w
  BY <1>8, <1>9
<1>11. Shape[WeightNames[k]][2] \in Nat /\ Shape[WeightNames[k]][2] <= w
  BY Zenon, <1>6, <1>10
<1>12. QED
  BY <1>7, <1>11 DEF e

\* Whatever the numbers in a file, and wherever a sum of them would wrap
\* around: no row that the upload decodes reaches beyond the mapping.
THEOREM RowsStay == Spec => []RowsStayInFile
<1> DEFINE I == PlanIsSound /\ WeightsAreListed /\ UploadIsOnItsWay
<1>1. Init => I
  <2>1. Init => PlanIsSound
    BY PlanStarts DEF Init, StartupInit
  <2>2. Init => Len(arenas.weights.items) = 0 /\ item = 1 /\ pc = "config"
    BY DEF Init, StartupInit, PlanInit, EmptyArena
  <2>3. Len(WeightNames) \in Nat
    BY WeightsAreNames, LenProperties
  <2>4. QED
    BY <2>1, <2>2, <2>3 DEF WeightsAreListed, UploadIsOnItsWay
<1>2. Started /\ Checked /\ I /\ [Next]_vars => I'
  <2>1. SUFFICES ASSUME Started, Checked, I, [Next]_vars PROVE I'
    OBVIOUS
  <2>2. UploadIsOnItsWay'
    BY <2>1, UploadStep
  <2>3. CASE Plan
    BY <2>1, <2>2, <2>3, PlanStep, PlanLists
  <2>4. CASE ~Plan
    <3>1. arenas' = arenas
      BY <2>1, <2>4, OthersDoNotPlan DEF planVars
    <3>2. PlanIsSound'
      BY <2>1, <3>1 DEF PlanIsSound, RegionsAreDisjoint
    <3>3. WeightsAreListed'
      BY <2>1, <3>1, SameNames, ListKept
    <3>4. QED
      BY <2>2, <3>2, <3>3
  <2>5. QED
    BY <2>3, <2>4
<1>3. Started /\ Checked /\ I => RowsStayInFile
  <2>1. SUFFICES ASSUME Started, Checked, I, pc = "decode", BufferOf = "weights"
                 PROVE  RowsInside(file, file.tensors[Current.name])
    BY DEF RowsStayInFile
  <2> DEFINE items == arenas.weights.items
             name  == WeightNames[item]
             t     == file.tensors[name]
  <2>2. items \in Seq(ItemSet) /\ Len(items) \in Nat /\ Len(WeightNames) \in Nat
    BY <2>1, ArenaOf, LenProperties, WeightsAreNames DEF ArenaSet
  <2>3. item \in 1..Len(items) /\ Current = items[item]
    BY <2>1, <2>2 DEF BufferOf, UploadList, Current, UploadIsOnItsWay
  <2>4. item \in 1..Len(WeightNames) /\ Current.name = name /\ Read(name)
    BY <2>1, <2>2, <2>3 DEF WeightsAreListed, UploadIsOnItsWay
  <2>5. ModelIsSupported /\ \A n \in DOMAIN file.tensors : Inside(file, file.tensors[n])
    BY <2>1 DEF Checked, Pcs, PastShapes, PastBounds, PastConfig, Constructors, Loading
  <2>6. name \in DOMAIN file.tensors /\ Viewable(t) /\ t.columns = Shape[name][2]
    BY <2>1, <2>4, <2>5, ReadNamesExist DEF Shaped
  <2>7. t.columns <= ExtentMax * ExtentMax
    BY <2>1, <2>4, <2>5, <2>6, ColumnsAreBounded DEF ModelIsSupported
  <2>8. /\ t.offset \in Nat /\ t.bytes \in Nat /\ t.rows \in Nat /\ t.columns \in Nat
        /\ file.base \in Nat /\ file.size \in Nat /\ Inside(file, t)
    BY <2>1, <2>5, <2>6, StartTypes
  <2>9. QED
    BY <2>4, <2>6, <2>7, <2>8, RowsOfAcceptedTensor
<1>4. QED
  BY <1>1, <1>2, <1>3, CourseStarts, CourseStep, PTL DEF Spec

-----------------------------------------------------------------------------
(***************************************************************************)
(* Whatever is held is owed to someone: to the constructor that is at work,*)
(* to an object on the stack, or to the device that is lost.               *)
(***************************************************************************)
Objects == Constructors \cup {"finish", "staging", "result"}

OwnersAreKnown ==
  /\ stack \in Seq(Objects) /\ pc \in Pcs
  /\ pc \in {"decode", "copy", "await"} =>
       Len(stack) >= 2 /\ stack[Len(stack) - 1] = "staging" /\ stack[Len(stack)] = "finish"
  /\ pc = "forward" => Len(stack) >= 1 /\ stack[Len(stack)] = "result"
  /\ pc = "gone" => stack = <<>>

DeviceParts == UNION {PartsOf(o) : o \in OnDevice}

OwnedBy(x, s) == \E i \in 1..Len(s) : x \in PartsOf(s[i])

HeldIsOwed ==
  \A x \in held : (lost /\ x \in DeviceParts) \/ x \in PartsOf(pc) \/ OwnedBy(x, stack)

LEMMA NoParts ==
  ASSUME NEW o, o \notin Constructors PROVE PartsOf(o) = {}
BY ConstructorsHaveParts DEF PartsOf

LEMMA PushedOnTop ==
  ASSUME NEW s \in Seq(Objects), NEW t \in Seq(Objects)
  PROVE  /\ s \o t \in Seq(Objects) /\ Len(s) \in Nat /\ Len(t) \in Nat
         /\ Len(s \o t) = Len(s) + Len(t)
         /\ \A k \in 1..Len(t) : (s \o t)[Len(s) + k] = t[k]
<1>1. /\ s \o t \in Seq(Objects) /\ Len(s) \in Nat /\ Len(t) \in Nat
      /\ Len(s \o t) = Len(s) + Len(t)
  BY ConcatProperties, LenProperties
<1>2. \A i \in 1..(Len(s) + Len(t)) : (s \o t)[i] = IF i <= Len(s) THEN s[i] ELSE t[i - Len(s)]
  BY ConcatProperties
<1>3. ASSUME NEW k \in 1..Len(t) PROVE (s \o t)[Len(s) + k] = t[k]
  <2>1. Len(s) + k \in 1..(Len(s) + Len(t)) /\ ~(Len(s) + k <= Len(s)) /\ (Len(s) + k) - Len(s) = k
    BY <1>1
  <2>2. QED
    BY <1>2, <2>1
<1>4. QED
  BY <1>1, <1>3

LEMMA WhatIsPushed ==
  ASSUME NEW o \in Constructors
  PROVE  Pushed(o) \in Seq(Objects) /\ Len(Pushed(o)) >= 1 /\ Pushed(o)[1] = o
<1>1. o \in Objects /\ "finish" \in Objects
  BY DEF Objects
<1>2. <<o>> \in Seq(Objects) /\ <<o, "finish">> \in Seq(Objects)
  BY <1>1
<1>3. CASE o = "kv"
  BY <1>2, <1>3 DEF Pushed
<1>4. CASE o # "kv"
  BY <1>2, <1>4 DEF Pushed
<1>5. QED
  BY <1>3, <1>4

LEMMA OwnedAfterPush ==
  ASSUME NEW s \in Seq(Objects), NEW t \in Seq(Objects), NEW x
  PROVE  OwnedBy(x, s) => OwnedBy(x, s \o t)
BY DEF OwnedBy

LEMMA OwnedAfterAppend ==
  ASSUME NEW s \in Seq(Objects), NEW o \in Objects, NEW x
  PROVE  OwnedBy(x, s) => OwnedBy(x, Append(s, o))
BY DEF OwnedBy

LEMMA OwnedAfterPop ==
  ASSUME NEW s \in Seq(Objects), s # <<>>, NEW x
  PROVE  OwnedBy(x, s) => x \in PartsOf(Last(s)) \/ OwnedBy(x, Front(s))
BY DEF OwnedBy, Last, Front

\* A step that leaves the stack as it is, and takes nothing.
LEMMA StillOwed ==
  ASSUME HeldIsOwed, stack' = stack, lost => lost', held' \subseteq held,
         pc' = pc \/ PartsOf(pc) = {}
  PROVE  HeldIsOwed'
BY DEF HeldIsOwed

LEMMA OwnersStep ==
  ASSUME OwnersAreKnown, [Next]_vars
  PROVE  OwnersAreKnown'
<1>1. /\ stack \in Seq(Objects) /\ Len(stack) \in Nat /\ pc \in Pcs
  BY LenProperties DEF OwnersAreKnown
<1> USE DEF OwnersAreKnown
<1>2. ASSUME stack' = stack, pc' = pc PROVE OwnersAreKnown'
  BY <1>2
<1>3. CASE Acquire
  <2>1. pc \in Constructors
    BY <1>3, ConstructorsHaveParts DEF Acquire
  <2>2. CASE UNCHANGED <<stack, pc, memory>>
    BY <2>2, <1>2
  <2>3. CASE stack' = stack \o Pushed(pc) /\ pc' = After[pc]
    <3>1. Pushed(pc) \in Seq(Objects)
      BY <2>1, WhatIsPushed
    <3>2. stack' \in Seq(Objects)
      BY <1>1, <2>3, <3>1, ConcatProperties
    <3>3. pc' \in {"metadata", "bounds", "host", "plan", "budget", "workspace", "kv", "clear", "device"}
      BY <2>1, <2>3, Order DEF Constructors
    <3>4. QED
      BY <3>2, <3>3 DEF Pcs, Constructors, Loading
  <2>4. QED
    BY <1>3, <2>2, <2>3 DEF Acquire
<1>4. CASE Check
  <2>1. pc' \in {"mappedFile", "shapes", "tokenizer", "weights", "events", "ready"}
    BY <1>4, Order DEF Check, CheckPasses
  <2>2. stack' \in Seq(Objects)
    BY <1>1, <1>4, AppendProperties DEF Check, Objects
  <2>3. QED
    BY <2>1, <2>2 DEF Pcs, Constructors, Loading
<1>5. CASE Plan \/ Clear
  BY <1>1, <1>5 DEF Plan, Clear, Pcs, Constructors, Loading
<1>6. CASE StartItem
  <2>1. CASE stack' = stack \o Frame /\ pc' = "decode"
    <3>1. Frame \in Seq(Objects) /\ Len(Frame) = 2 /\ Frame[1] = "staging" /\ Frame[2] = "finish"
      BY DEF Frame, Objects
    <3>2. stack' \in Seq(Objects) /\ Len(stack') = Len(stack) + 2
      <4>1. stack' \in Seq(Objects) /\ Len(stack') = Len(stack) + Len(Frame)
        BY Zenon, <1>1, <2>1, <3>1, PushedOnTop
      <4>2. QED
        BY <3>1, <4>1
    <3>3. stack'[Len(stack) + 1] = Frame[1] /\ stack'[Len(stack) + 2] = Frame[2]
      <4>1. 1 \in 1..Len(Frame) /\ 2 \in 1..Len(Frame)
        BY <3>1
      <4>2. QED
        BY Zenon, <1>1, <2>1, <3>1, <4>1, PushedOnTop
    <3>4. QED
      BY <1>1, <2>1, <3>1, <3>2, <3>3 DEF Pcs, Loading
  <2>2. CASE stack' = stack /\ pc' \in {"upload", "settle"}
    BY <1>1, <2>2 DEF Pcs, Loading
  <2>3. QED
    BY <1>6, <2>1, <2>2 DEF StartItem
<1>7. CASE Decode \/ Copy
  BY <1>1, <1>7 DEF Decode, Copy, Pcs, Loading
<1>8. CASE Await
  <2>1. CASE stack' = stack /\ pc' = "decode"
    BY <1>1, <1>8, <2>1 DEF Await, Pcs, Loading
  <2>2. CASE stack' = SubSeq(stack, 1, Len(stack) - Len(Frame)) /\ pc' = "upload"
    <3>1. Len(stack) >= 2 /\ Len(Frame) = 2
      BY <1>8 DEF Await, Frame
    <3>2. stack' \in Seq(Objects)
      BY <1>1, <2>2, <3>1, SubSeqProperties
    <3>3. QED
      BY <2>2, <3>2 DEF Pcs, Loading
  <2>3. QED
    BY <1>8, <2>1, <2>2 DEF Await
<1>9. CASE Throw \/ Destroy
  BY <1>1, <1>9 DEF Throw, Destroy, Pcs
<1>10. CASE Unwind
  <2>1. CASE stack = <<>> /\ pc' = "gone" /\ stack' = stack
    BY <1>1, <2>1 DEF Pcs
  <2>2. CASE stack # <<>> /\ stack' = Front(stack) /\ pc' = pc
    <3>1. stack' \in Seq(Objects)
      BY <1>1, <2>2, SubSeqProperties, EmptySeq DEF Front
    <3>2. QED
      BY <1>1, <1>10, <2>2, <3>1 DEF Unwind
  <2>3. QED
    BY <1>10, <2>1, <2>2 DEF Unwind
<1>11. CASE ExecuteCopy \/ Lose \/ Enqueue \/ Execute \/ Gone \/ UNCHANGED vars
  BY <1>2, <1>11 DEF ExecuteCopy, Lose, Enqueue, Execute, Gone, vars, startupVars, hostVars
<1>12. CASE BeginForward
  <2>1. stack' = Append(stack, "result") /\ pc' = "forward"
    BY <1>12 DEF BeginForward
  <2>2. stack' \in Seq(Objects) /\ Len(stack') = Len(stack) + 1 /\ stack'[Len(stack) + 1] = "result"
    BY <1>1, <2>1, AppendProperties DEF Objects
  <2>3. QED
    BY <1>1, <2>1, <2>2 DEF Pcs
<1>13. CASE Commit \/ Fail
  <2>1. stack' = Front(stack) /\ pc' \in {"ready", "poisoned"} /\ Len(stack) >= 1
    BY <1>13 DEF Commit, Fail
  <2>2. stack' \in Seq(Objects)
    BY <1>1, <2>1, SubSeqProperties DEF Front
  <2>3. QED
    BY <2>1, <2>2 DEF Pcs
<1>14. QED
  BY <1>3, <1>4, <1>5, <1>6, <1>7, <1>8, <1>9, <1>10, <1>11, <1>12, <1>13 DEF Next, Startup, HostStep

LEMMA HeldStep ==
  ASSUME OwnersAreKnown, HeldIsOwed, [Next]_vars
  PROVE  HeldIsOwed'
<1>1. stack \in Seq(Objects) /\ Len(stack) \in Nat /\ pc \in Pcs
  BY LenProperties DEF OwnersAreKnown
<1>2. CASE Acquire
  <2>1. PICK k \in DOMAIN Parts[pc] :
          /\ NextPart(pc, k) /\ held' = held \cup {Parts[pc][k]}
          /\ IF k = Len(Parts[pc])
             THEN stack' = stack \o Pushed(pc) /\ pc' = After[pc] /\ memory' = Contents(pc)
             ELSE UNCHANGED <<stack, pc, memory>>
    BY <1>2 DEF Acquire
  <2>2. pc \in Constructors /\ lost' = lost
    BY <1>2, ConstructorsHaveParts DEF Acquire
  <2>3. Parts[pc][k] \in PartsOf(pc)
    BY <2>1, <2>2, ConstructorsHaveParts DEF PartsOf, Range
  <2>4. CASE UNCHANGED <<stack, pc, memory>>
    BY <2>1, <2>2, <2>3, <2>4 DEF HeldIsOwed
  <2>5. CASE stack' = stack \o Pushed(pc)
    <3>1. Pushed(pc) \in Seq(Objects) /\ Len(Pushed(pc)) >= 1 /\ Pushed(pc)[1] = pc
      BY <2>2, WhatIsPushed
    <3>2. Len(stack') = Len(stack) + Len(Pushed(pc)) /\ stack'[Len(stack) + 1] = pc
      <4>1. 1 \in 1..Len(Pushed(pc))
        BY <3>1, LenProperties
      <4>2. QED
        BY Zenon, <1>1, <2>5, <3>1, <4>1, PushedOnTop
    <3>3. \A x \in PartsOf(pc) : OwnedBy(x, stack')
      BY <1>1, <3>1, <3>2, LenProperties DEF OwnedBy
    <3>4. \A x : OwnedBy(x, stack) => OwnedBy(x, stack')
      BY <1>1, <2>5, <3>1, OwnedAfterPush
    <3>5. QED
      BY <2>1, <2>2, <2>3, <3>3, <3>4 DEF HeldIsOwed
  <2>6. QED
    BY <2>1, <2>4, <2>5
<1>3. CASE Check
  <2>1. held' = held /\ lost' = lost /\ PartsOf(pc) = {}
    BY <1>3, NoParts DEF Check, CheckPasses, Constructors
  <2>2. \A x : OwnedBy(x, stack) => OwnedBy(x, stack')
    BY <1>1, <1>3, OwnedAfterAppend DEF Check, Objects
  <2>3. QED
    BY <2>1, <2>2 DEF HeldIsOwed
<1>4. CASE Plan \/ Clear \/ Decode \/ Copy
  <2>1. stack' = stack /\ lost' = lost /\ held' = held /\ pc \in {"plan", "clear", "decode", "copy"}
    BY <1>4 DEF Plan, Clear, Decode, Copy
  <2>2. PartsOf(pc) = {}
    BY <2>1, NoParts DEF Constructors
  <2>3. QED
    BY <2>1, <2>2, StillOwed
<1>5. CASE StartItem
  <2>1. held' = held /\ lost' = lost /\ PartsOf(pc) = {}
    BY <1>5, NoParts DEF StartItem, Constructors
  <2>2. stack' = stack \/ stack' = stack \o Frame
    BY <1>5 DEF StartItem
  <2>3. Frame \in Seq(Objects)
    BY DEF Frame, Objects
  <2>4. \A x : OwnedBy(x, stack) => OwnedBy(x, stack')
    BY <1>1, <2>2, <2>3, OwnedAfterPush
  <2>5. QED
    BY <2>1, <2>4 DEF HeldIsOwed
<1>6. CASE Await
  <2>1. held' = held /\ lost' = lost /\ PartsOf(pc) = {}
    BY <1>6, NoParts DEF Await, Constructors
  <2>2. stack' = stack \/ stack' = SubSeq(stack, 1, Len(stack) - Len(Frame))
    BY <1>6 DEF Await
  <2>3. /\ Len(stack) >= 2 /\ Len(Frame) = 2
        /\ stack[Len(stack) - 1] = "staging" /\ stack[Len(stack)] = "finish"
    BY <1>6 DEF Await, Frame, OwnersAreKnown
  <2>4. PartsOf("staging") = {} /\ PartsOf("finish") = {}
    BY NoParts DEF Constructors
  <2>5. \A x : OwnedBy(x, stack) => OwnedBy(x, stack')
    <3>1. CASE stack' = stack
      BY <3>1
    <3>2. CASE stack' = SubSeq(stack, 1, Len(stack) - 2)
      <4>1. Len(stack') = Len(stack) - 2 /\ \A i \in 1..(Len(stack) - 2) : stack'[i] = stack[i]
        <5>1. \A i \in 1..(Len(stack) - 2) : stack[i] \in Objects
          BY <1>1, ElementOfSeq
        <5>2. 1 \in Int /\ Len(stack) - 2 \in Int /\ (Len(stack) - 2) - 1 + 1 = Len(stack) - 2
          BY <1>1
        <5>3. \A i \in 1..(Len(stack) - 2) : stack'[i] = stack[1 + i - 1]
          BY <3>2, <5>1, <5>2, SubSeqProperties
        <5>4. Len(stack') = IF 1 <= Len(stack) - 2 THEN (Len(stack) - 2) - 1 + 1 ELSE 0
          BY <3>2, <5>1, <5>2, SubSeqProperties
        <5>5. Len(stack') = Len(stack) - 2
          <6>1. PICK n \in Nat : n = Len(stack)
            BY <1>1
          <6>2. n >= 2 /\ Len(stack') = IF 1 <= n - 2 THEN (n - 2) - 1 + 1 ELSE 0
            BY Zenon, <2>3, <5>4, <6>1
          <6>3. (IF 1 <= n - 2 THEN (n - 2) - 1 + 1 ELSE 0) = n - 2
            BY <6>2
          <6>4. QED
            BY <6>1, <6>2, <6>3
        <5>6. ASSUME NEW i \in 1..(Len(stack) - 2) PROVE stack'[i] = stack[i]
          <6>1. stack'[i] = stack[1 + i - 1] /\ 1 + i - 1 = i
            BY <1>1, <5>3
          <6>2. QED
            BY Zenon, <6>1
        <5>7. QED
          BY <5>5, <5>6
      <4>2. SUFFICES ASSUME NEW x, NEW i \in 1..Len(stack), x \in PartsOf(stack[i])
                     PROVE  OwnedBy(x, stack')
        BY DEF OwnedBy
      <4>3. i \in 1..(Len(stack) - 2)
        BY <1>1, <2>3, <2>4, <4>2
      <4>4. QED
        BY <4>1, <4>2, <4>3 DEF OwnedBy
    <3>3. QED
      BY <2>2, <2>3, <3>1, <3>2
  <2>6. QED
    BY <2>1, <2>5 DEF HeldIsOwed
<1>7. CASE Throw
  <2>1. stack' = stack /\ lost' = lost /\ pc' = "unwind"
    BY <1>7 DEF Throw
  <2>2. CASE lost /\ pc \in OnDevice
    <3>1. held' = held /\ \A x \in PartsOf(pc) : x \in DeviceParts
      BY <1>7, <2>2 DEF Throw, DeviceParts
    <3>2. QED
      BY <2>1, <2>2, <3>1 DEF HeldIsOwed
  <2>3. CASE ~(lost /\ pc \in OnDevice)
    <3>1. held' = held \ PartsOf(pc)
      BY <1>7, <2>3 DEF Throw, GivenUp
    <3>2. QED
      BY <2>1, <3>1 DEF HeldIsOwed
  <2>4. QED
    BY <2>2, <2>3
<1>8. CASE Destroy
  <2>1. stack' = stack /\ lost' = lost /\ held' = held /\ PartsOf(pc) = {}
    BY <1>8, NoParts DEF Destroy, Constructors
  <2>2. QED
    BY <2>1, StillOwed
<1>9. CASE Unwind
  <2>1. lost' = lost /\ PartsOf(pc) = {}
    BY <1>9, NoParts DEF Unwind, Constructors
  <2>2. CASE stack = <<>>
    <3>1. stack' = stack /\ held' = held
      BY <1>9, <2>2 DEF Unwind
    <3>2. QED
      BY <2>1, <3>1, StillOwed
  <2>3. CASE stack # <<>>
    <3> DEFINE top == Last(stack)
    <3>1. /\ stack' = Front(stack)
          /\ held' = IF lost /\ top \in OnDevice THEN held ELSE held \ PartsOf(top)
      BY <1>9, <2>3 DEF Unwind
    <3>2. \A x : OwnedBy(x, stack) => x \in PartsOf(top) \/ OwnedBy(x, stack')
      BY <1>1, <2>3, <3>1, OwnedAfterPop
    <3>3. top \in OnDevice => \A x \in PartsOf(top) : x \in DeviceParts
      BY DEF DeviceParts
    <3> HIDE DEF top
    <3>4. CASE lost /\ top \in OnDevice
      BY <2>1, <3>1, <3>2, <3>3, <3>4 DEF HeldIsOwed
    <3>5. CASE ~(lost /\ top \in OnDevice)
      BY <2>1, <3>1, <3>2, <3>5 DEF HeldIsOwed
    <3>6. QED
      BY <3>4, <3>5
  <2>4. QED
    BY <2>2, <2>3
<1>10. CASE ExecuteCopy \/ Lose \/ Enqueue \/ Execute \/ Gone \/ UNCHANGED vars
  <2>1. stack' = stack /\ held' = held /\ pc' = pc /\ (lost => lost')
    BY <1>10 DEF ExecuteCopy, Lose, Enqueue, Execute, Gone, vars, startupVars, hostVars
  <2>2. QED
    BY <2>1, StillOwed
<1>11. CASE BeginForward
  <2>1. held' = held /\ lost' = lost /\ PartsOf(pc) = {} /\ stack' = Append(stack, "result")
    BY <1>11, NoParts DEF BeginForward, Constructors
  <2>2. \A x : OwnedBy(x, stack) => OwnedBy(x, stack')
    BY <1>1, <2>1, OwnedAfterAppend DEF Objects
  <2>3. QED
    BY <2>1, <2>2 DEF HeldIsOwed
<1>12. CASE Commit \/ Fail
  <2>1. /\ held' = held /\ lost' = lost /\ PartsOf(pc) = {} /\ stack' = Front(stack)
        /\ Len(stack) >= 1 /\ stack[Len(stack)] = "result"
    BY <1>12, NoParts DEF Commit, Fail, OwnersAreKnown, Constructors
  <2>2. PartsOf(Last(stack)) = {} /\ stack # <<>>
    BY <1>1, <2>1, NoParts, EmptySeq DEF Last, Constructors
  <2>3. \A x : OwnedBy(x, stack) => OwnedBy(x, stack')
    BY <1>1, <2>1, <2>2, OwnedAfterPop
  <2>4. QED
    BY <2>1, <2>3 DEF HeldIsOwed
<1>13. QED
  BY <1>2, <1>3, <1>4, <1>5, <1>6, <1>7, <1>8, <1>9, <1>10, <1>11, <1>12 DEF Next, Startup, HostStep

\* Whichever constructor throws, and wherever in it: when all is unwound,
\* nothing is held but what a lost device keeps.
THEOREM NoLeak == Spec => []NothingLeaks
<1>1. Init => OwnersAreKnown /\ HeldIsOwed
  BY EmptySeq DEF Init, StartupInit, OwnersAreKnown, HeldIsOwed, Pcs
<1>2. OwnersAreKnown /\ HeldIsOwed /\ [Next]_vars => (OwnersAreKnown /\ HeldIsOwed)'
  BY OwnersStep, HeldStep
<1>3. OwnersAreKnown /\ HeldIsOwed => NothingLeaks
  <2>1. SUFFICES ASSUME OwnersAreKnown, HeldIsOwed, pc = "gone"
                 PROVE  held \subseteq (IF lost THEN DeviceParts ELSE {})
    BY DEF NothingLeaks, DeviceParts
  <2>2. stack = <<>> /\ PartsOf(pc) = {}
    BY <2>1, NoParts DEF OwnersAreKnown, Constructors
  <2>3. \A x : ~OwnedBy(x, stack)
    BY <2>2, EmptySeq DEF OwnedBy
  <2>4. QED
    BY <2>1, <2>2, <2>3 DEF HeldIsOwed
<1>4. QED
  BY <1>1, <1>2, <1>3, PTL DEF Spec

-----------------------------------------------------------------------------
(***************************************************************************)
(* Memory: while an operation is in flight, nothing that it touches is     *)
(* given back, and it stays inside its buffer.  Before the upload and      *)
(* after the settling nothing is in flight but in a forward; and whenever  *)
(* something is, a wait is on top of the stack, so that no destructor runs.*)
(***************************************************************************)
Live == Loading \cup {"events", "device", "ready", "forward", "poisoned"}
HasWorkspace == Live \cup {"kv"}
HasWeights   == HasWorkspace \cup {"workspace"}
HasContext   == HasWeights \cup {"budget", "weights"}
HasHost      == HasContext \cup {"plan", "context"}
HasPlan      == HasContext \cup {"context"}

OnStack(object) == \E i \in 1..Len(stack) : stack[i] = object

\* What exists when, and how large it is.
Allocated ==
  /\ pc \in HasHost => OnStack("host")
  /\ pc \in HasPlan => planned = "laid"
  /\ pc \in HasContext => "stream" \in held
  /\ pc \in HasWeights => "weights" \in held /\ Len(memory.weights) = arenas.weights.bytes
  /\ pc \in HasWorkspace => "workspace" \in held /\ Len(memory.workspace) = arenas.workspace.bytes
  /\ pc \in Live => "kv" \in held

Buffers == {"weights", "workspace"}

BuffersAreBytes ==
  /\ DOMAIN memory = Buffers \cup {"kv"}
  /\ \A b \in Buffers : memory[b] \in Seq(Range(memory[b]))

\* The waits that keep destructors away.
WaitsAreOwed ==
  /\ pc \in {"clear", "upload", "settle"} => Len(stack) >= 1 /\ stack[Len(stack)] = "finish"
  /\ pc \in {"decode", "copy", "await"} => Len(stack) >= 3 /\ stack[Len(stack) - 2] = "finish"
  /\ pc = "unwind" /\ stream # <<>> => Len(stack) >= 1 /\ stack[Len(stack)] = "finish"

InFlight ==
  /\ stream \in Seq(Range(stream))
  /\ \A k \in DOMAIN stream : stream[k].buffer \in Buffers \cup {"kv"}
  /\ stream # <<>> => pc \in {"upload", "decode", "copy", "await", "settle", "forward", "unwind"}

ItemsAreMeasured ==
  \A a \in Buffers : \A k \in 1..Len(arenas[a].items) : LET i == arenas[a].items[k] IN
    ~i.alias => i.bytes = i.rows * i.columns * i.width /\ i.columns # 0

\* The regions of the plan are those that were asked for, in order.
RegionsAreListed ==
  /\ Len(arenas.workspace.items) <= Len(WorkspaceShapes)
  /\ planned = "laid" => Len(arenas.workspace.items) = Len(WorkspaceShapes)
  /\ \A k \in 1..Len(arenas.workspace.items) :
       LET r == arenas.workspace.items[k]
           s == WorkspaceShapes[k]
       IN /\ r.name = s.name /\ r.rows = s.rows /\ r.columns = s.columns /\ r.width = s.width
          /\ ~r.alias

ChunkIsInside ==
  pc \in {"decode", "copy", "await"} => first \in Nat /\ first <= Current.rows /\ ~Current.alias

MemoryInv ==
  /\ Allocated /\ BuffersAreBytes /\ WaitsAreOwed /\ InFlight /\ MemoryIsSafe

\* A function on 1..n is a sequence of that length.
LEMMA BytesAreSeq ==
  ASSUME NEW S, NEW n \in Nat, NEW f \in [1..n -> S]
  PROVE  f \in Seq(S) /\ Len(f) = n
OBVIOUS

LEMMA OwnRange ==
  ASSUME NEW S, NEW s \in Seq(S)
  PROVE  s \in Seq(Range(s))
<1>1. Len(s) \in Nat /\ DOMAIN s = 1..Len(s) /\ s = [i \in 1..Len(s) |-> s[i]]
  BY LenProperties
<1>2. s \in [1..Len(s) -> Range(s)]
  BY <1>1 DEF Range
<1>3. QED
  BY <1>1, <1>2, BytesAreSeq

\* What is written into a buffer leaves its length as it was.
LEMMA SameLength ==
  ASSUME NEW s, s \in Seq(Range(s)), NEW t, t = [a \in DOMAIN s |-> t[a]]
  PROVE  t \in Seq(Range(t)) /\ Len(t) = Len(s)
<1>1. Len(s) \in Nat /\ DOMAIN s = 1..Len(s)
  BY LenProperties
<1>2. DOMAIN t = DOMAIN s
  OBVIOUS
<1>3. t \in [1..Len(s) -> Range(t)]
  BY <1>1, <1>2 DEF Range
<1>4. QED
  BY <1>1, <1>3, BytesAreSeq

SameSizes == \A b \in Buffers : Len(memory'[b]) = Len(memory[b])

LEMMA EffectKeeps ==
  ASSUME BuffersAreBytes, NEW op, op.buffer \in Buffers \cup {"kv"}, memory' = Effect(op)
  PROVE  BuffersAreBytes' /\ SameSizes
<1>1. CASE op.buffer = "kv"
  <2>1. DOMAIN memory' = DOMAIN memory /\ \A b \in Buffers : memory'[b] = memory[b]
    BY <1>1 DEF Effect, Buffers
  <2>2. QED
    BY <2>1 DEF BuffersAreBytes, SameSizes
<1>2. CASE op.buffer \in Buffers
  <2> DEFINE b == op.buffer
             new == [a \in DOMAIN memory[b] |->
                       IF a \notin (op.offset + 1)..(op.offset + op.bytes) THEN memory[b][a]
                       ELSE IF op.host = "none" THEN Cell(op.fill, 0, 0)
                       ELSE IF a - op.offset \in DOMAIN staging THEN staging[a - op.offset]
                       ELSE Cell("junk", 0, 0)]
  <2>1. b # "kv" /\ memory' = [memory EXCEPT ![b] = new]
    BY <1>2 DEF Effect, Buffers
  <2>2. DOMAIN memory' = DOMAIN memory /\ memory'[b] = new /\ \A o \in Buffers \ {b} : memory'[o] = memory[o]
    BY <2>1, <1>2 DEF BuffersAreBytes
  <2>3. new = [a \in DOMAIN memory[b] |-> new[a]]
    OBVIOUS
  <2> HIDE DEF new
  <2>4. new \in Seq(Range(new)) /\ Len(new) = Len(memory[b])
    BY <1>2, <2>3, SameLength DEF BuffersAreBytes
  <2>5. QED
    BY <2>2, <2>4 DEF BuffersAreBytes, SameSizes
<1>3. QED
  BY <1>1, <1>2

LEMMA DiscardKeeps ==
  ASSUME BuffersAreBytes, Discard
  PROVE  BuffersAreBytes' /\ SameSizes
<1> DEFINE junk(s) == [a \in DOMAIN s |-> Cell("junk", 0, 0)]
<1>1. memory' = [memory EXCEPT !.weights = junk(@), !.workspace = junk(@)]
  BY DEF Discard
<1>2. /\ DOMAIN memory' = DOMAIN memory
      /\ memory'["weights"] = junk(memory["weights"]) /\ memory'["workspace"] = junk(memory["workspace"])
  BY <1>1 DEF BuffersAreBytes, Buffers
<1>3. ASSUME NEW s, s \in Seq(Range(s)) PROVE junk(s) \in Seq(Range(junk(s))) /\ Len(junk(s)) = Len(s)
  <2>1. junk(s) = [a \in DOMAIN s |-> junk(s)[a]]
    OBVIOUS
  <2> HIDE DEF junk
  <2>2. QED
    BY <1>3, <2>1, SameLength
<1> HIDE DEF junk
<1>4. QED
  BY <1>2, <1>3 DEF BuffersAreBytes, SameSizes, Buffers

\* A buffer of so many bytes.
LEMMA FreshBuffer ==
  ASSUME NEW n \in Nat, NEW s, s = [a \in 1..n |-> Cell("junk", 0, 0)]
  PROVE  s \in Seq(Range(s)) /\ Len(s) = n
<1>1. s \in [1..n -> Range(s)]
  BY DEF Range
<1>2. QED
  BY <1>1, BytesAreSeq

LEMMA ContentsKeeps ==
  ASSUME PlanIsSound, BuffersAreBytes, NEW o \in Constructors, memory' = Contents(o)
  PROVE  /\ BuffersAreBytes'
         /\ \A b \in Buffers : b # o => Len(memory'[b]) = Len(memory[b])
         /\ o \in Buffers => Len(memory'[o]) = arenas[o].bytes
<1>1. ASSUME o \in Buffers
      PROVE  /\ DOMAIN memory' = DOMAIN memory
             /\ memory'[o] = [a \in 1..arenas[o].bytes |-> Cell("junk", 0, 0)]
             /\ \A b \in Buffers \ {o} : memory'[b] = memory[b]
  <2>1. CASE o = "weights"
    BY <2>1 DEF Contents, BuffersAreBytes, Buffers
  <2>2. CASE o = "workspace"
    BY <2>2 DEF Contents, BuffersAreBytes, Buffers
  <2>3. QED
    BY <1>1, <2>1, <2>2 DEF Buffers
<1>2. ASSUME o \notin Buffers
      PROVE  DOMAIN memory' = DOMAIN memory /\ \A b \in Buffers : memory'[b] = memory[b]
  BY <1>2 DEF Contents, BuffersAreBytes, Buffers
<1>3. CASE o \in Buffers
  <2>1. arenas[o].bytes \in Nat
    BY <1>3, ArenaOf DEF Buffers, ArenaSet
  <2>2. memory'[o] \in Seq(Range(memory'[o])) /\ Len(memory'[o]) = arenas[o].bytes
    BY <1>1, <1>3, <2>1, FreshBuffer
  <2>3. QED
    BY <1>1, <1>3, <2>2 DEF BuffersAreBytes
<1>4. CASE o \notin Buffers
  BY <1>2, <1>4 DEF BuffersAreBytes
<1>5. QED
  BY <1>3, <1>4

-----------------------------------------------------------------------------
(***************************************************************************)
(* What happens to the operations in flight, kind by kind.                 *)
(***************************************************************************)
LEMMA NothingInFlight ==
  ASSUME stream' = <<>>
  PROVE  InFlight' /\ MemoryIsSafe'
<1>1. DOMAIN stream' = {} /\ stream' \in Seq(Range(stream'))
  BY EmptySeq, LenProperties
<1>2. QED
  BY <1>1 DEF InFlight, MemoryIsSafe

StackKeeps == Range(stack) \subseteq Range(stack')

\* What MemoryIsSafe says of one operation.
SafeOp(op, hand, bytes, objects) ==
  /\ op.buffer \in Buffers \cup {"kv"}
  /\ {"stream", op.buffer} \subseteq hand
  /\ op.buffer # "kv" => op.offset + op.bytes <= Len(bytes[op.buffer])
  /\ op.host # "none" => op.host \in Range(objects)

Flying == {"upload", "decode", "copy", "await", "settle", "forward", "unwind"}

LEMMA EachIsSafe ==
  ASSUME InFlight, MemoryIsSafe, NEW k \in DOMAIN stream
  PROVE  SafeOp(stream[k], held, memory, stack)
BY DEF InFlight, MemoryIsSafe, SafeOp

LEMMA AllAreSafe ==
  ASSUME NEW S, stream' \in Seq(S), pc' \in Flying,
         \A k \in DOMAIN stream' : SafeOp(stream'[k], held', memory', stack')
  PROVE  InFlight' /\ MemoryIsSafe'
<1>1. stream' \in Seq(Range(stream'))
  BY OwnRange
<1>2. InFlight'
  BY <1>1 DEF InFlight, SafeOp, Flying
<1>3. MemoryIsSafe'
  BY DEF MemoryIsSafe, SafeOp
<1>4. QED
  BY <1>2, <1>3

\* An operation stays safe while nothing is given back and nothing resized.
LEMMA StaysSafe ==
  ASSUME NEW op, SafeOp(op, held, memory, stack), held' = held, SameSizes, StackKeeps
  PROVE  SafeOp(op, held', memory', stack')
BY DEF SafeOp, SameSizes, StackKeeps, Buffers

LEMMA StreamKept ==
  ASSUME InFlight, MemoryIsSafe, stream' = stream, held' = held, SameSizes, StackKeeps,
         stream # <<>> => pc' \in Flying
  PROVE  InFlight' /\ MemoryIsSafe'
<1>1. CASE stream = <<>>
  BY <1>1, NothingInFlight
<1>2. CASE stream # <<>>
  <2>1. \A k \in DOMAIN stream : SafeOp(stream[k], held', memory', stack')
    BY EachIsSafe, StaysSafe
  <2>2. stream' \in Seq(Range(stream)) /\ pc' \in Flying
    BY <1>2 DEF InFlight
  <2>3. \A k \in DOMAIN stream' : SafeOp(stream'[k], held', memory', stack')
    BY <2>1
  <2>4. QED
    BY <2>2, <2>3, AllAreSafe
<1>3. QED
  BY <1>1, <1>2

\* The device has done the first operation.
LEMMA StreamAdvances ==
  ASSUME InFlight, MemoryIsSafe, stream # <<>>, stream' = Tail(stream), held' = held, SameSizes,
         StackKeeps, pc' = pc
  PROVE  InFlight' /\ MemoryIsSafe'
<1>1. stream \in Seq(Range(stream)) /\ pc \in Flying
  BY DEF InFlight, Flying
<1>2. /\ stream' \in Seq(Range(stream)) /\ Len(stream) \in Nat
      /\ DOMAIN stream = 1..Len(stream) /\ DOMAIN stream' = 1..(Len(stream) - 1)
      /\ \A k \in 1..(Len(stream) - 1) : stream'[k] = stream[k + 1]
  <2>1. stream' \in Seq(Range(stream)) /\ Len(stream') = Len(stream) - 1
    BY <1>1, HeadTailProperties
  <2>2. \A k \in 1..Len(Tail(stream)) : Tail(stream)[k] = stream[k + 1]
    BY <1>1, HeadTailProperties
  <2>3. QED
    BY <1>1, <2>1, <2>2, LenProperties
<1>3. ASSUME NEW k \in DOMAIN stream' PROVE SafeOp(stream'[k], held', memory', stack')
  <2>1. k + 1 \in DOMAIN stream /\ stream'[k] = stream[k + 1]
    BY <1>2
  <2>2. SafeOp(stream[k + 1], held, memory, stack)
    BY <2>1, EachIsSafe
  <2>3. SafeOp(stream[k + 1], held', memory', stack')
    BY <2>2, StaysSafe
  <2>4. QED
    BY <2>1, <2>3
<1>4. QED
  BY <1>1, <1>2, <1>3, AllAreSafe

\* One more operation is enqueued.
LEMMA StreamGrows ==
  ASSUME InFlight, MemoryIsSafe, NEW op, stream' = Append(stream, op), held' = held, SameSizes,
         StackKeeps, pc' \in Flying, SafeOp(op, held', memory', stack')
  PROVE  InFlight' /\ MemoryIsSafe'
<1> DEFINE S == Range(stream) \cup {op}
<1>1. stream \in Seq(S)
  <2>1. stream \in Seq(Range(stream)) /\ Range(stream) \subseteq S
    BY DEF InFlight
  <2> HIDE DEF S
  <2>2. QED
    BY <2>1, SeqMonotonic
<1>2. op \in S
  OBVIOUS
<1> HIDE DEF S
<1>3. /\ stream' \in Seq(S) /\ Len(stream) \in Nat
      /\ DOMAIN stream = 1..Len(stream) /\ DOMAIN stream' = 1..(Len(stream) + 1)
      /\ \A k \in 1..Len(stream) : stream'[k] = stream[k]
      /\ stream'[Len(stream) + 1] = op
  BY <1>1, <1>2, AppendProperties, LenProperties
<1>4. ASSUME NEW k \in DOMAIN stream' PROVE SafeOp(stream'[k], held', memory', stack')
  <2>1. CASE k \in DOMAIN stream
    <3>1. SafeOp(stream[k], held', memory', stack')
      BY <2>1, EachIsSafe, StaysSafe
    <3>2. QED
      BY <1>3, <2>1, <3>1
  <2>2. CASE k = Len(stream) + 1
    BY <1>3, <2>2
  <2>3. QED
    BY <1>3, <2>1, <2>2
<1>5. QED
  BY <1>3, <1>4, AllAreSafe

-----------------------------------------------------------------------------
(***************************************************************************)
(* What the plan lists.                                                    *)
(***************************************************************************)
LEMMA SameShapes == ASSUME [Next]_vars PROVE WorkspaceShapes' = WorkspaceShapes
<1>1. file' = file /\ config' = config
  BY SameNames
<1>2. c' = c /\ m' = m /\ dims' = dims
  BY <1>1 DEF c, m, dims
<1>3. Query' = Query /\ KeyValue' = KeyValue
  BY <1>2 DEF Query, KeyValue
<1>4. InputColumns' = InputColumns
  BY <1>2, <1>3 DEF InputColumns
<1>5. QED
  BY <1>1, <1>2, <1>3, <1>4 DEF WorkspaceShapes

LEMMA ItemsOf ==
  ASSUME PlanIsSound, NEW a \in Buffers
  PROVE  /\ arenas[a].items \in Seq(ItemSet) /\ Len(arenas[a].items) \in Nat
         /\ DOMAIN arenas[a].items = 1..Len(arenas[a].items)
         /\ arenas[a].bytes \in Nat
BY ArenaOf, LenProperties DEF Buffers, ArenaSet

LEMMA MeasuresGrow ==
  ASSUME PlanIsSound, ItemsAreMeasured, NEW a \in Buffers, NEW more \in ItemSet,
         arenas'[a].items = Append(arenas[a].items, more),
         \A b \in Buffers \ {a} : arenas'[b].items = arenas[b].items,
         ~more.alias => more.bytes = more.rows * more.columns * more.width /\ more.columns # 0
  PROVE  ItemsAreMeasured'
<1> DEFINE items == arenas[a].items
           new   == arenas'[a].items
<1>1. /\ Len(items) \in Nat /\ Len(new) = Len(items) + 1
      /\ \A k \in 1..Len(items) : new[k] = items[k]
      /\ new[Len(items) + 1] = more
  BY ItemsOf, AppendProperties
<1>2. ASSUME NEW k \in 1..Len(new), ~new[k].alias
      PROVE  new[k].bytes = new[k].rows * new[k].columns * new[k].width /\ new[k].columns # 0
  <2>1. CASE k \in 1..Len(items)
    BY <1>1, <1>2, <2>1 DEF ItemsAreMeasured
  <2>2. CASE k = Len(items) + 1
    BY <1>1, <1>2, <2>2
  <2>3. QED
    BY <1>1, <2>1, <2>2
<1> HIDE DEF items, new
<1>3. ASSUME NEW b \in Buffers, NEW k \in 1..Len(arenas'[b].items), ~arenas'[b].items[k].alias
      PROVE  /\ arenas'[b].items[k].bytes =
                  arenas'[b].items[k].rows * arenas'[b].items[k].columns * arenas'[b].items[k].width
             /\ arenas'[b].items[k].columns # 0
  <2>1. CASE b = a
    BY <1>2, <1>3, <2>1 DEF new
  <2>2. CASE b # a
    <3>1. arenas'[b].items = arenas[b].items
      BY <2>2
    <3>2. QED
      BY <1>3, <3>1 DEF ItemsAreMeasured
  <2>3. QED
    BY <2>1, <2>2
<1>4. QED
  BY Zenon, <1>3 DEF ItemsAreMeasured

LEMMA PlacedIsMeasured ==
  ASSUME PlanIsSound, ItemsAreMeasured, NEW a \in Buffers, NEW shape \in ShapeSet, Place(a, shape)
  PROVE  ItemsAreMeasured'
<1> DEFINE more == Item(arenas[a], shape)
<1>1. arenas' = [arenas EXCEPT ![a] = With(arenas[a], shape)]
  BY DEF Place
<1>2. arenas'[a].items = Append(arenas[a].items, more) /\ \A b \in Buffers \ {a} : arenas'[b] = arenas[b]
  BY <1>1 DEF PlanIsSound, Buffers, With
<1>3. more \in ItemSet
  <2>1. Offset(arenas[a]) \in Nat
    BY ItemsOf, AlignedUp DEF Offset
  <2>2. BytesOf(shape) \in Nat
    BY BytesAreNatural
  <2>3. QED
    BY <2>1, <2>2 DEF Item, ItemSet, ShapeSet
<1>4. more.bytes = more.rows * more.columns * more.width /\ more.columns # 0
  BY DEF Item, BytesOf, Place, Placeable, Dimension
<1> HIDE DEF more
<1>5. QED
  BY <1>2, <1>3, <1>4, MeasuresGrow

LEMMA MeasuresKept ==
  ASSUME ItemsAreMeasured, \A b \in Buffers : arenas'[b].items = arenas[b].items
  PROVE  ItemsAreMeasured'
BY DEF ItemsAreMeasured

LEMMA ClosedKeepsItems ==
  ASSUME PlanIsSound, NEW a \in Buffers, NEW next, Close(a, next)
  PROVE  \A b \in Buffers : arenas'[b].items = arenas[b].items
BY DEF PlanIsSound, Close, Buffers, ArenaSet

LEMMA RegionsKept ==
  ASSUME RegionsAreListed, WorkspaceShapes' = WorkspaceShapes,
         arenas'.workspace.items = arenas.workspace.items,
         planned' = "laid" => Len(arenas.workspace.items) = Len(WorkspaceShapes)
  PROVE  RegionsAreListed'
BY DEF RegionsAreListed

LEMMA PlanMeasures ==
  ASSUME Started, Checked, PlanIsSound, ItemsAreMeasured, RegionsAreListed, Plan, [Next]_vars
  PROVE  ItemsAreMeasured' /\ RegionsAreListed'
<1>1. ModelIsSupported
  BY DEF Plan, Checked, PastShapes, PastBounds, PastConfig, Pcs
<1>2. WorkspaceShapes' = WorkspaceShapes
  BY SameShapes
<1>3. /\ "weights" \in Buffers /\ "workspace" \in Buffers
      /\ arenas \in [weights : ArenaSet, workspace : ArenaSet]
  BY DEF Buffers, PlanIsSound
<1>4. CASE PlanWeight
  <2> DEFINE k == Len(arenas.weights.items) + 1
  <2>1. k \in Nat \ {0} /\ Len(WeightNames) \in Nat /\ DOMAIN WeightNames = 1..Len(WeightNames)
    BY <1>3, ItemsOf, WeightsAreNames, LenProperties
  <2>2. CASE k > Len(WeightNames)
    <3>1. Close("weights", "workspace")
      BY <1>4, <2>2 DEF PlanWeight
    <3>2. \A b \in Buffers : arenas'[b].items = arenas[b].items
      BY <1>3, <3>1, ClosedKeepsItems
    <3>3. planned' # "laid"
      BY <3>1 DEF Close
    <3>4. QED
      BY <1>2, <1>3, <3>2, <3>3, MeasuresKept, RegionsKept
  <2>3. CASE k <= Len(WeightNames) /\ ~Read(WeightNames[k])
    <3> DEFINE more == [Head(arenas.weights.items) EXCEPT !.name = WeightNames[k], !.alias = TRUE]
    <3>1. PlaceAlias(WeightNames[k]) /\ k \in 1..Len(WeightNames)
      BY <1>4, <2>1, <2>3 DEF PlanWeight
    <3>2. WeightNames[k] \in Names
      BY <3>1, WeightsAreNames, ElementOfSeq
    <3>3. arenas.weights.items # <<>> /\ Head(arenas.weights.items) \in ItemSet
      BY <1>3, <3>1, ItemsOf, HeadTailProperties DEF PlaceAlias
    <3>4. more \in ItemSet /\ more.alias
      BY <3>2, <3>3 DEF ItemSet
    <3>5. /\ arenas'["weights"].items = Append(arenas["weights"].items, more)
          /\ arenas'["workspace"] = arenas["workspace"] /\ planned' = "weights"
      BY <1>3, <3>1 DEF PlaceAlias, ArenaSet
    <3> HIDE DEF more
    <3>6. \A b \in Buffers \ {"weights"} : arenas'[b].items = arenas[b].items
      BY <3>5 DEF Buffers
    <3>7. QED
      BY <1>2, <1>3, <3>4, <3>5, <3>6, MeasuresGrow, RegionsKept
  <2>4. CASE k <= Len(WeightNames) /\ Read(WeightNames[k])
    <3>1. Place("weights", WeightShape(WeightNames[k])) /\ k \in 1..Len(WeightNames)
      BY <1>4, <2>1, <2>4 DEF PlanWeight
    <3>2. WeightShape(WeightNames[k]) \in ShapeSet
      BY <1>1, <2>4, <3>1, ReadNamesExist, WeightIsShape
    <3>3. ItemsAreMeasured'
      BY <1>3, <3>1, <3>2, PlacedIsMeasured
    <3>4. arenas'["workspace"] = arenas["workspace"] /\ planned' = "weights"
      BY <1>3, <3>1 DEF Place
    <3>5. QED
      BY <1>2, <3>3, <3>4, RegionsKept
  <2>5. QED
    BY <2>1, <2>2, <2>3, <2>4
<1>5. CASE PlanRegion
  <2> DEFINE items == arenas["workspace"].items
             k == Len(items) + 1
  <2>1. /\ Len(items) \in Nat /\ items \in Seq(ItemSet)
        /\ WorkspaceShapes \in Seq(ShapeSet) /\ Len(WorkspaceShapes) \in Nat
        /\ DOMAIN WorkspaceShapes = 1..Len(WorkspaceShapes)
    BY <1>1, <1>3, ItemsOf, LenProperties, EmbeddingExists, RegionsAreShapes
  <2>2. CASE k <= Len(WorkspaceShapes)
    <3> DEFINE shape == WorkspaceShapes[k]
               more  == Item(arenas["workspace"], shape)
    <3>1. Place("workspace", shape) /\ k \in 1..Len(WorkspaceShapes)
      BY <1>5, <2>1, <2>2 DEF PlanRegion
    <3>2. shape \in ShapeSet
      BY <2>1, <3>1, ElementOfSeq
    <3>3. ItemsAreMeasured'
      BY <1>3, <3>1, <3>2, PlacedIsMeasured
    <3>4. arenas'["workspace"].items = Append(items, more) /\ planned' = "workspace"
      BY <1>3, <3>1 DEF Place, With
    <3>5. /\ more.name = shape.name /\ more.rows = shape.rows /\ more.columns = shape.columns
          /\ more.width = shape.width /\ ~more.alias
      BY DEF Item
    <3> HIDE DEF more
    <3>6. /\ Len(arenas'["workspace"].items) = Len(items) + 1
          /\ \A j \in 1..Len(items) : arenas'["workspace"].items[j] = items[j]
          /\ arenas'["workspace"].items[Len(items) + 1] = more
      BY <2>1, <3>4, AppendProperties
    <3>7. ASSUME NEW j \in 1..(Len(items) + 1), NEW r, r = arenas'["workspace"].items[j]
          PROVE  /\ r.name = WorkspaceShapes[j].name /\ r.rows = WorkspaceShapes[j].rows
                 /\ r.columns = WorkspaceShapes[j].columns /\ r.width = WorkspaceShapes[j].width
                 /\ ~r.alias
      <4>1. CASE j \in 1..Len(items)
        BY <3>6, <3>7, <4>1 DEF RegionsAreListed
      <4>2. CASE j = Len(items) + 1
        BY <3>5, <3>6, <3>7, <4>2
      <4>3. QED
        BY <2>1, <4>1, <4>2
    <3> HIDE DEF items, shape
    <3>8. RegionsAreListed'
      BY <1>2, <2>1, <2>2, <3>4, <3>6, <3>7 DEF RegionsAreListed
    <3>9. QED
      BY <3>3, <3>8
  <2>3. CASE ~(k <= Len(WorkspaceShapes))
    <3>1. Close("workspace", "laid")
      BY <1>5, <2>3 DEF PlanRegion
    <3>2. \A b \in Buffers : arenas'[b].items = arenas[b].items
      BY <1>3, <3>1, ClosedKeepsItems
    <3>3. Len(items) = Len(WorkspaceShapes)
      BY <2>1, <2>3 DEF RegionsAreListed
    <3>4. QED
      BY <1>2, <1>3, <3>2, <3>3, MeasuresKept, RegionsKept
  <2>4. QED
    BY <2>2, <2>3
<1>6. QED
  BY <1>4, <1>5 DEF Plan

-----------------------------------------------------------------------------
(***************************************************************************)
(* Regions by name.                                                        *)
(***************************************************************************)
RegionIndex == [
  hidden |-> 1, normalized |-> 2, query |-> 3, key |-> 4, value |-> 5, attention |-> 6, projected |-> 7,
  gate |-> 8, up |-> 9, down |-> 10, selected_hidden |-> 11, scores |-> 12, probabilities |-> 13,
  logits |-> 14, tokens |-> 15, positions |-> 16, slots |-> 17, selected_rows |-> 18,
  pending_lengths |-> 19, samples |-> 20, status |-> 21, rope_coefficients |-> 22, matrix_input |-> 23,
  kv_block_table |-> IF m.precision = "f16" THEN 24 ELSE 23]

Always == {"hidden", "normalized", "query", "key", "value", "attention", "projected", "gate", "up", "down",
           "selected_hidden", "scores", "probabilities", "logits", "tokens", "positions", "slots",
           "selected_rows", "pending_lengths", "samples", "status", "rope_coefficients"}

\* The regions that there are.
Regions == Always \cup (IF m.precision = "f16" THEN {"matrix_input"} ELSE {})
                  \cup (IF m.layout = "paged" THEN {"kv_block_table"} ELSE {})

Wide(name, columns) == Region(name, c.batch_tokens, columns)

\* Each at its index.
LEMMA ShapesInOrder ==
  LET s == WorkspaceShapes
      k == RegionIndex
  IN /\ s[1] = Wide("hidden", dims.embedding) /\ s[2] = Wide("normalized", dims.embedding)
     /\ s[3] = Wide("query", Query) /\ s[4] = Wide("key", KeyValue) /\ s[5] = Wide("value", KeyValue)
     /\ s[6] = Wide("attention", Query) /\ s[7] = Wide("projected", dims.embedding)
     /\ s[8] = Wide("gate", dims.feed_forward) /\ s[9] = Wide("up", dims.feed_forward)
     /\ s[10] = Wide("down", dims.embedding) /\ s[11] = Wide("selected_hidden", dims.embedding)
     /\ s[12] = Wide("scores", dims.heads * c.max_model_len)
     /\ s[13] = Wide("probabilities", dims.heads * c.max_model_len)
     /\ s[14] = Wide("logits", file.tensors["token_embd"].rows)
     /\ s[15] = Wide("tokens", 1) /\ s[16] = Wide("positions", 1) /\ s[17] = Wide("slots", 1)
     /\ s[18] = Wide("selected_rows", 1) /\ s[19] = Region("pending_lengths", c.max_active, 1)
     /\ s[20] = Wide("samples", 3) /\ s[21] = Region("status", 1, 2)
     /\ s[22] = Region("rope_coefficients", c.max_model_len, dims.head_dim)
     /\ m.precision = "f16" => s[23] = [Wide("matrix_input", InputColumns) EXCEPT !.width = 2]
     /\ m.layout = "paged" => s[k["kv_block_table"]] =
          Region("kv_block_table", c.max_active, Blocks(c.max_model_len, KvPageTokens))
     /\ Len(s) = 22 + (IF m.precision = "f16" THEN 1 ELSE 0) + (IF m.layout = "paged" THEN 1 ELSE 0)
<1> DEFINE always == <<Wide("hidden", dims.embedding), Wide("normalized", dims.embedding), Wide("query", Query),
             Wide("key", KeyValue), Wide("value", KeyValue), Wide("attention", Query),
             Wide("projected", dims.embedding), Wide("gate", dims.feed_forward), Wide("up", dims.feed_forward),
             Wide("down", dims.embedding), Wide("selected_hidden", dims.embedding),
             Wide("scores", dims.heads * c.max_model_len), Wide("probabilities", dims.heads * c.max_model_len),
             Wide("logits", file.tensors["token_embd"].rows),
             Wide("tokens", 1), Wide("positions", 1), Wide("slots", 1), Wide("selected_rows", 1),
             Region("pending_lengths", c.max_active, 1), Wide("samples", 3), Region("status", 1, 2),
             Region("rope_coefficients", c.max_model_len, dims.head_dim)>>
           last  == Region("kv_block_table", c.max_active, Blocks(c.max_model_len, KvPageTokens))
           input == [Wide("matrix_input", InputColumns) EXCEPT !.width = 2]
           half  == IF m.precision = "f16" THEN <<input>> ELSE <<>>
           paged == IF m.layout = "paged" THEN <<last>> ELSE <<>>
<1>1. WorkspaceShapes = (always \o half) \o paged
  BY DEF WorkspaceShapes, Wide
<1>2. Len(always) = 22 /\ always = [j \in 1..22 |-> always[j]]
  OBVIOUS
<1>3. /\ always[1] = Wide("hidden", dims.embedding) /\ always[2] = Wide("normalized", dims.embedding)
      /\ always[3] = Wide("query", Query) /\ always[4] = Wide("key", KeyValue) /\ always[5] = Wide("value", KeyValue)
      /\ always[6] = Wide("attention", Query) /\ always[7] = Wide("projected", dims.embedding)
      /\ always[8] = Wide("gate", dims.feed_forward) /\ always[9] = Wide("up", dims.feed_forward)
      /\ always[10] = Wide("down", dims.embedding) /\ always[11] = Wide("selected_hidden", dims.embedding)
      /\ always[12] = Wide("scores", dims.heads * c.max_model_len)
      /\ always[13] = Wide("probabilities", dims.heads * c.max_model_len)
      /\ always[14] = Wide("logits", file.tensors["token_embd"].rows)
      /\ always[15] = Wide("tokens", 1) /\ always[16] = Wide("positions", 1) /\ always[17] = Wide("slots", 1)
      /\ always[18] = Wide("selected_rows", 1) /\ always[19] = Region("pending_lengths", c.max_active, 1)
      /\ always[20] = Wide("samples", 3) /\ always[21] = Region("status", 1, 2)
      /\ always[22] = Region("rope_coefficients", c.max_model_len, dims.head_dim)
  OBVIOUS
<1> DEFINE S == {always[j] : j \in 1..22} \cup {input, last}
<1>4. always \in Seq(S) /\ half \in Seq(S) /\ paged \in Seq(S)
  <2> HIDE DEF always, input, last
  <2>1. always \in [1..22 -> S]
    BY <1>2
  <2>2. always \in Seq(S)
    BY <2>1, BytesAreSeq
  <2>3. input \in S /\ last \in S
    OBVIOUS
  <2> HIDE DEF S
  <2>4. QED
    BY <2>2, <2>3
<1>5. /\ Len(half) = (IF m.precision = "f16" THEN 1 ELSE 0) /\ Len(paged) = (IF m.layout = "paged" THEN 1 ELSE 0)
      /\ m.precision = "f16" => half[1] = input
      /\ m.layout = "paged" => paged[1] = last
  <2> HIDE DEF input, last
  <2>1. QED
    OBVIOUS
<1> HIDE DEF always, half, paged, S, input, last
<1>6. /\ always \o half \in Seq(S) /\ Len(always \o half) = 22 + Len(half)
      /\ \A j \in 1..22 : (always \o half)[j] = always[j]
      /\ Len(half) = 1 => (always \o half)[23] = half[1]
  <2>1. /\ always \o half \in Seq(S) /\ Len(always \o half) = Len(always) + Len(half)
        /\ \A j \in 1..(Len(always) + Len(half)) :
             (always \o half)[j] = IF j <= Len(always) THEN always[j] ELSE half[j - Len(always)]
    BY <1>4, ConcatProperties
  <2>2. QED
    BY <2>1, <1>2, <1>5
<1>7. /\ Len(WorkspaceShapes) = 22 + Len(half) + Len(paged)
      /\ \A j \in 1..(22 + Len(half)) : WorkspaceShapes[j] = (always \o half)[j]
      /\ Len(paged) = 1 => WorkspaceShapes[22 + Len(half) + 1] = paged[1]
  <2>1. PICK f \in Seq(S) : f = always \o half
    BY <1>6
  <2>2. /\ Len(f \o paged) = Len(f) + Len(paged)
        /\ \A j \in 1..(Len(f) + Len(paged)) :
             (f \o paged)[j] = IF j <= Len(f) THEN f[j] ELSE paged[j - Len(f)]
    BY <1>4, ConcatProperties
  <2>3. Len(f) = 22 + Len(half) /\ WorkspaceShapes = f \o paged
    BY <1>1, <1>6, <2>1
  <2>4. Len(half) \in {0, 1} /\ Len(paged) \in {0, 1}
    BY <1>5
  <2>5. \A j \in 1..(22 + Len(half)) : WorkspaceShapes[j] = f[j]
    BY <2>2, <2>3, <2>4
  <2>6. Len(paged) = 1 => WorkspaceShapes[22 + Len(half) + 1] = paged[1]
    BY <2>2, <2>3, <2>4
  <2>7. QED
    BY <2>1, <2>2, <2>3, <2>5, <2>6
<1>8. \A j \in 1..22 : WorkspaceShapes[j] = always[j]
  <2>1. Len(half) \in {0, 1}
    BY <1>5
  <2>2. ASSUME NEW j \in 1..22 PROVE WorkspaceShapes[j] = always[j]
    <3>1. j \in 1..(22 + Len(half))
      BY <2>1
    <3>2. QED
      BY Zenon, <1>6, <1>7, <3>1
  <2>3. QED
    BY <2>2
<1>9. m.precision = "f16" => WorkspaceShapes[23] = input
  <2>1. SUFFICES ASSUME m.precision = "f16" PROVE WorkspaceShapes[23] = input
    OBVIOUS
  <2>2. Len(half) = 1 /\ half[1] = input
    BY <1>5, <2>1
  <2>3. 23 \in 1..(22 + Len(half))
    BY <2>2
  <2>4. QED
    BY Zenon, <1>6, <1>7, <2>2, <2>3
<1>10. m.layout = "paged" => WorkspaceShapes[RegionIndex["kv_block_table"]] = last
  <2>1. RegionIndex["kv_block_table"] = 22 + Len(half) + 1
    BY <1>5 DEF RegionIndex
  <2>2. QED
    BY <2>1, <1>5, <1>7
<1>11. Len(WorkspaceShapes) = 22 + (IF m.precision = "f16" THEN 1 ELSE 0) + (IF m.layout = "paged" THEN 1 ELSE 0)
  BY <1>5, <1>7
<1>12. QED
  BY SMTT(30), <1>3, <1>8, <1>9, <1>10, <1>11 DEF last, input

LEMMA NameOfRegion ==
  /\ \A name, rows, columns : Region(name, rows, columns).name = name
  /\ \A name, columns : Wide(name, columns).name = name
  /\ [Wide("matrix_input", InputColumns) EXCEPT !.width = 2].name = "matrix_input"
BY DEF Region, Wide

\* The name at an index, and the index of a name.
Fits(j) == WorkspaceShapes[j].name \in Regions /\ RegionIndex[WorkspaceShapes[j].name] = j
Meets(name) ==
  /\ RegionIndex[name] \in 1..Len(WorkspaceShapes)
  /\ WorkspaceShapes[RegionIndex[name]].name = name

LEMMA FirstNames ==
  /\ \A j \in 1..6 : Fits(j)
  /\ \A name \in {"hidden", "normalized", "query", "key", "value", "attention"} : Meets(name)
<1> DEFINE s == WorkspaceShapes
<1>1. /\ s[1] = Wide("hidden", dims.embedding) /\ s[2] = Wide("normalized", dims.embedding)
      /\ s[3] = Wide("query", Query) /\ s[4] = Wide("key", KeyValue)
      /\ s[5] = Wide("value", KeyValue) /\ s[6] = Wide("attention", Query)
  BY ShapesInOrder
<1>2. Len(s) \in Nat /\ Len(s) >= 22
  BY ShapesInOrder
<1> HIDE DEF s
<1>3. /\ s[1].name = "hidden" /\ s[2].name = "normalized" /\ s[3].name = "query"
      /\ s[4].name = "key" /\ s[5].name = "value" /\ s[6].name = "attention"
  BY <1>1, NameOfRegion
<1>4. /\ RegionIndex["hidden"] = 1 /\ RegionIndex["normalized"] = 2 /\ RegionIndex["query"] = 3
      /\ RegionIndex["key"] = 4 /\ RegionIndex["value"] = 5 /\ RegionIndex["attention"] = 6
  BY DEF RegionIndex
<1>5. /\ "hidden" \in Regions /\ "normalized" \in Regions /\ "query" \in Regions
      /\ "key" \in Regions /\ "value" \in Regions /\ "attention" \in Regions
  BY DEF Regions, Always
<1>6. ASSUME NEW j \in 1..6 PROVE s[j].name \in Regions /\ RegionIndex[s[j].name] = j
  <2>1. j = 1 \/ j = 2 \/ j = 3 \/ j = 4 \/ j = 5 \/ j = 6
    OBVIOUS
  <2>2. QED
    BY <1>3, <1>4, <1>5, <2>1
<1>7. ASSUME NEW name \in {"hidden", "normalized", "query", "key", "value", "attention"}
      PROVE  RegionIndex[name] \in 1..Len(s) /\ s[RegionIndex[name]].name = name
  BY <1>2, <1>3, <1>4
<1>8. QED
  BY <1>6, <1>7 DEF s, Fits, Meets

LEMMA SecondNames ==
  /\ \A j \in 7..11 : Fits(j)
  /\ \A name \in {"projected", "gate", "up", "down", "selected_hidden"} : Meets(name)
<1> DEFINE s == WorkspaceShapes
<1>1. /\ s[7] = Wide("projected", dims.embedding) /\ s[8] = Wide("gate", dims.feed_forward)
      /\ s[9] = Wide("up", dims.feed_forward) /\ s[10] = Wide("down", dims.embedding)
      /\ s[11] = Wide("selected_hidden", dims.embedding)
  BY ShapesInOrder
<1>2. Len(s) \in Nat /\ Len(s) >= 22
  BY ShapesInOrder
<1> HIDE DEF s
<1>3. /\ s[7].name = "projected" /\ s[8].name = "gate" /\ s[9].name = "up"
      /\ s[10].name = "down" /\ s[11].name = "selected_hidden"
  BY <1>1, NameOfRegion
<1>4. /\ RegionIndex["projected"] = 7 /\ RegionIndex["gate"] = 8 /\ RegionIndex["up"] = 9
      /\ RegionIndex["down"] = 10 /\ RegionIndex["selected_hidden"] = 11
  BY DEF RegionIndex
<1>5. /\ "projected" \in Regions /\ "gate" \in Regions /\ "up" \in Regions
      /\ "down" \in Regions /\ "selected_hidden" \in Regions
  BY DEF Regions, Always
<1>6. ASSUME NEW j \in 7..11 PROVE s[j].name \in Regions /\ RegionIndex[s[j].name] = j
  <2>1. j = 7 \/ j = 8 \/ j = 9 \/ j = 10 \/ j = 11
    OBVIOUS
  <2>2. QED
    BY <1>3, <1>4, <1>5, <2>1
<1>7. ASSUME NEW name \in {"projected", "gate", "up", "down", "selected_hidden"}
      PROVE  RegionIndex[name] \in 1..Len(s) /\ s[RegionIndex[name]].name = name
  BY <1>2, <1>3, <1>4
<1>8. QED
  BY <1>6, <1>7 DEF s, Fits, Meets

LEMMA ThirdNames ==
  /\ \A j \in 12..17 : Fits(j)
  /\ \A name \in {"scores", "probabilities", "logits", "tokens", "positions", "slots"} : Meets(name)
<1> DEFINE s == WorkspaceShapes
<1>1. /\ s[12] = Wide("scores", dims.heads * c.max_model_len) /\ s[13] = Wide("probabilities", dims.heads * c.max_model_len)
      /\ s[14] = Wide("logits", file.tensors["token_embd"].rows) /\ s[15] = Wide("tokens", 1)
      /\ s[16] = Wide("positions", 1) /\ s[17] = Wide("slots", 1)
  BY ShapesInOrder
<1>2. Len(s) \in Nat /\ Len(s) >= 22
  BY ShapesInOrder
<1> HIDE DEF s
<1>3. /\ s[12].name = "scores" /\ s[13].name = "probabilities" /\ s[14].name = "logits"
      /\ s[15].name = "tokens" /\ s[16].name = "positions" /\ s[17].name = "slots"
  BY <1>1, NameOfRegion
<1>4. /\ RegionIndex["scores"] = 12 /\ RegionIndex["probabilities"] = 13 /\ RegionIndex["logits"] = 14
      /\ RegionIndex["tokens"] = 15 /\ RegionIndex["positions"] = 16 /\ RegionIndex["slots"] = 17
  BY DEF RegionIndex
<1>5. /\ "scores" \in Regions /\ "probabilities" \in Regions /\ "logits" \in Regions
      /\ "tokens" \in Regions /\ "positions" \in Regions /\ "slots" \in Regions
  BY DEF Regions, Always
<1>6. ASSUME NEW j \in 12..17 PROVE s[j].name \in Regions /\ RegionIndex[s[j].name] = j
  <2>1. j = 12 \/ j = 13 \/ j = 14 \/ j = 15 \/ j = 16 \/ j = 17
    OBVIOUS
  <2>2. QED
    BY <1>3, <1>4, <1>5, <2>1
<1>7. ASSUME NEW name \in {"scores", "probabilities", "logits", "tokens", "positions", "slots"}
      PROVE  RegionIndex[name] \in 1..Len(s) /\ s[RegionIndex[name]].name = name
  BY <1>2, <1>3, <1>4
<1>8. QED
  BY <1>6, <1>7 DEF s, Fits, Meets

LEMMA FourthNames ==
  /\ \A j \in 18..22 : Fits(j)
  /\ \A name \in {"selected_rows", "pending_lengths", "samples", "status", "rope_coefficients"} : Meets(name)
<1> DEFINE s == WorkspaceShapes
<1>1. /\ s[18] = Wide("selected_rows", 1) /\ s[19] = Region("pending_lengths", c.max_active, 1)
      /\ s[20] = Wide("samples", 3) /\ s[21] = Region("status", 1, 2)
      /\ s[22] = Region("rope_coefficients", c.max_model_len, dims.head_dim)
  BY ShapesInOrder
<1>2. Len(s) \in Nat /\ Len(s) >= 22
  BY ShapesInOrder
<1> HIDE DEF s
<1>3. /\ s[18].name = "selected_rows" /\ s[19].name = "pending_lengths" /\ s[20].name = "samples"
      /\ s[21].name = "status" /\ s[22].name = "rope_coefficients"
  BY <1>1, NameOfRegion
<1>4. /\ RegionIndex["selected_rows"] = 18 /\ RegionIndex["pending_lengths"] = 19 /\ RegionIndex["samples"] = 20
      /\ RegionIndex["status"] = 21 /\ RegionIndex["rope_coefficients"] = 22
  BY DEF RegionIndex
<1>5. /\ "selected_rows" \in Regions /\ "pending_lengths" \in Regions /\ "samples" \in Regions
      /\ "status" \in Regions /\ "rope_coefficients" \in Regions
  BY DEF Regions, Always
<1>6. ASSUME NEW j \in 18..22 PROVE s[j].name \in Regions /\ RegionIndex[s[j].name] = j
  <2>1. j = 18 \/ j = 19 \/ j = 20 \/ j = 21 \/ j = 22
    OBVIOUS
  <2>2. QED
    BY <1>3, <1>4, <1>5, <2>1
<1>7. ASSUME NEW name \in {"selected_rows", "pending_lengths", "samples", "status", "rope_coefficients"}
      PROVE  RegionIndex[name] \in 1..Len(s) /\ s[RegionIndex[name]].name = name
  BY <1>2, <1>3, <1>4
<1>8. QED
  BY <1>6, <1>7 DEF s, Fits, Meets

\* A region's name tells its index, and its index its name.
LEMMA NamesAndIndices ==
  /\ \A j \in 1..Len(WorkspaceShapes) : Fits(j)
  /\ \A name \in Regions : Meets(name)
<1> DEFINE s == WorkspaceShapes
<1>1. /\ m.precision = "f16" => s[23].name = "matrix_input"
      /\ m.layout = "paged" => s[RegionIndex["kv_block_table"]].name = "kv_block_table"
  <2>1. /\ m.precision = "f16" => s[23] = [Wide("matrix_input", InputColumns) EXCEPT !.width = 2]
        /\ m.layout = "paged" => s[RegionIndex["kv_block_table"]] =
             Region("kv_block_table", c.max_active, Blocks(c.max_model_len, KvPageTokens))
    BY ShapesInOrder
  <2> HIDE DEF s
  <2>2. ASSUME m.layout = "paged" PROVE s[RegionIndex["kv_block_table"]].name = "kv_block_table"
    <3>1. s[RegionIndex["kv_block_table"]] =
            Region("kv_block_table", c.max_active, Blocks(c.max_model_len, KvPageTokens))
      BY <2>1, <2>2
    <3>2. Region("kv_block_table", c.max_active, Blocks(c.max_model_len, KvPageTokens)).name = "kv_block_table"
      BY DEF Region
    <3>3. QED
      BY Zenon, <3>1, <3>2
  <2>3. m.precision = "f16" => s[23].name = "matrix_input"
    <3>1. SUFFICES ASSUME m.precision = "f16" PROVE s[23].name = "matrix_input"
      OBVIOUS
    <3>2. QED
      BY Zenon, <2>1, <3>1, NameOfRegion
  <2>4. QED
    BY <2>2, <2>3
<1>2. Len(s) = 22 + (IF m.precision = "f16" THEN 1 ELSE 0) + (IF m.layout = "paged" THEN 1 ELSE 0)
  BY ShapesInOrder
<1>3. /\ RegionIndex["matrix_input"] = 23
      /\ RegionIndex["kv_block_table"] = IF m.precision = "f16" THEN 24 ELSE 23
  BY DEF RegionIndex
<1>4. /\ m.precision = "f16" => "matrix_input" \in Regions
      /\ m.layout = "paged" => "kv_block_table" \in Regions
  BY DEF Regions
<1> HIDE DEF s
<1>5. m.precision = "f16" => s[23].name \in Regions /\ RegionIndex[s[23].name] = 23
  BY <1>1, <1>3, <1>4
<1>6. ASSUME m.layout = "paged", NEW j, j = RegionIndex["kv_block_table"]
      PROVE  s[j].name \in Regions /\ RegionIndex[s[j].name] = j
  BY <1>1, <1>4, <1>6
<1>7. ASSUME NEW j \in 1..Len(s) PROVE s[j].name \in Regions /\ RegionIndex[s[j].name] = j
  <2>1. CASE j \in 1..22
    <3>1. j \in 1..6 \/ j \in 7..11 \/ j \in 12..17 \/ j \in 18..22
      BY <2>1
    <3>2. QED
      BY <3>1, FirstNames, SecondNames, ThirdNames, FourthNames DEF Fits, s
  <2>2. CASE j = 23 /\ m.precision = "f16"
    BY <1>5, <2>2
  <2>3. CASE m.layout = "paged" /\ j = RegionIndex["kv_block_table"]
    BY <1>6, <2>3
  <2>4. j \in 1..22 \/ (j = 23 /\ m.precision = "f16") \/ (m.layout = "paged" /\ j = RegionIndex["kv_block_table"])
    <3>1. CASE m.precision = "f16" /\ m.layout = "paged"
      BY <1>2, <1>3, <3>1
    <3>2. CASE m.precision = "f16" /\ m.layout # "paged"
      BY <1>2, <1>3, <3>2
    <3>3. CASE m.precision # "f16" /\ m.layout = "paged"
      BY <1>2, <1>3, <3>3
    <3>4. CASE m.precision # "f16" /\ m.layout # "paged"
      BY <1>2, <1>3, <3>4
    <3>5. QED
      BY <3>1, <3>2, <3>3, <3>4
  <2>5. QED
    BY <2>1, <2>2, <2>3, <2>4
<1>8. ASSUME NEW name \in Regions PROVE Meets(name)
  <2>1. CASE name = "matrix_input" /\ m.precision = "f16"
    <3>1. 23 \in 1..Len(s)
      <4>1. CASE m.layout = "paged"
        BY <1>2, <2>1, <4>1
      <4>2. CASE m.layout # "paged"
        BY <1>2, <2>1, <4>2
      <4>3. QED
        BY <4>1, <4>2
    <3>2. QED
      BY <1>1, <1>3, <2>1, <3>1 DEF Meets, s
  <2>2. CASE name = "kv_block_table" /\ m.layout = "paged"
    <3>1. RegionIndex[name] \in 1..Len(s)
      <4>1. CASE m.precision = "f16"
        BY <1>2, <1>3, <2>2, <4>1
      <4>2. CASE m.precision # "f16"
        BY <1>2, <1>3, <2>2, <4>2
      <4>3. QED
        BY <4>1, <4>2
    <3>2. QED
      BY <1>1, <2>2, <3>1 DEF Meets, s
  <2>3. CASE name \in Always
    BY <2>3, FirstNames, SecondNames, ThirdNames, FourthNames DEF Always
  <2>4. QED
    BY <2>1, <2>2, <2>3 DEF Regions
<1>9. QED
  BY <1>7, <1>8 DEF s, Fits

\* In a plan that is laid, a region's name finds the item at its index.
LEMMA RegionFound ==
  ASSUME PlanIsSound, RegionsAreListed, planned = "laid", NEW name \in Regions
  PROVE  /\ RegionIndex[name] \in 1..Len(arenas.workspace.items)
         /\ RegionNamed(name) = arenas.workspace.items[RegionIndex[name]]
<1> DEFINE items == arenas.workspace.items
           j == RegionIndex[name]
<1>1. Len(items) = Len(WorkspaceShapes) /\ DOMAIN items = 1..Len(items)
  BY ItemsOf DEF RegionsAreListed, Buffers
<1>2. j \in 1..Len(items) /\ WorkspaceShapes[j].name = name
  BY <1>1, NamesAndIndices DEF Meets
<1>3. \A k \in DOMAIN items : items[k].name = WorkspaceShapes[k].name
  BY <1>1 DEF RegionsAreListed
<1>4. \A k \in DOMAIN items : items[k].name = name <=> k = j
  <2> HIDE DEF items, j
  <2>1. ASSUME NEW k \in DOMAIN items, items[k].name = name PROVE k = j
    <3>1. RegionIndex[WorkspaceShapes[k].name] = k /\ WorkspaceShapes[k].name = name
      BY <1>1, <1>3, <2>1, NamesAndIndices DEF Fits
    <3>2. QED
      BY <3>1 DEF j
  <2>2. QED
    BY <1>1, <1>2, <1>3, <2>1
<1>5. (CHOOSE k \in DOMAIN items : items[k].name = name) = j
  BY <1>1, <1>2, <1>4
<1>6. QED
  BY <1>2, <1>5 DEF RegionNamed

LEMMA RegionIsInside ==
  ASSUME PlanIsSound, RegionsAreListed, ItemsAreMeasured, planned = "laid", NEW name \in Regions,
         NEW r, r = RegionNamed(name)
  PROVE  /\ r \in ItemSet /\ ~r.alias /\ r.columns # 0
         /\ r.bytes = r.rows * r.columns * r.width
         /\ r.offset + r.bytes <= arenas.workspace.bytes
<1> DEFINE items == arenas.workspace.items
           j == RegionIndex[name]
<1>1. /\ j \in 1..Len(items) /\ r = items[j]
      /\ items \in Seq(ItemSet) /\ DOMAIN items = 1..Len(items)
  BY RegionFound, ItemsOf DEF Buffers
<1> HIDE DEF j
<1>2. r \in ItemSet
  BY <1>1, ElementOfSeq
<1>3. ~r.alias
  BY <1>1 DEF RegionsAreListed
<1>4. r.bytes = r.rows * r.columns * r.width /\ r.columns # 0
  BY <1>1, <1>3 DEF ItemsAreMeasured, Buffers
<1>5. r.offset + r.bytes <= arenas.workspace.bytes
  BY <1>1, <1>3, ArenaOf DEF ArenaIsSound, Owned
<1>6. QED
  BY <1>2, <1>3, <1>4, <1>5

-----------------------------------------------------------------------------
(***************************************************************************)
(* The operations that a forward is made of.                               *)
(***************************************************************************)
NormOps == {Op("norm", "attn_norm", <<"hidden">>, "normalized"), Op("norm", "attn_q_norm", <<"query">>, "query"),
            Op("norm", "attn_k_norm", <<"key">>, "key"), Op("norm", "ffn_norm", <<"hidden">>, "normalized"),
            Op("norm", "output_norm", <<"hidden">>, "normalized")}

ProductOps == {
  Multiply("normalized", "attn_q", "query"), Multiply("normalized", "attn_k", "key"),
  Multiply("normalized", "attn_v", "value"), Multiply("attention", "attn_output", "projected"),
  Multiply("normalized", "ffn_gate", "gate"), Multiply("normalized", "ffn_up", "up"),
  Multiply("gate", "ffn_down", "down"), Multiply("selected_hidden", "output", "logits")}

CastOps == IF Half THEN {Op("cast", "none", <<x>>, "matrix_input") :
                           x \in {"normalized", "attention", "gate", "selected_hidden"}}
           ELSE {}

AttentionOps == {
  Op("rope", "none", <<"query", "positions">>, "query"), Op("rope", "none", <<"key", "positions">>, "key"),
  Op("store", "none", <<"key", "value", "slots", "positions">>, "kv"),
  Op("qk", "none", <<"kv", "query", "slots", "positions">>, "scores"),
  Op("softmax", "none", <<"scores", "slots", "positions">>, "probabilities"),
  Op("pv", "none", <<"kv", "probabilities", "slots", "positions">>, "attention")}

OtherOps == {
  Op("add", "none", <<"hidden", "projected">>, "hidden"), Op("add", "none", <<"hidden", "down">>, "hidden"),
  Op("swiglu", "none", <<"gate", "up">>, "gate"), Op("finite", "none", <<"hidden">>, "status"),
  Op("reset", "none", <<>>, "status"), Op("gather", "token_embd", <<"tokens">>, "hidden"),
  Op("gather", "none", <<"normalized", "selected_rows">>, "selected_hidden"),
  Op("argmax", "none", <<"logits">>, "tokens")}

CopyOps == {Upload(name) : name \in Inputs} \cup (IF m.layout = "paged" THEN {Upload("kv_block_table")} ELSE {})
           \cup {Download("tokens", "host"), Download("logits", "result"), Download("status", "host")}

\* All but the products.
Quiet == NormOps \cup CastOps \cup AttentionOps \cup OtherOps \cup CopyOps
Table == Quiet \cup ProductOps

\* The same in any layer.
Layered(S) == UNION {{[o EXCEPT !.layer = l] : l \in Nat} : o \in S}

\* Which input a weight is multiplied with.
InputOf == [
  attn_q |-> "normalized", attn_k |-> "normalized", attn_v |-> "normalized", attn_output |-> "attention",
  ffn_gate |-> "normalized", ffn_up |-> "normalized", ffn_down |-> "gate", output |-> "selected_hidden"]

\* The input that was rounded last before a product is the product's own.
Fed(s) ==
  Half => \A k \in 1..Len(s) : s[k].kernel = "multiply" =>
    \E j \in 1..(k - 1) : /\ s[j].kernel = "cast" /\ s[j].reads = <<InputOf[s[k].weight]>>
                          /\ \A i \in (j + 1)..k : s[i].kernel # "cast"

Programs(S) == {s \in Seq(S) : Fed(s)}

ForwardStarted ==
  /\ step \in Nat \ {0}
  /\ "table" \in asked => m.layout = "paged"

LEMMA OfLayerZero ==
  ASSUME NEW o \in Table
  PROVE  o = [o EXCEPT !.layer = 0]
<1>1. \A kernel, weight, reads, writes :
        LET p == Op(kernel, weight, reads, writes) IN p = [p EXCEPT !.layer = 0]
  BY DEF Op
<1>2. ASSUME NEW name PROVE Upload(name) = [Upload(name) EXCEPT !.layer = 0]
  <2>1. Upload(name) = [kernel |-> "upload", weight |-> "none", reads |-> <<>>, writes |-> name,
                        layer |-> 0, host |-> "host"]
    BY DEF Upload, Op
  <2>2. QED
    BY <2>1
<1>3. ASSUME NEW name, NEW host PROVE Download(name, host) = [Download(name, host) EXCEPT !.layer = 0]
  <2>1. Download(name, host) = [kernel |-> "download", weight |-> "none", reads |-> <<name>>, writes |-> name,
                                layer |-> 0, host |-> host]
    BY DEF Download, Op
  <2>2. QED
    BY <2>1
<1>4. CASE o \in NormOps
  BY <1>1, <1>4 DEF NormOps
<1>5. CASE o \in ProductOps
  BY <1>1, <1>5 DEF ProductOps, Multiply
<1>6. CASE o \in CastOps
  BY <1>1, <1>6 DEF CastOps
<1>7. CASE o \in AttentionOps
  BY <1>1, <1>7 DEF AttentionOps
<1>8. CASE o \in OtherOps
  BY <1>1, <1>8 DEF OtherOps
<1>9. CASE o \in CopyOps
  BY <1>2, <1>3, <1>9 DEF CopyOps
<1>10. QED
  BY <1>4, <1>5, <1>6, <1>7, <1>8, <1>9 DEF Table, Quiet

LEMMA QuietKernels == \A o \in Quiet : o.kernel # "multiply"
<1>1. \A kernel, weight, reads, writes : Op(kernel, weight, reads, writes).kernel = kernel
  BY DEF Op
<1>2. \A name : Upload(name).kernel = "upload"
  BY DEF Upload, Op
<1>3. \A name, host : Download(name, host).kernel = "download"
  BY DEF Download, Op
<1>4. ASSUME NEW o \in NormOps \cup CastOps \cup AttentionOps PROVE o.kernel # "multiply"
  BY <1>1, <1>4 DEF NormOps, CastOps, AttentionOps
<1>5. ASSUME NEW o \in OtherOps PROVE o.kernel # "multiply"
  BY <1>1, <1>5 DEF OtherOps
<1>6. ASSUME NEW o \in CopyOps PROVE o.kernel # "multiply"
  BY <1>2, <1>3, <1>6 DEF CopyOps
<1>7. QED
  BY <1>4, <1>5, <1>6 DEF Quiet

\* What has no product has none that lacks its input.
LEMMA QuietIn ==
  ASSUME NEW s \in Seq(Quiet)
  PROVE  s \in Programs(Table)
<1>1. \A k \in 1..Len(s) : s[k].kernel # "multiply"
  BY ElementOfSeq, QuietKernels
<1>2. s \in Seq(Table)
  BY SeqMonotonic DEF Table
<1>3. QED
  BY <1>1, <1>2 DEF Programs, Fed

\* The input of product k was the last one rounded before it.
Feeds(s, k, j) ==
  /\ j \in 1..(k - 1) /\ s[j].kernel = "cast" /\ s[j].reads = <<InputOf[s[k].weight]>>
  /\ \A i \in (j + 1)..k : s[i].kernel # "cast"

LEMMA FedMeans ==
  ASSUME NEW s
  PROVE  Fed(s) <=> (Half => \A k \in 1..Len(s) : s[k].kernel = "multiply" => \E j \in Nat : Feeds(s, k, j))
<1>1. SUFFICES ASSUME Half
               PROVE  Fed(s) <=> \A k \in 1..Len(s) : s[k].kernel = "multiply" => \E j \in Nat : Feeds(s, k, j)
  BY DEF Fed
<1>2. ASSUME NEW k \in 1..Len(s)
      PROVE  (\E j \in Nat : Feeds(s, k, j)) <=>
               \E j \in 1..(k - 1) : /\ s[j].kernel = "cast" /\ s[j].reads = <<InputOf[s[k].weight]>>
                                      /\ \A i \in (j + 1)..k : s[i].kernel # "cast"
  BY <1>2 DEF Feeds
<1>3. QED
  BY <1>1, <1>2 DEF Fed

\* It stays so wherever the piece is put.
LEMMA FeedsMoved ==
  ASSUME NEW s, NEW w, NEW a \in Nat, NEW k \in Nat, NEW j \in Nat, Feeds(s, k, j),
         \A i \in 1..k : /\ w[a + i].kernel = s[i].kernel /\ w[a + i].weight = s[i].weight
                        /\ w[a + i].reads = s[i].reads
  PROVE  Feeds(w, a + k, a + j)
<1>1. /\ j \in 1..(k - 1) /\ s[j].kernel = "cast" /\ s[j].reads = <<InputOf[s[k].weight]>>
      /\ \A i \in (j + 1)..k : s[i].kernel # "cast"
  BY DEF Feeds
<1>2. j \in 1..k /\ k \in 1..k /\ a + j \in 1..((a + k) - 1)
  BY <1>1
<1>3. w[a + j].kernel = "cast" /\ w[a + j].reads = <<InputOf[w[a + k].weight]>>
  BY <1>1, <1>2
<1>4. ASSUME NEW i \in ((a + j) + 1)..(a + k) PROVE w[i].kernel # "cast"
  <2>1. PICK h \in Nat : h = i - a
    BY <1>4
  <2>2. h \in (j + 1)..k /\ h \in 1..k /\ i = a + h
    BY <1>4, <2>1
  <2>3. QED
    BY <1>1, <2>2
<1>5. QED
  BY <1>2, <1>3, <1>4 DEF Feeds

LEMMA Joined ==
  ASSUME NEW S, NEW s \in Programs(S), NEW t \in Programs(S)
  PROVE  s \o t \in Programs(S) /\ Len(s \o t) = Len(s) + Len(t)
<1>1. s \in Seq(S) /\ t \in Seq(S) /\ Fed(s) /\ Fed(t) /\ Len(s) \in Nat /\ Len(t) \in Nat
  BY LenProperties DEF Programs
<1>2. PICK w : w = s \o t
  OBVIOUS
<1>3. /\ w \in Seq(S) /\ Len(w) = Len(s) + Len(t)
      /\ \A i \in 1..(Len(s) + Len(t)) : w[i] = IF i <= Len(s) THEN s[i] ELSE t[i - Len(s)]
  BY <1>1, <1>2, ConcatProperties
<1>4. ASSUME Half, NEW k \in 1..Len(w), w[k].kernel = "multiply"
      PROVE  \E j \in Nat : Feeds(w, k, j)
  <2>1. CASE k <= Len(s)
    <3>1. k \in 1..Len(s) /\ \A i \in 1..k : w[0 + i] = s[i]
      BY <1>1, <1>3, <1>4, <2>1
    <3>2. k \in 1..k /\ 0 + k = k
      BY <3>1
    <3>3. s[k].kernel = "multiply"
      BY <1>4, <3>1, <3>2
    <3>4. PICK j \in Nat : Feeds(s, k, j)
      BY <1>1, <1>4, <3>1, <3>3, FedMeans
    <3>5. Feeds(w, 0 + k, 0 + j)
      <4>1. \A i \in 1..k : /\ w[0 + i].kernel = s[i].kernel /\ w[0 + i].weight = s[i].weight
                            /\ w[0 + i].reads = s[i].reads
        BY <3>1
      <4>2. k \in Nat /\ 0 \in Nat
        BY <3>1
      <4>3. QED
        BY <3>4, <4>1, <4>2, FeedsMoved
    <3>6. QED
      BY <3>2, <3>5
  <2>2. CASE k > Len(s)
    <3>1. PICK n \in 1..Len(t) : k = Len(s) + n
      <4>1. k - Len(s) \in 1..Len(t) /\ k = Len(s) + (k - Len(s))
        BY <1>1, <1>3, <1>4, <2>2
      <4>2. QED
        BY <4>1
    <3>2. ASSUME NEW i \in 1..n PROVE w[Len(s) + i] = t[i]
      <4>1. Len(s) + i \in 1..(Len(s) + Len(t)) /\ ~(Len(s) + i <= Len(s)) /\ (Len(s) + i) - Len(s) = i
        BY <1>1, <3>1
      <4>2. QED
        BY <1>3, <4>1
    <3>3. n \in 1..n
      BY <3>1
    <3>4. t[n].kernel = "multiply"
      BY <1>4, <3>1, <3>2, <3>3
    <3>5. PICK j \in Nat : Feeds(t, n, j)
      BY <1>1, <1>4, <3>1, <3>4, FedMeans
    <3>6. Feeds(w, Len(s) + n, Len(s) + j)
      <4>1. \A i \in 1..n : /\ w[Len(s) + i].kernel = t[i].kernel /\ w[Len(s) + i].weight = t[i].weight
                            /\ w[Len(s) + i].reads = t[i].reads
        BY <3>2
      <4>2. n \in Nat
        BY <3>1
      <4>3. QED
        BY <1>1, <3>5, <4>1, <4>2, FeedsMoved
    <3>7. Len(s) + j \in Nat
      BY <1>1, <3>5
    <3>8. QED
      BY <3>1, <3>6, <3>7
  <2>3. QED
    BY <1>1, <1>4, <1>3, <2>1, <2>2
<1>5. Fed(w)
  BY <1>4, FedMeans
<1>6. QED
  BY <1>2, <1>3, <1>5 DEF Programs

LEMMA PreparedIn ==
  ASSUME NEW x \in {"normalized", "attention", "gate", "selected_hidden"}
  PROVE  Prepare(x) \in Seq(Table)
<1>1. CASE Half
  <2>1. Op("cast", "none", <<x>>, "matrix_input") \in Table
    BY <1>1 DEF CastOps, Table, Quiet
  <2> HIDE DEF Table
  <2>2. QED
    BY <1>1, <2>1 DEF Prepare
<1>2. CASE ~Half
  BY <1>2 DEF Prepare
<1>3. QED
  BY <1>1, <1>2

LEMMA GroupIn ==
  ASSUME NEW x \in {"normalized", "attention", "gate", "selected_hidden"}, NEW n \in Nat, NEW products,
         DOMAIN products = 1..n,
         \A k \in 1..n : /\ Multiply(x, products[k][1], products[k][2]) \in Table
                         /\ InputOf[products[k][1]] = x
  PROVE  Group(x, products) \in Programs(Table)
<1> DEFINE multiplied == [k \in DOMAIN products |-> Multiply(x, products[k][1], products[k][2])]
<1>1. multiplied \in [1..n -> Table]
  OBVIOUS
<1>2. multiplied \in Seq(Table) /\ Len(multiplied) = n
  BY <1>1, BytesAreSeq
<1>3. \A k \in 1..n : multiplied[k].kernel = "multiply" /\ multiplied[k].weight = products[k][1]
  BY DEF Multiply, Op
<1> HIDE DEF multiplied
<1>4. Prepare(x) \o multiplied \in Seq(Table)
  BY <1>2, PreparedIn, ConcatProperties
<1>5. Fed(Prepare(x) \o multiplied)
  <2>1. SUFFICES ASSUME Half PROVE Fed(Prepare(x) \o multiplied)
    BY DEF Fed
  <2>2. PICK cast : cast = Prepare(x)
    OBVIOUS
  <2>3. cast = <<Op("cast", "none", <<x>>, "matrix_input")>>
    BY <2>1, <2>2 DEF Prepare
  <2>4. Len(cast) = 1 /\ cast[1].kernel = "cast" /\ cast[1].reads = <<x>>
    BY <2>3 DEF Op
  <2>5. PICK w : w = cast \o multiplied
    OBVIOUS
  <2>6. /\ Len(w) = 1 + n
        /\ \A i \in 1..(1 + n) : w[i] = IF i <= 1 THEN cast[1] ELSE multiplied[i - 1]
    <3>1. /\ Len(w) = Len(cast) + Len(multiplied)
          /\ \A i \in 1..(Len(cast) + Len(multiplied)) :
               w[i] = IF i <= Len(cast) THEN cast[i] ELSE multiplied[i - Len(cast)]
      BY <1>2, <2>2, <2>5, PreparedIn, ConcatProperties
    <3>2. ASSUME NEW i \in 1..(1 + n) PROVE w[i] = IF i <= 1 THEN cast[1] ELSE multiplied[i - 1]
      BY <1>2, <2>4, <3>1
    <3>3. QED
      BY <1>2, <2>4, <3>1, <3>2
  <2>7. ASSUME NEW k \in 1..Len(w), w[k].kernel = "multiply"
        PROVE  /\ 1 \in 1..(k - 1) /\ w[1].kernel = "cast" /\ w[1].reads = <<InputOf[w[k].weight]>>
               /\ \A i \in 2..k : w[i].kernel # "cast"
    <3>1. w[1] = cast[1]
      BY <2>6
    <3>2. k \in 2..(1 + n)
      BY <2>4, <2>6, <2>7, <3>1
    <3>3. ASSUME NEW i \in 2..(1 + n) PROVE i - 1 \in 1..n /\ w[i] = multiplied[i - 1]
      BY <2>6
    <3>4. ASSUME NEW i \in 2..k PROVE w[i].kernel # "cast"
      <4>1. i \in 2..(1 + n)
        BY <3>2
      <4>2. QED
        BY <1>3, <3>3, <4>1
    <3>5. InputOf[w[k].weight] = x
      BY <1>3, <3>2, <3>3
    <3>6. QED
      BY <2>4, <3>1, <3>2, <3>4, <3>5
  <2>8. Fed(w)
    <3>1. ASSUME NEW k \in 1..Len(w), w[k].kernel = "multiply" PROVE Feeds(w, k, 1)
      BY <2>7, <3>1 DEF Feeds
    <3>2. QED
      BY <3>1, FedMeans
  <2>9. QED
    BY <2>2, <2>5, <2>8
<1>6. QED
  BY <1>4, <1>5 DEF Group, multiplied, Programs

\* What the pieces of a forward are made of.
LEMMA AttentionIn == AttentionWork \in Programs(Table)
<1> DEFINE opening == <<Op("norm", "attn_norm", <<"hidden">>, "normalized")>>
           three == <<<<"attn_q", "query">>, <<"attn_k", "key">>, <<"attn_v", "value">>>>
           one   == <<<<"attn_output", "projected">>>>
           mixed == <<Op("norm", "attn_q_norm", <<"query">>, "query"), Op("norm", "attn_k_norm", <<"key">>, "key"),
                      Op("rope", "none", <<"query", "positions">>, "query"),
                      Op("rope", "none", <<"key", "positions">>, "key"),
                      Op("store", "none", <<"key", "value", "slots", "positions">>, "kv"),
                      Op("qk", "none", <<"kv", "query", "slots", "positions">>, "scores"),
                      Op("softmax", "none", <<"scores", "slots", "positions">>, "probabilities"),
                      Op("pv", "none", <<"kv", "probabilities", "slots", "positions">>, "attention")>>
           last  == <<Op("add", "none", <<"hidden", "projected">>, "hidden"),
                      Op("norm", "ffn_norm", <<"hidden">>, "normalized")>>
<1>1. opening \in Programs(Table)
  <2>1. Op("norm", "attn_norm", <<"hidden">>, "normalized") \in Quiet
    BY DEF NormOps, Quiet
  <2> HIDE DEF Quiet
  <2>2. opening \in Seq(Quiet)
    BY <2>1
  <2>3. QED
    BY <2>2, QuietIn
<1>2. Group("normalized", three) \in Programs(Table)
  <2>1. /\ Multiply("normalized", "attn_q", "query") \in Table /\ Multiply("normalized", "attn_k", "key") \in Table
        /\ Multiply("normalized", "attn_v", "value") \in Table
    BY DEF ProductOps, Table
  <2>2. /\ DOMAIN three = 1..3
        /\ \A k \in 1..3 : Multiply("normalized", three[k][1], three[k][2]) \in Table /\ InputOf[three[k][1]] = "normalized"
    BY <2>1 DEF InputOf
  <2> HIDE DEF three
  <2>3. QED
    BY <2>2, GroupIn
<1>3. mixed \in Programs(Table)
  <2>1. /\ Op("norm", "attn_q_norm", <<"query">>, "query") \in Quiet
        /\ Op("norm", "attn_k_norm", <<"key">>, "key") \in Quiet
    BY DEF NormOps, Quiet
  <2>2. /\ Op("rope", "none", <<"query", "positions">>, "query") \in Quiet
        /\ Op("rope", "none", <<"key", "positions">>, "key") \in Quiet
        /\ Op("store", "none", <<"key", "value", "slots", "positions">>, "kv") \in Quiet
        /\ Op("qk", "none", <<"kv", "query", "slots", "positions">>, "scores") \in Quiet
        /\ Op("softmax", "none", <<"scores", "slots", "positions">>, "probabilities") \in Quiet
        /\ Op("pv", "none", <<"kv", "probabilities", "slots", "positions">>, "attention") \in Quiet
    BY DEF AttentionOps, Quiet
  <2> HIDE DEF Quiet
  <2>3. mixed \in Seq(Quiet)
    BY <2>1, <2>2
  <2>4. QED
    BY <2>3, QuietIn
<1>4. Group("attention", one) \in Programs(Table)
  <2>1. Multiply("attention", "attn_output", "projected") \in Table
    BY DEF ProductOps, Table
  <2>2. /\ DOMAIN one = 1..1
        /\ \A k \in 1..1 : Multiply("attention", one[k][1], one[k][2]) \in Table /\ InputOf[one[k][1]] = "attention"
    BY <2>1 DEF InputOf
  <2> HIDE DEF one
  <2>3. QED
    BY <2>2, GroupIn
<1>5. last \in Programs(Table)
  <2>1. /\ Op("add", "none", <<"hidden", "projected">>, "hidden") \in Quiet
        /\ Op("norm", "ffn_norm", <<"hidden">>, "normalized") \in Quiet
    BY DEF NormOps, OtherOps, Quiet
  <2> HIDE DEF Quiet
  <2>2. last \in Seq(Quiet)
    BY <2>1
  <2>3. QED
    BY <2>2, QuietIn
<1>6. AttentionWork = (((opening \o Group("normalized", three)) \o mixed) \o Group("attention", one)) \o last
  BY DEF AttentionWork
<1> HIDE DEF opening, three, one, mixed, last
<1>7. (((opening \o Group("normalized", three)) \o mixed) \o Group("attention", one)) \o last \in Programs(Table)
  <2>1. opening \o Group("normalized", three) \in Programs(Table)
    BY <1>1, <1>2, Joined
  <2>2. (opening \o Group("normalized", three)) \o mixed \in Programs(Table)
    BY <1>3, <2>1, Joined
  <2>3. ((opening \o Group("normalized", three)) \o mixed) \o Group("attention", one) \in Programs(Table)
    BY <1>4, <2>2, Joined
  <2>4. QED
    BY <1>5, <2>3, Joined
<1>8. QED
  BY <1>6, <1>7

LEMMA FeedForwardIn == FeedForwardWork \in Programs(Table) /\ Len(FeedForwardWork) >= 1
<1> DEFINE two == <<<<"ffn_gate", "gate">>, <<"ffn_up", "up">>>>
           one == <<<<"ffn_down", "down">>>>
<1>1. Opened \in Programs(Table)
  <2>1. Multiply("normalized", "ffn_gate", "gate") \in Table /\ Multiply("normalized", "ffn_up", "up") \in Table
    BY DEF ProductOps, Table
  <2>2. /\ DOMAIN two = 1..2
        /\ \A k \in 1..2 : Multiply("normalized", two[k][1], two[k][2]) \in Table /\ InputOf[two[k][1]] = "normalized"
    BY <2>1 DEF InputOf
  <2>3. Opened = Group("normalized", two)
    BY DEF Opened
  <2> HIDE DEF two
  <2>4. QED
    BY <2>2, <2>3, GroupIn
<1>2. Activated \in Programs(Table)
  <2>1. Op("swiglu", "none", <<"gate", "up">>, "gate") \in Quiet
    BY DEF OtherOps, Quiet
  <2> HIDE DEF Quiet
  <2>2. Activated \in Seq(Quiet)
    BY <2>1 DEF Activated
  <2>3. QED
    BY <2>2, QuietIn
<1>3. Group("gate", one) \in Programs(Table)
  <2>1. Multiply("gate", "ffn_down", "down") \in Table
    BY DEF ProductOps, Table
  <2>2. /\ DOMAIN one = 1..1
        /\ \A k \in 1..1 : Multiply("gate", one[k][1], one[k][2]) \in Table /\ InputOf[one[k][1]] = "gate"
    BY <2>1 DEF InputOf
  <2> HIDE DEF one
  <2>3. QED
    BY <2>2, GroupIn
<1>4. Closing \in Programs(Table)
  <2>1. Op("add", "none", <<"hidden", "down">>, "hidden") \in Quiet /\ Op("finite", "none", <<"hidden">>, "status") \in Quiet
    BY DEF OtherOps, Quiet
  <2> HIDE DEF Quiet
  <2>2. Closing \in Seq(Quiet)
    BY <2>1 DEF Closing
  <2>3. QED
    BY <2>2, QuietIn
<1>5. FeedForwardWork = ((Opened \o Activated) \o Group("gate", one)) \o Closing
  BY DEF FeedForwardWork
<1> HIDE DEF one
<1>6. Opened \o Activated \in Programs(Table)
  BY <1>1, <1>2, Joined
<1>7. (Opened \o Activated) \o Group("gate", one) \in Programs(Table)
  BY <1>3, <1>6, Joined
<1>8. /\ ((Opened \o Activated) \o Group("gate", one)) \o Closing \in Programs(Table)
      /\ Len(((Opened \o Activated) \o Group("gate", one)) \o Closing) >= 1
  <2>1. PICK s \in Programs(Table) : s = (Opened \o Activated) \o Group("gate", one)
    BY <1>7
  <2>2. s \o Closing \in Programs(Table) /\ Len(s \o Closing) = Len(s) + Len(Closing)
    BY <1>4, Joined
  <2>3. Len(s) \in Nat /\ Len(Closing) = 2
    BY LenProperties DEF Closing, Programs
  <2>4. QED
    BY <2>1, <2>2, <2>3
<1>9. QED
  BY <1>5, <1>8

LEMMA LayerIn == LayerWork \in Programs(Table) /\ Len(LayerWork) \in Nat \ {0}
<1>1. /\ LayerWork \in Programs(Table) /\ Len(LayerWork) = Len(AttentionWork) + Len(FeedForwardWork)
      /\ Len(AttentionWork) \in Nat /\ Len(FeedForwardWork) \in Nat
  BY AttentionIn, FeedForwardIn, Joined, LenProperties DEF LayerWork, Programs
<1>2. QED
  BY <1>1, FeedForwardIn

\* An operation of the table in a layer, one by one and as a sequence.
LEMMA LayeredIn ==
  ASSUME NEW o \in Table, NEW l \in Nat
  PROVE  o \in Layered(Table) /\ [o EXCEPT !.layer = l] \in Layered(Table)
BY OfLayerZero DEF Layered

LEMMA LayeredSeq ==
  ASSUME NEW s \in Programs(Table)
  PROVE  s \in Programs(Layered(Table))
<1>1. Table \subseteq Layered(Table)
  BY LayeredIn
<1>2. s \in Seq(Layered(Table)) /\ Fed(s)
  BY <1>1, SeqMonotonic DEF Programs
<1>3. QED
  BY <1>2 DEF Programs

LEMMA FieldsKept ==
  ASSUME NEW o \in Table, NEW l
  PROVE  LET x == [o EXCEPT !.layer = l]
         IN x.kernel = o.kernel /\ x.weight = o.weight /\ x.reads = o.reads
OBVIOUS

LEMMA EveryLayerIn == EveryLayer \in Programs(Layered(Table))
<1> DEFINE w == EveryLayer
<1>1. PICK n \in Nat \ {0} : n = Len(LayerWork)
  BY LayerIn
<1>2. LayerWork \in Seq(Table) /\ Fed(LayerWork)
  BY LayerIn DEF Programs
<1>3. Layers \in Nat \ {0} /\ Layers * n \in Nat
  BY ForwardAssumption, ProductIsNatural
<1>4. EveryLayer = [k \in 1..(Layers * n) |->
                      [LayerWork[((k - 1) % n) + 1] EXCEPT !.layer = ((k - 1) \div n) + 1]]
  BY <1>1 DEF EveryLayer
<1>5. ASSUME NEW q \in Nat, NEW r \in 1..n, n * q + r \in 1..(Layers * n)
      PROVE  w[n * q + r] = [LayerWork[r] EXCEPT !.layer = q + 1]
  <2>1. ((n * q + r) - 1) % n = r - 1 /\ ((n * q + r) - 1) \div n = q
    <3>1. (n * q + (r - 1)) % n = r - 1 /\ (n * q + (r - 1)) \div n = q
      BY DivisionIs
    <3>2. (n * q + r) - 1 = n * q + (r - 1)
      BY ProductIsNatural
    <3>3. QED
      BY <3>1, <3>2
  <2>2. PICK k \in 1..(Layers * n) : k = n * q + r
    BY <1>5
  <2>3. (k - 1) % n = r - 1 /\ (k - 1) \div n = q
    BY <2>1, <2>2
  <2>4. ((k - 1) % n) + 1 = r
    BY <2>3
  <2>5. w[k] = [LayerWork[((k - 1) % n) + 1] EXCEPT !.layer = ((k - 1) \div n) + 1]
    BY <1>4
  <2>6. QED
    BY <2>2, <2>3, <2>4, <2>5
<1>6. ASSUME NEW k \in 1..(Layers * n)
      PROVE  \E q \in Nat, r \in 1..n : k = n * q + r
  <2>1. PICK q \in Nat : q = (k - 1) \div n
    BY <1>3, Division
  <2>2. PICK e \in 0..(n - 1) : e = (k - 1) % n
    BY <1>3, Division
  <2>3. k - 1 = n * q + e
    BY <1>3, <2>1, <2>2, Division
  <2>4. e + 1 \in 1..n /\ k = n * q + (e + 1)
    BY <2>2, <2>3, ProductIsNatural
  <2>5. QED
    BY <2>4
<1>7. EveryLayer = [k \in 1..(Layers * n) |-> w[k]]
  BY <1>4
<1> HIDE DEF w
<1>8. ASSUME NEW k \in 1..(Layers * n) PROVE w[k] \in Layered(Table)
  <2>1. PICK q \in Nat, r \in 1..n : k = n * q + r
    BY <1>6
  <2>2. LayerWork[r] \in Table /\ q + 1 \in Nat
    BY <1>1, <1>2, ElementOfSeq
  <2>3. [LayerWork[r] EXCEPT !.layer = q + 1] \in Layered(Table)
    <3>1. PICK o \in Table : o = LayerWork[r]
      BY <2>2
    <3>2. PICK l \in Nat : l = q + 1
      BY <2>2
    <3>3. QED
      BY <3>1, <3>2, LayeredIn
  <2>4. QED
    BY <1>5, <2>1, <2>3
<1>9. w \in Seq(Layered(Table)) /\ Len(w) = Layers * n
  <2>1. w \in [1..(Layers * n) -> Layered(Table)]
    BY <1>7, <1>8 DEF w
  <2>2. QED
    BY <1>3, <2>1, BytesAreSeq
\* The product and its input are of the same layer.
<1>10. ASSUME Half, NEW k \in 1..Len(w), w[k].kernel = "multiply"
      PROVE  \E j \in Nat : Feeds(w, k, j)
  <2>1. PICK q \in Nat, r \in 1..n : k = n * q + r
    BY <1>6, <1>9
  <2>2. PICK a \in Nat : a = n * q
    BY ProductIsNatural
  <2>3. k = a + r /\ k <= Layers * n
    BY <1>3, <1>9, <2>1, <2>2
  <2>4. ASSUME NEW i \in 1..r
        PROVE  /\ w[a + i].kernel = LayerWork[i].kernel /\ w[a + i].weight = LayerWork[i].weight
               /\ w[a + i].reads = LayerWork[i].reads
    <3>1. i \in 1..n /\ a + i \in 1..(Layers * n)
      BY <1>3, <2>3
    <3>2. w[a + i] = [LayerWork[i] EXCEPT !.layer = q + 1]
      BY <1>5, <2>2, <3>1
    <3>3. LayerWork[i] \in Table
      BY <1>1, <1>2, <3>1, ElementOfSeq
    <3>4. PICK o \in Table : o = LayerWork[i]
      BY <3>3
    <3>5. [o EXCEPT !.layer = q + 1].kernel = o.kernel /\ [o EXCEPT !.layer = q + 1].weight = o.weight
          /\ [o EXCEPT !.layer = q + 1].reads = o.reads
      BY FieldsKept
    <3>6. QED
      BY <3>2, <3>4, <3>5
  <2>5. LayerWork[r].kernel = "multiply" /\ r \in 1..Len(LayerWork)
    <3>1. r \in 1..r
      OBVIOUS
    <3>2. QED
      BY <1>1, <1>10, <2>3, <2>4, <3>1
  <2>6. PICK j \in Nat : Feeds(LayerWork, r, j)
    BY <1>2, <1>10, <2>5, FedMeans
  <2>7. Feeds(w, a + r, a + j)
    <3>1. r \in Nat
      OBVIOUS
    <3>2. QED
      BY <2>2, <2>4, <2>6, <3>1, FeedsMoved
  <2>8. QED
    BY <2>3, <2>7
<1>11. Fed(w)
  BY <1>10, FedMeans
<1>12. QED
  BY <1>9, <1>11 DEF Programs, w

LEMMA BeginningIn ==
  ASSUME "table" \in asked => m.layout = "paged"
  PROVE  Beginning \in Programs(Table)
<1> DEFINE table == IF "table" \in asked THEN <<Upload("kv_block_table")>> ELSE <<>>
           three == <<Upload("tokens"), Upload("positions"), Upload("slots")>>
           rows  == IF "tokens" \in asked THEN <<Upload("selected_rows")>> ELSE <<>>
           last  == <<Op("gather", "token_embd", <<"tokens">>, "hidden")>>
<1>1. table \in Programs(Table)
  <2>1. "table" \in asked => Upload("kv_block_table") \in Quiet
    BY DEF CopyOps, Quiet
  <2> HIDE DEF Quiet
  <2>2. table \in Seq(Quiet)
    BY <2>1
  <2>3. QED
    BY <2>2, QuietIn
<1>2. /\ Upload("tokens") \in Quiet /\ Upload("positions") \in Quiet /\ Upload("slots") \in Quiet
      /\ Upload("selected_rows") \in Quiet
  BY DEF CopyOps, Quiet, Inputs
<1>3. Op("reset", "none", <<>>, "status") \in Quiet /\ Op("gather", "token_embd", <<"tokens">>, "hidden") \in Quiet
  BY DEF OtherOps, Quiet
<1>4. Reset \in Programs(Table) /\ three \in Programs(Table) /\ rows \in Programs(Table) /\ last \in Programs(Table)
  <2> HIDE DEF Quiet
  <2>1. Reset \in Seq(Quiet) /\ three \in Seq(Quiet) /\ rows \in Seq(Quiet) /\ last \in Seq(Quiet)
    BY <1>2, <1>3 DEF Reset
  <2>2. QED
    BY <2>1, QuietIn
<1>5. Beginning = (((table \o Reset) \o three) \o rows) \o last
  BY DEF Beginning
<1> HIDE DEF table, three, rows, last
<1>6. table \o Reset \in Programs(Table)
  BY <1>1, <1>4, Joined
<1>7. (table \o Reset) \o three \in Programs(Table)
  BY <1>4, <1>6, Joined
<1>8. ((table \o Reset) \o three) \o rows \in Programs(Table)
  BY <1>4, <1>7, Joined
<1>9. QED
  BY <1>4, <1>5, <1>8, Joined

LEMMA SelectionIn == Selection \in Programs(Table)
<1> DEFINE opening == <<Op("norm", "output_norm", <<"hidden">>, "normalized"),
                      Op("gather", "none", <<"normalized", "selected_rows">>, "selected_hidden")>>
           one   == <<<<"output", "logits">>>>
           best  == <<Op("argmax", "none", <<"logits">>, "tokens"), Download("tokens", "host")>>
           last  == IF "logits" \in asked THEN <<Download("logits", "result")>> ELSE <<>>
<1>1. opening \in Programs(Table) /\ best \in Programs(Table) /\ last \in Programs(Table)
  <2>1. /\ Op("norm", "output_norm", <<"hidden">>, "normalized") \in Quiet
        /\ Op("gather", "none", <<"normalized", "selected_rows">>, "selected_hidden") \in Quiet
        /\ Op("argmax", "none", <<"logits">>, "tokens") \in Quiet
    BY DEF NormOps, OtherOps, Quiet
  <2>2. Download("tokens", "host") \in Quiet /\ Download("logits", "result") \in Quiet
    BY DEF CopyOps, Quiet
  <2> HIDE DEF Quiet
  <2>3. opening \in Seq(Quiet) /\ best \in Seq(Quiet) /\ last \in Seq(Quiet)
    BY <2>1, <2>2
  <2>4. QED
    BY <2>3, QuietIn
<1>2. Group("selected_hidden", one) \in Programs(Table)
  <2>1. Multiply("selected_hidden", "output", "logits") \in Table
    BY DEF ProductOps, Table
  <2>2. /\ DOMAIN one = 1..1
        /\ \A k \in 1..1 : Multiply("selected_hidden", one[k][1], one[k][2]) \in Table /\ InputOf[one[k][1]] = "selected_hidden"
    BY <2>1 DEF InputOf
  <2> HIDE DEF one
  <2>3. QED
    BY <2>2, GroupIn
<1>3. Selection = IF "tokens" \notin asked THEN <<>>
                  ELSE ((opening \o Group("selected_hidden", one)) \o best) \o last
  BY DEF Selection
<1> HIDE DEF opening, one, best, last
<1>4. opening \o Group("selected_hidden", one) \in Programs(Table)
  BY <1>1, <1>2, Joined
<1>5. (opening \o Group("selected_hidden", one)) \o best \in Programs(Table)
  BY <1>1, <1>4, Joined
<1>6. ((opening \o Group("selected_hidden", one)) \o best) \o last \in Programs(Table)
  BY <1>1, <1>5, Joined
<1>7. <<>> \in Programs(Table)
  <2>1. <<>> \in Seq(Quiet)
    OBVIOUS
  <2>2. QED
    BY <2>1, QuietIn
<1>8. QED
  BY <1>3, <1>6, <1>7

LEMMA AtIn ==
  ASSUME NEW s \in Programs(Table), NEW l \in Nat
  PROVE  At(l, s) \in Programs(Layered(Table))
<1> DEFINE w == At(l, s)
<1>1. /\ s \in Seq(Table) /\ Fed(s)
      /\ Len(s) \in Nat /\ DOMAIN s = 1..Len(s) /\ \A k \in 1..Len(s) : s[k] \in Table
  BY LenProperties, ElementOfSeq DEF Programs
<1>2. w \in [1..Len(s) -> Layered(Table)]
  BY <1>1, LayeredIn DEF At
<1>3. w \in Seq(Layered(Table)) /\ Len(w) = Len(s)
  BY <1>1, <1>2, BytesAreSeq
<1>4. ASSUME NEW k \in 1..Len(s)
      PROVE  w[k].kernel = s[k].kernel /\ w[k].weight = s[k].weight /\ w[k].reads = s[k].reads
  <2>1. PICK o \in Table : o = s[k]
    BY <1>1
  <2>2. w[k] = [o EXCEPT !.layer = l]
    BY <1>1, <2>1 DEF At
  <2>3. QED
    BY <2>1, <2>2, FieldsKept
<1> HIDE DEF w
<1>5. ASSUME Half, NEW k \in 1..Len(w), w[k].kernel = "multiply" PROVE \E j \in Nat : Feeds(w, k, j)
  <2>1. k \in 1..Len(s) /\ s[k].kernel = "multiply"
    BY <1>3, <1>4, <1>5
  <2>2. PICK j \in Nat : Feeds(s, k, j)
    BY <1>1, <1>5, <2>1, FedMeans
  <2>3. ASSUME NEW i \in 1..k
        PROVE  /\ w[0 + i].kernel = s[i].kernel /\ w[0 + i].weight = s[i].weight
               /\ w[0 + i].reads = s[i].reads
    <3>1. i \in 1..Len(s) /\ 0 + i = i
      BY <1>1, <2>1
    <3>2. QED
      BY <1>4, <3>1
  <2>4. k \in Nat /\ 0 \in Nat
    BY <1>1, <2>1
  <2>5. Feeds(w, 0 + k, 0 + j)
    BY <2>2, <2>3, <2>4, FeedsMoved
  <2>6. QED
    BY <2>5
<1>6. Fed(w)
  BY <1>5, FedMeans
<1>7. QED
  BY <1>3, <1>6 DEF Programs, w

LEMMA WorkIn ==
  ASSUME ForwardStarted
  PROVE  Work \in Programs(Layered(Table))
<1>1. Beginning \in Programs(Layered(Table))
  BY BeginningIn, LayeredSeq DEF ForwardStarted
<1>2. At(Layers + 1, Selection) \in Programs(Layered(Table))
  BY SelectionIn, AtIn, ForwardAssumption
<1>3. <<Download("status", "host")>> \in Programs(Layered(Table))
  <2>1. Download("status", "host") \in Quiet
    BY DEF CopyOps, Quiet
  <2> HIDE DEF Quiet
  <2>2. <<Download("status", "host")>> \in Seq(Quiet)
    BY <2>1
  <2>3. QED
    BY <2>2, QuietIn, LayeredSeq
<1>4. Beginning \o EveryLayer \in Programs(Layered(Table))
  BY <1>1, EveryLayerIn, Joined
<1>5. (Beginning \o EveryLayer) \o At(Layers + 1, Selection) \in Programs(Layered(Table))
  BY <1>2, <1>4, Joined
<1>6. ((Beginning \o EveryLayer) \o At(Layers + 1, Selection)) \o <<Download("status", "host")>>
        \in Programs(Layered(Table))
  BY <1>3, <1>5, Joined
<1>7. QED
  BY <1>6 DEF Work

\* Where an operation writes, and which memory of the host it uses.
LEMMA TableWrites ==
  ASSUME NEW o \in Table
  PROVE  o.writes \in Regions \cup {"kv"} /\ o.host \in {"none", "host", "result"}
<1>1. \A kernel, weight, reads, writes :
        Op(kernel, weight, reads, writes).writes = writes /\ Op(kernel, weight, reads, writes).host = "none"
  BY DEF Op
<1>2. \A input, weight, output :
        Multiply(input, weight, output).writes = output /\ Multiply(input, weight, output).host = "none"
  BY DEF Multiply, Op
<1>3. \A name : Upload(name).writes = name /\ Upload(name).host = "host"
  BY DEF Upload, Op
<1>4. \A name, host : Download(name, host).writes = name /\ Download(name, host).host = host
  BY DEF Download, Op
<1>5. Always \subseteq Regions
  BY DEF Regions
<1>6. CASE o \in NormOps
  BY <1>1, <1>5, <1>6 DEF NormOps, Always
<1>7. CASE o \in ProductOps
  BY <1>2, <1>5, <1>7 DEF ProductOps, Always
<1>8. CASE o \in CastOps
  BY <1>1, <1>8 DEF CastOps, Regions, Half
<1>9. CASE o \in AttentionOps
  BY <1>1, <1>5, <1>9 DEF AttentionOps, Always
<1>10. CASE o \in OtherOps
  BY <1>1, <1>5, <1>10 DEF OtherOps, Always
<1>11. CASE o \in CopyOps
  <2>1. CASE o \in {Upload(name) : name \in Inputs}
    BY <1>3, <1>5, <2>1 DEF Inputs, Always
  <2>2. CASE m.layout = "paged" /\ o = Upload("kv_block_table")
    BY <1>3, <2>2 DEF Regions
  <2>3. CASE o \in {Download("tokens", "host"), Download("logits", "result"), Download("status", "host")}
    BY <1>4, <1>5, <2>3 DEF Always
  <2>4. QED
    BY <1>11, <2>1, <2>2, <2>3 DEF CopyOps
<1>12. QED
  BY <1>6, <1>7, <1>8, <1>9, <1>10, <1>11 DEF Table, Quiet

\* A layer changes nothing but the layer.
LEMMA LayeredFields ==
  ASSUME NEW x \in Layered(Table)
  PROVE  \E o \in Table : /\ x.kernel = o.kernel /\ x.weight = o.weight /\ x.reads = o.reads
                          /\ x.writes = o.writes /\ x.host = o.host
<1>1. PICK o \in Table : x \in {[o EXCEPT !.layer = l] : l \in Nat}
  BY DEF Layered
<1>2. PICK l \in Nat : x = [o EXCEPT !.layer = l]
  BY <1>1
<1>3. QED
  BY <1>2

-----------------------------------------------------------------------------
(***************************************************************************)
(* Forwards: the table of pages is uploaded only where there is one.       *)
(***************************************************************************)
LEMMA ForwardBegins == Init => ForwardStarted
BY DEF Init, ForwardStarted

LEMMA ForwardStep ==
  ASSUME ForwardStarted, [Next]_vars
  PROVE  ForwardStarted'
<1>1. m' = m
  BY SameNames DEF m
<1>2. ASSUME UNCHANGED forwardVars PROVE ForwardStarted'
  BY <1>1, <1>2 DEF ForwardStarted, forwardVars
<1>3. CASE Forget
  BY <1>3 DEF Forget, ForwardStarted
<1>4. CASE BeginForward
  <2>1. step' = 1
    BY <1>4 DEF BeginForward
  <2>2. PICK a \in Modes : asked' \in (IF m.layout = "paged" THEN {a, a \cup {"table"}} ELSE {a})
    BY <1>4 DEF BeginForward
  <2>3. "table" \notin a
    BY ForwardAssumption
  <2>4. QED
    BY <1>1, <2>1, <2>2, <2>3 DEF ForwardStarted
<1>5. CASE Enqueue \/ Execute
  <2>1. asked' = asked /\ step' \in {step, step + 1}
    BY <1>5 DEF Enqueue, Execute
  <2>2. QED
    BY <1>1, <2>1 DEF ForwardStarted
<1>6. CASE Commit \/ Gone \/ UNCHANGED vars
  BY <1>2, <1>6 DEF Commit, Gone, vars
<1>7. QED
  BY <1>2, <1>3, <1>4, <1>5, <1>6 DEF Next, Fail

-----------------------------------------------------------------------------
(***************************************************************************)
(* Where the operations reach.                                             *)
(***************************************************************************)
LEMMA FieldsOf ==
  ASSUME NEW b, NEW offset, NEW bytes, NEW fill, NEW host, NEW more
  PROVE  LET op == Operation(b, offset, bytes, fill, host)
         IN /\ op.buffer = b /\ op.offset = offset /\ op.bytes = bytes /\ op.host = host
            /\ [op EXCEPT !.does = more].buffer = b /\ [op EXCEPT !.does = more].offset = offset
            /\ [op EXCEPT !.does = more].bytes = bytes /\ [op EXCEPT !.does = more].host = host
BY DEF Operation

LEMMA EnqueuedIsSafe ==
  ASSUME PlanIsSound, RegionsAreListed, ItemsAreMeasured, ForwardStarted, Allocated, OwnersAreKnown,
         pc = "forward", step <= Len(Work)
  PROVE  SafeOp([Placed(Work[step]) EXCEPT !.does = Work[step]], held, memory, stack)
<1>1. Work \in Seq(Layered(Table)) /\ step \in 1..Len(Work)
  BY WorkIn, LenProperties DEF ForwardStarted, Programs
<1>2. PICK op \in Layered(Table) : op = Work[step]
  BY <1>1, ElementOfSeq
<1>3. op.writes \in Regions \cup {"kv"} /\ op.host \in {"none", "host", "result"}
  BY LayeredFields, TableWrites
<1>4. pc \in Live /\ pc \in HasWorkspace /\ pc \in HasWeights /\ pc \in HasContext /\ pc \in HasHost /\ pc \in HasPlan
  BY DEF Live, HasWorkspace, HasWeights, HasContext, HasHost, HasPlan
<1>5. /\ "stream" \in held /\ "workspace" \in held /\ "kv" \in held /\ planned = "laid" /\ OnStack("host")
      /\ Len(memory["workspace"]) = arenas.workspace.bytes
  BY <1>4 DEF Allocated
<1>6. op.host # "none" => op.host \in Range(stack)
  <2>1. DOMAIN stack = 1..Len(stack) /\ Len(stack) \in Nat /\ Len(stack) >= 1 /\ stack[Len(stack)] = "result"
    BY LenProperties DEF OwnersAreKnown
  <2>2. "host" \in Range(stack) /\ "result" \in Range(stack)
    BY <1>5, <2>1 DEF OnStack, Range
  <2>3. QED
    BY <1>3, <2>2
<1>7. CASE op.writes = "kv"
  <2>1. Placed(op) = Operation("kv", 0, 0, "kernel", "none")
    BY <1>7 DEF Placed
  <2>2. QED
    BY <1>2, <1>5, <2>1, FieldsOf DEF SafeOp
<1>8. CASE op.writes # "kv"
  <2>1. PICK r : r = RegionNamed(op.writes)
    OBVIOUS
  <2>2. r.offset + r.bytes <= arenas.workspace.bytes
    BY <1>3, <1>5, <1>8, <2>1, RegionIsInside
  <2>3. Placed(op) = Operation("workspace", r.offset, r.bytes, "kernel", op.host)
    BY <1>8, <2>1 DEF Placed
  <2>4. QED
    BY <1>2, <1>5, <1>6, <2>2, <2>3, FieldsOf DEF SafeOp, Buffers
<1>9. QED
  BY <1>7, <1>8

\* The smaller of two.
LEMMA MinOfTwo ==
  ASSUME NEW x \in Int, NEW y \in Int
  PROVE  Min({x, y}) \in {x, y} /\ Min({x, y}) <= x /\ Min({x, y}) <= y
<1>1. \E z \in {x, y} : \A w \in {x, y} : z <= w
  OBVIOUS
<1>2. Min({x, y}) \in {x, y} /\ \A w \in {x, y} : Min({x, y}) <= w
  BY <1>1 DEF Min
<1>3. QED
  BY <1>2

\* What is uploaded at the moment: where it lies, and in how large pieces.
LEMMA CurrentIsInside ==
  ASSUME PlanIsSound, RegionsAreListed, ItemsAreMeasured, planned = "laid", item \in 1..Len(UploadList),
         ~Current.alias
  PROVE  /\ BufferOf \in Buffers /\ Current \in ItemSet
         /\ Current.columns # 0 /\ Current.bytes = Current.rows * Current.columns * Current.width
         /\ Current.offset + Current.bytes <= arenas[BufferOf].bytes
<1> DEFINE items == arenas.weights.items
<1>1. "rope_coefficients" \in Regions
  BY DEF Regions, Always
<1>2. PICK rope : rope = RegionNamed("rope_coefficients")
  OBVIOUS
<1>3. /\ rope \in ItemSet /\ rope.columns # 0 /\ rope.bytes = rope.rows * rope.columns * rope.width
      /\ rope.offset + rope.bytes <= arenas.workspace.bytes
  BY <1>1, <1>2, RegionIsInside
<1>4. items \in Seq(ItemSet) /\ Len(items) \in Nat /\ DOMAIN items = 1..Len(items)
  BY ItemsOf DEF Buffers
<1>5. /\ Len(UploadList) = Len(items) + 1 /\ \A k \in 1..Len(items) : UploadList[k] = items[k]
      /\ UploadList[Len(items) + 1] = rope
  BY <1>2, <1>3, <1>4, AppendProperties DEF UploadList
<1>6. CASE item = Len(items) + 1
  <2>1. Current = rope /\ BufferOf = "workspace"
    BY <1>5, <1>6 DEF Current, BufferOf
  <2>2. QED
    BY <1>3, <2>1 DEF Buffers
<1>7. CASE item \in 1..Len(items)
  <2>1. Current = items[item] /\ BufferOf = "weights"
    BY <1>4, <1>5, <1>7 DEF Current, BufferOf
  <2>2. Current \in ItemSet
    BY <1>4, <1>7, <2>1, ElementOfSeq
  <2>3. Current.bytes = Current.rows * Current.columns * Current.width /\ Current.columns # 0
    BY <1>7, <2>1 DEF ItemsAreMeasured, Buffers
  <2>4. Current.offset + Current.bytes <= arenas.weights.bytes
    BY <1>4, <1>7, <2>1, ArenaOf DEF ArenaIsSound, Owned
  <2>5. QED
    BY <2>1, <2>2, <2>3, <2>4 DEF Buffers
<1>8. QED
  BY <1>4, <1>5, <1>6, <1>7

LEMMA ChunkOf ==
  ASSUME Current \in ItemSet, Current.columns # 0
  PROVE  RowsPerChunk \in Nat
<1>1. Current.columns \in Nat \ {0} /\ Current.rows \in Nat
  BY DEF ItemSet
<1>2. RowStaging(Current) \in Nat \ {0}
  BY <1>1 DEF RowStaging
<1>3. PICK q \in Nat : q = StagingBytes \div RowStaging(Current)
  BY <1>2, Division, StagingAssumption
<1>4. PICK rows \in Nat : rows = Current.rows
  BY <1>1
<1>5. RowsPerChunk = Min({rows, q}) /\ Min({rows, q}) \in {rows, q}
  <2>1. Min({rows, q}) \in {rows, q}
    BY MinOfTwo
  <2>2. QED
    BY Zenon, <1>3, <1>4, <2>1 DEF RowsPerChunk
<1>6. QED
  BY <1>5

\* The bytes of some rows of a table, after the bytes of the first ones.
LEMMA RowsInTable ==
  ASSUME NEW from \in Nat, NEW count \in Nat, NEW rows \in Nat, NEW columns \in Nat, NEW width \in Nat,
         NEW offset \in Nat, NEW bytes \in Nat,
         from + count <= rows, offset + rows * columns * width <= bytes
  PROVE  (offset + from * columns * width) + count * columns * width <= bytes
<1>1. PICK size \in Nat : size = columns * width
  BY ProductIsNatural
<1>2. PICK n \in Nat : n = from + count
  OBVIOUS
<1>3. n * size <= rows * size
  BY <1>2, ProductGrows
<1>4. n * size = from * size + count * size
  BY <1>2
<1>5. /\ from * columns * width = from * size /\ count * columns * width = count * size
      /\ rows * columns * width = rows * size
  BY <1>1
<1>6. PICK before, piece, all \in Nat : before = from * size /\ piece = count * size /\ all = rows * size
  BY ProductIsNatural
<1>7. before + piece <= all /\ offset + all <= bytes
  BY <1>3, <1>4, <1>5, <1>6
<1>8. QED
  BY <1>5, <1>6, <1>7

LEMMA CopiedIsInside ==
  ASSUME PlanIsSound, RegionsAreListed, ItemsAreMeasured, planned = "laid", item \in 1..Len(UploadList),
         ~Current.alias, first \in Nat, first <= Current.rows
  PROVE  /\ BufferOf \in Buffers
         /\ (Current.offset + first * Current.columns * Current.width) + Count * Current.columns * Current.width
              <= arenas[BufferOf].bytes
<1>1. /\ BufferOf \in Buffers /\ Current \in ItemSet /\ Current.columns # 0
      /\ Current.bytes = Current.rows * Current.columns * Current.width
      /\ Current.offset + Current.bytes <= arenas[BufferOf].bytes
  BY CurrentIsInside
<1>2. PICK rows, columns, width, offset \in Nat :
        rows = Current.rows /\ columns = Current.columns /\ width = Current.width /\ offset = Current.offset
  BY <1>1 DEF ItemSet
<1>3. PICK n \in Nat : n = RowsPerChunk
  BY <1>1, ChunkOf
<1>4. PICK count : count = Count
  OBVIOUS
<1>5. PICK rest \in Nat : rest = rows - first
  BY <1>2
<1>6. count = Min({n, rest}) /\ Min({n, rest}) \in {n, rest} /\ Min({n, rest}) <= rest
  <2>. n \in Int /\ rest \in Int
    OBVIOUS
  <2>1. Min({n, rest}) \in {n, rest} /\ Min({n, rest}) <= rest
    BY Zenon, MinOfTwo
  <2>2. QED
    BY Zenon, <1>2, <1>3, <1>4, <1>5, <2>1 DEF Count
<1>7. count \in Nat /\ first + count <= rows
  BY SMTT(30), <1>2, <1>5, <1>6
<1>8. PICK bytes \in Nat : bytes = arenas[BufferOf].bytes
  BY <1>1, ItemsOf
<1>9. offset + rows * columns * width <= bytes
  BY <1>1, <1>2, <1>8
<1>10. (offset + first * columns * width) + count * columns * width <= bytes
  BY <1>2, <1>7, <1>9, RowsInTable
<1>11. QED
  BY <1>1, <1>2, <1>4, <1>8, <1>10

-----------------------------------------------------------------------------
(***************************************************************************)
(* The stack: what a step pushes and pops, and what stays below.           *)
(***************************************************************************)
StackIsKept == \A i \in 1..Len(stack) : stack'[i] = stack[i]

LEMMA KeptStack ==
  ASSUME stack \in Seq(Objects), stack' \in Seq(Objects), Len(stack) <= Len(stack'), StackIsKept
  PROVE  StackKeeps /\ \A o : OnStack(o) => OnStack(o)'
<1>1. /\ Len(stack) \in Nat /\ Len(stack') \in Nat
      /\ DOMAIN stack = 1..Len(stack) /\ DOMAIN stack' = 1..Len(stack')
  BY LenProperties
<1>2. ASSUME NEW i \in 1..Len(stack) PROVE i \in 1..Len(stack') /\ stack'[i] = stack[i]
  BY <1>1 DEF StackIsKept
<1>3. StackKeeps
  BY <1>1, <1>2 DEF StackKeeps, Range
<1>4. ASSUME NEW o, OnStack(o) PROVE OnStack(o)'
  <2>1. PICK i \in 1..Len(stack) : stack[i] = o
    BY <1>4 DEF OnStack
  <2>2. QED
    BY <1>2, <2>1 DEF OnStack
<1>5. QED
  BY <1>3, <1>4

LEMMA SameStack ==
  ASSUME stack' = stack
  PROVE  StackKeeps /\ \A o : OnStack(o) => OnStack(o)'
BY DEF StackKeeps, OnStack

LEMMA StackPushed ==
  ASSUME stack \in Seq(Objects), NEW t \in Seq(Objects), stack' = stack \o t
  PROVE  /\ stack' \in Seq(Objects) /\ Len(stack') = Len(stack) + Len(t)
         /\ \A i \in 1..Len(stack) : stack'[i] = stack[i]
         /\ \A k \in 1..Len(t) : stack'[Len(stack) + k] = t[k]
         /\ StackKeeps /\ \A o : OnStack(o) => OnStack(o)'
<1>1. /\ stack' \in Seq(Objects) /\ Len(stack) \in Nat /\ Len(t) \in Nat /\ Len(stack') = Len(stack) + Len(t)
      /\ \A k \in 1..Len(t) : stack'[Len(stack) + k] = t[k]
  BY Zenon, PushedOnTop
<1>2. \A i \in 1..(Len(stack) + Len(t)) : stack'[i] = IF i <= Len(stack) THEN stack[i] ELSE t[i - Len(stack)]
  BY ConcatProperties
<1>3. \A i \in 1..Len(stack) : stack'[i] = stack[i]
  BY <1>1, <1>2
<1>4. StackKeeps /\ \A o : OnStack(o) => OnStack(o)'
  BY <1>1, <1>3, KeptStack DEF StackIsKept
<1>5. QED
  BY <1>1, <1>3, <1>4

LEMMA StackAppended ==
  ASSUME stack \in Seq(Objects), NEW top \in Objects, stack' = Append(stack, top)
  PROVE  /\ stack' \in Seq(Objects) /\ Len(stack') = Len(stack) + 1
         /\ \A i \in 1..Len(stack) : stack'[i] = stack[i]
         /\ stack'[Len(stack) + 1] = top
         /\ StackKeeps /\ \A o : OnStack(o) => OnStack(o)'
<1>1. /\ stack' \in Seq(Objects) /\ Len(stack) \in Nat /\ Len(stack') = Len(stack) + 1
      /\ \A i \in 1..Len(stack) : stack'[i] = stack[i]
      /\ stack'[Len(stack) + 1] = top
  BY AppendProperties, LenProperties
<1>2. StackKeeps /\ \A o : OnStack(o) => OnStack(o)'
  BY <1>1, KeptStack DEF StackIsKept
<1>3. QED
  BY <1>1, <1>2

\* The frame of an upload is popped as a whole.
LEMMA StackShortened ==
  ASSUME stack \in Seq(Objects), NEW n \in Nat, n <= Len(stack),
         stack' = SubSeq(stack, 1, Len(stack) - n)
  PROVE  /\ Len(stack') = Len(stack) - n
         /\ \A i \in 1..(Len(stack) - n) : stack'[i] = stack[i]
<1>1. PICK len \in Nat : len = Len(stack)
  BY LenProperties
<1>2. PICK last \in Nat : last = len - n
  <2>1. n <= len
    BY Zenon, <1>1
  <2>2. len - n \in Nat
    BY <2>1
  <2>3. QED
    BY <2>2
<1>3. \A i \in 1..last : stack[i] \in Objects
  BY <1>1, <1>2, ElementOfSeq
<1>4. stack' = SubSeq(stack, 1, last)
  BY <1>1, <1>2
<1>5. /\ Len(stack') = IF 1 <= last THEN last - 1 + 1 ELSE 0
      /\ \A i \in 1..(last - 1 + 1) : stack'[i] = stack[1 + i - 1]
  BY <1>3, <1>4, SubSeqProperties
<1>6. Len(stack') = last
  BY <1>2, <1>5
<1>7. ASSUME NEW i \in 1..last PROVE stack'[i] = stack[i]
  <2>1. i \in 1..(last - 1 + 1) /\ 1 + i - 1 = i
    BY <1>2
  <2>2. stack'[i] = stack[1 + i - 1]
    BY <1>5, <2>1
  <2>3. QED
    BY Zenon, <2>1, <2>2
<1>8. QED
  BY <1>1, <1>2, <1>6, <1>7

LEMMA FrontIsShorter ==
  ASSUME stack \in Seq(Objects), stack # <<>>
  PROVE  Front(stack) = SubSeq(stack, 1, Len(stack) - 1) /\ Len(stack) >= 1 /\ Len(stack) \in Nat
BY EmptySeq, LenProperties DEF Front

LEMMA TheFrame ==
  Frame \in Seq(Objects) /\ Len(Frame) = 2 /\ Frame[1] = "staging" /\ Frame[2] = "finish"
BY DEF Frame, Objects

\* What is not the frame, or the result, stays.
LEMMA PoppedKeeps ==
  ASSUME stack \in Seq(Objects), NEW n \in Nat, n <= Len(stack),
         stack' = SubSeq(stack, 1, Len(stack) - n), NEW o, OnStack(o),
         \A i \in 1..Len(stack) : i > Len(stack) - n => stack[i] # o
  PROVE  OnStack(o)'
<1>1. PICK i \in 1..Len(stack) : stack[i] = o
  BY DEF OnStack
<1>2. Len(stack) \in Nat
  BY LenProperties
<1>3. i \in 1..(Len(stack) - n)
  BY <1>1, <1>2
<1>4. QED
  BY <1>1, <1>3, StackShortened DEF OnStack

-----------------------------------------------------------------------------
(***************************************************************************)
(* What there is, step by step.                                            *)
(***************************************************************************)
\* No step but a constructor's last brings the host where more must exist.
Climb ==
  /\ pc' \in Live         => pc \in Live
  /\ pc' \in HasWorkspace => pc \in HasWorkspace
  /\ pc' \in HasWeights   => pc \in HasWeights
  /\ pc' \in HasContext   => pc \in HasContext
  /\ pc' \in HasHost      => pc \in HasHost
  /\ pc' \in HasPlan      => pc \in HasPlan

LEMMA AllocatedKept ==
  ASSUME Allocated, Climb, held \subseteq held', OnStack("host") => OnStack("host")',
         planned' = planned, arenas' = arenas, SameSizes
  PROVE  Allocated'
BY DEF Allocated, Climb, SameSizes, Buffers

LEMMA NothingNeeded ==
  ASSUME pc' \notin HasHost
  PROVE  Allocated'
BY DEF Allocated, HasHost, HasPlan, HasContext, HasWeights, HasWorkspace, Live

LEMMA AcquiredIsAllocated ==
  ASSUME PlanIsSound, OwnersAreKnown, BuffersAreBytes, Allocated, Acquire
  PROVE  Allocated'
<1>1. PICK k \in DOMAIN Parts[pc] :
        /\ NextPart(pc, k) /\ held' = held \cup {Parts[pc][k]}
        /\ IF k = Len(Parts[pc])
           THEN stack' = stack \o Pushed(pc) /\ pc' = After[pc] /\ memory' = Contents(pc)
           ELSE UNCHANGED <<stack, pc, memory>>
  BY DEF Acquire
<1>2. pc \in Constructors /\ arenas' = arenas /\ planned' = planned
  BY ConstructorsHaveParts DEF Acquire, planVars
<1>3. CASE k # Len(Parts[pc])
  <2>1. stack' = stack /\ pc' = pc /\ memory' = memory
    BY <1>1, <1>3
  <2>2. QED
    BY <1>1, <1>2, <2>1, AllocatedKept, SameStack DEF Climb, SameSizes
<1>4. CASE k = Len(Parts[pc])
  <2>1. stack' = stack \o Pushed(pc) /\ pc' = After[pc] /\ memory' = Contents(pc)
    BY <1>1, <1>4
  <2>2. stack \in Seq(Objects) /\ Pushed(pc) \in Seq(Objects) /\ Len(Pushed(pc)) >= 1 /\ Pushed(pc)[1] = pc
    BY <1>2, WhatIsPushed DEF OwnersAreKnown
  <2>3. \A o : OnStack(o) => OnStack(o)'
    BY <2>1, <2>2, StackPushed
  <2>4. \E i \in 1..Len(stack') : stack'[i] = pc
    <3>1. /\ Len(stack) \in Nat /\ Len(Pushed(pc)) \in Nat
          /\ Len(stack') = Len(stack) + Len(Pushed(pc)) /\ stack'[Len(stack) + 1] = Pushed(pc)[1]
      <4>1. Len(stack) \in Nat /\ Len(Pushed(pc)) \in Nat /\ 1 \in 1..Len(Pushed(pc))
        BY <2>2, LenProperties
      <4>2. QED
        BY Zenon, <2>1, <2>2, <4>1, StackPushed
    <3>2. Len(stack) + 1 \in 1..Len(stack') /\ stack'[Len(stack) + 1] = pc
      BY <2>2, <3>1
    <3>3. QED
      BY <3>2
  <2>5. /\ \A b \in Buffers : b # pc => Len(memory'[b]) = Len(memory[b])
        /\ pc \in Buffers => Len(memory'[pc]) = arenas[pc].bytes
    BY <1>2, <2>1, ContentsKeeps
  <2>6. ASSUME NEW o, Parts[pc][Len(Parts[pc])] = o PROVE o \in held'
    BY <1>1, <1>4, <2>6
  <2>7. CASE pc \in {"mappedFile", "metadata", "tokenizer"}
    <3>1. pc' \notin HasHost
      BY <2>1, <2>7, Order DEF HasHost, HasContext, HasWeights, HasWorkspace, Live, Loading
    <3>2. QED
      BY <3>1, NothingNeeded
  <2>8. CASE pc = "host"
    <3>1. pc' = "plan"
      BY <2>1, <2>8, Order
    <3>2. OnStack("host")'
      BY <2>4, <2>8 DEF OnStack
    <3>3. QED
      BY <3>1, <3>2 DEF Allocated, HasHost, HasPlan, HasContext, HasWeights, HasWorkspace, Live, Loading
  <2>9. CASE pc = "context"
    <3>1. pc' = "budget"
      BY <2>1, <2>9, Order
    <3>2. OnStack("host")' /\ planned' = "laid"
      BY <1>2, <2>3, <2>9 DEF Allocated, HasHost, HasPlan
    <3>3. Parts["context"] = <<"stream", "handle", "cublas">>
      BY DEF Parts
    <3>4. k = 3 /\ "stream" \in held
      BY <1>1, <1>4, <2>9, <3>3 DEF NextPart
    <3>5. QED
      BY <1>1, <3>1, <3>2, <3>4 DEF Allocated, HasHost, HasPlan, HasContext, HasWeights, HasWorkspace, Live, Loading
  <2>10. CASE pc = "weights"
    <3>1. pc' = "workspace"
      BY <2>1, <2>10, Order
    <3>2. OnStack("host")' /\ planned' = "laid" /\ "stream" \in held'
      BY <1>1, <1>2, <2>3, <2>10 DEF Allocated, HasHost, HasPlan, HasContext
    <3>3. "weights" \in held'
      BY <2>6, <2>10 DEF Parts
    <3>4. Len(memory'["weights"]) = arenas'["weights"].bytes
      BY <1>2, <2>5, <2>10 DEF Buffers
    <3>5. QED
      BY <3>1, <3>2, <3>3, <3>4 DEF Allocated, HasHost, HasPlan, HasContext, HasWeights, HasWorkspace, Live, Loading
  <2>11. CASE pc = "workspace"
    <3>1. pc' = "kv"
      BY <2>1, <2>11, Order
    <3>2. /\ OnStack("host")' /\ planned' = "laid" /\ "stream" \in held' /\ "weights" \in held'
          /\ Len(memory["weights"]) = arenas["weights"].bytes
      BY <1>1, <1>2, <2>3, <2>11 DEF Allocated, HasHost, HasPlan, HasContext, HasWeights
    <3>3. "workspace" \in held'
      BY <2>6, <2>11 DEF Parts
    <3>4. /\ Len(memory'["workspace"]) = arenas'["workspace"].bytes
          /\ Len(memory'["weights"]) = arenas'["weights"].bytes
      BY <1>2, <2>5, <2>11, <3>2 DEF Buffers
    <3>5. QED
      BY <3>1, <3>2, <3>3, <3>4 DEF Allocated, HasHost, HasPlan, HasContext, HasWeights, HasWorkspace, Live, Loading
  <2>12. CASE pc = "kv"
    <3>1. pc' = "clear"
      BY <2>1, <2>12, Order
    <3>2. /\ OnStack("host")' /\ planned' = "laid" /\ {"stream", "weights", "workspace"} \subseteq held'
          /\ Len(memory["weights"]) = arenas["weights"].bytes
          /\ Len(memory["workspace"]) = arenas["workspace"].bytes
      BY <1>1, <1>2, <2>3, <2>12 DEF Allocated, HasHost, HasPlan, HasContext, HasWeights, HasWorkspace
    <3>3. "kv" \in held'
      BY <2>6, <2>12 DEF Parts
    <3>4. /\ Len(memory'["workspace"]) = arenas'["workspace"].bytes
          /\ Len(memory'["weights"]) = arenas'["weights"].bytes
      BY <1>2, <2>5, <2>12, <3>2 DEF Buffers
    <3>5. QED
      BY <3>1, <3>2, <3>3, <3>4 DEF Allocated
  <2>13. CASE pc = "events"
    <3>1. pc' = "device"
      BY <2>1, <2>13, Order
    <3>2. Climb
      BY <2>13, <3>1 DEF Climb, HasHost, HasPlan, HasContext, HasWeights, HasWorkspace, Live
    <3>3. SameSizes
      BY <2>5, <2>13 DEF SameSizes, Buffers
    <3>4. held \subseteq held'
      BY <1>1
    <3>5. QED
      BY <1>2, <2>3, <3>2, <3>3, <3>4, AllocatedKept
  <2>14. QED
    BY <1>2, <2>7, <2>8, <2>9, <2>10, <2>11, <2>12, <2>13 DEF Constructors
<1>5. QED
  BY <1>3, <1>4

LEMMA AllocatedStep ==
  ASSUME PlanIsSound, OwnersAreKnown, BuffersAreBytes, Allocated, [Next]_vars
  PROVE  Allocated'
<1>1. stack \in Seq(Objects) /\ Len(stack) \in Nat
  BY LenProperties DEF OwnersAreKnown
<1>2. ASSUME pc' = pc, stack' = stack, held' = held, UNCHANGED planVars, SameSizes PROVE Allocated'
  BY <1>2, AllocatedKept, SameStack DEF Climb, planVars
<1>3. CASE Acquire
  BY <1>3, AcquiredIsAllocated
<1>4. CASE Check
  <2>1. held' = held /\ arenas' = arenas /\ planned' = planned /\ SameSizes
    BY <1>4 DEF Check, planVars, SameSizes
  <2>2. Climb
    BY <1>4, Order DEF Check, CheckPasses, Climb, HasHost, HasPlan, HasContext, HasWeights, HasWorkspace,
                       Live, Loading
  <2>3. OnStack("host") => OnStack("host")'
    BY <1>1, <1>4, SameStack, StackAppended DEF Check, Objects
  <2>4. QED
    BY <2>1, <2>2, <2>3, AllocatedKept
<1>5. CASE Plan
  <2>1. OnStack("host")'
    BY <1>5, SameStack DEF Plan, Allocated, HasHost
  <2>2. pc' = "plan" \/ (pc' = "context" /\ planned' = "laid")
    BY <1>5 DEF Plan
  <2>3. QED
    BY <2>1, <2>2 DEF Allocated, HasHost, HasPlan, HasContext, HasWeights, HasWorkspace, Live, Loading
<1>6. CASE Clear \/ Decode \/ Copy
  <2>1. /\ held' = held /\ arenas' = arenas /\ planned' = planned /\ SameSizes /\ stack' = stack
        /\ pc \in Loading /\ pc' \in Loading
    BY <1>6 DEF Clear, Decode, Copy, planVars, SameSizes, Loading
  <2>2. Climb
    BY <2>1 DEF Climb, HasHost, HasPlan, HasContext, HasWeights, HasWorkspace, Live
  <2>3. QED
    BY <2>1, <2>2, SameStack, AllocatedKept
<1>7. CASE StartItem
  <2>1. /\ held' = held /\ arenas' = arenas /\ planned' = planned /\ SameSizes
        /\ pc \in Loading /\ pc' \in Loading
    BY <1>7 DEF StartItem, planVars, SameSizes, Loading
  <2>2. Climb
    BY <2>1 DEF Climb, HasHost, HasPlan, HasContext, HasWeights, HasWorkspace, Live
  <2>3. stack' = stack \/ stack' = stack \o Frame
    BY <1>7 DEF StartItem
  <2>4. OnStack("host") => OnStack("host")'
    BY <1>1, <2>3, SameStack, StackPushed, TheFrame
  <2>5. QED
    BY <2>1, <2>2, <2>4, AllocatedKept
<1>8. CASE Await
  <2>1. /\ held' = held /\ arenas' = arenas /\ planned' = planned /\ SameSizes
        /\ pc = "await" /\ pc \in Loading /\ pc' \in Loading
    BY <1>8 DEF Await, planVars, SameSizes, Loading
  <2>2. Climb
    BY <2>1 DEF Climb, HasHost, HasPlan, HasContext, HasWeights, HasWorkspace, Live
  <2>3. stack' = stack \/ stack' = SubSeq(stack, 1, Len(stack) - 2)
    BY <1>8, TheFrame DEF Await
  <2>4. Len(stack) >= 2 /\ stack[Len(stack) - 1] = "staging" /\ stack[Len(stack)] = "finish"
    BY <2>1 DEF OwnersAreKnown
  <2>5. \A i \in 1..Len(stack) : i > Len(stack) - 2 => stack[i] # "host"
    BY <1>1, <2>4
  <2>6. OnStack("host") => OnStack("host")'
    BY <1>1, <2>3, <2>4, <2>5, SameStack, PoppedKeeps
  <2>7. QED
    BY <2>1, <2>2, <2>6, AllocatedKept
<1>9. CASE Throw \/ Destroy \/ Unwind
  <2>1. pc' \in {"unwind", "gone"}
    BY <1>9 DEF Throw, Destroy, Unwind
  <2>2. QED
    BY <2>1, NothingNeeded DEF HasHost, HasContext, HasWeights, HasWorkspace, Live, Loading
<1>10. CASE ExecuteCopy
  <2>1. memory' = Effect(Head(stream)) /\ UNCHANGED hostVars /\ UNCHANGED planVars
    BY <1>10 DEF ExecuteCopy
  <2>2. SameSizes
    <3>1. CASE Head(stream).buffer \in Buffers \cup {"kv"}
      BY <2>1, <3>1, EffectKeeps
    <3>2. CASE Head(stream).buffer \notin Buffers \cup {"kv"}
      BY <2>1, <3>2 DEF Effect, SameSizes, Buffers
    <3>3. QED
      BY <3>1, <3>2
  <2>3. QED
    BY <1>2, <2>1, <2>2 DEF hostVars
<1>11. CASE Lose \/ Enqueue \/ Execute \/ Gone \/ UNCHANGED vars
  BY <1>2, <1>11 DEF Lose, Enqueue, Execute, Gone, vars, startupVars, hostVars, SameSizes
<1>12. CASE BeginForward
  <2>1. /\ held' = held /\ arenas' = arenas /\ planned' = planned /\ SameSizes
        /\ pc = "ready" /\ pc' = "forward" /\ stack' = Append(stack, "result")
    BY <1>12 DEF BeginForward, planVars, SameSizes
  <2>2. Climb
    BY <2>1 DEF Climb, HasHost, HasPlan, HasContext, HasWeights, HasWorkspace, Live
  <2>3. QED
    BY <1>1, <2>1, <2>2, StackAppended, AllocatedKept DEF Objects
<1>13. CASE Commit \/ Fail
  <2>1. /\ held' = held /\ arenas' = arenas /\ planned' = planned /\ SameSizes
        /\ pc = "forward" /\ pc' \in {"ready", "poisoned"} /\ stack' = Front(stack)
    BY <1>13 DEF Commit, Fail, planVars, SameSizes
  <2>2. Climb
    BY <2>1 DEF Climb, HasHost, HasPlan, HasContext, HasWeights, HasWorkspace, Live
  <2>3. Len(stack) >= 1 /\ stack[Len(stack)] = "result"
    BY <2>1 DEF OwnersAreKnown
  <2>4. stack' = SubSeq(stack, 1, Len(stack) - 1)
    BY <1>1, <2>1, <2>3, FrontIsShorter, EmptySeq
  <2>5. \A i \in 1..Len(stack) : i > Len(stack) - 1 => stack[i] # "host"
    BY <1>1, <2>3
  <2>6. OnStack("host") => OnStack("host")'
    BY <1>1, <2>3, <2>4, <2>5, PoppedKeeps
  <2>7. QED
    BY <2>1, <2>2, <2>6, AllocatedKept
<1>14. QED
  BY <1>3, <1>4, <1>5, <1>6, <1>7, <1>8, <1>9, <1>10, <1>11, <1>12, <1>13 DEF Next, Startup, HostStep

LEMMA BuffersStep ==
  ASSUME PlanIsSound, InFlight, BuffersAreBytes, [Next]_vars
  PROVE  BuffersAreBytes'
<1>1. ASSUME memory' = memory PROVE BuffersAreBytes'
  BY <1>1 DEF BuffersAreBytes
<1>2. CASE Acquire
  <2>1. memory' = memory \/ memory' = Contents(pc)
    BY <1>2 DEF Acquire
  <2>2. pc \in Constructors
    BY <1>2, ConstructorsHaveParts DEF Acquire
  <2>3. QED
    BY <1>1, <2>1, <2>2, ContentsKeeps
<1>3. CASE Throw \/ Destroy
  BY <1>3, DiscardKeeps DEF Throw, Destroy
<1>4. CASE ExecuteCopy
  <2>1. memory' = Effect(Head(stream)) /\ stream # <<>>
    BY <1>4 DEF ExecuteCopy
  <2>2. 1 \in DOMAIN stream /\ Head(stream) = stream[1]
    <3>1. stream \in Seq(Range(stream))
      BY DEF InFlight
    <3>2. QED
      BY <2>1, <3>1, EmptySeq, LenProperties, HeadTailProperties
  <2>3. Head(stream).buffer \in Buffers \cup {"kv"}
    BY <2>2 DEF InFlight
  <2>4. QED
    BY <2>1, <2>3, EffectKeeps
<1>5. CASE Check \/ Plan \/ Clear \/ StartItem \/ Decode \/ Copy \/ Await \/ Unwind
  BY <1>1, <1>5 DEF Check, Plan, Clear, StartItem, Decode, Copy, Await, Unwind
<1>6. CASE Lose \/ BeginForward \/ Enqueue \/ Execute \/ Commit \/ Fail \/ Gone \/ UNCHANGED vars
  BY <1>1, <1>6 DEF Lose, BeginForward, Enqueue, Execute, Commit, Fail, Gone, vars, startupVars
<1>7. QED
  BY <1>2, <1>3, <1>4, <1>5, <1>6 DEF Next, Startup, HostStep

LEMMA WaitsStep ==
  ASSUME OwnersAreKnown, InFlight, WaitsAreOwed, [Next]_vars
  PROVE  WaitsAreOwed'
<1>1. stack \in Seq(Objects) /\ Len(stack) \in Nat
  BY LenProperties DEF OwnersAreKnown
<1>2. ASSUME stack' = stack, pc' = pc, stream' # <<>> => stream # <<>> PROVE WaitsAreOwed'
  BY <1>2 DEF WaitsAreOwed
<1>3. ASSUME pc' \notin {"clear", "upload", "settle", "decode", "copy", "await", "unwind"}
      PROVE  WaitsAreOwed'
  BY <1>3 DEF WaitsAreOwed
<1>4. CASE Acquire
  <2>1. pc \in Constructors
    BY <1>4, ConstructorsHaveParts DEF Acquire
  <2>2. CASE UNCHANGED <<stack, pc, memory>>
    BY <1>3, <2>1, <2>2 DEF Constructors
  <2>3. CASE stack' = stack \o Pushed(pc) /\ pc' = After[pc]
    <3>1. CASE pc = "kv"
      <4>1. <<"kv", "finish">> \in Seq(Objects) /\ pc' = "clear" /\ stack' = stack \o <<"kv", "finish">>
        BY <2>3, <3>1, Order DEF Pushed, Objects, Constructors
      <4>2. Len(stack') = Len(stack) + Len(<<"kv", "finish">>)
        BY Zenon, <1>1, <4>1, StackPushed
      <4>3. 2 \in 1..Len(<<"kv", "finish">>) /\ <<"kv", "finish">>[2] = "finish" /\ Len(<<"kv", "finish">>) = 2
        OBVIOUS
      <4>4. stack'[Len(stack) + 2] = "finish"
        BY Zenon, <1>1, <4>1, <4>3, StackPushed
      <4>5. QED
        BY <1>1, <4>1, <4>2, <4>3, <4>4 DEF WaitsAreOwed
    <3>2. CASE pc # "kv"
      BY <1>3, <2>1, <2>3, <3>2, Order DEF Constructors
    <3>3. QED
      BY <3>1, <3>2
  <2>4. QED
    BY <1>4, <2>2, <2>3 DEF Acquire
<1>5. CASE Check
  BY <1>3, <1>5, Order DEF Check, CheckPasses
<1>6. CASE Plan
  BY <1>3, <1>6 DEF Plan
<1>7. CASE Clear \/ Decode \/ Copy
  BY <1>7 DEF Clear, Decode, Copy, WaitsAreOwed
<1>8. CASE StartItem
  <2>1. Len(stack) >= 1 /\ stack[Len(stack)] = "finish"
    BY <1>8 DEF StartItem, WaitsAreOwed
  <2>2. CASE stack' = stack /\ pc' \in {"upload", "settle"}
    BY <2>1, <2>2 DEF WaitsAreOwed
  <2>3. CASE stack' = stack \o Frame /\ pc' = "decode"
    <3>1. Len(stack') = Len(stack) + 2 /\ stack'[Len(stack)] = stack[Len(stack)]
      <4>1. Len(stack) \in 1..Len(stack)
        BY <1>1, <2>1
      <4>2. Len(stack') = Len(stack) + Len(Frame) /\ stack'[Len(stack)] = stack[Len(stack)]
        BY Zenon, <1>1, <2>3, <4>1, TheFrame, StackPushed
      <4>3. QED
        BY <4>2, TheFrame
    <3>2. QED
      BY <1>1, <2>1, <2>3, <3>1 DEF WaitsAreOwed
  <2>4. QED
    BY <1>8, <2>2, <2>3 DEF StartItem
<1>9. CASE Await
  <2>1. pc = "await" /\ Len(stack) >= 3 /\ stack[Len(stack) - 2] = "finish"
    BY <1>9 DEF Await, WaitsAreOwed
  <2>2. CASE stack' = stack /\ pc' = "decode"
    BY <2>1, <2>2 DEF WaitsAreOwed
  <2>3. CASE stack' = SubSeq(stack, 1, Len(stack) - 2) /\ pc' = "upload"
    <3>1. Len(stack') = Len(stack) - 2 /\ stack'[Len(stack) - 2] = stack[Len(stack) - 2]
      <4>1. Len(stack) - 2 \in 1..(Len(stack) - 2) /\ 2 <= Len(stack) /\ 2 \in Nat
        BY <1>1, <2>1
      <4>2. QED
        BY Zenon, <1>1, <2>3, <4>1, StackShortened
    <3>2. QED
      BY <1>1, <2>1, <2>3, <3>1 DEF WaitsAreOwed
  <2>4. QED
    BY <1>9, <2>2, <2>3, TheFrame DEF Await
<1>10. CASE Throw
  <2>1. stack' = stack /\ stream' = stream /\ pc' = "unwind" /\ pc # "forward" /\ pc # "unwind"
    BY <1>10 DEF Throw
  <2>2. stream # <<>> => pc \in {"upload", "decode", "copy", "await", "settle"}
    BY <2>1 DEF InFlight
  <2>3. stream # <<>> => Len(stack) >= 1 /\ stack[Len(stack)] = "finish"
    BY <1>1, <2>2 DEF WaitsAreOwed, OwnersAreKnown
  <2>4. QED
    BY <2>1, <2>3 DEF WaitsAreOwed
<1>11. CASE Destroy
  <2>1. stream' = stream /\ pc' = "unwind" /\ stream = <<>>
    BY <1>11 DEF Destroy, InFlight
  <2>2. QED
    BY <2>1 DEF WaitsAreOwed
<1>12. CASE Unwind
  <2>1. stream' = stream /\ pc = "unwind" /\ pc' \in {"unwind", "gone"}
    BY <1>12 DEF Unwind
  <2>2. stream = <<>>
    <3>1. SUFFICES ASSUME stream # <<>> PROVE FALSE
      OBVIOUS
    <3>2. Len(stack) >= 1 /\ stack[Len(stack)] = "finish"
      BY <2>1, <3>1 DEF WaitsAreOwed
    <3>3. stack # <<>> /\ Last(stack) = "finish"
      BY <1>1, <3>2, EmptySeq DEF Last
    <3>4. QED
      BY <1>12, <3>1, <3>3 DEF Unwind
  <2>3. QED
    BY <2>1, <2>2 DEF WaitsAreOwed
<1>13. CASE ExecuteCopy \/ Execute
  BY <1>2, <1>13 DEF ExecuteCopy, Execute, hostVars
<1>14. CASE Lose \/ Gone \/ UNCHANGED vars
  BY <1>2, <1>14 DEF Lose, Gone, vars, startupVars, hostVars
<1>15. CASE BeginForward \/ Enqueue \/ Commit \/ Fail
  BY <1>3, <1>15 DEF BeginForward, Enqueue, Commit, Fail, hostVars
<1>16. QED
  BY <1>4, <1>5, <1>6, <1>7, <1>8, <1>9, <1>10, <1>11, <1>12, <1>13, <1>14, <1>15 DEF Next, Startup, HostStep

LEMMA ChunkStep ==
  ASSUME PlanIsSound, RegionsAreListed, ItemsAreMeasured, Allocated, UploadIsOnItsWay, ChunkIsInside,
         [Next]_vars
  PROVE  ChunkIsInside'
<1> DEFINE items == arenas.weights.items
<1>1. Len(UploadList) = Len(items) + 1 /\ Len(items) \in Nat
  BY ItemsOf, AppendProperties DEF UploadList, Buffers
<1>2. ASSUME pc \in Loading, item \in 1..Len(UploadList), ~Current.alias
      PROVE  Current \in ItemSet /\ Current.columns # 0
  <2>1. planned = "laid"
    BY <1>2 DEF Allocated, HasPlan, HasContext, HasWeights, HasWorkspace, Live
  <2>2. QED
    BY <1>2, <2>1, CurrentIsInside
<1>3. ASSUME arenas' = arenas, item' = item PROVE Current' = Current
  BY <1>3 DEF Current, UploadList, RegionNamed
<1>4. ASSUME pc' \notin {"decode", "copy", "await"} PROVE ChunkIsInside'
  BY <1>4 DEF ChunkIsInside
<1>5. ASSUME pc' = pc, first' = first, item' = item, arenas' = arenas PROVE ChunkIsInside'
  BY <1>3, <1>5 DEF ChunkIsInside
<1>6. CASE StartItem
  <2>1. pc = "upload" /\ first' = 0 /\ arenas' = arenas /\ item \in Nat \ {0}
    BY <1>6 DEF StartItem, planVars, UploadIsOnItsWay
  <2>2. CASE pc' = "decode"
    <3>1. ~(item > Len(UploadList)) /\ ~Current.alias /\ item' = item
      BY <1>6, <2>2 DEF StartItem
    <3>2. item \in 1..Len(UploadList) /\ pc \in Loading
      BY <1>1, <2>1, <3>1 DEF Loading
    <3>3. Current.rows \in Nat
      BY <1>2, <3>1, <3>2 DEF ItemSet
    <3>4. Current' = Current
      BY <1>3, <2>1, <3>1
    <3>5. QED
      BY <2>1, <3>1, <3>3, <3>4 DEF ChunkIsInside
  <2>3. CASE pc' # "decode"
    <3>1. pc' \in {"upload", "settle"}
      BY <1>6, <2>1, <2>3 DEF StartItem
    <3>2. QED
      BY <1>4, <3>1
  <2>4. QED
    BY <2>2, <2>3
<1>7. CASE Decode \/ Copy
  <2>1. pc \in {"decode", "copy"} /\ first' = first /\ item' = item /\ arenas' = arenas
    BY <1>7 DEF Decode, Copy, planVars, loadVars
  <2>2. QED
    BY <1>3, <2>1 DEF ChunkIsInside
<1>8. CASE Await
  <2>1. pc = "await" /\ first' = first + RowsPerChunk /\ arenas' = arenas
    BY <1>8 DEF Await, planVars
  <2>2. CASE first' < Current.rows /\ pc' = "decode" /\ item' = item
    <3>1. first \in Nat /\ ~Current.alias
      BY <2>1 DEF ChunkIsInside
    <3>2. item \in 1..Len(UploadList) /\ pc \in Loading
      BY <1>1, <2>1 DEF UploadIsOnItsWay, Loading
    <3>3. Current \in ItemSet /\ Current.columns # 0
      BY <1>2, <3>1, <3>2
    <3>4. PICK n \in Nat : n = RowsPerChunk
      BY <3>3, ChunkOf
    <3>5. PICK rows \in Nat : rows = Current.rows
      BY <3>3 DEF ItemSet
    <3>6. first' \in Nat /\ first' <= rows
      BY <2>1, <2>2, <3>1, <3>4, <3>5
    <3>7. Current' = Current
      BY <1>3, <2>1, <2>2
    <3>8. QED
      BY <3>1, <3>5, <3>6, <3>7 DEF ChunkIsInside
  <2>3. CASE pc' = "upload"
    BY <1>4, <2>3
  <2>4. QED
    BY <1>8, <2>2, <2>3 DEF Await
<1>9. CASE Acquire
  <2>1. pc \in Constructors /\ pc' \in {pc, After[pc]}
    BY <1>9, ConstructorsHaveParts DEF Acquire
  <2>2. QED
    BY <1>4, <2>1, Order DEF Constructors
<1>10. CASE Check \/ Plan \/ Clear
  BY <1>4, <1>10, Order DEF Check, CheckPasses, Plan, Clear
<1>11. CASE Throw \/ Destroy \/ Unwind
  BY <1>4, <1>11 DEF Throw, Destroy, Unwind
<1>12. CASE ExecuteCopy \/ Lose
  BY <1>5, <1>12 DEF ExecuteCopy, Lose, hostVars, loadVars, planVars
<1>13. CASE BeginForward \/ Enqueue \/ Commit \/ Fail
  BY <1>4, <1>13 DEF BeginForward, Enqueue, Commit, Fail, hostVars
<1>14. CASE Execute \/ Gone \/ UNCHANGED vars
  BY <1>5, <1>14 DEF Execute, Gone, vars, startupVars, hostVars, loadVars, planVars
<1>15. QED
  BY <1>6, <1>7, <1>8, <1>9, <1>10, <1>11, <1>12, <1>13, <1>14 DEF Next, Startup, HostStep

\* The workspace to zero, the table to -1, the cache to NaN.
LEMMA ClearedIsSafe ==
  ASSUME PlanIsSound, RegionsAreListed, ItemsAreMeasured, BuffersAreBytes, Allocated, Clear
  PROVE  InFlight' /\ MemoryIsSafe'
<1>1. /\ "stream" \in held /\ "workspace" \in held /\ "kv" \in held /\ planned = "laid"
      /\ Len(memory["workspace"]) = arenas.workspace.bytes
  BY DEF Clear, Allocated, HasPlan, HasContext, HasWeights, HasWorkspace, Live, Loading
<1>2. PICK len \in Nat : len = Len(memory["workspace"])
  BY LenProperties DEF BuffersAreBytes, Buffers
<1>3. PICK table : table = RegionNamed("kv_block_table")
  OBVIOUS
<1>4. PICK whole : whole = Whole("workspace", "zero")
  OBVIOUS
<1>5. PICK unmap : unmap = Operation("workspace", table.offset, table.bytes, "unmapped", "none")
  OBVIOUS
<1>6. PICK nan : nan = Operation("kv", 0, 0, "nan", "none")
  OBVIOUS
<1>7. stream' = (<<whole>> \o (IF m.layout = "paged" THEN <<unmap>> ELSE <<>>)) \o <<nan>>
  BY <1>3, <1>4, <1>5, <1>6 DEF Clear
<1>8. SafeOp(whole, held, memory, stack) /\ SafeOp(nan, held, memory, stack)
  <2>1. whole = Operation("workspace", 0, len, "zero", "none")
    BY <1>2, <1>4 DEF Whole
  <2>2. QED
    BY <1>1, <1>2, <1>6, <2>1, FieldsOf DEF SafeOp, Buffers
<1>9. ASSUME m.layout = "paged" PROVE SafeOp(unmap, held, memory, stack)
  <2>1. "kv_block_table" \in Regions
    BY <1>9 DEF Regions
  <2>2. table.offset + table.bytes <= arenas.workspace.bytes
    BY <1>1, <1>3, <2>1, RegionIsInside
  <2>3. QED
    BY <1>1, <1>5, <2>2, FieldsOf DEF SafeOp, Buffers
<1> DEFINE S == {whole, nan} \cup (IF m.layout = "paged" THEN {unmap} ELSE {})
<1>10. stream' \in Seq(S)
  <2>1. <<whole>> \in Seq(S) /\ <<nan>> \in Seq(S)
    OBVIOUS
  <2>2. (IF m.layout = "paged" THEN <<unmap>> ELSE <<>>) \in Seq(S)
    <3>1. m.layout = "paged" => <<unmap>> \in Seq(S)
      OBVIOUS
    <3>2. <<>> \in Seq(S)
      OBVIOUS
    <3> HIDE DEF S
    <3>3. QED
      BY <3>1, <3>2
  <2> HIDE DEF S
  <2>3. PICK middle \in Seq(S) : middle = (IF m.layout = "paged" THEN <<unmap>> ELSE <<>>)
    BY <2>2
  <2>4. <<whole>> \o middle \in Seq(S)
    BY <2>1, ConcatProperties
  <2>5. (<<whole>> \o middle) \o <<nan>> \in Seq(S)
    BY <2>1, <2>4, ConcatProperties
  <2>6. QED
    BY <1>7, <2>3, <2>5
<1>11. /\ held' = held /\ memory' = memory /\ stack' = stack /\ pc' \in Flying
  BY DEF Clear, Flying
<1>12. \A op \in S : SafeOp(op, held', memory', stack')
  BY <1>8, <1>9, <1>11
<1> HIDE DEF S
<1>13. \A k \in DOMAIN stream' : stream'[k] \in S
  BY <1>10, ElementOfSeq, LenProperties
<1>14. QED
  BY <1>10, <1>11, <1>12, <1>13, AllAreSafe

LEMMA MemoryStep ==
  ASSUME PlanIsSound, RegionsAreListed, ItemsAreMeasured, OwnersAreKnown, UploadIsOnItsWay,
         ChunkIsInside, ForwardStarted, MemoryInv, [Next]_vars
  PROVE  InFlight' /\ MemoryIsSafe'
<1>1. Allocated /\ BuffersAreBytes /\ WaitsAreOwed /\ InFlight /\ MemoryIsSafe
  BY DEF MemoryInv
<1>2. stack \in Seq(Objects) /\ Len(stack) \in Nat
  BY LenProperties DEF OwnersAreKnown
<1>3. ASSUME stream = <<>>, stream' = stream PROVE InFlight' /\ MemoryIsSafe'
  BY <1>3, NothingInFlight
<1>4. ASSUME pc \notin Flying PROVE stream = <<>>
  BY <1>1, <1>4 DEF InFlight, Flying
<1>5. CASE Acquire \/ Plan \/ BeginForward \/ Destroy \/ Gone
  <2>1. stream' = stream
    BY <1>5 DEF Acquire, Plan, BeginForward, Destroy, Gone, vars, startupVars
  <2>2. pc \notin Flying
    BY <1>5, ConstructorsHaveParts DEF Acquire, Plan, BeginForward, Destroy, Gone, Constructors, Flying
  <2>3. QED
    BY <1>3, <1>4, <2>1, <2>2
<1>6. CASE Check
  <2>1. stream' = stream /\ (pc = "settle" => stream = <<>>)
    BY <1>6 DEF Check, CheckPasses
  <2>2. pc # "settle" => pc \notin Flying
    BY <1>6 DEF Check, CheckPasses, Flying
  <2>3. QED
    BY <1>3, <1>4, <2>1, <2>2
<1>7. CASE Clear
  BY <1>1, <1>7, ClearedIsSafe
<1>8. CASE StartItem
  <2>1. held' = held /\ stream' = stream /\ SameSizes /\ pc' \in Flying
    BY <1>8 DEF StartItem, SameSizes, Flying
  <2>2. stack' = stack \/ stack' = stack \o Frame
    BY <1>8 DEF StartItem
  <2>3. StackKeeps
    BY <1>2, <2>2, SameStack, StackPushed, TheFrame
  <2>4. QED
    BY <1>1, <2>1, <2>3, StreamKept
<1>9. CASE Decode
  <2>1. held' = held /\ stream' = stream /\ SameSizes /\ pc' \in Flying /\ stack' = stack
    BY <1>9 DEF Decode, SameSizes, Flying
  <2>2. QED
    BY <1>1, <2>1, SameStack, StreamKept
<1>10. CASE Copy
  <2>1. held' = held /\ SameSizes /\ pc' \in Flying /\ stack' = stack /\ memory' = memory /\ pc = "copy"
    BY <1>10 DEF Copy, SameSizes, Flying
  <2>2. PICK offset, bytes : /\ offset = Current.offset + first * Current.columns * Current.width
                             /\ bytes = Count * Current.columns * Current.width
    OBVIOUS
  <2>3. PICK op : op = Operation(BufferOf, offset, bytes, "none", "staging")
    OBVIOUS
  <2>4. stream' = Append(stream, op)
    BY <1>10, <2>2, <2>3 DEF Copy
  <2>5. /\ {"stream", "weights", "workspace"} \subseteq held /\ planned = "laid"
        /\ \A b \in Buffers : Len(memory[b]) = arenas[b].bytes
    BY <1>1, <2>1 DEF Allocated, HasPlan, HasContext, HasWeights, HasWorkspace, Live, Loading, Buffers
  <2>6. item \in 1..Len(UploadList)
    <3>1. Len(UploadList) = Len(arenas.weights.items) + 1 /\ Len(arenas.weights.items) \in Nat
      BY ItemsOf, AppendProperties DEF UploadList, Buffers
    <3>2. QED
      BY <2>1, <3>1 DEF UploadIsOnItsWay
  <2>7. BufferOf \in Buffers /\ offset + bytes <= arenas[BufferOf].bytes
    BY <2>1, <2>2, <2>5, <2>6, CopiedIsInside DEF ChunkIsInside
  <2>8. "staging" \in Range(stack)
    <3>1. Len(stack) - 1 \in 1..Len(stack) /\ stack[Len(stack) - 1] = "staging"
      BY <1>2, <2>1 DEF OwnersAreKnown
    <3>2. QED
      BY <1>2, <3>1, LenProperties DEF Range
  <2>9. op.buffer = BufferOf /\ op.offset = offset /\ op.bytes = bytes /\ op.host = "staging"
    BY <2>3, FieldsOf
  <2>10. SafeOp(op, held', memory', stack')
    BY <2>1, <2>5, <2>7, <2>8, <2>9 DEF SafeOp, Buffers
  <2>11. QED
    BY <1>1, <2>1, <2>4, <2>10, SameStack, StreamGrows
<1>11. CASE Await
  BY <1>3, <1>11 DEF Await, Copied
<1>12. CASE Throw
  <2>1. stream' = stream /\ stack' = stack /\ pc' \in Flying
    BY <1>12 DEF Throw, Flying
  <2>2. SameSizes
    BY <1>1, <1>12, DiscardKeeps DEF Throw
  <2>3. CASE stream = <<>>
    BY <1>3, <2>1, <2>3
  <2>4. CASE stream # <<>>
    <3>1. pc \in {"upload", "decode", "copy", "await", "settle"}
      BY <1>1, <1>12, <2>4 DEF InFlight, Throw
    <3>2. PartsOf(pc) = {}
      BY <3>1, NoParts DEF Constructors
    <3>3. held' = held
      BY <1>12, <3>2 DEF Throw, GivenUp
    <3>4. QED
      BY <1>1, <2>1, <2>2, <3>3, SameStack, StreamKept
  <2>5. QED
    BY <2>3, <2>4
<1>13. CASE Unwind
  <2>1. stream' = stream /\ pc = "unwind"
    BY <1>13 DEF Unwind
  <2>2. CASE stream # <<>>
    <3>1. Len(stack) >= 1 /\ stack[Len(stack)] = "finish"
      BY <1>1, <2>1, <2>2 DEF WaitsAreOwed
    <3>2. stack # <<>> /\ Last(stack) = "finish"
      BY <1>2, <3>1, EmptySeq DEF Last
    <3>3. QED
      BY <1>13, <2>2, <3>2 DEF Unwind
  <2>3. QED
    BY <1>3, <2>1, <2>2
<1>14. CASE ExecuteCopy
  <2>1. /\ stream # <<>> /\ stream' = Tail(stream) /\ memory' = Effect(Head(stream))
        /\ held' = held /\ stack' = stack /\ pc' = pc
    BY <1>14 DEF ExecuteCopy, hostVars
  <2>2. Head(stream).buffer \in Buffers \cup {"kv"}
    <3>1. stream \in Seq(Range(stream))
      BY <1>1 DEF InFlight
    <3>2. 1 \in DOMAIN stream /\ Head(stream) = stream[1]
      BY <2>1, <3>1, EmptySeq, LenProperties, HeadTailProperties
    <3>3. QED
      BY <1>1, <3>2 DEF InFlight
  <2>3. SameSizes
    BY <1>1, <2>1, <2>2, EffectKeeps
  <2>4. QED
    BY <1>1, <2>1, <2>3, SameStack, StreamAdvances
<1>15. CASE Execute
  <2>1. /\ stream # <<>> /\ stream' = Tail(stream) /\ SameSizes
        /\ held' = held /\ stack' = stack /\ pc' = pc
    BY <1>15 DEF Execute, hostVars, SameSizes
  <2>2. QED
    BY <1>1, <2>1, SameStack, StreamAdvances
<1>16. CASE Lose
  BY <1>16, NothingInFlight DEF Lose
<1>17. CASE Enqueue
  <2>1. /\ held' = held /\ SameSizes /\ pc' \in Flying /\ stack' = stack /\ memory' = memory
        /\ pc = "forward" /\ step <= Len(Work)
        /\ stream' = Append(stream, [Placed(Work[step]) EXCEPT !.does = Work[step]])
    BY <1>17 DEF Enqueue, hostVars, SameSizes, Flying
  <2>2. PICK op : op = [Placed(Work[step]) EXCEPT !.does = Work[step]]
    OBVIOUS
  <2>3. SafeOp(op, held', memory', stack')
    BY <1>1, <2>1, <2>2, EnqueuedIsSafe
  <2>4. stream' = Append(stream, op)
    BY <2>1, <2>2
  <2>5. QED
    BY <1>1, <2>1, <2>3, <2>4, SameStack, StreamGrows
<1>18. CASE Commit \/ Fail
  BY <1>3, <1>18 DEF Commit, Fail, Settled
<1>19. CASE UNCHANGED vars
  <2>1. stream' = stream /\ held' = held /\ stack' = stack /\ pc' = pc /\ SameSizes
    BY <1>19 DEF vars, startupVars, hostVars, SameSizes
  <2>2. stream # <<>> => pc' \in Flying
    BY <1>4, <2>1
  <2>3. QED
    BY <1>1, <2>1, <2>2, SameStack, StreamKept
<1>20. QED
  BY <1>5, <1>6, <1>7, <1>8, <1>9, <1>10, <1>11, <1>12, <1>13, <1>14, <1>15, <1>16, <1>17, <1>18, <1>19
  DEF Next, Startup, HostStep

\* What the checks let through, the plan, the upload and the forward, together.
StartupInv ==
  /\ PlanIsSound /\ UploadIsOnItsWay /\ OwnersAreKnown
  /\ ItemsAreMeasured /\ RegionsAreListed /\ ChunkIsInside /\ ForwardStarted
  /\ MemoryInv

LEMMA StartupInvariant == Spec => [](Started /\ Checked /\ StartupInv)
<1> DEFINE P == PlanIsSound /\ UploadIsOnItsWay /\ OwnersAreKnown
           Q == ItemsAreMeasured /\ RegionsAreListed /\ ChunkIsInside /\ ForwardStarted
<1>1. Init => P
  <2>1. Init => PlanIsSound
    BY PlanStarts DEF Init, StartupInit
  <2>2. QED
    BY <2>1, EmptySeq DEF Init, StartupInit, UploadIsOnItsWay, OwnersAreKnown, Pcs
<1>2. Init => Q
  <2>1. Init => arenas = [weights |-> EmptyArena, workspace |-> EmptyArena] /\ planned = "weights" /\ pc = "config"
    BY DEF Init, StartupInit, PlanInit
  <2>2. EmptyArena.items = <<>> /\ Len(<<>>) = 0
    BY DEF EmptyArena
  <2>3. Len(WorkspaceShapes) \in Nat
    BY ShapesInOrder
  <2>4. Init => ItemsAreMeasured /\ RegionsAreListed
    BY <2>1, <2>2, <2>3 DEF ItemsAreMeasured, RegionsAreListed, Buffers
  <2>5. QED
    BY <2>1, <2>4, ForwardBegins DEF ChunkIsInside
<1>3. Init => MemoryInv
  <2>1. SUFFICES ASSUME Init PROVE MemoryInv
    OBVIOUS
  <2>2. pc = "config" /\ stream = <<>> /\ memory = [weights |-> <<>>, workspace |-> <<>>, kv |-> "none"]
    BY <2>1 DEF Init, StartupInit
  <2>3. Allocated
    BY <2>2 DEF Allocated, HasHost, HasPlan, HasContext, HasWeights, HasWorkspace, Live, Loading
  <2>4. BuffersAreBytes
    BY <2>2, EmptySeq DEF BuffersAreBytes, Buffers
  <2>5. WaitsAreOwed
    BY <2>2 DEF WaitsAreOwed
  <2>6. DOMAIN stream = {} /\ stream \in Seq(Range(stream))
    BY <2>2, EmptySeq, LenProperties
  <2>7. InFlight /\ MemoryIsSafe
    BY <2>2, <2>6 DEF InFlight, MemoryIsSafe
  <2>8. QED
    BY <2>3, <2>4, <2>5, <2>7 DEF MemoryInv
<1>4. Started /\ Checked /\ P /\ Q /\ MemoryInv /\ [Next]_vars => P' /\ Q' /\ MemoryInv'
  <2>1. SUFFICES ASSUME Started, Checked, P, Q, MemoryInv, [Next]_vars PROVE P' /\ Q' /\ MemoryInv'
    OBVIOUS
  <2>2. UploadIsOnItsWay' /\ OwnersAreKnown' /\ ForwardStarted'
    BY <2>1, UploadStep, OwnersStep, ForwardStep
  <2>3. PlanIsSound' /\ ItemsAreMeasured' /\ RegionsAreListed'
    <3>1. CASE Plan
      BY <2>1, <3>1, PlanStep, PlanMeasures
    <3>2. CASE ~Plan
      <4>1. arenas' = arenas /\ planned' = planned
        BY <2>1, <3>2, OthersDoNotPlan DEF planVars
      <4>2. PlanIsSound'
        BY <2>1, <4>1 DEF PlanIsSound, RegionsAreDisjoint
      <4>3. ItemsAreMeasured'
        BY <2>1, <4>1, MeasuresKept
      <4>4. WorkspaceShapes' = WorkspaceShapes
        BY <2>1, SameShapes
      <4>5. planned' = "laid" => Len(arenas.workspace.items) = Len(WorkspaceShapes)
        BY <2>1, <4>1 DEF RegionsAreListed
      <4>6. RegionsAreListed'
        BY <2>1, <4>1, <4>4, <4>5, RegionsKept
      <4>7. QED
        BY <4>2, <4>3, <4>6
    <3>3. QED
      BY <3>1, <3>2
  <2>4. Allocated' /\ BuffersAreBytes' /\ WaitsAreOwed'
    BY <2>1, AllocatedStep, BuffersStep, WaitsStep DEF MemoryInv
  <2>5. ChunkIsInside'
    BY <2>1, ChunkStep DEF MemoryInv
  <2>6. InFlight' /\ MemoryIsSafe'
    BY <2>1, MemoryStep
  <2>7. QED
    BY <2>2, <2>3, <2>4, <2>5, <2>6 DEF MemoryInv
<1>5. P /\ Q /\ MemoryInv => StartupInv
  BY DEF StartupInv
<1>6. QED
  BY <1>1, <1>2, <1>3, <1>4, <1>5, CourseStarts, CourseStep, PTL DEF Spec

\* What the device has in flight finds its stream, its buffer and the host's
\* memory as they were, and stays inside the buffer: whichever step of the
\* start or of a forward fails, whatever is lost, and however late the device
\* comes to it.
THEOREM MemorySafe == Spec => []MemoryIsSafe
<1>1. StartupInv => MemoryIsSafe
  BY DEF StartupInv, MemoryInv
<1>2. QED
  BY <1>1, StartupInvariant, PTL

-----------------------------------------------------------------------------
(***************************************************************************)
(* The weights of a plan have the shapes that the model asks for.          *)
(***************************************************************************)
ModelWeights == {"token_embd", "output_norm", "output"} \cup LayerWeights

Measured(w) ==
  /\ w.rows = Shape[w.name][1] /\ w.columns = Shape[w.name][2]
  /\ w.width = IF Stored16(w.name) THEN 2 ELSE 4

WeightsAreMeasured ==
  /\ planned # "weights" => Len(arenas.weights.items) = Len(WeightNames)
  /\ \A k \in 1..Len(arenas.weights.items) : Measured(arenas.weights.items[k])

LEMMA SameMeasures ==
  ASSUME [Next]_vars
  PROVE  WeightNames' = WeightNames /\ Shape' = Shape /\ m' = m /\ \A w : (Measured(w))' <=> Measured(w)
<1>1. file' = file /\ config' = config /\ WeightNames' = WeightNames
  BY SameNames
<1>2. dims' = dims /\ m' = m
  BY <1>1 DEF dims, m
<1>3. Shape' = Shape
  BY <1>1, <1>2 DEF Shape, Query, KeyValue
<1>4. \A name : (Stored16(name))' <=> Stored16(name)
  BY <1>2 DEF Stored16
<1>5. QED
  BY <1>1, <1>2, <1>3, <1>4 DEF Measured

LEMMA MeasuresAppended ==
  ASSUME PlanIsSound, WeightsAreMeasured, [Next]_vars, NEW more \in ItemSet, Measured(more),
         arenas'.weights.items = Append(arenas.weights.items, more), planned' = "weights"
  PROVE  WeightsAreMeasured'
<1>1. PICK items : items = arenas.weights.items
  OBVIOUS
<1>2. PICK new : new = arenas'.weights.items
  OBVIOUS
<1>3. /\ Len(items) \in Nat /\ Len(new) = Len(items) + 1
      /\ \A k \in 1..Len(items) : new[k] = items[k]
      /\ new[Len(items) + 1] = more
  BY <1>1, <1>2, ItemsOf, AppendProperties DEF Buffers
<1>4. ASSUME NEW k \in 1..Len(new) PROVE Measured(new[k])
  <2>1. CASE k \in 1..Len(items)
    BY <1>1, <1>3, <2>1 DEF WeightsAreMeasured
  <2>2. CASE k = Len(items) + 1
    BY <1>3, <2>2
  <2>3. QED
    BY <1>3, <2>1, <2>2
<1>5. ASSUME NEW k \in 1..Len(new) PROVE (Measured(new[k]))'
  BY <1>4, SameMeasures
<1>6. QED
  BY <1>2, <1>5 DEF WeightsAreMeasured

LEMMA WeightsMeasureStep ==
  ASSUME Started, Checked, PlanIsSound, WeightsAreListed, WeightsAreMeasured, [Next]_vars
  PROVE  WeightsAreMeasured'
<1> DEFINE items == arenas.weights.items
           k     == Len(items) + 1
<1>1. /\ items \in Seq(ItemSet) /\ Len(items) \in Nat /\ DOMAIN items = 1..Len(items)
      /\ arenas \in [weights : ArenaSet, workspace : ArenaSet]
      /\ WeightNames \in Seq(Names) /\ Len(WeightNames) \in Nat
  BY ItemsOf, WeightsAreNames, LenProperties DEF Buffers, PlanIsSound
<1>2. ASSUME arenas'.weights.items = items, planned' # "weights" => Len(items) = Len(WeightNames)
      PROVE  WeightsAreMeasured'
  <2>1. WeightNames' = WeightNames /\ \A w : (Measured(w))' <=> Measured(w)
    BY SameMeasures
  <2>2. PICK done : done = items
    OBVIOUS
  <2>3. \A j \in 1..Len(done) : (Measured(done[j]))'
    BY <2>1, <2>2 DEF WeightsAreMeasured
  <2>4. arenas'.weights.items = done
    BY <1>2, <2>2
  <2>5. planned' # "weights" => Len(done) = Len(WeightNames)
    BY <1>2, <2>2
  <2>6. QED
    BY <2>1, <2>3, <2>4, <2>5 DEF WeightsAreMeasured
<1>3. CASE ~Plan
  BY <1>2, <1>3, OthersDoNotPlan DEF planVars, WeightsAreMeasured
<1>4. CASE Plan /\ PlanRegion
  <2>1. arenas'.weights = arenas.weights /\ planned = "workspace"
    BY <1>1, <1>4 DEF PlanRegion, Place, Close
  <2>2. QED
    BY <1>2, <2>1 DEF WeightsAreMeasured
<1>5. CASE Plan /\ PlanWeight
  <2>1. ModelIsSupported
    BY <1>5 DEF Plan, Checked, PastShapes, PastBounds, PastConfig, Pcs
  <2>2. CASE k > Len(WeightNames)
    <3>1. arenas'.weights.items = items
      BY <1>1, <1>5, <2>2 DEF PlanWeight, Close, ArenaSet
    <3>2. Len(items) = Len(WeightNames)
      BY <1>1, <2>2 DEF WeightsAreListed
    <3>3. QED
      BY <1>2, <3>1, <3>2
  <2>3. CASE k <= Len(WeightNames) /\ ~Read(WeightNames[k])
    <3> DEFINE more == [Head(items) EXCEPT !.name = WeightNames[k], !.alias = TRUE]
    <3>1. PlaceAlias(WeightNames[k]) /\ WeightNames[k] = "output"
      BY <1>1, <1>5, <2>3 DEF PlanWeight, Read
    <3>2. arenas'.weights.items = Append(items, more) /\ items # <<>> /\ planned' = "weights"
      BY <1>1, <3>1 DEF PlaceAlias, ArenaSet
    <3>3. Head(items) \in ItemSet /\ Head(items) = items[1] /\ 1 \in 1..Len(items)
      BY <1>1, <3>2, HeadTailProperties, EmptySeq
    <3>4. PICK h \in ItemSet : h = Head(items)
      BY <3>3
    <3>5. Measured(h) /\ h.name = WeightNames[1]
      BY <3>3, <3>4 DEF WeightsAreMeasured, WeightsAreListed
    <3>6. WeightNames[1] = "token_embd"
      BY StartsAssumption, ConcatProperties, LenProperties DEF WeightNames
    <3>7. more = [h EXCEPT !.name = "output", !.alias = TRUE]
      BY <3>1, <3>4
    <3>8. more \in ItemSet /\ more.name = "output" /\ more.rows = h.rows /\ more.columns = h.columns /\ more.width = h.width
      BY <3>7 DEF ItemSet, Names
    <3> HIDE DEF more
    <3>9. Shape["output"] = Shape["token_embd"]
      BY DEF Shape
    <3>10. Stored16("output") <=> Stored16("token_embd")
      BY DEF Stored16, Norms
    <3>11. Measured(more)
      BY <3>5, <3>6, <3>8, <3>9, <3>10 DEF Measured
    <3>12. QED
      BY <3>2, <3>8, <3>11, MeasuresAppended
  <2>4. CASE k <= Len(WeightNames) /\ Read(WeightNames[k])
    <3> DEFINE shape == WeightShape(WeightNames[k])
               more  == Item(arenas["weights"], shape)
    <3>1. Place("weights", shape) /\ k \in 1..Len(WeightNames)
      BY <1>1, <1>5, <2>4 DEF PlanWeight
    <3>2. /\ WeightNames[k] \in Names /\ WeightNames[k] \in DOMAIN file.tensors
          /\ Shaped(file.tensors[WeightNames[k]], Shape[WeightNames[k]][1], Shape[WeightNames[k]][2])
      BY <2>1, <2>4, <3>1, ReadNamesExist
    <3>3. shape \in ShapeSet
      BY <3>2, WeightIsShape
    <3>4. /\ shape.name = WeightNames[k] /\ shape.rows = Shape[shape.name][1] /\ shape.columns = Shape[shape.name][2]
          /\ shape.width = IF Stored16(shape.name) THEN 2 ELSE 4
      BY <3>2 DEF WeightShape, Shaped
    <3>5. arenas'.weights.items = Append(items, more) /\ planned' = "weights"
      BY <1>1, <3>1 DEF Place, With, ArenaSet
    <3> HIDE DEF shape
    <3>6. more \in ItemSet
      <4>1. Offset(arenas["weights"]) \in Nat
        BY ItemsOf, AlignedUp DEF Offset, Buffers
      <4>2. BytesOf(shape) \in Nat
        BY <3>3, BytesAreNatural
      <4>3. QED
        BY <3>3, <4>1, <4>2 DEF Item, ItemSet, ShapeSet
    <3>7. /\ more.name = shape.name /\ more.rows = shape.rows /\ more.columns = shape.columns
          /\ more.width = shape.width
      BY DEF Item
    <3> HIDE DEF more
    <3>8. Measured(more)
      BY <3>4, <3>7 DEF Measured
    <3>9. QED
      BY <3>5, <3>6, <3>8, MeasuresAppended
  <2>5. QED
    BY <1>1, <2>2, <2>3, <2>4
<1>6. QED
  BY <1>3, <1>4, <1>5 DEF Plan

\* A weight's name finds an item of its shape.
LEMMA NamesAreThere ==
  ASSUME NEW name \in ModelWeights
  PROVE  \E k \in 1..Len(WeightNames) : WeightNames[k] = name
<1>1. LayerNames \in Seq(LayerWeights) /\ Len(LayerNames) \in Nat /\ DOMAIN LayerNames = 1..Len(LayerNames)
  BY StartsAssumption, LenProperties
<1>2. PICK three : three = <<"token_embd", "output_norm", "output">>
  OBVIOUS
<1>3. /\ three \in Seq(Names) /\ Len(three) = 3
      /\ three[1] = "token_embd" /\ three[2] = "output_norm" /\ three[3] = "output"
  BY <1>2 DEF Names
<1>4. LayerNames \in Seq(Names)
  <2>1. LayerWeights \subseteq Names
    BY DEF LayerWeights, Names
  <2>2. QED
    BY <1>1, <2>1
<1>5. /\ Len(WeightNames) = 3 + Len(LayerNames)
      /\ \A i \in 1..(3 + Len(LayerNames)) : WeightNames[i] = IF i <= 3 THEN three[i] ELSE LayerNames[i - 3]
  <2>1. WeightNames = three \o LayerNames
    BY <1>2 DEF WeightNames
  <2>2. /\ Len(three \o LayerNames) = Len(three) + Len(LayerNames)
        /\ \A i \in 1..(Len(three) + Len(LayerNames)) :
             (three \o LayerNames)[i] = IF i <= Len(three) THEN three[i] ELSE LayerNames[i - Len(three)]
    BY <1>3, <1>4, ConcatProperties
  <2>3. QED
    BY <1>3, <2>1, <2>2
<1>6. CASE name \in LayerWeights
  <2>1. PICK i \in 1..Len(LayerNames) : LayerNames[i] = name
    BY <1>1, <1>6, StartsAssumption DEF Range
  <2>2. 3 + i \in 1..(3 + Len(LayerNames)) /\ ~(3 + i <= 3) /\ (3 + i) - 3 = i
    BY <1>1, <2>1
  <2>3. WeightNames[3 + i] = name
    BY <1>5, <2>1, <2>2
  <2>4. QED
    BY <1>5, <2>2, <2>3
<1>7. CASE name \in {"token_embd", "output_norm", "output"}
  <2>1. /\ 1 \in 1..(3 + Len(LayerNames)) /\ 2 \in 1..(3 + Len(LayerNames)) /\ 3 \in 1..(3 + Len(LayerNames))
    BY <1>1
  <2>2. WeightNames[1] = "token_embd" /\ WeightNames[2] = "output_norm" /\ WeightNames[3] = "output"
    BY <1>3, <1>5, <2>1
  <2>3. QED
    BY <1>5, <1>7, <2>1, <2>2
<1>8. QED
  BY <1>6, <1>7 DEF ModelWeights

LEMMA WeightFound ==
  ASSUME PlanIsSound, WeightsAreListed, WeightsAreMeasured, planned = "laid", NEW name \in ModelWeights
  PROVE  /\ WeightNamed(name).rows = Shape[name][1] /\ WeightNamed(name).columns = Shape[name][2]
         /\ WeightNamed(name).width = IF Stored16(name) THEN 2 ELSE 4
<1> DEFINE items == arenas.weights.items
<1>1. Len(items) = Len(WeightNames) /\ DOMAIN items = 1..Len(items)
  BY ItemsOf DEF WeightsAreMeasured, Buffers
<1>2. \E k \in DOMAIN items : items[k].name = name
  <2>1. PICK k \in 1..Len(WeightNames) : WeightNames[k] = name
    BY NamesAreThere
  <2>2. k \in 1..Len(items)
    BY <1>1, <2>1
  <2>3. QED
    BY <1>1, <2>1, <2>2 DEF WeightsAreListed
<1>3. PICK k \in DOMAIN items : items[k].name = name /\ WeightNamed(name) = items[k]
  <2>1. PICK k : k = CHOOSE i \in DOMAIN items : items[i].name = name
    OBVIOUS
  <2>2. k \in DOMAIN items /\ items[k].name = name
    BY <1>2, <2>1
  <2>3. QED
    BY <2>1, <2>2 DEF WeightNamed
<1>4. Measured(items[k])
  BY <1>1, <1>3 DEF WeightsAreMeasured
<1>5. QED
  BY <1>3, <1>4 DEF Measured

-----------------------------------------------------------------------------
(***************************************************************************)
(* Operands: their shapes fit the weights, and no two regions overlap.     *)
(***************************************************************************)
PlanIsLaid ==
  /\ Started /\ ModelIsSupported /\ planned = "laid"
  /\ PlanIsSound /\ RegionsAreListed /\ WeightsAreListed /\ WeightsAreMeasured

LEMMA ColumnsFound ==
  ASSUME PlanIsLaid, NEW name \in Regions
  PROVE  ColumnsOf(name) = WorkspaceShapes[RegionIndex[name]].columns
<1>1. /\ RegionIndex[name] \in 1..Len(arenas.workspace.items)
      /\ RegionNamed(name) = arenas.workspace.items[RegionIndex[name]]
  BY RegionFound DEF PlanIsLaid
<1>2. RegionsAreListed
  BY DEF PlanIsLaid
<1>3. QED
  BY <1>1, <1>2 DEF RegionsAreListed, ColumnsOf

LEMMA ColumnsOfShape ==
  /\ \A name, rows, columns : Region(name, rows, columns).columns = columns
  /\ \A name, columns : Wide(name, columns).columns = columns
  /\ \A name, columns : [Wide(name, columns) EXCEPT !.width = 2].columns = columns
BY DEF Region, Wide

LEMMA ColumnsAre ==
  ASSUME PlanIsLaid
  PROVE  /\ ColumnsOf("hidden") = dims.embedding /\ ColumnsOf("normalized") = dims.embedding
         /\ ColumnsOf("projected") = dims.embedding /\ ColumnsOf("down") = dims.embedding
         /\ ColumnsOf("selected_hidden") = dims.embedding
         /\ ColumnsOf("query") = Query /\ ColumnsOf("attention") = Query
         /\ ColumnsOf("key") = KeyValue /\ ColumnsOf("value") = KeyValue
         /\ ColumnsOf("gate") = dims.feed_forward /\ ColumnsOf("up") = dims.feed_forward
         /\ ColumnsOf("scores") = dims.heads * c.max_model_len
         /\ ColumnsOf("probabilities") = dims.heads * c.max_model_len
         /\ ColumnsOf("logits") = file.tensors["token_embd"].rows /\ ColumnsOf("tokens") = 1
         /\ ColumnsOf("rope_coefficients") = dims.head_dim
         /\ Half => ColumnsOf("matrix_input") = InputColumns
<1> DEFINE s == WorkspaceShapes
<1>1. \A name \in Regions : ColumnsOf(name) = s[RegionIndex[name]].columns
  BY ColumnsFound
<1>2. /\ s[1] = Wide("hidden", dims.embedding) /\ s[2] = Wide("normalized", dims.embedding)
      /\ s[3] = Wide("query", Query) /\ s[4] = Wide("key", KeyValue) /\ s[5] = Wide("value", KeyValue)
      /\ s[6] = Wide("attention", Query)
  BY ShapesInOrder
<1>3. /\ s[7] = Wide("projected", dims.embedding) /\ s[8] = Wide("gate", dims.feed_forward)
      /\ s[9] = Wide("up", dims.feed_forward) /\ s[10] = Wide("down", dims.embedding)
      /\ s[11] = Wide("selected_hidden", dims.embedding)
  BY ShapesInOrder
<1>4. /\ s[12] = Wide("scores", dims.heads * c.max_model_len)
      /\ s[13] = Wide("probabilities", dims.heads * c.max_model_len)
      /\ s[14] = Wide("logits", file.tensors["token_embd"].rows) /\ s[15] = Wide("tokens", 1)
      /\ s[22] = Region("rope_coefficients", c.max_model_len, dims.head_dim)
      /\ Half => s[23] = [Wide("matrix_input", InputColumns) EXCEPT !.width = 2]
  BY ShapesInOrder DEF Half
<1> HIDE DEF s
<1>5. /\ s[1].columns = dims.embedding /\ s[2].columns = dims.embedding /\ s[3].columns = Query
      /\ s[4].columns = KeyValue /\ s[5].columns = KeyValue /\ s[6].columns = Query
  BY <1>2, ColumnsOfShape
<1>6. /\ s[7].columns = dims.embedding /\ s[8].columns = dims.feed_forward /\ s[9].columns = dims.feed_forward
      /\ s[10].columns = dims.embedding /\ s[11].columns = dims.embedding
  BY <1>3, ColumnsOfShape
<1>7. /\ s[12].columns = dims.heads * c.max_model_len /\ s[13].columns = dims.heads * c.max_model_len
      /\ s[14].columns = file.tensors["token_embd"].rows /\ s[15].columns = 1
      /\ s[22].columns = dims.head_dim
      /\ Half => s[23].columns = InputColumns
  <2>1. Half => s[23].columns = InputColumns
    <3>1. [Wide("matrix_input", InputColumns) EXCEPT !.width = 2].columns = InputColumns
      BY ColumnsOfShape
    <3>2. QED
      BY Zenon, <1>4, <3>1
  <2>2. s[12].columns = dims.heads * c.max_model_len /\ s[13].columns = dims.heads * c.max_model_len
    <3>1. /\ Wide("scores", dims.heads * c.max_model_len).columns = dims.heads * c.max_model_len
          /\ Wide("probabilities", dims.heads * c.max_model_len).columns = dims.heads * c.max_model_len
      BY Zenon, ColumnsOfShape
    <3>2. QED
      BY Zenon, <1>4, <3>1
  <2>3. /\ s[14].columns = file.tensors["token_embd"].rows /\ s[15].columns = 1
        /\ s[22].columns = dims.head_dim
    <3>1. /\ Wide("logits", file.tensors["token_embd"].rows).columns = file.tensors["token_embd"].rows
          /\ Wide("tokens", 1).columns = 1
      BY Zenon, ColumnsOfShape
    <3>2. Region("rope_coefficients", c.max_model_len, dims.head_dim).columns = dims.head_dim
      BY DEF Region
    <3>3. QED
      BY Zenon, <1>4, <3>1, <3>2
  <2>4. QED
    BY <2>1, <2>2, <2>3
<1>8. /\ Always \subseteq Regions
      /\ Half => "matrix_input" \in Regions
  BY DEF Regions, Half
<1>9. /\ ColumnsOf("hidden") = dims.embedding /\ ColumnsOf("normalized") = dims.embedding
      /\ ColumnsOf("query") = Query /\ ColumnsOf("key") = KeyValue /\ ColumnsOf("value") = KeyValue
      /\ ColumnsOf("attention") = Query
  BY <1>1, <1>5, <1>8 DEF Always, RegionIndex
<1>10. /\ ColumnsOf("projected") = dims.embedding /\ ColumnsOf("gate") = dims.feed_forward
       /\ ColumnsOf("up") = dims.feed_forward /\ ColumnsOf("down") = dims.embedding
       /\ ColumnsOf("selected_hidden") = dims.embedding
  BY <1>1, <1>6, <1>8 DEF Always, RegionIndex
<1>11. /\ ColumnsOf("scores") = dims.heads * c.max_model_len
       /\ ColumnsOf("probabilities") = dims.heads * c.max_model_len
       /\ ColumnsOf("logits") = file.tensors["token_embd"].rows /\ ColumnsOf("tokens") = 1
       /\ ColumnsOf("rope_coefficients") = dims.head_dim
       /\ Half => ColumnsOf("matrix_input") = InputColumns
  <2>1. /\ RegionIndex["scores"] = 12 /\ RegionIndex["probabilities"] = 13 /\ RegionIndex["logits"] = 14
        /\ RegionIndex["tokens"] = 15 /\ RegionIndex["rope_coefficients"] = 22 /\ RegionIndex["matrix_input"] = 23
    BY DEF RegionIndex
  <2>2. {"scores", "probabilities", "logits", "tokens", "rope_coefficients"} \subseteq Regions
    BY <1>8 DEF Always
  <2>3. QED
    BY <1>1, <1>7, <1>8, <2>1, <2>2
<1>12. QED
  BY <1>9, <1>10, <1>11

\* What Qwen3Model makes sure of.
LEMMA DimensionsFit ==
  ASSUME PlanIsLaid
  PROVE  /\ dims.embedding \in Nat \ {0} /\ dims.head_dim \in Nat \ {0} /\ dims.feed_forward \in Nat
         /\ dims.heads % dims.kv_heads = 0 /\ dims.head_dim % 2 = 0
         /\ Query \in Nat /\ Query % dims.head_dim = 0
         /\ KeyValue \in Nat /\ KeyValue % dims.head_dim = 0
         /\ dims.embedding % dims.embedding = 0
<1>1. /\ Started /\ DimensionsAreSupported
  BY DEF PlanIsLaid, ModelIsSupported
<1>2. /\ dims.embedding \in Nat /\ dims.heads \in Nat /\ dims.kv_heads \in Nat /\ dims.head_dim \in Nat
      /\ dims.feed_forward \in Nat
  BY <1>1, StartTypes
<1>3. dims.embedding # 0 /\ dims.head_dim # 0 /\ dims.heads % dims.kv_heads = 0 /\ dims.head_dim % 2 = 0
  <2>1. \A d \in {dims.embedding, dims.head_dim} : d \in 1..ExtentMax
    BY <1>1 DEF DimensionsAreSupported
  <2>2. QED
    BY <1>1, <2>1 DEF DimensionsAreSupported
<1>4. \A q \in Nat, d \in Nat \ {0} : q * d \in Nat /\ (q * d) % d = 0
  <2>1. ASSUME NEW q \in Nat, NEW d \in Nat \ {0} PROVE q * d \in Nat /\ (q * d) % d = 0
    <3>1. d * q = q * d
      OBVIOUS
    <3>2. QED
      BY <3>1, MultipleIsAligned, ProductIsNatural
  <2>2. QED
    BY <2>1
<1>5. Query \in Nat /\ Query % dims.head_dim = 0 /\ KeyValue \in Nat /\ KeyValue % dims.head_dim = 0
  BY <1>2, <1>3, <1>4 DEF Query, KeyValue
<1>6. dims.embedding % dims.embedding = 0
  <2>1. 1 * dims.embedding = dims.embedding
    BY <1>2
  <2>2. QED
    BY <1>2, <1>3, <1>4, <2>1
<1>7. QED
  BY <1>2, <1>3, <1>5, <1>6

LEMMA WeightShapes ==
  ASSUME PlanIsLaid
  PROVE  /\ \A name \in ModelWeights : WeightNamed(name).rows = Shape[name][1]
                                       /\ WeightNamed(name).columns = Shape[name][2]
         /\ \A name \in ModelWeights \ Norms : WeightNamed(name).width = IF Half THEN 2 ELSE 4
<1>1. \A name \in ModelWeights : /\ WeightNamed(name).rows = Shape[name][1]
                                 /\ WeightNamed(name).columns = Shape[name][2]
                                 /\ WeightNamed(name).width = IF Stored16(name) THEN 2 ELSE 4
  BY WeightFound DEF PlanIsLaid
<1>2. \A name : name \notin Norms => (Stored16(name) <=> Half)
  BY DEF Stored16, Half
<1>3. QED
  BY <1>1, <1>2

LEMMA OpFields ==
  ASSUME NEW kernel, NEW weight, NEW reads, NEW writes
  PROVE  LET o == Op(kernel, weight, reads, writes)
         IN o.kernel = kernel /\ o.weight = weight /\ o.reads = reads /\ o.writes = writes
BY DEF Op

LEMMA NormsFit ==
  ASSUME PlanIsLaid, NEW o \in NormOps
  PROVE  /\ o.kernel = "norm" /\ WeightNamed(o.weight).rows = 1
         /\ ColumnsOf(o.reads[1]) % WeightNamed(o.weight).columns = 0
         /\ ColumnsOf(o.reads[1]) = ColumnsOf(o.writes)
<1>1. /\ \A name \in {"attn_norm", "ffn_norm", "output_norm", "attn_q_norm", "attn_k_norm"} :
           WeightNamed(name).rows = 1
      /\ \A name \in {"attn_norm", "ffn_norm", "output_norm"} : WeightNamed(name).columns = dims.embedding
      /\ \A name \in {"attn_q_norm", "attn_k_norm"} : WeightNamed(name).columns = dims.head_dim
  BY WeightShapes DEF ModelWeights, LayerWeights, Shape
<1>2. /\ dims.embedding % dims.embedding = 0 /\ Query % dims.head_dim = 0 /\ KeyValue % dims.head_dim = 0
  BY DimensionsFit
<1>3. CASE \E name \in {"attn_norm", "ffn_norm", "output_norm"} :
             o = Op("norm", name, <<"hidden">>, "normalized")
  <2>1. PICK name \in {"attn_norm", "ffn_norm", "output_norm"} :
          o.kernel = "norm" /\ o.weight = name /\ o.reads = <<"hidden">> /\ o.writes = "normalized"
    BY <1>3, OpFields
  <2>2. QED
    BY <1>1, <1>2, <2>1, ColumnsAre
<1>4. CASE o = Op("norm", "attn_q_norm", <<"query">>, "query")
  <2>1. o.kernel = "norm" /\ o.weight = "attn_q_norm" /\ o.reads = <<"query">> /\ o.writes = "query"
    BY <1>4, OpFields
  <2>2. QED
    BY <1>1, <1>2, <2>1, ColumnsAre
<1>5. CASE o = Op("norm", "attn_k_norm", <<"key">>, "key")
  <2>1. o.kernel = "norm" /\ o.weight = "attn_k_norm" /\ o.reads = <<"key">> /\ o.writes = "key"
    BY <1>5, OpFields
  <2>2. QED
    BY <1>1, <1>2, <2>1, ColumnsAre
<1>6. QED
  BY <1>3, <1>4, <1>5 DEF NormOps

\* Each product has its weight's own input, and as many columns and rows.
LEMMA ProductsFit ==
  ASSUME PlanIsLaid, NEW o \in ProductOps
  PROVE  /\ o.kernel = "multiply" /\ o.reads = <<Prepared(InputOf[o.weight])>>
         /\ ColumnsOf(InputOf[o.weight]) = WeightNamed(o.weight).columns
         /\ ColumnsOf(o.writes) = WeightNamed(o.weight).rows
         /\ WeightNamed(o.weight).width = (IF Half THEN 2 ELSE 4)
<1> DEFINE Matches(x, weight, output) ==
      /\ InputOf[weight] = x /\ ColumnsOf(x) = Shape[weight][2] /\ ColumnsOf(output) = Shape[weight][1]
      /\ weight \in ModelWeights \ Norms
<1>1. ASSUME NEW x, NEW weight, NEW output, o = Multiply(x, weight, output), Matches(x, weight, output)
      PROVE  /\ o.kernel = "multiply" /\ o.reads = <<Prepared(InputOf[o.weight])>>
             /\ ColumnsOf(InputOf[o.weight]) = WeightNamed(o.weight).columns
             /\ ColumnsOf(o.writes) = WeightNamed(o.weight).rows
             /\ WeightNamed(o.weight).width = (IF Half THEN 2 ELSE 4)
  <2>1. o.kernel = "multiply" /\ o.weight = weight /\ o.reads = <<Prepared(x)>> /\ o.writes = output
    BY <1>1, OpFields DEF Multiply
  <2>2. /\ WeightNamed(weight).rows = Shape[weight][1] /\ WeightNamed(weight).columns = Shape[weight][2]
        /\ WeightNamed(weight).width = IF Half THEN 2 ELSE 4
    BY <1>1, WeightShapes
  <2>3. QED
    BY <1>1, <2>1, <2>2
<1>2. /\ "attn_q" \in ModelWeights \ Norms /\ "attn_k" \in ModelWeights \ Norms
      /\ "attn_v" \in ModelWeights \ Norms /\ "attn_output" \in ModelWeights \ Norms
      /\ "ffn_gate" \in ModelWeights \ Norms /\ "ffn_up" \in ModelWeights \ Norms
      /\ "ffn_down" \in ModelWeights \ Norms /\ "output" \in ModelWeights \ Norms
  BY DEF ModelWeights, LayerWeights, Norms
<1>3. /\ Matches("normalized", "attn_q", "query") /\ Matches("normalized", "attn_k", "key")
      /\ Matches("normalized", "attn_v", "value") /\ Matches("attention", "attn_output", "projected")
  BY <1>2, ColumnsAre DEF Shape, InputOf
<1>4. /\ Matches("normalized", "ffn_gate", "gate") /\ Matches("normalized", "ffn_up", "up")
      /\ Matches("gate", "ffn_down", "down") /\ Matches("selected_hidden", "output", "logits")
  BY <1>2, ColumnsAre DEF Shape, InputOf
<1> HIDE DEF Matches
<1>5. \E x, weight, output : o = Multiply(x, weight, output) /\ Matches(x, weight, output)
  <2>1. CASE o = Multiply("normalized", "attn_q", "query") \/ o = Multiply("normalized", "attn_k", "key")
             \/ o = Multiply("normalized", "attn_v", "value") \/ o = Multiply("attention", "attn_output", "projected")
    BY Zenon, <1>3, <2>1
  <2>2. CASE o = Multiply("normalized", "ffn_gate", "gate") \/ o = Multiply("normalized", "ffn_up", "up")
             \/ o = Multiply("gate", "ffn_down", "down") \/ o = Multiply("selected_hidden", "output", "logits")
    BY Zenon, <1>4, <2>2
  <2>3. QED
    BY <2>1, <2>2 DEF ProductOps
<1>6. QED
  BY <1>1, <1>5

\* The input that all products share is as wide as the widest of them.
LEMMA WidestInput ==
  ASSUME NEW x \in Nat, NEW y \in Nat, NEW z \in Nat
  PROVE  x <= Max({x, y, z}) /\ y <= Max({x, y, z}) /\ z <= Max({x, y, z})
<1>1. \E w \in {x, y, z} : \A v \in {x, y, z} : w >= v
  OBVIOUS
<1>2. Max({x, y, z}) \in {x, y, z} /\ \A v \in {x, y, z} : Max({x, y, z}) >= v
  BY <1>1 DEF Max
<1>3. QED
  BY <1>2

LEMMA CastsFit ==
  ASSUME PlanIsLaid, NEW o \in CastOps
  PROVE  o.kernel = "cast" /\ ColumnsOf(o.reads[1]) <= ColumnsOf("matrix_input")
<1>1. PICK x \in {"normalized", "attention", "gate", "selected_hidden"} :
        o.kernel = "cast" /\ o.reads = <<x>>
  BY OpFields DEF CastOps
<1>2. Half
  BY DEF CastOps
<1>3. ColumnsOf("matrix_input") = InputColumns
  BY <1>2, ColumnsAre
<1>4. dims.embedding \in Nat /\ Query \in Nat /\ dims.feed_forward \in Nat
  BY DimensionsFit
<1>5. dims.embedding <= InputColumns /\ Query <= InputColumns /\ dims.feed_forward <= InputColumns
  BY <1>4, WidestInput DEF InputColumns
<1>6. ColumnsOf(x) \in {dims.embedding, Query, dims.feed_forward}
  BY ColumnsAre
<1>7. QED
  BY <1>1, <1>3, <1>5, <1>6

LEMMA AttentionFits ==
  ASSUME PlanIsLaid, NEW o \in AttentionOps
  PROVE  \/ /\ o.kernel = "rope" /\ ColumnsOf("rope_coefficients") % 2 = 0
            /\ ColumnsOf(o.reads[1]) % ColumnsOf("rope_coefficients") = 0
         \/ o.kernel = "store" /\ ColumnsOf("key") = KeyValue /\ ColumnsOf("value") = KeyValue
         \/ /\ o.kernel \in {"qk", "softmax", "pv"}
            /\ dims.heads % dims.kv_heads = 0
            /\ ColumnsOf("query") = Query /\ ColumnsOf("attention") = Query
            /\ ColumnsOf("scores") = dims.heads * c.max_model_len
            /\ ColumnsOf("probabilities") = ColumnsOf("scores")
<1>1. \/ o.kernel = "rope" /\ o.reads \in {<<"query", "positions">>, <<"key", "positions">>}
      \/ o.kernel = "store"
      \/ o.kernel \in {"qk", "softmax", "pv"}
  BY OpFields DEF AttentionOps
<1>2. CASE o.kernel = "rope" /\ o.reads \in {<<"query", "positions">>, <<"key", "positions">>}
  <2>1. o.reads[1] \in {"query", "key"}
    BY <1>2
  <2>2. ColumnsOf(o.reads[1]) \in {Query, KeyValue} /\ ColumnsOf("rope_coefficients") = dims.head_dim
    BY <2>1, ColumnsAre
  <2>3. QED
    BY <1>2, <2>2, DimensionsFit
<1>3. CASE o.kernel = "store"
  BY <1>3, ColumnsAre
<1>4. CASE o.kernel \in {"qk", "softmax", "pv"}
  BY <1>4, ColumnsAre, DimensionsFit
<1>5. QED
  BY <1>1, <1>2, <1>3, <1>4

LEMMA OthersFit ==
  ASSUME PlanIsLaid, NEW o \in OtherOps
  PROVE  \/ o.kernel \in {"add", "swiglu"} /\ ColumnsOf(o.reads[1]) = ColumnsOf(o.reads[2])
         \/ o.kernel = "gather" /\ ColumnsOf(o.writes) = (IF o.weight = "none" THEN ColumnsOf(o.reads[1])
                                                          ELSE WeightNamed(o.weight).columns)
         \/ o.kernel = "argmax" /\ ColumnsOf("tokens") = 1
         \/ o.kernel \in {"finite", "reset"}
<1>1. \/ o.kernel = "add" /\ o.reads \in {<<"hidden", "projected">>, <<"hidden", "down">>}
      \/ o.kernel = "swiglu" /\ o.reads = <<"gate", "up">>
      \/ o.kernel \in {"finite", "reset", "argmax"}
      \/ o.kernel = "gather" /\ o.weight = "token_embd" /\ o.writes = "hidden"
      \/ o.kernel = "gather" /\ o.weight = "none" /\ o.reads = <<"normalized", "selected_rows">>
         /\ o.writes = "selected_hidden"
  BY OpFields DEF OtherOps
<1>2. CASE o.kernel = "add" /\ o.reads \in {<<"hidden", "projected">>, <<"hidden", "down">>}
  <2>1. o.reads[1] = "hidden" /\ o.reads[2] \in {"projected", "down"}
    BY <1>2
  <2>2. QED
    BY <1>2, <2>1, ColumnsAre
<1>3. CASE o.kernel = "swiglu" /\ o.reads = <<"gate", "up">>
  BY <1>3, ColumnsAre
<1>4. CASE o.kernel \in {"finite", "reset", "argmax"}
  BY <1>4, ColumnsAre
<1>5. CASE o.kernel = "gather" /\ o.weight = "token_embd" /\ o.writes = "hidden"
  <2>1. WeightNamed("token_embd").columns = dims.embedding
    BY WeightShapes DEF ModelWeights, Shape
  <2>2. QED
    BY <1>5, <2>1, ColumnsAre
<1>6. CASE /\ o.kernel = "gather" /\ o.weight = "none" /\ o.reads = <<"normalized", "selected_rows">>
           /\ o.writes = "selected_hidden"
  BY <1>6, ColumnsAre
<1>7. QED
  BY <1>1, <1>2, <1>3, <1>4, <1>5, <1>6

\* Two regions of the plan have no byte in common.
LEMMA RegionsAreApart ==
  ASSUME PlanIsLaid, NEW x \in Regions \cup {"kv"}, NEW y \in Regions \cup {"kv"}, x # y
  PROVE  ~Overlap(x, y)
<1>1. CASE "kv" \in {x, y}
  BY <1>1 DEF Overlap
<1>2. CASE "kv" \notin {x, y}
  <2> DEFINE items == arenas.workspace.items
             i == RegionIndex[x]
             j == RegionIndex[y]
  <2>1. x \in Regions /\ y \in Regions
    BY <1>2
  <2>2. PlanIsSound /\ RegionsAreListed /\ planned = "laid"
    BY DEF PlanIsLaid
  <2>3. /\ i \in 1..Len(items) /\ RegionNamed(x) = items[i]
        /\ j \in 1..Len(items) /\ RegionNamed(y) = items[j]
    BY <2>1, <2>2, RegionFound
  <2>4. i # j
    <3>1. WorkspaceShapes[i].name = x /\ WorkspaceShapes[j].name = y
      BY <2>1, NamesAndIndices DEF Meets
    <3>2. QED
      BY <3>1
  <2>5. /\ items \in Seq(ItemSet) /\ DOMAIN items = 1..Len(items) /\ Len(items) \in Nat
    BY <2>2, ItemsOf DEF Buffers
  <2>6. ~items[i].alias /\ ~items[j].alias
    BY <2>2, <2>3 DEF RegionsAreListed
  <2>7. ArenaIsSound(arenas.workspace)
    BY <2>2, ArenaOf DEF Buffers
  <2> HIDE DEF i, j
  <2>8. i \in Owned(arenas.workspace) /\ j \in Owned(arenas.workspace)
    BY <2>3, <2>5, <2>6 DEF Owned
  <2>9. /\ i < j => items[i].offset + items[i].bytes <= items[j].offset
        /\ j < i => items[j].offset + items[j].bytes <= items[i].offset
    BY <2>7, <2>8 DEF ArenaIsSound
  <2>10. items[i] \in ItemSet /\ items[j] \in ItemSet
    BY <2>3, <2>5, ElementOfSeq
  <2>11. PICK a \in ItemSet : a = RegionNamed(x)
    BY <2>3, <2>10
  <2>12. PICK b \in ItemSet : b = RegionNamed(y)
    BY <2>3, <2>10
  <2>13. a.offset + a.bytes <= b.offset \/ b.offset + b.bytes <= a.offset
    BY <2>3, <2>4, <2>9, <2>11, <2>12
  <2>14. a.offset \in Nat /\ a.bytes \in Nat /\ b.offset \in Nat /\ b.bytes \in Nat
    BY <2>11, <2>12 DEF ItemSet
  <2>15. ~(a.offset < b.offset + b.bytes /\ b.offset < a.offset + a.bytes)
    BY <2>13, <2>14
  <2>16. QED
    BY <1>2, <2>11, <2>12, <2>15 DEF Overlap
<1>3. QED
  BY <1>1, <1>2

\* A kernel that writes none of what it reads, but in place, is let through.
LEMMA ApartWhen ==
  ASSUME PlanIsLaid, NEW op, Range(op.reads) \subseteq Regions \cup {"kv"}, op.writes \in Regions \cup {"kv"},
         op.writes \in Range(op.reads) => InPlace(op), op.writes \notin Besides(op)
  PROVE  Apart(op)
<1>1. Besides(op) \subseteq Regions
  BY DEF Besides, Regions, Always
<1>2. ASSUME NEW x \in (Range(op.reads) \ (IF InPlace(op) THEN {op.writes} ELSE {})) \cup Besides(op)
      PROVE  ~Overlap(x, op.writes)
  <2>1. x \in Regions \cup {"kv"}
    BY <1>1, <1>2
  <2>2. x # op.writes
    BY <1>2
  <2>3. QED
    BY <2>1, <2>2, RegionsAreApart
<1>3. QED
  BY <1>2 DEF Apart

LEMMA RangeOfFew ==
  /\ Range(<<>>) = {}
  /\ \A a : Range(<<a>>) = {a}
  /\ \A a, b : Range(<<a, b>>) = {a, b}
  /\ \A a, b, d : Range(<<a, b, d>>) = {a, b, d}
  /\ \A a, b, d, e : Range(<<a, b, d, e>>) = {a, b, d, e}
<1>1. Range(<<>>) = {} /\ \A a : Range(<<a>>) = {a}
  BY DEF Range
<1>2. \A a, b : Range(<<a, b>>) = {a, b}
  BY DEF Range
<1>3. \A a, b, d : Range(<<a, b, d>>) = {a, b, d}
  BY DEF Range
<1>4. \A a, b, d, e : Range(<<a, b, d, e>>) = {a, b, d, e}
  BY DEF Range
<1>5. QED
  BY <1>1, <1>2, <1>3, <1>4

\* What an operation reads, and that it writes none of it but in place.
SoundOperands(o) ==
  /\ Range(o.reads) \subseteq Regions \cup {"kv"}
  /\ o.writes \in Range(o.reads) => InPlace(o)
  /\ o.writes \notin Besides(o)

LEMMA NotBesides ==
  ASSUME NEW o, o.writes \notin {"rope_coefficients", "kv_block_table"}, o.writes = "status" => o.kernel = "finite"
  PROVE  o.writes \notin Besides(o)
BY DEF Besides

LEMMA ProductIs ==
  ASSUME NEW o \in ProductOps
  PROVE  \E x \in {"normalized", "attention", "gate", "selected_hidden"}, weight \in DOMAIN InputOf,
            y \in {"query", "key", "value", "projected", "gate", "up", "down", "logits"} :
           o = Multiply(x, weight, y) /\ (y = "gate" => x = "normalized")
<1> DEFINE Fine(x, weight, y) ==
      /\ x \in {"normalized", "attention", "gate", "selected_hidden"} /\ weight \in DOMAIN InputOf
      /\ y \in {"query", "key", "value", "projected", "gate", "up", "down", "logits"}
      /\ y = "gate" => x = "normalized"
<1>1. /\ Fine("normalized", "attn_q", "query") /\ Fine("normalized", "attn_k", "key")
      /\ Fine("normalized", "attn_v", "value") /\ Fine("attention", "attn_output", "projected")
      /\ Fine("normalized", "ffn_gate", "gate") /\ Fine("normalized", "ffn_up", "up")
      /\ Fine("gate", "ffn_down", "down") /\ Fine("selected_hidden", "output", "logits")
  BY DEF InputOf
<1> HIDE DEF Fine
<1>2. \E x, weight, y : o = Multiply(x, weight, y) /\ Fine(x, weight, y)
  <2>1. CASE o = Multiply("normalized", "attn_q", "query") \/ o = Multiply("normalized", "attn_k", "key")
             \/ o = Multiply("normalized", "attn_v", "value") \/ o = Multiply("attention", "attn_output", "projected")
    BY Zenon, <1>1, <2>1
  <2>2. CASE o = Multiply("normalized", "ffn_gate", "gate") \/ o = Multiply("normalized", "ffn_up", "up")
             \/ o = Multiply("gate", "ffn_down", "down") \/ o = Multiply("selected_hidden", "output", "logits")
    BY Zenon, <1>1, <2>2
  <2>3. QED
    BY <2>1, <2>2 DEF ProductOps
<1>3. QED
  BY <1>2 DEF Fine

LEMMA OperandsAreSound ==
  ASSUME NEW o \in Table \ CopyOps
  PROVE  SoundOperands(o)
<1>1. /\ Always \subseteq Regions
      /\ Half => "matrix_input" \in Regions
  BY DEF Regions, Half
<1>2. ASSUME NEW x, NEW weight, NEW y, NEW kernel, o = Op(kernel, weight, <<x>>, y),
             x \in Regions, x # y \/ kernel = "norm",
             y \notin {"rope_coefficients", "kv_block_table"}, y = "status" => kernel = "finite"
      PROVE  SoundOperands(o)
  <2>1. o.kernel = kernel /\ o.reads = <<x>> /\ o.writes = y /\ Range(o.reads) = {x}
    BY <1>2, OpFields, RangeOfFew
  <2>2. y \notin Besides(o)
    BY <1>2, <2>1, NotBesides
  <2>3. o.reads[1] = x
    BY <2>1
  <2>4. QED
    BY <1>2, <2>1, <2>2, <2>3 DEF SoundOperands, InPlace
<1>3. CASE o \in NormOps
  BY <1>1, <1>2, <1>3 DEF NormOps, Always
<1>4. CASE o \in CastOps
  <2>1. PICK x \in {"normalized", "attention", "gate", "selected_hidden"} :
          o = Op("cast", "none", <<x>>, "matrix_input")
    BY <1>4 DEF CastOps
  <2>2. QED
    BY <1>1, <1>2, <2>1 DEF Always
<1>5. CASE o \in ProductOps
  <2>1. PICK x \in {"normalized", "attention", "gate", "selected_hidden"},
             y \in {"query", "key", "value", "projected", "gate", "up", "down", "logits"}, weight \in DOMAIN InputOf :
          o = Multiply(x, weight, y) /\ (y = "gate" => x = "normalized")
    BY <1>5, ProductIs
  <2>2. o = Op("multiply", weight, <<Prepared(x)>>, y)
    BY <2>1 DEF Multiply
  <2>3. Prepared(x) \in Regions /\ Prepared(x) # y
    BY <1>1, <2>1 DEF Prepared, Always
  <2>4. QED
    BY <1>2, <2>1, <2>2, <2>3
<1>6. CASE o \in AttentionOps
  <2>1. CASE o \in {Op("rope", "none", <<"query", "positions">>, "query"), Op("rope", "none", <<"key", "positions">>, "key")}
    <3>1. PICK x \in {"query", "key"} : o = Op("rope", "none", <<x, "positions">>, x)
      BY <2>1
    <3>2. /\ o.kernel = "rope" /\ o.reads = <<x, "positions">> /\ o.writes = x
          /\ Range(o.reads) = {x, "positions"} /\ o.reads[1] = x
      BY <3>1, OpFields, RangeOfFew
    <3>3. QED
      BY <1>1, <3>1, <3>2, NotBesides DEF SoundOperands, InPlace, Always
  <2>2. CASE o \in {Op("store", "none", <<"key", "value", "slots", "positions">>, "kv"),
                    Op("qk", "none", <<"kv", "query", "slots", "positions">>, "scores"),
                    Op("pv", "none", <<"kv", "probabilities", "slots", "positions">>, "attention")}
    <3>1. PICK a \in {"key", "kv"}, b \in {"value", "query", "probabilities"}, y \in {"kv", "scores", "attention"}, kernel \in {"store", "qk", "pv"} :
            /\ o = Op(kernel, "none", <<a, b, "slots", "positions">>, y)
            /\ a = "kv" => y # "kv"
      BY <2>2
    <3>2. /\ o.writes = y /\ Range(o.reads) = {a, b, "slots", "positions"}
      BY <3>1, OpFields, RangeOfFew
    <3>3. QED
      BY <1>1, <3>1, <3>2, NotBesides DEF SoundOperands, Always
  <2>3. CASE o = Op("softmax", "none", <<"scores", "slots", "positions">>, "probabilities")
    <3>1. o.writes = "probabilities" /\ Range(o.reads) = {"scores", "slots", "positions"}
      BY <2>3, OpFields, RangeOfFew
    <3>2. QED
      BY <1>1, <3>1, NotBesides DEF SoundOperands, Always
  <2>4. QED
    BY <1>6, <2>1, <2>2, <2>3 DEF AttentionOps
<1>7. CASE o \in OtherOps
  <2>1. CASE o \in {Op("finite", "none", <<"hidden">>, "status"), Op("gather", "token_embd", <<"tokens">>, "hidden"),
                    Op("argmax", "none", <<"logits">>, "tokens")}
    BY <1>1, <1>2, <2>1 DEF Always
  <2>2. CASE o = Op("reset", "none", <<>>, "status")
    <3>1. o.kernel = "reset" /\ o.writes = "status" /\ Range(o.reads) = {}
      BY <2>2, OpFields, RangeOfFew
    <3>2. QED
      BY <3>1 DEF SoundOperands, Besides
  <2>3. CASE \E kernel \in {"add", "swiglu"}, x \in {"hidden", "gate"}, y \in {"projected", "down", "up"} :
               o = Op(kernel, "none", <<x, y>>, x)
    <3>1. PICK kernel \in {"add", "swiglu"}, x \in {"hidden", "gate"}, y \in {"projected", "down", "up"} :
            o = Op(kernel, "none", <<x, y>>, x)
      BY <2>3
    <3>2. /\ o.kernel = kernel /\ o.reads = <<x, y>> /\ o.writes = x /\ Range(o.reads) = {x, y} /\ o.reads[1] = x
      BY <3>1, OpFields, RangeOfFew
    <3>3. QED
      BY <1>1, <3>1, <3>2, NotBesides DEF SoundOperands, InPlace, Always
  <2>4. CASE o = Op("gather", "none", <<"normalized", "selected_rows">>, "selected_hidden")
    <3>1. o.writes = "selected_hidden" /\ Range(o.reads) = {"normalized", "selected_rows"}
      BY <2>4, OpFields, RangeOfFew
    <3>2. QED
      BY <1>1, <3>1, NotBesides DEF SoundOperands, Always
  <2>5. QED
    BY <1>7, <2>1, <2>2, <2>3, <2>4 DEF OtherOps
<1>8. QED
  BY <1>3, <1>4, <1>5, <1>6, <1>7 DEF Table, Quiet

\* A product is made of its own input, whichever way it was prepared.
LEMMA LargestIs ==
  ASSUME NEW S, S \subseteq Nat, NEW j \in S, \A i \in S : i <= j
  PROVE  Max(S) = j
<1>1. \A i \in S : j >= i
  OBVIOUS
<1>2. Max(S) \in S /\ \A i \in S : Max(S) >= i
  BY <1>1 DEF Max
<1>3. PICK n \in S : n = Max(S)
  BY <1>2
<1>4. n >= j /\ j >= n /\ n \in Nat /\ j \in Nat
  BY <1>1, <1>2, <1>3
<1>5. QED
  BY <1>3, <1>4

LEMMA SourceFound ==
  ASSUME PlanIsLaid, NEW work \in Programs(Layered(Table)), NEW k \in 1..Len(work), NEW o \in ProductOps,
         work[k].kernel = "multiply", work[k].weight = o.weight, work[k].reads = o.reads
  PROVE  SourceOf(work, k) = InputOf[o.weight]
<1>1. o.reads = <<Prepared(InputOf[o.weight])>>
  BY ProductsFit
<1>2. work[k].reads[1] = Prepared(InputOf[o.weight])
  BY <1>1
<1>3. Fed(work) /\ Len(work) \in Nat
  BY LenProperties DEF Programs
<1>4. CASE Half
  <2>1. PICK j \in 1..(k - 1) : /\ work[j].kernel = "cast" /\ work[j].reads = <<InputOf[o.weight]>>
                                /\ \A i \in (j + 1)..k : work[i].kernel # "cast"
    BY <1>3, <1>4 DEF Fed
  <2> DEFINE S == {i \in 1..k : work[i].kernel = "cast"}
  <2>2. S \subseteq Nat /\ j \in S
    BY <1>3, <2>1
  <2>3. \A i \in S : i <= j
    BY <1>3, <2>1
  <2> HIDE DEF S
  <2>4. Max(S) = j
    BY <2>2, <2>3, LargestIs
  <2>5. work[k].reads[1] = "matrix_input"
    BY <1>2, <1>4 DEF Prepared
  <2>6. SourceOf(work, k) = work[Max(S)].reads[1]
    BY <2>5 DEF SourceOf, S
  <2>7. QED
    BY <2>1, <2>4, <2>6
<1>5. CASE ~Half
  <2>1. InputOf[o.weight] # "matrix_input"
    <3>1. \E x, y : \E weight \in DOMAIN InputOf : o = Multiply(x, weight, y)
      BY ProductIs
    <3>2. o.weight \in DOMAIN InputOf
      BY <3>1, OpFields DEF Multiply
    <3>3. \A w \in DOMAIN InputOf : InputOf[w] # "matrix_input"
      BY DEF InputOf
    <3>4. QED
      BY <3>2, <3>3
  <2>2. work[k].reads[1] = InputOf[o.weight]
    BY <1>2, <1>5 DEF Prepared
  <2>3. QED
    BY <2>1, <2>2 DEF SourceOf
<1>6. QED
  BY <1>4, <1>5

LEMMA CopyKernels == \A o \in CopyOps : o.kernel \in {"upload", "download"}
<1>1. \A name : Upload(name).kernel = "upload"
  BY DEF Upload, Op
<1>2. \A name, host : Download(name, host).kernel = "download"
  BY DEF Download, Op
<1>3. QED
  BY <1>1, <1>2 DEF CopyOps

-----------------------------------------------------------------------------
\* No kernel refuses what it is given.
LEMMA ShapesAreFit ==
  ASSUME PlanIsLaid, NEW work \in Programs(Layered(Table)), NEW k \in 1..Len(work)
  PROVE  ShapesFit(work, k)
<1>1. PICK op \in Layered(Table) : op = work[k]
  BY ElementOfSeq DEF Programs
<1>2. PICK o \in Table : /\ op.kernel = o.kernel /\ op.weight = o.weight /\ op.reads = o.reads
                         /\ op.writes = o.writes
  BY LayeredFields
<1>3. CASE o \in NormOps
  <2>1. /\ op.kernel = "norm" /\ WeightNamed(op.weight).rows = 1
        /\ ColumnsOf(op.reads[1]) % WeightNamed(op.weight).columns = 0
        /\ ColumnsOf(op.reads[1]) = ColumnsOf(op.writes)
    BY <1>2, <1>3, NormsFit
  <2>2. QED
    BY <1>1, <2>1 DEF ShapesFit
<1>4. CASE o \in ProductOps
  <2>1. /\ op.kernel = "multiply" /\ ColumnsOf(InputOf[op.weight]) = WeightNamed(op.weight).columns
        /\ ColumnsOf(op.writes) = WeightNamed(op.weight).rows
        /\ WeightNamed(op.weight).width = (IF Half THEN 2 ELSE 4)
    BY <1>2, <1>4, ProductsFit
  <2>2. SourceOf(work, k) = InputOf[op.weight]
    BY <1>1, <1>2, <1>4, <2>1, SourceFound
  <2>3. QED
    BY <1>1, <2>1, <2>2 DEF ShapesFit
<1>5. CASE o \in CastOps
  <2>1. op.kernel = "cast" /\ ColumnsOf(op.reads[1]) <= ColumnsOf("matrix_input")
    BY <1>2, <1>5, CastsFit
  <2>2. QED
    BY <1>1, <2>1 DEF ShapesFit
<1>6. CASE o \in AttentionOps
  <2>1. \/ /\ op.kernel = "rope" /\ ColumnsOf("rope_coefficients") % 2 = 0
           /\ ColumnsOf(op.reads[1]) % ColumnsOf("rope_coefficients") = 0
        \/ op.kernel = "store" /\ ColumnsOf("key") = KeyValue /\ ColumnsOf("value") = KeyValue
        \/ /\ op.kernel \in {"qk", "softmax", "pv"}
           /\ dims.heads % dims.kv_heads = 0
           /\ ColumnsOf("query") = Query /\ ColumnsOf("attention") = Query
           /\ ColumnsOf("scores") = dims.heads * c.max_model_len
           /\ ColumnsOf("probabilities") = ColumnsOf("scores")
    BY <1>2, <1>6, AttentionFits
  <2>2. QED
    BY <1>1, <2>1 DEF ShapesFit
<1>7. CASE o \in OtherOps
  <2>1. \/ op.kernel \in {"add", "swiglu"} /\ ColumnsOf(op.reads[1]) = ColumnsOf(op.reads[2])
        \/ op.kernel = "gather" /\ ColumnsOf(op.writes) = (IF op.weight = "none" THEN ColumnsOf(op.reads[1])
                                                           ELSE WeightNamed(op.weight).columns)
        \/ op.kernel = "argmax" /\ ColumnsOf("tokens") = 1
        \/ op.kernel \in {"finite", "reset"}
    BY <1>2, <1>7, OthersFit
  <2>2. QED
    BY <1>1, <2>1 DEF ShapesFit
<1>8. CASE o \in CopyOps
  <2>1. op.kernel \in {"upload", "download"}
    BY <1>2, <1>8, CopyKernels
  <2>2. QED
    BY <1>1, <2>1 DEF ShapesFit
<1>9. QED
  BY <1>3, <1>4, <1>5, <1>6, <1>7, <1>8 DEF Table, Quiet

LEMMA OperandsFit ==
  ASSUME PlanIsLaid, NEW work \in Programs(Layered(Table)), NEW k \in 1..Len(work)
  PROVE  Accepts(work, k)
<1>1. PICK op \in Layered(Table) : op = work[k]
  BY ElementOfSeq DEF Programs
<1>2. PICK o \in Table : /\ op.kernel = o.kernel /\ op.weight = o.weight /\ op.reads = o.reads
                         /\ op.writes = o.writes
  BY LayeredFields
<1>3. ASSUME op.kernel \notin {"upload", "download", "reset"} PROVE Apart(op)
  <2>1. o \notin CopyOps
    BY <1>2, <1>3, CopyKernels
  <2>2. SoundOperands(o) /\ o.writes \in Regions \cup {"kv"}
    BY <2>1, OperandsAreSound, TableWrites
  <2>3. (InPlace(op) <=> InPlace(o)) /\ Besides(op) = Besides(o)
    BY <1>2 DEF InPlace, Besides
  <2>4. QED
    BY <1>2, <2>2, <2>3, ApartWhen DEF SoundOperands
<1>4. QED
  BY <1>1, <1>3, ShapesAreFit DEF Accepts

\* Every operand of every kernel of every forward fits, for every model that
\* Qwen3Model accepts and in both precisions and layouts: no launch is refused
\* for its shapes, and no kernel overwrites what it still has to read.
THEOREM OperandsAccepted == Spec => []OperandsAreAccepted
<1> DEFINE I == WeightsAreListed /\ WeightsAreMeasured
<1>1. Init => I
  <2>1. Init => arenas.weights.items = <<>> /\ planned = "weights"
    BY DEF Init, StartupInit, PlanInit, EmptyArena
  <2>2. Len(<<>>) = 0 /\ Len(WeightNames) \in Nat
    BY WeightsAreNames, LenProperties
  <2>3. QED
    BY <2>1, <2>2 DEF WeightsAreListed, WeightsAreMeasured
<1>2. Started /\ Checked /\ StartupInv /\ I /\ [Next]_vars => I'
  <2>1. SUFFICES ASSUME Started, Checked, StartupInv, I, [Next]_vars PROVE I'
    OBVIOUS
  <2>2. PlanIsSound
    BY <2>1 DEF StartupInv
  <2>3. WeightsAreMeasured'
    BY <2>1, <2>2, WeightsMeasureStep
  <2>4. WeightsAreListed'
    <3>1. CASE Plan
      BY <2>1, <2>2, <3>1, PlanLists
    <3>2. CASE ~Plan
      <4>1. arenas' = arenas
        BY <2>1, <3>2, OthersDoNotPlan DEF planVars
      <4>2. QED
        BY <2>1, <4>1, SameNames, ListKept
    <3>3. QED
      BY <3>1, <3>2
  <2>5. QED
    BY <2>3, <2>4
<1>3. Started /\ Checked /\ StartupInv /\ I => OperandsAreAccepted
  <2>1. SUFFICES ASSUME Started, Checked, StartupInv, I, pc = "forward", step <= Len(Work)
                 PROVE  Accepts(Work, step)
    BY DEF OperandsAreAccepted
  <2>2. ModelIsSupported
    BY <2>1 DEF Checked, PastShapes, PastBounds, PastConfig, Pcs
  <2>3. planned = "laid" /\ PlanIsSound /\ RegionsAreListed /\ ForwardStarted
    BY <2>1 DEF StartupInv, MemoryInv, Allocated, HasPlan, HasContext, HasWeights, HasWorkspace, Live
  <2>4. PlanIsLaid
    BY <2>1, <2>2, <2>3 DEF PlanIsLaid
  <2>5. Work \in Programs(Layered(Table)) /\ step \in 1..Len(Work)
    BY <2>1, <2>3, WorkIn, LenProperties DEF ForwardStarted, Programs
  <2>6. QED
    BY <2>4, <2>5, OperandsFit
<1>4. QED
  BY <1>1, <1>2, <1>3, StartupInvariant, PTL DEF Spec
-----------------------------------------------------------------------------
(***************************************************************************)
(* The upload, byte by byte.  A byte is kept if it holds its value and no  *)
(* operation in flight writes it; it ends as a value if it will hold it    *)
(* when the device has come to the end of its stream.                      *)
(***************************************************************************)
LoadingUp == {"upload", "decode", "copy", "await", "settle"}
Loaded == {"events", "device", "ready", "forward"}
Chunk == {"decode", "copy", "await"}

Touches(op, b, a) == op.buffer = b /\ (b # "kv" => a \in (op.offset + 1)..(op.offset + op.bytes))
Untouched(b, a) == \A k \in DOMAIN stream : ~Touches(stream[k], b, a)
Now(b, a) == IF b = "kv" THEN memory["kv"] ELSE memory[b][a]

\* What an operation puts at a byte that it touches.
Put(op, a) ==
  IF op.buffer = "kv" THEN op.fill
  ELSE IF op.host = "none" THEN Cell(op.fill, 0, 0)
  ELSE IF a - op.offset \in DOMAIN staging THEN staging[a - op.offset] ELSE Cell("junk", 0, 0)

Kept(b, a, v) == Now(b, a) = v /\ (pc \in LoadingUp => Untouched(b, a))

EndsAs(b, a, v) ==
  \/ Now(b, a) = v /\ Untouched(b, a)
  \/ \E k \in DOMAIN stream :
       /\ Touches(stream[k], b, a) /\ Put(stream[k], a) = v
       /\ \A j \in DOMAIN stream : j > k => ~Touches(stream[j], b, a)

Address(w, row, column, byte) == w.offset + (row * w.columns + column) * w.width + byte

RowsAreKept(b, w, n) ==
  \A row \in 0..(n - 1), column \in 0..(w.columns - 1), byte \in 1..w.width :
    Kept(b, Address(w, row, column, byte), Cell(w.name, row, column))

BufferAt(k) == IF k = Len(UploadList) THEN "workspace" ELSE "weights"

FlightIsKnown ==
  /\ pc \in LoadingUp => \A k \in DOMAIN stream :
       stream[k].fill # "kernel" /\ (stream[k].host # "none" => pc = "await")
  /\ pc = "forward" => \A k \in DOMAIN stream : stream[k].fill = "kernel"

\* A second name of the first weight.
AliasesAreFirst ==
  \A k \in 1..Len(arenas.weights.items) :
    LET w == arenas.weights.items[k]
        f == arenas.weights.items[1]
    IN w.alias => /\ w.offset = f.offset /\ w.rows = f.rows
                  /\ w.columns = f.columns /\ w.width = f.width

UploadedSoFar ==
  /\ pc \notin LoadingUp \cup Loaded \cup {"poisoned"} => item = 1
  /\ pc \in LoadingUp \cup Loaded =>
       /\ item \in 1..(Len(UploadList) + 1)
       /\ \A k \in 1..(item - 1) :
            ~UploadList[k].alias => RowsAreKept(BufferAt(k), UploadList[k], UploadList[k].rows)
  /\ pc \in Chunk => RowsAreKept(BufferOf, Current, first)
  /\ pc \in {"settle"} \cup Loaded => item = Len(UploadList) + 1

StagingIsChunk ==
  /\ pc \in Chunk => staging \in Seq(Range(staging))
  /\ pc \in {"copy", "await"} =>
       \A k \in 1..(Count * Current.columns * Current.width) :
         /\ k \in DOMAIN staging
         /\ staging[k] = Rows(Current.name, first, Count, Current.columns, Current.width)[k]

ChunkWillBe ==
  pc = "await" /\ ~lost =>
    \A row \in first..(first + Count - 1), column \in 0..(Current.columns - 1), byte \in 1..Current.width :
      EndsAs(BufferOf, Address(Current, row, column, byte), Cell(Current.name, row, column))

Cleared(r) == Cell(IF r.name = "kv_block_table" THEN "unmapped" ELSE "zero", 0, 0)

WillBeCleared ==
  /\ pc \in LoadingUp /\ ~lost =>
       /\ EndsAs("kv", 0, "nan")
       /\ \A k \in 1..Len(arenas.workspace.items) : LET r == arenas.workspace.items[k] IN
            r.name # "rope_coefficients" =>
              \A a \in 1..r.bytes : EndsAs("workspace", r.offset + a, Cleared(r))
  /\ pc \in Loaded =>
       /\ memory["kv"] = "nan"
       /\ \A k \in 1..Len(arenas.workspace.items) : LET r == arenas.workspace.items[k] IN
            r.name # "rope_coefficients" =>
              \A a \in 1..r.bytes : memory["workspace"][r.offset + a] = Cleared(r)

\* The place of a row's byte among the bytes of a table.
LEMMA PlaceInTable ==
  ASSUME NEW row \in Nat, NEW n \in Nat, row < n, NEW C \in Nat, NEW W \in Nat,
         NEW column \in 0..(C - 1), NEW byte \in 1..W
  PROVE  (row * C + column) * W + byte \in 1..(n * C * W)
<1>1. PICK before \in Nat : before = row * C
  BY ProductIsNatural
<1>2. PICK all \in Nat : all = n * C
  BY ProductIsNatural
<1>3. before + C <= all
  <2>1. (row + 1) * C <= n * C
    BY ProductGrows
  <2>2. (row + 1) * C = row * C + C
    OBVIOUS
  <2>3. QED
    BY <1>1, <1>2, <2>1, <2>2
<1>4. PICK p \in Nat : p = before + column
  BY <1>1
<1>5. p + 1 <= all
  BY <1>1, <1>2, <1>3, <1>4
<1>6. (p + 1) * W <= all * W
  BY <1>2, <1>4, <1>5, ProductGrows
<1>7. (p + 1) * W = p * W + W
  BY <1>4
<1>8. PICK q \in Nat : q = p * W
  BY <1>4, ProductIsNatural
<1>9. PICK size \in Nat : size = all * W
  BY <1>2, ProductIsNatural
<1>10. q + byte \in 1..size
  BY <1>6, <1>7, <1>8, <1>9
<1>11. QED
  BY <1>1, <1>2, <1>4, <1>8, <1>9, <1>10

\* From the place of a byte, its row and its column.
Nth(row, C, W, column, byte) == (row * C + column) * W + byte

LEMMA PlaceDivided ==
  ASSUME NEW row \in Nat, NEW C \in Nat \ {0}, NEW W \in Nat \ {0},
         NEW column \in 0..(C - 1), NEW byte \in 1..W, NEW k, k = Nth(row, C, W, column, byte)
  PROVE  (k - 1) \div (C * W) = row /\ ((k - 1) \div W) % C = column
<1>1. PICK p \in Nat : p = row * C + column
  <2>1. row * C \in Nat
    BY ProductIsNatural
  <2>2. QED
    BY <2>1
<1>2. k - 1 = W * p + (byte - 1)
  <2>1. p * W \in Nat /\ p * W = W * p
    BY <1>1
  <2>2. QED
    BY <1>1, <2>1 DEF Nth
<1>3. (k - 1) \div W = p
  <2>1. byte - 1 \in 0..(W - 1)
    OBVIOUS
  <2>2. (W * p + (byte - 1)) \div W = p
    BY <1>1, <2>1, DivisionIs
  <2>3. QED
    BY <1>2, <2>2
<1>4. p % C = column
  <2>1. C * row + column = p
    BY <1>1
  <2>2. QED
    BY <2>1, DivisionIs
<1>5. (k - 1) \div (C * W) = row
  <2>1. PICK d \in Nat \ {0} : d = C * W
    BY SMT
  <2>2. PICK r : r = column * W + (byte - 1)
    OBVIOUS
  <2>3. r + 1 \in 1..d
    <3>1. (0 * C + column) * W + byte \in 1..(1 * C * W)
      BY PlaceInTable
    <3>2. (0 * C + column) * W = column * W /\ 1 * C * W = C * W
      OBVIOUS
    <3>3. column * W \in Nat
      BY ProductIsNatural
    <3>4. QED
      BY <2>1, <2>2, <3>1, <3>2, <3>3
  <2>4. r \in 0..(d - 1)
    <3>1. column * W \in Nat
      BY ProductIsNatural
    <3>2. QED
      BY <2>1, <2>2, <2>3, <3>1
  <2>5. k - 1 = d * row + r
    <3>1. (row * C + column) * W = row * (C * W) + column * W
      OBVIOUS
    <3>2. row * d = d * row
      BY <2>1
    <3>3. row * d \in Nat /\ column * W \in Nat
      BY <2>1, ProductIsNatural
    <3>4. k = row * d + column * W + byte
      BY <2>1, <3>1 DEF Nth
    <3>5. QED
      BY <2>2, <3>2, <3>3, <3>4
  <2>6. (d * row + r) \div d = row
    BY <2>1, <2>4, DivisionIs
  <2>7. QED
    BY <2>1, <2>5, <2>6
<1>6. QED
  BY <1>3, <1>4, <1>5

\* The bytes of a row, counted from the first row of a chunk.
LEMMA PlaceInChunk ==
  ASSUME NEW from \in Nat, NEW row \in Nat, from <= row, NEW C \in Nat, NEW W \in Nat,
         NEW column \in Nat, NEW byte \in Nat
  PROVE  (row * C + column) * W + byte - from * C * W = ((row - from) * C + column) * W + byte
<1>1. PICK i \in Nat : row = from + i
  <2>1. row - from \in Nat /\ row = from + (row - from)
    OBVIOUS
  <2>2. QED
    BY <2>1
<1>2. (from + i) * C = from * C + i * C
  OBVIOUS
<1>3. PICK x \in Nat : x = from * C
  BY ProductIsNatural
<1>4. PICK y \in Nat : y = i * C
  BY ProductIsNatural
<1>5. (x + y + column) * W = x * W + (y + column) * W
  OBVIOUS
<1>6. PICK u, v \in Nat : u = x * W /\ v = (y + column) * W
  BY ProductIsNatural
<1>7. row - from = i
  BY <1>1
<1>8. (row * C + column) * W = u + v /\ from * C * W = u /\ ((row - from) * C + column) * W = v
  BY <1>1, <1>2, <1>3, <1>4, <1>5, <1>6, <1>7
<1>9. QED
  BY <1>6, <1>8

\* Tables whose cells are found: numbers, and as many bytes as cells.
IsTable(w) ==
  /\ w.offset \in Nat /\ w.rows \in Nat /\ w.columns \in Nat \ {0} /\ w.width \in Nat \ {0}
  /\ w.bytes = w.rows * w.columns * w.width

LEMMA CellIsInside ==
  ASSUME NEW w, IsTable(w), NEW row \in 0..(w.rows - 1), NEW column \in 0..(w.columns - 1),
         NEW byte \in 1..w.width
  PROVE  Address(w, row, column, byte) \in (w.offset + 1)..(w.offset + w.bytes)
<1>1. PICK o, n, C, W \in Nat : o = w.offset /\ n = w.rows /\ C = w.columns /\ W = w.width
  BY DEF IsTable
<1>2. row \in Nat /\ row < n /\ column \in 0..(C - 1) /\ byte \in 1..W
  BY <1>1
<1>3. PICK p : p = (row * C + column) * W + byte
  OBVIOUS
<1>4. p \in 1..(n * C * W)
  BY <1>2, <1>3, PlaceInTable
<1>5. PICK size \in Nat : size = n * C * W
  BY ProductIsNatural
<1>6. Address(w, row, column, byte) = o + p /\ w.bytes = size
  <2>1. Address(w, row, column, byte) = o + (row * C + column) * W + byte
    BY <1>1 DEF Address
  <2>2. (row * C + column) * W \in Nat
    BY <1>2
  <2>3. w.bytes = size
    BY <1>1, <1>5 DEF IsTable
  <2>4. QED
    BY <1>1, <1>2, <1>3, <2>1, <2>2, <2>3
<1>7. QED
  BY <1>1, <1>4, <1>5, <1>6

-----------------------------------------------------------------------------
(***************************************************************************)
(* What the device does to a byte.                                         *)
(***************************************************************************)
Byte(b, a) == b \in Buffers \cup {"kv"} /\ (b # "kv" => a \in 1..Len(memory[b]))

\* The first operation of a stream, and the rest.
LEMMA FirstAndRest ==
  ASSUME InFlight, stream # <<>>
  PROVE  /\ 1 \in DOMAIN stream /\ Head(stream) = stream[1]
         /\ Len(stream) \in Nat /\ DOMAIN stream = 1..Len(stream)
         /\ DOMAIN Tail(stream) = 1..(Len(stream) - 1)
         /\ \A k \in 1..(Len(stream) - 1) : Tail(stream)[k] = stream[k + 1]
<1>1. stream \in Seq(Range(stream))
  BY DEF InFlight
<1>2. Tail(stream) \in Seq(Range(stream)) /\ Len(Tail(stream)) = Len(stream) - 1
  BY <1>1, HeadTailProperties
<1>3. \A k \in 1..Len(Tail(stream)) : Tail(stream)[k] = stream[k + 1]
  BY <1>1, HeadTailProperties
<1>4. 1 \in DOMAIN stream /\ Head(stream) = stream[1]
  BY <1>1, EmptySeq, LenProperties, HeadTailProperties
<1>5. QED
  BY <1>1, <1>2, <1>3, <1>4, LenProperties

LEMMA ByteAfter ==
  ASSUME BuffersAreBytes, NEW op, op.buffer \in Buffers \cup {"kv"}, memory' = Effect(op),
         NEW b, NEW a, Byte(b, a)
  PROVE  Now(b, a)' = IF Touches(op, b, a) THEN Put(op, a) ELSE Now(b, a)
<1>1. DOMAIN memory = Buffers \cup {"kv"} /\ "kv" \notin Buffers
  BY DEF BuffersAreBytes, Buffers
<1>2. CASE op.buffer = "kv"
  <2>1. memory' = [memory EXCEPT !["kv"] = op.fill]
    BY <1>2 DEF Effect
  <2>2. memory'["kv"] = op.fill /\ \A o \in Buffers : memory'[o] = memory[o]
    BY <1>1, <2>1
  <2>3. QED
    BY <1>1, <1>2, <2>2 DEF Now, Touches, Put, Byte
<1>3. CASE op.buffer \in Buffers
  <2>1. PICK d : d = op.buffer
    OBVIOUS
  <2> DEFINE Value(x) == IF x \notin (op.offset + 1)..(op.offset + op.bytes) THEN memory[d][x]
                         ELSE IF op.host = "none" THEN Cell(op.fill, 0, 0)
                         ELSE IF x - op.offset \in DOMAIN staging THEN staging[x - op.offset]
                         ELSE Cell("junk", 0, 0)
  <2>2. d # "kv" /\ d \in Buffers
    BY <1>1, <1>3, <2>1
  <2>3. memory' = [memory EXCEPT ![d] = [x \in DOMAIN memory[d] |-> Value(x)]]
    BY <2>1, <2>2 DEF Effect
  <2>4. memory'[d] = [x \in DOMAIN memory[d] |-> Value(x)] /\ \A o \in Buffers \cup {"kv"} : o # d => memory'[o] = memory[o]
    BY <1>1, <2>2, <2>3
  <2>5. CASE b # d
    BY <1>1, <2>1, <2>2, <2>4, <2>5 DEF Now, Touches, Byte
  <2>6. CASE b = d
    <3>1. a \in DOMAIN memory[d]
      <4>1. memory[d] \in Seq(Range(memory[d])) /\ a \in 1..Len(memory[d])
        BY <2>2, <2>6 DEF BuffersAreBytes, Byte
      <4>2. QED
        BY <4>1, LenProperties
    <3>2. memory'[d][a] = Value(a)
      BY <2>4, <3>1
    <3>3. Now(b, a)' = Value(a) /\ Now(b, a) = memory[d][a]
      BY <2>2, <2>6, <3>2 DEF Now
    <3>4. Touches(op, b, a) <=> a \in (op.offset + 1)..(op.offset + op.bytes)
      BY <2>1, <2>2, <2>6 DEF Touches
    <3>5. a \in (op.offset + 1)..(op.offset + op.bytes) => Value(a) = Put(op, a)
      BY <2>1, <2>2 DEF Put
    <3>6. QED
      BY <3>3, <3>4, <3>5
  <2>7. QED
    BY <2>5, <2>6
<1>4. QED
  BY <1>2, <1>3

\* What is kept is kept while the device works ...
LEMMA KeptByDevice ==
  ASSUME BuffersAreBytes, InFlight, ExecuteCopy, pc \in LoadingUp,
         NEW b, NEW a, NEW v, Byte(b, a), Kept(b, a, v)
  PROVE  Kept(b, a, v)'
<1>1. stream # <<>> /\ stream' = Tail(stream) /\ memory' = Effect(stream[1]) /\ stream[1].buffer \in Buffers \cup {"kv"}
  BY FirstAndRest DEF ExecuteCopy, InFlight
<1>2. ~Touches(stream[1], b, a)
  BY <1>1, FirstAndRest DEF Kept, Untouched
<1>3. Now(b, a)' = v
  BY <1>1, <1>2, ByteAfter DEF Kept
<1>4. ASSUME NEW k \in DOMAIN stream' PROVE ~Touches(stream'[k], b, a)
  <2>1. k + 1 \in DOMAIN stream /\ stream'[k] = stream[k + 1]
    BY <1>1, <1>4, FirstAndRest
  <2>2. QED
    BY <2>1 DEF Kept, Untouched
<1>5. Untouched(b, a)'
  BY <1>4 DEF Untouched, Touches
<1>6. QED
  BY <1>3, <1>5 DEF Kept

\* ... and what will be is still what will be.
LEMMA EndsByDevice ==
  ASSUME BuffersAreBytes, InFlight, ExecuteCopy, NEW b, NEW a, NEW v, Byte(b, a), EndsAs(b, a, v)
  PROVE  EndsAs(b, a, v)'
<1>1. stream # <<>> /\ stream' = Tail(stream) /\ memory' = Effect(stream[1]) /\ stream[1].buffer \in Buffers \cup {"kv"}
  BY FirstAndRest DEF ExecuteCopy, InFlight
<1>2. /\ DOMAIN stream = 1..Len(stream) /\ Len(stream) \in Nat /\ DOMAIN stream' = 1..(Len(stream) - 1)
      /\ \A k \in DOMAIN stream' : k + 1 \in DOMAIN stream /\ stream'[k] = stream[k + 1]
  BY <1>1, FirstAndRest
<1>3. staging' = staging
  BY DEF ExecuteCopy, loadVars
<1>4. ASSUME NEW k \in DOMAIN stream, Touches(stream[k], b, a), Put(stream[k], a) = v,
             \A j \in DOMAIN stream : j > k => ~Touches(stream[j], b, a)
      PROVE  EndsAs(b, a, v)'
  <2>1. CASE k = 1
    <3>1. Now(b, a)' = v
      BY <1>1, <1>4, <2>1, ByteAfter
    <3>2. ASSUME NEW j \in DOMAIN stream' PROVE ~Touches(stream'[j], b, a)
      BY <1>2, <1>4, <2>1, <3>2
    <3>3. Untouched(b, a)'
      BY <3>2 DEF Untouched, Touches
    <3>4. QED
      BY <3>1, <3>3 DEF EndsAs
  <2>2. CASE k # 1
    <3>1. PICK i \in DOMAIN stream' : i + 1 = k
      <4>1. k - 1 \in DOMAIN stream' /\ (k - 1) + 1 = k
        BY <1>2, <1>4, <2>2
      <4>2. QED
        BY <4>1
    <3>2. stream'[i] = stream[k]
      BY <1>2, <3>1
    <3>3. PICK op : op = stream[k]
      OBVIOUS
    <3>4. Touches(op, b, a) /\ (Put(op, a))' = v /\ op = stream'[i]
      BY <1>3, <1>4, <3>2, <3>3 DEF Put
    <3>5. ASSUME NEW j \in DOMAIN stream', j > i PROVE ~Touches(stream'[j], b, a)
      BY <1>2, <1>4, <3>1, <3>5
    <3>6. Touches(op, b, a)' /\ (Put(stream[i], a))' = v
      BY <3>4 DEF Touches, Put
    <3>7. QED
      BY <3>1, <3>4, <3>5, <3>6 DEF EndsAs, Touches
  <2>3. QED
    BY <2>1, <2>2
<1>5. CASE Now(b, a) = v /\ Untouched(b, a)
  <2>1. ~Touches(stream[1], b, a)
    BY <1>1, <1>5, FirstAndRest DEF Untouched
  <2>2. Now(b, a)' = v
    BY <1>1, <1>5, <2>1, ByteAfter
  <2>3. ASSUME NEW j \in DOMAIN stream' PROVE ~Touches(stream'[j], b, a)
    BY <1>2, <1>5, <2>3 DEF Untouched
  <2>4. Untouched(b, a)'
    BY <2>3 DEF Untouched, Touches
  <2>5. QED
    BY <2>2, <2>4 DEF EndsAs
<1>6. QED
  BY <1>4, <1>5 DEF EndsAs

-----------------------------------------------------------------------------
(***************************************************************************)
(* What the host does to a byte: it puts one more operation in the stream, *)
(* or something else into the host buffer.                                 *)
(***************************************************************************)
LEMMA StreamAfter ==
  ASSUME InFlight, NEW op, stream' = Append(stream, op)
  PROVE  /\ Len(stream) \in Nat /\ DOMAIN stream = 1..Len(stream) /\ DOMAIN stream' = 1..(Len(stream) + 1)
         /\ \A k \in 1..Len(stream) : stream'[k] = stream[k]
         /\ stream'[Len(stream) + 1] = op
<1> DEFINE S == Range(stream) \cup {op}
<1>1. stream \in Seq(S)
  <2>1. stream \in Seq(Range(stream)) /\ Range(stream) \subseteq S
    BY DEF InFlight
  <2> HIDE DEF S
  <2>2. QED
    BY <2>1, SeqMonotonic
<1>2. op \in S
  OBVIOUS
<1> HIDE DEF S
<1>3. QED
  BY <1>1, <1>2, AppendProperties, LenProperties

LEMMA UntouchedAfter ==
  ASSUME InFlight, NEW op, stream' = Append(stream, op), NEW b, NEW a, Untouched(b, a), ~Touches(op, b, a)
  PROVE  Untouched(b, a)'
<1>1. ASSUME NEW k \in DOMAIN stream' PROVE ~Touches(stream'[k], b, a)
  <2>1. CASE k \in 1..Len(stream)
    BY <2>1, StreamAfter DEF Untouched
  <2>2. CASE k = Len(stream) + 1
    BY <2>2, StreamAfter
  <2>3. QED
    BY <2>1, <2>2, StreamAfter
<1>2. QED
  BY <1>1 DEF Untouched, Touches

LEMMA EndsAfter ==
  ASSUME InFlight, memory' = memory, staging' = staging, NEW op, stream' = Append(stream, op),
         NEW b, NEW a, NEW v, EndsAs(b, a, v), ~Touches(op, b, a)
  PROVE  EndsAs(b, a, v)'
<1>1. CASE Now(b, a) = v /\ Untouched(b, a)
  <2>1. Now(b, a)' = v
    BY <1>1 DEF Now
  <2>2. QED
    BY <1>1, <2>1, UntouchedAfter DEF EndsAs
<1>2. ASSUME NEW k \in DOMAIN stream, Touches(stream[k], b, a), Put(stream[k], a) = v,
             \A j \in DOMAIN stream : j > k => ~Touches(stream[j], b, a)
      PROVE  EndsAs(b, a, v)'
  <2>1. PICK o : o = stream[k]
    OBVIOUS
  <2>2. k \in DOMAIN stream' /\ stream'[k] = o
    BY <2>1, StreamAfter
  <2>3. Touches(o, b, a)' /\ (Put(o, a))' = v
    BY <1>2, <2>1 DEF Touches, Put
  <2>4. ASSUME NEW j \in DOMAIN stream', j > k PROVE ~Touches(stream'[j], b, a)
    <3>1. CASE j \in 1..Len(stream)
      BY <1>2, <2>4, <3>1, StreamAfter
    <3>2. CASE j = Len(stream) + 1
      BY <3>2, StreamAfter
    <3>3. QED
      BY <3>1, <3>2, StreamAfter
  <2>5. (Put(stream[k], a))' = v /\ Touches(stream[k], b, a)'
    BY <2>2, <2>3
  <2>6. QED
    BY <2>2, <2>4, <2>5 DEF EndsAs, Touches
<1>3. QED
  BY <1>1, <1>2 DEF EndsAs

\* The last operation decides.
LEMMA EndsWithLast ==
  ASSUME InFlight, NEW op, stream' = Append(stream, op), NEW b, NEW a, NEW v,
         Touches(op, b, a), Put(op, a)' = v
  PROVE  EndsAs(b, a, v)'
<1>1. PICK k : k = Len(stream) + 1
  OBVIOUS
<1>2. k \in DOMAIN stream' /\ stream'[k] = op /\ \A j \in DOMAIN stream' : ~(j > k)
  BY <1>1, StreamAfter
<1>3. (Put(stream[k], a))' = v /\ Touches(stream[k], b, a)'
  BY <1>2 DEF Touches
<1>4. QED
  BY <1>2, <1>3 DEF EndsAs

\* An operation that does not read the host buffer does not mind it.
LEMMA EndsStill ==
  ASSUME memory' = memory, stream' = stream, NEW b, NEW a, NEW v, EndsAs(b, a, v),
         staging' = staging \/ \A k \in DOMAIN stream : stream[k].host = "none"
  PROVE  EndsAs(b, a, v)'
<1>1. Now(b, a)' = Now(b, a) /\ (Untouched(b, a)' <=> Untouched(b, a))
  BY DEF Now, Untouched, Touches
<1>2. ASSUME NEW k \in DOMAIN stream
      PROVE  (Put(stream[k], a))' = Put(stream[k], a) /\ (Touches(stream[k], b, a)' <=> Touches(stream[k], b, a))
  BY <1>2 DEF Put, Touches
<1>3. QED
  BY <1>1, <1>2 DEF EndsAs

LEMMA EndsNow ==
  ASSUME stream = <<>>, NEW b, NEW a, NEW v, EndsAs(b, a, v)
  PROVE  Now(b, a) = v
<1>1. DOMAIN stream = {}
  BY EmptySeq, LenProperties
<1>2. QED
  BY <1>1 DEF EndsAs

-----------------------------------------------------------------------------
(***************************************************************************)
(* The items of the upload: tables, inside their buffers, and apart.       *)
(***************************************************************************)
ItemsAreSound == PlanIsSound /\ RegionsAreListed /\ ItemsAreMeasured /\ planned = "laid"

LEMMA ListOf ==
  ASSUME ItemsAreSound
  PROVE  /\ Len(arenas.weights.items) \in Nat /\ Len(UploadList) = Len(arenas.weights.items) + 1
         /\ \A k \in 1..Len(arenas.weights.items) : UploadList[k] = arenas.weights.items[k]
         /\ UploadList[Len(UploadList)] = RegionNamed("rope_coefficients")
<1> DEFINE items == arenas.weights.items
<1>1. PICK rope : rope = RegionNamed("rope_coefficients")
  OBVIOUS
<1>2. rope \in ItemSet
  <2>1. "rope_coefficients" \in Regions
    BY DEF Regions, Always
  <2>2. QED
    BY <1>1, <2>1, RegionIsInside DEF ItemsAreSound
<1>3. items \in Seq(ItemSet) /\ Len(items) \in Nat
  BY ItemsOf DEF Buffers, ItemsAreSound
<1>4. UploadList = Append(items, rope)
  BY <1>1 DEF UploadList
<1>5. QED
  BY <1>1, <1>2, <1>3, <1>4, AppendProperties

LEMMA ItemIsTable ==
  ASSUME ItemsAreSound, NEW b \in Buffers, NEW k \in 1..Len(arenas[b].items), NEW w, w = arenas[b].items[k],
         ~w.alias
  PROVE  IsTable(w) /\ w.offset + w.bytes <= arenas[b].bytes
<1>1. arenas[b].items \in Seq(ItemSet) /\ DOMAIN arenas[b].items = 1..Len(arenas[b].items)
  BY ItemsOf DEF ItemsAreSound
<1>2. w \in ItemSet
  BY <1>1, ElementOfSeq
<1>3. w.columns # 0 /\ w.bytes = w.rows * w.columns * w.width
  BY DEF ItemsAreSound, ItemsAreMeasured
<1>4. w.offset + w.bytes <= arenas[b].bytes
  <2>1. k \in Owned(arenas[b]) /\ ArenaIsSound(arenas[b])
    BY <1>1, ArenaOf DEF Owned, ItemsAreSound, Buffers
  <2>2. QED
    BY <2>1 DEF ArenaIsSound
<1>5. QED
  BY SMTT(60), <1>2, <1>3, <1>4 DEF IsTable, ItemSet

LEMMA ListedIsTable ==
  ASSUME ItemsAreSound, NEW k \in 1..Len(UploadList), NEW w, w = UploadList[k], ~w.alias
  PROVE  /\ BufferAt(k) \in Buffers /\ IsTable(w)
         /\ w.offset + w.bytes <= arenas[BufferAt(k)].bytes
<1>1. CASE k = Len(UploadList)
  <2>1. PICK i \in 1..Len(arenas["workspace"].items) : w = arenas["workspace"].items[i]
    <3>1. "rope_coefficients" \in Regions
      BY DEF Regions, Always
    <3>2. QED
      BY <1>1, <3>1, ListOf, RegionFound DEF ItemsAreSound
  <2>2. BufferAt(k) = "workspace" /\ "workspace" \in Buffers
    BY <1>1 DEF BufferAt, Buffers
  <2>3. QED
    BY <2>1, <2>2, ItemIsTable
<1>2. CASE k # Len(UploadList)
  <2>1. k \in 1..Len(arenas["weights"].items) /\ w = arenas["weights"].items[k]
    BY <1>2, ListOf
  <2>2. BufferAt(k) = "weights" /\ "weights" \in Buffers
    BY <1>2 DEF BufferAt, Buffers
  <2>3. QED
    BY <2>1, <2>2, ItemIsTable
<1>3. QED
  BY <1>1, <1>2

\* Whatever lies in one item lies in no other.
InItem(w, a) == a \in (w.offset + 1)..(w.offset + w.bytes)

LEMMA ItemsAreApart ==
  ASSUME ItemsAreSound, NEW b \in Buffers, NEW i \in 1..Len(arenas[b].items), NEW k \in 1..Len(arenas[b].items),
         i # k, NEW v, NEW w, v = arenas[b].items[i], w = arenas[b].items[k], ~v.alias, ~w.alias,
         NEW a, InItem(v, a)
  PROVE  ~InItem(w, a)
<1>1. arenas[b].items \in Seq(ItemSet) /\ DOMAIN arenas[b].items = 1..Len(arenas[b].items)
  BY ItemsOf DEF ItemsAreSound
<1>2. v \in ItemSet /\ w \in ItemSet
  BY <1>1, ElementOfSeq
<1>3. i \in Owned(arenas[b]) /\ k \in Owned(arenas[b]) /\ ArenaIsSound(arenas[b])
  BY <1>1, ArenaOf DEF Owned, ItemsAreSound, Buffers
<1>4. /\ i < k => v.offset + v.bytes <= w.offset
      /\ k < i => w.offset + w.bytes <= v.offset
  BY <1>3 DEF ArenaIsSound
<1>5. PICK vo, vb, wo, wb \in Nat : vo = v.offset /\ vb = v.bytes /\ wo = w.offset /\ wb = w.bytes
  BY <1>2 DEF ItemSet
<1>6. vo + vb <= wo \/ wo + wb <= vo
  BY <1>4, <1>5
<1>7. a \in (vo + 1)..(vo + vb)
  BY <1>5 DEF InItem
<1>8. a \notin (wo + 1)..(wo + wb)
  <2>1. PICK x \in Int : x = a
    BY <1>7
  <2>2. vo + 1 <= x /\ x <= vo + vb
    BY <1>5, <1>7, <2>1
  <2>3. ~(wo + 1 <= x /\ x <= wo + wb)
    <3>1. vo \in Nat /\ vb \in Nat /\ wo \in Nat /\ wb \in Nat /\ x \in Int
      BY <1>5, <2>1
    <3>2. QED
      BY <1>6, <2>2, <3>1
  <2>4. QED
    BY <1>5, <2>1, <2>3
<1>9. QED
  BY <1>5, <1>8 DEF InItem

LEMMA ListedAreApart ==
  ASSUME ItemsAreSound, NEW i \in 1..Len(UploadList), NEW k \in 1..Len(UploadList), i # k,
         NEW v, NEW w, v = UploadList[i], w = UploadList[k], ~v.alias, ~w.alias,
         BufferAt(i) = BufferAt(k), NEW a, InItem(v, a)
  PROVE  ~InItem(w, a)
<1>1. i # Len(UploadList) /\ k # Len(UploadList)
  BY DEF BufferAt
<1>2. /\ i \in 1..Len(arenas["weights"].items) /\ k \in 1..Len(arenas["weights"].items)
      /\ v = arenas["weights"].items[i] /\ w = arenas["weights"].items[k] /\ "weights" \in Buffers
  BY <1>1, ListOf DEF Buffers
<1>3. QED
  BY <1>2, ItemsAreApart

\* The table of rotations is one region, and the rest is not.
LEMMA RotationsAreApart ==
  ASSUME ItemsAreSound, NEW k \in 1..Len(arenas.workspace.items), NEW r, r = arenas.workspace.items[k],
         r.name # "rope_coefficients", NEW a, InItem(r, a), NEW rope, rope = RegionNamed("rope_coefficients")
  PROVE  ~InItem(rope, a)
<1>1. "rope_coefficients" \in Regions /\ "workspace" \in Buffers
  BY DEF Regions, Always, Buffers
<1>2. PICK j : j = RegionIndex["rope_coefficients"]
  OBVIOUS
<1>3. j \in 1..Len(arenas["workspace"].items) /\ rope = arenas["workspace"].items[j]
  BY <1>1, <1>2, RegionFound DEF ItemsAreSound
<1>4. k # j
  <2>1. arenas.workspace.items[j].name = WorkspaceShapes[j].name
    BY <1>3 DEF ItemsAreSound, RegionsAreListed
  <2>2. WorkspaceShapes[j].name = "rope_coefficients"
    BY <1>1, <1>2, NamesAndIndices DEF Meets
  <2>3. QED
    BY <2>1, <2>2
<1>5. ~r.alias /\ ~rope.alias
  BY <1>3 DEF ItemsAreSound, RegionsAreListed
<1>6. QED
  BY <1>1, <1>3, <1>4, <1>5, ItemsAreApart

-----------------------------------------------------------------------------
(***************************************************************************)
(* What is in flight while the weights are loaded, and during a forward.   *)
(***************************************************************************)
\* Clear enqueues two operations, or three.
LEMMA ClearedStream ==
  ASSUME Clear, NEW whole, NEW unmap, NEW nan, whole = Whole("workspace", "zero"),
         unmap = Operation("workspace", RegionNamed("kv_block_table").offset,
                           RegionNamed("kv_block_table").bytes, "unmapped", "none"),
         nan = Operation("kv", 0, 0, "nan", "none")
  PROVE  /\ stream'[1] = whole
         /\ m.layout = "paged"  => DOMAIN stream' = 1..3 /\ stream'[2] = unmap /\ stream'[3] = nan
         /\ m.layout # "paged" => DOMAIN stream' = 1..2 /\ stream'[2] = nan
<1> DEFINE S == {whole, unmap, nan}
<1>1. <<whole>> \in Seq(S) /\ <<unmap>> \in Seq(S) /\ <<nan>> \in Seq(S) /\ <<>> \in Seq(S)
  OBVIOUS
<1>2. /\ Len(<<whole>>) = 1 /\ Len(<<unmap>>) = 1 /\ Len(<<nan>>) = 1 /\ Len(<<>>) = 0
      /\ <<whole>>[1] = whole /\ <<unmap>>[1] = unmap /\ <<nan>>[1] = nan
  OBVIOUS
<1>3. PICK table : table = IF m.layout = "paged" THEN <<unmap>> ELSE <<>>
  OBVIOUS
<1>4. stream' = (<<whole>> \o table) \o <<nan>>
  BY <1>3 DEF Clear
<1> HIDE DEF S
<1>5. table \in Seq(S) /\ Len(table) \in 0..1
  BY <1>1, <1>2, <1>3
<1>6. PICK two : two = <<whole>> \o table
  OBVIOUS
<1>7. /\ two \in Seq(S) /\ Len(two) = 1 + Len(table)
      /\ \A i \in 1..(1 + Len(table)) : two[i] = IF i <= 1 THEN <<whole>>[i] ELSE table[i - 1]
  BY <1>1, <1>2, <1>5, <1>6, ConcatProperties
<1>8. /\ stream' \in Seq(S) /\ Len(stream') = Len(two) + 1
      /\ \A i \in 1..(Len(two) + 1) : stream'[i] = IF i <= Len(two) THEN two[i] ELSE <<nan>>[i - Len(two)]
  BY <1>1, <1>2, <1>4, <1>6, <1>7, ConcatProperties
<1>9. DOMAIN stream' = 1..(Len(two) + 1)
  BY <1>8, LenProperties
<1>10. stream'[1] = whole /\ stream'[Len(two) + 1] = nan
  BY <1>2, <1>5, <1>7, <1>8
<1>11. CASE m.layout = "paged"
  <2>1. Len(two) = 2 /\ two[2] = unmap
    BY <1>2, <1>3, <1>7, <1>11
  <2>2. QED
    BY <1>8, <1>9, <1>10, <1>11, <2>1
<1>12. CASE m.layout # "paged"
  <2>1. Len(two) = 1
    BY <1>2, <1>3, <1>7, <1>12
  <2>2. QED
    BY <1>9, <1>10, <1>12, <2>1
<1>13. QED
  BY <1>10, <1>11, <1>12

LEMMA OperationFields ==
  ASSUME NEW b, NEW offset, NEW bytes, NEW fill, NEW host, NEW more
  PROVE  /\ Operation(b, offset, bytes, fill, host).fill = fill
         /\ [Operation(b, offset, bytes, fill, host) EXCEPT !.does = more].fill = fill
BY DEF Operation

LEMMA FlightStep ==
  ASSUME StartupInv, FlightIsKnown, [Next]_vars
  PROVE  FlightIsKnown'
<1>1. InFlight
  BY DEF StartupInv, MemoryInv
<1>2. ASSUME stream' = <<>> PROVE FlightIsKnown'
  <2>1. DOMAIN stream' = {}
    BY <1>2, EmptySeq, LenProperties
  <2>2. QED
    BY <2>1 DEF FlightIsKnown
<1>3. ASSUME stream' = stream, pc' \in LoadingUp => pc \in LoadingUp \ {"await"}, pc' = "forward" => pc = "forward"
      PROVE  FlightIsKnown'
  BY <1>3 DEF FlightIsKnown
<1>4. ASSUME pc' \notin LoadingUp \cup {"forward"} PROVE FlightIsKnown'
  BY <1>4 DEF FlightIsKnown
<1>5. ASSUME stream' = stream, pc \notin Flying PROVE FlightIsKnown'
  BY <1>1, <1>2, <1>5 DEF InFlight, Flying
<1>6. CASE Acquire \/ Plan \/ BeginForward \/ Gone
  <2>1. stream' = stream
    BY <1>6 DEF Acquire, Plan, BeginForward, Gone, vars, startupVars
  <2>2. pc \notin Flying
    BY <1>6, ConstructorsHaveParts DEF Acquire, Plan, BeginForward, Gone, Constructors, Flying
  <2>3. QED
    BY <1>5, <2>1, <2>2
<1>7. CASE Check \/ Throw \/ Destroy \/ Unwind \/ Commit \/ Fail
  BY <1>4, <1>7, Order DEF Check, CheckPasses, Throw, Destroy, Unwind, Commit, Fail, LoadingUp
<1>8. CASE Clear
  <2>1. PICK whole : whole = Whole("workspace", "zero")
    OBVIOUS
  <2>2. PICK unmap : unmap = Operation("workspace", RegionNamed("kv_block_table").offset,
                                       RegionNamed("kv_block_table").bytes, "unmapped", "none")
    OBVIOUS
  <2>3. PICK nan : nan = Operation("kv", 0, 0, "nan", "none")
    OBVIOUS
  <2>4. /\ stream'[1] = whole
        /\ m.layout = "paged"  => DOMAIN stream' = 1..3 /\ stream'[2] = unmap /\ stream'[3] = nan
        /\ m.layout # "paged" => DOMAIN stream' = 1..2 /\ stream'[2] = nan
    BY <1>8, <2>1, <2>2, <2>3, ClearedStream
  <2>5. \A k \in DOMAIN stream' : stream'[k] \in {whole, unmap, nan}
    BY <2>4
  <2>6. \A op \in {whole, unmap, nan} : op.fill # "kernel" /\ op.host = "none"
    BY <2>1, <2>2, <2>3, FieldsOf, OperationFields DEF Whole
  <2>7. pc' = "upload"
    BY <1>8 DEF Clear
  <2>8. QED
    BY <2>5, <2>6, <2>7 DEF FlightIsKnown
<1>9. CASE StartItem \/ Decode
  BY <1>3, <1>9 DEF StartItem, Decode, LoadingUp
<1>10. CASE Copy
  <2>1. PICK op : op = Operation(BufferOf, Current.offset + first * Current.columns * Current.width,
                                 Count * Current.columns * Current.width, "none", "staging")
    OBVIOUS
  <2>2. stream' = Append(stream, op) /\ pc = "copy" /\ pc' = "await"
    BY <1>10, <2>1 DEF Copy
  <2>3. op.fill = "none"
    BY <2>1, OperationFields
  <2>4. ASSUME NEW k \in DOMAIN stream' PROVE stream'[k].fill # "kernel"
    <3>1. CASE k \in 1..Len(stream)
      BY <1>1, <2>2, <3>1, StreamAfter DEF FlightIsKnown, LoadingUp
    <3>2. CASE k = Len(stream) + 1
      BY <1>1, <2>2, <2>3, <3>2, StreamAfter
    <3>3. QED
      BY <1>1, <2>2, <3>1, <3>2, StreamAfter
  <2>5. QED
    BY <2>2, <2>4 DEF FlightIsKnown
<1>11. CASE Await
  BY <1>2, <1>11 DEF Await, Copied
<1>12. CASE ExecuteCopy \/ Execute
  <2>1. stream # <<>> /\ stream' = Tail(stream) /\ pc' = pc
    BY <1>12 DEF ExecuteCopy, Execute, hostVars
  <2>2. \A k \in DOMAIN stream' : k + 1 \in DOMAIN stream /\ stream'[k] = stream[k + 1]
    BY <1>1, <2>1, FirstAndRest
  <2>3. QED
    BY <2>1, <2>2 DEF FlightIsKnown
<1>13. CASE Lose
  BY <1>2, <1>13 DEF Lose
<1>14. CASE Enqueue
  <2>1. PICK op : op = [Placed(Work[step]) EXCEPT !.does = Work[step]]
    OBVIOUS
  <2>2. stream' = Append(stream, op) /\ pc = "forward" /\ pc' = "forward"
    BY <1>14, <2>1 DEF Enqueue, hostVars
  <2>3. op.fill = "kernel"
    BY <2>1, OperationFields DEF Placed
  <2>4. ASSUME NEW k \in DOMAIN stream' PROVE stream'[k].fill = "kernel"
    <3>1. CASE k \in 1..Len(stream)
      BY <1>1, <2>2, <3>1, StreamAfter DEF FlightIsKnown
    <3>2. CASE k = Len(stream) + 1
      BY <1>1, <2>2, <2>3, <3>2, StreamAfter
    <3>3. QED
      BY <1>1, <2>2, <3>1, <3>2, StreamAfter
  <2>5. QED
    BY <2>2, <2>4 DEF FlightIsKnown, LoadingUp
<1>15. CASE UNCHANGED vars
  BY <1>15 DEF vars, startupVars, hostVars, FlightIsKnown
<1>16. QED
  BY <1>6, <1>7, <1>8, <1>9, <1>10, <1>11, <1>12, <1>13, <1>14, <1>15 DEF Next, Startup, HostStep

-----------------------------------------------------------------------------
(***************************************************************************)
(* A second name has the place and the shape of the first weight.          *)
(***************************************************************************)
SameTable(w, f) == w.offset = f.offset /\ w.rows = f.rows /\ w.columns = f.columns /\ w.width = f.width

LEMMA AliasesAppended ==
  ASSUME PlanIsSound, AliasesAreFirst, NEW more \in ItemSet,
         arenas'.weights.items = Append(arenas.weights.items, more),
         more.alias => Len(arenas.weights.items) >= 1 /\ SameTable(more, arenas.weights.items[1])
  PROVE  AliasesAreFirst'
<1>1. PICK items : items = arenas.weights.items
  OBVIOUS
<1>2. PICK new : new = arenas'.weights.items
  OBVIOUS
<1>3. /\ Len(items) \in Nat /\ Len(new) = Len(items) + 1
      /\ \A k \in 1..Len(items) : new[k] = items[k]
      /\ new[Len(items) + 1] = more
  BY <1>1, <1>2, ItemsOf, AppendProperties DEF Buffers
<1>4. ASSUME NEW k \in 1..Len(new), new[k].alias PROVE SameTable(new[k], new[1])
  <2>1. CASE k \in 1..Len(items)
    <3>1. new[1] = items[1] /\ new[k] = items[k]
      BY <1>3, <2>1
    <3>2. QED
      BY <1>1, <1>4, <2>1, <3>1 DEF AliasesAreFirst, SameTable
  <2>2. CASE k = Len(items) + 1
    <3>1. Len(items) >= 1 /\ SameTable(more, items[1])
      BY <1>1, <1>3, <1>4, <2>2
    <3>2. new[1] = items[1] /\ new[k] = more
      BY <1>3, <2>2, <3>1
    <3>3. QED
      BY <3>1, <3>2
  <2>3. QED
    BY <1>3, <2>1, <2>2
<1>5. QED
  BY <1>2, <1>4 DEF AliasesAreFirst, SameTable

LEMMA AliasesStep ==
  ASSUME Started, Checked, PlanIsSound, AliasesAreFirst, [Next]_vars
  PROVE  AliasesAreFirst'
<1>1. /\ arenas.weights.items \in Seq(ItemSet) /\ Len(arenas.weights.items) \in Nat
      /\ arenas \in [weights : ArenaSet, workspace : ArenaSet]
      /\ WeightNames \in Seq(Names) /\ Len(WeightNames) \in Nat
  BY ItemsOf, WeightsAreNames, LenProperties DEF Buffers, PlanIsSound
<1>2. ASSUME arenas'.weights.items = arenas.weights.items PROVE AliasesAreFirst'
  BY <1>2 DEF AliasesAreFirst
<1>3. CASE Plan /\ PlanWeight
  <2> DEFINE k == Len(arenas.weights.items) + 1
  <2>1. CASE k > Len(WeightNames)
    BY <1>1, <1>2, <1>3, <2>1 DEF PlanWeight, Close, ArenaSet
  <2>2. CASE k <= Len(WeightNames) /\ ~Read(WeightNames[k])
    <3> DEFINE more == [Head(arenas.weights.items) EXCEPT !.name = WeightNames[k], !.alias = TRUE]
    <3>1. PlaceAlias(WeightNames[k]) /\ k \in 1..Len(WeightNames)
      BY <1>1, <1>3, <2>2 DEF PlanWeight
    <3>2. WeightNames[k] \in Names
      BY <1>1, <3>1, ElementOfSeq
    <3>3. arenas.weights.items # <<>> /\ arenas'.weights.items = Append(arenas.weights.items, more)
      BY <1>1, <3>1 DEF PlaceAlias, ArenaSet
    <3>4. PICK f \in ItemSet : f = Head(arenas.weights.items) /\ f = arenas.weights.items[1]
      BY <1>1, <3>3, HeadTailProperties
    <3>5. Len(arenas.weights.items) >= 1
      BY <1>1, <3>3, EmptySeq
    <3>6. more \in ItemSet /\ SameTable(more, f)
      BY <3>2, <3>4 DEF ItemSet, SameTable
    <3> HIDE DEF more
    <3>7. QED
      BY <3>3, <3>4, <3>5, <3>6, AliasesAppended
  <2>3. CASE k <= Len(WeightNames) /\ Read(WeightNames[k])
    <3> DEFINE more == Item(arenas["weights"], WeightShape(WeightNames[k]))
    <3>1. Place("weights", WeightShape(WeightNames[k])) /\ k \in 1..Len(WeightNames)
      BY <1>1, <1>3, <2>3 DEF PlanWeight
    <3>2. WeightShape(WeightNames[k]) \in ShapeSet
      <4>1. ModelIsSupported
        BY <1>3 DEF Plan, Checked, PastShapes, PastBounds, PastConfig, Pcs
      <4>2. QED
        BY <2>3, <3>1, <4>1, ReadNamesExist, WeightIsShape
    <3>3. arenas'.weights.items = Append(arenas.weights.items, more)
      BY <1>1, <3>1 DEF Place, With, ArenaSet
    <3>4. more \in ItemSet /\ ~more.alias
      <4>1. Offset(arenas["weights"]) \in Nat
        BY ItemsOf, AlignedUp DEF Offset, Buffers
      <4>2. BytesOf(WeightShape(WeightNames[k])) \in Nat
        BY <3>2, BytesAreNatural
      <4>3. QED
        BY <3>2, <4>1, <4>2 DEF Item, ItemSet, ShapeSet
    <3> HIDE DEF more
    <3>5. QED
      BY <3>3, <3>4, AliasesAppended
  <2>4. QED
    BY <1>1, <2>1, <2>2, <2>3
<1>4. CASE Plan /\ PlanRegion
  <2>1. arenas' = [arenas EXCEPT !["workspace"] = arenas'["workspace"]]
    BY <1>1, <1>4 DEF PlanRegion, Place, Close
  <2>2. arenas'.weights = arenas.weights
    BY <1>1, <2>1
  <2>3. QED
    BY <1>2, <2>2
<1>5. CASE ~Plan
  BY <1>2, <1>5, OthersDoNotPlan DEF planVars
<1>6. QED
  BY <1>3, <1>4, <1>5 DEF Plan

-----------------------------------------------------------------------------
(***************************************************************************)
(* The chunk at hand.                                                      *)
(***************************************************************************)
LEMMA ChunkIsSound ==
  ASSUME StartupInv, pc \in Chunk
  PROVE  /\ ItemsAreSound /\ item \in 1..Len(UploadList) /\ ~Current.alias
         /\ first \in Nat /\ first <= Current.rows /\ BufferOf = BufferAt(item)
         /\ IsTable(Current) /\ Current.width \in {2, 4} /\ BufferOf \in Buffers
         /\ Current.offset + Current.bytes <= arenas[BufferOf].bytes
         /\ \A b \in Buffers : Len(memory[b]) = arenas[b].bytes
<1>1. planned = "laid" /\ \A b \in Buffers : Len(memory[b]) = arenas[b].bytes
  BY DEF StartupInv, MemoryInv, Allocated, HasPlan, HasContext, HasWeights, HasWorkspace, Live, Loading, Chunk, Buffers
<1>2. ItemsAreSound
  BY <1>1 DEF ItemsAreSound, StartupInv
<1>3. item \in 1..Len(UploadList) /\ ~Current.alias /\ first \in Nat /\ first <= Current.rows
  BY <1>2, ListOf DEF StartupInv, UploadIsOnItsWay, ChunkIsInside, Chunk
<1>4. BufferOf = BufferAt(item)
  BY DEF BufferOf, BufferAt
<1>5. IsTable(Current) /\ BufferOf \in Buffers /\ Current.offset + Current.bytes <= arenas[BufferOf].bytes
  BY <1>2, <1>3, <1>4, ListedIsTable DEF Current
<1>6. Current.width \in {2, 4}
  BY <1>2, <1>3, CurrentIsInside DEF ItemsAreSound, ItemSet
<1>7. QED
  BY <1>1, <1>2, <1>3, <1>4, <1>5, <1>6

\* Its rows are rows of the table, and the next one starts where it ends.
LEMMA CountOf ==
  ASSUME StartupInv, pc \in Chunk
  PROVE  /\ RowsPerChunk \in Nat /\ Count \in Nat /\ first + Count <= Current.rows
         /\ \A row \in Nat : row < first + RowsPerChunk /\ row < Current.rows => row < first + Count
<1>1. ItemsAreSound /\ item \in 1..Len(UploadList) /\ ~Current.alias /\ first \in Nat /\ first <= Current.rows
  BY ChunkIsSound
<1>2. Current \in ItemSet /\ Current.columns # 0
  BY <1>1, CurrentIsInside DEF ItemsAreSound
<1>3. PICK rows \in Nat : rows = Current.rows
  BY <1>2 DEF ItemSet
<1>4. PICK n \in Nat : n = RowsPerChunk
  BY <1>2, ChunkOf
<1>5. PICK count : count = Count
  OBVIOUS
<1>6. PICK rest \in Nat : rest = rows - first
  BY <1>1, <1>3
<1>7. count = Min({n, rest})
  BY <1>3, <1>4, <1>5, <1>6 DEF Count
<1>8. Min({n, rest}) \in {n, rest} /\ Min({n, rest}) <= rest /\ Min({n, rest}) <= n
  <2>1. n \in Int /\ rest \in Int
    OBVIOUS
  <2>2. QED
    BY Zenon, <2>1, MinOfTwo
<1>9. count \in Nat /\ count <= rest
  BY <1>7, <1>8
<1>10. ASSUME NEW row \in Nat, row < first + n, row < rows PROVE row < first + count
  <2>1. CASE count = n
    BY <1>10, <2>1
  <2>2. CASE count = rest
    BY <1>1, <1>6, <1>10, <2>2
  <2>3. QED
    BY <1>7, <1>8, <2>1, <2>2
<1>11. first + count <= rows
  BY <1>1, <1>3, <1>6, <1>9
<1>12. QED
  BY <1>3, <1>4, <1>5, <1>9, <1>10, <1>11

LEMMA BytesOfRows ==
  ASSUME NEW name, NEW from, NEW n \in Nat, NEW columns \in Nat, NEW width \in Nat
  PROVE  /\ n * columns * width \in Nat
         /\ Rows(name, from, n, columns, width) \in Seq(Range(Rows(name, from, n, columns, width)))
         /\ Len(Rows(name, from, n, columns, width)) = n * columns * width
<1>1. PICK size \in Nat : size = n * columns * width
  BY ProductIsNatural
<1>2. PICK s : s = Rows(name, from, n, columns, width)
  OBVIOUS
<1>3. s = [k \in 1..size |-> s[k]]
  BY <1>1, <1>2 DEF Rows
<1>4. s \in [1..size -> Range(s)]
  BY <1>3 DEF Range
<1>5. s \in Seq(Range(s)) /\ Len(s) = size
  BY <1>1, <1>4, BytesAreSeq
<1>6. QED
  BY <1>1, <1>2, <1>5

\* What is decoded comes first in the host buffer.
LEMMA FrontOf ==
  ASSUME NEW new, new \in Seq(Range(new)), NEW old, old \in Seq(Range(old)), NEW s,
         s = new \o SubSeq(old, Len(new) + 1, Len(old))
  PROVE  /\ s \in Seq(Range(s))
         /\ \A k \in 1..Len(new) : k \in DOMAIN s /\ s[k] = new[k]
<1> DEFINE S == Range(new) \cup Range(old)
<1>1. new \in Seq(S) /\ old \in Seq(S)
  <2>1. Range(new) \subseteq S /\ Range(old) \subseteq S
    OBVIOUS
  <2> HIDE DEF S
  <2>2. QED
    BY <2>1, SeqMonotonic
<1> HIDE DEF S
<1>2. PICK rest : rest = SubSeq(old, Len(new) + 1, Len(old))
  OBVIOUS
<1>3. Len(new) \in Nat /\ Len(old) \in Nat
  BY <1>1, LenProperties
<1>4. rest \in Seq(S)
  <2>1. \A i \in (Len(new) + 1)..Len(old) : i \in 1..Len(old)
    BY <1>3
  <2>2. QED
    BY <1>1, <1>2, <1>3, <2>1, SubSeqProperties
<1>5. /\ s \in Seq(S) /\ Len(s) = Len(new) + Len(rest)
      /\ \A k \in 1..(Len(new) + Len(rest)) : s[k] = IF k <= Len(new) THEN new[k] ELSE rest[k - Len(new)]
  BY <1>1, <1>2, <1>4, ConcatProperties
<1>6. Len(rest) \in Nat /\ DOMAIN s = 1..Len(s)
  BY <1>4, <1>5, LenProperties
<1>7. s \in Seq(Range(s))
  BY <1>5, OwnRange
<1>8. QED
  BY <1>3, <1>5, <1>6, <1>7

SameChunk == arenas' = arenas /\ item' = item /\ first' = first

LEMMA ChunkKept ==
  ASSUME SameChunk
  PROVE  /\ UploadList' = UploadList /\ Current' = Current /\ Count' = Count /\ BufferOf' = BufferOf
         /\ Rows(Current.name, first, Count, Current.columns, Current.width)' =
              Rows(Current.name, first, Count, Current.columns, Current.width)
<1>1. UploadList' = UploadList
  BY DEF UploadList, RegionNamed, SameChunk
<1>2. Current' = Current /\ BufferOf' = BufferOf
  BY <1>1 DEF Current, BufferOf, SameChunk
<1>3. RowsPerChunk' = RowsPerChunk
  BY <1>2 DEF RowsPerChunk, RowStaging
<1>4. Count' = Count
  BY <1>2, <1>3 DEF Count, SameChunk
<1>5. QED
  BY <1>1, <1>2, <1>4 DEF Rows, SameChunk, Cell

LEMMA StagingStep ==
  ASSUME StartupInv, StagingIsChunk, [Next]_vars
  PROVE  StagingIsChunk'
<1>1. ASSUME pc' \notin Chunk PROVE StagingIsChunk'
  BY <1>1 DEF StagingIsChunk, Chunk
<1>2. ASSUME pc' = pc \/ (pc = "copy" /\ pc' = "await"), staging' = staging, SameChunk PROVE StagingIsChunk'
  BY <1>2, ChunkKept DEF StagingIsChunk, Chunk
<1>3. ASSUME staging' \in Seq(Range(staging')), pc' = "decode" PROVE StagingIsChunk'
  BY <1>3 DEF StagingIsChunk
<1>4. CASE Acquire \/ Check \/ Plan \/ Clear
  BY <1>1, <1>4, Order, ConstructorsHaveParts DEF Acquire, Check, CheckPasses, Plan, Clear, Constructors, Chunk
<1>5. CASE Throw \/ Destroy \/ Unwind \/ BeginForward \/ Enqueue \/ Commit \/ Fail
  BY <1>1, <1>5 DEF Throw, Destroy, Unwind, BeginForward, Enqueue, Commit, Fail, hostVars, Chunk
<1>6. CASE ExecuteCopy \/ Execute \/ Lose \/ Gone \/ UNCHANGED vars
  BY <1>2, <1>6 DEF ExecuteCopy, Execute, Lose, Gone, vars, startupVars, hostVars, loadVars, planVars, SameChunk
<1>7. CASE StartItem
  <2>1. pc = "upload" /\ pc' \in {"upload", "settle", "decode"} /\ arenas' = arenas
    BY <1>7 DEF StartItem, planVars
  <2>2. CASE pc' # "decode"
    BY <1>1, <2>1, <2>2 DEF Chunk
  <2>3. CASE pc' = "decode"
    <3>1. ~(item > Len(UploadList)) /\ ~Current.alias
          /\ staging' = Rows("zero", 0, RowsPerChunk, Current.columns, Current.width)
      BY <1>7, <2>3 DEF StartItem
    <3>2. planned = "laid"
      BY <2>1 DEF StartupInv, MemoryInv, Allocated, HasPlan, HasContext, HasWeights, HasWorkspace, Live, Loading
    <3>3. ItemsAreSound
      BY <3>2 DEF ItemsAreSound, StartupInv
    <3>4. item \in 1..Len(UploadList)
      BY <3>1, <3>3, ListOf DEF StartupInv, UploadIsOnItsWay
    <3>5. Current \in ItemSet /\ Current.columns # 0
      BY <3>1, <3>3, <3>4, CurrentIsInside DEF ItemsAreSound
    <3>6. RowsPerChunk \in Nat /\ Current.columns \in Nat /\ Current.width \in Nat
      BY <3>5, ChunkOf DEF ItemSet
    <3>7. QED
      BY <1>3, <2>3, <3>1, <3>6, BytesOfRows
  <2>4. QED
    BY <2>2, <2>3
<1>8. CASE Decode
  <2>1. PICK new : new = Rows(Current.name, first, Count, Current.columns, Current.width)
    OBVIOUS
  <2>2. /\ pc = "decode" /\ pc' = "copy" /\ SameChunk
        /\ staging' = new \o SubSeq(staging, Len(new) + 1, Len(staging))
    BY <1>8, <2>1 DEF Decode, planVars, SameChunk
  <2>3. PICK n, columns, width \in Nat : n = Count /\ columns = Current.columns /\ width = Current.width
    BY <2>2, ChunkIsSound, CountOf DEF Chunk, IsTable
  <2>4. new \in Seq(Range(new)) /\ Len(new) = n * columns * width
    BY SMTT(60), <2>1, <2>3, BytesOfRows
  <2>5. staging \in Seq(Range(staging))
    BY <2>2 DEF StagingIsChunk, Chunk
  <2>6. /\ staging' \in Seq(Range(staging'))
        /\ \A k \in 1..(n * columns * width) : k \in DOMAIN staging' /\ staging'[k] = new[k]
    <3>1. PICK old, s : old = staging /\ s = staging'
      OBVIOUS
    <3>2. /\ s \in Seq(Range(s))
          /\ \A k \in 1..Len(new) : k \in DOMAIN s /\ s[k] = new[k]
      BY <2>2, <2>4, <2>5, <3>1, FrontOf
    <3>3. QED
      BY ONLY <2>4, <3>1, <3>2
  <2>7. /\ Count' = n /\ Current'.columns = columns /\ Current'.width = width
        /\ Rows(Current.name, first, Count, Current.columns, Current.width)' = new
    BY <2>1, <2>2, <2>3, ChunkKept
  <2>8. QED
    BY <2>2, <2>6, <2>7 DEF StagingIsChunk, Chunk
<1>9. CASE Copy
  BY <1>2, <1>9 DEF Copy, loadVars, planVars, SameChunk
<1>10. CASE Await
  <2>1. pc = "await" /\ staging' = staging /\ pc' \in {"decode", "upload"}
    BY <1>10 DEF Await
  <2>2. staging \in Seq(Range(staging))
    BY <2>1 DEF StagingIsChunk, Chunk
  <2>3. CASE pc' = "decode"
    BY <1>3, <2>1, <2>2, <2>3
  <2>4. CASE pc' = "upload"
    BY <1>1, <2>4 DEF Chunk
  <2>5. QED
    BY <2>1, <2>3, <2>4
<1>11. QED
  BY <1>4, <1>5, <1>6, <1>7, <1>8, <1>9, <1>10 DEF Next, Startup, HostStep

-----------------------------------------------------------------------------
(***************************************************************************)
(* The copy of a chunk writes its rows, and nothing else.                  *)
(***************************************************************************)
ChunkCopy == Operation(BufferOf, Current.offset + first * Current.columns * Current.width,
                       Count * Current.columns * Current.width, "none", "staging")

LEMMA CopyPutsChunk ==
  ASSUME StartupInv, StagingIsChunk, pc \in {"copy", "await"},
         NEW row \in first..(first + Count - 1), NEW column \in 0..(Current.columns - 1),
         NEW byte \in 1..Current.width, NEW a, a = Address(Current, row, column, byte)
  PROVE  Touches(ChunkCopy, BufferOf, a) /\ Put(ChunkCopy, a) = Cell(Current.name, row, column)
<1>1. PICK f, n, o, C, W \in Nat : /\ f = first /\ n = Count /\ o = Current.offset
                                   /\ C = Current.columns /\ W = Current.width
  BY ChunkIsSound, CountOf DEF Chunk, IsTable
<1>2. C \in Nat \ {0} /\ W \in Nat \ {0} /\ BufferOf # "kv"
  BY <1>1, ChunkIsSound DEF Chunk, IsTable, Buffers
<1>3. row \in Nat /\ f <= row /\ row < f + n /\ column \in 0..(C - 1) /\ byte \in 1..W
  BY <1>1
<1>4. PICK i \in Nat : i = row - f
  BY <1>1, <1>3
<1>5. i < n /\ row = f + i
  BY <1>1, <1>3, <1>4
<1>6. PICK k : k = (i * C + column) * W + byte
  OBVIOUS
<1>7. k \in 1..(n * C * W)
  BY <1>3, <1>5, <1>6, PlaceInTable
<1>8. PICK start \in Nat : start = f * C * W
  BY ProductIsNatural
<1>9. PICK p \in Nat : p = (row * C + column) * W + byte
  BY <1>3
<1>10. a = o + p /\ p - start = k
  <2>1. (row * C + column) * W + byte - f * C * W = ((row - f) * C + column) * W + byte
    BY <1>1, <1>3, PlaceInChunk
  <2>2. p - start = k
    BY <1>4, <1>6, <1>8, <1>9, <2>1
  <2>3. (row * C + column) * W \in Nat
    BY <1>3
  <2>4. a = o + (row * C + column) * W + byte
    BY <1>1 DEF Address
  <2>5. QED
    BY <1>3, <1>9, <2>2, <2>3, <2>4
<1>11. PICK size \in Nat : size = n * C * W
  BY ProductIsNatural
<1>12. PICK from : from = o + start
  OBVIOUS
<1>13. a \in (from + 1)..(from + size) /\ a - from = k
  BY <1>1, <1>7, <1>8, <1>9, <1>10, <1>11, <1>12
<1>14. /\ ChunkCopy.buffer = BufferOf /\ ChunkCopy.offset = from /\ ChunkCopy.bytes = size
       /\ ChunkCopy.host = "staging"
  BY <1>1, <1>8, <1>11, <1>12, FieldsOf DEF ChunkCopy
<1>15. Touches(ChunkCopy, BufferOf, a)
  BY <1>13, <1>14 DEF Touches
<1>16. k \in DOMAIN staging /\ staging[k] = Rows(Current.name, f, n, C, W)[k]
  BY <1>1, <1>7 DEF StagingIsChunk
<1>17. Rows(Current.name, f, n, C, W)[k] = Cell(Current.name, f + i, column)
  <2>1. i \in Nat /\ C \in Nat \ {0} /\ W \in Nat \ {0}
    BY <1>2, <1>4
  <2>2. column \in 0..(C - 1) /\ byte \in 1..W
    BY <1>3
  <2>3. k = Nth(i, C, W, column, byte)
    BY <1>6 DEF Nth
  <2>4. (k - 1) \div (C * W) = i /\ ((k - 1) \div W) % C = column
    BY <2>1, <2>2, <2>3, PlaceDivided
  <2>5. QED
    BY <1>7, <2>4 DEF Rows
<1>18. Put(ChunkCopy, a) = staging[k]
  BY <1>2, <1>13, <1>14, <1>16 DEF Put
<1>19. QED
  BY <1>5, <1>15, <1>16, <1>17, <1>18

LEMMA CopyStaysInside ==
  ASSUME StartupInv, pc \in Chunk, NEW b, NEW a, Touches(ChunkCopy, b, a)
  PROVE  /\ b = BufferOf /\ InItem(Current, a)
         /\ \A row \in 0..(first - 1), column \in 0..(Current.columns - 1), byte \in 1..Current.width :
              a # Address(Current, row, column, byte)
<1>1. PICK f, n, o, r, C, W \in Nat : /\ f = first /\ n = Count /\ o = Current.offset /\ r = Current.rows
                                      /\ C = Current.columns /\ W = Current.width
  BY ChunkIsSound, CountOf DEF Chunk, IsTable
<1>2. f + n <= r /\ Current.bytes = r * C * W /\ BufferOf # "kv"
  BY <1>1, ChunkIsSound, CountOf DEF IsTable, Buffers
<1>3. PICK start, size, all \in Nat : start = f * C * W /\ size = n * C * W /\ all = r * C * W
  BY ProductIsNatural
<1>4. PICK from : from = o + start
  OBVIOUS
<1>5. ChunkCopy.buffer = BufferOf /\ ChunkCopy.offset = from /\ ChunkCopy.bytes = size
  BY <1>1, <1>3, <1>4, FieldsOf DEF ChunkCopy
<1>6. b = BufferOf /\ a \in (from + 1)..(from + size)
  BY <1>2, <1>5 DEF Touches
<1>7. (o + start) + size <= o + all
  <2>1. PICK end \in Nat : end = o + all
    BY <1>1, <1>3
  <2>2. o + r * C * W <= end
    BY <1>3, <2>1
  <2>3. (o + f * C * W) + n * C * W <= end
    BY <1>2, <2>2, RowsInTable
  <2>4. QED
    BY <1>3, <2>1, <2>3
<1>8. InItem(Current, a)
  <2>1. PICK x \in Int : x = a
    BY <1>6
  <2>2. from \in Nat /\ from + 1 <= x /\ x <= from + size
    BY <1>1, <1>3, <1>4, <1>6, <2>1
  <2>3. o + 1 <= x /\ x <= o + all
    BY <1>1, <1>3, <1>4, <1>7, <2>2
  <2>4. QED
    BY <1>1, <1>2, <1>3, <2>1, <2>3 DEF InItem
<1>9. ASSUME NEW row \in 0..(first - 1), NEW column \in 0..(Current.columns - 1), NEW byte \in 1..Current.width
      PROVE  a # Address(Current, row, column, byte)
  <2>1. row \in Nat /\ row < f /\ column \in 0..(C - 1) /\ byte \in 1..W
    BY <1>1
  <2>2. PICK p : p = (row * C + column) * W + byte
    OBVIOUS
  <2>3. p \in 1..start
    BY <1>3, <2>1, <2>2, PlaceInTable
  <2>4. Address(Current, row, column, byte) = o + p
    <3>1. Address(Current, row, column, byte) = o + (row * C + column) * W + byte
      BY <1>1 DEF Address
    <3>2. (row * C + column) * W \in Nat
      BY <2>1
    <3>3. QED
      BY <2>1, <2>2, <3>1, <3>2
  <2>5. QED
    BY <1>1, <1>3, <1>4, <1>6, <2>3, <2>4
<1>10. QED
  BY <1>6, <1>8, <1>9

\* The bytes of an item are bytes of its buffer.
LEMMA InItemIsByte ==
  ASSUME StartupInv, NEW b \in Buffers, Len(memory[b]) = arenas[b].bytes, NEW w, IsTable(w),
         w.offset + w.bytes <= arenas[b].bytes, NEW a, InItem(w, a)
  PROVE  Byte(b, a)
<1>1. arenas[b].bytes \in Nat
  BY ItemsOf DEF StartupInv
<1>2. PICK o, n, e \in Nat : o = w.offset /\ n = w.bytes /\ e = arenas[b].bytes
  <2>1. w.bytes \in Nat
    BY ProductIsNatural DEF IsTable
  <2>2. QED
    BY <1>1, <2>1 DEF IsTable
<1>3. a \in (o + 1)..(o + n) /\ o + n <= e
  BY <1>2 DEF InItem
<1>4. a \in 1..e
  BY <1>2, <1>3
<1>5. QED
  BY <1>2, <1>4 DEF Byte

\* Nothing but a forward's operations in a forward, and none before.
LEMMA DeviceWorks ==
  ASSUME StartupInv, FlightIsKnown
  PROVE  /\ pc \in LoadingUp => ~Execute
         /\ pc \in Loaded => ~ExecuteCopy
<1>1. InFlight
  BY DEF StartupInv, MemoryInv
<1>2. stream # <<>> => 1 \in DOMAIN stream /\ Head(stream) = stream[1]
  BY <1>1, FirstAndRest
<1>3. pc \in Loaded /\ stream # <<>> => pc = "forward"
  BY <1>1 DEF InFlight, Loaded
<1>4. QED
  BY <1>2, <1>3 DEF FlightIsKnown, Execute, ExecuteCopy

LEMMA ChunkWillBeStep ==
  ASSUME StartupInv, FlightIsKnown, StagingIsChunk, ChunkWillBe, [Next]_vars
  PROVE  ChunkWillBe'
<1>1. InFlight /\ BuffersAreBytes
  BY DEF StartupInv, MemoryInv
<1>2. ASSUME pc' # "await" \/ lost' PROVE ChunkWillBe'
  BY <1>2 DEF ChunkWillBe
<1>3. ASSUME SameChunk, pc \in {"copy", "await"},
             \A row \in first..(first + Count - 1), column \in 0..(Current.columns - 1), byte \in 1..Current.width :
               EndsAs(BufferOf, Address(Current, row, column, byte), Cell(Current.name, row, column))'
      PROVE  ChunkWillBe'
  <2>1. first' = first /\ Count' = Count /\ Current' = Current
    BY <1>3, ChunkKept DEF SameChunk
  <2>2. ASSUME NEW row \in first'..(first' + Count' - 1), NEW column \in 0..(Current'.columns - 1),
               NEW byte \in 1..Current'.width
        PROVE  EndsAs(BufferOf, Address(Current, row, column, byte), Cell(Current.name, row, column))'
    BY <1>3, <2>1, <2>2
  <2>3. QED
    BY Zenon, <2>2 DEF ChunkWillBe
<1>4. CASE Copy
  <2>1. pc = "copy" /\ pc' = "await" /\ SameChunk /\ staging' = staging /\ stream' = Append(stream, ChunkCopy)
    BY <1>4 DEF Copy, loadVars, planVars, SameChunk, ChunkCopy
  <2>2. ASSUME NEW row \in first..(first + Count - 1), NEW column \in 0..(Current.columns - 1),
               NEW byte \in 1..Current.width
        PROVE  EndsAs(BufferOf, Address(Current, row, column, byte), Cell(Current.name, row, column))'
    <3>1. PICK a, b, v : a = Address(Current, row, column, byte) /\ b = BufferOf /\ v = Cell(Current.name, row, column)
      OBVIOUS
    <3>2. PICK op : op = ChunkCopy
      OBVIOUS
    <3>3. Touches(op, b, a) /\ Put(op, a) = v
      BY <2>1, <3>1, <3>2, CopyPutsChunk
    <3>4. Put(op, a)' = v
      BY <2>1, <3>3 DEF Put
    <3>5. EndsAs(b, a, v)'
      BY <1>1, <2>1, <3>2, <3>3, <3>4, EndsWithLast
    <3>6. a = Address(Current, row, column, byte)' /\ b = BufferOf' /\ v = Cell(Current.name, row, column)'
      BY <2>1, <3>1, ChunkKept DEF Address, Cell
    <3>7. QED
      BY <3>5, <3>6
  <2>3. QED
    BY <1>3, <2>1, <2>2
<1>5. ASSUME pc = "await", pc' = "await", ~lost, SameChunk,
             \A b, a, v : Byte(b, a) /\ EndsAs(b, a, v) => EndsAs(b, a, v)'
      PROVE  ChunkWillBe'
  <2>1. ASSUME NEW row \in first..(first + Count - 1), NEW column \in 0..(Current.columns - 1),
               NEW byte \in 1..Current.width
        PROVE  EndsAs(BufferOf, Address(Current, row, column, byte), Cell(Current.name, row, column))'
    <3>1. PICK a, b, v : a = Address(Current, row, column, byte) /\ b = BufferOf /\ v = Cell(Current.name, row, column)
      OBVIOUS
    <3>2. EndsAs(b, a, v)
      BY <1>5, <3>1 DEF ChunkWillBe
    <3>3. IsTable(Current) /\ b \in Buffers /\ Current.offset + Current.bytes <= arenas[b].bytes
          /\ Len(memory[b]) = arenas[b].bytes
      BY <1>5, <3>1, ChunkIsSound DEF Chunk
    <3>4. row \in 0..(Current.rows - 1)
      BY <1>5, <3>3, ChunkIsSound, CountOf DEF Chunk, IsTable
    <3>5. InItem(Current, a)
      BY <3>1, <3>3, <3>4, CellIsInside DEF InItem
    <3>6. Byte(b, a)
      BY <3>3, <3>5, InItemIsByte
    <3>7. EndsAs(b, a, v)'
      BY <1>5, <3>2, <3>6
    <3>8. a = Address(Current, row, column, byte)' /\ b = BufferOf' /\ v = Cell(Current.name, row, column)'
      BY <1>5, <3>1, ChunkKept DEF Address, Cell
    <3>9. QED
      BY <3>7, <3>8
  <2>2. QED
    BY <1>3, <1>5, <2>1
<1>6. CASE ExecuteCopy
  <2>1. pc' = pc /\ lost' = lost /\ SameChunk
    BY <1>6 DEF ExecuteCopy, hostVars, loadVars, planVars, SameChunk
  <2>2. \A b, a, v : Byte(b, a) /\ EndsAs(b, a, v) => EndsAs(b, a, v)'
    BY <1>1, <1>6, EndsByDevice
  <2>3. QED
    BY <1>2, <1>5, <2>1, <2>2
<1>7. CASE Gone \/ UNCHANGED vars
  <2>1. /\ pc' = pc /\ lost' = lost /\ SameChunk /\ memory' = memory /\ stream' = stream /\ staging' = staging
    BY <1>7 DEF Gone, vars, startupVars, hostVars, loadVars, planVars, SameChunk
  <2>2. \A b, a, v : EndsAs(b, a, v) => EndsAs(b, a, v)'
    BY <2>1, EndsStill
  <2>3. QED
    BY <1>2, <1>5, <2>1, <2>2
<1>8. CASE Lose
  BY <1>2, <1>8 DEF Lose
<1>9. CASE Execute
  <2>1. pc' = pc
    BY <1>9 DEF Execute, hostVars
  <2>2. pc # "await"
    BY <1>9, DeviceWorks DEF LoadingUp
  <2>3. QED
    BY <1>2, <2>1, <2>2
<1>10. CASE Acquire \/ Check \/ Plan \/ Clear \/ StartItem \/ Decode \/ Await
  BY <1>2, <1>10, Order, ConstructorsHaveParts
  DEF Acquire, Check, CheckPasses, Plan, Clear, StartItem, Decode, Await, Constructors
<1>11. CASE Throw \/ Destroy \/ Unwind \/ BeginForward \/ Enqueue \/ Commit \/ Fail
  BY <1>2, <1>11 DEF Throw, Destroy, Unwind, BeginForward, Enqueue, Commit, Fail, hostVars
<1>12. QED
  BY <1>4, <1>6, <1>7, <1>8, <1>9, <1>10, <1>11 DEF Next, Startup, HostStep

-----------------------------------------------------------------------------
(***************************************************************************)
(* What has been uploaded stays.                                           *)
(***************************************************************************)
LEMMA LoadedIsSound ==
  ASSUME StartupInv, pc \in LoadingUp \cup Loaded
  PROVE  ItemsAreSound /\ \A b \in Buffers : Len(memory[b]) = arenas[b].bytes
<1>1. planned = "laid" /\ \A b \in Buffers : Len(memory[b]) = arenas[b].bytes
  BY DEF StartupInv, MemoryInv, Allocated, HasPlan, HasContext, HasWeights, HasWorkspace, Live, Loading,
         LoadingUp, Loaded, Buffers
<1>2. QED
  BY <1>1 DEF ItemsAreSound, StartupInv

\* Rows are kept whose bytes are.
LEMMA KeptRowsStay ==
  ASSUME StartupInv, pc \in LoadingUp \cup Loaded, NEW k \in 1..Len(UploadList), NEW w, w = UploadList[k], ~w.alias,
         NEW b, b = BufferAt(k), NEW n \in Nat, n <= w.rows, RowsAreKept(b, w, n),
         \A row \in 0..(n - 1), column \in 0..(w.columns - 1), byte \in 1..w.width : \A a, v :
           /\ a = Address(w, row, column, byte) /\ InItem(w, a) /\ Byte(b, a) /\ Kept(b, a, v)
           => Kept(b, a, v)'
  PROVE  RowsAreKept(b, w, n)'
<1>1. ItemsAreSound /\ \A o \in Buffers : Len(memory[o]) = arenas[o].bytes
  BY LoadedIsSound
<1>2. b \in Buffers /\ IsTable(w) /\ w.offset + w.bytes <= arenas[b].bytes
  BY <1>1, ListedIsTable
<1>3. ASSUME NEW row \in 0..(n - 1), NEW column \in 0..(w.columns - 1), NEW byte \in 1..w.width
      PROVE  Kept(b, Address(w, row, column, byte), Cell(w.name, row, column))'
  <2>1. PICK a : a = Address(w, row, column, byte)
    OBVIOUS
  <2>2. PICK v : v = Cell(w.name, row, column)
    OBVIOUS
  <2>3. Kept(b, a, v)
    BY <2>1, <2>2 DEF RowsAreKept
  <2>4. row \in 0..(w.rows - 1)
    BY <1>2 DEF IsTable
  <2>5. InItem(w, a)
    BY <1>2, <2>1, <2>4, CellIsInside DEF InItem
  <2>6. Byte(b, a)
    BY <1>1, <1>2, <2>5, InItemIsByte
  <2>7. Kept(b, a, v)'
    BY <2>1, <2>3, <2>5, <2>6
  <2>8. a = Address(w, row, column, byte)' /\ v = Cell(w.name, row, column)'
    BY <2>1, <2>2 DEF Address, Cell
  <2>9. QED
    BY <2>7, <2>8
<1>4. QED
  BY <1>3 DEF RowsAreKept

\* Nothing is written, and nothing more will be.
NothingMore == memory' = memory /\ (pc' \in LoadingUp => pc \in LoadingUp /\ stream' \in {stream, <<>>})

LEMMA KeptInQuiet ==
  ASSUME NothingMore, NEW b, NEW a, NEW v, Kept(b, a, v)
  PROVE  Kept(b, a, v)'
<1>1. Now(b, a)' = v
  BY DEF Kept, Now, NothingMore
<1>2. ASSUME pc' \in LoadingUp PROVE Untouched(b, a)'
  <2>1. CASE stream' = stream
    BY <1>2, <2>1 DEF NothingMore, Kept, Untouched, Touches
  <2>2. CASE stream' = <<>>
    <3>1. DOMAIN stream' = {}
      BY <2>2, EmptySeq, LenProperties
    <3>2. QED
      BY <3>1 DEF Untouched
  <2>3. QED
    BY <1>2, <2>1, <2>2 DEF NothingMore
<1>3. QED
  BY <1>1, <1>2 DEF Kept

\* What is kept of the items before this one, and of the rows before this chunk.
LEMMA UploadedStays ==
  ASSUME StartupInv, UploadedSoFar, pc \in LoadingUp \cup Loaded, arenas' = arenas, [Next]_vars,
         NothingMore \/ (ExecuteCopy /\ pc \in LoadingUp) \/ Copy
  PROVE  /\ \A k \in 1..(item - 1) : \A w :
              w = UploadList[k] /\ ~w.alias => RowsAreKept(BufferAt(k), w, w.rows)'
         /\ pc \in Chunk => \A w, n, b : w = Current /\ n = first /\ b = BufferOf => RowsAreKept(b, w, n)'
<1>1. InFlight /\ BuffersAreBytes
  BY DEF StartupInv, MemoryInv
<1>2. ItemsAreSound /\ Len(UploadList) \in Nat /\ item \in 1..(Len(UploadList) + 1)
  BY LoadedIsSound, ListOf DEF UploadedSoFar
<1>3. CASE NothingMore \/ (ExecuteCopy /\ pc \in LoadingUp)
  <2>1. \A b, a, v : Byte(b, a) /\ Kept(b, a, v) => Kept(b, a, v)'
    BY <1>1, <1>3, KeptInQuiet, KeptByDevice
  <2>2. ASSUME NEW k \in 1..(item - 1), NEW w, w = UploadList[k], ~w.alias
        PROVE  RowsAreKept(BufferAt(k), w, w.rows)'
    <3>1. PICK b, n : b = BufferAt(k) /\ n = w.rows
      OBVIOUS
    <3>2. k \in 1..Len(UploadList) /\ RowsAreKept(b, w, n)
      BY <1>2, <2>2, <3>1 DEF UploadedSoFar
    <3>3. n \in Nat /\ n <= w.rows
      BY <1>2, <2>2, <3>1, <3>2, ListedIsTable DEF IsTable
    <3>4. RowsAreKept(b, w, n)'
      BY <2>1, <2>2, <3>1, <3>2, <3>3, KeptRowsStay
    <3>5. b = BufferAt(k)'
      BY <3>1 DEF BufferAt, UploadList, RegionNamed
    <3>6. QED
      BY <3>1, <3>4, <3>5
  <2>3. ASSUME pc \in Chunk, NEW w, NEW n, NEW b, w = Current, n = first, b = BufferOf
        PROVE  RowsAreKept(b, w, n)'
    <3>1. item \in 1..Len(UploadList) /\ ~w.alias /\ n \in Nat /\ n <= w.rows /\ b = BufferAt(item)
      BY <2>3, ChunkIsSound
    <3>2. w = UploadList[item] /\ RowsAreKept(b, w, n)
      BY <2>3 DEF Current, UploadedSoFar
    <3>3. QED
      BY <2>1, <3>1, <3>2, KeptRowsStay
  <2>4. QED
    BY <2>2, <2>3
<1>4. CASE Copy
  <2>1. /\ pc = "copy" /\ pc' = "await" /\ memory' = memory /\ stream' = Append(stream, ChunkCopy)
        /\ pc \in Chunk /\ pc \in LoadingUp
    BY <1>4 DEF Copy, ChunkCopy, Chunk, LoadingUp
  <2>2. PICK op : op = ChunkCopy
    OBVIOUS
  <2>3. ASSUME NEW b, NEW a, NEW v, Kept(b, a, v), ~Touches(ChunkCopy, b, a) PROVE Kept(b, a, v)'
    <3>1. Untouched(b, a) /\ Now(b, a)' = v
      BY <2>1, <2>3 DEF Kept, Now
    <3>2. Untouched(b, a)'
      BY <1>1, <2>1, <2>2, <2>3, <3>1, UntouchedAfter
    <3>3. QED
      BY <3>1, <3>2 DEF Kept
  <2>4. PICK i \in 1..Len(UploadList) : i = item /\ ~Current.alias /\ BufferOf = BufferAt(i) /\ Current = UploadList[i]
    BY <2>1, ChunkIsSound DEF Current
  <2>5. ASSUME NEW k \in 1..(item - 1), NEW w, w = UploadList[k], ~w.alias
        PROVE  RowsAreKept(BufferAt(k), w, w.rows)'
    <3>1. PICK b, n : b = BufferAt(k) /\ n = w.rows
      OBVIOUS
    <3>2. k \in 1..Len(UploadList) /\ RowsAreKept(b, w, n) /\ k # i
      BY <1>2, <2>1, <2>4, <2>5, <3>1 DEF UploadedSoFar
    <3>3. n \in Nat /\ n <= w.rows
      BY <1>2, <2>5, <3>1, <3>2, ListedIsTable DEF IsTable
    <3>4. ASSUME NEW a, InItem(w, a) PROVE ~Touches(ChunkCopy, b, a)
      <4>1. SUFFICES ASSUME Touches(ChunkCopy, b, a) PROVE FALSE
        OBVIOUS
      <4>2. b = BufferOf /\ InItem(Current, a)
        BY <2>1, <4>1, CopyStaysInside
      <4>3. PICK x : x = Current
        OBVIOUS
      <4>4. ~InItem(x, a)
        BY <1>2, <2>4, <2>5, <3>1, <3>2, <3>4, <4>2, <4>3, ListedAreApart
      <4>5. QED
        BY <4>2, <4>3, <4>4
    <3>5. RowsAreKept(b, w, n)'
      BY <2>1, <2>3, <2>5, <3>1, <3>2, <3>3, <3>4, KeptRowsStay
    <3>6. b = BufferAt(k)'
      BY <3>1 DEF BufferAt, UploadList, RegionNamed
    <3>7. QED
      BY <3>1, <3>5, <3>6
  <2>6. ASSUME NEW w, NEW n, NEW b, w = Current, n = first, b = BufferOf
        PROVE  RowsAreKept(b, w, n)'
    <3>1. ~w.alias /\ n \in Nat /\ n <= w.rows /\ w = UploadList[i] /\ b = BufferAt(i) /\ RowsAreKept(b, w, n)
      BY <2>1, <2>4, <2>6, ChunkIsSound DEF UploadedSoFar
    <3>2. \A row \in 0..(n - 1), column \in 0..(w.columns - 1), byte \in 1..w.width : \A a :
            a = Address(w, row, column, byte) => ~Touches(ChunkCopy, b, a)
      BY <2>1, <2>6, CopyStaysInside
    <3>3. QED
      BY <2>1, <2>3, <3>1, <3>2, KeptRowsStay
  <2>7. QED
    BY <2>5, <2>6
<1>5. QED
  BY <1>3, <1>4

LEMMA SameList == ASSUME arenas' = arenas PROVE UploadList' = UploadList
BY DEF UploadList, RegionNamed

\* A step that leaves the upload where it is.
LEMMA UploadedHere ==
  ASSUME StartupInv, UploadedSoFar, [Next]_vars, NothingMore \/ (ExecuteCopy /\ pc \in LoadingUp) \/ Copy,
         SameChunk, pc \in LoadingUp \cup Loaded, pc' \in LoadingUp \cup Loaded,
         pc' \in Chunk => pc \in Chunk, pc' \in {"settle"} \cup Loaded => pc \in {"settle"} \cup Loaded
  PROVE  UploadedSoFar'
<1>1. arenas' = arenas /\ item' = item /\ first' = first
  BY DEF SameChunk
<1>2. UploadList' = UploadList /\ Current' = Current /\ BufferOf' = BufferOf
  BY ChunkKept
<1>3. item' \in 1..(Len(UploadList') + 1) /\ (pc' \in {"settle"} \cup Loaded => item' = Len(UploadList') + 1)
  BY <1>1, <1>2 DEF UploadedSoFar
<1>4. /\ \A k \in 1..(item - 1) : \A w :
           w = UploadList[k] /\ ~w.alias => RowsAreKept(BufferAt(k), w, w.rows)'
      /\ pc \in Chunk => \A w, n, b : w = Current /\ n = first /\ b = BufferOf => RowsAreKept(b, w, n)'
  BY <1>1, UploadedStays
<1>5. ASSUME NEW k \in 1..(item' - 1), ~UploadList'[k].alias
      PROVE  RowsAreKept(BufferAt(k), UploadList[k], UploadList[k].rows)'
  <2>1. PICK w : w = UploadList[k]
    OBVIOUS
  <2>2. RowsAreKept(BufferAt(k), w, w.rows)' /\ w = UploadList'[k]
    BY <1>1, <1>2, <1>4, <1>5, <2>1
  <2>3. QED
    BY <2>2
<1>6. ASSUME pc' \in Chunk PROVE RowsAreKept(BufferOf, Current, first)'
  <2>1. PICK w, n, b : w = Current /\ n = first /\ b = BufferOf
    OBVIOUS
  <2>2. RowsAreKept(b, w, n)' /\ w = Current' /\ n = first' /\ b = BufferOf'
    BY <1>1, <1>2, <1>4, <1>6, <2>1
  <2>3. QED
    BY <2>2
<1>7. QED
  BY <1>3, <1>5, <1>6 DEF UploadedSoFar, LoadingUp, Loaded

\* A chunk that has arrived.
LEMMA UploadedChunk ==
  ASSUME StartupInv, UploadedSoFar, ChunkWillBe, Await, [Next]_vars,
         NEW w, NEW b, NEW n \in Nat, w = Current, b = BufferOf, n <= first + RowsPerChunk, n <= w.rows
  PROVE  RowsAreKept(b, w, n)'
<1>1. pc = "await" /\ ~lost /\ stream = <<>> /\ NothingMore /\ arenas' = arenas /\ stream' = <<>>
  BY DEF Await, Copied, NothingMore, planVars, LoadingUp
<1>2. pc \in Chunk /\ pc \in LoadingUp
  BY <1>1 DEF Chunk, LoadingUp
<1>3. /\ RowsPerChunk \in Nat /\ Count \in Nat /\ first \in Nat /\ w.rows \in Nat
      /\ \A row \in Nat : row < first + RowsPerChunk /\ row < Current.rows => row < first + Count
  BY <1>2, CountOf, ChunkIsSound DEF IsTable
<1>4. RowsAreKept(b, w, first)
  BY <1>2 DEF UploadedSoFar
<1>5. ASSUME NEW row \in 0..(n - 1), NEW column \in 0..(w.columns - 1), NEW byte \in 1..w.width
      PROVE  Kept(b, Address(w, row, column, byte), Cell(w.name, row, column))'
  <2>1. PICK a, v : a = Address(w, row, column, byte) /\ v = Cell(w.name, row, column)
    OBVIOUS
  <2>2. CASE row < first
    <3>1. row \in 0..(first - 1)
      BY <1>3, <2>2
    <3>2. Kept(b, a, v)
      BY <1>4, <2>1, <3>1 DEF RowsAreKept
    <3>3. QED
      BY <1>1, <2>1, <3>2, KeptInQuiet DEF Address, Cell
  <2>3. CASE ~(row < first)
    <3>1. row \in first..(first + Count - 1)
      BY <1>3, <2>3
    <3>2. EndsAs(b, a, v)
      BY <1>1, <2>1, <3>1 DEF ChunkWillBe
    <3>3. Now(b, a) = v
      BY <1>1, <3>2, EndsNow
    <3>4. DOMAIN stream = {}
      BY <1>1, EmptySeq, LenProperties
    <3>5. Kept(b, a, v)
      BY <3>3, <3>4 DEF Kept, Untouched
    <3>6. QED
      BY <1>1, <2>1, <3>5, KeptInQuiet DEF Address, Cell
  <2>4. QED
    BY <2>2, <2>3
<1>6. QED
  BY <1>5 DEF RowsAreKept

LEMMA UploadedStep ==
  ASSUME StartupInv, FlightIsKnown, UploadedSoFar, ChunkWillBe, [Next]_vars
  PROVE  UploadedSoFar'
<1>1. ASSUME item' = 1, pc' \notin LoadingUp \cup Loaded PROVE UploadedSoFar'
  BY <1>1 DEF UploadedSoFar, LoadingUp, Loaded, Chunk
<1>2. ASSUME item' = item, pc \notin LoadingUp \cup Loaded \cup {"poisoned"}, pc' \notin LoadingUp \cup Loaded
      PROVE  UploadedSoFar'
  BY <1>1, <1>2 DEF UploadedSoFar
<1>3. CASE Acquire
  <2>1. pc \in Constructors /\ item' = item /\ pc' \in {pc, After[pc]}
    BY <1>3, ConstructorsHaveParts DEF Acquire, loadVars
  <2>2. CASE pc = "events"
    <3>1. memory' = memory /\ pc' \in {"events", "device"} /\ SameChunk
      BY <1>3, <2>1, <2>2, Order DEF Acquire, Contents, loadVars, planVars, SameChunk
    <3>2. QED
      BY <2>2, <3>1, UploadedHere DEF NothingMore, LoadingUp, Loaded, Chunk
  <2>3. CASE pc # "events"
    BY <1>2, <2>1, <2>3, Order DEF Constructors, LoadingUp, Loaded
  <2>4. QED
    BY <2>2, <2>3
<1>4. CASE Check
  <2>1. item' = item /\ memory' = memory /\ stream' = stream /\ SameChunk
    BY <1>4 DEF Check, loadVars, planVars, SameChunk
  <2>2. CASE pc \in {"settle", "device"}
    <3>1. pc' \in {"events", "ready"}
      BY <1>4, <2>2, Order DEF Check
    <3>2. QED
      BY <2>1, <2>2, <3>1, UploadedHere DEF NothingMore, LoadingUp, Loaded, Chunk
  <2>3. CASE pc \in {"config", "bounds", "shapes", "budget"}
    <3>1. pc' \in {"mappedFile", "shapes", "tokenizer", "weights"}
      BY <1>4, <2>3, Order DEF Check
    <3>2. QED
      BY <1>2, <2>1, <2>3, <3>1 DEF LoadingUp, Loaded
  <2>4. QED
    BY <1>4, <2>2, <2>3 DEF Check, CheckPasses
<1>5. CASE Plan
  BY <1>2, <1>5 DEF Plan, loadVars, LoadingUp, Loaded
<1>6. CASE Clear
  <2>1. pc = "clear" /\ pc' = "upload" /\ item' = item /\ arenas' = arenas
    BY <1>6 DEF Clear, loadVars, planVars
  <2>2. item' = 1
    BY <2>1 DEF UploadedSoFar, LoadingUp, Loaded
  <2>3. planned = "laid"
    BY <2>1 DEF StartupInv, MemoryInv, Allocated, HasPlan, HasContext, HasWeights, HasWorkspace, Live, Loading
  <2>4. Len(UploadList) \in Nat /\ UploadList' = UploadList
    BY <2>1, <2>3, ListOf, SameList DEF ItemsAreSound, StartupInv
  <2>5. QED
    BY <2>1, <2>2, <2>4 DEF UploadedSoFar, LoadingUp, Loaded, Chunk
<1>7. CASE StartItem
  <2>1. /\ pc = "upload" /\ pc \in LoadingUp /\ NothingMore /\ first' = 0 /\ arenas' = arenas
        /\ pc' \in {"upload", "settle", "decode"}
    BY <1>7 DEF StartItem, NothingMore, LoadingUp, planVars
  <2>2. Len(UploadList) \in Nat /\ UploadList' = UploadList /\ item \in 1..(Len(UploadList) + 1)
    BY <2>1, LoadedIsSound, ListOf, SameList DEF UploadedSoFar
  <2>3. \A k \in 1..(item - 1) : \A w :
          w = UploadList[k] /\ ~w.alias => RowsAreKept(BufferAt(k), w, w.rows)'
    BY <2>1, UploadedStays
  <2>4. ASSUME NEW k \in 1..(item - 1), ~UploadList'[k].alias
        PROVE  RowsAreKept(BufferAt(k), UploadList[k], UploadList[k].rows)'
    <3>1. PICK w : w = UploadList[k]
      OBVIOUS
    <3>2. RowsAreKept(BufferAt(k), w, w.rows)' /\ w = UploadList'[k]
      BY <2>2, <2>3, <2>4, <3>1
    <3>3. QED
      BY <3>2
  <2>5. CASE item > Len(UploadList)
    <3>1. pc' = "settle" /\ item' = item
      BY <1>7, <2>5 DEF StartItem
    <3>2. QED
      BY <2>2, <2>4, <2>5, <3>1 DEF UploadedSoFar, LoadingUp, Loaded, Chunk
  <2>6. CASE item <= Len(UploadList) /\ Current.alias
    <3>1. pc' = "upload" /\ item' = item + 1
      BY <1>7, <2>1, <2>2, <2>6 DEF StartItem
    <3>2. UploadList'[item].alias
      BY <2>2, <2>6 DEF Current
    <3>3. ASSUME NEW k \in 1..(item' - 1), ~UploadList'[k].alias
          PROVE  RowsAreKept(BufferAt(k), UploadList[k], UploadList[k].rows)'
      <4>1. k \in 1..(item - 1)
        BY <2>2, <3>1, <3>2, <3>3
      <4>2. QED
        BY <2>4, <3>3, <4>1
    <3>4. QED
      BY <2>2, <2>6, <3>1, <3>3 DEF UploadedSoFar, LoadingUp, Loaded, Chunk
  <2>7. CASE item <= Len(UploadList) /\ ~Current.alias
    <3>1. pc' = "decode" /\ item' = item
      BY <1>7, <2>2, <2>7 DEF StartItem
    <3>2. RowsAreKept(BufferOf, Current, first)'
      BY <2>1 DEF RowsAreKept
    <3>3. QED
      BY <2>2, <2>4, <2>7, <3>1, <3>2 DEF UploadedSoFar, LoadingUp, Loaded, Chunk
  <2>8. QED
    BY <2>2, <2>5, <2>6, <2>7
<1>8. CASE Decode \/ Copy
  <2>1. pc \in {"decode", "copy"} /\ pc' \in {"copy", "await"} /\ SameChunk
    BY <1>8 DEF Decode, Copy, loadVars, planVars, SameChunk
  <2>2. NothingMore \/ Copy
    BY <1>8 DEF Decode, NothingMore, LoadingUp
  <2>3. QED
    BY <2>1, <2>2, UploadedHere DEF LoadingUp, Loaded, Chunk
<1>9. CASE Await
  <2>1. /\ pc = "await" /\ pc \in LoadingUp /\ pc \in Chunk /\ NothingMore /\ arenas' = arenas
        /\ first' = first + RowsPerChunk
    BY <1>9 DEF Await, NothingMore, LoadingUp, Chunk, planVars
  <2>2. Len(UploadList) \in Nat /\ UploadList' = UploadList /\ item \in 1..Len(UploadList) /\ BufferOf = BufferAt(item)
    BY <2>1, LoadedIsSound, ListOf, SameList, ChunkIsSound DEF UploadedSoFar
  <2>3. \A k \in 1..(item - 1) : \A w :
          w = UploadList[k] /\ ~w.alias => RowsAreKept(BufferAt(k), w, w.rows)'
    BY <2>1, UploadedStays
  <2>4. PICK w, b : w = Current /\ b = BufferOf
    OBVIOUS
  <2>5. first \in Nat /\ RowsPerChunk \in Nat /\ w.rows \in Nat
    BY <2>1, <2>4, ChunkIsSound, CountOf DEF IsTable
  <2>6. CASE first' < Current.rows
    <3>1. pc' = "decode" /\ item' = item
      BY <1>9, <2>6 DEF Await
    <3>2. PICK n \in Nat : n = first'
      BY <2>1, <2>5
    <3>3. RowsAreKept(b, w, n)'
      BY <1>9, <2>1, <2>4, <2>5, <2>6, <3>2, UploadedChunk
    <3>4. w = Current' /\ b = BufferOf'
      BY <2>2, <2>4, <3>1 DEF Current, BufferOf
    <3>5. RowsAreKept(BufferOf, Current, first)'
      BY <3>2, <3>3, <3>4
    <3>6. ASSUME NEW k \in 1..(item' - 1), ~UploadList'[k].alias
          PROVE  RowsAreKept(BufferAt(k), UploadList[k], UploadList[k].rows)'
      <4>1. PICK x : x = UploadList[k]
        OBVIOUS
      <4>2. RowsAreKept(BufferAt(k), x, x.rows)' /\ x = UploadList'[k]
        BY <2>2, <2>3, <3>1, <3>6, <4>1
      <4>3. QED
        BY <4>2
    <3>7. QED
      BY <2>2, <3>1, <3>5, <3>6 DEF UploadedSoFar, LoadingUp, Loaded, Chunk
  <2>7. CASE ~(first' < Current.rows)
    <3>1. pc' = "upload" /\ item' = item + 1
      BY <1>9, <2>7 DEF Await
    <3>2. w.rows <= first + RowsPerChunk
      BY <2>1, <2>4, <2>5, <2>7
    <3>3. PICK n \in Nat : n = w.rows
      BY <2>5
    <3>4. RowsAreKept(b, w, n)'
      BY <1>9, <2>4, <3>2, <3>3, UploadedChunk
    <3>5. ASSUME NEW k \in 1..(item' - 1), ~UploadList'[k].alias
          PROVE  RowsAreKept(BufferAt(k), UploadList[k], UploadList[k].rows)'
      <4>1. PICK x : x = UploadList[k]
        OBVIOUS
      <4>2. CASE k = item
        <5>1. w = UploadList'[k] /\ b = BufferAt(k)' /\ n = UploadList'[k].rows
          BY <2>2, <2>4, <3>3, <4>2 DEF Current, BufferAt
        <5>2. QED
          BY <3>4, <5>1
      <4>3. CASE k # item
        <5>1. k \in 1..(item - 1)
          BY <2>2, <3>1, <3>5, <4>3
        <5>2. RowsAreKept(BufferAt(k), x, x.rows)' /\ x = UploadList'[k]
          BY <2>2, <2>3, <3>5, <4>1, <5>1
        <5>3. QED
          BY <5>2
      <4>4. QED
        BY <4>2, <4>3
    <3>6. QED
      BY <2>2, <3>1, <3>5 DEF UploadedSoFar, LoadingUp, Loaded, Chunk
  <2>8. QED
    BY <2>6, <2>7
<1>10. CASE Throw \/ Destroy
  BY <1>1, <1>10 DEF Throw, Destroy, Discard, LoadingUp, Loaded
<1>11. CASE Unwind
  BY <1>2, <1>11 DEF Unwind, loadVars, LoadingUp, Loaded
<1>12. CASE ExecuteCopy \/ Execute \/ Lose \/ Gone \/ UNCHANGED vars
  <2>1. pc' = pc /\ SameChunk /\ item' = item
    BY <1>12 DEF ExecuteCopy, Execute, Lose, Gone, vars, startupVars, hostVars, loadVars, planVars, SameChunk
  <2>2. CASE pc \in LoadingUp \cup Loaded
    <3>1. CASE ExecuteCopy
      <4>1. pc \in LoadingUp
        BY <2>2, <3>1, DeviceWorks
      <4>2. QED
        BY <2>1, <2>2, <3>1, <4>1, UploadedHere
    <3>2. CASE Execute
      <4>1. pc \notin LoadingUp /\ memory' = memory
        BY <3>2, DeviceWorks DEF Execute
      <4>2. QED
        BY <2>1, <2>2, <4>1, UploadedHere DEF NothingMore
    <3>3. CASE Lose \/ Gone \/ UNCHANGED vars
      <4>1. NothingMore
        BY <2>1, <3>3 DEF Lose, Gone, vars, startupVars, NothingMore
      <4>2. QED
        BY <2>1, <2>2, <4>1, UploadedHere
    <3>4. QED
      BY <1>12, <3>1, <3>2, <3>3
  <2>3. CASE pc \notin LoadingUp \cup Loaded \cup {"poisoned"}
    BY <1>2, <2>1, <2>3
  <2>4. CASE pc = "poisoned"
    BY <2>1, <2>4 DEF UploadedSoFar, LoadingUp, Loaded, Chunk
  <2>5. QED
    BY <2>2, <2>3, <2>4
<1>13. CASE BeginForward \/ Enqueue \/ Commit
  <2>1. pc \in {"ready", "forward"} /\ pc' \in {"ready", "forward"} /\ memory' = memory /\ SameChunk
    BY <1>13 DEF BeginForward, Enqueue, Commit, hostVars, loadVars, planVars, SameChunk
  <2>2. QED
    BY <2>1, UploadedHere DEF NothingMore, LoadingUp, Loaded, Chunk
<1>14. CASE Fail
  BY <1>14 DEF Fail, UploadedSoFar, LoadingUp, Loaded, Chunk
<1>15. QED
  BY <1>3, <1>4, <1>5, <1>6, <1>7, <1>8, <1>9, <1>10, <1>11, <1>12, <1>13, <1>14 DEF Next, Startup, HostStep

-----------------------------------------------------------------------------
(***************************************************************************)
(* What is cleared stays so, but for the table of rotations.               *)
(***************************************************************************)
LEMMA RegionByte ==
  ASSUME ItemsAreSound, Len(memory["workspace"]) = arenas["workspace"].bytes, StartupInv,
         NEW k \in 1..Len(arenas.workspace.items), NEW r, r = arenas.workspace.items[k],
         NEW a \in 1..r.bytes, NEW x, x = r.offset + a
  PROVE  InItem(r, x) /\ Byte("workspace", x) /\ x \in 1..Len(memory["workspace"])
<1>1. ~r.alias /\ "workspace" \in Buffers
  BY DEF ItemsAreSound, RegionsAreListed, Buffers
<1>2. IsTable(r) /\ r.offset + r.bytes <= arenas["workspace"].bytes
  BY <1>1, ItemIsTable
<1>3. PICK o, n \in Nat : o = r.offset /\ n = r.bytes
  <2>1. PICK rows, columns, width \in Nat : r.bytes = rows * columns * width
    BY <1>2 DEF IsTable
  <2>2. r.bytes \in Nat
    BY <2>1, ProductIsNatural
  <2>3. QED
    BY <1>2, <2>2 DEF IsTable
<1>4. InItem(r, x)
  <2>1. PICK y \in 1..n : x = o + y
    BY <1>3
  <2>2. o \in Nat /\ n \in Nat
    BY <1>3
  <2>3. o + y \in (o + 1)..(o + n)
    BY <2>1, <2>2
  <2>4. QED
    BY <1>3, <2>1, <2>3 DEF InItem
<1>5. Byte("workspace", x)
  BY <1>1, <1>2, <1>4, InItemIsByte
<1>6. QED
  BY <1>4, <1>5 DEF Byte

\* While nothing but the upload is under way.
LEMMA ClearedGoesOn ==
  ASSUME StartupInv, WillBeCleared, pc \in LoadingUp, pc' \in LoadingUp, ~lost, arenas' = arenas,
         NEW rope, rope = RegionNamed("rope_coefficients"),
         \A b, a, v : /\ Byte(b, a) /\ EndsAs(b, a, v)
                      /\ b = "kv" \/ (b = "workspace" /\ ~InItem(rope, a))
                      => EndsAs(b, a, v)'
  PROVE  WillBeCleared'
<1>1. ItemsAreSound /\ Len(memory["workspace"]) = arenas["workspace"].bytes
  BY LoadedIsSound DEF Buffers
<1>2. EndsAs("kv", 0, "nan")'
  <2>1. Byte("kv", 0)
    BY DEF Byte
  <2>2. QED
    BY <2>1 DEF WillBeCleared
<1>3. ASSUME NEW k \in 1..Len(arenas.workspace.items), NEW r, r = arenas.workspace.items[k],
             r.name # "rope_coefficients", NEW a \in 1..r.bytes
      PROVE  EndsAs("workspace", r.offset + a, Cleared(r))'
  <2>1. PICK x : x = r.offset + a
    OBVIOUS
  <2>2. PICK v : v = Cleared(r)
    OBVIOUS
  <2>3. InItem(r, x) /\ Byte("workspace", x)
    BY <1>1, <1>3, <2>1, RegionByte
  <2>4. ~InItem(rope, x)
    BY <1>1, <1>3, <2>3, RotationsAreApart
  <2>5. EndsAs("workspace", x, v)
    BY <1>3, <2>1, <2>2 DEF WillBeCleared
  <2>6. EndsAs("workspace", x, v)'
    BY <2>3, <2>4, <2>5
  <2>7. v = Cleared(r)'
    BY <2>2 DEF Cleared, Cell
  <2>8. QED
    BY <2>1, <2>6, <2>7
<1>4. ASSUME NEW k \in 1..Len(arenas'.workspace.items), arenas'.workspace.items[k].name # "rope_coefficients",
             NEW a \in 1..arenas'.workspace.items[k].bytes
      PROVE  EndsAs("workspace", arenas.workspace.items[k].offset + a, Cleared(arenas.workspace.items[k]))'
  <2>1. PICK r : r = arenas.workspace.items[k]
    OBVIOUS
  <2>2. r = arenas'.workspace.items[k] /\ k \in 1..Len(arenas.workspace.items)
    BY <1>4, <2>1
  <2>3. EndsAs("workspace", r.offset + a, Cleared(r))'
    BY <1>3, <1>4, <2>1, <2>2
  <2>4. QED
    BY <2>2, <2>3
<1>5. QED
  BY <1>2, <1>4 DEF WillBeCleared, LoadingUp, Loaded

\* The block table is unmapped last, and the rest has been zeroed before.
LEMMA ClearClears ==
  ASSUME StartupInv, Clear
  PROVE  WillBeCleared'
<1>1. pc = "clear" /\ pc' = "upload" /\ memory' = memory /\ staging' = staging /\ arenas' = arenas
  BY DEF Clear, loadVars, planVars
<1>2. planned = "laid" /\ Len(memory["workspace"]) = arenas["workspace"].bytes
  BY <1>1 DEF StartupInv, MemoryInv, Allocated, HasPlan, HasContext, HasWeights, HasWorkspace, Live, Loading, Buffers
<1>3. ItemsAreSound
  BY <1>2 DEF ItemsAreSound, StartupInv
<1>4. PICK table : table = RegionNamed("kv_block_table")
  OBVIOUS
<1>5. PICK whole : whole = Whole("workspace", "zero")
  OBVIOUS
<1>6. PICK unmap : unmap = Operation("workspace", table.offset, table.bytes, "unmapped", "none")
  OBVIOUS
<1>7. PICK nan : nan = Operation("kv", 0, 0, "nan", "none")
  OBVIOUS
<1>8. /\ stream'[1] = whole
      /\ m.layout = "paged"  => DOMAIN stream' = 1..3 /\ stream'[2] = unmap /\ stream'[3] = nan
      /\ m.layout # "paged" => DOMAIN stream' = 1..2 /\ stream'[2] = nan
  BY <1>4, <1>5, <1>6, <1>7, ClearedStream
<1>9. /\ nan.buffer = "kv" /\ nan.fill = "nan"
      /\ unmap.buffer = "workspace" /\ unmap.offset = table.offset /\ unmap.bytes = table.bytes
      /\ unmap.fill = "unmapped" /\ unmap.host = "none"
      /\ whole.buffer = "workspace" /\ whole.offset = 0 /\ whole.bytes = Len(memory["workspace"])
      /\ whole.fill = "zero" /\ whole.host = "none"
  BY <1>5, <1>6, <1>7, FieldsOf, OperationFields DEF Whole
<1>10. EndsAs("kv", 0, "nan")'
  <2>1. Touches(nan, "kv", 0) /\ Put(nan, 0)' = "nan"
    BY <1>9 DEF Touches, Put
  <2>2. PICK k \in DOMAIN stream' : stream'[k] = nan /\ \A j \in DOMAIN stream' : ~(j > k)
    <3>1. CASE m.layout = "paged"
      BY <1>8, <3>1
    <3>2. CASE m.layout # "paged"
      BY <1>8, <3>2
    <3>3. QED
      BY <3>1, <3>2
  <2>3. (Put(stream[k], 0))' = "nan" /\ Touches(stream[k], "kv", 0)'
    BY <2>1, <2>2 DEF Touches
  <2>4. QED
    BY <2>2, <2>3 DEF EndsAs
<1>11. ASSUME NEW k \in 1..Len(arenas.workspace.items), NEW r, r = arenas.workspace.items[k],
              r.name # "rope_coefficients", NEW a \in 1..r.bytes
       PROVE  EndsAs("workspace", r.offset + a, Cleared(r))'
  <2>1. PICK x : x = r.offset + a
    OBVIOUS
  <2>2. InItem(r, x) /\ x \in 1..Len(memory["workspace"])
    BY <1>2, <1>3, <1>11, <2>1, RegionByte
  <2>3. Touches(whole, "workspace", x) /\ ~Touches(nan, "workspace", x)
    BY <1>9, <2>2 DEF Touches
  <2>4. Touches(unmap, "workspace", x) <=> InItem(table, x)
    BY <1>9 DEF Touches, InItem
  <2>5. Put(whole, x)' = Cell("zero", 0, 0) /\ Put(unmap, x)' = Cell("unmapped", 0, 0)
    BY <1>9 DEF Put, Cell
  <2>6. PICK n : n = arenas.workspace.items[k].name
    OBVIOUS
  <2>7. n = WorkspaceShapes[k].name /\ k \in 1..Len(WorkspaceShapes) /\ n \in Regions /\ RegionIndex[n] = k /\ n = r.name
    BY <1>3, <1>11, <2>6, NamesAndIndices DEF Fits, ItemsAreSound, RegionsAreListed
  <2>8. CASE n = "kv_block_table"
    <3>1. m.layout = "paged"
      BY <2>7, <2>8 DEF Regions, Always
    <3>2. r = table
      BY <1>3, <1>4, <1>11, <2>7, <2>8, RegionFound DEF ItemsAreSound
    <3>3. PICK two : two = 2
      OBVIOUS
    <3>4. two \in DOMAIN stream' /\ stream'[two] = unmap /\ \A j \in DOMAIN stream' : j > two => stream'[j] = nan
      BY <1>8, <3>1, <3>3
    <3>5. Cleared(r)' = Cell("unmapped", 0, 0)
      BY <2>7, <2>8 DEF Cleared, Cell
    <3>6. (Put(stream[two], x))' = Cleared(r)' /\ Touches(stream[two], "workspace", x)'
      BY <2>2, <2>4, <2>5, <3>2, <3>4, <3>5 DEF Touches
    <3>7. \A j \in DOMAIN stream' : j > two => ~Touches(stream'[j], "workspace", x)
      BY <2>3, <3>4
    <3>8. QED
      BY <2>1, <3>4, <3>6, <3>7 DEF EndsAs, Touches
  <2>9. CASE n # "kv_block_table"
    <3>1. PICK one : one = 1
      OBVIOUS
    <3>2. one \in DOMAIN stream' /\ stream'[one] = whole
      BY <1>8, <3>1
    <3>3. Cleared(r)' = Cell("zero", 0, 0)
      BY <2>7, <2>9 DEF Cleared, Cell
    <3>4. m.layout = "paged" => ~Touches(unmap, "workspace", x)
      <4>1. SUFFICES ASSUME m.layout = "paged" PROVE ~InItem(table, x)
        BY <2>4
      <4>2. "kv_block_table" \in Regions /\ "workspace" \in Buffers
        BY <4>1 DEF Regions, Buffers
      <4>3. PICK j : j = RegionIndex["kv_block_table"]
        OBVIOUS
      <4>4. j \in 1..Len(arenas["workspace"].items) /\ table = arenas["workspace"].items[j]
        BY <1>3, <1>4, <4>2, <4>3, RegionFound DEF ItemsAreSound
      <4>5. WorkspaceShapes[j].name = "kv_block_table"
        BY <4>2, <4>3, NamesAndIndices DEF Meets
      <4>6. j # k
        BY <2>7, <2>9, <4>5
      <4>7. ~r.alias /\ ~table.alias
        BY <1>3, <1>11, <4>4 DEF ItemsAreSound, RegionsAreListed
      <4>8. QED
        BY <1>3, <1>11, <2>2, <4>2, <4>4, <4>6, <4>7, ItemsAreApart
    <3>5. \A j \in DOMAIN stream' : j > one => ~Touches(stream'[j], "workspace", x)
      <4>1. CASE m.layout = "paged"
        BY <1>8, <2>3, <3>1, <3>4, <4>1
      <4>2. CASE m.layout # "paged"
        BY <1>8, <2>3, <3>1, <4>2
      <4>3. QED
        BY <4>1, <4>2
    <3>6. (Put(stream[one], x))' = Cleared(r)' /\ Touches(stream[one], "workspace", x)'
      BY <2>3, <2>5, <3>2, <3>3 DEF Touches
    <3>7. QED
      BY <2>1, <3>2, <3>5, <3>6 DEF EndsAs, Touches
  <2>10. QED
    BY <2>8, <2>9
<1>12. ASSUME NEW k \in 1..Len(arenas'.workspace.items), arenas'.workspace.items[k].name # "rope_coefficients",
              NEW a \in 1..arenas'.workspace.items[k].bytes
       PROVE  EndsAs("workspace", arenas.workspace.items[k].offset + a, Cleared(arenas.workspace.items[k]))'
  <2>1. PICK r : r = arenas.workspace.items[k]
    OBVIOUS
  <2>2. r = arenas'.workspace.items[k] /\ k \in 1..Len(arenas.workspace.items)
    BY <1>1, <1>12, <2>1
  <2>3. EndsAs("workspace", r.offset + a, Cleared(r))'
    BY <1>11, <1>12, <2>1, <2>2
  <2>4. QED
    BY <2>2, <2>3
<1>13. QED
  BY <1>1, <1>10, <1>12 DEF WillBeCleared, LoadingUp, Loaded

LEMMA ClearedStep ==
  ASSUME StartupInv, FlightIsKnown, WillBeCleared, [Next]_vars
  PROVE  WillBeCleared'
<1>1. InFlight /\ BuffersAreBytes
  BY DEF StartupInv, MemoryInv
<1>2. ASSUME pc' \notin LoadingUp \cup Loaded PROVE WillBeCleared'
  BY <1>2 DEF WillBeCleared
<1>3. ASSUME pc \in Loaded, pc' \in Loaded, memory' = memory, arenas' = arenas PROVE WillBeCleared'
  <2>1. pc' \notin LoadingUp
    BY <1>3 DEF LoadingUp, Loaded
  <2>2. QED
    BY <1>3, <2>1 DEF WillBeCleared, Cleared, Cell
<1>4. PICK rope : rope = RegionNamed("rope_coefficients")
  OBVIOUS
<1>5. ASSUME pc \in LoadingUp, pc' \in LoadingUp, ~lost, arenas' = arenas, memory' = memory, stream' = stream,
             staging' = staging \/ pc # "await"
      PROVE  WillBeCleared'
  <2>1. staging' = staging \/ \A k \in DOMAIN stream : stream[k].host = "none"
    BY <1>5 DEF FlightIsKnown
  <2>2. \A b, a, v : EndsAs(b, a, v) => EndsAs(b, a, v)'
    BY <1>5, <2>1, EndsStill
  <2>3. QED
    BY <1>4, <1>5, <2>2, ClearedGoesOn
<1>6. CASE Acquire
  <2>1. pc \in Constructors /\ pc' \in {pc, After[pc]} /\ arenas' = arenas
    BY <1>6, ConstructorsHaveParts DEF Acquire, planVars
  <2>2. CASE pc = "events"
    <3>1. memory' = memory /\ pc' \in {"events", "device"}
      BY <1>6, <2>1, <2>2, Order DEF Acquire, Contents
    <3>2. QED
      BY <1>3, <2>1, <2>2, <3>1 DEF Loaded
  <2>3. CASE pc # "events"
    BY <1>2, <2>1, <2>3, Order DEF Constructors, LoadingUp, Loaded
  <2>4. QED
    BY <2>2, <2>3
<1>7. CASE Check
  <2>1. memory' = memory /\ arenas' = arenas
    BY <1>7 DEF Check, planVars
  <2>2. CASE pc = "settle"
    <3>1. pc' = "events" /\ ~lost /\ stream = <<>> /\ pc \in LoadingUp
      BY <1>7, <2>2, Order DEF Check, CheckPasses, LoadingUp
    <3>2. memory["kv"] = "nan"
      BY <3>1, EndsNow DEF WillBeCleared, Now
    <3>3. ASSUME NEW k \in 1..Len(arenas.workspace.items), NEW r, r = arenas.workspace.items[k],
                 r.name # "rope_coefficients", NEW a \in 1..r.bytes
          PROVE  memory["workspace"][r.offset + a] = Cleared(r)
      <4>1. EndsAs("workspace", r.offset + a, Cleared(r))
        BY <3>1, <3>3 DEF WillBeCleared
      <4>2. QED
        BY <3>1, <4>1, EndsNow DEF Now
    <3>4. pc' \notin LoadingUp
      BY <3>1 DEF LoadingUp
    <3>5. QED
      <4>1. ASSUME NEW k \in 1..Len(arenas'.workspace.items), NEW r, r = arenas'.workspace.items[k],
                   r.name # "rope_coefficients", NEW a \in 1..r.bytes
            PROVE  memory'["workspace"][r.offset + a] = Cleared(r)
        BY <2>1, <3>3, <4>1
      <4>2. memory'["kv"] = "nan"
        BY <2>1, <3>2
      <4>3. QED
        BY <3>4, <4>1, <4>2 DEF WillBeCleared, Cleared, Cell
  <2>3. CASE pc = "device"
    <3>1. pc' = "ready"
      BY <1>7, <2>3, Order DEF Check
    <3>2. QED
      BY <1>3, <2>1, <2>3, <3>1 DEF Loaded
  <2>4. CASE pc \in {"config", "bounds", "shapes", "budget"}
    <3>1. pc' \in {"mappedFile", "shapes", "tokenizer", "weights"}
      BY <1>7, <2>4, Order DEF Check
    <3>2. QED
      BY <1>2, <3>1 DEF LoadingUp, Loaded
  <2>5. QED
    BY <1>7, <2>2, <2>3, <2>4 DEF Check, CheckPasses
<1>8. CASE Clear
  BY <1>8, ClearClears
<1>9. CASE StartItem \/ Decode \/ Await
  <2>1. /\ pc \in LoadingUp /\ pc' \in LoadingUp /\ memory' = memory /\ stream' = stream /\ arenas' = arenas
        /\ lost' = lost /\ (staging' = staging \/ pc # "await")
    BY <1>9 DEF StartItem, Decode, Await, planVars, LoadingUp
  <2>2. CASE lost
    <3>1. lost' /\ pc' \notin Loaded
      BY <1>9, <2>2 DEF StartItem, Decode, Await, Loaded
    <3>2. QED
      BY <3>1 DEF WillBeCleared
  <2>3. CASE ~lost
    BY <1>5, <1>9, <2>1, <2>3
  <2>4. QED
    BY <2>2, <2>3
<1>10. CASE Copy
  <2>1. /\ pc = "copy" /\ pc' = "await" /\ ~lost /\ memory' = memory /\ staging' = staging /\ arenas' = arenas
        /\ stream' = Append(stream, ChunkCopy) /\ pc \in Chunk
    BY <1>10 DEF Copy, ChunkCopy, Chunk, loadVars, planVars
  <2>2. PICK op : op = ChunkCopy
    OBVIOUS
  <2>3. ASSUME NEW b, NEW a, NEW v, EndsAs(b, a, v), b = "kv" \/ (b = "workspace" /\ ~InItem(rope, a))
        PROVE  EndsAs(b, a, v)'
    <3>1. ~Touches(op, b, a)
      <4>1. SUFFICES ASSUME Touches(ChunkCopy, b, a) PROVE FALSE
        BY <2>2
      <4>2. b = BufferOf /\ InItem(Current, a) /\ BufferOf \in Buffers
        BY <2>1, <4>1, CopyStaysInside, ChunkIsSound
      <4>3. BufferOf = "workspace"
        BY <2>3, <4>2 DEF Buffers
      <4>4. item = Len(UploadList)
        BY <4>3 DEF BufferOf
      <4>5. Current = rope
        BY <1>4, <2>1, <4>4, ChunkIsSound, ListOf DEF Current
      <4>6. QED
        BY <2>3, <4>2, <4>3, <4>5
    <3>2. QED
      BY <1>1, <2>1, <2>2, <2>3, <3>1, EndsAfter
  <2>4. pc \in LoadingUp /\ pc' \in LoadingUp
    BY <2>1 DEF LoadingUp
  <2>5. QED
    BY <1>4, <2>1, <2>3, <2>4, ClearedGoesOn
<1>11. CASE ExecuteCopy
  <2>1. pc' = pc /\ lost' = lost /\ arenas' = arenas
    BY <1>11 DEF ExecuteCopy, hostVars, planVars
  <2>2. CASE pc \in LoadingUp
    <3>1. \A b, a, v : Byte(b, a) /\ EndsAs(b, a, v) => EndsAs(b, a, v)'
      BY <1>1, <1>11, EndsByDevice
    <3>2. CASE lost
      BY <2>1, <2>2, <3>2 DEF WillBeCleared, LoadingUp, Loaded
    <3>3. CASE ~lost
      BY <1>4, <2>1, <2>2, <3>1, <3>3, ClearedGoesOn
    <3>4. QED
      BY <3>2, <3>3
  <2>3. CASE pc \in Loaded
    BY <1>11, <2>3, DeviceWorks
  <2>4. QED
    BY <1>2, <2>1, <2>2, <2>3
<1>12. CASE Lose
  <2>1. pc' = pc /\ lost' /\ memory' = memory /\ arenas' = arenas
    BY <1>12 DEF Lose, hostVars, planVars
  <2>2. CASE pc \in Loaded
    BY <1>3, <2>1, <2>2
  <2>3. CASE pc \notin Loaded
    BY <2>1, <2>3 DEF WillBeCleared
  <2>4. QED
    BY <2>2, <2>3
<1>13. CASE Execute \/ BeginForward \/ Enqueue \/ Commit
  <2>1. memory' = memory /\ arenas' = arenas
    BY <1>13 DEF Execute, BeginForward, Enqueue, Commit, planVars
  <2>2. CASE Execute
    <3>1. pc' = pc /\ pc \notin LoadingUp
      BY <2>2, DeviceWorks DEF Execute, hostVars
    <3>2. QED
      BY <1>2, <1>3, <2>1, <3>1
  <2>3. CASE BeginForward \/ Enqueue \/ Commit
    <3>1. pc \in Loaded /\ pc' \in Loaded
      BY <2>3 DEF BeginForward, Enqueue, Commit, hostVars, Loaded
    <3>2. QED
      BY <1>3, <2>1, <3>1
  <2>4. QED
    BY <1>13, <2>2, <2>3
<1>14. CASE Gone \/ UNCHANGED vars
  <2>1. /\ pc' = pc /\ lost' = lost /\ memory' = memory /\ arenas' = arenas /\ stream' = stream /\ staging' = staging
    BY <1>14 DEF Gone, vars, startupVars, hostVars, loadVars, planVars
  <2>2. CASE pc \in LoadingUp /\ lost
    BY <2>1, <2>2 DEF WillBeCleared, LoadingUp, Loaded
  <2>3. CASE pc \in LoadingUp /\ ~lost
    BY <1>5, <2>1, <2>3
  <2>4. QED
    BY <1>2, <1>3, <2>1, <2>2, <2>3
<1>15. CASE Throw \/ Destroy \/ Unwind \/ Fail \/ Plan
  BY <1>2, <1>15 DEF Throw, Destroy, Unwind, Fail, Plan, LoadingUp, Loaded
<1>16. QED
  BY <1>6, <1>7, <1>8, <1>9, <1>10, <1>11, <1>12, <1>13, <1>14, <1>15 DEF Next, Startup, HostStep

-----------------------------------------------------------------------------
LoadInv ==
  FlightIsKnown /\ AliasesAreFirst /\ UploadedSoFar /\ StagingIsChunk /\ ChunkWillBe /\ WillBeCleared

LEMMA LoadStarts == Init => LoadInv
<1>1. SUFFICES ASSUME Init PROVE LoadInv
  OBVIOUS
<1>2. pc = "config" /\ item = 1 /\ arenas.weights.items = <<>>
  BY <1>1 DEF Init, StartupInit, PlanInit, EmptyArena
<1>3. Len(<<>>) = 0
  OBVIOUS
<1>4. FlightIsKnown /\ UploadedSoFar /\ StagingIsChunk /\ ChunkWillBe /\ WillBeCleared
  BY <1>2 DEF FlightIsKnown, UploadedSoFar, StagingIsChunk, ChunkWillBe, WillBeCleared, LoadingUp, Loaded, Chunk
<1>5. AliasesAreFirst
  BY <1>2, <1>3 DEF AliasesAreFirst
<1>6. QED
  BY <1>4, <1>5 DEF LoadInv

LEMMA LoadStep ==
  ASSUME Started, Checked, StartupInv, LoadInv, [Next]_vars
  PROVE  LoadInv'
<1>1. PlanIsSound
  BY DEF StartupInv
<1>2. QED
  BY <1>1, FlightStep, AliasesStep, UploadedStep, StagingStep, ChunkWillBeStep, ClearedStep DEF LoadInv

\* Rows that are kept and that nothing writes any more are there.
LEMMA KeptIsUploaded ==
  ASSUME NEW b, b # "kv", NEW w, NEW v, v.name = w.name, SameTable(v, w), RowsAreKept(b, w, w.rows)
  PROVE  Uploaded(b, v)
<1>1. ASSUME NEW row \in 0..(w.rows - 1), NEW column \in 0..(w.columns - 1), NEW byte \in 1..w.width
      PROVE  memory[b][w.offset + (row * w.columns + column) * w.width + byte] = Cell(w.name, row, column)
  BY <1>1 DEF RowsAreKept, Kept, Now, Address
<1>2. QED
  BY <1>1 DEF Uploaded, CellAt, SameTable

\* What the upload has left behind is on the device: each row of each weight
\* under its own name, the tied output under the first weight's, the table of
\* rotations; and when the runtime is ready the KV cache is NaN, the block
\* table unmapped and the rest of the workspace zero.  Whatever the shapes,
\* the size of the staging buffer and the moments at which the device works:
\* no chunk is overwritten before it is copied, and none copied over another.
THEOREM Loads == Spec => []LoadedIsExact
<1> DEFINE I == WeightsAreListed /\ LoadInv
<1>1. Init => I
  <2>1. Init => arenas.weights.items = <<>>
    BY DEF Init, StartupInit, PlanInit, EmptyArena
  <2>2. Len(<<>>) = 0 /\ Len(WeightNames) \in Nat
    BY WeightsAreNames, LenProperties
  <2>3. Init => WeightsAreListed
    BY <2>1, <2>2 DEF WeightsAreListed
  <2>4. QED
    BY <2>3, LoadStarts
<1>2. Started /\ Checked /\ StartupInv /\ I /\ [Next]_vars => I'
  <2>1. SUFFICES ASSUME Started, Checked, StartupInv, I, [Next]_vars PROVE I'
    OBVIOUS
  <2>2. PlanIsSound
    BY <2>1 DEF StartupInv
  <2>3. WeightsAreListed'
    <3>1. CASE Plan
      BY <2>1, <2>2, <3>1, PlanLists
    <3>2. CASE ~Plan
      <4>1. arenas' = arenas
        BY <2>1, <3>2, OthersDoNotPlan DEF planVars
      <4>2. QED
        BY <2>1, <4>1, SameNames, ListKept
    <3>3. QED
      BY <3>1, <3>2
  <2>4. QED
    BY <2>1, <2>3, LoadStep
<1>3. Started /\ Checked /\ StartupInv /\ I => LoadedIsExact
  <2>1. SUFFICES ASSUME Started, Checked, StartupInv, I, pc \in {"upload", "settle", "ready"}
                 PROVE  LoadedIsExact
    BY DEF LoadedIsExact
  <2>2. ItemsAreSound /\ pc \in LoadingUp \cup Loaded
    BY <2>1, LoadedIsSound DEF LoadingUp, Loaded
  <2>3. /\ Len(UploadList) = Len(arenas.weights.items) + 1 /\ Len(arenas.weights.items) \in Nat
        /\ \A k \in 1..Len(arenas.weights.items) : UploadList[k] = arenas.weights.items[k]
        /\ UploadList[Len(UploadList)] = RegionNamed("rope_coefficients")
    BY <2>2, ListOf
  <2>4. item \in 1..(Len(UploadList) + 1)
    BY <2>1, <2>2 DEF LoadInv, UploadedSoFar
  <2>5. \A k \in 1..(item - 1) :
          ~UploadList[k].alias => RowsAreKept(BufferAt(k), UploadList[k], UploadList[k].rows)
    BY <2>1, <2>2 DEF LoadInv, UploadedSoFar
  <2>6. ASSUME NEW k \in 1..(item - 1)
        PROVE  LET w == UploadList[k]
               IN Uploaded(IF k = Len(UploadList) THEN "workspace" ELSE "weights",
                           IF w.alias THEN [w EXCEPT !.name = "token_embd"] ELSE w)
    <3>1. PICK w, b : w = UploadList[k] /\ b = BufferAt(k)
      OBVIOUS
    <3>2. b = (IF k = Len(UploadList) THEN "workspace" ELSE "weights") /\ b # "kv"
      BY <3>1 DEF BufferAt
    <3>3. CASE ~w.alias
      <4>1. RowsAreKept(b, w, w.rows)
        BY <2>5, <3>1, <3>3
      <4>2. Uploaded(b, w)
        BY <3>2, <4>1, KeptIsUploaded DEF SameTable
      <4>3. QED
        BY <3>1, <3>2, <3>3, <4>2
    <3>4. CASE w.alias
      <4>1. k # Len(UploadList)
        <5>1. "rope_coefficients" \in Regions
          BY DEF Regions, Always
        <5>2. PICK rope : rope = RegionNamed("rope_coefficients")
          OBVIOUS
        <5>3. ~rope.alias
          BY <2>2, <5>1, <5>2, RegionIsInside DEF ItemsAreSound
        <5>4. k = Len(UploadList) => w = rope
          BY <2>3, <3>1, <5>2
        <5>5. QED
          BY <3>4, <5>3, <5>4
      <4>2. k \in 1..Len(arenas.weights.items) /\ w = arenas.weights.items[k] /\ b = "weights"
        BY <2>3, <2>4, <3>1, <3>2, <4>1
      <4>3. PICK f : f = arenas.weights.items[1]
        OBVIOUS
      <4>4. SameTable(w, f)
        BY <2>1, <3>4, <4>2, <4>3 DEF LoadInv, AliasesAreFirst, SameTable
      <4>5. f.name = "token_embd" /\ ~f.alias
        <5>1. 1 \in 1..Len(arenas.weights.items)
          BY <4>2
        <5>2. WeightNames[1] = "token_embd"
          BY StartsAssumption, ConcatProperties, LenProperties DEF WeightNames
        <5>3. Read("token_embd")
          BY DEF Read
        <5>4. QED
          BY <2>1, <4>3, <5>1, <5>2, <5>3 DEF WeightsAreListed
      <4>6. k # 1
        BY <3>4, <4>2, <4>3, <4>5
      <4>7. 1 \in 1..(item - 1) /\ UploadList[1] = f /\ BufferAt(1) = "weights"
        BY <2>3, <2>4, <4>2, <4>3, <4>6 DEF BufferAt
      <4>8. RowsAreKept("weights", f, f.rows)
        BY <2>5, <4>5, <4>7
      <4>9. PICK v : v = [w EXCEPT !.name = "token_embd"]
        OBVIOUS
      <4>10. v.name = f.name /\ SameTable(v, f)
        <5>1. w \in ItemSet
          BY <2>2, <4>2, ItemsOf, ElementOfSeq DEF ItemsAreSound, Buffers
        <5>2. QED
          BY <4>4, <4>5, <4>9, <5>1 DEF SameTable, ItemSet
      <4>11. Uploaded("weights", v)
        BY <4>8, <4>10, KeptIsUploaded
      <4>12. QED
        BY <3>1, <3>2, <3>4, <4>2, <4>9, <4>11
    <3>5. QED
      BY <3>3, <3>4
  <2>7. ASSUME pc = "ready"
        PROVE  /\ item = Len(UploadList) + 1 /\ memory.kv = "nan"
               /\ \A k \in DOMAIN arenas.workspace.items : LET r == arenas.workspace.items[k] IN
                    r.name # "rope_coefficients" =>
                      \A a \in 1..r.bytes : memory.workspace[r.offset + a] =
                                              Cell(IF r.name = "kv_block_table" THEN "unmapped" ELSE "zero", 0, 0)
    <3>1. item = Len(UploadList) + 1
      BY <2>1, <2>7 DEF LoadInv, UploadedSoFar, Loaded
    <3>2. /\ memory["kv"] = "nan"
          /\ \A k \in 1..Len(arenas.workspace.items) : LET r == arenas.workspace.items[k] IN
               r.name # "rope_coefficients" =>
                 \A a \in 1..r.bytes : memory["workspace"][r.offset + a] = Cleared(r)
      BY <2>1, <2>7 DEF LoadInv, WillBeCleared, Loaded
    <3>3. DOMAIN arenas.workspace.items = 1..Len(arenas.workspace.items)
      BY <2>2, ItemsOf DEF ItemsAreSound, Buffers
    <3>4. QED
      BY <3>1, <3>2, <3>3 DEF Cleared
  <2>8. QED
    BY <2>6, <2>7 DEF LoadedIsExact
<1>4. QED
  BY <1>1, <1>2, <1>3, StartupInvariant, PTL DEF Spec
=============================================================================
