-------------------------------- MODULE Config --------------------------------
(***************************************************************************)
(* Which configurations start: EngineConfig::validate and                  *)
(* validate_mini_cuda_config of src/src/config.cpp, the capacity contract  *)
(* of the CUDA KV cache (kv_layout.h) and the comparison of the Engine's   *)
(* constructor with what its runner can do.  An engine configuration is a  *)
(* record `c` of the fields of EngineConfig, a model configuration a       *)
(* record `m` of those of ModelConfig that a check reads.                  *)
(***************************************************************************)
EXTENDS Integers

IntMax == 2147483647
KvPageTokens == 16

UpTo(most) == 1..most

Valid(c) ==
  /\ c.context_tokens \in UpTo(IntMax) /\ c.block_size > 0
  /\ c.context_tokens % c.block_size = 0
  /\ c.max_model_len \in 2..c.context_tokens
  /\ c.max_active \in UpTo(128)
  /\ c.batch_tokens \in c.max_active..c.context_tokens
  /\ c.prefill_chunk \in UpTo(c.batch_tokens)
  /\ {c.queue_capacity, c.event_buffer_size} \subseteq UpTo(65536)
  /\ c.prefix_cache_entries <= 128 /\ c.prefix_cache_tokens <= c.context_tokens
  /\ c.prefix_cache_entries > 0 => c.prefix_cache_tokens >= c.block_size

Blocks(tokens, size) == (tokens + size - 1) \div size

\* Slip: a paged capacity is not held against whole pages.
KvRefusedWithoutBound(layout, sequences, length, capacity, page) ==
  \/ sequences \notin UpTo(4) \/ length \notin UpTo(2048) \/ page # KvPageTokens
  \/ layout = "contiguous" /\ capacity \notin {0, sequences * length}
  \/ layout = "paged" /\ capacity = 0

\* checked_kv_capacity(): whether it throws, and what it returns.  The
\* capacity that is asked for may be 0 when the layout is contiguous.
KvRefused(layout, sequences, length, capacity, page) ==
  \/ sequences \notin UpTo(4) \/ length \notin UpTo(2048) \/ page # KvPageTokens
  \/ layout = "contiguous" /\ capacity \notin {0, sequences * length}
  \/ layout = "paged" /\ ( \/ capacity = 0 \/ capacity % page # 0
                           \/ capacity > sequences * Blocks(length, page) * page )

KvCapacity(layout, sequences, length, capacity) ==
  IF layout = "contiguous" THEN sequences * length ELSE capacity

\* What MiniCudaRunner asks the CUDA runtime for.
Asked(c, m) == IF m.layout = "paged" THEN c.context_tokens ELSE 0

\* The limits that the scratch of the GPU allows.
MiniCudaAccepts(c, m) ==
  /\ m.precision = "f32" /\ Valid(c)
  /\ m.device >= 0 /\ m.gpu_layers = 0
  /\ c.max_active <= 4 /\ c.batch_tokens <= 128 /\ c.max_model_len <= 2048
  /\ c.prefix_cache_entries = 0 /\ c.prefix_cache_tokens = 0
  /\ IF m.layout = "paged"
     THEN ~KvRefused("paged", c.max_active, c.max_model_len, c.context_tokens, c.block_size)
     ELSE c.context_tokens <= c.max_active * c.max_model_len

\* MiniCudaRunner::capabilities(), and the Engine's comparison with it.
CudaCapabilities(c, m) ==
  [max_sequences |-> c.max_active, max_batch_tokens |-> c.batch_tokens,
   max_model_len |-> c.max_model_len, prefix_copy |-> FALSE,
   kv_page_tokens |-> IF m.layout = "paged" THEN KvPageTokens ELSE 0]

EngineAccepts(c, capabilities) ==
  /\ Valid(c)
  /\ capabilities.kv_page_tokens # 0 => c.block_size = capabilities.kv_page_tokens
  /\ c.max_active + c.prefix_cache_entries <= capabilities.max_sequences
  /\ c.batch_tokens <= capabilities.max_batch_tokens
  /\ c.max_model_len <= capabilities.max_model_len
  /\ ~capabilities.prefix_copy => c.prefix_cache_entries = 0 /\ c.prefix_cache_tokens = 0

-----------------------------------------------------------------------------
Credits(c) == c.context_tokens \div c.block_size

\* The longest request that submit() lets in can be admitted by an idle
\* engine: credits for all of its tokens exist.
LongestRequestFits(c) == Blocks(c.max_model_len, c.block_size) <= Credits(c)

\* The credits are covered by the GPU's KV cache, for any sequences that use
\* them: page by page when it is paged, and by its rows when it is not.
CreditsAreCovered(c, m) ==
  LET capacity == KvCapacity(m.layout, c.max_active, c.max_model_len, Asked(c, m))
  IN /\ c.block_size * Credits(c) <= capacity
     /\ m.layout = "paged" =>
          /\ c.block_size = KvPageTokens /\ Credits(c) = capacity \div KvPageTokens
          /\ Credits(c) \in UpTo(512)
          /\ Credits(c) <= c.max_active * Blocks(c.max_model_len, KvPageTokens)

\* What the models of the Engine, the Scheduler and the page table assume of
\* their constants is true of every configuration that starts.
Sound(c, m) ==
  /\ c.max_active <= c.batch_tokens /\ c.prefill_chunk \in 1..c.batch_tokens
  /\ c.prefix_cache_entries > 0 => c.prefix_cache_tokens >= c.block_size
  /\ LongestRequestFits(c) /\ CreditsAreCovered(c, m)
=============================================================================
