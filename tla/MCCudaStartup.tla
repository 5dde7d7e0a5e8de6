---------------------------- MODULE MCCudaStartup ----------------------------
(* Files of one layer, two of them good and each of the others with one     *)
(* fault, and configurations of both layouts that start or do not.          *)
EXTENDS DeviceForward

MCLayerNames == <<"attn_norm", "attn_q_norm", "attn_k_norm", "ffn_norm", "attn_q", "attn_k",
                  "attn_v", "attn_output", "ffn_gate", "ffn_up", "ffn_down">>

Dims(embedding) == [embedding |-> embedding, heads |-> 2, kv_heads |-> 1, head_dim |-> 2,
                    feed_forward |-> 1, trained |-> 4]

Tensor(rows, columns, type) == [rows |-> rows, columns |-> columns, type |-> type,
                                bytes |-> rows * columns * (IF type = "F32" THEN 4 ELSE 2)]

\* One after the other, in the order of the plan.
Tensors(vocabulary, embedding, tied) ==
  LET shapes == [
        token_embd |-> Tensor(vocabulary, embedding, "F32"), output |-> Tensor(vocabulary, embedding, "F32"),
        output_norm |-> Tensor(1, embedding, "F32"), attn_norm |-> Tensor(1, embedding, "F32"),
        attn_q_norm |-> Tensor(1, 2, "F32"), attn_k_norm |-> Tensor(1, 2, "F32"),
        ffn_norm |-> Tensor(1, embedding, "F32"), attn_q |-> Tensor(4, embedding, "F16"),
        attn_k |-> Tensor(2, embedding, "F16"), attn_v |-> Tensor(2, embedding, "F16"),
        attn_output |-> Tensor(embedding, 4, "F16"), ffn_gate |-> Tensor(1, embedding, "F16"),
        ffn_up |-> Tensor(1, embedding, "F16"), ffn_down |-> Tensor(embedding, 1, "F16")]
      order == <<"token_embd", "output_norm">> \o MCLayerNames \o (IF tied THEN <<>> ELSE <<"output">>)
      before(n) == {order[k] : k \in 1..(CHOOSE i \in DOMAIN order : order[i] = n) - 1}
  IN [n \in Range(order) |->
        shapes[n] @@ [offset |-> MapThenSumSet(LAMBDA x : shapes[x].bytes, before(n))]]

File(tensors, embedding) ==
  [base |-> 8, size |-> 8 + MapThenSumSet(LAMBDA x : tensors[x].bytes, DOMAIN tensors),
   tensors |-> tensors, dims |-> Dims(embedding), free |-> 8000, reserve |-> 100]

Good   == File(Tensors(3, 2, TRUE), 2)
Untied == File(Tensors(3, 2, FALSE), 2)
Short  == [Good EXCEPT !.size = @ - 1]
\* base + offset + bytes wraps around to 20.
Beyond == [Good EXCEPT !.tensors["attn_norm"].offset = 8196]
\* Rows of 2050 columns, whose size wraps around to 8 bytes.
Wrapped == [Good EXCEPT !.tensors["attn_norm"].columns = 2050]
Wide   == File(Tensors(1, 8, TRUE), 8)
Large  == File(Tensors(500, 2, TRUE), 2)
Crowded == [Good EXCEPT !.free = 600]
Engine(context, length, active, batch, block) ==
  [context_tokens |-> context, max_model_len |-> length, max_active |-> active, batch_tokens |-> batch,
   prefill_chunk |-> 1, block_size |-> block, queue_capacity |-> 1, event_buffer_size |-> 1,
   prefix_cache_entries |-> 0, prefix_cache_tokens |-> 0]
Model(layout, precision) == [layout |-> layout, precision |-> precision, device |-> 0, gpu_layers |-> 0]

F32    == <<Engine(3, 3, 1, 1, 1), Model("contiguous", "f32")>>
F16    == <<Engine(3, 3, 1, 1, 1), Model("contiguous", "f16")>>
Paged  == <<Engine(16, 3, 1, 1, 16), Model("paged", "f32")>>
Excess == <<Engine(32, 3, 1, 1, 16), Model("paged", "f32")>>
Uneven == <<Engine(16, 3, 1, 1, 8), Model("paged", "f32")>>
Beside == <<Engine(4, 3, 1, 1, 1), Model("contiguous", "f32")>>

\* Tokens without logits are the second without one copy.
MCModes == {{}, {"tokens", "logits"}}

MCStarts ==
  {<<Good, f, TRUE>> : f \in {Paged, Excess, Uneven, Beside}}
  \cup {<<Good, F16, FALSE>>, <<Good, Uneven, FALSE>>, <<Untied, F32, TRUE>>, <<Wide, F32, TRUE>>, <<Wide, F16, TRUE>>}
  \cup {<<f, F32, TRUE>> : f \in {Short, Beyond, Wrapped, Large, Crowded}}
=============================================================================
