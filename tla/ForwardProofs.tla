---------------------------- MODULE ForwardProofs ----------------------------
(***************************************************************************)
(* What a forward of the GPU runtime means, for any number of layers, in   *)
(* both precisions and whatever is asked of it: what it returns and what   *)
(* it leaves in the caches are the values that the model's formulas name,  *)
(* and its status tells of every number that overflowed.                   *)
(***************************************************************************)
EXTENDS StartupProofs

-----------------------------------------------------------------------------
(***************************************************************************)
(* A forward as a walk from stage to stage.  In the beginning: 1 nothing,  *)
(* 2 the status is reset, 3 to 6 the inputs are there.  In a layer: 7 its  *)
(* input, 8 normalized, 9 rounded, 10 to 12 multiplied, 13 and 14 normal-  *)
(* ized, 15 and 16 turned, 17 stored, 18 to 20 attention, 21 rounded, 22   *)
(* projected, 23 added, 24 normalized, 25 rounded, 26 and 27 multiplied,   *)
(* 28 activated, 29 rounded, 30 projected, 31 added, 32 checked, which is  *)
(* 7 of the next layer.  In the selection, from 7: 33 normalized, 34       *)
(* gathered, 35 rounded, 36 logits, 37 the choice, 38 and 39 copied, and   *)
(* 40 the end.  Nothing is rounded unless the weights are F16.             *)
(***************************************************************************)
Rounded(t) == IF Half THEN t ELSE t - 1
Chooses == "tokens" \in asked

BeginningSteps ==
  {<<1, Op("reset", "none", <<>>, "status"), 2>>, <<2, Upload("tokens"), 3>>, <<3, Upload("positions"), 4>>,
   <<4, Upload("slots"), 5>>,
   <<IF Chooses THEN 6 ELSE 5, Op("gather", "token_embd", <<"tokens">>, "hidden"), 32>>}
  \cup (IF "table" \in asked THEN {<<1, Upload("kv_block_table"), 1>>} ELSE {})
  \cup (IF Chooses THEN {<<5, Upload("selected_rows"), 6>>} ELSE {})

AttentionSteps ==
  {<<7, Op("norm", "attn_norm", <<"hidden">>, "normalized"), 8>>,
   <<Rounded(9), Multiply("normalized", "attn_q", "query"), 10>>,
   <<10, Multiply("normalized", "attn_k", "key"), 11>>, <<11, Multiply("normalized", "attn_v", "value"), 12>>,
   <<12, Op("norm", "attn_q_norm", <<"query">>, "query"), 13>>,
   <<13, Op("norm", "attn_k_norm", <<"key">>, "key"), 14>>,
   <<14, Op("rope", "none", <<"query", "positions">>, "query"), 15>>,
   <<15, Op("rope", "none", <<"key", "positions">>, "key"), 16>>,
   <<16, Op("store", "none", <<"key", "value", "slots", "positions">>, "kv"), 17>>,
   <<17, Op("qk", "none", <<"kv", "query", "slots", "positions">>, "scores"), 18>>,
   <<18, Op("softmax", "none", <<"scores", "slots", "positions">>, "probabilities"), 19>>,
   <<19, Op("pv", "none", <<"kv", "probabilities", "slots", "positions">>, "attention"), 20>>,
   <<Rounded(21), Multiply("attention", "attn_output", "projected"), 22>>,
   <<22, Op("add", "none", <<"hidden", "projected">>, "hidden"), 23>>,
   <<23, Op("norm", "ffn_norm", <<"hidden">>, "normalized"), 24>>}

FeedForwardSteps ==
  {<<Rounded(25), Multiply("normalized", "ffn_gate", "gate"), 26>>, <<26, Multiply("normalized", "ffn_up", "up"), 27>>,
   <<27, Op("swiglu", "none", <<"gate", "up">>, "gate"), 28>>,
   <<Rounded(29), Multiply("gate", "ffn_down", "down"), 30>>,
   <<30, Op("add", "none", <<"hidden", "down">>, "hidden"), 31>>,
   <<31, Op("finite", "none", <<"hidden">>, "status"), 32>>}

SelectionSteps ==
  {<<7, Op("norm", "output_norm", <<"hidden">>, "normalized"), 33>>,
   <<33, Op("gather", "none", <<"normalized", "selected_rows">>, "selected_hidden"), 34>>,
   <<Rounded(35), Multiply("selected_hidden", "output", "logits"), 36>>,
   <<36, Op("argmax", "none", <<"logits">>, "tokens"), 37>>, <<37, Download("tokens", "host"), 38>>}
  \cup (IF "logits" \in asked THEN {<<38, Download("logits", "result"), 39>>} ELSE {})

Cast(t, input, u) == IF Half THEN {<<t, Op("cast", "none", <<input>>, "matrix_input"), u>>} ELSE {}

CastSteps ==
  Cast(8, "normalized", 9) \cup Cast(20, "attention", 21) \cup Cast(24, "normalized", 25) \cup Cast(28, "gate", 29)

StepsOf(l) ==
  IF l = 0 THEN BeginningSteps
  ELSE IF l <= Layers THEN AttentionSteps \cup FeedForwardSteps \cup CastSteps
  ELSE IF Chooses THEN SelectionSteps \cup Cast(34, "selected_hidden", 35) ELSE {}

\* The values that the regions hold, from which stage to which.  What a layer
\* leaves behind is the hidden value of the next.
Lives ==
  {<<"tokens", "tokens", 3, 6>>, <<"positions", "positions", 4, 39>>, <<"slots", "slots", 5, 39>>,
   <<"hidden", "hidden", 7, 22>>, <<"normalized", "input", 8, 11>>,
   <<"query", "q", 10, 12>>, <<"key", "k", 11, 13>>, <<"value", "v", 12, 16>>,
   <<"query", "even_q", 13, 14>>, <<"key", "even_k", 14, 15>>,
   <<"query", "turned_q", 15, 17>>, <<"key", "turned_k", 16, 16>>,
   <<"scores", "likeness", 18, 18>>, <<"probabilities", "shares", 19, 19>>, <<"attention", "mixed", 20, 20>>,
   <<"projected", "heeded", 22, 22>>, <<"hidden", "attended", 23, 30>>, <<"normalized", "ffn_input", 24, 26>>,
   <<"gate", "opened", 26, 27>>, <<"up", "raised", 27, 27>>, <<"gate", "passed", 28, 28>>,
   <<"down", "lowered", 30, 30>>, <<"hidden", "left", 31, 32>>,
   <<"normalized", "last", 33, 33>>, <<"selected_hidden", "chosen", 34, 34>>,
   <<"logits", "answers", 36, 39>>, <<"tokens", "best", 37, 39>>}
  \cup (IF Chooses THEN {<<"selected_rows", "selected_rows", 6, 39>>} ELSE {})
  \cup (IF Half
        THEN {<<"matrix_input", "input", 9, 11>>, <<"matrix_input", "mixed", 21, 21>>,
              <<"matrix_input", "ffn_input", 25, 26>>, <<"matrix_input", "passed", 29, 29>>,
              <<"matrix_input", "chosen", 35, 35>>}
        ELSE {})

\* Where a number that is not finite stays until the end, and where it will
\* yet be recorded.
Carriers ==
  {<<"hidden", 7, 40>>, <<"kv", 7, 40>>, <<"matrix_input", 9, 9>>, <<"query", 10, 17>>, <<"key", 11, 16>>,
   <<"value", 12, 16>>, <<"scores", 18, 18>>, <<"probabilities", 19, 19>>, <<"attention", 20, 20>>,
   <<"matrix_input", 21, 21>>, <<"projected", 22, 22>>, <<"matrix_input", 25, 25>>, <<"gate", 26, 28>>,
   <<"up", 27, 27>>, <<"matrix_input", 29, 29>>, <<"down", 30, 30>>, <<"matrix_input", 35, 35>>,
   <<"logits", 36, 40>>}

Witnesses ==
  {<<"query", 10, 17>>, <<"key", 11, 16>>, <<"value", 12, 16>>, <<"projected", 22, 22>>, <<"hidden", 23, 31>>,
   <<"gate", 26, 28>>, <<"up", 27, 27>>, <<"down", 30, 30>>, <<"logits", 36, 36>>}

Among(set, x, t) == \E y \in set : y[1] = x /\ t \in y[2]..y[3]

\* No step leaves such a number behind.
Spots(t, kernel, reads, writes, u) ==
  /\ \A x : Among(Carriers, x, t) =>
       \/ Among(Carriers, x, u) /\ (x # writes \/ x \in reads \/ x = "kv")
       \/ x \in reads /\ Among(Carriers, writes, u)
  /\ \A x : Among(Witnesses, x, t) =>
       \/ kernel \in Watching /\ x \in reads
       \/ Among(Witnesses, x, u) /\ (x # writes \/ x \in reads)
       \/ x \in reads /\ Among(Witnesses, writes, u)
  /\ kernel \in Overflowing =>
       Among(Carriers, writes, u) /\ (kernel \in Watching \/ Among(Witnesses, writes, u))

\* A region holds a value at a stage; a step from one stage to another leaves
\* the values as they are meant to be, if it writes this one.
Held(region, name, t) ==
  IF region = "kv" THEN name = "rows" /\ t \in 17..19
  ELSE \E x \in Lives : x[1] = region /\ x[2] = name /\ t \in x[3]..x[4]

Leaves(t, writes, name, u) ==
  \A x \in Lives : u \in x[3]..x[4] => \/ x[1] # writes /\ t \in x[3]..x[4]
                                       \/ x[1] = writes /\ x[2] = name

\* A kernel takes an operand of one of the model's formulas, and makes what
\* the formula names.
Takes(region, name, t, kernel) ==
  Held(region, name, t) /\ (region = "matrix_input" <=> (Half /\ kernel = "multiply"))

Makes(t, writes, value, u) ==
  /\ writes \notin {"kv", "status", "matrix_input"}
  /\ Leaves(t, writes, IF value = "hidden" THEN "left" ELSE value, u)

Obeys(t, o, u) ==
  \E f \in Formulas :
    /\ f.kernel = o.kernel /\ f.weight = o.weight /\ DOMAIN f.of = DOMAIN o.reads
    /\ \A k \in DOMAIN f.of : Takes(o.reads[k], f.of[k], t, o.kernel)
    /\ Makes(t, o.writes, f.value, u)

\* What other steps do.
Uploads(t, o, u, l) ==
  /\ o.kernel = "upload" /\ o.writes \in Inputs \cup {"kv_block_table"}
  /\ l = 0 /\ t \in 1..6 /\ u \in 1..6 /\ (t = 1 <=> u = 1) /\ Leaves(t, o.writes, o.writes, u)

Casts(t, o, u) ==
  /\ o.kernel = "cast" /\ o.writes = "matrix_input"
  /\ \E input, value : /\ o.reads = <<input>> /\ input \notin {"kv", "matrix_input"} /\ value # "left"
                       /\ Held(input, value, t) /\ Leaves(t, "matrix_input", value, u)

Stores(t, o, u, l) ==
  /\ o.kernel = "store" /\ o.writes = "kv" /\ t = 16 /\ u = 17 /\ l \in 1..Layers
  /\ o.reads = <<"key", "value", "slots", "positions">>

Copies(t, o, u, l) ==
  /\ o.kernel = "download" /\ o.reads = <<o.writes>> /\ l = Layers + 1 /\ l \notin 1..Layers
  /\ \/ o.writes = "tokens" /\ t = 37 /\ u = 38
     \/ o.writes = "logits" /\ t = 38 /\ u = 39

Spares(t, o, u, l) ==
  /\ Leaves(t, "none", "none", u)
  /\ \/ o.kernel = "reset" /\ t = 1 /\ u = 2
     \/ o.kernel = "finite" /\ o.writes = "status" /\ t = 31 /\ u = 32
     \/ Stores(t, o, u, l) \/ Copies(t, o, u, l)

\* Within a layer, before or after the store.
Moves(t, u, l) == t \in 2..37 /\ u \in 2..37 /\ (l \in 1..Layers => (t >= 17 <=> u >= 17))

Follows(t, o, u, l) ==
  /\ Spots(t, o.kernel, Range(o.reads), o.writes, u)
  /\ \/ Uploads(t, o, u, l) \/ Spares(t, o, u, l)
     \/ Moves(t, u, l) /\ (Casts(t, o, u) \/ Obeys(t, o, u))

LEMMA HeldIn ==
  ASSUME NEW region, NEW name, NEW a, NEW b, NEW t, <<region, name, a, b>> \in Lives, t \in a..b, region # "kv"
  PROVE  Held(region, name, t)
BY DEF Held

LEMMA CopyFields ==
  /\ \A name : /\ Upload(name).kernel = "upload" /\ Upload(name).reads = <<>>
               /\ Upload(name).writes = name
  /\ \A name, host : /\ Download(name, host).kernel = "download" /\ Download(name, host).reads = <<name>>
                     /\ Download(name, host).writes = name
BY DEF Upload, Download, Op

\* A formula's operands are where its kernel takes them from.
LEMMA Computes ==
  ASSUME NEW t, NEW u, NEW l, Moves(t, u, l),
         NEW value, NEW kernel, NEW weight, NEW of, Formula(value, kernel, weight, of) \in Formulas,
         NEW reads, NEW writes, DOMAIN reads = DOMAIN of,
         \A k \in DOMAIN of : Takes(reads[k], of[k], t, kernel),
         Makes(t, writes, value, u), Spots(t, kernel, Range(reads), writes, u)
  PROVE  Follows(t, Op(kernel, weight, reads, writes), u, l)
<1> DEFINE o == Op(kernel, weight, reads, writes)
<1>1. o.kernel = kernel /\ o.weight = weight /\ o.reads = reads /\ o.writes = writes
  BY OpFields
<1>2. PICK f \in Formulas : f = Formula(value, kernel, weight, of)
  OBVIOUS
<1>3. f.value = value /\ f.kernel = kernel /\ f.weight = weight /\ f.of = of
  BY <1>2 DEF Formula
<1> HIDE DEF o
<1>4. Obeys(t, o, u)
  BY <1>1, <1>3 DEF Obeys
<1>5. QED
  BY <1>1, <1>4 DEF Follows, o

LEMMA ComputesOne ==
  ASSUME NEW t, NEW u, NEW l, Moves(t, u, l),
         NEW value, NEW kernel, NEW weight, NEW n1,
         Formula(value, kernel, weight, <<n1>>) \in Formulas,
         NEW r1, NEW writes,
         Takes(r1, n1, t, kernel),
         Makes(t, writes, value, u), Spots(t, kernel, {r1}, writes, u)
  PROVE  Follows(t, Op(kernel, weight, <<r1>>, writes), u, l)
<1>1. PICK reads, of : reads = <<r1>> /\ of = <<n1>>
  OBVIOUS
<1>2. /\ DOMAIN reads = {1} /\ DOMAIN of = {1} /\ Range(reads) = {r1}
      /\ reads[1] = r1 /\ of[1] = n1
  BY <1>1, RangeOfFew
<1>3. ASSUME NEW k \in DOMAIN of PROVE Takes(reads[k], of[k], t, kernel)
  BY <1>2
<1>4. DOMAIN reads = DOMAIN of
  BY <1>2
<1>5. QED
  BY <1>1, <1>2, <1>3, <1>4, Computes

LEMMA ComputesTwo ==
  ASSUME NEW t, NEW u, NEW l, Moves(t, u, l),
         NEW value, NEW kernel, NEW weight, NEW n1, NEW n2,
         Formula(value, kernel, weight, <<n1, n2>>) \in Formulas,
         NEW r1, NEW r2, NEW writes,
         Takes(r1, n1, t, kernel), Takes(r2, n2, t, kernel),
         Makes(t, writes, value, u), Spots(t, kernel, {r1, r2}, writes, u)
  PROVE  Follows(t, Op(kernel, weight, <<r1, r2>>, writes), u, l)
<1>1. PICK reads, of : reads = <<r1, r2>> /\ of = <<n1, n2>>
  OBVIOUS
<1>2. /\ DOMAIN reads = {1, 2} /\ DOMAIN of = {1, 2} /\ Range(reads) = {r1, r2}
      /\ reads[1] = r1 /\ of[1] = n1 /\ reads[2] = r2 /\ of[2] = n2
  BY <1>1, RangeOfFew
<1>3. ASSUME NEW k \in DOMAIN of PROVE Takes(reads[k], of[k], t, kernel)
  BY <1>2
<1>4. DOMAIN reads = DOMAIN of
  BY <1>2
<1>5. QED
  BY <1>1, <1>2, <1>3, <1>4, Computes

LEMMA ComputesThree ==
  ASSUME NEW t, NEW u, NEW l, Moves(t, u, l),
         NEW value, NEW kernel, NEW weight, NEW n1, NEW n2, NEW n3,
         Formula(value, kernel, weight, <<n1, n2, n3>>) \in Formulas,
         NEW r1, NEW r2, NEW r3, NEW writes,
         Takes(r1, n1, t, kernel), Takes(r2, n2, t, kernel), Takes(r3, n3, t, kernel),
         Makes(t, writes, value, u), Spots(t, kernel, {r1, r2, r3}, writes, u)
  PROVE  Follows(t, Op(kernel, weight, <<r1, r2, r3>>, writes), u, l)
<1>1. PICK reads, of : reads = <<r1, r2, r3>> /\ of = <<n1, n2, n3>>
  OBVIOUS
<1>2. /\ DOMAIN reads = {1, 2, 3} /\ DOMAIN of = {1, 2, 3} /\ Range(reads) = {r1, r2, r3}
      /\ reads[1] = r1 /\ of[1] = n1 /\ reads[2] = r2 /\ of[2] = n2 /\ reads[3] = r3 /\ of[3] = n3
  BY <1>1, RangeOfFew
<1>3. ASSUME NEW k \in DOMAIN of PROVE Takes(reads[k], of[k], t, kernel)
  BY <1>2
<1>4. DOMAIN reads = DOMAIN of
  BY <1>2
<1>5. QED
  BY <1>1, <1>2, <1>3, <1>4, Computes

LEMMA ComputesFour ==
  ASSUME NEW t, NEW u, NEW l, Moves(t, u, l),
         NEW value, NEW kernel, NEW weight, NEW n1, NEW n2, NEW n3, NEW n4,
         Formula(value, kernel, weight, <<n1, n2, n3, n4>>) \in Formulas,
         NEW r1, NEW r2, NEW r3, NEW r4, NEW writes,
         Takes(r1, n1, t, kernel), Takes(r2, n2, t, kernel), Takes(r3, n3, t, kernel), Takes(r4, n4, t, kernel),
         Makes(t, writes, value, u), Spots(t, kernel, {r1, r2, r3, r4}, writes, u)
  PROVE  Follows(t, Op(kernel, weight, <<r1, r2, r3, r4>>, writes), u, l)
<1>1. PICK reads, of : reads = <<r1, r2, r3, r4>> /\ of = <<n1, n2, n3, n4>>
  OBVIOUS
<1>2. /\ DOMAIN reads = {1, 2, 3, 4} /\ DOMAIN of = {1, 2, 3, 4} /\ Range(reads) = {r1, r2, r3, r4}
      /\ reads[1] = r1 /\ of[1] = n1 /\ reads[2] = r2 /\ of[2] = n2 /\ reads[3] = r3 /\ of[3] = n3 /\ reads[4] = r4 /\ of[4] = n4
  BY <1>1, RangeOfFew
<1>3. ASSUME NEW k \in DOMAIN of PROVE Takes(reads[k], of[k], t, kernel)
  BY <1>2
<1>4. DOMAIN reads = DOMAIN of
  BY <1>2
<1>5. QED
  BY <1>1, <1>2, <1>3, <1>4, Computes

LEMMA Rounds ==
  ASSUME NEW t, NEW u, NEW l, Moves(t, u, l), NEW input, input \notin {"kv", "matrix_input"}, NEW value, value # "left",
         Held(input, value, t), Leaves(t, "matrix_input", value, u), Spots(t, "cast", {input}, "matrix_input", u)
  PROVE  Follows(t, Op("cast", "none", <<input>>, "matrix_input"), u, l)
<1> DEFINE o == Op("cast", "none", <<input>>, "matrix_input")
<1>1. o.kernel = "cast" /\ o.reads = <<input>> /\ o.writes = "matrix_input" /\ Range(o.reads) = {input}
  BY OpFields, RangeOfFew
<1> HIDE DEF o
<1>2. Casts(t, o, u)
  BY <1>1 DEF Casts
<1>3. QED
  BY <1>1, <1>2 DEF Follows, o

LEMMA AttentionFollows ==
  ASSUME NEW l \in 1..Layers, NEW e \in AttentionSteps
  PROVE  Follows(e[1], e[2], e[3], l)
<1>1. Follows(7, Op("norm", "attn_norm", <<"hidden">>, "normalized"), 8, l)
  <2>1. Takes("hidden", "hidden", 7, "norm")
    <3>1. <<"hidden", "hidden", 7, 22>> \in Lives
      BY DEF Lives
    <3>2. QED
      BY <3>1, HeldIn DEF Takes
  <2>2. Makes(7, "normalized", "input", 8)
    BY DEF Makes, Leaves, Lives
  <2>3. Spots(7, "norm", {"hidden"}, "normalized", 8)
    BY DEF Spots, Among, Carriers, Witnesses, Watching, Overflowing
  <2>4. Formula("input", "norm", "attn_norm", <<"hidden">>) \in Formulas
    BY DEF Formulas, Norm
  <2>5. Moves(7, 8, l)
    BY SMT DEF Moves
  <2>6. QED
    BY Zenon, <2>1, <2>2, <2>3, <2>4, <2>5, ComputesOne
<1>2. Follows(Rounded(9), Multiply("normalized", "attn_q", "query"), 10, l)
  <2>1. Takes(Prepared("normalized"), "input", Rounded(9), "multiply")
    <3>1. <<"normalized", "input", 8, 11>> \in Lives
      BY DEF Lives
    <3>2. Half => <<"matrix_input", "input", 9, 11>> \in Lives
      BY DEF Lives
    <3>3. QED
      BY <3>1, <3>2, HeldIn DEF Prepared, Rounded, Takes
  <2>2. Makes(Rounded(9), "query", "q", 10)
    BY DEF Makes, Leaves, Lives, Rounded
  <2>3. Spots(Rounded(9), "multiply", {Prepared("normalized")}, "query", 10)
    BY DEF Spots, Among, Carriers, Witnesses, Watching, Overflowing, Rounded, Prepared
  <2>4. Formula("q", "multiply", "attn_q", <<"input">>) \in Formulas
    BY DEF Formulas, Product
  <2>5. Moves(Rounded(9), 10, l)
    BY SMT DEF Moves, Rounded
  <2>6. QED
    BY Zenon, <2>1, <2>2, <2>3, <2>4, <2>5, ComputesOne DEF Multiply
<1>3. Follows(10, Multiply("normalized", "attn_k", "key"), 11, l)
  <2>1. Takes(Prepared("normalized"), "input", 10, "multiply")
    <3>1. <<"normalized", "input", 8, 11>> \in Lives
      BY DEF Lives
    <3>2. Half => <<"matrix_input", "input", 9, 11>> \in Lives
      BY DEF Lives
    <3>3. QED
      BY <3>1, <3>2, HeldIn DEF Prepared, Rounded, Takes
  <2>2. Makes(10, "key", "k", 11)
    BY DEF Makes, Leaves, Lives
  <2>3. Spots(10, "multiply", {Prepared("normalized")}, "key", 11)
    BY DEF Spots, Among, Carriers, Witnesses, Watching, Overflowing, Prepared
  <2>4. Formula("k", "multiply", "attn_k", <<"input">>) \in Formulas
    BY DEF Formulas, Product
  <2>5. Moves(10, 11, l)
    BY SMT DEF Moves
  <2>6. QED
    BY Zenon, <2>1, <2>2, <2>3, <2>4, <2>5, ComputesOne DEF Multiply
<1>4. Follows(11, Multiply("normalized", "attn_v", "value"), 12, l)
  <2>1. Takes(Prepared("normalized"), "input", 11, "multiply")
    <3>1. <<"normalized", "input", 8, 11>> \in Lives
      BY DEF Lives
    <3>2. Half => <<"matrix_input", "input", 9, 11>> \in Lives
      BY DEF Lives
    <3>3. QED
      BY <3>1, <3>2, HeldIn DEF Prepared, Rounded, Takes
  <2>2. Makes(11, "value", "v", 12)
    BY DEF Makes, Leaves, Lives
  <2>3. Spots(11, "multiply", {Prepared("normalized")}, "value", 12)
    BY DEF Spots, Among, Carriers, Witnesses, Watching, Overflowing, Prepared
  <2>4. Formula("v", "multiply", "attn_v", <<"input">>) \in Formulas
    BY DEF Formulas, Product
  <2>5. Moves(11, 12, l)
    BY SMT DEF Moves
  <2>6. QED
    BY Zenon, <2>1, <2>2, <2>3, <2>4, <2>5, ComputesOne DEF Multiply
<1>5. Follows(12, Op("norm", "attn_q_norm", <<"query">>, "query"), 13, l)
  <2>1. Takes("query", "q", 12, "norm")
    <3>1. <<"query", "q", 10, 12>> \in Lives
      BY DEF Lives
    <3>2. QED
      BY <3>1, HeldIn DEF Takes
  <2>2. Makes(12, "query", "even_q", 13)
    BY DEF Makes, Leaves, Lives
  <2>3. Spots(12, "norm", {"query"}, "query", 13)
    BY DEF Spots, Among, Carriers, Witnesses, Watching, Overflowing
  <2>4. Formula("even_q", "norm", "attn_q_norm", <<"q">>) \in Formulas
    BY DEF Formulas, Norm
  <2>5. Moves(12, 13, l)
    BY SMT DEF Moves
  <2>6. QED
    BY Zenon, <2>1, <2>2, <2>3, <2>4, <2>5, ComputesOne
<1>6. Follows(13, Op("norm", "attn_k_norm", <<"key">>, "key"), 14, l)
  <2>1. Takes("key", "k", 13, "norm")
    <3>1. <<"key", "k", 11, 13>> \in Lives
      BY DEF Lives
    <3>2. QED
      BY <3>1, HeldIn DEF Takes
  <2>2. Makes(13, "key", "even_k", 14)
    BY DEF Makes, Leaves, Lives
  <2>3. Spots(13, "norm", {"key"}, "key", 14)
    BY DEF Spots, Among, Carriers, Witnesses, Watching, Overflowing
  <2>4. Formula("even_k", "norm", "attn_k_norm", <<"k">>) \in Formulas
    BY DEF Formulas, Norm
  <2>5. Moves(13, 14, l)
    BY SMT DEF Moves
  <2>6. QED
    BY Zenon, <2>1, <2>2, <2>3, <2>4, <2>5, ComputesOne
<1>7. Follows(14, Op("rope", "none", <<"query", "positions">>, "query"), 15, l)
  <2>1. Takes("query", "even_q", 14, "rope")
    <3>1. <<"query", "even_q", 13, 14>> \in Lives
      BY DEF Lives
    <3>2. QED
      BY <3>1, HeldIn DEF Takes
  <2>2. Takes("positions", "positions", 14, "rope")
    <3>1. <<"positions", "positions", 4, 39>> \in Lives
      BY DEF Lives
    <3>2. QED
      BY <3>1, HeldIn DEF Takes
  <2>3. Makes(14, "query", "turned_q", 15)
    BY DEF Makes, Leaves, Lives
  <2>4. Spots(14, "rope", {"query", "positions"}, "query", 15)
    BY DEF Spots, Among, Carriers, Witnesses, Watching, Overflowing
  <2>5. Formula("turned_q", "rope", "none", <<"even_q", "positions">>) \in Formulas
    BY DEF Formulas, Rotation
  <2>6. Moves(14, 15, l)
    BY SMT DEF Moves
  <2>7. QED
    BY Zenon, <2>1, <2>2, <2>3, <2>4, <2>5, <2>6, ComputesTwo
<1>8. Follows(15, Op("rope", "none", <<"key", "positions">>, "key"), 16, l)
  <2>1. Takes("key", "even_k", 15, "rope")
    <3>1. <<"key", "even_k", 14, 15>> \in Lives
      BY DEF Lives
    <3>2. QED
      BY <3>1, HeldIn DEF Takes
  <2>2. Takes("positions", "positions", 15, "rope")
    <3>1. <<"positions", "positions", 4, 39>> \in Lives
      BY DEF Lives
    <3>2. QED
      BY <3>1, HeldIn DEF Takes
  <2>3. Makes(15, "key", "turned_k", 16)
    BY DEF Makes, Leaves, Lives
  <2>4. Spots(15, "rope", {"key", "positions"}, "key", 16)
    BY DEF Spots, Among, Carriers, Witnesses, Watching, Overflowing
  <2>5. Formula("turned_k", "rope", "none", <<"even_k", "positions">>) \in Formulas
    BY DEF Formulas, Rotation
  <2>6. Moves(15, 16, l)
    BY SMT DEF Moves
  <2>7. QED
    BY Zenon, <2>1, <2>2, <2>3, <2>4, <2>5, <2>6, ComputesTwo
<1>9. Follows(16, Op("store", "none", <<"key", "value", "slots", "positions">>, "kv"), 17, l)
  <2>1. Leaves(16, "none", "none", 17)
    BY DEF Leaves, Lives
  <2>2. Spots(16, "store", {"key", "value", "slots", "positions"}, "kv", 17)
    BY DEF Spots, Among, Carriers, Witnesses, Watching, Overflowing
  <2>3. Range(<<"key", "value", "slots", "positions">>) = {"key", "value", "slots", "positions"}
    BY RangeOfFew
  <2>4. PICK o : o = Op("store", "none", <<"key", "value", "slots", "positions">>, "kv")
    OBVIOUS
  <2>5. o.kernel = "store" /\ o.reads = <<"key", "value", "slots", "positions">> /\ o.writes = "kv"
    BY <2>4, OpFields
  <2>6. Spares(16, o, 17, l)
    BY <2>1, <2>5 DEF Spares, Stores
  <2>7. Spots(16, o.kernel, Range(o.reads), o.writes, 17)
    BY <2>2, <2>3, <2>5
  <2>8. QED
    BY <2>4, <2>6, <2>7 DEF Follows
<1>10. Follows(17, Op("qk", "none", <<"kv", "query", "slots", "positions">>, "scores"), 18, l)
  <2>1. Takes("kv", "rows", 17, "qk")
    BY DEF Held, Takes
  <2>2. Takes("query", "turned_q", 17, "qk")
    <3>1. <<"query", "turned_q", 15, 17>> \in Lives
      BY DEF Lives
    <3>2. QED
      BY <3>1, HeldIn DEF Takes
  <2>3. Takes("slots", "slots", 17, "qk")
    <3>1. <<"slots", "slots", 5, 39>> \in Lives
      BY DEF Lives
    <3>2. QED
      BY <3>1, HeldIn DEF Takes
  <2>4. Takes("positions", "positions", 17, "qk")
    <3>1. <<"positions", "positions", 4, 39>> \in Lives
      BY DEF Lives
    <3>2. QED
      BY <3>1, HeldIn DEF Takes
  <2>5. Makes(17, "scores", "likeness", 18)
    BY DEF Makes, Leaves, Lives
  <2>6. Spots(17, "qk", {"kv", "query", "slots", "positions"}, "scores", 18)
    BY DEF Spots, Among, Carriers, Witnesses, Watching, Overflowing
  <2>7. Formula("likeness", "qk", "none", <<"rows", "turned_q", "slots", "positions">>) \in Formulas
    BY DEF Formulas, Attention
  <2>8. Moves(17, 18, l)
    BY SMT DEF Moves
  <2>9. QED
    BY Zenon, <2>1, <2>2, <2>3, <2>4, <2>5, <2>6, <2>7, <2>8, ComputesFour
<1>11. Follows(18, Op("softmax", "none", <<"scores", "slots", "positions">>, "probabilities"), 19, l)
  <2>1. Takes("scores", "likeness", 18, "softmax")
    <3>1. <<"scores", "likeness", 18, 18>> \in Lives
      BY DEF Lives
    <3>2. QED
      BY <3>1, HeldIn DEF Takes
  <2>2. Takes("slots", "slots", 18, "softmax")
    <3>1. <<"slots", "slots", 5, 39>> \in Lives
      BY DEF Lives
    <3>2. QED
      BY <3>1, HeldIn DEF Takes
  <2>3. Takes("positions", "positions", 18, "softmax")
    <3>1. <<"positions", "positions", 4, 39>> \in Lives
      BY DEF Lives
    <3>2. QED
      BY <3>1, HeldIn DEF Takes
  <2>4. Makes(18, "probabilities", "shares", 19)
    BY DEF Makes, Leaves, Lives
  <2>5. Spots(18, "softmax", {"scores", "slots", "positions"}, "probabilities", 19)
    BY DEF Spots, Among, Carriers, Witnesses, Watching, Overflowing
  <2>6. Formula("shares", "softmax", "none", <<"likeness", "slots", "positions">>) \in Formulas
    BY DEF Formulas, Attention
  <2>7. Moves(18, 19, l)
    BY SMT DEF Moves
  <2>8. QED
    BY Zenon, <2>1, <2>2, <2>3, <2>4, <2>5, <2>6, <2>7, ComputesThree
<1>12. Follows(19, Op("pv", "none", <<"kv", "probabilities", "slots", "positions">>, "attention"), 20, l)
  <2>1. Takes("kv", "rows", 19, "pv")
    BY DEF Held, Takes
  <2>2. Takes("probabilities", "shares", 19, "pv")
    <3>1. <<"probabilities", "shares", 19, 19>> \in Lives
      BY DEF Lives
    <3>2. QED
      BY <3>1, HeldIn DEF Takes
  <2>3. Takes("slots", "slots", 19, "pv")
    <3>1. <<"slots", "slots", 5, 39>> \in Lives
      BY DEF Lives
    <3>2. QED
      BY <3>1, HeldIn DEF Takes
  <2>4. Takes("positions", "positions", 19, "pv")
    <3>1. <<"positions", "positions", 4, 39>> \in Lives
      BY DEF Lives
    <3>2. QED
      BY <3>1, HeldIn DEF Takes
  <2>5. Makes(19, "attention", "mixed", 20)
    BY DEF Makes, Leaves, Lives
  <2>6. Spots(19, "pv", {"kv", "probabilities", "slots", "positions"}, "attention", 20)
    BY DEF Spots, Among, Carriers, Witnesses, Watching, Overflowing
  <2>7. Formula("mixed", "pv", "none", <<"rows", "shares", "slots", "positions">>) \in Formulas
    BY DEF Formulas, Attention
  <2>8. Moves(19, 20, l)
    BY SMT DEF Moves
  <2>9. QED
    BY Zenon, <2>1, <2>2, <2>3, <2>4, <2>5, <2>6, <2>7, <2>8, ComputesFour
<1>13. Follows(Rounded(21), Multiply("attention", "attn_output", "projected"), 22, l)
  <2>1. Takes(Prepared("attention"), "mixed", Rounded(21), "multiply")
    <3>1. <<"attention", "mixed", 20, 20>> \in Lives
      BY DEF Lives
    <3>2. Half => <<"matrix_input", "mixed", 21, 21>> \in Lives
      BY DEF Lives
    <3>3. QED
      BY <3>1, <3>2, HeldIn DEF Prepared, Rounded, Takes
  <2>2. Makes(Rounded(21), "projected", "heeded", 22)
    BY DEF Makes, Leaves, Lives, Rounded
  <2>3. Spots(Rounded(21), "multiply", {Prepared("attention")}, "projected", 22)
    BY DEF Spots, Among, Carriers, Witnesses, Watching, Overflowing, Rounded, Prepared
  <2>4. Formula("heeded", "multiply", "attn_output", <<"mixed">>) \in Formulas
    BY DEF Formulas, Product
  <2>5. Moves(Rounded(21), 22, l)
    BY SMT DEF Moves, Rounded
  <2>6. QED
    BY Zenon, <2>1, <2>2, <2>3, <2>4, <2>5, ComputesOne DEF Multiply
<1>14. Follows(22, Op("add", "none", <<"hidden", "projected">>, "hidden"), 23, l)
  <2>1. Takes("hidden", "hidden", 22, "add")
    <3>1. <<"hidden", "hidden", 7, 22>> \in Lives
      BY DEF Lives
    <3>2. QED
      BY <3>1, HeldIn DEF Takes
  <2>2. Takes("projected", "heeded", 22, "add")
    <3>1. <<"projected", "heeded", 22, 22>> \in Lives
      BY DEF Lives
    <3>2. QED
      BY <3>1, HeldIn DEF Takes
  <2>3. Makes(22, "hidden", "attended", 23)
    BY DEF Makes, Leaves, Lives
  <2>4. Spots(22, "add", {"hidden", "projected"}, "hidden", 23)
    BY DEF Spots, Among, Carriers, Witnesses, Watching, Overflowing
  <2>5. Formula("attended", "add", "none", <<"hidden", "heeded">>) \in Formulas
    BY DEF Formulas, Elementwise
  <2>6. Moves(22, 23, l)
    BY SMT DEF Moves
  <2>7. QED
    BY Zenon, <2>1, <2>2, <2>3, <2>4, <2>5, <2>6, ComputesTwo
<1>15. Follows(23, Op("norm", "ffn_norm", <<"hidden">>, "normalized"), 24, l)
  <2>1. Takes("hidden", "attended", 23, "norm")
    <3>1. <<"hidden", "attended", 23, 30>> \in Lives
      BY DEF Lives
    <3>2. QED
      BY <3>1, HeldIn DEF Takes
  <2>2. Makes(23, "normalized", "ffn_input", 24)
    BY DEF Makes, Leaves, Lives
  <2>3. Spots(23, "norm", {"hidden"}, "normalized", 24)
    BY DEF Spots, Among, Carriers, Witnesses, Watching, Overflowing
  <2>4. Formula("ffn_input", "norm", "ffn_norm", <<"attended">>) \in Formulas
    BY DEF Formulas, Norm
  <2>5. Moves(23, 24, l)
    BY SMT DEF Moves
  <2>6. QED
    BY Zenon, <2>1, <2>2, <2>3, <2>4, <2>5, ComputesOne
<1>16. QED
  BY <1>1, <1>2, <1>3, <1>4, <1>5, <1>6, <1>7, <1>8, <1>9, <1>10, <1>11, <1>12, <1>13, <1>14, <1>15 DEF AttentionSteps

LEMMA FeedForwardFollows ==
  ASSUME NEW l \in 1..Layers, NEW e \in FeedForwardSteps \cup CastSteps
  PROVE  Follows(e[1], e[2], e[3], l)
<1>1. Follows(Rounded(25), Multiply("normalized", "ffn_gate", "gate"), 26, l)
  <2>1. Takes(Prepared("normalized"), "ffn_input", Rounded(25), "multiply")
    <3>1. <<"normalized", "ffn_input", 24, 26>> \in Lives
      BY DEF Lives
    <3>2. Half => <<"matrix_input", "ffn_input", 25, 26>> \in Lives
      BY DEF Lives
    <3>3. QED
      BY <3>1, <3>2, HeldIn DEF Prepared, Rounded, Takes
  <2>2. Makes(Rounded(25), "gate", "opened", 26)
    BY DEF Makes, Leaves, Lives, Rounded
  <2>3. Spots(Rounded(25), "multiply", {Prepared("normalized")}, "gate", 26)
    BY DEF Spots, Among, Carriers, Witnesses, Watching, Overflowing, Rounded, Prepared
  <2>4. Formula("opened", "multiply", "ffn_gate", <<"ffn_input">>) \in Formulas
    BY DEF Formulas, Product
  <2>5. Moves(Rounded(25), 26, l)
    BY SMT DEF Moves, Rounded
  <2>6. QED
    BY Zenon, <2>1, <2>2, <2>3, <2>4, <2>5, ComputesOne DEF Multiply
<1>2. Follows(26, Multiply("normalized", "ffn_up", "up"), 27, l)
  <2>1. Takes(Prepared("normalized"), "ffn_input", 26, "multiply")
    <3>1. <<"normalized", "ffn_input", 24, 26>> \in Lives
      BY DEF Lives
    <3>2. Half => <<"matrix_input", "ffn_input", 25, 26>> \in Lives
      BY DEF Lives
    <3>3. QED
      BY <3>1, <3>2, HeldIn DEF Prepared, Rounded, Takes
  <2>2. Makes(26, "up", "raised", 27)
    BY DEF Makes, Leaves, Lives
  <2>3. Spots(26, "multiply", {Prepared("normalized")}, "up", 27)
    BY DEF Spots, Among, Carriers, Witnesses, Watching, Overflowing, Prepared
  <2>4. Formula("raised", "multiply", "ffn_up", <<"ffn_input">>) \in Formulas
    BY DEF Formulas, Product
  <2>5. Moves(26, 27, l)
    BY SMT DEF Moves
  <2>6. QED
    BY Zenon, <2>1, <2>2, <2>3, <2>4, <2>5, ComputesOne DEF Multiply
<1>3. Follows(27, Op("swiglu", "none", <<"gate", "up">>, "gate"), 28, l)
  <2>1. Takes("gate", "opened", 27, "swiglu")
    <3>1. <<"gate", "opened", 26, 27>> \in Lives
      BY DEF Lives
    <3>2. QED
      BY <3>1, HeldIn DEF Takes
  <2>2. Takes("up", "raised", 27, "swiglu")
    <3>1. <<"up", "raised", 27, 27>> \in Lives
      BY DEF Lives
    <3>2. QED
      BY <3>1, HeldIn DEF Takes
  <2>3. Makes(27, "gate", "passed", 28)
    BY DEF Makes, Leaves, Lives
  <2>4. Spots(27, "swiglu", {"gate", "up"}, "gate", 28)
    BY DEF Spots, Among, Carriers, Witnesses, Watching, Overflowing
  <2>5. Formula("passed", "swiglu", "none", <<"opened", "raised">>) \in Formulas
    BY DEF Formulas, Elementwise
  <2>6. Moves(27, 28, l)
    BY SMT DEF Moves
  <2>7. QED
    BY Zenon, <2>1, <2>2, <2>3, <2>4, <2>5, <2>6, ComputesTwo
<1>4. Follows(Rounded(29), Multiply("gate", "ffn_down", "down"), 30, l)
  <2>1. Takes(Prepared("gate"), "passed", Rounded(29), "multiply")
    <3>1. <<"gate", "passed", 28, 28>> \in Lives
      BY DEF Lives
    <3>2. Half => <<"matrix_input", "passed", 29, 29>> \in Lives
      BY DEF Lives
    <3>3. QED
      BY <3>1, <3>2, HeldIn DEF Prepared, Rounded, Takes
  <2>2. Makes(Rounded(29), "down", "lowered", 30)
    BY DEF Makes, Leaves, Lives, Rounded
  <2>3. Spots(Rounded(29), "multiply", {Prepared("gate")}, "down", 30)
    BY DEF Spots, Among, Carriers, Witnesses, Watching, Overflowing, Rounded, Prepared
  <2>4. Formula("lowered", "multiply", "ffn_down", <<"passed">>) \in Formulas
    BY DEF Formulas, Product
  <2>5. Moves(Rounded(29), 30, l)
    BY SMT DEF Moves, Rounded
  <2>6. QED
    BY Zenon, <2>1, <2>2, <2>3, <2>4, <2>5, ComputesOne DEF Multiply
<1>5. Follows(30, Op("add", "none", <<"hidden", "down">>, "hidden"), 31, l)
  <2>1. Takes("hidden", "attended", 30, "add")
    <3>1. <<"hidden", "attended", 23, 30>> \in Lives
      BY DEF Lives
    <3>2. QED
      BY <3>1, HeldIn DEF Takes
  <2>2. Takes("down", "lowered", 30, "add")
    <3>1. <<"down", "lowered", 30, 30>> \in Lives
      BY DEF Lives
    <3>2. QED
      BY <3>1, HeldIn DEF Takes
  <2>3. Makes(30, "hidden", "hidden", 31)
    BY DEF Makes, Leaves, Lives
  <2>4. Spots(30, "add", {"hidden", "down"}, "hidden", 31)
    BY DEF Spots, Among, Carriers, Witnesses, Watching, Overflowing
  <2>5. Formula("hidden", "add", "none", <<"attended", "lowered">>) \in Formulas
    BY DEF Formulas, Elementwise
  <2>6. Moves(30, 31, l)
    BY SMT DEF Moves
  <2>7. QED
    BY Zenon, <2>1, <2>2, <2>3, <2>4, <2>5, <2>6, ComputesTwo
<1>6. Follows(31, Op("finite", "none", <<"hidden">>, "status"), 32, l)
  <2>1. Leaves(31, "none", "none", 32)
    BY DEF Leaves, Lives
  <2>2. Spots(31, "finite", {"hidden"}, "status", 32)
    BY DEF Spots, Among, Carriers, Witnesses, Watching, Overflowing
  <2>3. Range(<<"hidden">>) = {"hidden"}
    BY RangeOfFew
  <2>4. PICK o : o = Op("finite", "none", <<"hidden">>, "status")
    OBVIOUS
  <2>5. o.kernel = "finite" /\ o.reads = <<"hidden">> /\ o.writes = "status"
    BY <2>4, OpFields
  <2>6. Spares(31, o, 32, l)
    BY <2>1, <2>5 DEF Spares
  <2>7. Spots(31, o.kernel, Range(o.reads), o.writes, 32)
    BY <2>2, <2>3, <2>5
  <2>8. QED
    BY <2>4, <2>6, <2>7 DEF Follows
<1>7. Half => Follows(8, Op("cast", "none", <<"normalized">>, "matrix_input"), 9, l)
  <2>1. SUFFICES ASSUME Half PROVE Follows(8, Op("cast", "none", <<"normalized">>, "matrix_input"), 9, l)
    OBVIOUS
  <2>2. Held("normalized", "input", 8)
    <3>1. <<"normalized", "input", 8, 11>> \in Lives
      BY DEF Lives
    <3>2. QED
      BY <3>1, HeldIn
  <2>3. Leaves(8, "matrix_input", "input", 9)
    BY DEF Leaves, Lives
  <2>4. Spots(8, "cast", {"normalized"}, "matrix_input", 9)
    BY DEF Spots, Among, Carriers, Witnesses, Watching, Overflowing
  <2>5. Moves(8, 9, l)
    BY SMT DEF Moves
  <2>6. QED
    BY <2>2, <2>3, <2>4, <2>5, Rounds
<1>8. Half => Follows(20, Op("cast", "none", <<"attention">>, "matrix_input"), 21, l)
  <2>1. SUFFICES ASSUME Half PROVE Follows(20, Op("cast", "none", <<"attention">>, "matrix_input"), 21, l)
    OBVIOUS
  <2>2. Held("attention", "mixed", 20)
    <3>1. <<"attention", "mixed", 20, 20>> \in Lives
      BY DEF Lives
    <3>2. QED
      BY <3>1, HeldIn
  <2>3. Leaves(20, "matrix_input", "mixed", 21)
    BY DEF Leaves, Lives
  <2>4. Spots(20, "cast", {"attention"}, "matrix_input", 21)
    BY DEF Spots, Among, Carriers, Witnesses, Watching, Overflowing
  <2>5. Moves(20, 21, l)
    BY SMT DEF Moves
  <2>6. QED
    BY <2>2, <2>3, <2>4, <2>5, Rounds
<1>9. Half => Follows(24, Op("cast", "none", <<"normalized">>, "matrix_input"), 25, l)
  <2>1. SUFFICES ASSUME Half PROVE Follows(24, Op("cast", "none", <<"normalized">>, "matrix_input"), 25, l)
    OBVIOUS
  <2>2. Held("normalized", "ffn_input", 24)
    <3>1. <<"normalized", "ffn_input", 24, 26>> \in Lives
      BY DEF Lives
    <3>2. QED
      BY <3>1, HeldIn
  <2>3. Leaves(24, "matrix_input", "ffn_input", 25)
    BY DEF Leaves, Lives
  <2>4. Spots(24, "cast", {"normalized"}, "matrix_input", 25)
    BY DEF Spots, Among, Carriers, Witnesses, Watching, Overflowing
  <2>5. Moves(24, 25, l)
    BY SMT DEF Moves
  <2>6. QED
    BY <2>2, <2>3, <2>4, <2>5, Rounds
<1>10. Half => Follows(28, Op("cast", "none", <<"gate">>, "matrix_input"), 29, l)
  <2>1. SUFFICES ASSUME Half PROVE Follows(28, Op("cast", "none", <<"gate">>, "matrix_input"), 29, l)
    OBVIOUS
  <2>2. Held("gate", "passed", 28)
    <3>1. <<"gate", "passed", 28, 28>> \in Lives
      BY DEF Lives
    <3>2. QED
      BY <3>1, HeldIn
  <2>3. Leaves(28, "matrix_input", "passed", 29)
    BY DEF Leaves, Lives
  <2>4. Spots(28, "cast", {"gate"}, "matrix_input", 29)
    BY DEF Spots, Among, Carriers, Witnesses, Watching, Overflowing
  <2>5. Moves(28, 29, l)
    BY SMT DEF Moves
  <2>6. QED
    BY <2>2, <2>3, <2>4, <2>5, Rounds
<1>11. QED
  BY <1>1, <1>2, <1>3, <1>4, <1>5, <1>6, <1>7, <1>8, <1>9, <1>10 DEF FeedForwardSteps, CastSteps, Cast

LEMMA SelectionFollows ==
  ASSUME NEW l, l = Layers + 1, Chooses, NEW e \in SelectionSteps \cup Cast(34, "selected_hidden", 35)
  PROVE  Follows(e[1], e[2], e[3], l)
<1>0. l = Layers + 1 /\ l \notin 1..Layers /\ Chooses
  BY ForwardAssumption
<1>1. Follows(7, Op("norm", "output_norm", <<"hidden">>, "normalized"), 33, l)
  <2>1. Takes("hidden", "hidden", 7, "norm")
    <3>1. <<"hidden", "hidden", 7, 22>> \in Lives
      BY DEF Lives
    <3>2. QED
      BY <3>1, HeldIn DEF Takes
  <2>2. Makes(7, "normalized", "last", 33)
    BY DEF Makes, Leaves, Lives
  <2>3. Spots(7, "norm", {"hidden"}, "normalized", 33)
    BY DEF Spots, Among, Carriers, Witnesses, Watching, Overflowing
  <2>4. Formula("last", "norm", "output_norm", <<"hidden">>) \in Formulas
    BY DEF Formulas, Norm
  <2>5. Moves(7, 33, l)
    BY <1>0, SMT DEF Moves
  <2>6. QED
    BY Zenon, <2>1, <2>2, <2>3, <2>4, <2>5, ComputesOne
<1>2. Follows(33, Op("gather", "none", <<"normalized", "selected_rows">>, "selected_hidden"), 34, l)
  <2>1. Takes("normalized", "last", 33, "gather")
    <3>1. <<"normalized", "last", 33, 33>> \in Lives
      BY DEF Lives
    <3>2. QED
      BY <3>1, HeldIn DEF Takes
  <2>2. Takes("selected_rows", "selected_rows", 33, "gather")
    <3>1. <<"selected_rows", "selected_rows", 6, 39>> \in Lives
      BY <1>0 DEF Lives
    <3>2. QED
      BY <3>1, HeldIn DEF Takes
  <2>3. Makes(33, "selected_hidden", "chosen", 34)
    BY DEF Makes, Leaves, Lives
  <2>4. Spots(33, "gather", {"normalized", "selected_rows"}, "selected_hidden", 34)
    BY DEF Spots, Among, Carriers, Witnesses, Watching, Overflowing
  <2>5. Formula("chosen", "gather", "none", <<"last", "selected_rows">>) \in Formulas
    BY DEF Formulas, Embedding
  <2>6. Moves(33, 34, l)
    BY <1>0, SMT DEF Moves
  <2>7. QED
    BY Zenon, <2>1, <2>2, <2>3, <2>4, <2>5, <2>6, ComputesTwo
<1>3. Follows(Rounded(35), Multiply("selected_hidden", "output", "logits"), 36, l)
  <2>1. Takes(Prepared("selected_hidden"), "chosen", Rounded(35), "multiply")
    <3>1. <<"selected_hidden", "chosen", 34, 34>> \in Lives
      BY DEF Lives
    <3>2. Half => <<"matrix_input", "chosen", 35, 35>> \in Lives
      BY DEF Lives
    <3>3. QED
      BY <3>1, <3>2, HeldIn DEF Prepared, Rounded, Takes
  <2>2. Makes(Rounded(35), "logits", "answers", 36)
    BY DEF Makes, Leaves, Lives, Rounded
  <2>3. Spots(Rounded(35), "multiply", {Prepared("selected_hidden")}, "logits", 36)
    BY DEF Spots, Among, Carriers, Witnesses, Watching, Overflowing, Rounded, Prepared
  <2>4. Formula("answers", "multiply", "output", <<"chosen">>) \in Formulas
    BY DEF Formulas, Product
  <2>5. Moves(Rounded(35), 36, l)
    BY <1>0, SMT DEF Moves, Rounded
  <2>6. QED
    BY Zenon, <2>1, <2>2, <2>3, <2>4, <2>5, ComputesOne DEF Multiply
<1>4. Follows(36, Op("argmax", "none", <<"logits">>, "tokens"), 37, l)
  <2>1. Takes("logits", "answers", 36, "argmax")
    <3>1. <<"logits", "answers", 36, 39>> \in Lives
      BY DEF Lives
    <3>2. QED
      BY <3>1, HeldIn DEF Takes
  <2>2. Makes(36, "tokens", "best", 37)
    BY DEF Makes, Leaves, Lives
  <2>3. Spots(36, "argmax", {"logits"}, "tokens", 37)
    BY DEF Spots, Among, Carriers, Witnesses, Watching, Overflowing
  <2>4. Formula("best", "argmax", "none", <<"answers">>) \in Formulas
    BY DEF Formulas, Choice
  <2>5. Moves(36, 37, l)
    BY <1>0, SMT DEF Moves
  <2>6. QED
    BY Zenon, <2>1, <2>2, <2>3, <2>4, <2>5, ComputesOne
<1>5. Follows(37, Download("tokens", "host"), 38, l)
  <2>1. Leaves(37, "none", "none", 38)
    BY DEF Leaves, Lives
  <2>2. Spots(37, "download", {"tokens"}, "tokens", 38)
    BY DEF Spots, Among, Carriers, Witnesses, Watching, Overflowing
  <2>3. Range(<<"tokens">>) = {"tokens"}
    BY RangeOfFew
  <2>4. PICK o : o = Download("tokens", "host")
    OBVIOUS
  <2>5. o.kernel = "download" /\ o.reads = <<"tokens">> /\ o.writes = "tokens"
    BY <2>4, CopyFields
  <2>6. Spares(37, o, 38, l)
    BY <1>0, <2>1, <2>5 DEF Spares, Copies
  <2>7. Spots(37, o.kernel, Range(o.reads), o.writes, 38)
    BY <2>2, <2>3, <2>5
  <2>8. QED
    BY <2>4, <2>6, <2>7 DEF Follows
<1>6. Follows(38, Download("logits", "result"), 39, l)
  <2>1. Leaves(38, "none", "none", 39)
    BY DEF Leaves, Lives
  <2>2. Spots(38, "download", {"logits"}, "logits", 39)
    BY DEF Spots, Among, Carriers, Witnesses, Watching, Overflowing
  <2>3. Range(<<"logits">>) = {"logits"}
    BY RangeOfFew
  <2>4. PICK o : o = Download("logits", "result")
    OBVIOUS
  <2>5. o.kernel = "download" /\ o.reads = <<"logits">> /\ o.writes = "logits"
    BY <2>4, CopyFields
  <2>6. Spares(38, o, 39, l)
    BY <1>0, <2>1, <2>5 DEF Spares, Copies
  <2>7. Spots(38, o.kernel, Range(o.reads), o.writes, 39)
    BY <2>2, <2>3, <2>5
  <2>8. QED
    BY <2>4, <2>6, <2>7 DEF Follows
<1>7. Half => Follows(34, Op("cast", "none", <<"selected_hidden">>, "matrix_input"), 35, l)
  <2>1. SUFFICES ASSUME Half PROVE Follows(34, Op("cast", "none", <<"selected_hidden">>, "matrix_input"), 35, l)
    OBVIOUS
  <2>2. Held("selected_hidden", "chosen", 34)
    <3>1. <<"selected_hidden", "chosen", 34, 34>> \in Lives
      BY DEF Lives
    <3>2. QED
      BY <3>1, HeldIn
  <2>3. Leaves(34, "matrix_input", "chosen", 35)
    BY DEF Leaves, Lives
  <2>4. Spots(34, "cast", {"selected_hidden"}, "matrix_input", 35)
    BY DEF Spots, Among, Carriers, Witnesses, Watching, Overflowing
  <2>5. Moves(34, 35, l)
    BY <1>0, SMT DEF Moves
  <2>6. QED
    BY <2>2, <2>3, <2>4, <2>5, Rounds
<1>8. QED
  BY <1>0, <1>1, <1>2, <1>3, <1>4, <1>5, <1>6, <1>7 DEF SelectionSteps, Cast

LEMMA BeginningFollows ==
  ASSUME NEW l, l = 0, NEW e \in BeginningSteps
  PROVE  Follows(e[1], e[2], e[3], l)
<1>0. l = 0 /\ l \notin 1..Layers
  BY ForwardAssumption
<1>1. Follows(1, Op("reset", "none", <<>>, "status"), 2, l)
  <2>1. Leaves(1, "none", "none", 2)
    BY DEF Leaves, Lives
  <2>2. Spots(1, "reset", {}, "status", 2)
    BY DEF Spots, Among, Carriers, Witnesses, Watching, Overflowing
  <2>3. Range(<<>>) = {}
    BY RangeOfFew
  <2>4. PICK o : o = Op("reset", "none", <<>>, "status")
    OBVIOUS
  <2>5. o.kernel = "reset" /\ o.reads = <<>> /\ o.writes = "status"
    BY <2>4, OpFields
  <2>6. Spares(1, o, 2, l)
    BY <1>0, <2>1, <2>5 DEF Spares
  <2>7. Spots(1, o.kernel, Range(o.reads), o.writes, 2)
    BY <2>2, <2>3, <2>5
  <2>8. QED
    BY <2>4, <2>6, <2>7 DEF Follows
<1>2. Follows(2, Upload("tokens"), 3, l)
  <2>1. Leaves(2, "tokens", "tokens", 3)
    BY DEF Leaves, Lives
  <2>2. Spots(2, "upload", {}, "tokens", 3)
    BY DEF Spots, Among, Carriers, Witnesses, Watching, Overflowing
  <2>3. Range(<<>>) = {}
    BY RangeOfFew
  <2>4. PICK o : o = Upload("tokens")
    OBVIOUS
  <2>5. o.kernel = "upload" /\ o.reads = <<>> /\ o.writes = "tokens"
    BY <2>4, CopyFields
  <2>6. Uploads(2, o, 3, l)
    BY <1>0, <2>1, <2>5 DEF Uploads, Inputs
  <2>7. Spots(2, o.kernel, Range(o.reads), o.writes, 3)
    BY <2>2, <2>3, <2>5
  <2>8. QED
    BY <2>4, <2>6, <2>7 DEF Follows
<1>3. Follows(3, Upload("positions"), 4, l)
  <2>1. Leaves(3, "positions", "positions", 4)
    BY DEF Leaves, Lives
  <2>2. Spots(3, "upload", {}, "positions", 4)
    BY DEF Spots, Among, Carriers, Witnesses, Watching, Overflowing
  <2>3. Range(<<>>) = {}
    BY RangeOfFew
  <2>4. PICK o : o = Upload("positions")
    OBVIOUS
  <2>5. o.kernel = "upload" /\ o.reads = <<>> /\ o.writes = "positions"
    BY <2>4, CopyFields
  <2>6. Uploads(3, o, 4, l)
    BY <1>0, <2>1, <2>5 DEF Uploads, Inputs
  <2>7. Spots(3, o.kernel, Range(o.reads), o.writes, 4)
    BY <2>2, <2>3, <2>5
  <2>8. QED
    BY <2>4, <2>6, <2>7 DEF Follows
<1>4. Follows(4, Upload("slots"), 5, l)
  <2>1. Leaves(4, "slots", "slots", 5)
    BY DEF Leaves, Lives
  <2>2. Spots(4, "upload", {}, "slots", 5)
    BY DEF Spots, Among, Carriers, Witnesses, Watching, Overflowing
  <2>3. Range(<<>>) = {}
    BY RangeOfFew
  <2>4. PICK o : o = Upload("slots")
    OBVIOUS
  <2>5. o.kernel = "upload" /\ o.reads = <<>> /\ o.writes = "slots"
    BY <2>4, CopyFields
  <2>6. Uploads(4, o, 5, l)
    BY <1>0, <2>1, <2>5 DEF Uploads, Inputs
  <2>7. Spots(4, o.kernel, Range(o.reads), o.writes, 5)
    BY <2>2, <2>3, <2>5
  <2>8. QED
    BY <2>4, <2>6, <2>7 DEF Follows
<1>5. Follows(5, Upload("selected_rows"), 6, l)
  <2>1. Leaves(5, "selected_rows", "selected_rows", 6)
    BY DEF Leaves, Lives
  <2>2. Spots(5, "upload", {}, "selected_rows", 6)
    BY DEF Spots, Among, Carriers, Witnesses, Watching, Overflowing
  <2>3. Range(<<>>) = {}
    BY RangeOfFew
  <2>4. PICK o : o = Upload("selected_rows")
    OBVIOUS
  <2>5. o.kernel = "upload" /\ o.reads = <<>> /\ o.writes = "selected_rows"
    BY <2>4, CopyFields
  <2>6. Uploads(5, o, 6, l)
    BY <1>0, <2>1, <2>5 DEF Uploads, Inputs
  <2>7. Spots(5, o.kernel, Range(o.reads), o.writes, 6)
    BY <2>2, <2>3, <2>5
  <2>8. QED
    BY <2>4, <2>6, <2>7 DEF Follows
<1>6. Follows(1, Upload("kv_block_table"), 1, l)
  <2>1. Leaves(1, "kv_block_table", "kv_block_table", 1)
    BY DEF Leaves, Lives
  <2>2. Spots(1, "upload", {}, "kv_block_table", 1)
    BY DEF Spots, Among, Carriers, Witnesses, Watching, Overflowing
  <2>3. Range(<<>>) = {}
    BY RangeOfFew
  <2>4. PICK o : o = Upload("kv_block_table")
    OBVIOUS
  <2>5. o.kernel = "upload" /\ o.reads = <<>> /\ o.writes = "kv_block_table"
    BY <2>4, CopyFields
  <2>6. Uploads(1, o, 1, l)
    BY <1>0, <2>1, <2>5 DEF Uploads, Inputs
  <2>7. Spots(1, o.kernel, Range(o.reads), o.writes, 1)
    BY <2>2, <2>3, <2>5
  <2>8. QED
    BY <2>4, <2>6, <2>7 DEF Follows
<1>7. Follows((IF Chooses THEN 6 ELSE 5), Op("gather", "token_embd", <<"tokens">>, "hidden"), 32, l)
  <2>1. Takes("tokens", "tokens", (IF Chooses THEN 6 ELSE 5), "gather")
    <3>1. <<"tokens", "tokens", 3, 6>> \in Lives
      BY DEF Lives
    <3>2. QED
      BY <3>1, HeldIn DEF Takes
  <2>2. Makes((IF Chooses THEN 6 ELSE 5), "hidden", "hidden", 32)
    BY DEF Makes, Leaves, Lives, Chooses
  <2>3. Spots((IF Chooses THEN 6 ELSE 5), "gather", {"tokens"}, "hidden", 32)
    BY DEF Spots, Among, Carriers, Witnesses, Watching, Overflowing
  <2>4. Formula("hidden", "gather", "token_embd", <<"tokens">>) \in Formulas
    BY DEF Formulas, Embedding
  <2>5. Moves((IF Chooses THEN 6 ELSE 5), 32, l)
    BY <1>0, SMT DEF Moves
  <2>6. QED
    BY Zenon, <2>1, <2>2, <2>3, <2>4, <2>5, ComputesOne
<1>8. QED
  BY <1>1, <1>2, <1>3, <1>4, <1>5, <1>6, <1>7 DEF BeginningSteps

-----------------------------------------------------------------------------
(***************************************************************************)
(* What is so when the device has come to a stage of a layer.              *)
(***************************************************************************)
Meant(region, name, l) ==
  IF name = "left" THEN Val("hidden", l, runs)
  ELSE [Val(name, LayerOf(name, l), runs) EXCEPT !.half = (region = "matrix_input")]

Holds(t, l) == \A x \in Lives : t \in x[3]..x[4] => values[x[1]] = Meant(x[1], x[2], l)

CacheAt(t, l) ==
  \A j \in 1..Layers : cache[j] = RowsAfter(j, IF j < l \/ (j = l /\ t >= 17) THEN runs ELSE runs - 1)

ReceivedAt(t) ==
  /\ Chooses /\ t \in 38..40 => received.tokens = Val("best", Layers + 1, runs)
  /\ "logits" \in asked /\ t \in 39..40 => received.logits = Val("answers", Layers + 1, runs)
  /\ t = 40 => received.status = status

\* A number that is not finite is recorded, or will be.
Seen(t) ==
  IF t = 1 THEN bad = {}
  ELSE /\ status \in {Clean, Recorded}
       /\ bad = {} => status = Clean
       /\ bad # {} => \E x \in bad : Among(Carriers, x, t)
       /\ bad # {} /\ status # Recorded => \E x \in bad : Among(Witnesses, x, t)

Facts(t, l) == Holds(t, l) /\ CacheAt(t, l) /\ ReceivedAt(t) /\ Seen(t)

LEMMA NotRounded ==
  ASSUME NEW name, NEW l, NEW run
  PROVE  [Val(name, l, run) EXCEPT !.half = FALSE] = Val(name, l, run)
<1> DEFINE v == Val(name, l, run)
<1>1. v.half = FALSE /\ v = [k \in DOMAIN v |-> v[k]]
  BY DEF Val
<1> HIDE DEF v
<1>2. [v EXCEPT !.half = FALSE] = v
  BY <1>1
<1>3. QED
  BY <1>2 DEF v

LEMMA LivesInRegions == \A x \in Lives : x[1] \in Regions
BY DEF Lives, Regions, Always, Half

\* The one value that is written is the one that is meant.
LEMMA HoldsWhenWritten ==
  ASSUME Regions \subseteq DOMAIN values, UNCHANGED <<runs, asked, m>>, NEW t, NEW u, NEW l, Holds(t, l),
         NEW writes, NEW name, Leaves(t, writes, name, u),
         values' = [values EXCEPT ![writes] = Meant(writes, name, l)]
  PROVE  Holds(u, l)'
<1>1. Lives' = Lives
  BY DEF Lives, Half, Chooses
<1>2. ASSUME NEW x \in Lives, u \in x[3]..x[4] PROVE values'[x[1]] = Meant(x[1], x[2], l)
  <2>1. x[1] \in DOMAIN values
    BY LivesInRegions
  <2>2. CASE x[1] # writes /\ t \in x[3]..x[4]
    BY <2>1, <2>2 DEF Holds
  <2>3. CASE x[1] = writes /\ x[2] = name
    BY <2>1, <2>3
  <2>4. QED
    BY <1>2, <2>2, <2>3 DEF Leaves
<1>3. QED
  BY <1>1, <1>2 DEF Holds, Meant

LEMMA HoldsWhenSpared ==
  ASSUME UNCHANGED <<runs, asked, m, values>>, NEW t, NEW u, NEW l, Holds(t, l), Leaves(t, "none", "none", u)
  PROVE  Holds(u, l)'
<1>1. Lives' = Lives
  BY DEF Lives, Half, Chooses
<1>2. "none" \notin Regions
  BY DEF Regions, Always
<1>3. ASSUME NEW x \in Lives, u \in x[3]..x[4] PROVE values[x[1]] = Meant(x[1], x[2], l)
  BY <1>2, <1>3, LivesInRegions DEF Leaves, Holds
<1>4. QED
  BY <1>1, <1>3 DEF Holds, Meant

\* A formula is known by its kernel, its weight and its first operand.
LEMMA FormulaIs ==
  ASSUME NEW f \in Formulas, NEW g \in Formulas, f.kernel = g.kernel, f.weight = g.weight, f.of[1] = g.of[1]
  PROVE  f.value = g.value
<1>1. \A value, kernel, weight, of : LET x == Formula(value, kernel, weight, of) IN
        x.value = value /\ x.kernel = kernel /\ x.weight = weight /\ x.of = of
  BY DEF Formula
<1>2. \A x \in Embedding : /\ x.kernel = "gather"
                           /\ x.value = IF x.weight = "token_embd" THEN "hidden" ELSE "chosen"
  BY <1>1 DEF Embedding
<1>3. \A x \in Norm : /\ x.kernel = "norm"
                      /\ x.value = CASE x.weight = "attn_norm" -> "input" [] x.weight = "attn_q_norm" -> "even_q"
                                     [] x.weight = "attn_k_norm" -> "even_k" [] x.weight = "ffn_norm" -> "ffn_input"
                                     [] OTHER -> "last"
  BY <1>1 DEF Norm
<1>4. \A x \in Product : /\ x.kernel = "multiply"
                         /\ x.value = CASE x.weight = "attn_q" -> "q" [] x.weight = "attn_k" -> "k"
                                        [] x.weight = "attn_v" -> "v" [] x.weight = "attn_output" -> "heeded"
                                        [] x.weight = "ffn_gate" -> "opened" [] x.weight = "ffn_up" -> "raised"
                                        [] x.weight = "ffn_down" -> "lowered" [] OTHER -> "answers"
  BY <1>1 DEF Product
<1>5. \A x \in Rotation : x.kernel = "rope" /\ x.value = IF x.of[1] = "even_q" THEN "turned_q" ELSE "turned_k"
  BY <1>1 DEF Rotation
<1>6. \A x \in Attention : /\ x.kernel \in {"qk", "softmax", "pv"}
                           /\ x.value = CASE x.kernel = "qk" -> "likeness" [] x.kernel = "softmax" -> "shares"
                                          [] OTHER -> "mixed"
  BY <1>1 DEF Attention
<1>7. \A x \in Elementwise : /\ x.kernel \in {"add", "swiglu"}
                             /\ x.value = CASE x.kernel = "swiglu" -> "passed" [] x.of[1] = "hidden" -> "attended"
                                            [] OTHER -> "hidden"
  BY <1>1 DEF Elementwise
<1>8. \A x \in Choice : x.kernel = "argmax" /\ x.value = "best"
  BY <1>1 DEF Choice
<1>9. QED
  BY <1>2, <1>3, <1>4, <1>5, <1>6, <1>7, <1>8 DEF Formulas

LEMMA OperandNames ==
  ASSUME NEW f \in Formulas
  PROVE  /\ 1 \in DOMAIN f.of /\ \A k \in DOMAIN f.of : f.of[k] # "left"
         /\ f.value \notin Inputs \cup {"left"} /\ f.kernel \notin {"upload", "reset", "download", "cast", "store", "finite"}
<1>1. \A value, kernel, weight, of : LET x == Formula(value, kernel, weight, of) IN
        x.value = value /\ x.kernel = kernel /\ x.of = of
  BY DEF Formula
<1>2. CASE f \in Embedding \cup Rotation \cup Choice
  BY <1>1, <1>2 DEF Embedding, Rotation, Choice, Inputs
<1>3. CASE f \in Norm
  BY <1>1, <1>3 DEF Norm, Inputs
<1>4. CASE f \in Product
  BY <1>1, <1>4 DEF Product, Inputs
<1>5. CASE f \in Attention
  BY <1>1, <1>5 DEF Attention, Inputs
<1>6. CASE f \in Elementwise
  BY <1>1, <1>6 DEF Elementwise, Inputs
<1>7. QED
  BY <1>2, <1>3, <1>4, <1>5, <1>6 DEF Formulas

LEMMA ResultIs ==
  ASSUME NEW t, NEW l, Holds(t, l), t \in 17..19 => cache[l] = RowsAfter(l, runs),
         NEW op, op.layer = l, NEW f \in Formulas, f.kernel = op.kernel, f.weight = op.weight,
         DOMAIN f.of = DOMAIN op.reads, \A k \in DOMAIN f.of : Takes(op.reads[k], f.of[k], t, op.kernel)
  PROVE  Result(op) = Val(f.value, l, runs)
<1> DEFINE half == Half /\ op.kernel = "multiply"
           wanted(name) == [Val(name, LayerOf(name, l), runs) EXCEPT !.half = half]
           fits(g) == /\ g.kernel = op.kernel /\ g.weight = op.weight
                      /\ Operands(op) = [k \in DOMAIN g.of |-> wanted(g.of[k])]
           found == {g \in Formulas : fits(g)}
<1>1. ASSUME NEW k \in DOMAIN f.of PROVE Operand(op.reads[k], l) = wanted(f.of[k])
  <2>1. PICK region, name : region = op.reads[k] /\ name = f.of[k]
    OBVIOUS
  <2>2. Held(region, name, t) /\ (region = "matrix_input" <=> half) /\ name # "left"
    BY <1>1, <2>1, OperandNames DEF Takes
  <2>3. CASE region = "kv"
    <3>1. name = "rows" /\ t \in 17..19 /\ ~half
      BY <2>2, <2>3 DEF Held
    <3>2. Operand(region, l) = Val("rows", l, runs)
      BY <2>3, <3>1 DEF Operand
    <3>3. wanted(name) = Val("rows", l, runs)
      <4>1. LayerOf(name, l) = l /\ half = FALSE
        BY <3>1 DEF LayerOf, Inputs
      <4>2. [Val("rows", l, runs) EXCEPT !.half = FALSE] = Val("rows", l, runs)
        BY NotRounded
      <4>3. LayerOf("rows", l) = l
        BY <3>1, <4>1
      <4>4. wanted(name) = [Val("rows", l, runs) EXCEPT !.half = half]
        BY <3>1, <4>3
      <4> HIDE DEF half
      <4>5. QED
        BY <4>1, <4>2, <4>4
    <3>4. QED
      BY <2>1, <3>2, <3>3
  <2>4. CASE region # "kv"
    <3>1. values[region] = Meant(region, name, l)
      BY <2>2, <2>4 DEF Held, Holds
    <3>2. Meant(region, name, l) = wanted(name)
      BY <2>2 DEF Meant
    <3>3. QED
      BY <2>1, <2>4, <3>1, <3>2 DEF Operand
  <2>5. QED
    BY <2>3, <2>4
<1>2. Operands(op) = [k \in DOMAIN f.of |-> wanted(f.of[k])]
  <2> HIDE DEF wanted
  <2>1. QED
    BY <1>1 DEF Operands
<1>3. f \in found
  BY <1>2
<1>4. ASSUME NEW g \in found PROVE g.value = f.value
  <2>1. [k \in DOMAIN g.of |-> wanted(g.of[k])] = [k \in DOMAIN f.of |-> wanted(f.of[k])]
    BY <1>2, <1>4
  <2>2. \A name : wanted(name).name = name
    BY DEF Val
  <2>3. 1 \in DOMAIN f.of /\ 1 \in DOMAIN g.of
    BY <1>4, OperandNames
  <2> HIDE DEF wanted
  <2>4. wanted(g.of[1]) = wanted(f.of[1])
    BY <2>1, <2>3
  <2>5. g.of[1] = f.of[1]
    BY <2>2, <2>4
  <2>6. QED
    BY <1>4, <2>5, FormulaIs
<1>5. Result(op) = IF found = {} THEN Junk ELSE Val((CHOOSE g \in found : TRUE).value, l, runs)
  BY DEF Result
<1> HIDE DEF found
<1>6. QED
  BY <1>3, <1>4, <1>5

\* Whatever kernel runs, a number that is not finite is still going to be
\* recorded, and nothing else is.
LEMMA SeenWhenComputed ==
  ASSUME NEW t, NEW u, t # 1, u # 1, Seen(t), NEW kernel, NEW reads, NEW writes, Spots(t, kernel, Range(reads), writes, u),
         NEW overflows, overflows => kernel \in Overflowing /\ bad = {},
         NEW spreads, spreads <=> (overflows \/ \E k \in DOMAIN reads : reads[k] \in bad),
         bad' = IF spreads THEN bad \cup ({writes} \ {"status"}) ELSE bad \ ({writes} \ {"kv"}),
         status' = IF kernel \in Watching /\ spreads THEN Recorded ELSE status
  PROVE  Seen(u)'
<1>1. \A x : ~Among(Carriers, "status", x) /\ ~Among(Witnesses, "status", x)
  BY DEF Among, Carriers, Witnesses
<1>2. Clean # Recorded
  BY DEF Clean, Recorded
<1>3. \A x : x \in Range(reads) <=> \E k \in DOMAIN reads : reads[k] = x
  BY DEF Range
<1>4. /\ status \in {Clean, Recorded} /\ (bad = {} => status = Clean)
      /\ bad # {} => \E x \in bad : Among(Carriers, x, t)
      /\ bad # {} /\ status # Recorded => \E x \in bad : Among(Witnesses, x, t)
  BY DEF Seen
<1>5. /\ \A x : Among(Carriers, x, t) =>
           \/ Among(Carriers, x, u) /\ (x # writes \/ x \in Range(reads) \/ x = "kv")
           \/ x \in Range(reads) /\ Among(Carriers, writes, u)
      /\ \A x : Among(Witnesses, x, t) =>
           \/ kernel \in Watching /\ x \in Range(reads)
           \/ Among(Witnesses, x, u) /\ (x # writes \/ x \in Range(reads))
           \/ x \in Range(reads) /\ Among(Witnesses, writes, u)
      /\ kernel \in Overflowing =>
           Among(Carriers, writes, u) /\ (kernel \in Watching \/ Among(Witnesses, writes, u))
  BY DEF Spots
<1>6. /\ status' \in {Clean, Recorded} /\ (bad' = {} => status' = Clean)
      /\ bad' # {} => \E x \in bad' : Among(Carriers, x, u)
      /\ bad' # {} /\ status' # Recorded => \E x \in bad' : Among(Witnesses, x, u)
  <2>1. CASE spreads /\ bad = {}
    <3>1. overflows /\ kernel \in Overflowing
      BY <2>1
    <3>2. Among(Carriers, writes, u) /\ (kernel \in Watching \/ Among(Witnesses, writes, u)) /\ writes # "status"
      BY <1>1, <1>5, <3>1
    <3>3. writes \in bad'
      BY <2>1, <3>2
    <3>4. QED
      BY <1>4, <2>1, <3>2, <3>3
  <2>2. CASE spreads /\ bad # {}
    <3>1. bad \subseteq bad' /\ bad' # {} /\ (writes # "status" => writes \in bad')
      BY <2>2
    <3>2. \E x \in bad' : Among(Carriers, x, u)
      BY <1>1, <1>4, <1>5, <2>2, <3>1
    <3>3. ASSUME status' # Recorded PROVE \E x \in bad' : Among(Witnesses, x, u)
      <4>1. kernel \notin Watching /\ status # Recorded
        BY <2>2, <3>3
      <4>2. PICK x \in bad : Among(Witnesses, x, t)
        BY <1>4, <2>2, <4>1
      <4>3. QED
        BY <1>1, <1>5, <3>1, <4>1, <4>2
    <3>4. status' \in {Clean, Recorded}
      BY <1>4
    <3>5. QED
      BY <3>1, <3>2, <3>3, <3>4
  <2>3. CASE ~spreads
    <3>1. \A x \in bad : x \notin Range(reads)
      BY <1>3, <2>3
    <3>2. bad' = bad \ ({writes} \ {"kv"}) /\ status' = status
      BY <2>3
    <3>3. ASSUME bad # {} PROVE \E x \in bad' : Among(Carriers, x, u)
      <4>1. PICK x \in bad : Among(Carriers, x, t)
        BY <1>4, <3>3
      <4>2. QED
        BY <1>5, <3>1, <3>2, <4>1
    <3>4. ASSUME bad # {}, status # Recorded PROVE \E x \in bad' : Among(Witnesses, x, u)
      <4>1. PICK x \in bad : Among(Witnesses, x, t)
        BY <1>4, <3>4
      <4>2. Among(Witnesses, x, u) /\ x # writes
        BY <1>5, <3>1, <4>1
      <4>3. QED
        BY <3>2, <4>1, <4>2
    <3>5. QED
      BY <1>4, <3>2, <3>3, <3>4
  <2>4. QED
    BY <2>1, <2>2, <2>3
<1>7. QED
  BY <1>6 DEF Seen

\* A step that computes nothing only has to leave the carriers as they are.
LEMMA SeenWhenSpared ==
  ASSUME NEW t, NEW u, t # 1, u # 1, Seen(t), NEW writes, NEW kernel, kernel \notin Watching,
         NEW reads, reads \subseteq {writes}, Spots(t, kernel, reads, writes, u), UNCHANGED <<bad, status>>
  PROVE  Seen(u)'
BY DEF Seen, Spots

LEMMA RowsOfNone ==
  ASSUME NEW l
  PROVE  RowsAfter(l, 0) = <<>>
<1>1. RowsAfter(l, 0) = [i \in 1..0 |-> <<Val("turned_k", l, i), Val("v", l, i), Val("slots", 0, i), Val("positions", 0, i)>>]
  BY DEF RowsAfter
<1>2. 1..0 = {}
  OBVIOUS
<1>3. QED
  BY <1>1, <1>2

LEMMA RowsAppended ==
  ASSUME NEW l, NEW n \in Nat \ {0}
  PROVE  RowsAfter(l, n) = Append(RowsAfter(l, n - 1),
           <<Val("turned_k", l, n), Val("v", l, n), Val("slots", 0, n), Val("positions", 0, n)>>)
<1> DEFINE row(i) == <<Val("turned_k", l, i), Val("v", l, i), Val("slots", 0, i), Val("positions", 0, i)>>
<1>1. /\ RowsAfter(l, n) = [i \in 1..n |-> row(i)] /\ RowsAfter(l, n - 1) = [i \in 1..(n - 1) |-> row(i)]
  BY DEF RowsAfter
<1> HIDE DEF row
<1> DEFINE S == {row(i) : i \in 1..n}
           old == [i \in 1..(n - 1) |-> row(i)]
<1>2. old \in [1..(n - 1) -> S] /\ row(n) \in S
  OBVIOUS
<1> HIDE DEF S
<1>3. old \in Seq(S) /\ Len(old) = n - 1
  <2>1. PICK k \in Nat : k = n - 1
    OBVIOUS
  <2>2. QED
    BY <1>2, <2>1, BytesAreSeq
<1>4. /\ Append(old, row(n)) \in Seq(S) /\ Len(Append(old, row(n))) = n
      /\ Append(old, row(n))[n] = row(n)
      /\ \A i \in 1..(n - 1) : Append(old, row(n))[i] = old[i]
  BY <1>2, <1>3, AppendProperties
<1>5. Append(old, row(n)) = [i \in 1..n |-> row(i)]
  <2>1. \A i \in 1..n : Append(old, row(n))[i] = row(i)
    BY <1>4
  <2>2. DOMAIN Append(old, row(n)) = 1..n /\ Append(old, row(n)) = [i \in 1..n |-> Append(old, row(n))[i]]
    BY <1>4, LenProperties
  <2>3. QED
    BY <2>1, <2>2
<1>6. QED
  BY <1>1, <1>5 DEF row

\* Whatever the step stores, copies or resets aside.
LEMMA CacheStays ==
  ASSUME UNCHANGED <<runs, cache>>, NEW t, NEW u, NEW l, CacheAt(t, l), l \in 1..Layers => (t >= 17 <=> u >= 17)
  PROVE  CacheAt(u, l)'
BY DEF CacheAt, RowsAfter

LEMMA ReceivedStays ==
  ASSUME NEW u \in 1..37
  PROVE  ReceivedAt(u)'
BY DEF ReceivedAt

\* The step of an upload.
LEMMA UploadStage ==
  ASSUME Regions \subseteq DOMAIN values, UNCHANGED <<runs, asked, m>>, NEW t, NEW o, NEW u, NEW l,
         Follows(t, o, u, l), Uploads(t, o, u, l), Facts(t, l), o.reads = <<>>,
         values' = [values EXCEPT ![o.writes] = Val(o.writes, 0, runs)], UNCHANGED <<cache, bad, status, received>>
  PROVE  Facts(u, l)'
<1>1. /\ o.kernel = "upload" /\ o.writes \in Inputs \cup {"kv_block_table"} /\ l = 0
      /\ t \in 1..6 /\ u \in 1..6 /\ (t = 1 <=> u = 1) /\ Leaves(t, o.writes, o.writes, u)
  BY DEF Uploads
<1>2. PICK n : n = o.writes
  OBVIOUS
<1>3. Holds(u, l)'
  <2>1. CASE n \in Inputs
    <3>1. Meant(n, n, l) = Val(n, 0, runs)
      <4>1. LayerOf(n, l) = 0 /\ n # "left" /\ n # "matrix_input"
        BY <2>1 DEF LayerOf, Inputs
      <4>2. [Val(n, 0, runs) EXCEPT !.half = FALSE] = Val(n, 0, runs)
        BY NotRounded
      <4>3. (n = "matrix_input") = FALSE
        BY <4>1
      <4>4. QED
        BY <4>1, <4>2, <4>3 DEF Meant
    <3>2. QED
      BY <1>1, <1>2, <3>1, HoldsWhenWritten DEF Facts
  <2>2. CASE n = "kv_block_table"
    <3>1. n \notin {x[1] : x \in Lives}
      BY <2>2 DEF Lives
    <3>2. ASSUME NEW x \in Lives PROVE values'[x[1]] = values[x[1]]
      BY <1>2, <3>1, LivesInRegions
    <3>3. Lives' = Lives
      BY DEF Lives, Half, Chooses
    <3>4. ASSUME NEW x \in Lives, u \in x[3]..x[4] PROVE values'[x[1]] = Meant(x[1], x[2], l)
      <4>1. x[1] # n
        BY <3>1
      <4>2. t \in x[3]..x[4]
        BY <1>1, <1>2, <3>4, <4>1 DEF Leaves
      <4>3. QED
        BY <3>2, <4>2 DEF Facts, Holds
    <3>5. QED
      BY <3>3, <3>4 DEF Holds, Meant
  <2>3. QED
    BY <1>1, <1>2, <2>1, <2>2
<1>4. CacheAt(u, l)'
  <2>1. l \notin 1..Layers
    BY <1>1
  <2>2. QED
    BY <2>1, CacheStays DEF Facts
<1>5. Seen(u)'
  <2>1. CASE t = 1
    BY <1>1, <2>1 DEF Facts, Seen
  <2>2. CASE t # 1
    <3>1. Spots(t, "upload", Range(o.reads), o.writes, u) /\ Range(o.reads) = {}
      BY <1>1, RangeOfFew DEF Follows
    <3>2. "upload" \notin Watching
      BY DEF Watching
    <3>3. QED
      BY <1>1, <2>2, <3>1, <3>2, SeenWhenSpared DEF Facts
  <2>3. QED
    BY <2>1, <2>2
<1>6. ReceivedAt(u)'
  <2>1. u \in 1..37
    BY <1>1
  <2>2. QED
    BY <2>1, ReceivedStays
<1>7. QED
  BY <1>3, <1>4, <1>5, <1>6 DEF Facts

\* The steps of kernels: a rounding, and what a formula describes.
LEMMA ComputeStage ==
  ASSUME Regions \subseteq DOMAIN values, UNCHANGED <<runs, asked, m>>, NEW t, NEW o, NEW u, NEW l, NEW op,
         op.kernel = o.kernel, op.weight = o.weight, op.reads = o.reads, op.writes = o.writes, op.layer = l,
         Follows(t, o, u, l), Moves(t, u, l), Casts(t, o, u) \/ Obeys(t, o, u),
         t \in 17..19 => l \in 1..Layers, Facts(t, l), Compute(op)
  PROVE  Facts(u, l)'
<1>1. t \in 2..37 /\ u \in 2..37 /\ (l \in 1..Layers => (t >= 17 <=> u >= 17))
  BY DEF Moves
<1>2. PICK overflows \in (IF op.kernel \in Overflowing /\ bad = {} THEN BOOLEAN ELSE {FALSE}) :
        /\ values' = CASE op.writes \in {"kv", "status"} -> values
                       [] op.kernel = "cast" -> [values EXCEPT ![op.writes] = [values[op.reads[1]] EXCEPT !.half = TRUE]]
                       [] OTHER -> [values EXCEPT ![op.writes] = Result(op)]
        /\ cache' = IF op.kernel = "store" THEN [cache EXCEPT ![op.layer] = Append(@, Operands(op))] ELSE cache
        /\ bad' = IF Spreads(op, overflows) THEN bad \cup ({op.writes} \ {"status"})
                  ELSE bad \ ({op.writes} \ {"kv"})
        /\ status' = IF op.kernel \in Watching /\ Spreads(op, overflows) THEN Recorded ELSE status
  BY DEF Compute
<1>3. /\ op.kernel # "store" /\ op.writes \notin {"kv", "status"}
      /\ \E name : Leaves(t, op.writes, name, u) /\ values' = [values EXCEPT ![op.writes] = Meant(op.writes, name, l)]
  <2>1. CASE Casts(t, o, u)
    <3>1. op.kernel = "cast" /\ op.writes = "matrix_input"
      BY <2>1 DEF Casts
    <3>2. PICK input, value : /\ o.reads = <<input>> /\ input \notin {"kv", "matrix_input"} /\ value # "left"
                              /\ Held(input, value, t) /\ Leaves(t, "matrix_input", value, u)
      BY <2>1 DEF Casts
    <3>3. op.reads[1] = input
      BY <3>2
    <3>4. values[input] = Meant(input, value, l)
      BY <3>2 DEF Facts, Holds, Held
    <3>5. [Meant(input, value, l) EXCEPT !.half = TRUE] = Meant("matrix_input", value, l)
      BY <3>2 DEF Meant, Val
    <3>6. values' = [values EXCEPT !["matrix_input"] = [values[input] EXCEPT !.half = TRUE]]
      BY <1>2, <3>1, <3>3
    <3>7. QED
      BY <3>1, <3>2, <3>4, <3>5, <3>6
  <2>2. CASE Obeys(t, o, u)
    <3>1. PICK f \in Formulas :
            /\ f.kernel = o.kernel /\ f.weight = o.weight /\ DOMAIN f.of = DOMAIN o.reads
            /\ \A k \in DOMAIN f.of : Takes(o.reads[k], f.of[k], t, o.kernel)
            /\ Makes(t, o.writes, f.value, u)
      BY <2>2 DEF Obeys
    <3>2. t \in 17..19 => cache[l] = RowsAfter(l, runs)
      BY DEF Facts, CacheAt
    <3>3. Result(op) = Val(f.value, l, runs)
      BY <3>1, <3>2, ResultIs DEF Facts
    <3>4. /\ f.kernel \notin {"upload", "reset", "download", "cast", "store", "finite"}
          /\ f.value \notin Inputs \cup {"left"}
      BY OperandNames
    <3>5. /\ op.writes \notin {"kv", "status", "matrix_input"}
          /\ Leaves(t, op.writes, IF f.value = "hidden" THEN "left" ELSE f.value, u)
      BY <3>1 DEF Makes
    <3>6. PICK name : name = IF f.value = "hidden" THEN "left" ELSE f.value
      OBVIOUS
    <3>7. Val(f.value, l, runs) = Meant(op.writes, name, l)
      <4>1. CASE f.value = "hidden"
        BY <3>6, <4>1 DEF Meant
      <4>2. CASE f.value # "hidden"
        <5>1. name = f.value /\ name # "left" /\ LayerOf(name, l) = l
          BY <3>4, <3>6, <4>2 DEF LayerOf
        <5>2. (op.writes = "matrix_input") = FALSE
          BY <3>5
        <5>3. [Val(name, l, runs) EXCEPT !.half = FALSE] = Val(name, l, runs)
          BY NotRounded
        <5>4. QED
          BY <5>1, <5>2, <5>3 DEF Meant
      <4>3. QED
        BY <4>1, <4>2
    <3>8. values' = [values EXCEPT ![op.writes] = Result(op)]
      BY <1>2, <3>1, <3>4, <3>5
    <3>9. QED
      BY <3>1, <3>3, <3>4, <3>5, <3>6, <3>7, <3>8
  <2>3. QED
    BY <2>1, <2>2
<1>4. Holds(u, l)'
  BY <1>3, HoldsWhenWritten DEF Facts
<1>5. CacheAt(u, l)'
  BY <1>1, <1>2, <1>3, CacheStays DEF Facts
<1>6. Seen(u)'
  <2>1. Spots(t, op.kernel, Range(op.reads), op.writes, u) /\ t # 1 /\ u # 1 /\ Seen(t)
    BY <1>1 DEF Follows, Facts
  <2>2. overflows => op.kernel \in Overflowing /\ bad = {}
    BY <1>2
  <2>3. Spreads(op, overflows) <=> (overflows \/ \E k \in DOMAIN op.reads : op.reads[k] \in bad)
    BY DEF Spreads
  <2>4. PICK spreads : spreads = Spreads(op, overflows)
    OBVIOUS
  <2>5. QED
    BY <1>2, <2>1, <2>2, <2>3, <2>4, SeenWhenComputed
<1>7. QED
  BY <1>1, <1>4, <1>5, <1>6, ReceivedStays DEF Facts

LEMMA MeantPlain ==
  ASSUME NEW region, region # "matrix_input", NEW name, name # "left", NEW l
  PROVE  Meant(region, name, l) = Val(name, LayerOf(name, l), runs)
<1>1. (region = "matrix_input") = FALSE
  OBVIOUS
<1>2. [Val(name, LayerOf(name, l), runs) EXCEPT !.half = FALSE] = Val(name, LayerOf(name, l), runs)
  BY NotRounded
<1>3. QED
  BY <1>1, <1>2 DEF Meant

LEMMA RestartStage ==
  ASSUME UNCHANGED <<runs, asked, m, values, cache, bad, received>>, status' = Clean,
         NEW l, NEW t, t = 1, NEW u, u = 2, Leaves(t, "none", "none", u), Facts(t, l)
  PROVE  Facts(u, l)'
<1>1. Holds(u, l)'
  BY HoldsWhenSpared DEF Facts
<1>2. CacheAt(u, l)'
  BY CacheStays DEF Facts
<1>3. Seen(u)'
  BY DEF Facts, Seen
<1>4. ReceivedAt(u)'
  <2>1. u \in 1..37
    OBVIOUS
  <2>2. QED
    BY <2>1, ReceivedStays
<1>5. QED
  BY <1>1, <1>2, <1>3, <1>4 DEF Facts

\* The rows stored are those of this forward.
LEMMA CacheStored ==
  ASSUME DOMAIN cache = 1..Layers, runs \in Nat \ {0}, runs' = runs, NEW l \in 1..Layers,
         Holds(16, l), CacheAt(16, l), NEW op, op.reads = <<"key", "value", "slots", "positions">>, op.layer = l,
         cache' = [cache EXCEPT ![l] = Append(@, Operands(op))]
  PROVE  CacheAt(17, l)'
<1>1. /\ values["key"] = Val("turned_k", l, runs) /\ values["value"] = Val("v", l, runs)
      /\ values["slots"] = Val("slots", 0, runs) /\ values["positions"] = Val("positions", 0, runs)
  <2>1. /\ <<"key", "turned_k", 16, 16>> \in Lives /\ <<"value", "v", 12, 16>> \in Lives
        /\ <<"slots", "slots", 5, 39>> \in Lives /\ <<"positions", "positions", 4, 39>> \in Lives
    BY DEF Lives
  <2>2. ASSUME NEW x \in Lives, 16 \in x[3]..x[4]
        PROVE  values[x[1]] = Meant(x[1], x[2], l)
    BY <2>2 DEF Holds
  <2>3. /\ values["key"] = Meant("key", "turned_k", l) /\ values["value"] = Meant("value", "v", l)
        /\ values["slots"] = Meant("slots", "slots", l) /\ values["positions"] = Meant("positions", "positions", l)
    <3>1. PICK w : w = <<"key", "turned_k", 16, 16>>
      OBVIOUS
    <3>2. PICK x : x = <<"value", "v", 12, 16>>
      OBVIOUS
    <3>3. PICK y : y = <<"slots", "slots", 5, 39>>
      OBVIOUS
    <3>4. PICK z : z = <<"positions", "positions", 4, 39>>
      OBVIOUS
    <3>5. {w, x, y, z} \subseteq Lives /\ \A e \in {w, x, y, z} : 16 \in e[3]..e[4]
      BY <2>1, <3>1, <3>2, <3>3, <3>4
    <3>6. \A e \in {w, x, y, z} : values[e[1]] = Meant(e[1], e[2], l)
      BY <2>2, <3>5
    <3>7. QED
      BY <3>1, <3>2, <3>3, <3>4, <3>6
  <2>4. /\ LayerOf("turned_k", l) = l /\ LayerOf("v", l) = l
        /\ LayerOf("slots", l) = 0 /\ LayerOf("positions", l) = 0
    BY DEF LayerOf, Inputs
  <2>5. ASSUME NEW region, region # "matrix_input", NEW name, name # "left"
        PROVE  Meant(region, name, l) = Val(name, LayerOf(name, l), runs)
    BY <2>5, MeantPlain
  <2>6. /\ Meant("key", "turned_k", l) = Val("turned_k", LayerOf("turned_k", l), runs)
        /\ Meant("value", "v", l) = Val("v", LayerOf("v", l), runs)
        /\ Meant("slots", "slots", l) = Val("slots", LayerOf("slots", l), runs)
        /\ Meant("positions", "positions", l) = Val("positions", LayerOf("positions", l), runs)
    BY <2>5
  <2>7. QED
    BY <2>3, <2>4, <2>6
<1>2. Operands(op) = <<Val("turned_k", l, runs), Val("v", l, runs), Val("slots", 0, runs), Val("positions", 0, runs)>>
  BY <1>1 DEF Operands, Operand
<1>3. ASSUME NEW j \in 1..Layers
      PROVE  cache[j] = RowsAfter(j, IF j < l THEN runs ELSE runs - 1)
  BY <1>3 DEF CacheAt
<1>4. cache[l] = RowsAfter(l, runs - 1)
  BY <1>3
<1>5. cache'[l] = RowsAfter(l, runs)
  <2>1. cache'[l] = Append(cache[l], Operands(op))
    OBVIOUS
  <2>2. QED
    BY <1>2, <1>4, <2>1, RowsAppended
<1>6. ASSUME NEW j \in 1..Layers
      PROVE  cache'[j] = RowsAfter(j, IF j < l \/ j = l THEN runs ELSE runs - 1)
  <2>1. CASE j = l
    BY <1>5, <2>1
  <2>2. CASE j # l
    <3>1. cache'[j] = cache[j]
      BY <2>2
    <3>2. QED
      BY <1>3, <2>2, <3>1
  <2>3. QED
    BY <2>1, <2>2
<1>7. ASSUME NEW j \in 1..Layers
      PROVE  cache'[j] = RowsAfter(j, IF j < l \/ (j = l /\ 17 >= 17) THEN runs' ELSE runs' - 1)
  BY <1>6
<1>8. QED
  BY <1>7 DEF CacheAt, RowsAfter

\* The steps that compute no value: the reset, the store, the check of what a
\* layer leaves, and the copies to the host.
LEMMA StoreStage ==
  ASSUME DOMAIN cache = 1..Layers, runs \in Nat \ {0}, UNCHANGED <<runs, asked, m>>,
         NEW t, NEW o, NEW u, NEW l, NEW op,
         op.kernel = o.kernel, op.reads = o.reads, op.writes = o.writes, op.layer = l,
         Leaves(t, "none", "none", u), Spots(t, o.kernel, Range(o.reads), o.writes, u),
         \/ Stores(t, o, u, l)
         \/ o.kernel = "finite" /\ o.writes = "status" /\ t = 31 /\ u = 32,
         Facts(t, l), Compute(op)
  PROVE  Facts(u, l)'
<1>1. PICK overflows \in (IF op.kernel \in Overflowing /\ bad = {} THEN BOOLEAN ELSE {FALSE}) :
        /\ values' = CASE op.writes \in {"kv", "status"} -> values
                       [] op.kernel = "cast" -> [values EXCEPT ![op.writes] = [values[op.reads[1]] EXCEPT !.half = TRUE]]
                       [] OTHER -> [values EXCEPT ![op.writes] = Result(op)]
        /\ cache' = IF op.kernel = "store" THEN [cache EXCEPT ![op.layer] = Append(@, Operands(op))] ELSE cache
        /\ bad' = IF Spreads(op, overflows) THEN bad \cup ({op.writes} \ {"status"})
                  ELSE bad \ ({op.writes} \ {"kv"})
        /\ status' = IF op.kernel \in Watching /\ Spreads(op, overflows) THEN Recorded ELSE status
        /\ UNCHANGED received
  BY DEF Compute
<1>2. op.writes \in {"kv", "status"} /\ op.kernel # "cast" /\ t # 1 /\ u \in 1..37 /\ u # 1
  BY DEF Stores
<1>3. values' = values
  <2>1. op.writes \in {"kv", "status"} /\ op.kernel # "cast"
    BY <1>2
  <2>2. QED
    BY <1>1, <2>1
<1>4. Holds(u, l)'
  BY <1>3, HoldsWhenSpared DEF Facts
<1>5. Seen(u)'
  <2>1. t # 1 /\ u # 1 /\ Seen(t)
    <3>1. Seen(t)
      BY DEF Facts
    <3>2. QED
      BY <1>2, <3>1
  <2>2. overflows => op.kernel \in Overflowing /\ bad = {}
    BY <1>1
  <2>3. Spreads(op, overflows) <=> (overflows \/ \E k \in DOMAIN op.reads : op.reads[k] \in bad)
    BY DEF Spreads
  <2>4. PICK spreads : spreads = Spreads(op, overflows)
    OBVIOUS
  <2>5. Spots(t, op.kernel, Range(op.reads), op.writes, u)
    OBVIOUS
  <2>6. QED
    BY <1>1, <2>1, <2>2, <2>3, <2>4, <2>5, SeenWhenComputed
<1>6. CacheAt(u, l)'
  <2>1. CASE o.kernel = "finite" /\ t = 31 /\ u = 32
    <3>1. cache' = cache
      BY <1>1, <2>1
    <3>2. QED
      BY <2>1, <3>1, CacheStays DEF Facts
  <2>2. CASE Stores(t, o, u, l)
    <3>1. /\ t = 16 /\ u = 17 /\ l \in 1..Layers /\ op.reads = <<"key", "value", "slots", "positions">>
          /\ op.kernel = "store"
      BY <2>2 DEF Stores
    <3>2. cache' = [cache EXCEPT ![l] = Append(@, Operands(op))]
      BY <1>1, <3>1
    <3>3. QED
      BY <3>1, <3>2, CacheStored DEF Facts
  <2>3. QED
    BY <2>1, <2>2
<1>7. QED
  BY <1>2, <1>4, <1>5, <1>6, ReceivedStays DEF Facts

LEMMA CopyStage ==
  ASSUME DOMAIN received = {"status", "tokens", "logits"}, UNCHANGED <<runs, asked, m>>,
         NEW t, NEW o, NEW u, NEW l, Leaves(t, "none", "none", u), Spots(t, o.kernel, Range(o.reads), o.writes, u),
         Copies(t, o, u, l), Facts(t, l),
         received' = [received EXCEPT ![o.writes] = values[o.writes]], UNCHANGED <<values, cache, bad, status>>
  PROVE  Facts(u, l)'
<1>1. /\ o.kernel = "download" /\ o.reads = <<o.writes>> /\ l = Layers + 1 /\ l \notin 1..Layers
      /\ \/ o.writes = "tokens" /\ t = 37 /\ u = 38
         \/ o.writes = "logits" /\ t = 38 /\ u = 39
  BY DEF Copies
<1>2. Holds(u, l)'
  BY HoldsWhenSpared DEF Facts
<1>3. CacheAt(u, l)'
  BY <1>1, CacheStays DEF Facts
<1>4. Seen(u)'
  <2>1. Range(o.reads) = {o.writes}
    BY <1>1, RangeOfFew
  <2>2. "download" \notin Watching /\ t # 1 /\ u # 1
    BY <1>1 DEF Watching
  <2>3. QED
    BY <1>1, <2>1, <2>2, SeenWhenSpared DEF Facts
<1>5. /\ <<"tokens", "best", 37, 39>> \in Lives /\ <<"logits", "answers", 36, 39>> \in Lives
      /\ Meant("tokens", "best", l) = Val("best", l, runs) /\ Meant("logits", "answers", l) = Val("answers", l, runs)
  <2>1. LayerOf("best", l) = l /\ LayerOf("answers", l) = l
    BY DEF LayerOf, Inputs
  <2>2. /\ Meant("tokens", "best", l) = Val("best", LayerOf("best", l), runs)
        /\ Meant("logits", "answers", l) = Val("answers", LayerOf("answers", l), runs)
    BY MeantPlain
  <2>3. <<"tokens", "best", 37, 39>> \in Lives /\ <<"logits", "answers", 36, 39>> \in Lives
    BY DEF Lives
  <2>4. QED
    BY <2>1, <2>2, <2>3
<1>6. values["tokens"] = Val("best", l, runs) /\ values["logits"] = Val("answers", l, runs)
  BY <1>1, <1>5 DEF Facts, Holds
<1>7. ReceivedAt(u)'
  <2>1. CASE o.writes = "tokens" /\ t = 37 /\ u = 38
    BY <1>1, <1>6, <2>1 DEF ReceivedAt, Chooses
  <2>2. CASE o.writes = "logits" /\ t = 38 /\ u = 39
    BY <1>1, <1>6, <2>2 DEF ReceivedAt, Chooses, Facts
  <2>3. QED
    BY <1>1, <2>1, <2>2
<1>8. QED
  BY <1>2, <1>3, <1>4, <1>7 DEF Facts

-----------------------------------------------------------------------------
(***************************************************************************)
(* Walks: a program leads from one node to another along a set of steps.   *)
(***************************************************************************)
Walks(steps, x, work, y) ==
  /\ work \in Seq(Range(work))
  /\ \E P : /\ P[1] = x /\ P[Len(work) + 1] = y
            /\ \A k \in 1..Len(work) : <<P[k], work[k], P[k + 1]>> \in steps

LEMMA WalkOfNone == ASSUME NEW steps, NEW x PROVE Walks(steps, x, <<>>, x)
<1> DEFINE P == [k \in 1..1 |-> x]
<1>1. P[1] = x /\ Len(<<>>) = 0 /\ \A k \in 1..0 : FALSE
  OBVIOUS
<1> HIDE DEF P
<1>2. <<>> \in Seq(Range(<<>>))
  OBVIOUS
<1>3. QED
  BY <1>1, <1>2 DEF Walks

\* One stage after the other, but for where the first step begins.
LEMMA WalkUp ==
  ASSUME NEW steps, NEW S, NEW work \in Seq(S), NEW x, NEW t \in Nat, NEW y, Len(work) >= 1,
         <<x, work[1], t + 1>> \in steps,
         \A k \in 2..Len(work) : <<t + (k - 1), work[k], t + k>> \in steps,
         y = t + Len(work)
  PROVE  Walks(steps, x, work, y)
<1>1. PICK n \in Nat : n = Len(work) /\ n >= 1
  BY LenProperties
<1> DEFINE P == [k \in 1..(n + 1) |-> IF k = 1 THEN x ELSE t + (k - 1)]
<1>2. P[1] = x /\ P[n + 1] = y
  BY <1>1
<1>3. ASSUME NEW k \in 1..n PROVE <<P[k], work[k], P[k + 1]>> \in steps
  <2>1. P[k + 1] = t + k /\ (k # 1 => P[k] = t + (k - 1))
    BY <1>1
  <2>2. CASE k = 1
    BY <1>2, <2>1, <2>2
  <2>3. CASE k # 1
    <3>1. k \in 2..Len(work)
      BY <1>1, <2>3
    <3> HIDE DEF P
    <3>2. QED
      BY <2>1, <2>3, <3>1
  <2>4. QED
    BY <2>2, <2>3
<1> HIDE DEF P
<1>4. QED
  BY <1>1, <1>2, <1>3, OwnRange DEF Walks

LEMMA WalkOfOne ==
  ASSUME NEW steps, NEW x, NEW op, NEW y, <<x, op, y>> \in steps
  PROVE  Walks(steps, x, <<op>>, y)
<1> DEFINE P == [k \in 1..2 |-> IF k = 1 THEN x ELSE y]
<1>1. P[1] = x /\ P[2] = y /\ Len(<<op>>) = 1 /\ <<op>>[1] = op /\ \A k \in 1..1 : k = 1
  OBVIOUS
<1> HIDE DEF P
<1>2. <<op>> \in Seq(Range(<<op>>))
  <2>1. <<op>> \in Seq({op})
    OBVIOUS
  <2>2. QED
    BY <2>1, OwnRange
<1>3. QED
  BY <1>1, <1>2 DEF Walks

LEMMA WalkOn ==
  ASSUME NEW steps, NEW s, NEW u, NEW x, NEW y, NEW z, Walks(steps, x, s, y), Walks(steps, y, u, z)
  PROVE  Walks(steps, x, s \o u, z)
<1> DEFINE S == Range(s) \cup Range(u)
<1>0. s \in Seq(S) /\ u \in Seq(S)
  BY SeqMonotonic DEF Walks
<1> HIDE DEF S
<1>1. PICK P : P[1] = x /\ P[Len(s) + 1] = y /\ \A k \in 1..Len(s) : <<P[k], s[k], P[k + 1]>> \in steps
  BY DEF Walks
<1>2. PICK Q : Q[1] = y /\ Q[Len(u) + 1] = z /\ \A k \in 1..Len(u) : <<Q[k], u[k], Q[k + 1]>> \in steps
  BY DEF Walks
<1>3. PICK a \in Nat, b \in Nat : a = Len(s) /\ b = Len(u)
  BY <1>0, LenProperties
<1>4. /\ Len(s \o u) = a + b /\ \A k \in 1..a : (s \o u)[k] = s[k]
      /\ \A k \in 1..b : (s \o u)[a + k] = u[k]
  BY <1>0, <1>3, ConcatProperties
<1> DEFINE R == [k \in 1..(a + b + 1) |-> IF k <= a THEN P[k] ELSE Q[k - a]]
<1>5. /\ \A k \in 1..(a + 1) : R[k] = P[k]
      /\ \A k \in 1..(b + 1) : R[a + k] = Q[k]
  <2>1. ASSUME NEW k \in 1..(a + 1) PROVE R[k] = P[k]
    <3>1. CASE k <= a
      BY <3>1
    <3>2. CASE k = a + 1
      <4>1. R[k] = Q[1] /\ P[k] = y
        BY <1>1, <1>3, <3>2
      <4>2. QED
        BY <1>2, <4>1
    <3>3. QED
      BY <3>1, <3>2
  <2>2. ASSUME NEW k \in 1..(b + 1) PROVE R[a + k] = Q[k]
    <3>1. a + k \in 1..(a + b + 1) /\ ~(a + k <= a) /\ (a + k) - a = k
      OBVIOUS
    <3>2. QED
      BY <3>1
  <2>3. QED
    BY <2>1, <2>2
<1> HIDE DEF R
<1>6. R[1] = x /\ R[a + b + 1] = z
  <2>1. 1 \in 1..(a + 1) /\ b + 1 \in 1..(b + 1) /\ a + (b + 1) = a + b + 1
    OBVIOUS
  <2>2. R[1] = P[1] /\ R[a + (b + 1)] = Q[b + 1]
    BY <1>5, <2>1
  <2>3. QED
    BY <1>1, <1>2, <1>3, <2>1, <2>2
<1>7. ASSUME NEW k \in 1..(a + b) PROVE <<R[k], (s \o u)[k], R[k + 1]>> \in steps
  <2>1. CASE k <= a
    <3>1. k \in 1..a /\ k \in 1..(a + 1) /\ k + 1 \in 1..(a + 1)
      BY <2>1
    <3>2. R[k] = P[k] /\ R[k + 1] = P[k + 1] /\ (s \o u)[k] = s[k]
      BY <1>4, <1>5, <3>1
    <3>3. QED
      BY <1>1, <1>3, <3>1, <3>2
  <2>2. CASE k > a
    <3>1. PICK j \in 1..b : k = a + j /\ k + 1 = a + (j + 1)
      <4>1. k - a \in 1..b /\ k = a + (k - a) /\ k + 1 = a + ((k - a) + 1)
        BY <2>2
      <4>2. QED
        BY <4>1
    <3>2. j \in 1..(b + 1) /\ j + 1 \in 1..(b + 1)
      BY <1>3, <3>1
    <3>3. R[k] = Q[j] /\ R[k + 1] = Q[j + 1] /\ (s \o u)[k] = u[j]
      BY <1>4, <1>5, <3>1, <3>2
    <3>4. QED
      BY <1>2, <1>3, <3>1, <3>3
  <2>3. k <= a \/ k > a
    OBVIOUS
  <2>4. QED
    BY <2>1, <2>2, <2>3
<1>8. s \o u \in Seq(Range(s \o u))
  BY <1>0, OwnRange, ConcatProperties
<1>9. QED
  BY <1>3, <1>4, <1>6, <1>7, <1>8 DEF Walks

LEMMA WalkAlong ==
  ASSUME NEW steps, NEW more, steps \subseteq more, NEW x, NEW work, NEW y, Walks(steps, x, work, y)
  PROVE  Walks(more, x, work, y)
BY DEF Walks

\* A group of products: the input is rounded first, if it is.
LEMMA GroupWalk ==
  ASSUME NEW steps, NEW input, NEW t \in Nat, Cast(t, input, t + 1) \subseteq steps,
         NEW n \in Nat, n >= 1, NEW products, DOMAIN products = 1..n,
         <<Rounded(t + 1), Multiply(input, products[1][1], products[1][2]), t + 2>> \in steps,
         \A k \in 2..n :
           <<t + k, Multiply(input, products[k][1], products[k][2]), t + (k + 1)>> \in steps,
         NEW u, u = t + 1 + n
  PROVE  Walks(steps, t, Group(input, products), u)
<1>1. n >= 1 /\ DOMAIN products = 1..n
  OBVIOUS
<1> DEFINE made == [k \in DOMAIN products |-> Multiply(input, products[k][1], products[k][2])]
           T == {made[k] : k \in DOMAIN products}
<1>2. made \in [1..n -> T]
  BY <1>1
<1>3. made \in Seq(T) /\ Len(made) = n /\ \A k \in 1..n : made[k] = Multiply(input, products[k][1], products[k][2])
  <2>1. \A k \in 1..n : made[k] = Multiply(input, products[k][1], products[k][2])
    BY <1>1
  <2> HIDE DEF made, T
  <2>2. QED
    BY <1>2, <2>1, BytesAreSeq
<1> DEFINE cast == Op("cast", "none", <<input>>, "matrix_input")
<1>4. Walks(steps, t, Prepare(input), Rounded(t + 1))
  <2>1. CASE Half
    <3>1. <<t, cast, t + 1>> \in steps
      BY <2>1 DEF Cast
    <3>2. Prepare(input) = <<cast>> /\ Rounded(t + 1) = t + 1
      BY <2>1 DEF Prepare, Rounded
    <3> HIDE DEF cast
    <3>3. QED
      BY <3>1, <3>2, WalkOfOne
  <2>2. CASE ~Half
    <3>1. Prepare(input) = <<>> /\ Rounded(t + 1) = t
      BY <2>2 DEF Prepare, Rounded
    <3> HIDE DEF cast
    <3>2. QED
      BY <3>1, WalkOfNone
  <2>3. QED
    BY <2>1, <2>2
<1>5. Group(input, products) = Prepare(input) \o made
  BY DEF Group
<1>6. Walks(steps, Rounded(t + 1), made, u)
  <2>1. PICK v \in Nat : v = t + 1
    OBVIOUS
  <2>2. <<Rounded(v), made[1], v + 1>> \in steps
    <3>1. v + 1 = t + 2
      BY <2>1
    <3> HIDE DEF made, T
    <3>2. made[1] = Multiply(input, products[1][1], products[1][2])
      BY <1>1, <1>3
    <3>3. QED
      BY <2>1, <3>1, <3>2
  <2>3. ASSUME NEW k \in 2..n PROVE <<v + (k - 1), made[k], v + k>> \in steps
    <3>1. v + (k - 1) = t + k /\ v + k = t + (k + 1) /\ k \in 1..n
      BY <2>1, <2>3
    <3> HIDE DEF made, T
    <3>2. made[k] = Multiply(input, products[k][1], products[k][2])
      BY <1>3, <3>1
    <3>3. QED
      BY <1>1, <2>3, <3>1, <3>2
  <2>4. u = v + n
    BY <1>1, <2>1
  <2> HIDE DEF made, T
  <2>5. QED
    BY <1>1, <1>3, <2>1, <2>2, <2>3, <2>4, WalkUp
<1> HIDE DEF made
<1>7. QED
  BY <1>4, <1>5, <1>6, WalkOn

\* Two steps, one after the other.
LEMMA WalkOfTwo ==
  ASSUME NEW steps, NEW x, NEW op, NEW y, NEW more, NEW z, <<x, op, y>> \in steps, <<y, more, z>> \in steps
  PROVE  Walks(steps, x, <<op, more>>, z)
<1>1. Walks(steps, x, <<op>>, y) /\ Walks(steps, y, <<more>>, z)
  BY WalkOfOne
<1>2. <<op, more>> = <<op>> \o <<more>>
  OBVIOUS
<1>3. QED
  BY <1>1, <1>2, WalkOn

LEMMA WalkOfEight ==
  ASSUME NEW steps, NEW a, NEW b, NEW d, NEW e, NEW f, NEW g, NEW h, NEW i,
         <<12, a, 13>> \in steps, <<13, b, 14>> \in steps, <<14, d, 15>> \in steps, <<15, e, 16>> \in steps,
         <<16, f, 17>> \in steps, <<17, g, 18>> \in steps, <<18, h, 19>> \in steps, <<19, i, 20>> \in steps
  PROVE  Walks(steps, 12, <<a, b, d, e, f, g, h, i>>, 20)
<1> DEFINE work == <<a, b, d, e, f, g, h, i>>
<1>1. /\ work \in Seq({a, b, d, e, f, g, h, i}) /\ Len(work) = 8
      /\ work[1] = a /\ work[2] = b /\ work[3] = d /\ work[4] = e /\ work[5] = f /\ work[6] = g /\ work[7] = h /\ work[8] = i
  OBVIOUS
<1> HIDE DEF work
<1>2. ASSUME NEW k \in 2..8 PROVE <<12 + (k - 1), work[k], 12 + k>> \in steps
  <2>1. CASE k = 2
    <3>1. 12 + (k - 1) = 13 /\ 12 + k = 14
      BY <2>1
    <3>2. QED
      BY <1>1, <2>1, <3>1
  <2>2. CASE k = 3
    <3>1. 12 + (k - 1) = 14 /\ 12 + k = 15
      BY <2>2
    <3>2. QED
      BY <1>1, <2>2, <3>1
  <2>3. CASE k = 4
    <3>1. 12 + (k - 1) = 15 /\ 12 + k = 16
      BY <2>3
    <3>2. QED
      BY <1>1, <2>3, <3>1
  <2>4. CASE k = 5
    <3>1. 12 + (k - 1) = 16 /\ 12 + k = 17
      BY <2>4
    <3>2. QED
      BY <1>1, <2>4, <3>1
  <2>5. CASE k = 6
    <3>1. 12 + (k - 1) = 17 /\ 12 + k = 18
      BY <2>5
    <3>2. QED
      BY <1>1, <2>5, <3>1
  <2>6. CASE k = 7
    <3>1. 12 + (k - 1) = 18 /\ 12 + k = 19
      BY <2>6
    <3>2. QED
      BY <1>1, <2>6, <3>1
  <2>7. CASE k = 8
    <3>1. 12 + (k - 1) = 19 /\ 12 + k = 20
      BY <2>7
    <3>2. QED
      BY <1>1, <2>7, <3>1
  <2>8. k \in {2, 3, 4, 5, 6, 7, 8}
    OBVIOUS
  <2>9. QED
    BY <2>1, <2>2, <2>3, <2>4, <2>5, <2>6, <2>7, <2>8
<1>3. <<12, work[1], 12 + 1>> \in steps /\ 20 = 12 + 8 /\ 12 \in Nat /\ 8 >= 1
  BY <1>1
<1>4. Walks(steps, 12, work, 20)
  BY <1>1, <1>2, <1>3, WalkUp
<1>5. QED
  BY <1>4 DEF work

LEMMA AttentionWalk ==
  ASSUME NEW steps, AttentionSteps \cup CastSteps \subseteq steps
  PROVE  Walks(steps, 7, AttentionWork, 24)
<1> DEFINE opening == <<Op("norm", "attn_norm", <<"hidden">>, "normalized")>>
           three == <<<<"attn_q", "query">>, <<"attn_k", "key">>, <<"attn_v", "value">>>>
           one   == <<<<"attn_output", "projected">>>>
           mixed == <<Op("norm", "attn_q_norm", <<"query">>, "query"), Op("norm", "attn_k_norm", <<"key">>, "key"),
                      Op("rope", "none", <<"query", "positions">>, "query"), Op("rope", "none", <<"key", "positions">>, "key"),
                      Op("store", "none", <<"key", "value", "slots", "positions">>, "kv"),
                      Op("qk", "none", <<"kv", "query", "slots", "positions">>, "scores"),
                      Op("softmax", "none", <<"scores", "slots", "positions">>, "probabilities"),
                      Op("pv", "none", <<"kv", "probabilities", "slots", "positions">>, "attention")>>
           last  == <<Op("add", "none", <<"hidden", "projected">>, "hidden"),
                      Op("norm", "ffn_norm", <<"hidden">>, "normalized")>>
<1>1. Walks(steps, 7, opening, 8)
  BY WalkOfOne DEF AttentionSteps
<1>2. Walks(steps, 8, Group("normalized", three), 12)
  <2>1. Cast(8, "normalized", 8 + 1) \subseteq steps
    BY DEF CastSteps
  <2>2. DOMAIN three = 1..3 /\ three[1] = <<"attn_q", "query">> /\ three[2] = <<"attn_k", "key">> /\ three[3] = <<"attn_v", "value">>
    OBVIOUS
  <2>3. <<Rounded(8 + 1), Multiply("normalized", "attn_q", "query"), 8 + 2>> \in steps
    BY DEF AttentionSteps, Rounded
  <2>4. /\ <<8 + 2, Multiply("normalized", "attn_k", "key"), 8 + (2 + 1)>> \in steps
        /\ <<8 + 3, Multiply("normalized", "attn_v", "value"), 8 + (3 + 1)>> \in steps
    BY DEF AttentionSteps
  <2> HIDE DEF three
  <2>5. ASSUME NEW k \in 2..3
        PROVE  <<8 + k, Multiply("normalized", three[k][1], three[k][2]), 8 + (k + 1)>> \in steps
    <3>1. CASE k = 2
      BY <2>2, <2>4, <3>1
    <3>2. CASE k = 3
      BY <2>2, <2>4, <3>2
    <3>3. QED
      BY <3>1, <3>2
  <2>6. <<Rounded(8 + 1), Multiply("normalized", three[1][1], three[1][2]), 8 + 2>> \in steps
    BY <2>2, <2>3
  <2>7. 12 = 8 + 1 + 3 /\ 3 \in Nat /\ 3 >= 1 /\ 8 \in Nat
    OBVIOUS
  <2>8. QED
    BY <2>1, <2>2, <2>6, <2>5, <2>7, GroupWalk
<1>3. Walks(steps, 12, mixed, 20)
  <2>1. <<12, Op("norm", "attn_q_norm", <<"query">>, "query"), 13>> \in steps
    BY DEF AttentionSteps
  <2>2. <<13, Op("norm", "attn_k_norm", <<"key">>, "key"), 14>> \in steps
    BY DEF AttentionSteps
  <2>3. <<14, Op("rope", "none", <<"query", "positions">>, "query"), 15>> \in steps
    BY DEF AttentionSteps
  <2>4. <<15, Op("rope", "none", <<"key", "positions">>, "key"), 16>> \in steps
    BY DEF AttentionSteps
  <2>5. <<16, Op("store", "none", <<"key", "value", "slots", "positions">>, "kv"), 17>> \in steps
    BY DEF AttentionSteps
  <2>6. <<17, Op("qk", "none", <<"kv", "query", "slots", "positions">>, "scores"), 18>> \in steps
    BY DEF AttentionSteps
  <2>7. <<18, Op("softmax", "none", <<"scores", "slots", "positions">>, "probabilities"), 19>> \in steps
    BY DEF AttentionSteps
  <2>8. <<19, Op("pv", "none", <<"kv", "probabilities", "slots", "positions">>, "attention"), 20>> \in steps
    BY DEF AttentionSteps
  <2>9. QED
    BY <2>1, <2>2, <2>3, <2>4, <2>5, <2>6, <2>7, <2>8, WalkOfEight
<1>4. Walks(steps, 20, Group("attention", one), 22)
  <2>1. Cast(20, "attention", 20 + 1) \subseteq steps
    BY DEF CastSteps
  <2>2. DOMAIN one = 1..1 /\ one[1] = <<"attn_output", "projected">>
    OBVIOUS
  <2>3. <<Rounded(20 + 1), Multiply("attention", "attn_output", "projected"), 20 + 2>> \in steps
    BY DEF AttentionSteps, Rounded
  <2> HIDE DEF one
  <2>4. ASSUME NEW k \in 2..1
        PROVE  <<20 + k, Multiply("attention", one[k][1], one[k][2]), 20 + (k + 1)>> \in steps
    OBVIOUS
  <2>5. <<Rounded(20 + 1), Multiply("attention", one[1][1], one[1][2]), 20 + 2>> \in steps
    BY <2>2, <2>3
  <2>6. 22 = 20 + 1 + 1 /\ 1 \in Nat /\ 1 >= 1 /\ 20 \in Nat
    OBVIOUS
  <2>7. QED
    BY <2>1, <2>2, <2>5, <2>4, <2>6, GroupWalk
<1>5. Walks(steps, 22, last, 24)
  BY WalkOfTwo DEF AttentionSteps
<1>6. AttentionWork = (((opening \o Group("normalized", three)) \o mixed) \o Group("attention", one)) \o last
  BY DEF AttentionWork
<1> HIDE DEF opening, three, mixed, one, last
<1>7. Walks(steps, 7, opening \o Group("normalized", three), 12)
  BY <1>1, <1>2, WalkOn
<1>8. Walks(steps, 7, (opening \o Group("normalized", three)) \o mixed, 20)
  BY <1>3, <1>7, WalkOn
<1>9. Walks(steps, 7, ((opening \o Group("normalized", three)) \o mixed) \o Group("attention", one), 22)
  BY <1>4, <1>8, WalkOn
<1>10. QED
  BY <1>5, <1>6, <1>9, WalkOn

LEMMA FeedForwardWalk ==
  ASSUME NEW steps, FeedForwardSteps \cup CastSteps \subseteq steps
  PROVE  Walks(steps, 24, FeedForwardWork, 32)
<1> DEFINE two == <<<<"ffn_gate", "gate">>, <<"ffn_up", "up">>>>
           one == <<<<"ffn_down", "down">>>>
<1>1. Walks(steps, 24, Opened, 27)
  <2>1. Cast(24, "normalized", 24 + 1) \subseteq steps
    BY DEF CastSteps
  <2>2. DOMAIN two = 1..2 /\ two[1] = <<"ffn_gate", "gate">> /\ two[2] = <<"ffn_up", "up">>
    OBVIOUS
  <2>3. <<Rounded(24 + 1), Multiply("normalized", "ffn_gate", "gate"), 24 + 2>> \in steps
    BY DEF FeedForwardSteps, Rounded
  <2>4. /\ <<24 + 2, Multiply("normalized", "ffn_up", "up"), 24 + (2 + 1)>> \in steps
    BY DEF FeedForwardSteps
  <2> HIDE DEF two
  <2>5. ASSUME NEW k \in 2..2
        PROVE  <<24 + k, Multiply("normalized", two[k][1], two[k][2]), 24 + (k + 1)>> \in steps
    <3>1. k = 2
      OBVIOUS
    <3>2. QED
      BY <2>2, <2>4, <3>1
  <2>6. <<Rounded(24 + 1), Multiply("normalized", two[1][1], two[1][2]), 24 + 2>> \in steps
    BY <2>2, <2>3
  <2>7. 27 = 24 + 1 + 2 /\ 2 \in Nat /\ 2 >= 1 /\ 24 \in Nat
    OBVIOUS
  <2>8. Opened = Group("normalized", two)
    BY DEF Opened, two
  <2>9. QED
    BY <2>1, <2>2, <2>6, <2>5, <2>7, <2>8, GroupWalk
<1>2. Walks(steps, 27, Activated, 28)
  BY WalkOfOne DEF FeedForwardSteps, Activated
<1>3. Walks(steps, 28, Group("gate", one), 30)
  <2>1. Cast(28, "gate", 28 + 1) \subseteq steps
    BY DEF CastSteps
  <2>2. DOMAIN one = 1..1 /\ one[1] = <<"ffn_down", "down">>
    OBVIOUS
  <2>3. <<Rounded(28 + 1), Multiply("gate", "ffn_down", "down"), 28 + 2>> \in steps
    BY DEF FeedForwardSteps, Rounded
  <2> HIDE DEF one
  <2>4. ASSUME NEW k \in 2..1
        PROVE  <<28 + k, Multiply("gate", one[k][1], one[k][2]), 28 + (k + 1)>> \in steps
    OBVIOUS
  <2>5. <<Rounded(28 + 1), Multiply("gate", one[1][1], one[1][2]), 28 + 2>> \in steps
    BY <2>2, <2>3
  <2>6. 30 = 28 + 1 + 1 /\ 1 \in Nat /\ 1 >= 1 /\ 28 \in Nat
    OBVIOUS
  <2>7. QED
    BY <2>1, <2>2, <2>5, <2>4, <2>6, GroupWalk
<1>4. Walks(steps, 30, Closing, 32)
  BY WalkOfTwo DEF FeedForwardSteps, Closing
<1>5. FeedForwardWork = ((Opened \o Activated) \o Group("gate", one)) \o Closing
  BY DEF FeedForwardWork
<1> HIDE DEF one
<1>6. Walks(steps, 24, Opened \o Activated, 28)
  BY <1>1, <1>2, WalkOn
<1>7. Walks(steps, 24, (Opened \o Activated) \o Group("gate", one), 30)
  BY <1>3, <1>6, WalkOn
<1>8. QED
  BY <1>4, <1>5, <1>7, WalkOn

LayerSteps == AttentionSteps \cup FeedForwardSteps \cup CastSteps

LEMMA LayerWalk == Walks(LayerSteps, 7, LayerWork, 32)
<1>1. Walks(LayerSteps, 7, AttentionWork, 24) /\ Walks(LayerSteps, 24, FeedForwardWork, 32)
  BY AttentionWalk, FeedForwardWalk DEF LayerSteps
<1>2. QED
  BY <1>1, WalkOn DEF LayerWork

-----------------------------------------------------------------------------
(***************************************************************************)
(* The walk of a whole forward: a node is a stage of a layer.  The end of a*)
(* layer is the beginning of the next.                                     *)
(***************************************************************************)
Node(t, l) == IF t = 32 THEN <<7, l + 1>> ELSE <<t, l>>
LastStage == IF ~Chooses THEN 7 ELSE IF "logits" \in asked THEN 39 ELSE 38
LastStep == <<<<LastStage, Layers + 1>>, Download("status", "host"), <<40, Layers + 1>>>>

EdgesOf(l) == {<<<<e[1], l>>, [e[2] EXCEPT !.layer = l], Node(e[3], l)>> : e \in StepsOf(l)}
EdgesOfAll == UNION {EdgesOf(l) : l \in 0..(Layers + 1)}
Edges == EdgesOfAll \cup {LastStep}

LEMMA NoStepFromTheEnd ==
  ASSUME NEW l, NEW e \in StepsOf(l)
  PROVE  e[1] # 32
<1>1. \A e1 \in AttentionSteps : e1[1] # 32
  BY DEF AttentionSteps, Rounded
<1>2. \A e2 \in FeedForwardSteps : e2[1] # 32
  BY DEF FeedForwardSteps, Rounded
<1>3. \A e3 \in CastSteps \cup Cast(34, "selected_hidden", 35) : e3[1] # 32
  BY DEF CastSteps, Cast
<1>4. \A e4 \in BeginningSteps : e4[1] # 32
  BY DEF BeginningSteps
<1>5. \A e5 \in SelectionSteps : e5[1] # 32
  BY DEF SelectionSteps, Rounded
<1>6. QED
  BY <1>1, <1>2, <1>3, <1>4, <1>5 DEF StepsOf

LEMMA EdgeIn ==
  ASSUME NEW l \in 0..(Layers + 1), NEW t, NEW o, NEW u, <<t, o, u>> \in StepsOf(l)
  PROVE  <<Node(t, l), [o EXCEPT !.layer = l], Node(u, l)>> \in Edges
<1>1. PICK e \in StepsOf(l) : e = <<t, o, u>>
  OBVIOUS
<1>2. Node(t, l) = <<e[1], l>>
  BY <1>1, NoStepFromTheEnd DEF Node
<1>3. <<<<e[1], l>>, [e[2] EXCEPT !.layer = l], Node(e[3], l)>> \in EdgesOf(l)
  BY DEF EdgesOf
<1>4. QED
  BY <1>1, <1>2, <1>3 DEF Edges, EdgesOfAll

\* Programs of one layer.
LEMMA WalkAt ==
  ASSUME NEW l \in 0..(Layers + 1), NEW t, NEW work, NEW u, Walks(StepsOf(l), t, work, u)
  PROVE  Walks(Edges, Node(t, l), At(l, work), Node(u, l))
<1>1. work \in Seq(Range(work))
  BY DEF Walks
<1>2. PICK P : P[1] = t /\ P[Len(work) + 1] = u /\ \A k \in 1..Len(work) : <<P[k], work[k], P[k + 1]>> \in StepsOf(l)
  BY DEF Walks
<1>3. PICK n \in Nat : n = Len(work) /\ DOMAIN work = 1..n
  BY <1>1, LenProperties
<1> DEFINE S == {[work[k] EXCEPT !.layer = l] : k \in 1..n}
<1>4. At(l, work) = [k \in 1..n |-> [work[k] EXCEPT !.layer = l]]
  BY <1>3 DEF At
<1>5. At(l, work) \in Seq(S) /\ Len(At(l, work)) = n
  <2>1. At(l, work) \in [1..n -> S]
    BY <1>4
  <2> HIDE DEF S
  <2>2. QED
    BY <2>1, BytesAreSeq
<1> HIDE DEF S
<1>6. At(l, work) \in Seq(Range(At(l, work)))
  BY <1>5, OwnRange
<1> DEFINE R == [k \in 1..(n + 1) |-> Node(P[k], l)]
<1>7. \A k \in 1..(n + 1) : R[k] = Node(P[k], l)
  OBVIOUS
<1> HIDE DEF R
<1>8. R[1] = Node(t, l) /\ R[n + 1] = Node(u, l)
  BY <1>2, <1>3, <1>7
<1>9. ASSUME NEW k \in 1..n PROVE <<R[k], At(l, work)[k], R[k + 1]>> \in Edges
  <2>1. <<P[k], work[k], P[k + 1]>> \in StepsOf(l)
    BY <1>2, <1>3
  <2>2. <<Node(P[k], l), [work[k] EXCEPT !.layer = l], Node(P[k + 1], l)>> \in Edges
    BY <2>1, EdgeIn
  <2>3. At(l, work)[k] = [work[k] EXCEPT !.layer = l]
    BY <1>4
  <2>4. R[k] = Node(P[k], l) /\ R[k + 1] = Node(P[k + 1], l)
    BY <1>7
  <2>5. QED
    BY <2>2, <2>3, <2>4
<1>10. QED
  BY <1>5, <1>6, <1>8, <1>9 DEF Walks

\* The k-th operation of all layers is the r-th of one.
LEMMA PlaceOf ==
  ASSUME NEW n \in Nat \ {0}, NEW q \in Nat, NEW r \in 1..n
  PROVE  (((n * q + r) - 1) % n) + 1 = r /\ (((n * q + r) - 1) \div n) + 1 = q + 1
<1>1. (n * q + (r - 1)) % n = r - 1 /\ (n * q + (r - 1)) \div n = q
  BY DivisionIs
<1>2. (n * q + r) - 1 = n * q + (r - 1)
  BY ProductIsNatural
<1>3. PICK a, b : a = ((n * q + r) - 1) % n /\ b = ((n * q + r) - 1) \div n
  OBVIOUS
<1>4. a = r - 1 /\ b = q
  BY <1>1, <1>2, <1>3
<1>5. a + 1 = r /\ b + 1 = q + 1
  BY <1>4
<1>6. QED
  BY <1>3, <1>5

LEMMA PlaceFound ==
  ASSUME NEW n \in Nat \ {0}, NEW k \in Nat \ {0}
  PROVE  \E q \in Nat, r \in 1..n : k = n * q + r
<1>1. k - 1 \in Nat
  OBVIOUS
<1>2. PICK q \in Nat : q = (k - 1) \div n
  BY <1>1, Division
<1>3. PICK e \in 0..(n - 1) : e = (k - 1) % n
  BY <1>1, Division
<1>4. k - 1 = n * q + e
  BY <1>1, <1>2, <1>3, Division
<1>5. e + 1 \in 1..n /\ k = n * q + (e + 1)
  BY <1>3, <1>4, ProductIsNatural
<1>6. QED
  BY <1>5

LEMMA LayerOfPlace ==
  ASSUME NEW n \in Nat \ {0}, NEW q \in Nat, NEW r \in 1..n, NEW d \in Nat, n * q + r <= d * n
  PROVE  q + 1 \in 1..d
<1>1. SUFFICES ASSUME d <= q PROVE FALSE
  OBVIOUS
<1>2. d * n <= q * n
  BY <1>1, ProductGrows
<1>3. PICK a \in Nat : a = n * q /\ a = q * n
  BY ProductIsNatural
<1>4. QED
  BY <1>2, <1>3, ProductIsNatural

LEMMA EveryLayerWalk == Walks(Edges, <<7, 1>>, EveryLayer, <<7, Layers + 1>>)
<1>1. PICK n \in Nat \ {0} : n = Len(LayerWork)
  BY LayerIn
<1>2. PICK P : P[1] = 7 /\ P[n + 1] = 32 /\ \A k \in 1..n : <<P[k], LayerWork[k], P[k + 1]>> \in LayerSteps
  BY <1>1, LayerWalk DEF Walks
<1>3. PICK d \in Nat \ {0} : d = Layers
  BY ForwardAssumption
<1>4. PICK N \in Nat : N = d * n
  BY ProductIsNatural
<1> DEFINE made(k) == [LayerWork[((k - 1) % n) + 1] EXCEPT !.layer = ((k - 1) \div n) + 1]
           S == {made(k) : k \in 1..N}
<1>5. EveryLayer = [k \in 1..N |-> made(k)]
  BY <1>1, <1>3, <1>4 DEF EveryLayer
<1>6. EveryLayer \in Seq(Range(EveryLayer)) /\ Len(EveryLayer) = N
  <2>1. EveryLayer \in [1..N -> S]
    BY <1>5
  <2> HIDE DEF S, made
  <2>2. QED
    BY <2>1, BytesAreSeq, OwnRange
<1> HIDE DEF S
<1> DEFINE R == [k \in 1..(N + 1) |-> <<P[((k - 1) % n) + 1], ((k - 1) \div n) + 1>>]
<1>7. ASSUME NEW q \in Nat, NEW r \in 1..n, NEW k \in 1..(N + 1), k = n * q + r
      PROVE  R[k] = <<P[r], q + 1>> /\ (k # N + 1 => EveryLayer[k] = [LayerWork[r] EXCEPT !.layer = q + 1])
  <2>1. ((k - 1) % n) + 1 = r /\ ((k - 1) \div n) + 1 = q + 1
    BY <1>7, PlaceOf
  <2>2. R[k] = <<P[((k - 1) % n) + 1], ((k - 1) \div n) + 1>>
    OBVIOUS
  <2>3. k # N + 1 => EveryLayer[k] = [LayerWork[((k - 1) % n) + 1] EXCEPT !.layer = ((k - 1) \div n) + 1]
    <3>1. k # N + 1 => k \in 1..N
      OBVIOUS
    <3>2. QED
      BY <1>5, <3>1
  <2> HIDE DEF R
  <2>4. QED
    BY <2>1, <2>2, <2>3
<1> HIDE DEF R, made
<1>8. R[1] = <<7, 1>>
  <2>1. 1 = n * 0 + 1 /\ 1 \in 1..n /\ 1 \in 1..(N + 1) /\ 0 + 1 = 1
    OBVIOUS
  <2>2. R[1] = <<P[1], 0 + 1>>
    BY <1>7, <2>1
  <2>3. QED
    BY <1>2, <2>1, <2>2
<1>9. R[N + 1] = <<7, Layers + 1>>
  <2>1. N + 1 = n * d + 1 /\ 1 \in 1..n /\ N + 1 \in 1..(N + 1)
    BY <1>4
  <2>2. R[N + 1] = <<P[1], d + 1>>
    BY <1>7, <2>1
  <2>3. QED
    BY <1>2, <1>3, <2>2
<1>10. ASSUME NEW k \in 1..N PROVE <<R[k], EveryLayer[k], R[k + 1]>> \in Edges
  <2>1. PICK q \in Nat, r \in 1..n : k = n * q + r
    <3>1. k \in Nat \ {0}
      OBVIOUS
    <3>2. QED
      BY <3>1, PlaceFound
  <2>2. k \in 1..(N + 1) /\ k # N + 1 /\ k + 1 \in 1..(N + 1)
    OBVIOUS
  <2>3. R[k] = <<P[r], q + 1>> /\ EveryLayer[k] = [LayerWork[r] EXCEPT !.layer = q + 1]
    BY <1>7, <2>1, <2>2
  <2>4. PICK l \in 1..Layers : l = q + 1
    <3>1. n * q + r <= d * n
      BY <1>4, <2>1
    <3>2. q + 1 \in 1..d
      BY <3>1, LayerOfPlace
    <3>3. QED
      BY <1>3, <3>2
  <2>5. <<P[r], LayerWork[r], P[r + 1]>> \in StepsOf(l)
    BY <1>2, <1>3, <2>4 DEF StepsOf, LayerSteps
  <2>6. <<Node(P[r], l), [LayerWork[r] EXCEPT !.layer = l], Node(P[r + 1], l)>> \in Edges
    <3>1. l \in 0..(Layers + 1)
      BY <1>3, <2>4
    <3>2. QED
      BY <2>5, <3>1, EdgeIn
  <2>7. Node(P[r], l) = R[k]
    <3>1. P[r] # 32
      BY <2>5, NoStepFromTheEnd
    <3>2. QED
      BY <2>3, <2>4, <3>1 DEF Node
  <2>8. Node(P[r + 1], l) = R[k + 1]
    <3>1. CASE r < n
      <4>1. k + 1 = n * q + (r + 1) /\ r + 1 \in 1..n
        BY <2>1, <3>1, ProductIsNatural
      <4>2. R[k + 1] = <<P[r + 1], q + 1>>
        BY <1>7, <2>2, <4>1
      <4>3. <<P[r + 1], LayerWork[r + 1], P[(r + 1) + 1]>> \in StepsOf(l)
        BY <1>2, <1>3, <2>4, <4>1 DEF StepsOf, LayerSteps
      <4>4. P[r + 1] # 32
        BY <4>3, NoStepFromTheEnd
      <4>5. QED
        BY <2>4, <4>2, <4>4 DEF Node
    <3>2. CASE r = n
      <4>1. k + 1 = n * (q + 1) + 1 /\ 1 \in 1..n /\ q + 1 \in Nat
        BY <2>1, <3>2
      <4>2. R[k + 1] = <<P[1], (q + 1) + 1>>
        BY <1>7, <2>2, <4>1
      <4>3. QED
        BY <1>2, <2>4, <3>2, <4>2 DEF Node
    <3>3. r < n \/ r = n
      OBVIOUS
    <3>4. QED
      BY <3>1, <3>2, <3>3
  <2>9. QED
    BY <2>3, <2>4, <2>6, <2>7, <2>8
<1>11. QED
  BY <1>6, <1>8, <1>9, <1>10 DEF Walks

LEMMA BeginningWalk ==
  ASSUME ForwardStarted
  PROVE  Walks(Edges, <<1, 0>>, Beginning, <<7, 1>>)
<1> DEFINE table == IF "table" \in asked THEN <<Upload("kv_block_table")>> ELSE <<>>
           three == <<Upload("tokens"), Upload("positions"), Upload("slots")>>
           rows  == IF "tokens" \in asked THEN <<Upload("selected_rows")>> ELSE <<>>
           last  == <<Op("gather", "token_embd", <<"tokens">>, "hidden")>>
           steps == StepsOf(0)
<1>1. steps = BeginningSteps
  BY DEF StepsOf
<1>2. Walks(steps, 1, table, 1)
  <2>1. CASE "table" \in asked
    BY <1>1, <2>1, WalkOfOne DEF BeginningSteps
  <2>2. CASE "table" \notin asked
    BY <2>2, WalkOfNone
  <2>3. QED
    BY <2>1, <2>2
<1>3. Walks(steps, 1, Reset, 2)
  BY <1>1, WalkOfOne DEF BeginningSteps, Reset
<1>4. Walks(steps, 2, three, 5)
  <2>1. /\ <<2, Upload("tokens"), 3>> \in steps /\ <<3, Upload("positions"), 4>> \in steps
        /\ <<4, Upload("slots"), 5>> \in steps
    BY <1>1 DEF BeginningSteps
  <2>2. Walks(steps, 2, <<Upload("tokens"), Upload("positions")>>, 4) /\ Walks(steps, 4, <<Upload("slots")>>, 5)
    BY <2>1, WalkOfOne, WalkOfTwo
  <2>3. three = <<Upload("tokens"), Upload("positions")>> \o <<Upload("slots")>>
    OBVIOUS
  <2>4. QED
    BY <2>2, <2>3, WalkOn
<1>5. Walks(steps, 5, rows, IF Chooses THEN 6 ELSE 5)
  <2>1. CASE Chooses
    BY <1>1, <2>1, WalkOfOne DEF BeginningSteps, Chooses
  <2>2. CASE ~Chooses
    BY <2>2, WalkOfNone DEF Chooses
  <2>3. QED
    BY <2>1, <2>2
<1>6. Walks(steps, IF Chooses THEN 6 ELSE 5, last, 32)
  BY <1>1, WalkOfOne DEF BeginningSteps
<1>7. Beginning = (((table \o Reset) \o three) \o rows) \o last
  BY DEF Beginning
<1> HIDE DEF table, three, rows, last, steps
<1>8. Walks(steps, 1, table \o Reset, 2)
  BY <1>2, <1>3, WalkOn
<1>9. Walks(steps, 1, (table \o Reset) \o three, 5)
  BY <1>4, <1>8, WalkOn
<1>10. Walks(steps, 1, ((table \o Reset) \o three) \o rows, IF Chooses THEN 6 ELSE 5)
  BY <1>5, <1>9, WalkOn
<1>11. Walks(steps, 1, Beginning, 32)
  BY <1>6, <1>7, <1>10, WalkOn
<1>12. At(0, Beginning) = Beginning
  <2>1. Beginning \in Seq(Table)
    BY BeginningIn DEF ForwardStarted, Programs
  <2>2. /\ Beginning = [k \in DOMAIN Beginning |-> Beginning[k]]
        /\ \A k \in DOMAIN Beginning : Beginning[k] \in Table
    BY <2>1, LenProperties, ElementOfSeq
  <2>3. \A k \in DOMAIN Beginning : [Beginning[k] EXCEPT !.layer = 0] = Beginning[k]
    BY <2>2, OfLayerZero
  <2>4. QED
    BY <2>2, <2>3 DEF At
<1>13. Walks(Edges, Node(1, 0), At(0, Beginning), Node(32, 0))
  BY <1>11, WalkAt, ForwardAssumption DEF steps
<1>14. Node(1, 0) = <<1, 0>> /\ Node(32, 0) = <<7, 1>>
  BY DEF Node
<1>15. QED
  BY <1>12, <1>13, <1>14

LEMMA SelectionWalk == Walks(Edges, <<7, Layers + 1>>, At(Layers + 1, Selection), <<LastStage, Layers + 1>>)
<1> DEFINE opening == <<Op("norm", "output_norm", <<"hidden">>, "normalized"),
                      Op("gather", "none", <<"normalized", "selected_rows">>, "selected_hidden")>>
           one   == <<<<"output", "logits">>>>
           best  == <<Op("argmax", "none", <<"logits">>, "tokens"), Download("tokens", "host")>>
           last  == IF "logits" \in asked THEN <<Download("logits", "result")>> ELSE <<>>
           steps == StepsOf(Layers + 1)
<1>1. Walks(steps, 7, Selection, LastStage)
  <2>1. CASE ~Chooses
    <3>1. Selection = <<>> /\ LastStage = 7
      BY <2>1 DEF Selection, LastStage, Chooses
    <3> HIDE DEF steps
    <3>2. QED
      BY <3>1, WalkOfNone
  <2>2. CASE Chooses
    <3>1. steps = SelectionSteps \cup Cast(34, "selected_hidden", 35)
      BY <2>2, ForwardAssumption DEF StepsOf
    <3> HIDE DEF steps
    <3>2. Walks(steps, 7, opening, 34)
      <4>1. /\ <<7, Op("norm", "output_norm", <<"hidden">>, "normalized"), 33>> \in steps
            /\ <<33, Op("gather", "none", <<"normalized", "selected_rows">>, "selected_hidden"), 34>> \in steps
        BY <3>1 DEF SelectionSteps
      <4>2. QED
        BY <4>1, WalkOfTwo
    <3>3. Walks(steps, 34, Group("selected_hidden", one), 36)
      <4>1. Cast(34, "selected_hidden", 34 + 1) \subseteq steps
        BY <3>1
      <4>2. DOMAIN one = 1..1 /\ one[1] = <<"output", "logits">>
        OBVIOUS
      <4>3. <<Rounded(34 + 1), Multiply("selected_hidden", "output", "logits"), 34 + 2>> \in steps
        BY <3>1 DEF SelectionSteps, Rounded
      <4> HIDE DEF one
      <4>4. ASSUME NEW k \in 2..1
            PROVE  <<34 + k, Multiply("selected_hidden", one[k][1], one[k][2]), 34 + (k + 1)>> \in steps
        OBVIOUS
      <4>5. <<Rounded(34 + 1), Multiply("selected_hidden", one[1][1], one[1][2]), 34 + 2>> \in steps
        BY <4>2, <4>3
      <4>6. 36 = 34 + 1 + 1 /\ 1 \in Nat /\ 1 >= 1 /\ 34 \in Nat
        OBVIOUS
      <4>7. QED
        BY <4>1, <4>2, <4>4, <4>5, <4>6, GroupWalk
    <3>4. Walks(steps, 36, best, 38)
      <4>1. /\ <<36, Op("argmax", "none", <<"logits">>, "tokens"), 37>> \in steps
            /\ <<37, Download("tokens", "host"), 38>> \in steps
        BY <3>1 DEF SelectionSteps
      <4>2. QED
        BY <4>1, WalkOfTwo
    <3>5. Walks(steps, 38, last, LastStage)
      <4>1. CASE "logits" \in asked
        BY <2>2, <3>1, <4>1, WalkOfOne DEF SelectionSteps, LastStage
      <4>2. CASE "logits" \notin asked
        BY <2>2, <4>2, WalkOfNone DEF LastStage
      <4>3. QED
        BY <4>1, <4>2
    <3>6. Selection = ((opening \o Group("selected_hidden", one)) \o best) \o last
      BY <2>2 DEF Selection, Chooses
    <3> HIDE DEF opening, one, best, last
    <3>7. Walks(steps, 7, opening \o Group("selected_hidden", one), 36)
      BY <3>2, <3>3, WalkOn
    <3>8. Walks(steps, 7, (opening \o Group("selected_hidden", one)) \o best, 38)
      BY <3>4, <3>7, WalkOn
    <3>9. QED
      BY <3>5, <3>6, <3>8, WalkOn
  <2>3. QED
    BY <2>1, <2>2
<1>2. Layers + 1 \in 0..(Layers + 1)
  BY ForwardAssumption
<1>3. Walks(Edges, Node(7, Layers + 1), At(Layers + 1, Selection), Node(LastStage, Layers + 1))
  BY <1>1, <1>2, WalkAt
<1>4. Node(7, Layers + 1) = <<7, Layers + 1>> /\ Node(LastStage, Layers + 1) = <<LastStage, Layers + 1>>
  BY DEF Node, LastStage
<1>5. QED
  BY <1>3, <1>4

LEMMA WorkWalk ==
  ASSUME ForwardStarted
  PROVE  Walks(Edges, <<1, 0>>, Work, <<40, Layers + 1>>)
<1>1. Walks(Edges, <<LastStage, Layers + 1>>, <<Download("status", "host")>>, <<40, Layers + 1>>)
  <2>1. LastStep \in Edges
    BY DEF Edges
  <2>2. <<<<LastStage, Layers + 1>>, Download("status", "host"), <<40, Layers + 1>>>> \in Edges
    BY <2>1 DEF LastStep
  <2>3. QED
    BY <2>2, WalkOfOne
<1>2. Work = ((Beginning \o EveryLayer) \o At(Layers + 1, Selection)) \o <<Download("status", "host")>>
  BY DEF Work
<1>3. Walks(Edges, <<1, 0>>, Beginning \o EveryLayer, <<7, Layers + 1>>)
  BY BeginningWalk, EveryLayerWalk, WalkOn
<1>4. Walks(Edges, <<1, 0>>, (Beginning \o EveryLayer) \o At(Layers + 1, Selection), <<LastStage, Layers + 1>>)
  BY <1>3, SelectionWalk, WalkOn
<1>5. QED
  BY <1>1, <1>2, <1>4, WalkOn

-----------------------------------------------------------------------------
(***************************************************************************)
(* The device does an operation of a forward: it goes along an edge.       *)
(***************************************************************************)
Does(op) ==
  CASE op.kernel = "upload" ->
         values' = [values EXCEPT ![op.writes] = Val(op.writes, 0, runs)]
         /\ UNCHANGED <<cache, bad, status, received>>
    [] op.kernel = "reset" -> status' = Clean /\ UNCHANGED <<values, cache, bad, received>>
    [] op.kernel = "download" ->
         received' = [received EXCEPT ![op.writes] = IF op.writes = "status" THEN status ELSE values[op.writes]]
         /\ UNCHANGED <<values, cache, bad, status>>
    [] OTHER -> Compute(op)

IsOp(o) ==
  \E kernel, weight, reads, writes, host :
    o = [kernel |-> kernel, weight |-> weight, reads |-> reads, writes |-> writes, layer |-> 0, host |-> host]

LEMMA StepIsOp ==
  ASSUME NEW l, NEW e \in StepsOf(l)
  PROVE  IsOp(e[2])
<1>1. /\ \A kernel, weight, reads, writes : IsOp(Op(kernel, weight, reads, writes))
      /\ \A input, weight, output : IsOp(Multiply(input, weight, output))
  BY DEF IsOp, Op, Multiply
<1>2. ASSUME NEW name, NEW host PROVE IsOp(Upload(name)) /\ IsOp(Download(name, host))
  <2>1. Upload(name) = [kernel |-> "upload", weight |-> "none", reads |-> <<>>, writes |-> name,
                        layer |-> 0, host |-> "host"]
    BY DEF Upload, Op
  <2>2. Download(name, host) = [kernel |-> "download", weight |-> "none", reads |-> <<name>>, writes |-> name,
                                layer |-> 0, host |-> host]
    BY DEF Download, Op
  <2>3. QED
    BY <2>1, <2>2 DEF IsOp
<1>3. \A e1 \in AttentionSteps : IsOp(e1[2])
  BY <1>1 DEF AttentionSteps
<1>4. \A e2 \in FeedForwardSteps : IsOp(e2[2])
  BY <1>1 DEF FeedForwardSteps
<1>5. \A e3 \in CastSteps \cup Cast(34, "selected_hidden", 35) : IsOp(e3[2])
  BY <1>1 DEF CastSteps, Cast
<1>6. ASSUME NEW e4 \in BeginningSteps PROVE IsOp(e4[2])
  <2>1. e4[2] \in {Op("reset", "none", <<>>, "status"), Op("gather", "token_embd", <<"tokens">>, "hidden"),
                   Upload("tokens"), Upload("positions"), Upload("slots"), Upload("selected_rows"),
                   Upload("kv_block_table")}
    BY DEF BeginningSteps
  <2>2. QED
    BY <1>1, <1>2, <2>1
<1>7. \A e5 \in SelectionSteps : IsOp(e5[2])
  BY <1>1, <1>2 DEF SelectionSteps
<1>8. QED
  BY <1>3, <1>4, <1>5, <1>6, <1>7 DEF StepsOf

LEMMA InLayer ==
  ASSUME NEW o, IsOp(o), NEW l, NEW op, op = [o EXCEPT !.layer = l]
  PROVE  /\ op.kernel = o.kernel /\ op.weight = o.weight /\ op.reads = o.reads /\ op.writes = o.writes
         /\ op.layer = l
BY DEF IsOp

\* Each step follows, and the steps of attention are in a layer.
LEMMA StepFollows ==
  ASSUME NEW l \in 0..(Layers + 1), NEW e \in StepsOf(l)
  PROVE  Follows(e[1], e[2], e[3], l) /\ (e[1] \in 17..19 => l \in 1..Layers)
<1>1. Layers \in Nat
  BY ForwardAssumption
<1>2. CASE l = 0
  <2>1. e \in BeginningSteps
    BY <1>2 DEF StepsOf
  <2>2. e[1] \notin 17..19
    BY <2>1 DEF BeginningSteps
  <2>3. QED
    BY <1>2, <2>1, <2>2, BeginningFollows
<1>3. CASE l \in 1..Layers
  <2>1. e \in AttentionSteps \/ e \in FeedForwardSteps \cup CastSteps
    BY <1>1, <1>3 DEF StepsOf
  <2>2. QED
    BY <1>3, <2>1, AttentionFollows, FeedForwardFollows
<1>4. CASE l = Layers + 1
  <2>1. StepsOf(l) = IF Chooses THEN SelectionSteps \cup Cast(34, "selected_hidden", 35) ELSE {}
    BY <1>1, <1>4 DEF StepsOf
  <2>2. Chooses /\ e \in SelectionSteps \cup Cast(34, "selected_hidden", 35)
    BY <2>1
  <2>3. e[1] \notin 17..19
    BY <2>2 DEF SelectionSteps, Cast, Rounded
  <2>4. QED
    BY <1>4, <2>2, <2>3, SelectionFollows
<1>5. QED
  BY <1>1, <1>2, <1>3, <1>4

\* What a layer has left is what the next begins with.
LEMMA LayersMeet == \A l \in Nat : Facts(32, l) => Facts(7, l + 1)
<1>1. SUFFICES ASSUME NEW l \in Nat, Facts(32, l) PROVE Facts(7, l + 1)
  OBVIOUS
<1>2. Holds(32, l) /\ CacheAt(32, l) /\ Seen(32)
  BY <1>1 DEF Facts
<1>3. Holds(7, l + 1)
  <2>1. ASSUME NEW x \in Lives, 7 \in x[3]..x[4] PROVE values[x[1]] = Meant(x[1], x[2], l + 1)
    <3>1. \/ x = <<"hidden", "hidden", 7, 22>>
          \/ x[1] \in Inputs /\ x[2] = x[1] /\ 32 \in x[3]..x[4]
      BY <2>1 DEF Lives, Inputs
    <3>2. CASE x = <<"hidden", "hidden", 7, 22>>
      <4>1. <<"hidden", "left", 31, 32>> \in Lives
        BY DEF Lives
      <4>2. values["hidden"] = Meant("hidden", "left", l)
        BY <1>2, <4>1 DEF Holds
      <4>3. Meant("hidden", "left", l) = Val("hidden", l, runs)
        BY DEF Meant
      <4>4. Meant("hidden", "hidden", l + 1) = Val("hidden", LayerOf("hidden", l + 1), runs)
        BY MeantPlain
      <4>5. LayerOf("hidden", l + 1) = l
        <5>1. LayerOf("hidden", l + 1) = (l + 1) - 1
          BY DEF LayerOf, Inputs
        <5>2. QED
          BY <1>1, <5>1
      <4>6. QED
        BY <3>2, <4>2, <4>3, <4>4, <4>5
    <3>3. CASE x[1] \in Inputs /\ x[2] = x[1] /\ 32 \in x[3]..x[4]
      <4>1. PICK n \in Inputs : x[1] = n /\ x[2] = n
        BY <3>3
      <4>2. values[n] = Meant(n, n, l)
        BY <1>2, <3>3, <4>1 DEF Holds
      <4>3. n # "matrix_input" /\ n # "left"
        BY DEF Inputs
      <4>4. LayerOf(n, l) = 0 /\ LayerOf(n, l + 1) = 0
        BY DEF LayerOf, Inputs
      <4>5. Meant(n, n, l) = Val(n, LayerOf(n, l), runs) /\ Meant(n, n, l + 1) = Val(n, LayerOf(n, l + 1), runs)
        BY <4>3, MeantPlain
      <4>6. QED
        BY <4>1, <4>2, <4>4, <4>5
    <3>4. QED
      BY <3>1, <3>2, <3>3
  <2>2. QED
    BY <2>1 DEF Holds
<1>4. CacheAt(7, l + 1)
  <2>1. ASSUME NEW j \in 1..Layers
        PROVE  cache[j] = RowsAfter(j, IF j < l + 1 \/ (j = l + 1 /\ 7 >= 17) THEN runs ELSE runs - 1)
    <3>1. cache[j] = RowsAfter(j, IF j < l \/ (j = l /\ 32 >= 17) THEN runs ELSE runs - 1)
      BY <1>2 DEF CacheAt
    <3>2. (j < l \/ (j = l /\ 32 >= 17)) <=> (j < l + 1 \/ (j = l + 1 /\ 7 >= 17))
      BY <1>1, ForwardAssumption
    <3>3. QED
      BY <3>1, <3>2
  <2>2. QED
    BY <2>1 DEF CacheAt
<1>5. Seen(7)
  <2>1. \A x : (Among(Carriers, x, 32) => Among(Carriers, x, 7)) /\ ~Among(Witnesses, x, 32)
    BY DEF Among, Carriers, Witnesses
  <2>2. QED
    BY <1>2, <2>1 DEF Seen
<1>6. ReceivedAt(7)
  BY DEF ReceivedAt
<1>7. QED
  BY <1>3, <1>4, <1>5, <1>6 DEF Facts

LEMMA LayersMeetAfter == (\A l \in Nat : Facts(32, l) => Facts(7, l + 1))'
BY LayersMeet, PTL

\* The last copy: what the host gets is what the device has seen.
LEMMA TheLastCopy ==
  ASSUME DOMAIN received = {"status", "tokens", "logits"}, UNCHANGED <<runs, asked, m>>,
         "logits" \in asked => Chooses, Facts(LastStage, Layers + 1),
         received' = [received EXCEPT !["status"] = status], UNCHANGED <<values, cache, bad, status>>
  PROVE  Facts(40, Layers + 1)'
<1>1. LastStage \in {7, 38, 39} /\ (Chooses => LastStage \in 38..39) /\ ("logits" \in asked => LastStage = 39)
  BY DEF LastStage
<1>2. Holds(40, Layers + 1)'
  <2>1. \A x \in Lives : ~(40 \in x[3]..x[4])
    BY DEF Lives
  <2>2. Lives' = Lives
    BY DEF Lives, Half, Chooses
  <2>3. QED
    BY <2>1, <2>2 DEF Holds
<1>3. CacheAt(40, Layers + 1)'
  BY CacheStays, ForwardAssumption DEF Facts
<1>4. ReceivedAt(40)'
  <2>1. /\ received'.status = status /\ received'.tokens = received.tokens
        /\ received'.logits = received.logits
    OBVIOUS
  <2>2. Chooses => received.tokens = Val("best", Layers + 1, runs)
    BY <1>1 DEF Facts, ReceivedAt
  <2>3. "logits" \in asked => received.logits = Val("answers", Layers + 1, runs)
    BY <1>1 DEF Facts, ReceivedAt
  <2>4. QED
    BY <2>1, <2>2, <2>3 DEF ReceivedAt, Chooses
<1>5. Seen(40)'
  <2>1. \A x : (Among(Carriers, x, 7) => Among(Carriers, x, 40)) /\ ~Among(Witnesses, x, 7)
    BY DEF Among, Carriers, Witnesses
  <2>2. \A x : (Among(Carriers, x, 38) => Among(Carriers, x, 40)) /\ ~Among(Witnesses, x, 38)
    BY DEF Among, Carriers, Witnesses
  <2>3. \A x : (Among(Carriers, x, 39) => Among(Carriers, x, 40)) /\ ~Among(Witnesses, x, 39)
    BY DEF Among, Carriers, Witnesses
  <2>4. \A x : (Among(Carriers, x, LastStage) => Among(Carriers, x, 40)) /\ ~Among(Witnesses, x, LastStage)
    BY <1>1, <2>1, <2>2, <2>3
  <2>5. LastStage # 1 /\ Seen(LastStage)
    BY <1>1 DEF Facts
  <2>6. QED
    BY <2>4, <2>5 DEF Seen
<1>6. QED
  BY <1>2, <1>3, <1>4, <1>5 DEF Facts

LEMMA StepGoesOn ==
  ASSUME Regions \subseteq DOMAIN values, DOMAIN cache = 1..Layers, DOMAIN received = {"status", "tokens", "logits"},
         runs \in Nat \ {0}, UNCHANGED <<runs, asked, m>>,
         NEW t, NEW o, NEW u, NEW l, NEW op,
         op.kernel = o.kernel, op.weight = o.weight, op.reads = o.reads, op.writes = o.writes, op.layer = l,
         Follows(t, o, u, l), t \in 17..19 => l \in 1..Layers, o.kernel = "upload" => o.reads = <<>>,
         Facts(t, l), Does(op)
  PROVE  Facts(u, l)'
<1>1. Spots(t, o.kernel, Range(o.reads), o.writes, u)
  BY DEF Follows
<1>2. CASE Uploads(t, o, u, l)
  <2>1. o.kernel = "upload"
    BY <1>2 DEF Uploads
  <2>2. values' = [values EXCEPT ![o.writes] = Val(o.writes, 0, runs)] /\ UNCHANGED <<cache, bad, status, received>>
    BY <2>1 DEF Does
  <2>3. QED
    BY <1>2, <2>1, <2>2, UploadStage
<1>3. CASE Spares(t, o, u, l)
  <2>1. Leaves(t, "none", "none", u)
    BY <1>3 DEF Spares
  <2>2. CASE o.kernel = "reset" /\ t = 1 /\ u = 2
    <3>1. status' = Clean /\ UNCHANGED <<values, cache, bad, received>>
      BY <2>2 DEF Does
    <3>2. QED
      BY <2>1, <2>2, <3>1, RestartStage
  <2>3. CASE o.kernel = "finite" /\ o.writes = "status" /\ t = 31 /\ u = 32
    <3>1. Compute(op)
      BY <2>3 DEF Does
    <3>2. QED
      BY <1>1, <2>1, <2>3, <3>1, StoreStage
  <2>4. CASE Stores(t, o, u, l)
    <3>1. o.kernel = "store"
      BY <2>4 DEF Stores
    <3>2. Compute(op)
      BY <3>1 DEF Does
    <3>3. QED
      BY <1>1, <2>1, <2>4, <3>2, StoreStage
  <2>5. CASE Copies(t, o, u, l)
    <3>1. o.kernel = "download" /\ o.writes # "status"
      BY <2>5 DEF Copies
    <3>2. received' = [received EXCEPT ![o.writes] = values[o.writes]] /\ UNCHANGED <<values, cache, bad, status>>
      BY <3>1 DEF Does
    <3>3. QED
      BY <1>1, <2>1, <2>5, <3>2, CopyStage
  <2>6. QED
    BY <1>3, <2>2, <2>3, <2>4, <2>5 DEF Spares
<1>4. CASE Moves(t, u, l) /\ (Casts(t, o, u) \/ Obeys(t, o, u))
  <2>1. o.kernel \notin {"upload", "reset", "download"}
    <3>1. CASE Casts(t, o, u)
      BY <3>1 DEF Casts
    <3>2. CASE Obeys(t, o, u)
      BY <3>2, OperandNames DEF Obeys
    <3>3. QED
      BY <1>4, <3>1, <3>2
  <2>2. Compute(op)
    BY <2>1 DEF Does
  <2>3. QED
    BY <1>4, <2>2, ComputeStage
<1>5. QED
  BY <1>2, <1>3, <1>4 DEF Follows

LEMMA UploadsReadNothing ==
  ASSUME NEW l, NEW e \in StepsOf(l), e[2].kernel = "upload"
  PROVE  e[2].reads = <<>>
<1>1. /\ \A kernel, weight, reads, writes : Op(kernel, weight, reads, writes).kernel = kernel
      /\ \A input, weight, output : Multiply(input, weight, output).kernel = "multiply"
  BY OpFields DEF Multiply
<1>2. \A e1 \in AttentionSteps : e1[2].kernel # "upload"
  BY <1>1 DEF AttentionSteps
<1>3. \A e2 \in FeedForwardSteps : e2[2].kernel # "upload"
  BY <1>1 DEF FeedForwardSteps
<1>4. \A e3 \in CastSteps \cup Cast(34, "selected_hidden", 35) : e3[2].kernel # "upload"
  BY <1>1 DEF CastSteps, Cast
<1>5. ASSUME NEW e4 \in BeginningSteps, e4[2].kernel = "upload" PROVE e4[2].reads = <<>>
  <2>1. e4[2] \in {Op("reset", "none", <<>>, "status"), Op("gather", "token_embd", <<"tokens">>, "hidden"),
                   Upload("tokens"), Upload("positions"), Upload("slots"), Upload("selected_rows"),
                   Upload("kv_block_table")}
    BY DEF BeginningSteps
  <2>2. QED
    BY <1>1, <1>5, <2>1, CopyFields
<1>6. \A e5 \in SelectionSteps : e5[2].kernel # "upload"
  BY <1>1, CopyFields DEF SelectionSteps
<1>7. QED
  BY <1>2, <1>3, <1>4, <1>5, <1>6 DEF StepsOf

\* Along each edge of the walk.
LEMMA EdgeGoesOn ==
  ASSUME Regions \subseteq DOMAIN values, DOMAIN cache = 1..Layers, DOMAIN received = {"status", "tokens", "logits"},
         runs \in Nat \ {0}, UNCHANGED <<runs, asked, m>>, "logits" \in asked => Chooses,
         NEW x, NEW op, NEW y, <<x, op, y>> \in Edges, Facts(x[1], x[2]), Does(op)
  PROVE  Facts(y[1], y[2])'
<1>1. CASE <<x, op, y>> = LastStep
  <2>1. /\ x = <<LastStage, Layers + 1>> /\ y = <<40, Layers + 1>> /\ op = Download("status", "host")
    BY <1>1 DEF LastStep
  <2>2. op.kernel = "download" /\ op.writes = "status"
    BY <2>1, CopyFields
  <2>3. received' = [received EXCEPT !["status"] = status] /\ UNCHANGED <<values, cache, bad, status>>
    BY <2>2 DEF Does
  <2>4. Facts(LastStage, Layers + 1)
    BY <2>1
  <2>5. Facts(40, Layers + 1)'
    BY <2>3, <2>4, TheLastCopy
  <2>6. QED
    BY <2>1, <2>5
<1>2. CASE <<x, op, y>> # LastStep
  <2>1. PICK l \in 0..(Layers + 1) : <<x, op, y>> \in EdgesOf(l)
    BY <1>2 DEF Edges, EdgesOfAll
  <2>2. PICK e \in StepsOf(l) : <<x, op, y>> = <<<<e[1], l>>, [e[2] EXCEPT !.layer = l], Node(e[3], l)>>
    BY <2>1 DEF EdgesOf
  <2>3. x = <<e[1], l>> /\ op = [e[2] EXCEPT !.layer = l] /\ y = Node(e[3], l)
    BY <2>2
  <2>4. PICK t, o, u : t = e[1] /\ o = e[2] /\ u = e[3]
    OBVIOUS
  <2>5. /\ op.kernel = o.kernel /\ op.weight = o.weight /\ op.reads = o.reads /\ op.writes = o.writes
        /\ op.layer = l
    BY <2>3, <2>4, StepIsOp, InLayer
  <2>6. /\ Follows(t, o, u, l) /\ (t \in 17..19 => l \in 1..Layers)
        /\ o.kernel = "upload" => o.reads = <<>>
    BY <2>4, StepFollows, UploadsReadNothing
  <2>7. Facts(t, l)
    BY <2>3, <2>4
  <2>8. Facts(u, l)'
    BY <2>5, <2>6, <2>7, StepGoesOn
  <2>9. CASE u = 32
    <3>1. y = <<7, l + 1>>
      BY <2>3, <2>4, <2>9 DEF Node
    <3>2. Facts(32, l)'
      BY <2>8, <2>9
    <3>3. Facts(7, l + 1)'
      BY <3>2, LayersMeetAfter, ForwardAssumption
    <3>4. QED
      BY <3>1, <3>3
  <2>10. CASE u # 32
    <3>1. y = <<u, l>>
      BY <2>3, <2>4, <2>10 DEF Node
    <3>2. QED
      BY <2>8, <3>1
  <2>11. QED
    BY <2>9, <2>10
<1>3. QED
  BY <1>1, <1>2

-----------------------------------------------------------------------------
(***************************************************************************)
(* The work of a forward is what it is until the next one begins.          *)
(***************************************************************************)
SameForward == asked' = asked /\ m' = m

LEMMA SameGroups ==
  ASSUME SameForward
  PROVE  /\ Half' = Half
         /\ \A input : Prepare(input)' = Prepare(input)
         /\ \A input, weight, output : Multiply(input, weight, output)' = Multiply(input, weight, output)
         /\ \A input, products : Group(input, products)' = Group(input, products)
<1>1. Half' = Half
  BY DEF SameForward, Half
<1>2. \A input : Prepare(input)' = Prepare(input) /\ Prepared(input)' = Prepared(input)
  BY <1>1 DEF Prepare, Prepared
<1>3. \A input, weight, output : Multiply(input, weight, output)' = Multiply(input, weight, output)
  BY <1>2 DEF Multiply
<1>4. \A input, products : Group(input, products)' = Group(input, products)
  BY <1>2, <1>3 DEF Group
<1>5. QED
  BY <1>1, <1>2, <1>3, <1>4

LEMMA SameWork == ASSUME SameForward PROVE Work' = Work
<1>1. AttentionWork' = AttentionWork
  BY SameGroups DEF AttentionWork
<1>2. Opened' = Opened
  BY SameGroups DEF Opened
<1>3. FeedForwardWork' = FeedForwardWork
  BY <1>2, SameGroups DEF FeedForwardWork
<1>4. LayerWork' = LayerWork
  BY <1>1, <1>3 DEF LayerWork
<1>5. EveryLayer' = EveryLayer
  BY <1>4 DEF EveryLayer
<1>6. Beginning' = Beginning
  BY DEF Beginning, SameForward
<1>7. Selection' = Selection
  BY SameGroups DEF Selection, SameForward
<1>8. QED
  BY <1>5, <1>6, <1>7 DEF Work, At

LEMMA SameEdges == ASSUME SameForward PROVE Edges' = Edges
<1>1. Chooses' = Chooses /\ Half' = Half
  BY SameGroups DEF SameForward, Chooses
<1>2. \A t : Rounded(t)' = Rounded(t)
  BY <1>1 DEF Rounded
<1>3. \A t, input, u : Cast(t, input, u)' = Cast(t, input, u)
  BY <1>1 DEF Cast
<1>4. BeginningSteps' = BeginningSteps
  BY <1>1 DEF BeginningSteps, SameForward
<1>5. AttentionSteps' = AttentionSteps
  BY <1>2, SameGroups DEF AttentionSteps
<1>6. FeedForwardSteps' = FeedForwardSteps
  BY <1>2, SameGroups DEF FeedForwardSteps
<1>7. CastSteps' = CastSteps
  BY <1>3 DEF CastSteps
<1>8. SelectionSteps' = SelectionSteps
  BY <1>2, SameGroups DEF SelectionSteps, SameForward
<1>9. \A l : StepsOf(l)' = StepsOf(l)
  BY <1>1, <1>3, <1>4, <1>5, <1>6, <1>7, <1>8 DEF StepsOf
<1>10. \A l : EdgesOf(l)' = EdgesOf(l)
  BY <1>9 DEF EdgesOf
<1>11. EdgesOfAll' = EdgesOfAll
  BY <1>10 DEF EdgesOfAll
<1>12. LastStep' = LastStep
  BY <1>1 DEF LastStep, LastStage, SameForward
<1>13. QED
  BY <1>11, <1>12 DEF Edges

LEMMA FactsStay ==
  ASSUME SameForward, UNCHANGED <<runs, values, cache, bad, status, received>>, NEW t, NEW l, Facts(t, l)
  PROVE  Facts(t, l)'
<1>1. Chooses' = Chooses /\ Half' = Half /\ Lives' = Lives
  BY DEF SameForward, Chooses, Half, Lives
<1>2. Holds(t, l)'
  BY <1>1 DEF Facts, Holds, Meant
<1>3. CacheAt(t, l)'
  BY DEF Facts, CacheAt
<1>4. ReceivedAt(t)'
  BY <1>1 DEF Facts, ReceivedAt, SameForward
<1>5. Seen(t)'
  BY DEF Facts, Seen
<1>6. QED
  BY <1>2, <1>3, <1>4, <1>5 DEF Facts

-----------------------------------------------------------------------------
(***************************************************************************)
(* Where the device is in the forward, and what the host knows of it.      *)
(***************************************************************************)
Course(P) ==
  /\ P[1] = <<1, 0>> /\ P[Len(Work) + 1] = <<40, Layers + 1>>
  /\ \A k \in 1..Len(Work) : <<P[k], Work[k], P[k + 1]>> \in Edges

\* The first j - 1 operations are done.
Reached(j) == \A P : Course(P) => Facts(P[j][1], P[j][2])

OnCourse ==
  pc = "forward" /\ ~lost =>
    /\ step \in 1..(Len(Work) + 1) /\ Len(stream) < step
    /\ \A k \in 1..Len(stream) : stream[k].does = Work[(step - Len(stream)) + (k - 1)]
    /\ Reached(step - Len(stream))

Over == {"poisoned", "unwind", "gone"}

HostKnows ==
  pc \notin Over =>
    /\ runs \in Nat /\ DOMAIN cache = 1..Layers /\ DOMAIN received = {"status", "tokens", "logits"}
    /\ "logits" \in asked => Chooses
    /\ pc # "forward" => bad = {} /\ \A l \in 1..Layers : cache[l] = RowsAfter(l, runs)
    /\ pc = "forward" => runs > 0
    /\ pc \notin {"ready", "forward"} => runs = 0
    /\ runs > 0 => Regions \subseteq DOMAIN values
    /\ ForwardIsExact

LEMMA CourseExists == ForwardStarted => Len(Work) \in Nat /\ \E P : Course(P)
<1>1. SUFFICES ASSUME ForwardStarted PROVE Len(Work) \in Nat /\ \E P : Course(P)
  OBVIOUS
<1>2. Work \in Seq(Range(Work))
  BY <1>1, WorkWalk DEF Walks
<1>3. \E P : Course(P)
  BY <1>1, WorkWalk DEF Walks, Course
<1>4. QED
  BY <1>2, <1>3, LenProperties

LEMMA CourseStays == ASSUME SameForward, NEW P PROVE Course(P)' <=> Course(P)
BY SameWork, SameEdges DEF Course

LEMMA ReachedStays ==
  ASSUME SameForward, UNCHANGED <<runs, values, cache, bad, status, received>>, NEW j, Reached(j)
  PROVE  Reached(j)'
<1>1. ASSUME NEW P, Course(P)' PROVE Facts(P[j][1], P[j][2])'
  <2>1. Facts(P[j][1], P[j][2])
    BY <1>1, CourseStays DEF Reached
  <2>2. PICK t, l : t = P[j][1] /\ l = P[j][2]
    OBVIOUS
  <2>3. Facts(t, l)'
    BY <2>1, <2>2, FactsStay
  <2>4. QED
    BY <2>2, <2>3
<1>2. QED
  BY <1>1 DEF Reached

\* The device does the next operation.
LEMMA ReachedNext ==
  ASSUME SameForward, runs' = runs, HostKnows, pc = "forward", NEW j \in 1..Len(Work), Reached(j), Does(Work[j])
  PROVE  Reached(j + 1)'
<1>1. /\ Regions \subseteq DOMAIN values /\ DOMAIN cache = 1..Layers
      /\ DOMAIN received = {"status", "tokens", "logits"} /\ ("logits" \in asked => Chooses)
      /\ runs \in Nat \ {0}
  BY DEF HostKnows, Over
<1>2. UNCHANGED <<runs, asked, m>>
  BY DEF SameForward
<1>3. ASSUME NEW P, Course(P)' PROVE Facts(P[j + 1][1], P[j + 1][2])'
  <2>1. Course(P)
    BY <1>3, CourseStays
  <2>2. PICK x, y : x = P[j] /\ y = P[j + 1]
    OBVIOUS
  <2>3. <<x, Work[j], y>> \in Edges
    BY <2>1, <2>2 DEF Course
  <2>4. Facts(x[1], x[2])
    BY <2>1, <2>2 DEF Reached
  <2>5. PICK op : op = Work[j]
    OBVIOUS
  <2>6. <<x, op, y>> \in Edges /\ Does(op)
    BY <2>3, <2>5
  <2>7. Facts(y[1], y[2])'
    BY <1>1, <1>2, <2>4, <2>6, EdgeGoesOn
  <2>8. QED
    BY <2>2, <2>7
<1>4. QED
  BY <1>3 DEF Reached

\* At the end.
LEMMA AtTheEnd ==
  ASSUME ForwardStarted, OnCourse, pc = "forward", ~lost, step > Len(Work), stream = <<>>
  PROVE  step = Len(Work) + 1 /\ Facts(40, Layers + 1)
<1>1. Len(stream) = 0
  OBVIOUS
<1>2. Len(Work) \in Nat /\ step \in 1..(Len(Work) + 1) /\ Reached(step - Len(stream))
  BY CourseExists DEF OnCourse
<1>3. step = Len(Work) + 1 /\ step - Len(stream) = Len(Work) + 1
  BY <1>1, <1>2
<1>4. PICK P : Course(P)
  BY CourseExists
<1>5. P[Len(Work) + 1] = <<40, Layers + 1>>
  BY <1>4 DEF Course
<1>6. Facts(P[Len(Work) + 1][1], P[Len(Work) + 1][2])
  BY <1>2, <1>3, <1>4 DEF Reached
<1>7. QED
  BY <1>3, <1>5, <1>6

LEMMA EndIsExact ==
  ASSUME Facts(40, Layers + 1)
  PROVE  /\ received.status = Clean <=> bad = {}
         /\ \A l \in 1..Layers : cache[l] = RowsAfter(l, runs)
         /\ Chooses => received.tokens = Val("best", Layers + 1, runs)
         /\ "logits" \in asked => received.logits = Val("answers", Layers + 1, runs)
<1>1. received.status = status
  BY DEF Facts, ReceivedAt
<1>2. \A x : ~Among(Witnesses, x, 40)
  BY DEF Among, Witnesses
<1>3. /\ bad = {} => status = Clean
      /\ bad # {} => status = Recorded
  BY <1>2 DEF Facts, Seen
<1>4. Clean # Recorded
  BY DEF Clean, Recorded
<1>5. ASSUME NEW l \in 1..Layers PROVE cache[l] = RowsAfter(l, runs)
  BY ForwardAssumption DEF Facts, CacheAt
<1>6. /\ Chooses => received.tokens = Val("best", Layers + 1, runs)
      /\ "logits" \in asked => received.logits = Val("answers", Layers + 1, runs)
  BY DEF Facts, ReceivedAt
<1>7. QED
  BY <1>1, <1>3, <1>4, <1>5, <1>6

-----------------------------------------------------------------------------
\* What the start and the device's own failure do to the host.
LEMMA StartupMoves ==
  ASSUME Startup, pc' \notin Over
  PROVE  /\ pc \notin Over /\ (pc' = "forward" <=> pc = "forward") /\ (pc = "ready" => pc' = "ready")
         /\ pc' = "ready" => pc \in {"ready", "device"}
         /\ pc = "forward" => ExecuteCopy \/ lost'
<1> USE DEF Over
<1>1. CASE Check
  BY <1>1, Order DEF Check, CheckPasses
<1>2. CASE Acquire
  BY <1>2, ConstructorsHaveParts, Order DEF Acquire, Constructors
<1>3. CASE Plan \/ Clear \/ StartItem
  BY <1>3 DEF Plan, Clear, StartItem
<1>4. CASE Decode \/ Copy \/ Await
  BY <1>4 DEF Decode, Copy, Await
<1>5. CASE Throw \/ Unwind
  BY <1>5 DEF Throw, Unwind
<1>6. CASE ExecuteCopy
  BY <1>6 DEF ExecuteCopy, hostVars
<1>7. CASE Lose
  BY <1>7 DEF Lose, hostVars
<1>8. QED
  BY <1>1, <1>2, <1>3, <1>4, <1>5, <1>6, <1>7 DEF Startup, HostStep

\* Outside a forward, no kernel is in flight but on the way out.
LEMMA KernelsInForward ==
  ASSUME InFlight, FlightIsKnown, Execute, pc # "unwind"
  PROVE  pc = "forward"
<1>1. stream # <<>> /\ stream[1].fill = "kernel" /\ 1 \in DOMAIN stream
  BY FirstAndRest DEF Execute
<1>2. pc \in Flying
  BY <1>1 DEF InFlight, Flying
<1>3. pc \notin LoadingUp
  BY <1>1 DEF FlightIsKnown
<1>4. QED
  BY <1>2, <1>3 DEF Flying, LoadingUp

LEMMA NoCopyInForward ==
  ASSUME InFlight, FlightIsKnown, pc = "forward"
  PROVE  ~ExecuteCopy
<1>1. SUFFICES ASSUME ExecuteCopy PROVE FALSE
  OBVIOUS
<1>2. stream # <<>> /\ stream[1].fill # "kernel" /\ 1 \in DOMAIN stream
  BY <1>1, FirstAndRest DEF ExecuteCopy
<1>3. QED
  BY <1>2 DEF FlightIsKnown

LEMMA ForwardReached ==
  ASSUME InFlight, HostKnows, BeginForward, m' = m
  PROVE  step' = 1 /\ stream' = <<>> /\ Reached(1)'
<1>1. /\ pc = "ready" /\ pc \notin Over /\ step' = 1 /\ stream' = stream /\ runs' = runs + 1
      /\ cache' = cache /\ bad' = bad
  BY DEF BeginForward, Over
<1>2. /\ runs \in Nat /\ bad = {} /\ \A l \in 1..Layers : cache[l] = RowsAfter(l, runs)
  BY <1>1 DEF HostKnows
<1>3. stream = <<>>
  BY <1>1 DEF InFlight
<1>4. Facts(1, 0)'
  <2>1. Holds(1, 0)'
    <3>1. Lives' \subseteq Lives \cup {<<"selected_rows", "selected_rows", 6, 39>>}
                             \cup {x \in Lives' : x[1] = "matrix_input"}
      BY DEF Lives
    <3>2. \A x \in Lives' : 1 \notin x[3]..x[4]
      BY DEF Lives
    <3>3. QED
      BY <3>2 DEF Holds
  <2>2. CacheAt(1, 0)'
    <3>1. ASSUME NEW j \in 1..Layers
          PROVE  cache'[j] = RowsAfter(j, IF j < 0 \/ (j = 0 /\ 1 >= 17) THEN runs' ELSE runs' - 1)
      <4>1. ~(j < 0) /\ runs' - 1 = runs
        BY <1>1, <1>2, ForwardAssumption
      <4>2. QED
        BY <1>1, <1>2, <4>1
    <3>2. QED
      BY <3>1 DEF CacheAt
  <2>3. ReceivedAt(1)'
    BY DEF ReceivedAt
  <2>4. Seen(1)'
    BY <1>1, <1>2 DEF Seen
  <2>5. QED
    BY <2>1, <2>2, <2>3, <2>4 DEF Facts
<1>5. ASSUME NEW P, Course(P)' PROVE Facts(P[1][1], P[1][2])'
  <2>1. P[1] = <<1, 0>>
    BY <1>5 DEF Course
  <2>2. QED
    BY <1>4, <2>1
<1>6. QED
  BY <1>1, <1>3, <1>5 DEF Reached

LEMMA CourseExistsAfter == (ForwardStarted => Len(Work) \in Nat /\ \E P : Course(P))'
BY CourseExists, PTL

LEMMA PlacedDoes == ASSUME NEW op PROVE [Placed(op) EXCEPT !.does = op].does = op
<1>1. \A b, offset, bytes, fill, host : [Operation(b, offset, bytes, fill, host) EXCEPT !.does = op].does = op
  BY DEF Operation
<1>2. QED
  BY <1>1 DEF Placed

LEMMA AppendedLength ==
  ASSUME InFlight, NEW op, stream' = Append(stream, op)
  PROVE  Len(stream') = Len(stream) + 1
<1>1. PICK S : stream \in Seq(S) /\ op \in S
  <2>1. stream \in Seq(Range(stream) \cup {op})
    BY SeqMonotonic DEF InFlight
  <2>2. QED
    BY <2>1
<1>2. QED
  BY <1>1, AppendProperties

LEMMA ShortenedLength ==
  ASSUME InFlight, stream # <<>>, stream' = Tail(stream)
  PROVE  Len(stream) \in Nat \ {0} /\ Len(stream') = Len(stream) - 1
<1>1. stream \in Seq(Range(stream))
  BY DEF InFlight
<1>2. QED
  BY <1>1, HeadTailProperties, EmptySeq, LenProperties

LEMMA CourseGoesOn ==
  ASSUME InFlight, FlightIsKnown, ForwardStarted, ForwardStarted', HostKnows, OnCourse, [Next]_vars
  PROVE  OnCourse'
<1>1. SUFFICES ASSUME pc' = "forward", ~lost' PROVE OnCourse'
  BY DEF OnCourse
<1>2. m' = m
  BY SameNames DEF m
<1>3. Len(Work) \in Nat
  BY CourseExists
<1>4. ASSUME UNCHANGED <<pc, lost, step, stream>>, asked' = asked, UNCHANGED <<runs, values, cache, bad, status, received>>
      PROVE  OnCourse'
  <2>1. SameForward
    BY <1>2, <1>4 DEF SameForward
  <2>2. Reached(step - Len(stream))'
    <3>1. PICK j : j = step - Len(stream)
      OBVIOUS
    <3>2. Reached(j)
      BY <1>1, <1>4, <3>1 DEF OnCourse
    <3>3. Reached(j)' /\ step' = step /\ stream' = stream
      BY <1>4, <2>1, <3>2, ReachedStays
    <3>4. QED
      BY <3>1, <3>3
  <2>3. Work' = Work
    BY <2>1, SameWork
  <2>4. QED
    BY <1>1, <1>4, <2>2, <2>3 DEF OnCourse
<1>5. CASE Startup /\ UNCHANGED forwardVars
  BY <1>1, <1>5, StartupMoves, NoCopyInForward DEF Over
<1>6. CASE BeginForward
  <2>1. step' = 1 /\ stream' = <<>> /\ Reached(1)'
    BY <1>2, <1>6, ForwardReached
  <2>2. Len(Work)' \in Nat
    BY CourseExistsAfter
  <2>3. Len(stream') = 0
    BY <2>1
  <2>4. Reached(step - Len(stream))'
    <3>1. step' - Len(stream') = 1
      BY <2>1, <2>3
    <3>2. QED
      BY <2>1, <3>1
  <2>5. QED
    BY <2>1, <2>2, <2>3, <2>4 DEF OnCourse
<1>7. CASE Enqueue
  <2>1. PICK op : op = [Placed(Work[step]) EXCEPT !.does = Work[step]]
    OBVIOUS
  <2>2. /\ stream' = Append(stream, op) /\ step' = step + 1 /\ step <= Len(Work) /\ pc = "forward" /\ ~lost
        /\ asked' = asked /\ UNCHANGED <<runs, values, cache, bad, status, received>>
    BY <1>7, <2>1 DEF Enqueue
  <2>3. op.does = Work[step]
    BY <2>1, PlacedDoes
  <2>4. /\ Len(stream) \in Nat /\ DOMAIN stream' = 1..(Len(stream) + 1)
        /\ \A k \in 1..Len(stream) : stream'[k] = stream[k]
        /\ stream'[Len(stream) + 1] = op
    BY <2>2, StreamAfter
  <2>5. PICK n \in Nat : n = Len(stream)
    BY <2>4
  <2>6. Len(stream') = n + 1
    BY <2>2, <2>5, AppendedLength
  <2>7. /\ step \in 1..(Len(Work) + 1) /\ n < step /\ Reached(step - n)
        /\ \A k \in 1..n : stream[k].does = Work[(step - n) + (k - 1)]
    BY <2>2, <2>5 DEF OnCourse
  <2>8. SameForward
    BY <1>2, <2>2 DEF SameForward
  <2>9. Work' = Work
    BY <2>8, SameWork
  <2>10. PICK j \in 1..(Len(Work) + 1) : j = step - n /\ j = step' - (n + 1)
    <3>1. step - n \in 1..(Len(Work) + 1) /\ step - n = (step + 1) - (n + 1)
      BY <1>3, <2>7
    <3>2. QED
      BY <2>2, <3>1
  <2>11. ASSUME NEW k \in 1..(n + 1) PROVE stream'[k].does = Work[j + (k - 1)]
    <3>1. CASE k \in 1..n
      BY <2>4, <2>5, <2>7, <2>10, <3>1
    <3>2. CASE k = n + 1
      <4>1. j + (k - 1) = step
        BY <2>7, <2>10, <3>2
      <4>2. QED
        BY <2>3, <2>4, <2>5, <3>2, <4>1
    <3>3. QED
      BY <3>1, <3>2
  <2>12. Reached(j)'
    BY <2>2, <2>7, <2>8, <2>10, ReachedStays
  <2>13. Reached(step - Len(stream))'
    BY <2>6, <2>10, <2>12
  <2>14. step' \in 1..(Len(Work) + 1) /\ n + 1 < step'
    BY <1>3, <2>2, <2>7
  <2>15. \A k \in 1..Len(stream') : stream'[k].does = Work'[(step' - Len(stream')) + (k - 1)]
    BY <2>6, <2>9, <2>10, <2>11
  <2>16. QED
    BY <2>6, <2>9, <2>13, <2>14, <2>15 DEF OnCourse
<1>8. CASE Execute
  <2>1. /\ stream # <<>> /\ stream' = Tail(stream) /\ Does(Head(stream).does)
        /\ UNCHANGED <<pc, lost, runs, asked, step>>
    BY <1>8 DEF Execute, Does, hostVars
  <2>2. PICK n \in Nat \ {0} : n = Len(stream) /\ n - 1 = Len(stream')
    BY <2>1, ShortenedLength
  <2>3. Head(stream) = stream[1] /\ \A k \in 1..(n - 1) : stream'[k] = stream[k + 1]
    BY <2>1, <2>2, FirstAndRest
  <2>4. /\ step \in 1..(Len(Work) + 1) /\ n < step /\ Reached(step - n)
        /\ \A k \in 1..n : stream[k].does = Work[(step - n) + (k - 1)]
    BY <1>1, <2>1, <2>2 DEF OnCourse
  <2>5. PICK j \in 1..Len(Work) : j = step - n
    BY <1>3, <2>4
  <2>6. j + 1 = step - (n - 1) /\ j + (1 - 1) = j /\ 1 \in 1..n
    BY <2>4, <2>5
  <2>7. Does(Work[j])
    BY <2>1, <2>3, <2>4, <2>5, <2>6
  <2>8. SameForward
    BY <1>2, <2>1 DEF SameForward
  <2>9. pc = "forward" /\ runs' = runs /\ Reached(j)
    BY <1>1, <2>1, <2>4, <2>5
  <2>10. Reached(j + 1)'
    BY <2>7, <2>8, <2>9, ReachedNext
  <2>11. Work' = Work
    BY <2>8, SameWork
  <2>12. Reached(step - Len(stream))'
    <3>1. step' - Len(stream') = j + 1
      BY <2>1, <2>2, <2>6
    <3>2. QED
      BY <2>10, <3>1
  <2>13. ASSUME NEW k \in 1..(n - 1) PROVE stream'[k].does = Work[(step - (n - 1)) + (k - 1)]
    <3>1. k + 1 \in 1..n /\ (step - n) + ((k + 1) - 1) = (step - (n - 1)) + (k - 1)
      BY <2>4
    <3>2. stream[k + 1].does = Work[(step - n) + ((k + 1) - 1)]
      BY <2>4, <3>1
    <3>3. QED
      BY <2>3, <3>1, <3>2
  <2>14. step' \in 1..(Len(Work) + 1) /\ Len(stream') < step'
    BY <1>3, <2>1, <2>2, <2>4
  <2>15. \A k \in 1..Len(stream') : stream'[k].does = Work'[(step' - Len(stream')) + (k - 1)]
    BY <2>1, <2>2, <2>11, <2>13
  <2>16. QED
    BY <2>11, <2>12, <2>14, <2>15 DEF OnCourse
<1>9. CASE Commit \/ Fail \/ Destroy
  BY <1>1, <1>9 DEF Commit, Fail, Destroy
<1>10. CASE Gone \/ UNCHANGED vars
  BY <1>4, <1>10 DEF Gone, vars, startupVars, hostVars, forwardVars
<1>11. QED
  BY <1>5, <1>6, <1>7, <1>8, <1>9, <1>10 DEF Next

LEMMA HostLearns ==
  ASSUME Started, Checked, InFlight, FlightIsKnown, ForwardStarted, HostKnows, OnCourse, [Next]_vars
  PROVE  HostKnows'
<1>1. SUFFICES ASSUME pc' \notin Over PROVE HostKnows'
  BY DEF HostKnows
<1>2. m' = m
  BY SameNames DEF m
<1>3. Regions' = Regions
  BY <1>2 DEF Regions
<1>4. ASSUME UNCHANGED forwardVars, pc \notin Over, pc' = "forward" <=> pc = "forward", pc = "ready" => pc' = "ready",
             pc' = "ready" => pc = "ready" \/ runs = 0
      PROVE  HostKnows'
  <2>1. ForwardIsExact'
    BY <1>4 DEF HostKnows, ForwardIsExact, forwardVars
  <2>2. QED
    BY <1>3, <1>4, <2>1 DEF HostKnows, forwardVars, Chooses
<1>5. CASE Startup /\ UNCHANGED forwardVars
  <2>1. /\ pc \notin Over /\ (pc' = "forward" <=> pc = "forward") /\ (pc = "ready" => pc' = "ready")
        /\ pc' = "ready" => pc \in {"ready", "device"}
    BY <1>1, <1>5, StartupMoves
  <2>2. pc = "device" => runs = 0
    BY <2>1 DEF HostKnows
  <2>3. QED
    BY <1>4, <1>5, <2>1, <2>2
<1>6. CASE BeginForward
  <2>1. /\ pc = "ready" /\ pc' = "forward" /\ runs' = runs + 1 /\ UNCHANGED <<cache, received>>
        /\ values' = IF runs = 0 THEN [k \in {WorkspaceShapes[j].name : j \in DOMAIN WorkspaceShapes} |-> Junk]
                     ELSE values
    BY <1>6 DEF BeginForward
  <2>2. /\ runs \in Nat /\ DOMAIN cache = 1..Layers /\ DOMAIN received = {"status", "tokens", "logits"}
        /\ runs > 0 => Regions \subseteq DOMAIN values
    BY <2>1 DEF HostKnows, Over
  <2>3. Regions \subseteq DOMAIN values'
    <3>1. CASE runs = 0
      <4>1. DOMAIN values' = {WorkspaceShapes[j].name : j \in DOMAIN WorkspaceShapes}
        BY <2>1, <3>1
      <4>2. DOMAIN WorkspaceShapes = 1..Len(WorkspaceShapes)
        <5>1. ModelIsSupported
          BY <2>1 DEF Checked, PastShapes, PastBounds, PastConfig, Pcs
        <5>2. WorkspaceShapes \in Seq(ShapeSet)
          BY <5>1, EmbeddingExists, RegionsAreShapes
        <5>3. QED
          BY <5>2, LenProperties
      <4>3. ASSUME NEW name \in Regions PROVE \E j \in DOMAIN WorkspaceShapes : WorkspaceShapes[j].name = name
        BY <4>2, NamesAndIndices DEF Meets
      <4>4. QED
        BY <4>1, <4>3
    <3>2. CASE runs # 0
      BY <2>1, <2>2, <3>2
    <3>3. QED
      BY <3>1, <3>2
  <2>4. "logits" \in asked' => "tokens" \in asked'
    <3>1. PICK a \in Modes : asked' \in (IF m.layout = "paged" THEN {a, a \cup {"table"}} ELSE {a})
      BY <1>6 DEF BeginForward
    <3>2. a \in {{}, {"tokens"}, {"tokens", "logits"}}
      BY ForwardAssumption
    <3>3. asked' = a \/ asked' = a \cup {"table"}
      BY <3>1
    <3>4. QED
      BY <3>2, <3>3
  <2>5. ForwardIsExact'
    BY <2>1 DEF ForwardIsExact
  <2>6. runs' \in Nat /\ runs' > 0
    BY <2>1, <2>2
  <2>7. QED
    BY <1>3, <2>1, <2>2, <2>3, <2>4, <2>5, <2>6 DEF HostKnows, Chooses
<1>7. CASE Enqueue
  <2>1. pc = "forward" /\ pc' = "forward" /\ UNCHANGED <<runs, asked, values, cache, bad, status, received>>
    BY <1>7 DEF Enqueue, hostVars
  <2>2. ForwardIsExact'
    BY <2>1 DEF ForwardIsExact
  <2>3. QED
    BY <1>3, <2>1, <2>2 DEF HostKnows, Chooses, Over
<1>8. CASE Execute
  <2>1. pc' = pc /\ runs' = runs /\ asked' = asked /\ Does(Head(stream).does)
    BY <1>8 DEF Execute, hostVars, Does
  <2>2. pc = "forward"
    BY <1>1, <1>8, <2>1, KernelsInForward DEF Over
  <2>3. PICK op : op = Head(stream).does
    OBVIOUS
  <2>4. DOMAIN values' = DOMAIN values /\ DOMAIN cache' = DOMAIN cache /\ DOMAIN received' = DOMAIN received
    BY <2>1, <2>3 DEF Does, Compute
  <2>5. ForwardIsExact'
    BY <2>1, <2>2 DEF ForwardIsExact
  <2>6. QED
    BY <1>3, <2>1, <2>2, <2>4, <2>5 DEF HostKnows, Chooses, Over
<1>9. CASE Commit
  <2>1. /\ pc = "forward" /\ pc' = "ready" /\ step > Len(Work) /\ ~lost /\ stream = <<>>
        /\ received.status = Clean /\ UNCHANGED forwardVars
    BY <1>9 DEF Commit, Settled
  <2>2. Facts(40, Layers + 1)
    BY <2>1, AtTheEnd
  <2>3. /\ bad = {} /\ \A l \in 1..Layers : cache[l] = RowsAfter(l, runs)
        /\ Chooses => received.tokens = Val("best", Layers + 1, runs)
        /\ "logits" \in asked => received.logits = Val("answers", Layers + 1, runs)
    BY <2>1, <2>2, EndIsExact
  <2>4. ForwardIsExact'
    BY <2>1, <2>3 DEF ForwardIsExact, forwardVars, Chooses
  <2>5. QED
    BY <1>3, <2>1, <2>3, <2>4 DEF HostKnows, Chooses, Over, forwardVars
<1>10. CASE Destroy \/ Fail
  BY <1>1, <1>10 DEF Destroy, Fail, Over
<1>11. CASE Gone \/ UNCHANGED vars
  <2>1. pc' = pc /\ UNCHANGED forwardVars
    BY <1>11 DEF Gone, vars, startupVars, hostVars
  <2>2. QED
    BY <1>1, <1>4, <2>1
<1>12. QED
  BY <1>5, <1>6, <1>7, <1>8, <1>9, <1>10, <1>11 DEF Next

LEMMA ForwardKnown == Spec => [](StartupInv /\ HostKnows /\ OnCourse)
<1>1. Init => HostKnows /\ OnCourse
  <2>1. SUFFICES ASSUME Init PROVE HostKnows /\ OnCourse
    OBVIOUS
  <2>2. /\ pc = "config" /\ runs = 0 /\ asked = {} /\ cache = [l \in 1..Layers |-> <<>>] /\ bad = {}
        /\ DOMAIN received = {"status", "tokens", "logits"}
    BY <2>1 DEF Init, StartupInit
  <2>3. \A l \in 1..Layers : cache[l] = RowsAfter(l, runs)
    BY <2>2, RowsOfNone
  <2>4. QED
    BY <2>2, <2>3 DEF HostKnows, OnCourse, ForwardIsExact
<1>2. Started /\ Checked /\ StartupInv /\ FlightIsKnown /\ HostKnows /\ OnCourse /\ [Next]_vars
        => FlightIsKnown' /\ HostKnows' /\ OnCourse'
  <2>1. SUFFICES ASSUME Started, Checked, StartupInv, FlightIsKnown, HostKnows, OnCourse, [Next]_vars
                 PROVE  FlightIsKnown' /\ HostKnows' /\ OnCourse'
    OBVIOUS
  <2>2. InFlight /\ ForwardStarted
    BY <2>1 DEF StartupInv, MemoryInv
  <2>3. FlightIsKnown' /\ ForwardStarted'
    BY <2>1, <2>2, FlightStep, ForwardStep
  <2>4. QED
    BY <2>1, <2>2, <2>3, HostLearns, CourseGoesOn
<1>3. Init => FlightIsKnown
  BY LoadStarts DEF LoadInv
<1>4. QED
  BY <1>1, <1>2, <1>3, StartupInvariant, PTL DEF Spec

\* When a forward has returned, the cache of each layer has one more batch of
\* rows, and the tokens and the logits that the host was given are the ones
\* that the model's formulas name for this batch: for any number of layers,
\* of either precision, whatever is asked for, and however far the device lags
\* behind, no scratch region is reused while its value is still wanted.
THEOREM ForwardExact == Spec => []ForwardIsExact
<1>1. HostKnows => ForwardIsExact
  BY DEF HostKnows, ForwardIsExact, Over
<1>2. QED
  BY <1>1, ForwardKnown, PTL

\* When the device has come to the end of a forward, its status is clean
\* exactly when every number that counts is finite: a number that overflows
\* in any kernel of any layer is recorded by a later one before it is
\* overwritten, and what is recorded was not finite.
THEOREM StatusExact == Spec => []StatusIsExact
<1>1. StartupInv /\ OnCourse => StatusIsExact
  <2>1. SUFFICES ASSUME StartupInv, OnCourse, pc = "forward", step > Len(Work), stream = <<>>, ~lost
                 PROVE  received.status = Clean <=> bad = {}
    BY DEF StatusIsExact
  <2>2. Facts(40, Layers + 1)
    BY <2>1, AtTheEnd DEF StartupInv
  <2>3. QED
    BY <2>2, EndIsExact
<1>2. QED
  BY <1>1, ForwardKnown, PTL
=============================================================================
