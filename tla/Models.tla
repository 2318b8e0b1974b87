------------------------------- MODULE Models -------------------------------
(***************************************************************************)
(* The models of the package as programs: what forward calls, up to the    *)
(* loss.  c is the configuration of a model, with the names of the source. *)
(***************************************************************************)
EXTENDS Transformer

NoSubset(c) ==
  LET none == [l \in 1 .. c.num_hidden_layers |-> NoTensor]
  IN  [mixer_subset |-> {}, drop_path1 |-> none, drop_path2 |-> none]
LastLayer(c) == IF c.last_layer_subset THEN {c.num_hidden_layers} ELSE {}

embedding(calls, name, ids) ==
  Then(calls, TorchOp("embedding", <<"weight", "ids">>, 1), <<Param(0, name \o ".weight"), Given(ids)>>)
add_embedding(calls, name, ids, wanted) ==
  LET e == embedding(calls, name, ids)
  IN  IF wanted THEN add(e, Out(calls, "out"), Out(e, "out")) ELSE calls

\* nn.Linear, or FusedDense with fused_bias_fc.
LinearCls(calls, x, name, weight, c) ==
  LET bias == Param(0, name \o ".bias")
      fused == fused_dense_func(calls, x, weight, bias, False, name \notin c.frozen)
      plain == linear(calls, x, weight, bias)
  IN  IF c.fused_bias_fc THEN [calls |-> fused, out |-> Out(fused, "output")]
      ELSE [calls |-> plain, out |-> Out(plain, "out")]

-----------------------------------------------------------------------------
(* modules/embedding.py, models/gpt.py                                     *)

GPT2Embeddings(c) ==
  LET word == embedding(<<>>, "word_embeddings", "input_ids")
      projected == linear(word, Out(word, "out"), Param(0, "project_in.weight"), NoTensor)
  IN  add_embedding(IF c.word_embed_proj THEN projected ELSE word, "position_embeddings", "position_ids",
                    c.position_embeddings)

\* create_mixer_cls, create_block: dropout before Add means that of the
\* previous layer's MLP, or of the embeddings.
create_block_gpt(c) ==
  [resid_dropout1 |-> [l \in 1 .. c.num_hidden_layers |-> IF l > 1 THEN c.resid_pdrop ELSE c.embd_pdrop],
   resid_dropout2 |-> c.resid_pdrop, causal |-> True, cross_attn |-> {}, return_residual |-> FALSE] @@ NoSubset(c) @@ c

\* GPTModel.forward: the layers, then drop_f and ln_f.
GPTModel(model) ==
  LET c == create_block_gpt(model)
      emb == GPT2Embeddings(c)
      first == [calls |-> emb, hidden |-> Out(emb, "out"), hidden2 |-> NoTensor, residual |-> NoTensor]
      layer(s, l) ==
        IF c.parallel_block THEN ParallelBlock(s.calls, s.hidden, s.hidden2, s.residual, l, c, <<>>)
        ELSE Block(s.calls, s.hidden, s.residual, NoTensor, l, c, <<>>) @@ [hidden2 |-> NoTensor]
      last == FoldLeft(layer, first, [l \in 1 .. c.num_hidden_layers |-> l])
      ln_f == NormWeights(0, "ln_f", c)
      final == IF c.parallel_block
               THEN TwoBranches(last.calls, last.hidden, last.hidden2, last.residual, ln_f,
                                <<NoTensor, NoTensor>>, <<c.resid_pdrop, c.resid_pdrop>>, c, False)
               ELSE DropAddNorm(last.calls, last.hidden, last.residual, ln_f, c.resid_pdrop, NoTensor, c, False)
  IN  IF ~c.prenorm THEN [calls |-> last.calls, out |-> last.hidden]
      ELSE [calls |-> final.calls, out |-> IF c.parallel_block THEN final.out1 ELSE final.out]

\* GPTLMHeadModel.forward and the loss of training.
GPTLMHeadModel(c) ==
  LET model == GPTModel(c)
      projected == linear(model.calls, model.out, Param(0, "project_out.weight"), NoTensor)
      hidden == IF c.word_embed_proj THEN [calls |-> projected, out |-> Out(projected, "out")] ELSE model
      weight == Param(0, IF c.tie_word_embeddings THEN "word_embeddings.weight" ELSE "lm_head.weight")
      normalized == unary(hidden.calls, "normalize", weight)
      logits == IF c.norm_head THEN linear(normalized, hidden.out, Out(normalized, "out"), NoTensor)
                ELSE linear(hidden.calls, hidden.out, weight, NoTensor)
      loss == cross_entropy(logits, Out(logits, "out"), Given("labels"), c.inplace_backward)
  IN  [calls |-> loss, loss |-> Out(loss, "out")]

-----------------------------------------------------------------------------
(* models/bert.py                                                          *)

BertEmbeddings(c) ==
  LET word == embedding(<<>>, "word_embeddings", "input_ids")
  IN  add_embedding(add_embedding(word, "position_embeddings", "position_ids", TRUE),
                    "token_type_embeddings", "token_type_ids", TRUE)

BertLayerNorm(calls, x, name, c) ==
  LET w == Weights(0, name, TRUE)
      n == layer_norm_fn(calls, x, w[1], w[2], NoMap)
  IN  IF c.fused_dropout_add_ln THEN [calls |-> n, out |-> Out(n, "y")] ELSE Norm(calls, x, w, [rms |-> FALSE])

\* create_mixer_cls, create_mlp_cls, create_block: the last layer of
\* last_layer_subset is one of cross-attention and returns no residual.
create_block_bert(c, l) ==
  LET p == c.hidden_dropout_prob
  IN  [causal |-> False, cross_attn |-> LastLayer(c), prenorm |-> FALSE, rms |-> FALSE, residual_in_fp32 |-> False,
       resid_dropout1 |-> [i \in 1 .. c.num_hidden_layers |-> p], resid_dropout2 |-> p,
       return_residual |-> l \notin LastLayer(c)] @@ NoSubset(c) @@ c

\* The first n layers, each given mask.
BertLayers(s, n, c, mask) ==
  FoldLeft(LAMBDA at, l : Block(at.calls, at.hidden, NoTensor, NoTensor, l, create_block_bert(c, l), mask),
           s, [l \in 1 .. n |-> l])

\* BertEncoder.forward; subset_mask is given when last_layer_subset is set.
BertEncoder(calls, x, c) ==
  LET n == c.num_hidden_layers
      masked == BertLayers([calls |-> calls, hidden |-> x], n, c,
                           If(c.attention_mask, <<Given("attention_mask")>>))
      subset == rows(masked.calls, masked.hidden, "subset_mask")
      unpad == index_first_axis(calls, x, Given("indices"))
      lengths == <<Given("cu_seqlens"), Given("cu_seqlens"), Given("max_seqlen"), Given("max_seqlen")>>
      start == [calls |-> unpad, hidden |-> Out(unpad, "output")]
      all == BertLayers(start, n, c, lengths)
      pad == index_put_first_axis(all.calls, all.hidden, Given("indices"), Given("batch * seqlen"))
      but == BertLayers(start, n - 1, c, lengths)
      split == index_first_axis_residual(but.calls, but.hidden, Given("subset_idx"))
      lengthsLast == <<Given("subset_cu_seqlens")>> \o Tail(lengths)
      last == Block(split, Out(split, "output"), NoTensor, Out(split, "input"), n, create_block_bert(c, n), lengthsLast)
  IN  IF ~c.flash \/ ~c.attention_mask
      THEN IF c.last_layer_subset THEN [calls |-> subset, out |-> Out(subset, "out")]
           ELSE [calls |-> masked.calls, out |-> masked.hidden]
      ELSE IF c.last_layer_subset THEN [calls |-> last.calls, out |-> last.hidden]
           ELSE [calls |-> pad, out |-> Out(pad, "output")]

\* BertModel.forward: the sequence output and the pooled output.
BertModel(c) ==
  LET emb == BertEmbeddings(c)
      norm == BertLayerNorm(emb, Out(emb, "out"), "emb_ln", c)
      drop == nn_dropout(norm.calls, norm.out, c.hidden_dropout_prob)
      encoded == BertEncoder(drop, Out(drop, "out"), c)
      first == rows(encoded.calls, encoded.out, "first_col_mask")
      sequence == rows(first, encoded.out, "masked_tokens_mask")
      pooler == LinearCls(IF c.last_layer_subset THEN sequence ELSE first, Out(first, "out"), "pooler.dense",
                          Param(0, "pooler.dense.weight"), c)
      pooled == unary(pooler.calls, "tanh", pooler.out)
  IN  [calls |-> pooled, sequence |-> IF c.last_layer_subset THEN Out(sequence, "out") ELSE encoded.out]

\* BertForPreTraining.forward with labels and next_sentence_label.
BertForPreTraining(c) ==
  LET bert == BertModel(c)
      chosen == index_first_axis(bert.calls, bert.sequence, Given("masked_token_idx"))
      index == c.dense_seq_output /\ ~c.last_layer_subset
      dense == LinearCls(IF index THEN chosen ELSE bert.calls, IF index THEN Out(chosen, "output") ELSE bert.sequence,
                         "transform.dense", Param(0, "transform.dense.weight"), c)
      act == unary(dense.calls, "gelu", dense.out)
      norm == BertLayerNorm(act, Out(act, "out"), "transform.layer_norm", c)
      scores == LinearCls(norm.calls, norm.out, "decoder", Param(0, "word_embeddings.weight"), c)
      w == Weights(0, "seq_relationship", TRUE)
      nsp == linear(scores.calls, Out(bert.calls, "out"), w[1], w[2])
      mlm_loss == cross_entropy(nsp, scores.out, Given("labels"), c.inplace_backward)
      nsp_loss == cross_entropy(mlm_loss, Out(nsp, "out"), Given("next_sentence_label"), c.inplace_backward)
      total == add(nsp_loss, Out(mlm_loss, "out"), Out(nsp_loss, "out"))
  IN  [calls |-> total, loss |-> Out(total, "out")]

-----------------------------------------------------------------------------
(* models/vit.py, layers/patch_embed.py                                    *)

\* create_block: StochasticDepth before Add, like Dropout, is that of the
\* previous layer's MLP.
create_block_vit(c) ==
  [resid_dropout1 |-> [l \in 1 .. c.num_hidden_layers |-> c.drop_rate], resid_dropout2 |-> c.drop_rate,
   drop_path1 |-> [l \in 1 .. c.num_hidden_layers |-> IF l > 1 THEN c.dpr[l - 1] ELSE NoTensor], drop_path2 |-> c.dpr,
   causal |-> False, cross_attn |-> LastLayer(c), mixer_subset |-> LastLayer(c), prenorm |-> TRUE, rms |-> FALSE,
   residual_in_fp32 |-> True, return_residual |-> FALSE] @@ c

\* VisionTransformer.forward: the last layer is computed for the class token.
VisionTransformer(model) ==
  LET c == create_block_vit(model)
      patch == LinearCls(<<>>, Given("patches"), "proj", Param(0, "proj.weight"), c)
      token(calls, x) == Then(calls, TorchOp("cat", <<"cls_token", "x">>, 2), <<Param(0, "cls_token"), x>>)
      cat == token(patch.calls, patch.out)
      pos == add(cat, Out(cat, "out"), Param(0, "pos_embed"))
      pos1 == add(patch.calls, patch.out, Param(0, "pos_embed"))
      emb == IF c.no_embed_class THEN token(pos1, Out(pos1, "out")) ELSE pos
      last == FoldLeft(LAMBDA s, l : Block(s.calls, s.hidden, s.residual, NoTensor, l, c, <<>>),
                       [calls |-> emb, hidden |-> Out(emb, "out"), residual |-> NoTensor],
                       [l \in 1 .. c.num_hidden_layers |-> l])
      norm == DropAddNorm(last.calls, last.hidden, last.residual, NormWeights(0, "norm", c), c.drop_rate,
                          Last(c.dpr), c, False)
      first == rows(norm.calls, norm.out, "0")
      head == Linear(first, Out(first, "out"), 0, "head")
      loss == cross_entropy(head, Out(head, "out"), Given("labels"), c.inplace_backward)
  IN  [calls |-> loss, loss |-> Out(loss, "out")]

-----------------------------------------------------------------------------
(* The interfaces and the fused norms by themselves: an application        *)
(* between linear layers, and a loss.                                      *)

Measured(calls, x) ==
  LET loss == TorchOp("loss", <<"x", "y">>, 1)
      made == Then(calls, loss, <<x, Given("labels")>>)
  IN  [calls |-> made, loss |-> Out(made, "out")]

\* One function of an attention interface; lengths is <<>> or those of varlen.
Attention(c) ==
  LET qkv == LinearTo(<<>>, Given("x"), 0, "Wqkv", "qkv", <<"q", "k", "v">>)
      split == Then(qkv, TorchSplit(<<"q", "k", "v">>,
                                    IF c.packed = "kv" THEN "q" :> <<"q">> @@ "kv" :> <<"k", "v">>
                                    ELSE "q" :> <<"q">> @@ "k" :> <<"k">> @@ "v" :> <<"v">>), <<Out(qkv, "qkv")>>)
      q == Out(split, "q")
      kv == Out(split, "kv")
      k == Out(split, "k")
      v == Out(split, "v")
      calls ==
        CASE c.packed = "qkv" /\ c.fa = 3 -> flash_attn_qkvpacked_funcFA3(qkv, Out(qkv, "qkv"), c.kwargs)
          [] c.packed = "qkv" /\ c.fa = 2 ->
               IF c.lengths = <<>> THEN flash_attn_qkvpacked_func(qkv, Out(qkv, "qkv"), c.kwargs)
               ELSE flash_attn_varlen_qkvpacked_func(qkv, Out(qkv, "qkv"), c.lengths[1], c.lengths[3], c.kwargs)
          [] c.packed = "kv" ->
               IF c.lengths = <<>> THEN flash_attn_kvpacked_func(split, q, kv, c.kwargs)
               ELSE flash_attn_varlen_kvpacked_func(split, q, kv, c.lengths, c.kwargs)
          [] c.packed = "no" /\ c.fa = 3 ->
               IF c.lengths = <<>> THEN flash_attn_funcFA3(split, q, k, v, c.kwargs)
               ELSE flash_attn_varlen_funcFA3(split, q, k, v, c.lengths, c.kwargs)
          [] OTHER -> IF c.lengths = <<>> THEN flash_attn_func(split, q, k, v, c.kwargs)
                      ELSE flash_attn_varlen_func(split, q, k, v, c.lengths, c.kwargs)
  IN  Measured(calls, Out(calls, "out"))

\* Two layers, each a fused norm of the sum and a linear of its output, as
\* ops/layer_norm.py and ops/rms_norm.py are used, and LayerNormLinearFn.
\* The second returns no residual.
FusedNorm(calls, x, x1, residual, l, c) ==
  LET norm == Weights(l, "norm", ~c.rms)
      norm1 == Weights(l, "norm1", ~c.rms)
      rms == IF c.rms THEN True ELSE False
      prenorm == IF l = 1 THEN True ELSE False
      made == CASE c.norm = "plain" -> dropout_add_layer_norm(calls, x, residual, norm, c.dropout_p, c.scales, prenorm, rms)
                [] c.norm = "subset" ->
                     dropout_add_layer_norm_subset(calls, x, residual, norm, c.dropout_p, c.subset[l], prenorm, rms)
                [] c.norm = "parallel" ->
                     dropout_add_layer_norm_parallel_residual(calls, x, x1, residual, norm, norm1, c.dropout_p, prenorm, rms)
                [] c.norm = "linear" -> layer_norm_linear_fn(calls, x, norm, Weights(l, "fc1", TRUE), residual, prenorm, rms)
      outs == Last(made).fn.outs
      fc1 == IF c.norm = "linear" THEN made ELSE Linear(made, Out(made, outs[1]), l, "fc1")
      fc2 == Linear(fc1, Out(made, "z1"), l, "fc2")
      two == c.norm = "parallel"
  IN  [calls |-> IF two THEN fc2 ELSE fc1, x |-> Out(fc1, "out"), x1 |-> IF two THEN Out(fc2, "out") ELSE NoTensor,
       residual |-> Out(made, Last(outs))]
Norms(c) ==
  LET x == linear(<<>>, Given("x"), Param(0, "proj.weight"), NoTensor)
      one == FusedNorm(x, Out(x, "out"), NoTensor, NoTensor, 1, c)
      two == FusedNorm(one.calls, one.x, one.x1, one.residual, 2, c)
  IN  IF IsPassed(two.x1) THEN LET sum == add(two.calls, two.x, two.x1) IN Measured(sum, Out(sum, "out"))
      ELSE Measured(two.calls, two.x)
=============================================================================
