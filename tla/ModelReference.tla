--------------------------- MODULE ModelReference ---------------------------
(***************************************************************************)
(* What the models compute, as their documentation describes them: no      *)
(* fusion, no packing, nothing in place.  x and the like are terms.        *)
(***************************************************************************)
EXTENDS Models

ParamOf(l, name) == Value(Param(l, name))
BiasOf(l, name, biased) == IF biased THEN ParamOf(l, name \o ".bias") ELSE Atom("None")
LinearOf(x, l, name) == Term("linear", 0, <<x, ParamOf(l, name \o ".weight"), BiasOf(l, name, TRUE)>>)
PartOf(x, l, name, part) ==
  Term("linear " \o part, 0, <<x, ParamOf(l, name \o ".weight"), BiasOf(l, name, TRUE)>>)
Unbiased(x, weight) == Term("linear", 0, <<x, weight, Atom("None")>>)
NormOf(x, l, name, rms) ==
  Term(Normalize(rms), 0, <<x, ParamOf(l, name \o ".weight"), BiasOf(l, name, ~rms), Atom("eps")>>)
Drop(x, p) == Apply("dropout", <<x, Value(p)>>)
RowsOf(x, indices) == Term("gather", 0, <<x, Atom(indices)>>)
EmbeddingOf(name, ids) == Term("embedding", 0, <<ParamOf(0, name \o ".weight"), Atom(ids)>>)
LossOf(logits, labels) ==
  LET each == Term("cross_entropy", 0,
                   <<logits, Atom(labels), Atom("smoothing"), Atom("logit_scale"), Atom("lse_square_scale"),
                     Atom("ignore_index")>>)
  IN  Term("mean_loss", 0, <<each, Atom(labels)>>)

-----------------------------------------------------------------------------
(* Softmax attention with what masks, scales and drops its scores.         *)

AttentionOf(q, k, v, lengths, p, causal, window, softcap, alibi) ==
  Term("attention", 0, <<q, k, v>> \o lengths \o <<p, Atom("default_scale"), causal, window, softcap, alibi>>)

Rotate(x, cos, sin, c) ==
  IF c.rotary = "none" THEN x
  ELSE Term("rotary", 0, <<x, Atom(cos), Atom(sin), Atom("seqlen_offset"), Atom("interleaved")>>)

\* xpos: keys are rotated by tables of their own.
SelfAttentionOf(x, x_kv, l, c, mask) ==
  LET cross == c.last_layer_subset /\ l = c.num_hidden_layers
      q == IF cross THEN LinearOf(x, l, "Wq") ELSE PartOf(x, l, "Wqkv", "q")
      part(s) == PartOf(x_kv, l, IF cross THEN "Wkv" ELSE "Wqkv", s)
      xpos == c.rotary = "xpos"
      k == Rotate(part("k"), IF xpos THEN "cos_k" ELSE "cos", IF xpos THEN "sin_k" ELSE "sin", c)
  IN  LinearOf(AttentionOf(Rotate(q, "cos", "sin", c), k, part("v"), mask, Value(c.attn_p), Value(IF c.model = "gpt" THEN True ELSE False),
                           Value(c.window), Atom("0.0"), Value(c.alibi)), l, "out_proj")

MlpOf(x, l, c) ==
  LinearOf(CASE c.activation = "swiglu" -> Term("swiglu", 0, <<PartOf(x, l, "fc1", "gate"), PartOf(x, l, "fc1", "y")>>)
             [] c.activation \in {"glu", "geglu"} ->
                  Term(c.activation, 0, <<PartOf(x, l, "fc1", "y"), PartOf(x, l, "fc1", "gate")>>)
             [] OTHER -> Term(c.activation, 0, <<LinearOf(x, l, "fc1")>>), l, "fc2")

-----------------------------------------------------------------------------
(* A GPT layer: LN -> attention or MLP -> Dropout -> Add; postnorm: LN     *)
(* after Add; parallel: both branches from one residual.                   *)

\* Which probability drops the embeddings and which the attention of each layer,
\* as of a GPT-2; and by "the mapping of the nn.Dropout probabilities" that comes
\* with the changed order of a block (gpt.py:462), in a model that does not change it.
DocumentedDropout(c) ==
  [embeddings |-> c.embd_pdrop, attention |-> [l \in 1 .. c.num_hidden_layers |-> c.resid_pdrop]]
MappedDropout(c) ==
  IF c.prenorm THEN DocumentedDropout(c)
  ELSE [embeddings |-> Zero,
        attention |-> [l \in 1 .. c.num_hidden_layers |-> IF l = 1 THEN c.embd_pdrop ELSE c.resid_pdrop]]

GptLayerOf(s, l, c, drop) ==
  LET p == c.resid_pdrop
      n(x, name) == NormOf(x, l, name, c.rms)
      norm2 == IF c.tied_norm THEN "norm1" ELSE "norm2"
      attn(x) == Drop(SelfAttentionOf(x, x, l, c, <<>>), drop.attention[l])
      mlp(x) == Drop(MlpOf(x, l, c), p)
      mid == Sum(s, attn(n(s, "norm1")))
      post == n(Sum(s, attn(s)), "norm1")
  IN  IF c.parallel_block THEN Sum(Sum(s, attn(n(s, "norm1"))), mlp(n(s, norm2)))
      ELSE IF c.prenorm THEN Sum(mid, mlp(n(mid, "norm2")))
      ELSE n(Sum(post, mlp(post)), "norm2")

GptOf(c, drop) ==
  LET word == EmbeddingOf("word_embeddings", "input_ids")
      projected == IF c.word_embed_proj THEN Unbiased(word, ParamOf(0, "project_in.weight")) ELSE word
      emb == IF c.position_embeddings THEN Sum(projected, EmbeddingOf("position_embeddings", "position_ids"))
             ELSE projected
      s == FoldLeft(LAMBDA x, l : GptLayerOf(x, l, c, drop), Drop(emb, drop.embeddings), [l \in 1 .. c.num_hidden_layers |-> l])
      out == IF c.prenorm THEN NormOf(s, 0, "ln_f", c.rms) ELSE s
      head == IF c.word_embed_proj THEN Unbiased(out, ParamOf(0, "project_out.weight")) ELSE out
      weight == ParamOf(0, IF c.tie_word_embeddings THEN "word_embeddings.weight" ELSE "lm_head.weight")
  IN  LossOf(Unbiased(head, IF c.norm_head THEN Term("normalize", 0, <<weight>>) ELSE weight), "labels")

-----------------------------------------------------------------------------
(* BERT: postnorm; the last layer may be computed for some tokens only,    *)
(* which attend to all of them.                                            *)

BertLayerOf(x, x_kv, l, c, mask) ==
  LET p == c.hidden_dropout_prob
      mid == NormOf(Sum(x, Drop(SelfAttentionOf(x, x_kv, l, c, mask), p)), l, "norm1", FALSE)
  IN  NormOf(Sum(mid, Drop(MlpOf(mid, l, c), p)), l, "norm2", FALSE)

BertEncoderOf(x, c) ==
  LET n == c.num_hidden_layers
      unpad == c.flash /\ c.attention_mask
      lengths == <<Atom("cu_seqlens"), Atom("cu_seqlens"), Atom("max_seqlen"), Atom("max_seqlen")>>
      mask == IF unpad THEN lengths ELSE If(c.attention_mask, <<Atom("attention_mask")>>)
      layers(m, s) == FoldLeft(LAMBDA at, l : BertLayerOf(at, at, l, c, mask), s, [l \in 1 .. m |-> l])
      but == layers(n - 1, IF unpad THEN RowsOf(x, "indices") ELSE x)
      all == layers(n, IF unpad THEN RowsOf(x, "indices") ELSE x)
  IN  IF unpad /\ c.last_layer_subset
      THEN BertLayerOf(RowsOf(but, "subset_idx"), but, n, c, <<Atom("subset_cu_seqlens")>> \o Tail(lengths))
      ELSE IF c.last_layer_subset THEN RowsOf(all, "subset_mask")
      ELSE IF unpad THEN Term("scatter", 0, <<all, Atom("indices"), Atom("batch * seqlen")>>) ELSE all

BertOf(c) ==
  LET emb == Sum(Sum(EmbeddingOf("word_embeddings", "input_ids"), EmbeddingOf("position_embeddings", "position_ids")),
                 EmbeddingOf("token_type_embeddings", "token_type_ids"))
      encoded == BertEncoderOf(Drop(NormOf(emb, 0, "emb_ln", FALSE), c.hidden_dropout_prob), c)
      pooled == Term("tanh", 0, <<LinearOf(RowsOf(encoded, "first_col_mask"), 0, "pooler.dense")>>)
      sequence == IF c.last_layer_subset THEN RowsOf(encoded, "masked_tokens_mask")
                  ELSE IF c.dense_seq_output THEN RowsOf(encoded, "masked_token_idx") ELSE encoded
      transformed == NormOf(Term("gelu", 0, <<LinearOf(sequence, 0, "transform.dense")>>), 0, "transform.layer_norm", FALSE)
      scores == Term("linear", 0, <<transformed, ParamOf(0, "word_embeddings.weight"), ParamOf(0, "decoder.bias")>>)
  IN  Sum(LossOf(scores, "labels"), LossOf(LinearOf(pooled, 0, "seq_relationship"), "next_sentence_label"))

-----------------------------------------------------------------------------
(* ViT: prenorm, Dropout and StochasticDepth before each Add.  Only the    *)
(* class token is needed of the last layer.                                *)

VitLayerOf(s, l, c) ==
  LET branch(x) == Apply("scale", <<Drop(x, c.drop_rate), Value(c.dpr[l])>>)
      only(x) == IF c.last_layer_subset /\ l = c.num_hidden_layers THEN RowsOf(x, "mixer_subset") ELSE x
      normed == NormOf(s, l, "norm1", FALSE)
      mid == Sum(only(s), branch(SelfAttentionOf(only(normed), normed, l, c, <<>>)))
  IN  Sum(mid, branch(MlpOf(NormOf(mid, l, "norm2", FALSE), l, c)))

VitOf(c) ==
  LET patches == LinearOf(Atom("patches"), 0, "proj")
      token(x) == Term("cat", 0, <<ParamOf(0, "cls_token"), x>>)
      pos(x) == Sum(x, ParamOf(0, "pos_embed"))
      emb == IF c.no_embed_class THEN token(pos(patches)) ELSE pos(token(patches))
      s == FoldLeft(LAMBDA x, l : VitLayerOf(x, l, c), Drop(emb, c.drop_rate), [l \in 1 .. c.num_hidden_layers |-> l])
  IN  LossOf(LinearOf(RowsOf(NormOf(s, 0, "norm", FALSE), "0"), 0, "head"), "labels")

-----------------------------------------------------------------------------
(* The interfaces and the norms by themselves.                             *)

MeasuredOf(x) == Term("loss", 0, <<x, Atom("labels")>>)

AttentionFunctionOf(c) ==
  LET given == c.kwargs @@ FlashDefaults
      part(s) == PartOf(Atom("x"), 0, "Wqkv", s)
      lengths == [i \in DOMAIN c.lengths |-> Value(c.lengths[i])]
      fa3 == IF lengths = <<>> THEN <<>> ELSE SubSeq(lengths, 1, 2) \o SubSeq(lengths, 5, 6) \o SubSeq(lengths, 3, 4)
      scale == IF IsPassed(given.softmax_scale) THEN Value(given.softmax_scale) ELSE Atom("default_scale")
  IN  MeasuredOf(Term("attention", 0,
        <<part("q"), part("k"), part("v")>>
        \o IF c.fa = 3 THEN fa3 \o <<scale, Value(given.causal), Value(given.window_size), Value(given.softcap)>>
           ELSE lengths \o <<Value(given.dropout_p), scale, Value(given.causal), Value(given.window_size),
                             Value(given.softcap), Value(given.alibi_slopes)>>))

NormsOf(c) ==
  LET scaled(x, s) == Apply("scale", <<x, Value(s)>>)
      scales(l) == IF c.norm = "subset" THEN <<c.subset[l][4], c.subset[l][1]>> ELSE c.scales
      dropped(x, l) == Drop(scaled(scaled(x, scales(l)[1]), scales(l)[2]), c.dropout_p)
      stream(x, l) == IF c.norm = "subset" THEN Apply("put_rows", <<dropped(x, l), Value(c.subset[l][2])>>) ELSE dropped(x, l)
      out(s, l) == IF c.norm = "subset" THEN Apply("rows", <<NormOf(s, l, "norm", c.rms), Value(c.subset[l][3])>>)
                   ELSE NormOf(s, l, "norm", c.rms)
      first(s, l) == LinearOf(out(s, l), l, "fc1")
      second(s, l) == LinearOf(NormOf(s, l, "norm1", c.rms), l, "fc2")
      s1 == stream(Unbiased(Atom("x"), ParamOf(0, "proj.weight")), 1)
      s2 == Sum(s1, IF c.norm = "parallel" THEN Sum(stream(first(s1, 1), 2), stream(second(s1, 1), 2))
                    ELSE stream(first(s1, 1), 2))
  IN  MeasuredOf(IF c.norm = "parallel" THEN Sum(first(s2, 2), second(s2, 2)) ELSE first(s2, 2))

-----------------------------------------------------------------------------
(* A model to run: its calls, the loss, what is trained, what is expected  *)
(* of the model as documented, and as its dropout is mapped.               *)

Program(c) ==
  LET model == CASE c.model = "gpt" -> GPTLMHeadModel(c) [] c.model = "bert" -> BertForPreTraining(c)
                 [] c.model = "vit" -> VisionTransformer(c)
                 [] c.model = "attention" -> Attention(c) [] c.model = "norms" -> Norms(c)
      inputs == UNION {ToSet(model.calls[n].in) : n \in DOMAIN model.calls}
      frozen == {Param(0, name \o ".weight") : name \in c.frozen}
      expected(drop) ==
        CASE c.model = "gpt" -> GptOf(c, drop) [] c.model = "bert" -> BertOf(c)
          [] c.model = "vit" -> VitOf(c)
          [] c.model = "attention" -> AttentionFunctionOf(c) [] c.model = "norms" -> NormsOf(c)
  IN  model @@ [train |-> {t \in inputs : t.call < 0} \ frozen,
                documented |-> expected(IF c.model = "gpt" THEN DocumentedDropout(c) ELSE NoMap),
                reference |-> expected(IF c.model = "gpt" THEN MappedDropout(c) ELSE NoMap)]
=============================================================================
