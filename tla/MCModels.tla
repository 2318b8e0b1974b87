------------------------------ MODULE MCModels ------------------------------
(* Models to run: two layers each, so that a layer's residual comes from    *)
(* another.  Every option of a model appears with and without the others    *)
(* that change what its Functions save.                                     *)
EXTENDS ModelPass, ModelReference

Options ==
  [attn_p |-> Given("attn_pdrop"), window |-> Given("(-1, -1)"), alibi |-> NoTensor, rotary |-> "none", mqa |-> FALSE,
   flash |-> FALSE, activation |-> "gelu", fused_mlp |-> FALSE, fused_dense_sqrelu_dense |-> FALSE, checkpoint_lvl |-> 0,
   fused_dropout_add_ln |-> FALSE, fused_bias_fc |-> FALSE, last_layer_subset |-> FALSE, num_hidden_layers |-> 2,
   inplace_backward |-> True, frozen |-> {}]
Fused == [fused_dropout_add_ln |-> TRUE, flash |-> TRUE]
NoDropout == [embd_pdrop |-> Zero, resid_pdrop |-> Zero]

Gpt(options) ==
  options
  @@ [model |-> "gpt", embd_pdrop |-> Given("embd_pdrop"), resid_pdrop |-> Given("resid_pdrop"), prenorm |-> TRUE,
      parallel_block |-> FALSE, tied_norm |-> FALSE, rms |-> FALSE, residual_in_fp32 |-> False, word_embed_proj |-> FALSE,
      position_embeddings |-> TRUE, tie_word_embeddings |-> TRUE, norm_head |-> FALSE]
  @@ Options
Bert(options) ==
  options
  @@ [model |-> "bert", hidden_dropout_prob |-> Given("p"), attention_mask |-> TRUE, dense_seq_output |-> FALSE]
  @@ Options
Vit(options) ==
  options
  @@ [model |-> "vit", drop_rate |-> Given("drop_rate"), dpr |-> <<NoTensor, Given("drop_path")>>, no_embed_class |-> FALSE,
      last_layer_subset |-> TRUE]
  @@ Options

\* LayerNorm behind the branches, with dropout.
PostNormModels ==
  { Gpt([prenorm |-> FALSE, rotary |-> "rotary"]), Gpt([prenorm |-> FALSE, mqa |-> TRUE] @@ Fused) }

GptModels ==
  { Gpt([rotary |-> "none"]),
    Gpt([rotary |-> "rotary", position_embeddings |-> FALSE] @@ Fused),
    Gpt([rotary |-> "xpos", mqa |-> TRUE, activation |-> "swiglu", rms |-> TRUE, tie_word_embeddings |-> FALSE] @@ Fused),
    Gpt([rotary |-> "xpos", activation |-> "relu", word_embed_proj |-> TRUE, rms |-> TRUE]),
    Gpt([fused_mlp |-> TRUE, checkpoint_lvl |-> 0] @@ Fused @@ NoDropout),
    Gpt([parallel_block |-> TRUE, rotary |-> "rotary"]),
    Gpt([parallel_block |-> TRUE, mqa |-> TRUE] @@ Fused @@ NoDropout),
    Gpt([parallel_block |-> TRUE, tied_norm |-> TRUE, residual_in_fp32 |-> True, fused_mlp |-> TRUE, checkpoint_lvl |-> 1] @@ Fused),
    Gpt([fused_dense_sqrelu_dense |-> TRUE, activation |-> "sqrelu", checkpoint_lvl |-> 2, mqa |-> TRUE]),
    Gpt([prenorm |-> FALSE, activation |-> "geglu", norm_head |-> TRUE, inplace_backward |-> False] @@ NoDropout) }
  \cup PostNormModels
BertModels ==
  { Bert([rotary |-> "none"]), Bert([last_layer_subset |-> TRUE, dense_seq_output |-> TRUE]),
    Bert([flash |-> TRUE, fused_bias_fc |-> TRUE, dense_seq_output |-> TRUE]),
    Bert([last_layer_subset |-> TRUE, dense_seq_output |-> TRUE, fused_mlp |-> TRUE, checkpoint_lvl |-> 2, fused_bias_fc |-> TRUE, frozen |-> {"pooler.dense"}] @@ Fused) }

VitModels ==
  { Vit([no_embed_class |-> TRUE]),
    Vit([fused_bias_fc |-> TRUE, fused_mlp |-> TRUE] @@ Fused) }

Lengths == <<Given("cu_seqlens_q"), Given("cu_seqlens_k"), Given("max_seqlen_q"), Given("max_seqlen_k")>>
AttentionModels ==
  { [model |-> "attention", fa |-> 2, packed |-> packed, lengths |-> lengths, frozen |-> {},
     kwargs |-> [dropout_p |-> Given("dropout_p"), window_size |-> Given("window_size"), alibi_slopes |-> Given("alibi")]] :
      packed \in {"kv", "no"}, lengths \in {<<>>, Lengths} }
  \cup { [model |-> "attention", fa |-> 2, packed |-> "qkv", lengths |-> lengths, frozen |-> {},
          kwargs |-> [softcap |-> Given("softcap"), softmax_scale |-> Given("softmax_scale")]] :
           lengths \in {<<>>, <<Given("cu_seqlens"), Given("cu_seqlens"), Given("max_seqlen"), Given("max_seqlen")>>} }
  \cup { [model |-> "attention", fa |-> 3, packed |-> packed, lengths |-> lengths, frozen |-> {},
          kwargs |-> [window_size |-> Given("window_size"), softcap |-> Given("softcap")]] :
           <<packed, lengths>> \in {<<"qkv", <<>>>>, <<"no", <<>>>>, <<"no", Lengths \o <<Given("seqused_q"), NoTensor>>>>} }

Norm1(norm, rms, p, scales) ==
  [model |-> "norms", norm |-> norm, rms |-> rms, dropout_p |-> p, scales |-> scales, frozen |-> {},
   subset |-> <<<<scales[2], NoTensor, Given("subset"), scales[1]>>, <<scales[2], Given("subset"), NoTensor, scales[1]>>>>]
NoScales == <<NoTensor, NoTensor>>
Scales == <<Given("rowscale"), Param(0, "colscale")>>
NormModels ==
  { Norm1("plain", FALSE, Given("dropout_p"), Scales), Norm1("plain", TRUE, Zero, NoScales),
    Norm1("subset", FALSE, Given("dropout_p"), Scales), Norm1("parallel", FALSE, Given("dropout_p"), NoScales),
    Norm1("parallel", TRUE, Zero, NoScales), Norm1("linear", FALSE, Zero, NoScales), Norm1("linear", TRUE, Zero, NoScales) }

AllModels == GptModels \cup BertModels \cup VitModels \cup AttentionModels \cup NormModels
=============================================================================
