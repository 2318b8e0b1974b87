--------------------------- MODULE LayerFunctions ---------------------------
(***************************************************************************)
(* The autograd Functions of the other layers (dense, rotary embedding,    *)
(* padding, activations, the loss), and the operations of torch they are   *)
(* used with.  One process: process_group is None.                         *)
(***************************************************************************)
EXTENDS NormFunctions

-----------------------------------------------------------------------------
(* torch.  An operation saves what its derivative needs.  A view shares    *)
(* its memory and passes its gradient on, a sum passes its own to both.    *)

TorchOp(op, formals, differentiable) ==
  Function([formals |-> formals, steps |-> << Step("out", op, formals) >>, outs |-> <<"out">>,
            saved |-> formals, restored |-> formals, needs |-> formals, given |-> formals,
            ingrads |-> <<"out">>,
            grads |-> [i \in DOMAIN formals |-> If(i <= differentiable, <<formals[i]>>)]])

TorchView(parts) ==
  Function([formals |-> <<"x">>, parts |-> "x" :> parts, outs |-> <<"x">>, ingrads |-> <<"x">>,
            grads |-> <<parts>>, passes |-> "x" :> "x"])

\* unbind, chunk, split: an output per slice.
TorchSplit(parts, outs) ==
  Function([formals |-> <<"x">>, parts |-> "x" :> parts @@ outs, outs |-> SetToSeq(DOMAIN outs),
            ingrads |-> SetToSeq(DOMAIN outs), grads |-> <<parts>>])

TorchAdd ==
  Function([formals |-> <<"a", "b">>, steps |-> << Step("out", "add", <<"a", "b">>) >>, outs |-> <<"out">>,
            ingrads |-> <<"out">>, grads |-> Of(<<"a", "b">>), passes |-> "a" :> "out" @@ "b" :> "out"])

linear(calls, x, weight, bias) ==
  Then(calls, TorchOp("linear", <<"x", "weight", "bias">>, 3), <<x, weight, bias>>)
nn_dropout(calls, x, p) == Then(calls, TorchOp("dropout", <<"x", "p">>, 1), <<x, p>>)
nn_norm(calls, x, norm, rms) ==
  Then(calls, TorchOp(Normalize(rms = True), <<"x", "weight", "bias", "eps">>, 3), <<x, norm[1], norm[2], Given("eps")>>)
add(calls, a, b) == Then(calls, TorchAdd, <<a, b>>)
unary(calls, op, x) == Then(calls, TorchOp(op, <<"x">>, 1), <<x>>)

-----------------------------------------------------------------------------
(* ops/fused_dense.py                                                      *)

FusedDenseFormals == <<"x", "weight", "bias", "return_residual", "process_group", "sequence_parallel">>

\* Without a gradient for the weight, x is not kept for backward.
FusedDenseFunc(in, compute_weight_gradient) ==
  LET arg == Bind(FusedDenseFormals, in)
      saved == IF compute_weight_gradient THEN <<"x", "weight">> ELSE <<"weight">>
      outs == <<"output">> \o If(IsPassed(arg.return_residual), <<"x">>)
  IN  Function([formals |-> FusedDenseFormals,
                steps |-> << Step("output", "linear", <<"x", "weight", "bias">>) >>, outs |-> outs,
                saved |-> saved, restored |-> saved, needs |-> saved, given |-> saved,
                ingrads |-> outs,
                grads |-> << <<"x">>, If(compute_weight_gradient, <<"weight">>), <<"bias">> >> \o None(3)])

fused_dense_func(calls, x, weight, bias, return_residual, compute_weight_gradient) ==
  LET in == <<x, weight, bias, return_residual, NoTensor, True>>
  IN  Then(calls, FusedDenseFunc(in, compute_weight_gradient), in)

FusedMLPFormals ==
  <<"x", "weight1", "bias1", "weight2", "bias2", "activation", "save_pre_act", "return_residual",
    "checkpoint_lvl", "heuristic", "process_group", "sequence_parallel">>

\* checkpoint_lvl 0 saves both activations, 1 recomputes the second (the first
\* is a bit mask for relu), 2 recomputes both.
FusedMLPFunc(in, lvl) ==
  LET arg == Bind(FusedMLPFormals, in)
      level == IF lvl = 1 /\ arg.activation.name = "relu" THEN 0 ELSE lvl
      act == Step("output1", arg.activation.name, <<"pre_act">>)
      fc1 == Step("pre_act", "linear", <<"x", "weight1", "bias1">>)
      saved == <<"x", "weight1", "weight2">>
               \o <<<<"pre_act", "output1">>, <<"pre_act">>, <<"bias1">>>>[level + 1]
      needs == <<"x", "weight1", "weight2", "pre_act", "output1">>
      outs == <<"output2">> \o If(IsPassed(arg.return_residual), <<"x">>)
  IN  Function([formals |-> FusedMLPFormals,
                steps |-> << fc1, act, Step("output2", "linear", <<"output1", "weight2", "bias2">>) >>,
                outs |-> outs, saved |-> saved, restored |-> saved,
                redo |-> <<<<>>, <<act>>, <<fc1, act>>>>[level + 1],
                needs |-> needs, given |-> needs, ingrads |-> outs,
                grads |-> Of(<<"x", "weight1", "bias1", "weight2", "bias2">>) \o None(7)])

\* mutant: backward adds into the gradient it was given
fused_mlp_func_inplace(calls, x, weight1, weight2, bias1, bias2, activation, return_residual, lvl) ==
  LET in == <<x, weight1, bias1, weight2, bias2, activation, True, return_residual, Given("checkpoint_lvl"),
              Given("heuristic"), NoTensor, True>>
  IN  Then(calls, [FusedMLPFunc(in, lvl) EXCEPT !.reuses = "x" :> "output2"], in)

fused_mlp_func(calls, x, weight1, weight2, bias1, bias2, activation, return_residual, lvl) ==
  LET in == <<x, weight1, bias1, weight2, bias2, activation, True, return_residual, Given("checkpoint_lvl"),
              Given("heuristic"), NoTensor, True>>
  IN  Then(calls, FusedMLPFunc(in, lvl), in)

\* ops/triton/mlp.py
FusedDenseSqreluDenseFunc(lvl) ==
  LET act == Step("output1", "sqrelu", <<"act_input">>)
      fc1 == Step("act_input", "linear", <<"x", "weight1", "bias1">>)
      saved == <<"x", "weight1", "bias1", "weight2">> \o <<<<"act_input", "output1">>, <<"act_input">>, <<>>>>[lvl + 1]
      needs == <<"x", "weight1", "weight2", "act_input", "output1">>
  IN  Function([formals |-> <<"x", "weight1", "bias1", "weight2", "bias2", "checkpoint_lvl">>,
                steps |-> << fc1, act, Step("output2", "linear", <<"output1", "weight2", "bias2">>) >>,
                outs |-> <<"output2">>, saved |-> saved, restored |-> saved,
                redo |-> <<<<>>, <<act>>, <<fc1, act>>>>[lvl + 1],
                needs |-> needs, given |-> needs, ingrads |-> <<"output2">>,
                grads |-> Of(<<"x", "weight1", "bias1", "weight2", "bias2">>) \o None(1)])

-----------------------------------------------------------------------------
(* layers/rotary.py: in place, forward and backward, for offsets that are  *)
(* integers.                                                               *)

RotaryFormals == <<"x", "cos", "sin", "interleaved", "inplace", "seqlen_offsets", "cu_seqlens", "max_seqlen">>

ApplyRotaryEmb(in) ==
  LET inplace == IsPassed(Bind(RotaryFormals, in).inplace)
      out == IF inplace THEN "x" ELSE "out"
      saved == <<"cos", "sin", "cu_seqlens">>
      attrs == <<"seqlen_offsets", "interleaved", "max_seqlen">>
  IN  Function([formals |-> RotaryFormals,
                steps |-> << Step(out, "rotary", <<"x", "cos", "sin", "seqlen_offsets", "interleaved">>) >>,
                outs |-> <<out>>, saved |-> saved, restored |-> saved, attrs |-> ToSet(attrs),
                needs |-> saved \o attrs, given |-> saved \o attrs,
                ingrads |-> <<out>>, grads |-> << <<"x">> >> \o None(7),
                reuses |-> IF inplace THEN "x" :> "x" ELSE NoMap])

RotaryQKVFormals == <<"qkv", "cos", "sin", "cos_k", "sin_k", "interleaved", "seqlen_offsets", "num_heads_q">>

ApplyRotaryEmbQKV_(in) ==
  LET arg == Bind(RotaryQKVFormals, in)
      cos_k == IF IsPassed(arg.cos_k) THEN "cos_k" ELSE "cos"
      sin_k == IF IsPassed(arg.sin_k) THEN "sin_k" ELSE "sin"
      saved == <<"cos", "sin", "cos_k", "sin_k">>
      attrs == <<"seqlen_offsets", "interleaved">>
  IN  Function([formals |-> RotaryQKVFormals, parts |-> "qkv" :> <<"q", "k", "v">>,
                steps |-> << Step("q", "rotary", <<"q", "cos", "sin">> \o attrs),
                             Step("k", "rotary", <<"k", cos_k, sin_k>> \o attrs) >>,
                outs |-> <<"qkv">>, saved |-> saved, restored |-> saved, attrs |-> ToSet(attrs),
                needs |-> <<"cos", "sin", cos_k, sin_k>> \o attrs,
                given |-> <<"cos", "sin", cos_k, sin_k>> \o attrs,
                ingrads |-> <<"qkv">>, grads |-> << <<"q", "k", "v">> >> \o None(7),
                reuses |-> "qkv" :> "qkv"])

ApplyRotaryEmbKV_ ==
  LET args == <<"cos", "sin", "seqlen_offsets", "interleaved">>
  IN  Function([formals |-> <<"kv", "cos", "sin", "interleaved", "seqlen_offsets">>,
                parts |-> "kv" :> <<"k", "v">>,
                steps |-> << Step("k", "rotary", <<"k">> \o args) >>,
                outs |-> <<"kv">>, saved |-> <<"cos", "sin">>, restored |-> <<"cos", "sin">>,
                attrs |-> {"seqlen_offsets", "interleaved"}, needs |-> args, given |-> args,
                ingrads |-> <<"kv">>, grads |-> << <<"k", "v">> >> \o None(4),
                reuses |-> "kv" :> "kv"])

apply_rotary_emb(calls, x, cos, sin, inplace) ==
  LET in == <<x, cos, sin, Given("interleaved"), inplace, Given("seqlen_offset"), NoTensor, NoTensor>>
  IN  Then(calls, ApplyRotaryEmb(in), in)
apply_rotary_emb_qkv_(calls, qkv, tables) ==
  LET in == <<qkv>> \o tables \o <<Given("interleaved"), Given("seqlen_offset"), NoTensor>>
  IN  Then(calls, ApplyRotaryEmbQKV_(in), in)
apply_rotary_emb_kv_(calls, kv, cos, sin) ==
  Then(calls, ApplyRotaryEmbKV_, <<kv, cos, sin, Given("interleaved"), Given("seqlen_offset")>>)

-----------------------------------------------------------------------------
(* bert_padding.py                                                         *)

IndexFirstAxis ==
  Function([formals |-> <<"input", "indices">>, steps |-> << Step("output", "gather", <<"input", "indices">>) >>,
            outs |-> <<"output">>, saved |-> <<"indices">>, restored |-> <<"indices">>,
            needs |-> <<"indices">>, given |-> <<"indices">>, ingrads |-> <<"output">>,
            grads |-> << <<"input">>, <<>> >>])
IndexPutFirstAxis ==
  Function([formals |-> <<"values", "indices", "first_axis_dim">>,
            steps |-> << Step("output", "scatter", <<"values", "indices", "first_axis_dim">>) >>,
            outs |-> <<"output">>, saved |-> <<"indices">>, restored |-> <<"indices">>,
            needs |-> <<"indices">>, given |-> <<"indices">>, ingrads |-> <<"output">>,
            grads |-> << <<"values">>, <<>>, <<>> >>])
\* mutant: backward forgets the gradient of the residual
IndexFirstAxisOnly ==
  Function([formals |-> <<"input", "indices">>, steps |-> << Step("output", "gather", <<"input", "indices">>) >>,
            outs |-> <<"output", "input">>, saved |-> <<"indices">>, restored |-> <<"indices">>,
            needs |-> <<"indices">>, given |-> <<"indices">>, ingrads |-> <<"output">>,
            grads |-> << <<"input">>, <<>> >>])
IndexFirstAxisResidual ==
  Function([formals |-> <<"input", "indices">>, steps |-> << Step("output", "gather", <<"input", "indices">>) >>,
            outs |-> <<"output", "input">>, saved |-> <<"indices">>, restored |-> <<"indices">>,
            needs |-> <<"indices">>, given |-> <<"indices">>, ingrads |-> <<"output", "input">>,
            grads |-> << <<"input">>, <<>> >>, reuses |-> "input" :> "input"])

index_first_axis(calls, x, indices) == Then(calls, IndexFirstAxis, <<x, indices>>)
index_put_first_axis(calls, x, indices, rows) == Then(calls, IndexPutFirstAxis, <<x, indices, rows>>)
index_first_axis_residual(calls, x, indices) == Then(calls, IndexFirstAxisResidual, <<x, indices>>)

-----------------------------------------------------------------------------
(* The loss.  With inplace_backward its gradient is written over the       *)
(* logits.                                                                 *)

CrossEntropyFormals ==
  <<"logits", "labels", "precomputed_lse", "smoothing", "logit_scale", "lse_square_scale", "ignore_index",
    "inplace_backward", "process_group">>

cross_entropy_fwd_kernel ==
  << Step("lse", "logsumexp", <<"logits", "logit_scale">>),
     Step("losses", "cross_entropy", <<"logits", "labels", "smoothing", "logit_scale", "lse_square_scale", "ignore_index">>),
     Step("z_losses", "z_loss", <<"lse", "lse_square_scale">>) >>
\* What the gradient of the logits depends on.
cross_entropy_bwd_kernel ==
  <<"logits", "lse", "labels", "smoothing", "logit_scale", "lse_square_scale", "ignore_index">>

CrossEntropyLoss(in) ==
  LET arg == Bind(CrossEntropyFormals, in)
      saved == <<"logits", "lse", "labels">>
      attrs == {"smoothing", "logit_scale", "lse_square_scale", "ignore_index"}
  IN  Function([formals |-> CrossEntropyFormals,
                steps |-> cross_entropy_fwd_kernel,
                outs |-> <<"losses", "z_losses">>, saved |-> saved, restored |-> saved, attrs |-> attrs,
                needs |-> cross_entropy_bwd_kernel, given |-> cross_entropy_bwd_kernel, ingrads |-> <<"losses">>,
                grads |-> << <<"logits">> >> \o None(9),
                clobbers |-> IF IsPassed(arg.inplace_backward) THEN {"logits"} ELSE {}])

\* CrossEntropyLoss of losses/cross_entropy.py, with reduction "mean".
cross_entropy(calls, logits, labels, inplace_backward) ==
  LET in == <<logits, labels, NoTensor, Given("smoothing"), Given("logit_scale"), Given("lse_square_scale"),
              Given("ignore_index"), inplace_backward, NoTensor>>
      loss == Then(calls, CrossEntropyLoss(in), in)
  IN  Then(loss, TorchOp("mean_loss", <<"losses", "target">>, 1), <<Out(loss, "losses"), labels>>)

-----------------------------------------------------------------------------
(* ops/activations.py                                                      *)

SwiGLUFunction ==
  Function([formals |-> <<"x", "y">>, steps |-> << Step("out", "swiglu", <<"x", "y">>) >>, outs |-> <<"out">>,
            saved |-> <<"x", "y">>, restored |-> <<"x", "y">>, needs |-> <<"x", "y">>, given |-> <<"x", "y">>,
            ingrads |-> <<"out">>, grads |-> Of(<<"x", "y">>)])
=============================================================================
