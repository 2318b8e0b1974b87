---------------------------- MODULE Transformer -----------------------------
(***************************************************************************)
(* The modules a transformer is made of: attention, MLP, and the blocks    *)
(* that join them.  Each adds its calls to a program.  Layer l of a model  *)
(* has the options c; its parameters are those of layer l.  Training, one  *)
(* process, no checkpointing, no depthwise convolution.                    *)
(***************************************************************************)
EXTENDS AttentionFunctions, LayerFunctions

Weights(l, name, biased) ==
  <<Param(l, name \o ".weight"), IF biased THEN Param(l, name \o ".bias") ELSE NoTensor>>
Linear(calls, x, l, name) ==
  LET w == Weights(l, name, TRUE)
  IN  linear(calls, x, w[1], w[2])

\* nn.Linear with an output that is used in slices.
PackedLinear(name, parts) ==
  Function([formals |-> <<"x", "weight", "bias">>, parts |-> name :> parts,
            steps |-> [i \in DOMAIN parts |-> Step(parts[i], "linear " \o parts[i], <<"x", "weight", "bias">>)],
            outs |-> <<name>>, saved |-> <<"x", "weight">>, restored |-> <<"x", "weight">>,
            needs |-> <<"x", "weight">>, given |-> <<"x", "weight">>,
            ingrads |-> <<name>>, grads |-> Of(<<"x", "weight", "bias">>)])
LinearTo(calls, x, l, name, packed, parts) == Then(calls, PackedLinear(packed, parts), <<x>> \o Weights(l, name, TRUE))

-----------------------------------------------------------------------------
(* modules/mha.py                                                          *)

\* The keyword arguments of the inner attention.
AttentionKwargs(c) ==
  [dropout_p |-> c.attn_p, causal |-> c.causal, window_size |-> c.window, alibi_slopes |-> c.alibi]

\* mask: how the padding is given, [] (none), the lengths of varlen, or a
\* key_padding_mask.
FlashSelfAttention(calls, qkv, c, mask) ==
  IF mask = <<>> THEN flash_attn_qkvpacked_func(calls, qkv, AttentionKwargs(c))
  ELSE flash_attn_varlen_qkvpacked_func(calls, qkv, mask[1], mask[3], AttentionKwargs(c))
FlashCrossAttention(calls, q, kv, c, mask) ==
  IF mask = <<>> THEN flash_attn_kvpacked_func(calls, q, kv, AttentionKwargs(c))
  ELSE flash_attn_varlen_kvpacked_func(calls, q, kv, mask, AttentionKwargs(c))

\* softmax(q k^T scale + mask) v, dropout on the weights, in torch.
TorchAttention(lengths) ==
  LET formals == <<"q", "k", "v">> \o lengths
                 \o <<"dropout_p", "softmax_scale", "causal", "window_size", "softcap", "alibi_slopes">>
      args == [i \in DOMAIN formals |-> IF formals[i] = "softmax_scale" THEN "scale" ELSE formals[i]]
  IN  Function([formals |-> formals,
                steps |-> << Step("scale", "or_default", <<"softmax_scale">>), Step("out", "attention", args) >>,
                outs |-> <<"out">>, saved |-> args, restored |-> args, needs |-> args, given |-> args,
                ingrads |-> <<"out">>,
                grads |-> [i \in DOMAIN formals |-> If(i <= 3, <<formals[i]>>)]])
AttendTo(calls, q, k, v, c, mask) ==
  Then(calls, TorchAttention([i \in DOMAIN mask |-> "key_padding_mask"]),
       <<q, k, v>> \o mask \o <<c.attn_p, NoTensor, c.causal, Given("(-1, -1)"), Zero, NoTensor>>)

SelfAttention(calls, qkv, c, mask) ==
  LET s == Then(calls, TorchSplit(<<"q", "k", "v">>, "q" :> <<"q">> @@ "k" :> <<"k">> @@ "v" :> <<"v">>), <<qkv>>)
  IN  AttendTo(s, Out(s, "q"), Out(s, "k"), Out(s, "v"), c, mask)
CrossAttention(calls, q, kv, c, mask) ==
  LET s == Then(calls, TorchSplit(<<"k", "v">>, "k" :> <<"k">> @@ "v" :> <<"v">>), <<kv>>)
  IN  AttendTo(s, q, Out(s, "k"), Out(s, "v"), c, mask)

\* RotaryEmbedding: with scale_base (xpos) keys have tables of their own.
Tables(c) ==
  <<Given("cos"), Given("sin")>>
  \o IF c.rotary = "xpos" THEN <<Given("cos_k"), Given("sin_k")>> ELSE <<NoTensor, NoTensor>>
KeyTableOfQueries(c, i) == Tables(c)[i]    \* mutant: keys are rotated like queries
KeyTable(c, i) == IF c.rotary = "xpos" THEN Tables(c)[i + 2] ELSE Tables(c)[i]
RotaryQKV(calls, qkv, c) ==
  IF c.rotary = "none" THEN [calls |-> calls, qkv |-> qkv]
  ELSE LET r == apply_rotary_emb_qkv_(calls, qkv, Tables(c)) IN [calls |-> r, qkv |-> Out(r, "qkv")]
RotaryQandKV(calls, q, kv, c) ==
  IF c.rotary = "none" THEN [calls |-> calls, q |-> q, kv |-> kv]
  ELSE LET rq == apply_rotary_emb(calls, q, Tables(c)[1], Tables(c)[2], True)
           rk == apply_rotary_emb_kv_(rq, kv, KeyTable(c, 1), KeyTable(c, 2))
       IN  [calls |-> rk, q |-> Out(rq, "x"), kv |-> Out(rk, "kv")]

\* MHA.forward; x_kv is NoTensor or what a cross-attention layer attends to.
MHA(calls, x, x_kv, l, c, mask) ==
  LET cross == l \in c.cross_attn
      qkv == LinearTo(calls, x, l, "Wqkv", "qkv", <<"q", "k", "v">>)
      rotated == RotaryQKV(qkv, Out(qkv, "qkv"), c)
      own == IF c.flash THEN FlashSelfAttention(rotated.calls, rotated.qkv, c, mask)
             ELSE SelfAttention(rotated.calls, rotated.qkv, c, mask)
      q == Linear(calls, x, l, "Wq")
      kv == LinearTo(q, IF IsPassed(x_kv) THEN x_kv ELSE x, l, "Wkv", "kv", <<"k", "v">>)
      parts == Then(qkv, TorchSplit(<<"q", "k", "v">>, "q" :> <<"q">> @@ "kv" :> <<"k", "v">>), <<Out(qkv, "qkv")>>)
      two == IF cross THEN [calls |-> kv, q |-> Out(q, "out"), kv |-> Out(kv, "kv")]
             ELSE RotaryQandKV(parts, Out(parts, "q"), Out(parts, "kv"), c)
      other == IF c.flash THEN FlashCrossAttention(two.calls, two.q, two.kv, c, mask)
               ELSE CrossAttention(two.calls, two.q, two.kv, c, mask)
      context == IF ~cross /\ ~c.mqa THEN own ELSE other
  IN  Linear(context, Out(context, "out"), l, "out_proj")

-----------------------------------------------------------------------------
(* modules/mlp.py, ops/fused_dense.py                                      *)

\* F.relu(inplace=True)
InplaceRelu ==
  Function([formals |-> <<"out">>, steps |-> << Step("out", "relu", <<"out">>) >>, outs |-> <<"out">>,
            saved |-> <<"out">>, restored |-> <<"out">>, needs |-> <<"out">>, given |-> <<"out">>,
            ingrads |-> <<"out">>, grads |-> << <<"out">> >>])
Activation(calls, y, name) == IF name = "relu" THEN Then(calls, InplaceRelu, <<y>>) ELSE unary(calls, name, y)

Mlp(calls, x, l, activation) ==
  LET fc1 == Linear(calls, x, l, "fc1")
      act == Activation(fc1, Out(fc1, "out"), activation)
  IN  Linear(act, Out(act, "out"), l, "fc2")

\* The second half of fc1 is the gate.
GatedMlp(calls, x, l, activation) ==
  LET fc1 == LinearTo(calls, x, l, "fc1", "y_gate", <<"y", "gate">>)
      s == Then(fc1, TorchSplit(<<"y", "gate">>, "y" :> <<"y">> @@ "gate" :> <<"gate">>), <<Out(fc1, "y_gate")>>)
      act == IF activation = "swiglu" THEN Then(s, SwiGLUFunction, <<Out(s, "gate"), Out(s, "y")>>)
             ELSE Then(s, TorchOp(activation, <<"y", "gate">>, 2), <<Out(s, "y"), Out(s, "gate")>>)
  IN  Linear(act, Out(act, "out"), l, "fc2")

FusedMLP(calls, x, l, c, return_residual) ==
  LET fc1 == Weights(l, "fc1", TRUE)
      fc2 == Weights(l, "fc2", TRUE)
  IN  fused_mlp_func(calls, x, fc1[1], fc2[1], fc1[2], fc2[2], Given(c.activation), return_residual, c.checkpoint_lvl)

Gated == {"glu", "swiglu", "geglu"}

\* The MLP of a block: its output, and the residual it returns (BERT).
MLP(calls, x, l, c, return_residual) ==
  LET plain == IF c.activation \in Gated THEN GatedMlp(calls, x, l, c.activation) ELSE Mlp(calls, x, l, c.activation)
      fused == FusedMLP(calls, x, l, c, IF return_residual THEN True ELSE False)
      dense == Then(calls, FusedDenseSqreluDenseFunc(c.checkpoint_lvl),
                    <<x>> \o Weights(l, "fc1", TRUE) \o Weights(l, "fc2", TRUE) \o <<Given("checkpoint_lvl")>>)
  IN  IF c.fused_dense_sqrelu_dense THEN [calls |-> dense, out |-> Out(dense, "output2"), x |-> x]
      ELSE IF ~c.fused_mlp THEN [calls |-> plain, out |-> Out(plain, "out"), x |-> x]
      ELSE [calls |-> fused, out |-> Out(fused, "output2"), x |-> IF return_residual THEN Out(fused, "x") ELSE x]

-----------------------------------------------------------------------------
(* modules/block.py                                                        *)

rows(calls, x, indices) ==
  Then(calls, TorchOp("gather", <<"input", "indices">>, 1), <<x, Given(indices)>>)

NormWeights(l, name, c) == Weights(l, name, ~c.rms)

\* The norm module: nn.LayerNorm, or RMSNorm (ops/triton/layer_norm.py).
Norm(calls, x, norm, c) ==
  IF c.rms THEN LET n == rms_norm_fn(calls, x, norm[1], norm[2], NoMap) IN [calls |-> n, out |-> Out(n, "y")]
  ELSE LET n == nn_norm(calls, x, norm, False) IN [calls |-> n, out |-> Out(n, "out")]

\* Dropout, StochasticDepth (rowscale), Add, in torch.
DropAdd(calls, x, residual, p, rowscale) ==
  LET d == nn_dropout(calls, x, p)
      s == IF IsPassed(rowscale) THEN Then(d, TorchOp("scale", <<"x", "rowscale">>, 1), <<Out(d, "out"), rowscale>>) ELSE d
  IN  IF IsPassed(residual) THEN add(s, Out(s, "out"), residual) ELSE s

DropAddNorm(calls, x, residual, norm, p, rowscale, c, prenorm) ==
  LET sum == DropAdd(calls, x, residual, p, rowscale)
      normed == Norm(sum, Out(sum, "out"), norm, c)
      kwargs == [residual |-> residual, dropout_p |-> p, rowscale |-> rowscale, prenorm |-> prenorm,
                 residual_in_fp32 |-> IF prenorm = True THEN c.residual_in_fp32 ELSE False,
                 is_rms_norm |-> IF c.rms THEN True ELSE False]
      fused == layer_norm_fn(calls, x, norm[1], norm[2], kwargs)
  IN  IF ~c.fused_dropout_add_ln
      THEN [calls |-> normed.calls, out |-> normed.out, residual |-> Out(sum, "out")]
      ELSE [calls |-> fused, out |-> Out(fused, "y"),
            residual |-> IF OwnResidual(kwargs @@ NormDefaults) THEN Out(fused, "new_residual") ELSE Out(fused, "x")]

\* In the layers of mixer_subset only some rows go on: they attend to all.
Block(calls, hidden, residual, x_kv, l, c, mask) ==
  LET p == <<c.resid_dropout1[l], c.resid_dropout2>>
      norm == <<NormWeights(l, "norm1", c), NormWeights(l, "norm2", c)>>
      pre1 == DropAddNorm(calls, hidden, residual, norm[1], p[1], c.drop_path1[l], c, True)
      queries == rows(pre1.calls, pre1.out, "mixer_subset")
      subset == MHA(queries, Out(queries, "out"), pre1.out, l, c, mask)
      kept == rows(subset, pre1.residual, "mixer_subset")
      all == MHA(pre1.calls, pre1.out, x_kv, l, c, mask)
      preMix == IF l \in c.mixer_subset THEN [calls |-> kept, out |-> Out(subset, "out"), residual |-> Out(kept, "out")]
                ELSE [calls |-> all, out |-> Out(all, "out"), residual |-> pre1.residual]
      pre2 == DropAddNorm(preMix.calls, preMix.out, preMix.residual, norm[2], p[2], c.drop_path2[l], c, True)
      preMlp == MLP(pre2.calls, pre2.out, l, c, FALSE)
      mix == MHA(calls, hidden, x_kv, l, c, mask)
      post1 == DropAddNorm(mix, Out(mix, "out"), hidden, norm[1], p[1], c.drop_path1[l], c, False)
      mlp == MLP(post1.calls, post1.out, l, c, c.return_residual)
      post2 == DropAddNorm(mlp.calls, mlp.out, mlp.x, norm[2], p[2], c.drop_path2[l], c, False)
  IN  IF c.prenorm THEN [calls |-> preMlp.calls, hidden |-> preMlp.out, residual |-> pre2.residual]
      ELSE [calls |-> post2.calls, hidden |-> post2.out, residual |-> NoTensor]

\* The sum of both branches and the residual, and the norm of it that each
\* branch starts from; tied_norm: one norm for both.
TwoBranches(calls, h1, h2, residual, norm1, norm2, p, c, prenorm) ==
  LET d1 == DropAdd(calls, h1, residual, p[1], NoTensor)
      d2 == IF IsPassed(h2) THEN DropAdd(d1, h2, Out(d1, "out"), p[2], NoTensor) ELSE d1
      n1 == Norm(d2, Out(d2, "out"), norm1, c)
      n2 == Norm(n1.calls, Out(d2, "out"), norm2, c)
      kwargs == [residual |-> residual, x1 |-> h2, weight1 |-> norm2[1], bias1 |-> norm2[2], dropout_p |-> p[1],
                 prenorm |-> prenorm, residual_in_fp32 |-> IF prenorm = True THEN c.residual_in_fp32 ELSE False,
                 is_rms_norm |-> IF c.rms THEN True ELSE False]
      fused == layer_norm_fn(calls, h1, norm1[1], norm1[2], kwargs)
      untied == IsPassed(norm2[1])
  IN  IF ~c.fused_dropout_add_ln
      THEN [calls |-> IF untied THEN n2.calls ELSE n1.calls, out1 |-> n1.out,
            out2 |-> IF untied THEN n2.out ELSE n1.out, residual |-> Out(d2, "out")]
      ELSE [calls |-> fused, out1 |-> Out(fused, "y"), out2 |-> Out(fused, IF untied THEN "y1" ELSE "y"),
            residual |-> IF OwnResidual(kwargs @@ NormDefaults) THEN Out(fused, "new_residual") ELSE Out(fused, "x")]

ParallelBlock(calls, h1, h2, residual, l, c, mask) ==
  LET norm2 == IF c.tied_norm THEN <<NoTensor, NoTensor>> ELSE NormWeights(l, "norm2", c)
      start == TwoBranches(calls, h1, h2, residual, NormWeights(l, "norm1", c), norm2,
                           <<c.resid_dropout1[l], c.resid_dropout2>>, c, True)
      mix == MHA(start.calls, start.out1, NoTensor, l, c, mask)
      mlp == MLP(mix, start.out2, l, c, FALSE)
  IN  [calls |-> mlp.calls, hidden |-> Out(mix, "out"), hidden2 |-> mlp.out, residual |-> start.residual]
=============================================================================
