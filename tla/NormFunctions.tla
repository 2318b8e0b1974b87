---------------------------- MODULE NormFunctions ---------------------------
(***************************************************************************)
(* The autograd Functions of the norm layers, each with the dropout and    *)
(* the residual sum before the norm: the Triton kernels, and the CUDA ones.*)
(* What a Function saves, returns and shares depends on the arguments it   *)
(* is called with, so it takes them as a parameter.                        *)
(***************************************************************************)
EXTENDS AutogradFunction

Normalize(rms) == IF rms THEN "rms_norm" ELSE "layer_norm"

-----------------------------------------------------------------------------
(* ops/triton/layer_norm.py                                                *)

LayerNormFormals ==
  <<"x", "weight", "bias", "residual", "x1", "weight1", "bias1", "eps", "dropout_p", "rowscale", "prenorm",
    "residual_in_fp32", "zero_centered_weight", "is_rms_norm", "return_dropout_mask", "out_dtype", "out",
    "residual_out">>

\* The forward kernel returns the sum before the norm in memory of its own
\* when it differs from x.
OwnResidual(arg) == \/ IsPassed(arg.residual) \/ IsPassed(arg.residual_in_fp32) \/ IsPassed(arg.dropout_p)
                    \/ IsPassed(arg.rowscale) \/ IsPassed(arg.x1)

_layer_norm_fwd_kernel(arg, sum) ==
  LET norm == Normalize(IsPassed(arg.is_rms_norm))
      branches == IF IsPassed(arg.x1)
                  THEN << Step("dropped1", "dropout", <<"x1", "dropout_p">>),
                          Step("branches", "add", <<"dropped", "dropped1">>) >>
                  ELSE << Step("branches", "add", <<"dropped", "x1">>) >>
  IN  << Step("scaled", "scale", <<"x", "rowscale">>),
         Step("dropped", "dropout", <<"scaled", "dropout_p">>) >>
      \o branches
      \o If(OwnResidual(arg), << Step(sum, "add", <<"branches", "residual">>) >>)
      \o If(~IsPassed(arg.is_rms_norm), << Step("mean", "mean", <<sum>>) >>)
      \o << Step("rstd", "rstd", <<sum, "eps">>),
            Step("y", norm, <<sum, "weight", "bias", "eps">>) >>
      \o If(IsPassed(arg.weight1), << Step("y1", norm, <<sum, "weight1", "bias1", "eps">>) >>)
_layer_norm_fwd_impl(arg, sum) ==
  << Step("seeds", "seeds", <<"dropout_p">>) >> \o _layer_norm_fwd_kernel(arg, sum)

\* What the gradients depend on, x being the sum: dropout is drawn again from
\* its seeds.
_layer_norm_bwd_kernel(x) ==
  <<x, "weight", "bias", "weight1", "bias1", "rowscale", "seeds", "mean", "rstd", "eps", "dropout_p">>

\* The gradients of the residual and of x1 are that of x when they are equal.
_layer_norm_bwd_shares(arg) ==
  (IF IsPassed(arg.residual) /\ ~IsPassed(arg.residual_in_fp32) /\ ~IsPassed(arg.dropout_p) /\ ~IsPassed(arg.rowscale)
   THEN "residual" :> "x" ELSE NoMap)
  @@ (IF IsPassed(arg.x1) /\ ~IsPassed(arg.dropout_p) THEN "x1" :> "x" ELSE NoMap)

LayerNormFn(in) ==
  LET arg == Bind(LayerNormFormals, in)
      sum == IF OwnResidual(arg) THEN "new_residual" ELSE "x"
      outs == <<"y">> \o If(IsPassed(arg.weight1), <<"y1">>) \o If(IsPassed(arg.prenorm), <<sum>>)
      rest == <<"weight", "bias", "weight1", "bias1", "rowscale", "seeds", "mean", "rstd">>
  IN  Function([formals |-> LayerNormFormals,
                steps |-> _layer_norm_fwd_impl(arg, sum), outs |-> outs,
                saved |-> <<sum>> \o rest, restored |-> <<"x">> \o rest, attrs |-> {"eps", "dropout_p"},
                needs |-> _layer_norm_bwd_kernel(sum), given |-> _layer_norm_bwd_kernel("x"),
                ingrads |-> outs,
                grads |-> Of(<<"x", "weight", "bias">>)
                          \o << If(IsPassed(arg.residual), <<"residual">>), If(IsPassed(arg.x1), <<"x1">>) >>
                          \o Of(<<"weight1", "bias1">>) \o None(11),
                shares |-> _layer_norm_bwd_shares(arg)])

NormDefaults ==
  [residual |-> NoTensor, x1 |-> NoTensor, weight1 |-> NoTensor, bias1 |-> NoTensor, eps |-> Given("eps"),
   dropout_p |-> Zero, rowscale |-> NoTensor, prenorm |-> False, residual_in_fp32 |-> False,
   is_rms_norm |-> False]

layer_norm_fn(calls, x, weight, bias, kwargs) ==
  LET o == kwargs @@ NormDefaults
      in == <<x, weight, bias, o.residual, o.x1, o.weight1, o.bias1, o.eps, o.dropout_p, o.rowscale, o.prenorm,
              o.residual_in_fp32, False, o.is_rms_norm, False, NoTensor, NoTensor, NoTensor>>
  IN  Then(calls, LayerNormFn(in), in)
rms_norm_fn(calls, x, weight, bias, kwargs) ==
  layer_norm_fn(calls, x, weight, bias, [is_rms_norm |-> True] @@ kwargs)

LayerNormLinearFormals ==
  <<"x", "norm_weight", "norm_bias", "linear_weight", "linear_bias", "residual", "eps", "prenorm",
    "residual_in_fp32", "is_rms_norm">>

\* Norm and linear in one: backward recomputes the normalized input y from
\* the saved sum.
LayerNormLinearFn(in) ==
  LET arg == Bind(LayerNormLinearFormals, in)
      own == IsPassed(arg.residual) \/ IsPassed(arg.residual_in_fp32)
      sum == IF own THEN "new_residual" ELSE "x"
      norm == Normalize(IsPassed(arg.is_rms_norm))
      outs == <<"out">> \o If(IsPassed(arg.prenorm), <<sum>>)
      saved == <<"norm_weight", "norm_bias", "linear_weight", "mean", "rstd">>
  IN  Function([formals |-> LayerNormLinearFormals,
                steps |-> If(own, << Step(sum, "add", <<"x", "residual">>) >>)
                          \o If(~IsPassed(arg.is_rms_norm), << Step("mean", "mean", <<sum>>) >>)
                          \o << Step("rstd", "rstd", <<sum, "eps">>),
                                Step("y", norm, <<sum, "norm_weight", "norm_bias", "eps">>),
                                Step("out", "linear", <<"y", "linear_weight", "linear_bias">>) >>,
                outs |-> outs,
                saved |-> <<sum>> \o saved, restored |-> <<"x">> \o saved, attrs |-> {"eps"},
                redo |-> << Step("y", norm, <<"x", "norm_weight", "norm_bias", "eps">>) >>,
                needs |-> <<sum, "y", "eps">> \o saved, given |-> <<"x", "y", "eps">> \o saved,
                ingrads |-> outs,
                grads |-> Of(<<"x", "norm_weight", "norm_bias", "linear_weight", "linear_bias">>)
                          \o << If(IsPassed(arg.residual), <<"residual">>) >> \o None(4),
                shares |-> IF IsPassed(arg.residual) /\ ~IsPassed(arg.residual_in_fp32)
                           THEN "residual" :> "x" ELSE NoMap])

layer_norm_linear_fn(calls, x, norm, linear, residual, prenorm, rms) ==
  LET in == <<x, norm[1], norm[2], linear[1], linear[2], residual, Given("eps"), prenorm, False, rms>>
  IN  Then(calls, LayerNormLinearFn(in), in)

-----------------------------------------------------------------------------
(* ops/layer_norm.py and ops/rms_norm.py: the CUDA kernels.                *)

\* What dropout_add_ln_fwd computes: x, the sum, is x0 itself when nothing
\* is done to it.
NormForward(arg, sum, z, gamma, beta) ==
  << Step("mu", "mean", <<sum>>), Step("rsigma", "rstd", <<sum, "epsilon">>),
     Step(z, Normalize(IsPassed(arg.is_rms_norm)), <<sum, gamma, beta, "epsilon">>) >>
_dropout_add_layer_norm_forward(arg, sum) ==
  << Step("dmask", "dmask", <<"dropout_p">>),
     Step("scaled", "scale", <<"x0", "rowscale">>),
     Step("colscaled", "scale", <<"scaled", "colscale">>),
     Step("dropped", "dropout", <<"colscaled", "dropout_p">>) >>
  \o If(sum # "x0", << Step(sum, "add", <<"dropped", "residual">>) >>)
  \o NormForward(arg, sum, "z", "gamma", "beta")

\* What its gradients depend on; x0 is only there for that of colscale.
_dropout_add_layer_norm_backward(x, x0) ==
  <<x, x0, "dmask", "mu", "rsigma", "gamma", "rowscale", "colscale", "dropout_p">>

DropoutAddFormals ==
  <<"x0", "residual", "gamma", "beta", "rowscale", "colscale", "dropout_p", "epsilon", "residual_in_fp32",
    "prenorm", "is_rms_norm", "return_dmask">>

DropoutAddLayerNormFn(in) ==
  LET arg == Bind(DropoutAddFormals, in)
      own == \E x \in {"residual", "rowscale", "colscale", "dropout_p", "residual_in_fp32"} : IsPassed(arg[x])
      sum == IF own THEN "x" ELSE "x0"
      outs == <<"z">> \o If(IsPassed(arg.prenorm), <<sum>>)
      x0_saved == IF IsPassed(arg.colscale) THEN "x0" ELSE "none"
      rest == <<"dmask", "gamma", "mu", "rsigma", "rowscale", "colscale">>
  IN  Function([formals |-> DropoutAddFormals,
                steps |-> _dropout_add_layer_norm_forward(arg, sum),
                outs |-> outs,
                saved |-> <<sum, x0_saved>> \o rest, restored |-> <<"x", "x0">> \o rest,
                attrs |-> {"dropout_p"},
                needs |-> _dropout_add_layer_norm_backward(sum, x0_saved),
                given |-> _dropout_add_layer_norm_backward("x", "x0"),
                ingrads |-> outs,
                grads |-> << <<"x0">>, If(IsPassed(arg.residual), <<"residual">>), <<"gamma">>,
                             If(IsPassed(arg.beta), <<"beta">>), <<>>,
                             If(IsPassed(arg.colscale), <<"colscale">>) >> \o None(6)])

SubsetFormals ==
  <<"x0", "residual", "gamma", "beta", "colscale", "x0_subset", "out_subset", "dropout_p", "epsilon",
    "rowscale_const", "out_numrows", "residual_in_fp32", "prenorm", "is_rms_norm", "return_dmask">>

\* Only the rows of x0_subset are added to the residual, and only those of
\* out_subset are normalized.
_dropout_add_layer_norm_subset_forward(arg) ==
  << Step("dmask", "dmask", <<"dropout_p">>),
     Step("scaled", "scale", <<"x0", "rowscale_const">>),
     Step("colscaled", "scale", <<"scaled", "colscale">>),
     Step("dropped", "dropout", <<"colscaled", "dropout_p">>),
     Step("rows", "put_rows", <<"dropped", "x0_subset">>),
     Step("x", "add", <<"rows", "residual">>) >>
  \o NormForward(arg, "x", "normed", "gamma", "beta")
  \o << Step("z", "rows", <<"normed", "out_subset">>) >>
_dropout_add_layer_norm_subset_backward(x0) ==
  <<"x", x0, "dmask", "mu", "rsigma", "gamma", "colscale", "x0_subset", "out_subset", "dropout_p",
    "rowscale_const">>

DropoutAddLayerNormSubsetFn(in) ==
  LET arg == Bind(SubsetFormals, in)
      outs == <<"z">> \o If(IsPassed(arg.prenorm), <<"x">>)
      x0_saved == IF IsPassed(arg.colscale) THEN "x0" ELSE "none"
      rest == <<"dmask", "gamma", "mu", "rsigma", "colscale", "x0_subset", "out_subset">>
  IN  Function([formals |-> SubsetFormals,
                steps |-> _dropout_add_layer_norm_subset_forward(arg),
                outs |-> outs,
                saved |-> <<"x", x0_saved>> \o rest, restored |-> <<"x", "x0">> \o rest,
                attrs |-> {"dropout_p", "rowscale_const"},
                needs |-> _dropout_add_layer_norm_subset_backward(x0_saved),
                given |-> _dropout_add_layer_norm_subset_backward("x0"),
                ingrads |-> outs,
                grads |-> << <<"x0">>, If(IsPassed(arg.residual), <<"residual">>), <<"gamma">>,
                             If(IsPassed(arg.beta), <<"beta">>), If(IsPassed(arg.colscale), <<"colscale">>) >>
                          \o None(10)])

ParallelResidualFormals ==
  <<"x0", "x1", "residual", "gamma0", "beta0", "gamma1", "beta1", "dropout_p", "epsilon", "residual_in_fp32",
    "prenorm", "is_rms_norm", "return_dmask">>

_dropout_add_layer_norm_parallel_residual_forward(arg, sum) ==
  << Step("dmask0", "dmask", <<"dropout_p">>), Step("dmask1", "dmask", <<"dropout_p">>),
     Step("dropped0", "dropout", <<"x0", "dropout_p">>) >>
  \o If(IsPassed(arg.x1), << Step("dropped1", "dropout", <<"x1", "dropout_p">>) >>)
  \o << Step("branches", "add", <<"dropped0", IF IsPassed(arg.x1) THEN "dropped1" ELSE "x1">>) >>
  \o If(sum # "x0", << Step(sum, "add", <<"branches", "residual">>) >>)
  \o NormForward(arg, sum, "z0", "gamma0", "beta0")
  \o If(IsPassed(arg.gamma1),
        << Step("z1", Normalize(IsPassed(arg.is_rms_norm)), <<sum, "gamma1", "beta1", "epsilon">>) >>)
_dropout_add_layer_norm_parallel_residual_backward(x) ==
  <<x, "dmask0", "dmask1", "mu", "rsigma", "gamma0", "gamma1", "dropout_p">>

DropoutAddLayerNormParallelResidualFn(in) ==
  LET arg == Bind(ParallelResidualFormals, in)
      own == \E x \in {"x1", "residual", "dropout_p", "residual_in_fp32"} : IsPassed(arg[x])
      sum == IF own THEN "x" ELSE "x0"
      outs == <<"z0", "z1">> \o If(IsPassed(arg.prenorm), <<sum>>)
      rest == <<"dmask0", "dmask1", "gamma0", "gamma1", "mu", "rsigma">>
      beta == IsPassed(arg.beta0)
  IN  Function([formals |-> ParallelResidualFormals,
                steps |-> _dropout_add_layer_norm_parallel_residual_forward(arg, sum),
                outs |-> outs,
                saved |-> <<sum>> \o rest, restored |-> <<"x">> \o rest, attrs |-> {"dropout_p"},
                needs |-> _dropout_add_layer_norm_parallel_residual_backward(sum),
                given |-> _dropout_add_layer_norm_parallel_residual_backward("x"),
                ingrads |-> outs,
                grads |-> << <<"x0">>, If(IsPassed(arg.x1), <<"x1">>), If(IsPassed(arg.residual), <<"residual">>),
                             <<"gamma0">>, If(beta, <<"beta0">>), If(IsPassed(arg.gamma1), <<"gamma1">>),
                             If(beta /\ IsPassed(arg.gamma1), <<"beta1">>) >> \o None(6)])

\* The functions that apply them; rms is FALSE in layer_norm.py, TRUE in
\* rms_norm.py.
dropout_add_layer_norm(calls, x0, residual, norm, dropout_p, scales, prenorm, rms) ==
  LET in == <<x0, residual, norm[1], norm[2], scales[1], scales[2], dropout_p, Given("eps"), False,
              prenorm, rms, False>>
  IN  Then(calls, DropoutAddLayerNormFn(in), in)
dropout_add_layer_norm_subset(calls, x0, residual, norm, dropout_p, subset, prenorm, rms) ==
  LET in == <<x0, residual, norm[1], norm[2], subset[1], subset[2], subset[3], dropout_p, Given("eps"),
              subset[4], Given("out_numrows"), False, prenorm, rms, False>>
  IN  Then(calls, DropoutAddLayerNormSubsetFn(in), in)
dropout_add_layer_norm_parallel_residual(calls, x0, x1, residual, norm0, norm1, dropout_p, prenorm, rms) ==
  LET in == <<x0, x1, residual, norm0[1], norm0[2], norm1[1], norm1[2], dropout_p, Given("eps"), False,
              prenorm, rms, False>>
  IN  Then(calls, DropoutAddLayerNormParallelResidualFn(in), in)
=============================================================================
