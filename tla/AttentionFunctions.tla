------------------------- MODULE AttentionFunctions -------------------------
(***************************************************************************)
(* The autograd Functions of the two attention interfaces, FA-2 (the first *)
(* part) and FA-3 (FA3 in their names), and the functions that apply them  *)
(* with their defaults.  Head dimensions are multiples of 8 (no padding),  *)
(* attention probabilities are not returned, and no input is quantized.    *)
(***************************************************************************)
EXTENDS AutogradFunction

Kernel == <<"dropout_p", "softmax_scale", "causal", "window_size", "softcap", "alibi_slopes",
            "deterministic">>
KernelAttrs == {"dropout_p", "scale", "causal", "window_size", "softcap", "alibi_slopes", "deterministic"}

\* _flash_attn_forward, and the varlen one: the output depends on everything
\* that masks, scales or drops scores.
_flash_attn_forward(lengths) ==
  LET args == <<"q", "k", "v">> \o lengths
              \o <<"dropout_p", "scale", "causal", "window_size", "softcap", "alibi_slopes">>
  IN  << Step("scale", "or_default", <<"softmax_scale">>),
         Step("rng_state", "rng_state", <<"dropout_p">>),
         Step("out", "attention", args),
         Step("softmax_lse", "logsumexp", args) >>

\* The arguments of _flash_attn_backward that its gradients depend on.
_flash_attn_backward(lengths) ==
  <<"q", "k", "v", "out", "softmax_lse">> \o lengths
  \o <<"dropout_p", "scale", "causal", "window_size", "softcap", "alibi_slopes", "deterministic", "rng_state">>

FlashAttnQKVPackedFunc ==
  LET saved == <<"q", "k", "v", "out", "softmax_lse", "rng_state">>
  IN  Function([formals |-> <<"qkv">> \o Kernel \o <<"return_softmax", "is_grad_enabled">>,
                parts |-> "qkv" :> <<"q", "k", "v">>,
                steps |-> _flash_attn_forward(<<>>), outs |-> <<"out">>,
                saved |-> saved, restored |-> saved, attrs |-> KernelAttrs,
                needs |-> _flash_attn_backward(<<>>), given |-> _flash_attn_backward(<<>>),
                ingrads |-> <<"out">>, grads |-> << <<"q", "k", "v">> >> \o None(9)])

FlashAttnVarlenQKVPackedFunc ==
  LET saved == <<"q", "k", "v", "out", "softmax_lse", "cu_seqlens", "rng_state">>
      lengths == <<"cu_seqlens", "cu_seqlens", "max_seqlen", "max_seqlen">>
  IN  Function([formals |-> <<"qkv", "cu_seqlens", "max_seqlen">> \o Kernel
                            \o <<"return_softmax", "is_grad_enabled">>,
                parts |-> "qkv" :> <<"q", "k", "v">>,
                steps |-> _flash_attn_forward(lengths), outs |-> <<"out">>,
                saved |-> saved, restored |-> saved, attrs |-> KernelAttrs \cup {"max_seqlen"},
                needs |-> _flash_attn_backward(lengths), given |-> _flash_attn_backward(lengths),
                ingrads |-> <<"out">>, grads |-> << <<"q", "k", "v">> >> \o None(11)])

FlashAttnKVPackedFunc ==
  LET saved == <<"q", "k", "v", "out", "softmax_lse", "rng_state">>
  IN  Function([formals |-> <<"q", "kv">> \o Kernel \o <<"return_softmax", "is_grad_enabled">>,
                parts |-> "kv" :> <<"k", "v">>,
                steps |-> _flash_attn_forward(<<>>), outs |-> <<"out">>,
                saved |-> saved, restored |-> saved, attrs |-> KernelAttrs,
                needs |-> _flash_attn_backward(<<>>), given |-> _flash_attn_backward(<<>>),
                ingrads |-> <<"out">>, grads |-> << <<"q">>, <<"k", "v">> >> \o None(9)])

LengthsQK == <<"cu_seqlens_q", "cu_seqlens_k", "max_seqlen_q", "max_seqlen_k">>

FlashAttnVarlenKVPackedFunc ==
  LET saved == <<"q", "k", "v", "out", "softmax_lse", "cu_seqlens_q", "cu_seqlens_k", "rng_state">>
  IN  Function([formals |-> <<"q", "kv">> \o LengthsQK \o Kernel \o <<"return_softmax", "is_grad_enabled">>,
                parts |-> "kv" :> <<"k", "v">>,
                steps |-> _flash_attn_forward(LengthsQK), outs |-> <<"out">>,
                saved |-> saved, restored |-> saved,
                attrs |-> KernelAttrs \cup {"max_seqlen_q", "max_seqlen_k"},
                needs |-> _flash_attn_backward(LengthsQK), given |-> _flash_attn_backward(LengthsQK),
                ingrads |-> <<"out">>, grads |-> << <<"q">>, <<"k", "v">> >> \o None(13)])

FlashAttnFunc ==
  LET saved == <<"q", "k", "v", "out", "softmax_lse", "rng_state">>
  IN  Function([formals |-> <<"q", "k", "v">> \o Kernel \o <<"return_softmax", "is_grad_enabled">>,
                steps |-> _flash_attn_forward(<<>>), outs |-> <<"out">>,
                saved |-> saved, restored |-> saved, attrs |-> KernelAttrs,
                needs |-> _flash_attn_backward(<<>>), given |-> _flash_attn_backward(<<>>),
                ingrads |-> <<"out">>, grads |-> Of(<<"q", "k", "v">>) \o None(9)])

FlashAttnVarlenFunc ==
  LET saved == <<"q", "k", "v", "out", "softmax_lse", "cu_seqlens_q", "cu_seqlens_k", "rng_state">>
  IN  Function([formals |-> <<"q", "k", "v">> \o LengthsQK \o Kernel
                            \o <<"return_softmax", "block_table", "is_grad_enabled">>,
                steps |-> _flash_attn_forward(LengthsQK), outs |-> <<"out">>,
                saved |-> saved, restored |-> saved,
                attrs |-> KernelAttrs \cup {"max_seqlen_q", "max_seqlen_k"},
                needs |-> _flash_attn_backward(LengthsQK), given |-> _flash_attn_backward(LengthsQK),
                ingrads |-> <<"out">>, grads |-> Of(<<"q", "k", "v">>) \o None(14)])

\* The keyword arguments and their defaults.
FlashDefaults ==
  [dropout_p |-> Zero, softmax_scale |-> NoTensor, causal |-> False, window_size |-> Given("(-1, -1)"),
   softcap |-> Zero, alibi_slopes |-> NoTensor, deterministic |-> False]
Positional(o) ==
  <<o.dropout_p, o.softmax_scale, o.causal, o.window_size, o.softcap, o.alibi_slopes, o.deterministic, False>>

flash_attn_qkvpacked_func(calls, qkv, kwargs) ==
  Then(calls, FlashAttnQKVPackedFunc, <<qkv>> \o Positional(kwargs @@ FlashDefaults) \o <<True>>)
flash_attn_kvpacked_func(calls, q, kv, kwargs) ==
  Then(calls, FlashAttnKVPackedFunc, <<q, kv>> \o Positional(kwargs @@ FlashDefaults) \o <<True>>)
flash_attn_func(calls, q, k, v, kwargs) ==
  Then(calls, FlashAttnFunc, <<q, k, v>> \o Positional(kwargs @@ FlashDefaults) \o <<True>>)
flash_attn_varlen_qkvpacked_func(calls, qkv, cu_seqlens, max_seqlen, kwargs) ==
  Then(calls, FlashAttnVarlenQKVPackedFunc,
       <<qkv, cu_seqlens, max_seqlen>> \o Positional(kwargs @@ FlashDefaults) \o <<True>>)
flash_attn_varlen_kvpacked_func(calls, q, kv, lengths, kwargs) ==
  Then(calls, FlashAttnVarlenKVPackedFunc,
       <<q, kv>> \o lengths \o Positional(kwargs @@ FlashDefaults) \o <<True>>)
flash_attn_varlen_func(calls, q, k, v, lengths, kwargs) ==
  Then(calls, FlashAttnVarlenFunc,
       <<q, k, v>> \o lengths \o Positional(kwargs @@ FlashDefaults) \o <<NoTensor, True>>)

-----------------------------------------------------------------------------
(* hopper/flash_attn_interface.py: no dropout, no alibi; qv is None (its   *)
(* gradient does not exist) and so is attention_chunk (backward asserts).  *)

KernelFA3 == <<"window_size", "attention_chunk", "softcap">>
KernelFA3Attrs == {"scale", "causal", "window_size", "attention_chunk", "softcap", "deterministic", "sm_margin"}
LengthsFA3 == <<"cu_seqlens_q", "cu_seqlens_k", "seqused_q", "seqused_k", "max_seqlen_q", "max_seqlen_k">>

_flash_attn_forwardFA3(lengths) ==
  LET args == <<"q", "k", "v">> \o lengths \o <<"scale", "causal", "window_size", "softcap">>
  IN  << Step("scale", "or_default", <<"softmax_scale">>),
         Step("out", "attention", args),
         Step("softmax_lse", "logsumexp", args) >>
_flash_attn_backwardFA3(lengths) ==
  <<"q", "k", "v", "out", "softmax_lse">> \o lengths
  \o <<"scale", "causal", "window_size", "softcap", "deterministic", "sm_margin">>

FlashAttnQKVPackedFuncFA3 ==
  LET saved == <<"q", "k", "v", "out", "softmax_lse">>
  IN  Function([formals |-> <<"qkv", "softmax_scale", "causal", "q_descale", "k_descale", "v_descale">> \o KernelFA3
                            \o <<"deterministic", "num_heads_q", "sm_margin", "return_softmax">>,
                parts |-> "qkv" :> <<"q", "k", "v">>,
                steps |-> _flash_attn_forwardFA3(<<>>), outs |-> <<"out">>,
                saved |-> saved, restored |-> saved, attrs |-> KernelFA3Attrs,
                needs |-> _flash_attn_backwardFA3(<<>>), given |-> _flash_attn_backwardFA3(<<>>),
                ingrads |-> <<"out">>, grads |-> << <<"q", "k", "v">> >> \o None(12)])

OptionsFA3 == <<"softmax_scale", "causal", "qv", "q_descale", "k_descale", "v_descale">> \o KernelFA3
              \o <<"num_splits", "pack_gqa", "deterministic", "sm_margin", "return_softmax">>

FlashAttnFuncFA3 ==
  LET saved == <<"q", "k", "v", "out", "softmax_lse">>
  IN  Function([formals |-> <<"q", "k", "v">> \o OptionsFA3,
                steps |-> _flash_attn_forwardFA3(<<>>), outs |-> <<"out">>,
                saved |-> saved, restored |-> saved, attrs |-> KernelFA3Attrs,
                needs |-> _flash_attn_backwardFA3(<<>>), given |-> _flash_attn_backwardFA3(<<>>),
                ingrads |-> <<"out">>, grads |-> Of(<<"q", "k", "v">>) \o None(14)])

FlashAttnVarlenFuncFA3 ==
  LET saved == <<"q", "k", "v", "out", "softmax_lse", "cu_seqlens_q", "cu_seqlens_k", "seqused_q", "seqused_k">>
  IN  Function([formals |-> <<"q", "k", "v">> \o LengthsFA3 \o OptionsFA3,
                steps |-> _flash_attn_forwardFA3(LengthsFA3), outs |-> <<"out">>,
                saved |-> saved, restored |-> saved,
                attrs |-> KernelFA3Attrs \cup {"max_seqlen_q", "max_seqlen_k"},
                needs |-> _flash_attn_backwardFA3(LengthsFA3), given |-> _flash_attn_backwardFA3(LengthsFA3),
                ingrads |-> <<"out">>, grads |-> Of(<<"q", "k", "v">>) \o None(21)])

DefaultsFA3 ==
  [softmax_scale |-> NoTensor, causal |-> False, window_size |-> Given("(-1, -1)"), softcap |-> Zero,
   num_splits |-> Given("1"), deterministic |-> False, sm_margin |-> Zero, num_heads_q |-> NoTensor]
Descales == <<NoTensor, NoTensor, NoTensor>>
PositionalFA3(o) ==
  <<o.softmax_scale, o.causal, NoTensor>> \o Descales \o <<o.window_size, Zero, o.softcap, o.num_splits, NoTensor,
    o.deterministic, o.sm_margin, False>>

flash_attn_qkvpacked_funcFA3(calls, qkv, kwargs) ==
  LET o == kwargs @@ DefaultsFA3
  IN  Then(calls, FlashAttnQKVPackedFuncFA3,
           <<qkv, o.softmax_scale, o.causal>> \o Descales
           \o <<o.window_size, Zero, o.softcap, o.deterministic, o.num_heads_q, o.sm_margin, False>>)
flash_attn_funcFA3(calls, q, k, v, kwargs) ==
  Then(calls, FlashAttnFuncFA3, <<q, k, v>> \o PositionalFA3(kwargs @@ DefaultsFA3))

\* lengths: cu_seqlens_q, cu_seqlens_k, max_seqlen_q, max_seqlen_k, seqused_q, seqused_k
flash_attn_varlen_funcFA3(calls, q, k, v, lengths, kwargs) ==
  Then(calls, FlashAttnVarlenFuncFA3,
       <<q, k, v, lengths[1], lengths[2], lengths[5], lengths[6], lengths[3], lengths[4]>>
       \o PositionalFA3(kwargs @@ DefaultsFA3))
=============================================================================
