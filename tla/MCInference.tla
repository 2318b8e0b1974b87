---------------------------- MODULE MCInference ----------------------------
(***************************************************************************)
(* The inference components in one run.  They share no state, so the run   *)
(* explores either a decoding session, an incremental attention step or    *)
(* the launches of one varlen forward pass, and the states add up.         *)
(***************************************************************************)
EXTENDS Generation, SparseInterface, VarlenSchedule

InferenceInit == Init /\ SparseInit /\ VarlenInit

InferenceNext ==
  \/ stage = "start" /\ phase = "call" /\ Next /\ UNCHANGED <<sparseVars, varlenVars>>
  \/ calls = 0 /\ phase = "call" /\ SparseNext /\ UNCHANGED <<vars, varlenVars>>
  \/ calls = 0 /\ stage = "start" /\ VarlenNext /\ UNCHANGED <<vars, sparseVars>>

InferenceSpec == InferenceInit /\ [][InferenceNext]_<<vars, sparseVars, varlenVars>>

\* For all masks: splits in use, reused metadata, a batch without queries; heads
\* outside the tile, without splits; a tail of heads in L2; more batches than one
\* CTA of the prepare kernel sorts; no keys at all; as many splits as fit.
VarlenLaunches ==
  LET Masked(q, k, h_k, gqa, pack, num_splits, num_sm, metadata) ==
        {[q |-> q, k |-> k, h_k |-> h_k, gqa |-> gqa, pack |-> pack, mask |-> m,
          left |-> 2, right |-> 1, num_splits |-> num_splits, num_sm |-> num_sm,
          metadata |-> metadata] : m \in {"none", "causal", "local"}}
  IN  UNION {Masked(<<2, 0, 3>>, <<5, 4, 7>>, 1, 2, TRUE, 3, 3, TRUE),
             Masked(<<2, 0, 3>>, <<5, 4, 7>>, 2, 2, FALSE, 1, 2, TRUE),
             Masked(<<3, 1, 1>>, <<2, 9, 4>>, 3, 1, TRUE, 4, 2, FALSE),
             Masked(<<1, 2, 3, 1, 4>>, <<3, 0, 2, 8, 4>>, 1, 1, TRUE, 3, 2, FALSE),
             Masked(<<3, 1>>, <<0, 0>>, 1, 2, TRUE, 3, 2, FALSE),
             Masked(<<2, 0, 0, 1>>, <<8, 2, 0, 1>>, 1, 1, TRUE, 4, 7, FALSE)}
=============================================================================
