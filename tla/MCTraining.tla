----------------------------- MODULE MCTraining -----------------------------
(***************************************************************************)
(* What training rests on, in one run: a run of the trainer that is        *)
(* stopped and resumed, the backward pass of a model, the launch its       *)
(* attention makes, one CTA of that launch, and one pipeline of a CTA.     *)
(* They share no state, so a behaviour explores one of them and the states *)
(* add up.                                                                 *)
(***************************************************************************)
EXTENDS Training, MCModels, BackwardGrid, MainloopBwd, TmaRing

VARIABLE level

allVars == <<level, trainingVars, modelVars, gridVars, ctaVars, vars>>

Some(S) == CHOOSE x \in S : TRUE

LevelsInit ==
  /\ level \in {"trainer", "model", "launch", "cta", "ring"}
  /\ TrainingInit /\ Init
  /\ ModelInit /\ (level # "model" => config = Some(Config))
  /\ GridInit /\ (level # "launch" => bwd = Some(Backwards))
  /\ CtaInit /\ (level # "cta" => kernel = Some(CtaKernels))

LevelsNext ==
  \/ /\ level = "trainer" /\ TrainingNext
     /\ UNCHANGED <<level, modelVars, gridVars, ctaVars, vars>>
  \/ /\ level = "model" /\ ModelNext
     /\ UNCHANGED <<level, trainingVars, gridVars, ctaVars, vars>>
  \/ /\ level = "launch" /\ GridNext
     /\ UNCHANGED <<level, trainingVars, modelVars, ctaVars, vars>>
  \/ /\ level = "cta" /\ CtaNext
     /\ UNCHANGED <<level, trainingVars, modelVars, gridVars, vars>>
  \/ /\ level = "ring" /\ Next
     /\ UNCHANGED <<level, trainingVars, modelVars, gridVars, ctaVars>>

\* Resident CTAs and the warps of a CTA run on; nothing is asked of the others.
LevelsSpec ==
  LevelsInit /\ [][LevelsNext]_allVars /\ WF_allVars(level \in {"launch", "cta"} /\ LevelsNext)

-----------------------------------------------------------------------------
\* Nine samples on two ranks: one is repeated, the last batch of an epoch
\* is smaller, and the last step of an epoch accumulates one batch of two.
MCShuffle == [e \in 0 .. 2 |-> [i \in 1 .. 9 |-> (2 * i + 5 * e) % 9]]

-----------------------------------------------------------------------------
\* Launches: groups of heads whose additions take turns; a batch without queries
\* and one without keys; windows that leave out Q blocks before, after and
\* between; more queries than keys; a last section of fewer heads; no queries.
Launch(q, k, h, gqa, deterministic, mask, left, right, swizzle, num_sm) ==
  [q |-> q, k |-> k, h |-> h, gqa |-> gqa, deterministic |-> deterministic, mask |-> mask, left |-> left, right |-> right,
   swizzle |-> swizzle, num_sm |-> num_sm]
MCBackwards ==
  { Launch(<<4>>, <<5>>, 2, 2, TRUE, "causal", 0, 0, 2, 2), Launch(<<3, 0>>, <<4, 3>>, 1, 1, TRUE, "causal", 0, 0, 2, 1),
    Launch(<<3>>, <<4>>, 3, 1, TRUE, "causal", 0, 0, 2, 2), Launch(<<5>>, <<3>>, 2, 2, FALSE, "causal", 0, 0, 1, 2),
    Launch(<<6>>, <<6>>, 1, 1, TRUE, "local", 1, 0, 1, 2), Launch(<<2>>, <<7>>, 1, 1, TRUE, "local", 1, 0, 1, 3),
    Launch(<<7>>, <<3>>, 1, 1, TRUE, "local", 0, 1, 1, 2), Launch(<<3, 2>>, <<4, 0>>, 2, 2, TRUE, "none", 0, 0, 1, 2),
    Launch(<<0, 0>>, <<4, 3>>, 2, 1, FALSE, "none", 0, 0, 1, 2) }

\* Kernels: head dimensions up to 128, of 96 (V in registers), 192 and 256.
CtaKernel(wgs, stages, registers, v, slice, epilogue, blocks) ==
  [wgs |-> wgs, kStages_dO |-> stages, kStages_dS |-> stages, Mma_dKV_is_RS |-> registers, Mma_dP_is_RS |-> v,
   Slice_dQKV_Mma |-> slice, epilogue |-> epilogue, blocks |-> blocks]
MCKernels ==
  { CtaKernel(2, 2, TRUE, FALSE, FALSE, "tma", 4), CtaKernel(2, 2, TRUE, TRUE, FALSE, "gqa", 1),
    CtaKernel(3, 1, FALSE, FALSE, FALSE, "varlen", 2), CtaKernel(3, 1, FALSE, FALSE, FALSE, "varlen", 0),
    CtaKernel(2, 1, FALSE, FALSE, TRUE, "gqa", 3) }
=============================================================================
