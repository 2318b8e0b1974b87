------------------------ MODULE MCMainloopFwdKernels ------------------------
(***************************************************************************)
(* The kernels of two warpgroups in one run: taking turns with two stages, *)
(* with a single stage (sparse blocks of 256), or without turns (hdim 192  *)
(* and 256).                                                               *)
(***************************************************************************)
EXTENDS MCLaunches

CONSTANT NoBlock

VARIABLES kernel, launch, producer, wg, kpipe, vpipe, query, named, barrier_O, smem_o, out

vars == <<kernel, launch, producer, wg, kpipe, vpipe, query, named, barrier_O, smem_o, out>>

TwoStages ==
  INSTANCE MainloopFwdRefinement WITH
    NumMmaWarpGroups <- 2, kStages <- 2, UseSchedulerBarrier <- TRUE, Launches <- AllLaunches

OneStage ==
  INSTANCE MainloopFwdRefinement WITH
    NumMmaWarpGroups <- 2, kStages <- 1, UseSchedulerBarrier <- TRUE, Launches <- AllLaunches

Unscheduled ==
  INSTANCE MainloopFwdRefinement WITH
    NumMmaWarpGroups <- 2, kStages <- 2, UseSchedulerBarrier <- FALSE, Launches <- AllLaunches

KernelsInit ==
  \/ kernel = "two_stages" /\ TwoStages!Init
  \/ kernel = "one_stage" /\ OneStage!Init
  \/ kernel = "unscheduled" /\ Unscheduled!Init

KernelsNext ==
  /\ \/ kernel = "two_stages" /\ TwoStages!Next
     \/ kernel = "one_stage" /\ OneStage!Next
     \/ kernel = "unscheduled" /\ Unscheduled!Next
  /\ UNCHANGED kernel

KernelsSpec == KernelsInit /\ [][KernelsNext]_vars /\ WF_vars(KernelsNext)

Work ==
  [l \in AllLaunches |-> [t \in 1 .. Len(l.tiles) |-> TwoStages!Attention(l, t)]]

Cta == INSTANCE CtaAttention WITH Shares <- 0 .. 1, work <- Work[launch]

-----------------------------------------------------------------------------
(* Whoever waits for whom: with a single stage, where K of the next block  *)
(* and V of this one compete for the same buffer, and without turns, where *)
(* warpgroups overtake each other, shared memory is used safely.           *)
KernelsSmemSafe ==
  \/ kernel = "two_stages" /\ TwoStages!SmemSafe
  \/ kernel = "one_stage" /\ OneStage!SmemSafe
  \/ kernel = "unscheduled" /\ Unscheduled!SmemSafe

(* All of them implement the attention of a CTA, which says nothing of     *)
(* stages or turns.                                                        *)
KernelsImplementCtaAttention == Cta!Spec
=============================================================================
