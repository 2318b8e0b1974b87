--------------------------- MODULE MCMainloopFwd ---------------------------
(* A kernel with its launches: of every kind, and long enough for turns to *)
(* go round three warpgroups twice.                                        *)
EXTENDS MainloopFwdRefinement, MCLaunches

KernelLaunches == AllLaunches \cup RingLaunches
=============================================================================
