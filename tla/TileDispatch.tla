---------------------------- MODULE TileDispatch ----------------------------
(***************************************************************************)
(* What the tile schedulers promise a launch of the forward kernel: every  *)
(* share of every tile is computed exactly once, by whichever CTA, and the *)
(* next launch on the stream begins with nothing computed.                 *)
(***************************************************************************)
EXTENDS Naturals, Sequences

CONSTANT Shares  (* the parts of a tile's output, one per MMA warpgroup    *)

VARIABLES
  totals,  (* the number of tiles of each launch of the stream (given)     *)
  run,     (* the launch that is running                                   *)
  out      (* out[g][t]: how often share g of tile t has been computed     *)

vars == <<totals, run, out>>

TilesOf(r) == 0 .. totals[r] - 1

Init ==
  /\ run = 1
  /\ out = [g \in Shares |-> [t \in TilesOf(1) |-> 0]]

Compute(g, t) ==
  /\ out[g][t] = 0
  /\ out' = [out EXCEPT ![g][t] = 1]
  /\ UNCHANGED <<totals, run>>

NextLaunch ==
  /\ \A g \in Shares, t \in TilesOf(run) : out[g][t] = 1
  /\ run < Len(totals)
  /\ run' = run + 1
  /\ out' = [g \in Shares |-> [t \in TilesOf(run + 1) |-> 0]]
  /\ UNCHANGED totals

Next == NextLaunch \/ \E g \in Shares, t \in TilesOf(run) : Compute(g, t)

(* Without the promise that a launch goes on.                              *)
Safety == Init /\ [][Next]_vars

Spec == Safety /\ WF_vars(Next)

=============================================================================
