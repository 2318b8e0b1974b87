----------------------- MODULE MainloopFwdRefinement -----------------------
(***************************************************************************)
(* What MainloopFwd implements: CtaAttention as a whole, and TmaRing with  *)
(* each of its two pipelines, although in the loop only the first          *)
(* warpgroup ever waits for a full barrier when the scheduler barriers     *)
(* order the warpgroups.                                                   *)
(***************************************************************************)
EXTENDS MainloopFwd

-----------------------------------------------------------------------------
(* The blocks of tile t of launch l by a definition of its own: with n     *)
(* splits of per = ceil(total / n) blocks, position x is of split x / per. *)

Total(l, t) ==
  IF l.sparse THEN Len(l.table) ELSE Greater(0, l.tiles[t].n_max - l.tiles[t].n_min)

Positions(l, t) ==
  LET tile == l.tiles[t]
      per  == CeilDiv(Total(l, t), NumSplitsActual(tile.split_idx, l.num_splits))
  IN {x \in 0 .. Total(l, t) - 1 : l.Split => x \div per = tile.split_idx % SplitBits}

Ascending(P) ==
  [i \in 1 .. Cardinality(P) |->
     CHOOSE x \in P : Cardinality({y \in P : y < x}) = i - 1]

TileBlocks(l, t) ==
  LET pos == Ascending(Positions(l, t))
      n   == Len(pos)
  IN IF l.sparse
     THEN [i \in 1 .. n |-> l.table[pos[i] + 1]]
     ELSE [i \in 1 .. n |-> l.tiles[t].n_min + pos[n + 1 - i]]

Attention(l, t) ==
  LET blocks == TileBlocks(l, t)
  IN [i \in 1 .. Len(blocks) |->
        [q |-> t, k |-> [tile |-> t, block |-> blocks[i]],
                  v |-> [tile |-> t, block |-> blocks[i]]]]

Work == [l \in Launches |-> [t \in 1 .. Len(l.tiles) |-> Attention(l, t)]]

Cta == INSTANCE CtaAttention WITH Shares <- WarpGroups, work <- Work[launch]

(* The CTA computes every tile's attention exactly once, and does finish   *)
(* all of them: with waits on parities and counts only, K and V of other   *)
(* tiles in flight in the same buffers, and O stored over V.               *)
ImplementsCtaAttention == Cta!Spec

(* Whatever order warps and copies run in, the CTA ends.                   *)
Terminates == <>Finished

-----------------------------------------------------------------------------
(* A pipeline's contents as TmaRing sees them: the ring position each copy *)
(* was issued for.                                                         *)
ByPosition(p) ==
  [p EXCEPT !.load = [s \in Stages |-> IF p.load[s] = NoBlock THEN NoBlock
                                       ELSE [index |-> s, lap |-> p.full[s]]],
            !.data = [s \in Stages |-> IF p.full[s] = 0 THEN NoBlock
                                       ELSE [index |-> s, lap |-> p.full[s] - 1]]]

(* smem_pipe_write and smem_pipe_read serve both pipelines: where each     *)
(* pipeline stands depends on how far the step is.                         *)
WriteK ==
  IF producer.at \in {"load_Q", "wait_O", "load_K", "load_V"}
  THEN Advance(producer.write) ELSE producer.write

WriteV == IF producer.at = "load_V" THEN producer.write_v ELSE producer.write

ReadK(g) ==
  IF wg[g].at \in {"step", "step_end", "last_PV", "last_end"}
  THEN Advance(wg[g].read) ELSE wg[g].read

ReadV(g) ==
  IF wg[g].at \in {"step_PV", "step_softmax", "step_end"} THEN wg[g].read_v ELSE wg[g].read

KRing == INSTANCE TmaRing WITH
           Laps <- Nat, Consumers <- WarpGroups, pipe <- ByPosition(kpipe), write <- WriteK,
           read <- [g \in WarpGroups |-> ReadK(g)],
           reading <- {g \in WarpGroups : ReadingQK(g)}

VRing == INSTANCE TmaRing WITH
           Laps <- Nat, Consumers <- WarpGroups, pipe <- ByPosition(vpipe), write <- WriteV,
           read <- [g \in WarpGroups |-> ReadV(g)],
           reading <- {g \in WarpGroups : \E s \in Stages : ReadingV(g, s)}

(* Both pipelines behave as TmaRing: a gemm begins only on a full stage    *)
(* (even where the code leaves the wait to the first warpgroup), a copy is *)
(* issued only into a released one, nobody releases a stage twice.         *)
PipelinesAreRings == KRing!Spec /\ VRing!Spec
=============================================================================
