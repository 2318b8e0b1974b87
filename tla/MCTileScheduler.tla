-------------------------- MODULE MCTileScheduler --------------------------
(* Streams of launches for two CTAs: every scheduler, tiles with and       *)
(* without blocks, and launches that share scheduler_metadata.             *)
EXTENDS TileScheduler

L1(scheduler, total, blockless, metadata) ==
  [scheduler |-> scheduler, total |-> total, blockless |-> blockless, metadata |-> metadata]

(* Split, non-causal, causal, varlen and varlen with metadata, each twice. *)
Pairs ==
  {<<L1("single", 2, {1}, FALSE), L1("static", 3, {0}, FALSE)>>,
   <<L1("dynamic", 3, {1}, FALSE), L1("dynamic", 2, {}, FALSE)>>,
   <<L1("varlen", 3, {2}, FALSE), L1("varlen", 2, {}, FALSE)>>,
   <<L1("varlen", 3, {}, TRUE), L1("varlen", 2, {0}, TRUE)>>}

(* The schedulers that hand tiles over, without and with empty tiles.      *)
HandoffLaunches ==
  {<<L1("dynamic", 3, {1}, FALSE)>>, <<L1("varlen", 3, {0}, FALSE)>>}

(* Nothing to compute.                                                     *)
NoTiles == <<L1("static", 0, {}, FALSE)>>

(* The schedulers that hand nothing over, with a tile that has blocks.     *)
NoHandoffLaunches ==
  {<<L1("single", 2, {}, FALSE)>>, <<L1("static", 3, {0}, FALSE)>>}
=============================================================================
