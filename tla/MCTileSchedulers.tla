-------------------------- MODULE MCTileSchedulers --------------------------
(***************************************************************************)
(* The grids without helper warps and, in variables of their own, those    *)
(* with them.  The second stream begins when the first is over, and one of *)
(* them has no tile, so that their states add up.                          *)
(***************************************************************************)
EXTENDS MCTileScheduler

VARIABLES launches2, run2, prepared2, semaphore2, producer2,
          reader2, smem2, empty2, full2, out2

vars2 == <<launches2, run2, prepared2, semaphore2, producer2,
           reader2, smem2, empty2, full2, out2>>

Helped ==
  INSTANCE TileScheduler WITH
    WarpGroups <- {"wg0"}, Helpers <- {"warp1", "warp2"},
    Streams <- HandoffLaunches \cup {NoTiles},
    launches <- launches2, run <- run2, prepared <- prepared2, semaphore <- semaphore2, producer <- producer2,
    reader <- reader2, smem <- smem2, empty <- empty2, full <- full2, out <- out2

PairsOrNone == Pairs \cup {NoTiles}

GridsInit == Init /\ Helped!Init /\ (launches = NoTiles \/ launches2 = NoTiles)

GridsNext ==
  \/ Next /\ UNCHANGED vars2
  \/ Finished /\ Helped!Next /\ UNCHANGED vars

GridsSpec ==
  GridsInit /\ [][GridsNext]_<<vars, vars2>> /\ WF_<<vars, vars2>>(GridsNext)

-----------------------------------------------------------------------------
(* The helper warps see every phase of barrier_O: with the schedulers that *)
(* hand tiles over, the warpgroups never complete a second one first.      *)
HelpersSignalSeen == Helped!SignalSeen

(* With helper warps too every tile is computed exactly once, and the      *)
(* launch ends.                                                            *)
HelpersImplementTileDispatch == Helped!ImplementsTileDispatch
=============================================================================
