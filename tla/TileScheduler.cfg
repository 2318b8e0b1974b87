\* Two MMA warpgroups per CTA and Q by TMA, where the producer is a single warp; then Q
\* by cp.async, where helper warps follow the producer like the warpgroup.
CONSTANTS
  NumCtas = 2
  WarpGroups = {"wg0", "wg1"}
  Helpers = {}
  Streams <- PairsOrNone
  Garbage = {2}
SPECIFICATION GridsSpec
INVARIANTS TypeOK ReadersFollowProducer HandoffBarriersUnmixed TilesDrawnOnce HelpersSignalSeen
PROPERTIES ImplementsTileDispatch Terminates HelpersImplementTileDispatch
