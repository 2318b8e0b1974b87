\* Q by cp.async without a hand-over of tiles: PackGQA and split, or non-causal.
CONSTANTS
  NumCtas = 2
  WarpGroups = {"wg0"}
  Helpers = {"warp1"}
  Streams <- NoHandoffLaunches
  Garbage = {2}
SPECIFICATION Spec
INVARIANTS SignalSeen
