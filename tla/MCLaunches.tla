---------------------------- MODULE MCLaunches -----------------------------
(* Launches of one CTA for TLC.  Split and dense launches include tiles    *)
(* without any block: a trailing split, a row of a causal mask.            *)
EXTENDS SparseSplit, Sequences

Tile(split_idx, n_min, n_max) ==
  [split_idx |-> split_idx, n_min |-> n_min, n_max |-> n_max]

Sparse(table, store, Split, num_splits, splits) ==
  [sparse |-> TRUE, table |-> table, num_splits |-> num_splits, Split |-> Split,
   store |-> store, tiles |-> [t \in 1 .. Len(splits) |-> Tile(splits[t], 0, 0)]]

Dense(store, Split, num_splits, tiles) ==
  [sparse |-> FALSE, table |-> << >>, num_splits |-> num_splits, Split |-> Split,
   store |-> store, tiles |-> tiles]

(* The dynamic number of splits travels in the high bits of split_idx.     *)
Packed(num_splits, split_idx) == num_splits * SplitBits + split_idx

TmaLaunches ==
  {Sparse(<<4, 1, 6>>, "tma", FALSE, 1, <<0, 0>>),
   Dense("tma", FALSE, 1, <<Tile(0, 0, 2), Tile(0, 0, 0), Tile(0, 0, 1)>>)}

SmemLaunches ==
  {Sparse(<<4, 1, 6>>, "smem", TRUE, 4, <<0, 1, 3, 2>>),
   Sparse(<<4, 1>>, "smem", FALSE, 1, <<0, 0>>),
   Dense("smem", TRUE, 3, <<Tile(Packed(2, 0), 1, 4), Tile(Packed(2, 1), 1, 4)>>),
   Dense("smem", TRUE, 1, <<Tile(Packed(1, 0), 0, 2), Tile(0, 0, 0), Tile(0, 0, 1)>>)}

DirectLaunches ==
  {Sparse(<<4, 1, 6, 0, 3>>, "direct", TRUE, 2, <<i>>) : i \in 0 .. 1}
    \cup {Sparse(<<4, 1, 6, 0, 3>>, "direct", TRUE, 4, <<3>>),
          Dense("direct", TRUE, 2, <<Tile(1, 0, 5)>>)}

(* Enough turns to go round three warpgroups twice.                        *)
RingLaunches ==
  {Sparse(<<4, 1, 6>>, "tma", FALSE, 1, <<0, 0>>),
   Sparse(<<4, 1, 6>>, "smem", TRUE, 2, <<0, 1>>),
   Dense("direct", TRUE, 2, <<Tile(1, 0, 6)>>)}

AllLaunches == TmaLaunches \cup SmemLaunches \cup DirectLaunches
=============================================================================
