--------------------------- MODULE VarlenSchedule ---------------------------
(***************************************************************************)
(* A forward pass over sequences of different lengths: the prepare kernel  *)
(* plans it (blocks and splits of every batch, longest batch first), the   *)
(* CTAs of the attention kernel turn tile numbers into tiles, attend to    *)
(* their part of the K/V blocks and store an output or a partial output,   *)
(* and the combine kernel merges the partial outputs.  No two of the three *)
(* kernels are told the same number of splits in the same way.             *)
(*                                                                         *)
(* A stored (O, LSE) is abstracted to how often each K/V block counts in   *)
(* it.  How a CTA hands a tile to its warps is in TileScheduler.           *)
(***************************************************************************)
EXTENDS Integers, Sequences, FiniteSetsExt, SparseSplit, TLC

CONSTANTS
  Launches,        \* the calls to consider, see VarlenLaunch
  kBlockM, kBlockN,
  BatchesPerWarp,  \* kNumBatchPerWarp: a warp looks at 31 batches at once
  BatchesPerCta,   \* 992: batches that one CTA of the prepare kernel sorts
  HeadField,       \* 2^16 and 2^8: what fits into the low bits of bidh
  SplitField,      \*   for the head, and above it for the split and their number
  KvBlocksInL2     \* max_kvblocks_in_l2

\* num_splits counts as given or as num_splits_heuristic bounds it; pack is the
\* kernel's PackGQA, which every split launch has; k counts appended keys; num_sm
\* is the grid of the attention kernel, sm_margin taken off.
VarlenLaunch ==
  [q : Seq(Nat), k : Seq(Nat), h_k : Nat \ {0}, gqa : Nat \ {0}, pack : BOOLEAN,
   mask : {"none", "causal", "local"}, left : Nat, right : Nat,
   num_splits : 1 .. SplitField, num_sm : Nat \ {0}, metadata : BOOLEAN]

ASSUME VarlenAssumption ==
  /\ {kBlockM, kBlockN, BatchesPerWarp, BatchesPerCta, KvBlocksInL2} \subseteq Nat \ {0}
  /\ HeadField \in Nat /\ SplitField \in Nat
  /\ \A l \in Launches :
       /\ l \in VarlenLaunch /\ Len(l.q) = Len(l.k)
       /\ l.num_splits > 1 => l.pack
       /\ l.h_k * l.gqa < HeadField

VARIABLES launch,    \* the parameters of the call
          phase,     \* the kernel that runs
          plan,      \* what the prepare kernel wrote for each virtual batch
          counter,   \* tile_count_semaphore
          work,      \* the WorkTileInfo of each CTA of the attention kernel
          partial,   \* the K/V blocks behind each (O, LSE)_partial written so far
          output,    \* how often each K/V block counts in each (O, LSE) written
          repeats    \* calls with this scheduler_metadata

varlenVars == <<launch, phase, plan, counter, work, partial, output, repeats>>

NumBatch == Len(launch.q)
Batch == 0 .. NumBatch - 1
SeqlenQ(b) == launch.q[b + 1]
SeqlenKOf(b) == launch.k[b + 1]
NumHead == IF launch.pack THEN launch.h_k ELSE launch.h_k * launch.gqa
RowsPerQuery == IF launch.pack THEN launch.gqa ELSE 1
Split == launch.num_splits > 1
LPT == launch.mask # "none"
Sort == launch.mask # "local"
Idle == [tile_idx |-> 0, block |-> 0, bidh |-> 0, bidb |-> -1]
NoTiles == [c \in 0 .. launch.num_sm - 1 |-> Idle]

-----------------------------------------------------------------------------
(* prepare_varlen_num_blocks_kernel                                        *)

NumMBlocks(b) == CeilDiv(SeqlenQ(b) * RowsPerQuery, kBlockM)
NumNBlocks(b) == CeilDiv(SeqlenKOf(b), kBlockN)

\* 10% margin
BlocksPerSm ==
  CeilDiv(11 * NumHead * MapThenSumSet(LAMBDA b : NumMBlocks(b) * NumNBlocks(b), Batch),
          10 * launch.num_sm)

\* num_splits_dynamic.  Without any work the division by blocks_per_sm is
\* undefined, and whatever it yields is clamped.
DynamicSplits ==
  IF NumBatch > BatchesPerCta \/ ~Split THEN {[b \in Batch |-> 1]}
  ELSE IF BlocksPerSm = 0 THEN [Batch -> 1 .. launch.num_splits]
  ELSE {[b \in Batch |-> Greater(1, Lesser(launch.num_splits,
                                           CeilDiv(NumNBlocks(b), BlocksPerSm)))]}

\* num_n_blocks per work tile for the batch
NBlocksPerTile(splits, b) == CeilDiv(NumNBlocks(b), splits[b])

\* Every CTA sorts its batches in descending order, equal ones in any order.
Orders(splits) ==
  LET key(b) == IF launch.mask = "causal"
                THEN NBlocksPerTile(splits, b) * kBlockN - NumMBlocks(b) * kBlockM
                ELSE NBlocksPerTile(splits, b)
  IN  IF ~Sort THEN {[v \in Batch |-> v]}
      ELSE {order \in [Batch -> Batch] :
              \A u, v \in Batch :
                /\ u # v => order[u] # order[v]
                /\ order[v] \div BatchesPerCta = v \div BatchesPerCta
                /\ u < v /\ u \div BatchesPerCta = v \div BatchesPerCta
                     => key(order[u]) >= key(order[v])}

NheadsInL2(n_blocks) ==
  LET fitting == {1} \cup {x \in {2, 4, 8, 16} : n_blocks * x <= KvBlocksInL2}
  IN  Lesser(NumHead, Max(fitting) * (IF launch.pack THEN 1 ELSE launch.gqa))

PrepareVarlen ==
  /\ phase = "prepare" /\ phase' = "attention" /\ work' = NoTiles
  /\ \E splits \in DynamicSplits : \E order \in Orders(splits) :
       plan' = [v \in Batch |->
         [batch |-> order[v], num_m_blocks |-> NumMBlocks(order[v]), splits |-> splits[order[v]],
          nheads_in_l2 |-> NheadsInL2(Greater(1, NBlocksPerTile(splits, order[v])))]]
  /\ counter' = 0
  /\ UNCHANGED <<launch, partial, output, repeats>>

-----------------------------------------------------------------------------
(* VarlenDynamicPersistentTileScheduler                                    *)

\* num_split_m_blocks of lane - first, summed over the lanes first .. last.
BlocksOf(first, last) ==
  MapThenSumSet(LAMBDA v : plan[v].num_m_blocks * plan[v].splits, (first .. last) \cap Batch)

\* bidh_packed, in a uint32_t: the number of splits loses its high bits.
Packed(head, split, splits) ==
  IF Split THEN head + HeadField * (split + SplitField * (splits % SplitField)) ELSE head

\* Mutant: the number of splits stays behind.
SplitIdxAlone(bidh) == (bidh \div HeadField) % SplitField

\* split_idx of get_block_coord, with the number of splits from bit 16 on.
SplitIdx(bidh) ==
  ((bidh \div HeadField) % SplitField) + SplitBits * (bidh \div (HeadField * SplitField))

\* The block, and the packed head, of the mh_block-th tile of virtual batch v.
TileInBatch(v, mh_block) ==
  LET m  == plan[v].num_m_blocks
      s  == plan[v].splits
      nh == plan[v].nheads_in_l2
      section == mh_block \div (nh * m)
      l2_mod  == mh_block % (nh * m)
      nheads_in_this_section == Lesser(nh, NumHead - section * nh)
      heads_first == mh_block \div m
  IN  IF LPT /\ s = 1
      THEN [block |-> m - 1 - l2_mod \div nheads_in_this_section,
            bidh  |-> Packed(section * nh + (l2_mod % nheads_in_this_section), 0, s)]
      ELSE [block |-> IF LPT THEN m - 1 - (mh_block % m) ELSE mh_block % m,
            bidh  |-> Packed(heads_first \div s, heads_first % s, s)]

\* Mutant: the next search starts from the tile itself.
StartOfSearch(group_start, v, first, next) == next

\* What tile_idx remembers: the first tile of batch v, in the group that begins
\* with batch first.
StartOfBatch(group_start, v, first, next) ==
  group_start + NumHead * BlocksOf(first, v - 1)

\* tile_idx_to_work_tile: groups of batches from the current one on, until one
\* ends behind the tile; in it, the batches that end before the tile are skipped.
WorkTile(next, current) ==
  LET bidb(i) == current.bidb + i * BatchesPerWarp
      group_start(i) == current.tile_idx + NumHead * BlocksOf(current.bidb, bidb(i) - 1)
      group_end(i) == group_start(i + 1)
      groups == {i \in 0 .. NumBatch : bidb(i) < NumBatch /\ group_end(i) > next}
      i == Min(groups)
      v == bidb(i) + Cardinality({lane \in 0 .. BatchesPerWarp :
             group_start(i) + NumHead * BlocksOf(bidb(i), Lesser(bidb(i) + lane, bidb(i + 1) - 1))
               <= next})
      tile == TileInBatch(v, next - group_start(i) - NumHead * BlocksOf(bidb(i), v - 1))
  IN  IF groups = {} THEN [tile_idx |-> next, block |-> 0, bidh |-> 0, bidb |-> NumBatch]
      ELSE [tile_idx |-> StartOfBatch(group_start(i), v, bidb(i), next),
            block |-> tile.block, bidh |-> tile.bidh, bidb |-> v]

ValidTile(c) == work[c].bidb \in Batch

-----------------------------------------------------------------------------
(* The attention kernel, one tile at a time                                *)

\* BlockMN::get_n_block_min_max without the split.
NBlockRange(b, m_block) ==
  LET row(i) == i \div RowsPerQuery
      shift  == SeqlenKOf(b) - SeqlenQ(b)
      n_idx_right == row((m_block + 1) * kBlockM - 1) + 1 + shift
                       + (IF launch.mask = "local" THEN launch.right ELSE 0)
      n_idx_left  == row(m_block * kBlockM) + shift - launch.left
  IN  [min |-> IF launch.mask = "local" THEN Greater(0, n_idx_left \div kBlockN) ELSE 0,
       max |-> IF LPT THEN Lesser(NumNBlocks(b), CeilDiv(n_idx_right, kBlockN)) ELSE NumNBlocks(b)]

\* The K/V blocks of a tile, with its part of the splits.
NBlocksOf(b, m_block, split_idx) ==
  LET range == NBlockRange(b, m_block)
      part  == IF Split THEN SplitRange(split_idx, launch.num_splits, range.max - range.min)
               ELSE [begin |-> 0, num |-> range.max - range.min]
  IN  range.min + part.begin .. range.min + part.begin + part.num - 1

Counted(b, parts) ==
  [n \in 0 .. NumNBlocks(b) - 1 |-> Cardinality({s \in DOMAIN parts : n \in parts[s]})]

GetInitialTile(c) ==
  /\ phase = "attention" /\ work[c] = Idle
  /\ work' = [work EXCEPT ![c] = WorkTile(c, [tile_idx |-> 0, bidb |-> 0])]
  /\ UNCHANGED <<launch, phase, plan, counter, partial, output, repeats>>

\* mma, then store or store_zero, and the next tile.  A split launch stores the
\* output itself where the batch has one split; an LSE_partial of -inf (no block)
\* has an O_partial that nobody wrote.
ComputeTile(c) ==
  /\ phase = "attention" /\ work[c] # Idle /\ ValidTile(c)
  /\ LET b         == plan[work[c].bidb].batch
         head      == IF Split THEN work[c].bidh % HeadField ELSE work[c].bidh
         split_idx == IF Split THEN SplitIdx(work[c].bidh) ELSE 0
         blocks    == NBlocksOf(b, work[c].block, split_idx)
         tile      == <<b, head, work[c].block>>
     IN  IF Split /\ NumSplitsActual(split_idx, launch.num_splits) > 1
         THEN /\ partial' = (<<tile, split_idx % SplitBits>> :> blocks) @@ partial
              /\ UNCHANGED output
         ELSE output' = (tile :> Counted(b, <<blocks>>)) @@ output /\ UNCHANGED partial
  /\ counter' = counter + 1
  /\ work' = [work EXCEPT ![c] = WorkTile(counter + launch.num_sm, work[c])]
  /\ UNCHANGED <<launch, phase, plan, repeats>>

-----------------------------------------------------------------------------
(* flash_fwd_combine_kernel, and the host around the launches              *)

Unwritten == [n \in {-1} |-> 0]

\* Mutant: an LSE_partial of -inf does not exclude its O_partial.
ScaledAlways(b, parts) ==
  IF \E s \in DOMAIN parts : parts[s] = {} THEN Unwritten ELSE Counted(b, parts)

\* Only the splits with scale > 0 count, and -inf has scale 0.
Scaled(b, parts) == Counted(b, parts)

CombinedTile(tile, splits) ==
  LET parts == 0 .. splits - 1
  IN  IF \E s \in parts : <<tile, s>> \notin DOMAIN partial THEN Unwritten
      ELSE Scaled(tile[1], [s \in parts |-> partial[<<tile, s>>]])

\* A batch of one split is left alone.
CombineVarlen ==
  /\ phase = "attention" /\ phase' = "done"
  /\ \A c \in DOMAIN work : work[c] # Idle /\ ~ValidTile(c)
  /\ LET split_up == {v \in Batch : plan[v].splits > 1}
         tiles(v) == {plan[v].batch} \X (0 .. NumHead - 1) \X (0 .. NumMBlocks(plan[v].batch) - 1)
         splits(t) == plan[CHOOSE v \in Batch : plan[v].batch = t[1]].splits
     IN  IF Split
         THEN output' = [t \in UNION {tiles(v) : v \in split_up} |-> CombinedTile(t, splits(t))] @@ output
         ELSE UNCHANGED output
  /\ counter' = IF Split \/ launch.metadata THEN 0 ELSE counter
  /\ UNCHANGED <<launch, plan, work, partial, repeats>>

VarlenInit ==
  /\ phase = "call" /\ launch = <<>> /\ plan = <<>> /\ counter = 0
  /\ work = <<>> /\ partial = <<>> /\ output = <<>> /\ repeats = 0

\* mha_fwd, or mha_fwd_get_scheduler_metadata and mha_fwd.
CallVarlen ==
  /\ phase = "call" /\ phase' = "prepare"
  /\ launch' \in Launches
  /\ counter' \in {0, 3}                                     \* torch::empty
  /\ repeats' = 1
  /\ UNCHANGED <<plan, work, partial, output>>

\* Another call with the same scheduler_metadata: nobody prepares it again.
RepeatCall ==
  /\ phase = "done" /\ launch.metadata /\ repeats < 2
  /\ phase' = "attention" /\ repeats' = 2
  /\ work' = NoTiles /\ partial' = <<>> /\ output' = <<>>
  /\ UNCHANGED <<launch, plan, counter>>

VarlenNext ==
  \/ CallVarlen \/ PrepareVarlen \/ CombineVarlen \/ RepeatCall
  \/ \E c \in DOMAIN work : GetInitialTile(c) \/ ComputeTile(c)

VarlenSpec == VarlenInit /\ [][VarlenNext]_varlenVars

-----------------------------------------------------------------------------
(* Properties                                                              *)

\* Query row i of batch b sees a key of K/V block n.
Sees(b, i, n) ==
  \E j \in n * kBlockN .. Lesser((n + 1) * kBlockN, SeqlenKOf(b)) - 1 :
    LET diagonal == i + SeqlenKOf(b) - SeqlenQ(b)
    IN  CASE launch.mask = "none"   -> TRUE
          [] launch.mask = "causal" -> j <= diagonal
          [] launch.mask = "local"  -> diagonal - launch.left <= j /\ j <= diagonal + launch.right

\* Where the output of query row i and query head h is stored.
TileOf(b, h, i) ==
  IF launch.pack THEN <<b, h \div launch.gqa, (i * launch.gqa + (h % launch.gqa)) \div kBlockM>>
  ELSE <<b, h, i \div kBlockM>>

\* After the last kernel every query row of every head has an output in which the
\* K/V blocks it sees count exactly once and no block counts twice: the plan, the
\* decoding of the tiles, the split ranges and the merge of the partial outputs
\* agree on the number of splits and on the batch behind each index.
VarlenEqualsAttention ==
  phase = "done" =>
    \A b \in Batch : \A h \in 0 .. launch.h_k * launch.gqa - 1, i \in 0 .. SeqlenQ(b) - 1 :
      LET tile == TileOf(b, h, i)
      IN  /\ tile \in DOMAIN output
          /\ DOMAIN output[tile] = 0 .. NumNBlocks(b) - 1
          /\ \A n \in DOMAIN output[tile] : output[tile][n] = 1 \/ (output[tile][n] = 0 /\ ~Sees(b, i, n))

\* Every tile that was drawn wrote an output of its own: no two tile numbers mean
\* the same tile, in whatever order the CTAs drew them and from wherever each of
\* them began to search, also when the metadata is used again.
TilesDecodedOnce ==
  phase = "attention" =>
    Cardinality(DOMAIN output) + Cardinality(DOMAIN partial) = counter
=============================================================================
