-------------------------- MODULE MainloopFwdProofs --------------------------
(***************************************************************************)
(* The forward CTA is safe for every number of warpgroups and stages, with *)
(* and without the scheduler barriers, for every table of blocks, every    *)
(* split and every sequence of tiles; and what it writes is the attention  *)
(* of every tile, once.                                                    *)
(***************************************************************************)
EXTENDS MainloopFwdRefinement, SparseSplitProofs, FiniteSetTheorems, TLAPS

R == INSTANCE TmaPipelineProofs WITH Consumers <- WarpGroups

USE WarpGroupsAssumption, RingSizeAssumption, NoBlockAssumption, TurnsAssumption

-----------------------------------------------------------------------------
(* Adding up per-tile counts.                                              *)

(* The sum of c[u] over the tiles u before t.                              *)
UnitsBefore(c, t) == {x \in (DOMAIN c) \X Nat : x[1] < t /\ x[2] < c[x[1]]}
Before(c, t) == Cardinality(UnitsBefore(c, t))

LEMMA UnitsFinite ==
  ASSUME NEW n \in Nat, NEW c \in [1 .. n -> Nat], NEW t \in Nat
  PROVE  IsFiniteSet(UnitsBefore(c, t)) /\ Before(c, t) \in Nat
<1> DEFINE F == [u \in 1 .. n |-> {u} \X (0 .. c[u] - 1)]
           S == {F[u] : u \in 1 .. n}
<1>1. IsFiniteSet(S)
  <2>1. IsFiniteSet(1 .. n) BY FS_Interval
  <2>2. F \in Surjection(1 .. n, S) BY DEF Surjection
  <2> QED BY <2>1, <2>2, FS_Surjection
<1>2. \A X \in S : IsFiniteSet(X)
  <2> SUFFICES ASSUME NEW u \in 1 .. n PROVE IsFiniteSet({u} \X (0 .. c[u] - 1))
    OBVIOUS
  <2>1. IsFiniteSet({u}) BY FS_Singleton
  <2>2. IsFiniteSet(0 .. c[u] - 1) BY FS_Interval
  <2> QED BY <2>1, <2>2, FS_Product
<1>3. IsFiniteSet(UNION S) BY <1>1, <1>2, FS_UNION
<1>4. UnitsBefore(c, t) \subseteq UNION S
  <2> SUFFICES ASSUME NEW x \in UnitsBefore(c, t) PROVE x \in F[x[1]] /\ x[1] \in 1 .. n
    OBVIOUS
  <2>1. x \in (1 .. n) \X Nat /\ x[2] < c[x[1]] BY DEF UnitsBefore
  <2>2. x[1] \in 1 .. n /\ x[2] \in 0 .. c[x[1]] - 1 /\ x = <<x[1], x[2]>> BY <2>1
  <2> QED BY <2>2
<1>5. IsFiniteSet(UnitsBefore(c, t)) BY <1>3, <1>4, FS_Subset
<1> QED BY <1>5, FS_CardinalityType DEF Before

LEMMA BeforeMonotone ==
  ASSUME NEW n \in Nat, NEW c \in [1 .. n -> Nat], NEW t \in Nat, NEW u \in Nat, t <= u
  PROVE  Before(c, t) <= Before(c, u)
<1>1. UnitsBefore(c, t) \subseteq UnitsBefore(c, u) BY DEF UnitsBefore
<1> QED BY <1>1, UnitsFinite, FS_Subset DEF Before

LEMMA BeforeFirst ==
  ASSUME NEW n \in Nat, NEW c \in [1 .. n -> Nat]
  PROVE  Before(c, 1) = 0
<1>1. UnitsBefore(c, 1) = {} BY DEF UnitsBefore
<1> QED BY <1>1, FS_EmptySet DEF Before

LEMMA BeforeNext ==
  ASSUME NEW n \in Nat, NEW c \in [1 .. n -> Nat], NEW t \in 1 .. n
  PROVE  Before(c, t + 1) = Before(c, t) + c[t]
<1> DEFINE A == UnitsBefore(c, t)
           D == {t} \X (0 .. c[t] - 1)
<1>1. UnitsBefore(c, t + 1) = A \cup D
  <2>1. ASSUME NEW x \in UnitsBefore(c, t + 1) PROVE x \in A \cup D
    <3>1. x \in (1 .. n) \X Nat /\ x[1] < t + 1 /\ x[2] < c[x[1]] BY DEF UnitsBefore
    <3>2. x[1] \in 1 .. n /\ x[2] \in Nat /\ x = <<x[1], x[2]>> BY <3>1
    <3>3. CASE x[1] = t BY <3>1, <3>2, <3>3
    <3>4. CASE x[1] # t
      <4>1. x[1] < t BY <3>1, <3>2, <3>4
      <4> QED BY <3>1, <4>1 DEF UnitsBefore
    <3> QED BY <3>3, <3>4
  <2>2. ASSUME NEW x \in A PROVE x \in UnitsBefore(c, t + 1)
    BY DEF UnitsBefore
  <2>3. ASSUME NEW x \in D PROVE x \in UnitsBefore(c, t + 1)
    <3>1. x[1] = t /\ x[2] \in 0 .. c[t] - 1 /\ x = <<x[1], x[2]>> /\ c[t] \in Nat
      OBVIOUS
    <3>2. x \in (1 .. n) \X Nat /\ x[1] < t + 1 /\ x[2] < c[x[1]]
      BY <3>1
    <3> QED BY <3>2 DEF UnitsBefore
  <2> QED BY <2>1, <2>2, <2>3
<1>2. A \cap D = {}
  <2> SUFFICES ASSUME NEW x \in A, x \in D PROVE FALSE
    OBVIOUS
  <2>1. x[1] < t /\ t \in Int BY DEF UnitsBefore
  <2>2. x[1] = t OBVIOUS
  <2> QED BY <2>1, <2>2
<1>3. IsFiniteSet(A) BY UnitsFinite
<1>4. IsFiniteSet(D) /\ Cardinality(D) = c[t]
  <2>1. IsFiniteSet({t}) /\ Cardinality({t}) = 1 BY FS_Singleton
  <2>2. IsFiniteSet(0 .. c[t] - 1) /\ Cardinality(0 .. c[t] - 1) = c[t]
    <3> DEFINE b == c[t] - 1
    <3>1. c[t] \in Nat /\ 0 \in Int /\ b \in Int /\ b + 1 = c[t] OBVIOUS
    <3> HIDE DEF b
    <3>2. IsFiniteSet(0 .. b) /\ Cardinality(0 .. b) = IF 0 > b THEN 0 ELSE b - 0 + 1
      BY <3>1, FS_Interval
    <3>3. Cardinality(0 .. b) = c[t] BY <3>1, <3>2
    <3> QED BY <3>2, <3>3 DEF b
  <2>3. IsFiniteSet(D) /\ Cardinality(D) = 1 * c[t] BY <2>1, <2>2, FS_Product
  <2> QED BY <2>3
<1>5. Cardinality(A \cup D) = Cardinality(A) + Cardinality(D) - Cardinality(A \cap D)
  BY <1>3, <1>4, FS_Union
<1>6. Cardinality(A) \in Nat BY UnitsFinite DEF Before
<1>7. Cardinality(A \cap D) = 0 BY <1>2, FS_EmptySet
<1>8. c[t] \in Nat OBVIOUS
<1> HIDE DEF A, D
<1>9. Cardinality(A \cup D) = Cardinality(A) + c[t] BY <1>4, <1>5, <1>6, <1>7, <1>8
<1> QED BY <1>1, <1>9 DEF Before, A

-----------------------------------------------------------------------------
(* The blocks of a launch.                                                 *)

LEMMA CeilDivNat ==
  ASSUME NEW a \in Nat, NEW b \in Nat \ {0}
  PROVE  CeilDiv(a, b) \in Nat
<1> DEFINE n == a + b - 1
<1>1. n \in Nat OBVIOUS
<1>2. n \div b \in Nat BY <1>1
<1> QED BY <1>2 DEF CeilDiv

LEMMA SliceInside ==
  ASSUME NEW idx \in Nat, NEW n \in Nat \ {0}, NEW total \in Int
  PROVE  /\ Slice(idx, n, total).begin \in Nat
         /\ Slice(idx, n, total).num \in Nat
         /\ Slice(idx, n, total).num > 0 =>
              Slice(idx, n, total).begin + Slice(idx, n, total).num <= total
<1> DEFINE p == IF total <= 0 THEN 0 ELSE CeilDiv(total, n)
           b == idx * p
<1>1. p \in Nat BY CeilDivNat
<1>2. b \in Nat BY <1>1
<1>3. Slice(idx, n, total) = [begin |-> b, num |-> Greater(0, Lesser(b + p, total) - b)]
  BY DEF Slice
<1> HIDE DEF p, b
<1> QED BY <1>1, <1>2, <1>3 DEF Greater, Lesser

LEMMA SplitRangeInside ==
  ASSUME NEW split_idx \in Nat, NEW num_splits \in Nat \ {0}, NEW total \in Int
  PROVE  /\ SplitRange(split_idx, num_splits, total).begin \in Nat
         /\ SplitRange(split_idx, num_splits, total).num \in Nat
         /\ SplitRange(split_idx, num_splits, total).num > 0 =>
              SplitRange(split_idx, num_splits, total).begin
                + SplitRange(split_idx, num_splits, total).num <= total
<1>1. split_idx % SplitBits \in Nat /\ split_idx \div SplitBits \in Nat
  BY DEF SplitBits
<1>2. NumSplitsActual(split_idx, num_splits) \in Nat \ {0}
  BY <1>1 DEF NumSplitsActual
<1> QED BY <1>1, <1>2, SliceInside DEF SplitRange

LEMMA SeqElements ==
  ASSUME NEW S, NEW q \in Seq(S)
  PROVE  Len(q) \in Nat /\ \A i \in 1 .. Len(q) : q[i] \in S
  OBVIOUS

LEMMA LaunchFields ==
  ASSUME launch \in LaunchSpace
  PROVE  /\ launch.table \in Seq(Nat)
         /\ launch.num_splits \in Nat \ {0}
         /\ launch.store \in {"tma", "smem", "direct"}
         /\ Len(launch.tiles) \in Nat
         /\ \A t \in Tiles : launch.tiles[t] \in [split_idx : Nat, n_min : Nat, n_max : Nat]
<1>1. /\ launch.table \in Seq(Nat) /\ launch.num_splits \in Nat \ {0}
      /\ launch.store \in {"tma", "smem", "direct"}
      /\ launch.tiles \in Seq([split_idx : Nat, n_min : Nat, n_max : Nat])
  BY DEF LaunchSpace
<1>2. /\ Len(launch.tiles) \in Nat
      /\ \A t \in 1 .. Len(launch.tiles) :
           launch.tiles[t] \in [split_idx : Nat, n_min : Nat, n_max : Nat]
  BY <1>1, SeqElements, Zenon
<1> QED BY <1>1, <1>2 DEF Tiles

LEMMA FunctionIsSeq ==
  ASSUME NEW S, NEW n \in Nat, NEW f \in [1 .. n -> S]
  PROVE  f \in Seq(S) /\ Len(f) = n
  OBVIOUS

(* Producer and warpgroups agree on the number of blocks of every tile.    *)
LEMMA TileBlockCounts ==
  ASSUME launch \in LaunchSpace, NEW t \in Tiles
  PROVE  /\ MmaCount(t) \in Nat
         /\ LoadBlocks(t) \in Seq(Nat)
         /\ Len(LoadBlocks(t)) = MmaCount(t)
<1> DEFINE tile == launch.tiles[t]
           s == SparseRange(tile)
           d == DenseRange(tile)
           total == tile.n_max - tile.n_min
<1>1. /\ tile.split_idx \in Nat /\ tile.n_min \in Nat /\ tile.n_max \in Nat
      /\ launch.num_splits \in Nat \ {0} /\ launch.table \in Seq(Nat)
  BY LaunchFields
<1>2. Len(launch.table) \in Nat /\ total \in Int
  BY <1>1
<1>3. s.begin \in Nat /\ s.num \in Nat /\ (s.num > 0 => s.begin + s.num <= Len(launch.table))
  <2>1. CASE launch.Split
    <3>1. s = SplitRange(tile.split_idx, launch.num_splits, Len(launch.table))
      BY <2>1 DEF SparseRange
    <3>2. Len(launch.table) \in Int BY <1>2
    <3> HIDE DEF s, tile, total, d
    <3> QED BY <1>1, <3>1, <3>2, SplitRangeInside, Zenon
  <2>2. CASE ~launch.Split
    BY <1>1, <1>2, <2>2 DEF SparseRange
  <2> QED BY <2>1, <2>2
<1>4. d.begin \in Nat /\ d.num \in Nat
  <2>1. CASE launch.Split
    <3> DEFINE r == SplitRange(tile.split_idx, launch.num_splits, total)
    <3>0. \A x \in Nat, n \in Nat \ {0}, m \in Int :
            SplitRange(x, n, m).begin \in Nat /\ SplitRange(x, n, m).num \in Nat
      BY SplitRangeInside
    <3>1. r.begin \in Nat /\ r.num \in Nat BY <1>1, <1>2, <3>0
    <3>2. d = [begin |-> tile.n_min + r.begin, num |-> r.num] BY <2>1 DEF DenseRange
    <3> QED BY <1>1, <3>1, <3>2
  <2>2. CASE ~launch.Split
    BY <1>1, <1>2, <2>2 DEF DenseRange, Greater
  <2> QED BY <2>1, <2>2
<1>5. MmaCount(t) = IF launch.sparse THEN s.num ELSE d.num
  BY DEF MmaCount
<1>6. LoadBlocks(t) = IF launch.sparse
                      THEN [i \in 1 .. s.num |-> launch.table[s.begin + i]]
                      ELSE [i \in 1 .. d.num |-> d.begin + d.num - i]
  BY DEF LoadBlocks
<1> HIDE DEF s, d
<1>7. CASE launch.sparse
  <2> DEFINE f == [i \in 1 .. s.num |-> launch.table[s.begin + i]]
  <2>1. ASSUME NEW i \in 1 .. s.num PROVE launch.table[s.begin + i] \in Nat
    <3>1. s.begin + i \in 1 .. Len(launch.table) BY <1>2, <1>3
    <3> QED BY <1>1, <3>1
  <2>2. f \in [1 .. s.num -> Nat] BY <2>1
  <2>3. f \in Seq(Nat) /\ Len(f) = s.num BY <1>3, <2>2, FunctionIsSeq
  <2> QED BY <1>3, <1>5, <1>6, <1>7, <2>3
<1>8. CASE ~launch.sparse
  <2> DEFINE f == [i \in 1 .. d.num |-> d.begin + d.num - i]
  <2>1. \A i \in 1 .. d.num : d.begin + d.num - i \in Nat
    BY <1>4
  <2>2. f \in [1 .. d.num -> Nat] BY <2>1
  <2>3. f \in Seq(Nat) /\ Len(f) = d.num BY <1>4, <2>2, FunctionIsSeq
  <2> QED BY <1>4, <1>5, <1>6, <1>8, <2>3
<1> QED BY <1>7, <1>8

(* Per tile: its blocks, whether it has any, and how often a warpgroup     *)
(* takes its turn there.                                                   *)
BlockCount == [t \in Tiles |-> MmaCount(t)]
WorkCount  == [t \in Tiles |-> IF MmaCount(t) > 0 THEN 1 ELSE 0]
TurnCount  == [t \in Tiles |-> IF MmaCount(t) > 0 THEN MmaCount(t) - 1 ELSE 0]

LEMMA LaunchFixed ==
  ASSUME launch' = launch
  PROVE  /\ Tiles' = Tiles
         /\ BlockCount' = BlockCount
         /\ WorkCount' = WorkCount
         /\ TurnCount' = TurnCount
         /\ \A t \in Tiles : MmaCount(t)' = MmaCount(t) /\ LoadBlocks(t)' = LoadBlocks(t)
<1>1. Tiles' = Tiles BY DEF Tiles
<1>2. \A t : MmaCount(t)' = MmaCount(t)
  BY DEF MmaCount, SparseRange, DenseRange
<1>3. \A t : LoadBlocks(t)' = LoadBlocks(t)
  BY DEF LoadBlocks, SparseRange, DenseRange
<1> QED BY <1>1, <1>2, <1>3 DEF BlockCount, WorkCount, TurnCount

LEMMA CountTypes ==
  ASSUME launch \in LaunchSpace
  PROVE  /\ BlockCount \in [1 .. Len(launch.tiles) -> Nat]
         /\ WorkCount \in [1 .. Len(launch.tiles) -> Nat]
         /\ TurnCount \in [1 .. Len(launch.tiles) -> Nat]
  BY TileBlockCounts DEF BlockCount, WorkCount, TurnCount, Tiles

(* The totals before a tile, at the first tile and from tile to tile.      *)
LEMMA Totals ==
  ASSUME launch \in LaunchSpace
  PROVE  /\ Before(BlockCount, 1) = 0 /\ Before(WorkCount, 1) = 0 /\ Before(TurnCount, 1) = 0
         /\ \A t \in Nat : /\ Before(BlockCount, t) \in Nat
                           /\ Before(WorkCount, t) \in Nat
                           /\ Before(TurnCount, t) \in Nat
  BY CountTypes, LaunchFields, BeforeFirst, UnitsFinite

LEMMA NextTotals ==
  ASSUME launch \in LaunchSpace, NEW t \in Tiles
  PROVE  /\ t \in Nat /\ t + 1 \in Nat
         /\ MmaCount(t) \in Nat /\ BlockCount[t] = MmaCount(t)
         /\ Before(BlockCount, t + 1) = Before(BlockCount, t) + MmaCount(t)
         /\ MmaCount(t) = 0 => /\ Before(WorkCount, t + 1) = Before(WorkCount, t)
                               /\ Before(TurnCount, t + 1) = Before(TurnCount, t)
         /\ MmaCount(t) > 0 => /\ Before(WorkCount, t + 1) = Before(WorkCount, t) + 1
                               /\ Before(TurnCount, t + 1) = Before(TurnCount, t) + MmaCount(t) - 1
<1>1. t \in 1 .. Len(launch.tiles) /\ Len(launch.tiles) \in Nat BY LaunchFields DEF Tiles
<1>2. /\ MmaCount(t) \in Nat /\ BlockCount[t] = MmaCount(t)
      /\ WorkCount[t] = IF MmaCount(t) > 0 THEN 1 ELSE 0
      /\ TurnCount[t] = IF MmaCount(t) > 0 THEN MmaCount(t) - 1 ELSE 0
  BY TileBlockCounts DEF BlockCount, WorkCount, TurnCount
<1>3. /\ Before(BlockCount, t + 1) = Before(BlockCount, t) + BlockCount[t]
      /\ Before(WorkCount, t + 1) = Before(WorkCount, t) + WorkCount[t]
      /\ Before(TurnCount, t + 1) = Before(TurnCount, t) + TurnCount[t]
  BY <1>1, CountTypes, BeforeNext
<1>4. Before(WorkCount, t) \in Nat /\ Before(TurnCount, t) \in Nat BY <1>1, Totals
<1> QED BY <1>1, <1>2, <1>3, <1>4

LEMMA LaterTotals ==
  ASSUME launch \in LaunchSpace, NEW t \in Nat, NEW u \in Nat, t <= u
  PROVE  /\ Before(BlockCount, t) <= Before(BlockCount, u)
         /\ Before(WorkCount, t) <= Before(WorkCount, u)
         /\ Before(TurnCount, t) <= Before(TurnCount, u)
  BY CountTypes, LaunchFields, BeforeMonotone
-----------------------------------------------------------------------------
(* Where the producer and the warpgroups are: the blocks gone by, as told  *)
(* by the label, tile and step of each.                                    *)

ProducerRecord ==
  [at : ProducerLabels, tile : Nat, i : Nat, work_idx : Nat,
   write : PipelineState, write_v : PipelineState]

WarpGroupRecord ==
  [at : WarpGroupLabels, tile : Nat, i : Nat, work_idx : Nat,
   read : PipelineState, read_v : PipelineState, s : Scores, p : Scores, acc : Result]

ScoreRecord == [q : Nat \cup {NoBlock}, k : Block \cup {NoBlock}]

BeforeQK       == {"init", "mma", "first_QK", "first_softmax"}
InStep         == {"step_PV", "step_softmax", "step_end"}
AfterLoop      == {"last_PV", "last_end"}
InEpilogue     == {"epilogue", "write_O", "epilogue_smem", "read_O", "arrive_O",
                   "store_O", "storing_O"}
WithoutATile   == {"init", "mma"}
AtEpilogueSync == {"epilogue", "epilogue_smem"}

ProducerPlaced ==
  /\ producer.tile \in 1 .. Len(launch.tiles) + 1
  /\ producer.at = "done" => producer.tile \notin Tiles
  /\ producer.at \notin {"tile", "done"} =>
       producer.tile \in Tiles /\ BlockCount[producer.tile] > 0
  /\ producer.work_idx = Before(WorkCount, producer.tile)
  /\ producer.at \in {"load_Q", "wait_O"} => producer.i = 1
  /\ producer.at = "load_K" =>
       /\ producer.i \in 1 .. BlockCount[producer.tile]
       /\ R!Pos(producer.write) = Before(BlockCount, producer.tile) + producer.i - 1
  /\ producer.at = "load_V" =>
       /\ producer.i \in 1 .. BlockCount[producer.tile] - 1
       /\ R!Pos(producer.write) = Before(BlockCount, producer.tile) + producer.i
       /\ R!Pos(producer.write_v) = Before(BlockCount, producer.tile) + producer.i - 1
  /\ producer.at \notin {"load_K", "load_V"} =>
       R!Pos(producer.write) = Before(BlockCount, producer.tile)

(* The tile a warpgroup is at, and how far it is there.                    *)
Placed(g) ==
  /\ wg[g].tile \in 1 .. Len(launch.tiles) + 1
  /\ wg[g].at = "init" => wg[g].tile = 1
  /\ wg[g].at \notin WithoutATile => wg[g].tile \in Tiles /\ BlockCount[wg[g].tile] > 0
  /\ wg[g].at = "step" => wg[g].i \in 1 .. BlockCount[wg[g].tile]
  /\ wg[g].at \in InStep => wg[g].i \in 1 .. BlockCount[wg[g].tile] - 1
  /\ wg[g].work_idx =
       Before(WorkCount, wg[g].tile) + (IF wg[g].at \in InEpilogue THEN 1 ELSE 0)
  /\ wg[g].at \in BeforeQK => R!Pos(wg[g].read) = Before(BlockCount, wg[g].tile)
  /\ wg[g].at = "step" =>
       R!Pos(wg[g].read) = Before(BlockCount, wg[g].tile) + wg[g].i - 1
  /\ wg[g].at \in InStep =>
       /\ R!Pos(wg[g].read) = Before(BlockCount, wg[g].tile) + wg[g].i
       /\ R!Pos(wg[g].read_v) = Before(BlockCount, wg[g].tile) + wg[g].i - 1
  /\ wg[g].at \in AfterLoop =>
       R!Pos(wg[g].read) = Before(BlockCount, wg[g].tile) + BlockCount[wg[g].tile] - 1
  /\ wg[g].at \in InEpilogue =>
       R!Pos(wg[g].read) = Before(BlockCount, wg[g].tile) + BlockCount[wg[g].tile]

(* Which epilogue runs, and what a warpgroup has computed so far.          *)
Equipped(g) ==
  /\ wg[g].at = "write_O" => launch.store # "direct"
  /\ wg[g].at \in {"epilogue_smem", "read_O"} => launch.store = "smem"
  /\ wg[g].at = "arrive_O" => launch.store # "tma"
  /\ wg[g].at \in {"store_O", "storing_O"} => launch.store = "tma" /\ g = Storer
  /\ wg[g].at \in {"first_softmax"} \cup InStep => wg[g].s \in ScoreRecord
  /\ wg[g].at \in {"step"} \cup InStep \cup AfterLoop =>
       wg[g].p \in ScoreRecord /\ wg[g].acc \in Seq(Term)

SyncArrivals == named.sync = {g \in WarpGroups : wg[g].at \in AtEpilogueSync}

Places ==
  /\ TypeOK
  /\ ProducerPlaced
  /\ \A g \in WarpGroups : Placed(g) /\ Equipped(g)
  /\ SyncArrivals
-----------------------------------------------------------------------------
(* The operators of the two pipelines are those of TmaPipelineProofs.      *)

LEMMA SameOperators ==
  ASSUME NEW p, NEW st, NEW x, NEW s
  PROVE  /\ R!Issue(p, st, x) = Issue(p, st, x)
         /\ R!Land(p, s) = Land(p, s)
         /\ R!Release(p, st, x) = Release(p, st, x)
         /\ R!Advance(st) = Advance(st)
         /\ R!Passed(st, s) = Passed(st, s)
         /\ R!FullReady(p, st) = FullReady(p, st)
         /\ R!AcquireReady(p, st) = AcquireReady(p, st)
         /\ R!AllReleased(p, st) = AllReleased(p, st)
         /\ R!PipelineStorage(x) = PipelineStorage(x)
         /\ R!PipelineState = PipelineState
         /\ R!Stages = Stages
         /\ R!EmptyPipeline = EmptyPipeline
         /\ R!StartState = StartState
  BY DEF Issue, R!Issue, Land, R!Land, Release, R!Release, Advance, R!Advance,
         Passed, R!Passed, FullReady, R!FullReady, AcquireReady, R!AcquireReady,
         AllReleased, R!AllReleased, PhaseOver, R!PhaseOver, ConsumerPhase, R!ConsumerPhase,
         ProducerPhase, R!ProducerPhase, PipelineStorage, R!PipelineStorage,
         PipelineState, R!PipelineState, Stages, R!Stages, EmptyPipeline, R!EmptyPipeline,
         StartState, R!StartState

LEMMA SomeWarpGroup == 0 \in WarpGroups /\ WarpGroups # {} /\ Storer \in WarpGroups
  BY DEF WarpGroups, Storer

LEMMA NextPosition ==
  ASSUME NEW st \in PipelineState
  PROVE  /\ Advance(st) \in PipelineState
         /\ R!Pos(st) \in Nat
         /\ R!Pos(Advance(st)) = R!Pos(st) + 1
         /\ st.index \in Stages
<1>1. st \in R!PipelineState BY SameOperators
<1>2. R!Advance(st) \in R!PipelineState BY <1>1, SomeWarpGroup, R!AdvancePasses
<1>3. R!Pos(st) \in Nat /\ R!Pos(R!Advance(st)) = R!Pos(st) + 1
  BY <1>1, SomeWarpGroup, R!PosAdvance
<1>4. st.index \in R!Stages BY <1>1, SomeWarpGroup, R!PassedOwnStage
<1> QED BY <1>2, <1>3, <1>4, SameOperators

LEMMA FirstPosition == StartState \in PipelineState /\ R!Pos(StartState) = 0
<1>1. StartState \in PipelineState BY DEF StartState, PipelineState, Stages
<1> QED BY <1>1, SomeWarpGroup, SameOperators, R!PosStart

LEMMA StorageKept ==
  ASSUME NEW p \in PipelineStorage(Block), NEW st \in PipelineState, NEW b \in Block,
         NEW g \in WarpGroups, NEW s \in Stages
  PROVE  /\ Issue(p, st, b) \in PipelineStorage(Block)
         /\ Land(p, s) \in PipelineStorage(Block)
         /\ Release(p, st, g) \in PipelineStorage(Block)
<1>1. /\ p \in R!PipelineStorage(Block) /\ st \in R!PipelineState /\ s \in R!Stages
  BY SameOperators
<1>2. R!Issue(p, st, b) \in R!PipelineStorage(Block)
  BY <1>1, SomeWarpGroup, R!IssueFields
<1>3. R!Land(p, s) \in R!PipelineStorage(Block)
  BY <1>1, SomeWarpGroup, R!LandFields
<1>4. R!Release(p, st, g) \in R!PipelineStorage(Block)
  BY <1>1, SomeWarpGroup, R!ReleaseFields
<1> QED BY <1>2, <1>3, <1>4, SameOperators

-----------------------------------------------------------------------------
(* What the actions do to the producer and the warpgroups.                 *)

LEMMA TypedWarpGroups ==
  ASSUME TypeOK
  PROVE  /\ producer \in ProducerRecord
         /\ wg \in [WarpGroups -> WarpGroupRecord]
         /\ \A g \in WarpGroups : wg[g] \in WarpGroupRecord
         /\ \A g \in WarpGroups :
              /\ wg[g].at \in WarpGroupLabels /\ wg[g].tile \in Nat /\ wg[g].i \in Nat
              /\ wg[g].work_idx \in Nat /\ wg[g].read \in PipelineState
              /\ wg[g].read_v \in PipelineState
              /\ wg[g].s \in Scores /\ wg[g].p \in Scores /\ wg[g].acc \in Result
<1>1. producer \in ProducerRecord /\ wg \in [WarpGroups -> WarpGroupRecord]
  BY DEF TypeOK, ProducerRecord, WarpGroupRecord
<1> QED BY <1>1 DEF WarpGroupRecord

(* Warpgroup g and no other moves; to this label, tile and so on.          *)
Moves(g, at, tile, i, work_idx, read, read_v) ==
  /\ launch' = launch
  /\ producer' = producer
  /\ wg' \in [WarpGroups -> WarpGroupRecord]
  /\ \A h \in WarpGroups : h # g => wg'[h] = wg[h]
  /\ wg'[g].at = at
  /\ wg'[g].tile = tile
  /\ wg'[g].i = i
  /\ wg'[g].work_idx = work_idx
  /\ wg'[g].read = read
  /\ wg'[g].read_v = read_v

Computes(g, s, p, acc) == wg'[g].s = s /\ wg'[g].p = p /\ wg'[g].acc = acc

LEMMA OneMoves ==
  ASSUME TypeOK, NEW g \in WarpGroups, NEW r \in WarpGroupRecord,
         wg' = [wg EXCEPT ![g] = r], launch' = launch, producer' = producer
  PROVE  /\ Moves(g, r.at, r.tile, r.i, r.work_idx, r.read, r.read_v)
         /\ Computes(g, r.s, r.p, r.acc)
<1>1. wg \in [WarpGroups -> WarpGroupRecord] BY TypedWarpGroups
<1>2. /\ wg' \in [WarpGroups -> WarpGroupRecord] /\ wg'[g] = r
      /\ \A h \in WarpGroups : h # g => wg'[h] = wg[h]
  BY <1>1
<1> QED BY <1>2 DEF Moves, Computes

LEMMA ScoreTypes ==
  ASSUME TypeOK, NEW st \in PipelineState
  PROVE  /\ Score(st) \in ScoreRecord
         /\ kpipe.data[st.index] \in Block \cup {NoBlock}
         /\ vpipe.data[st.index] \in Block \cup {NoBlock}
<1>1. st.index \in Stages BY NextPosition
<1>2. /\ kpipe.data \in [Stages -> Block \cup {NoBlock}]
      /\ vpipe.data \in [Stages -> Block \cup {NoBlock}]
      /\ query.data \in Nat \cup {NoBlock}
  BY DEF TypeOK, PipelineStorage
<1> QED BY <1>1, <1>2 DEF Score, ScoreRecord

LEMMA AccumulateType ==
  ASSUME TypeOK, NEW g \in WarpGroups, NEW st \in PipelineState,
         wg[g].p \in ScoreRecord, wg[g].acc \in Seq(Term)
  PROVE  Accumulate(wg[g], st) \in Seq(Term)
<1> DEFINE x == [q |-> wg[g].p.q, k |-> wg[g].p.k, v |-> vpipe.data[st.index]]
<1>1. x \in Term BY ScoreTypes DEF ScoreRecord, Term
<1>2. Append(wg[g].acc, x) \in Seq(Term) BY <1>1
<1> QED BY <1>2 DEF Accumulate

LEMMA RecordTypes ==
  /\ ScoreRecord \subseteq Scores /\ NoBlock \in Scores
  /\ Seq(Term) \subseteq Result /\ NoBlock \in Result /\ << >> \in Seq(Term)
  /\ << >> \in Result
  BY DEF ScoreRecord, Scores, Result


LEMMA MmaInitMoves ==
  ASSUME Places, NEW g \in WarpGroups, MmaInit(g)
  PROVE  /\ wg[g].at = "init"
         /\ Moves(g, "mma", wg[g].tile, wg[g].i, wg[g].work_idx,
                  wg[g].read, wg[g].read_v)
         /\ Computes(g, wg[g].s, wg[g].p, wg[g].acc)
<1> DEFINE r == [wg[g] EXCEPT !.at = "mma"]
<1>1. /\ wg[g] \in WarpGroupRecord /\ TypeOK
      /\ wg[g].tile \in Nat /\ wg[g].i \in Nat /\ wg[g].work_idx \in Nat
      /\ wg[g].read \in PipelineState /\ wg[g].read_v \in PipelineState
      /\ wg[g].s \in Scores /\ wg[g].p \in Scores /\ wg[g].acc \in Result
  BY TypedWarpGroups DEF Places
<1>3. /\ r \in WarpGroupRecord
      /\ r.at = "mma"
      /\ r.tile = wg[g].tile
      /\ r.i = wg[g].i
      /\ r.work_idx = wg[g].work_idx
      /\ r.read = wg[g].read
      /\ r.read_v = wg[g].read_v
      /\ r.s = wg[g].s
      /\ r.p = wg[g].p
      /\ r.acc = wg[g].acc
  BY <1>1, RecordTypes DEF WarpGroupRecord, WarpGroupLabels
<1>4. wg' = [wg EXCEPT ![g] = r] /\ launch' = launch /\ producer' = producer
  BY <1>1 DEF MmaInit
<1> HIDE DEF r
<1>5. /\ Moves(g, r.at, r.tile, r.i, r.work_idx, r.read, r.read_v)
      /\ Computes(g, r.s, r.p, r.acc)
  BY <1>1, <1>3, <1>4, OneMoves
<1> QED BY <1>3, <1>5 DEF MmaInit

LEMMA StoreZeroMoves ==
  ASSUME Places, NEW g \in WarpGroups, StoreZero(g)
  PROVE  /\ wg[g].at = "mma" /\ wg[g].tile \in Tiles
         /\ Moves(g, "mma", wg[g].tile + 1, wg[g].i, wg[g].work_idx,
                  wg[g].read, wg[g].read_v)
         /\ Computes(g, wg[g].s, wg[g].p, wg[g].acc)
<1> DEFINE n == wg[g].tile + 1
<1> DEFINE r == [wg[g] EXCEPT !.at = "mma", !.tile = n]
<1>1. /\ wg[g] \in WarpGroupRecord /\ TypeOK
      /\ wg[g].tile \in Nat /\ wg[g].i \in Nat /\ wg[g].work_idx \in Nat
      /\ wg[g].read \in PipelineState /\ wg[g].read_v \in PipelineState
      /\ wg[g].s \in Scores /\ wg[g].p \in Scores /\ wg[g].acc \in Result
  BY TypedWarpGroups DEF Places
<1>0. n \in Nat BY <1>1
<1> HIDE DEF n
<1>3. /\ r \in WarpGroupRecord
      /\ r.at = "mma"
      /\ r.tile = n
      /\ r.i = wg[g].i
      /\ r.work_idx = wg[g].work_idx
      /\ r.read = wg[g].read
      /\ r.read_v = wg[g].read_v
      /\ r.s = wg[g].s
      /\ r.p = wg[g].p
      /\ r.acc = wg[g].acc
  BY <1>1, <1>0, RecordTypes DEF WarpGroupRecord, WarpGroupLabels
<1>4. wg' = [wg EXCEPT ![g] = r] /\ launch' = launch /\ producer' = producer
  BY <1>1, <1>0 DEF StoreZero, n, ToNextTile, At
<1> HIDE DEF r
<1>5. /\ Moves(g, r.at, r.tile, r.i, r.work_idx, r.read, r.read_v)
      /\ Computes(g, r.s, r.p, r.acc)
  BY <1>1, <1>3, <1>4, OneMoves
<1> QED BY <1>3, <1>5 DEF StoreZero, n, At

LEMMA WaitQMoves ==
  ASSUME Places, NEW g \in WarpGroups, WaitQ(g)
  PROVE  /\ wg[g].at = "mma" /\ wg[g].tile \in Tiles
         /\ Moves(g, "first_QK", wg[g].tile, wg[g].i, wg[g].work_idx,
                  wg[g].read, wg[g].read_v)
         /\ Computes(g, wg[g].s, wg[g].p, wg[g].acc)
<1> DEFINE r == [wg[g] EXCEPT !.at = "first_QK"]
<1>1. /\ wg[g] \in WarpGroupRecord /\ TypeOK
      /\ wg[g].tile \in Nat /\ wg[g].i \in Nat /\ wg[g].work_idx \in Nat
      /\ wg[g].read \in PipelineState /\ wg[g].read_v \in PipelineState
      /\ wg[g].s \in Scores /\ wg[g].p \in Scores /\ wg[g].acc \in Result
  BY TypedWarpGroups DEF Places
<1>3. /\ r \in WarpGroupRecord
      /\ r.at = "first_QK"
      /\ r.tile = wg[g].tile
      /\ r.i = wg[g].i
      /\ r.work_idx = wg[g].work_idx
      /\ r.read = wg[g].read
      /\ r.read_v = wg[g].read_v
      /\ r.s = wg[g].s
      /\ r.p = wg[g].p
      /\ r.acc = wg[g].acc
  BY <1>1, RecordTypes DEF WarpGroupRecord, WarpGroupLabels
<1>4. wg' = [wg EXCEPT ![g] = r] /\ launch' = launch /\ producer' = producer
  BY <1>1 DEF WaitQ, At
<1> HIDE DEF r
<1>5. /\ Moves(g, r.at, r.tile, r.i, r.work_idx, r.read, r.read_v)
      /\ Computes(g, r.s, r.p, r.acc)
  BY <1>1, <1>3, <1>4, OneMoves
<1> QED BY <1>3, <1>5 DEF WaitQ, At

LEMMA FirstQKMoves ==
  ASSUME Places, NEW g \in WarpGroups, FirstQK(g)
  PROVE  /\ wg[g].at = "first_QK" /\ wg[g].tile \in Tiles
         /\ Moves(g, "first_softmax", wg[g].tile, wg[g].i, wg[g].work_idx,
                  wg[g].read, wg[g].read_v)
         /\ Computes(g, Score(wg[g].read), wg[g].p, wg[g].acc)
<1> DEFINE r == [wg[g] EXCEPT !.at = "first_softmax", !.s = Score(wg[g].read)]
<1>1. /\ wg[g] \in WarpGroupRecord /\ TypeOK
      /\ wg[g].tile \in Nat /\ wg[g].i \in Nat /\ wg[g].work_idx \in Nat
      /\ wg[g].read \in PipelineState /\ wg[g].read_v \in PipelineState
      /\ wg[g].s \in Scores /\ wg[g].p \in Scores /\ wg[g].acc \in Result
  BY TypedWarpGroups DEF Places
<1>2. Score(wg[g].read) \in Scores BY <1>1, ScoreTypes, RecordTypes
<1>3. /\ r \in WarpGroupRecord
      /\ r.at = "first_softmax"
      /\ r.tile = wg[g].tile
      /\ r.i = wg[g].i
      /\ r.work_idx = wg[g].work_idx
      /\ r.read = wg[g].read
      /\ r.read_v = wg[g].read_v
      /\ r.s = Score(wg[g].read)
      /\ r.p = wg[g].p
      /\ r.acc = wg[g].acc
  BY <1>1, <1>2, RecordTypes DEF WarpGroupRecord, WarpGroupLabels
<1>4. wg' = [wg EXCEPT ![g] = r] /\ launch' = launch /\ producer' = producer
  BY <1>1, <1>2 DEF FirstQK, At
<1> HIDE DEF r
<1>5. /\ Moves(g, r.at, r.tile, r.i, r.work_idx, r.read, r.read_v)
      /\ Computes(g, r.s, r.p, r.acc)
  BY <1>1, <1>3, <1>4, OneMoves
<1> QED BY <1>3, <1>5 DEF FirstQK, At

LEMMA FirstSoftmaxMoves ==
  ASSUME Places, NEW g \in WarpGroups, FirstSoftmax(g)
  PROVE  /\ wg[g].at = "first_softmax" /\ wg[g].tile \in Tiles
         /\ Moves(g, "step", wg[g].tile, 1, wg[g].work_idx,
                  wg[g].read, wg[g].read_v)
         /\ Computes(g, NoBlock, wg[g].s, << >>)
<1> DEFINE r == [wg[g] EXCEPT !.at = "step", !.p = wg[g].s, !.s = NoBlock, !.acc = << >>, !.i = 1]
<1>1. /\ wg[g] \in WarpGroupRecord /\ TypeOK
      /\ wg[g].tile \in Nat /\ wg[g].i \in Nat /\ wg[g].work_idx \in Nat
      /\ wg[g].read \in PipelineState /\ wg[g].read_v \in PipelineState
      /\ wg[g].s \in Scores /\ wg[g].p \in Scores /\ wg[g].acc \in Result
  BY TypedWarpGroups DEF Places
<1>3. /\ r \in WarpGroupRecord
      /\ r.at = "step"
      /\ r.tile = wg[g].tile
      /\ r.i = 1
      /\ r.work_idx = wg[g].work_idx
      /\ r.read = wg[g].read
      /\ r.read_v = wg[g].read_v
      /\ r.s = NoBlock
      /\ r.p = wg[g].s
      /\ r.acc = << >>
  BY <1>1, RecordTypes DEF WarpGroupRecord, WarpGroupLabels
<1>4. wg' = [wg EXCEPT ![g] = r] /\ launch' = launch /\ producer' = producer
  BY <1>1 DEF FirstSoftmax, At
<1> HIDE DEF r
<1>5. /\ Moves(g, r.at, r.tile, r.i, r.work_idx, r.read, r.read_v)
      /\ Computes(g, r.s, r.p, r.acc)
  BY <1>1, <1>3, <1>4, OneMoves
<1> QED BY <1>3, <1>5 DEF FirstSoftmax, At

LEMMA StepQKMoves ==
  ASSUME Places, NEW g \in WarpGroups, StepQK(g)
  PROVE  /\ wg[g].at = "step" /\ wg[g].tile \in Tiles
         /\ Moves(g, "step_PV", wg[g].tile, wg[g].i, wg[g].work_idx,
                  Advance(wg[g].read), wg[g].read)
         /\ Computes(g, Score(Advance(wg[g].read)), wg[g].p, wg[g].acc)
<1> DEFINE r == [wg[g] EXCEPT !.at = "step_PV", !.s = Score(Advance(wg[g].read)), !.read = Advance(wg[g].read), !.read_v = wg[g].read]
<1>1. /\ wg[g] \in WarpGroupRecord /\ TypeOK
      /\ wg[g].tile \in Nat /\ wg[g].i \in Nat /\ wg[g].work_idx \in Nat
      /\ wg[g].read \in PipelineState /\ wg[g].read_v \in PipelineState
      /\ wg[g].s \in Scores /\ wg[g].p \in Scores /\ wg[g].acc \in Result
  BY TypedWarpGroups DEF Places
<1>2. Advance(wg[g].read) \in PipelineState /\ Score(Advance(wg[g].read)) \in Scores
  BY <1>1, NextPosition, ScoreTypes, RecordTypes
<1>3. /\ r \in WarpGroupRecord
      /\ r.at = "step_PV"
      /\ r.tile = wg[g].tile
      /\ r.i = wg[g].i
      /\ r.work_idx = wg[g].work_idx
      /\ r.read = Advance(wg[g].read)
      /\ r.read_v = wg[g].read
      /\ r.s = Score(Advance(wg[g].read))
      /\ r.p = wg[g].p
      /\ r.acc = wg[g].acc
  BY <1>1, <1>2, RecordTypes DEF WarpGroupRecord, WarpGroupLabels
<1>4. wg' = [wg EXCEPT ![g] = r] /\ launch' = launch /\ producer' = producer
  BY <1>1, <1>2 DEF StepQK, At
<1> HIDE DEF r
<1>5. /\ Moves(g, r.at, r.tile, r.i, r.work_idx, r.read, r.read_v)
      /\ Computes(g, r.s, r.p, r.acc)
  BY <1>1, <1>3, <1>4, OneMoves
<1> QED BY <1>3, <1>5 DEF StepQK, At

LEMMA StepPVMoves ==
  ASSUME Places, NEW g \in WarpGroups, StepPV(g)
  PROVE  /\ wg[g].at = "step_PV" /\ wg[g].tile \in Tiles
         /\ Moves(g, "step_softmax", wg[g].tile, wg[g].i, wg[g].work_idx,
                  wg[g].read, wg[g].read_v)
         /\ Computes(g, wg[g].s, wg[g].p, Accumulate(wg[g], wg[g].read_v))
<1> DEFINE r == [wg[g] EXCEPT !.at = "step_softmax", !.acc = Accumulate(wg[g], wg[g].read_v)]
<1>1. /\ wg[g] \in WarpGroupRecord /\ TypeOK
      /\ wg[g].tile \in Nat /\ wg[g].i \in Nat /\ wg[g].work_idx \in Nat
      /\ wg[g].read \in PipelineState /\ wg[g].read_v \in PipelineState
      /\ wg[g].s \in Scores /\ wg[g].p \in Scores /\ wg[g].acc \in Result
  BY TypedWarpGroups DEF Places
<1>2. Accumulate(wg[g], wg[g].read_v) \in Result
  BY <1>1, AccumulateType, RecordTypes DEF Places, Equipped, InStep, At, StepPV
<1>3. /\ r \in WarpGroupRecord
      /\ r.at = "step_softmax"
      /\ r.tile = wg[g].tile
      /\ r.i = wg[g].i
      /\ r.work_idx = wg[g].work_idx
      /\ r.read = wg[g].read
      /\ r.read_v = wg[g].read_v
      /\ r.s = wg[g].s
      /\ r.p = wg[g].p
      /\ r.acc = Accumulate(wg[g], wg[g].read_v)
  BY <1>1, <1>2, RecordTypes DEF WarpGroupRecord, WarpGroupLabels
<1>4. wg' = [wg EXCEPT ![g] = r] /\ launch' = launch /\ producer' = producer
  BY <1>1, <1>2 DEF StepPV, At
<1> HIDE DEF r
<1>5. /\ Moves(g, r.at, r.tile, r.i, r.work_idx, r.read, r.read_v)
      /\ Computes(g, r.s, r.p, r.acc)
  BY <1>1, <1>3, <1>4, OneMoves
<1> QED BY <1>3, <1>5 DEF StepPV, At

LEMMA StepReleaseKMoves ==
  ASSUME Places, NEW g \in WarpGroups, StepReleaseK(g)
  PROVE  /\ wg[g].at = "step_softmax" /\ wg[g].tile \in Tiles
         /\ Moves(g, "step_end", wg[g].tile, wg[g].i, wg[g].work_idx,
                  wg[g].read, wg[g].read_v)
         /\ Computes(g, wg[g].s, wg[g].p, wg[g].acc)
<1> DEFINE r == [wg[g] EXCEPT !.at = "step_end"]
<1>1. /\ wg[g] \in WarpGroupRecord /\ TypeOK
      /\ wg[g].tile \in Nat /\ wg[g].i \in Nat /\ wg[g].work_idx \in Nat
      /\ wg[g].read \in PipelineState /\ wg[g].read_v \in PipelineState
      /\ wg[g].s \in Scores /\ wg[g].p \in Scores /\ wg[g].acc \in Result
  BY TypedWarpGroups DEF Places
<1>3. /\ r \in WarpGroupRecord
      /\ r.at = "step_end"
      /\ r.tile = wg[g].tile
      /\ r.i = wg[g].i
      /\ r.work_idx = wg[g].work_idx
      /\ r.read = wg[g].read
      /\ r.read_v = wg[g].read_v
      /\ r.s = wg[g].s
      /\ r.p = wg[g].p
      /\ r.acc = wg[g].acc
  BY <1>1, RecordTypes DEF WarpGroupRecord, WarpGroupLabels
<1>4. wg' = [wg EXCEPT ![g] = r] /\ launch' = launch /\ producer' = producer
  BY <1>1 DEF StepReleaseK, At
<1> HIDE DEF r
<1>5. /\ Moves(g, r.at, r.tile, r.i, r.work_idx, r.read, r.read_v)
      /\ Computes(g, r.s, r.p, r.acc)
  BY <1>1, <1>3, <1>4, OneMoves
<1> QED BY <1>3, <1>5 DEF StepReleaseK, At

LEMMA StepReleaseVMoves ==
  ASSUME Places, NEW g \in WarpGroups, StepReleaseV(g)
  PROVE  /\ wg[g].at = "step_end" /\ wg[g].tile \in Tiles
         /\ Moves(g, "step", wg[g].tile, wg[g].i + 1, wg[g].work_idx,
                  wg[g].read, wg[g].read_v)
         /\ Computes(g, NoBlock, wg[g].s, wg[g].acc)
<1> DEFINE n == wg[g].i + 1
<1> DEFINE r == [wg[g] EXCEPT !.at = "step", !.p = wg[g].s, !.s = NoBlock, !.i = n]
<1>1. /\ wg[g] \in WarpGroupRecord /\ TypeOK
      /\ wg[g].tile \in Nat /\ wg[g].i \in Nat /\ wg[g].work_idx \in Nat
      /\ wg[g].read \in PipelineState /\ wg[g].read_v \in PipelineState
      /\ wg[g].s \in Scores /\ wg[g].p \in Scores /\ wg[g].acc \in Result
  BY TypedWarpGroups DEF Places
<1>0. n \in Nat BY <1>1
<1> HIDE DEF n
<1>3. /\ r \in WarpGroupRecord
      /\ r.at = "step"
      /\ r.tile = wg[g].tile
      /\ r.i = n
      /\ r.work_idx = wg[g].work_idx
      /\ r.read = wg[g].read
      /\ r.read_v = wg[g].read_v
      /\ r.s = NoBlock
      /\ r.p = wg[g].s
      /\ r.acc = wg[g].acc
  BY <1>1, <1>0, RecordTypes DEF WarpGroupRecord, WarpGroupLabels
<1>4. wg' = [wg EXCEPT ![g] = r] /\ launch' = launch /\ producer' = producer
  BY <1>1, <1>0 DEF StepReleaseV, n, At
<1> HIDE DEF r
<1>5. /\ Moves(g, r.at, r.tile, r.i, r.work_idx, r.read, r.read_v)
      /\ Computes(g, r.s, r.p, r.acc)
  BY <1>1, <1>3, <1>4, OneMoves
<1> QED BY <1>3, <1>5 DEF StepReleaseV, n, At

LEMMA QueryDoneMoves ==
  ASSUME Places, NEW g \in WarpGroups, QueryDone(g)
  PROVE  /\ wg[g].at = "step" /\ wg[g].tile \in Tiles
         /\ Moves(g, "last_PV", wg[g].tile, wg[g].i, wg[g].work_idx,
                  wg[g].read, wg[g].read_v)
         /\ Computes(g, wg[g].s, wg[g].p, wg[g].acc)
<1> DEFINE r == [wg[g] EXCEPT !.at = "last_PV"]
<1>1. /\ wg[g] \in WarpGroupRecord /\ TypeOK
      /\ wg[g].tile \in Nat /\ wg[g].i \in Nat /\ wg[g].work_idx \in Nat
      /\ wg[g].read \in PipelineState /\ wg[g].read_v \in PipelineState
      /\ wg[g].s \in Scores /\ wg[g].p \in Scores /\ wg[g].acc \in Result
  BY TypedWarpGroups DEF Places
<1>3. /\ r \in WarpGroupRecord
      /\ r.at = "last_PV"
      /\ r.tile = wg[g].tile
      /\ r.i = wg[g].i
      /\ r.work_idx = wg[g].work_idx
      /\ r.read = wg[g].read
      /\ r.read_v = wg[g].read_v
      /\ r.s = wg[g].s
      /\ r.p = wg[g].p
      /\ r.acc = wg[g].acc
  BY <1>1, RecordTypes DEF WarpGroupRecord, WarpGroupLabels
<1>4. wg' = [wg EXCEPT ![g] = r] /\ launch' = launch /\ producer' = producer
  BY <1>1 DEF QueryDone, At
<1> HIDE DEF r
<1>5. /\ Moves(g, r.at, r.tile, r.i, r.work_idx, r.read, r.read_v)
      /\ Computes(g, r.s, r.p, r.acc)
  BY <1>1, <1>3, <1>4, OneMoves
<1> QED BY <1>3, <1>5 DEF QueryDone, At

LEMMA LastPVMoves ==
  ASSUME Places, NEW g \in WarpGroups, LastPV(g)
  PROVE  /\ wg[g].at = "last_PV" /\ wg[g].tile \in Tiles
         /\ Moves(g, "last_end", wg[g].tile, wg[g].i, wg[g].work_idx,
                  wg[g].read, wg[g].read_v)
         /\ Computes(g, wg[g].s, wg[g].p, Accumulate(wg[g], wg[g].read))
<1> DEFINE r == [wg[g] EXCEPT !.at = "last_end", !.acc = Accumulate(wg[g], wg[g].read)]
<1>1. /\ wg[g] \in WarpGroupRecord /\ TypeOK
      /\ wg[g].tile \in Nat /\ wg[g].i \in Nat /\ wg[g].work_idx \in Nat
      /\ wg[g].read \in PipelineState /\ wg[g].read_v \in PipelineState
      /\ wg[g].s \in Scores /\ wg[g].p \in Scores /\ wg[g].acc \in Result
  BY TypedWarpGroups DEF Places
<1>2. Accumulate(wg[g], wg[g].read) \in Result
  BY <1>1, AccumulateType, RecordTypes DEF Places, Equipped, AfterLoop, At, LastPV
<1>3. /\ r \in WarpGroupRecord
      /\ r.at = "last_end"
      /\ r.tile = wg[g].tile
      /\ r.i = wg[g].i
      /\ r.work_idx = wg[g].work_idx
      /\ r.read = wg[g].read
      /\ r.read_v = wg[g].read_v
      /\ r.s = wg[g].s
      /\ r.p = wg[g].p
      /\ r.acc = Accumulate(wg[g], wg[g].read)
  BY <1>1, <1>2, RecordTypes DEF WarpGroupRecord, WarpGroupLabels
<1>4. wg' = [wg EXCEPT ![g] = r] /\ launch' = launch /\ producer' = producer
  BY <1>1, <1>2 DEF LastPV, At
<1> HIDE DEF r
<1>5. /\ Moves(g, r.at, r.tile, r.i, r.work_idx, r.read, r.read_v)
      /\ Computes(g, r.s, r.p, r.acc)
  BY <1>1, <1>3, <1>4, OneMoves
<1> QED BY <1>3, <1>5 DEF LastPV, At

LEMMA LastReleaseVMoves ==
  ASSUME Places, NEW g \in WarpGroups, LastReleaseV(g)
  PROVE  /\ wg[g].at = "last_end" /\ wg[g].tile \in Tiles
         /\ Moves(g, "epilogue", wg[g].tile, wg[g].i, wg[g].work_idx + 1,
                  Advance(wg[g].read), wg[g].read_v)
         /\ Computes(g, wg[g].s, NoBlock, wg[g].acc)
<1> DEFINE n == wg[g].work_idx + 1
<1> DEFINE r == [wg[g] EXCEPT !.at = "epilogue", !.p = NoBlock, !.read = Advance(wg[g].read), !.work_idx = n]
<1>1. /\ wg[g] \in WarpGroupRecord /\ TypeOK
      /\ wg[g].tile \in Nat /\ wg[g].i \in Nat /\ wg[g].work_idx \in Nat
      /\ wg[g].read \in PipelineState /\ wg[g].read_v \in PipelineState
      /\ wg[g].s \in Scores /\ wg[g].p \in Scores /\ wg[g].acc \in Result
  BY TypedWarpGroups DEF Places
<1>2. Advance(wg[g].read) \in PipelineState BY <1>1, NextPosition
<1>0. n \in Nat BY <1>1
<1> HIDE DEF n
<1>3. /\ r \in WarpGroupRecord
      /\ r.at = "epilogue"
      /\ r.tile = wg[g].tile
      /\ r.i = wg[g].i
      /\ r.work_idx = n
      /\ r.read = Advance(wg[g].read)
      /\ r.read_v = wg[g].read_v
      /\ r.s = wg[g].s
      /\ r.p = NoBlock
      /\ r.acc = wg[g].acc
  BY <1>1, <1>2, <1>0, RecordTypes DEF WarpGroupRecord, WarpGroupLabels
<1>4. wg' = [wg EXCEPT ![g] = r] /\ launch' = launch /\ producer' = producer
  BY <1>1, <1>2, <1>0 DEF LastReleaseV, n, At
<1> HIDE DEF r
<1>5. /\ Moves(g, r.at, r.tile, r.i, r.work_idx, r.read, r.read_v)
      /\ Computes(g, r.s, r.p, r.acc)
  BY <1>1, <1>3, <1>4, OneMoves
<1> QED BY <1>3, <1>5 DEF LastReleaseV, n, At

LEMMA BeginTmaStoreMoves ==
  ASSUME Places, NEW g \in WarpGroups, BeginTmaStore(g)
  PROVE  /\ wg[g].at = "store_O" /\ wg[g].tile \in Tiles
         /\ Moves(g, "storing_O", wg[g].tile, wg[g].i, wg[g].work_idx,
                  wg[g].read, wg[g].read_v)
         /\ Computes(g, wg[g].s, wg[g].p, wg[g].acc)
<1> DEFINE r == [wg[g] EXCEPT !.at = "storing_O"]
<1>1. /\ wg[g] \in WarpGroupRecord /\ TypeOK
      /\ wg[g].tile \in Nat /\ wg[g].i \in Nat /\ wg[g].work_idx \in Nat
      /\ wg[g].read \in PipelineState /\ wg[g].read_v \in PipelineState
      /\ wg[g].s \in Scores /\ wg[g].p \in Scores /\ wg[g].acc \in Result
  BY TypedWarpGroups DEF Places
<1>3. /\ r \in WarpGroupRecord
      /\ r.at = "storing_O"
      /\ r.tile = wg[g].tile
      /\ r.i = wg[g].i
      /\ r.work_idx = wg[g].work_idx
      /\ r.read = wg[g].read
      /\ r.read_v = wg[g].read_v
      /\ r.s = wg[g].s
      /\ r.p = wg[g].p
      /\ r.acc = wg[g].acc
  BY <1>1, RecordTypes DEF WarpGroupRecord, WarpGroupLabels
<1>4. wg' = [wg EXCEPT ![g] = r] /\ launch' = launch /\ producer' = producer
  BY <1>1 DEF BeginTmaStore, At
<1> HIDE DEF r
<1>5. /\ Moves(g, r.at, r.tile, r.i, r.work_idx, r.read, r.read_v)
      /\ Computes(g, r.s, r.p, r.acc)
  BY <1>1, <1>3, <1>4, OneMoves
<1> QED BY <1>3, <1>5 DEF BeginTmaStore, At

LEMMA EndTmaStoreMoves ==
  ASSUME Places, NEW g \in WarpGroups, EndTmaStore(g)
  PROVE  /\ wg[g].at = "storing_O" /\ wg[g].tile \in Tiles
         /\ Moves(g, "mma", wg[g].tile + 1, wg[g].i, wg[g].work_idx,
                  wg[g].read, wg[g].read_v)
         /\ Computes(g, wg[g].s, wg[g].p, wg[g].acc)
<1> DEFINE n == wg[g].tile + 1
<1> DEFINE r == [wg[g] EXCEPT !.at = "mma", !.tile = n]
<1>1. /\ wg[g] \in WarpGroupRecord /\ TypeOK
      /\ wg[g].tile \in Nat /\ wg[g].i \in Nat /\ wg[g].work_idx \in Nat
      /\ wg[g].read \in PipelineState /\ wg[g].read_v \in PipelineState
      /\ wg[g].s \in Scores /\ wg[g].p \in Scores /\ wg[g].acc \in Result
  BY TypedWarpGroups DEF Places
<1>0. n \in Nat BY <1>1
<1> HIDE DEF n
<1>3. /\ r \in WarpGroupRecord
      /\ r.at = "mma"
      /\ r.tile = n
      /\ r.i = wg[g].i
      /\ r.work_idx = wg[g].work_idx
      /\ r.read = wg[g].read
      /\ r.read_v = wg[g].read_v
      /\ r.s = wg[g].s
      /\ r.p = wg[g].p
      /\ r.acc = wg[g].acc
  BY <1>1, <1>0, RecordTypes DEF WarpGroupRecord, WarpGroupLabels
<1>4. wg' = [wg EXCEPT ![g] = r] /\ launch' = launch /\ producer' = producer
  BY <1>1, <1>0 DEF EndTmaStore, n, ToNextTile, At
<1> HIDE DEF r
<1>5. /\ Moves(g, r.at, r.tile, r.i, r.work_idx, r.read, r.read_v)
      /\ Computes(g, r.s, r.p, r.acc)
  BY <1>1, <1>3, <1>4, OneMoves
<1> QED BY <1>3, <1>5 DEF EndTmaStore, n, At

LEMMA ReadOMoves ==
  ASSUME Places, NEW g \in WarpGroups, ReadO(g)
  PROVE  /\ wg[g].at = "read_O" /\ wg[g].tile \in Tiles
         /\ Moves(g, "arrive_O", wg[g].tile, wg[g].i, wg[g].work_idx,
                  wg[g].read, wg[g].read_v)
         /\ Computes(g, wg[g].s, wg[g].p, SmemOTile)
<1> DEFINE r == [wg[g] EXCEPT !.at = "arrive_O", !.acc = SmemOTile]
<1>1. /\ wg[g] \in WarpGroupRecord /\ TypeOK
      /\ wg[g].tile \in Nat /\ wg[g].i \in Nat /\ wg[g].work_idx \in Nat
      /\ wg[g].read \in PipelineState /\ wg[g].read_v \in PipelineState
      /\ wg[g].s \in Scores /\ wg[g].p \in Scores /\ wg[g].acc \in Result
  BY TypedWarpGroups DEF Places
<1>2. SmemOTile \in Result BY SomeWarpGroup, RecordTypes DEF Places, TypeOK, SmemOTile
<1>3. /\ r \in WarpGroupRecord
      /\ r.at = "arrive_O"
      /\ r.tile = wg[g].tile
      /\ r.i = wg[g].i
      /\ r.work_idx = wg[g].work_idx
      /\ r.read = wg[g].read
      /\ r.read_v = wg[g].read_v
      /\ r.s = wg[g].s
      /\ r.p = wg[g].p
      /\ r.acc = SmemOTile
  BY <1>1, <1>2, RecordTypes DEF WarpGroupRecord, WarpGroupLabels
<1>4. wg' = [wg EXCEPT ![g] = r] /\ launch' = launch /\ producer' = producer
  BY <1>1, <1>2 DEF ReadO, At
<1> HIDE DEF r
<1>5. /\ Moves(g, r.at, r.tile, r.i, r.work_idx, r.read, r.read_v)
      /\ Computes(g, r.s, r.p, r.acc)
  BY <1>1, <1>3, <1>4, OneMoves
<1> QED BY <1>3, <1>5 DEF ReadO, At

LEMMA ArriveOMoves ==
  ASSUME Places, NEW g \in WarpGroups, ArriveO(g)
  PROVE  /\ wg[g].at = "arrive_O" /\ wg[g].tile \in Tiles
         /\ Moves(g, "mma", wg[g].tile + 1, wg[g].i, wg[g].work_idx,
                  wg[g].read, wg[g].read_v)
         /\ Computes(g, wg[g].s, wg[g].p, wg[g].acc)
<1> DEFINE n == wg[g].tile + 1
<1> DEFINE r == [wg[g] EXCEPT !.at = "mma", !.tile = n]
<1>1. /\ wg[g] \in WarpGroupRecord /\ TypeOK
      /\ wg[g].tile \in Nat /\ wg[g].i \in Nat /\ wg[g].work_idx \in Nat
      /\ wg[g].read \in PipelineState /\ wg[g].read_v \in PipelineState
      /\ wg[g].s \in Scores /\ wg[g].p \in Scores /\ wg[g].acc \in Result
  BY TypedWarpGroups DEF Places
<1>0. n \in Nat BY <1>1
<1> HIDE DEF n
<1>3. /\ r \in WarpGroupRecord
      /\ r.at = "mma"
      /\ r.tile = n
      /\ r.i = wg[g].i
      /\ r.work_idx = wg[g].work_idx
      /\ r.read = wg[g].read
      /\ r.read_v = wg[g].read_v
      /\ r.s = wg[g].s
      /\ r.p = wg[g].p
      /\ r.acc = wg[g].acc
  BY <1>1, <1>0, RecordTypes DEF WarpGroupRecord, WarpGroupLabels
<1>4. wg' = [wg EXCEPT ![g] = r] /\ launch' = launch /\ producer' = producer
  BY <1>1, <1>0 DEF ArriveO, n, ToNextTile, At
<1> HIDE DEF r
<1>5. /\ Moves(g, r.at, r.tile, r.i, r.work_idx, r.read, r.read_v)
      /\ Computes(g, r.s, r.p, r.acc)
  BY <1>1, <1>3, <1>4, OneMoves
<1> QED BY <1>3, <1>5 DEF ArriveO, n, At
LEMMA WriteOMoves ==
  ASSUME Places, NEW g \in WarpGroups, WriteO(g)
  PROVE  /\ wg[g].at = "write_O" /\ wg[g].tile \in Tiles
         /\ Computes(g, wg[g].s, wg[g].p, wg[g].acc)
         /\ \/ /\ launch.store = "tma" /\ g = Storer
               /\ Moves(g, "store_O", wg[g].tile, wg[g].i, wg[g].work_idx,
                        wg[g].read, wg[g].read_v)
            \/ /\ launch.store = "tma" /\ g # Storer
               /\ Moves(g, "mma", wg[g].tile + 1, wg[g].i, wg[g].work_idx,
                        wg[g].read, wg[g].read_v)
            \/ /\ launch.store # "tma"
               /\ Moves(g, "epilogue_smem", wg[g].tile, wg[g].i, wg[g].work_idx,
                        wg[g].read, wg[g].read_v)
<1> DEFINE n == wg[g].tile + 1
           stored == [wg[g] EXCEPT !.at = "store_O"]
           next == [wg[g] EXCEPT !.at = "mma", !.tile = n]
           smem == [wg[g] EXCEPT !.at = "epilogue_smem"]
<1>1. /\ wg[g] \in WarpGroupRecord /\ TypeOK
      /\ wg[g].tile \in Nat /\ wg[g].i \in Nat /\ wg[g].work_idx \in Nat
      /\ wg[g].read \in PipelineState /\ wg[g].read_v \in PipelineState
      /\ wg[g].s \in Scores /\ wg[g].p \in Scores /\ wg[g].acc \in Result
  BY TypedWarpGroups DEF Places
<1>2. n \in Nat BY <1>1
<1>3. launch' = launch /\ producer' = producer /\ wg[g].at = "write_O" /\ wg[g].tile \in Tiles
  BY DEF WriteO, At
<1>4. CASE launch.store = "tma" /\ g = Storer
  <2>1. wg' = [wg EXCEPT ![g] = stored] BY <1>4 DEF WriteO
  <2>2. /\ stored \in WarpGroupRecord
        /\ stored.at = "store_O" /\ stored.tile = wg[g].tile /\ stored.i = wg[g].i
        /\ stored.work_idx = wg[g].work_idx /\ stored.read = wg[g].read
        /\ stored.read_v = wg[g].read_v /\ stored.s = wg[g].s /\ stored.p = wg[g].p
        /\ stored.acc = wg[g].acc
    BY <1>1 DEF WarpGroupRecord, WarpGroupLabels
  <2> HIDE DEF stored
  <2>3. /\ Moves(g, stored.at, stored.tile, stored.i, stored.work_idx, stored.read, stored.read_v)
        /\ Computes(g, stored.s, stored.p, stored.acc)
    BY <1>1, <1>3, <2>1, <2>2, OneMoves
  <2> QED BY <1>3, <1>4, <2>2, <2>3
<1>5. CASE launch.store = "tma" /\ g # Storer
  <2> HIDE DEF n
  <2>1. wg' = [wg EXCEPT ![g] = next] BY <1>5 DEF WriteO, ToNextTile, n
  <2>2. /\ next \in WarpGroupRecord
        /\ next.at = "mma" /\ next.tile = n /\ next.i = wg[g].i
        /\ next.work_idx = wg[g].work_idx /\ next.read = wg[g].read
        /\ next.read_v = wg[g].read_v /\ next.s = wg[g].s /\ next.p = wg[g].p
        /\ next.acc = wg[g].acc
    BY <1>1, <1>2 DEF WarpGroupRecord, WarpGroupLabels
  <2> HIDE DEF next
  <2>3. /\ Moves(g, next.at, next.tile, next.i, next.work_idx, next.read, next.read_v)
        /\ Computes(g, next.s, next.p, next.acc)
    BY <1>1, <1>3, <2>1, <2>2, OneMoves
  <2> QED BY <1>3, <1>5, <2>2, <2>3 DEF n
<1>6. CASE launch.store # "tma"
  <2>1. wg' = [wg EXCEPT ![g] = smem] BY <1>6 DEF WriteO
  <2>2. /\ smem \in WarpGroupRecord
        /\ smem.at = "epilogue_smem" /\ smem.tile = wg[g].tile /\ smem.i = wg[g].i
        /\ smem.work_idx = wg[g].work_idx /\ smem.read = wg[g].read
        /\ smem.read_v = wg[g].read_v /\ smem.s = wg[g].s /\ smem.p = wg[g].p
        /\ smem.acc = wg[g].acc
    BY <1>1 DEF WarpGroupRecord, WarpGroupLabels
  <2> HIDE DEF smem
  <2>3. /\ Moves(g, smem.at, smem.tile, smem.i, smem.work_idx, smem.read, smem.read_v)
        /\ Computes(g, smem.s, smem.p, smem.acc)
    BY <1>1, <1>3, <2>1, <2>2, OneMoves
  <2> QED BY <1>3, <1>6, <2>2, <2>3
<1> QED BY <1>4, <1>5, <1>6

(* The warpgroups leave the epilogue's barrier together.                   *)
LEMMA SyncMoves ==
  ASSUME Places, EpilogueSync, NEW g \in WarpGroups
  PROVE  /\ launch' = launch /\ producer' = producer
         /\ wg' \in [WarpGroups -> WarpGroupRecord]
         /\ wg[g].at \in AtEpilogueSync
         /\ wg[g].at = "epilogue" =>
              wg'[g].at = IF launch.store = "direct" THEN "arrive_O" ELSE "write_O"
         /\ wg[g].at = "epilogue_smem" => wg'[g].at \in {"arrive_O", "read_O"}
         /\ wg'[g].tile = wg[g].tile /\ wg'[g].i = wg[g].i
         /\ wg'[g].work_idx = wg[g].work_idx
         /\ wg'[g].read = wg[g].read /\ wg'[g].read_v = wg[g].read_v
         /\ Computes(g, wg[g].s, wg[g].p, wg[g].acc)
<1>1. launch' = launch /\ producer' = producer BY DEF EpilogueSync
<1>2. wg' = [h \in WarpGroups |-> [wg[h] EXCEPT !.at = AfterSync(wg[h])]]
  BY DEF EpilogueSync
<1>3. \A h \in WarpGroups : wg[h].at \in AtEpilogueSync
  BY DEF EpilogueSync, Places, SyncArrivals
<1>4. ASSUME NEW h \in WarpGroups
      PROVE  /\ wg[h].at = "epilogue" =>
                  AfterSync(wg[h]) = IF launch.store = "direct" THEN "arrive_O" ELSE "write_O"
             /\ wg[h].at = "epilogue_smem" => AfterSync(wg[h]) \in {"arrive_O", "read_O"}
             /\ AfterSync(wg[h]) \in WarpGroupLabels
  <2>1. CASE wg[h].at = "epilogue" BY <2>1 DEF AfterSync, WarpGroupLabels
  <2>2. CASE wg[h].at = "epilogue_smem" BY <2>2 DEF AfterSync, WarpGroupLabels
  <2> QED BY <1>3, <2>1, <2>2 DEF AtEpilogueSync
<1>5. ASSUME NEW h \in WarpGroups
      PROVE  LET r == [wg[h] EXCEPT !.at = AfterSync(wg[h])] IN
             /\ r \in WarpGroupRecord
             /\ r.at = AfterSync(wg[h]) /\ r.tile = wg[h].tile /\ r.i = wg[h].i
             /\ r.work_idx = wg[h].work_idx /\ r.read = wg[h].read
             /\ r.read_v = wg[h].read_v /\ r.s = wg[h].s /\ r.p = wg[h].p
             /\ r.acc = wg[h].acc
  <2>1. wg[h] \in WarpGroupRecord BY TypedWarpGroups DEF Places
  <2> QED BY <1>4, <2>1 DEF WarpGroupRecord
<1>6. wg' \in [WarpGroups -> WarpGroupRecord] BY <1>2, <1>5
<1>7. wg'[g] = [wg[g] EXCEPT !.at = AfterSync(wg[g])] BY <1>2
<1> QED BY <1>1, <1>3, <1>4, <1>5, <1>6, <1>7 DEF Computes

(* The producer moves; to this label, tile and so on.                      *)
ProducerMoves(at, tile, i, work_idx, write, write_v) ==
  /\ launch' = launch
  /\ wg' = wg
  /\ producer' \in ProducerRecord
  /\ producer'.at = at
  /\ producer'.tile = tile
  /\ producer'.i = i
  /\ producer'.work_idx = work_idx
  /\ producer'.write = write
  /\ producer'.write_v = write_v

LEMMA SkipTileMoves ==
  ASSUME Places, SkipTile
  PROVE  /\ producer.at = "tile" /\ producer.tile \in Tiles
         /\ ProducerMoves("tile", producer.tile + 1, producer.i, producer.work_idx,
                          producer.write, producer.write_v)
<1> DEFINE n == producer.tile + 1
<1> DEFINE r == [producer EXCEPT !.at = "tile", !.tile = n]
<1>1. /\ producer \in ProducerRecord
      /\ producer.tile \in Nat /\ producer.i \in Nat /\ producer.work_idx \in Nat
      /\ producer.write \in PipelineState /\ producer.write_v \in PipelineState
      /\ Advance(producer.write) \in PipelineState
  BY TypedWarpGroups, NextPosition DEF Places, ProducerRecord
<1>2. n \in Nat BY <1>1
<1> HIDE DEF n
<1>3. /\ r \in ProducerRecord
      /\ r.at = "tile"
      /\ r.tile = n
      /\ r.i = producer.i
      /\ r.work_idx = producer.work_idx
      /\ r.write = producer.write
      /\ r.write_v = producer.write_v
  BY <1>1, <1>2 DEF ProducerRecord, ProducerLabels
<1>4. producer' = r /\ launch' = launch /\ wg' = wg
  BY <1>1 DEF SkipTile, n, ProducerAt
<1> HIDE DEF r
<1> QED BY <1>3, <1>4 DEF SkipTile, ProducerAt, ProducerMoves, n

LEMMA LoadFirstKMoves ==
  ASSUME Places, LoadFirstK
  PROVE  /\ producer.at = "tile" /\ producer.tile \in Tiles
         /\ ProducerMoves("load_Q", producer.tile, 1, producer.work_idx,
                          producer.write, producer.write_v)
<1> DEFINE r == [producer EXCEPT !.at = "load_Q", !.i = 1]
<1>1. /\ producer \in ProducerRecord
      /\ producer.tile \in Nat /\ producer.i \in Nat /\ producer.work_idx \in Nat
      /\ producer.write \in PipelineState /\ producer.write_v \in PipelineState
      /\ Advance(producer.write) \in PipelineState
  BY TypedWarpGroups, NextPosition DEF Places, ProducerRecord
<1>3. /\ r \in ProducerRecord
      /\ r.at = "load_Q"
      /\ r.tile = producer.tile
      /\ r.i = 1
      /\ r.work_idx = producer.work_idx
      /\ r.write = producer.write
      /\ r.write_v = producer.write_v
  BY <1>1 DEF ProducerRecord, ProducerLabels
<1>4. producer' = r /\ launch' = launch /\ wg' = wg
  BY <1>1 DEF LoadFirstK, ProducerAt
<1> HIDE DEF r
<1> QED BY <1>3, <1>4 DEF LoadFirstK, ProducerAt, ProducerMoves

LEMMA LoadQMoves ==
  ASSUME Places, LoadQ
  PROVE  /\ producer.at = "load_Q" /\ producer.tile \in Tiles
         /\ ProducerMoves("wait_O", producer.tile, producer.i, producer.work_idx,
                          producer.write, producer.write_v)
<1> DEFINE r == [producer EXCEPT !.at = "wait_O"]
<1>1. /\ producer \in ProducerRecord
      /\ producer.tile \in Nat /\ producer.i \in Nat /\ producer.work_idx \in Nat
      /\ producer.write \in PipelineState /\ producer.write_v \in PipelineState
      /\ Advance(producer.write) \in PipelineState
  BY TypedWarpGroups, NextPosition DEF Places, ProducerRecord
<1>3. /\ r \in ProducerRecord
      /\ r.at = "wait_O"
      /\ r.tile = producer.tile
      /\ r.i = producer.i
      /\ r.work_idx = producer.work_idx
      /\ r.write = producer.write
      /\ r.write_v = producer.write_v
  BY <1>1 DEF ProducerRecord, ProducerLabels
<1>4. producer' = r /\ launch' = launch /\ wg' = wg
  BY <1>1 DEF LoadQ, ProducerAt
<1> HIDE DEF r
<1> QED BY <1>3, <1>4 DEF LoadQ, ProducerAt, ProducerMoves

LEMMA WaitOMoves ==
  ASSUME Places, WaitO
  PROVE  /\ producer.at = "wait_O" /\ producer.tile \in Tiles
         /\ ProducerMoves("load_K", producer.tile, producer.i, producer.work_idx,
                          producer.write, producer.write_v)
<1> DEFINE r == [producer EXCEPT !.at = "load_K"]
<1>1. /\ producer \in ProducerRecord
      /\ producer.tile \in Nat /\ producer.i \in Nat /\ producer.work_idx \in Nat
      /\ producer.write \in PipelineState /\ producer.write_v \in PipelineState
      /\ Advance(producer.write) \in PipelineState
  BY TypedWarpGroups, NextPosition DEF Places, ProducerRecord
<1>3. /\ r \in ProducerRecord
      /\ r.at = "load_K"
      /\ r.tile = producer.tile
      /\ r.i = producer.i
      /\ r.work_idx = producer.work_idx
      /\ r.write = producer.write
      /\ r.write_v = producer.write_v
  BY <1>1 DEF ProducerRecord, ProducerLabels
<1>4. producer' = r /\ launch' = launch /\ wg' = wg
  BY <1>1 DEF WaitO, ProducerAt
<1> HIDE DEF r
<1> QED BY <1>3, <1>4 DEF WaitO, ProducerAt, ProducerMoves

LEMMA LoadNextKMoves ==
  ASSUME Places, LoadNextK
  PROVE  /\ producer.at = "load_K" /\ producer.tile \in Tiles
         /\ ProducerMoves("load_V", producer.tile, producer.i, producer.work_idx,
                          Advance(producer.write), producer.write)
<1> DEFINE r == [producer EXCEPT !.at = "load_V", !.write_v = producer.write, !.write = Advance(producer.write)]
<1>1. /\ producer \in ProducerRecord
      /\ producer.tile \in Nat /\ producer.i \in Nat /\ producer.work_idx \in Nat
      /\ producer.write \in PipelineState /\ producer.write_v \in PipelineState
      /\ Advance(producer.write) \in PipelineState
  BY TypedWarpGroups, NextPosition DEF Places, ProducerRecord
<1>3. /\ r \in ProducerRecord
      /\ r.at = "load_V"
      /\ r.tile = producer.tile
      /\ r.i = producer.i
      /\ r.work_idx = producer.work_idx
      /\ r.write = Advance(producer.write)
      /\ r.write_v = producer.write
  BY <1>1 DEF ProducerRecord, ProducerLabels
<1>4. producer' = r /\ launch' = launch /\ wg' = wg
  BY <1>1 DEF LoadNextK, ProducerAt
<1> HIDE DEF r
<1> QED BY <1>3, <1>4 DEF LoadNextK, ProducerAt, ProducerMoves

LEMMA LoadPrevVMoves ==
  ASSUME Places, LoadPrevV
  PROVE  /\ producer.at = "load_V" /\ producer.tile \in Tiles
         /\ ProducerMoves("load_K", producer.tile, producer.i + 1, producer.work_idx,
                          producer.write, producer.write_v)
<1> DEFINE n == producer.i + 1
<1> DEFINE r == [producer EXCEPT !.at = "load_K", !.i = n]
<1>1. /\ producer \in ProducerRecord
      /\ producer.tile \in Nat /\ producer.i \in Nat /\ producer.work_idx \in Nat
      /\ producer.write \in PipelineState /\ producer.write_v \in PipelineState
      /\ Advance(producer.write) \in PipelineState
  BY TypedWarpGroups, NextPosition DEF Places, ProducerRecord
<1>2. n \in Nat BY <1>1
<1> HIDE DEF n
<1>3. /\ r \in ProducerRecord
      /\ r.at = "load_K"
      /\ r.tile = producer.tile
      /\ r.i = n
      /\ r.work_idx = producer.work_idx
      /\ r.write = producer.write
      /\ r.write_v = producer.write_v
  BY <1>1, <1>2 DEF ProducerRecord, ProducerLabels
<1>4. producer' = r /\ launch' = launch /\ wg' = wg
  BY <1>1 DEF LoadPrevV, n, ProducerAt
<1> HIDE DEF r
<1> QED BY <1>3, <1>4 DEF LoadPrevV, ProducerAt, ProducerMoves, n

LEMMA LoadLastVMoves ==
  ASSUME Places, LoadLastV
  PROVE  /\ producer.at = "load_K" /\ producer.tile \in Tiles
         /\ ProducerMoves("tile", producer.tile + 1, producer.i, producer.work_idx + 1,
                          Advance(producer.write), producer.write_v)
<1> DEFINE n == producer.tile + 1
<1> DEFINE m == producer.work_idx + 1
<1> DEFINE r == [producer EXCEPT !.at = "tile", !.tile = n, !.work_idx = m, !.write = Advance(producer.write)]
<1>1. /\ producer \in ProducerRecord
      /\ producer.tile \in Nat /\ producer.i \in Nat /\ producer.work_idx \in Nat
      /\ producer.write \in PipelineState /\ producer.write_v \in PipelineState
      /\ Advance(producer.write) \in PipelineState
  BY TypedWarpGroups, NextPosition DEF Places, ProducerRecord
<1>2. n \in Nat /\ m \in Nat BY <1>1
<1> HIDE DEF n, m
<1>3. /\ r \in ProducerRecord
      /\ r.at = "tile"
      /\ r.tile = n
      /\ r.i = producer.i
      /\ r.work_idx = m
      /\ r.write = Advance(producer.write)
      /\ r.write_v = producer.write_v
  BY <1>1, <1>2 DEF ProducerRecord, ProducerLabels
<1>4. producer' = r /\ launch' = launch /\ wg' = wg
  BY <1>1 DEF LoadLastV, n, m, ProducerAt
<1> HIDE DEF r
<1> QED BY <1>3, <1>4 DEF LoadLastV, ProducerAt, ProducerMoves, n, m

LEMMA LoadTailMoves ==
  ASSUME Places, LoadTail
  PROVE  /\ producer.at = "tile" /\ producer.tile \notin Tiles
         /\ ProducerMoves("done", producer.tile, producer.i, producer.work_idx,
                          producer.write, producer.write_v)
<1> DEFINE r == [producer EXCEPT !.at = "done"]
<1>1. /\ producer \in ProducerRecord
      /\ producer.tile \in Nat /\ producer.i \in Nat /\ producer.work_idx \in Nat
      /\ producer.write \in PipelineState /\ producer.write_v \in PipelineState
      /\ Advance(producer.write) \in PipelineState
  BY TypedWarpGroups, NextPosition DEF Places, ProducerRecord
<1>3. /\ r \in ProducerRecord
      /\ r.at = "done"
      /\ r.tile = producer.tile
      /\ r.i = producer.i
      /\ r.work_idx = producer.work_idx
      /\ r.write = producer.write
      /\ r.write_v = producer.write_v
  BY <1>1 DEF ProducerRecord, ProducerLabels
<1>4. producer' = r /\ launch' = launch /\ wg' = wg
  BY <1>1 DEF LoadTail, ProducerAt
<1> HIDE DEF r
<1> QED BY <1>3, <1>4 DEF LoadTail, ProducerAt, ProducerMoves
-----------------------------------------------------------------------------
(* Every variable keeps its type.                                          *)

Resources ==
  /\ kpipe \in PipelineStorage(Block)
  /\ vpipe \in PipelineStorage(Block)
  /\ query \in [load : Nat \cup {NoBlock}, data : Nat \cup {NoBlock}, completed : Nat]
  /\ named \in [queryEmpty : Nat, scheduler : [WarpGroups -> Nat],
                sync : SUBSET WarpGroups, store : SUBSET WarpGroups]
  /\ barrier_O \in [arrived : Nat, completed : Nat]
  /\ smem_o \in [WarpGroups -> Result]
  /\ out \in [Tiles -> [WarpGroups -> Seq(Result)]]

LEMMA TypeOKNext ==
  ASSUME TypeOK, launch' = launch, producer' \in ProducerRecord,
         wg' \in [WarpGroups -> WarpGroupRecord], Resources'
  PROVE  TypeOK'
<1>1. Tiles' = Tiles /\ \A t \in Tiles : MmaCount(t)' = MmaCount(t) /\ LoadBlocks(t)' = LoadBlocks(t)
  BY LaunchFixed
<1>2. (\A t \in Tiles : MmaCount(t) \in Nat /\ LoadBlocks(t) \in Seq(Nat))'
  BY <1>1 DEF TypeOK
<1>3. launch' \in LaunchSpace BY DEF TypeOK
<1>4. /\ producer' \in [at : ProducerLabels, tile : Nat, i : Nat, work_idx : Nat,
                        write : PipelineState, write_v : PipelineState]
      /\ wg' \in [WarpGroups ->
               [at : WarpGroupLabels, tile : Nat, i : Nat, work_idx : Nat,
                read : PipelineState, read_v : PipelineState,
                s : Scores, p : Scores, acc : Result]]
  BY DEF ProducerRecord, WarpGroupRecord
<1> QED BY <1>2, <1>3, <1>4 DEF TypeOK, Resources

LEMMA BlockTyped ==
  ASSUME TypeOK, NEW t \in Tiles, NEW i \in 1 .. MmaCount(t)
  PROVE  BlockOf(t, i) \in Block
<1>1. launch \in LaunchSpace BY DEF TypeOK
<1>2. t \in Nat BY <1>1, NextTotals
<1>3. LoadBlocks(t) \in Seq(Nat) /\ Len(LoadBlocks(t)) = MmaCount(t) BY <1>1, TileBlockCounts
<1>4. LoadBlocks(t)[i] \in Nat BY <1>3, SeqElements
<1> QED BY <1>2, <1>4 DEF BlockOf, Block

LEMMA WrittenTyped ==
  ASSUME TypeOK, NEW t \in Tiles, NEW G, NEW result \in Result
  PROVE  Written(t, G, result) \in [Tiles -> [WarpGroups -> Seq(Result)]]
<1>1. out \in [Tiles -> [WarpGroups -> Seq(Result)]] BY DEF TypeOK
<1>2. out[t] \in [WarpGroups -> Seq(Result)] BY <1>1
<1> DEFINE f == [g \in WarpGroups |-> IF g \in G THEN Append(out[t][g], result) ELSE out[t][g]]
<1>3. ASSUME NEW g \in WarpGroups
      PROVE  (IF g \in G THEN Append(out[t][g], result) ELSE out[t][g]) \in Seq(Result)
  <2>1. out[t][g] \in Seq(Result) BY <1>2
  <2>2. Append(out[t][g], result) \in Seq(Result) BY <2>1
  <2> QED BY <2>1, <2>2
<1>4. f \in [WarpGroups -> Seq(Result)] BY <1>3
<1>5. Written(t, G, result) = [out EXCEPT ![t] = f] BY DEF Written
<1> HIDE DEF f
<1> QED BY <1>1, <1>4, <1>5

LEMMA ArrivedTyped ==
  ASSUME TypeOK
  PROVE  ArrivedO \in [arrived : Nat, completed : Nat]
<1>1. /\ barrier_O \in [arrived : Nat, completed : Nat]
      /\ barrier_O.arrived + 1 \in Nat /\ barrier_O.completed + 1 \in Nat
  BY DEF TypeOK
<1>2. CASE barrier_O.arrived + 1 = BarrierOCount BY <1>1, <1>2 DEF ArrivedO
<1>3. CASE barrier_O.arrived + 1 # BarrierOCount
  <2> DEFINE n == barrier_O.arrived + 1
  <2>1. n \in Nat BY <1>1
  <2>2. ArrivedO = [barrier_O EXCEPT !.arrived = n] BY <1>3 DEF ArrivedO
  <2> HIDE DEF n
  <2> QED BY <1>1, <2>1, <2>2
<1> QED BY <1>2, <1>3

LEMMA NamedFields ==
  ASSUME TypeOK
  PROVE  /\ named.queryEmpty \in Nat /\ named.queryEmpty + 1 \in Nat
         /\ named.scheduler \in [WarpGroups -> Nat]
         /\ named.sync \in SUBSET WarpGroups /\ named.store \in SUBSET WarpGroups
         /\ \A g \in WarpGroups : named.scheduler[g] + 1 \in Nat
  BY DEF TypeOK

LEMMA TurnsTyped ==
  ASSUME TypeOK, NEW g \in WarpGroups
  PROVE  /\ TakeTurn(g) \in [queryEmpty : Nat, scheduler : [WarpGroups -> Nat],
                             sync : SUBSET WarpGroups, store : SUBSET WarpGroups]
         /\ PassTurn(g) \in [queryEmpty : Nat, scheduler : [WarpGroups -> Nat],
                             sync : SUBSET WarpGroups, store : SUBSET WarpGroups]
         /\ NextWG(g) \in WarpGroups
<1>1. NextWG(g) \in WarpGroups BY DEF NextWG, WarpGroups
<1> DEFINE taken == [named.scheduler EXCEPT ![g] = 0]
           passed == [named.scheduler EXCEPT ![NextWG(g)] = named.scheduler[NextWG(g)] + 1]
<1>2. taken \in [WarpGroups -> Nat] /\ passed \in [WarpGroups -> Nat]
  BY <1>1, NamedFields
<1>3. named \in [queryEmpty : Nat, scheduler : [WarpGroups -> Nat],
                 sync : SUBSET WarpGroups, store : SUBSET WarpGroups]
  BY DEF TypeOK
<1>4. /\ TakeTurn(g) = IF UseSchedulerBarrier THEN [named EXCEPT !.scheduler = taken] ELSE named
      /\ PassTurn(g) = IF UseSchedulerBarrier THEN [named EXCEPT !.scheduler = passed] ELSE named
  BY DEF TakeTurn, PassTurn
<1> HIDE DEF taken, passed
<1>5. /\ [named EXCEPT !.scheduler = taken] \in
           [queryEmpty : Nat, scheduler : [WarpGroups -> Nat],
            sync : SUBSET WarpGroups, store : SUBSET WarpGroups]
      /\ [named EXCEPT !.scheduler = passed] \in
           [queryEmpty : Nat, scheduler : [WarpGroups -> Nat],
            sync : SUBSET WarpGroups, store : SUBSET WarpGroups]
  BY <1>2, <1>3
<1> QED BY <1>1, <1>3, <1>4, <1>5
(* What the next tile has, for the producer and for the warpgroups.        *)
LEMMA TileFacts ==
  ASSUME TypeOK, NEW t \in Tiles
  PROVE  /\ launch \in LaunchSpace /\ t \in Nat /\ t + 1 \in Nat
         /\ Len(launch.tiles) \in Nat /\ t \in 1 .. Len(launch.tiles)
         /\ MmaCount(t) \in Nat /\ BlockCount[t] = MmaCount(t)
         /\ Len(LoadBlocks(t)) = MmaCount(t)
         /\ LoadBlocks(t) = << >> <=> MmaCount(t) = 0
<1>1. launch \in LaunchSpace BY DEF TypeOK
<1>2. LoadBlocks(t) \in Seq(Nat) /\ Len(LoadBlocks(t)) = MmaCount(t) BY <1>1, TileBlockCounts
<1>3. LoadBlocks(t) = << >> <=> Len(LoadBlocks(t)) = 0 BY <1>2
<1> QED BY <1>1, <1>2, <1>3, NextTotals, LaunchFields DEF Tiles

LEMMA ProducerResources ==
  ASSUME Places, Producer
  PROVE  Resources'
<1>1. TypeOK /\ Resources BY DEF Places, TypeOK, Resources
<1>2. Tiles' = Tiles
  BY LaunchFixed DEF Producer, SkipTile, LoadFirstK, LoadQ, WaitO, LoadNextK, LoadPrevV,
                     LoadLastV, LoadTail
<1>3. /\ producer.write \in PipelineState /\ producer.write_v \in PipelineState
      /\ Advance(producer.write) \in PipelineState
  BY <1>1, TypedWarpGroups, NextPosition DEF ProducerRecord
<1>4. \A st \in PipelineState, b \in Block :
        /\ Issue(kpipe, st, b) \in PipelineStorage(Block)
        /\ Issue(vpipe, st, b) \in PipelineStorage(Block)
  <2>1. 0 \in Stages /\ 0 \in WarpGroups BY SomeWarpGroup DEF Stages
  <2> QED BY <1>1, <2>1, StorageKept DEF Resources
<1>5. ProducerPlaced BY DEF Places
<1>6. CASE SkipTile BY <1>1, <1>2, <1>6 DEF SkipTile, Resources
<1>7. CASE LoadFirstK
  <2>1. producer.tile \in Tiles /\ LoadBlocks(producer.tile) # << >>
    BY <1>7 DEF LoadFirstK, ProducerAt
  <2>2. 1 \in 1 .. MmaCount(producer.tile) BY <1>1, <2>1, TileFacts
  <2>3. BlockOf(producer.tile, 1) \in Block BY <1>1, <2>1, <2>2, BlockTyped
  <2> QED BY <1>1, <1>2, <1>3, <1>4, <1>7, <2>3 DEF LoadFirstK, Resources
<1>8. CASE LoadQ
  <2>1. producer.tile \in Nat BY <1>1, TypedWarpGroups DEF ProducerRecord
  <2>2. query' \in [load : Nat \cup {NoBlock}, data : Nat \cup {NoBlock}, completed : Nat]
    BY <1>1, <1>8, <2>1 DEF LoadQ, Resources
  <2>3. named' \in [queryEmpty : Nat, scheduler : [WarpGroups -> Nat],
                    sync : SUBSET WarpGroups, store : SUBSET WarpGroups]
    BY <1>1, <1>8 DEF LoadQ, Resources
  <2> QED BY <1>1, <1>2, <1>8, <2>2, <2>3 DEF LoadQ, Resources
<1>9. CASE WaitO BY <1>1, <1>2, <1>9 DEF WaitO, Resources
<1>10. CASE LoadNextK
  <2>1. /\ producer.tile \in Tiles /\ producer.at = "load_K"
        /\ producer.i < Len(LoadBlocks(producer.tile))
    BY <1>10 DEF LoadNextK, ProducerAt
  <2>2. producer.i + 1 \in 1 .. MmaCount(producer.tile)
    BY <1>1, <1>5, <2>1, TileFacts DEF ProducerPlaced
  <2>3. BlockOf(producer.tile, producer.i + 1) \in Block BY <1>1, <2>1, <2>2, BlockTyped
  <2> QED BY <1>1, <1>2, <1>3, <1>4, <1>10, <2>3 DEF LoadNextK, Resources
<1>11. CASE LoadPrevV
  <2>1. producer.tile \in Tiles /\ producer.at = "load_V" BY <1>11 DEF LoadPrevV, ProducerAt
  <2>2. producer.i \in 1 .. MmaCount(producer.tile)
    BY <1>1, <1>5, <2>1, TileFacts DEF ProducerPlaced
  <2>3. BlockOf(producer.tile, producer.i) \in Block BY <1>1, <2>1, <2>2, BlockTyped
  <2> QED BY <1>1, <1>2, <1>3, <1>4, <1>11, <2>3 DEF LoadPrevV, Resources
<1>12. CASE LoadLastV
  <2>1. producer.tile \in Tiles /\ producer.at = "load_K" BY <1>12 DEF LoadLastV, ProducerAt
  <2>2. producer.i \in 1 .. MmaCount(producer.tile)
    BY <1>1, <1>5, <2>1, TileFacts DEF ProducerPlaced
  <2>3. BlockOf(producer.tile, producer.i) \in Block BY <1>1, <2>1, <2>2, BlockTyped
  <2> QED BY <1>1, <1>2, <1>3, <1>4, <1>12, <2>3 DEF LoadLastV, Resources
<1>13. CASE LoadTail BY <1>1, <1>2, <1>13 DEF LoadTail, Resources
<1> QED BY <1>6, <1>7, <1>8, <1>9, <1>10, <1>11, <1>12, <1>13 DEF Producer

LEMMA TmaResources ==
  ASSUME Places, Tma
  PROVE  Resources'
<1>1. TypeOK /\ Resources BY DEF Places, TypeOK, Resources
<1>2. Tiles' = Tiles BY LaunchFixed DEF Tma, LandQ, LandK, LandV
<1>3. CASE LandQ
  <2>1. query.completed + 1 \in Nat /\ query.load \in Nat \cup {NoBlock}
    BY <1>1 DEF Resources
  <2>2. query' \in [load : Nat \cup {NoBlock}, data : Nat \cup {NoBlock}, completed : Nat]
    BY <1>3, <2>1 DEF LandQ
  <2> QED BY <1>1, <1>2, <1>3, <2>2 DEF LandQ, Resources
<1>4. ASSUME NEW s \in Stages, LandK(s) PROVE Resources'
  <2>1. StartState \in PipelineState /\ 0 \in WarpGroups BY FirstPosition, SomeWarpGroup
  <2>2. Land(kpipe, s) \in PipelineStorage(Block)
    <3>1. [tile |-> 0, block |-> 0] \in Block BY DEF Block
    <3> QED BY <1>1, <2>1, <3>1, StorageKept DEF Resources
  <2> QED BY <1>1, <1>2, <1>4, <2>2 DEF LandK, Resources
<1>5. ASSUME NEW s \in Stages, LandV(s) PROVE Resources'
  <2>1. StartState \in PipelineState /\ 0 \in WarpGroups BY FirstPosition, SomeWarpGroup
  <2>2. Land(vpipe, s) \in PipelineStorage(Block)
    <3>1. [tile |-> 0, block |-> 0] \in Block BY DEF Block
    <3> QED BY <1>1, <2>1, <3>1, StorageKept DEF Resources
  <2>3. [g \in WarpGroups |-> NoBlock] \in [WarpGroups -> Result] BY RecordTypes
  <2> QED BY <1>1, <1>2, <1>5, <2>2, <2>3 DEF LandV, Resources
<1> QED BY <1>3, <1>4, <1>5 DEF Tma

LEMMA WarpGroupResources ==
  ASSUME Places, NEW g \in WarpGroups, WarpGroup(g)
  PROVE  Resources'
<1>1. TypeOK /\ Resources BY DEF Places, TypeOK, Resources
<1>2. /\ wg[g].read \in PipelineState /\ wg[g].read_v \in PipelineState
      /\ wg[g].acc \in Result /\ SmemOTile \in Result
  BY <1>1, TypedWarpGroups, RecordTypes, SomeWarpGroup DEF Resources, SmemOTile
<1>3. /\ Release(kpipe, wg[g].read, g) \in PipelineStorage(Block)
      /\ Release(vpipe, wg[g].read, g) \in PipelineStorage(Block)
      /\ Release(vpipe, wg[g].read_v, g) \in PipelineStorage(Block)
  <2>1. 0 \in Stages /\ [tile |-> 0, block |-> 0] \in Block BY DEF Stages, Block
  <2> QED BY <1>1, <1>2, <2>1, StorageKept DEF Resources
<1>4. CASE MmaInit(g)
  <2> DEFINE turns == [h \in WarpGroups |-> IF h = g /\ g = 0 /\ UseSchedulerBarrier
                                             THEN named.scheduler[h] + 1 ELSE named.scheduler[h]]
             n == named.queryEmpty + 1
  <2>1. turns \in [WarpGroups -> Nat] /\ n \in Nat BY <1>1, NamedFields
  <2>2. named' = [named EXCEPT !.queryEmpty = n, !.scheduler = turns] BY <1>4 DEF MmaInit
  <2> HIDE DEF turns, n
  <2>3. Tiles' = Tiles BY <1>4, LaunchFixed DEF MmaInit
  <2> QED BY <1>1, <1>4, <2>1, <2>2, <2>3 DEF MmaInit, Resources
<1>5. CASE StoreZero(g)
  <2>1. Tiles' = Tiles BY <1>5, LaunchFixed DEF StoreZero
  <2>2. out' \in [Tiles -> [WarpGroups -> Seq(Result)]]
    BY <1>1, <1>5, WrittenTyped, RecordTypes DEF StoreZero, At
  <2> QED BY <1>1, <1>5, <2>1, <2>2 DEF StoreZero, Resources
<1>6. CASE WaitQ(g)
  <2>1. Tiles' = Tiles BY <1>6, LaunchFixed DEF WaitQ
  <2> QED BY <1>1, <1>6, <2>1 DEF WaitQ, Resources
<1>7. CASE FirstQK(g)
  <2>1. Tiles' = Tiles BY <1>7, LaunchFixed DEF FirstQK
  <2> QED BY <1>1, <1>7, <2>1 DEF FirstQK, Resources
<1>8. CASE FirstSoftmax(g)
  <2>1. Tiles' = Tiles BY <1>8, LaunchFixed DEF FirstSoftmax
  <2> QED BY <1>1, <1>3, <1>8, <2>1 DEF FirstSoftmax, Resources
<1>9. CASE StepQK(g)
  <2>1. Tiles' = Tiles BY <1>9, LaunchFixed DEF StepQK
  <2>2. named' = TakeTurn(g) BY <1>9 DEF StepQK
  <2> QED BY <1>1, <1>9, <2>1, <2>2, TurnsTyped DEF StepQK, Resources
<1>10. CASE StepPV(g)
  <2>1. Tiles' = Tiles BY <1>10, LaunchFixed DEF StepPV
  <2>2. named' = PassTurn(g) BY <1>10 DEF StepPV
  <2> QED BY <1>1, <1>10, <2>1, <2>2, TurnsTyped DEF StepPV, Resources
<1>11. CASE StepReleaseK(g)
  <2>1. Tiles' = Tiles BY <1>11, LaunchFixed DEF StepReleaseK
  <2> QED BY <1>1, <1>3, <1>11, <2>1 DEF StepReleaseK, Resources
<1>12. CASE StepReleaseV(g)
  <2>1. Tiles' = Tiles BY <1>12, LaunchFixed DEF StepReleaseV
  <2> QED BY <1>1, <1>3, <1>12, <2>1 DEF StepReleaseV, Resources
<1>13. CASE QueryDone(g)
  <2> DEFINE n == named.queryEmpty + 1
  <2>1. Tiles' = Tiles BY <1>13, LaunchFixed DEF QueryDone
  <2>2. n \in Nat BY <1>1, NamedFields
  <2>3. named' = [named EXCEPT !.queryEmpty = n] BY <1>13 DEF QueryDone
  <2> HIDE DEF n
  <2> QED BY <1>1, <1>13, <2>1, <2>2, <2>3 DEF QueryDone, Resources
<1>14. CASE LastPV(g)
  <2>1. Tiles' = Tiles BY <1>14, LaunchFixed DEF LastPV
  <2> QED BY <1>1, <1>14, <2>1 DEF LastPV, Resources
<1>15. CASE LastReleaseV(g)
  <2>1. Tiles' = Tiles BY <1>15, LaunchFixed DEF LastReleaseV
  <2>2. named' = [named EXCEPT !.sync = named.sync \cup {g}] /\ named.sync \cup {g} \in SUBSET WarpGroups
    BY <1>1, <1>15 DEF LastReleaseV, Resources
  <2>3. named' \in [queryEmpty : Nat, scheduler : [WarpGroups -> Nat],
                    sync : SUBSET WarpGroups, store : SUBSET WarpGroups]
    BY <1>1, <2>2 DEF Resources
  <2> QED BY <1>1, <1>3, <1>15, <2>1, <2>3 DEF LastReleaseV, Resources
<1>16. CASE WriteO(g)
  <2>1. Tiles' = Tiles BY <1>16, LaunchFixed DEF WriteO
  <2>2. smem_o' \in [WarpGroups -> Result] BY <1>1, <1>2, <1>16 DEF WriteO, Resources
  <2>3. vpipe' \in PipelineStorage(Block)
    <3>1. [s \in Stages |-> NoBlock] \in [Stages -> Block \cup {NoBlock}] OBVIOUS
    <3> QED BY <1>1, <1>16, <3>1 DEF WriteO, Resources, PipelineStorage
  <2>4. named' \in [queryEmpty : Nat, scheduler : [WarpGroups -> Nat],
                    sync : SUBSET WarpGroups, store : SUBSET WarpGroups]
    <3>1. named.store \cup {g} \in SUBSET WarpGroups /\ named.sync \cup {g} \in SUBSET WarpGroups
      BY <1>1, NamedFields
    <3>2. \/ named' = [named EXCEPT !.store = named.store \cup {g}]
          \/ named' = [named EXCEPT !.sync = named.sync \cup {g}]
      BY <1>16 DEF WriteO
    <3> QED BY <1>1, <3>1, <3>2 DEF Resources
  <2> QED BY <1>1, <1>16, <2>1, <2>2, <2>3, <2>4 DEF WriteO, Resources
<1>17. CASE BeginTmaStore(g)
  <2>1. Tiles' = Tiles BY <1>17, LaunchFixed DEF BeginTmaStore
  <2> QED BY <1>1, <1>17, <2>1 DEF BeginTmaStore, Resources
<1>18. CASE EndTmaStore(g)
  <2>1. Tiles' = Tiles BY <1>18, LaunchFixed DEF EndTmaStore
  <2>2. out' \in [Tiles -> [WarpGroups -> Seq(Result)]]
    BY <1>1, <1>2, <1>18, WrittenTyped DEF EndTmaStore, At
  <2> QED BY <1>1, <1>18, <2>1, <2>2, ArrivedTyped DEF EndTmaStore, Resources
<1>19. CASE ReadO(g)
  <2>1. Tiles' = Tiles BY <1>19, LaunchFixed DEF ReadO
  <2> QED BY <1>1, <1>19, <2>1 DEF ReadO, Resources
<1>20. CASE ArriveO(g)
  <2>1. Tiles' = Tiles BY <1>20, LaunchFixed DEF ArriveO
  <2>2. out' \in [Tiles -> [WarpGroups -> Seq(Result)]]
    BY <1>1, <1>2, <1>20, WrittenTyped DEF ArriveO, At
  <2> QED BY <1>1, <1>20, <2>1, <2>2, ArrivedTyped DEF ArriveO, Resources
<1> QED BY <1>4, <1>5, <1>6, <1>7, <1>8, <1>9, <1>10, <1>11, <1>12, <1>13, <1>14, <1>15,
           <1>16, <1>17, <1>18, <1>19, <1>20 DEF WarpGroup, Mainloop, Epilogue
-----------------------------------------------------------------------------
(* Every warpgroup stays where its label, tile and step say.               *)

LEMMA OtherStays ==
  ASSUME launch' = launch, NEW g \in WarpGroups, wg'[g] = wg[g], Placed(g), Equipped(g)
  PROVE  Placed(g)' /\ Equipped(g)'
<1>1. Tiles' = Tiles /\ BlockCount' = BlockCount /\ WorkCount' = WorkCount BY LaunchFixed
<1> QED BY <1>1 DEF Placed, Equipped

LEMMA PlaceFacts ==
  ASSUME Places, NEW g \in WarpGroups
  PROVE  /\ TypeOK /\ Placed(g) /\ Equipped(g)
         /\ launch \in LaunchSpace /\ Len(launch.tiles) \in Nat
         /\ Tiles = 1 .. Len(launch.tiles)
         /\ wg[g].at \in WarpGroupLabels /\ wg[g].tile \in Nat /\ wg[g].i \in Nat
         /\ wg[g].work_idx \in Nat /\ wg[g].read \in PipelineState
         /\ wg[g].read_v \in PipelineState
         /\ Before(BlockCount, wg[g].tile) \in Nat
         /\ Before(WorkCount, wg[g].tile) \in Nat
         /\ Before(TurnCount, wg[g].tile) \in Nat
         /\ R!Pos(wg[g].read) \in Nat
         /\ R!Pos(Advance(wg[g].read)) = R!Pos(wg[g].read) + 1
<1>1. TypeOK /\ Placed(g) /\ Equipped(g) BY DEF Places
<1>2. launch \in LaunchSpace BY <1>1 DEF TypeOK
<1>3. Len(launch.tiles) \in Nat BY <1>2, LaunchFields
<1> QED BY <1>1, <1>2, <1>3, TypedWarpGroups, Totals, NextPosition DEF Tiles


LEMMA NextTilePlaced ==
  ASSUME Places, NEW g \in WarpGroups, wg[g].tile \in Tiles,
         Moves(g, "mma", wg[g].tile + 1, wg[g].i, wg[g].work_idx, wg[g].read, wg[g].read_v),
         wg[g].work_idx = Before(WorkCount, wg[g].tile + 1),
         R!Pos(wg[g].read) = Before(BlockCount, wg[g].tile + 1)
  PROVE  Placed(g)'
<1> DEFINE n == wg[g].tile + 1
<1>1. n \in 1 .. Len(launch.tiles) + 1 /\ n \in Nat
  <2>1. wg[g].tile \in 1 .. Len(launch.tiles) /\ Len(launch.tiles) \in Nat BY PlaceFacts
  <2> QED BY <2>1
<1>2. launch' = launch BY DEF Moves
<1>3. Tiles' = Tiles /\ BlockCount' = BlockCount /\ WorkCount' = WorkCount BY <1>2, LaunchFixed
<1>4. wg'[g].tile = n /\ wg'[g].at = "mma" /\ wg'[g].work_idx = wg[g].work_idx /\ wg'[g].read = wg[g].read
  BY DEF Moves
<1>5. wg[g].work_idx = Before(WorkCount, n) /\ R!Pos(wg[g].read) = Before(BlockCount, n)
      /\ Before(WorkCount, n) \in Nat
  BY <1>1, PlaceFacts, Totals
<1> HIDE DEF n
<1> QED BY <1>1, <1>2, <1>3, <1>4, <1>5 DEF Placed, BeforeQK, InStep, AfterLoop,
           InEpilogue, WithoutATile

LEMMA WarpGroupStaysPlaced ==
  ASSUME Places, NEW g \in WarpGroups, WarpGroup(g)
  PROVE  Placed(g)' /\ Equipped(g)' 
<1> DEFINE t == wg[g].tile
<1>1. /\ TypeOK /\ Placed(g) /\ Equipped(g) /\ launch \in LaunchSpace
      /\ wg[g].at \in WarpGroupLabels /\ t \in Nat /\ wg[g].i \in Nat /\ wg[g].work_idx \in Nat
      /\ wg[g].read \in PipelineState /\ wg[g].read_v \in PipelineState
      /\ Before(BlockCount, t) \in Nat /\ Before(WorkCount, t) \in Nat
      /\ R!Pos(wg[g].read) \in Nat
      /\ R!Pos(Advance(wg[g].read)) = R!Pos(wg[g].read) + 1
      /\ Len(launch.tiles) \in Nat /\ Tiles = 1 .. Len(launch.tiles)
  BY PlaceFacts
<1>2. t \in Tiles => /\ MmaCount(t) \in Nat /\ BlockCount[t] = MmaCount(t)
                     /\ t + 1 \in 1 .. Len(launch.tiles) + 1
                     /\ Before(BlockCount, t + 1) = Before(BlockCount, t) + MmaCount(t)
                     /\ MmaCount(t) = 0 => Before(WorkCount, t + 1) = Before(WorkCount, t)
                     /\ MmaCount(t) > 0 => Before(WorkCount, t + 1) = Before(WorkCount, t) + 1
  <2> SUFFICES ASSUME t \in Tiles
               PROVE  /\ MmaCount(t) \in Nat /\ BlockCount[t] = MmaCount(t)
                      /\ t + 1 \in 1 .. Len(launch.tiles) + 1
                      /\ Before(BlockCount, t + 1) = Before(BlockCount, t) + MmaCount(t)
                      /\ MmaCount(t) = 0 => Before(WorkCount, t + 1) = Before(WorkCount, t)
                      /\ MmaCount(t) > 0 => Before(WorkCount, t + 1) = Before(WorkCount, t) + 1
    OBVIOUS
  <2>1. t + 1 \in 1 .. Len(launch.tiles) + 1 BY <1>1
  <2> QED BY <1>1, <2>1, NextTotals
<1>3. /\ launch' = launch =>
           /\ Tiles' = Tiles /\ BlockCount' = BlockCount /\ WorkCount' = WorkCount
  BY LaunchFixed
<1>4. CASE MmaInit(g)
  <2>1. Placed(g)'
    BY <1>1, <1>2, <1>3, <1>4, MmaInitMoves DEF Moves, Placed, BeforeQK, InStep,
       AfterLoop, InEpilogue, WithoutATile
  <2>3. Equipped(g)'
    BY <1>1, <1>3, <1>4, MmaInitMoves DEF Moves, Computes, Equipped, BeforeQK, InStep,
       AfterLoop, InEpilogue, WithoutATile
  <2> QED BY <2>1, <2>3
<1>5. CASE StoreZero(g)
  <2>0. MmaCount(t) = 0 BY <1>5 DEF StoreZero
  <2>a. /\ wg[g].work_idx = Before(WorkCount, t + 1)
        /\ R!Pos(wg[g].read) = Before(BlockCount, t + 1)
    BY <1>1, <1>2, <1>5, <2>0, StoreZeroMoves DEF Placed, BeforeQK, InStep, AfterLoop,
       InEpilogue, WithoutATile
  <2>1. Placed(g)' BY <2>a, <1>5, StoreZeroMoves, NextTilePlaced
  <2>3. Equipped(g)'
    BY <1>1, <1>3, <1>5, StoreZeroMoves DEF Moves, Computes, Equipped, BeforeQK,
       InStep, AfterLoop, InEpilogue, WithoutATile
  <2> QED BY <2>1, <2>3
<1>6. CASE WaitQ(g)
  <2>0. MmaCount(t) > 0 BY <1>6 DEF WaitQ
  <2>1. Placed(g)'
    BY <1>1, <1>2, <1>3, <1>6, <2>0, WaitQMoves DEF Moves, Placed, BeforeQK, InStep,
       AfterLoop, InEpilogue, WithoutATile
  <2>3. Equipped(g)'
    BY <1>1, <1>3, <1>6, WaitQMoves DEF Moves, Computes, Equipped, BeforeQK, InStep,
       AfterLoop, InEpilogue, WithoutATile
  <2> QED BY <2>1, <2>3
<1>7. CASE FirstQK(g)
  <2>1. Placed(g)'
    BY <1>1, <1>2, <1>3, <1>7, FirstQKMoves DEF Moves, Placed, BeforeQK, InStep,
       AfterLoop, InEpilogue, WithoutATile
  <2>2. Score(wg[g].read) \in ScoreRecord BY <1>1, ScoreTypes
  <2>3. Equipped(g)'
    BY <1>1, <1>3, <1>7, <2>2, FirstQKMoves DEF Moves, Computes, Equipped, BeforeQK,
       InStep, AfterLoop, InEpilogue, WithoutATile
  <2> QED BY <2>1, <2>3
<1>8. CASE FirstSoftmax(g)
  <2>a. /\ BlockCount[t] > 0 /\ 1 \in 1 .. BlockCount[t]
        /\ R!Pos(wg[g].read) = Before(BlockCount, t) + 1 - 1
        /\ wg[g].work_idx = Before(WorkCount, t)
    BY <1>1, <1>2, <1>8, FirstSoftmaxMoves DEF Placed, BeforeQK, InStep, AfterLoop,
       InEpilogue, WithoutATile
  <2>b. /\ wg'[g].at = "step" /\ wg'[g].tile = t /\ wg'[g].i = 1
        /\ wg'[g].read = wg[g].read
        /\ wg'[g].work_idx = wg[g].work_idx /\ launch' = launch /\ t \in Tiles
    BY <1>8, FirstSoftmaxMoves DEF Moves
  <2>1. Placed(g)' BY <1>1, <1>3, <2>a, <2>b DEF Placed, BeforeQK, InStep, AfterLoop,
                      InEpilogue, WithoutATile
  <2>3. Equipped(g)'
    BY <1>1, <1>3, <1>8, RecordTypes, FirstSoftmaxMoves DEF Moves, Computes, Equipped,
       BeforeQK, InStep, AfterLoop, InEpilogue, WithoutATile
  <2> QED BY <2>1, <2>3
<1>9. CASE StepQK(g)
  <2>0. wg[g].i < MmaCount(t) BY <1>9 DEF StepQK
  <2>a. /\ wg[g].i \in 1 .. BlockCount[t] - 1 /\ BlockCount[t] > 0
        /\ R!Pos(Advance(wg[g].read)) = Before(BlockCount, t) + wg[g].i
        /\ R!Pos(wg[g].read) = Before(BlockCount, t) + wg[g].i - 1
        /\ wg[g].work_idx = Before(WorkCount, t)
    <3>1. /\ wg[g].at = "step" /\ t \in Tiles /\ wg[g].i < MmaCount(t)
          /\ BlockCount[t] = MmaCount(t) /\ MmaCount(t) \in Nat
      BY <1>2, <1>9, <2>0, StepQKMoves
    <3>2. /\ wg[g].i \in 1 .. BlockCount[t] /\ BlockCount[t] > 0
          /\ R!Pos(wg[g].read) = Before(BlockCount, t) + wg[g].i - 1
          /\ wg[g].work_idx = Before(WorkCount, t)
      BY <1>1, <3>1 DEF Placed, BeforeQK, InStep, AfterLoop, InEpilogue, WithoutATile
    <3> QED BY <1>1, <3>1, <3>2
  <2>b. /\ wg'[g].at = "step_PV" /\ wg'[g].tile = t /\ wg'[g].i = wg[g].i
        /\ wg'[g].read = Advance(wg[g].read) /\ wg'[g].read_v = wg[g].read
        /\ wg'[g].work_idx = wg[g].work_idx /\ launch' = launch /\ t \in Tiles
    BY <1>9, StepQKMoves DEF Moves
  <2>1. Placed(g)' BY <1>1, <1>3, <2>a, <2>b DEF Placed, BeforeQK, InStep, AfterLoop,
                      InEpilogue, WithoutATile
  <2>2. Score(Advance(wg[g].read)) \in ScoreRecord BY <1>1, NextPosition, ScoreTypes
  <2>3. Equipped(g)'
    BY <1>1, <1>3, <1>9, <2>2, StepQKMoves DEF Moves, Computes, Equipped, BeforeQK,
       InStep, AfterLoop, InEpilogue, WithoutATile
  <2> QED BY <2>1, <2>3
<1>10. CASE StepPV(g)
  <2>1. Placed(g)'
    BY <1>1, <1>2, <1>3, <1>10, StepPVMoves DEF Moves, Placed, BeforeQK, InStep,
       AfterLoop, InEpilogue, WithoutATile
  <2>2. Accumulate(wg[g], wg[g].read_v) \in Seq(Term)
    BY <1>1, <1>10, AccumulateType DEF Equipped, InStep, StepPV, At
  <2>3. Equipped(g)'
    BY <1>1, <1>3, <1>10, <2>2, StepPVMoves DEF Moves, Computes, Equipped, BeforeQK,
       InStep, AfterLoop, InEpilogue, WithoutATile
  <2> QED BY <2>1, <2>3
<1>11. CASE StepReleaseK(g)
  <2>1. Placed(g)'
    BY <1>1, <1>2, <1>3, <1>11, StepReleaseKMoves DEF Moves, Placed, BeforeQK, InStep,
       AfterLoop, InEpilogue, WithoutATile
  <2>3. Equipped(g)'
    BY <1>1, <1>3, <1>11, StepReleaseKMoves DEF Moves, Computes, Equipped, BeforeQK,
       InStep, AfterLoop, InEpilogue, WithoutATile
  <2> QED BY <2>1, <2>3
<1>12. CASE StepReleaseV(g)
  <2> DEFINE n == wg[g].i + 1
  <2>a. /\ n \in 1 .. BlockCount[t] /\ n \in Nat /\ BlockCount[t] > 0
        /\ R!Pos(wg[g].read) = Before(BlockCount, t) + n - 1
        /\ wg[g].work_idx = Before(WorkCount, t)
    <3>1. /\ wg[g].at = "step_end" /\ t \in Tiles
          /\ BlockCount[t] = MmaCount(t) /\ MmaCount(t) \in Nat
      BY <1>2, <1>12, StepReleaseVMoves
    <3>2. /\ wg[g].i \in 1 .. BlockCount[t] - 1 /\ BlockCount[t] > 0
          /\ R!Pos(wg[g].read) = Before(BlockCount, t) + wg[g].i
          /\ wg[g].work_idx = Before(WorkCount, t)
      BY <1>1, <3>1 DEF Placed, BeforeQK, InStep, AfterLoop, InEpilogue, WithoutATile
    <3>3. Before(BlockCount, t) \in Nat BY <1>1
    <3>4. n \in 1 .. BlockCount[t] BY <3>1, <3>2
    <3>5. Before(BlockCount, t) + wg[g].i = Before(BlockCount, t) + n - 1 BY <3>2, <3>3
    <3> QED BY <3>1, <3>2, <3>4, <3>5
  <2>b. /\ wg'[g].at = "step" /\ wg'[g].tile = t /\ wg'[g].i = n /\ wg'[g].read = wg[g].read
        /\ wg'[g].work_idx = wg[g].work_idx /\ launch' = launch /\ t \in Tiles
    BY <1>12, StepReleaseVMoves DEF Moves
  <2> HIDE DEF n
  <2>1. Placed(g)' BY <1>1, <1>3, <2>a, <2>b DEF Placed, BeforeQK, InStep, AfterLoop,
                      InEpilogue, WithoutATile
  <2>3. Equipped(g)'
    BY <1>1, <1>3, <1>12, StepReleaseVMoves DEF Moves, Computes, Equipped, BeforeQK,
       InStep, AfterLoop, InEpilogue, WithoutATile
  <2> QED BY <2>1, <2>3
<1>13. CASE QueryDone(g)
  <2>0. wg[g].i = MmaCount(t) BY <1>13 DEF QueryDone
  <2>1. Placed(g)'
    BY <1>1, <1>2, <1>3, <1>13, <2>0, QueryDoneMoves DEF Moves, Placed, BeforeQK,
       InStep, AfterLoop, InEpilogue, WithoutATile
  <2>3. Equipped(g)'
    BY <1>1, <1>3, <1>13, QueryDoneMoves DEF Moves, Computes, Equipped, BeforeQK,
       InStep, AfterLoop, InEpilogue, WithoutATile
  <2> QED BY <2>1, <2>3
<1>14. CASE LastPV(g)
  <2>1. Placed(g)'
    BY <1>1, <1>2, <1>3, <1>14, LastPVMoves DEF Moves, Placed, BeforeQK, InStep,
       AfterLoop, InEpilogue, WithoutATile
  <2>2. Accumulate(wg[g], wg[g].read) \in Seq(Term)
    BY <1>1, <1>14, AccumulateType DEF Equipped, AfterLoop, LastPV, At
  <2>3. Equipped(g)'
    BY <1>1, <1>3, <1>14, <2>2, LastPVMoves DEF Moves, Computes, Equipped, BeforeQK,
       InStep, AfterLoop, InEpilogue, WithoutATile
  <2> QED BY <2>1, <2>3
<1>15. CASE LastReleaseV(g)
  <2>a. /\ BlockCount[t] > 0
        /\ R!Pos(Advance(wg[g].read)) = Before(BlockCount, t) + BlockCount[t]
        /\ wg[g].work_idx + 1 = Before(WorkCount, t) + 1
    BY <1>1, <1>2, <1>15, LastReleaseVMoves DEF Placed, BeforeQK, InStep, AfterLoop,
       InEpilogue, WithoutATile
  <2>b. /\ wg'[g].at = "epilogue" /\ wg'[g].tile = t
        /\ wg'[g].read = Advance(wg[g].read)
        /\ wg'[g].work_idx = wg[g].work_idx + 1 /\ launch' = launch /\ t \in Tiles
    BY <1>15, LastReleaseVMoves DEF Moves
  <2>1. Placed(g)' BY <1>1, <1>3, <2>a, <2>b DEF Placed, BeforeQK, InStep, AfterLoop,
                      InEpilogue, WithoutATile
  <2>3. Equipped(g)'
    BY <1>1, <1>3, <1>15, LastReleaseVMoves DEF Moves, Computes, Equipped, BeforeQK,
       InStep, AfterLoop, InEpilogue, WithoutATile
  <2> QED BY <2>1, <2>3
<1>16. CASE BeginTmaStore(g)
  <2>1. Placed(g)'
    BY <1>1, <1>2, <1>3, <1>16, BeginTmaStoreMoves DEF Moves, Placed, BeforeQK, InStep,
       AfterLoop, InEpilogue, WithoutATile
  <2>3. Equipped(g)'
    BY <1>1, <1>3, <1>16, BeginTmaStoreMoves DEF Moves, Computes, Equipped, BeforeQK,
       InStep, AfterLoop, InEpilogue, WithoutATile
  <2> QED BY <2>1, <2>3
<1>17. CASE EndTmaStore(g)
  <2>a. /\ wg[g].work_idx = Before(WorkCount, t + 1)
        /\ R!Pos(wg[g].read) = Before(BlockCount, t + 1)
    BY <1>1, <1>2, <1>17, EndTmaStoreMoves DEF Placed, BeforeQK, InStep, AfterLoop,
       InEpilogue, WithoutATile
  <2>1. Placed(g)' BY <2>a, <1>17, EndTmaStoreMoves, NextTilePlaced
  <2>3. Equipped(g)'
    BY <1>1, <1>3, <1>17, EndTmaStoreMoves DEF Moves, Computes, Equipped, BeforeQK,
       InStep, AfterLoop, InEpilogue, WithoutATile
  <2> QED BY <2>1, <2>3
<1>18. CASE ReadO(g)
  <2>1. Placed(g)'
    BY <1>1, <1>2, <1>3, <1>18, ReadOMoves DEF Moves, Placed, BeforeQK, InStep,
       AfterLoop, InEpilogue, WithoutATile
  <2>3. Equipped(g)'
    BY <1>1, <1>3, <1>18, ReadOMoves DEF Moves, Computes, Equipped, BeforeQK, InStep,
       AfterLoop, InEpilogue, WithoutATile
  <2> QED BY <2>1, <2>3
<1>19. CASE ArriveO(g)
  <2>a. /\ wg[g].work_idx = Before(WorkCount, t + 1)
        /\ R!Pos(wg[g].read) = Before(BlockCount, t + 1)
    BY <1>1, <1>2, <1>19, ArriveOMoves DEF Placed, BeforeQK, InStep, AfterLoop,
       InEpilogue, WithoutATile
  <2>1. Placed(g)' BY <2>a, <1>19, ArriveOMoves, NextTilePlaced
  <2>3. Equipped(g)'
    BY <1>1, <1>3, <1>19, ArriveOMoves DEF Moves, Computes, Equipped, BeforeQK, InStep,
       AfterLoop, InEpilogue, WithoutATile
  <2> QED BY <2>1, <2>3
<1>20. CASE WriteO(g)
  <2>1. /\ wg[g].work_idx = Before(WorkCount, t + 1)
        /\ R!Pos(wg[g].read) = Before(BlockCount, t + 1)
    BY <1>1, <1>2, <1>20, WriteOMoves DEF Placed, BeforeQK, InStep, AfterLoop,
       InEpilogue, WithoutATile
  <2>2. CASE wg'[g].at = "mma"
    <3>1. /\ Moves(g, "mma", wg[g].tile + 1, wg[g].i, wg[g].work_idx, wg[g].read, wg[g].read_v)
          /\ t \in Tiles
      BY <1>20, <2>2, WriteOMoves DEF Moves
    <3>2. Placed(g)' BY <2>1, <3>1, NextTilePlaced
    <3>3. Equipped(g)' BY <2>2 DEF Equipped, BeforeQK, InStep, AfterLoop, InEpilogue,
                          WithoutATile
    <3> QED BY <3>2, <3>3
  <2>3. CASE wg'[g].at # "mma"
    <3>1. /\ wg[g].at = "write_O" /\ t \in Tiles /\ launch' = launch
          /\ wg'[g].at \in {"store_O", "epilogue_smem"} /\ wg'[g].tile = t
          /\ wg'[g].read = wg[g].read /\ wg'[g].work_idx = wg[g].work_idx
          /\ wg'[g].at = "store_O" => launch.store = "tma" /\ g = Storer
          /\ wg'[g].at = "epilogue_smem" => launch.store # "tma"
      BY <1>20, <2>3, WriteOMoves DEF Moves
    <3>2. Placed(g)' BY <1>1, <1>3, <3>1 DEF Placed, BeforeQK, InStep, AfterLoop,
                        InEpilogue, WithoutATile
    <3>3. Equipped(g)' BY <1>1, <3>1, LaunchFields DEF Equipped, BeforeQK, InStep,
                          AfterLoop, InEpilogue, WithoutATile
    <3> QED BY <3>2, <3>3
  <2> QED BY <2>2, <2>3
<1> QED BY <1>4, <1>5, <1>6, <1>7, <1>8, <1>9, <1>10, <1>11, <1>12, <1>13, <1>14,
           <1>15, <1>16, <1>17, <1>18, <1>19, <1>20 DEF WarpGroup, Mainloop, Epilogue

LEMMA SyncStaysPlaced ==
  ASSUME Places, EpilogueSync, NEW g \in WarpGroups
  PROVE  Placed(g)' /\ Equipped(g)'
<1>1. Placed(g) /\ Equipped(g) BY DEF Places
<1>2. launch' = launch BY DEF EpilogueSync
<1>3. Tiles' = Tiles /\ BlockCount' = BlockCount /\ WorkCount' = WorkCount BY <1>2, LaunchFixed
<1>4. wg'[g].at \in {"arrive_O", "write_O", "read_O"} /\ wg[g].at \in AtEpilogueSync
  BY SyncMoves DEF AtEpilogueSync
<1>5. Placed(g)'
  BY <1>1, <1>2, <1>3, <1>4, SyncMoves DEF Placed, AtEpilogueSync, BeforeQK, InStep,
     AfterLoop, InEpilogue, WithoutATile
<1>6. Equipped(g)'
  BY <1>1, <1>2, <1>4, SyncMoves, LaunchFields DEF Equipped, AtEpilogueSync, BeforeQK,
     InStep, AfterLoop, InEpilogue, WithoutATile
<1> QED BY <1>5, <1>6

LEMMA OnlyOneMoves ==
  ASSUME Places, NEW g \in WarpGroups, WarpGroup(g)
  PROVE  /\ launch' = launch /\ producer' = producer
         /\ wg' \in [WarpGroups -> WarpGroupRecord]
         /\ \A h \in WarpGroups : h # g => wg'[h] = wg[h]
<1>1. CASE Mainloop(g)
  BY <1>1, MmaInitMoves, StoreZeroMoves, WaitQMoves, FirstQKMoves, FirstSoftmaxMoves,
     StepQKMoves,
     StepPVMoves, StepReleaseKMoves, StepReleaseVMoves, QueryDoneMoves, LastPVMoves,
     LastReleaseVMoves DEF Moves, Mainloop
<1>2. CASE Epilogue(g)
  BY <1>2, WriteOMoves, BeginTmaStoreMoves, EndTmaStoreMoves, ReadOMoves, ArriveOMoves
  DEF Moves, Epilogue
<1> QED BY <1>1, <1>2 DEF WarpGroup

(* The arrivals at the epilogue's sync are those of the warpgroups there.  *)
LEMMA WarpGroupKeepsSync ==
  ASSUME Places, NEW g \in WarpGroups, WarpGroup(g)
  PROVE  SyncArrivals'
<1>1. /\ named.sync = {h \in WarpGroups : wg[h].at \in AtEpilogueSync}
      /\ named.sync \in SUBSET WarpGroups /\ named.store \in SUBSET WarpGroups
      /\ named = [queryEmpty |-> named.queryEmpty, scheduler |-> named.scheduler,
                  sync |-> named.sync, store |-> named.store]
  BY DEF Places, SyncArrivals, TypeOK
<1>2. \A h \in WarpGroups : h # g => wg'[h] = wg[h] BY OnlyOneMoves
<1>3. ASSUME wg[g].at \notin AtEpilogueSync, wg'[g].at \notin AtEpilogueSync,
             named'.sync = named.sync
      PROVE  SyncArrivals'
  <2>1. \A h \in WarpGroups : wg'[h].at \in AtEpilogueSync <=> wg[h].at \in AtEpilogueSync
    BY <1>2, <1>3
  <2> QED BY <1>1, <1>3, <2>1 DEF SyncArrivals
<1>4. ASSUME wg'[g].at \in AtEpilogueSync, named'.sync = named.sync \cup {g}
      PROVE  SyncArrivals'
  <2>1. \A h \in WarpGroups :
          wg'[h].at \in AtEpilogueSync <=> (wg[h].at \in AtEpilogueSync \/ h = g)
    BY <1>2, <1>4
  <2> QED BY <1>1, <1>4, <2>1 DEF SyncArrivals
<1>5. CASE Mainloop(g) /\ ~LastReleaseV(g)
  <2>1. wg[g].at \notin AtEpilogueSync /\ wg'[g].at \notin AtEpilogueSync
    BY <1>5, MmaInitMoves, StoreZeroMoves, WaitQMoves, FirstQKMoves, FirstSoftmaxMoves,
       StepQKMoves, StepPVMoves, StepReleaseKMoves, StepReleaseVMoves, QueryDoneMoves,
       LastPVMoves DEF Moves, Mainloop, AtEpilogueSync
  <2>2. TakeTurn(g).sync = named.sync /\ PassTurn(g).sync = named.sync
    BY <1>1 DEF TakeTurn, PassTurn
  <2>3. named'.sync = named.sync
    <3>1. CASE MmaInit(g) BY <1>1, <3>1 DEF MmaInit
    <3>2. CASE QueryDone(g) BY <1>1, <3>2 DEF QueryDone
    <3>3. CASE StepQK(g) BY <2>2, <3>3 DEF StepQK
    <3>4. CASE StepPV(g) BY <2>2, <3>4 DEF StepPV
    <3>5. CASE named' = named BY <3>5
    <3> QED BY <1>5, <3>1, <3>2, <3>3, <3>4, <3>5
            DEF Mainloop, StoreZero, WaitQ, FirstQK, FirstSoftmax, StepReleaseK, StepReleaseV, LastPV
  <2> QED BY <1>3, <2>1, <2>3
<1>6. CASE LastReleaseV(g)
  <2>1. wg'[g].at \in AtEpilogueSync BY <1>6, LastReleaseVMoves DEF Moves, AtEpilogueSync
  <2>2. named'.sync = named.sync \cup {g} BY <1>1, <1>6 DEF LastReleaseV
  <2> QED BY <1>4, <2>1, <2>2
<1>7. CASE WriteO(g)
  <2>1. CASE launch.store = "tma"
    <3>1. wg[g].at \notin AtEpilogueSync /\ wg'[g].at \notin AtEpilogueSync
      BY <1>7, <2>1, WriteOMoves DEF Moves, AtEpilogueSync
    <3>2. named'.sync = named.sync BY <1>1, <1>7, <2>1 DEF WriteO
    <3> QED BY <1>3, <3>1, <3>2
  <2>2. CASE launch.store # "tma"
    <3>1. wg'[g].at \in AtEpilogueSync
      BY <1>7, <2>2, WriteOMoves DEF Moves, AtEpilogueSync
    <3>2. named'.sync = named.sync \cup {g} BY <1>1, <1>7, <2>2 DEF WriteO
    <3> QED BY <1>4, <3>1, <3>2
  <2> QED BY <2>1, <2>2
<1>8. CASE Epilogue(g) /\ ~WriteO(g)
  <2>1. wg[g].at \notin AtEpilogueSync /\ wg'[g].at \notin AtEpilogueSync
    BY <1>8, BeginTmaStoreMoves, EndTmaStoreMoves, ReadOMoves, ArriveOMoves
    DEF Moves, Epilogue, AtEpilogueSync
  <2>2. named'.sync = named.sync
    <3>1. CASE BeginTmaStore(g) BY <1>1, <3>1 DEF BeginTmaStore
    <3> QED BY <1>8, <3>1 DEF Epilogue, EndTmaStore, ReadO, ArriveO
  <2> QED BY <1>3, <2>1, <2>2
<1> QED BY <1>5, <1>6, <1>7, <1>8 DEF WarpGroup, Mainloop

LEMMA SyncResources ==
  ASSUME Places, EpilogueSync
  PROVE  Resources' /\ SyncArrivals'
<1>1. TypeOK /\ Resources BY DEF Places, TypeOK, Resources
<1>2. Tiles' = Tiles BY LaunchFixed DEF EpilogueSync
<1>3. named' = [named EXCEPT !.sync = {}] BY DEF EpilogueSync
<1>4. /\ named' \in [queryEmpty : Nat, scheduler : [WarpGroups -> Nat],
                     sync : SUBSET WarpGroups, store : SUBSET WarpGroups]
      /\ named'.sync = {}
  BY <1>1, <1>3 DEF Resources
<1>5. Resources' BY <1>1, <1>2, <1>4 DEF EpilogueSync, Resources
<1>6. ASSUME NEW g \in WarpGroups PROVE wg'[g].at \notin AtEpilogueSync
  BY SyncMoves DEF AtEpilogueSync
<1> QED BY <1>4, <1>5, <1>6 DEF SyncArrivals

LEMMA ProducerFacts ==
  ASSUME Places
  PROVE  /\ TypeOK /\ ProducerPlaced /\ launch \in LaunchSpace
         /\ Len(launch.tiles) \in Nat /\ Tiles = 1 .. Len(launch.tiles)
         /\ producer.at \in ProducerLabels /\ producer.tile \in Nat /\ producer.i \in Nat
         /\ producer.work_idx \in Nat /\ producer.write \in PipelineState
         /\ producer.write_v \in PipelineState
         /\ Before(BlockCount, producer.tile) \in Nat
         /\ Before(WorkCount, producer.tile) \in Nat
         /\ R!Pos(producer.write) \in Nat
         /\ R!Pos(Advance(producer.write)) = R!Pos(producer.write) + 1
<1>1. TypeOK /\ ProducerPlaced /\ producer \in ProducerRecord
  BY TypedWarpGroups DEF Places
<1>2. launch \in LaunchSpace BY <1>1 DEF TypeOK
<1>3. Len(launch.tiles) \in Nat BY <1>2, LaunchFields
<1>4. /\ producer.at \in ProducerLabels /\ producer.tile \in Nat /\ producer.i \in Nat
      /\ producer.work_idx \in Nat /\ producer.write \in PipelineState
      /\ producer.write_v \in PipelineState
  BY <1>1 DEF ProducerRecord
<1> QED BY <1>1, <1>2, <1>3, <1>4, Totals, NextPosition DEF Tiles

LEMMA ProducerStaysPlaced ==
  ASSUME Places, Producer
  PROVE  ProducerPlaced' /\ launch' = launch /\ wg' = wg
<1> DEFINE t == producer.tile
<1>1. /\ TypeOK /\ ProducerPlaced /\ launch \in LaunchSpace
      /\ Len(launch.tiles) \in Nat /\ Tiles = 1 .. Len(launch.tiles)
      /\ producer.at \in ProducerLabels /\ t \in Nat /\ producer.i \in Nat
      /\ producer.work_idx \in Nat /\ producer.write \in PipelineState
      /\ producer.write_v \in PipelineState
      /\ Before(BlockCount, t) \in Nat /\ Before(WorkCount, t) \in Nat
      /\ R!Pos(producer.write) \in Nat
      /\ R!Pos(Advance(producer.write)) = R!Pos(producer.write) + 1
  BY ProducerFacts
<1>2. t \in Tiles => /\ MmaCount(t) \in Nat /\ BlockCount[t] = MmaCount(t)
                     /\ Len(LoadBlocks(t)) = MmaCount(t)
                     /\ LoadBlocks(t) = << >> <=> MmaCount(t) = 0
                     /\ t + 1 \in 1 .. Len(launch.tiles) + 1
                     /\ Before(BlockCount, t + 1) = Before(BlockCount, t) + MmaCount(t)
                     /\ MmaCount(t) = 0 => Before(WorkCount, t + 1) = Before(WorkCount, t)
                     /\ MmaCount(t) > 0 => Before(WorkCount, t + 1) = Before(WorkCount, t) + 1
  <2> SUFFICES ASSUME t \in Tiles
               PROVE  /\ MmaCount(t) \in Nat /\ BlockCount[t] = MmaCount(t)
                      /\ Len(LoadBlocks(t)) = MmaCount(t)
                      /\ LoadBlocks(t) = << >> <=> MmaCount(t) = 0
                      /\ t + 1 \in 1 .. Len(launch.tiles) + 1
                      /\ Before(BlockCount, t + 1) = Before(BlockCount, t) + MmaCount(t)
                      /\ MmaCount(t) = 0 => Before(WorkCount, t + 1) = Before(WorkCount, t)
                      /\ MmaCount(t) > 0 => Before(WorkCount, t + 1) = Before(WorkCount, t) + 1
    OBVIOUS
  <2>1. t + 1 \in 1 .. Len(launch.tiles) + 1 BY <1>1
  <2> QED BY <1>1, <2>1, NextTotals, TileFacts
<1>3. /\ launch' = launch =>
           /\ Tiles' = Tiles /\ BlockCount' = BlockCount /\ WorkCount' = WorkCount
  BY LaunchFixed
<1>4. launch' = launch /\ wg' = wg
  BY DEF Producer, SkipTile, LoadFirstK, LoadQ, WaitO, LoadNextK, LoadPrevV, LoadLastV, LoadTail
<1>5. CASE SkipTile
  <2> DEFINE n == t + 1
  <2>1. /\ n \in 1 .. Len(launch.tiles) + 1 /\ R!Pos(producer.write) = Before(BlockCount, n)
        /\ producer.work_idx = Before(WorkCount, n)
    BY <1>1, <1>2, <1>5, SkipTileMoves DEF ProducerPlaced, SkipTile
  <2>2. producer'.at = "tile" /\ producer'.tile = n /\ producer'.work_idx = producer.work_idx
        /\ producer'.write = producer.write
    BY <1>5, SkipTileMoves DEF ProducerMoves
  <2> HIDE DEF n
  <2> QED BY <1>3, <1>4, <2>1, <2>2 DEF ProducerPlaced
<1>6. CASE LoadFirstK
  <2>1. BlockCount[t] > 0 /\ t \in Tiles BY <1>1, <1>2, <1>6, LoadFirstKMoves DEF LoadFirstK
  <2> QED BY <1>1, <1>3, <1>4, <1>6, <2>1, LoadFirstKMoves DEF ProducerPlaced, ProducerMoves
<1>7. CASE LoadQ
  BY <1>1, <1>3, <1>4, <1>7, LoadQMoves DEF ProducerPlaced, ProducerMoves
<1>8. CASE WaitO
  <2>1. producer.i = 1 /\ t \in Tiles /\ BlockCount[t] \in Nat /\ BlockCount[t] > 0
    BY <1>1, <1>2, <1>8, WaitOMoves DEF ProducerPlaced
  <2>2. producer.i \in 1 .. BlockCount[t] BY <2>1
  <2>3. R!Pos(producer.write) = Before(BlockCount, t) + producer.i - 1
    BY <1>1, <1>8, <2>1, WaitOMoves DEF ProducerPlaced
  <2> QED BY <1>1, <1>3, <1>4, <1>8, <2>1, <2>2, <2>3, WaitOMoves DEF ProducerPlaced,
             ProducerMoves
<1>9. CASE LoadNextK
  <2>1. producer.i < Len(LoadBlocks(t)) BY <1>9 DEF LoadNextK
  <2>2. /\ producer.i \in 1 .. BlockCount[t] /\ t \in Tiles /\ BlockCount[t] > 0
        /\ R!Pos(producer.write) = Before(BlockCount, t) + producer.i - 1
    BY <1>1, <1>9, LoadNextKMoves DEF ProducerPlaced
  <2>3. producer.i \in 1 .. BlockCount[t] - 1 BY <1>2, <2>1, <2>2
  <2>4. R!Pos(Advance(producer.write)) = Before(BlockCount, t) + producer.i BY <1>1, <2>2
  <2> QED BY <1>1, <1>3, <1>4, <1>9, <2>2, <2>3, <2>4, LoadNextKMoves
             DEF ProducerPlaced, ProducerMoves
<1>10. CASE LoadPrevV
  <2> DEFINE n == producer.i + 1
  <2>1. /\ producer.i \in 1 .. BlockCount[t] - 1 /\ t \in Tiles /\ BlockCount[t] > 0
        /\ R!Pos(producer.write) = Before(BlockCount, t) + producer.i
    BY <1>1, <1>10, LoadPrevVMoves DEF ProducerPlaced
  <2>2. n \in 1 .. BlockCount[t]
    <3>1. BlockCount[t] \in Nat BY <1>2, <2>1
    <3> QED BY <1>1, <2>1, <3>1
  <2>3. Before(BlockCount, t) + producer.i = Before(BlockCount, t) + n - 1 BY <1>1
  <2>4. /\ producer'.at = "load_K" /\ producer'.tile = t /\ producer'.i = n
        /\ producer'.work_idx = producer.work_idx /\ producer'.write = producer.write
    BY <1>10, LoadPrevVMoves DEF ProducerMoves
  <2> HIDE DEF n
  <2> QED BY <1>1, <1>3, <1>4, <2>1, <2>2, <2>3, <2>4 DEF ProducerPlaced
<1>11. CASE LoadLastV
  <2> DEFINE n == t + 1
  <2>1. /\ producer.i = BlockCount[t] /\ t \in Tiles /\ BlockCount[t] > 0
        /\ R!Pos(producer.write) = Before(BlockCount, t) + producer.i - 1
    BY <1>1, <1>2, <1>11, LoadLastVMoves DEF ProducerPlaced, LoadLastV
  <2>2. producer.work_idx = Before(WorkCount, t) BY <1>1 DEF ProducerPlaced
  <2>3. /\ MmaCount(t) \in Nat /\ BlockCount[t] = MmaCount(t)
        /\ Before(BlockCount, n) = Before(BlockCount, t) + MmaCount(t)
        /\ Before(WorkCount, n) = Before(WorkCount, t) + 1
        /\ n \in 1 .. Len(launch.tiles) + 1
    BY <1>2, <2>1
  <2>4. R!Pos(Advance(producer.write)) = Before(BlockCount, n)
    BY <1>1, <2>1, <2>3
  <2>5. producer.work_idx + 1 = Before(WorkCount, n)
    BY <2>2, <2>3
  <2>6. producer'.at = "tile" /\ producer'.tile = n /\ producer'.work_idx = producer.work_idx + 1
        /\ producer'.write = Advance(producer.write)
    BY <1>11, LoadLastVMoves DEF ProducerMoves
  <2> HIDE DEF n
  <2> QED BY <1>3, <1>4, <2>3, <2>4, <2>5, <2>6 DEF ProducerPlaced
<1>12. CASE LoadTail
  BY <1>1, <1>3, <1>4, <1>12, LoadTailMoves DEF ProducerPlaced, ProducerMoves
<1> QED BY <1>4, <1>5, <1>6, <1>7, <1>8, <1>9, <1>10, <1>11, <1>12 DEF Producer

(* Tma copies move nobody.                                                 *)
LEMMA PlacesUnmoved ==
  ASSUME Places, launch' = launch, producer' = producer, wg' = wg,
         Resources', named'.sync = named.sync
  PROVE  Places'
<1>1. TypeOK /\ ProducerPlaced /\ SyncArrivals BY DEF Places
<1>2. Tiles' = Tiles /\ BlockCount' = BlockCount /\ WorkCount' = WorkCount BY LaunchFixed
<1>3. TypeOK' BY <1>1, TypeOKNext, TypedWarpGroups
<1>4. ProducerPlaced' BY <1>1, <1>2 DEF ProducerPlaced
<1>5. SyncArrivals' BY <1>1 DEF SyncArrivals
<1>6. ASSUME NEW g \in WarpGroups PROVE Placed(g)' /\ Equipped(g)'
  <2>1. wg'[g] = wg[g] /\ Placed(g) /\ Equipped(g) BY DEF Places
  <2> QED BY <2>1, OtherStays
<1> QED BY <1>3, <1>4, <1>5, <1>6 DEF Places

LEMMA PlacesInit ==
  ASSUME Init
  PROVE  Places
<1>1. launch \in LaunchSpace BY LaunchesAssumption DEF Init
<1>2. Len(launch.tiles) \in Nat /\ 1 \in 1 .. Len(launch.tiles) + 1 /\ Tiles = 1 .. Len(launch.tiles)
  <2>1. Len(launch.tiles) \in Nat BY <1>1, LaunchFields
  <2> QED BY <2>1 DEF Tiles
<1>3. StartState \in PipelineState /\ R!Pos(StartState) = 0 BY FirstPosition
<1>4. EmptyPipeline \in PipelineStorage(Block)
  BY DEF EmptyPipeline, PipelineStorage
<1>5. producer \in ProducerRecord
  BY <1>3 DEF Init, ProducerRecord, ProducerLabels
<1>6. wg \in [WarpGroups -> WarpGroupRecord]
  BY <1>3, RecordTypes DEF Init, WarpGroupRecord, WarpGroupLabels
<1>7. Resources
  <2>1. out \in [Tiles -> [WarpGroups -> Seq(Result)]] BY DEF Init
  <2>2. smem_o \in [WarpGroups -> Result] BY RecordTypes DEF Init
  <2>3. /\ query \in [load : Nat \cup {NoBlock}, data : Nat \cup {NoBlock}, completed : Nat]
        /\ named \in [queryEmpty : Nat, scheduler : [WarpGroups -> Nat],
                      sync : SUBSET WarpGroups, store : SUBSET WarpGroups]
        /\ barrier_O \in [arrived : Nat, completed : Nat]
    BY DEF Init
  <2> QED BY <1>4, <2>1, <2>2, <2>3 DEF Init, Resources
<1>8. \A t \in Tiles : MmaCount(t) \in Nat /\ LoadBlocks(t) \in Seq(Nat)
  BY <1>1, TileBlockCounts
<1>9. TypeOK
  BY <1>1, <1>5, <1>6, <1>7, <1>8 DEF TypeOK, ProducerRecord, WarpGroupRecord, Resources
<1>10. Before(BlockCount, 1) = 0 /\ Before(WorkCount, 1) = 0 BY <1>1, Totals
<1>11. ProducerPlaced
  <2>1. producer.at = "tile" /\ producer.tile = 1 /\ producer.work_idx = 0
        /\ producer.write = StartState
    BY DEF Init
  <2> QED BY <1>2, <1>3, <1>10, <2>1 DEF ProducerPlaced
<1>12. ASSUME NEW g \in WarpGroups
       PROVE  /\ Placed(g) /\ Equipped(g) /\ wg[g].at = "init"
  <2>1. wg[g].at = "init" /\ wg[g].tile = 1 /\ wg[g].work_idx = 0 /\ wg[g].read = StartState
    BY DEF Init
  <2>2. Placed(g)
    BY <1>2, <1>3, <1>10, <2>1 DEF Placed, BeforeQK, InStep, AfterLoop, InEpilogue, WithoutATile
  <2>3. Equipped(g) BY <2>1 DEF Equipped, InStep, AfterLoop
  <2> QED BY <2>1, <2>2, <2>3
<1>13. SyncArrivals BY <1>12 DEF Init, SyncArrivals, AtEpilogueSync
<1> QED BY <1>9, <1>11, <1>12, <1>13 DEF Places

LEMMA PlacesNext ==
  ASSUME Places, [Next]_vars
  PROVE  Places'
<1>1. TypeOK /\ Resources BY DEF Places, TypeOK, Resources
<1>2. CASE Producer
  <2>1. ProducerPlaced' /\ launch' = launch /\ wg' = wg BY <1>2, ProducerStaysPlaced
  <2>2. Resources' BY <1>2, ProducerResources
  <2>3. producer' \in ProducerRecord
    BY <1>2, SkipTileMoves, LoadFirstKMoves, LoadQMoves, WaitOMoves, LoadNextKMoves,
       LoadPrevVMoves, LoadLastVMoves, LoadTailMoves DEF Producer, ProducerMoves
  <2>4. TypeOK' BY <1>1, <2>1, <2>2, <2>3, TypedWarpGroups, TypeOKNext
  <2>5. named'.sync = named.sync
    <3>1. CASE LoadQ BY <1>1, <3>1 DEF LoadQ, Resources
    <3> QED BY <1>2, <3>1 DEF Producer, SkipTile, LoadFirstK, WaitO, LoadNextK,
               LoadPrevV, LoadLastV, LoadTail
  <2>6. SyncArrivals' BY <2>1, <2>5 DEF Places, SyncArrivals
  <2>7. ASSUME NEW g \in WarpGroups PROVE Placed(g)' /\ Equipped(g)'
    <3>1. wg'[g] = wg[g] /\ Placed(g) /\ Equipped(g) BY <2>1 DEF Places
    <3> QED BY <2>1, <3>1, OtherStays
  <2> QED BY <2>1, <2>4, <2>6, <2>7 DEF Places
<1>3. CASE Tma
  <2>1. launch' = launch /\ producer' = producer /\ wg' = wg /\ named' = named
    BY <1>3 DEF Tma, LandQ, LandK, LandV
  <2> QED BY <1>3, <2>1, TmaResources, PlacesUnmoved
<1>4. CASE EpilogueSync
  <2>1. launch' = launch /\ producer' = producer BY <1>4 DEF EpilogueSync
  <2>2. wg' \in [WarpGroups -> WarpGroupRecord] BY <1>4, SomeWarpGroup, SyncMoves
  <2>3. Resources' /\ SyncArrivals' BY <1>4, SyncResources
  <2>4. TypeOK' BY <1>1, <2>1, <2>2, <2>3, TypedWarpGroups, TypeOKNext
  <2>5. Tiles' = Tiles /\ BlockCount' = BlockCount /\ WorkCount' = WorkCount
    BY <2>1, LaunchFixed
  <2>6. ProducerPlaced' BY <2>1, <2>5 DEF Places, ProducerPlaced
  <2>7. ASSUME NEW g \in WarpGroups PROVE Placed(g)' /\ Equipped(g)'
    BY <1>4, SyncStaysPlaced
  <2> QED BY <2>3, <2>4, <2>6, <2>7 DEF Places
<1>5. CASE Exit \/ UNCHANGED vars
  <2>1. UNCHANGED vars BY <1>5 DEF Exit
  <2>2. Tiles' = Tiles BY <2>1, LaunchFixed DEF vars
  <2>3. Resources' BY <1>1, <2>1, <2>2 DEF vars, Resources
  <2> QED BY <2>1, <2>3, PlacesUnmoved DEF vars
<1>6. CASE \E g \in WarpGroups : WarpGroup(g)
  <2>1. PICK g \in WarpGroups : WarpGroup(g) BY <1>6
  <2>2. /\ launch' = launch /\ producer' = producer
        /\ wg' \in [WarpGroups -> WarpGroupRecord]
        /\ \A h \in WarpGroups : h # g => wg'[h] = wg[h]
    BY <2>1, OnlyOneMoves
  <2>3. Resources' /\ SyncArrivals' BY <2>1, WarpGroupResources, WarpGroupKeepsSync
  <2>4. TypeOK' BY <1>1, <2>2, <2>3, TypedWarpGroups, TypeOKNext
  <2>5. Tiles' = Tiles /\ BlockCount' = BlockCount /\ WorkCount' = WorkCount
    BY <2>2, LaunchFixed
  <2>6. ProducerPlaced' BY <2>2, <2>5 DEF Places, ProducerPlaced
  <2>7. ASSUME NEW h \in WarpGroups PROVE Placed(h)' /\ Equipped(h)'
    <3>1. CASE h = g BY <2>1, <3>1, WarpGroupStaysPlaced
    <3>2. CASE h # g
      <4>1. wg'[h] = wg[h] /\ Placed(h) /\ Equipped(h) BY <2>2, <3>2 DEF Places
      <4> QED BY <2>2, <4>1, OtherStays
    <3> QED BY <3>1, <3>2
  <2> QED BY <2>3, <2>4, <2>6, <2>7 DEF Places
<1> QED BY <1>2, <1>3, <1>4, <1>5, <1>6 DEF Next

(* Everybody is where its label, tile and step say, whatever order the     *)
(* warps and copies run in.                                                *)
THEOREM PlacesAlways == Spec => []Places
<1>1. Init => Places BY PlacesInit
<1>2. Places /\ [Next]_vars => Places' BY PlacesNext
<1> QED BY <1>1, <1>2, PTL DEF Spec

(* TypeOK for every launch and every size of the CTA: shared memory only   *)
(* ever holds blocks of the tiles, and states of the two rings stay inside *)
(* them.                                                                   *)
THEOREM TypesCorrect == Spec => []TypeOK
<1>1. Places => TypeOK BY DEF Places
<1> QED BY <1>1, PlacesAlways, PTL

-----------------------------------------------------------------------------
(* With the scheduler barriers the warpgroups take turns in a ring.        *)

(* How often g has passed its turn on.                                     *)
TurnsTaken(g) ==
  Before(TurnCount, wg[g].tile) +
    (IF wg[g].at \in {"step", "step_PV"} THEN wg[g].i - 1
     ELSE IF wg[g].at \in {"step_softmax", "step_end"} THEN wg[g].i
     ELSE IF wg[g].at \in AfterLoop \cup InEpilogue THEN BlockCount[wg[g].tile] - 1
     ELSE 0)

(* g is the one whose turn it is, its n-th (counted from 0).               *)
HasTurn(g, n) ==
  /\ \A h \in WarpGroups : TurnsTaken(h) = IF h < g THEN n + 1 ELSE n
  /\ \A h \in WarpGroups : h # g => named.scheduler[h] = 0 /\ wg[h].at # "step_PV"
  /\ named.scheduler[g] =
       IF wg[g].at = "step_PV" \/ (g = 0 /\ wg[g].at = "init") THEN 0 ELSE 1

TurnsInOrder ==
  IF UseSchedulerBarrier
  THEN \E g \in WarpGroups, n \in Nat : HasTurn(g, n)
  ELSE \A g \in WarpGroups : named.scheduler[g] = 0

LEMMA SameTurns ==
  ASSUME launch' = launch, NEW g \in WarpGroups, wg'[g] = wg[g]
  PROVE  TurnsTaken(g)' = TurnsTaken(g)
<1>1. TurnCount' = TurnCount /\ BlockCount' = BlockCount BY LaunchFixed
<1> QED BY <1>1 DEF TurnsTaken

LEMMA TurnsOfNextTile ==
  ASSUME Places, NEW g \in WarpGroups, wg[g].tile \in Tiles,
         launch' = launch, wg'[g].at = "mma", wg'[g].tile = wg[g].tile + 1,
         \/ wg[g].at = "mma" /\ MmaCount(wg[g].tile) = 0
         \/ wg[g].at \in InEpilogue
  PROVE  TurnsTaken(g)' = TurnsTaken(g)
<1> DEFINE t == wg[g].tile
           n == t + 1
<1>1. TurnCount' = TurnCount /\ BlockCount' = BlockCount BY LaunchFixed
<1>2. launch \in LaunchSpace /\ Placed(g) /\ Before(TurnCount, t) \in Nat BY PlaceFacts
<1>3. /\ MmaCount(t) \in Nat /\ BlockCount[t] = MmaCount(t)
      /\ MmaCount(t) = 0 => Before(TurnCount, n) = Before(TurnCount, t)
      /\ MmaCount(t) > 0 => Before(TurnCount, n) = Before(TurnCount, t) + MmaCount(t) - 1
  BY <1>2, NextTotals
<1>4. TurnsTaken(g)' = Before(TurnCount, n) + 0
  <2> HIDE DEF n
  <2>1. wg'[g].at = "mma" /\ wg'[g].tile = n BY DEF n
  <2> QED BY <1>1, <2>1 DEF TurnsTaken, AfterLoop, InEpilogue
<1>5. CASE wg[g].at = "mma" /\ MmaCount(t) = 0
  <2>1. TurnsTaken(g) = Before(TurnCount, t) + 0 BY <1>5 DEF TurnsTaken, AfterLoop, InEpilogue
  <2> QED BY <1>3, <1>4, <1>5, <2>1
<1>6. CASE wg[g].at \in InEpilogue
  <2>1. TurnsTaken(g) = Before(TurnCount, t) + (BlockCount[t] - 1)
    BY <1>6 DEF TurnsTaken, AfterLoop, InEpilogue
  <2>2. BlockCount[t] > 0 BY <1>2, <1>6 DEF Placed, InEpilogue, WithoutATile
  <2> QED BY <1>2, <1>3, <1>4, <2>1, <2>2
<1> QED BY <1>5, <1>6

LEMMA TurnsTakenKept ==
  ASSUME Places, NEW g \in WarpGroups, WarpGroup(g), ~StepPV(g)
  PROVE  TurnsTaken(g)' = TurnsTaken(g)
<1> DEFINE t == wg[g].tile
<1>1. /\ Placed(g) /\ t \in Nat /\ wg[g].i \in Nat /\ Before(TurnCount, t) \in Nat
  BY PlaceFacts
<1>2. launch' = launch BY OnlyOneMoves
<1>3. TurnCount' = TurnCount /\ BlockCount' = BlockCount BY <1>2, LaunchFixed
<1>4. t \in Tiles => MmaCount(t) \in Nat /\ BlockCount[t] = MmaCount(t)
  BY TileFacts, PlaceFacts
<1>5. CASE MmaInit(g) \/ WaitQ(g) \/ FirstQK(g)
  BY <1>3, <1>5, MmaInitMoves, WaitQMoves, FirstQKMoves DEF Moves, TurnsTaken,
     AfterLoop, InEpilogue
<1>6. CASE StoreZero(g)
  BY <1>2, <1>6, StoreZeroMoves, TurnsOfNextTile DEF Moves, StoreZero
<1>7. CASE FirstSoftmax(g)
  BY <1>3, <1>7, FirstSoftmaxMoves DEF Moves, TurnsTaken, AfterLoop, InEpilogue
<1>8. CASE StepQK(g) \/ StepReleaseK(g)
  BY <1>3, <1>8, StepQKMoves, StepReleaseKMoves DEF Moves, TurnsTaken, AfterLoop, InEpilogue
<1>9. CASE StepReleaseV(g)
  <2> DEFINE n == wg[g].i + 1
  <2>1. n - 1 = wg[g].i BY <1>1
  <2>2. /\ wg[g].at = "step_end" /\ wg'[g].at = "step" /\ wg'[g].tile = t /\ wg'[g].i = n
    BY <1>9, StepReleaseVMoves DEF Moves
  <2> HIDE DEF n
  <2>3. TurnsTaken(g) = Before(TurnCount, t) + wg[g].i BY <2>2 DEF TurnsTaken
  <2>4. TurnsTaken(g)' = Before(TurnCount, t) + (n - 1) BY <1>3, <2>2 DEF TurnsTaken
  <2> QED BY <2>1, <2>3, <2>4
<1>10. CASE QueryDone(g)
  <2>1. wg[g].i = BlockCount[t] BY <1>4, <1>10, QueryDoneMoves DEF QueryDone
  <2> QED BY <1>3, <1>10, <2>1, QueryDoneMoves DEF Moves, TurnsTaken, AfterLoop, InEpilogue
<1>11. CASE LastPV(g) \/ LastReleaseV(g) \/ BeginTmaStore(g) \/ ReadO(g)
  BY <1>3, <1>11, LastPVMoves, LastReleaseVMoves, BeginTmaStoreMoves, ReadOMoves
  DEF Moves, TurnsTaken, AfterLoop, InEpilogue
<1>12. CASE EndTmaStore(g) \/ ArriveO(g)
  <2>1. /\ wg[g].at \in InEpilogue /\ t \in Tiles
        /\ wg'[g].at = "mma" /\ wg'[g].tile = t + 1
    BY <1>12, EndTmaStoreMoves, ArriveOMoves DEF Moves, InEpilogue
  <2> QED BY <1>2, <2>1, TurnsOfNextTile
<1>13. CASE WriteO(g)
  <2>1. CASE wg'[g].at = "mma"
    <3>1. wg[g].at = "write_O" /\ t \in Tiles BY <1>13, WriteOMoves
    <3>2. wg'[g].tile = t + 1 BY <1>13, <2>1, WriteOMoves DEF Moves
    <3>3. wg[g].at \in InEpilogue BY <3>1 DEF InEpilogue
    <3> QED BY <1>2, <2>1, <3>1, <3>2, <3>3, TurnsOfNextTile
  <2>2. CASE wg'[g].at # "mma"
    BY <1>3, <1>13, <2>2, WriteOMoves DEF Moves, TurnsTaken, AfterLoop, InEpilogue
  <2> QED BY <2>1, <2>2
<1> QED BY <1>5, <1>6, <1>7, <1>8, <1>9, <1>10, <1>11, <1>12, <1>13 DEF WarpGroup,
           Mainloop, Epilogue

LEMMA TurnPassed ==
  ASSUME Places, NEW g \in WarpGroups, StepPV(g)
  PROVE  TurnsTaken(g)' = TurnsTaken(g) + 1 /\ wg[g].at = "step_PV" /\ wg'[g].at = "step_softmax"
<1>1. wg[g].i \in Nat /\ Before(TurnCount, wg[g].tile) \in Nat BY PlaceFacts
<1>2. launch' = launch /\ wg[g].at = "step_PV" /\ wg'[g].at = "step_softmax"
      /\ wg'[g].tile = wg[g].tile /\ wg'[g].i = wg[g].i
  BY StepPVMoves DEF Moves
<1>3. TurnCount' = TurnCount /\ BlockCount' = BlockCount BY <1>2, LaunchFixed
<1>4. TurnsTaken(g) = Before(TurnCount, wg[g].tile) + (wg[g].i - 1)
  BY <1>2 DEF TurnsTaken
<1>5. TurnsTaken(g)' = Before(TurnCount, wg[g].tile) + wg[g].i
  BY <1>2, <1>3 DEF TurnsTaken
<1> QED BY <1>1, <1>2, <1>4, <1>5

(* Nothing but the scheduler barriers' two operations touches them.        *)
LEMMA TurnsKept ==
  ASSUME TurnsInOrder, launch' = launch,
         \A h \in WarpGroups : /\ TurnsTaken(h)' = TurnsTaken(h)
                               /\ named'.scheduler[h] = named.scheduler[h]
                               /\ wg'[h].at = "step_PV" <=> wg[h].at = "step_PV"
                               /\ wg'[h].at = "init" <=> wg[h].at = "init"
  PROVE  TurnsInOrder'
<1>1. CASE UseSchedulerBarrier
  <2>1. PICK g \in WarpGroups, n \in Nat : HasTurn(g, n) BY <1>1 DEF TurnsInOrder
  <2>2. HasTurn(g, n)' BY <2>1 DEF HasTurn
  <2> QED BY <1>1, <2>2 DEF TurnsInOrder
<1>2. CASE ~UseSchedulerBarrier BY <1>2 DEF TurnsInOrder
<1> QED BY <1>1, <1>2

LEMMA SyncKeepsTurns ==
  ASSUME Places, TurnsInOrder, EpilogueSync
  PROVE  TurnsInOrder'
<1>1. launch' = launch BY DEF EpilogueSync
<1>2. TurnCount' = TurnCount /\ BlockCount' = BlockCount BY <1>1, LaunchFixed
<1>3. \A h \in WarpGroups : named'.scheduler[h] = named.scheduler[h]
  <2>1. named.scheduler \in [WarpGroups -> Nat] BY NamedFields DEF Places
  <2>2. named' = [named EXCEPT !.sync = {}] BY DEF EpilogueSync
  <2>3. named'.scheduler = named.scheduler BY <2>2, NamedFields DEF Places, TypeOK
  <2> QED BY <2>3
<1>4. ASSUME NEW h \in WarpGroups
      PROVE  /\ TurnsTaken(h)' = TurnsTaken(h)
             /\ wg'[h].at = "step_PV" <=> wg[h].at = "step_PV"
             /\ wg'[h].at = "init" <=> wg[h].at = "init"
  <2>1. /\ wg[h].at \in InEpilogue /\ wg'[h].at \in {"arrive_O", "write_O", "read_O"}
        /\ wg'[h].tile = wg[h].tile /\ wg'[h].i = wg[h].i
    BY SyncMoves DEF AtEpilogueSync, InEpilogue
  <2> QED BY <1>2, <2>1 DEF TurnsTaken, AfterLoop, InEpilogue
<1> QED BY <1>1, <1>3, <1>4, TurnsKept

LEMMA MmaInitKeepsTurns ==
  ASSUME Places, TurnsInOrder, NEW g \in WarpGroups, MmaInit(g)
  PROVE  TurnsInOrder'
<1>1. /\ named.scheduler \in [WarpGroups -> Nat] /\ launch' = launch /\ TypeOK
  BY NamedFields DEF Places, MmaInit
<1>2. /\ wg[g].at = "init" /\ wg'[g].at = "mma"
      /\ \A h \in WarpGroups : h # g => wg'[h] = wg[h]
  BY MmaInitMoves DEF Moves
<1>3. \A h \in WarpGroups :
        named'.scheduler[h] = IF h = g /\ g = 0 /\ UseSchedulerBarrier
                              THEN named.scheduler[h] + 1 ELSE named.scheduler[h]
  BY <1>1 DEF MmaInit, TypeOK
<1>4. \A h \in WarpGroups : TurnsTaken(h)' = TurnsTaken(h)
  <2>1. WarpGroup(g) /\ ~StepPV(g) BY <1>2 DEF WarpGroup, Mainloop, StepPV, At
  <2>2. TurnsTaken(g)' = TurnsTaken(g) BY <2>1, TurnsTakenKept
  <2> QED BY <1>1, <1>2, <2>2, SameTurns
<1>5. CASE UseSchedulerBarrier /\ g = 0
  <2>1. PICK h \in WarpGroups, n \in Nat : HasTurn(h, n) BY <1>5 DEF TurnsInOrder
  <2>2. TurnsTaken(0) = 0
    <3>1. Placed(g) /\ launch \in LaunchSpace BY PlaceFacts
    <3>2. wg[g].tile = 1 BY <1>2, <3>1 DEF Placed
    <3>3. Before(TurnCount, 1) = 0 BY <3>1, Totals
    <3> QED BY <1>2, <1>5, <3>2, <3>3 DEF TurnsTaken, AfterLoop, InEpilogue
  <2>3. h = 0
    <3>1. TurnsTaken(0) = IF 0 < h THEN n + 1 ELSE n BY <2>1, SomeWarpGroup DEF HasTurn
    <3>2. n + 1 # 0 BY <2>1
    <3>3. ~(0 < h) BY <2>2, <3>1, <3>2
    <3> QED BY <3>3 DEF WarpGroups
  <2>4. HasTurn(h, n)' BY <1>2, <1>3, <1>4, <1>5, <2>1, <2>3 DEF HasTurn
  <2> QED BY <1>5, <2>1, <2>4 DEF TurnsInOrder
<1>6. CASE UseSchedulerBarrier /\ g # 0
  <2>1. PICK h \in WarpGroups, n \in Nat : HasTurn(h, n) BY <1>6 DEF TurnsInOrder
  <2>2. HasTurn(h, n)' BY <1>2, <1>3, <1>4, <1>6, <2>1 DEF HasTurn
  <2> QED BY <1>6, <2>1, <2>2 DEF TurnsInOrder
<1>7. CASE ~UseSchedulerBarrier BY <1>3, <1>7 DEF TurnsInOrder
<1> QED BY <1>5, <1>6, <1>7

LEMMA StepQKKeepsTurns ==
  ASSUME Places, TurnsInOrder, NEW g \in WarpGroups, StepQK(g)
  PROVE  TurnsInOrder'
<1>1. /\ named.scheduler \in [WarpGroups -> Nat] /\ launch' = launch /\ TypeOK
  BY NamedFields DEF Places, StepQK
<1>2. /\ wg[g].at = "step" /\ wg'[g].at = "step_PV"
      /\ \A h \in WarpGroups : h # g => wg'[h] = wg[h]
  BY StepQKMoves DEF Moves
<1>3. \A h \in WarpGroups :
        named'.scheduler[h] = IF h = g /\ UseSchedulerBarrier THEN 0 ELSE named.scheduler[h]
  BY <1>1 DEF StepQK, TakeTurn, TypeOK
<1>4. \A h \in WarpGroups : TurnsTaken(h)' = TurnsTaken(h)
  <2>1. WarpGroup(g) /\ ~StepPV(g) BY <1>2 DEF WarpGroup, Mainloop, StepPV, At
  <2>2. TurnsTaken(g)' = TurnsTaken(g) BY <2>1, TurnsTakenKept
  <2> QED BY <1>1, <1>2, <2>2, SameTurns
<1>5. CASE UseSchedulerBarrier
  <2>1. PICK h \in WarpGroups, n \in Nat : HasTurn(h, n) BY <1>5 DEF TurnsInOrder
  <2>2. named.scheduler[g] > 0 BY <1>5 DEF StepQK, MySchedulerTurn
  <2>3. h = g BY <2>1, <2>2 DEF HasTurn
  <2>4. HasTurn(h, n)' BY <1>2, <1>3, <1>4, <1>5, <2>1, <2>3 DEF HasTurn
  <2> QED BY <1>5, <2>1, <2>4 DEF TurnsInOrder
<1>6. CASE ~UseSchedulerBarrier BY <1>3, <1>6 DEF TurnsInOrder
<1> QED BY <1>5, <1>6

LEMMA StepPVKeepsTurns ==
  ASSUME Places, TurnsInOrder, NEW g \in WarpGroups, StepPV(g)
  PROVE  TurnsInOrder'
<1>1. /\ named.scheduler \in [WarpGroups -> Nat] /\ launch' = launch /\ TypeOK
  BY NamedFields DEF Places, StepPV
<1>2. /\ wg[g].at = "step_PV" /\ wg'[g].at = "step_softmax"
      /\ TurnsTaken(g)' = TurnsTaken(g) + 1
      /\ \A h \in WarpGroups : h # g => wg'[h] = wg[h]
  BY StepPVMoves, TurnPassed DEF Moves
<1>3. \A h \in WarpGroups :
        named'.scheduler[h] = IF h = NextWG(g) /\ UseSchedulerBarrier
                              THEN named.scheduler[h] + 1 ELSE named.scheduler[h]
  BY <1>1 DEF StepPV, PassTurn, TypeOK
<1>4. \A h \in WarpGroups : h # g => TurnsTaken(h)' = TurnsTaken(h)
  BY <1>1, <1>2, SameTurns
<1>5. NextWG(g) \in WarpGroups /\ NextWG(g) = IF g = NumMmaWarpGroups - 1 THEN 0 ELSE g + 1
  <2>1. g \in 0 .. NumMmaWarpGroups - 1 BY DEF WarpGroups
  <2> QED BY <2>1 DEF NextWG, WarpGroups
<1>6. CASE UseSchedulerBarrier
  <2>1. PICK h \in WarpGroups, n \in Nat : HasTurn(h, n) BY <1>6 DEF TurnsInOrder
  <2>2. h = g BY <1>2, <2>1 DEF HasTurn
  <2>3. /\ \A x \in WarpGroups : TurnsTaken(x) = IF x < g THEN n + 1 ELSE n
        /\ \A x \in WarpGroups : x # g => named.scheduler[x] = 0 /\ wg[x].at # "step_PV"
        /\ named.scheduler[g] = 0
    BY <1>2, <2>1, <2>2 DEF HasTurn
  <2>4. wg'[NextWG(g)].at # "step_PV" BY <1>2, <1>5, <2>3
  <2>5. ~(NextWG(g) = 0 /\ wg'[NextWG(g)].at = "init")
    <3>1. SUFFICES ASSUME NextWG(g) = 0, wg'[0].at = "init" PROVE FALSE OBVIOUS
    <3>2. 0 # g /\ wg[0].at = "init" BY <1>2, <3>1, SomeWarpGroup
    <3>3. TurnsTaken(0) = n + 1 BY <2>3, <3>2, SomeWarpGroup DEF WarpGroups
    <3>4. Placed(0) /\ launch \in LaunchSpace BY SomeWarpGroup, PlaceFacts
    <3>5. wg[0].tile = 1 BY <3>2, <3>4 DEF Placed
    <3>6. Before(TurnCount, 1) = 0 BY <3>4, Totals
    <3>7. TurnsTaken(0) = 0 BY <3>2, <3>5, <3>6 DEF TurnsTaken, AfterLoop, InEpilogue
    <3> QED BY <2>1, <3>3, <3>7
  <2>6. /\ \A x \in WarpGroups : x # NextWG(g) =>
             named'.scheduler[x] = 0 /\ wg'[x].at # "step_PV"
        /\ named'.scheduler[NextWG(g)] = 1
    BY <1>2, <1>3, <1>5, <1>6, <2>3
  <2>7. CASE g = NumMmaWarpGroups - 1
    <3>1. \A x \in WarpGroups : x # g => x < g BY <2>7 DEF WarpGroups
    <3>2. ASSUME NEW x \in WarpGroups PROVE TurnsTaken(x)' = n + 1
      <4>1. CASE x = g
        <5>1. ~(g < g) BY DEF WarpGroups
        <5>2. TurnsTaken(g) = n BY <2>3, <5>1
        <5> QED BY <1>2, <4>1, <5>2
      <4>2. CASE x # g BY <1>4, <2>3, <3>1, <4>2
      <4> QED BY <4>1, <4>2
    <3>3. \A x \in WarpGroups : ~(x < 0) BY DEF WarpGroups
    <3>4. NextWG(g) = 0 /\ n + 1 \in Nat BY <1>5, <2>1, <2>7
    <3>5. HasTurn(0, n + 1)' BY <2>4, <2>5, <2>6, <3>2, <3>3, <3>4 DEF HasTurn
    <3> QED BY <1>6, <3>4, <3>5, SomeWarpGroup DEF TurnsInOrder
  <2>8. CASE g # NumMmaWarpGroups - 1
    <3>1. NextWG(g) = g + 1 /\ g + 1 # 0 BY <1>5, <2>8 DEF WarpGroups
    <3>2. \A x \in WarpGroups : x < g + 1 <=> (x < g \/ x = g) BY DEF WarpGroups
    <3>3. ~(g < g) BY DEF WarpGroups
    <3>4. \A x \in WarpGroups : TurnsTaken(x)' = IF x < NextWG(g) THEN n + 1 ELSE n
      BY <1>2, <1>4, <2>3, <3>1, <3>2, <3>3
    <3>5. HasTurn(NextWG(g), n)' BY <2>4, <2>5, <2>6, <3>4 DEF HasTurn, NextWG
    <3> QED BY <1>5, <1>6, <2>1, <3>5 DEF TurnsInOrder
  <2> QED BY <2>7, <2>8
<1>7. CASE ~UseSchedulerBarrier BY <1>3, <1>7 DEF TurnsInOrder
<1> QED BY <1>6, <1>7

LEMMA TurnsInit ==
  ASSUME Init
  PROVE  TurnsInOrder
<1>1. launch \in LaunchSpace BY LaunchesAssumption DEF Init
<1>2. \A g \in WarpGroups : TurnsTaken(g) = 0
  <2>1. Before(TurnCount, 1) = 0 BY <1>1, Totals
  <2>2. \A g \in WarpGroups : wg[g].at = "init" /\ wg[g].tile = 1 BY DEF Init
  <2> QED BY <2>1, <2>2 DEF TurnsTaken, AfterLoop, InEpilogue
<1>3. \A g \in WarpGroups : named.scheduler[g] = 0 /\ wg[g].at = "init" BY DEF Init
<1>4. CASE UseSchedulerBarrier
  <2>1. \A h \in WarpGroups : ~(h < 0) BY DEF WarpGroups
  <2>2. HasTurn(0, 0) BY <1>2, <1>3, <2>1, SomeWarpGroup DEF HasTurn
  <2> QED BY <1>4, <2>2, SomeWarpGroup DEF TurnsInOrder
<1>5. CASE ~UseSchedulerBarrier BY <1>3, <1>5 DEF TurnsInOrder
<1> QED BY <1>4, <1>5

LEMMA TurnsNext ==
  ASSUME Places, TurnsInOrder, [Next]_vars
  PROVE  TurnsInOrder'
<1>1. TypeOK BY DEF Places
<1>2. CASE Producer \/ Tma \/ Exit \/ UNCHANGED vars
  <2>1. /\ launch' = launch /\ wg' = wg
    BY <1>2 DEF Producer, SkipTile, LoadFirstK, LoadQ, WaitO, LoadNextK, LoadPrevV, LoadLastV,
                LoadTail, Tma, LandQ, LandK, LandV, Exit, vars
  <2>2. named'.scheduler = named.scheduler
    <3>1. CASE LoadQ
      <4>1. named' = [named EXCEPT !.queryEmpty = 0] BY <3>1 DEF LoadQ
      <4> QED BY <1>1, <4>1 DEF TypeOK
    <3> QED BY <1>2, <3>1 DEF Producer, SkipTile, LoadFirstK, WaitO, LoadNextK,
               LoadPrevV, LoadLastV,
                LoadTail, Tma, LandQ, LandK, LandV, Exit, vars
  <2>3. \A h \in WarpGroups : TurnsTaken(h)' = TurnsTaken(h) BY <2>1, SameTurns
  <2> QED BY <2>1, <2>2, <2>3, TurnsKept
<1>3. CASE EpilogueSync BY <1>3, SyncKeepsTurns
<1>4. ASSUME NEW g \in WarpGroups, WarpGroup(g)
      PROVE  TurnsInOrder'
  <2>1. CASE MmaInit(g) BY <2>1, MmaInitKeepsTurns
  <2>2. CASE StepQK(g) BY <2>2, StepQKKeepsTurns
  <2>3. CASE StepPV(g) BY <2>3, StepPVKeepsTurns
  <2>4. CASE ~MmaInit(g) /\ ~StepQK(g) /\ ~StepPV(g)
    <3>1. launch' = launch /\ \A h \in WarpGroups : h # g => wg'[h] = wg[h]
      BY <1>4, OnlyOneMoves
    <3>2. TurnsTaken(g)' = TurnsTaken(g) BY <1>4, <2>4, TurnsTakenKept
    <3>3. \A h \in WarpGroups : TurnsTaken(h)' = TurnsTaken(h) BY <3>1, <3>2, SameTurns
    <3>4. named'.scheduler = named.scheduler
      <4>1. CASE QueryDone(g) BY <1>1, <4>1 DEF QueryDone, TypeOK
      <4>2. CASE LastReleaseV(g) BY <1>1, <4>2 DEF LastReleaseV, TypeOK
      <4>3. CASE WriteO(g) BY <1>1, <4>3 DEF WriteO, TypeOK
      <4>4. CASE BeginTmaStore(g) BY <1>1, <4>4 DEF BeginTmaStore, TypeOK
      <4> QED BY <1>4, <2>4, <4>1, <4>2, <4>3, <4>4
              DEF WarpGroup, Mainloop, Epilogue, StoreZero, WaitQ, FirstQK, FirstSoftmax,
                  StepReleaseK, StepReleaseV, LastPV, EndTmaStore, ReadO, ArriveO
    <3>5. /\ wg'[g].at = "step_PV" <=> wg[g].at = "step_PV"
          /\ wg'[g].at = "init" <=> wg[g].at = "init"
      <4>1. CASE Mainloop(g)
        BY <2>4, <4>1, StoreZeroMoves, WaitQMoves, FirstQKMoves, FirstSoftmaxMoves,
           StepReleaseKMoves, StepReleaseVMoves, QueryDoneMoves, LastPVMoves,
           LastReleaseVMoves DEF Moves, Mainloop
      <4>2. CASE Epilogue(g)
        BY <4>2, WriteOMoves, BeginTmaStoreMoves, EndTmaStoreMoves, ReadOMoves, ArriveOMoves
        DEF Moves, Epilogue
      <4> QED BY <1>4, <4>1, <4>2 DEF WarpGroup
    <3>6. \A h \in WarpGroups : /\ wg'[h].at = "step_PV" <=> wg[h].at = "step_PV"
                                /\ wg'[h].at = "init" <=> wg[h].at = "init"
      BY <3>1, <3>5
    <3> QED BY <3>1, <3>3, <3>4, <3>6, TurnsKept
  <2> QED BY <2>1, <2>2, <2>3, <2>4
<1> QED BY <1>2, <1>3, <1>4 DEF Next

THEOREM TurnsAlways == Spec => []TurnsInOrder
<1>1. Init => TurnsInOrder BY TurnsInit
<1>2. Places /\ TurnsInOrder /\ [Next]_vars => TurnsInOrder' BY TurnsNext
<1> QED BY <1>1, <1>2, PlacesAlways, PTL DEF Spec

-----------------------------------------------------------------------------
(* Both pipelines are rings, with everybody's position in each.            *)

KPositions == [g \in WarpGroups |-> ReadK(g)]
VPositions == [g \in WarpGroups |-> ReadV(g)]
KReaders == {g \in WarpGroups : ReadingQK(g)}
VReaders == {g \in WarpGroups : wg[g].at \in {"step_softmax", "step_end", "last_end"}}

KIsRing == R!Ring(kpipe, WriteK, KPositions, KReaders, Block)
VIsRing == R!Ring(vpipe, WriteV, VPositions, VReaders, Block)

(* The blocks of each ring a warpgroup is done with.                       *)
LEMMA ReadPositions ==
  ASSUME Places, NEW g \in WarpGroups
  PROVE  LET b == Before(BlockCount, wg[g].tile)
         IN /\ ReadK(g) \in PipelineState /\ ReadV(g) \in PipelineState
            /\ R!Pos(ReadK(g)) \in Nat /\ R!Pos(ReadV(g)) \in Nat
            /\ wg[g].at \in BeforeQK => R!Pos(ReadK(g)) = b /\ R!Pos(ReadV(g)) = b
            /\ wg[g].at \in {"step", "step_PV", "step_softmax"} =>
                 R!Pos(ReadK(g)) = b + wg[g].i /\ R!Pos(ReadV(g)) = b + wg[g].i - 1
            /\ wg[g].at = "step_end" =>
                 R!Pos(ReadK(g)) = b + wg[g].i + 1 /\ R!Pos(ReadV(g)) = b + wg[g].i - 1
            /\ wg[g].at \in AfterLoop =>
                 /\ R!Pos(ReadK(g)) = b + BlockCount[wg[g].tile]
                 /\ R!Pos(ReadV(g)) = b + BlockCount[wg[g].tile] - 1
            /\ wg[g].at \in InEpilogue =>
                 /\ R!Pos(ReadK(g)) = b + BlockCount[wg[g].tile]
                 /\ R!Pos(ReadV(g)) = b + BlockCount[wg[g].tile]
            /\ wg[g].at \in BeforeQK \cup {"step"} \cup InStep \cup AfterLoop \cup InEpilogue
<1> DEFINE b == Before(BlockCount, wg[g].tile)
<1>1. /\ Placed(g) /\ wg[g].at \in WarpGroupLabels /\ wg[g].i \in Nat
      /\ wg[g].read \in PipelineState /\ wg[g].read_v \in PipelineState
      /\ b \in Nat /\ R!Pos(wg[g].read) \in Nat
      /\ R!Pos(Advance(wg[g].read)) = R!Pos(wg[g].read) + 1
  BY PlaceFacts
<1>2. /\ ReadK(g) \in PipelineState /\ ReadV(g) \in PipelineState
  BY <1>1, NextPosition DEF ReadK, ReadV
<1>3. R!Pos(ReadK(g)) \in Nat /\ R!Pos(ReadV(g)) \in Nat BY <1>2, NextPosition
<1>4. wg[g].at \in BeforeQK \cup {"step"} \cup InStep \cup AfterLoop \cup InEpilogue
  BY <1>1 DEF WarpGroupLabels, BeforeQK, InStep, AfterLoop, InEpilogue
<1>5. wg[g].at \in BeforeQK => R!Pos(ReadK(g)) = b /\ R!Pos(ReadV(g)) = b
  BY <1>1 DEF Placed, BeforeQK, ReadK, ReadV
<1>6. wg[g].at = "step" => R!Pos(ReadK(g)) = b + wg[g].i /\ R!Pos(ReadV(g)) = b + wg[g].i - 1
  BY <1>1 DEF Placed, ReadK, ReadV
<1>7. wg[g].at \in {"step_PV", "step_softmax"} =>
        R!Pos(ReadK(g)) = b + wg[g].i /\ R!Pos(ReadV(g)) = b + wg[g].i - 1
  BY <1>1 DEF Placed, InStep, ReadK, ReadV
<1>8. wg[g].at = "step_end" =>
        R!Pos(ReadK(g)) = b + wg[g].i + 1 /\ R!Pos(ReadV(g)) = b + wg[g].i - 1
  BY <1>1 DEF Placed, InStep, ReadK, ReadV
<1>9. wg[g].at \in AfterLoop \cup InEpilogue =>
        BlockCount[wg[g].tile] = MmaCount(wg[g].tile) /\ MmaCount(wg[g].tile) \in Nat
  <2>1. wg[g].at \in AfterLoop \cup InEpilogue => wg[g].tile \in Tiles
    BY <1>1 DEF Placed, AfterLoop, InEpilogue, WithoutATile
  <2> QED BY <2>1, TileFacts, PlaceFacts
<1>10. wg[g].at \in AfterLoop =>
         /\ R!Pos(ReadK(g)) = b + BlockCount[wg[g].tile]
         /\ R!Pos(ReadV(g)) = b + BlockCount[wg[g].tile] - 1
  BY <1>1, <1>9 DEF Placed, AfterLoop, ReadK, ReadV
<1>11. wg[g].at \in InEpilogue =>
         /\ R!Pos(ReadK(g)) = b + BlockCount[wg[g].tile]
         /\ R!Pos(ReadV(g)) = b + BlockCount[wg[g].tile]
  BY <1>1, <1>9 DEF Placed, InEpilogue, ReadK, ReadV
<1> QED BY <1>2, <1>3, <1>4, <1>5, <1>6, <1>7, <1>8, <1>10, <1>11

(* Within its tile a warpgroup's positions are those of the tile's blocks. *)
LEMMA ReadInsideTile ==
  ASSUME Places, NEW g \in WarpGroups
  PROVE  /\ Before(BlockCount, wg[g].tile) <= R!Pos(ReadV(g))
         /\ R!Pos(ReadV(g)) <= R!Pos(ReadK(g))
         /\ wg[g].tile \in Tiles =>
              R!Pos(ReadK(g)) <= Before(BlockCount, wg[g].tile + 1)
         /\ wg[g].tile \in Tiles => TurnsTaken(g) <= Before(TurnCount, wg[g].tile + 1)
<1> DEFINE t == wg[g].tile
           b == Before(BlockCount, t)
<1>1. /\ Placed(g) /\ wg[g].at \in WarpGroupLabels /\ wg[g].i \in Nat /\ b \in Nat
      /\ Before(TurnCount, t) \in Nat /\ launch \in LaunchSpace
  BY PlaceFacts
<1>2. t \in Tiles => /\ MmaCount(t) \in Nat /\ BlockCount[t] = MmaCount(t)
                     /\ Before(BlockCount, t + 1) = b + MmaCount(t)
                     /\ MmaCount(t) = 0 => Before(TurnCount, t + 1) = Before(TurnCount, t)
                     /\ MmaCount(t) > 0 =>
                          Before(TurnCount, t + 1) = Before(TurnCount, t) + MmaCount(t) - 1
  BY <1>1, NextTotals
<1>3. CASE wg[g].at \in BeforeQK
  <2>1. R!Pos(ReadK(g)) = b /\ R!Pos(ReadV(g)) = b BY <1>3, ReadPositions
  <2>2. TurnsTaken(g) = Before(TurnCount, t) + 0
    BY <1>3 DEF BeforeQK, TurnsTaken, AfterLoop, InEpilogue
  <2> QED BY <1>1, <1>2, <2>1, <2>2
<1>4. CASE wg[g].at = "step" \/ wg[g].at = "step_PV"
  <2>1. /\ wg[g].i \in 1 .. BlockCount[t] /\ t \in Tiles /\ BlockCount[t] > 0
    BY <1>1, <1>4, <1>2 DEF Placed, InStep, WithoutATile
  <2>2. R!Pos(ReadK(g)) = b + wg[g].i /\ R!Pos(ReadV(g)) = b + wg[g].i - 1
    BY <1>4, ReadPositions
  <2>3. TurnsTaken(g) = Before(TurnCount, t) + (wg[g].i - 1) BY <1>4 DEF TurnsTaken
  <2> QED BY <1>1, <1>2, <2>1, <2>2, <2>3
<1>5. CASE wg[g].at = "step_softmax" \/ wg[g].at = "step_end"
  <2>1. /\ wg[g].i \in 1 .. BlockCount[t] - 1 /\ t \in Tiles /\ BlockCount[t] > 0
    BY <1>1, <1>5, <1>2 DEF Placed, InStep, WithoutATile
  <2>2. /\ R!Pos(ReadK(g)) \in {b + wg[g].i, b + wg[g].i + 1}
        /\ R!Pos(ReadV(g)) = b + wg[g].i - 1
    BY <1>5, ReadPositions
  <2>3. TurnsTaken(g) = Before(TurnCount, t) + wg[g].i BY <1>5 DEF TurnsTaken
  <2> QED BY <1>1, <1>2, <2>1, <2>2, <2>3
<1>6. CASE wg[g].at \in AfterLoop \cup InEpilogue
  <2>1. t \in Tiles /\ BlockCount[t] > 0
    BY <1>1, <1>6 DEF Placed, AfterLoop, InEpilogue, WithoutATile
  <2>2. /\ R!Pos(ReadK(g)) = b + BlockCount[t]
        /\ R!Pos(ReadV(g)) \in {b + BlockCount[t], b + BlockCount[t] - 1}
    BY <1>6, ReadPositions
  <2>3. TurnsTaken(g) = Before(TurnCount, t) + (BlockCount[t] - 1)
    BY <1>6 DEF TurnsTaken, AfterLoop, InEpilogue
  <2> QED BY <1>1, <1>2, <2>1, <2>2, <2>3
<1> QED BY <1>3, <1>4, <1>5, <1>6, ReadPositions DEF InStep

(* A warpgroup that begins a gemm of a loop step without waiting for its   *)
(* data has the turn, so the first warpgroup is at a later step: it has    *)
(* begun the same gemm and not released its buffer, or is past it.         *)
LEMMA FirstIsAhead ==
  ASSUME Places, TurnsInOrder, UseSchedulerBarrier, NEW g \in WarpGroups, g # 0,
         wg[g].tile \in Tiles,
         \/ /\ wg[g].at = "step" /\ named.scheduler[g] > 0
            /\ wg[g].i < MmaCount(wg[g].tile)
         \/ wg[g].at = "step_PV"
  PROVE  LET n == Before(BlockCount, wg[g].tile) + wg[g].i
         IN /\ \/ n < R!Pos(ReadK(0))
               \/ n = R!Pos(ReadK(0)) /\ 0 \in KReaders
            /\ \/ n - 1 < R!Pos(ReadV(0))
               \/ n - 1 = R!Pos(ReadV(0)) /\ 0 \in VReaders
<1> DEFINE t == wg[g].tile
           i == wg[g].i
           u == wg[0].tile
           b == Before(BlockCount, t)
           c == Before(TurnCount, t)
<1>1. /\ Placed(g) /\ i \in Nat /\ t \in Nat /\ b \in Nat /\ c \in Nat /\ launch \in LaunchSpace
      /\ Tiles = 1 .. Len(launch.tiles) /\ Len(launch.tiles) \in Nat
  BY PlaceFacts
<1>2. /\ Placed(0) /\ u \in Nat /\ wg[0].i \in Nat /\ Before(TurnCount, u) \in Nat
      /\ Before(BlockCount, u) \in Nat
  BY PlaceFacts, SomeWarpGroup
<1>3. /\ MmaCount(t) \in Nat /\ BlockCount[t] = MmaCount(t) /\ t + 1 \in Nat
      /\ Before(BlockCount, t + 1) = b + MmaCount(t)
  BY <1>1, NextTotals
<1>4. i \in 1 .. BlockCount[t] - 1
  <2>1. CASE wg[g].at = "step"
    <3>1. i \in 1 .. BlockCount[t] BY <1>1, <2>1 DEF Placed
    <3> QED BY <1>3, <2>1, <3>1
  <2>2. CASE wg[g].at = "step_PV" BY <1>1, <2>2 DEF Placed, InStep
  <2> QED BY <2>1, <2>2
<1>5. TurnsTaken(g) = c + (i - 1) BY DEF TurnsTaken
<1>6. TurnsTaken(0) = TurnsTaken(g) + 1
  <2>1. PICK h \in WarpGroups, n \in Nat : HasTurn(h, n) BY DEF TurnsInOrder
  <2>2. h = g BY <2>1 DEF HasTurn
  <2>3. 0 < g BY DEF WarpGroups
  <2>4. ~(g < g) BY DEF WarpGroups
  <2>5. TurnsTaken(0) = n + 1 /\ TurnsTaken(g) = n
    BY <2>1, <2>2, <2>3, <2>4, SomeWarpGroup DEF HasTurn
  <2> QED BY <2>5
<1>7. TurnsTaken(0) = c + i BY <1>1, <1>5, <1>6
<1>8. CASE u < t
  <2>1. u \in Tiles /\ u + 1 <= t /\ u + 1 \in Nat
    <3>1. u \in 1 .. Len(launch.tiles) + 1 BY <1>2 DEF Placed
    <3> QED BY <1>1, <1>8, <3>1
  <2>2. Before(TurnCount, u + 1) <= c BY <1>1, <2>1, LaterTotals
  <2>3. Before(TurnCount, u + 1) \in Nat BY <1>1, <2>1, Totals
  <2>4. TurnsTaken(0) <= Before(TurnCount, u + 1) BY <2>1, SomeWarpGroup, ReadInsideTile
  <2> QED BY <1>1, <1>4, <1>7, <2>2, <2>3, <2>4
<1>9. CASE u = t
  <2>1. TurnsTaken(0) = Before(TurnCount, u) +
          (IF wg[0].at \in {"step", "step_PV"} THEN wg[0].i - 1
           ELSE IF wg[0].at \in {"step_softmax", "step_end"} THEN wg[0].i
           ELSE IF wg[0].at \in AfterLoop \cup InEpilogue THEN BlockCount[u] - 1
           ELSE 0)
    BY DEF TurnsTaken
  <2>2. CASE wg[0].at \in BeforeQK
    <3>1. TurnsTaken(0) = c + 0 BY <1>9, <2>1, <2>2 DEF BeforeQK, AfterLoop, InEpilogue
    <3> QED BY <1>1, <1>4, <1>7, <3>1
  <2>3. CASE wg[0].at \in {"step", "step_PV"}
    <3>1. wg[0].i - 1 = i BY <1>1, <1>2, <1>7, <1>9, <2>1, <2>3
    <3>2. /\ R!Pos(ReadK(0)) = b + wg[0].i /\ R!Pos(ReadV(0)) = b + wg[0].i - 1
      BY <1>9, <2>3, SomeWarpGroup, ReadPositions
    <3> QED BY <1>1, <1>2, <3>1, <3>2
  <2>4. CASE wg[0].at \in {"step_softmax", "step_end"}
    <3>1. wg[0].i = i BY <1>1, <1>2, <1>7, <1>9, <2>1, <2>4
    <3>2. /\ R!Pos(ReadK(0)) = b + i \/ (wg[0].at = "step_end" /\ R!Pos(ReadK(0)) = b + i + 1)
          /\ R!Pos(ReadV(0)) = b + i - 1
      BY <1>9, <2>4, <3>1, SomeWarpGroup, ReadPositions
    <3>3. 0 \in VReaders /\ (wg[0].at # "step_end" => 0 \in KReaders)
      BY <2>4, SomeWarpGroup DEF VReaders, KReaders, ReadingQK
    <3>4. wg[0].at = "step_end" => R!Pos(ReadK(0)) = b + i + 1
      BY <1>9, <2>4, <3>1, SomeWarpGroup, ReadPositions
    <3> QED BY <1>1, <3>2, <3>3, <3>4
  <2>5. CASE wg[0].at \in AfterLoop \cup InEpilogue
    <3>0. TurnsTaken(0) = c + (BlockCount[t] - 1)
      BY <1>9, <2>1, <2>5 DEF AfterLoop, InEpilogue
    <3>1. BlockCount[t] - 1 = i BY <1>1, <1>3, <1>7, <3>0
    <3>2. /\ R!Pos(ReadK(0)) = b + BlockCount[t]
          /\ R!Pos(ReadV(0)) = b + BlockCount[t] - 1 \/ R!Pos(ReadV(0)) = b + BlockCount[t]
      BY <1>9, <2>5, SomeWarpGroup, ReadPositions
    <3> QED BY <1>1, <1>3, <3>1, <3>2
  <2> QED BY <2>2, <2>3, <2>4, <2>5, SomeWarpGroup, ReadPositions DEF InStep
<1>10. CASE t < u
  <2>1. Before(BlockCount, t + 1) <= Before(BlockCount, u)
    <3>1. t + 1 <= u BY <1>1, <1>2, <1>10
    <3> QED BY <1>1, <1>2, <1>3, <3>1, LaterTotals
  <2>2. /\ Before(BlockCount, u) <= R!Pos(ReadV(0)) /\ R!Pos(ReadV(0)) <= R!Pos(ReadK(0))
        /\ R!Pos(ReadV(0)) \in Nat /\ R!Pos(ReadK(0)) \in Nat
    BY SomeWarpGroup, ReadInsideTile, ReadPositions
  <2>3. b + i < Before(BlockCount, t + 1) /\ Before(BlockCount, t + 1) \in Nat
    BY <1>1, <1>3, <1>4
  <2>4. b + i < R!Pos(ReadV(0)) /\ b + i < R!Pos(ReadK(0))
    BY <1>1, <1>2, <2>1, <2>2, <2>3
  <2>5. b + i - 1 < R!Pos(ReadV(0)) BY <1>1, <2>2, <2>4
  <2> QED BY <1>1, <2>2, <2>4, <2>5
<1> QED BY <1>1, <1>2, <1>8, <1>9, <1>10

LEMMA KPositionsMove ==
  ASSUME NEW g \in WarpGroups, \A h \in WarpGroups : h # g => wg'[h] = wg[h]
  PROVE  /\ KPositions' = [KPositions EXCEPT ![g] = ReadK(g)']
         /\ VPositions' = [VPositions EXCEPT ![g] = ReadV(g)']
         /\ ReadK(g)' = ReadK(g) => KPositions' = KPositions
         /\ ReadV(g)' = ReadV(g) => VPositions' = VPositions
         /\ KReaders' = IF ReadingQK(g)' THEN KReaders \cup {g} ELSE KReaders \ {g}
         /\ VReaders' = IF wg'[g].at \in {"step_softmax", "step_end", "last_end"}
                        THEN VReaders \cup {g} ELSE VReaders \ {g}
<1>1. \A h \in WarpGroups : h # g => ReadK(h)' = ReadK(h) /\ ReadV(h)' = ReadV(h)
  BY DEF ReadK, ReadV
<1>2. \A h \in WarpGroups : h # g => (ReadingQK(h)' <=> ReadingQK(h))
  BY DEF ReadingQK
<1>3. /\ KPositions' = [KPositions EXCEPT ![g] = ReadK(g)']
      /\ VPositions' = [VPositions EXCEPT ![g] = ReadV(g)']
      /\ ReadK(g)' = ReadK(g) => KPositions' = KPositions
      /\ ReadV(g)' = ReadV(g) => VPositions' = VPositions
  BY <1>1 DEF KPositions, VPositions
<1>4. KReaders' = IF ReadingQK(g)' THEN KReaders \cup {g} ELSE KReaders \ {g}
  <2>1. CASE ReadingQK(g)' BY <1>2, <2>1 DEF KReaders
  <2>2. CASE ~ReadingQK(g)' BY <1>2, <2>2 DEF KReaders
  <2> QED BY <2>1, <2>2
<1>5. VReaders' = IF wg'[g].at \in {"step_softmax", "step_end", "last_end"}
                  THEN VReaders \cup {g} ELSE VReaders \ {g}
  <2>1. CASE wg'[g].at \in {"step_softmax", "step_end", "last_end"} BY <2>1 DEF VReaders
  <2>2. CASE wg'[g].at \notin {"step_softmax", "step_end", "last_end"} BY <2>2 DEF VReaders
  <2> QED BY <2>1, <2>2
<1> QED BY <1>3, <1>4, <1>5

(* What may be done to a ring, as TmaPipelineProofs has it.                *)
LEMMA RingSteps ==
  ASSUME NEW p, NEW w, NEW r, NEW reading, R!Ring(p, w, r, reading, Block)
  PROVE  /\ \A b \in Block : AcquireReady(p, w) =>
              R!Ring(Issue(p, w, b), Advance(w), r, reading, Block)
         /\ \A s \in Stages : p.load[s] # NoBlock => R!Ring(Land(p, s), w, r, reading, Block)
         /\ \A c \in WarpGroups : FullReady(p, r[c]) => r[c].lap < p.full[r[c].index]
         /\ \A c, d \in WarpGroups :
              R!Pos(r[c]) < R!Pos(r[d]) \/ (R!Pos(r[c]) = R!Pos(r[d]) /\ d \in reading) =>
                r[c].lap < p.full[r[c].index]
         /\ \A c \in WarpGroups : r[c].lap < p.full[r[c].index] =>
              R!Ring(p, w, r, reading \cup {c}, Block)
         /\ \A c \in reading :
              R!Ring(Release(p, r[c], c), w, [r EXCEPT ![c] = Advance(r[c])], reading \ {c}, Block)
         /\ \A data \in [Stages -> Block \cup {NoBlock}] :
              R!Ring([p EXCEPT !.data = data], w, r, reading, Block)
<1>1. WarpGroups # {} BY SomeWarpGroup
<1>2. ASSUME NEW b \in Block, AcquireReady(p, w)
      PROVE  R!Ring(Issue(p, w, b), Advance(w), r, reading, Block)
  <2>1. R!AcquireReady(p, w) /\ b # NoBlock BY <1>2, SameOperators
  <2>2. R!Ring(R!Issue(p, w, b), R!Advance(w), r, reading, Block)
    BY <1>1, <2>1, R!IssueKeepsRing
  <2> QED BY <2>2, SameOperators
<1>3. ASSUME NEW s \in Stages, p.load[s] # NoBlock
      PROVE  R!Ring(Land(p, s), w, r, reading, Block)
  <2>1. s \in R!Stages BY SameOperators
  <2>2. R!Ring(R!Land(p, s), w, r, reading, Block) BY <1>1, <1>3, <2>1, R!LandKeepsRing
  <2> QED BY <2>2, SameOperators
<1>4. ASSUME NEW c \in WarpGroups, FullReady(p, r[c])
      PROVE  r[c].lap < p.full[r[c].index]
  <2>1. R!FullReady(p, r[c]) BY <1>4, SameOperators
  <2> QED BY <1>1, <2>1, R!AwaitedCopyLanded
<1>5. ASSUME NEW c \in WarpGroups, NEW d \in WarpGroups,
             R!Pos(r[c]) < R!Pos(r[d]) \/ (R!Pos(r[c]) = R!Pos(r[d]) /\ d \in reading)
      PROVE  r[c].lap < p.full[r[c].index]
  BY <1>1, <1>5, R!FollowersFindFull
<1>6. ASSUME NEW c \in WarpGroups, r[c].lap < p.full[r[c].index]
      PROVE  R!Ring(p, w, r, reading \cup {c}, Block)
  BY <1>1, <1>6, R!WaitKeepsRing
<1>7. ASSUME NEW c \in reading
      PROVE  R!Ring(Release(p, r[c], c), w, [r EXCEPT ![c] = Advance(r[c])], reading \ {c}, Block)
  <2>1. R!Ring(R!Release(p, r[c], c), w, [r EXCEPT ![c] = R!Advance(r[c])], reading \ {c}, Block)
    BY <1>1, R!ReleaseKeepsRing
  <2> QED BY <2>1, SameOperators
<1>8. ASSUME NEW data \in [Stages -> Block \cup {NoBlock}]
      PROVE  R!Ring([p EXCEPT !.data = data], w, r, reading, Block)
  <2>1. data \in [R!Stages -> Block \cup {NoBlock}] BY SameOperators
  <2> QED BY <1>1, <2>1, R!DataKeepsRing
<1> QED BY <1>2, <1>3, <1>4, <1>5, <1>6, <1>7, <1>8

(* What one step does to a ring: one thing at most.  The producer issues a *)
(* copy, a copy lands, a gemm begins on a full stage, or one ends and its  *)
(* stage is released; or what is in the buffers changes and no barrier.    *)
RingMove(p, w, r, reading, p2, w2, r2, reading2) ==
  \/ \E b \in Block : /\ AcquireReady(p, w)
                       /\ p2 = Issue(p, w, b) /\ w2 = Advance(w)
                       /\ r2 = r /\ reading2 = reading
  \/ \E s \in Stages : /\ p.load[s] # NoBlock
                        /\ p2 = Land(p, s)
                        /\ w2 = w /\ r2 = r /\ reading2 = reading
  \/ \E g \in WarpGroups : /\ r[g].lap < p.full[r[g].index]
                            /\ reading2 = reading \cup {g}
                            /\ p2 = p /\ w2 = w /\ r2 = r
  \/ \E g \in reading : /\ p2 = Release(p, r[g], g)
                         /\ r2 = [r EXCEPT ![g] = Advance(r[g])]
                         /\ reading2 = reading \ {g}
                         /\ w2 = w
  \/ \E data \in [Stages -> Block \cup {NoBlock}] :
       p2 = [p EXCEPT !.data = data] /\ w2 = w /\ r2 = r /\ reading2 = reading
  \/ p2 = p /\ w2 = w /\ r2 = r /\ reading2 = reading

KMoves == RingMove(kpipe, WriteK, KPositions, KReaders, kpipe', WriteK', KPositions', KReaders')
VMoves == RingMove(vpipe, WriteV, VPositions, VReaders, vpipe', WriteV', VPositions', VReaders')

LEMMA MoveKeepsRing ==
  ASSUME NEW p, NEW w, NEW r, NEW reading, R!Ring(p, w, r, reading, Block),
         NEW p2, NEW w2, NEW r2, NEW reading2, RingMove(p, w, r, reading, p2, w2, r2, reading2)
  PROVE  R!Ring(p2, w2, r2, reading2, Block)
  BY RingSteps DEF RingMove

LEMMA RingsRest ==
  /\ kpipe' = kpipe /\ WriteK' = WriteK /\ KPositions' = KPositions
       /\ KReaders' = KReaders => KMoves
  /\ vpipe' = vpipe /\ WriteV' = WriteV /\ VPositions' = VPositions
       /\ VReaders' = VReaders => VMoves
  BY DEF KMoves, VMoves, RingMove

LEMMA WaitingPositions ==
  ASSUME wg' = wg
  PROVE  /\ KPositions' = KPositions /\ VPositions' = VPositions
         /\ KReaders' = KReaders /\ VReaders' = VReaders
  BY DEF KPositions, VPositions, KReaders, VReaders, ReadK, ReadV, ReadingQK

LEMMA ProducerMovesRings ==
  ASSUME Places, KIsRing, VIsRing, Producer
  PROVE  KMoves /\ VMoves
<1>1. wg' = wg /\ TypeOK /\ ProducerPlaced BY ProducerStaysPlaced, ProducerFacts
<1>2. /\ KPositions' = KPositions /\ VPositions' = VPositions
      /\ KReaders' = KReaders /\ VReaders' = VReaders
  BY <1>1, WaitingPositions
<1>3. producer.at \in ProducerLabels /\ producer.tile \in Nat /\ producer.i \in Nat
  BY ProducerFacts
<1>4. CASE SkipTile \/ LoadTail
  <2>1. WriteK' = WriteK /\ WriteV' = WriteV
    BY <1>4, SkipTileMoves, LoadTailMoves DEF ProducerMoves, WriteK, WriteV
  <2> QED BY <1>2, <1>4, <2>1, RingsRest DEF SkipTile, LoadTail
<1>5. CASE LoadQ \/ WaitO
  <2>1. WriteK' = WriteK /\ WriteV' = WriteV
    BY <1>5, LoadQMoves, WaitOMoves DEF ProducerMoves, WriteK, WriteV
  <2> QED BY <1>2, <1>5, <2>1, RingsRest DEF LoadQ, WaitO
<1>6. CASE LoadFirstK
  <2> DEFINE b == BlockOf(producer.tile, 1)
  <2>1. producer.tile \in Tiles /\ LoadBlocks(producer.tile) # << >>
    BY <1>6 DEF LoadFirstK, ProducerAt
  <2>2. b \in Block
    <3>1. 1 \in 1 .. MmaCount(producer.tile) BY <1>1, <2>1, TileFacts
    <3> QED BY <1>1, <2>1, <3>1, BlockTyped
  <2>3. /\ WriteK = producer.write /\ WriteK' = Advance(producer.write) /\ WriteV' = WriteV
        /\ AcquireReady(kpipe, WriteK) /\ kpipe' = Issue(kpipe, WriteK, b) /\ vpipe' = vpipe
    BY <1>6, LoadFirstKMoves DEF ProducerMoves, WriteK, WriteV, LoadFirstK
  <2> HIDE DEF b
  <2>4. KMoves BY <1>2, <2>2, <2>3 DEF KMoves, RingMove
  <2> QED BY <1>2, <2>3, <2>4, RingsRest
<1>7. CASE LoadNextK
  <2> DEFINE b == BlockOf(producer.tile, producer.i + 1)
  <2>1. /\ producer.tile \in Tiles /\ producer.at = "load_K"
        /\ producer.i < Len(LoadBlocks(producer.tile))
    BY <1>7 DEF LoadNextK, ProducerAt
  <2>2. b \in Block
    <3>1. producer.i + 1 \in 1 .. MmaCount(producer.tile)
      BY <1>1, <2>1, TileFacts DEF ProducerPlaced
    <3> QED BY <1>1, <2>1, <3>1, BlockTyped
  <2>3. /\ WriteK = Advance(producer.write) /\ WriteK' = Advance(Advance(producer.write))
        /\ WriteV = producer.write /\ WriteV' = producer.write
        /\ AcquireReady(kpipe, WriteK) /\ kpipe' = Issue(kpipe, WriteK, b) /\ vpipe' = vpipe
    BY <1>7, <2>1, LoadNextKMoves DEF ProducerMoves, WriteK, WriteV, LoadNextK
  <2> HIDE DEF b
  <2>4. KMoves BY <1>2, <2>2, <2>3 DEF KMoves, RingMove
  <2> QED BY <1>2, <2>3, <2>4, RingsRest
<1>8. CASE LoadPrevV
  <2> DEFINE b == BlockOf(producer.tile, producer.i)
  <2>1. producer.tile \in Tiles /\ producer.at = "load_V" BY <1>8 DEF LoadPrevV, ProducerAt
  <2>2. b \in Block
    <3>1. producer.i \in 1 .. MmaCount(producer.tile)
      BY <1>1, <2>1, TileFacts DEF ProducerPlaced
    <3> QED BY <1>1, <2>1, <3>1, BlockTyped
  <2>3. Advance(producer.write_v) = producer.write
    <3>1. /\ producer.write_v \in PipelineState /\ producer.write \in PipelineState
          /\ Before(BlockCount, producer.tile) \in Nat
      BY ProducerFacts
    <3>2. R!Pos(Advance(producer.write_v)) = R!Pos(producer.write)
      <4>1. /\ R!Pos(producer.write) = Before(BlockCount, producer.tile) + producer.i
            /\ R!Pos(producer.write_v) = Before(BlockCount, producer.tile) + producer.i - 1
        BY <1>1, <2>1 DEF ProducerPlaced
      <4>2. R!Pos(Advance(producer.write_v)) = R!Pos(producer.write_v) + 1
        BY <3>1, NextPosition
      <4> QED BY <1>3, <3>1, <4>1, <4>2
    <3>3. Advance(producer.write_v) \in R!PipelineState /\ producer.write \in R!PipelineState
      BY <3>1, NextPosition, SameOperators
    <3> QED BY <3>2, <3>3, SomeWarpGroup, R!PosUnique
  <2>4. /\ WriteV = producer.write_v /\ WriteV' = producer.write /\ WriteK' = WriteK
        /\ AcquireReady(vpipe, WriteV) /\ vpipe' = Issue(vpipe, WriteV, b) /\ kpipe' = kpipe
    BY <1>8, <2>1, LoadPrevVMoves DEF ProducerMoves, WriteK, WriteV, LoadPrevV
  <2> HIDE DEF b
  <2>5. VMoves BY <1>2, <2>2, <2>3, <2>4 DEF VMoves, RingMove
  <2> QED BY <1>2, <2>4, <2>5, RingsRest
<1>9. CASE LoadLastV
  <2> DEFINE b == BlockOf(producer.tile, producer.i)
  <2>1. producer.tile \in Tiles /\ producer.at = "load_K" BY <1>9 DEF LoadLastV, ProducerAt
  <2>2. b \in Block
    <3>1. producer.i \in 1 .. MmaCount(producer.tile)
      BY <1>1, <2>1, TileFacts DEF ProducerPlaced
    <3> QED BY <1>1, <2>1, <3>1, BlockTyped
  <2>3. /\ WriteV = producer.write /\ WriteV' = Advance(producer.write) /\ WriteK' = WriteK
        /\ AcquireReady(vpipe, WriteV) /\ vpipe' = Issue(vpipe, WriteV, b) /\ kpipe' = kpipe
    BY <1>9, <2>1, LoadLastVMoves DEF ProducerMoves, WriteK, WriteV, LoadLastV
  <2> HIDE DEF b
  <2>4. VMoves BY <1>2, <2>2, <2>3 DEF VMoves, RingMove
  <2> QED BY <1>2, <2>3, <2>4, RingsRest
<1> QED BY <1>4, <1>5, <1>6, <1>7, <1>8, <1>9 DEF Producer

LEMMA TmaMovesRings ==
  ASSUME KIsRing, VIsRing, Tma
  PROVE  KMoves /\ VMoves
<1>1. wg' = wg /\ WriteK' = WriteK /\ WriteV' = WriteV
  BY DEF Tma, LandQ, LandK, LandV, WriteK, WriteV
<1>2. /\ KPositions' = KPositions /\ VPositions' = VPositions
      /\ KReaders' = KReaders /\ VReaders' = VReaders
  BY <1>1, WaitingPositions
<1>3. CASE LandQ BY <1>1, <1>2, <1>3, RingsRest DEF LandQ
<1>4. ASSUME NEW s \in Stages, LandK(s) PROVE KMoves /\ VMoves
  <2>1. kpipe' = Land(kpipe, s) /\ kpipe.load[s] # NoBlock /\ vpipe' = vpipe BY <1>4 DEF LandK
  <2>2. KMoves BY <1>1, <1>2, <2>1 DEF KMoves, RingMove
  <2> QED BY <1>1, <1>2, <2>1, <2>2, RingsRest
<1>5. ASSUME NEW s \in Stages, LandV(s) PROVE KMoves /\ VMoves
  <2>1. vpipe' = Land(vpipe, s) /\ vpipe.load[s] # NoBlock /\ kpipe' = kpipe BY <1>5 DEF LandV
  <2>2. VMoves BY <1>1, <1>2, <2>1 DEF VMoves, RingMove
  <2> QED BY <1>1, <1>2, <2>1, <2>2, RingsRest
<1> QED BY <1>3, <1>4, <1>5 DEF Tma

LEMMA PositionOf ==
  ASSUME NEW g \in WarpGroups
  PROVE  KPositions[g] = ReadK(g) /\ VPositions[g] = ReadV(g)
  BY DEF KPositions, VPositions

(* A warpgroup begins a gemm of a loop step on a full stage.               *)
LEMMA StepSeesFull ==
  ASSUME Places, TurnsInOrder, KIsRing, VIsRing, NEW g \in WarpGroups
  PROVE  /\ StepQK(g) => Advance(wg[g].read).lap < kpipe.full[Advance(wg[g].read).index]
         /\ StepPV(g) => ReadV(g).lap < vpipe.full[ReadV(g).index]
<1>1. /\ wg[g].at = "step" => ReadK(g) = Advance(wg[g].read)
      /\ wg[g].at = "step_PV" => ReadV(g) = wg[g].read_v
  BY DEF ReadK, ReadV
<1>2. /\ \A c, d \in WarpGroups :
           R!Pos(ReadK(c)) < R!Pos(ReadK(d)) \/ (R!Pos(ReadK(c)) = R!Pos(ReadK(d)) /\ d \in KReaders) =>
             ReadK(c).lap < kpipe.full[ReadK(c).index]
      /\ \A c \in WarpGroups : FullReady(kpipe, ReadK(c)) => ReadK(c).lap < kpipe.full[ReadK(c).index]
  <2>1. /\ \A c, d \in WarpGroups :
             R!Pos(KPositions[c]) < R!Pos(KPositions[d])
               \/ (R!Pos(KPositions[c]) = R!Pos(KPositions[d]) /\ d \in KReaders) =>
               KPositions[c].lap < kpipe.full[KPositions[c].index]
        /\ \A c \in WarpGroups :
             FullReady(kpipe, KPositions[c]) => KPositions[c].lap < kpipe.full[KPositions[c].index]
    BY RingSteps DEF KIsRing
  <2>2. \A c \in WarpGroups : KPositions[c] = ReadK(c) BY PositionOf
  <2> QED BY <2>1, <2>2
<1>3. /\ \A c, d \in WarpGroups :
           R!Pos(ReadV(c)) < R!Pos(ReadV(d)) \/ (R!Pos(ReadV(c)) = R!Pos(ReadV(d)) /\ d \in VReaders) =>
             ReadV(c).lap < vpipe.full[ReadV(c).index]
      /\ \A c \in WarpGroups : FullReady(vpipe, ReadV(c)) => ReadV(c).lap < vpipe.full[ReadV(c).index]
  <2>1. /\ \A c, d \in WarpGroups :
             R!Pos(VPositions[c]) < R!Pos(VPositions[d])
               \/ (R!Pos(VPositions[c]) = R!Pos(VPositions[d]) /\ d \in VReaders) =>
               VPositions[c].lap < vpipe.full[VPositions[c].index]
        /\ \A c \in WarpGroups :
             FullReady(vpipe, VPositions[c]) => VPositions[c].lap < vpipe.full[VPositions[c].index]
    BY RingSteps DEF VIsRing
  <2>2. \A c \in WarpGroups : VPositions[c] = ReadV(c) BY PositionOf
  <2> QED BY <2>1, <2>2
<1>4. ASSUME StepQK(g) PROVE ReadK(g).lap < kpipe.full[ReadK(g).index]
  <2>1. /\ wg[g].at = "step" /\ wg[g].tile \in Tiles /\ wg[g].i < MmaCount(wg[g].tile)
        /\ WaitsInLoop(g) => FullReady(kpipe, ReadK(g))
        /\ UseSchedulerBarrier => named.scheduler[g] > 0
    BY <1>1, <1>4 DEF StepQK, At, MySchedulerTurn
  <2>2. CASE WaitsInLoop(g) BY <1>2, <2>1, <2>2
  <2>3. CASE ~WaitsInLoop(g)
    <3>1. UseSchedulerBarrier /\ g # 0 BY <2>3 DEF WaitsInLoop
    <3>2. R!Pos(ReadK(g)) = Before(BlockCount, wg[g].tile) + wg[g].i BY <2>1, ReadPositions
    <3>3. \/ R!Pos(ReadK(g)) < R!Pos(ReadK(0))
          \/ R!Pos(ReadK(g)) = R!Pos(ReadK(0)) /\ 0 \in KReaders
      BY <2>1, <3>1, <3>2, FirstIsAhead
    <3> QED BY <1>2, <3>3, SomeWarpGroup
  <2> QED BY <2>2, <2>3
<1>5. ASSUME StepPV(g) PROVE ReadV(g).lap < vpipe.full[ReadV(g).index]
  <2>1. /\ wg[g].at = "step_PV" /\ wg[g].tile \in Tiles
        /\ WaitsInLoop(g) => FullReady(vpipe, ReadV(g))
    BY <1>1, <1>5 DEF StepPV, At
  <2>2. CASE WaitsInLoop(g) BY <1>3, <2>1, <2>2
  <2>3. CASE ~WaitsInLoop(g)
    <3>1. UseSchedulerBarrier /\ g # 0 BY <2>3 DEF WaitsInLoop
    <3>2. R!Pos(ReadV(g)) = Before(BlockCount, wg[g].tile) + wg[g].i - 1
      BY <2>1, ReadPositions
    <3>3. \/ R!Pos(ReadV(g)) < R!Pos(ReadV(0))
          \/ R!Pos(ReadV(g)) = R!Pos(ReadV(0)) /\ 0 \in VReaders
      <4>1. \/ (Before(BlockCount, wg[g].tile) + wg[g].i) - 1 < R!Pos(ReadV(0))
            \/ /\ (Before(BlockCount, wg[g].tile) + wg[g].i) - 1 = R!Pos(ReadV(0))
               /\ 0 \in VReaders
        BY <2>1, <3>1, FirstIsAhead
      <4>2. Before(BlockCount, wg[g].tile) \in Nat /\ wg[g].i \in Nat BY PlaceFacts
      <4> QED BY <3>2, <4>1, <4>2
    <3> QED BY <1>3, <3>3, SomeWarpGroup
  <2> QED BY <2>2, <2>3
<1>6. StepQK(g) => ReadK(g) = Advance(wg[g].read) BY <1>1 DEF StepQK, At
<1> QED BY <1>4, <1>5, <1>6

(* Steps of a warpgroup that begin and end no gemm.                        *)
LEMMA OthersMoveRings ==
  ASSUME Places, KIsRing, VIsRing, NEW g \in WarpGroups,
         producer' = producer, \A h \in WarpGroups : h # g => wg'[h] = wg[h],
         ReadK(g)' = ReadK(g), ReadV(g)' = ReadV(g),
         ReadingQK(g)' <=> ReadingQK(g),
         wg'[g].at \in {"step_softmax", "step_end", "last_end"} <=>
           wg[g].at \in {"step_softmax", "step_end", "last_end"}
  PROVE  /\ WriteK' = WriteK /\ WriteV' = WriteV
         /\ kpipe' = kpipe => KMoves
         /\ vpipe' = vpipe => VMoves
         /\ KPositions' = KPositions /\ VPositions' = VPositions
         /\ KReaders' = KReaders /\ VReaders' = VReaders
<1>1. KPositions' = KPositions /\ VPositions' = VPositions BY KPositionsMove
<1>2. WriteK' = WriteK /\ WriteV' = WriteV BY DEF WriteK, WriteV
<1>3. KReaders' = KReaders
  <2>1. KReaders' = IF ReadingQK(g)' THEN KReaders \cup {g} ELSE KReaders \ {g}
    BY KPositionsMove
  <2> QED BY <2>1 DEF KReaders
<1>4. VReaders' = VReaders
  <2>1. VReaders' = IF wg'[g].at \in {"step_softmax", "step_end", "last_end"}
                    THEN VReaders \cup {g} ELSE VReaders \ {g}
    BY KPositionsMove
  <2> QED BY <2>1 DEF VReaders
<1> QED BY <1>1, <1>2, <1>3, <1>4, RingsRest

LEMMA KReadBegins ==
  ASSUME NEW g \in WarpGroups, WriteK' = WriteK, kpipe' = kpipe,
         KPositions' = KPositions, KReaders' = KReaders \cup {g},
         ReadK(g).lap < kpipe.full[ReadK(g).index]
  PROVE  KMoves
<1>1. KPositions[g] = ReadK(g) BY PositionOf
<1> QED BY <1>1 DEF KMoves, RingMove

LEMMA VReadBegins ==
  ASSUME NEW g \in WarpGroups, WriteV' = WriteV, vpipe' = vpipe,
         VPositions' = VPositions, VReaders' = VReaders \cup {g},
         ReadV(g).lap < vpipe.full[ReadV(g).index]
  PROVE  VMoves
<1>1. VPositions[g] = ReadV(g) BY PositionOf
<1> QED BY <1>1 DEF VMoves, RingMove

LEMMA KReadEnds ==
  ASSUME NEW g \in KReaders, WriteK' = WriteK, kpipe' = Release(kpipe, ReadK(g), g),
         KPositions' = [KPositions EXCEPT ![g] = Advance(ReadK(g))], KReaders' = KReaders \ {g}
  PROVE  KMoves
<1>1. g \in WarpGroups BY DEF KReaders
<1>2. KPositions[g] = ReadK(g) BY <1>1, PositionOf
<1> QED BY <1>2 DEF KMoves, RingMove

LEMMA VReadEnds ==
  ASSUME NEW g \in VReaders, WriteV' = WriteV, vpipe' = Release(vpipe, ReadV(g), g),
         VPositions' = [VPositions EXCEPT ![g] = Advance(ReadV(g))], VReaders' = VReaders \ {g}
  PROVE  VMoves
<1>1. g \in WarpGroups BY DEF VReaders
<1>2. VPositions[g] = ReadV(g) BY <1>1, PositionOf
<1> QED BY <1>2 DEF VMoves, RingMove

LEMMA MainloopMovesRings ==
  ASSUME Places, TurnsInOrder, KIsRing, VIsRing, NEW g \in WarpGroups, Mainloop(g)
  PROVE  KMoves /\ VMoves
<1>1. /\ producer' = producer /\ \A h \in WarpGroups : h # g => wg'[h] = wg[h]
  BY OnlyOneMoves DEF WarpGroup
<1>2. WriteK' = WriteK /\ WriteV' = WriteV BY <1>1 DEF WriteK, WriteV
<1>3. /\ KPositions' = [KPositions EXCEPT ![g] = ReadK(g)']
      /\ VPositions' = [VPositions EXCEPT ![g] = ReadV(g)']
      /\ ReadK(g)' = ReadK(g) => KPositions' = KPositions
      /\ ReadV(g)' = ReadV(g) => VPositions' = VPositions
      /\ KReaders' = IF ReadingQK(g)' THEN KReaders \cup {g} ELSE KReaders \ {g}
      /\ VReaders' = IF wg'[g].at \in {"step_softmax", "step_end", "last_end"}
                     THEN VReaders \cup {g} ELSE VReaders \ {g}
  BY <1>1, KPositionsMove
<1>4. CASE MmaInit(g) \/ StoreZero(g) \/ WaitQ(g) \/ QueryDone(g)
  <2>1. /\ ReadK(g)' = ReadK(g) /\ ReadV(g)' = ReadV(g) /\ ~ReadingQK(g)' /\ ~ReadingQK(g)
        /\ wg'[g].at \notin {"step_softmax", "step_end", "last_end"}
        /\ wg[g].at \notin {"step_softmax", "step_end", "last_end"}
    BY <1>4, MmaInitMoves, StoreZeroMoves, WaitQMoves, QueryDoneMoves
    DEF Moves, ReadK, ReadV, ReadingQK
  <2> QED BY <1>1, <1>4, <2>1, OthersMoveRings DEF MmaInit, StoreZero, WaitQ, QueryDone
<1>5. CASE FirstQK(g)
  <2>1. /\ ReadK(g)' = ReadK(g) /\ ReadV(g)' = ReadV(g) /\ ReadingQK(g)'
        /\ ReadK(g) = wg[g].read
        /\ wg'[g].at \notin {"step_softmax", "step_end", "last_end"}
        /\ wg[g].at \notin {"step_softmax", "step_end", "last_end"}
    BY <1>5, FirstQKMoves DEF Moves, ReadK, ReadV, ReadingQK
  <2>2. FullReady(kpipe, KPositions[g]) BY <1>5, <2>1, PositionOf DEF FirstQK
  <2>3. KPositions[g].lap < kpipe.full[KPositions[g].index] BY <2>2, RingSteps DEF KIsRing
  <2>4. KMoves BY <1>2, <1>3, <1>5, <2>1, <2>3, PositionOf, KReadBegins DEF FirstQK
  <2>5. VReaders' = VReaders BY <1>3, <2>1 DEF VReaders
  <2>6. VMoves BY <1>2, <1>3, <1>5, <2>1, <2>5, RingsRest DEF FirstQK
  <2> QED BY <2>4, <2>6
<1>6. CASE FirstSoftmax(g)
  <2>1. /\ ReadK(g) = wg[g].read /\ ReadK(g)' = Advance(wg[g].read) /\ ReadV(g)' = ReadV(g)
        /\ ~ReadingQK(g)' /\ g \in KReaders
        /\ wg'[g].at \notin {"step_softmax", "step_end", "last_end"}
        /\ wg[g].at \notin {"step_softmax", "step_end", "last_end"}
    BY <1>6, FirstSoftmaxMoves DEF Moves, ReadK, ReadV, ReadingQK, KReaders
  <2>2. KMoves BY <1>2, <1>3, <1>6, <2>1, KReadEnds DEF FirstSoftmax
  <2>3. VReaders' = VReaders BY <1>3, <2>1 DEF VReaders
  <2>4. VMoves BY <1>2, <1>3, <1>6, <2>1, <2>3, RingsRest DEF FirstSoftmax
  <2> QED BY <2>2, <2>4
<1>7. CASE StepQK(g)
  <2>1. /\ ReadK(g) = Advance(wg[g].read) /\ ReadK(g)' = ReadK(g) /\ ReadV(g)' = ReadV(g)
        /\ ReadingQK(g)'
        /\ wg'[g].at \notin {"step_softmax", "step_end", "last_end"}
        /\ wg[g].at \notin {"step_softmax", "step_end", "last_end"}
    BY <1>7, StepQKMoves DEF Moves, ReadK, ReadV, ReadingQK
  <2>2. ReadK(g).lap < kpipe.full[ReadK(g).index] BY <1>7, <2>1, StepSeesFull
  <2>3. KMoves BY <1>2, <1>3, <1>7, <2>1, <2>2, KReadBegins DEF StepQK
  <2>4. VReaders' = VReaders BY <1>3, <2>1 DEF VReaders
  <2>5. VMoves BY <1>2, <1>3, <1>7, <2>1, <2>4, RingsRest DEF StepQK
  <2> QED BY <2>3, <2>5
<1>8. CASE StepPV(g)
  <2>1. /\ ReadK(g)' = ReadK(g) /\ ReadV(g)' = ReadV(g) /\ ReadingQK(g)' /\ ReadingQK(g)
        /\ wg'[g].at \in {"step_softmax", "step_end", "last_end"}
    BY <1>8, StepPVMoves DEF Moves, ReadK, ReadV, ReadingQK
  <2>2. ReadV(g).lap < vpipe.full[ReadV(g).index] BY <1>8, StepSeesFull
  <2>3. VMoves BY <1>2, <1>3, <1>8, <2>1, <2>2, VReadBegins DEF StepPV
  <2>4. KReaders' = KReaders BY <1>3, <2>1 DEF KReaders
  <2>5. KMoves BY <1>2, <1>3, <1>8, <2>1, <2>4, RingsRest DEF StepPV
  <2> QED BY <2>3, <2>5
<1>9. CASE StepReleaseK(g)
  <2>1. /\ ReadK(g) = wg[g].read /\ ReadK(g)' = Advance(wg[g].read) /\ ReadV(g)' = ReadV(g)
        /\ ~ReadingQK(g)' /\ g \in KReaders
        /\ wg'[g].at \in {"step_softmax", "step_end", "last_end"}
        /\ wg[g].at \in {"step_softmax", "step_end", "last_end"}
    BY <1>9, StepReleaseKMoves DEF Moves, ReadK, ReadV, ReadingQK, KReaders
  <2>2. KMoves BY <1>2, <1>3, <1>9, <2>1, KReadEnds DEF StepReleaseK
  <2>3. VReaders' = VReaders BY <1>3, <2>1 DEF VReaders
  <2>4. VMoves BY <1>2, <1>3, <1>9, <2>1, <2>3, RingsRest DEF StepReleaseK
  <2> QED BY <2>2, <2>4
<1>10. CASE StepReleaseV(g)
  <2>1. /\ ReadV(g) = wg[g].read_v /\ ReadV(g)' = wg[g].read /\ ReadK(g)' = ReadK(g)
        /\ ~ReadingQK(g)' /\ ~ReadingQK(g) /\ g \in VReaders /\ wg[g].at = "step_end"
        /\ wg'[g].at \notin {"step_softmax", "step_end", "last_end"}
    BY <1>10, StepReleaseVMoves DEF Moves, ReadK, ReadV, ReadingQK, VReaders
  <2>2. Advance(wg[g].read_v) = wg[g].read
    <3>1. /\ wg[g].read_v \in PipelineState /\ wg[g].read \in PipelineState /\ Placed(g)
          /\ Before(BlockCount, wg[g].tile) \in Nat /\ wg[g].i \in Nat
      BY PlaceFacts
    <3>2. R!Pos(Advance(wg[g].read_v)) = R!Pos(wg[g].read)
      <4>1. /\ R!Pos(wg[g].read) = Before(BlockCount, wg[g].tile) + wg[g].i
            /\ R!Pos(wg[g].read_v) = Before(BlockCount, wg[g].tile) + wg[g].i - 1
        BY <2>1, <3>1 DEF Placed, InStep
      <4>2. R!Pos(Advance(wg[g].read_v)) = R!Pos(wg[g].read_v) + 1 BY <3>1, NextPosition
      <4> QED BY <3>1, <4>1, <4>2
    <3>3. Advance(wg[g].read_v) \in R!PipelineState /\ wg[g].read \in R!PipelineState
      BY <3>1, NextPosition, SameOperators
    <3> QED BY <3>2, <3>3, SomeWarpGroup, R!PosUnique
  <2>3. VMoves BY <1>2, <1>3, <1>10, <2>1, <2>2, VReadEnds DEF StepReleaseV
  <2>4. KReaders' = KReaders BY <1>3, <2>1 DEF KReaders
  <2>5. KMoves BY <1>2, <1>3, <1>10, <2>1, <2>4, RingsRest DEF StepReleaseV
  <2> QED BY <2>3, <2>5
<1>11. CASE LastPV(g)
  <2>1. /\ ReadK(g)' = ReadK(g) /\ ReadV(g)' = ReadV(g) /\ ~ReadingQK(g)' /\ ~ReadingQK(g)
        /\ ReadV(g) = wg[g].read
        /\ wg'[g].at \in {"step_softmax", "step_end", "last_end"}
    BY <1>11, LastPVMoves DEF Moves, ReadK, ReadV, ReadingQK
  <2>2. FullReady(vpipe, VPositions[g]) BY <1>11, <2>1, PositionOf DEF LastPV
  <2>3. VPositions[g].lap < vpipe.full[VPositions[g].index] BY <2>2, RingSteps DEF VIsRing
  <2>4. VMoves BY <1>2, <1>3, <1>11, <2>1, <2>3, PositionOf, VReadBegins DEF LastPV
  <2>5. KReaders' = KReaders BY <1>3, <2>1 DEF KReaders
  <2>6. KMoves BY <1>2, <1>3, <1>11, <2>1, <2>5, RingsRest DEF LastPV
  <2> QED BY <2>4, <2>6
<1>12. CASE LastReleaseV(g)
  <2>1. /\ ReadV(g) = wg[g].read /\ ReadV(g)' = Advance(wg[g].read) /\ ReadK(g)' = ReadK(g)
        /\ ~ReadingQK(g)' /\ ~ReadingQK(g) /\ g \in VReaders
        /\ wg'[g].at \notin {"step_softmax", "step_end", "last_end"}
    BY <1>12, LastReleaseVMoves DEF Moves, ReadK, ReadV, ReadingQK, VReaders
  <2>2. VMoves BY <1>2, <1>3, <1>12, <2>1, VReadEnds DEF LastReleaseV
  <2>3. KReaders' = KReaders BY <1>3, <2>1 DEF KReaders
  <2>4. KMoves BY <1>2, <1>3, <1>12, <2>1, <2>3, RingsRest DEF LastReleaseV
  <2> QED BY <2>2, <2>4
<1> QED BY <1>4, <1>5, <1>6, <1>7, <1>8, <1>9, <1>10, <1>11, <1>12 DEF Mainloop

LEMMA EpilogueMovesRings ==
  ASSUME Places, KIsRing, VIsRing, NEW g \in WarpGroups, Epilogue(g)
  PROVE  KMoves /\ VMoves
<1>1. /\ producer' = producer /\ \A h \in WarpGroups : h # g => wg'[h] = wg[h] /\ TypeOK
  BY OnlyOneMoves DEF WarpGroup, Places
<1>2. /\ ReadK(g)' = ReadK(g) /\ ReadV(g)' = ReadV(g) /\ ~ReadingQK(g)' /\ ~ReadingQK(g)
      /\ wg'[g].at \notin {"step_softmax", "step_end", "last_end"}
      /\ wg[g].at \notin {"step_softmax", "step_end", "last_end"}
  BY WriteOMoves, BeginTmaStoreMoves, EndTmaStoreMoves, ReadOMoves, ArriveOMoves
  DEF Moves, Epilogue, ReadK, ReadV, ReadingQK
<1>3. /\ WriteK' = WriteK /\ WriteV' = WriteV
      /\ kpipe' = kpipe => KMoves
      /\ vpipe' = vpipe => VMoves
      /\ KPositions' = KPositions /\ VPositions' = VPositions
      /\ KReaders' = KReaders /\ VReaders' = VReaders
  BY <1>1, <1>2, OthersMoveRings
<1>4. CASE WriteO(g)
  <2> DEFINE data == [s \in Stages |-> NoBlock]
  <2>1. data \in [Stages -> Block \cup {NoBlock}] OBVIOUS
  <2>2. kpipe' = kpipe /\ vpipe' = [vpipe EXCEPT !.data = data] BY <1>4 DEF WriteO
  <2> HIDE DEF data
  <2>3. VMoves BY <1>3, <2>1, <2>2 DEF VMoves, RingMove
  <2> QED BY <1>3, <2>2, <2>3
<1> QED BY <1>3, <1>4 DEF Epilogue, BeginTmaStore, EndTmaStore, ReadO, ArriveO

LEMMA SyncMovesRings ==
  ASSUME Places, KIsRing, VIsRing, EpilogueSync
  PROVE  KMoves /\ VMoves
<1>1. producer' = producer /\ kpipe' = kpipe /\ vpipe' = vpipe BY DEF EpilogueSync
<1>2. WriteK' = WriteK /\ WriteV' = WriteV BY <1>1 DEF WriteK, WriteV
<1>3. ASSUME NEW g \in WarpGroups
      PROVE  /\ ReadK(g)' = ReadK(g) /\ ReadV(g)' = ReadV(g) /\ ~ReadingQK(g)' /\ ~ReadingQK(g)
             /\ wg'[g].at \notin {"step_softmax", "step_end", "last_end"}
             /\ wg[g].at \notin {"step_softmax", "step_end", "last_end"}
  <2>1. /\ wg[g].at \in AtEpilogueSync /\ wg'[g].at \in {"arrive_O", "write_O", "read_O"}
        /\ wg'[g].read = wg[g].read
    BY SyncMoves DEF AtEpilogueSync
  <2> QED BY <2>1 DEF AtEpilogueSync, ReadK, ReadV, ReadingQK
<1>4. /\ KPositions' = KPositions /\ VPositions' = VPositions
      /\ KReaders' = KReaders /\ VReaders' = VReaders
  BY <1>3 DEF KPositions, VPositions, KReaders, VReaders
<1> QED BY <1>1, <1>2, <1>4, RingsRest

LEMMA RingsInit ==
  ASSUME Init
  PROVE  KIsRing /\ VIsRing
<1>1. WriteK = StartState /\ WriteV = StartState BY DEF Init, WriteK, WriteV
<1>2. KPositions = [g \in WarpGroups |-> StartState] /\ VPositions = [g \in WarpGroups |-> StartState]
  BY DEF Init, KPositions, VPositions, ReadK, ReadV
<1>3. KReaders = {} /\ VReaders = {} BY DEF Init, KReaders, VReaders, ReadingQK
<1>4. R!Ring(R!EmptyPipeline, R!StartState, [g \in WarpGroups |-> R!StartState], {}, Block)
  BY SomeWarpGroup, R!EmptyRing
<1>5. R!Ring(EmptyPipeline, StartState, [g \in WarpGroups |-> StartState], {}, Block)
  BY <1>4, SameOperators
<1> QED BY <1>1, <1>2, <1>3, <1>5 DEF Init, KIsRing, VIsRing

LEMMA RingsMove ==
  ASSUME Places, TurnsInOrder, KIsRing, VIsRing, [Next]_vars
  PROVE  KMoves /\ VMoves
<1>1. CASE Exit \/ UNCHANGED vars
  <2>1. wg' = wg /\ kpipe' = kpipe /\ vpipe' = vpipe /\ WriteK' = WriteK /\ WriteV' = WriteV
    BY <1>1 DEF Exit, vars, WriteK, WriteV
  <2> QED BY <2>1, WaitingPositions, RingsRest
<1> QED BY <1>1, ProducerMovesRings, TmaMovesRings, SyncMovesRings, MainloopMovesRings,
           EpilogueMovesRings DEF Next, WarpGroup

(* Both pipelines are rings in every reachable state, although with the    *)
(* scheduler barriers only the first warpgroup waits for a full stage in   *)
(* the loop.                                                               *)
THEOREM RingsAlways == Spec => [](KIsRing /\ VIsRing)
<1>1. Init => KIsRing /\ VIsRing BY RingsInit
<1>2. Places /\ TurnsInOrder /\ KIsRing /\ VIsRing /\ [Next]_vars => (KIsRing /\ VIsRing)'
  <2> SUFFICES ASSUME Places, TurnsInOrder, KIsRing, VIsRing, [Next]_vars
               PROVE  KIsRing' /\ VIsRing'
    OBVIOUS
  <2>1. KMoves /\ VMoves BY RingsMove
  <2> QED BY <2>1, MoveKeepsRing DEF KMoves, VMoves, KIsRing, VIsRing
<1> QED BY <1>1, <1>2, PlacesAlways, TurnsAlways, PTL DEF Spec

-----------------------------------------------------------------------------
(* barrier_Q and QueryEmpty: loads of Q asked for, and warpgroups done.    *)

QueryLoads ==
  producer.work_idx + (IF producer.at \in {"wait_O", "load_K", "load_V"} THEN 1 ELSE 0)

(* How often g has arrived at QueryEmpty, once in mma_init and once a tile.*)
QueryReleases(g) ==
  IF wg[g].at = "init" THEN 0
  ELSE 1 + wg[g].work_idx + (IF wg[g].at \in AfterLoop THEN 1 ELSE 0)

(* How many loads of Q g has waited for.                                   *)
QueryWaits(g) ==
  wg[g].work_idx + (IF wg[g].at \in WithoutATile \cup InEpilogue THEN 0 ELSE 1)

Released == {g \in WarpGroups : QueryReleases(g) = QueryLoads + 1}

QueryCounted ==
  /\ QueryLoads = query.completed + (IF query.load = NoBlock THEN 0 ELSE 1)
  /\ \A g \in WarpGroups : QueryReleases(g) \in {QueryLoads, QueryLoads + 1}
  /\ \A g \in WarpGroups : QueryWaits(g) <= query.completed
  /\ named.queryEmpty = Cardinality(Released)

LEMMA CountGroups ==
  ASSUME NEW S \in SUBSET WarpGroups
  PROVE  /\ Cardinality(S) \in Nat /\ Cardinality(S) <= NumMmaWarpGroups
         /\ Cardinality(S) >= NumMmaWarpGroups => S = WarpGroups
         /\ \A g \in WarpGroups \ S : Cardinality(S \cup {g}) = Cardinality(S) + 1
         /\ Cardinality({}) = 0 /\ Cardinality(WarpGroups) = NumMmaWarpGroups
<1>1. IsFiniteSet(WarpGroups) /\ Cardinality(WarpGroups) = NumMmaWarpGroups
  <2> DEFINE n == NumMmaWarpGroups - 1
  <2>1. n \in Int /\ 0 <= n /\ n - 0 + 1 = NumMmaWarpGroups OBVIOUS
  <2>2. WarpGroups = 0 .. n BY DEF WarpGroups
  <2> HIDE DEF n
  <2>3. IsFiniteSet(0 .. n) /\ Cardinality(0 .. n) = IF 0 > n THEN 0 ELSE n - 0 + 1
    BY <2>1, FS_Interval
  <2> QED BY <2>1, <2>2, <2>3
<1>2. /\ IsFiniteSet(S) /\ Cardinality(S) <= Cardinality(WarpGroups)
      /\ Cardinality(S) = Cardinality(WarpGroups) => S = WarpGroups
  BY <1>1, FS_Subset
<1>3. Cardinality(S) \in Nat BY <1>2, FS_CardinalityType
<1>4. ASSUME NEW g \in WarpGroups \ S PROVE Cardinality(S \cup {g}) = Cardinality(S) + 1
  BY <1>2, FS_AddElement
<1>5. Cardinality({}) = 0 BY FS_EmptySet
<1> QED BY <1>1, <1>2, <1>3, <1>4, <1>5

LEMMA QueryTypes ==
  ASSUME Places
  PROVE  /\ QueryLoads \in Nat /\ query.completed \in Nat /\ named.queryEmpty \in Nat
         /\ \A g \in WarpGroups : QueryReleases(g) \in Nat /\ QueryWaits(g) \in Nat
         /\ Released \in SUBSET WarpGroups
<1>1. producer.work_idx \in Nat /\ TypeOK BY ProducerFacts
<1>2. \A g \in WarpGroups : wg[g].work_idx \in Nat BY PlaceFacts
<1> QED BY <1>1, <1>2 DEF QueryLoads, QueryReleases, QueryWaits, Released, TypeOK

LEMMA QueryKept ==
  ASSUME QueryCounted, QueryLoads' = QueryLoads, query' = query,
         \A g \in WarpGroups : /\ QueryReleases(g)' = QueryReleases(g)
                               /\ QueryWaits(g)' = QueryWaits(g),
         named'.queryEmpty = named.queryEmpty
  PROVE  QueryCounted'
<1>1. Released' = Released BY DEF Released
<1> QED BY <1>1 DEF QueryCounted

LEMMA WaitingQueries ==
  ASSUME NEW g \in WarpGroups, wg'[g] = wg[g]
  PROVE  QueryReleases(g)' = QueryReleases(g) /\ QueryWaits(g)' = QueryWaits(g)
  BY DEF QueryReleases, QueryWaits

LEMMA ProducerKeepsQuery ==
  ASSUME Places, QueryCounted, Producer
  PROVE  QueryCounted'
<1>1. wg' = wg /\ TypeOK BY ProducerStaysPlaced, ProducerFacts
<1>2. \A g \in WarpGroups : QueryReleases(g)' = QueryReleases(g) /\ QueryWaits(g)' = QueryWaits(g)
  BY <1>1, WaitingQueries
<1>3. producer.work_idx \in Nat BY ProducerFacts
<1>4. CASE LoadQ
  <2>1. /\ QueryLoads' = QueryLoads + 1 /\ QueryLoads \in Nat
    BY <1>3, <1>4, LoadQMoves DEF ProducerMoves, QueryLoads
  <2>2. /\ query'.load = producer.tile /\ query'.completed = query.completed
        /\ named'.queryEmpty = 0
    BY <1>1, <1>4 DEF LoadQ, TypeOK
  <2>3. query'.load # NoBlock
    <3>1. producer.tile \in Nat BY ProducerFacts
    <3> QED BY <2>2, <3>1
  <2>4. Released = WarpGroups
    <3>1. Cardinality(Released) >= NumMmaWarpGroups BY <1>4 DEF LoadQ, QueryCounted
    <3> QED BY <3>1, CountGroups, QueryTypes
  <2>5. query.completed = QueryLoads
    <3>1. QueryReleases(0) = QueryLoads + 1 BY <2>4, SomeWarpGroup DEF Released
    <3>2. wg[0].work_idx \in Nat BY PlaceFacts, SomeWarpGroup
    <3>3. QueryReleases(0) <= QueryWaits(0) + 1
      BY <2>1, <3>1, <3>2
      DEF QueryReleases, QueryWaits, AfterLoop, WithoutATile, InEpilogue
    <3>4. QueryWaits(0) <= query.completed /\ QueryWaits(0) \in Nat /\ query.completed \in Nat
      BY SomeWarpGroup, QueryTypes DEF QueryCounted
    <3>5. QueryLoads \in {query.completed, query.completed + 1} BY <3>4 DEF QueryCounted
    <3> QED BY <2>1, <3>1, <3>3, <3>4, <3>5
  <2>6. \A g \in WarpGroups : QueryReleases(g)' = QueryLoads'
    BY <1>2, <2>1, <2>4 DEF Released
  <2>7. Released' = {}
    <3>1. QueryLoads' # QueryLoads' + 1 BY <2>1
    <3> QED BY <2>6, <3>1 DEF Released
  <2>8. named'.queryEmpty = Cardinality(Released)' BY <2>2, <2>7, CountGroups
  <2> QED BY <1>2, <2>1, <2>2, <2>3, <2>5, <2>6, <2>8 DEF QueryCounted
<1>5. CASE ~LoadQ
  <2>1. query' = query /\ named' = named
    BY <1>5 DEF Producer, SkipTile, LoadFirstK, WaitO, LoadNextK, LoadPrevV, LoadLastV, LoadTail
  <2>2. QueryLoads' = QueryLoads
    BY <1>3, <1>5, SkipTileMoves, LoadFirstKMoves, WaitOMoves, LoadNextKMoves,
       LoadPrevVMoves, LoadLastVMoves, LoadTailMoves DEF Producer, ProducerMoves, QueryLoads
  <2> QED BY <1>2, <2>1, <2>2, QueryKept
<1> QED BY <1>4, <1>5

LEMMA TmaKeepsQuery ==
  ASSUME Places, QueryCounted, Tma
  PROVE  QueryCounted'
<1>1. wg' = wg /\ producer' = producer /\ named' = named BY DEF Tma, LandQ, LandK, LandV
<1>2. /\ QueryLoads' = QueryLoads
      /\ \A g \in WarpGroups : QueryReleases(g)' = QueryReleases(g) /\ QueryWaits(g)' = QueryWaits(g)
  BY <1>1, WaitingQueries DEF QueryLoads
<1>3. CASE LandQ
  <2>1. /\ query'.load = NoBlock /\ query.load # NoBlock
        /\ query'.completed = query.completed + 1
    BY <1>3 DEF LandQ
  <2>2. /\ query.completed \in Nat /\ \A g \in WarpGroups : QueryWaits(g) \in Nat
    BY QueryTypes
  <2>3. \A g \in WarpGroups : QueryWaits(g)' <= query'.completed
    BY <1>2, <2>1, <2>2 DEF QueryCounted
  <2>4. QueryLoads' = query'.completed + (IF query'.load = NoBlock THEN 0 ELSE 1)
    BY <1>2, <2>1, <2>2 DEF QueryCounted
  <2>5. Released' = Released BY <1>2 DEF Released
  <2> QED BY <1>1, <1>2, <2>3, <2>4, <2>5 DEF QueryCounted
<1>4. CASE ~LandQ
  <2>1. query' = query BY <1>4 DEF Tma, LandK, LandV
  <2> QED BY <1>1, <1>2, <2>1, QueryKept
<1> QED BY <1>3, <1>4

LEMMA SyncKeepsQuery ==
  ASSUME Places, QueryCounted, EpilogueSync
  PROVE  QueryCounted'
<1>1. producer' = producer /\ query' = query BY DEF EpilogueSync
<1>2. named'.queryEmpty = named.queryEmpty BY DEF EpilogueSync, Places, TypeOK
<1>3. ASSUME NEW g \in WarpGroups
      PROVE  QueryReleases(g)' = QueryReleases(g) /\ QueryWaits(g)' = QueryWaits(g)
  <2>1. /\ wg[g].at \in AtEpilogueSync /\ wg'[g].at \in {"arrive_O", "write_O", "read_O"}
        /\ wg'[g].work_idx = wg[g].work_idx
    BY SyncMoves DEF AtEpilogueSync
  <2> QED BY <2>1 DEF AtEpilogueSync, QueryReleases, QueryWaits, AfterLoop, InEpilogue,
             WithoutATile
<1>4. QueryLoads' = QueryLoads BY <1>1 DEF QueryLoads
<1> QED BY <1>1, <1>2, <1>3, <1>4, QueryKept

(* What the counts say of a warpgroup: its wait for Q, tested by parity,   *)
(* returns for the load it asked for, and no load is in flight while a     *)
(* gemm reads Q.                                                           *)
LEMMA QueryBounds ==
  ASSUME Places, QueryCounted, NEW g \in WarpGroups
  PROVE  /\ QueryWaits(g) <= query.completed
         /\ query.completed <= QueryLoads
         /\ QueryLoads <= QueryReleases(g) /\ QueryReleases(g) <= QueryLoads + 1
         /\ QueryLoads <= query.completed + 1
         /\ QueryLoads = query.completed => query.load = NoBlock
         /\ wg[g].at = "init" => wg[g].work_idx = 0
<1>1. /\ QueryLoads \in Nat /\ query.completed \in Nat /\ QueryReleases(g) \in Nat
  BY QueryTypes
<1>2. /\ QueryLoads = query.completed + (IF query.load = NoBlock THEN 0 ELSE 1)
      /\ QueryReleases(g) \in {QueryLoads, QueryLoads + 1}
      /\ QueryWaits(g) <= query.completed
  BY DEF QueryCounted
<1>3. wg[g].at = "init" => wg[g].work_idx = 0
  <2>1. Placed(g) /\ launch \in LaunchSpace BY PlaceFacts
  <2>2. Before(WorkCount, 1) = 0 BY <2>1, Totals
  <2> QED BY <2>1, <2>2 DEF Placed, InEpilogue
<1> QED BY <1>1, <1>2, <1>3

LEMMA ArrivalCounted ==
  ASSUME Places, QueryCounted, NEW g \in WarpGroups, QueryReleases(g) = QueryLoads,
         QueryReleases(g)' = QueryReleases(g) + 1, QueryWaits(g)' = QueryWaits(g),
         \A h \in WarpGroups : h # g => wg'[h] = wg[h],
         query' = query, QueryLoads' = QueryLoads,
         named'.queryEmpty = named.queryEmpty + 1
  PROVE  QueryCounted'
<1>1. \A h \in WarpGroups : h # g => QueryReleases(h)' = QueryReleases(h) /\ QueryWaits(h)' = QueryWaits(h)
  BY WaitingQueries
<1>2. QueryLoads \in Nat BY QueryTypes
<1>3. g \notin Released BY <1>2 DEF Released
<1>4. Released' = Released \cup {g} BY <1>1 DEF Released
<1>5. Cardinality(Released \cup {g}) = Cardinality(Released) + 1
  BY <1>3, CountGroups, QueryTypes
<1>6. named'.queryEmpty = Cardinality(Released)' BY <1>4, <1>5 DEF QueryCounted
<1>7. \A h \in WarpGroups : /\ QueryReleases(h)' \in {QueryLoads, QueryLoads + 1}
                            /\ QueryWaits(h)' <= query.completed
  BY <1>1 DEF QueryCounted
<1> QED BY <1>6, <1>7 DEF QueryCounted

LEMMA WarpGroupKeepsQuery ==
  ASSUME Places, QueryCounted, NEW g \in WarpGroups, WarpGroup(g)
  PROVE  QueryCounted'
<1>1. /\ producer' = producer /\ \A h \in WarpGroups : h # g => wg'[h] = wg[h]
  BY OnlyOneMoves
<1>2. query' = query
  BY DEF WarpGroup, Mainloop, Epilogue, MmaInit, StoreZero, WaitQ, FirstQK, FirstSoftmax,
         StepQK, StepPV, StepReleaseK, StepReleaseV, QueryDone, LastPV, LastReleaseV,
         WriteO, BeginTmaStore, EndTmaStore, ReadO, ArriveO
<1>3. QueryLoads' = QueryLoads BY <1>1 DEF QueryLoads
<1>4. /\ wg[g].work_idx \in Nat /\ QueryLoads \in Nat /\ query.completed \in Nat
      /\ QueryReleases(g) \in Nat /\ QueryWaits(g) \in Nat
  BY PlaceFacts, QueryTypes
<1>5. \A h \in WarpGroups : h # g => QueryReleases(h)' = QueryReleases(h) /\ QueryWaits(h)' = QueryWaits(h)
  BY <1>1, WaitingQueries
<1>6. TypeOK BY DEF Places
<1>7. CASE MmaInit(g)
  <2>1. wg[g].at = "init" /\ wg'[g].at = "mma" /\ wg'[g].work_idx = wg[g].work_idx
    BY <1>7, MmaInitMoves DEF Moves
  <2>2. wg[g].work_idx = 0 BY <2>1, QueryBounds
  <2>3. /\ QueryReleases(g) = 0 /\ QueryReleases(g)' = 1 /\ QueryWaits(g)' = QueryWaits(g)
    BY <2>1, <2>2 DEF QueryReleases, QueryWaits, AfterLoop, WithoutATile, InEpilogue
  <2>4. QueryReleases(g) = QueryLoads BY <1>4, <2>3, QueryBounds
  <2>5. named'.queryEmpty = named.queryEmpty + 1 BY <1>6, <1>7 DEF MmaInit, TypeOK
  <2> QED BY <1>1, <1>2, <1>3, <2>3, <2>4, <2>5, ArrivalCounted
<1>8. CASE QueryDone(g)
  <2>1. wg[g].at = "step" /\ wg'[g].at = "last_PV" /\ wg'[g].work_idx = wg[g].work_idx
    BY <1>8, QueryDoneMoves DEF Moves
  <2>2. /\ QueryReleases(g) = 1 + wg[g].work_idx /\ QueryReleases(g)' = 1 + wg[g].work_idx + 1
        /\ QueryWaits(g) = wg[g].work_idx + 1 /\ QueryWaits(g)' = QueryWaits(g)
    BY <1>4, <2>1 DEF QueryReleases, QueryWaits, AfterLoop, WithoutATile, InEpilogue
  <2>3. QueryReleases(g) = QueryLoads BY <1>4, <2>2, QueryBounds
  <2>4. named'.queryEmpty = named.queryEmpty + 1 BY <1>6, <1>8 DEF QueryDone, TypeOK
  <2>5. QueryReleases(g)' = QueryReleases(g) + 1 BY <1>4, <2>2
  <2> QED BY <1>1, <1>2, <1>3, <2>2, <2>3, <2>4, <2>5, ArrivalCounted
<1>9. CASE WaitQ(g)
  <2>1. /\ wg[g].at = "mma" /\ wg'[g].at = "first_QK" /\ wg'[g].work_idx = wg[g].work_idx
        /\ PhaseOver(query.completed, wg[g].work_idx % 2) /\ named' = named
    BY <1>9, WaitQMoves DEF Moves, WaitQ
  <2>2. /\ QueryReleases(g) = 1 + wg[g].work_idx /\ QueryReleases(g)' = QueryReleases(g)
        /\ QueryWaits(g) = wg[g].work_idx /\ QueryWaits(g)' = wg[g].work_idx + 1
    BY <1>4, <2>1 DEF QueryReleases, QueryWaits, AfterLoop, WithoutATile, InEpilogue
  <2>3. query.completed \in {wg[g].work_idx, wg[g].work_idx + 1} BY <1>4, <2>2, QueryBounds
  <2>4. query.completed = wg[g].work_idx + 1
    <3>1. R!PhaseOver(query.completed, wg[g].work_idx % 2) BY <2>1 DEF PhaseOver, R!PhaseOver
    <3> QED BY <1>4, <2>3, <3>1, SomeWarpGroup, R!ParitySeparates
  <2>5. \A h \in WarpGroups : /\ QueryReleases(h)' = QueryReleases(h)
                              /\ QueryWaits(h)' <= query.completed
    <3>1. QueryWaits(g)' <= query.completed BY <1>4, <2>2, <2>4
    <3> QED BY <1>5, <2>2, <3>1 DEF QueryCounted
  <2>6. Released' = Released BY <1>3, <2>5 DEF Released
  <2> QED BY <1>2, <1>3, <2>1, <2>5, <2>6 DEF QueryCounted
<1>10. CASE ~MmaInit(g) /\ ~QueryDone(g) /\ ~WaitQ(g)
  <2>1. QueryReleases(g)' = QueryReleases(g) /\ QueryWaits(g)' = QueryWaits(g)
    <3>1. CASE StoreZero(g)
      BY <3>1, StoreZeroMoves DEF Moves, QueryReleases, QueryWaits, AfterLoop,
         InEpilogue, WithoutATile
    <3>2. CASE FirstQK(g) \/ FirstSoftmax(g) \/ StepQK(g) \/ StepPV(g)
      BY <3>2, FirstQKMoves, FirstSoftmaxMoves, StepQKMoves, StepPVMoves
      DEF Moves, QueryReleases, QueryWaits, AfterLoop, InEpilogue, WithoutATile
    <3>3. CASE StepReleaseK(g) \/ StepReleaseV(g) \/ LastPV(g)
      BY <3>3, StepReleaseKMoves, StepReleaseVMoves, LastPVMoves
      DEF Moves, QueryReleases, QueryWaits, AfterLoop, InEpilogue, WithoutATile
    <3>4. CASE LastReleaseV(g)
      <4>1. /\ wg[g].at = "last_end" /\ wg'[g].at = "epilogue"
            /\ wg'[g].work_idx = wg[g].work_idx + 1
        BY <3>4, LastReleaseVMoves DEF Moves
      <4>2. /\ QueryReleases(g) = 1 + wg[g].work_idx + 1
            /\ QueryReleases(g)' = 1 + (wg[g].work_idx + 1) + 0
            /\ QueryWaits(g) = wg[g].work_idx + 1
            /\ QueryWaits(g)' = (wg[g].work_idx + 1) + 0
        BY <4>1 DEF QueryReleases, QueryWaits, AfterLoop, InEpilogue, WithoutATile
      <4> QED BY <1>4, <4>2
    <3>5. CASE Epilogue(g)
      BY <3>5, WriteOMoves, BeginTmaStoreMoves, EndTmaStoreMoves, ReadOMoves, ArriveOMoves
      DEF Epilogue, Moves, QueryReleases, QueryWaits, AfterLoop, InEpilogue, WithoutATile
    <3> QED BY <1>10, <3>1, <3>2, <3>3, <3>4, <3>5 DEF WarpGroup, Mainloop
  <2>2. named'.queryEmpty = named.queryEmpty
    <3>1. CASE StepQK(g) \/ StepPV(g)
      BY <1>6, <3>1 DEF StepQK, StepPV, TakeTurn, PassTurn, TypeOK
    <3>2. CASE LastReleaseV(g) BY <1>6, <3>2 DEF LastReleaseV, TypeOK
    <3>3. CASE WriteO(g) BY <1>6, <3>3 DEF WriteO, TypeOK
    <3>4. CASE BeginTmaStore(g) BY <1>6, <3>4 DEF BeginTmaStore, TypeOK
    <3> QED BY <1>10, <3>1, <3>2, <3>3, <3>4
            DEF WarpGroup, Mainloop, Epilogue, StoreZero, FirstQK, FirstSoftmax,
                StepReleaseK, StepReleaseV, LastPV, EndTmaStore, ReadO, ArriveO
  <2> QED BY <1>2, <1>3, <1>5, <2>1, <2>2, QueryKept
<1> QED BY <1>7, <1>8, <1>9, <1>10

LEMMA QueryInit ==
  ASSUME Init
  PROVE  QueryCounted
<1>1. QueryLoads = 0 BY DEF Init, QueryLoads
<1>2. \A g \in WarpGroups : QueryReleases(g) = 0 /\ QueryWaits(g) = 0
  BY DEF Init, QueryReleases, QueryWaits, WithoutATile
<1>3. Released = {} BY <1>1, <1>2 DEF Released
<1>4. query.load = NoBlock /\ query.completed = 0 /\ named.queryEmpty = 0 BY DEF Init
<1> QED BY <1>1, <1>2, <1>3, <1>4, CountGroups DEF QueryCounted

THEOREM QueriesAlways == Spec => []QueryCounted
<1>1. Init => QueryCounted BY QueryInit
<1>2. Places /\ QueryCounted /\ [Next]_vars => QueryCounted'
  <2> SUFFICES ASSUME Places, QueryCounted, [Next]_vars PROVE QueryCounted' OBVIOUS
  <2>1. CASE Exit \/ UNCHANGED vars
    <3>1. wg' = wg /\ producer' = producer /\ query' = query /\ named' = named
      BY <2>1 DEF Exit, vars
    <3>2. QueryLoads' = QueryLoads BY <3>1 DEF QueryLoads
    <3> QED BY <3>1, <3>2, WaitingQueries, QueryKept
  <2> QED BY <2>1, ProducerKeepsQuery, TmaKeepsQuery, SyncKeepsQuery,
             WarpGroupKeepsQuery DEF Next
<1> QED BY <1>1, <1>2, PlacesAlways, PTL DEF Spec

-----------------------------------------------------------------------------
(* The epilogue: its two syncs, and the hand-over to the TMA store.        *)

(* The tiles with blocks before g's.                                       *)
StoresDone(g) == Before(WorkCount, wg[g].tile)

(* How many of the epilogue's syncs g has left behind.                     *)
Syncs(g) ==
  IF launch.store = "smem"
  THEN 2 * StoresDone(g) + (IF wg[g].at \in {"write_O", "epilogue_smem"} THEN 1
                            ELSE IF wg[g].at \in {"read_O", "arrive_O"} THEN 2 ELSE 0)
  ELSE StoresDone(g) +
         (IF wg[g].at \in {"write_O", "arrive_O", "store_O", "storing_O"} THEN 1 ELSE 0)

SyncsAgree == \A g, h \in WarpGroups : Syncs(g) = Syncs(h)

(* Only the warpgroups that have written O for a TMA store not yet begun   *)
(* have arrived for it; and it does not begin before all have.             *)
StoreArrivals ==
  /\ named.store = IF wg[Storer].at \in {"write_O", "store_O"} /\ launch.store = "tma"
                   THEN {g \in WarpGroups : wg[g].at # "write_O"} ELSE {}
  /\ launch.store = "tma" =>
       \A g \in WarpGroups : wg[g].at = "write_O" => wg[Storer].at \in {"write_O", "store_O"}

LEMMA StoresDoneTypes ==
  ASSUME Places, NEW g \in WarpGroups
  PROVE  /\ StoresDone(g) \in Nat
         /\ wg[g].tile \in Tiles =>
              Before(WorkCount, wg[g].tile + 1) =
                StoresDone(g) + (IF MmaCount(wg[g].tile) > 0 THEN 1 ELSE 0)
         /\ wg[g].at \notin WithoutATile => MmaCount(wg[g].tile) > 0 /\ wg[g].tile \in Tiles
         /\ MmaCount(wg[g].tile) > 0 /\ wg[g].tile \in Tiles =>
              Before(WorkCount, wg[g].tile + 1) = StoresDone(g) + 1
<1>1. Placed(g) /\ launch \in LaunchSpace /\ StoresDone(g) \in Nat BY PlaceFacts DEF StoresDone
<1>2. wg[g].tile \in Tiles =>
        /\ MmaCount(wg[g].tile) \in Nat /\ BlockCount[wg[g].tile] = MmaCount(wg[g].tile)
        /\ MmaCount(wg[g].tile) = 0 => Before(WorkCount, wg[g].tile + 1) = StoresDone(g)
        /\ MmaCount(wg[g].tile) > 0 => Before(WorkCount, wg[g].tile + 1) = StoresDone(g) + 1
  BY <1>1, NextTotals DEF StoresDone
<1> QED BY <1>1, <1>2 DEF Placed

(* How a warpgroup's step changes its count of tiles.                      *)
LEMMA StoresMove ==
  ASSUME Places, NEW g \in WarpGroups, WarpGroup(g)
  PROVE  /\ \/ /\ ArriveO(g) \/ EndTmaStore(g) \/ (WriteO(g) /\ launch.store = "tma" /\ g # Storer)
               /\ StoresDone(g)' = StoresDone(g) + 1
               /\ wg[g].tile \in Tiles /\ wg'[g].tile = wg[g].tile + 1
               /\ wg[g].at \in InEpilogue /\ wg'[g].at = "mma"
            \/ /\ ~(ArriveO(g) \/ EndTmaStore(g))
               /\ ~(WriteO(g) /\ launch.store = "tma" /\ g # Storer)
               /\ StoresDone(g)' = StoresDone(g)
         /\ launch' = launch
         /\ \A h \in WarpGroups : h # g => wg'[h] = wg[h] /\ StoresDone(h)' = StoresDone(h)
<1>1. /\ launch' = launch /\ \A h \in WarpGroups : h # g => wg'[h] = wg[h]
  BY OnlyOneMoves
<1>2. WorkCount' = WorkCount BY <1>1, LaunchFixed
<1>3. \A h \in WarpGroups : h # g => StoresDone(h)' = StoresDone(h) BY <1>1, <1>2 DEF StoresDone
<1>4. ASSUME wg'[g].tile = wg[g].tile PROVE StoresDone(g)' = StoresDone(g)
  BY <1>2, <1>4 DEF StoresDone
<1>5. ASSUME wg[g].tile \in Tiles, wg'[g].tile = wg[g].tile + 1
      PROVE  StoresDone(g)' = StoresDone(g) + (IF MmaCount(wg[g].tile) > 0 THEN 1 ELSE 0)
  <2> DEFINE n == wg[g].tile + 1
  <2>1. Before(WorkCount, n) = StoresDone(g) + (IF MmaCount(wg[g].tile) > 0 THEN 1 ELSE 0)
    BY <1>5, StoresDoneTypes
  <2>2. wg'[g].tile = n BY <1>5
  <2> HIDE DEF n
  <2> QED BY <1>2, <2>1, <2>2 DEF StoresDone
<1>6. CASE ArriveO(g) \/ EndTmaStore(g) \/ (WriteO(g) /\ launch.store = "tma" /\ g # Storer)
  <2>1. /\ wg[g].tile \in Tiles /\ wg'[g].tile = wg[g].tile + 1
        /\ wg[g].at \in InEpilogue /\ wg'[g].at = "mma"
    BY <1>6, ArriveOMoves, EndTmaStoreMoves, WriteOMoves DEF Moves, InEpilogue
  <2>2. MmaCount(wg[g].tile) > 0 BY <2>1, StoresDoneTypes DEF InEpilogue, WithoutATile
  <2> QED BY <1>1, <1>3, <1>5, <1>6, <2>1, <2>2
<1>7. CASE StoreZero(g)
  <2>1. /\ wg[g].tile \in Tiles /\ wg'[g].tile = wg[g].tile + 1 /\ MmaCount(wg[g].tile) = 0
        /\ wg[g].at = "mma"
    BY <1>7, StoreZeroMoves DEF Moves, StoreZero
  <2>2. StoresDone(g) \in Nat BY StoresDoneTypes
  <2>3. ~ArriveO(g) /\ ~EndTmaStore(g) /\ ~WriteO(g)
    BY <2>1 DEF ArriveO, EndTmaStore, WriteO, At
  <2> QED BY <1>1, <1>3, <1>5, <2>1, <2>2, <2>3
<1>8. CASE /\ ~StoreZero(g) /\ ~ArriveO(g) /\ ~EndTmaStore(g)
           /\ ~(WriteO(g) /\ launch.store = "tma" /\ g # Storer)
  <2>1. CASE Mainloop(g)
    BY <1>1, <1>3, <1>4, <1>8, <2>1, MmaInitMoves, WaitQMoves, FirstQKMoves, FirstSoftmaxMoves,
       StepQKMoves, StepPVMoves, StepReleaseKMoves, StepReleaseVMoves, QueryDoneMoves,
       LastPVMoves, LastReleaseVMoves DEF Moves, Mainloop
  <2>2. CASE Epilogue(g)
    BY <1>1, <1>3, <1>4, <1>8, <2>2, WriteOMoves, BeginTmaStoreMoves, ReadOMoves
    DEF Moves, Epilogue
  <2> QED BY <2>1, <2>2 DEF WarpGroup
<1> QED BY <1>6, <1>7, <1>8

LEMMA WarpGroupKeepsSyncs ==
  ASSUME Places, SyncsAgree, NEW g \in WarpGroups, WarpGroup(g)
  PROVE  SyncsAgree'
<1>1. /\ launch' = launch
      /\ \A h \in WarpGroups : h # g => wg'[h] = wg[h] /\ StoresDone(h)' = StoresDone(h)
  BY StoresMove
<1>2. \A h \in WarpGroups : h # g => Syncs(h)' = Syncs(h) BY <1>1 DEF Syncs
<1>3. StoresDone(g) \in Nat /\ Equipped(g) BY StoresDoneTypes, PlaceFacts
<1>4. Syncs(g)' = Syncs(g)
  <2>1. CASE ArriveO(g)
    <3>1. /\ StoresDone(g)' = StoresDone(g) + 1 /\ wg[g].at = "arrive_O" /\ wg'[g].at = "mma"
      BY <2>1, StoresMove, ArriveOMoves
    <3> QED BY <1>1, <1>3, <3>1 DEF Syncs
  <2>2. CASE EndTmaStore(g)
    <3>1. /\ StoresDone(g)' = StoresDone(g) + 1 /\ wg[g].at = "storing_O" /\ wg'[g].at = "mma"
      BY <2>2, StoresMove, EndTmaStoreMoves
    <3>2. launch.store = "tma" BY <1>3, <3>1 DEF Equipped
    <3> QED BY <1>1, <1>3, <3>1, <3>2 DEF Syncs
  <2>3. CASE WriteO(g)
    <3>1. wg[g].at = "write_O" BY <2>3, WriteOMoves
    <3>2. CASE launch.store = "tma" /\ g # Storer
      <4>1. StoresDone(g)' = StoresDone(g) + 1 /\ wg'[g].at = "mma"
        BY <2>3, <3>1, <3>2, StoresMove
      <4> QED BY <1>1, <1>3, <3>1, <3>2, <4>1 DEF Syncs
    <3>3. CASE ~(launch.store = "tma" /\ g # Storer)
      <4>1. StoresDone(g)' = StoresDone(g)
        <5>1. ~ArriveO(g) /\ ~EndTmaStore(g) BY <3>1 DEF ArriveO, EndTmaStore, At
        <5> QED BY <3>3, <5>1, StoresMove
      <4>2. /\ launch.store = "tma" => wg'[g].at = "store_O"
            /\ launch.store # "tma" => wg'[g].at = "epilogue_smem" /\ launch.store = "smem"
        BY <1>3, <2>3, <3>1, <3>3, WriteOMoves, LaunchFields DEF Moves, Equipped,
           Places, TypeOK, LaunchSpace
      <4> QED BY <1>1, <1>3, <3>1, <4>1, <4>2 DEF Syncs
    <3> QED BY <3>2, <3>3
  <2>4. CASE ~ArriveO(g) /\ ~EndTmaStore(g) /\ ~WriteO(g)
    <3>1. StoresDone(g)' = StoresDone(g) BY <2>4, StoresMove
    <3>2. CASE Mainloop(g)
      <4>1. /\ wg'[g].at \notin {"write_O", "epilogue_smem", "read_O", "arrive_O", "store_O", "storing_O"}
            /\ wg[g].at \notin {"write_O", "epilogue_smem", "read_O", "arrive_O", "store_O", "storing_O"}
        BY <3>2, MmaInitMoves, StoreZeroMoves, WaitQMoves, FirstQKMoves, FirstSoftmaxMoves,
           StepQKMoves, StepPVMoves, StepReleaseKMoves, StepReleaseVMoves, QueryDoneMoves,
           LastPVMoves, LastReleaseVMoves DEF Moves, Mainloop
      <4> QED BY <1>1, <3>1, <4>1 DEF Syncs
    <3>3. CASE BeginTmaStore(g) \/ ReadO(g)
      <4>1. \/ wg[g].at = "store_O" /\ wg'[g].at = "storing_O"
            \/ wg[g].at = "read_O" /\ wg'[g].at = "arrive_O"
        BY <3>3, BeginTmaStoreMoves, ReadOMoves DEF Moves
      <4>2. /\ wg[g].at = "store_O" => launch.store = "tma"
            /\ wg[g].at = "read_O" => launch.store = "smem"
        BY <1>3 DEF Equipped
      <4> QED BY <1>1, <3>1, <4>1, <4>2 DEF Syncs
    <3> QED BY <2>4, <3>2, <3>3 DEF WarpGroup, Epilogue
  <2> QED BY <2>1, <2>2, <2>3, <2>4
<1>5. \A h \in WarpGroups : Syncs(h)' = Syncs(h) BY <1>2, <1>4
<1> QED BY <1>5 DEF SyncsAgree

LEMMA SyncKeepsSyncs ==
  ASSUME Places, SyncsAgree, EpilogueSync
  PROVE  SyncsAgree'
<1>1. launch' = launch /\ launch \in LaunchSpace BY DEF EpilogueSync, Places, TypeOK
<1>2. WorkCount' = WorkCount BY <1>1, LaunchFixed
<1>3. ASSUME NEW g \in WarpGroups PROVE Syncs(g)' = Syncs(g) + 1
  <2>1. /\ wg[g].at \in AtEpilogueSync /\ wg'[g].tile = wg[g].tile
        /\ wg[g].at = "epilogue" =>
             wg'[g].at = IF launch.store = "direct" THEN "arrive_O" ELSE "write_O"
        /\ wg[g].at = "epilogue_smem" => wg'[g].at \in {"arrive_O", "read_O"}
    BY SyncMoves
  <2>2. StoresDone(g)' = StoresDone(g) BY <1>2, <2>1 DEF StoresDone
  <2>3. StoresDone(g) \in Nat /\ Equipped(g) BY StoresDoneTypes, PlaceFacts
  <2>4. CASE wg[g].at = "epilogue" BY <1>1, <2>1, <2>2, <2>3, <2>4 DEF Syncs
  <2>5. CASE wg[g].at = "epilogue_smem"
    <3>1. launch.store = "smem" BY <2>3, <2>5 DEF Equipped
    <3> QED BY <1>1, <2>1, <2>2, <2>3, <2>5, <3>1 DEF Syncs
  <2> QED BY <2>1, <2>4, <2>5 DEF AtEpilogueSync
<1> QED BY <1>3 DEF SyncsAgree

LEMMA StoresKept ==
  ASSUME StoreArrivals, launch' = launch, named'.store = named.store,
         \A h \in WarpGroups : /\ wg'[h].at = "write_O" <=> wg[h].at = "write_O"
                               /\ wg'[h].at = "store_O" <=> wg[h].at = "store_O"
  PROVE  StoreArrivals'
<1>1. wg'[Storer].at \in {"write_O", "store_O"} <=> wg[Storer].at \in {"write_O", "store_O"}
  BY SomeWarpGroup
<1>2. {h \in WarpGroups : wg'[h].at # "write_O"} = {h \in WarpGroups : wg[h].at # "write_O"}
  OBVIOUS
<1> QED BY <1>1, <1>2 DEF StoreArrivals

LEMMA WriteOKeepsStores ==
  ASSUME Places, StoreArrivals, NEW g \in WarpGroups, WriteO(g)
  PROVE  StoreArrivals'
<1>1. /\ launch' = launch /\ wg[g].at = "write_O" /\ \A h \in WarpGroups : h # g => wg'[h] = wg[h]
  BY OnlyOneMoves, WriteOMoves DEF WarpGroup, Epilogue
<1>2. TypeOK BY DEF Places
<1>3. CASE launch.store = "tma"
  <2>1. named'.store = named.store \cup {g} BY <1>2, <1>3 DEF WriteO, TypeOK
  <2>2. /\ wg[Storer].at \in {"write_O", "store_O"}
        /\ named.store = {h \in WarpGroups : wg[h].at # "write_O"}
    BY <1>1, <1>3 DEF StoreArrivals
  <2>3. wg'[g].at # "write_O" /\ (g = Storer => wg'[g].at = "store_O")
    BY <1>3, WriteOMoves DEF Moves
  <2>4. wg'[Storer].at \in {"write_O", "store_O"} BY <1>1, <2>2, <2>3, SomeWarpGroup
  <2>5. named'.store = {h \in WarpGroups : wg'[h].at # "write_O"} BY <1>1, <2>1, <2>2, <2>3
  <2> QED BY <1>1, <1>3, <2>4, <2>5 DEF StoreArrivals
<1>4. CASE launch.store # "tma"
  <2>1. named'.store = named.store BY <1>2, <1>4 DEF WriteO, TypeOK
  <2> QED BY <1>1, <1>4, <2>1 DEF StoreArrivals
<1> QED BY <1>3, <1>4

LEMMA WarpGroupKeepsStores ==
  ASSUME Places, StoreArrivals, NEW g \in WarpGroups, WarpGroup(g)
  PROVE  StoreArrivals'
<1>1. /\ launch' = launch /\ \A h \in WarpGroups : h # g => wg'[h] = wg[h]
  BY OnlyOneMoves
<1>2. TypeOK /\ Equipped(g) BY PlaceFacts
<1>3. CASE BeginTmaStore(g)
  <2>1. /\ wg[g].at = "store_O" /\ wg'[g].at = "storing_O" BY <1>3, BeginTmaStoreMoves DEF Moves
  <2>2. g = Storer /\ launch.store = "tma" BY <1>2, <2>1 DEF Equipped
  <2>3. named.store = WarpGroups /\ named'.store = {} BY <1>2, <1>3 DEF BeginTmaStore, TypeOK
  <2>4. \A h \in WarpGroups : wg[h].at # "write_O" BY <2>1, <2>2, <2>3 DEF StoreArrivals
  <2>5. \A h \in WarpGroups : wg'[h].at # "write_O" BY <1>1, <2>1, <2>4
  <2> QED BY <1>1, <2>1, <2>2, <2>3, <2>5 DEF StoreArrivals
<1>4. CASE ~BeginTmaStore(g) /\ ~WriteO(g)
  <2>1. /\ wg[g].at \notin {"write_O", "store_O"} /\ wg'[g].at \notin {"write_O", "store_O"}
    <3>1. CASE Mainloop(g)
      BY <3>1, MmaInitMoves, StoreZeroMoves, WaitQMoves, FirstQKMoves, FirstSoftmaxMoves,
         StepQKMoves, StepPVMoves, StepReleaseKMoves, StepReleaseVMoves, QueryDoneMoves,
         LastPVMoves, LastReleaseVMoves DEF Moves, Mainloop
    <3>2. CASE Epilogue(g)
      BY <1>4, <3>2, EndTmaStoreMoves, ReadOMoves, ArriveOMoves DEF Moves, Epilogue
    <3> QED BY <3>1, <3>2 DEF WarpGroup
  <2>2. named'.store = named.store
    <3>1. CASE StepQK(g) \/ StepPV(g)
      BY <1>2, <3>1 DEF StepQK, StepPV, TakeTurn, PassTurn, TypeOK
    <3>2. CASE LastReleaseV(g) BY <1>2, <3>2 DEF LastReleaseV, TypeOK
    <3>3. CASE MmaInit(g) BY <1>2, <3>3 DEF MmaInit, TypeOK
    <3>4. CASE QueryDone(g) BY <1>2, <3>4 DEF QueryDone, TypeOK
    <3> QED BY <1>4, <3>1, <3>2, <3>3, <3>4
            DEF WarpGroup, Mainloop, Epilogue, StoreZero, WaitQ, FirstQK, FirstSoftmax,
                StepReleaseK, StepReleaseV, LastPV, EndTmaStore, ReadO, ArriveO
  <2>3. \A h \in WarpGroups : /\ wg'[h].at = "write_O" <=> wg[h].at = "write_O"
                              /\ wg'[h].at = "store_O" <=> wg[h].at = "store_O"
    BY <1>1, <2>1
  <2> QED BY <1>1, <2>2, <2>3, StoresKept
<1> QED BY <1>3, <1>4, WriteOKeepsStores

LEMMA SyncKeepsStores ==
  ASSUME Places, StoreArrivals, EpilogueSync
  PROVE  StoreArrivals'
<1>1. launch' = launch /\ TypeOK BY DEF EpilogueSync, Places
<1>2. wg[Storer].at \in AtEpilogueSync BY SyncMoves, SomeWarpGroup
<1>3. named.store = {} BY <1>2 DEF StoreArrivals, AtEpilogueSync
<1>4. named'.store = {} BY <1>1, <1>3 DEF EpilogueSync, TypeOK
<1>5. ASSUME launch.store = "tma", NEW h \in WarpGroups PROVE wg'[h].at = "write_O"
  <2>1. Equipped(h) BY PlaceFacts
  <2>2. wg[h].at = "epilogue" BY <1>5, <2>1, SyncMoves DEF Equipped, AtEpilogueSync
  <2> QED BY <1>5, <2>2, SyncMoves
<1>6. CASE launch.store = "tma"
  <2>1. {h \in WarpGroups : wg'[h].at # "write_O"} = {} BY <1>5, <1>6
  <2> QED BY <1>1, <1>4, <1>5, <1>6, <2>1, SomeWarpGroup DEF StoreArrivals
<1>7. CASE launch.store # "tma" BY <1>1, <1>4, <1>7 DEF StoreArrivals
<1> QED BY <1>6, <1>7

LEMMA OthersKeepStores ==
  ASSUME Places, SyncsAgree, StoreArrivals, Producer \/ Tma \/ Exit \/ UNCHANGED vars
  PROVE  SyncsAgree' /\ StoreArrivals' /\ \A g \in WarpGroups : StoresDone(g)' = StoresDone(g)
<1>1. wg' = wg /\ launch' = launch
  <2>1. CASE Producer
    BY <2>1 DEF Producer, SkipTile, LoadFirstK, LoadQ, WaitO, LoadNextK, LoadPrevV,
       LoadLastV, LoadTail
  <2>2. CASE Tma BY <2>2 DEF Tma, LandQ, LandK, LandV
  <2> QED BY <2>1, <2>2 DEF Exit, vars
<1>2. named'.store = named.store
  <2>1. CASE LoadQ BY <2>1 DEF LoadQ, Places, TypeOK
  <2>2. CASE Producer /\ ~LoadQ
    BY <2>2 DEF Producer, SkipTile, LoadFirstK, WaitO, LoadNextK, LoadPrevV, LoadLastV, LoadTail
  <2>3. CASE Tma BY <2>3 DEF Tma, LandQ, LandK, LandV
  <2> QED BY <2>1, <2>2, <2>3 DEF Exit, vars
<1>3. WorkCount' = WorkCount BY <1>1, LaunchFixed
<1>4. \A g \in WarpGroups : StoresDone(g)' = StoresDone(g) BY <1>1, <1>3 DEF StoresDone
<1>5. \A g \in WarpGroups : Syncs(g)' = Syncs(g) BY <1>1, <1>4 DEF Syncs
<1> QED BY <1>1, <1>2, <1>4, <1>5, StoresKept DEF SyncsAgree

(* Always: the warpgroups have left the same number of epilogue syncs, and *)
(* EpilogueBarrier's other use counts the warpgroups that wrote their O.   *)
THEOREM EpilogueAlways == Spec => [](SyncsAgree /\ StoreArrivals)
<1>1. Init => SyncsAgree /\ StoreArrivals
  <2> SUFFICES ASSUME Init PROVE SyncsAgree /\ StoreArrivals OBVIOUS
  <2>1. \A g \in WarpGroups : wg[g].at = "init" /\ wg[g].tile = 1 BY DEF Init
  <2>2. \A g, h \in WarpGroups : Syncs(g) = Syncs(h) BY <2>1 DEF Syncs, StoresDone
  <2>3. named.store = {} BY DEF Init
  <2> QED BY <2>1, <2>2, <2>3, SomeWarpGroup DEF SyncsAgree, StoreArrivals
<1>2. Places /\ SyncsAgree /\ StoreArrivals /\ [Next]_vars => (SyncsAgree /\ StoreArrivals)'
  BY OthersKeepStores, SyncKeepsSyncs, SyncKeepsStores, WarpGroupKeepsSyncs,
     WarpGroupKeepsStores
  DEF Next
<1> QED BY <1>1, <1>2, PlacesAlways, PTL DEF Spec

-----------------------------------------------------------------------------
(* barrier_O: the tiles whose O is stored, and how far the producer goes.  *)

(* The warpgroups that have arrived in barrier_O's current phase.          *)
ArrivedAtO == {g \in WarpGroups : StoresDone(g) = barrier_O.completed + 1}

StoresCounted ==
  IF launch.store = "tma"
  THEN barrier_O.completed = StoresDone(Storer) /\ barrier_O.arrived = 0
  ELSE /\ \A g \in WarpGroups :
            StoresDone(g) = barrier_O.completed \/ StoresDone(g) = barrier_O.completed + 1
       /\ barrier_O.arrived = Cardinality(ArrivedAtO)
       /\ ArrivedAtO # WarpGroups

(* The producer begins to load V of a tile when O of the one before it is  *)
(* stored, and nobody stores O of a tile whose V is still to be loaded.    *)
OBehind ==
  /\ producer.work_idx = barrier_O.completed \/ producer.work_idx = barrier_O.completed + 1
  /\ producer.at \in {"load_K", "load_V"} => producer.work_idx = barrier_O.completed

LEMMA WritePosition ==
  ASSUME Places
  PROVE  /\ WriteV \in PipelineState /\ R!Pos(WriteV) \in Nat
         /\ Before(BlockCount, producer.tile) <= R!Pos(WriteV)
         /\ producer.at \in {"load_K", "load_V"} =>
              /\ producer.tile \in Tiles
              /\ R!Pos(WriteV) < Before(BlockCount, producer.tile + 1)
         /\ producer.at \notin {"load_K", "load_V"} =>
              R!Pos(WriteV) = Before(BlockCount, producer.tile)
<1> DEFINE t == producer.tile
           b == Before(BlockCount, t)
<1>1. /\ ProducerPlaced /\ launch \in LaunchSpace /\ producer.i \in Nat /\ b \in Nat
      /\ producer.write \in PipelineState /\ producer.write_v \in PipelineState
      /\ R!Pos(producer.write) \in Nat
  BY ProducerFacts
<1>2. WriteV \in PipelineState /\ R!Pos(WriteV) \in Nat BY <1>1, NextPosition DEF WriteV
<1>3. CASE producer.at \in {"load_K", "load_V"}
  <2>1. t \in Tiles /\ producer.i \in 1 .. BlockCount[t]
    BY <1>1, <1>3, NextTotals DEF ProducerPlaced
  <2>2. Before(BlockCount, t + 1) = b + MmaCount(t) /\ BlockCount[t] = MmaCount(t) /\ MmaCount(t) \in Nat
    BY <1>1, <2>1, NextTotals
  <2>3. R!Pos(WriteV) = b + producer.i - 1 BY <1>1, <1>3 DEF ProducerPlaced, WriteV
  <2> QED BY <1>1, <1>2, <1>3, <2>1, <2>2, <2>3
<1>4. CASE producer.at \notin {"load_K", "load_V"}
  BY <1>1, <1>2, <1>4 DEF ProducerPlaced, WriteV
<1> QED BY <1>3, <1>4

(* All of a tile's V was issued, and its work counted, before a warpgroup  *)
(* comes to its epilogue.                                                  *)
LEMMA ProducerIsLater ==
  ASSUME Places, VIsRing, NEW g \in WarpGroups, wg[g].at \in InEpilogue
  PROVE  StoresDone(g) + 1 <= producer.work_idx
<1> DEFINE t == wg[g].tile
           u == producer.tile
           n == t + 1
           m == u + 1
<1>1. /\ Placed(g) /\ launch \in LaunchSpace /\ ProducerPlaced
      /\ t \in Nat /\ u \in Nat /\ n \in Nat /\ m \in Nat /\ StoresDone(g) \in Nat
  <2>1. Placed(g) /\ launch \in LaunchSpace /\ t \in Nat BY PlaceFacts
  <2>2. ProducerPlaced /\ u \in Nat BY ProducerFacts
  <2> QED BY <2>1, <2>2, StoresDoneTypes
<1>2. t \in Tiles /\ BlockCount[t] > 0 BY <1>1 DEF Placed, InEpilogue, WithoutATile
<1>3. /\ MmaCount(t) \in Nat /\ BlockCount[t] = MmaCount(t)
      /\ Before(BlockCount, n) = Before(BlockCount, t) + MmaCount(t)
      /\ Before(WorkCount, n) = StoresDone(g) + 1
  BY <1>1, <1>2, NextTotals DEF StoresDone
<1>4. R!Pos(ReadV(g)) = Before(BlockCount, n) BY <1>3, ReadPositions
<1>5. R!Pos(ReadV(g)) <= R!Pos(WriteV)
  BY SomeWarpGroup, R!ConsumersBehind, PositionOf DEF VIsRing
<1>6. Before(BlockCount, n) <= R!Pos(WriteV) BY <1>4, <1>5
<1>7. n <= u
  <2> SUFFICES ASSUME u <= t PROVE FALSE BY <1>1
  <2>1. /\ Before(BlockCount, u) <= Before(BlockCount, t) BY <1>1, LaterTotals
  <2>2. /\ Before(BlockCount, u) \in Nat /\ Before(BlockCount, t) \in Nat
        /\ Before(BlockCount, n) \in Nat /\ Before(BlockCount, m) \in Nat
        /\ R!Pos(WriteV) \in Nat
    BY <1>1, Totals, WritePosition
  <2>3. CASE producer.at \notin {"load_K", "load_V"}
    <3>1. R!Pos(WriteV) = Before(BlockCount, u) BY <2>3, WritePosition
    <3> QED BY <1>2, <1>3, <1>6, <2>1, <2>2, <3>1
  <2>4. CASE producer.at \in {"load_K", "load_V"}
    <3>1. R!Pos(WriteV) < Before(BlockCount, m) BY <2>4, WritePosition
    <3>2. m <= n BY <1>1
    <3>3. Before(BlockCount, m) <= Before(BlockCount, n) BY <1>1, <3>2, LaterTotals
    <3> QED BY <1>6, <2>2, <3>1, <3>3
  <2> QED BY <2>3, <2>4
<1>8. Before(WorkCount, n) <= Before(WorkCount, u) BY <1>1, <1>7, LaterTotals
<1>9. producer.work_idx = Before(WorkCount, u) BY <1>1 DEF ProducerPlaced
<1> QED BY <1>3, <1>8, <1>9

(* Somebody has still to arrive, and nobody arrives twice in a phase.      *)
LEMMA FirstArrival ==
  ASSUME Places, SyncsAgree, StoresCounted, launch.store # "tma",
         NEW g \in WarpGroups, wg[g].at = "arrive_O"
  PROVE  StoresDone(g) = barrier_O.completed
<1>1. PICK h \in WarpGroups : StoresDone(h) # barrier_O.completed + 1
  BY DEF StoresCounted, ArrivedAtO
<1>2. StoresDone(h) = barrier_O.completed BY <1>1 DEF StoresCounted
<1>3. Syncs(g) = Syncs(h) BY DEF SyncsAgree
<1>4. StoresDone(g) \in Nat /\ StoresDone(h) \in Nat BY StoresDoneTypes
<1>5. launch.store \in {"smem", "direct"} BY LaunchFields DEF Places, TypeOK
<1>6. StoresDone(g) <= StoresDone(h)
  <2>1. CASE launch.store = "smem"
    <3>1. Syncs(g) = 2 * StoresDone(g) + 2 BY <2>1 DEF Syncs
    <3>2. Syncs(h) <= 2 * StoresDone(h) + 2 BY <1>4, <2>1 DEF Syncs
    <3> QED BY <1>3, <1>4, <3>1, <3>2
  <2>2. CASE launch.store = "direct"
    <3>1. Syncs(g) = StoresDone(g) + 1 BY <2>2 DEF Syncs
    <3>2. Syncs(h) <= StoresDone(h) + 1 BY <1>4, <2>2 DEF Syncs
    <3> QED BY <1>3, <1>4, <3>1, <3>2
  <2> QED BY <1>5, <2>1, <2>2
<1>7. StoresDone(g) = barrier_O.completed \/ StoresDone(g) = barrier_O.completed + 1
  BY DEF StoresCounted
<1> QED BY <1>2, <1>4, <1>6, <1>7

LEMMA StoresStay ==
  ASSUME StoresCounted, launch' = launch, barrier_O' = barrier_O,
         \A g \in WarpGroups : StoresDone(g)' = StoresDone(g)
  PROVE  StoresCounted'
<1>1. ArrivedAtO' = ArrivedAtO BY DEF ArrivedAtO
<1>2. StoresDone(Storer)' = StoresDone(Storer) BY SomeWarpGroup
<1> QED BY <1>1, <1>2 DEF StoresCounted

(* O of a tile is stored: one more arrival, or the phase is over.          *)
LEMMA ArriveOCounted ==
  ASSUME Places, VIsRing, SyncsAgree, StoresCounted, OBehind, NEW g \in WarpGroups, ArriveO(g)
  PROVE  StoresCounted' /\ OBehind'
<1> DEFINE c == barrier_O.completed
           a == barrier_O.arrived
<1>1. /\ wg[g].at = "arrive_O" /\ StoresDone(g)' = StoresDone(g) + 1 /\ launch' = launch
      /\ producer' = producer /\ \A h \in WarpGroups : h # g => StoresDone(h)' = StoresDone(h)
  BY ArriveOMoves, StoresMove, OnlyOneMoves DEF WarpGroup, Epilogue
<1>2. launch.store # "tma" BY <1>1, PlaceFacts DEF Equipped
<1>3. StoresDone(g) = c BY <1>1, <1>2, FirstArrival
<1>4. /\ c \in Nat /\ a \in Nat /\ producer.work_idx \in Nat
      /\ barrier_O = [arrived |-> a, completed |-> c]
  <2>1. barrier_O \in [arrived : Nat, completed : Nat] BY DEF Places, TypeOK
  <2> QED BY <2>1, ProducerFacts
<1>5. c + 1 <= producer.work_idx
  <2>1. wg[g].at \in InEpilogue BY <1>1 DEF InEpilogue
  <2> QED BY <1>3, <2>1, ProducerIsLater
<1>6. /\ a = Cardinality(ArrivedAtO) /\ ArrivedAtO # WarpGroups
      /\ \A h \in WarpGroups : StoresDone(h) = c \/ StoresDone(h) = c + 1
  BY <1>2 DEF StoresCounted
<1>7. g \notin ArrivedAtO BY <1>3, <1>4 DEF ArrivedAtO
<1>8. Cardinality(ArrivedAtO \cup {g}) = a + 1
  <2>1. ArrivedAtO \in SUBSET WarpGroups BY DEF ArrivedAtO
  <2> QED BY <1>6, <1>7, <2>1, CountGroups
<1>9. CASE a + 1 = NumMmaWarpGroups
  <2>1. ArrivedAtO \cup {g} = WarpGroups
    <3>1. ArrivedAtO \cup {g} \in SUBSET WarpGroups BY DEF ArrivedAtO
    <3>2. Cardinality(ArrivedAtO \cup {g}) >= NumMmaWarpGroups BY <1>8, <1>9
    <3> QED BY <3>1, <3>2, CountGroups
  <2>2. \A h \in WarpGroups : StoresDone(h)' = c + 1
    <3> SUFFICES ASSUME NEW h \in WarpGroups PROVE StoresDone(h)' = c + 1 OBVIOUS
    <3>1. CASE h = g BY <1>1, <1>3, <3>1
    <3>2. CASE h # g BY <1>1, <2>1, <3>2 DEF ArrivedAtO
    <3> QED BY <3>1, <3>2
  <2>3. barrier_O' = [arrived |-> 0, completed |-> c + 1]
    BY <1>2, <1>9 DEF ArriveO, ArrivedO, BarrierOCount
  <2>4. barrier_O'.completed = c + 1 /\ barrier_O'.arrived = 0 BY <2>3
  <2>5. ArrivedAtO' = {}
    <3>1. c + 1 # (c + 1) + 1 BY <1>4
    <3> QED BY <2>2, <2>4, <3>1 DEF ArrivedAtO
  <2>6. StoresCounted' BY <1>1, <1>2, <2>2, <2>4, <2>5, CountGroups, SomeWarpGroup
                          DEF StoresCounted
  <2>7. OBehind' BY <1>1, <1>4, <1>5, <2>4 DEF OBehind
  <2> QED BY <2>6, <2>7
<1>10. CASE a + 1 # NumMmaWarpGroups
  <2>1. barrier_O' = [barrier_O EXCEPT !.arrived = a + 1]
    BY <1>2, <1>10 DEF ArriveO, ArrivedO, BarrierOCount
  <2>2. barrier_O'.completed = c /\ barrier_O'.arrived = a + 1 BY <1>4, <2>1
  <2>3. ArrivedAtO' = ArrivedAtO \cup {g}
    <3>1. \A h \in WarpGroups : StoresDone(h)' = c + 1 <=> (StoresDone(h) = c + 1 \/ h = g)
      BY <1>1, <1>3
    <3> QED BY <2>2, <3>1 DEF ArrivedAtO
  <2>4. ArrivedAtO' # WarpGroups BY <1>8, <1>10, <2>3, CountGroups
  <2>5. \A h \in WarpGroups : StoresDone(h)' = c \/ StoresDone(h)' = c + 1 BY <1>1, <1>3, <1>6
  <2>6. StoresCounted' BY <1>1, <1>2, <1>8, <2>2, <2>3, <2>4, <2>5 DEF StoresCounted
  <2>7. OBehind' BY <1>1, <2>2 DEF OBehind
  <2> QED BY <2>6, <2>7
<1> QED BY <1>9, <1>10

LEMMA EndTmaStoreCounted ==
  ASSUME Places, VIsRing, StoresCounted, OBehind, NEW g \in WarpGroups, EndTmaStore(g)
  PROVE  StoresCounted' /\ OBehind'
<1> DEFINE c == barrier_O.completed
<1>1. /\ wg[g].at = "storing_O" /\ StoresDone(g)' = StoresDone(g) + 1 /\ launch' = launch
      /\ producer' = producer
  BY EndTmaStoreMoves, StoresMove, OnlyOneMoves DEF WarpGroup, Epilogue
<1>2. launch.store = "tma" /\ g = Storer BY <1>1, PlaceFacts DEF Equipped
<1>3. StoresDone(g) = c /\ barrier_O.arrived = 0 BY <1>2 DEF StoresCounted
<1>4. barrier_O' = [arrived |-> 0, completed |-> c + 1]
  BY <1>2, <1>3 DEF EndTmaStore, ArrivedO, BarrierOCount
<1>5. barrier_O'.completed = c + 1 /\ barrier_O'.arrived = 0 BY <1>4
<1>6. c + 1 <= producer.work_idx
  <2>1. wg[g].at \in InEpilogue BY <1>1 DEF InEpilogue
  <2> QED BY <1>3, <2>1, ProducerIsLater
<1>7. StoresCounted'
  <2>1. StoresDone(Storer)' = c + 1 BY <1>1, <1>2, <1>3
  <2> QED BY <1>1, <1>2, <1>5, <2>1 DEF StoresCounted
<1>8. c \in Nat /\ producer.work_idx \in Nat BY ProducerFacts DEF TypeOK
<1>9. OBehind' BY <1>1, <1>5, <1>6, <1>8 DEF OBehind
<1> QED BY <1>7, <1>9

LEMMA WarpGroupKeepsStored ==
  ASSUME Places, VIsRing, SyncsAgree, StoresCounted, OBehind, NEW g \in WarpGroups, WarpGroup(g)
  PROVE  StoresCounted' /\ OBehind'
<1>1. CASE ~ArriveO(g) /\ ~EndTmaStore(g)
  <2>1. launch' = launch /\ producer' = producer BY OnlyOneMoves
  <2>2. barrier_O' = barrier_O
    BY <1>1 DEF WarpGroup, Mainloop, Epilogue, MmaInit, StoreZero, WaitQ, FirstQK, FirstSoftmax,
         StepQK, StepPV, StepReleaseK, StepReleaseV, QueryDone, LastPV, LastReleaseV,
         WriteO, BeginTmaStore, ReadO
  <2>3. OBehind' BY <2>1, <2>2 DEF OBehind
  <2>4. CASE WriteO(g) /\ launch.store = "tma" /\ g # Storer
    <3>1. StoresDone(Storer)' = StoresDone(Storer) BY <2>4, StoresMove, SomeWarpGroup
    <3> QED BY <2>1, <2>2, <2>3, <2>4, <3>1 DEF StoresCounted
  <2>5. CASE ~(WriteO(g) /\ launch.store = "tma" /\ g # Storer)
    <3>1. \A h \in WarpGroups : StoresDone(h)' = StoresDone(h) BY <1>1, <2>5, StoresMove
    <3> QED BY <2>1, <2>2, <2>3, <3>1, StoresStay
  <2> QED BY <2>4, <2>5
<1> QED BY <1>1, ArriveOCounted, EndTmaStoreCounted

LEMMA ProducerKeepsStored ==
  ASSUME Places, SyncsAgree, StoreArrivals, StoresCounted, OBehind, Producer
  PROVE  StoresCounted' /\ OBehind'
<1>1. barrier_O' = barrier_O /\ launch' = launch
  BY DEF Producer, SkipTile, LoadFirstK, LoadQ, WaitO, LoadNextK, LoadPrevV, LoadLastV, LoadTail
<1>2. StoresCounted' BY <1>1, OthersKeepStores, StoresStay
<1>3. /\ producer.work_idx \in Nat /\ barrier_O.completed \in Nat BY ProducerFacts DEF TypeOK
<1>4. CASE SkipTile \/ LoadFirstK \/ LoadQ \/ LoadTail
  <2>1. producer'.at \in {"tile", "load_Q", "wait_O", "done"}
        /\ producer'.work_idx = producer.work_idx
    BY <1>4, SkipTileMoves, LoadFirstKMoves, LoadQMoves, LoadTailMoves DEF ProducerMoves
  <2> QED BY <1>1, <1>2, <2>1 DEF OBehind
<1>5. CASE WaitO
  <2>1. R!PhaseOver(barrier_O.completed, (producer.work_idx + 1) % 2)
    BY <1>5 DEF WaitO, OFree, PhaseOver, R!PhaseOver
  <2>2. producer.work_idx \in {barrier_O.completed, barrier_O.completed + 1} BY DEF OBehind
  <2>3. producer.work_idx = barrier_O.completed
    BY <1>3, <2>1, <2>2, SomeWarpGroup, R!ParitySeparates
  <2> QED BY <1>1, <1>2, <1>5, <2>3, WaitOMoves DEF ProducerMoves, OBehind
<1>6. CASE LoadNextK \/ LoadPrevV
  BY <1>1, <1>2, <1>6, LoadNextKMoves, LoadPrevVMoves DEF ProducerMoves, OBehind
<1>7. CASE LoadLastV
  <2>1. /\ producer.at = "load_K" /\ producer'.at = "tile"
        /\ producer'.work_idx = producer.work_idx + 1
    BY <1>7, LoadLastVMoves DEF ProducerMoves
  <2> QED BY <1>1, <1>2, <2>1 DEF OBehind
<1> QED BY <1>2, <1>4, <1>5, <1>6, <1>7 DEF Producer

LEMMA OthersKeepStored ==
  ASSUME Places, SyncsAgree, StoreArrivals, StoresCounted, OBehind, Tma \/ Exit \/ UNCHANGED vars
  PROVE  StoresCounted' /\ OBehind'
<1>1. barrier_O' = barrier_O /\ launch' = launch /\ producer' = producer
  BY DEF Tma, LandQ, LandK, LandV, Exit, vars
<1>2. OBehind' BY <1>1 DEF OBehind
<1> QED BY <1>1, <1>2, OthersKeepStores, StoresStay

LEMMA SyncKeepsStored ==
  ASSUME Places, StoresCounted, OBehind, EpilogueSync
  PROVE  StoresCounted' /\ OBehind'
<1>1. barrier_O' = barrier_O /\ launch' = launch /\ producer' = producer BY DEF EpilogueSync
<1>2. WorkCount' = WorkCount BY <1>1, LaunchFixed
<1>3. \A g \in WarpGroups : StoresDone(g)' = StoresDone(g) BY <1>2, SyncMoves DEF StoresDone
<1>4. OBehind' BY <1>1 DEF OBehind
<1> QED BY <1>1, <1>3, <1>4, StoresStay

(* Always: barrier_O has completed a phase for every tile all warpgroups   *)
(* have stored, and the producer is at most one such tile ahead.           *)
THEOREM StoresAlways == Spec => [](StoresCounted /\ OBehind)
<1>1. Init => StoresCounted /\ OBehind
  <2> SUFFICES ASSUME Init PROVE StoresCounted /\ OBehind OBVIOUS
  <2>1. /\ barrier_O.completed = 0 /\ barrier_O.arrived = 0 /\ producer.work_idx = 0
        /\ \A g \in WarpGroups : wg[g].tile = 1
    BY DEF Init
  <2>2. Before(WorkCount, 1) = 0
    <3>1. launch \in LaunchSpace BY LaunchesAssumption DEF Init
    <3> QED BY <3>1, Totals
  <2>3. \A g \in WarpGroups : StoresDone(g) = 0 BY <2>1, <2>2 DEF StoresDone
  <2>4. ArrivedAtO = {} BY <2>1, <2>3 DEF ArrivedAtO
  <2> QED BY <2>1, <2>3, <2>4, SomeWarpGroup, CountGroups DEF StoresCounted, OBehind
<1>2. Places /\ VIsRing /\ (SyncsAgree /\ StoreArrivals) /\ (StoresCounted /\ OBehind) /\ [Next]_vars
        => (StoresCounted /\ OBehind)'
  <2> SUFFICES ASSUME Places, VIsRing, SyncsAgree, StoreArrivals, StoresCounted, OBehind,
                      [Next]_vars
               PROVE  StoresCounted' /\ OBehind'
    OBVIOUS
  <2>1. CASE Tma \/ Exit \/ UNCHANGED vars BY <2>1, OthersKeepStored
  <2>2. CASE Producer BY <2>2, ProducerKeepsStored
  <2>3. CASE EpilogueSync BY <2>3, SyncKeepsStored
  <2>4. ASSUME NEW g \in WarpGroups, WarpGroup(g) PROVE StoresCounted' /\ OBehind'
    BY <2>4, WarpGroupKeepsStored
  <2> QED BY <2>1, <2>2, <2>3, <2>4 DEF Next
<1> QED BY <1>1, <1>2, PlacesAlways, RingsAlways, EpilogueAlways, PTL DEF Spec

-----------------------------------------------------------------------------
(* Nothing is left for the producer's exit.                                *)

Drained ==
  producer.at = "done" =>
    /\ barrier_O.completed = producer.work_idx
    /\ \A s \in Stages : /\ kpipe.load[s] = NoBlock /\ kpipe.full[s] = kpipe.empty[s]
                         /\ vpipe.load[s] = NoBlock /\ vpipe.full[s] = vpipe.empty[s]

(* The stage a gemm reads has no copy in flight and is not released.       *)
LEMMA HeldStage ==
  ASSUME NEW p, NEW w, NEW r, NEW reading, R!Ring(p, w, r, reading, Block), NEW c \in reading
  PROVE  /\ c \in WarpGroups /\ r[c].index \in Stages
         /\ p.load[r[c].index] = NoBlock
         /\ p.full[r[c].index] # p.empty[r[c].index]
<1>1. /\ c \in WarpGroups /\ r[c] \in PipelineState /\ r[c].lap < p.full[r[c].index]
  BY SameOperators DEF R!Ring, R!Counted, R!ReadersSawFull
<1>2. r[c].lap \in Nat /\ r[c].index \in Stages BY <1>1 DEF PipelineState
<1>3. /\ p.full[r[c].index] = r[c].lap + 1 /\ p.empty[r[c].index] = r[c].lap
      /\ p.load[r[c].index] = NoBlock
  BY <1>1, SomeWarpGroup, R!ReadStageIsHeld
<1> QED BY <1>1, <1>2, <1>3

LEMMA ReadStagesHeld ==
  ASSUME KIsRing, VIsRing, NEW g \in WarpGroups
  PROVE  /\ ReadingQK(g) => /\ ReadK(g) = wg[g].read /\ wg[g].read.index \in Stages
                            /\ kpipe.load[wg[g].read.index] = NoBlock
                            /\ kpipe.full[wg[g].read.index] # kpipe.empty[wg[g].read.index]
         /\ g \in VReaders => /\ ReadV(g).index \in Stages
                              /\ vpipe.load[ReadV(g).index] = NoBlock
                              /\ vpipe.full[ReadV(g).index] # vpipe.empty[ReadV(g).index]
<1>1. ASSUME ReadingQK(g)
      PROVE  /\ ReadK(g) = wg[g].read /\ wg[g].read.index \in Stages
             /\ kpipe.load[wg[g].read.index] = NoBlock
             /\ kpipe.full[wg[g].read.index] # kpipe.empty[wg[g].read.index]
  <2>1. g \in KReaders BY <1>1 DEF KReaders
  <2>2. ReadK(g) = wg[g].read BY <1>1 DEF ReadingQK, ReadK
  <2>3. KPositions[g] = wg[g].read BY <2>2, PositionOf
  <2>4. /\ KPositions[g].index \in Stages /\ kpipe.load[KPositions[g].index] = NoBlock
        /\ kpipe.full[KPositions[g].index] # kpipe.empty[KPositions[g].index]
    BY <2>1, HeldStage DEF KIsRing
  <2> QED BY <2>2, <2>3, <2>4
<1>2. ASSUME g \in VReaders
      PROVE  /\ ReadV(g).index \in Stages
             /\ vpipe.load[ReadV(g).index] = NoBlock
             /\ vpipe.full[ReadV(g).index] # vpipe.empty[ReadV(g).index]
  <2>1. VPositions[g] = ReadV(g) BY PositionOf
  <2>2. /\ VPositions[g].index \in Stages /\ vpipe.load[VPositions[g].index] = NoBlock
        /\ vpipe.full[VPositions[g].index] # vpipe.empty[VPositions[g].index]
    BY <1>2, HeldStage DEF VIsRing
  <2> QED BY <2>1, <2>2
<1> QED BY <1>1, <1>2

LEMMA LoadTailDrains ==
  ASSUME Places, KIsRing, VIsRing, OBehind, LoadTail
  PROVE  Drained'
<1>1. /\ producer.at = "tile" /\ producer'.work_idx = producer.work_idx
      /\ kpipe' = kpipe /\ vpipe' = vpipe /\ barrier_O' = barrier_O
      /\ AllReleased(kpipe, producer.write) /\ AllReleased(vpipe, producer.write)
  BY LoadTailMoves DEF ProducerMoves, LoadTail
<1>2. WriteK = producer.write /\ WriteV = producer.write BY <1>1 DEF WriteK, WriteV
<1>3. barrier_O.completed = producer.work_idx
  <2>1. R!PhaseOver(barrier_O.completed, (producer.work_idx + 1) % 2)
    BY DEF LoadTail, OFree, PhaseOver, R!PhaseOver
  <2>2. producer.work_idx \in {barrier_O.completed, barrier_O.completed + 1} BY DEF OBehind
  <2>3. barrier_O.completed \in Nat BY ProducerFacts DEF TypeOK
  <2> QED BY <2>1, <2>2, <2>3, SomeWarpGroup, R!ParitySeparates
<1>4. ASSUME NEW s \in Stages
      PROVE  /\ kpipe.load[s] = NoBlock /\ kpipe.full[s] = kpipe.empty[s]
             /\ vpipe.load[s] = NoBlock /\ vpipe.full[s] = vpipe.empty[s]
  <2>1. s \in R!Stages BY SameOperators
  <2>2. R!AllReleased(kpipe, WriteK) /\ R!AllReleased(vpipe, WriteV)
    BY <1>1, <1>2, SameOperators
  <2>3. kpipe.load[s] = NoBlock /\ kpipe.full[s] = kpipe.empty[s]
    BY <2>1, <2>2, SomeWarpGroup, R!ReleasedIsDrained DEF KIsRing
  <2>4. vpipe.load[s] = NoBlock /\ vpipe.full[s] = vpipe.empty[s]
    BY <2>1, <2>2, SomeWarpGroup, R!ReleasedIsDrained DEF VIsRing
  <2> QED BY <2>3, <2>4
<1> QED BY <1>1, <1>3, <1>4 DEF Drained

LEMMA WarpGroupKeepsDrained ==
  ASSUME Places, KIsRing, VIsRing, OBehind, OBehind', Drained, NEW g \in WarpGroups, WarpGroup(g)
  PROVE  Drained'
<1>1. producer' = producer BY OnlyOneMoves
<1> SUFFICES ASSUME producer.at = "done" PROVE Drained' BY <1>1 DEF Drained
<1>2. /\ barrier_O.completed = producer.work_idx
      /\ \A s \in Stages : /\ kpipe.load[s] = NoBlock /\ kpipe.full[s] = kpipe.empty[s]
                           /\ vpipe.load[s] = NoBlock /\ vpipe.full[s] = vpipe.empty[s]
  BY DEF Drained
<1>3. ~ReadingQK(g) /\ g \notin VReaders BY <1>2, ReadStagesHeld
<1>4. kpipe' = kpipe
  <2>1. ~FirstSoftmax(g) /\ ~StepReleaseK(g)
    BY <1>3 DEF FirstSoftmax, StepReleaseK, At, ReadingQK
  <2> QED BY <2>1 DEF WarpGroup, Mainloop, Epilogue, MmaInit, StoreZero, WaitQ,
             FirstQK, StepQK, StepPV,
         StepReleaseV, QueryDone, LastPV, LastReleaseV, WriteO, BeginTmaStore, EndTmaStore, ReadO, ArriveO
<1>5. /\ vpipe'.load = vpipe.load /\ vpipe'.full = vpipe.full /\ vpipe'.empty = vpipe.empty
  <2>1. ~StepReleaseV(g) /\ ~LastReleaseV(g)
    BY <1>3 DEF StepReleaseV, LastReleaseV, At, VReaders
  <2>2. CASE WriteO(g) BY <2>2 DEF WriteO, Places, TypeOK, PipelineStorage
  <2>3. CASE ~WriteO(g)
    BY <2>1, <2>3 DEF WarpGroup, Mainloop, Epilogue, MmaInit, StoreZero, WaitQ,
       FirstQK, FirstSoftmax,
         StepQK, StepPV, StepReleaseK, QueryDone, LastPV, BeginTmaStore, EndTmaStore, ReadO, ArriveO
  <2> QED BY <2>2, <2>3
<1>6. barrier_O'.completed = barrier_O.completed
  <2>1. barrier_O \in [arrived : Nat, completed : Nat] /\ producer.work_idx \in Nat
    BY ProducerFacts DEF TypeOK
  <2>2. CASE ArriveO(g) \/ EndTmaStore(g)
    <3>1. barrier_O' = ArrivedO BY <2>2 DEF ArriveO, EndTmaStore
    <3>2. \/ barrier_O'.completed = barrier_O.completed
          \/ barrier_O'.completed = barrier_O.completed + 1
      BY <2>1, <3>1 DEF ArrivedO
    <3>3. barrier_O'.completed # barrier_O.completed + 1
      <4>1. \/ producer.work_idx = barrier_O'.completed
            \/ producer.work_idx = barrier_O'.completed + 1
        BY <1>1 DEF OBehind
      <4> QED BY <1>2, <2>1, <4>1
    <3> QED BY <3>2, <3>3
  <2>3. CASE ~ArriveO(g) /\ ~EndTmaStore(g)
    BY <2>3 DEF WarpGroup, Mainloop, Epilogue, MmaInit, StoreZero, WaitQ, FirstQK, FirstSoftmax,
         StepQK, StepPV, StepReleaseK, StepReleaseV, QueryDone, LastPV, LastReleaseV,
         WriteO, BeginTmaStore, ReadO
  <2> QED BY <2>2, <2>3
<1> QED BY <1>1, <1>2, <1>4, <1>5, <1>6 DEF Drained

LEMMA OthersKeepDrained ==
  ASSUME Places, Drained, Tma \/ EpilogueSync \/ Exit \/ UNCHANGED vars \/ (Producer /\ ~LoadTail)
  PROVE  Drained'
<1>1. CASE Producer /\ ~LoadTail
  <2>1. producer'.at # "done"
    BY <1>1, SkipTileMoves, LoadFirstKMoves, LoadQMoves, WaitOMoves, LoadNextKMoves,
       LoadPrevVMoves,
       LoadLastVMoves DEF Producer, ProducerMoves
  <2> QED BY <2>1 DEF Drained
<1>2. CASE EpilogueSync \/ Exit \/ UNCHANGED vars \/ LandQ
  <2>1. producer' = producer /\ kpipe' = kpipe /\ vpipe' = vpipe /\ barrier_O' = barrier_O
    BY <1>2 DEF EpilogueSync, Exit, vars, LandQ
  <2> QED BY <2>1 DEF Drained
<1>3. ASSUME NEW s \in Stages, LandK(s) \/ LandV(s) PROVE Drained'
  <2>1. producer' = producer BY <1>3 DEF LandK, LandV
  <2>2. producer.at # "done" BY <1>3 DEF LandK, LandV, Drained
  <2> QED BY <2>1, <2>2 DEF Drained
<1> QED BY <1>1, <1>2, <1>3 DEF Tma

(* Always: once the producer has left, no copy of K or V is in flight, all *)
(* stages are released and O of every tile is stored.                      *)
THEOREM DrainedAlways == Spec => []Drained
<1>1. Init => Drained BY DEF Init, Drained
<1>2. Places /\ (KIsRing /\ VIsRing) /\ (StoresCounted /\ OBehind) /\ (StoresCounted /\ OBehind)'
        /\ Drained /\ [Next]_vars => Drained'
  <2> SUFFICES ASSUME Places, KIsRing, VIsRing, OBehind, OBehind', Drained, [Next]_vars
               PROVE  Drained'
    OBVIOUS
  <2>1. CASE LoadTail BY <2>1, LoadTailDrains
  <2>2. ASSUME NEW g \in WarpGroups, WarpGroup(g) PROVE Drained' BY <2>2, WarpGroupKeepsDrained
  <2>3. CASE Tma \/ EpilogueSync \/ Exit \/ UNCHANGED vars \/ (Producer /\ ~LoadTail)
    BY <2>3, OthersKeepDrained
  <2> QED BY <2>1, <2>2, <2>3 DEF Next
<1> QED BY <1>1, <1>2, PlacesAlways, RingsAlways, StoresAlways, PTL DEF Spec

-----------------------------------------------------------------------------
(* While a warpgroup uses smem_o, everybody is past the V of its tile and  *)
(* no other V has been asked for.                                          *)

(* Between tiles of the same total of work there are no blocks.            *)
LEMMA NoWorkBetween ==
  ASSUME launch \in LaunchSpace, NEW t \in Nat, NEW u \in Nat, t <= u,
         Before(WorkCount, t) = Before(WorkCount, u)
  PROVE  Before(BlockCount, t) = Before(BlockCount, u)
<1> DEFINE n == Len(launch.tiles)
<1>1. n \in Nat /\ WorkCount \in [1 .. n -> Nat] /\ BlockCount \in [1 .. n -> Nat]
  BY LaunchFields, CountTypes
<1> HIDE DEF n
<1>2. UnitsBefore(WorkCount, t) = UnitsBefore(WorkCount, u)
  <2>1. UnitsBefore(WorkCount, t) \subseteq UnitsBefore(WorkCount, u)
    BY <1>1 DEF UnitsBefore
  <2>2. IsFiniteSet(UnitsBefore(WorkCount, u)) BY <1>1, UnitsFinite
  <2> QED BY <2>1, <2>2, FS_Subset DEF Before
<1>3. UnitsBefore(BlockCount, u) \subseteq UnitsBefore(BlockCount, t)
  <2> SUFFICES ASSUME NEW x \in UnitsBefore(BlockCount, u)
               PROVE  x \in UnitsBefore(BlockCount, t)
    OBVIOUS
  <2>1. x \in (1 .. n) \X Nat /\ x[1] < u /\ x[2] < BlockCount[x[1]] BY <1>1 DEF UnitsBefore
  <2>2. x[1] \in 1 .. n /\ x[2] \in Nat BY <2>1
  <2>3. BlockCount[x[1]] \in Nat BY <1>1, <2>2
  <2>4. BlockCount[x[1]] > 0 BY <2>1, <2>2, <2>3
  <2>5. WorkCount[x[1]] = 1
    <3>1. x[1] \in Tiles BY <2>2 DEF Tiles, n
    <3> QED BY <2>4, <3>1 DEF WorkCount, BlockCount
  <2>6. <<x[1], 0>> \in UnitsBefore(WorkCount, u)
    BY <1>1, <2>1, <2>2, <2>5 DEF UnitsBefore
  <2>7. <<x[1], 0>> \in UnitsBefore(WorkCount, t) BY <1>2, <2>6
  <2>8. x[1] < t BY <2>7 DEF UnitsBefore
  <2> QED BY <1>1, <2>1, <2>8 DEF UnitsBefore
<1>4. UnitsBefore(BlockCount, t) \subseteq UnitsBefore(BlockCount, u)
  BY <1>1 DEF UnitsBefore
<1>5. UnitsBefore(BlockCount, t) = UnitsBefore(BlockCount, u) BY <1>3, <1>4
<1> QED BY <1>5 DEF Before

(* The O of the tile a warpgroup is storing is not counted yet.            *)
LEMMA OwnStoreNotCounted ==
  ASSUME Places, SyncsAgree, StoreArrivals, StoresCounted, NEW g \in WarpGroups, UsingO(g)
  PROVE  barrier_O.completed <= StoresDone(g)
<1>1. barrier_O.completed \in Nat /\ StoresDone(g) \in Nat /\ StoresDone(Storer) \in Nat /\ Equipped(g)
  BY StoresDoneTypes, SomeWarpGroup, PlaceFacts DEF TypeOK
<1>2. CASE launch.store # "tma" BY <1>1, <1>2 DEF StoresCounted
<1>3. CASE launch.store = "tma"
  <2>1. wg[g].at \in {"write_O", "store_O", "storing_O"} BY <1>1, <1>3 DEF Equipped, UsingO
  <2>2. wg[Storer].at \in {"write_O", "store_O", "storing_O"}
    BY <1>1, <1>3, <2>1 DEF Equipped, StoreArrivals
  <2>3. Syncs(g) = StoresDone(g) + 1 /\ Syncs(Storer) = StoresDone(Storer) + 1
    BY <1>3, <2>1, <2>2 DEF Syncs
  <2>4. Syncs(g) = Syncs(Storer) BY SomeWarpGroup DEF SyncsAgree
  <2>5. StoresDone(g) = StoresDone(Storer) BY <1>1, <2>3, <2>4
  <2> QED BY <1>1, <1>3, <2>5 DEF StoresCounted
<1> QED BY <1>2, <1>3

(* The others are in the epilogue of the same tile, or past it.            *)
LEMMA OthersInEpilogue ==
  ASSUME Places, SyncsAgree, NEW g \in WarpGroups, UsingO(g), NEW h \in WarpGroups
  PROVE  \/ StoresDone(h) = StoresDone(g) /\ wg[h].at \in InEpilogue
         \/ StoresDone(h) = StoresDone(g) + 1
<1>1. StoresDone(g) \in Nat /\ StoresDone(h) \in Nat /\ Equipped(g)
  BY StoresDoneTypes, PlaceFacts, Zenon
<1>2. Syncs(h) = Syncs(g) BY DEF SyncsAgree
<1>3. launch.store \in {"tma", "smem", "direct"} BY LaunchFields DEF Places, TypeOK
<1>4. launch.store # "direct" BY <1>1, <1>3 DEF Equipped, UsingO
<1>5. CASE launch.store = "tma"
  <2>1. Syncs(g) = StoresDone(g) + 1 BY <1>1, <1>5 DEF Syncs, Equipped, UsingO
  <2>2. CASE wg[h].at \in {"write_O", "arrive_O", "store_O", "storing_O"}
    <3>1. Syncs(h) = StoresDone(h) + 1 BY <1>5, <2>2 DEF Syncs
    <3>2. StoresDone(h) = StoresDone(g) BY <1>1, <1>2, <2>1, <3>1
    <3>3. wg[h].at \in InEpilogue BY <2>2 DEF InEpilogue
    <3> QED BY <3>2, <3>3
  <2>3. CASE wg[h].at \notin {"write_O", "arrive_O", "store_O", "storing_O"}
    <3>1. Syncs(h) = StoresDone(h) + 0 BY <1>5, <2>3 DEF Syncs
    <3> QED BY <1>1, <1>2, <2>1, <3>1
  <2> QED BY <2>2, <2>3
<1>6. CASE launch.store = "smem"
  <2>1. \/ Syncs(g) = 2 * StoresDone(g) + 1
        \/ Syncs(g) = 2 * StoresDone(g) + 2
    BY <1>1, <1>6 DEF Syncs, Equipped, UsingO
  <2> DEFINE a == StoresDone(g)
             b == StoresDone(h)
  <2>0. /\ a \in Nat /\ b \in Nat
        /\ 2 * b + 1 # 2 * a + 2 /\ 2 * b + 2 # 2 * a + 1
        /\ 2 * b + 1 = 2 * a + 1 => b = a
        /\ 2 * b + 2 = 2 * a + 2 => b = a
        /\ 2 * b + 0 = 2 * a + 2 => b = a + 1
        /\ 2 * b + 0 # 2 * a + 1
    BY <1>1
  <2>2. CASE wg[h].at \in {"write_O", "epilogue_smem"}
    <3>1. Syncs(h) = 2 * StoresDone(h) + 1 BY <1>6, <2>2 DEF Syncs
    <3>2. StoresDone(h) = StoresDone(g) BY <1>2, <2>0, <2>1, <3>1, Zenon
    <3>3. wg[h].at \in InEpilogue BY <2>2 DEF InEpilogue
    <3> QED BY <3>2, <3>3
  <2>3. CASE wg[h].at \in {"read_O", "arrive_O"}
    <3>1. Syncs(h) = 2 * StoresDone(h) + 2 BY <1>6, <2>3 DEF Syncs
    <3>2. StoresDone(h) = StoresDone(g) BY <1>2, <2>0, <2>1, <3>1, Zenon
    <3>3. wg[h].at \in InEpilogue BY <2>3 DEF InEpilogue
    <3> QED BY <3>2, <3>3
  <2>4. CASE wg[h].at \notin {"write_O", "epilogue_smem", "read_O", "arrive_O"}
    <3>1. Syncs(h) = 2 * StoresDone(h) + 0 BY <1>6, <2>4 DEF Syncs
    <3> QED BY <1>2, <2>0, <2>1, <3>1, Zenon
  <2> QED BY <2>2, <2>3, <2>4
<1> QED BY <1>3, <1>4, <1>5, <1>6

LEMMA ReadersPastTheTile ==
  ASSUME Places, SyncsAgree, NEW g \in WarpGroups, UsingO(g), NEW h \in WarpGroups
  PROVE  Before(BlockCount, wg[g].tile + 1) <= R!Pos(ReadV(h))
<1> DEFINE t == wg[g].tile
           u == wg[h].tile
           n == t + 1
           m == u + 1
<1>1. /\ launch \in LaunchSpace /\ t \in Nat /\ u \in Nat /\ n \in Nat /\ m \in Nat
      /\ Placed(g) /\ Placed(h)
  <2>1. launch \in LaunchSpace /\ t \in Nat /\ Placed(g) BY PlaceFacts
  <2>2. u \in Nat /\ Placed(h) BY PlaceFacts
  <2> QED BY <2>1, <2>2
<1>2. /\ StoresDone(g) = Before(WorkCount, t) /\ StoresDone(h) = Before(WorkCount, u)
      /\ StoresDone(g) \in Nat /\ StoresDone(h) \in Nat
  BY StoresDoneTypes DEF StoresDone
<1>3. t \in Tiles /\ BlockCount[t] > 0 BY <1>1 DEF Placed, UsingO, WithoutATile
<1>4. Before(WorkCount, n) = StoresDone(g) + 1
  BY <1>1, <1>2, <1>3, NextTotals
<1>5. /\ Before(BlockCount, n) \in Nat /\ Before(BlockCount, u) \in Nat /\ R!Pos(ReadV(h)) \in Nat
  BY <1>1, Totals, ReadPositions
<1>6. CASE StoresDone(h) = StoresDone(g) + 1
  <2>1. n <= u
    <3> SUFFICES ASSUME u <= t PROVE FALSE BY <1>1
    <3>1. Before(WorkCount, u) <= Before(WorkCount, t) BY <1>1, LaterTotals
    <3> QED BY <1>2, <1>6, <3>1
  <2>2. Before(BlockCount, n) <= Before(BlockCount, u) BY <1>1, <2>1, LaterTotals
  <2>3. Before(BlockCount, u) <= R!Pos(ReadV(h)) BY ReadInsideTile
  <2> QED BY <1>5, <2>2, <2>3
<1>7. CASE StoresDone(h) = StoresDone(g) /\ wg[h].at \in InEpilogue
  <2>1. u \in Tiles /\ BlockCount[u] > 0 BY <1>1, <1>7 DEF Placed, InEpilogue, WithoutATile
  <2>2. Before(WorkCount, m) = StoresDone(h) + 1 BY <1>1, <1>2, <2>1, NextTotals
  <2>3. t = u
    <3>1. ASSUME n <= u PROVE FALSE
      <4>1. Before(WorkCount, n) <= Before(WorkCount, u) BY <1>1, <3>1, LaterTotals
      <4> QED BY <1>2, <1>4, <1>7, <4>1
    <3>2. ASSUME m <= t PROVE FALSE
      <4>1. Before(WorkCount, m) <= Before(WorkCount, t) BY <1>1, <3>2, LaterTotals
      <4> QED BY <1>2, <1>7, <2>2, <4>1
    <3> QED BY <1>1, <3>1, <3>2
  <2>4. Before(BlockCount, n) = Before(BlockCount, t) + MmaCount(t) /\ BlockCount[t] = MmaCount(t)
    BY <1>1, <1>3, NextTotals
  <2>5. R!Pos(ReadV(h)) = Before(BlockCount, u) + BlockCount[u] BY <1>7, ReadPositions
  <2> QED BY <1>5, <2>3, <2>4, <2>5
<1> QED BY <1>6, <1>7, OthersInEpilogue

LEMMA WriterNotPastTheTile ==
  ASSUME Places, SyncsAgree, StoreArrivals, StoresCounted, OBehind,
         NEW g \in WarpGroups, UsingO(g)
  PROVE  R!Pos(WriteV) <= Before(BlockCount, wg[g].tile + 1)
<1> DEFINE t == wg[g].tile
           u == producer.tile
           n == t + 1
           m == u + 1
           c == barrier_O.completed
<1>1. /\ launch \in LaunchSpace /\ t \in Nat /\ u \in Nat /\ n \in Nat /\ m \in Nat
      /\ Placed(g) /\ ProducerPlaced
  <2>1. launch \in LaunchSpace /\ t \in Nat /\ Placed(g) BY PlaceFacts
  <2>2. u \in Nat /\ ProducerPlaced BY ProducerFacts
  <2> QED BY <2>1, <2>2
<1>2. /\ StoresDone(g) = Before(WorkCount, t) /\ StoresDone(g) \in Nat /\ c \in Nat
      /\ c <= StoresDone(g) /\ producer.work_idx = Before(WorkCount, u)
      /\ Before(WorkCount, u) \in Nat
  BY <1>1, StoresDoneTypes, OwnStoreNotCounted, ProducerFacts DEF StoresDone,
     ProducerPlaced, TypeOK
<1>3. t \in Tiles /\ BlockCount[t] > 0 BY <1>1 DEF Placed, UsingO, WithoutATile
<1>4. Before(WorkCount, n) = StoresDone(g) + 1 BY <1>1, <1>2, <1>3, NextTotals
<1>5. /\ Before(BlockCount, n) \in Nat /\ Before(BlockCount, u) \in Nat
      /\ Before(BlockCount, m) \in Nat /\ R!Pos(WriteV) \in Nat
  BY <1>1, Totals, WritePosition
<1>6. CASE producer.at \in {"load_K", "load_V"}
  <2>1. Before(WorkCount, u) = c BY <1>2, <1>6 DEF OBehind
  <2>2. u <= t
    <3> SUFFICES ASSUME n <= u PROVE FALSE BY <1>1
    <3>1. Before(WorkCount, n) <= Before(WorkCount, u) BY <1>1, LaterTotals
    <3> QED BY <1>2, <1>4, <2>1, <3>1
  <2>3. m <= n BY <1>1, <2>2
  <2>4. Before(BlockCount, m) <= Before(BlockCount, n) BY <1>1, <2>3, LaterTotals
  <2>5. R!Pos(WriteV) < Before(BlockCount, m) BY <1>6, WritePosition
  <2> QED BY <1>5, <2>4, <2>5
<1>7. CASE producer.at \notin {"load_K", "load_V"}
  <2>1. R!Pos(WriteV) = Before(BlockCount, u) BY <1>7, WritePosition
  <2>2. CASE u <= n
    <3>1. Before(BlockCount, u) <= Before(BlockCount, n) BY <1>1, <2>2, LaterTotals
    <3> QED BY <2>1, <3>1
  <2>3. CASE n <= u
    <3>1. Before(WorkCount, n) <= Before(WorkCount, u) BY <1>1, <2>3, LaterTotals
    <3>2. Before(WorkCount, u) = c \/ Before(WorkCount, u) = c + 1 BY <1>2 DEF OBehind
    <3>3. Before(WorkCount, n) = Before(WorkCount, u) BY <1>2, <1>4, <3>1, <3>2
    <3>4. Before(BlockCount, n) = Before(BlockCount, u) BY <1>1, <2>3, <3>3, NoWorkBetween
    <3> QED BY <1>5, <2>1, <3>4
  <2> QED BY <1>1, <2>2, <2>3
<1> QED BY <1>6, <1>7

-----------------------------------------------------------------------------
(* What the runs check, for every launch and every number of warpgroups    *)
(* and stages.                                                             *)

LEMMA QueryIsHeld ==
  ASSUME Places, QueryCounted, NEW g \in WarpGroups, ReadingQK(g)
  PROVE  query.load = NoBlock
<1>1. wg[g].work_idx \in Nat /\ QueryLoads \in Nat /\ query.completed \in Nat
  BY PlaceFacts, QueryTypes
<1>2. QueryWaits(g) = wg[g].work_idx + 1 /\ QueryReleases(g) = 1 + wg[g].work_idx
  BY <1>1 DEF ReadingQK, QueryWaits, QueryReleases, AfterLoop, InEpilogue, WithoutATile
<1>3. QueryLoads = query.completed BY <1>1, <1>2, QueryBounds
<1> QED BY <1>3, QueryBounds

LEMMA SmemOIsHeld ==
  ASSUME Places, VIsRing, SyncsAgree, StoreArrivals, StoresCounted, OBehind,
         NEW g \in WarpGroups, UsingO(g)
  PROVE  /\ VReaders = {}
         /\ \A s \in Stages : vpipe.load[s] = NoBlock /\ vpipe.full[s] = vpipe.empty[s]
<1>1. ASSUME NEW h \in WarpGroups PROVE R!Pos(VPositions[h]) = R!Pos(WriteV) /\ h \notin VReaders
  <2> DEFINE p == Before(BlockCount, wg[g].tile + 1)
  <2>1. p <= R!Pos(ReadV(h)) BY ReadersPastTheTile
  <2>2. R!Pos(WriteV) <= p BY WriterNotPastTheTile
  <2>3. p \in Nat
    <3>1. wg[g].tile \in Nat /\ launch \in LaunchSpace BY PlaceFacts
    <3>2. wg[g].tile + 1 \in Nat BY <3>1
    <3> QED BY <3>1, <3>2, Totals
  <2>4. VPositions[h] = ReadV(h) /\ R!Pos(ReadV(h)) \in Nat /\ R!Pos(WriteV) \in Nat
    BY PositionOf, ReadPositions, WritePosition
  <2>5. /\ R!Pos(VPositions[h]) <= R!Pos(WriteV)
        /\ h \in VReaders => R!Pos(VPositions[h]) < R!Pos(WriteV)
    BY SomeWarpGroup, R!ConsumersBehind DEF VIsRing
  <2> HIDE DEF p
  <2> QED BY <2>1, <2>2, <2>3, <2>4, <2>5
<1>2. VReaders = {} BY <1>1 DEF VReaders
<1>3. ASSUME NEW s \in Stages PROVE vpipe.load[s] = NoBlock /\ vpipe.full[s] = vpipe.empty[s]
  <2>1. s \in R!Stages BY SameOperators
  <2> QED BY <1>1, <2>1, SomeWarpGroup, R!CaughtUp DEF VIsRing
<1> QED BY <1>2, <1>3

LEMMA VReaderOf ==
  ASSUME NEW g \in WarpGroups, NEW s \in Stages, ReadingV(g, s)
  PROVE  g \in VReaders /\ ReadV(g).index = s
  BY DEF ReadingV, VReaders, ReadV

(* SmemSafe: no copy comes into a buffer of Q, K or V that a gemm reads or *)
(* into smem_v while it is smem_o, and then nobody reads V.                *)
THEOREM SharedMemorySafe == Spec => []SmemSafe
<1>1. Places /\ (KIsRing /\ VIsRing) /\ QueryCounted /\ (SyncsAgree /\ StoreArrivals)
        /\ (StoresCounted /\ OBehind) => SmemSafe
  <2> SUFFICES ASSUME Places, KIsRing, VIsRing, QueryCounted, SyncsAgree, StoreArrivals,
                      StoresCounted, OBehind, NEW g \in WarpGroups
               PROVE  /\ ReadingQK(g) => query.load = NoBlock
                      /\ \A s \in Stages :
                           /\ ReadingK(g, s) => kpipe.load[s] = NoBlock
                           /\ ReadingV(g, s) => vpipe.load[s] = NoBlock
                           /\ UsingO(g) => /\ vpipe.load[s] = NoBlock
                                           /\ \A h \in WarpGroups : ~ReadingV(h, s)
    BY DEF SmemSafe
  <2>1. ReadingQK(g) => query.load = NoBlock BY QueryIsHeld
  <2> SUFFICES ASSUME NEW s \in Stages
               PROVE  /\ ReadingK(g, s) => kpipe.load[s] = NoBlock
                      /\ ReadingV(g, s) => vpipe.load[s] = NoBlock
                      /\ UsingO(g) => /\ vpipe.load[s] = NoBlock
                                      /\ \A h \in WarpGroups : ~ReadingV(h, s)
    BY <2>1
  <2>2. ReadingK(g, s) => kpipe.load[s] = NoBlock BY ReadStagesHeld DEF ReadingK
  <2>3. ReadingV(g, s) => vpipe.load[s] = NoBlock BY VReaderOf, ReadStagesHeld
  <2>4. UsingO(g) => /\ vpipe.load[s] = NoBlock
                     /\ \A h \in WarpGroups : ~ReadingV(h, s)
    BY SmemOIsHeld, VReaderOf
  <2> QED BY <2>2, <2>3, <2>4
<1> QED BY <1>1, PlacesAlways, RingsAlways, QueriesAlways, EpilogueAlways, StoresAlways, PTL

(* ParityUnambiguous: the counters the producer and each warpgroup keep of *)
(* their own are never a whole cycle off the barriers they test.           *)
THEOREM ParitiesUnambiguous == Spec => []ParityUnambiguous
<1>1. Places /\ QueryCounted /\ (StoresCounted /\ OBehind) => ParityUnambiguous
  <2> SUFFICES ASSUME Places, QueryCounted, OBehind PROVE ParityUnambiguous OBVIOUS
  <2>1. barrier_O.completed \in {producer.work_idx, producer.work_idx - 1}
    <3>1. barrier_O.completed \in Nat /\ producer.work_idx \in Nat BY ProducerFacts DEF TypeOK
    <3> QED BY <3>1 DEF OBehind
  <2>2. ASSUME NEW g \in WarpGroups
        PROVE  CASE wg[g].at \in {"first_QK", "first_softmax", "step", "step_PV",
                                  "step_softmax", "step_end"}
                      -> query.completed = wg[g].work_idx + 1
                 [] wg[g].at \in {"last_PV", "last_end"}
                      -> query.completed \in {wg[g].work_idx + 1, wg[g].work_idx + 2}
                 [] OTHER
                      -> query.completed \in {wg[g].work_idx, wg[g].work_idx + 1}
    <3> DEFINE w == wg[g].work_idx
               c == query.completed
    <3>1. /\ w \in Nat /\ c \in Nat /\ QueryLoads \in Nat /\ wg[g].at \in WarpGroupLabels
      BY PlaceFacts, QueryTypes
    <3>2. QueryWaits(g) <= c /\ c <= QueryReleases(g)
      <4>1. QueryReleases(g) \in Nat BY QueryTypes
      <4> QED BY <3>1, <4>1, QueryBounds
    <3>3. CASE wg[g].at \in {"first_QK", "first_softmax", "step"} \cup InStep
      <4>1. QueryWaits(g) = w + 1 /\ QueryReleases(g) = 1 + w
        BY <3>1, <3>3 DEF QueryWaits, QueryReleases, AfterLoop, InEpilogue, WithoutATile, InStep
      <4>2. c = w + 1 BY <3>1, <3>2, <4>1
      <4> QED BY <3>3, <4>2 DEF InStep
    <3>4. CASE wg[g].at \in AfterLoop
      <4>1. QueryWaits(g) = w + 1 /\ QueryReleases(g) = 1 + w + 1
        BY <3>1, <3>4 DEF QueryWaits, QueryReleases, AfterLoop, InEpilogue, WithoutATile
      <4>2. c = w + 1 \/ c = w + 2 BY <3>1, <3>2, <4>1
      <4> QED BY <3>4, <4>2 DEF AfterLoop
    <3>5. CASE wg[g].at \in WithoutATile \cup InEpilogue
      <4>1. QueryWaits(g) = w /\ QueryReleases(g) \in {1 + w, w}
        BY <3>1, <3>5, QueryBounds DEF QueryWaits, QueryReleases, AfterLoop,
           InEpilogue, WithoutATile
      <4>2. c = w \/ c = w + 1 BY <3>1, <3>2, <4>1
      <4> QED BY <3>5, <4>2 DEF InEpilogue, WithoutATile
    <3> QED BY <3>1, <3>3, <3>4, <3>5 DEF WarpGroupLabels, InStep, AfterLoop,
               InEpilogue, WithoutATile
  <2> QED BY <2>1, <2>2 DEF ParityUnambiguous
<1> QED BY <1>1, PlacesAlways, QueriesAlways, StoresAlways, PTL

(* NamedBarriersUnmixed: no named barrier ever holds arrivals of two of    *)
(* its phases, nor EpilogueBarrier those of its two uses.                  *)
THEOREM BarriersUnmixed == Spec => []NamedBarriersUnmixed
<1>1. Places /\ TurnsInOrder /\ (KIsRing /\ VIsRing) /\ QueryCounted
        /\ (SyncsAgree /\ StoreArrivals) /\ (StoresCounted /\ OBehind) => NamedBarriersUnmixed
  <2> SUFFICES ASSUME Places, TurnsInOrder, VIsRing, QueryCounted, SyncsAgree, StoreArrivals,
                      StoresCounted, OBehind
               PROVE  NamedBarriersUnmixed
    OBVIOUS
  <2>1. named.queryEmpty <= NumMmaWarpGroups
    BY QueryTypes, CountGroups DEF QueryCounted
  <2>2. ASSUME NEW g \in WarpGroups PROVE named.scheduler[g] <= 1
    <3>1. CASE UseSchedulerBarrier
      <4>1. PICK h \in WarpGroups, n \in Nat : HasTurn(h, n) BY <3>1 DEF TurnsInOrder
      <4>2. named.scheduler[g] = 0 \/ named.scheduler[g] = 1 BY <4>1 DEF HasTurn
      <4> QED BY <4>2
    <3>2. CASE ~UseSchedulerBarrier
      <4>1. named.scheduler[g] = 0 BY <3>2 DEF TurnsInOrder
      <4> QED BY <4>1
    <3> QED BY <3>1, <3>2
  <2>3. ASSUME named.sync # {}, named.store # {} PROVE FALSE
    <3>1. PICK h \in WarpGroups : wg[h].at \in AtEpilogueSync BY <2>3 DEF Places, SyncArrivals
    <3>2. launch.store = "tma" /\ wg[Storer].at \in {"write_O", "store_O"}
      BY <2>3 DEF StoreArrivals
    <3>3. /\ StoresDone(h) \in Nat /\ StoresDone(Storer) \in Nat /\ producer.work_idx \in Nat
      BY StoresDoneTypes, SomeWarpGroup, ProducerFacts
    <3>4. Syncs(h) = StoresDone(h) /\ Syncs(Storer) = StoresDone(Storer) + 1
      BY <3>1, <3>2, <3>3 DEF Syncs, AtEpilogueSync
    <3>5. StoresDone(h) = StoresDone(Storer) + 1 BY <3>4, SomeWarpGroup DEF SyncsAgree
    <3>6. wg[h].at \in InEpilogue BY <3>1 DEF AtEpilogueSync, InEpilogue
    <3>7. StoresDone(h) + 1 <= producer.work_idx BY <3>6, ProducerIsLater
    <3>8. barrier_O.completed = StoresDone(Storer) BY <3>2 DEF StoresCounted
    <3>9. \/ producer.work_idx = StoresDone(Storer)
          \/ producer.work_idx = StoresDone(Storer) + 1
      BY <3>8 DEF OBehind
    <3> QED BY <3>3, <3>5, <3>7, <3>9
  <2> QED BY <2>1, <2>2, <2>3 DEF NamedBarriersUnmixed
<1> QED BY <1>1, PlacesAlways, TurnsAlways, RingsAlways, QueriesAlways, EpilogueAlways,
           StoresAlways, PTL

(* DrainedOnExit: the producer leaves when no copy is in flight, every     *)
(* stage is released and every tile's O is stored.                         *)
THEOREM ExitsDrained == Spec => []DrainedOnExit
<1>1. Places /\ QueryCounted /\ (StoresCounted /\ OBehind) /\ Drained => DrainedOnExit
  <2> SUFFICES ASSUME Places, QueryCounted, StoresCounted, Drained, producer.at = "done"
               PROVE  /\ query.load = NoBlock
                      /\ \A s \in Stages :
                           /\ kpipe.load[s] = NoBlock /\ kpipe.full[s] = kpipe.empty[s]
                           /\ vpipe.load[s] = NoBlock /\ vpipe.full[s] = vpipe.empty[s]
                      /\ barrier_O = [arrived |-> 0, completed |-> producer.work_idx]
    BY DEF DrainedOnExit
  <2> DEFINE W == producer.work_idx
             last == Len(launch.tiles) + 1
  <2>1. /\ barrier_O.completed = W
        /\ \A s \in Stages : /\ kpipe.load[s] = NoBlock /\ kpipe.full[s] = kpipe.empty[s]
                             /\ vpipe.load[s] = NoBlock /\ vpipe.full[s] = vpipe.empty[s]
    BY DEF Drained
  <2>2. /\ W \in Nat /\ producer.tile = last /\ last \in Nat /\ W = Before(WorkCount, last)
        /\ launch \in LaunchSpace
    BY ProducerFacts DEF ProducerPlaced
  <2>3. ASSUME NEW g \in WarpGroups PROVE StoresDone(g) <= W
    <3>1. wg[g].tile \in Nat /\ wg[g].tile <= last BY <2>2, PlaceFacts DEF Placed
    <3> QED BY <2>2, <3>1, LaterTotals DEF StoresDone
  <2>4. W <= StoresDone(Storer)
    <3>1. CASE launch.store = "tma" BY <2>1, <2>2, <3>1 DEF StoresCounted
    <3>2. CASE launch.store # "tma"
      <4>1. StoresDone(Storer) = W \/ StoresDone(Storer) = W + 1
        BY <2>1, <3>2, SomeWarpGroup DEF StoresCounted
      <4> QED BY <2>2, <4>1
    <3> QED BY <3>1, <3>2
  <2>5. query.load = NoBlock
    <3>1. QueryLoads = W BY <2>2 DEF QueryLoads
    <3>2. /\ wg[Storer].work_idx \in Nat /\ StoresDone(Storer) \in Nat
          /\ StoresDone(Storer) <= wg[Storer].work_idx
      <4>1. Placed(Storer) BY SomeWarpGroup, PlaceFacts
      <4>2. StoresDone(Storer) \in Nat /\ wg[Storer].work_idx \in Nat
        BY SomeWarpGroup, PlaceFacts, StoresDoneTypes
      <4>3. wg[Storer].work_idx =
              StoresDone(Storer) + (IF wg[Storer].at \in InEpilogue THEN 1 ELSE 0)
        BY <4>1 DEF Placed, StoresDone
      <4> QED BY <4>2, <4>3
    <3>3. wg[Storer].work_idx <= QueryWaits(Storer) BY <3>2 DEF QueryWaits
    <3>4. /\ QueryWaits(Storer) <= query.completed /\ query.completed <= QueryLoads
          /\ QueryLoads = query.completed => query.load = NoBlock
          /\ query.completed \in Nat /\ QueryWaits(Storer) \in Nat
      BY SomeWarpGroup, QueryBounds, QueryTypes
    <3> QED BY <2>2, <2>4, <3>1, <3>2, <3>3, <3>4
  <2>6. barrier_O.arrived = 0
    <3>1. CASE launch.store = "tma" BY <3>1 DEF StoresCounted
    <3>2. CASE launch.store # "tma"
      <4>1. ASSUME NEW g \in WarpGroups PROVE StoresDone(g) # W + 1
        BY <2>2, <2>3, StoresDoneTypes
      <4>2. ArrivedAtO = {} BY <2>1, <4>1 DEF ArrivedAtO
      <4> QED BY <3>2, <4>2, CountGroups DEF StoresCounted
    <3> QED BY <3>1, <3>2
  <2>7. barrier_O \in [arrived : Nat, completed : Nat] BY DEF Places, TypeOK
  <2> QED BY <2>1, <2>5, <2>6, <2>7
<1> QED BY <1>1, PlacesAlways, QueriesAlways, StoresAlways, DrainedAlways, PTL

-----------------------------------------------------------------------------
(* Each pipeline, seen by positions, is TmaRing.                           *)

LoadPositions(p) ==
  [s \in Stages |-> IF p.load[s] = NoBlock THEN NoBlock ELSE [index |-> s, lap |-> p.full[s]]]

DataPositions(p) ==
  [s \in Stages |-> IF p.full[s] = 0 THEN NoBlock ELSE [index |-> s, lap |-> p.full[s] - 1]]

(* What TmaRing's steps do to a pipeline q that holds positions.           *)
RingStep(q, w, r, reading, q2, w2, r2, reading2) ==
  \/ /\ w.lap \in Nat /\ AcquireReady(q, w)
     /\ q2 = Issue(q, w, w) /\ w2 = Advance(w)
     /\ r2 = r /\ reading2 = reading
  \/ \E s \in Stages : /\ q.load[s] # NoBlock
                       /\ q2 = Land(q, s)
                       /\ w2 = w /\ r2 = r /\ reading2 = reading
  \/ \E c \in WarpGroups : /\ c \notin reading /\ FullReady(q, r[c])
                           /\ reading2 = reading \cup {c}
                           /\ q2 = q /\ w2 = w /\ r2 = r
  \/ \E c \in WarpGroups : /\ c \in reading
                           /\ q2 = Release(q, r[c], c)
                           /\ r2 = [r EXCEPT ![c] = Advance(r[c])]
                           /\ reading2 = reading \ {c}
                           /\ w2 = w
  \/ q2 = q /\ w2 = w /\ r2 = r /\ reading2 = reading

LEMMA StorageRecord ==
  ASSUME NEW p \in PipelineStorage(Block)
  PROVE  p = [full |-> p.full, empty |-> p.empty, arrived |-> p.arrived,
              load |-> p.load, data |-> p.data]
  BY DEF PipelineStorage

Replaced(p, full, load, data) == [p EXCEPT !.full = full, !.data = data, !.load = load]

LEMMA ReplacedFields ==
  ASSUME NEW full, NEW empty, NEW arrived, NEW load, NEW data, NEW full2, NEW load2, NEW data2,
         NEW p, p = [full |-> full, empty |-> empty, arrived |-> arrived,
                     load |-> load, data |-> data]
  PROVE  Replaced(p, full2, load2, data2) =
           [full |-> full2, empty |-> empty, arrived |-> arrived, load |-> load2, data |-> data2]
<1> DEFINE q == [full |-> full2, empty |-> empty, arrived |-> arrived,
                 load |-> load, data |-> data]
           r == [full |-> full2, empty |-> empty, arrived |-> arrived,
                 load |-> load, data |-> data2]
<1>1. [p EXCEPT !.full = full2] = q OBVIOUS
<1>2. [q EXCEPT !.data = data2] = r OBVIOUS
<1>3. [r EXCEPT !.load = load2] = [full |-> full2, empty |-> empty, arrived |-> arrived,
                                   load |-> load2, data |-> data2]
  OBVIOUS
<1> HIDE DEF q, r
<1> QED BY <1>1, <1>2, <1>3 DEF Replaced

LEMMA ByPositionFields ==
  ASSUME NEW p \in PipelineStorage(Block)
  PROVE  ByPosition(p) = [full |-> p.full, empty |-> p.empty, arrived |-> p.arrived,
                          load |-> LoadPositions(p), data |-> DataPositions(p)]
<1> DEFINE load2 == LoadPositions(p)
           data2 == DataPositions(p)
           q == [full |-> p.full, empty |-> p.empty, arrived |-> p.arrived,
                 load |-> load2, data |-> p.data]
<1>1. p = [full |-> p.full, empty |-> p.empty, arrived |-> p.arrived,
           load |-> p.load, data |-> p.data]
  BY StorageRecord
<1>2. ByPosition(p) = [[p EXCEPT !.load = load2] EXCEPT !.data = data2]
  BY DEF ByPosition, LoadPositions, DataPositions
<1> HIDE DEF load2, data2
<1>3. [p EXCEPT !.load = load2] = q BY <1>1
<1>4. [q EXCEPT !.data = data2] = [full |-> p.full, empty |-> p.empty, arrived |-> p.arrived,
                                   load |-> load2, data |-> data2]
  OBVIOUS
<1> HIDE DEF q
<1> QED BY <1>2, <1>3, <1>4 DEF load2, data2

LEMMA RingFields ==
  ASSUME NEW p, NEW w, NEW r, NEW reading, R!Ring(p, w, r, reading, Block)
  PROVE  /\ p \in PipelineStorage(Block)
         /\ w \in PipelineState /\ r \in [WarpGroups -> PipelineState]
         /\ reading \subseteq WarpGroups
         /\ w.index \in Stages /\ w.lap \in Nat /\ w = [index |-> w.index, lap |-> w.lap]
         /\ \A c \in WarpGroups : r[c].index \in Stages /\ r[c].lap \in Nat
<1>1. /\ p \in PipelineStorage(Block) /\ w \in PipelineState
      /\ r \in [WarpGroups -> PipelineState] /\ reading \subseteq WarpGroups
  BY SameOperators DEF R!Ring
<1> QED BY <1>1 DEF PipelineState

LEMMA IssueByPosition ==
  ASSUME NEW p, NEW w, NEW r, NEW reading, R!Ring(p, w, r, reading, Block),
         NEW b \in Block, AcquireReady(p, w)
  PROVE  /\ AcquireReady(ByPosition(p), w)
         /\ ByPosition(Issue(p, w, b)) = Issue(ByPosition(p), w, w)
<1> DEFINE i == w.index
           q == Issue(p, w, b)
<1>1. /\ p \in PipelineStorage(Block) /\ i \in Stages /\ w.lap \in Nat
      /\ w = [index |-> i, lap |-> w.lap]
  BY RingFields
<1>2. p.full[i] = w.lap
  <2>1. R!AcquireReady(p, w) BY SameOperators
  <2> QED BY <2>1, SomeWarpGroup, R!AcquiredStageIsFree
<1>3. b # NoBlock BY NoBlockAssumption
<1>4. /\ q \in PipelineStorage(Block)
      /\ q.full = p.full /\ q.empty = p.empty /\ q.arrived = p.arrived /\ q.data = p.data
      /\ q.load = [p.load EXCEPT ![i] = b]
  BY <1>1 DEF Issue, PipelineStorage
<1> HIDE DEF q
<1>5. DataPositions(q) = DataPositions(p) BY <1>4 DEF DataPositions
<1>6. LoadPositions(q) = [LoadPositions(p) EXCEPT ![i] = w]
  <2>1. ASSUME NEW s \in Stages PROVE LoadPositions(q)[s] = [LoadPositions(p) EXCEPT ![i] = w][s]
    <3>1. p.load \in [Stages -> Block \cup {NoBlock}] BY <1>1 DEF PipelineStorage
    <3>2. CASE s = i
      <4>1. q.load[s] = b /\ q.full[s] = w.lap BY <1>2, <1>4, <3>1, <3>2
      <4>2. LoadPositions(q)[s] = [index |-> i, lap |-> w.lap]
        BY <1>3, <3>2, <4>1 DEF LoadPositions
      <4> QED BY <1>1, <3>2, <4>2 DEF LoadPositions
    <3>3. CASE s # i
      <4>1. q.load[s] = p.load[s] /\ q.full[s] = p.full[s] BY <1>4, <3>1, <3>3
      <4> QED BY <3>3, <4>1 DEF LoadPositions
    <3> QED BY <3>2, <3>3
  <2> QED BY <2>1 DEF LoadPositions
<1>7. ByPosition(q) = [full |-> p.full, empty |-> p.empty, arrived |-> p.arrived,
                       load |-> [LoadPositions(p) EXCEPT ![i] = w], data |-> DataPositions(p)]
  BY <1>4, <1>5, <1>6, ByPositionFields
<1>8. ByPosition(p) = [full |-> p.full, empty |-> p.empty, arrived |-> p.arrived,
                       load |-> LoadPositions(p), data |-> DataPositions(p)]
  BY <1>1, ByPositionFields
<1>9. Issue(ByPosition(p), w, w) = ByPosition(q) BY <1>7, <1>8 DEF Issue
<1> QED BY <1>8, <1>9 DEF q, AcquireReady

LEMMA LandByPosition ==
  ASSUME NEW p \in PipelineStorage(Block), NEW s \in Stages, p.load[s] # NoBlock
  PROVE  /\ ByPosition(p).load[s] # NoBlock
         /\ ByPosition(Land(p, s)) = Land(ByPosition(p), s)
<1> DEFINE q == Land(p, s)
           position == [index |-> s, lap |-> p.full[s]]
<1>1. /\ p.full \in [Stages -> Nat] /\ p.load \in [Stages -> Block \cup {NoBlock}]
      /\ p.data \in [Stages -> Block \cup {NoBlock}]
  BY DEF PipelineStorage
<1>2. /\ q \in PipelineStorage(Block)
      /\ q.full = [p.full EXCEPT ![s] = p.full[s] + 1] /\ q.empty = p.empty
      /\ q.arrived = p.arrived /\ q.load = [p.load EXCEPT ![s] = NoBlock]
  <2> DEFINE full == [p.full EXCEPT ![s] = p.full[s] + 1]
             load == [p.load EXCEPT ![s] = NoBlock]
             data == [p.data EXCEPT ![s] = p.load[s]]
  <2>1. /\ full \in [Stages -> Nat] /\ load \in [Stages -> Block \cup {NoBlock}]
        /\ data \in [Stages -> Block \cup {NoBlock}]
    BY <1>1
  <2>2. q = [p EXCEPT !.full = full, !.data = data, !.load = load] BY DEF Land
  <2> HIDE DEF full, load, data, q
  <2>3. /\ q \in PipelineStorage(Block)
        /\ q.full = full /\ q.empty = p.empty /\ q.arrived = p.arrived /\ q.load = load
    BY <2>1, <2>2 DEF PipelineStorage
  <2> QED BY <2>3 DEF full, load
<1> HIDE DEF q
<1>3. LoadPositions(q) = [LoadPositions(p) EXCEPT ![s] = NoBlock]
  BY <1>1, <1>2 DEF LoadPositions
<1>4. LoadPositions(p)[s] = position BY DEF LoadPositions
<1>5. DataPositions(q) = [DataPositions(p) EXCEPT ![s] = position]
  <2>1. ASSUME NEW t \in Stages
        PROVE  DataPositions(q)[t] = [DataPositions(p) EXCEPT ![s] = position][t]
    <3>1. CASE t = s
      <4>1. q.full[t] = p.full[s] + 1 BY <1>1, <1>2, <3>1
      <4>2. p.full[s] \in Nat BY <1>1
      <4>3. q.full[t] # 0 /\ q.full[t] - 1 = p.full[s] BY <4>1, <4>2
      <4>4. DataPositions(q)[t] = position BY <3>1, <4>3 DEF DataPositions
      <4> QED BY <3>1, <4>4 DEF DataPositions
    <3>2. CASE t # s
      <4>1. q.full[t] = p.full[t] BY <1>1, <1>2, <3>2
      <4> QED BY <3>2, <4>1 DEF DataPositions
    <3> QED BY <3>1, <3>2
  <2> QED BY <2>1 DEF DataPositions
<1>6. position # NoBlock
  BY <1>1, NoBlockAssumption DEF PipelineState
<1>7. ByPosition(q) = [full |-> [p.full EXCEPT ![s] = p.full[s] + 1], empty |-> p.empty,
                       arrived |-> p.arrived,
                       load |-> [LoadPositions(p) EXCEPT ![s] = NoBlock],
                       data |-> [DataPositions(p) EXCEPT ![s] = position]]
  BY <1>2, <1>3, <1>5, ByPositionFields
<1>8. ByPosition(p) = [full |-> p.full, empty |-> p.empty, arrived |-> p.arrived,
                       load |-> LoadPositions(p), data |-> DataPositions(p)]
  BY ByPositionFields
<1> HIDE DEF position
<1>9. Land(ByPosition(p), s) = ByPosition(q)
  <2> DEFINE b == ByPosition(p)
  <2>1. /\ b.full = p.full /\ b.load = LoadPositions(p) /\ b.data = DataPositions(p)
        /\ b.empty = p.empty /\ b.arrived = p.arrived
    BY <1>8
  <2>2. Land(b, s) = Replaced(b, [b.full EXCEPT ![s] = b.full[s] + 1],
                                 [b.load EXCEPT ![s] = NoBlock], [b.data EXCEPT ![s] = b.load[s]])
    BY DEF Land, Replaced
  <2> HIDE DEF b
  <2>3. b = [full |-> p.full, empty |-> p.empty, arrived |-> p.arrived,
             load |-> LoadPositions(p), data |-> DataPositions(p)]
    BY <1>8 DEF b
  <2>4. ASSUME NEW full, NEW load, NEW data
        PROVE  Replaced(b, full, load, data) =
                 [full |-> full, empty |-> p.empty, arrived |-> p.arrived,
                  load |-> load, data |-> data]
    BY <2>3, ReplacedFields
  <2>5. Land(b, s) = [full |-> [b.full EXCEPT ![s] = b.full[s] + 1], empty |-> p.empty,
                      arrived |-> p.arrived, load |-> [b.load EXCEPT ![s] = NoBlock],
                      data |-> [b.data EXCEPT ![s] = b.load[s]]]
    BY <2>2, <2>4
  <2> QED BY <1>4, <1>7, <2>1, <2>5 DEF b
<1> QED BY <1>4, <1>6, <1>8, <1>9 DEF q

(* A release changes the arrivals and the count of one empty barrier.      *)
LEMMA ReleaseByPosition ==
  ASSUME NEW p \in PipelineStorage(Block), NEW st \in PipelineState, NEW c \in WarpGroups
  PROVE  ByPosition(Release(p, st, c)) = Release(ByPosition(p), st, c)
<1> DEFINE i == st.index
           all == p.arrived[i] \cup {c} = WarpGroups
           arrived == [p.arrived EXCEPT ![i] = IF all THEN {} ELSE p.arrived[i] \cup {c}]
           empty == [p.empty EXCEPT ![i] = IF all THEN p.empty[i] + 1 ELSE p.empty[i]]
           released == [full |-> p.full, empty |-> empty, arrived |-> arrived,
                        load |-> p.load, data |-> p.data]
<1>1. ByPosition(p) = [full |-> p.full, empty |-> p.empty, arrived |-> p.arrived,
                       load |-> LoadPositions(p), data |-> DataPositions(p)]
  BY ByPositionFields
<1>2. i \in Stages BY DEF PipelineState
<1>3. /\ p.full \in [Stages -> Nat] /\ p.empty \in [Stages -> Nat]
      /\ p.arrived \in [Stages -> SUBSET WarpGroups]
      /\ p.load \in [Stages -> Block \cup {NoBlock}] /\ p.data \in [Stages -> Block \cup {NoBlock}]
  BY DEF PipelineStorage
<1>4. empty \in [Stages -> Nat] /\ arrived \in [Stages -> SUBSET WarpGroups] BY <1>2, <1>3
<1>5. ~all => empty = p.empty BY <1>3
<1>6. ASSUME NEW load, NEW data, NEW q,
             q = [full |-> p.full, empty |-> p.empty, arrived |-> p.arrived,
                  load |-> load, data |-> data]
      PROVE  Release(q, st, c) = [full |-> p.full, empty |-> empty, arrived |-> arrived,
                                  load |-> load, data |-> data]
  <2>1. CASE all
    <3>1. /\ empty = [p.empty EXCEPT ![i] = p.empty[i] + 1]
          /\ arrived = [p.arrived EXCEPT ![i] = {}]
      BY <2>1
    <3> HIDE DEF empty, arrived
    <3>2. Release(q, st, c) = [q EXCEPT !.arrived = arrived, !.empty = empty]
      BY <1>6, <2>1, <3>1 DEF Release
    <3> QED BY <1>6, <3>2
  <2>2. CASE ~all
    <3>1. arrived = [p.arrived EXCEPT ![i] = p.arrived[i] \cup {c}] BY <2>2
    <3>2. empty = p.empty BY <1>5, <2>2
    <3> HIDE DEF empty, arrived
    <3>3. Release(q, st, c) = [q EXCEPT !.arrived = arrived]
      BY <1>6, <2>2, <3>1 DEF Release
    <3> QED BY <1>6, <3>2, <3>3
  <2> QED BY <2>1, <2>2
<1> HIDE DEF empty, arrived, all
<1>7. Release(p, st, c) = released BY <1>6, StorageRecord
<1>8. Release(ByPosition(p), st, c) =
        [full |-> p.full, empty |-> empty, arrived |-> arrived,
         load |-> LoadPositions(p), data |-> DataPositions(p)]
  BY <1>1, <1>6
<1>9. /\ released \in PipelineStorage(Block)
      /\ LoadPositions(released) = LoadPositions(p) /\ DataPositions(released) = DataPositions(p)
  BY <1>3, <1>4 DEF PipelineStorage, LoadPositions, DataPositions
<1> QED BY <1>7, <1>8, <1>9, ByPositionFields

LEMMA MoveIsRingStep ==
  ASSUME NEW p, NEW w, NEW r, NEW reading, R!Ring(p, w, r, reading, Block),
         NEW p2, NEW w2, NEW r2, NEW reading2, RingMove(p, w, r, reading, p2, w2, r2, reading2)
  PROVE  RingStep(ByPosition(p), w, r, reading, ByPosition(p2), w2, r2, reading2)
<1>1. /\ p \in PipelineStorage(Block) /\ w.lap \in Nat /\ reading \subseteq WarpGroups
      /\ r \in [WarpGroups -> PipelineState]
      /\ \A c \in WarpGroups : r[c].index \in Stages /\ r[c].lap \in Nat
  BY RingFields
<1>2. ByPosition(p).full = p.full BY <1>1, ByPositionFields
<1>3. ASSUME NEW b \in Block, AcquireReady(p, w), p2 = Issue(p, w, b), w2 = Advance(w),
             r2 = r, reading2 = reading
      PROVE  RingStep(ByPosition(p), w, r, reading, ByPosition(p2), w2, r2, reading2)
  BY <1>1, <1>3, IssueByPosition DEF RingStep
<1>4. ASSUME NEW s \in Stages, p.load[s] # NoBlock, p2 = Land(p, s),
             w2 = w, r2 = r, reading2 = reading
      PROVE  RingStep(ByPosition(p), w, r, reading, ByPosition(p2), w2, r2, reading2)
  BY <1>1, <1>4, LandByPosition DEF RingStep
<1>5. ASSUME NEW c \in WarpGroups, r[c].lap < p.full[r[c].index],
             reading2 = reading \cup {c}, p2 = p, w2 = w, r2 = r
      PROVE  RingStep(ByPosition(p), w, r, reading, ByPosition(p2), w2, r2, reading2)
  <2>1. CASE c \in reading
    <3>1. reading2 = reading BY <1>5, <2>1
    <3> QED BY <1>5, <3>1 DEF RingStep
  <2>2. CASE c \notin reading
    <3>1. p.full[r[c].index] = r[c].lap + 1 BY <1>5, SomeWarpGroup, R!ReadStageIsHeld
    <3>2. FullReady(ByPosition(p), r[c])
      BY <1>1, <1>2, <3>1 DEF FullReady, PhaseOver, ConsumerPhase
    <3> QED BY <1>5, <2>2, <3>2 DEF RingStep
  <2> QED BY <2>1, <2>2
<1>6. ASSUME NEW c \in reading, p2 = Release(p, r[c], c), r2 = [r EXCEPT ![c] = Advance(r[c])],
             reading2 = reading \ {c}, w2 = w
      PROVE  RingStep(ByPosition(p), w, r, reading, ByPosition(p2), w2, r2, reading2)
  <2>1. c \in WarpGroups /\ r[c] \in PipelineState BY <1>1
  <2>2. ByPosition(p2) = Release(ByPosition(p), r[c], c) BY <1>1, <1>6, <2>1, ReleaseByPosition
  <2> QED BY <1>6, <2>1, <2>2 DEF RingStep
<1>7. ASSUME NEW data \in [Stages -> Block \cup {NoBlock}], p2 = [p EXCEPT !.data = data],
             w2 = w, r2 = r, reading2 = reading
      PROVE  RingStep(ByPosition(p), w, r, reading, ByPosition(p2), w2, r2, reading2)
  <2>1. /\ p2 \in PipelineStorage(Block)
        /\ p2.full = p.full /\ p2.empty = p.empty /\ p2.arrived = p.arrived /\ p2.load = p.load
    BY <1>1, <1>7 DEF PipelineStorage
  <2>2. LoadPositions(p2) = LoadPositions(p) /\ DataPositions(p2) = DataPositions(p)
    BY <2>1 DEF LoadPositions, DataPositions
  <2>3. ByPosition(p2) = ByPosition(p) BY <1>1, <2>1, <2>2, ByPositionFields
  <2> QED BY <1>7, <2>3 DEF RingStep
<1>8. ASSUME p2 = p, w2 = w, r2 = r, reading2 = reading
      PROVE  RingStep(ByPosition(p), w, r, reading, ByPosition(p2), w2, r2, reading2)
  BY <1>8 DEF RingStep
<1> QED BY <1>3, <1>4, <1>5, <1>6, <1>7, <1>8 DEF RingMove

LEMMA SameRings ==
  ASSUME NEW p, NEW st, NEW x, NEW s
  PROVE  /\ KRing!Issue(p, st, x) = Issue(p, st, x) /\ VRing!Issue(p, st, x) = Issue(p, st, x)
         /\ KRing!Land(p, s) = Land(p, s) /\ VRing!Land(p, s) = Land(p, s)
         /\ KRing!Release(p, st, x) = Release(p, st, x)
         /\ VRing!Release(p, st, x) = Release(p, st, x)
         /\ KRing!Advance(st) = Advance(st) /\ VRing!Advance(st) = Advance(st)
         /\ KRing!FullReady(p, st) = FullReady(p, st) /\ VRing!FullReady(p, st) = FullReady(p, st)
         /\ KRing!AcquireReady(p, st) = AcquireReady(p, st)
         /\ VRing!AcquireReady(p, st) = AcquireReady(p, st)
         /\ KRing!Stages = Stages /\ VRing!Stages = Stages
         /\ KRing!EmptyPipeline = EmptyPipeline /\ VRing!EmptyPipeline = EmptyPipeline
         /\ KRing!StartState = StartState /\ VRing!StartState = StartState
<1>1. /\ KRing!Issue(p, st, x) = Issue(p, st, x) /\ VRing!Issue(p, st, x) = Issue(p, st, x)
      /\ KRing!Land(p, s) = Land(p, s) /\ VRing!Land(p, s) = Land(p, s)
      /\ KRing!Advance(st) = Advance(st) /\ VRing!Advance(st) = Advance(st)
      /\ KRing!StartState = StartState /\ VRing!StartState = StartState
      /\ KRing!Stages = Stages /\ VRing!Stages = Stages
      /\ KRing!EmptyPipeline = EmptyPipeline /\ VRing!EmptyPipeline = EmptyPipeline
  BY DEF Issue, KRing!Issue, VRing!Issue, Land, KRing!Land, VRing!Land, Advance, KRing!Advance,
         VRing!Advance, StartState, KRing!StartState, VRing!StartState, Stages, KRing!Stages,
         VRing!Stages, EmptyPipeline, KRing!EmptyPipeline, VRing!EmptyPipeline
<1>2. /\ KRing!Release(p, st, x) = Release(p, st, x)
      /\ VRing!Release(p, st, x) = Release(p, st, x)
  BY DEF Release, KRing!Release, VRing!Release
<1>3. /\ KRing!FullReady(p, st) = FullReady(p, st) /\ VRing!FullReady(p, st) = FullReady(p, st)
      /\ KRing!AcquireReady(p, st) = AcquireReady(p, st)
      /\ VRing!AcquireReady(p, st) = AcquireReady(p, st)
  BY DEF FullReady, KRing!FullReady, VRing!FullReady, AcquireReady, KRing!AcquireReady,
         VRing!AcquireReady, PhaseOver, KRing!PhaseOver, VRing!PhaseOver, ConsumerPhase,
         KRing!ConsumerPhase, VRing!ConsumerPhase, ProducerPhase, KRing!ProducerPhase,
         VRing!ProducerPhase
<1> QED BY <1>1, <1>2, <1>3

LEMMA VReadersAre ==
  ASSUME TypeOK
  PROVE  {g \in WarpGroups : \E s \in Stages : ReadingV(g, s)} = VReaders
<1>1. ASSUME NEW g \in WarpGroups, g \in VReaders PROVE \E s \in Stages : ReadingV(g, s)
  <2>1. wg[g].read.index \in Stages /\ wg[g].read_v.index \in Stages
    BY DEF TypeOK, PipelineState
  <2> QED BY <1>1, <2>1 DEF VReaders, ReadingV
<1> QED BY <1>1, VReaderOf DEF VReaders

LEMMA VReadersWillBe ==
  ASSUME TypeOK'
  PROVE  {g \in WarpGroups : \E s \in Stages : ReadingV(g, s)}' = VReaders'
<1>1. ASSUME NEW g \in WarpGroups, g \in VReaders' PROVE \E s \in Stages : ReadingV(g, s)'
  <2>1. wg'[g].read.index \in Stages /\ wg'[g].read_v.index \in Stages
    BY DEF TypeOK, PipelineState
  <2> QED BY <1>1, <2>1 DEF VReaders, ReadingV
<1> QED BY <1>1 DEF VReaders, ReadingV

LEMMA KStepIsRingStep ==
  ASSUME RingStep(ByPosition(kpipe), WriteK, KPositions, KReaders,
                  ByPosition(kpipe)', WriteK', KPositions', KReaders')
  PROVE  [KRing!Next]_(KRing!vars)
<1> DEFINE q == ByPosition(kpipe)
<1>1. CASE /\ WriteK.lap \in Nat /\ AcquireReady(q, WriteK)
           /\ q' = Issue(q, WriteK, WriteK) /\ WriteK' = Advance(WriteK)
           /\ KPositions' = KPositions /\ KReaders' = KReaders
  <2>1. KRing!ProducerLoad BY <1>1, SameRings DEF KRing!ProducerLoad, KPositions, KReaders
  <2> QED BY <2>1 DEF KRing!Next
<1>2. ASSUME NEW s \in Stages, q.load[s] # NoBlock, q' = Land(q, s),
             WriteK' = WriteK, KPositions' = KPositions, KReaders' = KReaders
      PROVE  [KRing!Next]_(KRing!vars)
  <2>1. s \in KRing!Stages BY SameRings
  <2>2. KRing!TmaLand(s) BY <1>2, SameRings DEF KRing!TmaLand, KPositions, KReaders
  <2> QED BY <2>1, <2>2 DEF KRing!Next
<1>3. ASSUME NEW c \in WarpGroups, c \notin KReaders, FullReady(q, KPositions[c]),
             KReaders' = KReaders \cup {c}, q' = q, WriteK' = WriteK, KPositions' = KPositions
      PROVE  [KRing!Next]_(KRing!vars)
  <2>1. KRing!ConsumerWait(c) BY <1>3, SameRings DEF KRing!ConsumerWait, KPositions, KReaders
  <2> QED BY <2>1 DEF KRing!Next
<1>4. ASSUME NEW c \in WarpGroups, c \in KReaders, q' = Release(q, KPositions[c], c),
             KPositions' = [KPositions EXCEPT ![c] = Advance(KPositions[c])],
             KReaders' = KReaders \ {c}, WriteK' = WriteK
      PROVE  [KRing!Next]_(KRing!vars)
  <2>1. KRing!ConsumerRelease(c)
    BY <1>4, SameRings DEF KRing!ConsumerRelease, KPositions, KReaders
  <2> QED BY <2>1 DEF KRing!Next
<1>5. CASE q' = q /\ WriteK' = WriteK /\ KPositions' = KPositions /\ KReaders' = KReaders
  BY <1>5 DEF KRing!vars, KPositions, KReaders
<1> QED BY <1>1, <1>2, <1>3, <1>4, <1>5 DEF RingStep

LEMMA VStepIsRingStep ==
  ASSUME TypeOK, TypeOK',
         RingStep(ByPosition(vpipe), WriteV, VPositions, VReaders,
                  ByPosition(vpipe)', WriteV', VPositions', VReaders')
  PROVE  [VRing!Next]_(VRing!vars)
<1> DEFINE q == ByPosition(vpipe)
           readers == {g \in WarpGroups : \E s \in Stages : ReadingV(g, s)}
<1>0. readers = VReaders /\ readers' = VReaders' BY VReadersAre, VReadersWillBe
<1>1. CASE /\ WriteV.lap \in Nat /\ AcquireReady(q, WriteV)
           /\ q' = Issue(q, WriteV, WriteV) /\ WriteV' = Advance(WriteV)
           /\ VPositions' = VPositions /\ VReaders' = VReaders
  <2>1. VRing!ProducerLoad BY <1>0, <1>1, SameRings DEF VRing!ProducerLoad, VPositions
  <2> QED BY <2>1 DEF VRing!Next
<1>2. ASSUME NEW s \in Stages, q.load[s] # NoBlock, q' = Land(q, s),
             WriteV' = WriteV, VPositions' = VPositions, VReaders' = VReaders
      PROVE  [VRing!Next]_(VRing!vars)
  <2>1. s \in VRing!Stages BY SameRings
  <2>2. VRing!TmaLand(s) BY <1>0, <1>2, SameRings DEF VRing!TmaLand, VPositions
  <2> QED BY <2>1, <2>2 DEF VRing!Next
<1>3. ASSUME NEW c \in WarpGroups, c \notin VReaders, FullReady(q, VPositions[c]),
             VReaders' = VReaders \cup {c}, q' = q, WriteV' = WriteV, VPositions' = VPositions
      PROVE  [VRing!Next]_(VRing!vars)
  <2>1. VRing!ConsumerWait(c) BY <1>0, <1>3, SameRings DEF VRing!ConsumerWait, VPositions
  <2> QED BY <2>1 DEF VRing!Next
<1>4. ASSUME NEW c \in WarpGroups, c \in VReaders, q' = Release(q, VPositions[c], c),
             VPositions' = [VPositions EXCEPT ![c] = Advance(VPositions[c])],
             VReaders' = VReaders \ {c}, WriteV' = WriteV
      PROVE  [VRing!Next]_(VRing!vars)
  <2>1. VRing!ConsumerRelease(c)
    BY <1>0, <1>4, SameRings DEF VRing!ConsumerRelease, VPositions
  <2> QED BY <2>1 DEF VRing!Next
<1>5. CASE q' = q /\ WriteV' = WriteV /\ VPositions' = VPositions /\ VReaders' = VReaders
  BY <1>0, <1>5 DEF VRing!vars, VPositions
<1> QED BY <1>1, <1>2, <1>3, <1>4, <1>5 DEF RingStep

LEMMA RingsStart ==
  ASSUME Init
  PROVE  KRing!Init /\ VRing!Init
<1> DEFINE readers == {g \in WarpGroups : \E s \in Stages : ReadingV(g, s)}
<1>1. /\ kpipe = EmptyPipeline /\ vpipe = EmptyPipeline
      /\ WriteK = StartState /\ WriteV = StartState
      /\ \A g \in WarpGroups : ReadK(g) = StartState /\ ReadV(g) = StartState /\ ~ReadingQK(g)
      /\ readers = {}
  BY DEF Init, WriteK, WriteV, ReadK, ReadV, ReadingQK, ReadingV
<1>2. ByPosition(EmptyPipeline) = EmptyPipeline
  <2>1. EmptyPipeline \in PipelineStorage(Block) BY DEF EmptyPipeline, PipelineStorage
  <2>2. LoadPositions(EmptyPipeline) = [s \in Stages |-> NoBlock]
    BY DEF LoadPositions, EmptyPipeline
  <2>3. DataPositions(EmptyPipeline) = [s \in Stages |-> NoBlock]
    BY DEF DataPositions, EmptyPipeline
  <2> QED BY <2>1, <2>2, <2>3, ByPositionFields DEF EmptyPipeline
<1> HIDE DEF readers
<1>3. KRing!Init BY <1>1, <1>2, SameRings DEF KRing!Init
<1>4. VRing!Init BY <1>1, <1>2, SameRings DEF VRing!Init, readers
<1> QED BY <1>3, <1>4

(* Each pipeline of the CTA is a behaviour of TmaRing, whatever stands     *)
(* between the two: a gemm begins only on a full stage, even where the     *)
(* code leaves the wait to the first warpgroup; a copy is issued only into *)
(* a stage that everybody has released, and nobody releases one twice.     *)
THEOREM PipelinesImplementRings == Spec => PipelinesAreRings
<1>1. Init => KRing!Init /\ VRing!Init BY RingsStart
<1>2. Places /\ Places' /\ TurnsInOrder /\ KIsRing /\ VIsRing /\ [Next]_vars =>
        [KRing!Next]_(KRing!vars) /\ [VRing!Next]_(VRing!vars)
  <2> SUFFICES ASSUME Places, Places', TurnsInOrder, KIsRing, VIsRing, [Next]_vars
               PROVE  [KRing!Next]_(KRing!vars) /\ [VRing!Next]_(VRing!vars)
    OBVIOUS
  <2>1. KMoves /\ VMoves BY RingsMove
  <2>2. RingStep(ByPosition(kpipe), WriteK, KPositions, KReaders,
                 ByPosition(kpipe)', WriteK', KPositions', KReaders')
    BY <2>1, MoveIsRingStep DEF KMoves, KIsRing
  <2>3. RingStep(ByPosition(vpipe), WriteV, VPositions, VReaders,
                 ByPosition(vpipe)', WriteV', VPositions', VReaders')
    BY <2>1, MoveIsRingStep DEF VMoves, VIsRing
  <2>4. TypeOK /\ TypeOK' BY DEF Places
  <2> QED BY <2>2, <2>3, <2>4, KStepIsRingStep, VStepIsRingStep
<1> QED BY <1>1, <1>2, PlacesAlways, TurnsAlways, RingsAlways, PTL
        DEF Spec, PipelinesAreRings, KRing!Spec, VRing!Spec

-----------------------------------------------------------------------------
(* The blocks a tile's split attends to, by MainloopFwdRefinement's own    *)
(* definition, are those the producer loads.                               *)

LEMMA DivIs ==
  ASSUME NEW x \in Nat, NEW p \in Nat \ {0}, NEW s \in Nat
  PROVE  x \div p = s <=> (s * p <= x /\ x < s * p + p)
<1> DEFINE d == x \div p
<1>1. d \in Nat /\ x % p \in 0 .. p - 1 /\ x = p * d + (x % p)
  OBVIOUS
<1>2. d * p \in Nat /\ s * p \in Nat /\ d * p <= x /\ x < d * p + p
  BY <1>1
<1> HIDE DEF d
<1>3. d < s => d * p + p <= s * p BY <1>1, ProductMonotone
<1>4. s < d => s * p + p <= d * p BY <1>1, ProductMonotone
<1>5. d = s <=> (s * p <= x /\ x < s * p + p) BY <1>1, <1>2, <1>3, <1>4
<1> QED BY <1>5 DEF d

LEMMA SliceInterval ==
  ASSUME NEW idx \in Nat, NEW n \in Nat \ {0}, NEW total \in Nat
  PROVE  {x \in 0 .. total - 1 : x \div CeilDiv(total, n) = idx} =
           Slice(idx, n, total).begin ..
             (Slice(idx, n, total).begin + Slice(idx, n, total).num - 1)
<1> DEFINE r == Slice(idx, n, total)
           p == CeilDiv(total, n)
<1>1. r.begin \in Nat /\ r.num \in Nat /\ (r.num > 0 => r.begin + r.num <= total)
  <2>1. total \in Int OBVIOUS
  <2> QED BY <2>1, SliceInside
<1>2. CASE total = 0
  <2> HIDE DEF r
  <2>1. r.num = 0 BY <1>1, <1>2
  <2>2. 0 .. total - 1 = {} BY <1>2
  <2>3. r.begin .. (r.begin + r.num - 1) = {} BY <1>1, <2>1
  <2>4. {x \in 0 .. total - 1 : x \div p = idx} = r.begin .. (r.begin + r.num - 1)
    BY <2>2, <2>3
  <2> QED BY <2>4 DEF r, p
<1>3. CASE total # 0
  <2>1. /\ p \in Nat \ {0}
        /\ \A x \in 0 .. total - 1 : Covers(r, x) <=> (idx * p <= x /\ x < idx * p + p)
    BY <1>3, SliceBounds
  <2>2. \A x \in 0 .. total - 1 : x \div p = idx <=> (idx * p <= x /\ x < idx * p + p)
    BY <2>1, DivIs
  <2> HIDE DEF p
  <2>3. \A x \in 0 .. total - 1 : x \div p = idx <=> Covers(r, x)
    BY <2>1, <2>2
  <2> HIDE DEF r
  <2>4. \A x \in r.begin .. (r.begin + r.num - 1) : x \in 0 .. total - 1
    BY <1>1
  <2>5. {x \in 0 .. total - 1 : x \div p = idx} = {x \in 0 .. total - 1 : Covers(r, x)}
    BY <2>3
  <2>6. {x \in 0 .. total - 1 : Covers(r, x)} = r.begin .. (r.begin + r.num - 1)
    BY <1>1, <2>4 DEF Covers
  <2>7. {x \in 0 .. total - 1 : x \div p = idx} = r.begin .. (r.begin + r.num - 1)
    BY <2>5, <2>6
  <2> QED BY <2>7 DEF r, p
<1> QED BY <1>2, <1>3

(* An interval in ascending order.                                         *)
LEMMA AscendingInterval ==
  ASSUME NEW a \in Nat, NEW n \in Nat
  PROVE  /\ Len(Ascending(a .. (a + n - 1))) = n
         /\ Ascending(a .. (a + n - 1)) = [i \in 1 .. n |-> a + i - 1]
<1> DEFINE P == a .. (a + n - 1)
           c(i) == CHOOSE x \in P : Cardinality({y \in P : y < x}) = i - 1
<1>1. Cardinality(P) = n
  <2>1. a \in Int /\ a + n - 1 \in Int OBVIOUS
  <2>2. Cardinality(P) = IF a > a + n - 1 THEN 0 ELSE (a + n - 1) - a + 1
    BY <2>1, FS_Interval
  <2> QED BY <2>2
<1>2. ASSUME NEW x \in P PROVE Cardinality({y \in P : y < x}) = x - a
  <2>1. {y \in P : y < x} = a .. (x - 1) OBVIOUS
  <2>2. a \in Int /\ x - 1 \in Int /\ x >= a /\ x \in Int OBVIOUS
  <2>3. Cardinality(a .. (x - 1)) = IF a > x - 1 THEN 0 ELSE (x - 1) - a + 1
    BY <2>2, FS_Interval
  <2> HIDE DEF P
  <2>4. Cardinality(a .. (x - 1)) = x - a BY <2>2, <2>3
  <2> QED BY <2>1, <2>4
<1>3. ASSUME NEW i \in 1 .. n PROVE c(i) = a + i - 1
  <2>1. a + i - 1 \in P OBVIOUS
  <2>2. \A x \in P : Cardinality({y \in P : y < x}) = i - 1 <=> x = a + i - 1
    <3>1. \A x \in P : x \in Int OBVIOUS
    <3> HIDE DEF P
    <3> QED BY <1>2, <3>1
  <2> HIDE DEF P
  <2> QED BY <2>1, <2>2
<1>4. Ascending(P) = [i \in 1 .. n |-> c(i)] BY <1>1 DEF Ascending
<1>5. Ascending(P) = [i \in 1 .. n |-> a + i - 1] BY <1>3, <1>4
<1>6. Len([i \in 1 .. n |-> a + i - 1]) = n OBVIOUS
<1> QED BY <1>5, <1>6

TileTerms(t, n) == [j \in 1 .. n |-> [q |-> t, k |-> BlockOf(t, j), v |-> BlockOf(t, j)]]

(* The positions of a tile's blocks, and how many there are.               *)
LEMMA PositionsAre ==
  ASSUME launch \in LaunchSpace, NEW t \in Tiles
  PROVE  LET tile  == launch.tiles[t]
             begin == IF ~launch.Split THEN 0
                      ELSE SplitRange(tile.split_idx, launch.num_splits, Total(launch, t)).begin
         IN Positions(launch, t) = begin .. (begin + MmaCount(t) - 1) /\ begin \in Nat
<1> DEFINE tile  == launch.tiles[t]
           total == Total(launch, t)
           n     == NumSplitsActual(tile.split_idx, launch.num_splits)
           idx   == tile.split_idx % SplitBits
           r     == SplitRange(tile.split_idx, launch.num_splits, total)
           begin == IF ~launch.Split THEN 0 ELSE r.begin
<1>1. /\ tile.split_idx \in Nat /\ tile.n_min \in Nat /\ tile.n_max \in Nat
      /\ launch.num_splits \in Nat \ {0} /\ launch.table \in Seq(Nat)
  BY LaunchFields
<1>2. total \in Nat
  <2>1. Len(launch.table) \in Nat BY <1>1
  <2> QED BY <1>1, <2>1 DEF Total, Greater
<1>3. idx \in Nat /\ n \in Nat \ {0}
  <2> HIDE DEF tile
  <2> QED BY <1>1 DEF NumSplitsActual, SplitBits
<1>4. r = Slice(idx, n, total) BY DEF SplitRange
<1>5. CASE launch.Split
  <2>1. MmaCount(t) = r.num
    <3>1. CASE launch.sparse BY <1>5, <3>1 DEF MmaCount, SparseRange, Total
    <3>2. CASE ~launch.sparse
      <4> DEFINE m == tile.n_max - tile.n_min
      <4>1. MmaCount(t) = SplitRange(tile.split_idx, launch.num_splits, m).num
        BY <1>5, <3>2 DEF MmaCount, DenseRange
      <4>2. total = IF 0 >= m THEN 0 ELSE m BY <3>2 DEF Total, Greater
      <4>3. CASE m > 0 BY <1>1, <4>1, <4>2, <4>3
      <4>4. CASE ~(m > 0)
        <5>1. m \in Int /\ m <= 0 /\ total = 0 BY <1>1, <4>2, <4>4
        <5> HIDE DEF m, tile, n, idx
        <5>2. Slice(idx, n, m).num = 0 /\ Slice(idx, n, 0).num = 0
          <6>1. /\ Slice(idx, n, m).num \in Nat
                /\ Slice(idx, n, m).begin \in Nat
                /\ Slice(idx, n, m).num > 0 => Slice(idx, n, m).begin + Slice(idx, n, m).num <= m
            BY <1>3, <5>1, SliceInside
          <6>2. /\ Slice(idx, n, 0).num \in Nat
                /\ Slice(idx, n, 0).begin \in Nat
                /\ Slice(idx, n, 0).num > 0 => Slice(idx, n, 0).begin + Slice(idx, n, 0).num <= 0
            BY <1>3, SliceInside
          <6> QED BY <5>1, <6>1, <6>2
        <5>3. SplitRange(tile.split_idx, launch.num_splits, m) = Slice(idx, n, m)
          BY DEF SplitRange, n, idx, tile
        <5> QED BY <1>4, <4>1, <5>1, <5>2, <5>3
      <4> QED BY <4>3, <4>4
    <3> QED BY <3>1, <3>2
  <2>2. Positions(launch, t) = {x \in 0 .. total - 1 : x \div CeilDiv(total, n) = idx}
    BY <1>5 DEF Positions
  <2>3. r.begin \in Nat
    <3>1. total \in Int BY <1>2
    <3> HIDE DEF n, idx, total, r
    <3> QED BY <1>3, <1>4, <3>1, SliceInside
  <2> HIDE DEF n, idx, r
  <2>4. Positions(launch, t) = r.begin .. (r.begin + r.num - 1)
    BY <1>2, <1>3, <1>4, <2>2, SliceInterval
  <2> QED BY <1>5, <2>1, <2>3, <2>4 DEF r
<1>6. CASE ~launch.Split
  <2>1. MmaCount(t) = total
    BY <1>6 DEF MmaCount, SparseRange, DenseRange, Total
  <2>2. Positions(launch, t) = 0 .. total - 1 BY <1>6 DEF Positions
  <2>3. 0 .. total - 1 = 0 .. (0 + total - 1) BY <1>2
  <2> HIDE DEF total
  <2> QED BY <1>6, <2>1, <2>2, <2>3
<1> QED BY <1>5, <1>6

LEMMA TileBlocksAreLoaded ==
  ASSUME launch \in LaunchSpace, NEW t \in Tiles
  PROVE  TileBlocks(launch, t) = LoadBlocks(t)
<1> DEFINE tile  == launch.tiles[t]
           begin == IF ~launch.Split THEN 0
                    ELSE SplitRange(tile.split_idx, launch.num_splits, Total(launch, t)).begin
           n     == MmaCount(t)
           pos   == Ascending(Positions(launch, t))
<1>1. /\ tile.split_idx \in Nat /\ tile.n_min \in Nat /\ tile.n_max \in Nat
      /\ launch.num_splits \in Nat \ {0} /\ launch.table \in Seq(Nat)
  BY LaunchFields
<1>2. n \in Nat BY TileBlockCounts
<1>3. Positions(launch, t) = begin .. (begin + n - 1) /\ begin \in Nat BY PositionsAre
<1> HIDE DEF begin, n, tile
<1>4. Len(pos) = n /\ pos = [i \in 1 .. n |-> begin + i - 1]
  BY <1>2, <1>3, AscendingInterval
<1> HIDE DEF pos
<1>5. TileBlocks(launch, t) =
        IF launch.sparse THEN [i \in 1 .. n |-> launch.table[pos[i] + 1]]
        ELSE [i \in 1 .. n |-> tile.n_min + pos[n + 1 - i]]
  BY <1>4 DEF TileBlocks, pos, tile
<1>6. \A i \in 1 .. n : pos[i] + 1 = begin + i BY <1>2, <1>3, <1>4
<1>7. \A i \in 1 .. n : pos[n + 1 - i] = begin + n - i BY <1>2, <1>3, <1>4
<1>8. CASE launch.sparse
  <2>1. SparseRange(tile).num = n BY <1>8 DEF MmaCount, n, tile
  <2>2. n > 0 => SparseRange(tile).begin = begin
    BY <1>8 DEF SparseRange, begin, Total, tile
  <2>3. LoadBlocks(t) = [i \in 1 .. n |-> launch.table[SparseRange(tile).begin + i]]
    BY <1>8, <2>1 DEF LoadBlocks, tile
  <2>4. LoadBlocks(t) = [i \in 1 .. n |-> launch.table[begin + i]]
    BY <1>2, <2>2, <2>3
  <2> QED BY <1>5, <1>6, <1>8, <2>4
<1>9. CASE ~launch.sparse
  <2> DEFINE d == DenseRange(tile)
  <2>1. d.num = n BY <1>9 DEF MmaCount, n, tile
  <2>2. n > 0 => d.begin = tile.n_min + begin
    <3>1. CASE launch.Split
      <4> DEFINE m == tile.n_max - tile.n_min
                 e == SplitRange(tile.split_idx, launch.num_splits, m)
      <4>1. d = [begin |-> tile.n_min + e.begin, num |-> e.num] BY <3>1 DEF DenseRange
      <4>2. m \in Int BY <1>1
      <4>3. e.begin \in Nat /\ e.num \in Nat /\ (e.num > 0 => e.begin + e.num <= m)
        <5> HIDE DEF m
        <5> QED BY <1>1, <4>2, SplitRangeInside
      <4>4. begin = SplitRange(tile.split_idx, launch.num_splits, Total(launch, t)).begin
        BY <3>1 DEF begin
      <4>5. Total(launch, t) = IF 0 >= m THEN 0 ELSE m BY <1>9 DEF Total, Greater, tile
      <4> HIDE DEF m
      <4>6. n > 0 => Total(launch, t) = m
        <5> HIDE DEF e
        <5> QED BY <1>2, <2>1, <4>1, <4>2, <4>3, <4>5
      <4> QED BY <4>1, <4>4, <4>6
    <3>2. CASE ~launch.Split BY <1>1, <3>2 DEF DenseRange, begin
    <3> QED BY <3>1, <3>2
  <2>3. LoadBlocks(t) = [i \in 1 .. n |-> d.begin + d.num - i]
    BY <1>9, <2>1 DEF LoadBlocks, tile
  <2> HIDE DEF d
  <2>4. \A i \in 1 .. n : d.begin + d.num - i = tile.n_min + pos[n + 1 - i]
    BY <1>1, <1>2, <1>3, <1>7, <2>1, <2>2
  <2> QED BY <1>5, <1>9, <2>3, <2>4
<1> QED BY <1>8, <1>9

(* A tile's attention: the terms of all its blocks, in the order they are  *)
(* loaded.                                                                 *)
LEMMA AttentionIsTerms ==
  ASSUME launch \in LaunchSpace, NEW t \in Tiles
  PROVE  Attention(launch, t) = TileTerms(t, MmaCount(t))
<1>1. TileBlocks(launch, t) = LoadBlocks(t) BY TileBlocksAreLoaded
<1>2. Len(LoadBlocks(t)) = MmaCount(t) BY TileBlockCounts
<1> QED BY <1>1, <1>2 DEF Attention, TileTerms, BlockOf

LEMMA WorkIsTerms ==
  ASSUME launch \in LaunchSpace, launch \in Launches
  PROVE  Work[launch] = [t \in Tiles |-> TileTerms(t, MmaCount(t))]
<1>1. Work[launch] = [t \in Tiles |-> Attention(launch, t)] BY DEF Work, Tiles
<1> QED BY <1>1, AttentionIsTerms

-----------------------------------------------------------------------------
(* What the stages of the rings hold.                                      *)

(* The n-th block that goes through either ring (counted from 0), for each *)
(* n: the blocks of all tiles one after another.                           *)
Listed(t) == {<<Before(BlockCount, t) + i - 1, BlockOf(t, i)>> : i \in 1 .. MmaCount(t)}
Listing == UNION {Listed(t) : t \in Tiles}

LEMMA ListingFixed ==
  ASSUME launch' = launch
  PROVE  /\ Listing' = Listing
         /\ \A t, i : BlockOf(t, i)' = BlockOf(t, i)
<1>1. Tiles' = Tiles /\ BlockCount' = BlockCount BY LaunchFixed
<1>2. \A t : LoadBlocks(t)' = LoadBlocks(t) /\ MmaCount(t)' = MmaCount(t)
  BY DEF LoadBlocks, MmaCount, SparseRange, DenseRange
<1>3. \A t, i : BlockOf(t, i)' = BlockOf(t, i) BY <1>2 DEF BlockOf
<1>4. \A t : Before(BlockCount, t)' = Before(BlockCount, t)
  BY <1>1 DEF Before, UnitsBefore
<1>5. \A t : Listed(t)' = Listed(t) BY <1>2, <1>3, <1>4 DEF Listed
<1> QED BY <1>1, <1>3, <1>5 DEF Listing

LEMMA ListedAt ==
  ASSUME launch \in LaunchSpace, NEW t \in Tiles, NEW i \in 1 .. MmaCount(t)
  PROVE  /\ <<Before(BlockCount, t) + i - 1, BlockOf(t, i)>> \in Listing
         /\ \A b : <<Before(BlockCount, t) + i - 1, b>> \in Listing => b = BlockOf(t, i)
<1>1. <<Before(BlockCount, t) + i - 1, BlockOf(t, i)>> \in Listing BY DEF Listing, Listed
<1>2. ASSUME NEW b, <<Before(BlockCount, t) + i - 1, b>> \in Listing
      PROVE  b = BlockOf(t, i)
  <2>1. PICK u \in Tiles : \E j \in 1 .. MmaCount(u) :
          <<Before(BlockCount, t) + i - 1, b>> = <<Before(BlockCount, u) + j - 1, BlockOf(u, j)>>
    BY <1>2 DEF Listing, Listed
  <2>2. PICK j \in 1 .. MmaCount(u) :
          <<Before(BlockCount, t) + i - 1, b>> = <<Before(BlockCount, u) + j - 1, BlockOf(u, j)>>
    BY <2>1
  <2>3. Before(BlockCount, t) + i - 1 = Before(BlockCount, u) + j - 1 /\ b = BlockOf(u, j)
    BY <2>2
  <2>4. /\ t \in Nat /\ u \in Nat /\ t + 1 \in Nat /\ u + 1 \in Nat
        /\ MmaCount(t) \in Nat /\ MmaCount(u) \in Nat
        /\ Before(BlockCount, t + 1) = Before(BlockCount, t) + MmaCount(t)
        /\ Before(BlockCount, u + 1) = Before(BlockCount, u) + MmaCount(u)
    BY NextTotals
  <2>5. Before(BlockCount, t) \in Nat /\ Before(BlockCount, u) \in Nat BY <2>4, Totals
  <2>6. t + 1 <= u => Before(BlockCount, t + 1) <= Before(BlockCount, u)
    BY <2>4, LaterTotals
  <2>7. u + 1 <= t => Before(BlockCount, u + 1) <= Before(BlockCount, t)
    BY <2>4, LaterTotals
  <2>8. t = u BY <2>3, <2>4, <2>5, <2>6, <2>7
  <2>9. i = j BY <2>3, <2>5, <2>8
  <2> QED BY <2>3, <2>8, <2>9
<1> QED BY <1>1, <1>2

(* A copy on its way to a stage carries the block of the stage's position; *)
(* until all have released it, the stage holds the block of its last one.  *)
Holds(p, Blocks) ==
  \A s \in Stages :
    /\ p.load[s] # NoBlock => <<p.full[s] * kStages + s, p.load[s]>> \in Blocks
    /\ p.full[s] > p.empty[s] => <<(p.full[s] - 1) * kStages + s, p.data[s]>> \in Blocks

LEMMA HoldsNext ==
  ASSUME NEW p, NEW w, NEW r, NEW reading, R!Ring(p, w, r, reading, Block),
         NEW p2, NEW w2, NEW r2, NEW reading2, RingMove(p, w, r, reading, p2, w2, r2, reading2),
         NEW Blocks, Holds(p, Blocks),
         w2 = w \/ <<R!Pos(w), p2.load[w.index]>> \in Blocks,
         \/ p2.data = p.data
         \/ \E s \in Stages : p.load[s] # NoBlock /\ p2 = Land(p, s)
         \/ \A s \in Stages : p.full[s] = p.empty[s]
  PROVE  Holds(p2, Blocks)
<1>1. /\ p \in PipelineStorage(Block) /\ w \in PipelineState
      /\ r \in [WarpGroups -> PipelineState] /\ reading \subseteq WarpGroups
      /\ w.index \in Stages /\ w.lap \in Nat
  BY RingFields
<1>2. \A s \in Stages : p.full[s] \in Nat /\ p.empty[s] \in Nat
  BY <1>1 DEF PipelineStorage
<1>3. ASSUME NEW b \in Block, AcquireReady(p, w), p2 = Issue(p, w, b), w2 = Advance(w)
      PROVE  Holds(p2, Blocks)
  <2>1. p.load[w.index] = NoBlock /\ p.full[w.index] = w.lap
    <3>1. R!AcquireReady(p, w) BY <1>3, SameOperators
    <3> QED BY <3>1, SomeWarpGroup, R!AcquiredStageIsFree
  <2>2. /\ p2.full = p.full /\ p2.empty = p.empty /\ p2.data = p.data
        /\ p2.load = [p.load EXCEPT ![w.index] = b]
    BY <1>1, <1>3 DEF Issue, PipelineStorage
  <2>3. w2 # w
    <3>1. R!Pos(w) \in Nat /\ R!Pos(Advance(w)) = R!Pos(w) + 1 BY <1>1, NextPosition
    <3> QED BY <1>3, <3>1
  <2>4. <<w.lap * kStages + w.index, p2.load[w.index]>> \in Blocks BY <2>3 DEF R!Pos
  <2>5. DOMAIN p.load = Stages BY <1>1 DEF PipelineStorage
  <2>6. \A s \in Stages : s # w.index => p2.load[s] = p.load[s] BY <2>2, <2>5
  <2> QED BY <2>1, <2>2, <2>4, <2>6 DEF Holds
<1>4. ASSUME NEW s \in Stages, p.load[s] # NoBlock, p2 = Land(p, s)
      PROVE  Holds(p2, Blocks)
  <2>1. /\ p2.empty = p.empty
        /\ \A t \in Stages : /\ p2.full[t] = p.full[t] + (IF t = s THEN 1 ELSE 0)
                             /\ p2.data[t] = IF t = s THEN p.load[t] ELSE p.data[t]
                             /\ p2.load[t] = IF t = s THEN NoBlock ELSE p.load[t]
    <3>1. p \in R!PipelineStorage(Block) /\ s \in R!Stages /\ p2 = R!Land(p, s)
      BY <1>1, <1>4, SameOperators
    <3>2. /\ p2.empty = p.empty
          /\ \A t \in R!Stages : /\ p2.full[t] = p.full[t] + (IF t = s THEN 1 ELSE 0)
                                 /\ p2.data[t] = IF t = s THEN p.load[t] ELSE p.data[t]
                                 /\ p2.load[t] = IF t = s THEN NoBlock ELSE p.load[t]
      BY <3>1, SomeWarpGroup, R!LandFields
    <3> QED BY <3>2, SameOperators
  <2> SUFFICES ASSUME NEW t \in Stages
               PROVE  /\ p2.load[t] # NoBlock =>
                           <<p2.full[t] * kStages + t, p2.load[t]>> \in Blocks
                      /\ p2.full[t] > p2.empty[t] =>
                           <<(p2.full[t] - 1) * kStages + t, p2.data[t]>> \in Blocks
    BY DEF Holds
  <2>2. CASE t = s
    <3>1. p2.full[t] - 1 = p.full[t] /\ p2.data[t] = p.load[t] /\ p2.load[t] = NoBlock
      BY <1>2, <2>1, <2>2
    <3> QED BY <1>4, <2>2, <3>1 DEF Holds
  <2>3. CASE t # s
    <3>1. /\ p2.full[t] = p.full[t] /\ p2.data[t] = p.data[t] /\ p2.load[t] = p.load[t]
          /\ p2.empty[t] = p.empty[t]
      BY <1>2, <2>1, <2>3
    <3> QED BY <3>1 DEF Holds
  <2> QED BY <2>2, <2>3
<1>5. ASSUME NEW g \in reading, p2 = Release(p, r[g], g)
      PROVE  Holds(p2, Blocks)
  <2>1. r[g] \in PipelineState /\ g \in WarpGroups BY <1>1
  <2>2. r[g].index \in Stages BY <2>1 DEF PipelineState
  <2>3. /\ p2.full = p.full /\ p2.load = p.load /\ p2.data = p.data
        /\ \A t \in Stages : p2.empty[t] = p.empty[t] \/ p2.empty[t] = p.empty[t] + 1
    <3>1. CASE p.arrived[r[g].index] \cup {g} = WarpGroups
      <4>1. p2 = [p EXCEPT !.arrived = [p.arrived EXCEPT ![r[g].index] = {}],
                           !.empty = [p.empty EXCEPT ![r[g].index] = @ + 1]]
        BY <1>5, <3>1 DEF Release
      <4> QED BY <1>1, <2>2, <4>1 DEF PipelineStorage
    <3>2. CASE p.arrived[r[g].index] \cup {g} # WarpGroups
      <4>1. p2 = [p EXCEPT !.arrived = [p.arrived EXCEPT ![r[g].index] =
                                          p.arrived[r[g].index] \cup {g}]]
        BY <1>5, <3>2 DEF Release
      <4> QED BY <1>1, <2>2, <4>1 DEF PipelineStorage
    <3> QED BY <3>1, <3>2
  <2>4. \A t \in Stages : p2.full[t] > p2.empty[t] => p.full[t] > p.empty[t]
    BY <1>2, <2>3
  <2> QED BY <2>3, <2>4 DEF Holds
<1>6. ASSUME NEW data \in [Stages -> Block \cup {NoBlock}], p2 = [p EXCEPT !.data = data]
      PROVE  Holds(p2, Blocks)
  <2>1. p2.full = p.full /\ p2.empty = p.empty /\ p2.load = p.load
    BY <1>1, <1>6 DEF PipelineStorage
  <2>2. CASE p2.data = p.data BY <2>1, <2>2 DEF Holds
  <2>3. CASE \A s \in Stages : p.full[s] = p.empty[s]
    <3>1. \A s \in Stages : ~(p2.full[s] > p2.empty[s]) BY <1>2, <2>1, <2>3
    <3> QED BY <2>1, <3>1 DEF Holds
  <2> QED BY <1>4, <2>2, <2>3
<1>7. p2 = p => Holds(p2, Blocks) OBVIOUS
<1> QED BY <1>3, <1>4, <1>5, <1>6, <1>7 DEF RingMove

(* A reader finds the block of its position.                               *)
LEMMA HeldBlock ==
  ASSUME NEW p, NEW w, NEW r, NEW reading, R!Ring(p, w, r, reading, Block),
         NEW Blocks, Holds(p, Blocks), NEW c \in WarpGroups, r[c].lap < p.full[r[c].index]
  PROVE  <<R!Pos(r[c]), p.data[r[c].index]>> \in Blocks
<1>1. r[c].index \in Stages /\ r[c].lap \in Nat BY RingFields
<1>2. p.full[r[c].index] = r[c].lap + 1 /\ p.empty[r[c].index] = r[c].lap
  BY SomeWarpGroup, R!ReadStageIsHeld
<1>3. p.full[r[c].index] - 1 = r[c].lap /\ p.full[r[c].index] > p.empty[r[c].index]
  BY <1>1, <1>2
<1> QED BY <1>1, <1>3 DEF Holds, R!Pos

KHolds == Holds(kpipe, Listing)
VHolds == Holds(vpipe, Listing)

LEMMA DataKept ==
  ASSUME NEW p \in PipelineStorage(Block), NEW st, NEW x
  PROVE  Release(p, st, x).data = p.data /\ Issue(p, st, x).data = p.data
<1>1. Issue(p, st, x).data = p.data BY DEF Issue, PipelineStorage
<1>2. CASE p.arrived[st.index] \cup {x} = WarpGroups BY <1>1, <1>2 DEF Release, PipelineStorage
<1>3. CASE p.arrived[st.index] \cup {x} # WarpGroups BY <1>1, <1>3 DEF Release, PipelineStorage
<1> QED BY <1>2, <1>3

LEMMA IssuedLoad ==
  ASSUME NEW p \in PipelineStorage(Block), NEW st \in PipelineState, NEW b \in Block
  PROVE  Issue(p, st, b).load[st.index] = b
  BY DEF Issue, PipelineStorage, PipelineState

(* The producer issues the copies of both rings in the order of the        *)
(* listing.                                                                *)
LEMMA ProducerIssues ==
  ASSUME Places, Producer
  PROVE  /\ WriteK' = WriteK \/ <<R!Pos(WriteK), kpipe'.load[WriteK.index]>> \in Listing
         /\ WriteV' = WriteV \/ <<R!Pos(WriteV), vpipe'.load[WriteV.index]>> \in Listing
         /\ kpipe'.data = kpipe.data /\ vpipe'.data = vpipe.data
<1>1. /\ wg' = wg /\ TypeOK /\ ProducerPlaced /\ launch \in LaunchSpace
      /\ kpipe \in PipelineStorage(Block) /\ vpipe \in PipelineStorage(Block)
      /\ producer.write \in PipelineState /\ producer.write_v \in PipelineState
  BY ProducerStaysPlaced, ProducerFacts DEF TypeOK
<1>2. producer.at \in ProducerLabels /\ producer.tile \in Nat /\ producer.i \in Nat
  BY ProducerFacts
<1>3. /\ Advance(producer.write) \in PipelineState
      /\ R!Pos(Advance(producer.write)) = R!Pos(producer.write) + 1 /\ R!Pos(producer.write) \in Nat
  BY <1>1, NextPosition
<1> DEFINE t == producer.tile
<1>4. t \in Tiles => /\ MmaCount(t) \in Nat /\ BlockCount[t] = MmaCount(t)
                     /\ Len(LoadBlocks(t)) = MmaCount(t)
                     /\ LoadBlocks(t) = << >> <=> MmaCount(t) = 0
                     /\ Before(BlockCount, t) \in Nat
  BY <1>1, <1>2, TileFacts, Totals
<1>5. ASSUME t \in Tiles, NEW i \in 1 .. MmaCount(t), NEW st \in PipelineState,
             R!Pos(st) = Before(BlockCount, t) + i - 1
      PROVE  /\ \A p \in PipelineStorage(Block) :
                  <<R!Pos(st), Issue(p, st, BlockOf(t, i)).load[st.index]>> \in Listing
  <2>1. BlockOf(t, i) \in Block BY <1>1, <1>5, BlockTyped
  <2>2. <<R!Pos(st), BlockOf(t, i)>> \in Listing BY <1>1, <1>5, ListedAt
  <2> QED BY <2>1, <2>2, IssuedLoad
<1> HIDE DEF t
<1>6. CASE SkipTile \/ LoadTail
  <2>1. WriteK' = WriteK /\ WriteV' = WriteV
    BY <1>6, SkipTileMoves, LoadTailMoves DEF ProducerMoves, WriteK, WriteV
  <2> QED BY <1>6, <2>1 DEF SkipTile, LoadTail
<1>7. CASE LoadQ \/ WaitO
  <2>1. WriteK' = WriteK /\ WriteV' = WriteV
    BY <1>7, LoadQMoves, WaitOMoves DEF ProducerMoves, WriteK, WriteV
  <2> QED BY <1>7, <2>1 DEF LoadQ, WaitO
<1>8. CASE LoadFirstK
  <2>1. /\ t \in Tiles /\ LoadBlocks(t) # << >> /\ producer.at = "tile"
        /\ kpipe' = Issue(kpipe, producer.write, BlockOf(t, 1)) /\ vpipe' = vpipe
    BY <1>8 DEF LoadFirstK, ProducerAt, t
  <2>2. WriteK = producer.write /\ WriteV' = WriteV
    BY <1>8, LoadFirstKMoves DEF ProducerMoves, WriteK, WriteV
  <2>3. R!Pos(producer.write) = Before(BlockCount, t) BY <1>1, <2>1 DEF ProducerPlaced, t
  <2>4. 1 \in 1 .. MmaCount(t) /\ R!Pos(producer.write) = Before(BlockCount, t) + 1 - 1
    BY <1>4, <2>1, <2>3
  <2>5. <<R!Pos(WriteK), kpipe'.load[WriteK.index]>> \in Listing
    BY <1>1, <1>5, <2>1, <2>2, <2>4
  <2> QED BY <1>1, <2>1, <2>2, <2>5, DataKept
<1>9. CASE LoadNextK
  <2>1. /\ t \in Tiles /\ producer.at = "load_K" /\ producer.i < Len(LoadBlocks(t))
        /\ kpipe' = Issue(kpipe, Advance(producer.write), BlockOf(t, producer.i + 1))
        /\ vpipe' = vpipe
    BY <1>9 DEF LoadNextK, ProducerAt, t
  <2>2. WriteK = Advance(producer.write) /\ WriteV' = WriteV
    BY <1>9, <2>1, LoadNextKMoves DEF ProducerMoves, WriteK, WriteV
  <2>3. producer.i \in 1 .. BlockCount[t]
        /\ R!Pos(producer.write) = Before(BlockCount, t) + producer.i - 1
    BY <1>1, <2>1 DEF ProducerPlaced, t
  <2>4. /\ producer.i + 1 \in 1 .. MmaCount(t)
        /\ R!Pos(Advance(producer.write)) = Before(BlockCount, t) + (producer.i + 1) - 1
    BY <1>2, <1>3, <1>4, <2>1, <2>3
  <2>5. <<R!Pos(WriteK), kpipe'.load[WriteK.index]>> \in Listing
    BY <1>1, <1>3, <1>5, <2>1, <2>2, <2>4
  <2> QED BY <1>1, <2>1, <2>2, <2>5, DataKept
<1>10. CASE LoadPrevV
  <2>1. /\ t \in Tiles /\ producer.at = "load_V"
        /\ vpipe' = Issue(vpipe, producer.write_v, BlockOf(t, producer.i)) /\ kpipe' = kpipe
    BY <1>10 DEF LoadPrevV, ProducerAt, t
  <2>2. WriteV = producer.write_v /\ WriteK' = WriteK
    BY <1>10, <2>1, LoadPrevVMoves DEF ProducerMoves, WriteK, WriteV
  <2>3. producer.i \in 1 .. BlockCount[t] - 1
        /\ R!Pos(producer.write_v) = Before(BlockCount, t) + producer.i - 1
    BY <1>1, <2>1 DEF ProducerPlaced, t
  <2>4. producer.i \in 1 .. MmaCount(t) BY <1>4, <2>1, <2>3
  <2>5. <<R!Pos(WriteV), vpipe'.load[WriteV.index]>> \in Listing
    BY <1>1, <1>5, <2>1, <2>2, <2>3, <2>4
  <2> QED BY <1>1, <2>1, <2>2, <2>5, DataKept
<1>11. CASE LoadLastV
  <2>1. /\ t \in Tiles /\ producer.at = "load_K"
        /\ vpipe' = Issue(vpipe, producer.write, BlockOf(t, producer.i)) /\ kpipe' = kpipe
    BY <1>11 DEF LoadLastV, ProducerAt, t
  <2>2. WriteV = producer.write /\ WriteK' = WriteK
    BY <1>11, <2>1, LoadLastVMoves DEF ProducerMoves, WriteK, WriteV
  <2>3. producer.i \in 1 .. BlockCount[t]
        /\ R!Pos(producer.write) = Before(BlockCount, t) + producer.i - 1
    BY <1>1, <2>1 DEF ProducerPlaced, t
  <2>4. producer.i \in 1 .. MmaCount(t) BY <1>4, <2>1, <2>3
  <2>5. <<R!Pos(WriteV), vpipe'.load[WriteV.index]>> \in Listing
    BY <1>1, <1>5, <2>1, <2>2, <2>3, <2>4
  <2> QED BY <1>1, <2>1, <2>2, <2>5, DataKept
<1> QED BY <1>6, <1>7, <1>8, <1>9, <1>10, <1>11 DEF Producer

(* Only O written over it changes what is in a stage.                      *)
LEMMA WarpGroupKeepsData ==
  ASSUME Places, NEW g \in WarpGroups, WarpGroup(g)
  PROVE  kpipe'.data = kpipe.data /\ (WriteO(g) \/ vpipe'.data = vpipe.data)
<1>1. kpipe \in PipelineStorage(Block) /\ vpipe \in PipelineStorage(Block)
  BY PlaceFacts DEF TypeOK
<1>2. \A st : /\ Release(kpipe, st, g).data = kpipe.data
              /\ Release(vpipe, st, g).data = vpipe.data
  BY <1>1, DataKept
<1>3. CASE Mainloop(g)
  BY <1>2, <1>3 DEF Mainloop, MmaInit, StoreZero, WaitQ, FirstQK, FirstSoftmax, StepQK, StepPV,
                    StepReleaseK, StepReleaseV, QueryDone, LastPV, LastReleaseV
<1>4. CASE Epilogue(g)
  BY <1>4 DEF Epilogue, WriteO, BeginTmaStore, EndTmaStore, ReadO, ArriveO
<1> QED BY <1>3, <1>4 DEF WarpGroup

LEMMA WriteKept ==
  ASSUME producer' = producer
  PROVE  WriteK' = WriteK /\ WriteV' = WriteV
  BY DEF WriteK, WriteV

LEMMA HoldsMoves ==
  ASSUME Places, KIsRing, VIsRing, SyncsAgree, StoreArrivals, StoresCounted, OBehind, [Next]_vars
  PROVE  /\ launch' = launch
         /\ WriteK' = WriteK \/ <<R!Pos(WriteK), kpipe'.load[WriteK.index]>> \in Listing
         /\ WriteV' = WriteV \/ <<R!Pos(WriteV), vpipe'.load[WriteV.index]>> \in Listing
         /\ \/ kpipe'.data = kpipe.data
            \/ \E s \in Stages : kpipe.load[s] # NoBlock /\ kpipe' = Land(kpipe, s)
         /\ \/ vpipe'.data = vpipe.data
            \/ \E s \in Stages : vpipe.load[s] # NoBlock /\ vpipe' = Land(vpipe, s)
            \/ \A s \in Stages : vpipe.full[s] = vpipe.empty[s]
<1>1. CASE Producer BY <1>1, ProducerIssues, ProducerStaysPlaced
<1>2. CASE Tma BY <1>2, WriteKept DEF Tma, LandQ, LandK, LandV
<1>3. CASE EpilogueSync \/ Exit \/ UNCHANGED vars
  BY <1>3, WriteKept DEF EpilogueSync, Exit, vars
<1>4. ASSUME NEW g \in WarpGroups, WarpGroup(g)
      PROVE  /\ launch' = launch /\ producer' = producer /\ kpipe'.data = kpipe.data
             /\ vpipe'.data = vpipe.data \/ \A s \in Stages : vpipe.full[s] = vpipe.empty[s]
  <2>1. WriteO(g) => UsingO(g) BY DEF WriteO, At, UsingO
  <2> QED BY <1>4, <2>1, OnlyOneMoves, WarpGroupKeepsData, SmemOIsHeld
<1> QED BY <1>1, <1>2, <1>3, <1>4, WriteKept DEF Next

LEMMA HoldsInit ==
  ASSUME Init
  PROVE  KHolds /\ VHolds
  BY DEF Init, EmptyPipeline, KHolds, VHolds, Holds

(* What a gemm finds in the stage it waited for is the block of its own    *)
(* tile and step: in the order of the listing copies are issued, and a     *)
(* stage keeps its block until every warpgroup has released it, even where *)
(* smem_v is used for O.                                                   *)
THEOREM StagesAlwaysHold == Spec => [](KHolds /\ VHolds)
<1>1. Init => KHolds /\ VHolds BY HoldsInit
<1>2. Places /\ TurnsInOrder /\ (KIsRing /\ VIsRing) /\ (SyncsAgree /\ StoreArrivals)
        /\ (StoresCounted /\ OBehind) /\ (KHolds /\ VHolds) /\ [Next]_vars => (KHolds /\ VHolds)'
  <2> SUFFICES ASSUME Places, TurnsInOrder, KIsRing, VIsRing, SyncsAgree, StoreArrivals,
                      StoresCounted, OBehind, KHolds, VHolds, [Next]_vars
               PROVE  KHolds' /\ VHolds'
    OBVIOUS
  <2>1. KMoves /\ VMoves BY RingsMove
  <2>2. /\ launch' = launch
        /\ WriteK' = WriteK \/ <<R!Pos(WriteK), kpipe'.load[WriteK.index]>> \in Listing
        /\ WriteV' = WriteV \/ <<R!Pos(WriteV), vpipe'.load[WriteV.index]>> \in Listing
        /\ \/ kpipe'.data = kpipe.data
           \/ \E s \in Stages : kpipe.load[s] # NoBlock /\ kpipe' = Land(kpipe, s)
        /\ \/ vpipe'.data = vpipe.data
           \/ \E s \in Stages : vpipe.load[s] # NoBlock /\ vpipe' = Land(vpipe, s)
           \/ \A s \in Stages : vpipe.full[s] = vpipe.empty[s]
    BY HoldsMoves
  <2>3. Listing' = Listing BY <2>2, ListingFixed
  <2>4. Holds(kpipe', Listing) BY <2>1, <2>2, HoldsNext DEF KMoves, KIsRing, KHolds
  <2>5. Holds(vpipe', Listing) BY <2>1, <2>2, HoldsNext DEF VMoves, VIsRing, VHolds
  <2> QED BY <2>3, <2>4, <2>5 DEF KHolds, VHolds, Holds
<1> QED BY <1>1, <1>2, PlacesAlways, TurnsAlways, RingsAlways, EpilogueAlways, StoresAlways, PTL
    DEF Spec

-----------------------------------------------------------------------------
(* What smem_q holds.                                                      *)

(* The tiles with blocks, each with its number among them: Q is loaded for *)
(* these, in this order.                                                   *)
Asked == {<<Before(WorkCount, t), t>> : t \in {u \in Tiles : MmaCount(u) > 0}}

QueryHolds ==
  /\ query.load # NoBlock => <<query.completed, query.load>> \in Asked
  /\ query.completed > 0 => <<query.completed - 1, query.data>> \in Asked

LEMMA AskedFixed ==
  ASSUME launch' = launch
  PROVE  Asked' = Asked
<1>1. Tiles' = Tiles /\ WorkCount' = WorkCount BY LaunchFixed
<1>2. \A t : MmaCount(t)' = MmaCount(t) BY DEF MmaCount, SparseRange, DenseRange
<1>3. \A t : Before(WorkCount, t)' = Before(WorkCount, t) BY <1>1 DEF Before, UnitsBefore
<1> QED BY <1>1, <1>2, <1>3 DEF Asked

LEMMA SameWork ==
  ASSUME launch \in LaunchSpace, NEW t \in Tiles, NEW u \in Tiles,
         MmaCount(t) > 0, MmaCount(u) > 0, Before(WorkCount, t) = Before(WorkCount, u)
  PROVE  t = u
<1>1. /\ t \in Nat /\ u \in Nat /\ t + 1 \in Nat /\ u + 1 \in Nat
      /\ Before(WorkCount, t + 1) = Before(WorkCount, t) + 1
      /\ Before(WorkCount, u + 1) = Before(WorkCount, u) + 1
  BY NextTotals
<1>2. Before(WorkCount, t) \in Nat BY <1>1, Totals
<1>3. t + 1 <= u => Before(WorkCount, t + 1) <= Before(WorkCount, u) BY <1>1, LaterTotals
<1>4. u + 1 <= t => Before(WorkCount, u + 1) <= Before(WorkCount, t) BY <1>1, LaterTotals
<1> QED BY <1>1, <1>2, <1>3, <1>4

LEMMA AskedAt ==
  ASSUME launch \in LaunchSpace, NEW t \in Tiles, MmaCount(t) > 0
  PROVE  /\ <<Before(WorkCount, t), t>> \in Asked
         /\ \A q : <<Before(WorkCount, t), q>> \in Asked => q = t
<1>1. <<Before(WorkCount, t), t>> \in Asked BY DEF Asked
<1>2. ASSUME NEW q, <<Before(WorkCount, t), q>> \in Asked PROVE q = t
  <2>1. PICK u \in Tiles : MmaCount(u) > 0 /\ <<Before(WorkCount, t), q>> = <<Before(WorkCount, u), u>>
    BY <1>2 DEF Asked
  <2>2. Before(WorkCount, t) = Before(WorkCount, u) /\ q = u BY <2>1
  <2> QED BY <2>1, <2>2, SameWork
<1> QED BY <1>1, <1>2

LEMMA QueryHoldsNext ==
  ASSUME Places, QueryCounted, QueryCounted', QueryHolds, [Next]_vars
  PROVE  QueryHolds'
<1>1. CASE LoadQ
  <2> DEFINE t == producer.tile
  <2>1. /\ t \in Tiles /\ producer.at = "load_Q" /\ launch' = launch
        /\ query' = [query EXCEPT !.load = t]
        /\ producer'.at = "wait_O" /\ producer'.work_idx = producer.work_idx
    BY <1>1, LoadQMoves DEF LoadQ, ProducerMoves
  <2>2. /\ query.completed \in Nat /\ producer.work_idx \in Nat
        /\ query = [load |-> query.load, data |-> query.data, completed |-> query.completed]
        /\ launch \in LaunchSpace
    BY ProducerFacts DEF TypeOK
  <2>3. query' = [load |-> t, data |-> query.data, completed |-> query.completed]
    BY <2>1, <2>2
  <2>4. MmaCount(t) > 0 /\ producer.work_idx = Before(WorkCount, t)
    <3>1. BlockCount[t] > 0 /\ producer.work_idx = Before(WorkCount, t)
      BY <2>1, ProducerFacts DEF ProducerPlaced
    <3> QED BY <2>1, <3>1 DEF BlockCount
  <2>5. t # NoBlock BY <2>1, ProducerFacts
  <2>6. query.completed = producer.work_idx
    <3>1. QueryLoads' = producer.work_idx + 1 BY <2>1 DEF QueryLoads
    <3>2. QueryLoads' = query.completed + 1 BY <2>3, <2>5 DEF QueryCounted
    <3> QED BY <2>2, <3>1, <3>2
  <2>7. <<query.completed, t>> \in Asked BY <2>1, <2>2, <2>4, <2>6, AskedAt
  <2>8. Asked' = Asked BY <2>1, AskedFixed
  <2> HIDE DEF t
  <2> QED BY <2>3, <2>7, <2>8 DEF QueryHolds
<1>2. CASE LandQ
  <2>1. query.load # NoBlock /\ launch' = launch
        /\ query' = [load |-> NoBlock, data |-> query.load, completed |-> query.completed + 1]
    BY <1>2 DEF LandQ
  <2>2. query.completed \in Nat BY QueryTypes
  <2>3. query'.completed - 1 = query.completed /\ query'.load = NoBlock /\ query'.data = query.load
    BY <2>1, <2>2
  <2>4. Asked' = Asked BY <2>1, AskedFixed
  <2> QED BY <2>1, <2>3, <2>4 DEF QueryHolds
<1>3. CASE query' = query /\ launch' = launch
  BY <1>3, AskedFixed DEF QueryHolds
<1>4. Producer /\ ~LoadQ => query' = query /\ launch' = launch
  BY DEF Producer, SkipTile, LoadFirstK, WaitO, LoadNextK, LoadPrevV, LoadLastV, LoadTail
<1>5. Tma /\ ~LandQ => query' = query /\ launch' = launch BY DEF Tma, LandK, LandV
<1>6. EpilogueSync \/ Exit \/ UNCHANGED vars => query' = query /\ launch' = launch
  BY DEF EpilogueSync, Exit, vars
<1>7. \A g \in WarpGroups : WarpGroup(g) => query' = query /\ launch' = launch
  <2> SUFFICES ASSUME NEW g \in WarpGroups, WarpGroup(g) PROVE query' = query /\ launch' = launch
    OBVIOUS
  <2>1. CASE Mainloop(g)
    BY <2>1 DEF Mainloop, MmaInit, StoreZero, WaitQ, FirstQK, FirstSoftmax, StepQK, StepPV,
                StepReleaseK, StepReleaseV, QueryDone, LastPV, LastReleaseV
  <2>2. CASE Epilogue(g)
    BY <2>2 DEF Epilogue, WriteO, BeginTmaStore, EndTmaStore, ReadO, ArriveO
  <2> QED BY <2>1, <2>2 DEF WarpGroup
<1> QED BY <1>1, <1>2, <1>3, <1>4, <1>5, <1>6, <1>7 DEF Next

(* Q of a tile is asked for when all are done with the one before it, so   *)
(* what comes into smem_q is the query block of the next tile with blocks. *)
THEOREM QueryAlwaysHolds == Spec => []QueryHolds
<1>1. Init => QueryHolds BY DEF Init, QueryHolds
<1>2. Places /\ QueryCounted /\ QueryCounted' /\ QueryHolds /\ [Next]_vars => QueryHolds'
  BY QueryHoldsNext
<1> QED BY <1>1, <1>2, PlacesAlways, QueriesAlways, PTL DEF Spec

-----------------------------------------------------------------------------
(* What the gemms of a warpgroup read.                                     *)

ScoreOf(t, i) == [q |-> t, k |-> BlockOf(t, i)]

LEMMA QueryRead ==
  ASSUME Places, QueryCounted, QueryHolds, NEW g \in WarpGroups,
         wg[g].at \in {"first_QK", "step"}
  PROVE  query.data = wg[g].tile
<1>1. query.completed = wg[g].work_idx + 1
  <2>1. wg[g].work_idx \in Nat /\ QueryLoads \in Nat /\ query.completed \in Nat
    BY PlaceFacts, QueryTypes
  <2>2. QueryWaits(g) = wg[g].work_idx + 1 /\ QueryReleases(g) = 1 + wg[g].work_idx
    BY <2>1 DEF QueryWaits, QueryReleases, AfterLoop, InEpilogue, WithoutATile
  <2> QED BY <2>1, <2>2, QueryBounds
<1>2. /\ wg[g].work_idx = Before(WorkCount, wg[g].tile) /\ wg[g].tile \in Tiles
      /\ BlockCount[wg[g].tile] > 0 /\ launch \in LaunchSpace /\ wg[g].work_idx \in Nat
  <2>1. /\ Placed(g) /\ launch \in LaunchSpace /\ wg[g].work_idx \in Nat
        /\ Before(WorkCount, wg[g].tile) \in Nat
    BY PlaceFacts
  <2>2. wg[g].at \notin InEpilogue /\ wg[g].at \notin WithoutATile
    BY DEF InEpilogue, WithoutATile
  <2> QED BY <2>1, <2>2 DEF Placed
<1>3. MmaCount(wg[g].tile) > 0 BY <1>2 DEF BlockCount
<1>4. query.completed > 0 /\ query.completed - 1 = Before(WorkCount, wg[g].tile)
  BY <1>1, <1>2
<1> QED BY <1>2, <1>3, <1>4, AskedAt DEF QueryHolds

LEMMA KBlockRead ==
  ASSUME launch \in LaunchSpace, KIsRing, KHolds, NEW g \in WarpGroups,
         ReadK(g).lap < kpipe.full[ReadK(g).index],
         NEW t \in Tiles, NEW i \in 1 .. MmaCount(t),
         R!Pos(ReadK(g)) = Before(BlockCount, t) + i - 1
  PROVE  kpipe.data[ReadK(g).index] = BlockOf(t, i)
<1>1. KPositions[g] = ReadK(g) BY PositionOf
<1>2. <<R!Pos(ReadK(g)), kpipe.data[ReadK(g).index]>> \in Listing
  BY <1>1, HeldBlock DEF KIsRing, KHolds
<1> QED BY <1>2, ListedAt

LEMMA VBlockRead ==
  ASSUME launch \in LaunchSpace, VIsRing, VHolds, NEW g \in WarpGroups,
         ReadV(g).lap < vpipe.full[ReadV(g).index],
         NEW t \in Tiles, NEW i \in 1 .. MmaCount(t),
         R!Pos(ReadV(g)) = Before(BlockCount, t) + i - 1
  PROVE  vpipe.data[ReadV(g).index] = BlockOf(t, i)
<1>1. VPositions[g] = ReadV(g) BY PositionOf
<1>2. <<R!Pos(ReadV(g)), vpipe.data[ReadV(g).index]>> \in Listing
  BY <1>1, HeldBlock DEF VIsRing, VHolds
<1> QED BY <1>2, ListedAt

LEMMA AwaitedIsFull ==
  ASSUME KIsRing, VIsRing, NEW g \in WarpGroups
  PROVE  /\ FullReady(kpipe, ReadK(g)) => ReadK(g).lap < kpipe.full[ReadK(g).index]
         /\ FullReady(vpipe, ReadV(g)) => ReadV(g).lap < vpipe.full[ReadV(g).index]
<1>1. KPositions[g] = ReadK(g) /\ VPositions[g] = ReadV(g) BY PositionOf
<1>2. FullReady(kpipe, KPositions[g]) => KPositions[g].lap < kpipe.full[KPositions[g].index]
  BY RingSteps DEF KIsRing
<1>3. FullReady(vpipe, VPositions[g]) => VPositions[g].lap < vpipe.full[VPositions[g].index]
  BY RingSteps DEF VIsRing
<1> QED BY <1>1, <1>2, <1>3

Buffered == KIsRing /\ VIsRing /\ KHolds /\ VHolds /\ QueryCounted /\ QueryHolds

LEMMA FirstQKReads ==
  ASSUME Places, Buffered, NEW g \in WarpGroups, FirstQK(g)
  PROVE  Score(wg[g].read) = ScoreOf(wg[g].tile, 1)
<1> DEFINE t == wg[g].tile
<1>1. wg[g].at = "first_QK" /\ t \in Tiles /\ FullReady(kpipe, wg[g].read)
  BY DEF FirstQK, At
<1>2. ReadK(g) = wg[g].read BY <1>1 DEF ReadK
<1>3. launch \in LaunchSpace /\ BlockCount[t] > 0 /\ Before(BlockCount, t) \in Nat
  BY <1>1, PlaceFacts DEF Placed, WithoutATile
<1>4. MmaCount(t) \in Nat /\ BlockCount[t] = MmaCount(t) BY <1>1, PlaceFacts, TileFacts
<1>5. R!Pos(ReadK(g)) = Before(BlockCount, t) BY <1>1, ReadPositions DEF BeforeQK
<1>6. R!Pos(ReadK(g)) = Before(BlockCount, t) + 1 - 1 /\ 1 \in 1 .. MmaCount(t)
  BY <1>3, <1>4, <1>5
<1>7. ReadK(g).lap < kpipe.full[ReadK(g).index] BY <1>1, <1>2, AwaitedIsFull DEF Buffered
<1> HIDE DEF t
<1>8. kpipe.data[ReadK(g).index] = BlockOf(t, 1)
  BY <1>1, <1>3, <1>6, <1>7, KBlockRead DEF Buffered
<1>9. query.data = t BY <1>1, QueryRead DEF Buffered, t
<1> QED BY <1>2, <1>8, <1>9 DEF Score, ScoreOf, t

LEMMA StepQKReads ==
  ASSUME Places, TurnsInOrder, Buffered, NEW g \in WarpGroups, StepQK(g)
  PROVE  Score(Advance(wg[g].read)) = ScoreOf(wg[g].tile, wg[g].i + 1)
<1> DEFINE t == wg[g].tile
           i == wg[g].i
<1>1. wg[g].at = "step" /\ t \in Tiles /\ i < MmaCount(t)
  BY DEF StepQK, At
<1>2. ReadK(g) = Advance(wg[g].read) BY <1>1 DEF ReadK
<1>3. launch \in LaunchSpace /\ Before(BlockCount, t) \in Nat /\ i \in 1 .. BlockCount[t]
  BY <1>1, PlaceFacts DEF Placed
<1>4. MmaCount(t) \in Nat /\ BlockCount[t] = MmaCount(t) BY <1>1, PlaceFacts, TileFacts
<1>5. R!Pos(ReadK(g)) = Before(BlockCount, t) + i BY <1>1, ReadPositions
<1>6. R!Pos(ReadK(g)) = Before(BlockCount, t) + (i + 1) - 1 /\ i + 1 \in 1 .. MmaCount(t)
  BY <1>1, <1>3, <1>4, <1>5
<1>7. ReadK(g).lap < kpipe.full[ReadK(g).index] BY <1>2, StepSeesFull DEF Buffered
<1> HIDE DEF t, i
<1>8. kpipe.data[ReadK(g).index] = BlockOf(t, i + 1)
  BY <1>1, <1>3, <1>6, <1>7, KBlockRead DEF Buffered
<1>9. query.data = t BY <1>1, QueryRead DEF Buffered, t
<1> QED BY <1>2, <1>8, <1>9 DEF Score, ScoreOf, t, i

LEMMA StepPVReads ==
  ASSUME Places, TurnsInOrder, Buffered, NEW g \in WarpGroups, StepPV(g)
  PROVE  vpipe.data[wg[g].read_v.index] = BlockOf(wg[g].tile, wg[g].i)
<1> DEFINE t == wg[g].tile
           i == wg[g].i
<1>1. wg[g].at = "step_PV" /\ t \in Tiles BY DEF StepPV, At
<1>2. ReadV(g) = wg[g].read_v BY <1>1 DEF ReadV
<1>3. launch \in LaunchSpace /\ i \in 1 .. BlockCount[t] - 1
  BY <1>1, PlaceFacts DEF Placed, InStep
<1>4. MmaCount(t) \in Nat /\ BlockCount[t] = MmaCount(t) BY <1>1, PlaceFacts, TileFacts
<1>5. R!Pos(ReadV(g)) = Before(BlockCount, t) + i - 1 BY <1>1, ReadPositions
<1>6. i \in 1 .. MmaCount(t) BY <1>3, <1>4
<1>7. ReadV(g).lap < vpipe.full[ReadV(g).index] BY StepSeesFull DEF Buffered
<1> HIDE DEF t, i
<1>8. vpipe.data[ReadV(g).index] = BlockOf(t, i)
  BY <1>1, <1>3, <1>5, <1>6, <1>7, VBlockRead DEF Buffered
<1> QED BY <1>2, <1>8 DEF t, i

LEMMA LastPVReads ==
  ASSUME Places, Buffered, NEW g \in WarpGroups, LastPV(g)
  PROVE  vpipe.data[wg[g].read.index] = BlockOf(wg[g].tile, MmaCount(wg[g].tile))
<1> DEFINE t == wg[g].tile
           n == MmaCount(t)
<1>1. wg[g].at = "last_PV" /\ t \in Tiles /\ FullReady(vpipe, wg[g].read) BY DEF LastPV, At
<1>2. ReadV(g) = wg[g].read BY <1>1 DEF ReadV
<1>3. launch \in LaunchSpace /\ BlockCount[t] > 0
  BY <1>1, PlaceFacts DEF Placed, WithoutATile
<1>4. n \in Nat /\ BlockCount[t] = n BY <1>1, PlaceFacts, TileFacts
<1>5. R!Pos(ReadV(g)) = Before(BlockCount, t) + n - 1
  BY <1>1, <1>4, ReadPositions DEF AfterLoop
<1>6. n \in 1 .. n BY <1>3, <1>4
<1>7. ReadV(g).lap < vpipe.full[ReadV(g).index] BY <1>1, <1>2, AwaitedIsFull DEF Buffered
<1>8. vpipe.data[ReadV(g).index] = BlockOf(t, n)
  <2> HIDE DEF t
  <2> QED BY <1>1, <1>3, <1>5, <1>6, <1>7, VBlockRead DEF Buffered
<1> QED BY <1>2, <1>8

-----------------------------------------------------------------------------
(* What the warpgroups compute.                                            *)

Whole(t) == TileTerms(t, MmaCount(t))

LEMMA TermsFixed ==
  ASSUME launch' = launch
  PROVE  /\ Tiles' = Tiles
         /\ \A t : MmaCount(t)' = MmaCount(t) /\ Whole(t)' = Whole(t)
         /\ \A t, i : ScoreOf(t, i)' = ScoreOf(t, i) /\ TileTerms(t, i)' = TileTerms(t, i)
<1>1. Tiles' = Tiles BY LaunchFixed
<1>2. \A t, i : BlockOf(t, i)' = BlockOf(t, i) BY ListingFixed
<1>3. \A t : MmaCount(t)' = MmaCount(t) BY DEF MmaCount, SparseRange, DenseRange
<1>4. \A t, i : ScoreOf(t, i)' = ScoreOf(t, i) /\ TileTerms(t, i)' = TileTerms(t, i)
  BY <1>2 DEF ScoreOf, TileTerms
<1> QED BY <1>1, <1>3, <1>4 DEF Whole

LEMMA NextTerm ==
  ASSUME NEW t, NEW n \in Nat
  PROVE  Append(TileTerms(t, n), [q |-> t, k |-> BlockOf(t, n + 1), v |-> BlockOf(t, n + 1)]) =
           TileTerms(t, n + 1)
<1> DEFINE e(j) == [q |-> t, k |-> BlockOf(t, j), v |-> BlockOf(t, j)]
<1> HIDE DEF e
<1>1. Append([j \in 1 .. n |-> e(j)], e(n + 1)) = [j \in 1 .. n + 1 |-> e(j)]
  OBVIOUS
<1> QED BY <1>1 DEF TileTerms, e

(* The scores and the accumulator of g: those of the blocks of its tile up *)
(* to its step, and of nothing else.                                       *)
Scored(w) ==
  /\ w.at = "first_softmax" => w.s = ScoreOf(w.tile, 1)
  /\ w.at \in InStep => w.s = ScoreOf(w.tile, w.i + 1)
  /\ w.at \in {"step"} \cup InStep => w.p = ScoreOf(w.tile, w.i)
  /\ w.at \in AfterLoop => w.p = ScoreOf(w.tile, MmaCount(w.tile))

Accumulated(w) ==
  /\ w.at \in {"step", "step_PV"} => w.acc = TileTerms(w.tile, w.i - 1)
  /\ w.at \in {"step_softmax", "step_end"} => w.acc = TileTerms(w.tile, w.i)
  /\ w.at = "last_PV" => w.acc = TileTerms(w.tile, MmaCount(w.tile) - 1)
  /\ w.at \in {"last_end"} \cup InEpilogue => w.acc = Whole(w.tile)

Computed(g) == Scored(wg[g]) /\ Accumulated(wg[g])

LEMMA ComputedStays ==
  ASSUME launch' = launch, NEW g \in WarpGroups, wg'[g] = wg[g], Computed(g)
  PROVE  Computed(g)'
  BY TermsFixed DEF Computed, Scored, Accumulated

LEMMA MainloopComputes ==
  ASSUME Places, TurnsInOrder, Buffered, NEW g \in WarpGroups, Mainloop(g), Computed(g)
  PROVE  Computed(g)'
<1> DEFINE w == wg[g]
           t == wg[g].tile
           n == MmaCount(t)
<1>0. /\ launch' = launch /\ wg[g].i \in Nat
      /\ t \in Tiles => n \in Nat /\ BlockCount[t] = n
  <2>1. launch' = launch BY OnlyOneMoves DEF WarpGroup
  <2> QED BY <2>1, PlaceFacts, TileFacts
<1>1. /\ \A u : MmaCount(u)' = MmaCount(u) /\ Whole(u)' = Whole(u)
      /\ \A u, i : ScoreOf(u, i)' = ScoreOf(u, i) /\ TileTerms(u, i)' = TileTerms(u, i)
  BY <1>0, TermsFixed
<1>2. CASE MmaInit(g) \/ StoreZero(g) \/ WaitQ(g)
  <2>1. wg'[g].at \in {"mma", "first_QK"}
    BY <1>2, MmaInitMoves, StoreZeroMoves, WaitQMoves DEF Moves
  <2> QED BY <2>1 DEF Computed, Scored, Accumulated, InStep, AfterLoop, InEpilogue
<1>3. CASE FirstQK(g)
  <2>1. wg'[g].at = "first_softmax" /\ wg'[g].tile = t /\ wg'[g].s = Score(wg[g].read)
    BY <1>3, FirstQKMoves DEF Moves, Computes
  <2>2. wg'[g].s = ScoreOf(t, 1) BY <1>3, <2>1, FirstQKReads
  <2> QED BY <1>1, <2>1, <2>2 DEF Computed, Scored, Accumulated, InStep, AfterLoop, InEpilogue
<1>4. CASE FirstSoftmax(g)
  <2>1. /\ wg[g].at = "first_softmax"
        /\ wg'[g].at = "step" /\ wg'[g].tile = t /\ wg'[g].i = 1
        /\ wg'[g].p = wg[g].s /\ wg'[g].acc = << >>
    BY <1>4, FirstSoftmaxMoves DEF Moves, Computes
  <2>2. wg[g].s = ScoreOf(t, 1) BY <2>1 DEF Computed, Scored
  <2>3. TileTerms(t, 1 - 1) = << >> BY DEF TileTerms
  <2> HIDE DEF t
  <2> QED BY <1>1, <2>1, <2>2, <2>3
      DEF Computed, Scored, Accumulated, InStep, AfterLoop, InEpilogue
<1>5. CASE StepQK(g)
  <2>1. /\ wg[g].at = "step"
        /\ wg'[g].at = "step_PV" /\ wg'[g].tile = t /\ wg'[g].i = wg[g].i
        /\ wg'[g].s = Score(Advance(wg[g].read)) /\ wg'[g].p = wg[g].p /\ wg'[g].acc = wg[g].acc
    BY <1>5, StepQKMoves DEF Moves, Computes
  <2>2. wg'[g].s = ScoreOf(t, wg[g].i + 1) BY <1>5, <2>1, StepQKReads
  <2>3. wg[g].p = ScoreOf(t, wg[g].i) /\ wg[g].acc = TileTerms(t, wg[g].i - 1)
    BY <2>1 DEF Computed, Scored, Accumulated
  <2> HIDE DEF t
  <2> QED BY <1>1, <2>1, <2>2, <2>3
      DEF Computed, Scored, Accumulated, InStep, AfterLoop, InEpilogue
<1>6. CASE StepPV(g)
  <2>1. /\ wg[g].at = "step_PV" /\ t \in Tiles
        /\ wg'[g].at = "step_softmax" /\ wg'[g].tile = t /\ wg'[g].i = wg[g].i
        /\ wg'[g].s = wg[g].s /\ wg'[g].p = wg[g].p
        /\ wg'[g].acc = Accumulate(wg[g], wg[g].read_v)
    BY <1>6, StepPVMoves DEF Moves, Computes
  <2>2. /\ wg[g].s = ScoreOf(t, wg[g].i + 1) /\ wg[g].p = ScoreOf(t, wg[g].i)
        /\ wg[g].acc = TileTerms(t, wg[g].i - 1)
    BY <2>1 DEF Computed, Scored, Accumulated, InStep
  <2>3. vpipe.data[wg[g].read_v.index] = BlockOf(t, wg[g].i) BY <1>6, StepPVReads
  <2>4. wg[g].i - 1 \in Nat /\ (wg[g].i - 1) + 1 = wg[g].i
    <3>1. wg[g].i \in 1 .. BlockCount[t] - 1 BY <2>1, PlaceFacts DEF Placed, InStep
    <3> QED BY <1>0, <2>1, <3>1
  <2> DEFINE i == wg[g].i
  <2>5. Accumulate(wg[g], wg[g].read_v) =
          Append(TileTerms(t, i - 1), [q |-> t, k |-> BlockOf(t, i), v |-> BlockOf(t, i)])
    BY <2>2, <2>3 DEF Accumulate, ScoreOf
  <2> HIDE DEF t, i
  <2>6. wg'[g].acc = TileTerms(t, i) BY <2>1, <2>4, <2>5, NextTerm DEF i
  <2> QED BY <1>1, <2>1, <2>2, <2>6
      DEF Computed, Scored, Accumulated, InStep, AfterLoop, InEpilogue, i
<1>7. CASE StepReleaseK(g)
  <2>1. /\ wg[g].at = "step_softmax"
        /\ wg'[g].at = "step_end" /\ wg'[g].tile = t /\ wg'[g].i = wg[g].i
        /\ wg'[g].s = wg[g].s /\ wg'[g].p = wg[g].p /\ wg'[g].acc = wg[g].acc
    BY <1>7, StepReleaseKMoves DEF Moves, Computes
  <2>2. /\ wg[g].s = ScoreOf(t, wg[g].i + 1) /\ wg[g].p = ScoreOf(t, wg[g].i)
        /\ wg[g].acc = TileTerms(t, wg[g].i)
    BY <2>1 DEF Computed, Scored, Accumulated, InStep
  <2> HIDE DEF t
  <2> QED BY <1>1, <2>1, <2>2
      DEF Computed, Scored, Accumulated, InStep, AfterLoop, InEpilogue
<1>8. CASE StepReleaseV(g)
  <2>1. /\ wg[g].at = "step_end"
        /\ wg'[g].at = "step" /\ wg'[g].tile = t /\ wg'[g].i = wg[g].i + 1
        /\ wg'[g].p = wg[g].s /\ wg'[g].acc = wg[g].acc
    BY <1>8, StepReleaseVMoves DEF Moves, Computes
  <2>2. wg[g].s = ScoreOf(t, wg[g].i + 1) /\ wg[g].acc = TileTerms(t, wg[g].i)
    BY <2>1 DEF Computed, Scored, Accumulated, InStep
  <2>3. (wg[g].i + 1) - 1 = wg[g].i BY <1>0
  <2> HIDE DEF t
  <2> QED BY <1>1, <2>1, <2>2, <2>3
      DEF Computed, Scored, Accumulated, InStep, AfterLoop, InEpilogue
<1>9. CASE QueryDone(g)
  <2>1. /\ wg[g].at = "step" /\ wg'[g].at = "last_PV" /\ wg'[g].tile = t
        /\ wg'[g].p = wg[g].p /\ wg'[g].acc = wg[g].acc /\ wg[g].i = MmaCount(t)
    BY <1>9, QueryDoneMoves DEF Moves, Computes, QueryDone
  <2>2. wg[g].p = ScoreOf(t, wg[g].i) /\ wg[g].acc = TileTerms(t, wg[g].i - 1)
    BY <2>1 DEF Computed, Scored, Accumulated
  <2> HIDE DEF t
  <2> QED BY <1>1, <2>1, <2>2
      DEF Computed, Scored, Accumulated, InStep, AfterLoop, InEpilogue
<1>10. CASE LastPV(g)
  <2>1. /\ wg[g].at = "last_PV" /\ t \in Tiles /\ wg'[g].at = "last_end" /\ wg'[g].tile = t
        /\ wg'[g].p = wg[g].p /\ wg'[g].acc = Accumulate(wg[g], wg[g].read)
    BY <1>10, LastPVMoves DEF Moves, Computes
  <2>2. wg[g].p = ScoreOf(t, n) /\ wg[g].acc = TileTerms(t, n - 1)
    BY <2>1 DEF Computed, Scored, Accumulated, AfterLoop
  <2>3. vpipe.data[wg[g].read.index] = BlockOf(t, n) BY <1>10, LastPVReads
  <2>4. n - 1 \in Nat /\ (n - 1) + 1 = n
    <3>1. BlockCount[t] > 0 BY <2>1, PlaceFacts DEF Placed, WithoutATile
    <3> HIDE DEF n
    <3> QED BY <1>0, <2>1, <3>1
  <2>5. Accumulate(wg[g], wg[g].read) =
          Append(TileTerms(t, n - 1), [q |-> t, k |-> BlockOf(t, n), v |-> BlockOf(t, n)])
    BY <2>2, <2>3 DEF Accumulate, ScoreOf
  <2> HIDE DEF t, n
  <2>6. wg'[g].acc = TileTerms(t, n) BY <2>1, <2>4, <2>5, NextTerm
  <2>7. TileTerms(t, n) = Whole(t) /\ n = MmaCount(t) BY DEF Whole, n
  <2> QED BY <1>1, <2>1, <2>2, <2>6, <2>7
      DEF Computed, Scored, Accumulated, InStep, AfterLoop, InEpilogue
<1>11. CASE LastReleaseV(g)
  <2>1. /\ wg[g].at = "last_end" /\ wg'[g].at = "epilogue" /\ wg'[g].tile = t
        /\ wg'[g].acc = wg[g].acc
    BY <1>11, LastReleaseVMoves DEF Moves, Computes
  <2>2. wg[g].acc = Whole(t) BY <2>1 DEF Computed, Accumulated
  <2> HIDE DEF t
  <2> QED BY <1>1, <2>1, <2>2
      DEF Computed, Scored, Accumulated, InStep, AfterLoop, InEpilogue
<1> QED BY <1>2, <1>3, <1>4, <1>5, <1>6, <1>7, <1>8, <1>9, <1>10, <1>11 DEF Mainloop

(* smem_o, when it is read again: what every warpgroup has accumulated for *)
(* the one tile all of them are at, or were when they wrote.               *)
StoredO ==
  /\ \A g \in WarpGroups : wg[g].at = "epilogue_smem" => smem_o[g] = Whole(wg[g].tile)
  /\ \A g \in WarpGroups : wg[g].at \in {"read_O", "storing_O"} =>
       \A h \in WarpGroups : smem_o[h] = Whole(wg[g].tile)
  /\ \A g \in named.store : smem_o[g] = Whole(wg[Storer].tile)

LEMMA WholeRead ==
  ASSUME StoredO, NEW g \in WarpGroups, wg[g].at \in {"read_O", "storing_O"}
  PROVE  SmemOTile = Whole(wg[g].tile)
  BY SomeWarpGroup DEF StoredO, SmemOTile

LEMMA EpilogueComputes ==
  ASSUME Places, StoredO, NEW g \in WarpGroups, Epilogue(g), Computed(g)
  PROVE  Computed(g)'
<1> DEFINE t == wg[g].tile
<1>1. \A u : Whole(u)' = Whole(u)
  BY OnlyOneMoves, TermsFixed DEF WarpGroup
<1>2. /\ Epilogue(g)
      /\ wg[g].at \in InEpilogue => wg[g].acc = Whole(t)
  BY DEF Computed, Accumulated
<1>3. wg'[g].at = "mma" => Computed(g)'
  BY DEF Computed, Scored, Accumulated, InStep, AfterLoop, InEpilogue
<1>4. wg'[g].at \in InEpilogue /\ wg'[g].acc = Whole(t) /\ wg'[g].tile = t => Computed(g)'
  <2> HIDE DEF t
  <2> QED BY <1>1 DEF Computed, Scored, Accumulated, InStep, AfterLoop, InEpilogue
<1>5. CASE WriteO(g)
  BY <1>2, <1>3, <1>4, <1>5, WriteOMoves DEF Moves, Computes, InEpilogue
<1>6. CASE BeginTmaStore(g)
  BY <1>2, <1>4, <1>6, BeginTmaStoreMoves DEF Moves, Computes, InEpilogue
<1>7. CASE EndTmaStore(g)
  BY <1>3, <1>7, EndTmaStoreMoves DEF Moves
<1>8. CASE ReadO(g)
  BY <1>4, <1>8, ReadOMoves, WholeRead DEF Moves, Computes, InEpilogue
<1>9. CASE ArriveO(g)
  BY <1>3, <1>9, ArriveOMoves DEF Moves
<1> QED BY <1>5, <1>6, <1>7, <1>8, <1>9 DEF Epilogue

LEMMA SyncComputes ==
  ASSUME Places, EpilogueSync, NEW g \in WarpGroups, Computed(g)
  PROVE  Computed(g)'
<1> DEFINE t == wg[g].tile
<1>1. \A u : Whole(u)' = Whole(u) BY SyncMoves, TermsFixed
<1>2. wg[g].acc = Whole(t) BY SyncMoves DEF Computed, Accumulated, AtEpilogueSync, InEpilogue
<1>3. wg'[g].at \in InEpilogue /\ wg'[g].tile = t /\ wg'[g].acc = wg[g].acc
  <2>1. wg[g].at = "epilogue" \/ wg[g].at = "epilogue_smem" BY SyncMoves DEF AtEpilogueSync
  <2>2. wg'[g].at \in {"arrive_O", "write_O", "read_O"} BY <2>1, SyncMoves
  <2> QED BY <2>2, SyncMoves DEF Computes, InEpilogue
<1> HIDE DEF t
<1> QED BY <1>1, <1>2, <1>3 DEF Computed, Scored, Accumulated, InStep, AfterLoop, InEpilogue

(* What is left of smem_o while nobody writes it.                          *)
LEMMA StoredKept ==
  ASSUME StoredO, launch' = launch, smem_o' = smem_o,
         named'.store = named.store \/ named'.store = {},
         wg'[Storer].tile = wg[Storer].tile \/ named.store = {},
         \A h \in WarpGroups :
           wg'[h] = wg[h] \/ wg'[h].at \notin {"epilogue_smem", "read_O", "storing_O"}
  PROVE  StoredO'
<1>1. \A t : Whole(t)' = Whole(t) BY TermsFixed
<1>2. Storer' = Storer /\ WarpGroups' = WarpGroups BY DEF Storer, WarpGroups
<1>3. \A g \in named'.store : smem_o'[g] = Whole(wg'[Storer].tile)
  BY DEF StoredO
<1>4. \A g \in WarpGroups : wg'[g].at = "epilogue_smem" => smem_o'[g] = Whole(wg'[g].tile)
  BY DEF StoredO
<1>5. \A g \in WarpGroups : wg'[g].at \in {"read_O", "storing_O"} =>
        \A h \in WarpGroups : smem_o'[h] = Whole(wg'[g].tile)
  BY DEF StoredO
<1> QED BY <1>1, <1>2, <1>3, <1>4, <1>5 DEF StoredO

LEMMA SyncsOf ==
  ASSUME Places, NEW g \in WarpGroups, wg[g].at \in InEpilogue
  PROVE  /\ wg[g].tile \in Tiles /\ MmaCount(wg[g].tile) > 0 /\ launch \in LaunchSpace
         /\ StoresDone(g) \in Nat /\ StoresDone(g) = Before(WorkCount, wg[g].tile)
<1>1. wg[g].at \notin WithoutATile BY DEF InEpilogue, WithoutATile
<1> QED BY <1>1, StoresDoneTypes, PlaceFacts DEF StoresDone

LEMMA SameStores ==
  ASSUME Places, NEW g \in WarpGroups, NEW h \in WarpGroups,
         wg[g].at \in InEpilogue, wg[h].at \in InEpilogue, StoresDone(g) = StoresDone(h)
  PROVE  wg[g].tile = wg[h].tile
  BY SyncsOf, SameWork

LEMMA WriteOStores ==
  ASSUME Places, SyncsAgree, StoreArrivals, StoredO, NEW g \in WarpGroups, WriteO(g), Computed(g)
  PROVE  StoredO'
<1> DEFINE t == wg[g].tile
<1>1. /\ wg[g].at = "write_O" /\ launch' = launch
      /\ smem_o' = [smem_o EXCEPT ![g] = wg[g].acc]
      /\ \A h \in WarpGroups : h # g => wg'[h] = wg[h]
  <2>1. WarpGroup(g) BY DEF WarpGroup, Epilogue
  <2> QED BY <2>1, OnlyOneMoves DEF WriteO, At
<1>2. /\ smem_o'[g] = Whole(t)
      /\ \A h \in WarpGroups : h # g => smem_o'[h] = smem_o[h]
  <2>1. wg[g].acc = Whole(t) BY <1>1 DEF Computed, Accumulated, InEpilogue
  <2>2. DOMAIN smem_o = WarpGroups BY PlaceFacts DEF TypeOK
  <2> QED BY <1>1, <2>1, <2>2
<1>3. \A u : Whole(u)' = Whole(u) BY <1>1, TermsFixed
<1>4. Storer \in WarpGroups /\ Storer' = Storer /\ WarpGroups' = WarpGroups
  BY SomeWarpGroup DEF Storer, WarpGroups
<1>5. CASE launch.store = "tma"
  <2>1. /\ wg'[g].tile = t + 1 \/ (wg'[g].tile = t /\ wg'[g].at = "store_O")
        /\ wg'[g].at \in {"mma", "store_O"}
        /\ g = Storer => wg'[g].tile = t
    BY <1>5, WriteOMoves DEF Moves
  <2>2. named'.store = named.store \cup {g}
    <3>1. named \in [queryEmpty : Nat, scheduler : [WarpGroups -> Nat],
                     sync : SUBSET WarpGroups, store : SUBSET WarpGroups]
      BY PlaceFacts DEF TypeOK
    <3> QED BY <1>5, <3>1 DEF WriteO
  <2>3. wg[Storer].at \in {"write_O", "store_O"}
    BY <1>1, <1>5 DEF StoreArrivals
  <2>4. wg[Storer].tile = t
    <3>1. Syncs(g) = Syncs(Storer) BY <1>4 DEF SyncsAgree
    <3>2. StoresDone(g) \in Nat /\ StoresDone(Storer) \in Nat BY <1>4, StoresDoneTypes
    <3>3. Syncs(g) = StoresDone(g) + 1 /\ Syncs(Storer) = StoresDone(Storer) + 1
      BY <1>1, <1>5, <2>3 DEF Syncs
    <3>4. StoresDone(g) = StoresDone(Storer)
      <4>1. \A m, n \in Nat : m + 1 = n + 1 => m = n OBVIOUS
      <4>2. StoresDone(g) + 1 = StoresDone(Storer) + 1 BY ONLY <3>1, <3>3
      <4> QED BY ONLY <3>2, <4>1, <4>2
    <3>5. wg[g].at \in InEpilogue /\ wg[Storer].at \in InEpilogue BY <1>1, <2>3 DEF InEpilogue
    <3> QED BY <1>4, <3>4, <3>5, SameStores
  <2>5. wg'[Storer].tile = t BY <1>1, <1>4, <2>1, <2>4
  <2>6. \A h \in named.store : h \in WarpGroups /\ h # g
    BY <1>1, <1>5, <2>3 DEF StoreArrivals
  <2>7. \A h \in named'.store : smem_o'[h] = Whole(wg'[Storer].tile)
    <3>1. \A h \in named.store : smem_o[h] = Whole(t) BY <2>4 DEF StoredO
    <3> HIDE DEF t
    <3> QED BY <1>2, <2>2, <2>5, <2>6, <3>1
  <2>8. \A h \in WarpGroups : wg'[h].at \notin {"epilogue_smem", "read_O", "storing_O"}
    <3> SUFFICES ASSUME NEW h \in WarpGroups, h # g
                 PROVE  wg[h].at \notin {"epilogue_smem", "read_O", "storing_O"}
      BY <1>1, <2>1
    <3>1. Equipped(h) BY PlaceFacts
    <3>2. wg[h].at = "storing_O" => h = Storer BY <3>1 DEF Equipped
    <3> QED BY <1>5, <2>3, <3>1, <3>2 DEF Equipped
  <2> QED BY <1>3, <1>4, <2>7, <2>8 DEF StoredO
<1>6. CASE launch.store # "tma"
  <2>1. wg'[g].tile = t /\ wg'[g].at = "epilogue_smem" BY <1>6, WriteOMoves DEF Moves
  <2>2. named.store = {} BY <1>6 DEF StoreArrivals
  <2>3. named'.store = {}
    <3>1. named \in [queryEmpty : Nat, scheduler : [WarpGroups -> Nat],
                     sync : SUBSET WarpGroups, store : SUBSET WarpGroups]
      BY PlaceFacts DEF TypeOK
    <3> QED BY <1>6, <2>2, <3>1 DEF WriteO
  <2>4. \A h \in WarpGroups : wg'[h].at = "epilogue_smem" => smem_o'[h] = Whole(wg'[h].tile)
    <3> HIDE DEF t
    <3> QED BY <1>1, <1>2, <2>1 DEF StoredO, t
  <2>5. \A h \in WarpGroups : wg'[h].at \notin {"read_O", "storing_O"}
    <3> SUFFICES ASSUME NEW h \in WarpGroups, h # g, wg[h].at \in {"read_O", "storing_O"}
                 PROVE  FALSE
      BY <1>1, <2>1
    <3>1. wg[h].at = "read_O" /\ launch.store = "smem"
      BY <1>6, PlaceFacts DEF Equipped
    <3>2. StoresDone(g) \in Nat /\ StoresDone(h) \in Nat BY StoresDoneTypes
    <3>3. Syncs(g) = 2 * StoresDone(g) + 1 /\ Syncs(h) = 2 * StoresDone(h) + 2
      BY <1>1, <3>1 DEF Syncs
    <3>4. Syncs(g) = Syncs(h) BY DEF SyncsAgree
    <3> QED BY <3>2, <3>3, <3>4
  <2> QED BY <1>3, <1>4, <2>3, <2>4, <2>5 DEF StoredO
<1> QED BY <1>5, <1>6

LEMMA BeginTmaStoreStores ==
  ASSUME Places, StoredO, NEW g \in WarpGroups, BeginTmaStore(g)
  PROVE  StoredO'
<1>1. /\ wg[g].at = "store_O" /\ launch' = launch /\ smem_o' = smem_o
      /\ named.store = WarpGroups
      /\ wg'[g].at = "storing_O" /\ wg'[g].tile = wg[g].tile
      /\ \A h \in WarpGroups : h # g => wg'[h] = wg[h]
  BY BeginTmaStoreMoves DEF BeginTmaStore, At, Moves
<1>2. g = Storer /\ launch.store = "tma" BY <1>1, PlaceFacts DEF Equipped
<1>3. named'.store = {}
  <2>1. named \in [queryEmpty : Nat, scheduler : [WarpGroups -> Nat],
                   sync : SUBSET WarpGroups, store : SUBSET WarpGroups]
    BY PlaceFacts DEF TypeOK
  <2> QED BY <2>1 DEF BeginTmaStore
<1>4. \A u : Whole(u)' = Whole(u) BY <1>1, TermsFixed
<1>5. Storer' = Storer /\ WarpGroups' = WarpGroups BY DEF Storer, WarpGroups
<1>6. \A h \in WarpGroups : smem_o'[h] = Whole(wg[Storer].tile) BY <1>1 DEF StoredO
<1>7. \A h \in WarpGroups : h # g => wg'[h].at \notin {"epilogue_smem", "read_O", "storing_O"}
  <2> SUFFICES ASSUME NEW h \in WarpGroups, h # g
               PROVE  wg[h].at \notin {"epilogue_smem", "read_O", "storing_O"}
    BY <1>1
  <2>1. Equipped(h) BY PlaceFacts
  <2> QED BY <1>2, <2>1 DEF Equipped
<1> QED BY <1>1, <1>2, <1>3, <1>4, <1>5, <1>6, <1>7 DEF StoredO

LEMMA WarpGroupStores ==
  ASSUME Places, SyncsAgree, StoreArrivals, StoredO, NEW g \in WarpGroups, WarpGroup(g), Computed(g)
  PROVE  StoredO'
<1>1. /\ launch' = launch /\ Storer \in WarpGroups
      /\ \A h \in WarpGroups : h # g => wg'[h] = wg[h]
  BY OnlyOneMoves, SomeWarpGroup
<1>2. named \in [queryEmpty : Nat, scheduler : [WarpGroups -> Nat],
                 sync : SUBSET WarpGroups, store : SUBSET WarpGroups]
  BY PlaceFacts DEF TypeOK
<1>3. ASSUME smem_o' = smem_o, named'.store = named.store,
             wg[g].at \notin {"write_O", "store_O"},
             wg'[g].at \notin {"epilogue_smem", "read_O", "storing_O"}
      PROVE  StoredO'
  <2>1. wg'[Storer].tile = wg[Storer].tile \/ named.store = {}
    BY <1>1, <1>3 DEF StoreArrivals
  <2> QED BY <1>1, <1>3, <2>1, StoredKept
<1>4. CASE Mainloop(g)
  <2>1. smem_o' = smem_o /\ named'.store = named.store
    BY <1>2, <1>4 DEF Mainloop, MmaInit, StoreZero, WaitQ, FirstQK, FirstSoftmax,
       StepQK, StepPV,
                      StepReleaseK, StepReleaseV, QueryDone, LastPV, LastReleaseV, TakeTurn, PassTurn
  <2>2. CASE MmaInit(g) \/ StoreZero(g) \/ WaitQ(g)
    BY <1>3, <2>1, <2>2, MmaInitMoves, StoreZeroMoves, WaitQMoves DEF Moves
  <2>3. CASE FirstQK(g) \/ FirstSoftmax(g)
    BY <1>3, <2>1, <2>3, FirstQKMoves, FirstSoftmaxMoves DEF Moves
  <2>4. CASE StepQK(g) \/ StepPV(g)
    BY <1>3, <2>1, <2>4, StepQKMoves, StepPVMoves DEF Moves
  <2>5. CASE StepReleaseK(g) \/ StepReleaseV(g)
    BY <1>3, <2>1, <2>5, StepReleaseKMoves, StepReleaseVMoves DEF Moves
  <2>6. CASE QueryDone(g) \/ LastPV(g)
    BY <1>3, <2>1, <2>6, QueryDoneMoves, LastPVMoves DEF Moves
  <2>7. CASE LastReleaseV(g)
    BY <1>3, <2>1, <2>7, LastReleaseVMoves DEF Moves
  <2> QED BY <1>4, <2>2, <2>3, <2>4, <2>5, <2>6, <2>7 DEF Mainloop
<1>5. CASE EndTmaStore(g) BY <1>3, <1>5, EndTmaStoreMoves DEF Moves, EndTmaStore
<1>6. CASE ReadO(g) BY <1>3, <1>6, ReadOMoves DEF Moves, ReadO
<1>7. CASE ArriveO(g) BY <1>3, <1>7, ArriveOMoves DEF Moves, ArriveO
<1> QED BY <1>4, <1>5, <1>6, <1>7, WriteOStores, BeginTmaStoreStores DEF WarpGroup, Epilogue

LEMMA SyncStores ==
  ASSUME Places, SyncsAgree, StoreArrivals, StoredO, EpilogueSync
  PROVE  StoredO'
<1>1. /\ launch' = launch /\ smem_o' = smem_o /\ Storer \in WarpGroups
      /\ Storer' = Storer /\ WarpGroups' = WarpGroups
  BY SyncMoves, SomeWarpGroup DEF EpilogueSync, Storer, WarpGroups
<1>2. named.store = {}
  <2>1. wg[Storer].at \in AtEpilogueSync BY <1>1, SyncMoves
  <2> QED BY <2>1 DEF StoreArrivals, AtEpilogueSync
<1>3. named'.store = {}
  <2>1. named \in [queryEmpty : Nat, scheduler : [WarpGroups -> Nat],
                   sync : SUBSET WarpGroups, store : SUBSET WarpGroups]
    BY <1>1, PlaceFacts DEF TypeOK
  <2> QED BY <1>2, <2>1 DEF EpilogueSync
<1>4. \A u : Whole(u)' = Whole(u) BY <1>1, TermsFixed
<1>5. ASSUME NEW g \in WarpGroups
      PROVE  /\ wg'[g].at \notin {"epilogue_smem", "storing_O"} /\ wg'[g].tile = wg[g].tile
             /\ wg'[g].at = "read_O" => \A h \in WarpGroups : smem_o'[h] = Whole(wg[g].tile)
  <2>1. /\ wg[g].at = "epilogue" => wg'[g].at \in {"arrive_O", "write_O"}
        /\ wg[g].at = "epilogue_smem" => wg'[g].at \in {"arrive_O", "read_O"}
        /\ wg[g].at \in AtEpilogueSync /\ wg'[g].tile = wg[g].tile
    BY SyncMoves
  <2>2. ASSUME wg'[g].at = "read_O", NEW h \in WarpGroups
        PROVE  smem_o[h] = Whole(wg[g].tile)
    <3>1. wg[g].at = "epilogue_smem" BY <2>1, <2>2 DEF AtEpilogueSync
    <3>2. launch.store = "smem" BY <3>1, PlaceFacts DEF Equipped
    <3>3. wg[h].at \in AtEpilogueSync BY SyncMoves
    <3>4. StoresDone(g) \in Nat /\ StoresDone(h) \in Nat BY StoresDoneTypes
    <3>5. /\ Syncs(g) = 2 * StoresDone(g) + 1
          /\ wg[h].at = "epilogue" => Syncs(h) = 2 * StoresDone(h)
          /\ wg[h].at = "epilogue_smem" => Syncs(h) = 2 * StoresDone(h) + 1
      BY <3>1, <3>2, <3>4 DEF Syncs
    <3>6. Syncs(g) = Syncs(h) BY DEF SyncsAgree
    <3>7. wg[h].at = "epilogue_smem"
      BY <3>3, <3>4, <3>5, <3>6 DEF AtEpilogueSync
    <3>8. StoresDone(g) = StoresDone(h) BY <3>4, <3>5, <3>6, <3>7
    <3>9. wg[g].tile = wg[h].tile BY <3>1, <3>7, <3>8, SameStores DEF InEpilogue
    <3> QED BY <3>7, <3>9 DEF StoredO
  <2> QED BY <1>1, <2>1, <2>2 DEF AtEpilogueSync
<1> QED BY <1>1, <1>3, <1>4, <1>5 DEF StoredO

LEMMA OthersStore ==
  ASSUME Places, VIsRing, SyncsAgree, StoreArrivals, StoresCounted, OBehind, StoredO,
         Producer \/ Tma \/ Exit \/ UNCHANGED vars
  PROVE  StoredO'
<1>1. /\ launch' = launch /\ wg' = wg
      /\ smem_o' = smem_o \/ \E s \in Stages : vpipe.load[s] # NoBlock
      /\ named'.store = named.store
  <2>1. CASE Producer
    <3>1. launch' = launch /\ wg' = wg BY <2>1, ProducerStaysPlaced
    <3>2. named \in [queryEmpty : Nat, scheduler : [WarpGroups -> Nat],
                     sync : SUBSET WarpGroups, store : SUBSET WarpGroups]
      BY ProducerFacts DEF TypeOK
    <3>3. smem_o' = smem_o /\ named'.store = named.store
      BY <2>1, <3>2 DEF Producer, SkipTile, LoadFirstK, LoadQ, WaitO, LoadNextK, LoadPrevV,
                        LoadLastV, LoadTail
    <3> QED BY <3>1, <3>3
  <2>2. CASE Tma BY <2>2 DEF Tma, LandQ, LandK, LandV
  <2>3. CASE Exit \/ UNCHANGED vars BY <2>3 DEF Exit, vars
  <2> QED BY <2>1, <2>2, <2>3
<1>2. CASE smem_o' = smem_o BY <1>1, <1>2, StoredKept
<1>3. CASE \E s \in Stages : vpipe.load[s] # NoBlock
  <2>1. \A g \in WarpGroups : ~UsingO(g) BY <1>3, SmemOIsHeld
  <2>2. \A g \in WarpGroups : wg[g].at \notin {"write_O", "store_O", "epilogue_smem", "read_O", "storing_O"}
    BY <2>1 DEF UsingO
  <2>3. named.store = {} BY <2>2, SomeWarpGroup DEF StoreArrivals
  <2>4. WarpGroups' = WarpGroups BY DEF WarpGroups
  <2> QED BY <1>1, <2>2, <2>3, <2>4 DEF StoredO
<1> QED BY <1>1, <1>2, <1>3

AllComputed == \A g \in WarpGroups : Computed(g)

LEMMA ComputedNext ==
  ASSUME Places, TurnsInOrder, Buffered, SyncsAgree, StoreArrivals, StoresCounted, OBehind,
         AllComputed, StoredO, [Next]_vars
  PROVE  AllComputed' /\ StoredO'
<1>1. WarpGroups' = WarpGroups BY DEF WarpGroups
<1>2. CASE Producer \/ Tma \/ Exit \/ UNCHANGED vars
  <2>1. launch' = launch /\ wg' = wg
    BY <1>2, ProducerStaysPlaced DEF Tma, LandQ, LandK, LandV, Exit, vars
  <2>2. AllComputed' BY <1>1, <2>1, ComputedStays DEF AllComputed
  <2> QED BY <1>2, <2>2, OthersStore DEF Buffered
<1>3. CASE EpilogueSync
  BY <1>1, <1>3, SyncComputes, SyncStores DEF AllComputed
<1>4. ASSUME NEW g \in WarpGroups, WarpGroup(g)
      PROVE  AllComputed' /\ StoredO'
  <2>1. Computed(g) BY DEF AllComputed
  <2>2. Computed(g)' BY <1>4, <2>1, MainloopComputes, EpilogueComputes DEF WarpGroup
  <2>3. ASSUME NEW h \in WarpGroups, h # g PROVE Computed(h)'
    BY <1>4, <2>3, OnlyOneMoves, ComputedStays DEF AllComputed
  <2> QED BY <1>1, <1>4, <2>1, <2>2, <2>3, WarpGroupStores DEF AllComputed
<1> QED BY <1>2, <1>3, <1>4 DEF Next

LEMMA ComputedInit ==
  ASSUME Init
  PROVE  AllComputed /\ StoredO
<1>1. \A g \in WarpGroups : wg[g].at = "init" BY DEF Init
<1>2. named.store = {} BY DEF Init
<1> QED BY <1>1, <1>2 DEF AllComputed, Computed, Scored, Accumulated, StoredO, InStep,
           AfterLoop,
                       InEpilogue

(* Whatever order warps and copies run in, a warpgroup accumulates the     *)
(* terms of its own tile, one block after another, each key block with its *)
(* own value block; and what the epilogue reads back from smem_o, which is *)
(* smem_v, is what all of them accumulated for the same tile.              *)
THEOREM TermsAlways == Spec => [](AllComputed /\ StoredO)
<1>1. Init => AllComputed /\ StoredO BY ComputedInit
<1>2. /\ Places /\ TurnsInOrder /\ (KIsRing /\ VIsRing) /\ (KHolds /\ VHolds)
      /\ QueryCounted /\ QueryHolds /\ (SyncsAgree /\ StoreArrivals)
      /\ (StoresCounted /\ OBehind) /\ (AllComputed /\ StoredO) /\ [Next]_vars
      => (AllComputed /\ StoredO)'
  <2> SUFFICES ASSUME Places, TurnsInOrder, KIsRing, VIsRing, KHolds, VHolds, QueryCounted,
                      QueryHolds, SyncsAgree, StoreArrivals, StoresCounted, OBehind,
                      AllComputed, StoredO, [Next]_vars
               PROVE  AllComputed' /\ StoredO'
    OBVIOUS
  <2>1. Buffered BY DEF Buffered
  <2> QED BY <2>1, ComputedNext
<1> QED BY <1>1, <1>2, PlacesAlways, TurnsAlways, RingsAlways, StagesAlwaysHold, QueriesAlways,
           QueryAlwaysHolds, EpilogueAlways, StoresAlways, PTL DEF Spec


-----------------------------------------------------------------------------
(* What has been written.  With the TMA store the Storer alone writes the  *)
(* output of a tile with blocks, for everybody; else each writes its own.  *)
Writer(t, g) == IF launch.store = "tma" /\ MmaCount(t) > 0 THEN Storer ELSE g

WrittenOnce(t, g) ==
  out[t][g] = IF wg[Writer(t, g)].tile > t THEN <<Whole(t)>> ELSE << >>

Outputs == \A t \in Tiles, g \in WarpGroups : WrittenOnce(t, g)

LEMMA WriterFacts ==
  ASSUME launch' = launch
  PROVE  /\ Tiles' = Tiles /\ WarpGroups' = WarpGroups
         /\ \A t, g : Writer(t, g)' = Writer(t, g)
         /\ \A t, g : g \in WarpGroups => Writer(t, g) \in WarpGroups
<1>1. Tiles' = Tiles /\ \A t : MmaCount(t)' = MmaCount(t) BY TermsFixed
<1>2. Storer' = Storer /\ WarpGroups' = WarpGroups BY DEF Storer, WarpGroups
<1>3. ASSUME NEW t, NEW g PROVE Writer(t, g)' = Writer(t, g)
  BY <1>1, <1>2, Zenon DEF Writer
<1> QED BY <1>1, <1>2, <1>3, SomeWarpGroup DEF Writer

(* A step that writes nothing: the warpgroups stay at their tiles, but for *)
(* one that has handed its output over to the Storer.                      *)
LEMMA OutputsStay ==
  ASSUME Places, Outputs, launch' = launch, out' = out,
         \A h \in WarpGroups :
           \/ wg'[h].tile = wg[h].tile
           \/ /\ launch.store = "tma" /\ h # Storer /\ MmaCount(wg[h].tile) > 0
              /\ wg'[h].tile = wg[h].tile + 1
  PROVE  Outputs'
<1> SUFFICES ASSUME NEW t \in Tiles, NEW g \in WarpGroups
             PROVE  WrittenOnce(t, g)'
  BY WriterFacts DEF Outputs
<1> DEFINE w == Writer(t, g)
<1>1. w \in WarpGroups /\ Writer(t, g)' = w BY WriterFacts
<1>2. Whole(t)' = Whole(t) BY TermsFixed
<1>3. wg'[w].tile > t <=> wg[w].tile > t
  <2>1. CASE wg'[w].tile = wg[w].tile BY <2>1
  <2>2. CASE /\ launch.store = "tma" /\ w # Storer /\ MmaCount(wg[w].tile) > 0
             /\ wg'[w].tile = wg[w].tile + 1
    <3>1. wg[w].tile # t BY <2>2 DEF Writer
    <3>2. wg[w].tile \in Nat /\ t \in Nat BY <1>1, PlaceFacts DEF Tiles
    <3> QED BY ONLY <2>2, <3>1, <3>2
  <2> QED BY <1>1, <2>1, <2>2
<1>4. WrittenOnce(t, g) BY DEF Outputs
<1> HIDE DEF w
<1> QED BY <1>1, <1>2, <1>3, <1>4, Zenon DEF WrittenOnce, w

WritesTile(t, G) == t \in Tiles /\ G \in (SUBSET WarpGroups) \ {{}} /\ Cta!Write(t, G)

(* A step that writes: the shares of one tile, by the one that then leaves *)
(* the tile.                                                               *)
LEMMA OutputsWritten ==
  ASSUME Places, launch \in Launches, Outputs, launch' = launch, NEW w \in WarpGroups,
         NEW t \in Tiles, NEW G \in (SUBSET WarpGroups) \ {{}},
         wg[w].tile = t, wg'[w].tile = t + 1,
         \A h \in WarpGroups : h # w => wg'[h] = wg[h],
         \A g \in WarpGroups : g \in G <=> Writer(t, g) = w,
         out' = Written(t, G, Whole(t))
  PROVE  Outputs' /\ WritesTile(t, G)
<1>1. /\ out \in [Tiles -> [WarpGroups -> Seq(Result)]] /\ launch \in LaunchSpace
      /\ Tiles = 1 .. Len(launch.tiles)
  BY PlaceFacts DEF TypeOK
<1>2. \A g \in G : out[t][g] = << >>
  <2> SUFFICES ASSUME NEW g \in G PROVE out[t][g] = << >> OBVIOUS
  <2>1. Writer(t, g) = w /\ WrittenOnce(t, g) BY DEF Outputs
  <2>2. ~(wg[w].tile > t) BY <1>1
  <2> QED BY <2>1, <2>2, Zenon DEF WrittenOnce
<1>3. out' = [out EXCEPT ![t] = [g \in WarpGroups |-> IF g \in G THEN <<Whole(t)>>
                                                      ELSE out[t][g]]]
  <2>1. \A x : Append(<< >>, x) = <<x>> OBVIOUS
  <2>2. \A g \in G : Append(out[t][g], Whole(t)) = <<Whole(t)>> BY <1>2, <2>1, Zenon
  <2> HIDE DEF Whole
  <2> QED BY <2>2 DEF Written
<1>4. /\ \A g \in WarpGroups : out'[t][g] = IF g \in G THEN <<Whole(t)>> ELSE out[t][g]
      /\ \A u \in Tiles : u # t => out'[u] = out[u]
  BY <1>1, <1>3
<1>5. ASSUME NEW u \in Tiles, NEW g \in WarpGroups
      PROVE  WrittenOnce(u, g)'
  <2> DEFINE v == Writer(u, g)
  <2>1. v \in WarpGroups /\ Writer(u, g)' = v BY WriterFacts
  <2>2. Whole(u)' = Whole(u) BY TermsFixed
  <2>3. wg[v].tile \in Nat /\ t \in Nat /\ u \in Nat BY <1>1, <2>1, PlaceFacts
  <2>4. WrittenOnce(u, g) BY DEF Outputs
  <2>5. CASE u = t /\ g \in G
    <3>1. wg'[v].tile > u BY <2>3, <2>5
    <3>2. out'[u][g] = <<Whole(u)>> BY <1>4, <2>5
    <3> QED BY <2>1, <2>2, <3>1, <3>2 DEF WrittenOnce
  <2>6. CASE ~(u = t /\ g \in G)
    <3>1. out'[u][g] = out[u][g] BY <1>4, <2>6
    <3>2. u # t \/ v # w BY <2>6
    <3> HIDE DEF v
    <3>3. wg'[v].tile > u <=> wg[v].tile > u
      <4>1. CASE v # w BY <2>1, <4>1
      <4>2. CASE v = w BY <2>3, <3>2, <4>2
      <4> QED BY <4>1, <4>2
    <3> QED BY <2>1, <2>2, <2>4, <3>1, <3>3, Zenon DEF WrittenOnce, v
  <2> QED BY <2>5, <2>6
<1>6. Cta!Write(t, G)
  <2>1. Work[launch] = [u \in Tiles |-> Whole(u)] BY <1>1, WorkIsTerms DEF Whole
  <2>2. Work[launch][t] = Whole(t) BY <2>1
  <2>3. Work[launch]' = Work[launch] OBVIOUS
  <2> HIDE DEF Whole
  <2> QED BY <1>2, <1>3, <2>2, <2>3 DEF Cta!Write
<1> QED BY <1>5, <1>6, WriterFacts DEF Outputs, WritesTile

LEMMA CtaWrites ==
  ASSUME launch \in LaunchSpace, launch \in Launches, NEW t, NEW G, WritesTile(t, G)
  PROVE  Cta!Next
<1>1. DOMAIN Work[launch] = Tiles BY WorkIsTerms
<1> QED BY <1>1 DEF Cta!Next, WritesTile

LEMMA CtaRests ==
  ASSUME launch' = launch, out' = out
  PROVE  UNCHANGED Cta!vars
<1>1. Work[launch]' = Work[launch] OBVIOUS
<1> QED BY <1>1 DEF Cta!vars

LEMMA EpilogueWrites ==
  ASSUME Places, launch \in Launches, AllComputed, StoredO, Outputs, NEW g \in WarpGroups,
         EndTmaStore(g) \/ ArriveO(g) \/ StoreZero(g)
  PROVE  Outputs' /\ \E t, G : WritesTile(t, G)
<1> DEFINE t == wg[g].tile
<1>1. /\ launch' = launch /\ t \in Tiles /\ wg'[g].tile = t + 1
      /\ \A h \in WarpGroups : h # g => wg'[h] = wg[h]
  BY EndTmaStoreMoves, ArriveOMoves, StoreZeroMoves DEF Moves, EndTmaStore, ArriveO,
     StoreZero, At
<1>2. CASE EndTmaStore(g)
  <2>1. wg[g].at = "storing_O" BY <1>2 DEF EndTmaStore, At
  <2>2. launch.store = "tma" /\ g = Storer BY <2>1, PlaceFacts DEF Equipped
  <2>3. MmaCount(t) > 0
    <3>1. wg[g].at \in InEpilogue BY <2>1 DEF InEpilogue
    <3> QED BY <3>1, SyncsOf
  <2>4. \A h \in WarpGroups : h \in WarpGroups <=> Writer(t, h) = g BY <2>2, <2>3 DEF Writer
  <2>5. SmemOTile = Whole(t) BY <2>1, WholeRead
  <2>6. out' = Written(t, WarpGroups, Whole(t)) BY <1>2, <2>5 DEF EndTmaStore
  <2>7. WarpGroups \in (SUBSET WarpGroups) \ {{}} BY SomeWarpGroup
  <2> HIDE DEF t
  <2> QED BY <1>1, <2>4, <2>6, <2>7, OutputsWritten DEF t
<1>3. CASE ArriveO(g) \/ StoreZero(g)
  <2>1. \A h : Writer(t, h) = h
    <3>1. CASE ArriveO(g)
      <4>1. wg[g].at = "arrive_O" BY <3>1 DEF ArriveO, At
      <4>2. launch.store # "tma" BY <4>1, PlaceFacts DEF Equipped
      <4> QED BY <4>2 DEF Writer
    <3>2. CASE StoreZero(g)
      <4>1. MmaCount(t) = 0 BY <3>2 DEF StoreZero
      <4>2. ~(MmaCount(t) > 0) BY <4>1
      <4> QED BY <4>2 DEF Writer
    <3> QED BY <1>3, <3>1, <3>2
  <2>2. out' = Written(t, {g}, Whole(t))
    <3>1. CASE ArriveO(g)
      <4>1. wg[g].at = "arrive_O" BY <3>1 DEF ArriveO, At
      <4>2. wg[g].acc = Whole(t) BY <4>1 DEF AllComputed, Computed, Accumulated, InEpilogue
      <4> QED BY <3>1, <4>2 DEF ArriveO
    <3>2. CASE StoreZero(g)
      <4>1. MmaCount(t) = 0 BY <3>2 DEF StoreZero
      <4>2. Whole(t) = << >> BY <4>1 DEF Whole, TileTerms
      <4> QED BY <3>2, <4>2 DEF StoreZero
    <3> QED BY <1>3, <3>1, <3>2
  <2>3. {g} \in (SUBSET WarpGroups) \ {{}} OBVIOUS
  <2>4. \A h \in WarpGroups : h \in {g} <=> Writer(t, h) = g BY <2>1
  <2> HIDE DEF t
  <2> QED BY <1>1, <2>2, <2>3, <2>4, OutputsWritten DEF t
<1> QED BY <1>2, <1>3

(* Every other step of a warpgroup.                                        *)
LEMMA WarpGroupWritesNothing ==
  ASSUME Places, NEW g \in WarpGroups, WarpGroup(g),
         ~EndTmaStore(g), ~ArriveO(g), ~StoreZero(g)
  PROVE  /\ out' = out
         /\ \/ wg'[g].tile = wg[g].tile
            \/ /\ launch.store = "tma" /\ g # Storer /\ MmaCount(wg[g].tile) > 0
               /\ wg'[g].tile = wg[g].tile + 1
<1>1. CASE MmaInit(g) \/ WaitQ(g)
  BY <1>1, MmaInitMoves, WaitQMoves DEF Moves, MmaInit, WaitQ
<1>2. CASE FirstQK(g) \/ FirstSoftmax(g)
  BY <1>2, FirstQKMoves, FirstSoftmaxMoves DEF Moves, FirstQK, FirstSoftmax
<1>3. CASE StepQK(g) \/ StepPV(g)
  BY <1>3, StepQKMoves, StepPVMoves DEF Moves, StepQK, StepPV
<1>4. CASE StepReleaseK(g) \/ StepReleaseV(g)
  BY <1>4, StepReleaseKMoves, StepReleaseVMoves DEF Moves, StepReleaseK, StepReleaseV
<1>5. CASE QueryDone(g) \/ LastPV(g)
  BY <1>5, QueryDoneMoves, LastPVMoves DEF Moves, QueryDone, LastPV
<1>6. CASE LastReleaseV(g) BY <1>6, LastReleaseVMoves DEF Moves, LastReleaseV
<1>7. CASE BeginTmaStore(g) BY <1>7, BeginTmaStoreMoves DEF Moves, BeginTmaStore
<1>8. CASE ReadO(g) BY <1>8, ReadOMoves DEF Moves, ReadO
<1>9. CASE WriteO(g)
  <2>1. wg[g].at \in InEpilogue BY <1>9 DEF WriteO, At, InEpilogue
  <2>2. MmaCount(wg[g].tile) > 0 BY <2>1, SyncsOf
  <2>3. out' = out BY <1>9 DEF WriteO
  <2>4. \/ wg'[g].tile = wg[g].tile
        \/ launch.store = "tma" /\ g # Storer /\ wg'[g].tile = wg[g].tile + 1
    BY <1>9, WriteOMoves DEF Moves
  <2> QED BY <2>2, <2>3, <2>4
<1> QED BY <1>1, <1>2, <1>3, <1>4, <1>5, <1>6, <1>7, <1>8, <1>9 DEF WarpGroup,
           Mainloop, Epilogue

LEMMA OutputsNext ==
  ASSUME Places, launch \in Launches, AllComputed, StoredO, Outputs, [Next]_vars
  PROVE  launch' \in Launches /\ Outputs' /\ [Cta!Next]_(Cta!vars)
<1>1. CASE Producer \/ Tma \/ Exit \/ EpilogueSync \/ UNCHANGED vars
  <2>1. launch' = launch /\ \A h \in WarpGroups : wg'[h].tile = wg[h].tile
    <3>1. CASE Producer BY <3>1, ProducerStaysPlaced
    <3>2. CASE Tma \/ Exit \/ UNCHANGED vars BY <3>2 DEF Tma, LandQ, LandK, LandV, Exit, vars
    <3>3. CASE EpilogueSync BY <3>3, SyncMoves DEF EpilogueSync
    <3> QED BY <1>1, <3>1, <3>2, <3>3
  <2>2. out' = out
    BY <1>1 DEF Producer, SkipTile, LoadFirstK, LoadQ, WaitO, LoadNextK, LoadPrevV, LoadLastV,
                LoadTail, Tma, LandQ, LandK, LandV, EpilogueSync, Exit, vars
  <2> QED BY <2>1, <2>2, OutputsStay, CtaRests
<1>2. ASSUME NEW g \in WarpGroups, WarpGroup(g)
      PROVE  launch' \in Launches /\ Outputs' /\ [Cta!Next]_(Cta!vars)
  <2>1. launch' = launch /\ \A h \in WarpGroups : h # g => wg'[h] = wg[h]
    BY <1>2, OnlyOneMoves
  <2>2. CASE EndTmaStore(g) \/ ArriveO(g) \/ StoreZero(g)
    <3>1. launch \in LaunchSpace BY PlaceFacts
    <3>2. Outputs' /\ Cta!Next BY <2>2, <3>1, EpilogueWrites, CtaWrites
    <3> QED BY <2>1, <3>2
  <2>3. CASE ~EndTmaStore(g) /\ ~ArriveO(g) /\ ~StoreZero(g)
    <3>1. /\ out' = out
          /\ \/ wg'[g].tile = wg[g].tile
             \/ /\ launch.store = "tma" /\ g # Storer /\ MmaCount(wg[g].tile) > 0
                /\ wg'[g].tile = wg[g].tile + 1
      BY <1>2, <2>3, WarpGroupWritesNothing
    <3> QED BY <2>1, <3>1, OutputsStay, CtaRests
  <2> QED BY <2>2, <2>3
<1> QED BY <1>1, <1>2 DEF Next

LEMMA OutputsInit ==
  ASSUME Init
  PROVE  launch \in Launches /\ Outputs /\ Cta!Init
<1>1. launch \in LaunchSpace /\ launch \in Launches BY LaunchesAssumption DEF Init
<1>2. \A t \in Tiles, g \in WarpGroups : out[t][g] = << >> BY DEF Init
<1>3. \A t \in Tiles, g \in WarpGroups : ~(wg[Writer(t, g)].tile > t)
  <2>1. \A t \in Tiles : t \in Nat /\ t >= 1 BY DEF Tiles
  <2>2. \A h \in WarpGroups : wg[h].tile = 1 BY DEF Init
  <2>3. \A t, g : g \in WarpGroups => Writer(t, g) \in WarpGroups BY SomeWarpGroup DEF Writer
  <2> QED BY <2>1, <2>2, <2>3
<1>4. DOMAIN Work[launch] = Tiles BY <1>1, WorkIsTerms
<1> QED BY <1>1, <1>2, <1>3, <1>4 DEF Outputs, WrittenOnce, Init, Cta!Init

(* Whatever order warps and copies run in, with O stored over V: what the  *)
(* CTA writes is each share of each tile once, the attention of the tile's *)
(* own queries over its own blocks (ImplementsCtaAttention without the     *)
(* fairness, that is without the promise to get there).                    *)
THEOREM CtaAttentionImplemented == Spec => Cta!Init /\ [][Cta!Next]_(Cta!vars)
<1>1. Init => launch \in Launches /\ Outputs /\ Cta!Init BY OutputsInit
<1>2. Places /\ (AllComputed /\ StoredO) /\ (launch \in Launches /\ Outputs) /\ [Next]_vars
      => (launch \in Launches /\ Outputs)' /\ [Cta!Next]_(Cta!vars)
  BY OutputsNext
<1> QED BY <1>1, <1>2, PlacesAlways, TermsAlways, PTL DEF Spec
=============================================================================
