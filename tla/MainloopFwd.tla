---------------------------- MODULE MainloopFwd ----------------------------
(***************************************************************************)
(* One CTA of the Hopper forward kernel on the path both the dense and the *)
(* sparse attention take (IntraWGOverlap, no V transpose): the producer    *)
(* warp (load, load_sparse, load_tail), the MMA warpgroups (mma_init, mma, *)
(* mma_sparse, then the epilogue) and the asynchronous TMA copies.         *)
(*                                                                         *)
(* Nothing but barriers orders them: the full and empty mbarriers of the K *)
(* and V pipelines, barrier_Q and barrier_O (tested by parity), and the    *)
(* named barriers QueryEmpty, WarpSchedulerWG1.. and EpilogueBarrier       *)
(* (completed by a count of arrivals, whoever makes them).                 *)
(*                                                                         *)
(* A step runs from one blocking call to the next.  Blocks of K and V are  *)
(* told apart by tile and block index; scores and the accumulator record   *)
(* which blocks went into them.  Masks, scaling and softmax are left out.  *)
(***************************************************************************)
EXTENDS SparseSplit, Sequences, FiniteSets

CONSTANTS
  NumMmaWarpGroups,
  kStages,
  UseSchedulerBarrier,
  Launches,  (* the launches to consider, see LaunchSpace                  *)
  NoBlock    (* contents of shared memory nobody may rely on               *)

WarpGroups == 0 .. NumMmaWarpGroups - 1

INSTANCE TmaPipeline WITH Consumers <- WarpGroups

(***************************************************************************)
(* A launch as one CTA sees it: the sparse block table (ptr set or not),   *)
(* num_splits, the template flag Split, how the epilogue stores O, and the *)
(* tiles the scheduler hands to this CTA, in order.  A dense tile has its  *)
(* range of blocks before splitting.                                       *)
(*   store = "tma"    : !Varlen, !Split, !PackGQA (Use_TMA_O)              *)
(*           "smem"   : Varlen, or PackGQA && !Split; through smem_o       *)
(*           "direct" : Split && !Varlen, registers to gmem                *)
(***************************************************************************)
LaunchSpace ==
  [sparse : BOOLEAN, table : Seq(Nat), num_splits : Nat \ {0}, Split : BOOLEAN,
   store  : {"tma", "smem", "direct"},
   tiles  : Seq([split_idx : Nat, n_min : Nat, n_max : Nat])]

ASSUME LaunchesAssumption == Launches \subseteq LaunchSpace
ASSUME WarpGroupsAssumption == NumMmaWarpGroups \in Nat \ {0}
ASSUME RingSizeAssumption == kStages \in Nat \ {0}
ASSUME TurnsAssumption == UseSchedulerBarrier \in BOOLEAN

VARIABLES
  launch,    (* kernel parameters, fixed for the whole run                 *)
  producer,  (* the producer warp                                          *)
  wg,        (* the MMA warpgroups                                         *)
  kpipe,     (* pipeline_k with smem_k                                     *)
  vpipe,     (* pipeline_v with smem_v                                     *)
  query,     (* smem_q and barrier_Q                                       *)
  named,     (* arrivals pending on the named barriers                     *)
  barrier_O, (* arrivals and completed phases of barrier_O                 *)
  smem_o,    (* each warpgroup's part of smem_o (a union with smem_v)      *)
  out        (* what has been written to gmem, per tile and warpgroup      *)

vars == <<launch, producer, wg, kpipe, vpipe, query, named, barrier_O, smem_o, out>>

Tiles == 1 .. Len(launch.tiles)

-----------------------------------------------------------------------------
(* The blocks of a tile.  Producer and warpgroups compute them separately; *)
(* a warpgroup only needs to know how many there are.                      *)

SparseRange(tile) ==
  IF launch.Split
  THEN SplitRange(tile.split_idx, launch.num_splits, Len(launch.table))
  ELSE [begin |-> 0, num |-> Len(launch.table)]

(* Mutant: the range before splitting is taken to begin at block 0.        *)
DenseRangeFromZero(tile) ==
  IF launch.Split
  THEN SplitRange(tile.split_idx, launch.num_splits, tile.n_max - tile.n_min)
  ELSE [begin |-> 0, num |-> Greater(0, tile.n_max - tile.n_min)]

(* get_n_block_min_max, from the range before splitting.                   *)
DenseRange(tile) ==
  IF launch.Split
  THEN LET r == SplitRange(tile.split_idx, launch.num_splits, tile.n_max - tile.n_min)
       IN [begin |-> tile.n_min + r.begin, num |-> r.num]
  ELSE [begin |-> tile.n_min, num |-> Greater(0, tile.n_max - tile.n_min)]

(* Mutant: the producer reads the table from its start in every split.     *)
LoadBlocksFromStart(t) ==
  LET tile == launch.tiles[t]
      s    == SparseRange(tile)
      d    == DenseRange(tile)
  IN IF launch.sparse
     THEN [i \in 1 .. s.num |-> launch.table[i]]
     ELSE [i \in 1 .. d.num |-> d.begin + d.num - i]

(* Table order when sparse, the last block first when dense.               *)
LoadBlocks(t) ==
  LET tile == launch.tiles[t]
      s    == SparseRange(tile)
      d    == DenseRange(tile)
  IN IF launch.sparse
     THEN [i \in 1 .. s.num |-> launch.table[s.begin + i]]
     ELSE [i \in 1 .. d.num |-> d.begin + d.num - i]

MmaCount(t) ==
  LET tile == launch.tiles[t]
  IN IF launch.sparse THEN SparseRange(tile).num ELSE DenseRange(tile).num

(* is_split of the epilogue: O goes to O_partial.                          *)
IsSplit(t) ==
  /\ launch.Split
  /\ \/ launch.store = "direct"
     \/ NumSplitsActual(launch.tiles[t].split_idx, launch.num_splits) > 1

-----------------------------------------------------------------------------
(* Who waits for what.                                                     *)

(* Mutants: warpgroups counted from 1, the producer being 0; the wait left *)
(* to the first warpgroup although there is no scheduler barrier.          *)
WaitsInLoopFrom1(g) == ~UseSchedulerBarrier \/ g = 1
WaitsInLoopFirst(g) == g = 0

(* Only the first warpgroup waits for the K and V of a loop step: the      *)
(* others start after it, by the scheduler barrier.                        *)
WaitsInLoop(g) == ~UseSchedulerBarrier \/ g = 0

NextWG(g) == (g + 1) % NumMmaWarpGroups

(* warp_scheduler_barrier_sync may return, and the pending arrivals after  *)
(* it; warp_scheduler_barrier_arrive.                                      *)
MySchedulerTurn(g) == UseSchedulerBarrier => named.scheduler[g] > 0

TakeTurn(g) ==
  IF UseSchedulerBarrier
  THEN [named EXCEPT !.scheduler = [named.scheduler EXCEPT ![g] = 0]]
  ELSE named

(* Mutant: everybody gets the next turn.                                   *)
PassTurnToAll(g) ==
  [named EXCEPT !.scheduler = [h \in WarpGroups |-> named.scheduler[h] + 1]]

PassTurn(g) ==
  IF UseSchedulerBarrier
  THEN [named EXCEPT !.scheduler = [named.scheduler EXCEPT ![NextWG(g)] = @ + 1]]
  ELSE named

(* Mutant: barrier_O always initialised for one arrival.                   *)
BarrierOCountOne == 1

(* barrier_O: one thread arrives after a TMA store, every warpgroup else.  *)
BarrierOCount == IF launch.store = "tma" THEN 1 ELSE NumMmaWarpGroups

ArrivedO ==
  IF barrier_O.arrived + 1 = BarrierOCount
  THEN [arrived |-> 0, completed |-> barrier_O.completed + 1]
  ELSE [barrier_O EXCEPT !.arrived = @ + 1]

(* Mutants: no wait for O; the consumer's parity.                          *)
OFreeAlways == TRUE
OFreeWrongPhase == PhaseOver(barrier_O.completed, producer.work_idx % 2)

(* The producer's wait for barrier_O before V, and before it exits.        *)
OFree == PhaseOver(barrier_O.completed, (producer.work_idx + 1) % 2)

-----------------------------------------------------------------------------
Init ==
  /\ launch \in Launches
  /\ producer = [at |-> "tile", tile |-> 1, i |-> 1, work_idx |-> 0,
                 write |-> StartState, write_v |-> StartState]
  /\ wg = [g \in WarpGroups |->
             [at |-> "init", tile |-> 1, i |-> 1, work_idx |-> 0,
              read |-> StartState, read_v |-> StartState,
              s |-> NoBlock, p |-> NoBlock, acc |-> << >>]]
  /\ kpipe = EmptyPipeline
  /\ vpipe = EmptyPipeline
  /\ query = [load |-> NoBlock, data |-> NoBlock, completed |-> 0]
  /\ named = [queryEmpty |-> 0, scheduler |-> [g \in WarpGroups |-> 0],
              sync |-> {}, store |-> {}]
  /\ barrier_O = [arrived |-> 0, completed |-> 0]
  /\ smem_o = [g \in WarpGroups |-> NoBlock]
  /\ out = [t \in Tiles |-> [g \in WarpGroups |-> << >>]]

-----------------------------------------------------------------------------
(* The producer warp.                                                      *)

BlockOf(t, i) == [tile |-> t, block |-> LoadBlocks(t)[i]]

ProducerAt(label) == producer.at = label /\ producer.tile \in Tiles

(* num_blocks <= 0: nothing is loaded, not even Q.                         *)
SkipTile ==
  /\ ProducerAt("tile")
  /\ LoadBlocks(producer.tile) = << >>
  /\ producer' = [producer EXCEPT !.tile = @ + 1]
  /\ UNCHANGED <<launch, wg, kpipe, vpipe, query, named, barrier_O, smem_o, out>>

LoadFirstK ==
  /\ ProducerAt("tile")
  /\ LoadBlocks(producer.tile) # << >>
  /\ AcquireReady(kpipe, producer.write)
  /\ kpipe' = Issue(kpipe, producer.write, BlockOf(producer.tile, 1))
  /\ producer' = [producer EXCEPT !.at = "load_Q", !.i = 1]
  /\ UNCHANGED <<launch, wg, vpipe, query, named, barrier_O, smem_o, out>>

(* NamedBarrier::sync(QueryEmpty) completes with the warpgroups' arrivals. *)
LoadQ ==
  /\ ProducerAt("load_Q")
  /\ named.queryEmpty >= NumMmaWarpGroups
  /\ named' = [named EXCEPT !.queryEmpty = 0]
  /\ query' = [query EXCEPT !.load = producer.tile]
  /\ producer' = [producer EXCEPT !.at = "wait_O"]
  /\ UNCHANGED <<launch, wg, kpipe, vpipe, barrier_O, smem_o, out>>

WaitO ==
  /\ ProducerAt("wait_O")
  /\ OFree
  /\ producer' = [producer EXCEPT !.at = "load_K"]
  /\ UNCHANGED <<launch, wg, kpipe, vpipe, query, named, barrier_O, smem_o, out>>

LoadNextK ==
  LET next == Advance(producer.write)
  IN /\ ProducerAt("load_K")
     /\ producer.i < Len(LoadBlocks(producer.tile))
     /\ AcquireReady(kpipe, next)
     /\ kpipe' = Issue(kpipe, next, BlockOf(producer.tile, producer.i + 1))
     /\ producer' = [producer EXCEPT !.at = "load_V", !.write_v = producer.write,
                                     !.write = next]
     /\ UNCHANGED <<launch, wg, vpipe, query, named, barrier_O, smem_o, out>>

(* V is one block behind K.                                                *)
LoadPrevV ==
  /\ ProducerAt("load_V")
  /\ AcquireReady(vpipe, producer.write_v)
  /\ vpipe' = Issue(vpipe, producer.write_v, BlockOf(producer.tile, producer.i))
  /\ producer' = [producer EXCEPT !.at = "load_K", !.i = @ + 1]
  /\ UNCHANGED <<launch, wg, kpipe, query, named, barrier_O, smem_o, out>>

LoadLastV ==
  /\ ProducerAt("load_K")
  /\ producer.i = Len(LoadBlocks(producer.tile))
  /\ AcquireReady(vpipe, producer.write)
  /\ vpipe' = Issue(vpipe, producer.write, BlockOf(producer.tile, producer.i))
  /\ producer' = [producer EXCEPT !.at = "tile", !.tile = @ + 1, !.work_idx = @ + 1,
                                  !.write = Advance(@)]
  /\ UNCHANGED <<launch, wg, kpipe, query, named, barrier_O, smem_o, out>>

(* load_tail: producer_tail acquires every stage once more.                *)
LoadTail ==
  /\ producer.at = "tile"
  /\ producer.tile \notin Tiles
  /\ OFree
  /\ AllReleased(kpipe, producer.write)
  /\ AllReleased(vpipe, producer.write)
  /\ producer' = [producer EXCEPT !.at = "done"]
  /\ UNCHANGED <<launch, wg, kpipe, vpipe, query, named, barrier_O, smem_o, out>>

Producer ==
  \/ SkipTile \/ LoadFirstK \/ LoadQ \/ WaitO
  \/ LoadNextK \/ LoadPrevV \/ LoadLastV \/ LoadTail

-----------------------------------------------------------------------------
(* The asynchronous copies land in any order.                              *)

LandK(s) ==
  /\ kpipe.load[s] # NoBlock
  /\ kpipe' = Land(kpipe, s)
  /\ UNCHANGED <<launch, producer, wg, vpipe, query, named, barrier_O, smem_o, out>>

(* smem_o shares its memory with smem_v.                                   *)
LandV(s) ==
  /\ vpipe.load[s] # NoBlock
  /\ vpipe' = Land(vpipe, s)
  /\ smem_o' = [g \in WarpGroups |-> NoBlock]
  /\ UNCHANGED <<launch, producer, wg, kpipe, query, named, barrier_O, out>>

LandQ ==
  /\ query.load # NoBlock
  /\ query' = [load |-> NoBlock, data |-> query.load, completed |-> query.completed + 1]
  /\ UNCHANGED <<launch, producer, wg, kpipe, vpipe, named, barrier_O, smem_o, out>>

Tma == LandQ \/ \E s \in Stages : LandK(s) \/ LandV(s)

-----------------------------------------------------------------------------
(* The MMA warpgroups.  A warpgroup that has begun a gemm reads Q, K and V *)
(* until the wait that ends the gemm.                                      *)

At(g, label) == wg[g].at = label /\ wg[g].tile \in Tiles

(* Mutant: work_idx counts every tile, with blocks or without.             *)
ToNextTileCounted(w) ==
  [w EXCEPT !.at = "mma", !.tile = @ + 1,
            !.work_idx = IF w.at = "mma" THEN @ + 1 ELSE @]

ToNextTile(w) == [w EXCEPT !.at = "mma", !.tile = @ + 1]

Written(t, G, result) ==
  [out EXCEPT ![t] = [g \in WarpGroups |->
     IF g \in G THEN Append(out[t][g], result) ELSE out[t][g]]]

(* mma_init: smem_q is free; the first warpgroup gets the first turn.      *)
MmaInit(g) ==
  /\ wg[g].at = "init"
  /\ wg' = [wg EXCEPT ![g].at = "mma"]
  /\ named' = [named EXCEPT !.queryEmpty = @ + 1,
                            !.scheduler = [h \in WarpGroups |->
                               IF h = g /\ g = 0 /\ UseSchedulerBarrier
                               THEN named.scheduler[h] + 1 ELSE named.scheduler[h]]]
  /\ UNCHANGED <<launch, producer, kpipe, vpipe, query, barrier_O, smem_o, out>>

(* mma returns false before it touched a barrier; store_zero.              *)
StoreZero(g) ==
  /\ At(g, "mma")
  /\ MmaCount(wg[g].tile) = 0
  /\ out' = Written(wg[g].tile, {g}, << >>)
  /\ wg' = [wg EXCEPT ![g] = ToNextTile(wg[g])]
  /\ UNCHANGED <<launch, producer, kpipe, vpipe, query, named, barrier_O, smem_o>>

WaitQ(g) ==
  /\ At(g, "mma")
  /\ MmaCount(wg[g].tile) > 0
  /\ PhaseOver(query.completed, wg[g].work_idx % 2)
  /\ wg' = [wg EXCEPT ![g].at = "first_QK"]
  /\ UNCHANGED <<launch, producer, kpipe, vpipe, query, named, barrier_O, smem_o, out>>

Score(st) == [q |-> query.data, k |-> kpipe.data[st.index]]

FirstQK(g) ==
  /\ At(g, "first_QK")
  /\ FullReady(kpipe, wg[g].read)
  /\ wg' = [wg EXCEPT ![g] = [wg[g] EXCEPT !.at = "first_softmax", !.s = Score(wg[g].read)]]
  /\ UNCHANGED <<launch, producer, kpipe, vpipe, query, named, barrier_O, smem_o, out>>

(* warpgroup_wait<0>, release K, softmax, clear(tOrO).                     *)
FirstSoftmax(g) ==
  /\ At(g, "first_softmax")
  /\ kpipe' = Release(kpipe, wg[g].read, g)
  /\ wg' = [wg EXCEPT ![g] = [wg[g] EXCEPT !.at = "step", !.p = wg[g].s, !.s = NoBlock,
                                           !.acc = << >>, !.i = 1]]
  /\ UNCHANGED <<launch, producer, vpipe, query, named, barrier_O, smem_o, out>>

(* fwd_step: the score of block i + 1, then the output of block i.         *)
StepQK(g) ==
  LET next == Advance(wg[g].read)
  IN /\ At(g, "step")
     /\ wg[g].i < MmaCount(wg[g].tile)
     /\ WaitsInLoop(g) => FullReady(kpipe, next)
     /\ MySchedulerTurn(g)
     /\ named' = TakeTurn(g)
     /\ wg' = [wg EXCEPT ![g] = [wg[g] EXCEPT !.at = "step_PV", !.s = Score(next),
                                              !.read_v = wg[g].read, !.read = next]]
     /\ UNCHANGED <<launch, producer, kpipe, vpipe, query, barrier_O, smem_o, out>>

Accumulate(w, st) ==
  Append(w.acc, [q |-> w.p.q, k |-> w.p.k, v |-> vpipe.data[st.index]])

StepPV(g) ==
  /\ At(g, "step_PV")
  /\ WaitsInLoop(g) => FullReady(vpipe, wg[g].read_v)
  /\ named' = PassTurn(g)
  /\ wg' = [wg EXCEPT ![g] = [wg[g] EXCEPT !.at = "step_softmax",
                                           !.acc = Accumulate(wg[g], wg[g].read_v)]]
  /\ UNCHANGED <<launch, producer, kpipe, vpipe, query, barrier_O, smem_o, out>>

(* warpgroup_wait<1>: the older gemm, Q @ K, is over.                      *)
StepReleaseK(g) ==
  /\ At(g, "step_softmax")
  /\ kpipe' = Release(kpipe, wg[g].read, g)
  /\ wg' = [wg EXCEPT ![g].at = "step_end"]
  /\ UNCHANGED <<launch, producer, vpipe, query, named, barrier_O, smem_o, out>>

(* warpgroup_wait<0>: P @ V is over, P may be replaced.                    *)
StepReleaseV(g) ==
  /\ At(g, "step_end")
  /\ vpipe' = Release(vpipe, wg[g].read_v, g)
  /\ wg' = [wg EXCEPT ![g] = [wg[g] EXCEPT !.at = "step", !.p = wg[g].s, !.s = NoBlock,
                                           !.i = @ + 1]]
  /\ UNCHANGED <<launch, producer, kpipe, query, named, barrier_O, smem_o, out>>

(* No gemm of this tile will read smem_q again.                            *)
QueryDone(g) ==
  /\ At(g, "step")
  /\ wg[g].i = MmaCount(wg[g].tile)
  /\ named' = [named EXCEPT !.queryEmpty = @ + 1]
  /\ wg' = [wg EXCEPT ![g].at = "last_PV"]
  /\ UNCHANGED <<launch, producer, kpipe, vpipe, query, barrier_O, smem_o, out>>

LastPV(g) ==
  /\ At(g, "last_PV")
  /\ FullReady(vpipe, wg[g].read)
  /\ wg' = [wg EXCEPT ![g] = [wg[g] EXCEPT !.at = "last_end",
                                           !.acc = Accumulate(wg[g], wg[g].read)]]
  /\ UNCHANGED <<launch, producer, kpipe, vpipe, query, named, barrier_O, smem_o, out>>

(* The mainloop returns and epilogue.store arrives at its first sync.      *)
LastReleaseV(g) ==
  /\ At(g, "last_end")
  /\ vpipe' = Release(vpipe, wg[g].read, g)
  /\ named' = [named EXCEPT !.sync = @ \cup {g}]
  /\ wg' = [wg EXCEPT ![g] = [wg[g] EXCEPT !.at = "epilogue", !.p = NoBlock,
                                           !.read = Advance(@), !.work_idx = @ + 1]]
  /\ UNCHANGED <<launch, producer, kpipe, query, barrier_O, smem_o, out>>

Mainloop(g) ==
  \/ MmaInit(g) \/ StoreZero(g) \/ WaitQ(g) \/ FirstQK(g) \/ FirstSoftmax(g)
  \/ StepQK(g) \/ StepPV(g) \/ StepReleaseK(g) \/ StepReleaseV(g)
  \/ QueryDone(g) \/ LastPV(g) \/ LastReleaseV(g)

-----------------------------------------------------------------------------
(* The epilogue.                                                           *)

AfterSync(w) ==
  CASE w.at = "epilogue" /\ launch.store = "direct" -> "arrive_O"
    [] w.at = "epilogue" /\ launch.store # "direct" -> "write_O"
    [] w.at = "epilogue_smem" /\ IsSplit(w.tile) -> "arrive_O"
    [] OTHER -> "read_O"

(* named_barrier_sync(NumEpilogueThreads): all warpgroups leave together.  *)
EpilogueSync ==
  /\ named.sync = WarpGroups
  /\ named' = [named EXCEPT !.sync = {}]
  /\ wg' = [g \in WarpGroups |-> [wg[g] EXCEPT !.at = AfterSync(wg[g])]]
  /\ UNCHANGED <<launch, producer, kpipe, vpipe, query, barrier_O, smem_o, out>>

Storer == NumMmaWarpGroups - 1  (* its last warp issues the TMA store      *)

(* Registers to smem_o, over smem_v; then the second barrier.              *)
WriteO(g) ==
  /\ At(g, "write_O")
  /\ smem_o' = [smem_o EXCEPT ![g] = wg[g].acc]
  /\ vpipe' = [vpipe EXCEPT !.data = [s \in Stages |-> NoBlock]]
  /\ IF launch.store = "tma"
     THEN /\ named' = [named EXCEPT !.store = @ \cup {g}]
          /\ wg' = [wg EXCEPT ![g] = IF g = Storer THEN [wg[g] EXCEPT !.at = "store_O"]
                                                   ELSE ToNextTile(wg[g])]
     ELSE /\ named' = [named EXCEPT !.sync = @ \cup {g}]
          /\ wg' = [wg EXCEPT ![g].at = "epilogue_smem"]
  /\ UNCHANGED <<launch, producer, kpipe, query, barrier_O, out>>

(* A copy out of smem_o mixes the rows of all warpgroups.                  *)
SmemOTile ==
  IF \A g, h \in WarpGroups : smem_o[g] = smem_o[h] THEN smem_o[Storer] ELSE NoBlock

BeginTmaStore(g) ==
  /\ At(g, "store_O")
  /\ named.store = WarpGroups
  /\ named' = [named EXCEPT !.store = {}]
  /\ wg' = [wg EXCEPT ![g].at = "storing_O"]
  /\ UNCHANGED <<launch, producer, kpipe, vpipe, query, barrier_O, smem_o, out>>

(* tma_store_wait<0>, then barrier_O.                                      *)
EndTmaStore(g) ==
  /\ At(g, "storing_O")
  /\ out' = Written(wg[g].tile, WarpGroups, SmemOTile)
  /\ barrier_O' = ArrivedO
  /\ wg' = [wg EXCEPT ![g] = ToNextTile(wg[g])]
  /\ UNCHANGED <<launch, producer, kpipe, vpipe, query, named, smem_o>>

ReadO(g) ==
  /\ At(g, "read_O")
  /\ wg' = [wg EXCEPT ![g] = [wg[g] EXCEPT !.at = "arrive_O", !.acc = SmemOTile]]
  /\ UNCHANGED <<launch, producer, kpipe, vpipe, query, named, barrier_O, smem_o, out>>

(* smem_v is free again; O goes from registers to gmem.                    *)
ArriveO(g) ==
  /\ At(g, "arrive_O")
  /\ barrier_O' = ArrivedO
  /\ out' = Written(wg[g].tile, {g}, wg[g].acc)
  /\ wg' = [wg EXCEPT ![g] = ToNextTile(wg[g])]
  /\ UNCHANGED <<launch, producer, kpipe, vpipe, query, named, smem_o>>

Epilogue(g) ==
  WriteO(g) \/ BeginTmaStore(g) \/ EndTmaStore(g) \/ ReadO(g) \/ ArriveO(g)

-----------------------------------------------------------------------------
(* The CTA has run all its tiles.                                          *)
Finished ==
  /\ producer.at = "done"
  /\ \A g \in WarpGroups : wg[g].at = "mma" /\ wg[g].tile \notin Tiles

Exit == Finished /\ UNCHANGED vars

WarpGroup(g) == Mainloop(g) \/ Epilogue(g)

Next ==
  \/ Producer \/ Tma \/ EpilogueSync \/ Exit
  \/ \E g \in WarpGroups : WarpGroup(g)

(* Resident warps are scheduled independently and TMA copies complete.     *)
Fairness ==
  /\ WF_vars(Producer)
  /\ WF_vars(LandQ)
  /\ \A s \in Stages : WF_vars(LandK(s)) /\ WF_vars(LandV(s))
  /\ \A g \in WarpGroups : WF_vars(WarpGroup(g))
  /\ WF_vars(EpilogueSync)

Spec == Init /\ [][Next]_vars

FairSpec == Spec /\ Fairness

-----------------------------------------------------------------------------
Block == [tile : Nat, block : Nat]

(* What nobody may rely on is told from everything else.                   *)
ASSUME NoBlockAssumption == NoBlock \notin Nat \cup Block \cup PipelineState

Scores == [q : Nat \cup {NoBlock}, k : Block \cup {NoBlock}] \cup {NoBlock}
Term == [q : Nat \cup {NoBlock}, k : Block \cup {NoBlock}, v : Block \cup {NoBlock}]
Result == Seq(Term) \cup {NoBlock}

ProducerLabels == {"tile", "load_Q", "wait_O", "load_K", "load_V", "done"}
WarpGroupLabels ==
  {"init", "mma", "first_QK", "first_softmax", "step", "step_PV", "step_softmax",
   "step_end", "last_PV", "last_end", "epilogue", "write_O", "epilogue_smem",
   "read_O", "arrive_O", "store_O", "storing_O"}

TypeOK ==
  /\ launch \in LaunchSpace
  /\ \A t \in Tiles : MmaCount(t) \in Nat /\ LoadBlocks(t) \in Seq(Nat)
  /\ producer \in [at : ProducerLabels, tile : Nat, i : Nat, work_idx : Nat,
                   write : PipelineState, write_v : PipelineState]
  /\ wg \in [WarpGroups ->
               [at : WarpGroupLabels, tile : Nat, i : Nat, work_idx : Nat,
                read : PipelineState, read_v : PipelineState,
                s : Scores, p : Scores, acc : Result]]
  /\ kpipe \in PipelineStorage(Block)
  /\ vpipe \in PipelineStorage(Block)
  /\ query \in [load : Nat \cup {NoBlock}, data : Nat \cup {NoBlock}, completed : Nat]
  /\ named \in [queryEmpty : Nat, scheduler : [WarpGroups -> Nat],
                sync : SUBSET WarpGroups, store : SUBSET WarpGroups]
  /\ barrier_O \in [arrived : Nat, completed : Nat]
  /\ smem_o \in [WarpGroups -> Result]
  /\ out \in [Tiles -> [WarpGroups -> Seq(Result)]]

-----------------------------------------------------------------------------
(* Which shared memory the gemms and the epilogue are reading.             *)

ReadingQK(g) == wg[g].at \in {"first_softmax", "step_PV", "step_softmax"}
ReadingK(g, s) == ReadingQK(g) /\ wg[g].read.index = s
ReadingV(g, s) ==
  \/ wg[g].at \in {"step_softmax", "step_end"} /\ wg[g].read_v.index = s
  \/ wg[g].at = "last_end" /\ wg[g].read.index = s
UsingO(g) == wg[g].at \in {"write_O", "epilogue_smem", "read_O", "store_O", "storing_O"}

(* No asynchronous copy is in flight into the Q, K or V buffer a gemm of   *)
(* any warpgroup reads, nor into smem_v while it serves as smem_o; and     *)
(* while it does, no gemm still reads V.  Every wait of load, mma and      *)
(* store exists for this.                                                  *)
SmemSafe ==
  \A g \in WarpGroups :
    /\ ReadingQK(g) => query.load = NoBlock
    /\ \A s \in Stages :
         /\ ReadingK(g, s) => kpipe.load[s] = NoBlock
         /\ ReadingV(g, s) => vpipe.load[s] = NoBlock
         /\ UsingO(g) => /\ vpipe.load[s] = NoBlock
                         /\ \A h \in WarpGroups : ~ReadingV(h, s)

(* A named barrier only counts arrivals.  QueryEmpty must never hold more  *)
(* than one per warpgroup, a scheduler barrier never two turns, and the    *)
(* EpilogueBarrier, used with two different counts (the sync of store and  *)
(* the hand-over to the TMA store), never arrivals of both uses at once.   *)
NamedBarriersUnmixed ==
  /\ named.queryEmpty <= NumMmaWarpGroups
  /\ \A g \in WarpGroups : named.scheduler[g] <= 1
  /\ named.sync = {} \/ named.store = {}

(* The parities of barrier_Q and barrier_O are unambiguous: the work_idx   *)
(* of the producer and of each warpgroup, counted separately and skipped   *)
(* for empty tiles, never leads or trails the barrier by a whole cycle;    *)
(* the next tile's Q lands only after a warpgroup is done with this one's. *)
ParityUnambiguous ==
  /\ barrier_O.completed \in {producer.work_idx, producer.work_idx - 1}
  /\ \A g \in WarpGroups :
       CASE wg[g].at \in {"first_QK", "first_softmax", "step", "step_PV",
                          "step_softmax", "step_end"}
              -> query.completed = wg[g].work_idx + 1
         [] wg[g].at \in {"last_PV", "last_end"}
              -> query.completed \in {wg[g].work_idx + 1, wg[g].work_idx + 2}
         [] OTHER
              -> query.completed \in {wg[g].work_idx, wg[g].work_idx + 1}

(* When the producer has left load_tail no copy is in flight, every stage  *)
(* has been released as often as it was filled and O of the last tile is   *)
(* stored: nothing can still arrive at a barrier of an exited CTA.         *)
DrainedOnExit ==
  producer.at = "done" =>
    /\ query.load = NoBlock
    /\ \A s \in Stages : /\ kpipe.load[s] = NoBlock /\ kpipe.full[s] = kpipe.empty[s]
                         /\ vpipe.load[s] = NoBlock /\ vpipe.full[s] = vpipe.empty[s]
    /\ barrier_O = [arrived |-> 0, completed |-> producer.work_idx]

=============================================================================
