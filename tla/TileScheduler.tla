--------------------------- MODULE TileScheduler ---------------------------
(***************************************************************************)
(* How the CTAs of a forward kernel share its tiles, for a sequence of     *)
(* launches on one stream.  Every CTA has a producer warp, which fetches   *)
(* the tiles, and readers, which follow it: the MMA warpgroups and, when Q *)
(* is loaded by four producer warps, the other three (helpers).            *)
(*                                                                         *)
(* The persistent schedulers draw tiles from tile_count_semaphore in       *)
(* global memory and hand them to the readers through one word of shared   *)
(* memory, ordered by two named barriers (TileCountSmemEmpty and           *)
(* TileCountSmemFull).  Whoever launches has to see to it that the         *)
(* semaphore is 0: zero_(), the prepare kernel or the combine kernel.      *)
(*                                                                         *)
(* The mainloop is reduced to what couples producer and readers: the       *)
(* QueryEmpty barrier, barrier_O, and K, V before mma (see MainloopFwd).   *)
(***************************************************************************)
EXTENDS Integers, Sequences, FiniteSets

CONSTANTS
  NumCtas,     (* gridDim.x                                                *)
  WarpGroups,
  Helpers,     (* producer warps 1 .. 3, only when Q is not loaded by TMA  *)
  Streams,     (* the sequences of launches to consider, see Launch        *)
  Garbage      (* what torch::empty may leave in the semaphore             *)

(***************************************************************************)
(* One launch: its scheduler, the number of its tiles, the tiles that have *)
(* no K/V block, and whether the caller passed scheduler_metadata, which   *)
(* keeps its semaphore from one launch to the next.  The single-tile       *)
(* scheduler is only launched with a CTA per tile; a CTA of the model      *)
(* beyond the grid of a launch finds no valid tile and ends.               *)
(***************************************************************************)
Launch ==
  [scheduler : {"single", "static", "dynamic", "varlen"},
   total : Nat, blockless : SUBSET Nat, metadata : BOOLEAN]

ASSUME CtasAssumption == NumCtas \in Nat \ {0}
ASSUME ReadersAssumption ==
  /\ IsFiniteSet(WarpGroups) /\ IsFiniteSet(Helpers)
  /\ WarpGroups # {} /\ WarpGroups \cap Helpers = {}
ASSUME StreamsAssumption ==
  /\ Streams \subseteq Seq(Launch) \ {<< >>}
  /\ \A s \in Streams : \A i \in DOMAIN s : s[i].scheduler = "single" => s[i].total <= NumCtas
ASSUME GarbageAssumption == Garbage \subseteq Nat /\ Garbage # {}

Ctas == 0 .. NumCtas - 1
Readers == WarpGroups \cup Helpers

VARIABLES
  launches,   (* the launches of the stream, fixed                         *)
  run,        (* index of the one that is running                          *)
  prepared,   (* the prepare kernel is over: wait_on_dependent_grids       *)
  semaphore,  (* of the caller's scheduler_metadata, and of a fresh tensor *)
  producer,   (* the producer warp of each CTA                             *)
  reader,     (* the readers of each CTA                                   *)
  smem,       (* tile_count_smem of each CTA                               *)
  empty,      (* arrivals pending on TileCountSmemEmpty                    *)
  full,       (* arrivals of the producer pending on TileCountSmemFull     *)
  out         (* how often each warpgroup's share of a tile was stored     *)

vars == <<launches, run, prepared, semaphore, producer, reader, smem, empty, full, out>>

L == launches[run]
Valid(t) == t < L.total
HasBlocks(t) == t \notin L.blockless
Last(s) == s[Len(s)]

(* The schedulers that hand tiles over through shared memory.              *)
Handoff == L.scheduler \in {"dynamic", "varlen"}

(* Which word of memory a launch's semaphore is.                           *)
Tensor(l) == IF l.metadata THEN "caller" ELSE "fresh"

-----------------------------------------------------------------------------
(* Mutant: a launch with the caller's metadata is not set up by anybody,   *)
(* and neither is any other.                                               *)
SetupNothing(l, sem) == sem

(* What the host does to the semaphore before the launch: only a launch    *)
(* without varlen zeroes it, torch::empty leaves anything in a fresh one.  *)
Setup(l, sem) ==
  IF l.scheduler = "dynamic" THEN [sem EXCEPT ![Tensor(l)] = 0] ELSE sem

(* Mutant: the prepare kernel is always taken to have run.                 *)
NeedsPrepareNever(l) == FALSE

(* prepare_varlen_num_blocks is launched unless the caller has its results.*)
NeedsPrepare(l) == l.scheduler = "varlen" /\ ~l.metadata

(* Mutant: the semaphore of the caller keeps its count.                    *)
TeardownNothing(l, sem) == sem

(* After the launch: the combine kernel, or zero_() if there is no split.  *)
Teardown(l, sem) ==
  IF l.metadata /\ l.scheduler \in {"dynamic", "varlen"}
  THEN [sem EXCEPT !["caller"] = 0] ELSE sem

StartCtas(l) ==
  /\ producer' = [c \in Ctas |-> [at |-> "start", tiles |-> << >>, next |-> 0, work_idx |-> 0]]
  /\ reader' = [c \in Ctas |-> [r \in Readers |->
                  [at |-> "init", tiles |-> << >>, work_idx |-> 0, stored |-> 0]]]
  /\ empty' = [c \in Ctas |-> 0]
  /\ full' = [c \in Ctas |-> 0]
  /\ out' = [g \in WarpGroups |-> [t \in 0 .. l.total - 1 |-> 0]]

(* get_scheduler_metadata has run the prepare kernel on the caller's one.  *)
Init ==
  /\ launches \in Streams
  /\ run = 1
  /\ prepared = ~NeedsPrepare(launches[1])
  /\ \E g \in Garbage : semaphore = Setup(launches[1], [caller |-> 0, fresh |-> g])
  /\ producer = [c \in Ctas |-> [at |-> "start", tiles |-> << >>, next |-> 0, work_idx |-> 0]]
  /\ reader = [c \in Ctas |-> [r \in Readers |->
                 [at |-> "init", tiles |-> << >>, work_idx |-> 0, stored |-> 0]]]
  /\ smem = [c \in Ctas |-> 0]
  /\ empty = [c \in Ctas |-> 0]
  /\ full = [c \in Ctas |-> 0]
  /\ out = [g \in WarpGroups |-> [t \in 0 .. launches[1].total - 1 |-> 0]]

CtaDone(c) ==
  producer[c].at = "done" /\ \A r \in Readers : reader[c][r].at = "done"

NextLaunch ==
  /\ \A c \in Ctas : CtaDone(c)
  /\ run < Len(launches)
  /\ LET l   == launches[run + 1]
         sem == Teardown(L, semaphore)
     IN /\ run' = run + 1
        /\ prepared' = ~NeedsPrepare(l)
        /\ \E g \in Garbage : semaphore' = Setup(l, [sem EXCEPT !["fresh"] = g])
        /\ StartCtas(l)
  /\ UNCHANGED <<launches, smem>>

(* The prepare kernel zeroes the semaphore.  The attention kernel may have *)
(* started already (programmatic dependent launch).                        *)
Prepare ==
  /\ ~prepared
  /\ prepared' = TRUE
  /\ semaphore' = [semaphore EXCEPT ![Tensor(L)] = 0]
  /\ UNCHANGED <<launches, run, producer, reader, smem, empty, full, out>>

-----------------------------------------------------------------------------
(* prefetch_next_work: atomicAdd(tile_count_semaphore, 1) + gridDim.x.     *)
Drawn(count) == count + NumCtas

NextTile(t) == IF L.scheduler = "static" THEN t + NumCtas ELSE L.total

(* Mutant: shared memory is overwritten without waiting for the readers.   *)
SmemEmptyAlways(c) == TRUE

(* Mutant: the barrier is set up for the MMA warpgroups only.              *)
SmemEmptyForWarpGroups(c) == empty[c] >= Cardinality(WarpGroups)

SmemEmpty(c) == empty[c] >= Cardinality(Readers)

(* The phases of barrier_O: one is over when all warpgroups have stored.   *)
Completed(c) ==
  LET stored == {reader[c][g].stored : g \in WarpGroups}
  IN CHOOSE n \in stored : \A m \in stored : n <= m

(* The parity wait of every producer warp, before V and before it exits.   *)
OFree(c, work_idx) == Completed(c) % 2 # (work_idx + 1) % 2

(* NamedBarrier::sync(QueryEmpty) of the producer and its helpers: the     *)
(* warpgroups are through with the Q of the tiles before.  Then each of    *)
(* them loads its part of Q.                                               *)
QuerySync(c) ==
  LET AtQ(tiles, work_idx) ==
        /\ Valid(Last(tiles)) /\ HasBlocks(Last(tiles))
        /\ \A g \in WarpGroups : reader[c][g].at # "init" /\ reader[c][g].work_idx >= work_idx
  IN /\ producer[c].at = "load"
     /\ AtQ(producer[c].tiles, producer[c].work_idx)
     /\ \A h \in Helpers : /\ reader[c][h].at = "work"
                           /\ AtQ(reader[c][h].tiles, reader[c][h].work_idx)
     /\ producer' = [producer EXCEPT ![c] = [producer[c] EXCEPT !.at = "wait_O"]]
     /\ reader' = [reader EXCEPT ![c] = [r \in Readers |->
          IF r \in Helpers THEN [reader[c][r] EXCEPT !.at = "wait_O"] ELSE reader[c][r]]]
     /\ UNCHANGED <<launches, run, prepared, semaphore, smem, empty, full, out>>

(* get_initial_work: varlen already hands the first tile over.             *)
GetInitialWork(c) ==
  /\ producer[c].at = "start"
  /\ prepared
  /\ producer' = [producer EXCEPT ![c] = [producer[c] EXCEPT !.at = "load", !.tiles = <<c>>]]
  /\ IF L.scheduler = "varlen"
     THEN /\ smem' = [smem EXCEPT ![c] = c]
          /\ full' = [full EXCEPT ![c] = @ + 1]
     ELSE UNCHANGED <<smem, full>>
  /\ UNCHANGED <<launches, run, prepared, semaphore, reader, empty, out>>

(* load, from barrier_O on, or all of it if the tile has no block: the     *)
(* next tile is drawn before the last V is loaded.                         *)
Load(c) ==
  LET t == Last(producer[c].tiles)
  IN /\ \/ producer[c].at = "load" /\ Valid(t) /\ ~HasBlocks(t)
        \/ producer[c].at = "wait_O" /\ OFree(c, producer[c].work_idx)
     /\ producer' = [producer EXCEPT ![c] =
          [producer[c] EXCEPT
             !.at = "next",
             !.next = IF Handoff THEN Drawn(semaphore[Tensor(L)]) ELSE NextTile(t),
             !.work_idx = @ + (IF HasBlocks(t) THEN 1 ELSE 0)]]
     /\ semaphore' = IF Handoff THEN [semaphore EXCEPT ![Tensor(L)] = @ + 1] ELSE semaphore
     /\ UNCHANGED <<launches, run, prepared, reader, smem, empty, full, out>>

(* get_next_work<IsProducerWarp=true>.                                     *)
ProducerGetNextWork(c) ==
  /\ producer[c].at = "next"
  /\ producer' = [producer EXCEPT ![c] =
       [producer[c] EXCEPT !.at = "load", !.tiles = Append(@, producer[c].next)]]
  /\ IF Handoff
     THEN /\ SmemEmpty(c)
          /\ empty' = [empty EXCEPT ![c] = 0]
          /\ smem' = [smem EXCEPT ![c] = producer[c].next]
          /\ full' = [full EXCEPT ![c] = @ + 1]
     ELSE UNCHANGED <<smem, empty, full>>
  /\ UNCHANGED <<launches, run, prepared, semaphore, reader, out>>

(* load_tail.                                                              *)
ProducerExit(c) ==
  /\ producer[c].at = "load"
  /\ ~Valid(Last(producer[c].tiles))
  /\ OFree(c, producer[c].work_idx)
  /\ producer' = [producer EXCEPT ![c].at = "done"]
  /\ UNCHANGED <<launches, run, prepared, semaphore, reader, smem, empty, full, out>>

ProducerWarp(c) ==
  GetInitialWork(c) \/ QuerySync(c) \/ Load(c) \/ ProducerGetNextWork(c) \/ ProducerExit(c)

-----------------------------------------------------------------------------
Update(c, r, new) == [reader EXCEPT ![c] = [reader[c] EXCEPT ![r] = new]]

(* Mutant: the readers of the varlen scheduler arrive here as well.        *)
InitialArrivalsAll == 1

(* Mutant: nobody arrives before the first tile is handed over.            *)
InitialArrivalsNone == 0

(* init_consumer: the varlen readers read a first tile, and arrive then.   *)
InitialArrivals == IF L.scheduler = "dynamic" THEN 1 ELSE 0

InitConsumer(c, r) ==
  /\ reader[c][r].at = "init"
  /\ empty' = [empty EXCEPT ![c] = @ + InitialArrivals]
  /\ reader' = Update(c, r, IF L.scheduler = "varlen"
                            THEN [reader[c][r] EXCEPT !.at = "sync"]
                            ELSE [reader[c][r] EXCEPT !.at = "work", !.tiles = <<c>>])
  /\ UNCHANGED <<launches, run, prepared, semaphore, producer, smem, full, out>>

(* mma, mma_sparse of a warpgroup on the Q, K and V of all producer warps; *)
(* the rest of load of a helper.  A tile without blocks needs neither.     *)
Work(c, r) ==
  LET t == Last(reader[c][r].tiles)
      i == reader[c][r].work_idx
  IN /\ \/ reader[c][r].at = "work" /\ Valid(t) /\ ~HasBlocks(t)
        \/ /\ reader[c][r].at = "work" /\ Valid(t) /\ HasBlocks(t)
           /\ r \in WarpGroups /\ producer[c].work_idx > i
        \/ reader[c][r].at = "wait_O" /\ OFree(c, i)
     /\ reader' = Update(c, r,
          [reader[c][r] EXCEPT !.at = "sync",
                               !.work_idx = @ + (IF HasBlocks(t) THEN 1 ELSE 0)])
     /\ UNCHANGED <<launches, run, prepared, semaphore, producer, smem, empty, full, out>>

(* Mutant: the barrier is set up for the MMA warpgroups only.              *)
SmemFullReadersWarpGroups == WarpGroups

SmemFullReaders == Readers

(* The sync on TileCountSmemFull: the producer's arrival and all readers.  *)
SmemFull(c) ==
  /\ Handoff
  /\ full[c] > 0
  /\ \A r \in SmemFullReaders : reader[c][r].at = "sync"
  /\ full' = [full EXCEPT ![c] = 0]
  /\ reader' = [reader EXCEPT ![c] = [r \in Readers |->
       IF reader[c][r].at = "sync" THEN [reader[c][r] EXCEPT !.at = "read"] ELSE reader[c][r]]]
  /\ UNCHANGED <<launches, run, prepared, semaphore, producer, smem, empty, out>>

(* A warpgroup still has the epilogue of its last tile to run.             *)
WithTile(c, r, t) ==
  [reader[c][r] EXCEPT
     !.at = IF r \in WarpGroups /\ reader[c][r].tiles # << >> THEN "store" ELSE "work",
     !.tiles = Append(@, t)]

(* get_next_work<IsProducerWarp=false>.                                    *)
ReaderGetNextWork(c, r) ==
  /\ \/ /\ reader[c][r].at = "read"
        /\ reader' = Update(c, r, WithTile(c, r, smem[c]))
        /\ empty' = [empty EXCEPT ![c] = @ + 1]
     \/ /\ reader[c][r].at = "sync"
        /\ ~Handoff
        /\ reader' = Update(c, r, WithTile(c, r, NextTile(Last(reader[c][r].tiles))))
        /\ UNCHANGED empty
  /\ UNCHANGED <<launches, run, prepared, semaphore, producer, smem, full, out>>

(* epilogue.store or store_zero of the tile before the one just fetched.   *)
Store(c, g) ==
  LET tiles == reader[c][g].tiles
      t     == tiles[Len(tiles) - 1]
  IN /\ reader[c][g].at = "store"
     /\ out' = [out EXCEPT ![g] = [out[g] EXCEPT ![t] = @ + 1]]
     /\ reader' = Update(c, g, [reader[c][g] EXCEPT !.at = "work",
                                  !.stored = @ + (IF HasBlocks(t) THEN 1 ELSE 0)])
     /\ UNCHANGED <<launches, run, prepared, semaphore, producer, smem, empty, full>>

(* The helpers are producer warps: they end through load_tail as well.     *)
ReaderExit(c, r) ==
  /\ reader[c][r].at = "work"
  /\ ~Valid(Last(reader[c][r].tiles))
  /\ r \in Helpers => OFree(c, reader[c][r].work_idx)
  /\ reader' = Update(c, r, [reader[c][r] EXCEPT !.at = "done"])
  /\ UNCHANGED <<launches, run, prepared, semaphore, producer, smem, empty, full, out>>

Reader(c, r) ==
  \/ InitConsumer(c, r) \/ Work(c, r) \/ ReaderGetNextWork(c, r)
  \/ Store(c, r) \/ ReaderExit(c, r)

-----------------------------------------------------------------------------
Finished == run = Len(launches) /\ \A c \in Ctas : CtaDone(c)

Exit == Finished /\ UNCHANGED vars

Next ==
  \/ NextLaunch \/ Prepare \/ Exit
  \/ \E c \in Ctas : \/ ProducerWarp(c) \/ SmemFull(c)
                     \/ \E r \in Readers : Reader(c, r)

Spec == Init /\ [][Next]_vars

(* Every CTA of the grid is resident, and so are its warps.                *)
Fairness ==
  /\ WF_vars(NextLaunch) /\ WF_vars(Prepare)
  /\ \A c \in Ctas : /\ WF_vars(ProducerWarp(c)) /\ WF_vars(SmemFull(c))
                     /\ \A r \in Readers : WF_vars(Reader(c, r))

FairSpec == Spec /\ Fairness

-----------------------------------------------------------------------------
TypeOK ==
  /\ launches \in Seq(Launch)
  /\ run \in DOMAIN launches
  /\ prepared \in BOOLEAN
  /\ semaphore \in [{"caller", "fresh"} -> Nat]
  /\ producer \in [Ctas -> [at : {"start", "load", "wait_O", "next", "done"},
                            tiles : Seq(Nat), next : Nat, work_idx : Nat]]
  /\ reader \in [Ctas -> [Readers ->
       [at : {"init", "work", "wait_O", "sync", "read", "store", "done"},
        tiles : Seq(Nat), work_idx : Nat, stored : Nat]]]
  /\ smem \in [Ctas -> Nat]
  /\ empty \in [Ctas -> 0 .. Cardinality(Readers)]
  /\ full \in [Ctas -> Nat]
  /\ out \in [WarpGroups -> [0 .. L.total - 1 -> Nat]]

(* Every reader goes through exactly the producer's tiles, one by one, and *)
(* neither is more than one tile ahead: no word of shared memory is        *)
(* overwritten unread or read twice, whatever the warps' speeds.           *)
ReadersFollowProducer ==
  \A c \in Ctas, r \in Readers :
    LET ours   == reader[c][r].tiles
        theirs == producer[c].tiles
    IN /\ \A i \in DOMAIN ours \cap DOMAIN theirs : ours[i] = theirs[i]
       /\ Handoff => Len(theirs) - Len(ours) \in {-1, 0, 1}

(* The two named barriers only count arrivals: one left over from another  *)
(* use would let the producer overwrite a tile a reader is still to read.  *)
HandoffBarriersUnmixed ==
  \A c \in Ctas :
    /\ full[c] <= 1
    /\ empty[c] = Cardinality(Readers) => full[c] = 0 /\ \A r \in Readers : reader[c][r].at # "read"

(* The tiles the producer of CTA c has begun, and the one it has drawn.    *)
Taken(c) ==
  producer[c].tiles \o (IF producer[c].at = "next" THEN <<producer[c].next>> ELSE << >>)

(* With a semaphore, the tiles are taken in order, each of them by one CTA *)
(* and at one time, the first of every CTA being its blockIdx.x: a tile is *)
(* never drawn twice or skipped, neither in a race of two CTAs nor because *)
(* an earlier launch left the semaphore at its count.                      *)
TilesDrawnOnce ==
  Handoff /\ prepared =>
    LET begun == {c \in Ctas : producer[c].at # "start"}
        takes == UNION {{<<c, i>> : i \in DOMAIN Taken(c)} : c \in begun}
        tile(k) == Taken(k[1])[k[2]]
    IN /\ \A k1, k2 \in takes : tile(k1) = tile(k2) => k1 = k2
       /\ {tile(k) : k \in takes} \cup (Ctas \ begun)
            = 0 .. NumCtas + semaphore[Tensor(L)] - 1

(* A producer warp that waits for barrier_O is let through once the        *)
(* warpgroups have signalled that smem_v is ready: they never complete a   *)
(* second phase, which would turn the parity it tests back, before it has  *)
(* looked.  The warpgroups wait for the warp that loads V anyway, but only *)
(* the hand-over of tiles keeps them from running ahead of a helper.       *)
SignalSeen ==
  \A c \in Ctas :
    /\ producer[c].at = "wait_O" => Completed(c) <= producer[c].work_idx
    /\ \A h \in Helpers :
         reader[c][h].at = "wait_O" => Completed(c) <= reader[c][h].work_idx

Dispatch ==
  INSTANCE TileDispatch WITH
    Shares <- WarpGroups, totals <- [i \in DOMAIN launches |-> launches[i].total]

(* Every launch computes each of its tiles exactly once and then ends,     *)
(* however the CTAs race for the semaphore and whoever zeroes it.          *)
ImplementsTileDispatch == Dispatch!Spec

Terminates == <>Finished
=============================================================================
