------------------------ MODULE TileSchedulerProofs ------------------------
(***************************************************************************)
(* The tile schedulers are correct for every number of CTAs, warps, tiles  *)
(* and launches: readers follow their producer, tiles are drawn once, and  *)
(* every launch computes each of its tiles exactly once.                   *)
(***************************************************************************)
EXTENDS TileScheduler, FiniteSetTheorems, WellFoundedInduction, TLAPS

-----------------------------------------------------------------------------
(* The inductive invariant.                                                *)

ProducerState == [at : {"start", "load", "wait_O", "next", "done"},
                  tiles : Seq(Nat), next : Nat, work_idx : Nat]
ReaderState == [at : {"init", "work", "wait_O", "sync", "read", "store", "done"},
                tiles : Seq(Nat), work_idx : Nat, stored : Nat]

TypeInv ==
  /\ launches \in Seq(Launch)
  /\ launches \in Streams
  /\ run \in DOMAIN launches
  /\ prepared \in BOOLEAN
  /\ semaphore \in [{"caller", "fresh"} -> Nat]
  /\ producer \in [Ctas -> ProducerState]
  /\ reader \in [Ctas -> [Readers -> ReaderState]]
  /\ smem \in [Ctas -> Nat]
  /\ empty \in [Ctas -> Nat]
  /\ full \in [Ctas -> {0, 1}]
  /\ out \in [WarpGroups -> [0 .. L.total - 1 -> Nat]]

Fetched(c) == Len(producer[c].tiles)
Received(c, r) == Len(reader[c][r].tiles)

(* What a warp's label says about its tiles: it never goes on after a tile *)
(* that is not valid.                                                      *)
ProducerAt(c) ==
  LET p == producer[c]
  IN  /\ p.at = "start" <=> Fetched(c) = 0
      /\ ~prepared => p.at = "start"
      /\ Fetched(c) > 0 => p.tiles[1] = c
      /\ \A i \in 1 .. Fetched(c) - 1 : Valid(p.tiles[i])
      /\ p.at \in {"wait_O", "next"} => Valid(p.tiles[Fetched(c)])
      /\ p.at = "wait_O" => HasBlocks(p.tiles[Fetched(c)])
      /\ p.at = "done" => ~Valid(p.tiles[Fetched(c)])
ReaderAt(c, r) ==
  LET w == reader[c][r]
      n == Received(c, r)
  IN  /\ w.at = "init" => n = 0
      /\ w.at \in {"work", "wait_O", "done"} => n > 0
      /\ w.at \in {"sync", "read"} => n > 0 \/ L.scheduler = "varlen"
      /\ w.at = "read" => Handoff
      /\ w.at = "store" => n > 1 /\ r \in WarpGroups
      /\ w.at = "wait_O" => r \in Helpers /\ HasBlocks(w.tiles[n])
      /\ n > 0 => w.tiles[1] = c
      /\ \A i \in 1 .. n - 1 : Valid(w.tiles[i])
      /\ n > 0 /\ w.at \in {"wait_O", "sync", "read"} => Valid(w.tiles[n])
      /\ w.at = "done" => ~Valid(w.tiles[n])

(* The hand-over of CTA c.  Every reader has arrived on TileCountSmemEmpty *)
(* as often as it has received a tile; the producer has used up one        *)
(* arrival of each for every tile but the first.  All readers are          *)
(* through the same phases of TileCountSmemFull.                           *)
UsedUp(c) == IF Fetched(c) = 0 THEN 0 ELSE Fetched(c) - 1
Arrived(c) == {r \in Readers : Received(c, r) = UsedUp(c) + 1}
Seen(c, r) == Received(c, r) + (IF reader[c][r].at = "read" THEN 1 ELSE 0)

FirstTile(c, r) ==    \* dynamic: everybody knows the first tile
  /\ L.scheduler = "dynamic"
  /\ \/ Fetched(c) <= 1 /\ reader[c][r].at = "init"
     \/ Fetched(c) = 0 /\ Received(c, r) = 1 /\ reader[c][r].at # "read"

KnownTiles == IF L.scheduler = "varlen" THEN 0 ELSE 1

HandoverInv(c) ==
  IF Handoff
  THEN /\ empty[c] = Cardinality(Arrived(c))
       /\ full[c] = 1 => Fetched(c) > KnownTiles
       /\ \A r \in Readers :
            /\ full[c] = 1 => Received(c, r) = Fetched(c) - 1 /\ reader[c][r].at # "read"
            /\ full[c] = 0 => Seen(c, r) = Fetched(c) \/ FirstTile(c, r)
            /\ L.scheduler = "dynamic" => Received(c, r) = 0 <=> reader[c][r].at = "init"
            /\ \A i \in 1 .. Received(c, r) : i <= Fetched(c) => reader[c][r].tiles[i] = producer[c].tiles[i]
       /\ Fetched(c) > KnownTiles => smem[c] = producer[c].tiles[Fetched(c)]
  ELSE empty[c] = 0 /\ full[c] = 0

(* Without a hand-over everybody computes the same tiles.                  *)
TileOf(c, i) ==
  IF i = 1 THEN c ELSE IF L.scheduler = "static" THEN c + (i - 1) * NumCtas ELSE L.total
ComputedInv(c) ==
  ~Handoff =>
    /\ \A i \in 1 .. Fetched(c) : producer[c].tiles[i] = TileOf(c, i)
    /\ producer[c].at = "next" => producer[c].next = TileOf(c, Fetched(c) + 1)
    /\ \A r \in Readers : \A i \in 1 .. Received(c, r) : reader[c][r].tiles[i] = TileOf(c, i)

(* The tiles drawn by CTA c are those after its first, and the semaphore   *)
(* has counted all of them.                                                *)
Draws(c) == Fetched(c) + (IF producer[c].at = "next" THEN 1 ELSE 0)
TakenAt(c, i) == IF i <= Fetched(c) THEN producer[c].tiles[i] ELSE producer[c].next
Drawings(c) == 2 .. Draws(c)
Count == semaphore[Tensor(L)]

SemaphoreInv ==
  /\ ~(L.metadata /\ Handoff) => semaphore["caller"] = 0
  /\ Handoff /\ prepared =>
       /\ \A c \in Ctas : \A i \in Drawings(c) : TakenAt(c, i) \in NumCtas .. NumCtas + Count - 1
       /\ \A c, d \in Ctas : \A i \in Drawings(c), j \in Drawings(d) :
            TakenAt(c, i) = TakenAt(d, j) => c = d /\ i = j
       /\ \A t \in NumCtas .. NumCtas + Count - 1 :
            \E c \in Ctas : \E i \in Drawings(c) : TakenAt(c, i) = t

(* work_idx and stored count the tiles that have blocks, as far as the     *)
(* warp has got with them.                                                 *)
BlocksIn(tiles, n, blockless) == Cardinality({i \in 1 .. n : tiles[i] \notin blockless})
WorkedOn(at, n) == IF n > 0 /\ at \notin {"sync", "read"} THEN n - 1 ELSE n
StoredTo(at, n) == IF n = 0 THEN 0 ELSE IF at = "store" THEN n - 2 ELSE n - 1

WorkInv(c) ==
  /\ \A r \in Readers :
       LET w == reader[c][r]
       IN  w.work_idx = BlocksIn(w.tiles, WorkedOn(w.at, Received(c, r)), L.blockless)
  /\ \A g \in WarpGroups :
       LET w == reader[c][g]
       IN  /\ w.stored = BlocksIn(w.tiles, StoredTo(w.at, Received(c, g)), L.blockless)
           /\ w.work_idx <= producer[c].work_idx

(* What has been stored is what the warpgroups are through with.           *)
StoredBy(c, g, t) ==
  \E i \in 1 .. StoredTo(reader[c][g].at, Received(c, g)) : reader[c][g].tiles[i] = t
OutInv ==
  \A g \in WarpGroups, t \in 0 .. L.total - 1 :
    out[g][t] = IF \E c \in Ctas : StoredBy(c, g, t) THEN 1 ELSE 0

CtaInv(c) ==
  /\ ProducerAt(c) /\ HandoverInv(c) /\ ComputedInv(c) /\ WorkInv(c)
  /\ \A r \in Readers : ReaderAt(c, r)

ScheduleInv ==
  /\ TypeInv
  /\ \A c \in Ctas : CtaInv(c)
  /\ SemaphoreInv
  /\ OutInv

-----------------------------------------------------------------------------
(* Operators of the model.                                                 *)

LEMMA Smallest ==
  ASSUME NEW S \in SUBSET Nat, S # {}
  PROVE  \E n \in S : \A m \in S : n <= m
<1> DEFINE R == StrictSubsetOrdering(Nat)
<1> DEFINE T == {0 .. n : n \in S}
<1>1. T \subseteq FiniteSubsetsOf(Nat) /\ T # {}
  <2>1. ASSUME NEW n \in S PROVE 0 .. n \in FiniteSubsetsOf(Nat)
    <3>1. IsFiniteSet(0 .. n)
      BY FS_Interval
    <3>2. 0 .. n \in SUBSET Nat
      OBVIOUS
    <3> QED BY <3>1, <3>2 DEF FiniteSubsetsOf
  <2> QED BY <2>1
<1>2. IsWellFoundedOn(R, FiniteSubsetsOf(Nat))
  BY FS_StrictSubsetOrderingWellFounded
<1>3. \E x \in T : \A y \in T : ~ (<<y, x>> \in R)
  <2> HIDE DEF T, R
  <2> QED BY <1>1, <1>2, WFMin
<1>4. PICK n \in S : \A m \in S : ~ (<<0 .. m, 0 .. n>> \in R)
  BY <1>3
<1>5. ASSUME NEW m \in S, m < n PROVE FALSE
  <2>1. (0 .. m) \subseteq (0 .. n) /\ 0 .. m # 0 .. n
    BY <1>5
  <2>2. <<0 .. m, 0 .. n>> \in R
    BY <2>1 DEF StrictSubsetOrdering
  <2> QED BY <2>2, <1>4
<1> QED BY <1>5

LEMMA BlocksInStep ==
  ASSUME NEW tiles, NEW n \in Nat, NEW blockless
  PROVE  /\ BlocksIn(tiles, n, blockless) \in Nat
         /\ BlocksIn(tiles, 0, blockless) = 0
         /\ BlocksIn(tiles, n + 1, blockless)
              = BlocksIn(tiles, n, blockless) + (IF tiles[n + 1] \notin blockless THEN 1 ELSE 0)
<1> DEFINE S(k) == {i \in 1 .. k : tiles[i] \notin blockless}
<1>1. IsFiniteSet(1 .. n)
  BY FS_Interval
<1>2. IsFiniteSet(S(n)) /\ Cardinality(S(n)) \in Nat
  BY <1>1, FS_Subset, FS_CardinalityType
<1>3. S(0) = {}
  OBVIOUS
<1>4. CASE tiles[n + 1] \notin blockless
  <2>1. S(n + 1) = S(n) \cup {n + 1} /\ n + 1 \notin S(n)
    BY <1>4
  <2>2. Cardinality(S(n + 1)) = Cardinality(S(n)) + 1
    <3> HIDE DEF S
    <3> QED BY <2>1, <1>2, FS_AddElement
  <2> QED BY <1>2, <1>3, <1>4, <2>2, FS_EmptySet DEF BlocksIn
<1>5. CASE tiles[n + 1] \in blockless
  <2>1. S(n + 1) = S(n)
    BY <1>5
  <2> QED BY <1>2, <1>3, <1>5, <2>1, FS_EmptySet DEF BlocksIn
<1> QED BY <1>4, <1>5

LEMMA BlocksInSame ==
  ASSUME NEW s, NEW t, NEW n \in Nat, NEW blockless, \A i \in 1 .. n : s[i] = t[i]
  PROVE  BlocksIn(s, n, blockless) = BlocksIn(t, n, blockless)
<1>1. {i \in 1 .. n : s[i] \notin blockless} = {i \in 1 .. n : t[i] \notin blockless}
  OBVIOUS
<1> QED BY <1>1 DEF BlocksIn

LEMMA BlocksInMonotonic ==
  ASSUME NEW tiles, NEW m \in Nat, NEW n \in Nat, m <= n, NEW blockless
  PROVE  BlocksIn(tiles, m, blockless) <= BlocksIn(tiles, n, blockless)
<1> DEFINE S(k) == {i \in 1 .. k : tiles[i] \notin blockless}
<1>1. IsFiniteSet(1 .. n)
  BY FS_Interval
<1>2. IsFiniteSet(S(n)) /\ S(m) \subseteq S(n)
  BY <1>1, FS_Subset
<1>3. Cardinality(S(m)) <= Cardinality(S(n))
  <2> HIDE DEF S
  <2> QED BY <1>2, FS_Subset
<1> QED BY <1>3 DEF BlocksIn

LEMMA ReadersFinite ==
  /\ IsFiniteSet(Readers) /\ Cardinality(Readers) \in Nat /\ Readers # {}
  /\ \A S \in SUBSET Readers :
       /\ Cardinality(S) \in 0 .. Cardinality(Readers)
       /\ Cardinality(S) >= Cardinality(Readers) => S = Readers
<1>1. IsFiniteSet(Readers) /\ Readers # {}
  BY ReadersAssumption, FS_Union DEF Readers
<1>2. Cardinality(Readers) \in Nat
  BY <1>1, FS_CardinalityType
<1>3. ASSUME NEW S \in SUBSET Readers
      PROVE  /\ Cardinality(S) \in 0 .. Cardinality(Readers)
             /\ Cardinality(S) >= Cardinality(Readers) => S = Readers
  <2>1. IsFiniteSet(S) /\ Cardinality(S) <= Cardinality(Readers)
        /\ (Cardinality(Readers) = Cardinality(S) => Readers = S)
    BY <1>1, FS_Subset
  <2>2. Cardinality(S) \in Nat
    BY <2>1, FS_CardinalityType
  <2> QED BY <1>2, <2>1, <2>2
<1> QED BY <1>1, <1>2, <1>3

LEMMA LaunchType ==
  ASSUME TypeInv
  PROVE  /\ L \in Launch /\ L.total \in Nat /\ Tensor(L) \in {"caller", "fresh"}
         /\ Count \in Nat
         /\ L.scheduler = "single" => L.total <= NumCtas
<1>1. L \in Launch
  BY DEF TypeInv, L
<1>2. L.scheduler = "single" => L.total <= NumCtas
  BY StreamsAssumption DEF TypeInv, L
<1> QED BY <1>1, <1>2 DEF Launch, Tensor, TypeInv, Count

LEMMA CtaType ==
  ASSUME TypeInv, NEW c \in Ctas
  PROVE  /\ c \in Nat /\ c < NumCtas /\ NumCtas \in Nat
         /\ producer[c] \in ProducerState
         /\ Fetched(c) \in Nat /\ Draws(c) \in Nat
         /\ \A i \in 1 .. Fetched(c) : producer[c].tiles[i] \in Nat
         /\ \A r \in Readers :
              /\ reader[c][r] \in ReaderState
              /\ Received(c, r) \in Nat
              /\ \A i \in 1 .. Received(c, r) : reader[c][r].tiles[i] \in Nat
<1>1. c \in Nat /\ c < NumCtas /\ NumCtas \in Nat
  BY CtasAssumption DEF Ctas
<1>2. producer[c] \in ProducerState
  BY DEF TypeInv
<1>3. ASSUME NEW r \in Readers
      PROVE  /\ reader[c][r] \in ReaderState
             /\ Received(c, r) \in Nat
             /\ \A i \in 1 .. Received(c, r) : reader[c][r].tiles[i] \in Nat
  <2>1. reader[c][r] \in ReaderState
    BY DEF TypeInv
  <2> QED BY <2>1 DEF ReaderState, Received
<1>4. /\ Fetched(c) \in Nat /\ Draws(c) \in Nat
      /\ \A i \in 1 .. Fetched(c) : producer[c].tiles[i] \in Nat
  <2>1. producer[c].tiles \in Seq(Nat)
    BY <1>2 DEF ProducerState
  <2>2. Len(producer[c].tiles) \in Nat
        /\ \A i \in 1 .. Len(producer[c].tiles) : producer[c].tiles[i] \in Nat
    BY <2>1
  <2>3. Fetched(c) \in Nat /\ \A i \in 1 .. Fetched(c) : producer[c].tiles[i] \in Nat
    BY <2>2 DEF Fetched
  <2>4. Draws(c) \in Nat
    BY <2>3 DEF Draws
  <2> QED BY <2>3, <2>4
<1> QED BY <1>1, <1>2, <1>3, <1>4

LEMMA StridesUnique ==
  ASSUME NEW N \in Nat, NEW c \in 0 .. N - 1, NEW d \in 0 .. N - 1, NEW k \in Nat, NEW m \in Nat,
         c + k * N = d + m * N
  PROVE  c = d /\ k = m
<1>1. ASSUME NEW a \in 0 .. N - 1, NEW b \in 0 .. N - 1, NEW x \in Nat, NEW y \in Nat, x < y,
             a + x * N = b + y * N
      PROVE  FALSE
  <2>1. PICK e \in Nat : y = x + (e + 1)
    BY <1>1, y - x - 1 \in Nat
  <2>2. y * N = x * N + (e * N + N)
    BY <2>1
  <2>3. e * N \in Nat /\ x * N \in Nat
    OBVIOUS
  <2> HIDE <1>1, <2>1
  <2> QED BY <1>1, <2>2, <2>3
<1>2. k = m
  BY <1>1
<1>3. k * N \in Nat
  OBVIOUS
<1> QED BY <1>2, <1>3

LEMMA TileOfNext ==
  ASSUME TypeInv, NEW c \in Ctas, NEW n \in Nat \ {0}
  PROVE  NextTile(TileOf(c, n)) = TileOf(c, n + 1) /\ TileOf(c, n) \in Nat /\ TileOf(c, n + 1) \in Nat
<1>1. c \in Nat /\ NumCtas \in Nat /\ L.total \in Nat
  BY CtaType, LaunchType
<1>2. PICK k \in Nat : n = k + 1
  BY n - 1 \in Nat
<1>3. (k + 1) * NumCtas = k * NumCtas + NumCtas /\ k * NumCtas \in Nat /\ 0 * NumCtas = 0
  BY <1>1, <1>2
<1>4. c + (n - 1) * NumCtas \in Nat /\ c + n * NumCtas = (c + (n - 1) * NumCtas) + NumCtas
  BY <1>1, <1>2, <1>3
<1>5. n + 1 # 1 /\ (n + 1) - 1 = n
  OBVIOUS
<1>6. (1 - 1) * NumCtas = 0
  BY <1>1
<1>7. CASE L.scheduler = "static"
  <2>1. TileOf(c, n) = c + (n - 1) * NumCtas
    BY <1>1, <1>6, <1>7 DEF TileOf
  <2>2. TileOf(c, n + 1) = c + n * NumCtas
    BY <1>5, <1>7 DEF TileOf
  <2> QED BY <1>1, <1>3, <1>4, <1>7, <2>1, <2>2 DEF NextTile
<1>8. CASE L.scheduler # "static"
  BY <1>1, <1>5, <1>8 DEF TileOf, NextTile
<1> QED BY <1>7, <1>8

-----------------------------------------------------------------------------
(* What an action leaves alone.                                            *)

LEMMA OtherCta ==
  ASSUME NEW d \in Ctas, CtaInv(d),
         L' = L, prepared' = prepared,
         producer'[d] = producer[d], reader'[d] = reader[d],
         smem'[d] = smem[d], empty'[d] = empty[d], full'[d] = full[d]
  PROVE  CtaInv(d)'
<1>1. Fetched(d)' = Fetched(d) /\ \A r \in Readers : Received(d, r)' = Received(d, r)
  BY DEF Fetched, Received
<1>2. ProducerAt(d)'
  BY <1>1 DEF CtaInv, ProducerAt, Valid, HasBlocks
<1>3. \A r \in Readers : ReaderAt(d, r)'
  BY <1>1 DEF CtaInv, ReaderAt, Valid, HasBlocks, Handoff
<1>4. HandoverInv(d)'
  <2>1. UsedUp(d)' = UsedUp(d) /\ Arrived(d)' = Arrived(d)
    BY <1>1 DEF UsedUp, Arrived
  <2> QED BY <1>1, <2>1 DEF CtaInv, HandoverInv, Handoff, Seen, FirstTile, KnownTiles
<1>5. ComputedInv(d)'
  BY <1>1 DEF CtaInv, ComputedInv, TileOf, Handoff
<1>6. WorkInv(d)'
  <2>1. WorkInv(d)
    BY DEF CtaInv
  <2>2. L'.blockless = L.blockless
    OBVIOUS
  <2>3. ASSUME NEW r \in Readers
        PROVE  reader'[d][r].work_idx = BlocksIn(reader'[d][r].tiles, WorkedOn(reader'[d][r].at, Received(d, r)'), L'.blockless)
    BY <1>1, <2>1, <2>2 DEF WorkInv
  <2>4. ASSUME NEW g \in WarpGroups
        PROVE  /\ reader'[d][g].stored = BlocksIn(reader'[d][g].tiles, StoredTo(reader'[d][g].at, Received(d, g)'), L'.blockless)
               /\ reader'[d][g].work_idx <= producer'[d].work_idx
    BY <1>1, <2>1, <2>2 DEF WorkInv, Readers
  <2> QED BY <2>3, <2>4 DEF WorkInv
<1> QED BY <1>2, <1>3, <1>4, <1>5, <1>6 DEF CtaInv

LEMMA NothingDrawn ==
  ASSUME SemaphoreInv, L' = L, prepared' = prepared, semaphore' = semaphore,
         \A d \in Ctas : /\ Drawings(d)' = Drawings(d)
                         /\ \A i \in Drawings(d) : TakenAt(d, i)' = TakenAt(d, i)
  PROVE  SemaphoreInv'
<1>1. Count' = Count
  BY DEF Count
<1> QED BY <1>1 DEF SemaphoreInv, Handoff

LEMMA NothingStored ==
  ASSUME OutInv, L' = L, out' = out,
         \A d \in Ctas, g \in WarpGroups :
           /\ StoredTo(reader[d][g].at, Received(d, g))' = StoredTo(reader[d][g].at, Received(d, g))
           /\ \A i \in 1 .. StoredTo(reader[d][g].at, Received(d, g)) : reader'[d][g].tiles[i] = reader[d][g].tiles[i]
  PROVE  OutInv'
<1>1. ASSUME NEW d \in Ctas, NEW g \in WarpGroups, NEW t PROVE StoredBy(d, g, t)' <=> StoredBy(d, g, t)
  BY DEF StoredBy
<1> QED BY <1>1 DEF OutInv

(* A step of one CTA has to keep only the invariant of this CTA.           *)
LEMMA CtaStep ==
  ASSUME ScheduleInv, NEW c \in Ctas,
         UNCHANGED <<launches, run, prepared>>,
         \A d \in Ctas \ {c} : /\ producer'[d] = producer[d] /\ reader'[d] = reader[d]
                               /\ smem'[d] = smem[d] /\ empty'[d] = empty[d] /\ full'[d] = full[d],
         TypeInv', CtaInv(c)', SemaphoreInv', OutInv'
  PROVE  ScheduleInv'
<1>1. L' = L
  BY DEF L
<1>2. ASSUME NEW d \in Ctas \ {c} PROVE CtaInv(d)'
  BY <1>1, OtherCta DEF ScheduleInv
<1> QED BY <1>2 DEF ScheduleInv

(* A step of one reader, which may arrive on TileCountSmemEmpty.           *)
LEMMA ReaderUpdate ==
  ASSUME TypeInv, NEW c \in Ctas, NEW r \in Readers, NEW new \in ReaderState,
         reader' = Update(c, r, new)
  PROVE  /\ reader' \in [Ctas -> [Readers -> ReaderState]]
         /\ reader'[c][r] = new
         /\ \A q \in Readers \ {r} : reader'[c][q] = reader[c][q]
         /\ \A d \in Ctas \ {c} : reader'[d] = reader[d]
         /\ Received(c, r)' = Len(new.tiles)
         /\ \A q \in Readers \ {r} : Received(c, q)' = Received(c, q)
<1>1. reader \in [Ctas -> [Readers -> ReaderState]]
  BY DEF TypeInv
<1>2. reader[c] \in [Readers -> ReaderState]
  BY <1>1
<1>3. [reader[c] EXCEPT ![r] = new] \in [Readers -> ReaderState]
  BY <1>2
<1>4. /\ reader' \in [Ctas -> [Readers -> ReaderState]]
      /\ reader'[c] = [reader[c] EXCEPT ![r] = new]
      /\ \A d \in Ctas \ {c} : reader'[d] = reader[d]
  BY <1>1, <1>3 DEF Update
<1>5. /\ reader'[c][r] = new
      /\ \A q \in Readers \ {r} : reader'[c][q] = reader[c][q]
  BY <1>2, <1>4
<1> QED BY <1>4, <1>5 DEF Received

LEMMA ReaderStoresNothing ==
  ASSUME ScheduleInv, NEW c \in Ctas, NEW r \in Readers, NEW new \in ReaderState,
         reader' = Update(c, r, new), UNCHANGED <<launches, run, out>>,
         StoredTo(new.at, Len(new.tiles)) = StoredTo(reader[c][r].at, Received(c, r)),
         \A i \in 1 .. StoredTo(new.at, Len(new.tiles)) : new.tiles[i] = reader[c][r].tiles[i]
  PROVE  OutInv'
<1>1. L' = L /\ out' = out /\ OutInv
  BY DEF L, ScheduleInv
<1>2. /\ reader'[c][r] = new
      /\ \A q \in Readers \ {r} : reader'[c][q] = reader[c][q]
      /\ \A d \in Ctas \ {c} : reader'[d] = reader[d]
      /\ Received(c, r)' = Len(new.tiles)
      /\ \A q \in Readers \ {r} : Received(c, q)' = Received(c, q)
  BY ReaderUpdate DEF ScheduleInv
<1>3. ASSUME NEW d \in Ctas, NEW g \in WarpGroups
      PROVE  /\ StoredTo(reader[d][g].at, Received(d, g))' = StoredTo(reader[d][g].at, Received(d, g))
             /\ \A i \in 1 .. StoredTo(reader[d][g].at, Received(d, g)) : reader'[d][g].tiles[i] = reader[d][g].tiles[i]
  <2>1. CASE d = c /\ g = r
    BY <1>2, <2>1
  <2>2. CASE d = c /\ g # r
    BY <1>2, <2>2 DEF Readers
  <2>3. CASE d # c
    BY <1>2, <2>3 DEF Received
  <2> QED BY <2>1, <2>2, <2>3
<1> QED BY <1>1, <1>3, NothingStored

LEMMA ReaderStep ==
  ASSUME ScheduleInv, NEW c \in Ctas, NEW r \in Readers, NEW new \in ReaderState,
         reader' = Update(c, r, new),
         UNCHANGED <<launches, run, prepared, semaphore, producer, smem, full>>,
         empty' \in [Ctas -> Nat], \A d \in Ctas \ {c} : empty'[d] = empty[d],
         out' \in [WarpGroups -> [0 .. L.total - 1 -> Nat]],
         ReaderAt(c, r)', HandoverInv(c)', OutInv',
         ~Handoff => \A i \in 1 .. Len(new.tiles) : new.tiles[i] = TileOf(c, i),
         new.work_idx = BlocksIn(new.tiles, WorkedOn(new.at, Len(new.tiles)), L.blockless),
         r \in WarpGroups =>
           /\ new.stored = BlocksIn(new.tiles, StoredTo(new.at, Len(new.tiles)), L.blockless)
           /\ new.work_idx <= producer[c].work_idx
  PROVE  ScheduleInv'
<1>0. CtaInv(c) /\ TypeInv /\ SemaphoreInv
  BY DEF ScheduleInv
<1>1. L' = L /\ L'.blockless = L.blockless
  BY DEF L
<1>2. /\ reader' \in [Ctas -> [Readers -> ReaderState]]
      /\ reader'[c][r] = new
      /\ \A q \in Readers \ {r} : reader'[c][q] = reader[c][q]
      /\ \A d \in Ctas \ {c} : reader'[d] = reader[d]
      /\ Received(c, r)' = Len(new.tiles)
      /\ \A q \in Readers \ {r} : Received(c, q)' = Received(c, q)
  BY <1>0, ReaderUpdate
<1>3. TypeInv'
  BY <1>0, <1>1, <1>2 DEF TypeInv
<1>4. Fetched(c)' = Fetched(c) /\ \A d \in Ctas : Draws(d)' = Draws(d)
  BY DEF Fetched, Draws
<1>5. CtaInv(c)'
  <2>1. ProducerAt(c)'
    BY <1>0, <1>1, <1>4 DEF CtaInv, ProducerAt, Valid, HasBlocks
  <2>2. ASSUME NEW q \in Readers \ {r} PROVE ReaderAt(c, q)'
    BY <1>0, <1>1, <1>2 DEF CtaInv, ReaderAt, Valid, HasBlocks, Handoff
  <2>3. ComputedInv(c)'
    <3>1. Handoff' = Handoff /\ \A i : TileOf(c, i)' = TileOf(c, i)
      BY <1>1 DEF Handoff, TileOf
    <3>2. ASSUME ~Handoff, NEW q \in Readers, NEW i \in 1 .. Received(c, q)'
          PROVE  reader'[c][q].tiles[i] = TileOf(c, i)
      BY <1>0, <1>2, <3>2 DEF CtaInv, ComputedInv
    <3> QED BY <1>0, <1>4, <3>1, <3>2 DEF CtaInv, ComputedInv
  <2>4. WorkInv(c)'
    <3>1. WorkInv(c)
      BY <1>0 DEF CtaInv
    <3>2. ASSUME NEW q \in Readers
          PROVE  reader'[c][q].work_idx = BlocksIn(reader'[c][q].tiles, WorkedOn(reader'[c][q].at, Received(c, q)'), L'.blockless)
      BY <1>1, <1>2, <3>1 DEF WorkInv
    <3>3. ASSUME NEW g \in WarpGroups
          PROVE  /\ reader'[c][g].stored = BlocksIn(reader'[c][g].tiles, StoredTo(reader'[c][g].at, Received(c, g)'), L'.blockless)
                 /\ reader'[c][g].work_idx <= producer'[c].work_idx
      BY <1>1, <1>2, <3>1 DEF WorkInv, Readers
    <3> QED BY <3>2, <3>3 DEF WorkInv
  <2> QED BY <2>1, <2>2, <2>3, <2>4 DEF CtaInv
<1>6. SemaphoreInv'
  <2>1. \A d \in Ctas : /\ Drawings(d)' = Drawings(d)
                         /\ \A i \in Drawings(d) : TakenAt(d, i)' = TakenAt(d, i)
    BY <1>4 DEF TakenAt, Fetched, Drawings
  <2> QED BY <1>0, <1>1, <1>4, <2>1, NothingDrawn
<1> QED BY <1>2, <1>3, <1>5, <1>6, CtaStep

-----------------------------------------------------------------------------
(* The steps of the readers.                                               *)

LEMMA InitConsumerStep ==
  ASSUME ScheduleInv, NEW c \in Ctas, NEW r \in Readers, InitConsumer(c, r)
  PROVE  ScheduleInv'
<1> DEFINE w == reader[c][r]
           new == IF L.scheduler = "varlen" THEN [w EXCEPT !.at = "sync"]
                                            ELSE [w EXCEPT !.at = "work", !.tiles = <<c>>]
<1>0. TypeInv /\ CtaInv(c) /\ OutInv
  BY DEF ScheduleInv
<1>1. /\ c \in Nat /\ w \in ReaderState /\ Received(c, r) \in Nat /\ Fetched(c) \in Nat
      /\ empty[c] \in Nat /\ full[c] \in {0, 1}
  BY <1>0, CtaType DEF TypeInv
<1>2. w.at = "init" /\ Received(c, r) = 0 /\ Len(w.tiles) = 0
  BY <1>0 DEF InitConsumer, CtaInv, ReaderAt, Received
<1>3. /\ new \in ReaderState /\ new.at = (IF L.scheduler = "varlen" THEN "sync" ELSE "work")
      /\ new.tiles = (IF L.scheduler = "varlen" THEN w.tiles ELSE <<c>>)
      /\ new.work_idx = w.work_idx /\ new.stored = w.stored
      /\ Len(new.tiles) = (IF L.scheduler = "varlen" THEN 0 ELSE 1)
  <2>1. <<c>> \in Seq(Nat) /\ Len(<<c>>) = 1
    BY <1>1
  <2>2. CASE L.scheduler = "varlen"
    BY <1>1, <1>2, <2>2 DEF ReaderState
  <2>3. CASE L.scheduler # "varlen"
    BY <1>1, <2>1, <2>3 DEF ReaderState
  <2> QED BY <2>2, <2>3
<1> HIDE DEF new
<1>4. reader' = Update(c, r, new)
  BY DEF InitConsumer, new
<1>5. L' = L
  BY DEF InitConsumer, L
<1>6. /\ reader'[c][r] = new
      /\ \A q \in Readers \ {r} : reader'[c][q] = reader[c][q]
      /\ \A d \in Ctas \ {c} : reader'[d] = reader[d]
      /\ Received(c, r)' = Len(new.tiles)
      /\ \A q \in Readers \ {r} : Received(c, q)' = Received(c, q)
  BY <1>0, <1>3, <1>4, ReaderUpdate
<1>7. /\ empty' \in [Ctas -> Nat] /\ \A d \in Ctas \ {c} : empty'[d] = empty[d]
      /\ empty'[c] = empty[c] + InitialArrivals
  BY <1>0, <1>1 DEF InitConsumer, InitialArrivals, TypeInv
<1>8. ReaderAt(c, r)'
  BY <1>3, <1>5, <1>6 DEF ReaderAt
<1>9. HandoverInv(c)'
  <2>0. HandoverInv(c)
    BY <1>0 DEF CtaInv
  <2>1. Fetched(c)' = Fetched(c) /\ UsedUp(c)' = UsedUp(c) /\ Handoff' = Handoff
        /\ KnownTiles' = KnownTiles /\ full' = full /\ smem' = smem /\ producer' = producer
    BY <1>5 DEF InitConsumer, Fetched, UsedUp, Handoff, KnownTiles
  <2>2. CASE ~Handoff
    BY <1>7, <2>0, <2>1, <2>2, <1>1 DEF HandoverInv, InitialArrivals, Handoff
  <2>3. CASE L.scheduler = "varlen"
    <3>1. Arrived(c)' = Arrived(c) /\ Handoff
      BY <1>2, <1>3, <1>6, <2>1, <2>3 DEF Arrived, Handoff
    <3>2. empty'[c] = empty[c]
      BY <1>1, <1>7, <2>3 DEF InitialArrivals
    <3> QED BY <1>2, <1>3, <1>5, <1>6, <2>0, <2>1, <2>3, <3>1, <3>2 DEF HandoverInv,
               Seen, FirstTile
  <2>4. CASE L.scheduler = "dynamic"
    <3>1. Fetched(c) \in {0, 1} /\ full[c] = 0
      BY <1>1, <1>2, <2>0, <2>4 DEF HandoverInv, Handoff, KnownTiles, Seen, FirstTile
    <3>2. Arrived(c)' = Arrived(c) \cup {r} /\ r \notin Arrived(c)
      BY <1>2, <1>3, <1>6, <2>1, <2>4, <3>1 DEF Arrived, UsedUp
    <3>3. Cardinality(Arrived(c)') = Cardinality(Arrived(c)) + 1
      <4>1. IsFiniteSet(Arrived(c))
        BY ReadersFinite, FS_Subset DEF Arrived
      <4> QED BY <3>2, <4>1, FS_AddElement
    <3>4. empty'[c] = Cardinality(Arrived(c)')
      BY <1>7, <2>0, <2>4, <3>3 DEF HandoverInv, Handoff, InitialArrivals
    <3>5. ASSUME NEW i \in 1 .. Received(c, r)', i <= Fetched(c)
          PROVE  reader'[c][r].tiles[i] = producer[c].tiles[i]
      <4>1. i = 1 /\ Fetched(c) > 0
        BY <1>3, <1>6, <2>4, <3>1, <3>5
      <4> QED BY <1>0, <1>3, <1>6, <2>4, <4>1 DEF CtaInv, ProducerAt
    <3>6. Seen(c, r)' = Fetched(c)' \/ FirstTile(c, r)'
      BY <1>1, <1>3, <1>5, <1>6, <2>1, <2>4, <3>1 DEF Seen, FirstTile
    <3> QED BY <1>3, <1>5, <1>6, <2>0, <2>1, <2>4, <3>1, <3>4, <3>5, <3>6
            DEF HandoverInv, Seen, FirstTile, Handoff
  <2> QED BY <2>2, <2>3, <2>4 DEF Handoff
<1>10. OutInv'
  <2>1. StoredTo(w.at, Received(c, r)) = 0 /\ StoredTo(new.at, Len(new.tiles)) = 0
    BY <1>2, <1>3 DEF StoredTo
  <2>2. UNCHANGED <<launches, run, out>>
    BY DEF InitConsumer
  <2>3. \A i \in 1 .. StoredTo(new.at, Len(new.tiles)) : new.tiles[i] = w.tiles[i]
    BY <2>1
  <2> QED BY <1>3, <1>4, <2>1, <2>2, <2>3, ReaderStoresNothing
<1>11. ~Handoff => \A i \in 1 .. Len(new.tiles) : new.tiles[i] = TileOf(c, i)
  BY <1>3 DEF TileOf, Handoff
<1>12. /\ new.work_idx = BlocksIn(new.tiles, WorkedOn(new.at, Len(new.tiles)), L.blockless)
       /\ r \in WarpGroups =>
            /\ new.stored = BlocksIn(new.tiles, StoredTo(new.at, Len(new.tiles)), L.blockless)
            /\ new.work_idx <= producer[c].work_idx
  <2>1. /\ WorkedOn(new.at, Len(new.tiles)) = 0 /\ StoredTo(new.at, Len(new.tiles)) = 0
        /\ WorkedOn(w.at, Received(c, r)) = 0 /\ StoredTo(w.at, Received(c, r)) = 0
    BY <1>2, <1>3 DEF WorkedOn, StoredTo
  <2>2. BlocksIn(new.tiles, 0, L.blockless) = 0 /\ BlocksIn(w.tiles, 0, L.blockless) = 0
    BY BlocksInStep
  <2> QED BY <1>0, <1>3, <2>1, <2>2 DEF CtaInv, WorkInv
<1> QED
  BY <1>0, <1>3, <1>4, <1>7, <1>8, <1>9, <1>10, <1>11, <1>12, ReaderStep
     DEF InitConsumer, TypeInv

LEMMA WorkStep ==
  ASSUME ScheduleInv, NEW c \in Ctas, NEW r \in Readers, Work(c, r)
  PROVE  ScheduleInv'
<1> DEFINE w == reader[c][r]
           n == Received(c, r)
           t == Last(w.tiles)
           new == [w EXCEPT !.at = "sync", !.work_idx = @ + (IF HasBlocks(t) THEN 1 ELSE 0)]
<1>0. TypeInv /\ CtaInv(c) /\ OutInv
  BY DEF ScheduleInv
<1>1. w \in ReaderState /\ n \in Nat
  BY <1>0, CtaType
<1>2. w.at \in {"work", "wait_O"} /\ n > 0 /\ Len(w.tiles) = n /\ t = w.tiles[n]
  BY <1>0 DEF Work, CtaInv, ReaderAt, Received, Last
<1>3. Valid(t)
  BY <1>0, <1>2 DEF Work, CtaInv, ReaderAt
<1>4. /\ new \in ReaderState /\ new.at = "sync" /\ new.tiles = w.tiles /\ new.stored = w.stored
      /\ new.work_idx = w.work_idx + (IF HasBlocks(t) THEN 1 ELSE 0)
  <2>1. w.work_idx + (IF HasBlocks(t) THEN 1 ELSE 0) \in Nat
    BY <1>1 DEF ReaderState
  <2> QED BY <1>1, <2>1 DEF ReaderState
<1>5. reader' = Update(c, r, new)
  BY DEF Work
<1> HIDE DEF new
<1>6. L' = L
  BY DEF Work, L
<1>7. /\ reader'[c][r] = new
      /\ \A q \in Readers \ {r} : reader'[c][q] = reader[c][q]
      /\ \A d \in Ctas \ {c} : reader'[d] = reader[d]
      /\ Received(c, r)' = n
      /\ \A q \in Readers \ {r} : Received(c, q)' = Received(c, q)
  BY <1>0, <1>2, <1>4, <1>5, ReaderUpdate
<1>8. ReaderAt(c, r)'
  BY <1>0, <1>2, <1>3, <1>4, <1>6, <1>7 DEF CtaInv, ReaderAt, Valid
<1>9. HandoverInv(c)'
  <2>0. HandoverInv(c)
    BY <1>0 DEF CtaInv
  <2>1. /\ Fetched(c)' = Fetched(c) /\ UsedUp(c)' = UsedUp(c) /\ Handoff' = Handoff
        /\ KnownTiles' = KnownTiles /\ full' = full /\ empty' = empty /\ smem' = smem /\ producer' = producer
    BY <1>6 DEF Work, Fetched, UsedUp, Handoff, KnownTiles
  <2>2. /\ \A q \in Readers : Received(c, q)' = Received(c, q) /\ Seen(c, q)' = Seen(c, q)
        /\ Arrived(c)' = Arrived(c)
    BY <1>2, <1>4, <1>7, <2>1 DEF Seen, Arrived
  <2>3. \A q \in Readers : FirstTile(c, q) => FirstTile(c, q)'
    BY <1>2, <1>4, <1>6, <1>7, <2>1 DEF FirstTile
  <2> QED BY <1>2, <1>4, <1>6, <1>7, <2>0, <2>1, <2>2, <2>3 DEF HandoverInv
<1>10. OutInv'
  <2>1. StoredTo(w.at, n) = n - 1 /\ StoredTo(new.at, Len(new.tiles)) = n - 1
    BY <1>2, <1>4 DEF StoredTo
  <2> QED BY <1>4, <1>5, <2>1, ReaderStoresNothing DEF Work
<1>11. ~Handoff => \A i \in 1 .. Len(new.tiles) : new.tiles[i] = TileOf(c, i)
  BY <1>0, <1>2, <1>4 DEF CtaInv, ComputedInv
<1>12. /\ new.work_idx = BlocksIn(new.tiles, WorkedOn(new.at, Len(new.tiles)), L.blockless)
       /\ r \in WarpGroups =>
            /\ new.stored = BlocksIn(new.tiles, StoredTo(new.at, Len(new.tiles)), L.blockless)
            /\ new.work_idx <= producer[c].work_idx
  <2>0. WorkInv(c)
    BY <1>0 DEF CtaInv
  <2>1. /\ WorkedOn(w.at, n) = n - 1 /\ WorkedOn(new.at, n) = n
        /\ StoredTo(w.at, n) = n - 1 /\ StoredTo(new.at, n) = n - 1
    BY <1>2, <1>4 DEF WorkedOn, StoredTo
  <2>2. BlocksIn(w.tiles, n, L.blockless)
          = BlocksIn(w.tiles, n - 1, L.blockless) + (IF HasBlocks(t) THEN 1 ELSE 0)
    <3>1. PICK k \in Nat : k = n - 1
      BY <1>1, <1>2
    <3>2. BlocksIn(w.tiles, k + 1, L.blockless)
            = BlocksIn(w.tiles, k, L.blockless) + (IF w.tiles[k + 1] \notin L.blockless THEN 1 ELSE 0)
      BY BlocksInStep
    <3>3. k + 1 = n
      BY <1>1, <3>1
    <3> QED BY <1>2, <3>1, <3>2, <3>3 DEF HasBlocks
  <2>3. new.work_idx = BlocksIn(new.tiles, n, L.blockless)
    BY <1>4, <2>0, <2>1, <2>2 DEF WorkInv
  <2>4. ASSUME r \in WarpGroups PROVE new.work_idx <= producer[c].work_idx
    <3>1. w.at = "work" /\ w.work_idx <= producer[c].work_idx /\ (HasBlocks(t) => producer[c].work_idx > w.work_idx)
      BY <1>0, <2>0, <2>4, ReadersAssumption DEF Work, CtaInv, ReaderAt, WorkInv
    <3>2. w.work_idx \in Nat /\ producer[c].work_idx \in Nat
      BY <1>0, <1>1, CtaType DEF ReaderState, ProducerState
    <3> QED BY <1>4, <3>1, <3>2
  <2> QED BY <1>2, <1>4, <2>0, <2>1, <2>3, <2>4 DEF WorkInv
<1> QED
  BY <1>0, <1>4, <1>5, <1>8, <1>9, <1>10, <1>11, <1>12, ReaderStep DEF Work, TypeInv

LEMMA ReaderExitStep ==
  ASSUME ScheduleInv, NEW c \in Ctas, NEW r \in Readers, ReaderExit(c, r)
  PROVE  ScheduleInv'
<1> DEFINE w == reader[c][r]
           n == Received(c, r)
           new == [w EXCEPT !.at = "done"]
<1>0. TypeInv /\ CtaInv(c) /\ OutInv
  BY DEF ScheduleInv
<1>1. w \in ReaderState /\ n \in Nat
  BY <1>0, CtaType
<1>2. w.at = "work" /\ n > 0 /\ Len(w.tiles) = n /\ ~Valid(w.tiles[n])
  BY <1>0 DEF ReaderExit, CtaInv, ReaderAt, Received, Last
<1>3. /\ new \in ReaderState /\ new.at = "done" /\ new.tiles = w.tiles /\ new.stored = w.stored
      /\ new.work_idx = w.work_idx
  BY <1>1 DEF ReaderState
<1>4. reader' = Update(c, r, new)
  BY DEF ReaderExit
<1> HIDE DEF new
<1>5. L' = L
  BY DEF ReaderExit, L
<1>6. /\ reader'[c][r] = new
      /\ \A q \in Readers \ {r} : reader'[c][q] = reader[c][q]
      /\ \A d \in Ctas \ {c} : reader'[d] = reader[d]
      /\ Received(c, r)' = n
      /\ \A q \in Readers \ {r} : Received(c, q)' = Received(c, q)
  BY <1>0, <1>2, <1>3, <1>4, ReaderUpdate
<1>7. ReaderAt(c, r)'
  BY <1>0, <1>2, <1>3, <1>5, <1>6 DEF CtaInv, ReaderAt, Valid
<1>8. HandoverInv(c)'
  <2>0. HandoverInv(c)
    BY <1>0 DEF CtaInv
  <2>1. /\ Fetched(c)' = Fetched(c) /\ UsedUp(c)' = UsedUp(c) /\ Handoff' = Handoff
        /\ KnownTiles' = KnownTiles /\ full' = full /\ empty' = empty /\ smem' = smem /\ producer' = producer
    BY <1>5 DEF ReaderExit, Fetched, UsedUp, Handoff, KnownTiles
  <2>2. /\ \A q \in Readers : Received(c, q)' = Received(c, q) /\ Seen(c, q)' = Seen(c, q)
        /\ Arrived(c)' = Arrived(c)
    BY <1>2, <1>3, <1>6, <2>1 DEF Seen, Arrived
  <2>3. \A q \in Readers : FirstTile(c, q) => FirstTile(c, q)'
    BY <1>2, <1>3, <1>5, <1>6, <2>1 DEF FirstTile
  <2> QED BY <1>2, <1>3, <1>5, <1>6, <2>0, <2>1, <2>2, <2>3 DEF HandoverInv
<1>9. StoredTo(w.at, n) = n - 1 /\ StoredTo(new.at, Len(new.tiles)) = n - 1
      /\ WorkedOn(w.at, n) = n - 1 /\ WorkedOn(new.at, n) = n - 1
  BY <1>2, <1>3 DEF StoredTo, WorkedOn
<1>10. OutInv'
  BY <1>3, <1>4, <1>9, ReaderStoresNothing DEF ReaderExit
<1>11. ~Handoff => \A i \in 1 .. Len(new.tiles) : new.tiles[i] = TileOf(c, i)
  BY <1>0, <1>2, <1>3 DEF CtaInv, ComputedInv
<1>12. /\ new.work_idx = BlocksIn(new.tiles, WorkedOn(new.at, Len(new.tiles)), L.blockless)
       /\ r \in WarpGroups =>
            /\ new.stored = BlocksIn(new.tiles, StoredTo(new.at, Len(new.tiles)), L.blockless)
            /\ new.work_idx <= producer[c].work_idx
  BY <1>0, <1>2, <1>3, <1>9 DEF CtaInv, WorkInv
<1> QED
  BY <1>0, <1>3, <1>4, <1>7, <1>8, <1>10, <1>11, <1>12, ReaderStep DEF ReaderExit, TypeInv

LEMMA Appended ==
  ASSUME TypeInv, NEW c \in Ctas, NEW r \in Readers, NEW t \in Nat
  PROVE  LET w   == reader[c][r]
             n   == Received(c, r)
             new == WithTile(c, r, t)
         IN  /\ new \in ReaderState /\ Len(new.tiles) = n + 1 /\ new.tiles[n + 1] = t
             /\ \A i \in 1 .. n : new.tiles[i] = w.tiles[i]
             /\ new.at = (IF r \in WarpGroups /\ n # 0 THEN "store" ELSE "work")
             /\ new.work_idx = w.work_idx /\ new.stored = w.stored
<1> DEFINE w == reader[c][r]
           n == Received(c, r)
           new == WithTile(c, r, t)
<1>1. w \in ReaderState /\ n \in Nat /\ n = Len(w.tiles) /\ w.tiles \in Seq(Nat)
  BY CtaType DEF ReaderState, Received
<1>2. /\ Append(w.tiles, t) \in Seq(Nat) /\ Len(Append(w.tiles, t)) = n + 1
      /\ Append(w.tiles, t)[n + 1] = t
      /\ \A i \in 1 .. n : Append(w.tiles, t)[i] = w.tiles[i]
  BY <1>1
<1>3. w.tiles # << >> <=> n # 0
  BY <1>1
<1>4. new.tiles = Append(w.tiles, t) /\ new.work_idx = w.work_idx /\ new.stored = w.stored
  BY <1>1 DEF WithTile, ReaderState
<1>5. new.at = (IF r \in WarpGroups /\ n # 0 THEN "store" ELSE "work")
  BY <1>1, <1>3 DEF WithTile, ReaderState
<1>6. new \in ReaderState
  BY <1>1, <1>2 DEF WithTile, ReaderState
<1> QED BY <1>2, <1>4, <1>5, <1>6

LEMMA AppendStep ==
  ASSUME ScheduleInv, NEW c \in Ctas, NEW r \in Readers, NEW t \in Nat,
         reader[c][r].at \in {"sync", "read"},
         Received(c, r) = 0 => t = c,
         reader' = Update(c, r, WithTile(c, r, t)),
         UNCHANGED <<launches, run, prepared, semaphore, producer, smem, full, out>>,
         empty' \in [Ctas -> Nat], \A d \in Ctas \ {c} : empty'[d] = empty[d],
         HandoverInv(c)', ~Handoff => t = TileOf(c, Received(c, r) + 1)
  PROVE  ScheduleInv'
<1> DEFINE w == reader[c][r]
           n == Received(c, r)
           new == WithTile(c, r, t)
<1>0. TypeInv /\ CtaInv(c) /\ OutInv
  BY DEF ScheduleInv
<1>1. w \in ReaderState /\ n \in Nat
  BY <1>0, CtaType
<1>2. n > 0 => Valid(w.tiles[n])
  BY <1>0 DEF CtaInv, ReaderAt
<1>3. /\ new \in ReaderState /\ Len(new.tiles) = n + 1 /\ new.tiles[n + 1] = t
      /\ \A i \in 1 .. n : new.tiles[i] = w.tiles[i]
      /\ new.at = (IF r \in WarpGroups /\ n # 0 THEN "store" ELSE "work")
      /\ new.work_idx = w.work_idx /\ new.stored = w.stored
  BY <1>0, Appended
<1> HIDE DEF new
<1>4. reader' = Update(c, r, new)
  BY DEF new
<1>5. L' = L
  BY DEF L
<1>6. reader'[c][r] = new /\ Received(c, r)' = n + 1
  BY <1>0, <1>3, <1>4, ReaderUpdate
<1>7. ReaderAt(c, r)'
  <2>1. \A i \in 1 .. n : Valid(new.tiles[i])
    <3>1. \A i \in 1 .. n - 1 : Valid(w.tiles[i])
      BY <1>0 DEF CtaInv, ReaderAt
    <3> QED BY <1>1, <1>2, <1>3, <3>1
  <2>2. new.tiles[1] = c
    <3>1. n > 0 => w.tiles[1] = c
      BY <1>0 DEF CtaInv, ReaderAt
    <3> QED BY <1>1, <1>3, <3>1
  <2>3. new.at = "store" => n + 1 > 1 /\ r \in WarpGroups
    BY <1>1, <1>3
  <2>4. new.at \in {"store", "work"} /\ n + 1 > 0 /\ (n + 1) - 1 = n
    BY <1>1, <1>3
  <2>5. \A i \in 1 .. Received(c, r)' - 1 : new.tiles[i] < L'.total
    BY <1>5, <1>6, <2>1, <2>4 DEF Valid
  <2> QED BY <1>6, <2>2, <2>3, <2>4, <2>5 DEF ReaderAt, Valid
<1>8. StoredTo(w.at, n) = (IF n = 0 THEN 0 ELSE n - 1) /\ WorkedOn(w.at, n) = n /\ WorkedOn(new.at, n + 1) = n
  <2>1. new.at \in {"store", "work"} /\ n + 1 > 0 /\ (n + 1) - 1 = n
    BY <1>1, <1>3
  <2>2. WorkedOn(new.at, n + 1) = n
    BY <2>1 DEF WorkedOn
  <2> QED BY <1>1, <2>2 DEF StoredTo, WorkedOn
<1>9. r \in WarpGroups => StoredTo(new.at, n + 1) = StoredTo(w.at, n)
  BY <1>1, <1>3, <1>8 DEF StoredTo
<1>10. OutInv'
  <2>1. CASE r \in WarpGroups
    <3>1. StoredTo(new.at, Len(new.tiles)) = StoredTo(w.at, n)
          /\ \A i \in 1 .. StoredTo(new.at, Len(new.tiles)) : new.tiles[i] = w.tiles[i]
      BY <1>1, <1>3, <1>8, <1>9, <2>1
    <3> QED BY <1>3, <1>4, <3>1, ReaderStoresNothing
  <2>2. CASE r \notin WarpGroups
    <3>1. \A d \in Ctas, g \in WarpGroups : reader'[d][g] = reader[d][g] /\ Received(d, g)' = Received(d, g)
      BY <1>0, <1>3, <1>4, <2>2, ReaderUpdate DEF Readers, Received
    <3>2. \A d \in Ctas, g \in WarpGroups :
            /\ StoredTo(reader[d][g].at, Received(d, g))' = StoredTo(reader[d][g].at, Received(d, g))
            /\ \A i \in 1 .. StoredTo(reader[d][g].at, Received(d, g)) : reader'[d][g].tiles[i] = reader[d][g].tiles[i]
      BY <3>1
    <3> QED BY <1>0, <1>5, <3>2, NothingStored
  <2> QED BY <2>1, <2>2
<1>11. ~Handoff => \A i \in 1 .. Len(new.tiles) : new.tiles[i] = TileOf(c, i)
  <2>1. ~Handoff => \A i \in 1 .. n : w.tiles[i] = TileOf(c, i)
    BY <1>0 DEF CtaInv, ComputedInv
  <2>2. \A i \in 1 .. n + 1 : i \in 1 .. n \/ i = n + 1
    BY <1>1
  <2> QED BY <1>3, <2>1, <2>2
<1>12. /\ new.work_idx = BlocksIn(new.tiles, WorkedOn(new.at, Len(new.tiles)), L.blockless)
       /\ r \in WarpGroups =>
            /\ new.stored = BlocksIn(new.tiles, StoredTo(new.at, Len(new.tiles)), L.blockless)
            /\ new.work_idx <= producer[c].work_idx
  <2>1. WorkInv(c)
    BY <1>0 DEF CtaInv
  <2>2. ASSUME NEW k \in 0 .. n
        PROVE  BlocksIn(new.tiles, k, L.blockless) = BlocksIn(w.tiles, k, L.blockless)
    <3>1. k \in Nat /\ \A i \in 1 .. k : new.tiles[i] = w.tiles[i]
      BY <1>1, <1>3
    <3> QED BY <3>1, BlocksInSame
  <2>3. StoredTo(w.at, n) \in 0 .. n /\ n \in 0 .. n
    BY <1>1, <1>8
  <2> QED BY <1>3, <1>8, <1>9, <2>1, <2>2, <2>3 DEF WorkInv
<1> QED
  BY <1>0, <1>3, <1>4, <1>7, <1>10, <1>11, <1>12, ReaderStep DEF TypeInv

LEMMA ReaderGetNextWorkStep ==
  ASSUME ScheduleInv, NEW c \in Ctas, NEW r \in Readers, ReaderGetNextWork(c, r)
  PROVE  ScheduleInv'
<1> DEFINE w == reader[c][r]
           n == Received(c, r)
<1>0. TypeInv /\ CtaInv(c) /\ HandoverInv(c)
  BY DEF ScheduleInv, CtaInv
<1>1. /\ c \in Nat /\ c < NumCtas /\ NumCtas \in Nat /\ w \in ReaderState /\ n \in Nat /\ Fetched(c) \in Nat
      /\ empty[c] \in Nat /\ full[c] \in {0, 1} /\ smem[c] \in Nat
  BY <1>0, CtaType DEF TypeInv
<1>2. /\ L' = L /\ full' = full /\ smem' = smem /\ producer' = producer /\ Fetched(c)' = Fetched(c)
      /\ UsedUp(c)' = UsedUp(c) /\ Handoff' = Handoff /\ KnownTiles' = KnownTiles
  BY DEF ReaderGetNextWork, L, Fetched, UsedUp, Handoff, KnownTiles
<1>3. CASE /\ w.at = "read"
           /\ reader' = Update(c, r, WithTile(c, r, smem[c]))
           /\ empty' = [empty EXCEPT ![c] = @ + 1]
  <2> DEFINE new == WithTile(c, r, smem[c])
  <2>1. Handoff
    BY <1>0, <1>3 DEF CtaInv, ReaderAt
  <2>2. full[c] = 0 /\ n + 1 = Fetched(c) /\ Fetched(c) > KnownTiles
    <3>1. full[c] = 0
      BY <1>0, <1>1, <1>3, <2>1 DEF HandoverInv
    <3>2. Seen(c, r) = Fetched(c)
      BY <1>0, <1>3, <2>1, <3>1 DEF HandoverInv, FirstTile
    <3>3. L.scheduler = "dynamic" => n # 0
      BY <1>0, <1>3, <2>1 DEF HandoverInv
    <3> QED BY <1>1, <1>3, <2>1, <3>1, <3>2, <3>3 DEF Seen, KnownTiles, Handoff
  <2>3. smem[c] = producer[c].tiles[Fetched(c)]
    BY <1>0, <2>1, <2>2 DEF HandoverInv
  <2>4. n = 0 => smem[c] = c
    BY <1>0, <1>1, <2>2, <2>3 DEF CtaInv, ProducerAt
  <2>5. /\ empty' \in [Ctas -> Nat] /\ \A d \in Ctas \ {c} : empty'[d] = empty[d]
        /\ empty'[c] = empty[c] + 1
    BY <1>0, <1>1, <1>3 DEF TypeInv
  <2>6. /\ new \in ReaderState /\ Len(new.tiles) = n + 1 /\ new.tiles[n + 1] = smem[c]
        /\ \A i \in 1 .. n : new.tiles[i] = w.tiles[i]
        /\ new.at = (IF r \in WarpGroups /\ n # 0 THEN "store" ELSE "work")
    BY <1>0, <1>1, Appended
  <2> HIDE DEF new
  <2>7. /\ reader'[c][r] = new
        /\ \A q \in Readers \ {r} : reader'[c][q] = reader[c][q]
        /\ Received(c, r)' = n + 1
        /\ \A q \in Readers \ {r} : Received(c, q)' = Received(c, q)
    <3>1. reader' = Update(c, r, new)
      BY <1>3 DEF new
    <3> QED BY <1>0, <2>6, <3>1, ReaderUpdate
  <2>8. HandoverInv(c)'
    <3>1. Arrived(c)' = Arrived(c) \cup {r} /\ r \notin Arrived(c)
      BY <1>1, <1>2, <2>2, <2>7 DEF Arrived, UsedUp
    <3>2. Cardinality(Arrived(c)') = Cardinality(Arrived(c)) + 1
      <4>1. IsFiniteSet(Arrived(c))
        BY ReadersFinite, FS_Subset DEF Arrived
      <4> QED BY <3>1, <4>1, FS_AddElement
    <3>3. empty'[c] = Cardinality(Arrived(c)')
      BY <1>0, <2>1, <2>5, <3>2 DEF HandoverInv
    <3>4. Seen(c, r)' = Fetched(c)' /\ ~(Received(c, r)' = 0) /\ reader'[c][r].at \in {"store", "work"}
      BY <1>1, <1>2, <2>2, <2>6, <2>7 DEF Seen
    <3>5. \A i \in 1 .. n + 1 : i <= Fetched(c) => new.tiles[i] = producer[c].tiles[i]
      BY <1>0, <1>1, <2>1, <2>2, <2>3, <2>6 DEF HandoverInv
    <3>6. ASSUME NEW q \in Readers \ {r}
          PROVE  /\ Seen(c, q)' = Seen(c, q) /\ (FirstTile(c, q) => FirstTile(c, q)')
      BY <1>2, <2>7 DEF Seen, FirstTile
    <3> QED BY <1>0, <1>2, <2>1, <2>2, <2>7, <3>3, <3>4, <3>5, <3>6 DEF HandoverInv
  <2> QED BY <1>1, <1>2, <1>3, <2>1, <2>4, <2>5, <2>8, AppendStep DEF ReaderGetNextWork
<1>4. CASE /\ w.at = "sync" /\ ~Handoff
           /\ reader' = Update(c, r, WithTile(c, r, NextTile(Last(w.tiles))))
           /\ UNCHANGED empty
  <2>1. n > 0 /\ w.tiles[n] = TileOf(c, n) /\ Last(w.tiles) = w.tiles[n]
    BY <1>0, <1>1, <1>4 DEF CtaInv, ReaderAt, ComputedInv, Handoff, Last, Received
  <2>2. NextTile(TileOf(c, n)) = TileOf(c, n + 1) /\ NextTile(TileOf(c, n)) \in Nat
    BY <1>0, <1>1, <2>1, TileOfNext
  <2>3. HandoverInv(c)'
    BY <1>0, <1>2, <1>4 DEF HandoverInv
  <2> QED BY <1>0, <1>4, <2>1, <2>2, <2>3, AppendStep DEF ReaderGetNextWork, TypeInv
<1> QED BY <1>3, <1>4 DEF ReaderGetNextWork

(* A warpgroup never gets the tile of another warpgroup of its kind, nor   *)
(* one of its own a second time.                                           *)
LEMMA HandedOver ==
  ASSUME ScheduleInv, Handoff, NEW c \in Ctas, NEW r \in Readers, NEW i \in 1 .. Received(c, r), i > 1
  PROVE  /\ prepared /\ i \in Drawings(c) /\ TakenAt(c, i) = reader[c][r].tiles[i]
         /\ reader[c][r].tiles[i] >= NumCtas
<1>0. TypeInv /\ HandoverInv(c) /\ ProducerAt(c) /\ ReaderAt(c, r) /\ SemaphoreInv
  BY DEF ScheduleInv, CtaInv
<1>1. Received(c, r) \in Nat /\ Fetched(c) \in Nat /\ full[c] \in {0, 1} /\ NumCtas \in Nat
  BY <1>0, CtaType DEF TypeInv
<1>2. Received(c, r) <= Fetched(c)
  <2>1. CASE full[c] = 1
    BY <1>0, <1>1, <2>1 DEF HandoverInv
  <2>2. CASE full[c] = 0
    <3>1. Seen(c, r) = Fetched(c)
      BY <1>0, <1>1, <2>2 DEF HandoverInv, FirstTile, ReaderAt
    <3> QED BY <1>1, <3>1 DEF Seen
  <2> QED BY <1>1, <2>1, <2>2
<1>3. prepared
  BY <1>0, <1>1, <1>2 DEF ProducerAt
<1>4. i \in Drawings(c) /\ TakenAt(c, i) = producer[c].tiles[i]
  BY <1>1, <1>2 DEF Drawings, Draws, TakenAt
<1>5. producer[c].tiles[i] = reader[c][r].tiles[i]
  BY <1>0, <1>1, <1>2 DEF HandoverInv
<1>6. Count \in Nat
  BY <1>0, LaunchType
<1>7. TakenAt(c, i) \in NumCtas .. NumCtas + Count - 1
  BY <1>0, <1>3, <1>4 DEF SemaphoreInv
<1> QED BY <1>1, <1>3, <1>4, <1>5, <1>6, <1>7

LEMMA TilesUnique ==
  ASSUME ScheduleInv, NEW c \in Ctas, NEW d \in Ctas, NEW r \in Readers,
         NEW i \in 1 .. Received(c, r), NEW j \in 1 .. Received(d, r),
         Valid(reader[c][r].tiles[i]), reader[c][r].tiles[i] = reader[d][r].tiles[j]
  PROVE  c = d /\ i = j
<1>0. TypeInv /\ ReaderAt(c, r) /\ ReaderAt(d, r) /\ ComputedInv(c) /\ ComputedInv(d)
  BY DEF ScheduleInv, CtaInv
<1>1. /\ c \in Nat /\ d \in Nat /\ NumCtas \in Nat /\ c < NumCtas /\ d < NumCtas /\ L.total \in Nat
      /\ Received(c, r) \in Nat /\ Received(d, r) \in Nat
  BY <1>0, CtaType, LaunchType
<1>2. CASE Handoff
  <2>1. (i = 1 => reader[c][r].tiles[i] = c) /\ (j = 1 => reader[d][r].tiles[j] = d)
    BY <1>0, <1>1 DEF ReaderAt
  <2>2. CASE i = 1 /\ j = 1
    BY <2>1, <2>2
  <2>3. CASE i = 1 /\ j > 1
    BY <1>1, <1>2, <2>1, <2>3, HandedOver
  <2>4. CASE i > 1 /\ j = 1
    BY <1>1, <1>2, <2>1, <2>4, HandedOver
  <2>5. CASE i > 1 /\ j > 1
    <3>1. /\ prepared /\ i \in Drawings(c) /\ j \in Drawings(d)
          /\ TakenAt(c, i) = TakenAt(d, j)
      BY <1>2, <2>5, HandedOver
    <3> QED BY <1>2, <3>1 DEF ScheduleInv, SemaphoreInv
  <2> QED BY <1>1, <2>2, <2>3, <2>4, <2>5
<1>3. CASE ~Handoff
  <2>1. reader[c][r].tiles[i] = TileOf(c, i) /\ reader[d][r].tiles[j] = TileOf(d, j)
    BY <1>0, <1>3 DEF ComputedInv
  <2>2. CASE L.scheduler = "static"
    <3>1. TileOf(c, i) = c + (i - 1) * NumCtas /\ TileOf(d, j) = d + (j - 1) * NumCtas
      <4>1. (1 - 1) * NumCtas = 0
        BY <1>1
      <4> QED BY <1>1, <2>2, <4>1 DEF TileOf
    <3>2. PICK k \in Nat, m \in Nat : i = k + 1 /\ j = m + 1
      <4>1. i - 1 \in Nat /\ j - 1 \in Nat /\ i = (i - 1) + 1 /\ j = (j - 1) + 1
        BY <1>1
      <4> QED BY <4>1
    <3>3. i - 1 = k /\ j - 1 = m
      BY <3>2
    <3>4. c + k * NumCtas = d + m * NumCtas
      BY <2>1, <3>1, <3>3
    <3>5. c \in 0 .. NumCtas - 1 /\ d \in 0 .. NumCtas - 1
      BY <1>1
    <3>6. c = d /\ k = m
      BY <1>1, <3>4, <3>5, StridesUnique
    <3> QED BY <3>2, <3>6
  <2>3. CASE L.scheduler # "static"
    <3>1. TileOf(c, i) # L.total /\ TileOf(d, j) # L.total
      <4>1. TileOf(c, i) < L.total /\ TileOf(d, j) < L.total
        BY <2>1 DEF Valid
      <4>2. ~(L.total < L.total)
        BY <1>1
      <4> QED BY <4>1, <4>2
    <3>2. i = 1 /\ j = 1
      BY <2>3, <3>1 DEF TileOf
    <3> QED BY <2>1, <3>2 DEF TileOf
  <2> QED BY <2>2, <2>3
<1> QED BY <1>2, <1>3

LEMMA StoreStep ==
  ASSUME ScheduleInv, NEW c \in Ctas, NEW g \in Readers, Store(c, g)
  PROVE  /\ ScheduleInv'
         /\ g \in WarpGroups
         /\ \E t \in 0 .. L.total - 1 : out[g][t] = 0 /\ out' = [out EXCEPT ![g] = [out[g] EXCEPT ![t] = 1]]
<1> DEFINE w == reader[c][g]
           n == Received(c, g)
           t == w.tiles[n - 1]
           new == [w EXCEPT !.at = "work", !.stored = @ + (IF HasBlocks(t) THEN 1 ELSE 0)]
<1>0. TypeInv /\ CtaInv(c) /\ OutInv
  BY DEF ScheduleInv
<1>1. w \in ReaderState /\ n \in Nat /\ L.total \in Nat /\ n = Len(w.tiles)
  BY <1>0, CtaType, LaunchType DEF Received
<1>2. w.at = "store" /\ n > 1 /\ g \in WarpGroups
  BY <1>0 DEF Store, CtaInv, ReaderAt
<1>3. n - 1 \in 1 .. n - 1 /\ n - 1 \in 1 .. n /\ Valid(t) /\ t \in 0 .. L.total - 1
  <2>1. n - 1 \in 1 .. n - 1 /\ n - 1 \in 1 .. n
    BY <1>1, <1>2
  <2>2. Valid(t) /\ t \in Nat
    BY <1>0, <2>1, CtaType DEF CtaInv, ReaderAt
  <2> QED BY <1>1, <2>1, <2>2 DEF Valid
<1>4. /\ new \in ReaderState /\ new.at = "work" /\ new.tiles = w.tiles /\ new.work_idx = w.work_idx
      /\ new.stored = w.stored + (IF HasBlocks(t) THEN 1 ELSE 0)
  <2>1. w.stored + (IF HasBlocks(t) THEN 1 ELSE 0) \in Nat
    BY <1>1 DEF ReaderState
  <2> QED BY <1>1, <2>1 DEF ReaderState
<1>5. reader' = Update(c, g, new) /\ out' = [out EXCEPT ![g] = [out[g] EXCEPT ![t] = @ + 1]]
  BY DEF Store, Received
<1> HIDE DEF new
<1>6. L' = L
  BY DEF Store, L
<1>7. /\ reader'[c][g] = new
      /\ \A q \in Readers \ {g} : reader'[c][q] = reader[c][q]
      /\ \A d \in Ctas \ {c} : reader'[d] = reader[d]
      /\ Received(c, g)' = n
      /\ \A q \in Readers \ {g} : Received(c, q)' = Received(c, q)
  BY <1>0, <1>1, <1>4, <1>5, ReaderUpdate
<1>8. ReaderAt(c, g)'
  <2>1. ReaderAt(c, g)
    BY <1>0 DEF CtaInv
  <2>2. \A i \in 1 .. n - 1 : Valid(w.tiles[i])
    BY <2>1 DEF ReaderAt
  <2>3. w.tiles[1] = c
    BY <1>1, <1>2, <2>1 DEF ReaderAt
  <2>4. n > 0 /\ new.at = "work"
    BY <1>1, <1>2, <1>4
  <2> QED BY <1>4, <1>6, <1>7, <2>2, <2>3, <2>4 DEF ReaderAt, Valid
<1>9. HandoverInv(c)'
  <2>0. HandoverInv(c)
    BY <1>0 DEF CtaInv
  <2>1. /\ Fetched(c)' = Fetched(c) /\ UsedUp(c)' = UsedUp(c) /\ Handoff' = Handoff
        /\ KnownTiles' = KnownTiles /\ full' = full /\ empty' = empty /\ smem' = smem /\ producer' = producer
    BY <1>6 DEF Store, Fetched, UsedUp, Handoff, KnownTiles
  <2>2. /\ \A q \in Readers : Received(c, q)' = Received(c, q) /\ Seen(c, q)' = Seen(c, q)
        /\ Arrived(c)' = Arrived(c)
    BY <1>2, <1>4, <1>7, <2>1 DEF Seen, Arrived
  <2>3. \A q \in Readers : FirstTile(c, q) => FirstTile(c, q)'
    BY <1>2, <1>4, <1>6, <1>7, <2>1 DEF FirstTile
  <2> QED BY <1>2, <1>4, <1>6, <1>7, <2>0, <2>1, <2>2, <2>3 DEF HandoverInv
<1>10. /\ StoredTo(w.at, n) = n - 2 /\ StoredTo(new.at, n) = n - 1
       /\ WorkedOn(w.at, n) = n - 1 /\ WorkedOn(new.at, n) = n - 1
  BY <1>1, <1>2, <1>4 DEF StoredTo, WorkedOn
<1>11. out[g][t] = 0
  <2>1. ASSUME NEW d \in Ctas, StoredBy(d, g, t) PROVE FALSE
    <3>1. PICK i \in 1 .. StoredTo(reader[d][g].at, Received(d, g)) : reader[d][g].tiles[i] = t
      BY <2>1 DEF StoredBy
    <3>2. Received(d, g) \in Nat
      BY <1>0, <1>2, CtaType DEF Readers
    <3>3. i \in 1 .. Received(d, g)
      BY <3>1, <3>2 DEF StoredTo
    <3>4. d = c /\ i = n - 1
      BY <1>3, <3>1, <3>3, TilesUnique
    <3> QED BY <1>1, <1>10, <3>1, <3>4
  <2> QED BY <1>0, <1>2, <1>3, <2>1 DEF OutInv
<1>12. /\ out' \in [WarpGroups -> [0 .. L.total - 1 -> Nat]]
       /\ out' = [out EXCEPT ![g] = [out[g] EXCEPT ![t] = 1]]
       /\ out'[g][t] = 1
       /\ \A u \in 0 .. L.total - 1 : u # t => out'[g][u] = out[g][u]
       /\ \A h \in WarpGroups : h # g => out'[h] = out[h]
  <2>1. out \in [WarpGroups -> [0 .. L.total - 1 -> Nat]]
    BY <1>0 DEF TypeInv
  <2>2. out[g] \in [0 .. L.total - 1 -> Nat]
    BY <1>2, <2>1
  <2>3. [out[g] EXCEPT ![t] = @ + 1] = [out[g] EXCEPT ![t] = 1]
    BY <1>11
  <2>4. out' = [out EXCEPT ![g] = [out[g] EXCEPT ![t] = 1]]
    BY <1>5, <2>3
  <2>5. [out[g] EXCEPT ![t] = 1] \in [0 .. L.total - 1 -> Nat]
    BY <2>2
  <2>6. /\ out' \in [WarpGroups -> [0 .. L.total - 1 -> Nat]]
        /\ out'[g] = [out[g] EXCEPT ![t] = 1]
        /\ \A h \in WarpGroups : h # g => out'[h] = out[h]
    BY <1>2, <2>1, <2>4, <2>5
  <2> QED BY <1>3, <2>2, <2>4, <2>6
<1>13. OutInv'
  <2>1. ASSUME NEW d \in Ctas, NEW h \in WarpGroups, d # c \/ h # g, NEW u
        PROVE  StoredBy(d, h, u)' <=> StoredBy(d, h, u)
    <3>1. reader'[d][h] = reader[d][h]
      BY <1>7, <2>1 DEF Readers
    <3>2. Received(d, h)' = Received(d, h)
      BY <3>1 DEF Received
    <3> QED BY <3>1, <3>2 DEF StoredBy
  <2>2. ASSUME NEW u PROVE StoredBy(c, g, u)' <=> (StoredBy(c, g, u) \/ u = t)
    <3>1. StoredBy(c, g, u)' <=> \E i \in 1 .. n - 1 : w.tiles[i] = u
      BY <1>4, <1>7, <1>10 DEF StoredBy
    <3>2. StoredBy(c, g, u) <=> \E i \in 1 .. n - 2 : w.tiles[i] = u
      BY <1>10 DEF StoredBy
    <3>3. /\ \A i \in 1 .. n - 1 : i \in 1 .. n - 2 \/ i = n - 1
          /\ \A i \in 1 .. n - 2 : i \in 1 .. n - 1
          /\ n - 1 \in 1 .. n - 1
      BY <1>1, <1>2
    <3> QED BY <3>1, <3>2, <3>3
  <2>3. ASSUME NEW h \in WarpGroups, NEW u \in 0 .. L.total - 1
        PROVE  out'[h][u] = IF \E d \in Ctas : StoredBy(d, h, u)' THEN 1 ELSE 0
    <3>1. CASE h # g
      BY <1>0, <1>12, <2>1, <3>1 DEF OutInv
    <3>2. CASE h = g /\ u = t
      BY <1>12, <2>2, <3>2
    <3>3. CASE h = g /\ u # t
      <4>1. (\E d \in Ctas : StoredBy(d, h, u)') <=> (\E d \in Ctas : StoredBy(d, h, u))
        BY <2>1, <2>2, <3>3
      <4> QED BY <1>0, <1>12, <3>3, <4>1 DEF OutInv
    <3> QED BY <3>1, <3>2, <3>3
  <2> QED BY <1>6, <2>3 DEF OutInv
<1>14. ~Handoff => \A i \in 1 .. Len(new.tiles) : new.tiles[i] = TileOf(c, i)
  BY <1>0, <1>1, <1>4 DEF CtaInv, ComputedInv
<1>15. /\ new.work_idx = BlocksIn(new.tiles, WorkedOn(new.at, Len(new.tiles)), L.blockless)
       /\ new.stored = BlocksIn(new.tiles, StoredTo(new.at, Len(new.tiles)), L.blockless)
       /\ new.work_idx <= producer[c].work_idx
  <2>1. WorkInv(c)
    BY <1>0 DEF CtaInv
  <2>2. PICK k \in Nat : k = n - 2
    BY <1>1, <1>2
  <2>3. BlocksIn(w.tiles, k + 1, L.blockless)
          = BlocksIn(w.tiles, k, L.blockless) + (IF w.tiles[k + 1] \notin L.blockless THEN 1 ELSE 0)
    BY BlocksInStep
  <2>4. k + 1 = n - 1
    BY <1>1, <2>2
  <2>5. new.stored = BlocksIn(w.tiles, n - 1, L.blockless)
    BY <1>2, <1>4, <1>10, <2>1, <2>2, <2>3, <2>4 DEF WorkInv, HasBlocks
  <2> QED BY <1>1, <1>2, <1>4, <1>10, <2>1, <2>5 DEF WorkInv
<1>16. ScheduleInv'
  BY <1>0, <1>4, <1>5, <1>8, <1>9, <1>12, <1>13, <1>14, <1>15, ReaderStep DEF Store, TypeInv
<1> QED BY <1>2, <1>3, <1>11, <1>12, <1>16

-----------------------------------------------------------------------------
(* The steps of the producer warp.                                         *)

LEMMA ProducerStep ==
  ASSUME ScheduleInv, NEW c \in Ctas, NEW new \in ProducerState,
         producer' = [producer EXCEPT ![c] = new],
         UNCHANGED <<launches, run, prepared, reader, out>>,
         semaphore' \in [{"caller", "fresh"} -> Nat], smem' \in [Ctas -> Nat],
         empty' \in [Ctas -> Nat], full' \in [Ctas -> {0, 1}],
         \A d \in Ctas \ {c} : smem'[d] = smem[d] /\ empty'[d] = empty[d] /\ full'[d] = full[d],
         ProducerAt(c)', HandoverInv(c)', SemaphoreInv',
         ~Handoff => /\ \A i \in 1 .. Len(new.tiles) : new.tiles[i] = TileOf(c, i)
                     /\ new.at = "next" => new.next = TileOf(c, Len(new.tiles) + 1),
         new.work_idx >= producer[c].work_idx
  PROVE  ScheduleInv'
<1>0. TypeInv /\ CtaInv(c) /\ OutInv
  BY DEF ScheduleInv
<1>1. L' = L /\ L'.blockless = L.blockless /\ reader' = reader /\ out' = out
  BY DEF L
<1>2. producer' \in [Ctas -> ProducerState] /\ producer'[c] = new
      /\ \A d \in Ctas \ {c} : producer'[d] = producer[d]
  BY <1>0 DEF TypeInv
<1>3. TypeInv'
  BY <1>0, <1>1, <1>2 DEF TypeInv
<1>4. \A d \in Ctas, r \in Readers : Received(d, r)' = Received(d, r)
  BY <1>1 DEF Received
<1>5. CtaInv(c)'
  <2>1. \A r \in Readers : ReaderAt(c, r)'
    BY <1>0, <1>1, <1>4 DEF CtaInv, ReaderAt, Valid, HasBlocks, Handoff
  <2>2. ComputedInv(c)'
    <3>1. Handoff' = Handoff /\ \A i : TileOf(c, i)' = TileOf(c, i)
      BY <1>1 DEF Handoff, TileOf
    <3>2. Fetched(c)' = Len(new.tiles)
      BY <1>2 DEF Fetched
    <3>3. CASE Handoff
      BY <3>1, <3>3 DEF ComputedInv
    <3>4. CASE ~Handoff
      <4>1. \A r \in Readers : \A i \in 1 .. Received(c, r) : reader[c][r].tiles[i] = TileOf(c, i)
        BY <1>0, <3>4 DEF CtaInv, ComputedInv
      <4>2. \A i \in 1 .. Fetched(c)' : producer'[c].tiles[i] = TileOf(c, i)'
        BY <1>2, <3>1, <3>2, <3>4
      <4>3. \A r \in Readers : \A i \in 1 .. Received(c, r)' : reader'[c][r].tiles[i] = TileOf(c, i)'
        BY <1>1, <1>4, <3>1, <4>1
      <4>4. producer'[c].at = "next" => producer'[c].next = TileOf(c, Fetched(c) + 1)'
        BY <1>1, <1>2, <3>2, <3>4 DEF TileOf
      <4> QED BY <4>2, <4>3, <4>4 DEF ComputedInv
    <3> QED BY <3>3, <3>4
  <2>3. WorkInv(c)'
    <3>1. WorkInv(c)
      BY <1>0 DEF CtaInv
    <3>2. ASSUME NEW g \in WarpGroups PROVE reader'[c][g].work_idx <= producer'[c].work_idx
      <4>1. reader[c][g].work_idx <= producer[c].work_idx
        BY <3>1 DEF WorkInv
      <4>2. reader[c][g].work_idx \in Nat /\ producer[c].work_idx \in Nat /\ new.work_idx \in Nat
        BY <1>0, CtaType DEF Readers, ReaderState, ProducerState
      <4> QED BY <1>1, <1>2, <4>1, <4>2
    <3>3. ASSUME NEW r \in Readers
          PROVE  reader'[c][r].work_idx = BlocksIn(reader'[c][r].tiles, WorkedOn(reader'[c][r].at, Received(c, r)'), L'.blockless)
      BY <1>1, <1>4, <3>1 DEF WorkInv
    <3>4. ASSUME NEW g \in WarpGroups
          PROVE  reader'[c][g].stored = BlocksIn(reader'[c][g].tiles, StoredTo(reader'[c][g].at, Received(c, g)'), L'.blockless)
      BY <1>1, <1>4, <3>1 DEF WorkInv, Readers
    <3> QED BY <3>2, <3>3, <3>4 DEF WorkInv
  <2> QED BY <2>1, <2>2, <2>3 DEF CtaInv
<1>6. OutInv'
  <2>1. \A d \in Ctas, g \in WarpGroups : \A t : StoredBy(d, g, t)' = StoredBy(d, g, t)
    BY <1>1, <1>4 DEF StoredBy, Readers
  <2> QED BY <1>0, <1>1, <2>1 DEF OutInv
<1> QED BY <1>1, <1>2, <1>3, <1>5, <1>6, CtaStep

(* Nothing is drawn while a warp of CTA c only goes on to another label.   *)
LEMMA ProducerDrawsNothing ==
  ASSUME ScheduleInv, NEW c \in Ctas, NEW new \in ProducerState,
         producer' = [producer EXCEPT ![c] = new],
         UNCHANGED <<launches, run, prepared, semaphore>>,
         \/ /\ Len(new.tiles) = Fetched(c) /\ new.tiles = producer[c].tiles
            /\ new.at # "next" /\ producer[c].at # "next"
         \/ Len(new.tiles) = 1 /\ Fetched(c) = 0 /\ new.at # "next" /\ producer[c].at # "next"
         \/ /\ producer[c].at = "next" /\ new.at # "next"
            /\ Len(new.tiles) = Fetched(c) + 1 /\ new.tiles[Fetched(c) + 1] = producer[c].next
            /\ \A i \in 1 .. Fetched(c) : new.tiles[i] = producer[c].tiles[i]
  PROVE  SemaphoreInv'
<1>0. TypeInv /\ SemaphoreInv
  BY DEF ScheduleInv
<1>1. L' = L
  BY DEF L
<1>2. producer'[c] = new /\ \A d \in Ctas \ {c} : producer'[d] = producer[d]
  BY <1>0 DEF TypeInv
<1>3. Fetched(c) \in Nat /\ Fetched(c)' = Len(new.tiles)
  BY <1>0, <1>2, CtaType DEF Fetched
<1>4. Drawings(c)' = Drawings(c) /\ \A i \in Drawings(c) : TakenAt(c, i)' = TakenAt(c, i)
  <2>1. CASE /\ Len(new.tiles) = Fetched(c) /\ new.tiles = producer[c].tiles
             /\ new.at # "next" /\ producer[c].at # "next"
    BY <1>2, <1>3, <2>1 DEF Drawings, Draws, TakenAt
  <2>2. CASE Len(new.tiles) = 1 /\ Fetched(c) = 0 /\ new.at # "next" /\ producer[c].at # "next"
    <3>1. Draws(c) = 0 /\ Draws(c)' = 1
      BY <1>2, <1>3, <2>2 DEF Draws
    <3>2. 2 .. 0 = {} /\ 2 .. 1 = {}
      OBVIOUS
    <3> QED BY <3>1, <3>2 DEF Drawings
  <2>3. CASE /\ producer[c].at = "next" /\ new.at # "next"
             /\ Len(new.tiles) = Fetched(c) + 1 /\ new.tiles[Fetched(c) + 1] = producer[c].next
             /\ \A i \in 1 .. Fetched(c) : new.tiles[i] = producer[c].tiles[i]
    <3>1. Draws(c) = Fetched(c) + 1 /\ Draws(c)' = Draws(c)
      BY <1>2, <1>3, <2>3 DEF Draws
    <3>2. ASSUME NEW i \in Drawings(c) PROVE TakenAt(c, i)' = TakenAt(c, i)
      BY <1>2, <1>3, <2>3, <3>1, <3>2 DEF Drawings, TakenAt
    <3> QED BY <3>1, <3>2 DEF Drawings
  <2> QED BY <2>1, <2>2, <2>3
<1>5. ASSUME NEW d \in Ctas \ {c}
      PROVE  Drawings(d)' = Drawings(d) /\ \A i \in Drawings(d) : TakenAt(d, i)' = TakenAt(d, i)
  BY <1>2 DEF Drawings, Draws, TakenAt, Fetched
<1> QED BY <1>0, <1>1, <1>4, <1>5, NothingDrawn

LEMMA GetInitialWorkStep ==
  ASSUME ScheduleInv, NEW c \in Ctas, GetInitialWork(c)
  PROVE  ScheduleInv'
<1> DEFINE p == producer[c]
           new == [p EXCEPT !.at = "load", !.tiles = <<c>>]
<1>0. TypeInv /\ CtaInv(c)
  BY DEF ScheduleInv
<1>1. /\ c \in Nat /\ p \in ProducerState /\ empty[c] \in Nat /\ full[c] \in {0, 1}
      /\ <<c>> \in Seq(Nat) /\ Len(<<c>>) = 1 /\ <<c>>[1] = c
  BY <1>0, CtaType DEF TypeInv
<1>2. p.at = "start" /\ Fetched(c) = 0 /\ prepared
  BY <1>0 DEF GetInitialWork, CtaInv, ProducerAt
<1>3. /\ new \in ProducerState /\ new.at = "load" /\ new.tiles = <<c>> /\ new.work_idx = p.work_idx
      /\ Len(new.tiles) = 1 /\ new.tiles[1] = c
  BY <1>1 DEF ProducerState
<1>4. producer' = [producer EXCEPT ![c] = new]
  BY DEF GetInitialWork
<1> HIDE DEF new
<1>5. producer'[c] = new /\ Fetched(c)' = 1
  BY <1>0, <1>3, <1>4 DEF TypeInv, Fetched
<1>6. /\ L' = L /\ reader' = reader /\ empty' = empty /\ prepared' = prepared /\ UsedUp(c)' = 0 /\ UsedUp(c) = 0
      /\ \A r \in Readers : Received(c, r)' = Received(c, r)
  BY <1>2, <1>5 DEF GetInitialWork, L, UsedUp, Received
<1>7. Arrived(c)' = Arrived(c) /\ Handoff' = Handoff /\ KnownTiles' = KnownTiles
      /\ \A r \in Readers : Seen(c, r)' = Seen(c, r)
  BY <1>6 DEF Arrived, Handoff, KnownTiles, Seen
<1>8. HandoverInv(c)
  BY <1>0 DEF CtaInv
<1>9. full[c] = 0
  BY <1>1, <1>2, <1>8 DEF HandoverInv, KnownTiles
<1>10. /\ smem' \in [Ctas -> Nat] /\ full' \in [Ctas -> {0, 1}]
       /\ \A d \in Ctas \ {c} : smem'[d] = smem[d] /\ full'[d] = full[d]
       /\ IF L.scheduler = "varlen" THEN smem'[c] = c /\ full'[c] = 1
                                    ELSE smem'[c] = smem[c] /\ full'[c] = 0
  <2>1. CASE L.scheduler = "varlen"
    <3>1. smem' = [smem EXCEPT ![c] = c] /\ full' = [full EXCEPT ![c] = 1]
      BY <1>9, <2>1 DEF GetInitialWork
    <3>2. smem \in [Ctas -> Nat] /\ full \in [Ctas -> {0, 1}]
      BY <1>0 DEF TypeInv
    <3> QED BY <1>1, <2>1, <3>1, <3>2
  <2>2. CASE L.scheduler # "varlen"
    <3>1. smem' = smem /\ full' = full
      BY <2>2 DEF GetInitialWork
    <3> QED BY <1>0, <1>9, <2>2, <3>1 DEF TypeInv
  <2> QED BY <2>1, <2>2
<1>11. ProducerAt(c)'
  <2>1. 1 .. 1 - 1 = {}
    OBVIOUS
  <2> QED BY <1>2, <1>3, <1>5, <1>6, <2>1 DEF ProducerAt
<1>12. HandoverInv(c)'
  <2>1. CASE ~Handoff
    <3>1. L.scheduler # "varlen"
      BY <2>1 DEF Handoff
    <3> QED BY <1>6, <1>7, <1>8, <1>10, <2>1, <3>1 DEF HandoverInv
  <2>2. CASE L.scheduler = "varlen"
    <3>1. ASSUME NEW r \in Readers PROVE Received(c, r) = 0 /\ reader[c][r].at # "read"
      <4>1. Seen(c, r) = 0 /\ Received(c, r) \in Nat
        BY <1>0, <1>2, <1>8, <1>9, <2>2, CtaType DEF HandoverInv, Handoff, FirstTile
      <4> QED BY <4>1 DEF Seen
    <3>2. Handoff /\ KnownTiles = 0 /\ 1 - 1 = 0 /\ 1 .. 0 = {}
      BY <2>2 DEF Handoff, KnownTiles
    <3> QED BY <1>3, <1>5, <1>6, <1>7, <1>8, <1>10, <2>2, <3>1, <3>2 DEF HandoverInv
  <2>3. CASE L.scheduler = "dynamic"
    <3>1. Handoff /\ KnownTiles = 1 /\ full'[c] = 0
      BY <1>10, <2>3 DEF Handoff, KnownTiles
    <3>2. ASSUME NEW r \in Readers PROVE Seen(c, r)' = 1 \/ FirstTile(c, r)'
      <4>1. Received(c, r) \in Nat /\ (Received(c, r) = 0 <=> reader[c][r].at = "init")
        BY <1>0, <1>8, <2>3, <3>1, CtaType DEF HandoverInv
      <4>2. Seen(c, r) = 0 \/ reader[c][r].at = "init" \/ Seen(c, r) = 1
        BY <1>2, <1>8, <1>9, <3>1 DEF HandoverInv, FirstTile, Seen
      <4>3. reader[c][r].at = "init" \/ Seen(c, r) = 1
        BY <4>1, <4>2 DEF Seen
      <4> QED BY <1>5, <1>6, <1>7, <2>3, <4>3 DEF FirstTile
    <3>3. ASSUME NEW r \in Readers, NEW i \in 1 .. Received(c, r), i <= 1
          PROVE  reader[c][r].tiles[i] = new.tiles[i]
      <4>1. Received(c, r) \in Nat
        BY <1>0, CtaType
      <4>2. i = 1 /\ Received(c, r) > 0
        BY <3>3, <4>1
      <4> QED BY <1>0, <1>3, <4>2 DEF CtaInv, ReaderAt
    <3> QED BY <1>3, <1>5, <1>6, <1>7, <1>8, <2>3, <3>1, <3>2, <3>3 DEF HandoverInv
  <2> QED BY <2>1, <2>2, <2>3 DEF Handoff
<1>13. SemaphoreInv'
  BY <1>2, <1>3, <1>4, ProducerDrawsNothing DEF GetInitialWork
<1>14. ~Handoff => /\ \A i \in 1 .. Len(new.tiles) : new.tiles[i] = TileOf(c, i)
                   /\ new.at = "next" => new.next = TileOf(c, Len(new.tiles) + 1)
  BY <1>3 DEF TileOf
<1>15. new.work_idx >= p.work_idx
  BY <1>1, <1>3 DEF ProducerState
<1>16. /\ UNCHANGED <<launches, run, prepared, reader, out>>
       /\ semaphore' \in [{"caller", "fresh"} -> Nat] /\ empty' \in [Ctas -> Nat]
  BY <1>0 DEF GetInitialWork, TypeInv
<1> QED
  BY <1>3, <1>4, <1>6, <1>10, <1>11, <1>12, <1>13, <1>14, <1>15, <1>16, ProducerStep

LEMMA LoadStep ==
  ASSUME ScheduleInv, NEW c \in Ctas, Load(c)
  PROVE  ScheduleInv'
<1> DEFINE p == producer[c]
           n == Fetched(c)
           t == Last(p.tiles)
           tile == IF Handoff THEN Drawn(semaphore[Tensor(L)]) ELSE NextTile(t)
           idx == p.work_idx + (IF HasBlocks(t) THEN 1 ELSE 0)
           new == [p EXCEPT !.at = "next", !.next = tile, !.work_idx = idx]
<1>0. TypeInv /\ CtaInv(c) /\ SemaphoreInv
  BY DEF ScheduleInv
<1>1. /\ c \in Nat /\ NumCtas \in Nat /\ Count \in Nat /\ p \in ProducerState /\ n \in Nat
      /\ Tensor(L) \in {"caller", "fresh"}
  BY <1>0, CtaType, LaunchType
<1>2. p.at \in {"load", "wait_O"} /\ n > 0 /\ Len(p.tiles) = n /\ t = p.tiles[n] /\ Valid(t) /\ prepared
  <2>1. p.at \in {"load", "wait_O"}
    BY DEF Load
  <2>2. n # 0 /\ prepared
    BY <1>0, <2>1 DEF CtaInv, ProducerAt
  <2>3. Len(p.tiles) = n /\ t = p.tiles[n]
    BY DEF Fetched, Last
  <2>4. Valid(t)
    BY <1>0, <2>1, <2>3 DEF Load, CtaInv, ProducerAt
  <2> QED BY <1>1, <2>1, <2>2, <2>3, <2>4
<1>3. ~Handoff => t = TileOf(c, n) /\ NextTile(t) = TileOf(c, n + 1) /\ NextTile(t) \in Nat
  <2>1. ~Handoff => t = TileOf(c, n)
    BY <1>0, <1>1, <1>2 DEF CtaInv, ComputedInv
  <2>2. n \in Nat \ {0}
    BY <1>1, <1>2
  <2>3. NextTile(TileOf(c, n)) = TileOf(c, n + 1) /\ TileOf(c, n + 1) \in Nat
    BY <1>0, <2>2, TileOfNext
  <2> QED BY <2>1, <2>3
<1>4. /\ new \in ProducerState /\ new.at = "next" /\ new.tiles = p.tiles
      /\ new.next = (IF Handoff THEN NumCtas + Count ELSE NextTile(t))
      /\ new.work_idx >= p.work_idx
  <2>1. p.work_idx \in Nat /\ idx \in Nat /\ idx >= p.work_idx
    BY <1>1 DEF ProducerState
  <2>2. tile = (IF Handoff THEN NumCtas + Count ELSE NextTile(t))
    BY <1>1 DEF Drawn, Count
  <2>3. tile \in Nat
    BY <1>1, <1>3, <2>2
  <2> HIDE DEF tile, idx
  <2>4. /\ new \in ProducerState /\ new.at = "next" /\ new.tiles = p.tiles
        /\ new.next = tile /\ new.work_idx = idx
    BY <1>1, <2>1, <2>3 DEF ProducerState
  <2> HIDE DEF new
  <2> QED BY <2>1, <2>2, <2>4
<1>5. producer' = [producer EXCEPT ![c] = new]
  BY DEF Load
<1> HIDE DEF new
<1>6. producer'[c] = new /\ Fetched(c)' = n
      /\ \A d \in Ctas \ {c} : producer'[d] = producer[d]
  BY <1>0, <1>2, <1>4, <1>5 DEF TypeInv, Fetched
<1>7. /\ UNCHANGED <<launches, run, prepared, reader, smem, empty, full, out>>
      /\ L' = L /\ Handoff' = Handoff /\ Tensor(L)' = Tensor(L)
  BY DEF Load, L, Handoff
<1>8. ProducerAt(c)'
  <2>1. ProducerAt(c)
    BY <1>0 DEF CtaInv
  <2> QED BY <1>2, <1>4, <1>6, <1>7, <2>1 DEF ProducerAt, Valid
<1>9. HandoverInv(c)'
  <2>1. HandoverInv(c)
    BY <1>0 DEF CtaInv
  <2>2. /\ UsedUp(c)' = UsedUp(c) /\ KnownTiles' = KnownTiles
        /\ \A r \in Readers : Received(c, r)' = Received(c, r) /\ Seen(c, r)' = Seen(c, r)
    BY <1>6, <1>7 DEF UsedUp, KnownTiles, Received, Seen
  <2>3. Arrived(c)' = Arrived(c)
    BY <2>2 DEF Arrived
  <2>4. \A r \in Readers : FirstTile(c, r)' = FirstTile(c, r)
    BY <1>6, <1>7, <2>2 DEF FirstTile
  <2> QED BY <1>4, <1>6, <1>7, <2>1, <2>2, <2>3, <2>4 DEF HandoverInv
<1>10. ~Handoff => /\ \A i \in 1 .. Len(new.tiles) : new.tiles[i] = TileOf(c, i)
                   /\ new.at = "next" => new.next = TileOf(c, Len(new.tiles) + 1)
  BY <1>0, <1>2, <1>3, <1>4 DEF CtaInv, ComputedInv
<1>11. semaphore' \in [{"caller", "fresh"} -> Nat]
  <2>1. semaphore \in [{"caller", "fresh"} -> Nat] /\ semaphore[Tensor(L)] + 1 \in Nat
    BY <1>0, <1>1 DEF TypeInv, Count
  <2> QED BY <2>1 DEF Load
<1>12. SemaphoreInv'
  <2>1. CASE ~Handoff
    <3>1. semaphore' = semaphore
      BY <2>1 DEF Load
    <3> QED BY <1>0, <1>7, <2>1, <3>1 DEF SemaphoreInv
  <2>2. CASE Handoff
    <3>1. Count' = Count + 1 /\ (~L.metadata => semaphore'["caller"] = semaphore["caller"])
      <4>1. semaphore \in [{"caller", "fresh"} -> Nat]
        BY <1>0 DEF TypeInv
      <4>2. semaphore' = [semaphore EXCEPT ![Tensor(L)] = @ + 1]
        BY <2>2 DEF Load
      <4>3. ~L.metadata => Tensor(L) = "fresh"
        BY DEF Tensor
      <4> QED BY <1>1, <1>7, <4>1, <4>2, <4>3 DEF Count
    <3> PICK m \in Nat : m = n + 1
      BY <1>1
    <3>2. /\ \A i : i \in Drawings(c)' <=> i \in Drawings(c) \/ i = m
          /\ m \notin Drawings(c)
          /\ \A i \in Drawings(c) : TakenAt(c, i)' = TakenAt(c, i)
          /\ TakenAt(c, m)' = NumCtas + Count
      <4>1. p.at # "next" /\ Draws(c) = n /\ Draws(c)' = n + 1
        BY <1>1, <1>2, <1>4, <1>6 DEF Draws
      <4>2. TakenAt(c, m)' = NumCtas + Count
        BY <1>1, <1>4, <1>6, <2>2 DEF TakenAt
      <4>3. \A i \in 2 .. n : TakenAt(c, i)' = TakenAt(c, i)
        BY <1>1, <1>4, <1>6 DEF TakenAt
      <4>4. /\ \A i \in 2 .. n : i \in 2 .. n + 1
            /\ \A i \in 2 .. n + 1 : i \in 2 .. n \/ i = m
            /\ m \in 2 .. n + 1 /\ m \notin 2 .. n
        BY <1>1, <1>2
      <4> QED BY <4>1, <4>2, <4>3, <4>4 DEF Drawings
    <3>3. \A d \in Ctas \ {c} : Drawings(d)' = Drawings(d) /\ \A i \in Drawings(d) : TakenAt(d, i)' = TakenAt(d, i)
      BY <1>6 DEF Drawings, Draws, TakenAt, Fetched
    <3> DEFINE R == NumCtas .. NumCtas + Count - 1
               R1 == NumCtas .. NumCtas + Count
    <3>4. /\ \A u \in R : u \in R1 /\ u # NumCtas + Count
          /\ \A u \in R1 : u \in R \/ u = NumCtas + Count
          /\ NumCtas + Count \in R1
          /\ (NumCtas .. NumCtas + Count - 1)' = R1
      BY <1>1, <3>1
    <3>5. /\ \A d \in Ctas : \A i \in Drawings(d) : TakenAt(d, i) \in R
          /\ \A d, e \in Ctas : \A i \in Drawings(d), j \in Drawings(e) :
               TakenAt(d, i) = TakenAt(e, j) => d = e /\ i = j
          /\ \A u \in R : \E d \in Ctas : \E i \in Drawings(d) : TakenAt(d, i) = u
      BY <1>0, <1>2, <2>2 DEF SemaphoreInv
    <3> HIDE DEF R, R1
    <3>6. ASSUME NEW d \in Ctas, NEW i \in Drawings(d)'
          PROVE  /\ TakenAt(d, i)' \in R1
                 /\ \/ i \in Drawings(d) /\ TakenAt(d, i)' = TakenAt(d, i) /\ TakenAt(d, i) \in R
                    \/ d = c /\ i = m /\ TakenAt(d, i)' = NumCtas + Count
      BY <3>2, <3>3, <3>4, <3>5
    <3>7. ASSUME NEW d \in Ctas, NEW e \in Ctas, NEW i \in Drawings(d)', NEW j \in Drawings(e)',
                 TakenAt(d, i)' = TakenAt(e, j)'
          PROVE  d = e /\ i = j
      BY <3>4, <3>5, <3>6, <3>7
    <3>8. ASSUME NEW u \in R1 PROVE \E d \in Ctas : \E i \in Drawings(d)' : TakenAt(d, i)' = u
      <4>1. CASE u \in R
        BY <3>2, <3>3, <3>5, <4>1
      <4>2. CASE u = NumCtas + Count
        BY <3>2, <4>2
      <4> QED BY <3>4, <4>1, <4>2
    <3>9. ~(L.metadata /\ Handoff) => semaphore'["caller"] = 0
      BY <1>0, <2>2, <3>1 DEF SemaphoreInv
    <3> QED BY <1>7, <3>4, <3>6, <3>7, <3>8, <3>9 DEF SemaphoreInv
  <2> QED BY <2>1, <2>2
<1>13. /\ smem' \in [Ctas -> Nat] /\ empty' \in [Ctas -> Nat] /\ full' \in [Ctas -> {0, 1}]
       /\ \A d \in Ctas \ {c} : smem'[d] = smem[d] /\ empty'[d] = empty[d] /\ full'[d] = full[d]
  BY <1>0, <1>7 DEF TypeInv
<1> QED BY <1>4, <1>5, <1>7, <1>8, <1>9, <1>10, <1>11, <1>12, <1>13, ProducerStep

LEMMA ProducerGetNextWorkStep ==
  ASSUME ScheduleInv, NEW c \in Ctas, ProducerGetNextWork(c)
  PROVE  ScheduleInv'
<1> DEFINE p == producer[c]
           n == Fetched(c)
           tiles == Append(p.tiles, p.next)
           new == [p EXCEPT !.at = "load", !.tiles = tiles]
<1>0. TypeInv /\ CtaInv(c) /\ HandoverInv(c) /\ ProducerAt(c)
  BY DEF ScheduleInv, CtaInv
<1>1. /\ p \in ProducerState /\ n \in Nat /\ n = Len(p.tiles)
      /\ empty[c] \in Nat /\ full[c] \in {0, 1}
  BY <1>0, CtaType DEF TypeInv, Fetched
<1>2. p.at = "next" /\ n > 0 /\ Valid(p.tiles[n]) /\ prepared
  <2>1. p.at = "next"
    BY DEF ProducerGetNextWork
  <2> QED BY <1>0, <1>1, <2>1 DEF ProducerAt
<1>3. /\ new \in ProducerState /\ new.at = "load" /\ new.work_idx = p.work_idx
      /\ Len(new.tiles) = n + 1 /\ new.tiles[n + 1] = p.next
      /\ \A i \in 1 .. n : new.tiles[i] = p.tiles[i]
  <2>1. p.tiles \in Seq(Nat) /\ p.next \in Nat
    BY <1>1 DEF ProducerState
  <2>2. /\ tiles \in Seq(Nat) /\ Len(tiles) = n + 1 /\ tiles[n + 1] = p.next
        /\ \A i \in 1 .. n : tiles[i] = p.tiles[i]
    BY <1>1, <2>1
  <2> HIDE DEF tiles
  <2>3. /\ new \in ProducerState
        /\ new.tiles = tiles /\ new.at = "load" /\ new.work_idx = p.work_idx
    BY <1>1, <2>2 DEF ProducerState
  <2> HIDE DEF new
  <2> QED BY <2>2, <2>3
<1>4. producer' = [producer EXCEPT ![c] = new]
  BY DEF ProducerGetNextWork
<1> HIDE DEF new
<1>5. producer'[c] = new /\ Fetched(c)' = n + 1
  BY <1>0, <1>3, <1>4 DEF TypeInv, Fetched
<1>6. /\ L' = L /\ reader' = reader /\ prepared' = prepared /\ UsedUp(c)' = n /\ UsedUp(c) = n - 1
      /\ Handoff' = Handoff /\ KnownTiles' = KnownTiles /\ KnownTiles \in {0, 1}
      /\ \A r \in Readers : Received(c, r)' = Received(c, r)
  <2>1. L' = L /\ reader' = reader /\ prepared' = prepared
    BY DEF ProducerGetNextWork, L
  <2> QED BY <1>1, <1>2, <1>5, <2>1 DEF UsedUp, Received, Handoff, KnownTiles
<1>7. ProducerAt(c)'
  <2>1. \A i \in 1 .. n : Valid(p.tiles[i])
    <3>1. \A i \in 1 .. n - 1 : Valid(p.tiles[i])
      BY <1>0 DEF ProducerAt
    <3> QED BY <1>1, <1>2, <3>1
  <2>2. \A i \in 1 .. (n + 1) - 1 : new.tiles[i] < L.total
    BY <1>1, <1>3, <2>1 DEF Valid
  <2>3. new.tiles[1] = c
    BY <1>0, <1>1, <1>2, <1>3 DEF ProducerAt
  <2>4. n + 1 > 0 /\ n + 1 # 0
    BY <1>1
  <2> QED BY <1>2, <1>3, <1>5, <1>6, <2>2, <2>3, <2>4 DEF ProducerAt, Valid
<1>8. /\ smem' \in [Ctas -> Nat] /\ empty' \in [Ctas -> Nat] /\ full' \in [Ctas -> {0, 1}]
      /\ \A d \in Ctas \ {c} : smem'[d] = smem[d] /\ empty'[d] = empty[d] /\ full'[d] = full[d]
      /\ HandoverInv(c)'
  <2>0. smem \in [Ctas -> Nat] /\ empty \in [Ctas -> Nat] /\ full \in [Ctas -> {0, 1}]
    BY <1>0 DEF TypeInv
  <2>1. CASE ~Handoff
    <3>1. smem' = smem /\ empty' = empty /\ full' = full
      BY <2>1 DEF ProducerGetNextWork
    <3>2. HandoverInv(c)'
      BY <1>0, <1>6, <2>1, <3>1 DEF HandoverInv
    <3> QED BY <2>0, <3>1, <3>2
  <2>2. CASE Handoff
    <3>1. Arrived(c) = Readers
      <4>1. empty[c] >= Cardinality(Readers) /\ empty[c] = Cardinality(Arrived(c))
        BY <1>0, <2>2 DEF ProducerGetNextWork, SmemEmpty, HandoverInv
      <4> QED BY <4>1, ReadersFinite DEF Arrived
    <3>2. \A r \in Readers : Received(c, r) = n
      BY <1>1, <1>6, <3>1 DEF Arrived
    <3>3. full[c] = 0
      <4>1. \E r \in Readers : TRUE
        BY ReadersFinite
      <4> QED BY <1>0, <1>1, <2>2, <3>2, <4>1 DEF HandoverInv
    <3>4. ASSUME NEW r \in Readers PROVE reader[c][r].at # "read"
      <4>1. Seen(c, r) = n \/ FirstTile(c, r)
        BY <1>0, <2>2, <3>3 DEF HandoverInv
      <4>2. ~FirstTile(c, r)
        BY <1>0, <1>1, <1>2, <2>2, <3>2 DEF FirstTile, HandoverInv
      <4> QED BY <1>1, <3>2, <4>1, <4>2 DEF Seen
    <3>5. smem' = [smem EXCEPT ![c] = p.next] /\ empty' = [empty EXCEPT ![c] = 0] /\ full' = [full EXCEPT ![c] = 1]
      BY <2>2, <3>3 DEF ProducerGetNextWork
    <3>6. p.next \in Nat
      BY <1>1 DEF ProducerState
    <3>7. /\ smem' \in [Ctas -> Nat] /\ empty' \in [Ctas -> Nat] /\ full' \in [Ctas -> {0, 1}]
          /\ \A d \in Ctas \ {c} : smem'[d] = smem[d] /\ empty'[d] = empty[d] /\ full'[d] = full[d]
          /\ smem'[c] = p.next /\ empty'[c] = 0 /\ full'[c] = 1
      BY <2>0, <3>5, <3>6
    <3>8. Cardinality(Arrived(c)') = 0
      <4>1. Arrived(c)' = {}
        BY <1>1, <1>6, <3>2 DEF Arrived
      <4> QED BY <4>1, FS_EmptySet
    <3>9. ASSUME NEW r \in Readers
          PROVE  /\ Received(c, r)' = Fetched(c)' - 1 /\ reader'[c][r].at # "read"
                 /\ L.scheduler = "dynamic" => (Received(c, r)' = 0 <=> reader'[c][r].at = "init")
                 /\ \A i \in 1 .. Received(c, r)' : i <= Fetched(c)' => reader'[c][r].tiles[i] = producer'[c].tiles[i]
      <4>1. \A i \in 1 .. n : reader[c][r].tiles[i] = p.tiles[i]
        BY <1>0, <1>1, <2>2, <3>2 DEF HandoverInv
      <4> QED BY <1>0, <1>1, <1>3, <1>5, <1>6, <2>2, <3>2, <3>4, <4>1 DEF HandoverInv
    <3>10. Fetched(c)' > KnownTiles' /\ smem'[c] = producer'[c].tiles[Fetched(c)'] /\ full'[c] # 0
      BY <1>1, <1>2, <1>3, <1>5, <1>6, <3>7
    <3>11. HandoverInv(c)'
      BY <1>6, <2>2, <3>7, <3>8, <3>9, <3>10 DEF HandoverInv
    <3> QED BY <3>7, <3>11
  <2> QED BY <2>1, <2>2
<1>9. SemaphoreInv'
  <2>1. UNCHANGED <<launches, run, prepared, semaphore>>
    BY DEF ProducerGetNextWork
  <2> QED BY <1>2, <1>3, <1>4, <2>1, ProducerDrawsNothing
<1>10. ~Handoff => /\ \A i \in 1 .. Len(new.tiles) : new.tiles[i] = TileOf(c, i)
                   /\ new.at = "next" => new.next = TileOf(c, Len(new.tiles) + 1)
  <2>1. ~Handoff => p.next = TileOf(c, n + 1) /\ \A i \in 1 .. n : p.tiles[i] = TileOf(c, i)
    BY <1>0, <1>2 DEF CtaInv, ComputedInv
  <2>2. \A i \in 1 .. n + 1 : i \in 1 .. n \/ i = n + 1
    BY <1>1
  <2> QED BY <1>3, <2>1, <2>2
<1>11. new.work_idx >= p.work_idx
  BY <1>1, <1>3 DEF ProducerState
<1>12. /\ UNCHANGED <<launches, run, prepared, reader, out>>
       /\ semaphore' \in [{"caller", "fresh"} -> Nat]
  BY <1>0 DEF ProducerGetNextWork, TypeInv
<1> QED BY <1>3, <1>4, <1>7, <1>8, <1>9, <1>10, <1>11, <1>12, ProducerStep

LEMMA ProducerExitStep ==
  ASSUME ScheduleInv, NEW c \in Ctas, ProducerExit(c)
  PROVE  ScheduleInv'
<1> DEFINE p == producer[c]
           n == Fetched(c)
           new == [p EXCEPT !.at = "done"]
<1>0. TypeInv /\ CtaInv(c) /\ ProducerAt(c)
  BY DEF ScheduleInv, CtaInv
<1>1. p \in ProducerState /\ n \in Nat
  BY <1>0, CtaType
<1>2. p.at = "load" /\ n > 0 /\ Len(p.tiles) = n /\ ~Valid(p.tiles[n])
  BY <1>0, <1>1 DEF ProducerExit, ProducerAt, Fetched, Last
<1>3. new \in ProducerState /\ new.at = "done" /\ new.tiles = p.tiles /\ new.work_idx = p.work_idx
  BY <1>1 DEF ProducerState
<1>4. producer' = [producer EXCEPT ![c] = new]
  <2>1. producer \in [Ctas -> ProducerState]
    BY <1>0 DEF TypeInv
  <2> QED BY <2>1 DEF ProducerExit
<1> HIDE DEF new
<1>5. producer'[c] = new /\ Fetched(c)' = n
  BY <1>0, <1>2, <1>3, <1>4 DEF TypeInv, Fetched
<1>6. /\ UNCHANGED <<launches, run, prepared, semaphore, reader, smem, empty, full, out>>
      /\ L' = L /\ Handoff' = Handoff
  BY DEF ProducerExit, L, Handoff
<1>7. ProducerAt(c)'
  BY <1>0, <1>2, <1>3, <1>5, <1>6 DEF ProducerAt, Valid
<1>8. HandoverInv(c)'
  <2>1. HandoverInv(c)
    BY <1>0 DEF CtaInv
  <2>2. /\ UsedUp(c)' = UsedUp(c) /\ KnownTiles' = KnownTiles
        /\ \A r \in Readers : Received(c, r)' = Received(c, r) /\ Seen(c, r)' = Seen(c, r)
    BY <1>5, <1>6 DEF UsedUp, KnownTiles, Received, Seen
  <2>3. Arrived(c)' = Arrived(c)
    BY <2>2 DEF Arrived
  <2>4. \A r \in Readers : FirstTile(c, r)' = FirstTile(c, r)
    BY <1>5, <1>6, <2>2 DEF FirstTile
  <2> QED BY <1>3, <1>5, <1>6, <2>1, <2>2, <2>3, <2>4 DEF HandoverInv
<1>9. SemaphoreInv'
  BY <1>2, <1>3, <1>4, <1>6, ProducerDrawsNothing DEF Fetched
<1>10. ~Handoff => /\ \A i \in 1 .. Len(new.tiles) : new.tiles[i] = TileOf(c, i)
                   /\ new.at = "next" => new.next = TileOf(c, Len(new.tiles) + 1)
  BY <1>0, <1>2, <1>3 DEF CtaInv, ComputedInv
<1>11. new.work_idx >= p.work_idx
  BY <1>1, <1>3 DEF ProducerState
<1>12. /\ semaphore' \in [{"caller", "fresh"} -> Nat]
       /\ smem' \in [Ctas -> Nat] /\ empty' \in [Ctas -> Nat] /\ full' \in [Ctas -> {0, 1}]
       /\ \A d \in Ctas \ {c} : smem'[d] = smem[d] /\ empty'[d] = empty[d] /\ full'[d] = full[d]
  BY <1>0, <1>6 DEF TypeInv
<1> QED BY <1>3, <1>4, <1>6, <1>7, <1>8, <1>9, <1>10, <1>11, <1>12, ProducerStep

-----------------------------------------------------------------------------
(* The steps of several warps at once, and those of the stream.            *)

LEMMA TogetherStep ==
  ASSUME ScheduleInv, NEW c \in Ctas,
         UNCHANGED <<launches, run, prepared, semaphore, smem, empty, out>>,
         producer' \in [Ctas -> ProducerState], reader' \in [Ctas -> [Readers -> ReaderState]],
         full' \in [Ctas -> {0, 1}],
         \A d \in Ctas \ {c} : producer'[d] = producer[d] /\ reader'[d] = reader[d] /\ full'[d] = full[d],
         /\ producer'[c].tiles = producer[c].tiles /\ producer'[c].work_idx = producer[c].work_idx
         /\ \/ producer'[c].at # "next" /\ producer[c].at # "next"
            \/ producer'[c] = producer[c],
         \A r \in Readers :
           /\ reader'[c][r].tiles = reader[c][r].tiles
           /\ reader'[c][r].work_idx = reader[c][r].work_idx /\ reader'[c][r].stored = reader[c][r].stored
           /\ WorkedOn(reader'[c][r].at, Received(c, r)) = WorkedOn(reader[c][r].at, Received(c, r))
           /\ StoredTo(reader'[c][r].at, Received(c, r)) = StoredTo(reader[c][r].at, Received(c, r)),
         ProducerAt(c)', HandoverInv(c)', \A r \in Readers : ReaderAt(c, r)'
  PROVE  ScheduleInv'
<1>0. TypeInv /\ CtaInv(c) /\ OutInv /\ SemaphoreInv
  BY DEF ScheduleInv
<1>1. L' = L /\ L'.blockless = L.blockless /\ out' = out
  BY DEF L
<1>2. /\ Fetched(c)' = Fetched(c) /\ \A r \in Readers : Received(c, r)' = Received(c, r)
      /\ \A d \in Ctas \ {c} : Fetched(d)' = Fetched(d) /\ \A r \in Readers : Received(d, r)' = Received(d, r)
  BY DEF Fetched, Received
<1>3. TypeInv'
  BY <1>0, <1>1 DEF TypeInv
<1>4. ComputedInv(c)'
  <2>1. producer'[c].at = "next" => producer[c].at = "next" /\ producer'[c].next = producer[c].next
    OBVIOUS
  <2> QED BY <1>0, <1>1, <1>2, <2>1 DEF CtaInv, ComputedInv, Handoff, TileOf
<1>5. WorkInv(c)'
  <2>1. WorkInv(c)
    BY <1>0 DEF CtaInv
  <2>2. ASSUME NEW r \in Readers
        PROVE  reader'[c][r].work_idx = BlocksIn(reader'[c][r].tiles, WorkedOn(reader'[c][r].at, Received(c, r)'), L'.blockless)
    BY <1>1, <1>2, <2>1 DEF WorkInv
  <2>3. ASSUME NEW g \in WarpGroups
        PROVE  /\ reader'[c][g].stored = BlocksIn(reader'[c][g].tiles, StoredTo(reader'[c][g].at, Received(c, g)'), L'.blockless)
               /\ reader'[c][g].work_idx <= producer'[c].work_idx
    BY <1>1, <1>2, <2>1 DEF WorkInv, Readers
  <2> QED BY <2>2, <2>3 DEF WorkInv
<1>6. SemaphoreInv'
  <2>1. \A d \in Ctas : /\ Drawings(d)' = Drawings(d)
                         /\ \A i \in Drawings(d) : TakenAt(d, i)' = TakenAt(d, i)
    <3>1. Drawings(c)' = Drawings(c) /\ \A i \in Drawings(c) : TakenAt(c, i)' = TakenAt(c, i)
      <4>1. Draws(c)' = Draws(c)
        BY <1>2 DEF Draws
      <4>2. Fetched(c) \in Nat
        BY <1>0, CtaType
      <4>3. ASSUME NEW i \in Drawings(c) PROVE TakenAt(c, i)' = TakenAt(c, i)
        BY <1>2, <4>2, <4>3 DEF TakenAt, Drawings, Draws
      <4> QED BY <4>1, <4>3 DEF Drawings
    <3>2. ASSUME NEW d \in Ctas \ {c}
          PROVE  Drawings(d)' = Drawings(d) /\ \A i \in Drawings(d) : TakenAt(d, i)' = TakenAt(d, i)
      BY DEF Drawings, Draws, TakenAt, Fetched
    <3> QED BY <3>1, <3>2
  <2> QED BY <1>0, <1>1, <2>1, NothingDrawn
<1>7. OutInv'
  <2>1. ASSUME NEW d \in Ctas, NEW g \in WarpGroups
        PROVE  /\ StoredTo(reader[d][g].at, Received(d, g))' = StoredTo(reader[d][g].at, Received(d, g))
               /\ \A i \in 1 .. StoredTo(reader[d][g].at, Received(d, g)) : reader'[d][g].tiles[i] = reader[d][g].tiles[i]
    <3>1. CASE d = c
      BY <1>2, <3>1 DEF Readers
    <3>2. CASE d # c
      BY <1>2, <3>2 DEF Readers
    <3> QED BY <3>1, <3>2
  <2> QED BY <1>0, <1>1, <2>1, NothingStored
<1>8. CtaInv(c)'
  BY <1>4, <1>5 DEF CtaInv
<1> QED BY <1>3, <1>6, <1>7, <1>8, CtaStep

LEMMA QuerySyncStep ==
  ASSUME ScheduleInv, NEW c \in Ctas, QuerySync(c)
  PROVE  ScheduleInv'
<1> DEFINE p == producer[c]
           new(r) == IF r \in Helpers THEN [reader[c][r] EXCEPT !.at = "wait_O"] ELSE reader[c][r]
<1>0. TypeInv /\ CtaInv(c) /\ ProducerAt(c) /\ HandoverInv(c)
  BY DEF ScheduleInv, CtaInv
<1>1. p \in ProducerState /\ Fetched(c) \in Nat /\ \A r \in Readers : reader[c][r] \in ReaderState /\ Received(c, r) \in Nat
  BY <1>0, CtaType
<1>2. /\ UNCHANGED <<launches, run, prepared, semaphore, smem, empty, full, out>>
      /\ L' = L /\ Handoff' = Handoff
  BY DEF QuerySync, L, Handoff
<1>3. /\ p.at = "load" /\ Fetched(c) > 0
      /\ Valid(p.tiles[Fetched(c)]) /\ HasBlocks(p.tiles[Fetched(c)])
  BY <1>0, <1>1 DEF QuerySync, ProducerAt, Last, Fetched
<1>4. /\ producer' \in [Ctas -> ProducerState]
      /\ \A d \in Ctas \ {c} : producer'[d] = producer[d]
      /\ producer'[c].at = "wait_O" /\ producer'[c].tiles = p.tiles /\ producer'[c].work_idx = p.work_idx
  <2>1. [p EXCEPT !.at = "wait_O"] \in ProducerState
    BY <1>1 DEF ProducerState
  <2>2. /\ [p EXCEPT !.at = "wait_O"].at = "wait_O" /\ [p EXCEPT !.at = "wait_O"].tiles = p.tiles
        /\ [p EXCEPT !.at = "wait_O"].work_idx = p.work_idx
    BY <1>1 DEF ProducerState
  <2>3. producer' = [producer EXCEPT ![c] = [p EXCEPT !.at = "wait_O"]]
    BY DEF QuerySync
  <2> QED BY <1>0, <2>1, <2>2, <2>3 DEF TypeInv
<1>5. /\ reader' \in [Ctas -> [Readers -> ReaderState]]
      /\ \A d \in Ctas \ {c} : reader'[d] = reader[d]
      /\ \A r \in Readers : reader'[c][r] = new(r)
  <2>1. [r \in Readers |-> new(r)] \in [Readers -> ReaderState]
    BY <1>1 DEF ReaderState
  <2>2. reader' = [reader EXCEPT ![c] = [r \in Readers |-> new(r)]]
    BY DEF QuerySync
  <2> QED BY <1>0, <2>1, <2>2 DEF TypeInv
<1>6. ASSUME NEW r \in Readers
      PROVE  /\ reader'[c][r].tiles = reader[c][r].tiles
             /\ reader'[c][r].work_idx = reader[c][r].work_idx /\ reader'[c][r].stored = reader[c][r].stored
             /\ Received(c, r)' = Received(c, r)
             /\ IF r \in Helpers
                THEN /\ reader'[c][r].at = "wait_O" /\ reader[c][r].at = "work" /\ Received(c, r) > 0
                     /\ Valid(reader[c][r].tiles[Received(c, r)]) /\ HasBlocks(reader[c][r].tiles[Received(c, r)])
                ELSE reader'[c][r].at = reader[c][r].at
  <2>1. CASE r \in Helpers
    <3>1. /\ new(r).tiles = reader[c][r].tiles /\ new(r).work_idx = reader[c][r].work_idx
          /\ new(r).stored = reader[c][r].stored /\ new(r).at = "wait_O"
      BY <1>1, <2>1 DEF ReaderState
    <3>2. reader[c][r].at = "work" /\ Received(c, r) > 0
      BY <1>0, <2>1 DEF QuerySync, CtaInv, ReaderAt
    <3>3. Valid(reader[c][r].tiles[Received(c, r)]) /\ HasBlocks(reader[c][r].tiles[Received(c, r)])
      BY <2>1 DEF QuerySync, Last, Received
    <3> QED BY <1>5, <2>1, <3>1, <3>2, <3>3 DEF Received
  <2>2. CASE r \notin Helpers
    BY <1>5, <2>2 DEF Received
  <2> QED BY <2>1, <2>2
<1> HIDE DEF new
<1>7. \A r \in Readers :
        /\ WorkedOn(reader'[c][r].at, Received(c, r)) = WorkedOn(reader[c][r].at, Received(c, r))
        /\ StoredTo(reader'[c][r].at, Received(c, r)) = StoredTo(reader[c][r].at, Received(c, r))
  BY <1>1, <1>6 DEF WorkedOn, StoredTo
<1>8. Fetched(c)' = Fetched(c)
  BY <1>4 DEF Fetched
<1>9. ProducerAt(c)'
  BY <1>0, <1>2, <1>3, <1>4, <1>8 DEF ProducerAt, Valid, HasBlocks
<1>10. ASSUME NEW r \in Readers PROVE ReaderAt(c, r)'
  <2>1. ReaderAt(c, r)
    BY <1>0 DEF CtaInv
  <2>2. CASE r \in Helpers
    BY <1>1, <1>2, <1>6, <2>1, <2>2 DEF ReaderAt, Valid, HasBlocks
  <2>3. CASE r \notin Helpers
    BY <1>1, <1>2, <1>6, <2>1, <2>3 DEF ReaderAt, Valid, HasBlocks
  <2> QED BY <2>2, <2>3
<1>11. HandoverInv(c)'
  <2>1. /\ UsedUp(c)' = UsedUp(c) /\ KnownTiles' = KnownTiles
        /\ \A r \in Readers : Received(c, r)' = Received(c, r) /\ Seen(c, r)' = Seen(c, r)
    BY <1>2, <1>6, <1>8 DEF UsedUp, KnownTiles, Seen
  <2>2. Arrived(c)' = Arrived(c)
    BY <2>1 DEF Arrived
  <2>3. \A r \in Readers : /\ FirstTile(c, r) => FirstTile(c, r)'
                           /\ reader'[c][r].at = "init" <=> reader[c][r].at = "init"
                           /\ reader'[c][r].at = "read" <=> reader[c][r].at = "read"
    BY <1>2, <1>6, <1>8 DEF FirstTile
  <2> QED BY <1>0, <1>2, <1>4, <1>6, <1>8, <2>1, <2>2, <2>3 DEF HandoverInv
<1>12. full' \in [Ctas -> {0, 1}] /\ \A d \in Ctas : full'[d] = full[d]
  BY <1>0, <1>2 DEF TypeInv
<1> QED BY <1>2, <1>3, <1>4, <1>5, <1>6, <1>7, <1>9, <1>10, <1>11, <1>12, TogetherStep

LEMMA SmemFullStep ==
  ASSUME ScheduleInv, NEW c \in Ctas, SmemFull(c)
  PROVE  ScheduleInv'
<1> DEFINE new(r) == IF reader[c][r].at = "sync" THEN [reader[c][r] EXCEPT !.at = "read"] ELSE reader[c][r]
<1>0. TypeInv /\ CtaInv(c) /\ ProducerAt(c) /\ HandoverInv(c)
  BY DEF ScheduleInv, CtaInv
<1>1. /\ Fetched(c) \in Nat /\ \A r \in Readers : reader[c][r] \in ReaderState /\ Received(c, r) \in Nat
      /\ full[c] \in {0, 1}
  BY <1>0, CtaType DEF TypeInv
<1>2. /\ UNCHANGED <<launches, run, prepared, semaphore, producer, smem, empty, out>>
      /\ L' = L /\ Handoff' = Handoff /\ Handoff
  BY DEF SmemFull, L, Handoff
<1>3. full[c] = 1 /\ \A r \in Readers : reader[c][r].at = "sync"
  BY <1>1 DEF SmemFull, SmemFullReaders
<1>4. /\ full' \in [Ctas -> {0, 1}] /\ full'[c] = 0 /\ \A d \in Ctas \ {c} : full'[d] = full[d]
  BY <1>0 DEF SmemFull, TypeInv
<1>5. /\ reader' \in [Ctas -> [Readers -> ReaderState]]
      /\ \A d \in Ctas \ {c} : reader'[d] = reader[d]
      /\ \A r \in Readers : reader'[c][r] = new(r)
  <2>1. [r \in Readers |-> new(r)] \in [Readers -> ReaderState]
    BY <1>1 DEF ReaderState
  <2>2. reader' = [reader EXCEPT ![c] = [r \in Readers |-> new(r)]]
    BY DEF SmemFull
  <2> QED BY <1>0, <2>1, <2>2 DEF TypeInv
<1>6. ASSUME NEW r \in Readers
      PROVE  /\ reader'[c][r].tiles = reader[c][r].tiles
             /\ reader'[c][r].work_idx = reader[c][r].work_idx /\ reader'[c][r].stored = reader[c][r].stored
             /\ Received(c, r)' = Received(c, r) /\ reader'[c][r].at = "read"
  <2>1. /\ new(r).tiles = reader[c][r].tiles /\ new(r).work_idx = reader[c][r].work_idx
        /\ new(r).stored = reader[c][r].stored /\ new(r).at = "read"
    BY <1>1, <1>3 DEF ReaderState
  <2> QED BY <1>5, <2>1 DEF Received
<1> HIDE DEF new
<1>7. \A r \in Readers :
        /\ WorkedOn(reader'[c][r].at, Received(c, r)) = WorkedOn(reader[c][r].at, Received(c, r))
        /\ StoredTo(reader'[c][r].at, Received(c, r)) = StoredTo(reader[c][r].at, Received(c, r))
  BY <1>1, <1>3, <1>6 DEF WorkedOn, StoredTo
<1>8. Fetched(c)' = Fetched(c) /\ UsedUp(c)' = UsedUp(c) /\ KnownTiles' = KnownTiles
  BY <1>2 DEF Fetched, UsedUp, KnownTiles
<1>9. ProducerAt(c)'
  BY <1>0, <1>2, <1>8 DEF ProducerAt, Valid, HasBlocks
<1>10. ASSUME NEW r \in Readers PROVE ReaderAt(c, r)'
  <2>1. ReaderAt(c, r)
    BY <1>0 DEF CtaInv
  <2> QED BY <1>1, <1>2, <1>3, <1>6, <2>1 DEF ReaderAt, Valid
<1>11. HandoverInv(c)'
  <2>1. Arrived(c)' = Arrived(c)
    BY <1>6, <1>8 DEF Arrived
  <2>2. ASSUME NEW r \in Readers PROVE Seen(c, r)' = Fetched(c)'
    <3>1. Received(c, r) = Fetched(c) - 1
      BY <1>0, <1>2, <1>3 DEF HandoverInv
    <3> QED BY <1>1, <1>6, <1>8, <3>1 DEF Seen
  <2> QED BY <1>0, <1>2, <1>3, <1>4, <1>6, <1>8, <2>1, <2>2 DEF HandoverInv
<1>12. /\ producer' \in [Ctas -> ProducerState] /\ producer'[c] = producer[c]
       /\ \A d \in Ctas : producer'[d] = producer[d]
  BY <1>0, <1>2 DEF TypeInv
<1> QED BY <1>2, <1>4, <1>5, <1>6, <1>7, <1>9, <1>10, <1>11, <1>12, TogetherStep

LEMMA PrepareStep ==
  ASSUME ScheduleInv, Prepare
  PROVE  ScheduleInv'
<1>0. TypeInv /\ SemaphoreInv /\ OutInv
  BY DEF ScheduleInv
<1>1. /\ UNCHANGED <<launches, run, producer, reader, smem, empty, full, out>>
      /\ L' = L /\ Handoff' = Handoff /\ Tensor(L)' = Tensor(L)
  BY DEF Prepare, L, Handoff
<1>2. /\ semaphore' \in [{"caller", "fresh"} -> Nat] /\ Count' = 0
      /\ semaphore["caller"] = 0 => semaphore'["caller"] = 0
  <2>1. /\ semaphore \in [{"caller", "fresh"} -> Nat] /\ Tensor(L) \in {"caller", "fresh"}
        /\ semaphore' = [semaphore EXCEPT ![Tensor(L)] = 0]
    BY <1>0, LaunchType DEF TypeInv, Prepare
  <2> QED BY <1>1, <2>1 DEF Count
<1>3. TypeInv'
  BY <1>0, <1>1, <1>2 DEF TypeInv, Prepare
<1>4. ASSUME NEW c \in Ctas PROVE CtaInv(c)' /\ Drawings(c)' = {}
  <2>0. CtaInv(c)
    BY DEF ScheduleInv
  <2>1. Fetched(c)' = Fetched(c) /\ \A r \in Readers : Received(c, r)' = Received(c, r)
    BY <1>1 DEF Fetched, Received
  <2>2. producer[c].at = "start" /\ Fetched(c) = 0
    BY <2>0 DEF Prepare, CtaInv, ProducerAt
  <2>3. ProducerAt(c)'
    BY <1>1, <2>0, <2>1, <2>2 DEF CtaInv, ProducerAt, Valid, HasBlocks
  <2>4. \A r \in Readers : ReaderAt(c, r)'
    BY <1>1, <2>0, <2>1 DEF CtaInv, ReaderAt, Valid, HasBlocks
  <2>5. HandoverInv(c)'
    <3>1. UsedUp(c)' = UsedUp(c) /\ Arrived(c)' = Arrived(c) /\ KnownTiles' = KnownTiles
      BY <1>1, <2>1 DEF UsedUp, Arrived, KnownTiles
    <3> QED BY <1>1, <2>0, <2>1, <3>1 DEF CtaInv, HandoverInv, Seen, FirstTile
  <2>6. ComputedInv(c)'
    BY <1>1, <2>0, <2>1 DEF CtaInv, ComputedInv, TileOf
  <2>7. WorkInv(c)'
    <3>1. WorkInv(c) /\ L'.blockless = L.blockless
      BY <1>1, <2>0 DEF CtaInv
    <3>2. ASSUME NEW r \in Readers
          PROVE  reader'[c][r].work_idx = BlocksIn(reader'[c][r].tiles, WorkedOn(reader'[c][r].at, Received(c, r)'), L'.blockless)
      BY <1>1, <2>1, <3>1 DEF WorkInv
    <3>3. ASSUME NEW g \in WarpGroups
          PROVE  /\ reader'[c][g].stored = BlocksIn(reader'[c][g].tiles, StoredTo(reader'[c][g].at, Received(c, g)'), L'.blockless)
                 /\ reader'[c][g].work_idx <= producer'[c].work_idx
      BY <1>1, <2>1, <3>1 DEF WorkInv, Readers
    <3> QED BY <3>2, <3>3 DEF WorkInv
  <2>8. Drawings(c)' = {}
    <3>1. Draws(c)' = 0
      BY <1>1, <2>1, <2>2 DEF Draws
    <3>2. 2 .. 0 = {}
      OBVIOUS
    <3> QED BY <3>1, <3>2 DEF Drawings
  <2> QED BY <2>3, <2>4, <2>5, <2>6, <2>7, <2>8 DEF CtaInv
<1>5. SemaphoreInv'
  <2>1. (NumCtas .. NumCtas + Count - 1)' = {}
    BY <1>2, CtasAssumption
  <2>2. ~(L'.metadata /\ Handoff') => semaphore'["caller"] = 0
    BY <1>0, <1>1, <1>2 DEF SemaphoreInv
  <2> QED BY <1>4, <2>1, <2>2 DEF SemaphoreInv
<1>6. OutInv'
  <2>1. \A d \in Ctas, g \in WarpGroups : \A t : StoredBy(d, g, t)' = StoredBy(d, g, t)
    BY <1>1 DEF StoredBy, Received
  <2> QED BY <1>0, <1>1, <2>1 DEF OutInv
<1> QED BY <1>3, <1>4, <1>5, <1>6 DEF ScheduleInv

(* Every launch starts like this, the first one and all others.            *)
Started ==
  /\ launches \in Streams /\ run \in DOMAIN launches
  /\ prepared = ~NeedsPrepare(L)
  /\ semaphore \in [{"caller", "fresh"} -> Nat]
  /\ ~(L.metadata /\ Handoff) => semaphore["caller"] = 0
  /\ Handoff /\ prepared => Count = 0
  /\ producer = [c \in Ctas |-> [at |-> "start", tiles |-> << >>, next |-> 0, work_idx |-> 0]]
  /\ reader = [c \in Ctas |-> [r \in Readers |->
                 [at |-> "init", tiles |-> << >>, work_idx |-> 0, stored |-> 0]]]
  /\ smem \in [Ctas -> Nat]
  /\ empty = [c \in Ctas |-> 0]
  /\ full = [c \in Ctas |-> 0]
  /\ out = [g \in WarpGroups |-> [t \in 0 .. L.total - 1 |-> 0]]

LEMMA StartedIsSafe == Started => ScheduleInv
<1> SUFFICES ASSUME Started PROVE ScheduleInv
  OBVIOUS
<1>1. TypeInv
  <2>1. launches \in Seq(Launch)
    BY StreamsAssumption DEF Started
  <2>2. << >> \in Seq(Nat)
    OBVIOUS
  <2>3. producer \in [Ctas -> ProducerState]
    BY <2>2 DEF Started, ProducerState
  <2>4. reader \in [Ctas -> [Readers -> ReaderState]]
    BY <2>2 DEF Started, ReaderState
  <2>5. out \in [WarpGroups -> [0 .. L.total - 1 -> Nat]]
    BY DEF Started
  <2>6. empty \in [Ctas -> Nat] /\ full \in [Ctas -> {0, 1}] /\ prepared \in BOOLEAN
    BY DEF Started
  <2> QED BY <2>1, <2>3, <2>4, <2>5, <2>6 DEF Started, TypeInv
<1>2. ASSUME NEW c \in Ctas
      PROVE  /\ Fetched(c) = 0 /\ producer[c].at = "start" /\ producer[c].work_idx = 0
             /\ \A r \in Readers :
                  /\ Received(c, r) = 0 /\ reader[c][r].at = "init"
                  /\ reader[c][r].work_idx = 0 /\ reader[c][r].stored = 0
             /\ empty[c] = 0 /\ full[c] = 0
  <2>1. Len(<< >>) = 0
    OBVIOUS
  <2>2. producer[c] = [at |-> "start", tiles |-> << >>, next |-> 0, work_idx |-> 0]
    BY DEF Started
  <2>3. \A r \in Readers : reader[c][r] = [at |-> "init", tiles |-> << >>, work_idx |-> 0, stored |-> 0]
    BY DEF Started
  <2> QED BY <2>1, <2>2, <2>3 DEF Started, Fetched, Received
<1>3. ASSUME NEW c \in Ctas PROVE CtaInv(c)
  <2>1. ProducerAt(c)
    BY <1>2 DEF ProducerAt
  <2>2. \A r \in Readers : ReaderAt(c, r)
    BY <1>2 DEF ReaderAt
  <2>3. HandoverInv(c)
    <3>1. Arrived(c) = {}
      BY <1>2 DEF Arrived, UsedUp
    <3>2. \A r \in Readers : Seen(c, r) = 0
      BY <1>2 DEF Seen
    <3>3. ~(0 > KnownTiles)
      BY DEF KnownTiles
    <3> QED BY <1>2, <3>1, <3>2, <3>3, FS_EmptySet DEF HandoverInv
  <2>4. ComputedInv(c)
    BY <1>2 DEF ComputedInv
  <2>5. WorkInv(c)
    <3>1. \A r \in Readers : WorkedOn(reader[c][r].at, Received(c, r)) = 0 /\ StoredTo(reader[c][r].at, Received(c, r)) = 0
      BY <1>2 DEF WorkedOn, StoredTo
    <3>2. \A tiles : BlocksIn(tiles, 0, L.blockless) = 0
      BY BlocksInStep
    <3> QED BY <1>2, <3>1, <3>2 DEF WorkInv, Readers
  <2> QED BY <2>1, <2>2, <2>3, <2>4, <2>5 DEF CtaInv
<1>4. SemaphoreInv
  <2>1. ASSUME NEW c \in Ctas PROVE Drawings(c) = {}
    <3>1. Draws(c) = 0
      BY <1>2 DEF Draws
    <3>2. 2 .. 0 = {}
      OBVIOUS
    <3> QED BY <3>1, <3>2 DEF Drawings
  <2>2. NumCtas .. NumCtas + 0 - 1 = {}
    BY CtasAssumption
  <2>3. Handoff /\ prepared => NumCtas .. NumCtas + Count - 1 = {}
    BY <2>2 DEF Started
  <2>4. ~(L.metadata /\ Handoff) => semaphore["caller"] = 0
    BY DEF Started
  <2> QED BY <2>1, <2>3, <2>4 DEF SemaphoreInv
<1>5. OutInv
  <2>1. \A g \in WarpGroups, t \in 0 .. L.total - 1 : out[g][t] = 0
    BY DEF Started
  <2>2. \A c \in Ctas, g \in WarpGroups : \A t : ~StoredBy(c, g, t)
    <3>1. \A c \in Ctas, g \in WarpGroups : StoredTo(reader[c][g].at, Received(c, g)) = 0
      BY <1>2 DEF StoredTo, Readers
    <3> QED BY <3>1 DEF StoredBy
  <2> QED BY <2>1, <2>2 DEF OutInv
<1> QED BY <1>1, <1>3, <1>4, <1>5 DEF ScheduleInv

LEMMA InitStarts == Init => Started
<1> SUFFICES ASSUME Init PROVE Started
  OBVIOUS
<1>1. launches \in Streams /\ run \in DOMAIN launches /\ L = launches[1] /\ L \in Launch
  <2>1. launches \in Seq(Launch) /\ launches # << >> /\ launches \in Streams /\ run = 1
    BY StreamsAssumption DEF Init
  <2> QED BY <2>1 DEF L
<1>2. PICK g \in Garbage : semaphore = Setup(L, [caller |-> 0, fresh |-> g])
  BY <1>1 DEF Init
<1>3. g \in Nat
  BY GarbageAssumption
<1>4. /\ semaphore \in [{"caller", "fresh"} -> Nat] /\ semaphore["caller"] = 0
      /\ Handoff /\ prepared => Count = 0
  <2> DEFINE sem == [caller |-> 0, fresh |-> g]
  <2>1. sem \in [{"caller", "fresh"} -> Nat] /\ sem["caller"] = 0
    BY <1>3
  <2> HIDE DEF sem
  <2>2. semaphore = (IF L.scheduler = "dynamic" THEN [sem EXCEPT ![Tensor(L)] = 0] ELSE sem)
    BY <1>2 DEF Setup, sem
  <2>3. Tensor(L) \in {"caller", "fresh"} /\ (L.metadata => Tensor(L) = "caller")
    BY DEF Tensor
  <2>4. L.scheduler = "varlen" /\ prepared => L.metadata
    BY <1>1 DEF Init, NeedsPrepare
  <2>5. CASE L.scheduler = "dynamic"
    BY <2>1, <2>2, <2>3, <2>5 DEF Count
  <2>6. CASE L.scheduler # "dynamic"
    BY <2>1, <2>2, <2>3, <2>4, <2>6 DEF Count, Handoff
  <2> QED BY <2>5, <2>6
<1>5. smem \in [Ctas -> Nat]
  BY DEF Init
<1> QED BY <1>1, <1>4, <1>5 DEF Init, Started

LEMMA NextLaunchStarts ==
  ASSUME ScheduleInv, NextLaunch
  PROVE  Started'
<1>0. TypeInv /\ SemaphoreInv
  BY DEF ScheduleInv
<1> DEFINE l == launches[run + 1]
           sem == Teardown(L, semaphore)
<1>1. launches \in Seq(Launch) /\ launches \in Streams /\ run \in DOMAIN launches /\ run < Len(launches)
  BY <1>0 DEF TypeInv, NextLaunch
<1>2. /\ launches' = launches /\ run' = run + 1 /\ run' \in DOMAIN launches' /\ L' = l /\ l \in Launch
      /\ prepared' = ~NeedsPrepare(l) /\ StartCtas(l)
  BY <1>1 DEF NextLaunch, L
<1>3. sem \in [{"caller", "fresh"} -> Nat] /\ sem["caller"] = 0
  <2>1. semaphore \in [{"caller", "fresh"} -> Nat]
    BY <1>0 DEF TypeInv
  <2>2. CASE L.metadata /\ Handoff
    <3>1. sem = [semaphore EXCEPT !["caller"] = 0]
      BY <2>2 DEF Teardown, Handoff
    <3> QED BY <2>1, <3>1
  <2>3. CASE ~(L.metadata /\ Handoff)
    <3>1. sem = semaphore
      BY <2>3 DEF Teardown, Handoff
    <3> QED BY <1>0, <2>1, <2>3, <3>1 DEF SemaphoreInv
  <2> QED BY <2>2, <2>3
<1>4. PICK g \in Garbage : semaphore' = Setup(l, [sem EXCEPT !["fresh"] = g])
  BY DEF NextLaunch
<1> HIDE DEF sem
<1>5. /\ semaphore' \in [{"caller", "fresh"} -> Nat] /\ semaphore'["caller"] = 0
      /\ Handoff' /\ prepared' => Count' = 0
  <2> DEFINE new == [sem EXCEPT !["fresh"] = g]
  <2>1. new \in [{"caller", "fresh"} -> Nat] /\ new["caller"] = 0
    BY <1>3, GarbageAssumption
  <2> HIDE DEF new
  <2>2. semaphore' = (IF l.scheduler = "dynamic" THEN [new EXCEPT ![Tensor(l)] = 0] ELSE new)
    BY <1>4 DEF Setup, new
  <2>3. Tensor(l) \in {"caller", "fresh"} /\ (l.metadata => Tensor(l) = "caller") /\ Tensor(L)' = Tensor(l)
    BY <1>2 DEF Tensor
  <2>4. l.scheduler = "varlen" /\ prepared' => l.metadata
    BY <1>2 DEF NeedsPrepare
  <2>5. CASE l.scheduler = "dynamic"
    BY <2>1, <2>2, <2>3, <2>5 DEF Count
  <2>6. CASE l.scheduler # "dynamic"
    BY <1>2, <2>1, <2>2, <2>3, <2>4, <2>6 DEF Count, Handoff
  <2> QED BY <2>5, <2>6
<1>6. smem' \in [Ctas -> Nat]
  BY <1>0 DEF NextLaunch, TypeInv
<1>7. (NeedsPrepare(L))' = NeedsPrepare(l)
  BY <1>2 DEF NeedsPrepare
<1> QED BY <1>1, <1>2, <1>5, <1>6, <1>7 DEF Started, StartCtas

LEMMA NextLaunchStep ==
  ASSUME ScheduleInv, NextLaunch
  PROVE  ScheduleInv'
<1>1. Started'
  BY NextLaunchStarts
<1>2. Started' => ScheduleInv'
  BY StartedIsSafe, PTL
<1> QED BY <1>1, <1>2

-----------------------------------------------------------------------------
(* The theorems.                                                           *)

LEMMA StepIsSafe ==
  ASSUME ScheduleInv, [Next]_vars
  PROVE  ScheduleInv'
<1>1. CASE NextLaunch
  BY <1>1, NextLaunchStep
<1>2. CASE Prepare
  BY <1>2, PrepareStep
<1>3. CASE UNCHANGED vars
  <2>1. L' = L
    BY <1>3 DEF vars, L
  <2>2. \A c \in Ctas : CtaInv(c)'
    BY <1>3, <2>1, OtherCta DEF vars, ScheduleInv
  <2>3. SemaphoreInv'
    <3>1. \A d \in Ctas : /\ Drawings(d)' = Drawings(d)
                           /\ \A i \in Drawings(d) : TakenAt(d, i)' = TakenAt(d, i)
      BY <1>3 DEF vars, Drawings, Draws, TakenAt, Fetched
    <3> QED BY <1>3, <2>1, <3>1, NothingDrawn DEF vars, ScheduleInv
  <2>4. OutInv'
    <3>1. \A d \in Ctas, g \in WarpGroups :
            /\ StoredTo(reader[d][g].at, Received(d, g))' = StoredTo(reader[d][g].at, Received(d, g))
            /\ \A i \in 1 .. StoredTo(reader[d][g].at, Received(d, g)) : reader'[d][g].tiles[i] = reader[d][g].tiles[i]
      BY <1>3 DEF vars, Received
    <3> QED BY <1>3, <2>1, <3>1, NothingStored DEF vars, ScheduleInv
  <2>5. TypeInv'
    BY <1>3, <2>1 DEF vars, ScheduleInv, TypeInv
  <2> QED BY <2>2, <2>3, <2>4, <2>5 DEF ScheduleInv
<1>4. CASE Exit
  BY <1>3, <1>4 DEF Exit
<1>5. ASSUME NEW c \in Ctas, ProducerWarp(c) PROVE ScheduleInv'
  BY <1>5, GetInitialWorkStep, QuerySyncStep, LoadStep, ProducerGetNextWorkStep,
     ProducerExitStep DEF ProducerWarp
<1>6. ASSUME NEW c \in Ctas, SmemFull(c) PROVE ScheduleInv'
  BY <1>6, SmemFullStep
<1>7. ASSUME NEW c \in Ctas, NEW r \in Readers, Reader(c, r) PROVE ScheduleInv'
  BY <1>7, InitConsumerStep, WorkStep, ReaderGetNextWorkStep, StoreStep,
     ReaderExitStep DEF Reader
<1> QED BY <1>1, <1>2, <1>3, <1>4, <1>5, <1>6, <1>7 DEF Next

(* The inductive invariant holds at every step of a stream of launches.    *)
THEOREM Scheduled == Spec => []ScheduleInv
<1>1. Init => ScheduleInv
  BY InitStarts, StartedIsSafe
<1>2. ScheduleInv /\ [Next]_vars => ScheduleInv'
  BY StepIsSafe
<1> QED BY <1>1, <1>2, PTL DEF Spec

(* Every variable keeps its type; no barrier ever counts more arrivals     *)
(* than there are readers (get_next_work, init_consumer).                  *)
THEOREM TypesCorrect == Spec => []TypeOK
<1>1. ScheduleInv => TypeOK
  <2> SUFFICES ASSUME ScheduleInv PROVE TypeOK
    OBVIOUS
  <2>1. TypeInv
    BY DEF ScheduleInv
  <2>2. ASSUME NEW c \in Ctas PROVE empty[c] \in 0 .. Cardinality(Readers)
    <3>1. HandoverInv(c)
      BY DEF ScheduleInv, CtaInv
    <3>2. CASE Handoff
      BY <3>1, <3>2, ReadersFinite DEF HandoverInv, Arrived
    <3>3. CASE ~Handoff
      BY <3>1, <3>3, ReadersFinite DEF HandoverInv
    <3> QED BY <3>2, <3>3
  <2>3. empty \in [Ctas -> 0 .. Cardinality(Readers)]
    BY <2>1, <2>2 DEF TypeInv
  <2>4. full \in [Ctas -> Nat]
    <3>1. full \in [Ctas -> {0, 1}] /\ {0, 1} \subseteq Nat
      BY <2>1 DEF TypeInv
    <3> QED BY <3>1
  <2> QED BY <2>1, <2>3, <2>4 DEF TypeInv, TypeOK, ProducerState, ReaderState
<1> QED BY <1>1, Scheduled, PTL

(* Every reader goes through exactly the producer's tiles, one by one, and *)
(* no word of shared memory is overwritten unread or read twice.           *)
THEOREM ReadersFollow == Spec => []ReadersFollowProducer
<1>1. ScheduleInv => ReadersFollowProducer
  <2> SUFFICES ASSUME ScheduleInv, NEW c \in Ctas, NEW r \in Readers
               PROVE  /\ \A i \in DOMAIN reader[c][r].tiles \cap DOMAIN producer[c].tiles :
                           reader[c][r].tiles[i] = producer[c].tiles[i]
                      /\ Handoff => Fetched(c) - Received(c, r) \in {-1, 0, 1}
    BY DEF ReadersFollowProducer, Fetched, Received
  <2>1. TypeInv /\ HandoverInv(c) /\ ComputedInv(c) /\ ReaderAt(c, r)
    BY DEF ScheduleInv, CtaInv
  <2>2. /\ Received(c, r) \in Nat /\ Fetched(c) \in Nat /\ full[c] \in {0, 1}
        /\ DOMAIN reader[c][r].tiles = 1 .. Received(c, r)
        /\ DOMAIN producer[c].tiles = 1 .. Fetched(c)
    <3>1. producer[c].tiles \in Seq(Nat) /\ reader[c][r].tiles \in Seq(Nat)
      BY <2>1, CtaType DEF ProducerState, ReaderState
    <3> QED BY <2>1, <3>1, CtaType DEF Fetched, Received, TypeInv
  <2>3. CASE Handoff
    <3>1. \A i \in 1 .. Received(c, r) : i <= Fetched(c) => reader[c][r].tiles[i] = producer[c].tiles[i]
      BY <2>1, <2>3 DEF HandoverInv
    <3>2. CASE full[c] = 1
      <4>1. Received(c, r) = Fetched(c) - 1
        BY <2>1, <2>3, <3>2 DEF HandoverInv
      <4> QED BY <2>2, <3>1, <4>1
    <3>3. CASE full[c] = 0
      <4>1. Seen(c, r) = Fetched(c) \/ FirstTile(c, r)
        BY <2>1, <2>3, <3>3 DEF HandoverInv
      <4>2. reader[c][r].at = "init" => Received(c, r) = 0
        BY <2>1 DEF ReaderAt
      <4>3. Fetched(c) - Received(c, r) \in {-1, 0, 1}
        BY <2>2, <4>1, <4>2 DEF Seen, FirstTile
      <4> QED BY <2>2, <3>1, <4>3
    <3> QED BY <2>2, <3>2, <3>3
  <2>4. CASE ~Handoff
    BY <2>1, <2>2, <2>4 DEF ComputedInv
  <2> QED BY <2>3, <2>4
<1> QED BY <1>1, Scheduled, PTL

(* An arrival on TileCountSmemFull or TileCountSmemEmpty is always of the  *)
(* phase its barrier is in.                                                *)
THEOREM BarriersUnmixed == Spec => []HandoffBarriersUnmixed
<1>1. ScheduleInv => HandoffBarriersUnmixed
  <2> SUFFICES ASSUME ScheduleInv, NEW c \in Ctas
               PROVE  /\ full[c] <= 1
                      /\ empty[c] = Cardinality(Readers) => full[c] = 0 /\ \A r \in Readers : reader[c][r].at # "read"
    BY DEF HandoffBarriersUnmixed
  <2>1. TypeInv /\ HandoverInv(c) /\ \A r \in Readers : ReaderAt(c, r)
    BY DEF ScheduleInv, CtaInv
  <2>2. full[c] \in {0, 1} /\ Fetched(c) \in Nat /\ \A r \in Readers : Received(c, r) \in Nat
    BY <2>1, CtaType DEF TypeInv
  <2>3. ASSUME empty[c] = Cardinality(Readers)
        PROVE  full[c] = 0 /\ \A r \in Readers : reader[c][r].at # "read"
    <3>1. CASE ~Handoff
      BY <2>1, <3>1 DEF HandoverInv, ReaderAt
    <3>2. CASE Handoff
      <4>1. Arrived(c) = Readers
        BY <2>1, <2>3, <3>2, ReadersFinite DEF HandoverInv, Arrived
      <4>2. \A r \in Readers : Received(c, r) = UsedUp(c) + 1
        BY <4>1 DEF Arrived
      <4>3. full[c] = 0
        <5>1. \E r \in Readers : TRUE
          BY ReadersFinite
        <5> QED BY <2>1, <2>2, <3>2, <4>2, <5>1 DEF HandoverInv, UsedUp, KnownTiles
      <4>4. ASSUME NEW r \in Readers, reader[c][r].at = "read" PROVE FALSE
        <5>1. Seen(c, r) = Fetched(c)
          BY <2>1, <3>2, <4>3, <4>4 DEF HandoverInv, FirstTile
        <5> QED BY <2>2, <4>2, <4>4, <5>1 DEF Seen, UsedUp
      <4> QED BY <4>3, <4>4
    <3> QED BY <3>1, <3>2
  <2> QED BY <2>2, <2>3
<1> QED BY <1>1, Scheduled, PTL

(* With a semaphore the tiles are taken in order, each of them by one CTA  *)
(* and at one time, none twice and none skipped.                           *)
THEOREM DrawnOnce == Spec => []TilesDrawnOnce
<1>1. ScheduleInv => TilesDrawnOnce
  <2> DEFINE begun == {c \in Ctas : producer[c].at # "start"}
             takes == UNION {{<<c, i>> : i \in DOMAIN Taken(c)} : c \in begun}
             tile(k) == Taken(k[1])[k[2]]
  <2> SUFFICES ASSUME ScheduleInv, Handoff, prepared
               PROVE  /\ \A k1, k2 \in takes : tile(k1) = tile(k2) => k1 = k2
                      /\ {tile(k) : k \in takes} \cup (Ctas \ begun) = 0 .. NumCtas + Count - 1
    BY DEF TilesDrawnOnce, Count
  <2>1. TypeInv /\ SemaphoreInv /\ NumCtas \in Nat /\ Count \in Nat
    BY LaunchType, CtasAssumption DEF ScheduleInv
  <2>2. ASSUME NEW c \in Ctas
        PROVE  /\ DOMAIN Taken(c) = 1 .. Draws(c) /\ Draws(c) \in Nat
               /\ \A i \in 1 .. Draws(c) : Taken(c)[i] = TakenAt(c, i)
               /\ c \in begun <=> Draws(c) > 0
               /\ Draws(c) > 0 => TakenAt(c, 1) = c
    <3>1. producer[c].tiles \in Seq(Nat) /\ producer[c].next \in Nat /\ Fetched(c) \in Nat
          /\ Fetched(c) = Len(producer[c].tiles)
      BY <2>1, CtaType DEF ProducerState, Fetched
    <3>2. /\ producer[c].at = "start" <=> Fetched(c) = 0
          /\ Fetched(c) > 0 => producer[c].tiles[1] = c
      BY DEF ScheduleInv, CtaInv, ProducerAt
    <3>3. /\ DOMAIN Taken(c) = 1 .. Draws(c) /\ Draws(c) \in Nat
          /\ \A i \in 1 .. Draws(c) : Taken(c)[i] = TakenAt(c, i)
      <4>1. CASE producer[c].at = "next"
        <5>1. Draws(c) = Fetched(c) + 1
          BY <4>1 DEF Draws
        <5>2. Taken(c) = producer[c].tiles \o <<producer[c].next>>
          BY <4>1 DEF Taken
        <5>3. /\ Len(Taken(c)) = Fetched(c) + 1 /\ DOMAIN Taken(c) = 1 .. Fetched(c) + 1
              /\ \A i \in 1 .. Fetched(c) : Taken(c)[i] = producer[c].tiles[i]
              /\ Taken(c)[Fetched(c) + 1] = producer[c].next
          BY <3>1, <5>2
        <5>4. ASSUME NEW i \in 1 .. Draws(c) PROVE Taken(c)[i] = TakenAt(c, i)
          <6>1. CASE i \in 1 .. Fetched(c)
            BY <3>1, <5>3, <6>1 DEF TakenAt
          <6>2. CASE i = Fetched(c) + 1
            BY <3>1, <5>3, <6>2 DEF TakenAt
          <6>3. i \in 1 .. Fetched(c) + 1
            BY <5>1
          <6> QED BY <3>1, <6>1, <6>2, <6>3
        <5> QED BY <3>1, <5>1, <5>3, <5>4
      <4>2. CASE producer[c].at # "next"
        <5>1. Draws(c) = Fetched(c)
          BY <3>1, <4>2 DEF Draws
        <5>2. Taken(c) = producer[c].tiles
          BY <3>1, <4>2 DEF Taken
        <5> QED BY <3>1, <5>1, <5>2 DEF TakenAt
      <4> QED BY <4>1, <4>2
    <3>4. c \in begun <=> Draws(c) > 0
      <4>1. CASE producer[c].at = "start"
        BY <3>2, <4>1 DEF Draws
      <4>2. CASE producer[c].at # "start"
        <5>1. Fetched(c) > 0 /\ Fetched(c) \in Nat
          BY <3>1, <3>2, <4>2
        <5>2. Draws(c) > 0
          BY <5>1 DEF Draws
        <5> QED BY <4>2, <5>2
      <4> QED BY <4>1, <4>2
    <3>5. Draws(c) > 0 => TakenAt(c, 1) = c
      BY <3>1, <3>2, <3>4 DEF TakenAt
    <3> QED BY <3>3, <3>4, <3>5
  <2>3. \A k \in takes : \E c \in Ctas : \E i \in 1 .. Draws(c) :
          k = <<c, i>> /\ tile(k) = TakenAt(c, i) /\ (i = 1 \/ i \in Drawings(c)) /\ (i = 1 => tile(k) = c)
    <3> SUFFICES ASSUME NEW c \in begun, NEW i \in 1 .. Draws(c)
                 PROVE  /\ tile(<<c, i>>) = TakenAt(c, i)
                        /\ i = 1 \/ i \in Drawings(c)
                        /\ i = 1 => TakenAt(c, i) = c
      BY <2>2
    <3> QED BY <2>2 DEF Drawings
  <2>4. ASSUME NEW c \in Ctas, NEW i \in 1 .. Draws(c) PROVE <<c, i>> \in takes /\ tile(<<c, i>>) = TakenAt(c, i)
    BY <2>2
  <2>5. /\ \A c \in Ctas : \A i \in Drawings(c) : TakenAt(c, i) \in NumCtas .. NumCtas + Count - 1
        /\ \A c, d \in Ctas : \A i \in Drawings(c), j \in Drawings(d) :
             TakenAt(c, i) = TakenAt(d, j) => c = d /\ i = j
        /\ \A t \in NumCtas .. NumCtas + Count - 1 :
             \E c \in Ctas : \E i \in Drawings(c) : TakenAt(c, i) = t
    BY <2>1 DEF SemaphoreInv
  <2> HIDE DEF tile, takes, begun
  <2>6. ASSUME NEW k1 \in takes, NEW k2 \in takes, tile(k1) = tile(k2) PROVE k1 = k2
    <3>1. PICK c \in Ctas : \E i \in 1 .. Draws(c) :
            k1 = <<c, i>> /\ tile(k1) = TakenAt(c, i) /\ (i = 1 \/ i \in Drawings(c)) /\ (i = 1 => tile(k1) = c)
      BY <2>3
    <3>2. PICK i \in 1 .. Draws(c) :
            k1 = <<c, i>> /\ tile(k1) = TakenAt(c, i) /\ (i = 1 \/ i \in Drawings(c)) /\ (i = 1 => tile(k1) = c)
      BY <3>1
    <3>3. PICK d \in Ctas : \E j \in 1 .. Draws(d) :
            k2 = <<d, j>> /\ tile(k2) = TakenAt(d, j) /\ (j = 1 \/ j \in Drawings(d)) /\ (j = 1 => tile(k2) = d)
      BY <2>3
    <3>4. PICK j \in 1 .. Draws(d) :
            k2 = <<d, j>> /\ tile(k2) = TakenAt(d, j) /\ (j = 1 \/ j \in Drawings(d)) /\ (j = 1 => tile(k2) = d)
      BY <3>3
    <3>5. c < NumCtas /\ d < NumCtas /\ c \in Nat /\ d \in Nat
      BY <2>1 DEF Ctas
    <3>6. TakenAt(c, i) = TakenAt(d, j)
      BY <2>6, <3>2, <3>4
    <3>7. CASE i = 1 /\ j = 1
      BY <2>6, <3>2, <3>4, <3>7
    <3>8. CASE i # 1 /\ j # 1
      <4>1. i \in Drawings(c) /\ j \in Drawings(d)
        BY <3>2, <3>4, <3>8
      <4>2. c = d /\ i = j
        BY <2>5, <3>6, <4>1
      <4> QED BY <3>2, <3>4, <4>2
    <3>9. CASE i = 1 /\ j # 1
      <4>1. TakenAt(c, i) = c /\ TakenAt(d, j) \in NumCtas .. NumCtas + Count - 1
        BY <2>5, <3>2, <3>4, <3>9
      <4> QED BY <2>1, <3>5, <3>6, <4>1
    <3>10. CASE i # 1 /\ j = 1
      <4>1. TakenAt(d, j) = d /\ TakenAt(c, i) \in NumCtas .. NumCtas + Count - 1
        BY <2>5, <3>2, <3>4, <3>10
      <4> QED BY <2>1, <3>5, <3>6, <4>1
    <3> QED BY <3>7, <3>8, <3>9, <3>10
  <2>7. ASSUME NEW t \in {tile(k) : k \in takes} \cup (Ctas \ begun) PROVE t \in 0 .. NumCtas + Count - 1
    <3>1. CASE t \in Ctas
      BY <2>1, <3>1 DEF Ctas
    <3>2. CASE t \in {tile(k) : k \in takes}
      <4>1. PICK k \in takes : t = tile(k)
        BY <3>2
      <4>2. t \in Ctas \/ t \in NumCtas .. NumCtas + Count - 1
        BY <2>3, <2>5, <4>1
      <4> QED BY <2>1, <3>1, <4>2
    <3> QED BY <3>1, <3>2
  <2>8. ASSUME NEW t \in 0 .. NumCtas + Count - 1 PROVE t \in {tile(k) : k \in takes} \cup (Ctas \ begun)
    <3>1. t \in Ctas \/ t \in NumCtas .. NumCtas + Count - 1
      BY <2>1 DEF Ctas
    <3>2. CASE t \in Ctas
      <4>1. CASE t \in begun
        <5>1. 1 \in 1 .. Draws(t) /\ TakenAt(t, 1) = t
          BY <2>2, <3>2, <4>1
        <5> QED BY <2>4, <3>2, <5>1
      <4>2. CASE t \notin begun
        BY <3>2, <4>2
      <4> QED BY <4>1, <4>2
    <3>3. CASE t \in NumCtas .. NumCtas + Count - 1
      <4>1. PICK c \in Ctas : \E i \in Drawings(c) : TakenAt(c, i) = t
        BY <2>5, <3>3
      <4>2. PICK i \in Drawings(c) : TakenAt(c, i) = t
        BY <4>1
      <4>3. i \in 1 .. Draws(c)
        BY <2>2, <4>2 DEF Drawings
      <4> QED BY <2>4, <4>2, <4>3
    <3> QED BY <3>1, <3>2, <3>3
  <2> QED BY <2>6, <2>7, <2>8
<1> QED BY <1>1, Scheduled, PTL

LEMMA CompletedIsSmallest ==
  ASSUME TypeInv, NEW c \in Ctas
  PROVE  Completed(c) \in Nat /\ \A g \in WarpGroups : Completed(c) <= reader[c][g].stored
<1> DEFINE stored == {reader[c][g].stored : g \in WarpGroups}
<1>1. stored \in SUBSET Nat /\ stored # {}
  BY CtaType, ReadersAssumption DEF Readers, ReaderState
<1>2. \E n \in stored : \A m \in stored : n <= m
  <2> HIDE DEF stored
  <2> QED BY <1>1, Smallest
<1>3. Completed(c) \in stored /\ \A m \in stored : Completed(c) <= m
  <2> HIDE DEF stored
  <2>1. Completed(c) = CHOOSE n \in stored : \A m \in stored : n <= m
    BY DEF Completed, stored
  <2> QED BY <1>2, <2>1
<1> QED BY <1>1, <1>3

LEMMA StoredBeforeWorked ==
  ASSUME ScheduleInv, NEW c \in Ctas, NEW g \in WarpGroups
  PROVE  /\ reader[c][g].stored <= reader[c][g].work_idx
         /\ StoredTo(reader[c][g].at, Received(c, g)) \in Nat
         /\ Received(c, g) > 0 => StoredTo(reader[c][g].at, Received(c, g)) <= Received(c, g) - 1
         /\ Received(c, g) = 0 => StoredTo(reader[c][g].at, Received(c, g)) = 0
<1> DEFINE w == reader[c][g]
           n == Received(c, g)
<1>1. n \in Nat /\ WorkInv(c) /\ (w.at = "store" => n > 1)
  BY CtaType DEF ScheduleInv, CtaInv, ReaderAt, Readers
<1>2. /\ StoredTo(w.at, n) \in Nat /\ WorkedOn(w.at, n) \in Nat /\ StoredTo(w.at, n) <= WorkedOn(w.at, n)
      /\ n > 0 => StoredTo(w.at, n) <= n - 1
      /\ n = 0 => StoredTo(w.at, n) = 0
  BY <1>1 DEF StoredTo, WorkedOn
<1>3. BlocksIn(w.tiles, StoredTo(w.at, n), L.blockless) <= BlocksIn(w.tiles, WorkedOn(w.at, n), L.blockless)
  BY <1>2, BlocksInMonotonic
<1> QED BY <1>1, <1>2, <1>3 DEF WorkInv, Readers

(* A producer warp that waits for barrier_O has not missed a phase of it.  *)
(* A helper that waits is sure of that only if tiles are handed over: with *)
(* the other schedulers the warpgroups may be any number of tiles ahead.   *)
THEOREM SignalNotMissed == Spec => [](Handoff \/ Helpers = {} => SignalSeen)
<1>1. ScheduleInv => (Handoff \/ Helpers = {} => SignalSeen)
  <2> SUFFICES ASSUME ScheduleInv, Handoff \/ Helpers = {}, NEW c \in Ctas
               PROVE  /\ Completed(c) <= producer[c].work_idx
                      /\ \A h \in Helpers : reader[c][h].at = "wait_O" => Completed(c) <= reader[c][h].work_idx
    BY DEF SignalSeen
  <2>0. TypeInv /\ HandoverInv(c) /\ WorkInv(c)
    BY DEF ScheduleInv, CtaInv
  <2>1. PICK g \in WarpGroups : TRUE
    BY ReadersAssumption
  <2>2. Completed(c) \in Nat /\ Completed(c) <= reader[c][g].stored
    BY <2>0, CompletedIsSmallest
  <2>3. reader[c][g].stored \in Nat /\ reader[c][g].work_idx \in Nat /\ producer[c].work_idx \in Nat
    BY <2>0, CtaType DEF Readers, ReaderState, ProducerState
  <2>4. Completed(c) <= producer[c].work_idx
    <3>1. reader[c][g].stored <= reader[c][g].work_idx
      BY StoredBeforeWorked
    <3>2. reader[c][g].work_idx <= producer[c].work_idx
      BY <2>0 DEF WorkInv
    <3> QED BY <2>2, <2>3, <3>1, <3>2
  <2>5. ASSUME NEW h \in Helpers, reader[c][h].at = "wait_O" PROVE Completed(c) <= reader[c][h].work_idx
    <3> DEFINE u == reader[c][h]
               w == reader[c][g]
               m == Received(c, h)
               n == Received(c, g)
               k == StoredTo(w.at, n)
    <3>0. Handoff /\ g \in Readers /\ h \in Readers
      BY <2>5 DEF Readers
    <3>1. /\ m \in Nat /\ n \in Nat /\ Fetched(c) \in Nat /\ full[c] \in {0, 1} /\ m > 0
          /\ w.at = "init" => n = 0
      BY <2>0, <2>5, <3>0, CtaType DEF TypeInv, ScheduleInv, CtaInv, ReaderAt
    <3>2. /\ n <= m /\ (m <= Fetched(c) \/ m = 1)
      <4>1. CASE full[c] = 1
        BY <2>0, <3>0, <3>1, <4>1 DEF HandoverInv
      <4>2. CASE full[c] = 0
        <5>1. m = Fetched(c) \/ (Fetched(c) = 0 /\ m = 1)
          BY <2>0, <2>5, <3>0, <3>1, <4>2 DEF HandoverInv, Seen, FirstTile
        <5>2. n <= Fetched(c) \/ n <= 1
          <6>1. Seen(c, g) = Fetched(c) \/ FirstTile(c, g)
            BY <2>0, <3>0, <4>2 DEF HandoverInv
          <6> QED BY <3>1, <6>1 DEF Seen, FirstTile
        <5> QED BY <3>1, <5>1, <5>2
      <4> QED BY <3>1, <4>1, <4>2
    <3>3. k \in Nat /\ k <= m - 1 /\ k <= n
      <4>1. k \in Nat /\ (n > 0 => k <= n - 1) /\ (n = 0 => k = 0)
        BY StoredBeforeWorked
      <4> QED BY <3>1, <3>2, <4>1
    <3>4. \A i \in 1 .. k : w.tiles[i] = u.tiles[i]
      <4>1. ASSUME NEW i \in 1 .. k PROVE i \in 1 .. n /\ i \in 1 .. m /\ i <= Fetched(c)
        BY <3>1, <3>2, <3>3
      <4> QED BY <2>0, <3>0, <4>1 DEF HandoverInv
    <3>5. w.stored = BlocksIn(w.tiles, k, L.blockless)
      BY <2>0 DEF WorkInv
    <3>6. u.work_idx = BlocksIn(u.tiles, m - 1, L.blockless)
      <4>1. WorkedOn(u.at, m) = m - 1
        BY <2>5, <3>1 DEF WorkedOn
      <4> QED BY <2>0, <3>0, <4>1 DEF WorkInv
    <3>7. BlocksIn(w.tiles, k, L.blockless) = BlocksIn(u.tiles, k, L.blockless)
      BY <3>3, <3>4, BlocksInSame
    <3>8. BlocksIn(u.tiles, k, L.blockless) <= BlocksIn(u.tiles, m - 1, L.blockless)
      <4>1. m - 1 \in Nat
        BY <3>1
      <4> QED BY <3>3, <4>1, BlocksInMonotonic
    <3>9. w.stored <= u.work_idx
      BY <3>5, <3>6, <3>7, <3>8
    <3>10. u.work_idx \in Nat
      BY <2>0, <3>0, CtaType DEF ReaderState
    <3> QED BY <2>2, <2>3, <3>9, <3>10
  <2> QED BY <2>4, <2>5
<1> QED BY <1>1, Scheduled, PTL

-----------------------------------------------------------------------------
(* Refinement of TileDispatch.                                             *)

LEMMA Strides ==
  ASSUME NEW N \in Nat \ {0}, NEW t \in Nat
  PROVE  \E c \in 0 .. N - 1, k \in Nat : t = c + k * N
<1>1. t % N \in 0 .. N - 1 /\ t \div N \in Nat /\ t = (t % N) + (t \div N) * N
  OBVIOUS
<1> QED BY <1>1

(* When all CTAs of a launch are done, no share of a tile is missing.      *)
LEMMA AllStored ==
  ASSUME ScheduleInv, \A c \in Ctas : CtaDone(c), NEW g \in WarpGroups, NEW t \in 0 .. L.total - 1
  PROVE  out[g][t] = 1
<1>0. TypeInv /\ SemaphoreInv /\ OutInv /\ L.total \in Nat /\ Count \in Nat /\ NumCtas \in Nat /\ NumCtas > 0
      /\ t \in Nat /\ t < L.total
  BY LaunchType, CtasAssumption DEF ScheduleInv
<1>1. ASSUME NEW c \in Ctas
      PROVE  /\ Received(c, g) \in Nat /\ Received(c, g) > 0
             /\ ~Valid(reader[c][g].tiles[Received(c, g)])
             /\ reader[c][g].tiles[1] = c
             /\ StoredTo(reader[c][g].at, Received(c, g)) = Received(c, g) - 1
             /\ ~Handoff => \A i \in 1 .. Received(c, g) : reader[c][g].tiles[i] = TileOf(c, i)
  <2>1. g \in Readers /\ reader[c][g].at = "done" /\ ReaderAt(c, g) /\ ComputedInv(c)
    BY DEF Readers, CtaDone, ScheduleInv, CtaInv
  <2>2. Received(c, g) \in Nat
    BY <1>0, <2>1, CtaType
  <2>3. /\ Received(c, g) > 0 /\ ~Valid(reader[c][g].tiles[Received(c, g)]) /\ reader[c][g].tiles[1] = c
    BY <2>1 DEF ReaderAt
  <2> QED BY <2>1, <2>2, <2>3 DEF StoredTo, ComputedInv
<1>2. ASSUME NEW c \in Ctas, Handoff
      PROVE  /\ Received(c, g) = Fetched(c) /\ prepared /\ producer[c].at = "done"
             /\ \A i \in 1 .. Fetched(c) : reader[c][g].tiles[i] = producer[c].tiles[i]
  <2>1. g \in Readers /\ producer[c].at = "done" /\ reader[c][g].at = "done" /\ ProducerAt(c) /\ HandoverInv(c)
    BY DEF Readers, CtaDone, ScheduleInv, CtaInv
  <2>2. Fetched(c) \in Nat /\ Fetched(c) # 0 /\ prepared /\ full[c] \in {0, 1}
    BY <1>0, <2>1, CtaType DEF ProducerAt, TypeInv
  <2>3. \A i \in 1 .. Received(c, g) : i <= Fetched(c) => reader[c][g].tiles[i] = producer[c].tiles[i]
    BY <1>2, <2>1 DEF HandoverInv
  <2>4. full[c] = 0
    <3>1. SUFFICES ASSUME full[c] = 1 PROVE FALSE
      BY <2>2
    <3>2. Received(c, g) = Fetched(c) - 1
      BY <1>2, <2>1, <3>1 DEF HandoverInv
    <3>3. Valid(producer[c].tiles[Received(c, g)])
      BY <1>1, <2>1, <2>2, <3>2 DEF ProducerAt
    <3>4. reader[c][g].tiles[Received(c, g)] = producer[c].tiles[Received(c, g)]
      BY <1>1, <2>2, <2>3, <3>2
    <3> QED BY <1>1, <3>3, <3>4
  <2>5. Received(c, g) = Fetched(c)
    <3>1. Seen(c, g) = Fetched(c) \/ FirstTile(c, g)
      BY <1>2, <2>1, <2>4 DEF HandoverInv
    <3>2. ~FirstTile(c, g)
      BY <2>1, <2>2 DEF FirstTile
    <3> QED BY <1>1, <2>1, <3>1, <3>2 DEF Seen
  <2> QED BY <2>1, <2>2, <2>3, <2>5
<1>3. SUFFICES \E c \in Ctas : \E i \in 1 .. Received(c, g) - 1 : reader[c][g].tiles[i] = t
  BY <1>0, <1>1 DEF OutInv, StoredBy
<1>4. CASE t < NumCtas /\ ~(L.scheduler = "static")
  <2>1. t \in Ctas
    BY <1>0, <1>4 DEF Ctas
  <2>2. reader[t][g].tiles[1] = t /\ Received(t, g) # 1
    BY <1>0, <1>1, <2>1 DEF Valid
  <2>3. 1 \in 1 .. Received(t, g) - 1
    BY <1>1, <2>1, <2>2
  <2> QED BY <2>1, <2>2, <2>3
<1>5. CASE t >= NumCtas /\ Handoff
  <2>1. 0 \in Ctas /\ 0 \in Nat
    BY <1>0 DEF Ctas
  <2> DEFINE f == Fetched(0)
  <2>2. /\ f \in Nat /\ f > 1 /\ prepared /\ producer[0].tiles[f] \in Nat /\ producer[0].tiles[f] >= L.total
        /\ producer[0].at = "done"
    <3>1. f \in Nat /\ f > 0 /\ prepared /\ producer[0].at = "done"
      BY <1>1, <1>2, <1>5, <2>1
    <3>2. producer[0].tiles[f] \in Nat
      BY <1>0, <2>1, <3>1, CtaType
    <3>3. ~Valid(producer[0].tiles[f]) /\ (f = 1 => producer[0].tiles[f] = 0)
      BY <2>1, <3>1 DEF ScheduleInv, CtaInv, ProducerAt
    <3> QED BY <1>0, <3>1, <3>2, <3>3 DEF Valid
  <2>3. f \in Drawings(0) /\ TakenAt(0, f) = producer[0].tiles[f]
    BY <2>2 DEF Drawings, Draws, TakenAt
  <2>4. t \in NumCtas .. NumCtas + Count - 1
    <3>1. producer[0].tiles[f] \in NumCtas .. NumCtas + Count - 1
      BY <1>0, <1>5, <2>1, <2>2, <2>3 DEF SemaphoreInv
    <3> QED BY <1>0, <1>5, <2>2, <3>1
  <2>5. PICK c \in Ctas : \E i \in Drawings(c) : TakenAt(c, i) = t
    BY <1>0, <1>5, <2>2, <2>4 DEF SemaphoreInv
  <2>6. PICK i \in Drawings(c) : TakenAt(c, i) = t
    BY <2>5
  <2>7. Fetched(c) \in Nat /\ Received(c, g) = Fetched(c) /\ producer[c].at = "done"
    BY <1>1, <1>2, <1>5
  <2>8. i \in 1 .. Fetched(c) /\ t = reader[c][g].tiles[i]
    <3>1. i \in 1 .. Fetched(c) /\ t = producer[c].tiles[i]
      BY <2>6, <2>7 DEF Drawings, Draws, TakenAt
    <3> QED BY <1>2, <1>5, <3>1
  <2>9. i # Fetched(c)
    BY <1>0, <1>1, <2>7, <2>8 DEF Valid
  <2> QED BY <2>7, <2>8, <2>9
<1>6. CASE L.scheduler = "static"
  <2>1. PICK c \in 0 .. NumCtas - 1, k \in Nat : t = c + k * NumCtas
    BY <1>0, CtasAssumption, Strides
  <2>2. c \in Ctas /\ ~Handoff
    BY <1>6 DEF Ctas, Handoff
  <2> DEFINE n == Received(c, g)
  <2>3. \A i \in Nat \ {0} : TileOf(c, i) = c + (i - 1) * NumCtas
    <3>1. (1 - 1) * NumCtas = 0
      BY <1>0
    <3> QED BY <1>0, <1>6, <2>1, <3>1 DEF TileOf
  <2>4. PICK m \in Nat : n = m + 1
    <3>1. n - 1 \in Nat /\ n = (n - 1) + 1
      BY <1>1, <2>2
    <3> QED BY <3>1
  <2>5. ~(c + m * NumCtas < L.total)
    <3>1. reader[c][g].tiles[n] = TileOf(c, n) /\ TileOf(c, n) = c + (n - 1) * NumCtas /\ n - 1 = m
      BY <1>1, <2>2, <2>3, <2>4
    <3> QED BY <1>1, <2>2, <3>1 DEF Valid
  <2>6. k < m
    <3>1. SUFFICES ASSUME m <= k PROVE FALSE
      BY <2>1, <2>4
    <3>2. PICK e \in Nat : k = m + e
      BY <2>1, <2>4, <3>1, k - m \in Nat
    <3>3. k * NumCtas = m * NumCtas + e * NumCtas /\ e * NumCtas \in Nat /\ m * NumCtas \in Nat
      BY <1>0, <2>4, <3>2
    <3> QED BY <1>0, <2>1, <2>5, <3>3
  <2>7. k + 1 \in 1 .. n - 1 /\ k + 1 \in 1 .. n /\ (k + 1) - 1 = k /\ k + 1 \in Nat \ {0}
    BY <2>1, <2>4, <2>6
  <2>8. reader[c][g].tiles[k + 1] = t
    BY <1>1, <2>1, <2>2, <2>3, <2>7
  <2> QED BY <2>2, <2>7, <2>8
<1>7. CASE t >= NumCtas /\ L.scheduler = "single"
  BY <1>0, <1>7, LaunchType
<1>8. L.scheduler \in {"single", "static", "dynamic", "varlen"}
  BY <1>0, LaunchType DEF Launch
<1> QED BY <1>0, <1>4, <1>5, <1>6, <1>7, <1>8 DEF Handoff

LEMMA StepIsDispatch ==
  ASSUME ScheduleInv, [Next]_vars
  PROVE  [Dispatch!Next]_(Dispatch!vars)
<1> DEFINE totals == [i \in DOMAIN launches |-> launches[i].total]
<1>0. /\ TypeInv /\ launches \in Seq(Launch) /\ run \in DOMAIN launches
      /\ totals[run] = L.total /\ Len(totals) = Len(launches)
  BY DEF ScheduleInv, TypeInv, L
<1>1. CASE UNCHANGED <<launches, run, out>>
  BY <1>1 DEF Dispatch!vars
<1>2. ASSUME NEW c \in Ctas, NEW g \in Readers, Store(c, g)
      PROVE  Dispatch!Next
  <2>1. PICK t \in 0 .. L.total - 1 : /\ g \in WarpGroups /\ out[g][t] = 0
                                      /\ out' = [out EXCEPT ![g] = [out[g] EXCEPT ![t] = 1]]
    BY <1>2, StoreStep
  <2>2. out' = [out EXCEPT ![g][t] = 1]
    BY <2>1
  <2>3. totals' = totals /\ run' = run
    BY <1>2 DEF Store
  <2>4. Dispatch!Compute(g, t)
    BY <2>1, <2>2, <2>3 DEF Dispatch!Compute
  <2> QED BY <1>0, <2>1, <2>4 DEF Dispatch!Next, Dispatch!TilesOf
<1>3. CASE NextLaunch
  <2>1. \A g \in WarpGroups, t \in 0 .. L.total - 1 : out[g][t] = 1
    BY <1>3, AllStored DEF NextLaunch
  <2>2. run < Len(totals) /\ run' = run + 1 /\ totals' = totals
    BY <1>0, <1>3 DEF NextLaunch
  <2>3. totals[run + 1] = launches[run + 1].total
    BY <1>0, <2>2
  <2>4. out' = [g \in WarpGroups |-> [t \in 0 .. totals[run + 1] - 1 |-> 0]]
    BY <1>3, <2>3 DEF NextLaunch, StartCtas
  <2>5. Dispatch!NextLaunch
    BY <1>0, <2>1, <2>2, <2>4 DEF Dispatch!NextLaunch, Dispatch!TilesOf
  <2> QED BY <2>5 DEF Dispatch!Next
<1>4. CASE Prepare \/ Exit \/ UNCHANGED vars
  BY <1>1, <1>4 DEF Prepare, Exit, vars
<1>5. ASSUME NEW c \in Ctas, ProducerWarp(c) \/ SmemFull(c)
      PROVE  UNCHANGED <<launches, run, out>>
  BY <1>5 DEF ProducerWarp, SmemFull, GetInitialWork, QuerySync, Load,
     ProducerGetNextWork, ProducerExit
<1>6. ASSUME NEW c \in Ctas, NEW r \in Readers, InitConsumer(c, r) \/ Work(c, r) \/ ReaderGetNextWork(c, r) \/ ReaderExit(c, r)
      PROVE  UNCHANGED <<launches, run, out>>
  BY <1>6 DEF InitConsumer, Work, ReaderGetNextWork, ReaderExit
<1> QED BY <1>1, <1>2, <1>3, <1>4, <1>5, <1>6 DEF Next, Reader

(* The warps of all CTAs, their barriers and the semaphore compute every   *)
(* share of every tile once per launch, and no launch begins before the    *)
(* one before is complete: the schedulers implement TileDispatch.          *)
THEOREM Implements == Spec => Dispatch!Safety
<1>1. Init => Dispatch!Init
  <2> SUFFICES ASSUME Init PROVE Dispatch!Init
    OBVIOUS
  <2>1. launches \in Seq(Launch) /\ launches # << >> /\ 1 \in DOMAIN launches
    BY StreamsAssumption DEF Init
  <2>2. [i \in DOMAIN launches |-> launches[i].total][1] = launches[1].total
    BY <2>1
  <2> QED BY <2>2 DEF Init, Dispatch!Init, Dispatch!TilesOf
<1>2. ScheduleInv /\ [Next]_vars => [Dispatch!Next]_(Dispatch!vars)
  BY StepIsDispatch
<1> QED BY <1>1, <1>2, Scheduled, PTL DEF Spec, Dispatch!Safety
=============================================================================
