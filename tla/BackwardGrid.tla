---------------------------- MODULE BackwardGrid ----------------------------
(***************************************************************************)
(* A call of mha_bwd on SM90: host, preprocess kernel, and the grid of the *)
(* main kernel.  A CTA owns one tile, a K/V block of one head, and goes    *)
(* through the Q blocks that see it.  Its dK and dV leave at the end, or   *)
(* are added up over the heads of a group (GQA); its dQ is added, block by *)
(* block, to what the other K/V blocks contribute, by a warp of its own.   *)
(* Deterministic launches fix the order of all additions by semaphores in  *)
(* global memory, on which a resident CTA spins: who waits for whom has to *)
(* agree with the order in which the hardware starts CTAs on few SMs.      *)
(*                                                                         *)
(* What happens inside a CTA is MainloopBwd.                               *)
(***************************************************************************)
EXTENDS Integers, Sequences, FiniteSets, Functions, SequencesExt

CONSTANTS
  Backwards,     \* the calls to consider, see BackwardCall
  BwdBlockM, BwdBlockN   \* kBlockM and kBlockN

\* Lengths of the sequences' queries and keys; heads, and query heads per K/V
\* head; the mask with its window; swizzle, the heads whose Q, dO and dQ fit in
\* L2; and the CTAs that are resident at a time.
BackwardCall ==
  [q : Seq(Nat), k : Seq(Nat), h : Nat \ {0}, gqa : Nat \ {0}, deterministic : BOOLEAN,
   mask : {"none", "causal", "local"}, left : Nat, right : Nat, swizzle : Nat \ {0}, num_sm : Nat \ {0}]

ASSUME BackwardsAssumption ==
  Backwards \subseteq BackwardCall /\ \A c \in Backwards : Len(c.q) = Len(c.k) /\ c.h % c.gqa = 0

VARIABLES
  bwd,           \* the call, fixed
  kernel_at,     \* "host", "preprocess", "grid" or "returned"
  blockIdx,      \* CTAs that have been started
  cta,           \* the resident CTAs
  semaphore,     \* dq_semaphore, dk_semaphore and dv_semaphore
  accum          \* the terms in every block of dQ, dK and dV, in order of addition

gridVars == <<bwd, kernel_at, blockIdx, cta, semaphore, accum>>

Garbage == -1   \* what torch::empty returns: no block, no turn

-----------------------------------------------------------------------------
\* Integer division of C++, which truncates.
Quot(a, b) == IF a >= 0 THEN a \div b ELSE -((-a) \div b)
CeilQuot(a, b) == Quot(a + b - 1, b)

Batches == DOMAIN bwd.q
QHeads == 0 .. bwd.h - 1
MBlocks(b) == 0 .. CeilQuot(bwd.q[b], BwdBlockM) - 1
NBlocks(b) == 0 .. CeilQuot(bwd.k[b], BwdBlockN) - 1
Longest(lengths) == CHOOSE n \in Range(lengths) : \A l \in Range(lengths) : l <= n
GridN == CeilQuot(Longest(bwd.k), BwdBlockN)

\* get_m_block_min_max: the Q blocks that see K/V block n.
MBlockMin(b, n) ==
  IF bwd.mask = "none" THEN 0
  ELSE LET m == Quot(n * BwdBlockN + bwd.q[b] - bwd.k[b] - bwd.right, BwdBlockM)
       IN  IF m > 0 THEN m ELSE 0
MBlockMax(b, n) ==
  LET all == CeilQuot(bwd.q[b], BwdBlockM)
      window == CeilQuot((n + 1) * BwdBlockN + bwd.q[b] - bwd.k[b] + bwd.left, BwdBlockM)
  IN  IF bwd.mask = "local" /\ window < all THEN window ELSE all
SeesNothing(t) == MBlockMax(t.b, t.n) <= MBlockMin(t.b, t.n)

\* Mutant: causal tiles start from the first K/V block when deterministic, too.
InOrder(blocks, block) == block

\* SPT: the tiles with the fewest Q blocks first, which is the order in which
\* the causal semaphore counts.
Reversed(blocks, block) == IF bwd.deterministic THEN blocks - block - 1 ELSE block

\* SingleTileBwdLPTScheduler: heads that share L2 block by block; the section at
\* the end has what remains of the heads.
LptTile(i) ==
  LET heads == bwd.h * Len(bwd.q)
      section == i \div (bwd.swizzle * GridN)
      within == i % (bwd.swizzle * GridN)
      size == IF section < heads \div bwd.swizzle THEN bwd.swizzle ELSE heads % bwd.swizzle
      head == section * bwd.swizzle + (within % size)
      b == (head \div bwd.h) + 1
      block == within \div size
      blocks == CeilQuot(bwd.k[b], BwdBlockN)
  IN  [n |-> Reversed(blocks, block), h |-> head % bwd.h, b |-> b, valid |-> block < blocks]

\* SingleTileScheduler: the grid is (blocks, heads, batches).
SingleTile(i) ==
  LET b == (i \div (GridN * bwd.h)) + 1
  IN  [n |-> i % GridN, h |-> (i \div GridN) % bwd.h, b |-> b,
       valid |-> (i % GridN) * BwdBlockN < bwd.k[b]]

TileOf(i) == IF bwd.mask = "causal" THEN LptTile(i) ELSE SingleTile(i)
GridSize == GridN * bwd.h * Len(bwd.q)

-----------------------------------------------------------------------------
\* The word of a semaphore for a block of a head.
Word(heads, b, h, block) == (b - 1) * heads + h + block * Len(bwd.q) * heads

DQ(b, h, m) == <<"dq", b, h, m>>
DKV(which, b, h, n) == <<which, b, h \div bwd.gqa, n>>
BlocksOf(b) ==
  {DQ(b, h, m) : <<h, m>> \in QHeads \X MBlocks(b)}
  \cup {DKV(which, b, h, n) : <<which, h, n>> \in {"dk", "dv"} \X QHeads \X NBlocks(b)}
AccumBlocks == UNION {BlocksOf(b) : b \in Batches}
IsGQA == bwd.gqa > 1

GridInit ==
  /\ bwd \in Backwards
  /\ kernel_at = "host" /\ blockIdx = 0 /\ cta = << >>
  /\ semaphore = [s \in {"dq", "dk", "dv"} |-> << >>]
  /\ accum = << >>

\* mha_bwd: torch::zeros for dk_accum, dv_accum and their semaphores; the rest
\* is not initialised.  Without queries or keys there is nothing to launch.
MhaBwd ==
  LET total(lengths) == FoldLeft(LAMBDA s, l : s + l, 0, lengths)
      words(heads, blocks, value) == [w \in 0 .. heads * Len(bwd.q) * blocks - 1 |-> value]
      run == total(bwd.q) > 0 /\ total(bwd.k) > 0
  IN  /\ kernel_at = "host"
      /\ kernel_at' = IF run THEN "preprocess" ELSE "returned"
      /\ accum' = [x \in AccumBlocks |-> IF ~run \/ (IsGQA /\ x[1] # "dq") THEN << >> ELSE <<Garbage>>]
      /\ semaphore' =
           [dq |-> words(bwd.h, CeilQuot(Longest(bwd.q), BwdBlockM), Garbage),
            dk |-> words(bwd.h \div bwd.gqa, GridN, 0),
            dv |-> words(bwd.h \div bwd.gqa, GridN, 0)]
      /\ UNCHANGED <<bwd, blockIdx, cta>>

\* flash_bwd_preprocess: clears dq_accum and its semaphore; a CTA beyond the end
\* of its sequence returns.
Preprocess ==
  LET blocks == UNION {{<<b, h, m>> : <<h, m>> \in QHeads \X MBlocks(b)} : b \in Batches}
  IN  /\ kernel_at = "preprocess"
      /\ kernel_at' = "grid"
      /\ accum' = [x \in DOMAIN accum |-> IF x[1] = "dq" THEN << >> ELSE accum[x]]
      /\ semaphore' = [semaphore EXCEPT !.dq =
           [w \in DOMAIN @ |-> IF \E x \in blocks : Word(bwd.h, x[1], x[2], x[3]) = w THEN 0 ELSE @[w]]]
      /\ UNCHANGED <<bwd, blockIdx, cta>>

-----------------------------------------------------------------------------
\* CTAs start in the order of blockIdx, as SMs become free.  The tile of a CTA
\* may be beyond the end of its sequence: it returns.  `computed` and `added` are
\* the next Q block of the warpgroups and of the dQ warp.
StartCta ==
  LET t == TileOf(blockIdx)
      m == MBlockMin(t.b, t.n)
  IN  /\ kernel_at = "grid"
      /\ blockIdx < GridSize
      /\ Cardinality(DOMAIN cta) < bwd.num_sm
      /\ blockIdx' = blockIdx + 1
      /\ cta' = IF t.valid
                THEN (blockIdx :> [tile |-> t, computed |-> m, added |-> m, epilogue |-> "dv"]) @@ cta
                ELSE cta
      /\ UNCHANGED <<bwd, kernel_at, semaphore, accum>>

Moved(i, new) == [cta EXCEPT ![i] = new]
ReduceAdd(x, term) == [accum EXCEPT ![x] = Append(@, term)]
ArriveInc(s, w) == [semaphore EXCEPT ![s] = [@ EXCEPT ![w] = @ + 1]]

\* bwd_step: the dQ of one Q block, once the dQ warp has read the one before.
BwdStep(i) ==
  LET c == cta[i]
  IN  /\ c.computed < MBlockMax(c.tile.b, c.tile.n)
      /\ c.computed = c.added
      /\ cta' = Moved(i, [c EXCEPT !.computed = @ + 1])
      /\ UNCHANGED <<bwd, kernel_at, blockIdx, semaphore, accum>>

\* The value of the semaphore at which tile t may add to the dQ of block m.
Turn(t, m) ==
  IF bwd.mask # "causal" THEN t.n
  ELSE LET all == CeilQuot(bwd.k[t.b], BwdBlockN)
           seen == CeilQuot((m + 1) * BwdBlockM + bwd.k[t.b] - bwd.q[t.b], BwdBlockN)
       IN  (IF seen < all THEN seen ELSE all) - 1 - t.n

\* store_dq: one addition.
StoreDq(i) ==
  LET c == cta[i]
      w == Word(bwd.h, c.tile.b, c.tile.h, c.added)
  IN  /\ c.added < c.computed
      /\ bwd.deterministic => semaphore.dq[w] = Turn(c.tile, c.added)
      /\ accum' = ReduceAdd(DQ(c.tile.b, c.tile.h, c.added), c.tile.n)
      /\ semaphore' = IF bwd.deterministic THEN ArriveInc("dq", w) ELSE semaphore
      /\ cta' = Moved(i, [c EXCEPT !.added = @ + 1])
      /\ UNCHANGED <<bwd, kernel_at, blockIdx>>

\* With a window, a tile also counts for the Q blocks beyond the ones that see
\* it: the tiles after it wait for their number.
LeftOut(c) ==
  IF bwd.mask = "local" /\ bwd.deterministic
  THEN {m \in MBlocks(c.tile.b) : m >= MBlockMax(c.tile.b, c.tile.n)} ELSE {}

ArriveLeftOut(i) ==
  LET c == cta[i]
  IN  /\ c.added \in LeftOut(c)
      /\ semaphore' = ArriveInc("dq", Word(bwd.h, c.tile.b, c.tile.h, c.added))
      /\ cta' = Moved(i, [c EXCEPT !.added = @ + 1])
      /\ UNCHANGED <<bwd, kernel_at, blockIdx, accum>>

\* The heads of a group take turns.
GroupTurn(s, w, h) == bwd.deterministic => semaphore[s][w] = h % bwd.gqa

\* The epilogue stores dV, then dK: with GQA by an addition, in turns.
StoreDkv(i) ==
  LET c == cta[i]
      t == c.tile
      s == c.epilogue
      x == DKV(s, t.b, t.h, t.n)
      w == Word(bwd.h \div bwd.gqa, t.b, t.h \div bwd.gqa, t.n)
  IN  /\ s \in {"dk", "dv"} /\ ~SeesNothing(t)
      /\ c.computed = MBlockMax(t.b, t.n)
      /\ IsGQA => GroupTurn(s, w, t.h)
      /\ accum' = IF IsGQA THEN ReduceAdd(x, t.h) ELSE [accum EXCEPT ![x] = <<t.h>>]
      /\ semaphore' = IF IsGQA /\ bwd.deterministic THEN ArriveInc(s, w) ELSE semaphore
      /\ cta' = Moved(i, [c EXCEPT !.epilogue = IF s = "dv" THEN "dk" ELSE "stored"])
      /\ UNCHANGED <<bwd, kernel_at, blockIdx>>

\* store_zero: dk_accum and dv_accum are zero already.
Zeroed(t) ==
  IF IsGQA THEN accum
  ELSE [accum EXCEPT ![DKV("dk", t.b, t.h, t.n)] = << >>, ![DKV("dv", t.b, t.h, t.n)] = << >>]

StoreZero(i) ==
  LET c == cta[i]
  IN  /\ c.epilogue = "dv" /\ SeesNothing(c.tile)
      /\ accum' = Zeroed(c.tile)
      /\ cta' = Moved(i, [c EXCEPT !.epilogue = "stored"])
      /\ UNCHANGED <<bwd, kernel_at, blockIdx, semaphore>>

ExitCta(i) ==
  LET c == cta[i]
  IN  /\ c.epilogue = "stored"
      /\ c.added >= MBlockMax(c.tile.b, c.tile.n) /\ c.added \notin LeftOut(c)
      /\ cta' = [j \in DOMAIN cta \ {i} |-> cta[j]]
      /\ UNCHANGED <<bwd, kernel_at, blockIdx, semaphore, accum>>

Cta(i) == BwdStep(i) \/ StoreDq(i) \/ ArriveLeftOut(i) \/ StoreDkv(i) \/ StoreZero(i) \/ ExitCta(i)

\* The postprocess kernels read the sums.
GridEnds ==
  /\ kernel_at = "grid" /\ blockIdx = GridSize /\ cta = << >>
  /\ kernel_at' = "returned"
  /\ UNCHANGED <<bwd, blockIdx, cta, semaphore, accum>>

GridNext == MhaBwd \/ Preprocess \/ StartCta \/ GridEnds \/ \E i \in DOMAIN cta : Cta(i)

GridSpec == GridInit /\ [][GridNext]_gridVars /\ WF_gridVars(GridNext)

-----------------------------------------------------------------------------
\* What the mask says of a query and a key, the last of both at the same place.
Visible(b, i, j) ==
  LET diagonal == i + bwd.k[b] - bwd.q[b]
  IN  CASE bwd.mask = "none" -> TRUE
        [] bwd.mask = "causal" -> j <= diagonal
        [] bwd.mask = "local" -> diagonal - bwd.left <= j /\ j <= diagonal + bwd.right
Sees(b, m, n) ==
  \E i \in m * BwdBlockM .. (m + 1) * BwdBlockM - 1, j \in n * BwdBlockN .. (n + 1) * BwdBlockN - 1 :
    i < bwd.q[b] /\ j < bwd.k[b] /\ Visible(b, i, j)

\* The terms are distinct, in [must, may], and in the fixed order if there is one.
AddedUp(terms, must, may, Before(_, _)) ==
  /\ must \subseteq Range(terms) /\ Range(terms) \subseteq may
  /\ Len(terms) = Cardinality(Range(terms))
  /\ bwd.deterministic => \A i \in 1 .. Len(terms) - 1 : Before(terms[i], terms[i + 1])

SumsExact ==
  kernel_at = "returned" /\
    \A b \in Batches, h \in QHeads :
      /\ \A m \in MBlocks(b) :
           AddedUp(accum[DQ(b, h, m)], {n \in NBlocks(b) : Sees(b, m, n)}, NBlocks(b),
                   LAMBDA x, y : IF bwd.mask = "causal" THEN x > y ELSE x < y)
      /\ \A n \in NBlocks(b), which \in {"dk", "dv"} :
           LET group == {x \in QHeads : x \div bwd.gqa = h \div bwd.gqa}
           IN  AddedUp(accum[DKV(which, b, h, n)],
                       IF \E m \in MBlocks(b) : Sees(b, m, n) THEN group ELSE {}, group, <)

(* A call returns, also when fewer CTAs are resident than wait for each     *)
(* other: all whom a CTA waits for have been started before it.  Then every *)
(* block of dQ has one term of every K/V block that it sees, every block of *)
(* dK and dV one term of every head of its group, nothing is left that was  *)
(* in the memory before, and deterministic launches have added the terms in *)
(* one and the same order whatever the CTAs did (mainloop_bwd :626-664,     *)
(* epilogue_bwd :440-505).                                                  *)
GradientsExact == kernel_at # "host" ~> SumsExact
=============================================================================
