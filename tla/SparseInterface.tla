--------------------------- MODULE SparseInterface ---------------------------
(***************************************************************************)
(* The incremental attention API of hopper/flash_attn_interface.py: tables *)
(* of K/V blocks, per-block partials, top-k selection, and the merge of a  *)
(* speculative pass with the repair of what it missed.                     *)
(*                                                                         *)
(* An (out, lse) pair is abstracted to how often each K/V token counts in  *)
(* its softmax: zero everywhere is O = 0, lse = -inf, and the online       *)
(* softmax merge is addition.  Tokens are counted in units of 64.          *)
(***************************************************************************)
EXTENDS Integers, Sequences, FiniteSetsExt, SequencesExt, SparseSplit

CONSTANTS SeqlenK,      \* length of k and v in units
          HeadDim,      \* head dimensions of the calls
          BlockSize,    \* block_size arguments, in units
          MaxSplits     \* bound on what num_splits_heuristic may choose

ASSUME SparseAssumption ==
  /\ SeqlenK \in Nat /\ BlockSize \subseteq {1, 2, 4} /\ HeadDim \subseteq {64, 128}
  /\ \A s \in BlockSize : SeqlenK % s = 0
  /\ MaxSplits \in 1 .. 256

VARIABLES stage,       \* what the caller does next
          shape,       \* head dimension, block_size and function of this step
          predicted,   \* the blocks the predictor chose
          kept,        \* the partial of each predicted block
          selected,    \* the blocks that are to be attended to
          result,      \* the (out, lse) returned at the end
          rejected     \* an assertion or a TORCH_CHECK of a call failed

sparseVars == <<stage, shape, predicted, kept, selected, result, rejected>>

\* The tokens, and the zeros that are read behind the end of k: the sparse kernels
\* mask nothing, so these count as well.
Unit == 0 .. SeqlenK - 1
Read == 0 .. 2 * SeqlenK - 1
Nothing == [u \in Read |-> 0]                         \* O = 0, lse = -inf
Merged(a, b) == [u \in Read |-> a[u] + b[u]]          \* online softmax merge
Once(S) == [u \in Read |-> IF u \in S THEN 1 ELSE 0]

\* "Each entry covers a block_size-token slice (physical offset = block_idx * block_size)."
SliceOf(b, size) == b * size .. b * size + size - 1
Blocks(size) == 0 .. SeqlenK \div size - 1
TokensOf(S, size) == UNION {SliceOf(b, size) : b \in S}

-----------------------------------------------------------------------------
(* flash_attn_3_gpu.fwd with a block table                                 *)

\* kBlockN of the kernel that runs: block_size 128 takes the standard kernel with
\* the tile of its head dimension, the others a kernel compiled for them.
KBlockN(s) == IF s.size # 2 THEN s.size ELSE IF s.dim = 128 THEN 2 ELSE 3

\* The sparse kernels other than the standard one exist for hdim 128 only.
Supported(s) == s.size # 2 => s.dim = 128

\* The kernels are told by a non-null pointer; an empty tensor has none.
HasTable(table) == table # <<>>

\* The blocks of split i of n, and the partials of all of them.
SplitBlocks(table, i, n) ==
  LET r == SplitRange(i, n, Len(table))
  IN  SubSeq(table, r.begin + 1, r.begin + r.num)

Attended(s, blocks) ==
  FoldSeq(LAMBDA b, acc : Merged(acc, Once(SliceOf(b, KBlockN(s)))), Nothing, blocks)

Accumulated(s, table, n) ==
  IF n = 1 THEN <<>>                                  \* out_accum is not allocated
  ELSE [i \in 1 .. n |-> Attended(s, SplitBlocks(table, i - 1, n))]

\* FlashAttnFwdCombine; also flash_attn_combine.
Combined(partials) == FoldSeq(Merged, Nothing, partials)

\* out of fwd: without a table every key, no mask.
Forward(s, table, n) ==
  IF ~HasTable(table) THEN Once(Unit)
  ELSE IF n = 1 THEN Attended(s, table)
  ELSE Combined(Accumulated(s, table, n))

-----------------------------------------------------------------------------
(* The functions of the interface                                          *)

SortedTable(S) == SetToSortSeq(S, <)

\* flash_attn_with_sparse_block_table: the C++ side picks the number of splits.
WithTable(s, table) == {Forward(s, table, n) : n \in 1 .. MaxSplits}

\* Mutant: as many splits as the heuristic would take at most.
SplitsForPartialsCapped(table) == Lesser(Len(table), 2)
\* flash_attn_with_sparse_block_table_partials: one split per block.
SplitsForPartials(table) == Len(table)

Partials(s, table) == Accumulated(s, table, SplitsForPartials(table))

\* flash_attn_with_block_scores: the top_k highest scores, ties in any order.
\* scores[b] = -1 stands for -inf.
TopK(scores, k) ==
  {S \in SUBSET DOMAIN scores :
     /\ Cardinality(S) = Lesser(k, Cardinality(DOMAIN scores))
     /\ \A b \in S, c \in DOMAIN scores \ S : scores[b] >= scores[c]}

\* flash_attn_speculative_sparse, after its two passes.
SpeculativeMerge(spec, repair) == Combined(<<spec, repair>>)

-----------------------------------------------------------------------------
(* One attention step of the caller                                        *)

SparseInit ==
  /\ stage = "start" /\ shape = [dim |-> 0, size |-> 0, api |-> "none"]
  /\ predicted = {} /\ kept = <<>> /\ selected = {} /\ result = Nothing /\ rejected = FALSE

\* The predictor names the blocks P of one step.
Predict ==
  /\ stage = "start"
  /\ \E s \in [dim : HeadDim, size : BlockSize, api : {"partials", "speculative", "scores"}] :
       /\ shape' = s /\ stage' = s.api
       /\ \E P \in SUBSET Blocks(s.size) : predicted' = P
  /\ UNCHANGED <<kept, selected, result, rejected>>

\* Speculative pass over P with one partial per block, before the true top-k set
\* is known.  One split is no split: a table of one block gives no partials.
KeepPartials ==
  /\ stage = "partials"
  /\ LET table == SortedTable(predicted)
     IN  IF table = <<>> \/ ~Supported(shape)
         THEN rejected' = TRUE /\ stage' = "done" /\ UNCHANGED kept
         ELSE kept' = Partials(shape, table) /\ stage' = "reveal" /\ UNCHANGED rejected
  /\ UNCHANGED <<shape, predicted, selected, result>>

\* The true top-k set A turns up.
Reveal ==
  /\ stage = "reveal"
  /\ \E A \in SUBSET Blocks(shape.size) \ {{}} : selected' = A
  /\ stage' = "repair"
  /\ UNCHANGED <<shape, predicted, kept, result, rejected>>

\* The partials of P that belong to A are merged with a pass over A \ P.
Repair ==
  /\ stage = "repair" /\ stage' = "done"
  /\ LET table == SortedTable(predicted)
         useful == SelectSeq([i \in DOMAIN kept |-> i], LAMBDA i : table[i] \in selected)
         merged == Combined([i \in DOMAIN useful |-> kept[useful[i]]])
         missed == SortedTable(selected \ predicted)
     IN  IF missed = <<>> THEN result' = merged
         ELSE \E repair \in WithTable(shape, missed) :
                result' = SpeculativeMerge(merged, repair)
  /\ UNCHANGED <<shape, predicted, kept, selected, rejected>>

\* flash_attn_speculative_sparse: the caller gathers P into k_spec and passes the
\* missed blocks as the table.
SpeculativeSparse ==
  /\ stage = "speculative" /\ stage' = "done"
  /\ shape.size = 2 /\ predicted # {}           \* block_size is not a parameter
  /\ \E A \in SUBSET Blocks(2) :
       /\ predicted \subseteq A /\ A # predicted
       /\ selected' = A
       /\ \E repair \in WithTable(shape, SortedTable(A \ predicted)) :
            result' = SpeculativeMerge(Once(TokensOf(predicted, 2)), repair)
  /\ UNCHANGED <<shape, predicted, kept, rejected>>

\* flash_attn_with_block_scores: P are the historical blocks, the others have -inf.
BlockScores ==
  /\ stage = "scores" /\ stage' = "done"
  /\ \E scores \in [Blocks(shape.size) -> -1 .. 1], k \in 1 .. Cardinality(predicted) :
       /\ \A b \in DOMAIN scores : scores[b] = -1 <=> b \notin predicted
       /\ \E S \in TopK(scores, k) :
            /\ selected' = S
            /\ IF Supported(shape)
               THEN /\ result' \in WithTable(shape, SortedTable(S))
                    /\ UNCHANGED rejected
               ELSE rejected' = TRUE /\ UNCHANGED result
  /\ UNCHANGED <<shape, predicted, kept>>

\* A table given directly, the empty one included.
BlockTable ==
  /\ stage = "scores" /\ stage' = "done"
  /\ selected' = predicted /\ Supported(shape)
  /\ result' \in WithTable(shape, SortedTable(predicted))
  /\ UNCHANGED <<shape, predicted, kept, rejected>>

\* The calls the documentation allows, empty tables left out.
SparseNext == Predict \/ KeepPartials \/ Reveal \/ Repair \/ SpeculativeSparse \/ BlockScores

\* The same with tables of any length.
SparseTableNext == Predict \/ BlockTable

SparseSpec == SparseInit /\ [][SparseNext]_sparseVars
SparseTableSpec == SparseInit /\ [][SparseTableNext]_sparseVars

-----------------------------------------------------------------------------
(* Properties                                                              *)

\* The result attends to every token of the selected blocks exactly once and to
\* nothing else, whatever was predicted ("the caller merges the P \cap A subset with
\* freshly computed A \ P partials", flash_attn_interface.py:1036).
IncrementalIsExact ==
  stage = "done" /\ ~rejected => result = Once(TokensOf(selected, shape.size))

\* The blocks the caller attends to itself, in k_spec, and those lost because they are
\* the only prediction, of which no partial is returned.
Gathered == IF shape.api = "speculative" THEN predicted ELSE {}
Lost == IF shape.api = "partials" /\ Cardinality(predicted) = 1 THEN predicted ELSE {}

\* However P was predicted, the table was split and the partials were kept, every
\* selected block but a lost one counts exactly once and nothing else does: nothing
\* recomputed is counted twice, nothing missed is left out.  Where the tile of the
\* kernel is not block_size (head dimension 64), the blocks of a pass are its tiles.
IncrementalEqualsAttention ==
  stage = "done" /\ ~rejected =>
    /\ KBlockN(shape) = shape.size => result = Once(TokensOf(selected \ Lost, shape.size))
    /\ \A u \in Read :
         result[u] = Cardinality({b \in selected \ (Gathered \cup Lost) :
                                    u \in SliceOf(b, KBlockN(shape))})
                     + (IF u \in TokensOf(Gathered, shape.size) THEN 1 ELSE 0)

\* flash_attn_with_sparse_block_table: "If empty the call returns O=0, LSE=-inf".
EmptyTableIsEmptyPartial ==
  stage = "done" /\ selected = {} /\ ~rejected => result = Nothing
=============================================================================
