---------------------------- MODULE SparseSplit ----------------------------
(***************************************************************************)
(* Which part of params.ptr_sparse_block_table one CTA of a split-KV       *)
(* launch attends to.  load_sparse (producer) and mma_sparse (consumer)    *)
(* compute it independently from the same split_idx; the combine kernel    *)
(* then adds the splits up, so the slices have to partition the table.     *)
(***************************************************************************)
EXTENDS Integers

(* split_idx carries a dynamic number of splits in its high 16 bits.       *)
SplitBits == 65536

CeilDiv(a, b) == (a + b - 1) \div b

Lesser(a, b) == IF a <= b THEN a ELSE b
Greater(a, b) == IF a >= b THEN a ELSE b

(* Mutant: a split beyond the end of the table is not clamped to nothing.  *)
SliceUnclamped(idx, n, total) ==
  LET per_split == IF total <= 0 THEN 0 ELSE CeilDiv(total, n)
      begin     == idx * per_split
      end       == Lesser(begin + per_split, total)
  IN [begin |-> begin, num |-> end - begin]

(* Entries begin .. begin + num - 1 (counted from 0) of a table of total   *)
(* entries for the idx-th of n splits; trailing splits may be empty.       *)
Slice(idx, n, total) ==
  LET per_split == IF total <= 0 THEN 0 ELSE CeilDiv(total, n)
      begin     == idx * per_split
      end       == Lesser(begin + per_split, total)
  IN [begin |-> begin, num |-> Greater(0, end - begin)]

NumSplitsActual(split_idx, num_splits) ==
  LET dynamic == split_idx \div SplitBits
  IN IF dynamic > 0 THEN dynamic ELSE num_splits

SplitRange(split_idx, num_splits, total) ==
  Slice(split_idx % SplitBits, NumSplitsActual(split_idx, num_splits), total)

(* The table positions a slice covers.                                     *)
Covers(r, x) == r.begin <= x /\ x < r.begin + r.num
=============================================================================
