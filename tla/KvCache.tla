------------------------------- MODULE KvCache -------------------------------
(***************************************************************************)
(* The K/V cache of one attention model during generation, and the three   *)
(* ways MHA.forward writes and reads it.  An entry is abstracted to what   *)
(* it depends on: the K/V of position p of a causal model is a function of *)
(* the tokens 0..p that were visible when it was computed, so an entry is  *)
(* that sequence of tokens, or Stale when it was computed from anything    *)
(* that is not one sequence (another call's entries, uninitialised memory, *)
(* a wrong position id).                                                   *)
(***************************************************************************)
EXTENDS Integers, Sequences

Stale == <<0>>           \* tokens are positive, so this is no sequence of them
NoLengths == -1          \* inference_params.lengths_per_sample is None

Cells(n) == 0 .. n - 1

FreshCache(n) == [p \in Cells(n) |-> Stale]      \* torch.empty, or an old call's

\* rows: the entries of lengths_per_sample, one per sequence it was made for.
InferenceParams(maxLen, maxBatch, lengths) ==
  [maxLen |-> maxLen, maxBatch |-> maxBatch, offset |-> 0, lengths |-> lengths,
   rows |-> maxBatch]

\* reset zeroes lengths_per_sample in place: it keeps its rows.
Reset(ip, maxLen, maxBatch) ==
  [ip EXCEPT !.maxLen = maxLen, !.maxBatch = maxBatch, !.offset = 0,
             !.lengths = IF ip.lengths = NoLengths THEN NoLengths ELSE 0]

\* The text the entries before position p stand for, Stale if they are not the
\* entries of one text.
Past(cells, p) ==
  IF p = 0 THEN <<>>
  ELSE IF /\ Len(cells[p - 1]) = p
          /\ \A j \in Cells(p) : cells[j] # Stale /\ cells[j] = SubSeq(cells[p - 1], 1, j + 1)
       THEN cells[p - 1]
       ELSE Stale

\* Which path of MHA.forward a call takes.  arch: "rotary" (flash attention,
\* rotary_dim a positive multiple of 16), "flash" (flash attention, positions
\* from the embedding), "plain" (no flash attention).
AttentionPath(arch, ip) ==
  IF ip.offset = 0 \/ arch = "plain" THEN "write_then_attend"
  ELSE IF arch = "rotary" THEN "rotary_append"
  ELSE "append"

CacheSeqlens(ip) == IF ip.lengths # NoLengths THEN ip.lengths ELSE ip.offset

\* _apply_rotary_update_kvcache_attention and the second branch of
\* _update_kvcache_attention append at cache_seqlens; _update_kv_cache writes
\* at seqlen_offset.
WriteAt(arch, ip) ==
  IF AttentionPath(arch, ip) = "write_then_attend" THEN ip.offset ELSE CacheSeqlens(ip)

\* The position the new keys are encoded with: rotary by the lengths (or the
\* offset), position embeddings by the caller's position_ids.
PositionOf(arch, ip, positions) ==
  IF arch = "flash" THEN positions ELSE CacheSeqlens(ip)

Fits(cells, at, n) == at >= 0 /\ at + n - 1 \in DOMAIN cells

\* What the code asserts of n tokens of `batch` sequences before it evaluates them.
\* apply_rotary takes the lengths whole, one row per sequence, where the appending
\* path slices them; the kernel of that path wants a table as long as the cache.
Accepts(arch, ip, cells, batch, n, tableLen) ==
  /\ Fits(cells, WriteAt(arch, ip), n)
  /\ AttentionPath(arch, ip) = "rotary_append" =>
       ip.offset > 0 /\ DOMAIN cells \subseteq Cells(tableLen)
  /\ arch # "flash" /\ AttentionPath(arch, ip) # "rotary_append" =>
       /\ n <= tableLen
       /\ IF ip.lengths # NoLengths THEN ip.rows = batch ELSE ip.offset + n <= tableLen

\* The cache after the tokens toks have been evaluated: causal attention of a
\* position reads every entry before it.  intact: the rotary table read is one.
Evaluate(arch, ip, cells, toks, positions, intact) ==
  LET at == WriteAt(arch, ip)
      past == IF intact /\ PositionOf(arch, ip, positions) = at THEN Past(cells, at) ELSE Stale
  IN  [p \in DOMAIN cells |->
         IF p \notin at .. at + Len(toks) - 1 THEN cells[p]
         ELSE IF past = Stale THEN Stale
         ELSE past \o SubSeq(toks, 1, p - at + 1)]

\* What the logits of the last n of the evaluated tokens depend on.
Contexts(arch, ip, cells, len, n) ==
  LET end == WriteAt(arch, ip) + len
  IN  [i \in 1 .. n |-> IF end - n + i - 1 \in DOMAIN cells
                        THEN cells[end - n + i - 1] ELSE Stale]
=============================================================================
