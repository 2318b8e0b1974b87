------------------------ MODULE FaultTolerantSampler ------------------------
(***************************************************************************)
(* FaultTolerantDistributedSampler: the indices of one rank, and how many  *)
(* of them were drawn.  `left` is what its iterator has still to yield.    *)
(***************************************************************************)
EXTENDS Integers, SequencesExt

CONSTANTS Shuffle,        \* epoch |-> torch.randperm of the dataset under seed + epoch
          NumReplicas

ASSUME SamplerAssumption ==
  /\ NumReplicas \in Nat \ {0}
  /\ 0 \in DOMAIN Shuffle
  /\ \A e \in DOMAIN Shuffle : /\ Shuffle[e] \in Seq(Nat) /\ IsInjective(Shuffle[e])
                              /\ Len(Shuffle[e]) = Len(Shuffle[0])

Ranks == 0 .. NumReplicas - 1
CeilDiv(a, b) == (a + b - 1) \div b
Least(a, b) == IF a < b THEN a ELSE b

DatasetSize == Len(Shuffle[0])
NumSamples == CeilDiv(DatasetSize, NumReplicas)
TotalSize == NumSamples * NumReplicas

\* Every rank gets as many: the first indices are repeated, over and over if
\* the padding is larger than the dataset.
Padding(order) == [i \in 1 .. TotalSize - Len(order) |-> order[((i - 1) % Len(order)) + 1]]
\* mutant: every rank draws the samples of the first
FirstRankIndices(rank, epoch) ==
  LET indices == Shuffle[epoch] \o Padding(Shuffle[epoch])
  IN  [i \in 1 .. NumSamples |-> indices[1 + (i - 1) * NumReplicas]]
EpochIndices(rank, epoch) ==
  LET indices == Shuffle[epoch] \o Padding(Shuffle[epoch])
  IN  [i \in 1 .. NumSamples |-> indices[rank + 1 + (i - 1) * NumReplicas]]

NewSampler == [epoch |-> 0, counter |-> 0, restarting |-> FALSE, left |-> <<>>]
load_state_dict(sampler, epoch, counter) ==
  [sampler EXCEPT !.epoch = epoch, !.counter = counter, !.restarting = TRUE]
set_epoch(sampler, epoch) == [sampler EXCEPT !.epoch = epoch]

\* __iter__ up to its loop: a sampler that is restarting goes on after the
\* indices it had drawn, once.
Iterate(sampler, rank) ==
  LET drawn == IF sampler.restarting THEN sampler.counter ELSE 0
      indices == EpochIndices(rank, sampler.epoch)
  IN  [sampler EXCEPT !.counter = drawn, !.restarting = FALSE,
                      !.left = SubSeq(indices, drawn + 1, NumSamples)]

\* The loop: n indices, and the counter is reset when there are no more.
Drawn(sampler, n) == SubSeq(sampler.left, 1, Least(n, Len(sampler.left)))
Draw(sampler, n) ==
  LET k == Len(Drawn(sampler, n))
  IN  [sampler EXCEPT !.counter = IF k < n THEN 0 ELSE sampler.counter + k,
                      !.left = SubSeq(sampler.left, k + 1, Len(sampler.left))]
=============================================================================
