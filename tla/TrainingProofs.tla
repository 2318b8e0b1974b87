--------------------------- MODULE TrainingProofs ---------------------------
(***************************************************************************)
(* Resumed training is uninterrupted training, for every dataset, number   *)
(* of ranks, batch size, accumulation and period of the checkpoints, and   *)
(* however often it is stopped.                                            *)
(***************************************************************************)
EXTENDS Training, SequenceTheorems, TLAPS

-----------------------------------------------------------------------------
(* The inductive invariant.                                                *)

Sample == {EpochIndices(r, e)[i] : r \in Ranks, e \in Nat, i \in 1 .. NumSamples}
Batch == Seq(Sample)
Accumulated == Seq([Ranks -> Batch])
File == {"last.ckpt", ".pl_auto_save.ckpt"}
SamplerSet == [epoch : Nat, counter : Nat, restarting : BOOLEAN, left : Seq(Sample)]
CheckpointSet == [weights : Seq(Accumulated), epoch : Nat, steps : Nat, completed : Nat]

TypeInv ==
  /\ pc \in {"stopped", "next", "trained", "end", "finished"}
  /\ loop \in [epoch : Nat, ready : Nat, steps : Nat]
  /\ sampler \in [Ranks -> SamplerSet]
  /\ queue \in [Ranks -> Seq(Batch)]
  /\ gradient \in Accumulated
  /\ weights \in Seq(Accumulated)
  /\ DOMAIN disk \subseteq File
  /\ \A f \in DOMAIN disk : disk[f] \in CheckpointSet
  /\ DOMAIN disk # {} => newer \in DOMAIN disk

\* w is where uninterrupted training is after `steps` steps of epoch `epoch`.
Uninterrupted(w) == \A k \in 1 .. Len(w) : w[k] = StepOf(k - 1)
At(w, epoch, steps) ==
  /\ Uninterrupted(w)
  /\ Len(w) = epoch * StepsPerEpoch + steps
  /\ steps \in 0 .. StepsPerEpoch

DiskInv ==
  \A f \in DOMAIN disk :
    /\ At(disk[f].weights, disk[f].epoch, disk[f].steps)
    /\ disk[f].completed = disk[f].steps * accumulate_grad_batches
    /\ Len(disk[f].weights) <= Len(disk[newer].weights)

\* With sampler s and queue q, the loader of rank r is at batch b: it has drawn
\* the batches from b on that are in q, and its sampler yields those after them.
LoaderAt(s, q, r, epoch, b) ==
  /\ \A i \in 1 .. Len(q) : q[i] = BatchOf(epoch, b + i - 1)[r] /\ (b + i - 1) * batch_size < NumSamples
  /\ s.left = SubSeq(EpochIndices(r, epoch), (b + Len(q)) * batch_size + 1, NumSamples)
  /\ ~s.restarting

GradientInv ==
  LET first == loop.steps * accumulate_grad_batches
      n == Len(gradient)
  IN  /\ \A i \in 1 .. n : gradient[i] = BatchOf(loop.epoch, first + i - 1)
      /\ loop.steps < StepsPerEpoch =>
           /\ loop.ready = first + n
           /\ pc = "trained" => n \in 1 .. accumulate_grad_batches /\ loop.ready <= BatchesPerEpoch
           /\ pc # "trained" => n < accumulate_grad_batches /\ loop.ready < BatchesPerEpoch
      /\ loop.steps = StepsPerEpoch =>
           pc # "trained" /\ n = 0 /\ loop.ready >= BatchesPerEpoch

RunningInv ==
  Running => /\ At(weights, loop.epoch, loop.steps)
             /\ GradientInv
             /\ \A r \in Ranks : LoaderAt(sampler[r], queue[r], r, loop.epoch, loop.ready)
             /\ \A f \in DOMAIN disk : Len(disk[f].weights) <= Len(weights)

IInv ==
  /\ TypeInv
  /\ Uninterrupted(weights)
  /\ DiskInv
  /\ RunningInv

-----------------------------------------------------------------------------
(* Arithmetic of batches and steps.                                        *)

LEMMA CeilDivBelow ==
  ASSUME NEW a \in Nat, NEW b \in Nat \ {0}
  PROVE  /\ CeilDiv(a, b) \in Nat
         /\ \A x \in Nat : x < CeilDiv(a, b) <=> x * b < a
<1> DEFINE n == a + b - 1
           q == n \div b
<1>1. q \in Nat /\ b * q <= n /\ n < b * q + b
  <2>1. n \in Nat
    OBVIOUS
  <2>2. q \in Nat /\ n % b \in 0 .. b - 1 /\ n = b * q + (n % b)
    BY <2>1
  <2> QED BY <2>1, <2>2
<1>2. CeilDiv(a, b) = q
  BY DEF CeilDiv
<1> HIDE DEF q
<1>3. ASSUME NEW x \in Nat, x < q
      PROVE  x * b < a
  <2>1. PICK d \in Nat : q = x + 1 + d
    BY <1>1, <1>3, q - x - 1 \in Nat
  <2>2. b * q = b * x + b + b * d /\ b * d \in Nat /\ b * x \in Nat /\ b * x = x * b
    BY <2>1
  <2> QED BY <1>1, <2>2
<1>4. ASSUME NEW x \in Nat, x >= q
      PROVE  x * b >= a
  <2>1. PICK d \in Nat : x = q + d
    BY <1>1, <1>4, x - q \in Nat
  <2>2. x * b = b * q + b * d /\ b * d \in Nat /\ b * q \in Nat
    BY <1>1, <2>1
  <2> QED BY <1>1, <2>2
<1>5. \A x \in Nat : x * b \in Nat
  OBVIOUS
<1> QED BY <1>1, <1>2, <1>3, <1>4, <1>5

LEMMA DivMod ==
  ASSUME NEW e \in Nat, NEW n \in Nat \ {0}, NEW s \in 0 .. n - 1
  PROVE  (e * n + s) \div n = e /\ (e * n + s) % n = s
<1> DEFINE m == e * n + s
           q == m \div n
<1>1. m \in Nat /\ e * n \in Nat
  OBVIOUS
<1>2. q \in Nat /\ m % n \in 0 .. n - 1 /\ m = n * q + (m % n)
  BY <1>1
<1> HIDE DEF q
<1>3. ~(q < e)
  <2> SUFFICES ASSUME q < e PROVE FALSE
    OBVIOUS
  <2>1. PICK d \in Nat : e = q + 1 + d
    BY <1>2, e - q - 1 \in Nat
  <2>2. e * n = n * q + n + d * n /\ d * n \in Nat /\ n * q \in Nat
    BY <1>2, <2>1
  <2> QED BY <1>2, <2>2
<1>4. ~(e < q)
  <2> SUFFICES ASSUME e < q PROVE FALSE
    OBVIOUS
  <2>1. PICK d \in Nat : q = e + 1 + d
    BY <1>2, q - e - 1 \in Nat
  <2>2. n * q = e * n + n + d * n /\ d * n \in Nat
    BY <1>2, <2>1
  <2> QED BY <1>1, <1>2, <2>2
<1>5. q = e
  BY <1>2, <1>3, <1>4
<1>6. m % n = s
  <2>1. n * q = e * n
    BY <1>5
  <2> QED BY <1>1, <1>2, <2>1
<1> QED BY <1>5, <1>6 DEF q

LEMMA LastOfAccumulation ==
  ASSUME NEW s \in Nat, NEW a \in Nat \ {0}, NEW g \in 1 .. a
  PROVE  (s * a + g) % a = 0 <=> g = a
<1>1. CASE g = a
  <2>1. s * a + g = (s + 1) * a + 0
    BY <1>1
  <2> QED BY <1>1, <2>1, DivMod
<1>2. CASE g # a
  BY <1>2, DivMod
<1> QED BY <1>1, <1>2

LEMMA Sizes ==
  /\ batch_size \in Nat \ {0} /\ accumulate_grad_batches \in Nat \ {0}
  /\ NumSamples \in Nat /\ BatchesPerEpoch \in Nat /\ StepsPerEpoch \in Nat
  /\ \A x \in Nat : x < BatchesPerEpoch <=> x * batch_size < NumSamples
  /\ \A x \in Nat : x < StepsPerEpoch <=> x * accumulate_grad_batches < BatchesPerEpoch
<1>1. DatasetSize \in Nat
  BY SamplerAssumption, LenProperties DEF DatasetSize
<1> batch_size \in Nat \ {0} /\ accumulate_grad_batches \in Nat \ {0}
  BY TrainingAssumption
<1>2. NumSamples \in Nat
  BY <1>1, SamplerAssumption, CeilDivBelow DEF NumSamples
<1>3. BatchesPerEpoch \in Nat /\ \A x \in Nat : x < BatchesPerEpoch <=> x * batch_size < NumSamples
  BY <1>2, CeilDivBelow DEF BatchesPerEpoch
<1>4. StepsPerEpoch \in Nat /\ \A x \in Nat : x < StepsPerEpoch <=> x * accumulate_grad_batches < BatchesPerEpoch
  BY <1>3, CeilDivBelow DEF StepsPerEpoch
<1> QED BY <1>2, <1>3, <1>4

-----------------------------------------------------------------------------
(* Batches.                                                                *)

LEMMA PartOf ==
  ASSUME NEW S, NEW s \in Seq(S), NEW m \in Nat \ {0}, NEW n \in 0 .. Len(s)
  PROVE  /\ SubSeq(s, m, n) \in Seq(S)
         /\ Len(SubSeq(s, m, n)) = IF m <= n THEN n - m + 1 ELSE 0
         /\ \A i \in 1 .. Len(SubSeq(s, m, n)) : SubSeq(s, m, n)[i] = s[m + i - 1]
<1>1. Len(s) \in Nat /\ m \in Int /\ n \in Int
  BY LenProperties
<1>2. \A i \in m .. n : s[i] \in S
  BY <1>1, ElementOfSeq
<1>3. /\ SubSeq(s, m, n) \in Seq(S)
      /\ Len(SubSeq(s, m, n)) = IF m <= n THEN n - m + 1 ELSE 0
      /\ \A i \in 1 .. n - m + 1 : SubSeq(s, m, n)[i] = s[m + i - 1]
  BY <1>1, <1>2, SubSeqProperties
<1> QED BY <1>1, <1>3

LEMMA EpochIndicesType ==
  ASSUME NEW r \in Ranks, NEW e \in Nat
  PROVE  /\ EpochIndices(r, e) \in Seq(Sample)
         /\ Len(EpochIndices(r, e)) = NumSamples
         /\ \A i \in 1 .. NumSamples : EpochIndices(r, e)[i] \in Sample
<1> DEFINE I == EpochIndices(r, e)
<1>1. DOMAIN I = 1 .. NumSamples
  BY DEF EpochIndices
<1>2. \A i \in 1 .. NumSamples : I[i] \in Sample
  BY DEF Sample
<1>3. I = [i \in 1 .. NumSamples |-> I[i]]
  BY DEF EpochIndices
<1> HIDE DEF I
<1>4. I \in [1 .. NumSamples -> Sample]
  BY <1>1, <1>2, <1>3
<1>5. I \in Seq(Sample)
  BY <1>4, Sizes, SeqDef
<1>6. Len(I) = NumSamples
  BY <1>1, <1>5, Sizes, LenProperties
<1> QED BY <1>2, <1>5, <1>6 DEF I

LEMMA EndOfBatch ==
  ASSUME NEW b \in Nat
  PROVE  /\ Least((b + 1) * batch_size, NumSamples) \in 0 .. NumSamples
         /\ b * batch_size \in Nat /\ (b + 1) * batch_size = b * batch_size + batch_size
<1>1. NumSamples \in Nat /\ batch_size \in Nat
  BY Sizes
<1>2. b * batch_size \in Nat /\ (b + 1) * batch_size = b * batch_size + batch_size
  BY <1>1
<1> QED BY <1>1, <1>2 DEF Least

LEMMA BatchOfRank ==
  ASSUME NEW e \in Nat, NEW b \in Nat
  PROVE  /\ BatchOf(e, b) \in [Ranks -> Batch]
         /\ \A r \in Ranks : BatchOf(e, b)[r] =
              SubSeq(EpochIndices(r, e), b * batch_size + 1, Least((b + 1) * batch_size, NumSamples))
<1> DEFINE last == Least((b + 1) * batch_size, NumSamples)
<1>1. last \in 0 .. NumSamples /\ b * batch_size \in Nat /\ NumSamples \in Nat
  BY EndOfBatch, Sizes
<1> HIDE DEF last
<1>2. ASSUME NEW r \in Ranks
      PROVE  SubSeq(EpochIndices(r, e), b * batch_size + 1, last) \in Seq(Sample)
  BY <1>1, EpochIndicesType, SubSeqProperties
<1> QED BY <1>2 DEF BatchOf, Batch, last

LEMMA Remaining ==
  ASSUME NEW r \in Ranks, NEW e \in Nat, NEW x \in Nat
  PROVE  LET left == SubSeq(EpochIndices(r, e), x + 1, NumSamples) IN
         /\ left \in Seq(Sample)
         /\ Len(left) = IF x < NumSamples THEN NumSamples - x ELSE 0
         /\ \A i \in 1 .. Len(left) : left[i] = EpochIndices(r, e)[x + i]
         /\ left = <<>> <=> x >= NumSamples
<1> DEFINE I == EpochIndices(r, e)
           left == SubSeq(I, x + 1, NumSamples)
<1>1. NumSamples \in Nat /\ I \in Seq(Sample) /\ Len(I) = NumSamples
  BY Sizes, EpochIndicesType
<1> HIDE DEF I
<1>2. x + 1 \in Nat \ {0} /\ NumSamples \in 0 .. Len(I)
  BY <1>1
<1>3. /\ left \in Seq(Sample)
      /\ Len(left) = IF x + 1 <= NumSamples THEN NumSamples - (x + 1) + 1 ELSE 0
      /\ \A i \in 1 .. Len(left) : left[i] = I[x + 1 + i - 1]
  BY <1>1, <1>2, PartOf
<1>4. left = <<>> <=> Len(left) = 0
  BY <1>3, EmptySeq
<1> HIDE DEF left
<1>5. Len(left) = IF x < NumSamples THEN NumSamples - x ELSE 0
  BY <1>1, <1>3
<1>6. \A i \in 1 .. Len(left) : left[i] = I[x + i]
  <2>1. \A i \in 1 .. Len(left) : x + 1 + i - 1 = x + i
    BY <1>1, <1>5
  <2> QED BY <1>3, <2>1
<1>7. left = <<>> <=> x >= NumSamples
  BY <1>1, <1>4, <1>5
<1> QED BY <1>3, <1>5, <1>6, <1>7 DEF left, I

(* What is left of I after x elements, and what it is cut into after d     *)
(* more.                                                                   *)
IsRest(I, left, x) ==
  x < Len(I) /\ Len(left) = Len(I) - x /\ \A i \in 1 .. Len(left) : left[i] = I[x + i]
Cut(I, left, x, d) ==
  LET k == Least(d, Len(left))
  IN  /\ SubSeq(left, 1, k) = SubSeq(I, x + 1, Least(x + d, Len(I)))
      /\ Len(SubSeq(left, 1, k)) = k
      /\ SubSeq(left, k + 1, Len(left)) = SubSeq(I, x + d + 1, Len(I))

LEMMA CutInTwo ==
  ASSUME NEW S, NEW I \in Seq(S), NEW left \in Seq(S), NEW x \in Nat, NEW d \in Nat \ {0},
         IsRest(I, left, x)
  PROVE  Cut(I, left, x, d)
<1> DEFINE k == Least(d, Len(left))
           last == Least(x + d, Len(I))
           drawn == SubSeq(left, 1, k)
           batch == SubSeq(I, x + 1, last)
           after == SubSeq(left, k + 1, Len(left))
           rest == SubSeq(I, x + d + 1, Len(I))
<1>1. Len(I) \in Nat /\ Len(left) \in Nat /\ x < Len(I) /\ Len(left) = Len(I) - x
  BY LenProperties DEF IsRest
<1>0. \A i \in 1 .. Len(left) : left[i] = I[x + i]
  BY DEF IsRest
<1>2. k \in 1 .. Len(left) /\ last = x + k /\ last \in 0 .. Len(I) /\ (k = d \/ (k = Len(left) /\ k < d))
  <2>1. CASE d < Len(left)
    BY <1>1, <2>1 DEF Least
  <2>2. CASE ~(d < Len(left))
    BY <1>1, <2>2 DEF Least
  <2> QED BY <2>1, <2>2
<1> HIDE DEF k, last
<1>3. drawn = batch /\ Len(drawn) = k
  <2>1. 1 \in Nat \ {0} /\ k \in 0 .. Len(left) /\ x + 1 \in Nat \ {0}
    BY <1>1, <1>2
  <2>2. /\ drawn \in Seq(S)
        /\ Len(drawn) = IF 1 <= k THEN k - 1 + 1 ELSE 0
        /\ \A i \in 1 .. Len(drawn) : drawn[i] = left[1 + i - 1]
    BY <2>1, PartOf
  <2>3. /\ batch \in Seq(S)
        /\ Len(batch) = IF x + 1 <= last THEN last - (x + 1) + 1 ELSE 0
        /\ \A i \in 1 .. Len(batch) : batch[i] = I[x + 1 + i - 1]
    BY <1>2, <2>1, PartOf
  <2> HIDE DEF batch, drawn
  <2>4. Len(drawn) = k /\ Len(batch) = k
    BY <1>1, <1>2, <2>2, <2>3
  <2>5. ASSUME NEW i \in 1 .. k PROVE drawn[i] = batch[i]
    <3>1. 1 + i - 1 = i /\ i \in 1 .. Len(left) /\ x + 1 + i - 1 = x + i
      BY <1>1, <1>2
    <3> QED BY <1>0, <2>2, <2>3, <2>4, <3>1
  <2>6. drawn = batch
    BY <2>2, <2>3, <2>4, <2>5, SeqEqual
  <2> QED BY <2>4, <2>6
<1>4. after = rest
  <2>1. k + 1 \in Nat \ {0} /\ Len(left) \in 0 .. Len(left)
        /\ x + d + 1 \in Nat \ {0} /\ Len(I) \in 0 .. Len(I)
    BY <1>1, <1>2
  <2>2. /\ after \in Seq(S)
        /\ Len(after) = IF k + 1 <= Len(left) THEN Len(left) - (k + 1) + 1 ELSE 0
        /\ \A i \in 1 .. Len(after) : after[i] = left[k + 1 + i - 1]
    BY <2>1, PartOf
  <2>3. /\ rest \in Seq(S)
        /\ Len(rest) = IF x + d + 1 <= Len(I) THEN Len(I) - (x + d + 1) + 1 ELSE 0
        /\ \A i \in 1 .. Len(rest) : rest[i] = I[x + d + 1 + i - 1]
    BY <2>1, PartOf
  <2> HIDE DEF after, rest
  <2>4. Len(after) = Len(left) - k
    BY <1>1, <1>2, <2>2
  <2>5. Len(rest) = Len(left) - k
    <3>1. CASE k = d
      BY <1>1, <1>2, <2>3, <3>1
    <3>2. CASE k = Len(left) /\ k < d
      BY <1>1, <1>2, <2>3, <3>2
    <3> QED BY <1>2, <3>1, <3>2
  <2>6. ASSUME NEW i \in 1 .. Len(left) - k PROVE after[i] = rest[i]
    <3>1. k = d /\ k + 1 + i - 1 \in 1 .. Len(left)
      BY <1>1, <1>2
    <3>2. x + (k + 1 + i - 1) = x + d + 1 + i - 1
      BY <3>1
    <3>3. after[i] = left[k + 1 + i - 1] /\ rest[i] = I[x + d + 1 + i - 1]
      BY <2>2, <2>3, <2>4, <2>5
    <3> QED BY <1>0, <3>1, <3>2, <3>3
  <2> QED BY <2>2, <2>3, <2>4, <2>5, <2>6, SeqEqual
<1> QED BY <1>3, <1>4 DEF k, last, Cut

(* What the loader draws from what is left is the next batch, and leaves   *)
(* what comes after it.                                                    *)
LEMMA DrawsNextBatch ==
  ASSUME NEW r \in Ranks, NEW e \in Nat, NEW b \in Nat
  PROVE  LET left == SubSeq(EpochIndices(r, e), b * batch_size + 1, NumSamples)
             k == Least(batch_size, Len(left))
         IN  left # <<>> =>
               /\ b * batch_size < NumSamples
               /\ SubSeq(left, 1, k) = BatchOf(e, b)[r]
               /\ Len(SubSeq(left, 1, k)) = k
               /\ SubSeq(left, k + 1, Len(left)) =
                    SubSeq(EpochIndices(r, e), (b + 1) * batch_size + 1, NumSamples)
<1> DEFINE I == EpochIndices(r, e)
           x == b * batch_size
           left == SubSeq(I, x + 1, NumSamples)
<1> SUFFICES ASSUME left # <<>>
    PROVE  LET k == Least(batch_size, Len(left)) IN
           /\ x < NumSamples
           /\ SubSeq(left, 1, k) = BatchOf(e, b)[r]
           /\ Len(SubSeq(left, 1, k)) = k
           /\ SubSeq(left, k + 1, Len(left)) = SubSeq(I, (b + 1) * batch_size + 1, NumSamples)
  OBVIOUS
<1>1. x \in Nat /\ (b + 1) * batch_size = x + batch_size /\ batch_size \in Nat \ {0} /\ NumSamples \in Nat
  BY Sizes, EndOfBatch
<1>2. BatchOf(e, b)[r] = SubSeq(I, x + 1, Least(x + batch_size, NumSamples))
  BY <1>1, BatchOfRank
<1> HIDE DEF x
<1>3. /\ left \in Seq(Sample)
      /\ Len(left) = IF x < NumSamples THEN NumSamples - x ELSE 0
      /\ \A i \in 1 .. Len(left) : left[i] = I[x + i]
      /\ left = <<>> <=> x >= NumSamples
  BY <1>1, Remaining
<1>4. I \in Seq(Sample) /\ Len(I) = NumSamples
  BY EpochIndicesType
<1> HIDE DEF I, left
<1>5. x < Len(I) /\ Len(left) = Len(I) - x
  BY <1>1, <1>3, <1>4
<1>6. Cut(I, left, x, batch_size)
  <2>1. IsRest(I, left, x)
    BY <1>3, <1>5 DEF IsRest
  <2> QED BY <1>1, <1>3, <1>4, <2>1, CutInTwo
<1> QED BY <1>1, <1>2, <1>4, <1>5, <1>6 DEF Cut

LEMMA StepOfAt ==
  ASSUME NEW e \in Nat, NEW s \in Nat, s < StepsPerEpoch
  PROVE  StepOf(e * StepsPerEpoch + s) =
           [i \in 1 .. Least(accumulate_grad_batches, BatchesPerEpoch - s * accumulate_grad_batches) |->
              BatchOf(e, s * accumulate_grad_batches + i - 1)]
<1>1. StepsPerEpoch \in Nat \ {0} /\ s \in 0 .. StepsPerEpoch - 1
  BY Sizes
<1>2. (e * StepsPerEpoch + s) % StepsPerEpoch = s /\ (e * StepsPerEpoch + s) \div StepsPerEpoch = e
  BY <1>1, DivMod
<1> QED BY <1>2 DEF StepOf

-----------------------------------------------------------------------------
(* What the actions compute.                                               *)

LEMMA Iterates ==
  ASSUME NEW r \in Ranks, NEW s \in SamplerSet
  PROVE  /\ Iterate(s, r) \in SamplerSet
         /\ ~Iterate(s, r).restarting
         /\ Iterate(s, r).left = SubSeq(EpochIndices(r, s.epoch), (IF s.restarting THEN s.counter ELSE 0) + 1, NumSamples)
<1> DEFINE drawn == IF s.restarting THEN s.counter ELSE 0
           left == SubSeq(EpochIndices(r, s.epoch), drawn + 1, NumSamples)
<1>1. s.epoch \in Nat /\ drawn \in Nat
  BY DEF SamplerSet
<1>2. left \in Seq(Sample)
  BY <1>1, Remaining
<1>3. Iterate(s, r) = [s EXCEPT !.counter = drawn, !.restarting = FALSE, !.left = left]
  BY DEF Iterate
<1> HIDE DEF left, drawn
<1>4. /\ Iterate(s, r) \in SamplerSet
      /\ ~Iterate(s, r).restarting
      /\ Iterate(s, r).left = left
  BY <1>1, <1>2, <1>3 DEF SamplerSet
<1> QED BY <1>4 DEF left, drawn

LEMMA NewSamplers ==
  /\ NewSampler \in SamplerSet
  /\ \A s \in SamplerSet, e \in Nat : set_epoch(s, e) \in SamplerSet
  /\ \A s \in SamplerSet, e, n \in Nat : load_state_dict(s, e, n) \in SamplerSet
<1>1. <<>> \in Seq(Sample)
  BY EmptySeq
<1> QED BY <1>1 DEF NewSampler, set_epoch, load_state_dict, SamplerSet

LEMMA DrawnTypes ==
  ASSUME NEW s \in SamplerSet
  PROVE  Drawn(s, batch_size) \in Batch /\ Draw(s, batch_size) \in SamplerSet
<1> DEFINE k == Least(batch_size, Len(s.left))
           n == Len(Drawn(s, batch_size))
           after == SubSeq(s.left, n + 1, Len(s.left))
<1>1. s.left \in Seq(Sample) /\ s.counter \in Nat /\ s.epoch \in Nat /\ s.restarting \in BOOLEAN
  BY DEF SamplerSet
<1>2. Len(s.left) \in Nat /\ batch_size \in Nat
  BY <1>1, LenProperties, Sizes
<1>3. k \in 0 .. Len(s.left)
  BY <1>2 DEF Least
<1>4. Drawn(s, batch_size) \in Seq(Sample)
  <2> HIDE DEF k
  <2>1. 1 \in Nat \ {0}
    OBVIOUS
  <2>2. SubSeq(s.left, 1, k) \in Seq(Sample)
    BY <1>1, <1>3, <2>1, PartOf
  <2> QED BY <2>2 DEF Drawn, k
<1>5. n \in Nat
  BY <1>4, LenProperties
<1>6. after \in Seq(Sample)
  <2> HIDE DEF n
  <2>1. n + 1 \in Nat \ {0} /\ Len(s.left) \in 0 .. Len(s.left)
    BY <1>2, <1>5
  <2> QED BY <1>1, <2>1, PartOf
<1>7. Draw(s, batch_size) = [s EXCEPT !.counter = IF n < batch_size THEN 0 ELSE s.counter + n, !.left = after]
  BY DEF Draw
<1> HIDE DEF n, after
<1>8. (IF n < batch_size THEN 0 ELSE s.counter + n) \in Nat
  BY <1>1, <1>5
<1>9. Draw(s, batch_size) \in SamplerSet
  BY <1>1, <1>6, <1>7, <1>8 DEF SamplerSet
<1> QED BY <1>4, <1>9 DEF Batch

(* The checkpoint that train.py resumes from is the one written last.      *)
LEMMA ResumesNewest ==
  ASSUME TypeInv, DOMAIN disk # {}
  PROVE  CheckpointPath = newer /\ newer \in DOMAIN disk
BY DEF TypeInv, CheckpointPath, File

LEMMA CheckpointType ==
  ASSUME TypeInv
  PROVE  Checkpoint \in CheckpointSet
<1>1. accumulate_grad_batches \in Nat
  BY Sizes
<1> QED BY <1>1 DEF TypeInv, Checkpoint, CheckpointSet, on_save_checkpoint

LEMMA SaveType ==
  ASSUME TypeInv, NEW f \in File, Save(f)
  PROVE  /\ DOMAIN disk' = DOMAIN disk \cup {f} /\ DOMAIN disk' \subseteq File
         /\ disk'[f] = Checkpoint
         /\ \A g \in DOMAIN disk' : g # f => g \in DOMAIN disk /\ disk'[g] = disk[g]
         /\ \A g \in DOMAIN disk' : disk'[g] \in CheckpointSet
         /\ newer' = f /\ f \in DOMAIN disk'
BY CheckpointType DEF Save, TypeInv

-----------------------------------------------------------------------------
(* The variables keep their types.                                         *)

LEMMA TypeInit == TrainingInit => TypeInv
<1>1. <<>> \in Accumulated /\ <<>> \in Seq(Accumulated) /\ <<>> \in Seq(Batch)
  BY EmptySeq DEF Accumulated
<1> QED BY <1>1, NewSamplers DEF TrainingInit, TypeInv, Accumulated

\* The checkpoint that Start resumes from, and what it leaves.
ResumePoint == IF DOMAIN disk # {} THEN disk[CheckpointPath] ELSE Scratch

LEMMA StartType ==
  ASSUME TypeInv
  PROVE  /\ ResumePoint \in CheckpointSet
         /\ (IF DOMAIN disk # {} THEN train_dataloader(fast_forward(ResumePoint)) ELSE NewSampler) \in SamplerSet
<1>1. ResumePoint \in CheckpointSet
  <2>1. <<>> \in Seq(Accumulated)
    BY EmptySeq
  <2>2. Scratch \in CheckpointSet
    BY <2>1 DEF Scratch, CheckpointSet
  <2> QED BY <2>2, ResumesNewest DEF ResumePoint, TypeInv
<1>2. ResumePoint.epoch \in Nat /\ ResumePoint.completed \in Nat
  BY <1>1 DEF CheckpointSet
<1>3. ResumePoint.completed * batch_size \in Nat
  BY <1>2, Sizes
<1> QED BY <1>1, <1>2, <1>3, NewSamplers DEF train_dataloader, fast_forward

LEMMA TypeNext == TypeInv /\ [TrainingNext]_trainingVars => TypeInv'
<1> SUFFICES ASSUME TypeInv, [TrainingNext]_trainingVars PROVE TypeInv'
  OBVIOUS
<1>1. CASE Start
  <2> DEFINE c == ResumePoint
             loader == IF DOMAIN disk # {} THEN train_dataloader(fast_forward(c)) ELSE NewSampler
  <2>1. c \in CheckpointSet /\ loader \in SamplerSet
    BY StartType
  <2>2. /\ pc' = IF Len(c.weights) >= max_steps THEN "finished" ELSE "next"
        /\ weights' = c.weights
        /\ loop' = [epoch |-> c.epoch, ready |-> c.completed, steps |-> c.steps]
        /\ sampler' = [r \in Ranks |-> Iterate(set_epoch(loader, c.epoch), r)]
        /\ queue' = [r \in Ranks |-> <<>>]
        /\ gradient' = <<>>
        /\ UNCHANGED <<disk, newer>>
    BY <1>1 DEF Start, ResumePoint
  <2> HIDE DEF c, loader
  <2>3. c.weights \in Seq(Accumulated) /\ c.epoch \in Nat /\ c.completed \in Nat /\ c.steps \in Nat
    BY <2>1 DEF CheckpointSet
  <2>4. sampler' \in [Ranks -> SamplerSet]
    <3>1. set_epoch(loader, c.epoch) \in SamplerSet
      BY <2>1, <2>3, NewSamplers
    <3>2. \A r \in Ranks : Iterate(set_epoch(loader, c.epoch), r) \in SamplerSet
      BY <3>1, Iterates
    <3> QED BY <2>2, <3>2
  <2>5. <<>> \in Accumulated /\ <<>> \in Seq(Batch)
    BY EmptySeq DEF Accumulated
  <2> QED BY <2>2, <2>3, <2>4, <2>5 DEF TypeInv
<1>2. ASSUME NEW r \in Ranks, Prefetch(r) PROVE TypeInv'
  <2>1. sampler[r] \in SamplerSet /\ queue[r] \in Seq(Batch)
    BY DEF TypeInv
  <2>2. Drawn(sampler[r], batch_size) \in Batch /\ Draw(sampler[r], batch_size) \in SamplerSet
    BY <2>1, DrawnTypes
  <2>3. Append(queue[r], Drawn(sampler[r], batch_size)) \in Seq(Batch)
    BY <2>1, <2>2
  <2> QED BY <1>2, <2>2, <2>3 DEF TypeInv, Prefetch
<1>3. CASE TrainingStep
  <2>1. \A r \in Ranks : Head(queue[r]) \in Batch /\ Tail(queue[r]) \in Seq(Batch)
    BY <1>3, HeadTailProperties DEF TypeInv, TrainingStep
  <2>2. gradient' \in Accumulated
    <3>1. [r \in Ranks |-> Head(queue[r])] \in [Ranks -> Batch]
      BY <2>1
    <3> QED BY <1>3, <3>1 DEF TypeInv, TrainingStep, Accumulated
  <2>3. queue' \in [Ranks -> Seq(Batch)]
    BY <1>3, <2>1 DEF TrainingStep
  <2>4. loop' \in [epoch : Nat, ready : Nat, steps : Nat]
    <3>1. loop \in [epoch : Nat, ready : Nat, steps : Nat]
      BY DEF TypeInv
    <3>2. loop' = [loop EXCEPT !.ready = loop.ready + 1]
      BY <1>3 DEF TrainingStep
    <3> QED BY <3>1, <3>2
  <2> QED BY <1>3, <2>2, <2>3, <2>4 DEF TypeInv, TrainingStep
<1>4. CASE OptimizerStep
  <2>1. <<>> \in Accumulated
    BY EmptySeq DEF Accumulated
  <2>2. Append(weights, gradient) \in Seq(Accumulated)
    BY DEF TypeInv
  <2>3. loop' \in [epoch : Nat, ready : Nat, steps : Nat]
    BY <1>4 DEF TypeInv, OptimizerStep
  <2> QED BY <1>4, <2>1, <2>2, <2>3 DEF TypeInv, OptimizerStep
<1>5. CASE BatchEnd
  <2>1. CASE Save("last.ckpt")
    BY <1>5, <2>1, SaveType DEF TypeInv, BatchEnd, File
  <2>2. CASE UNCHANGED <<disk, newer, saved>>
    BY <1>5, <2>2 DEF TypeInv, BatchEnd
  <2> QED BY <1>5, <2>1, <2>2 DEF BatchEnd
<1>6. CASE NextEpoch
  <2>1. \A r \in Ranks : Iterate(set_epoch(sampler[r], loop.epoch + 1), r) \in SamplerSet
    <3>1. \A r \in Ranks : set_epoch(sampler[r], loop.epoch + 1) \in SamplerSet
      BY NewSamplers DEF TypeInv
    <3> QED BY <3>1, Iterates
  <2>2. <<>> \in Seq(Batch)
    BY EmptySeq
  <2> QED BY <1>6, <2>1, <2>2 DEF TypeInv, NextEpoch
<1>7. CASE Killed
  BY <1>7 DEF TypeInv, Killed, Stop
<1>8. CASE on_exception
  <2>1. Save(".pl_auto_save.ckpt") /\ Stop
    BY <1>8 DEF on_exception
  <2> QED BY <2>1, SaveType DEF TypeInv, Stop, File
<1>9. CASE UNCHANGED trainingVars
  BY <1>9 DEF TypeInv, trainingVars
<1> QED BY <1>1, <1>2, <1>3, <1>4, <1>5, <1>6, <1>7, <1>8, <1>9 DEF TrainingNext

-----------------------------------------------------------------------------
(* Each action keeps the rest of the invariant.                            *)

LEMMA Gradients ==
  ASSUME TypeInv
  PROVE  /\ loop.epoch \in Nat /\ loop.ready \in Nat /\ loop.steps \in Nat
         /\ Len(gradient) \in Nat /\ Len(weights) \in Nat
         /\ loop.steps * accumulate_grad_batches \in Nat
<1>1. loop.epoch \in Nat /\ loop.ready \in Nat /\ loop.steps \in Nat
  BY DEF TypeInv
<1>2. Len(gradient) \in Nat /\ Len(weights) \in Nat
  BY LenProperties DEF TypeInv, Accumulated
<1>3. loop.steps * accumulate_grad_batches \in Nat
  BY <1>1, Sizes
<1> QED BY <1>1, <1>2, <1>3

LEMMA InitInv == TrainingInit => IInv
<1> SUFFICES ASSUME TrainingInit PROVE IInv
  OBVIOUS
<1>1. Len(<<>>) = 0
  BY EmptySeq
<1>2. Uninterrupted(weights)
  BY <1>1 DEF TrainingInit, Uninterrupted
<1>3. DiskInv /\ RunningInv
  BY DEF TrainingInit, DiskInv, RunningInv, Running
<1> QED BY <1>2, <1>3, TypeInit DEF IInv

LEMMA ResumesAt ==
  ASSUME IInv
  PROVE  LET c == ResumePoint IN
         /\ At(c.weights, c.epoch, c.steps)
         /\ c.completed = c.steps * accumulate_grad_batches
         /\ \A f \in DOMAIN disk : Len(disk[f].weights) <= Len(c.weights)
<1>1. CASE DOMAIN disk # {}
  <2>1. ResumePoint = disk[newer] /\ newer \in DOMAIN disk
    BY <1>1, ResumesNewest DEF ResumePoint, IInv
  <2> QED BY <2>1 DEF IInv, DiskInv
<1>2. CASE DOMAIN disk = {}
  <2>1. ResumePoint = Scratch
    BY <1>2 DEF ResumePoint
  <2>2. 0 * StepsPerEpoch = 0 /\ 0 * accumulate_grad_batches = 0 /\ 0 \in 0 .. StepsPerEpoch
    BY Sizes
  <2>3. Len(<<>>) = 0
    BY EmptySeq
  <2>4. At(<<>>, 0, 0)
    BY <2>2, <2>3 DEF At, Uninterrupted
  <2> QED BY <1>2, <2>1, <2>2, <2>4 DEF Scratch
<1> QED BY <1>1, <1>2

LEMMA StartInv ==
  ASSUME IInv, Start
  PROVE  Uninterrupted(weights)' /\ DiskInv' /\ RunningInv'
<1> DEFINE c == ResumePoint
           loader == IF DOMAIN disk # {} THEN train_dataloader(fast_forward(c)) ELSE NewSampler
<1>1. c \in CheckpointSet /\ loader \in SamplerSet
  BY StartType DEF IInv
<1>2. /\ At(c.weights, c.epoch, c.steps)
      /\ c.completed = c.steps * accumulate_grad_batches
      /\ \A f \in DOMAIN disk : Len(disk[f].weights) <= Len(c.weights)
  BY ResumesAt
<1>3. /\ pc' = IF Len(c.weights) >= max_steps THEN "finished" ELSE "next"
      /\ weights' = c.weights
      /\ loop' = [epoch |-> c.epoch, ready |-> c.completed, steps |-> c.steps]
      /\ sampler' = [r \in Ranks |-> Iterate(set_epoch(loader, c.epoch), r)]
      /\ queue' = [r \in Ranks |-> <<>>]
      /\ gradient' = <<>>
      /\ disk' = disk /\ newer' = newer
  BY DEF Start, ResumePoint
<1>4. IF loader.restarting THEN loader.counter = c.completed * batch_size ELSE c.completed * batch_size = 0
  <2>1. CASE DOMAIN disk # {}
    BY <2>1 DEF train_dataloader, fast_forward, load_state_dict, NewSampler
  <2>2. CASE DOMAIN disk = {}
    <3>1. c.completed = 0 /\ ~loader.restarting
      BY <2>2 DEF ResumePoint, Scratch, NewSampler
    <3> QED BY <3>1, Sizes
  <2> QED BY <2>1, <2>2
<1>5. c.epoch \in Nat /\ c.completed \in Nat /\ c.steps \in Nat
  BY <1>1 DEF CheckpointSet
<1> HIDE DEF c, loader
<1>6. Len(<<>>) = 0
  BY EmptySeq
<1>7. GradientInv' \/ pc' = "finished"
  <2>1. c.steps * accumulate_grad_batches \in Nat /\ accumulate_grad_batches > 0
    BY <1>5, Sizes
  <2>2. c.steps < StepsPerEpoch => c.completed < BatchesPerEpoch
    BY <1>2, <1>5, Sizes
  <2>3. c.steps = StepsPerEpoch => c.completed >= BatchesPerEpoch
    BY <1>2, <1>5, Sizes
  <2> QED BY <1>2, <1>3, <1>6, <2>1, <2>2, <2>3 DEF GradientInv
<1>8. ASSUME NEW r \in Ranks
      PROVE  LoaderAt(sampler'[r], queue'[r], r, c.epoch, c.completed)
  <2> DEFINE s == set_epoch(loader, c.epoch)
  <2>1. s \in SamplerSet /\ s.epoch = c.epoch /\ s.restarting = loader.restarting /\ s.counter = loader.counter
    BY <1>1, <1>5, NewSamplers DEF set_epoch, SamplerSet
  <2>2. sampler'[r] = Iterate(s, r) /\ queue'[r] = <<>>
    BY <1>3
  <2> HIDE DEF s
  <2>3. /\ ~sampler'[r].restarting
        /\ sampler'[r].left = SubSeq(EpochIndices(r, c.epoch), (IF s.restarting THEN s.counter ELSE 0) + 1, NumSamples)
    BY <2>1, <2>2, Iterates
  <2>4. (IF s.restarting THEN s.counter ELSE 0) = (c.completed + 0) * batch_size
    BY <1>4, <1>5, <2>1
  <2>5. sampler'[r].left = SubSeq(EpochIndices(r, c.epoch), (c.completed + Len(queue'[r])) * batch_size + 1, NumSamples)
    BY <1>6, <2>2, <2>3, <2>4
  <2>6. \A i \in 1 .. Len(queue'[r]) : FALSE
    BY <1>6, <2>2
  <2> QED BY <2>3, <2>5, <2>6 DEF LoaderAt
<1>9. Uninterrupted(weights)' /\ DiskInv'
  BY <1>2, <1>3 DEF At, Uninterrupted, DiskInv, IInv
<1>10. RunningInv'
  <2>1. At(weights', loop'.epoch, loop'.steps)
    BY <1>2, <1>3
  <2>2. \A r \in Ranks : LoaderAt(sampler'[r], queue'[r], r, loop'.epoch, loop'.ready)
    BY <1>3, <1>8
  <2>3. \A f \in DOMAIN disk' : Len(disk'[f].weights) <= Len(weights')
    BY <1>2, <1>3
  <2> QED BY <1>7, <2>1, <2>2, <2>3 DEF RunningInv, Running, At, Uninterrupted
<1> QED BY <1>9, <1>10

LEMMA PrefetchInv ==
  ASSUME IInv, NEW p \in Ranks, Prefetch(p)
  PROVE  Uninterrupted(weights)' /\ DiskInv' /\ RunningInv'
<1>1. /\ Running /\ sampler[p].left # <<>>
      /\ queue' = [queue EXCEPT ![p] = Append(queue[p], Drawn(sampler[p], batch_size))]
      /\ sampler' = [sampler EXCEPT ![p] = Draw(sampler[p], batch_size)]
      /\ UNCHANGED <<pc, loop, gradient, weights, disk, newer>>
  BY DEF Prefetch, Running
<1>2. Uninterrupted(weights)' /\ DiskInv'
  BY <1>1 DEF IInv, Uninterrupted, DiskInv
<1>3. At(weights', loop'.epoch, loop'.steps)
  BY <1>1 DEF IInv, RunningInv
<1>4. GradientInv'
  BY <1>1 DEF IInv, RunningInv, GradientInv
<1>5. ASSUME NEW r \in Ranks
      PROVE  LoaderAt(sampler'[r], queue'[r], r, loop.epoch, loop.ready)
  <2> DEFINE e == loop.epoch
             q == queue[p]
             s == sampler[p]
             I == EpochIndices(p, e)
             b == loop.ready + Len(q)
             drawn == Drawn(s, batch_size)
  <2>0. LoaderAt(sampler[r], queue[r], r, e, loop.ready)
    BY <1>1 DEF IInv, RunningInv
  <2>1. CASE r # p
    <3>1. sampler'[r] = sampler[r] /\ queue'[r] = queue[r]
      BY <1>1, <2>1 DEF IInv, TypeInv
    <3> QED BY <2>0, <3>1
  <2>2. CASE r = p
    <3>1. q \in Seq(Batch) /\ s \in SamplerSet /\ e \in Nat /\ loop.ready \in Nat
      BY Gradients DEF IInv, TypeInv
    <3>2. drawn \in Batch /\ Len(q) \in Nat /\ b \in Nat
      BY <3>1, DrawnTypes, LenProperties
    <3>3. queue'[p] = Append(q, drawn) /\ sampler'[p] = Draw(s, batch_size)
      BY <1>1 DEF IInv, TypeInv
    <3>4. /\ \A i \in 1 .. Len(q) : q[i] = BatchOf(e, loop.ready + i - 1)[p] /\ (loop.ready + i - 1) * batch_size < NumSamples
          /\ s.left = SubSeq(I, b * batch_size + 1, NumSamples)
          /\ ~s.restarting
      BY <2>0, <2>2 DEF LoaderAt
    <3>5. LET k == Least(batch_size, Len(s.left)) IN
          /\ b * batch_size < NumSamples
          /\ SubSeq(s.left, 1, k) = BatchOf(e, b)[p]
          /\ Len(SubSeq(s.left, 1, k)) = k
          /\ SubSeq(s.left, k + 1, Len(s.left)) = SubSeq(I, (b + 1) * batch_size + 1, NumSamples)
      <4> DEFINE left == SubSeq(I, b * batch_size + 1, NumSamples)
      <4>1. left # <<>> /\ s.left = left
        BY <1>1, <3>4
      <4> HIDE DEF b, e, s
      <4>2. LET k == Least(batch_size, Len(left)) IN
            /\ b * batch_size < NumSamples
            /\ SubSeq(left, 1, k) = BatchOf(e, b)[p]
            /\ Len(SubSeq(left, 1, k)) = k
            /\ SubSeq(left, k + 1, Len(left)) = SubSeq(I, (b + 1) * batch_size + 1, NumSamples)
        BY <3>1, <3>2, <4>1, DrawsNextBatch
      <4> QED BY <4>1, <4>2
    <3>6. drawn = BatchOf(e, b)[p] /\ b * batch_size < NumSamples
      BY <3>5 DEF Drawn
    <3>7. /\ Draw(s, batch_size).left = SubSeq(I, (b + 1) * batch_size + 1, NumSamples)
          /\ ~Draw(s, batch_size).restarting
      <4>1. Draw(s, batch_size).left = SubSeq(s.left, Len(drawn) + 1, Len(s.left)) /\ Draw(s, batch_size).restarting = s.restarting
        BY <3>1 DEF Draw, SamplerSet
      <4> QED BY <3>4, <3>5, <4>1 DEF Drawn
    <3> DEFINE longer == Append(q, drawn)
    <3> HIDE DEF q, s, drawn, I, e
    <3>8. Len(longer) = Len(q) + 1 /\ longer[Len(q) + 1] = drawn /\ \A i \in 1 .. Len(q) : longer[i] = q[i]
      BY <3>1, <3>2, AppendProperties
    <3> HIDE DEF longer
    <3>9. b + 1 = loop.ready + Len(longer) /\ b = loop.ready + (Len(q) + 1) - 1
      BY <3>1, <3>2, <3>8
    <3>10. ASSUME NEW i \in 1 .. Len(longer)
           PROVE  longer[i] = BatchOf(e, loop.ready + i - 1)[p] /\ (loop.ready + i - 1) * batch_size < NumSamples
      <4>1. CASE i = Len(q) + 1
        <5>1. loop.ready + i - 1 = b
          BY <3>9, <4>1
        <5> QED BY <3>6, <3>8, <4>1, <5>1
      <4>2. CASE i # Len(q) + 1
        <5>1. i \in 1 .. Len(q)
          BY <3>2, <3>8, <4>2
        <5> QED BY <3>4, <3>8, <5>1
      <4> QED BY <4>1, <4>2
    <3>11. Draw(s, batch_size).left = SubSeq(I, (loop.ready + Len(longer)) * batch_size + 1, NumSamples)
      BY <3>7, <3>9
    <3>12. LoaderAt(Draw(s, batch_size), longer, p, e, loop.ready)
      BY <3>7, <3>10, <3>11 DEF LoaderAt, I
    <3> QED BY <2>2, <3>3, <3>12 DEF longer, e
  <2> QED BY <2>1, <2>2
<1>6. RunningInv'
  <2>1. \A f \in DOMAIN disk' : Len(disk'[f].weights) <= Len(weights')
    BY <1>1 DEF IInv, RunningInv
  <2>2. \A r \in Ranks : LoaderAt(sampler'[r], queue'[r], r, loop'.epoch, loop'.ready)
    BY <1>1, <1>5
  <2> QED BY <1>3, <1>4, <2>1, <2>2 DEF RunningInv, At, Uninterrupted
<1> QED BY <1>2, <1>6

LEMMA TrainingStepInv ==
  ASSUME IInv, TrainingStep
  PROVE  Uninterrupted(weights)' /\ DiskInv' /\ RunningInv'
<1> DEFINE e == loop.epoch
           b == loop.ready
           heads == [r \in Ranks |-> Head(queue[r])]
<1>1. /\ pc = "next" /\ pc' = "trained" /\ Running
      /\ \A r \in Ranks : queue[r] # <<>>
      /\ gradient' = Append(gradient, heads)
      /\ queue' = [r \in Ranks |-> Tail(queue[r])]
      /\ loop' = [loop EXCEPT !.ready = b + 1]
      /\ UNCHANGED <<sampler, weights, disk, newer>>
  BY DEF TrainingStep, Running
<1>2. e \in Nat /\ b \in Nat /\ loop.steps \in Nat /\ Len(gradient) \in Nat /\ loop.steps * accumulate_grad_batches \in Nat
  BY Gradients DEF IInv
<1>3. loop'.epoch = e /\ loop'.ready = b + 1 /\ loop'.steps = loop.steps
  BY <1>1 DEF IInv, TypeInv
<1>4. /\ At(weights, e, loop.steps) /\ GradientInv
      /\ \A r \in Ranks : LoaderAt(sampler[r], queue[r], r, e, b)
      /\ \A f \in DOMAIN disk : Len(disk[f].weights) <= Len(weights)
  BY <1>1 DEF IInv, RunningInv
<1>5. ASSUME NEW r \in Ranks
      PROVE  /\ Head(queue[r]) = BatchOf(e, b)[r] /\ b * batch_size < NumSamples
             /\ LoaderAt(sampler[r], Tail(queue[r]), r, e, b + 1)
  <2> DEFINE q == queue[r]
             s == sampler[r]
  <2>1. q \in Seq(Batch) /\ q # <<>>
    BY <1>1 DEF IInv, TypeInv
  <2>2. /\ \A i \in 1 .. Len(q) : q[i] = BatchOf(e, b + i - 1)[r] /\ (b + i - 1) * batch_size < NumSamples
        /\ s.left = SubSeq(EpochIndices(r, e), (b + Len(q)) * batch_size + 1, NumSamples)
        /\ ~s.restarting
    BY <1>4 DEF LoaderAt
  <2> HIDE DEF q, s, e, b
  <2>3. Len(q) \in Nat /\ Len(q) # 0 /\ 1 \in 1 .. Len(q) /\ b + 1 - 1 = b
    BY <1>2, <2>1, LenProperties, EmptySeq DEF b
  <2>4. Head(q) = q[1]
    BY <2>1, HeadTailProperties
  <2>5. Len(Tail(q)) = Len(q) - 1 /\ \A i \in 1 .. Len(Tail(q)) : Tail(q)[i] = q[i + 1]
    BY <2>1, HeadTailProperties
  <2>6. Head(q) = BatchOf(e, b)[r] /\ b * batch_size < NumSamples
    BY <2>2, <2>3, <2>4
  <2>7. ASSUME NEW i \in 1 .. Len(Tail(q))
        PROVE  Tail(q)[i] = BatchOf(e, b + 1 + i - 1)[r] /\ (b + 1 + i - 1) * batch_size < NumSamples
    <3>1. i + 1 \in 1 .. Len(q) /\ b + (i + 1) - 1 = b + 1 + i - 1
      BY <1>2, <2>3, <2>5 DEF b
    <3> QED BY <2>2, <2>5, <3>1
  <2>8. b + 1 + Len(Tail(q)) = b + Len(q)
    BY <1>2, <2>3, <2>5 DEF b
  <2>9. LoaderAt(s, Tail(q), r, e, b + 1)
    BY <2>2, <2>7, <2>8 DEF LoaderAt
  <2> QED BY <2>6, <2>9 DEF q, s
<1>6. heads = BatchOf(e, b)
  BY <1>5 DEF BatchOf
<1>7. b < BatchesPerEpoch
  <2>1. 0 \in Ranks
    BY SamplerAssumption DEF Ranks
  <2> QED BY <1>2, <1>5, <2>1, Sizes
<1>8. loop.steps < StepsPerEpoch
  <2>1. loop.steps \in 0 .. StepsPerEpoch
    BY <1>4 DEF At
  <2>2. loop.steps # StepsPerEpoch
    <3>1. loop.steps = StepsPerEpoch => b >= BatchesPerEpoch
      BY <1>4 DEF GradientInv
    <3> QED BY <1>2, <1>7, <3>1, Sizes
  <2> QED BY <2>1, <2>2, Sizes
<1>9. GradientInv'
  <2> DEFINE first == loop.steps * accumulate_grad_batches
             n == Len(gradient)
  <2>1. /\ \A i \in 1 .. n : gradient[i] = BatchOf(e, first + i - 1)
        /\ b = first + n /\ n < accumulate_grad_batches
    BY <1>1, <1>4, <1>8 DEF GradientInv
  <2>2. gradient \in Accumulated /\ heads \in [Ranks -> Batch]
    <3>1. gradient \in Accumulated
      BY DEF IInv, TypeInv
    <3>2. BatchOf(e, b) \in [Ranks -> Batch]
      BY <1>2, BatchOfRank
    <3> QED BY <1>6, <3>1, <3>2
  <2> HIDE DEF heads
  <2>3. Len(gradient') = n + 1 /\ gradient'[n + 1] = heads /\ \A i \in 1 .. n : gradient'[i] = gradient[i]
    BY <1>1, <2>2, AppendProperties DEF Accumulated
  <2>4. ASSUME NEW i \in 1 .. n + 1
        PROVE  gradient'[i] = BatchOf(e, first + i - 1)
    <3>1. CASE i = n + 1
      <4>1. first + i - 1 = b
        BY <1>2, <2>1, <3>1
      <4> QED BY <1>6, <2>3, <3>1, <4>1
    <3>2. CASE i # n + 1
      <4>1. i \in 1 .. n
        BY <1>2, <3>2
      <4> QED BY <2>1, <2>3, <4>1
    <3> QED BY <3>1, <3>2
  <2>5. b + 1 = first + (n + 1) /\ n + 1 \in 1 .. accumulate_grad_batches /\ b + 1 <= BatchesPerEpoch
    BY <1>2, <1>7, <2>1, Sizes
  <2> HIDE DEF first, n
  <2>6. first = loop'.steps * accumulate_grad_batches /\ n + 1 = Len(gradient')
    BY <1>3, <2>3 DEF first
  <2>7. loop.steps # StepsPerEpoch
    BY <1>2, <1>8, Sizes
  <2> QED BY <1>1, <1>3, <2>4, <2>5, <2>6, <2>7 DEF GradientInv
<1>10. Uninterrupted(weights)' /\ DiskInv'
  BY <1>1 DEF IInv, Uninterrupted, DiskInv
<1>11. RunningInv'
  <2>1. At(weights', loop'.epoch, loop'.steps)
    BY <1>1, <1>3, <1>4
  <2>2. \A f \in DOMAIN disk' : Len(disk'[f].weights) <= Len(weights')
    BY <1>1, <1>4
  <2>3. \A r \in Ranks : LoaderAt(sampler'[r], queue'[r], r, loop'.epoch, loop'.ready)
    BY <1>1, <1>3, <1>5
  <2> QED BY <1>9, <2>1, <2>2, <2>3 DEF RunningInv, At, Uninterrupted
<1> QED BY <1>10, <1>11

LEMMA OptimizerStepInv ==
  ASSUME IInv, OptimizerStep
  PROVE  Uninterrupted(weights)' /\ DiskInv' /\ RunningInv'
<1> DEFINE e == loop.epoch
           s == loop.steps
           b == loop.ready
           a == accumulate_grad_batches
           n == Len(gradient)
           first == s * a
           enough == b % a = 0 \/ b = BatchesPerEpoch
<1>1. /\ pc = "trained" /\ pc' = "end" /\ Running
      /\ enough => /\ weights' = Append(weights, gradient) /\ gradient' = <<>>
                   /\ loop' = [loop EXCEPT !.steps = s + 1]
      /\ ~enough => UNCHANGED <<weights, gradient, loop>>
      /\ UNCHANGED <<sampler, queue, disk, newer>>
  BY DEF OptimizerStep, Running
<1>2. /\ At(weights, e, s) /\ GradientInv
      /\ \A r \in Ranks : LoaderAt(sampler[r], queue[r], r, e, b)
      /\ \A f \in DOMAIN disk : Len(disk[f].weights) <= Len(weights)
  BY <1>1 DEF IInv, RunningInv
<1>3. /\ e \in Nat /\ b \in Nat /\ s \in Nat /\ n \in Nat /\ first \in Nat
      /\ a \in Nat \ {0} /\ BatchesPerEpoch \in Nat /\ StepsPerEpoch \in Nat /\ Len(weights) \in Nat
  BY Gradients, Sizes DEF IInv
<1>4. s \in 0 .. StepsPerEpoch /\ Len(weights) = e * StepsPerEpoch + s /\ Uninterrupted(weights)
  BY <1>2 DEF At
<1>5. s < StepsPerEpoch
  <2>1. s # StepsPerEpoch
    BY <1>1, <1>2 DEF GradientInv
  <2> QED BY <1>3, <1>4, <2>1
<1>6. b = first + n /\ n \in 1 .. a /\ b <= BatchesPerEpoch
  BY <1>1, <1>2, <1>5 DEF GradientInv
<1>7. \A i \in 1 .. n : gradient[i] = BatchOf(e, first + i - 1)
  BY <1>2 DEF GradientInv
<1>8. b % a = 0 <=> n = a
  <2>1. (s * a + n) % a = 0 <=> n = a
    <3> HIDE DEF a, s, n
    <3> QED BY <1>3, <1>6, LastOfAccumulation
  <2> QED BY <1>6, <2>1
<1>9. \A x \in Nat : x < StepsPerEpoch <=> x * a < BatchesPerEpoch
  BY Sizes
<1> HIDE DEF first, n
<1>10. gradient \in Accumulated /\ weights \in Seq(Accumulated)
  BY DEF IInv, TypeInv
<1>11. CASE enough
  <2>1. /\ weights' = Append(weights, gradient) /\ gradient' = <<>>
        /\ loop'.epoch = e /\ loop'.ready = b /\ loop'.steps = s + 1
    BY <1>1, <1>11 DEF IInv, TypeInv
  <2>2. gradient = StepOf(Len(weights))
    <3> DEFINE many == Least(a, BatchesPerEpoch - first)
    <3>1. many = n
      BY <1>3, <1>6, <1>8, <1>11 DEF Least
    <3>2. StepOf(Len(weights)) = [i \in 1 .. many |-> BatchOf(e, first + i - 1)]
      <4>1. StepOf(e * StepsPerEpoch + s) = [i \in 1 .. many |-> BatchOf(e, first + i - 1)]
        BY <1>3, <1>5, StepOfAt DEF first
      <4> QED BY <1>4, <4>1
    <3> HIDE DEF many
    <3>3. gradient = [i \in 1 .. n |-> gradient[i]]
      BY <1>10, LenProperties DEF Accumulated, n
    <3> QED BY <1>7, <3>1, <3>2, <3>3
  <2>3. Len(weights') = Len(weights) + 1 /\ Uninterrupted(weights')
    <3>1. /\ Len(weights') = Len(weights) + 1 /\ weights'[Len(weights) + 1] = gradient
          /\ \A k \in 1 .. Len(weights) : weights'[k] = weights[k]
      BY <1>10, <2>1, AppendProperties
    <3>2. ASSUME NEW k \in 1 .. Len(weights')
          PROVE  weights'[k] = StepOf(k - 1)
      <4>1. CASE k = Len(weights) + 1
        <5>1. k - 1 = Len(weights)
          BY <1>3, <4>1
        <5> QED BY <2>2, <3>1, <4>1, <5>1
      <4>2. CASE k # Len(weights) + 1
        <5>1. k \in 1 .. Len(weights)
          BY <1>3, <3>1, <4>2
        <5> QED BY <1>4, <3>1, <5>1 DEF Uninterrupted
      <4> QED BY <4>1, <4>2
    <3> QED BY <3>1, <3>2 DEF Uninterrupted
  <2>4. At(weights', e, s + 1)
    <3>1. PICK m \in Nat : m = e * StepsPerEpoch
      BY <1>3
    <3>2. Len(weights') = m + (s + 1)
      BY <1>3, <1>4, <2>3, <3>1
    <3>3. s + 1 \in 0 .. StepsPerEpoch
      BY <1>3, <1>5
    <3> QED BY <2>3, <3>1, <3>2, <3>3 DEF At
  <2>5. Len(gradient') = 0
    BY <2>1, EmptySeq
  <2>6. GradientInv'
    <3>1. (s + 1) * a = first + a
      BY <1>3 DEF first
    <3>2. s + 1 < StepsPerEpoch => first + a < BatchesPerEpoch
      <4>1. s + 1 \in Nat
        BY <1>3
      <4> QED BY <1>9, <3>1, <4>1
    <3>3. s + 1 = StepsPerEpoch => first + a >= BatchesPerEpoch
      <4>1. s + 1 \in Nat /\ first + a \in Nat
        BY <1>3
      <4>2. s + 1 < StepsPerEpoch <=> (s + 1) * a < BatchesPerEpoch
        BY <1>9, <4>1
      <4> QED BY <1>3, <3>1, <4>1, <4>2
    <3>4. n = a \/ b = BatchesPerEpoch
      BY <1>8, <1>11
    <3>5. s + 1 < StepsPerEpoch => b = first + a + 0 /\ b < BatchesPerEpoch
      BY <1>3, <1>6, <3>2, <3>4
    <3>6. s + 1 = StepsPerEpoch => b >= BatchesPerEpoch
      BY <1>3, <1>6, <3>3, <3>4
    <3>7. \A i \in 1 .. Len(gradient') : FALSE
      BY <2>5
    <3> QED BY <1>1, <1>3, <2>1, <2>5, <3>1, <3>5, <3>6, <3>7 DEF GradientInv
  <2>7. \A f \in DOMAIN disk' : Len(disk'[f].weights) <= Len(weights')
    <3>1. \A f \in DOMAIN disk : Len(disk[f].weights) \in Nat
      BY LenProperties DEF IInv, TypeInv, CheckpointSet
    <3> QED BY <1>1, <1>2, <1>3, <2>3, <3>1
  <2>8. DiskInv'
    BY <1>1 DEF IInv, DiskInv
  <2>9. At(weights', loop'.epoch, loop'.steps)
    BY <2>1, <2>4
  <2>10. \A r \in Ranks : LoaderAt(sampler'[r], queue'[r], r, loop'.epoch, loop'.ready)
    BY <1>1, <1>2, <2>1
  <2>11. RunningInv'
    BY <2>6, <2>7, <2>9, <2>10 DEF RunningInv, At, Uninterrupted
  <2> QED BY <2>3, <2>8, <2>11 DEF Uninterrupted
<1>12. CASE ~enough
  <2>1. UNCHANGED <<weights, gradient, loop, sampler, queue, disk, newer>>
    BY <1>1, <1>12
  <2>2. n < a /\ b < BatchesPerEpoch
    BY <1>3, <1>6, <1>8, <1>12
  <2>3. GradientInv'
    <3> HIDE DEF enough
    <3>1. s # StepsPerEpoch
      BY <1>3, <1>5
    <3> QED BY <1>1, <1>6, <1>7, <2>1, <2>2, <3>1 DEF GradientInv, first, n
  <2>4. Uninterrupted(weights)' /\ DiskInv'
    BY <2>1 DEF IInv, Uninterrupted, DiskInv
  <2>5. At(weights', loop'.epoch, loop'.steps)
    BY <1>2, <2>1
  <2>6. /\ \A r \in Ranks : LoaderAt(sampler'[r], queue'[r], r, loop'.epoch, loop'.ready)
        /\ \A f \in DOMAIN disk' : Len(disk'[f].weights) <= Len(weights')
    BY <1>2, <2>1
  <2> QED BY <2>3, <2>4, <2>5, <2>6 DEF RunningInv, At, Uninterrupted
<1> QED BY <1>11, <1>12

LEMMA SaveInv ==
  ASSUME IInv, Running, NEW f \in File, Save(f)
  PROVE  DiskInv' /\ \A g \in DOMAIN disk' : Len(disk'[g].weights) <= Len(weights)
<1>1. /\ disk'[f] = Checkpoint /\ newer' = f /\ f \in DOMAIN disk'
      /\ \A g \in DOMAIN disk' : g # f => g \in DOMAIN disk /\ disk'[g] = disk[g]
  BY SaveType DEF IInv
<1>2. /\ At(weights, loop.epoch, loop.steps)
      /\ \A g \in DOMAIN disk : Len(disk[g].weights) <= Len(weights)
  BY DEF IInv, RunningInv
<1>3. /\ Checkpoint.weights = weights /\ Checkpoint.epoch = loop.epoch /\ Checkpoint.steps = loop.steps
      /\ Checkpoint.completed = loop.steps * accumulate_grad_batches
  BY DEF Checkpoint, on_save_checkpoint
<1>4. Len(weights) \in Nat
  BY Gradients DEF IInv
<1>5. \A g \in DOMAIN disk' : Len(disk'[g].weights) <= Len(weights)
  BY <1>1, <1>2, <1>3, <1>4
<1>6. ASSUME NEW g \in DOMAIN disk'
      PROVE  /\ At(disk'[g].weights, disk'[g].epoch, disk'[g].steps)
             /\ disk'[g].completed = disk'[g].steps * accumulate_grad_batches
  <2>1. CASE g = f
    BY <1>1, <1>2, <1>3, <2>1
  <2>2. CASE g # f
    BY <1>1, <2>2 DEF IInv, DiskInv
  <2> QED BY <2>1, <2>2
<1>7. disk'[newer'].weights = weights
  BY <1>1, <1>3
<1> QED BY <1>5, <1>6, <1>7 DEF DiskInv, At, Uninterrupted

LEMMA BatchEndInv ==
  ASSUME IInv, BatchEnd
  PROVE  Uninterrupted(weights)' /\ DiskInv' /\ RunningInv'
<1>1. /\ pc = "end" /\ pc' \in {"finished", "next"} /\ Running
      /\ Save("last.ckpt") \/ UNCHANGED <<disk, newer>>
      /\ UNCHANGED <<loop, sampler, queue, gradient, weights>>
  BY DEF BatchEnd, Running
<1>2. DiskInv' /\ \A f \in DOMAIN disk' : Len(disk'[f].weights) <= Len(weights)
  <2>1. CASE Save("last.ckpt")
    BY <1>1, <2>1, SaveInv DEF File
  <2>2. CASE UNCHANGED <<disk, newer>>
    BY <1>1, <2>2 DEF IInv, DiskInv, RunningInv
  <2> QED BY <1>1, <2>1, <2>2
<1>3. GradientInv'
  BY <1>1 DEF IInv, RunningInv, GradientInv
<1>4. At(weights', loop'.epoch, loop'.steps)
  BY <1>1 DEF IInv, RunningInv
<1>5. \A r \in Ranks : LoaderAt(sampler'[r], queue'[r], r, loop'.epoch, loop'.ready)
  BY <1>1 DEF IInv, RunningInv
<1>6. Uninterrupted(weights)'
  BY <1>1 DEF IInv, Uninterrupted
<1> QED BY <1>1, <1>2, <1>3, <1>4, <1>5, <1>6 DEF RunningInv, At, Uninterrupted

LEMMA NextEpochInv ==
  ASSUME IInv, NextEpoch
  PROVE  Uninterrupted(weights)' /\ DiskInv' /\ RunningInv'
<1> DEFINE e == loop.epoch
           s == loop.steps
           b == loop.ready
<1>1. /\ pc = "next" /\ pc' = "next" /\ Running
      /\ \A r \in Ranks : queue[r] = <<>> /\ sampler[r].left = <<>>
      /\ loop' = [epoch |-> e + 1, ready |-> 0, steps |-> 0]
      /\ sampler' = [r \in Ranks |-> Iterate(set_epoch(sampler[r], e + 1), r)]
      /\ queue' = [r \in Ranks |-> <<>>]
      /\ UNCHANGED <<gradient, weights, disk, newer>>
  BY DEF NextEpoch, Running
<1>2. /\ At(weights, e, s) /\ GradientInv
      /\ \A r \in Ranks : LoaderAt(sampler[r], queue[r], r, e, b)
      /\ \A f \in DOMAIN disk : Len(disk[f].weights) <= Len(weights)
  BY <1>1 DEF IInv, RunningInv
<1>3. /\ e \in Nat /\ b \in Nat /\ s \in Nat /\ Len(gradient) \in Nat /\ Len(weights) \in Nat
      /\ NumSamples \in Nat /\ BatchesPerEpoch \in Nat /\ StepsPerEpoch \in Nat
  BY Gradients, Sizes DEF IInv
<1>4. Len(<<>>) = 0
  BY EmptySeq
<1>5. b >= BatchesPerEpoch
  <2>1. PICK r \in Ranks : TRUE
    BY SamplerAssumption, 0 \in Ranks DEF Ranks
  <2>2. <<>> = SubSeq(EpochIndices(r, e), (b + 0) * batch_size + 1, NumSamples)
    BY <1>1, <1>2, <1>4 DEF LoaderAt
  <2>3. (b + 0) * batch_size = b * batch_size /\ b * batch_size \in Nat
    BY <1>3, Sizes
  <2>4. b * batch_size >= NumSamples
    <3> DEFINE x == b * batch_size
    <3>1. x \in Nat /\ SubSeq(EpochIndices(r, e), x + 1, NumSamples) = <<>>
      BY <2>2, <2>3
    <3> HIDE DEF x
    <3>2. x >= NumSamples
      BY <1>3, <3>1, Remaining
    <3> QED BY <3>2 DEF x
  <2>5. b < BatchesPerEpoch <=> b * batch_size < NumSamples
    BY <1>3, Sizes
  <2> QED BY <1>3, <2>3, <2>4, <2>5
<1>6. s = StepsPerEpoch /\ Len(gradient) = 0
  <2>1. s < StepsPerEpoch => b < BatchesPerEpoch
    BY <1>1, <1>2 DEF GradientInv
  <2>2. s \in 0 .. StepsPerEpoch
    BY <1>2 DEF At
  <2>3. s = StepsPerEpoch
    BY <1>3, <1>5, <2>1, <2>2
  <2> QED BY <1>2, <2>3 DEF GradientInv
<1>7. loop'.epoch = e + 1 /\ loop'.ready = 0 /\ loop'.steps = 0
  BY <1>1
<1>8. At(weights', e + 1, 0)
  <2>1. Len(weights) = e * StepsPerEpoch + StepsPerEpoch /\ Uninterrupted(weights)
    BY <1>2, <1>6 DEF At
  <2>2. e * StepsPerEpoch + StepsPerEpoch = (e + 1) * StepsPerEpoch + 0 /\ 0 \in 0 .. StepsPerEpoch
    BY <1>3
  <2> QED BY <1>1, <2>1, <2>2 DEF At
<1>9. GradientInv'
  <2>1. 0 * accumulate_grad_batches = 0 /\ 0 < accumulate_grad_batches
    BY Sizes
  <2>2. 0 < StepsPerEpoch <=> 0 < BatchesPerEpoch
    BY <2>1, Sizes
  <2>3. \A i \in 1 .. Len(gradient') : FALSE
    BY <1>1, <1>6
  <2> QED BY <1>1, <1>3, <1>6, <1>7, <2>1, <2>2, <2>3 DEF GradientInv
<1>10. ASSUME NEW r \in Ranks
       PROVE  LoaderAt(sampler'[r], queue'[r], r, e + 1, 0)
  <2> DEFINE t == set_epoch(sampler[r], e + 1)
  <2>1. sampler[r] \in SamplerSet /\ ~sampler[r].restarting
    BY <1>2 DEF IInv, TypeInv, LoaderAt
  <2>2. t \in SamplerSet /\ t.epoch = e + 1 /\ ~t.restarting
    <3>1. t.epoch = e + 1 /\ t.restarting = sampler[r].restarting
      BY <2>1 DEF set_epoch, SamplerSet
    <3>2. e + 1 \in Nat
      BY <1>3
    <3>3. t \in SamplerSet
      BY <2>1, <3>2, NewSamplers
    <3> QED BY <2>1, <3>1, <3>3
  <2>3. sampler'[r] = Iterate(t, r) /\ queue'[r] = <<>>
    BY <1>1
  <2> HIDE DEF t
  <2>4. sampler'[r].left = SubSeq(EpochIndices(r, e + 1), 0 + 1, NumSamples) /\ ~sampler'[r].restarting
    BY <2>2, <2>3, Iterates
  <2>5. (0 + Len(queue'[r])) * batch_size = 0 /\ \A i \in 1 .. Len(queue'[r]) : FALSE
    BY <1>4, <2>3, Sizes
  <2> QED BY <2>4, <2>5 DEF LoaderAt
<1>11. Uninterrupted(weights)' /\ DiskInv'
  BY <1>1 DEF IInv, Uninterrupted, DiskInv
<1>12. RunningInv'
  <2>1. /\ At(weights', loop'.epoch, loop'.steps)
        /\ \A r \in Ranks : LoaderAt(sampler'[r], queue'[r], r, loop'.epoch, loop'.ready)
        /\ \A f \in DOMAIN disk' : Len(disk'[f].weights) <= Len(weights')
    BY <1>1, <1>2, <1>7, <1>8, <1>10
  <2> QED BY <1>9, <2>1 DEF RunningInv, At, Uninterrupted
<1> QED BY <1>11, <1>12

LEMMA IInvNext == IInv /\ [TrainingNext]_trainingVars => IInv'
<1> SUFFICES ASSUME IInv, [TrainingNext]_trainingVars PROVE Uninterrupted(weights)' /\ DiskInv' /\ RunningInv'
  BY TypeNext DEF IInv
<1>1. CASE Start
  BY <1>1, StartInv
<1>2. ASSUME NEW r \in Ranks, Prefetch(r)
      PROVE  Uninterrupted(weights)' /\ DiskInv' /\ RunningInv'
  BY <1>2, PrefetchInv
<1>3. CASE TrainingStep
  BY <1>3, TrainingStepInv
<1>4. CASE OptimizerStep
  BY <1>4, OptimizerStepInv
<1>5. CASE BatchEnd
  BY <1>5, BatchEndInv
<1>6. CASE NextEpoch
  BY <1>6, NextEpochInv
<1>7. CASE Killed
  <2>1. ~Running' /\ UNCHANGED <<weights, disk, newer>>
    BY <1>7 DEF Killed, Stop, Running
  <2> QED BY <2>1 DEF IInv, Uninterrupted, DiskInv, RunningInv
<1>8. CASE on_exception
  <2>1. Running /\ ~Running' /\ weights' = weights /\ Save(".pl_auto_save.ckpt")
    BY <1>8 DEF on_exception, Stop, Running
  <2>2. DiskInv'
    BY <2>1, SaveInv DEF File
  <2> QED BY <2>1, <2>2 DEF IInv, Uninterrupted, RunningInv
<1>9. CASE UNCHANGED trainingVars
  <2>1. UNCHANGED <<pc, loop, sampler, queue, gradient, weights, disk, newer>>
    BY <1>9 DEF trainingVars
  <2>2. Uninterrupted(weights)' /\ DiskInv' /\ GradientInv' = GradientInv
    BY <2>1 DEF IInv, Uninterrupted, DiskInv, GradientInv
  <2> QED BY <2>1, <2>2 DEF IInv, RunningInv, Running, At, Uninterrupted
<1> QED BY <1>1, <1>2, <1>3, <1>4, <1>5, <1>6, <1>7, <1>8, <1>9 DEF TrainingNext

-----------------------------------------------------------------------------
(* The theorems.                                                           *)

\* The variables of training are what the code keeps in them: a checkpoint is
\* complete, and of those on disk one is the newest.
THEOREM TypesAreKept == TrainingSpec => []TypeInv
<1> QED BY TypeInit, TypeNext, PTL DEF TrainingSpec

LEMMA Invariant == TrainingSpec => []IInv
BY InitInv, IInvNext, PTL DEF TrainingSpec

\* Wherever training is killed or stopped by an exception, and however often,
\* the parameters are those of training that nothing stopped (the tasks'
\* on_save_checkpoint, the samplers' state and train.py's choice of checkpoint).
THEOREM ResumedIsUninterrupted == TrainingSpec => []RestartsAtSameBatch
<1>1. IInv => RestartsAtSameBatch
  <2> SUFFICES ASSUME IInv PROVE RestartsAtSameBatch
    OBVIOUS
  <2>1. weights = [k \in 1 .. Len(weights) |-> weights[k]]
    BY LenProperties DEF IInv, TypeInv
  <2>2. \A k \in 1 .. Len(weights) : weights[k] = StepOf(k - 1)
    BY DEF IInv, Uninterrupted
  <2> QED BY <2>1, <2>2 DEF RestartsAtSameBatch
<1> QED BY <1>1, Invariant, PTL

\* While training runs, no checkpoint on disk holds a step that it has not
\* taken: of two checkpoints train.py resumes from the one that is ahead.
THEOREM ResumesTheMostSaved == TrainingSpec => []NoSavedStepLost
<1>1. IInv => NoSavedStepLost
  BY DEF IInv, RunningInv, NoSavedStepLost
<1> QED BY <1>1, Invariant, PTL
=============================================================================
