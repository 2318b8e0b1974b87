------------------------------ MODULE Training ------------------------------
(***************************************************************************)
(* Training under DDP that is killed, or stopped by an exception, and      *)
(* resumed: what the task, the datamodule, the checkpoint callbacks and    *)
(* train.py do so that it goes on at the batch at which it stopped.  The   *)
(* loop that calls them is Lightning's.                                    *)
(*                                                                         *)
(* The parameters of the model are the history of the optimizer's steps;   *)
(* a step is the sequence of the batches whose gradients it accumulated.   *)
(***************************************************************************)
EXTENDS FaultTolerantSampler

CONSTANTS batch_size, accumulate_grad_batches,
          every_n_train_steps,    \* of model_checkpoint, which saves last.ckpt
          max_steps,
          PrefetchFactor,         \* batches a DataLoader draws ahead
          MaxStops                \* bound: how often training is stopped

ASSUME TrainingAssumption ==
  {batch_size, accumulate_grad_batches, every_n_train_steps, max_steps, PrefetchFactor} \subseteq Nat \ {0}

VARIABLES pc,         \* "stopped", "next" batch, "trained" on it, batch "end", "finished"
          loop,       \* epoch_progress and batch_progress: the epoch, the
                      \* current.ready batches and current.completed steps
          sampler,    \* of each rank
          queue,      \* of each rank: batches its DataLoader has drawn
          gradient,   \* the batches accumulated since the last step
          weights,
          disk,       \* last.ckpt and .pl_auto_save.ckpt, where they exist,
          newer,      \* and the one that was written last
          saved,      \* weights at which model_checkpoint saved last
          stops

trainingVars == <<pc, loop, sampler, queue, gradient, weights, disk, newer, saved, stops>>

BatchesPerEpoch == CeilDiv(NumSamples, batch_size)

-----------------------------------------------------------------------------
(* Checkpoints.                                                            *)

\* current.completed batches are those of the optimizer's steps: gradients
\* accumulated since are not saved.
OnlySteps(steps) == steps    \* mutant: completed counts steps
on_save_checkpoint(steps) == steps * accumulate_grad_batches

Checkpoint == [weights |-> weights, epoch |-> loop.epoch, steps |-> loop.steps,
               completed |-> on_save_checkpoint(loop.steps)]
Save(file) ==
  /\ disk' = [f \in DOMAIN disk \cup {file} |-> IF f = file THEN Checkpoint ELSE disk[f]]
  /\ newer' = file

\* train.py: the newer one of those that exist.
PreferLast == IF "last.ckpt" \in DOMAIN disk THEN "last.ckpt" ELSE ".pl_auto_save.ckpt"    \* mutant
CheckpointPath ==
  IF "last.ckpt" \notin DOMAIN disk \/ (".pl_auto_save.ckpt" \in DOMAIN disk /\ newer = ".pl_auto_save.ckpt")
  THEN ".pl_auto_save.ckpt" ELSE "last.ckpt"

-----------------------------------------------------------------------------
Scratch == [weights |-> <<>>, epoch |-> 0, steps |-> 0, completed |-> 0]

TrainingInit ==
  /\ pc = "stopped"
  /\ loop = [epoch |-> 0, ready |-> 0, steps |-> 0]
  /\ sampler = [r \in Ranks |-> NewSampler] /\ queue = [r \in Ranks |-> <<>>]
  /\ gradient = <<>> /\ weights = <<>>
  /\ disk = [f \in {} |-> Scratch] /\ newer = "none"
  /\ saved = 0 /\ stops = 0

\* What the datamodule takes from the checkpoint: epochs, and the batches
\* whose samples its new sampler skips.
fast_forward(c) == [epochs |-> c.epoch, batches |-> c.completed]
train_dataloader(ff) == load_state_dict(NewSampler, ff.epochs, ff.batches * batch_size)

\* trainer.fit, from a checkpoint if there is one.
Start ==
  LET found == DOMAIN disk # {}
      c == IF found THEN disk[CheckpointPath] ELSE Scratch
      loader == IF found THEN train_dataloader(fast_forward(c)) ELSE NewSampler
  IN  /\ pc = "stopped"
      /\ pc' = IF Len(c.weights) >= max_steps THEN "finished" ELSE "next"
      /\ weights' = c.weights
      /\ loop' = [epoch |-> c.epoch, ready |-> c.completed, steps |-> c.steps]
      /\ sampler' = [r \in Ranks |-> Iterate(set_epoch(loader, c.epoch), r)]
      /\ queue' = [r \in Ranks |-> <<>>]
      /\ gradient' = <<>> /\ saved' = 0
      /\ UNCHANGED <<disk, newer, stops>>

\* The DataLoader of rank r draws a batch ahead.
Prefetch(r) ==
  /\ pc \notin {"stopped", "finished"}
  /\ Len(queue[r]) < PrefetchFactor /\ sampler[r].left # <<>>
  /\ queue' = [queue EXCEPT ![r] = Append(@, Drawn(sampler[r], batch_size))]
  /\ sampler' = [sampler EXCEPT ![r] = Draw(@, batch_size)]
  /\ UNCHANGED <<pc, loop, gradient, weights, disk, newer, saved, stops>>

\* training_step and backward, in which the ranks reduce their gradients.
TrainingStep ==
  /\ pc = "next" /\ \A r \in Ranks : queue[r] # <<>>
  /\ gradient' = Append(gradient, [r \in Ranks |-> Head(queue[r])])
  /\ queue' = [r \in Ranks |-> Tail(queue[r])]
  /\ loop' = [loop EXCEPT !.ready = @ + 1]
  /\ pc' = "trained"
  /\ UNCHANGED <<sampler, weights, disk, newer, saved, stops>>

\* The optimizer's step, once enough is accumulated or the epoch is over.
OptimizerStep ==
  /\ pc = "trained"
  /\ IF loop.ready % accumulate_grad_batches = 0 \/ loop.ready = BatchesPerEpoch
     THEN /\ weights' = Append(weights, gradient)
          /\ gradient' = <<>>
          /\ loop' = [loop EXCEPT !.steps = @ + 1]
     ELSE UNCHANGED <<weights, gradient, loop>>
  /\ pc' = "end"
  /\ UNCHANGED <<sampler, queue, disk, newer, saved, stops>>

\* on_train_batch_end: model_checkpoint saves every so many steps.
BatchEnd ==
  /\ pc = "end"
  /\ IF Len(weights) % every_n_train_steps = 0 /\ saved # Len(weights)
     THEN Save("last.ckpt") /\ saved' = Len(weights)
     ELSE UNCHANGED <<disk, newer, saved>>
  /\ pc' = IF Len(weights) >= max_steps THEN "finished" ELSE "next"
  /\ UNCHANGED <<loop, sampler, queue, gradient, weights, stops>>

\* The next epoch, when there are no more batches: at once if the epoch was
\* saved at its end, where more batches may be completed than it has.
NextEpoch ==
  /\ pc = "next" /\ \A r \in Ranks : queue[r] = <<>> /\ sampler[r].left = <<>>
  /\ loop' = [epoch |-> loop.epoch + 1, ready |-> 0, steps |-> 0]
  /\ sampler' = [r \in Ranks |-> Iterate(set_epoch(sampler[r], loop.epoch + 1), r)]
  /\ queue' = [r \in Ranks |-> <<>>]
  /\ UNCHANGED <<pc, gradient, weights, disk, newer, saved, stops>>

Running == pc \notin {"stopped", "finished"}
Stop ==
  /\ Running /\ stops < MaxStops
  /\ stops' = stops + 1 /\ pc' = "stopped"
  /\ UNCHANGED <<loop, sampler, queue, gradient, weights, saved>>
Killed == Stop /\ UNCHANGED <<disk, newer>>

\* ModelCheckpointMine.on_exception
on_exception == Stop /\ Save(".pl_auto_save.ckpt")

TrainingNext ==
  \/ Start \/ TrainingStep \/ OptimizerStep \/ BatchEnd \/ NextEpoch \/ Killed \/ on_exception
  \/ \E r \in Ranks : Prefetch(r)
  \/ pc = "finished" /\ UNCHANGED trainingVars

TrainingSpec == TrainingInit /\ [][TrainingNext]_trainingVars

-----------------------------------------------------------------------------
(* Properties.                                                             *)

\* The steps of training that nothing stops.
StepsPerEpoch == CeilDiv(BatchesPerEpoch, accumulate_grad_batches)
BatchOf(epoch, b) ==
  [r \in Ranks |-> SubSeq(EpochIndices(r, epoch), b * batch_size + 1, Least((b + 1) * batch_size, NumSamples))]
StepOf(k) ==
  LET first == (k % StepsPerEpoch) * accumulate_grad_batches
      many == Least(accumulate_grad_batches, BatchesPerEpoch - first)
  IN  [i \in 1 .. many |-> BatchOf(k \div StepsPerEpoch, first + i - 1)]

\* Training restarts at exactly the same batch: wherever it stopped and
\* whichever checkpoint it resumes from, the parameters are those of
\* training that nothing stopped, though the samplers had drawn ahead and
\* gradients had been accumulated.
RestartsAtSameBatch == weights = [k \in 1 .. Len(weights) |-> StepOf(k - 1)]

\* Training goes on from the most that was saved: of two checkpoints the one
\* resumed from is never behind the other.
NoSavedStepLost == Running => \A f \in DOMAIN disk : Len(disk[f].weights) <= Len(weights)

\* The steps of an epoch, over all ranks, used every sample of the dataset,
\* and none more often than to make the ranks even.
EpochsCoverDataset ==
  \A e \in 0 .. Len(weights) \div StepsPerEpoch - 1 :
    LET epoch == FlattenSeq(SubSeq(weights, e * StepsPerEpoch + 1, (e + 1) * StepsPerEpoch))
        used == FlattenSeq([i \in 1 .. Len(epoch) * NumReplicas |->
                              epoch[((i - 1) \div NumReplicas) + 1][(i - 1) % NumReplicas]])
    IN  ToSet(used) = ToSet(Shuffle[e]) /\ Len(used) = TotalSize
=============================================================================
