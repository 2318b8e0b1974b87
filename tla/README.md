# TLA+ models of Incremental FlashAttention

This directory specifies, model-checks and partly proves what can go wrong in
this repository between its parts: warps of a CTA and CTAs of a grid, kernels of
a launch, calls of a generation, Functions of a backward pass, and a training
job and its successor. Paths below are relative to the repository (`src/` here);
in `hopper/`, `mainloop_fwd_sm90_tma_gmma_ws.hpp` is "the mainloop",
`flash_fwd_kernel_sm90.h` "the kernel", `epilogue_fwd.hpp` "the epilogue",
`tile_scheduler.hpp` "the schedulers", `flash_api.cpp` "the host".

    tlasany M.tla                     parse a module
    tlc -config X.cfg M               check a run (the table below names M and X)
    tlapm TmaRingProofs.tla           check proofs; also TmaPipelineProofs.tla,
                                      MainloopFwdProofs.tla, MainloopBwdProofs.tla,
                                      SparseSplitProofs.tla, TileSchedulerProofs.tla,
                                      GenerationProofs.tla, TrainingProofs.tla

## 1. The system

The fork adds *incremental* attention to FlashAttention: a decoding step attends
to a speculative subset of the K/V blocks (`sparse_block_table`) and repairs the
result by attending to the blocks it missed; partial results are merged by the
split combine kernel. A launch of the forward pass runs

    host  ->  prepare kernel (varlen)  ->  attention kernel
          ->  combine kernel (if split)  ->  host resets the semaphore

and of the backward pass

    host  ->  preprocess kernel  ->  backward kernel  ->  postprocess kernels

Both main kernels are warp-specialised: a CTA is one producer warpgroup, of
which one to four warps stay alive, and one to three MMA warpgroups. They share
buffers in shared memory and have no lock: everything is ordered by barriers
that count arrivals or are tested by one parity bit. Around the kernels is a
Python package with layers, models, generation with a KV cache, and a training
harness.

| Component (source) | State | Operations | Interacts with | Hard behaviour | Correct when | Status |
|---|---|---|---|---|---|---|
| Pipelines (`sm90_pipeline_no_cluster.hpp`, CUTLASS) | full/empty mbarriers per stage, buffers | acquire, TMA copy, wait, release, tail | producer, warpgroups, TMA unit | parity waits, copies landing in any order | a reader sees its own block, nothing unread is overwritten | modelled, proved |
| Forward mainloop, kernel, epilogue | positions in the pipelines, `work_idx`, accumulators, smem_o over smem_v | `load`, `load_sparse`, `load_tail`, `mma`, `mma_sparse`, `store`, `store_zero` | pipelines, named barriers, scheduler | two gemms in flight, turns between warpgroups, memory reuse | computes each tile's attention once | partly, safety and what it writes proved |
| Split ranges (`block.h`, `get_sparse_split_range`) | - | the blocks of one split | producer, consumers and combine compute them separately | clamping of trailing splits, masks | splits partition the blocks | partly, proved |
| Schedulers | `tile_count_semaphore`, one word of smem | draw, hand over, decode | CTAs, host, prepare, combine | atomics, hand-over, life across launches | each tile once, all warps on the same tile | partly, proved |
| Prepare kernel (`flash_prepare_scheduler.cu`) | scheduler_metadata | splits, order, heads in L2, zeroing | attention kernel under programmatic dependent launch | may still run when attention starts | attention reads its results, not old ones | modelled |
| Combine kernel (`flash_fwd_combine_kernel.h`) | O/LSE partials, semaphore | merge, reset | attention kernel | splits without blocks (lse = -inf) | result independent of the splits | partly |
| Host dispatch (`flash_api.cpp`, heuristics, launch templates) | tensors, metadata | choice of kernel and splits | everything | caller's metadata kept over launches | legal calls reach a kernel that supports them | partly |
| Sparse Python interface (`hopper/flash_attn_interface.py`) | partials kept between the passes | sparse pass, partials, scores, repair, merge | host dispatch | a block in both passes or in neither | attention over exactly the selected blocks | partly |
| Generation (`utils/generation.py`, `modules/mha.py`, `layers/rotary.py`) | caches, offsets, graphs, rotary table | decode, decode_speculative, capture, replay | two models, caller | state that outlives a call, rejected tokens | a token depends on exactly its prefix | partly, proved |
| Attention functions, layers, models, losses, fused operators | saved tensors, gradients | forward and backward of every Function | autograd engine | in-place work, recomputation, order of backward | the documented model and its chain rule | partly |
| Backward kernels (SM90) | dq/dk/dv accumulators and semaphores; smem of a CTA | zero, gemms, dQ warp, epilogue | CTAs of one head, hardware's order of CTAs | deterministic order by spinning, reuse of smem | no lost addition, no deadlock | partly, a CTA's safety proved |
| Training harness (`training/`) | loop, samplers, checkpoints | train, save, stop, resume | Lightning, data loaders | batches drawn ahead, gradients not saved | as if nothing had stopped it | partly, proved |
| Paged KV and append | second pair of pipelines | append, then attend | producer and consumers | hand-over of written pages | appended keys are attended | not modelled |
| SM80 kernels, FA-2 | one thread block | as above, `__syncthreads` | - | little interleaving | as the reference | not modelled |
| Instantiations, code generation, benchmarks, build | - | - | - | - | - | not modelled |

`PROJECT.json` gives each component its note, and under "hazards" what is hard
to test, each at its line with the properties that watch it.

## 2. The modules

| Module | What it is |
|---|---|
| `TmaPipeline`, `TmaPipelineProofs` | operators of one pipeline: state, acquire, issue, land, wait, release, tail; lemmas: each keeps the counts of a ring, and its contents if the blocks are 0, 1, 2, ... |
| `TmaRing`, `TmaRingProofs` | the pipeline alone, with any number of stages and consumers; its invariants, proved |
| `SparseSplit`, `SparseSplitProofs` | the slice of the block table one split attends to; the slices partition it, proved |
| `CtaAttention` | abstract: what one CTA promises |
| `MainloopFwd`, `MainloopFwdProofs` | one forward CTA: producer, TMA unit, warpgroups, epilogue; its safety and what it writes, proved |
| `MainloopFwdRefinement` | it implements `CtaAttention`, and `TmaRing` with each of its two pipelines |
| `TileDispatch` | abstract: what the schedulers promise a stream of launches |
| `TileScheduler`, `TileSchedulerProofs` | CTAs, schedulers, semaphore, prepare and reset, over several launches; implements `TileDispatch`, proved |
| `VarlenSchedule` | a varlen forward pass as data: plan, decoding of tiles, partial outputs, merge |
| `SparseInterface` | the incremental attention API over what the host and kernels do with a table |
| `Decoder` | abstract: what generation promises |
| `KvCache`, `Generation` | the cache of an attention layer, and decoding sessions over it |
| `GenerationProofs` | sessions sample from exactly the text and implement `Decoder`, proved |
| `BackwardGrid` | one call of the backward pass: host, preprocess, CTAs, semaphores |
| `MainloopBwd`, `MainloopBwdProofs` | one backward CTA: load warp, warpgroups, dQ warp, epilogue; uses `TmaPipeline`; its safety, proved |
| `AutogradFunction` | Functions and programs as data, memory as terms |
| `AttentionFunctions`, `NormFunctions`, `LayerFunctions` | the package's Functions |
| `Transformer`, `Models` | blocks, and GPT, BERT and ViT, as programs of calls |
| `ModelReference` | abstract: what the models are documented to compute |
| `ModelPass` | a forward and a backward pass under the autograd engine |
| `FaultTolerantSampler`, `Training` | the sampler of a rank; training that is stopped and resumed |
| `TrainingProofs` | resumed training is uninterrupted training, proved |
| `MCLaunches`, `MCMainloopFwd`, `MCTileScheduler`, `MCModels` | values of the constants for TLC: launches of a CTA, streams of launches, models |
| `MCMainloopFwdKernels`, `MCTileSchedulers`, `MCInference`, `MCTraining` | several instances or components in one run |

The four modules of the last line put parts that share no state into one run,
which explores one of them at a time: their states add up, and nothing is claimed
about their interleaving. `MCMainloopFwdKernels` and `MCTileSchedulers` are about
one component with other constants. The first of them instantiates
`MainloopFwdRefinement` three times and extends only the launches: definitions of
an extended module without state are evaluated once, with its own constants.

### How state and actions correspond to the code

**Pipelines.** `lap` replaces the phase bit of `cutlass::PipelineState`: the bit
is its parity (a producer starts with the opposite one), and every wait
(`AcquireReady`, `FullReady`, `OFree`, `WaitQ`) sees *only parities*
(`PhaseOver`). That an unbounded count and a parity agree is what has to be
shown, so the counts are never tested by an action. `Issue` starts a copy,
`Land` completes it at any later time. `Release` completes the empty barrier
with the last of the consumers.

**`MainloopFwd`.** A step runs from one blocking call to the next. Labels of the
producer: `tile` (K of the first block), `load_Q`, `wait_O`, `load_K`/`load_V`
(the loop), `done`. Labels of a warpgroup: `mma` to `last_end` are the mainloop
and `epilogue` to `storing_O` the epilogue. A gemm that has been issued is
reading its buffers until the `warpgroup_wait` that ends it, which is a later
action. Blocks are told apart by tile and index; the accumulator is the
sequence of (Q, K, V) terms that went into it, so mixing a K with another
block's V, a stale buffer or a forgotten reset all become wrong results. A
launch fixes the table, the number of splits, the epilogue and the tiles; the
three epilogues are `tma` (no varlen, split or PackGQA), `smem` (varlen, or
PackGQA without split), `direct` (split without varlen). `smem_o` and `smem_v`
are a union in the code: writing either destroys the other in the model. The
named barriers are kept as counts where the code only counts, since arrivals of
the wrong party are just what could go wrong. Modelled path: `IntraWGOverlap`,
K/V by TMA, one producer warp, no cluster.

**`TileScheduler`.** `Drawn` is `atomicAdd + gridDim.x`; `smem`, `empty`, `full`
are the word of shared memory and the two named barriers around it. Readers are
the warpgroups and, when Q is loaded by cp.async (PackGQA), the three other
producer warps ("helpers"). Of the mainloop only the couplings between them
remain: QueryEmpty (`QuerySync`), barrier_O by parity (`OFree`), and V after
both. A stream is a sequence of launches; `Setup`, `Prepare` and `Teardown` are
the three parties that may have to zero the semaphore: `zero_()` of the host,
the prepare kernel (concurrent with the start of the attention kernel), and the
combine kernel or `zero_()` for a caller's metadata.

**`VarlenSchedule`.** The phases are the kernels. The plan is what
`prepare_varlen_num_blocks_kernel` writes: blocks, splits, sorted order (ties in
any order) and heads in L2 of every batch; its division by a `blocks_per_sm` of
0 yields any value, which is then clamped. A CTA's tile is drawn, decoded from
its last one, computed and stored in one action: the hand-over inside the CTA
and the race for the draw are `TileScheduler`'s. A stored (O, LSE) is how often
each K block counts in it. The packing of split and head into `bidh` keeps its
field widths as constants, so that a field overflows in the runs as 2^8 splits
would. The combine kernel reads the number of splits by its own rule. A call may
be repeated with the metadata of the last. Reads of the plan before
`griddepcontrol.wait` cannot see an older one: dependents are launched only after
the attention kernel's own wait on the prepare kernel. Lengths are given, so left
padding and appended keys enter as lengths; chunked masks are not modelled.

**`SparseInterface`.** An action is a call of the Python API; a tensor pair
(out, lse) is how often each K token, in units of 64, counts in its softmax, and
the online-softmax merge is addition. The operators below the actions are what
the host and the kernels do with a table: the kernel's own tile (`KBlockN`, which is
not `block_size` for head dimension 64), the split slices, the null pointer of an
empty tensor, the accumulators that exist only when there are two splits, so that
a table of one block leaves no partial to keep. Entries beyond the end of `k` read
zeros, which count, since the sparse kernels mask nothing. `rejected` is a failed
assertion: an empty table of the partials function, or a `block_size` without a
kernel for the head dimension.

**`Generation`.** An action evaluates one model or one piece of bookkeeping
around it. A cache entry is the sequence of tokens it depends on, or `Stale`;
each of the three update paths of `MHA.forward` writes and reads at the offset
or length it uses in the code. A sampled token is any token, and `scores` keeps
what its logits depended on, so reading a rejected draft, an earlier call's rows
or a wrong position shows in the state. Graphs hold the identity of the cache
and of the rotary table they were captured with, and the offset of the capture.
Rows of a batch go through the same steps; the batch size decides about
allocation, about the graphs that are found and about the rows of
`lengths_per_sample`.

`Begin` admits every call the code begins: any arguments, with or without graphs,
in any order, with training in between. What the code asserts of an evaluation is
`Accepts`: room in the cache, the rotary table as long as the cache in the
appending path, and in the others a table that covers the tokens and one length
for each sequence (`ops/triton/rotary.py:143`). `Capturable` asks it of the
evaluations that `capture_graph` makes, at the offset `max_length - n`, which is
negative for a graph of more tokens than `max_length`. A replayed graph asserts
nothing (`CanCall`): it must be there and its writes must be inside the cache. A
call that fails sets `failed` and ends the session, since an exception in the
middle of a call leaves caches the caller has no business with. Replaying a graph
is not always right, and the model does what the code does then: a graph captured
at offset 0 repeats the prompt path and writes at position 0, one without flash
attention writes at the offset it was captured with (`mha.py:549`), and one of an
older rotary table reads memory that was freed, which may still be intact or hold
anything (`TableIntact`, a choice). `GraphsUsable` says when none of this is the
case; it is used in properties only, never in an action.

**`ModelPass`.** Values are terms, sums are bags, a cell is memory that views
share. A Function is a record: what forward computes in which order, what it
saves and what backward unpacks it into, what it recomputes, which gradients it
returns and over what it writes. A model is a program of calls, chosen by its
config as the constructors choose. Backward runs any call whose consumers have
run; a gradient is a bag of chain-rule edges, spoilt when an operand has changed
since or something has written over it. One process, no activation
checkpointing. `inplace_backward`, in-place rotary and residual reuse are in.
`ModelReference` gives each model two expected losses, which differ for a GPT
with LayerNorm behind its branches and dropout: `documented`, where every dropout
is where the comment at `gpt.py:462` puts it, and `reference`, with the
probabilities that `create_block` gives to the blocks.

**`BackwardGrid`.** Actions are host, preprocess, the start of a CTA on a free
SM, and the steps of resident CTAs: add a block of dQ, count it, leave a block
out, store dK and dV or add them over a group of heads (GQA). `cta` holds only
resident CTAs. `accum` is the sequence of terms in every block, `Garbage` what
`torch::empty` returns. CTAs start in the order of `blockIdx`, which CUDA does
not document and deterministic mode relies on. In GQA the wait for the turn is
inside the epilogue, in the code as in the model. Deterministic launches of head
dimension 256 are refused by the host and left out.

**`MainloopBwd`.** `Loop` is the sequence of calls of `bwd_step`, which differs
with the kernel: waits, named barriers, writes of P, dS and dQ, gemms. A gemm
reads its operands until the wait that ends it. The dQ warp copies each slice of
dQ and waits for its addition; `Epilogue` has three forms (TMA, varlen, GQA), all
writing over the memory of K and V. The five kernels are those of the head
dimensions: to 128 with P and dS in registers, 96 with V in registers, 192 with
three warpgroups and single buffers, 256 with sliced gemms and `atomicAdd` of dQ.
Semaphores are `BackwardGrid`'s. The sync before P is redundant in the kernels
that are compiled: with one stage of dS they have one stage of dO, too.

**`Training`.** Parameters are the history of optimizer steps, a step the
sequence of batches it accumulated. `loop` is Lightning's progress, `sampler`
and `queue` what each rank's loader has drawn; `disk` the two checkpoint files
with what the hooks put in them (`on_save_checkpoint` replaces the number of
completed batches by steps times accumulation). A stop may come anywhere: `Killed`
loses everything in memory, an exception also saves `.pl_auto_save.ckpt`.
External: Lightning's order of hooks. It is assumed that it passes the whole
checkpoint to the datamodule's `load_state_dict`, that jobs resume with
`resume=True` on the same number of GPUs (as the comment
`language_modeling_hf.py:260` asks), that a checkpoint is written whole and that
two files never have the same time. The pile config notes that the exception's
checkpoint is not saved by all workers (`experiment/pile/base.yaml:75`), so that
step stands for the other configs.

## 3. The runs

| Run | Module, cfg | Question | Distinct states |
|---|---|---|---|
| `mainloop` | `MCMainloopFwd`, `MainloopFwd.cfg` | three warpgroups that take turns, two stages, all kinds of launches, long enough for the turns to go round twice | 46 370 |
| `kernels` | `MCMainloopFwdKernels`, `MainloopFwdKernels.cfg` | two warpgroups: taking turns; with the single stage of sparse blocks of 256 keys; without scheduler barriers, overtaking each other | 23 756 |
| `tile_scheduler` | `MCTileSchedulers`, `TileScheduler.cfg` | every scheduler, two launches each, two CTAs; then several producer warps with the schedulers that hand tiles over | 209 039 |
| `late_producer_warp` | `MCTileScheduler`, `TileSchedulerLateWarp.cfg` | several producer warps without a hand-over: expected violation | about 800 when it stops |
| `inference` | `MCInference` | decoding sessions of up to three calls with any arguments; incremental attention steps; varlen launches | 1 328 470 |
| `stale_rotary_table` | `Generation`, `StaleRotaryTable.cfg` | graphs, then training, then graphs: expected violation | about 1 400 when it stops |
| `smaller_batch` | `Generation`, `SmallerBatch.cfg` | graphs for two sequences, then for one: expected violation | about 360 when it stops |
| `one_token_too_many` | `Generation`, `OneTokenTooMany.cfg` | one speculative decoding to `max_length`: expected violation | about 800 when it stops |
| `sparse_empty_table` | `SparseInterface`, `SparseEmptyTable.cfg` | a call with an empty block table: expected violation | about 65 when it stops |
| `one_block_table` | `SparseInterface`, `OneBlockTable.cfg` | the partials of a table of one block: expected violation | about 410 when it stops |
| `training` | `MCTraining` | training stopped anywhere, up to three times; backward of 34 models and functions, of nine launches, of five kernels; one pipeline | 26 647 |
| `post_norm_dropout` | `MCModels`, `PostNorm.cfg` | the dropouts of post-norm GPTs: expected violation | an initial state |

What the properties say, by module:

*Pipelines.*
- `ReadsOwnLap`, `NoOverwrite`: a gemm reads the data issued for its own ring
  position with no copy in flight; a copy is issued only into a stage everybody
  has released.
- `RingInv`: the counting invariant of the proof (section 5).

These and their `TypeOK` are of the pipeline alone, a level of `training`; the
pipelines inside the CTA are `PipelinesAreRings`.

*Forward CTA.*
- `SmemSafe`: no copy in flight into Q, K, V while a gemm reads it, nor into
  smem_v while it serves as smem_o, nor O written while V is still read.
- `NamedBarriersUnmixed`: QueryEmpty, the turns and EpilogueBarrier never hold
  arrivals of two uses.
- `ParityUnambiguous`: barrier_Q and barrier_O are never a whole cycle away from
  anybody's `work_idx`, though each party counts for itself and skips empty
  tiles for itself.
- `DrainedOnExit`: nothing is in flight or half-arrived when the producer ends.
- `ImplementsCtaAttention`: each tile's attention, over exactly its blocks as
  `TileBlocks` defines them independently, is written once per warpgroup.
- `PipelinesAreRings`: each pipeline is a behaviour of `TmaRing`, although in
  the loop only the first warpgroup waits for full barriers.
- `Terminates`: everybody reaches the end.
- `KernelsSmemSafe`, `KernelsImplementCtaAttention`: `SmemSafe` and
  `ImplementsCtaAttention` of the three kernels of run `kernels`.

*Schedulers.*
- `ReadersFollowProducer`, `HandoffBarriersUnmixed`: warps of a CTA go through
  the same tiles, at most one apart.
- `TilesDrawnOnce`: tiles are taken in order, once each, from a semaphore that
  starts at 0 in every launch.
- `ImplementsTileDispatch`: every launch computes each tile once; the next one
  starts only then.
- `SignalSeen`: a producer warp waiting for barrier_O by parity looks before the
  parity has turned again; violated in `late_producer_warp`.
- `HelpersSignalSeen`, `HelpersImplementTileDispatch`: with helper warps and a
  hand-over it does, and launches still implement `TileDispatch`.
- `Terminates`: the stream of launches ends.
- `VarlenEqualsAttention`: whatever was planned, split, packed and left empty, in
  the output of every row block each K block it sees counts once and no other.
- `TilesDecodedOnce`: the tiles the CTAs decode are those of the launch, each
  computed by one CTA, however far a CTA's next tile number is from its last.

*Sparse interface.*
- `IncrementalIsExact`: after any prediction, table order, selection and number of
  splits, the result of a speculative pass merged with its repair counts each
  token of the selected blocks exactly once. `one_block_table` violates it.
- `IncrementalEqualsAttention`: what holds instead, of every documented call. A
  block is missing only if it was the only one predicted, and then entirely;
  every other selected block counts exactly once. Where the tile of the kernel is
  not `block_size` (head dimension 64), it says so of the tiles that the entries
  stand for in the kernel: the finding about `tile_size.h:26`.
- `EmptyTableIsEmptyPartial`: what the docstring promises of an empty table;
  violated in `sparse_empty_table`.

*Generation.*
- `LogitsSeeThePrefix`: every emitted token was sampled from logits that depend
  on exactly the text before it, and every draft on the text and drafts before.
  `stale_rotary_table` violates it.
- `UsableGraphsSeeThePrefix`: it holds of every call without graphs and of every
  call whose graphs can be replayed (`GraphsUsable`), whatever calls, captures and
  trainings came before, those that went wrong included.
- `CallsNeverFail`: no assertion, no missing graph, no write outside a cache;
  violated in `smaller_batch`.
- `OnlyRefusedCallsFail`: the calls that fail are among those `Refused` lists: a
  prompt or a graph longer than `max_length`; with rotary, graphs for fewer
  sequences than their cache was made for, and graphs on a retrained model whose
  table became shorter than that cache.
- `GraphsStayLive`: only training and a call without graphs for more positions
  than the rotary table has may take the table away from a graph that is kept,
  and nothing the K/V memory.
- `EndsAtMaxLength`: a call ends at `max_length` or at the end token, as
  `generation.py:298` says; violated in `one_token_too_many`.
- `EndsAtMaxLengthOrOneMore`: `decode` does; a speculative call may return one
  token more, never two; after a prompt of that length both return one token.
- `ImplementsDecoder`: a session is a behaviour of `Decoder`, under `text <- out`,
  `seen <- scores`, `busy <- pc # "idle"`, `sound <- GraphsUsable`: a call that
  starts sound stays so, and one that is not still only extends its text.

*Models.*
- `ForwardEqualsReference`: the term of the loss is `ModelReference`'s, across
  fused, packed, reordered and in-place code, and with the dropout probabilities
  as they are mapped.
- `ForwardAsDocumented`: the term is that of the documented model; violated in
  `post_norm_dropout`.
- `GradientsAreChainRule`: in every order of the engine, every trained tensor
  ends with all terms of the chain rule, each from complete gradients and from
  the values forward used.
- `WaitingGradientsKept`: a backward that works in place never writes over a
  gradient another call has still to read.

*Backward kernels.*
- `BwdSmemSafe`: until a gemm is waited for, its operands are its Q block's,
  written by everybody and overwritten by nobody; so are dQ while it is copied
  and dK, dV while they are stored; the dQ barriers are never over-arrived.
- `GradientsExact`: a call returns on however few SMs; then every block of dQ,
  dK and dV has each of its terms once and no garbage, and in one fixed order if
  the launch is deterministic.
- `CtaGradientsRight`: a CTA ends; then dQ was added once for every Q block in
  order and dK, dV were stored once with all Q blocks in them.

*Training.*
- `RestartsAtSameBatch`: the parameters are those of training nothing stopped.
- `NoSavedStepLost`: of two checkpoints the one resumed from is never behind.
- `EpochsCoverDataset`: the steps of an epoch used every sample, and repeated
  only what evens out the ranks.

Deadlock is checked in `mainloop`, `kernels` and `tile_scheduler`, where a finished
CTA stutters through `Exit`, and in `late_producer_warp`. In the others systems
end: sessions, steps and launches of `inference` and of the violations about
them are over, the models of `training` end with backward, its ring stops after
`Laps`, and its kernels are checked for termination instead.

### Bounds, and why they are enough

- `Laps = {0, 1, 2}` for the ring in `training`: parities repeat with period two, so a
  producer or consumer a whole period off would show by the second lap. The
  proof removes the bound, and the refinement of `MainloopFwd` has none.
- Two or three warpgroups are all the kernels ever have; one or two stages are
  what `tile_size.h` yields on these paths (the ring is proved for any number).
- Tables of up to five entries and up to four splits: a full, a short last and
  an empty trailing slice occur. Tiles per CTA: up to four, so barrier_O and
  barrier_Q go through both parities and meet empty tiles in between.
- Two CTAs, three tiles, two launches: CTAs race for the last tile, run out at
  different times, and the second launch meets the semaphore of the first.
  `Garbage = {2}` stands for whatever `torch::empty` returns.
- Helpers: one or two of the three. Each waits for the same barriers and they do
  not interact with one another otherwise.
- Varlen: six launches under three masks, with `kBlockM = kBlockN = 2`. The
  hardware constants are scaled so that their limits are met: a warp looks at 2
  batches at once (31), the prepare kernel sorts 4 per CTA (992), fields of
  `bidh` hold 4 splits (2^8) and 8 heads (2^16). The launches have splits in use
  and reused metadata, a batch without queries, heads outside the tile, a
  section of fewer heads in L2, more batches than one CTA sorts, no keys at all,
  and as many splits as fit.
- Sparse steps: eight units of 64 tokens, block sizes 128 and 256, head dimensions
  64 and 128, up to four splits, every prediction and selection, tables of one
  block included.
- Generation: two tokens, one of them the end token; the three attention paths;
  prompts of one and four tokens, `max_length` two and five, batches of one and
  two, one or two drafts per round, three calls. A prompt may be longer than
  `max_length`, reach it or leave room for several rounds; `max_length` 2 makes
  graphs at offset 0 and below. The second call meets the caches, lengths and
  graphs of the first, smaller or larger than it needs; a third meets what a call
  that shared them, or a training, has left.
- Models: two layers, so that a layer's residual comes from another; every option
  that changes what a Function saves appears with and without the others.
- Backward launches: up to four blocks in each direction, three heads, groups of
  two, two batches, one to three SMs, heads in L2 in sections of one and two,
  windows that leave Q blocks out before, after and between. Fewer SMs than
  CTAs is the case in which spinning could stop the grid.
- Backward CTAs: zero to four Q blocks: both buffers are used twice, and tiles
  without Q blocks pass the dQ barriers. The proof removes the bound, and covers
  every combination of the kernels' options.
- Training: nine samples on two ranks (one is repeated, the last batch of an epoch
  is smaller, its last step accumulates one batch of two), saved every two of
  five steps over three epochs, two batches drawn ahead, three stops. The proof
  removes these bounds.

### Fairness

In the forward runs: weak fairness of each warp, of each copy in flight and of
each barrier. The warps of a resident CTA are scheduled independently and a TMA
copy that was issued completes. All CTAs of a persistent grid are resident (its
size is the number of SMs), and so their warps are treated alike; the CTAs of a
single-tile grid do not wait for one another. No strong fairness is assumed: no
step is ever disabled by another party once enabled, except the parity wait of
a late producer warp, which is the first finding. `mainloop` has this fairness of
each party.

Where several grids or kernels share a run (`kernels`, `tile_scheduler`, the
backward levels of `training`): weak fairness of the whole next-state
relation. Every step makes progress that cannot be undone, so this only says
that the GPU runs while any warp can; which warp is left open, and a resident
CTA that spins takes no step. It is weaker than fairness of each warp.

Generation, the sparse interface, models and training state no liveness.

## 4. Findings

Each is a run that ends in a violation, but for the one about `tile_size.h`.

`late_producer_warp`. When Q is loaded by cp.async (PackGQA, which split
launches use), all four producer warps execute
`barrier_O.wait((work_idx + 1) % 2)`, commented "Wait for the MMA warpgroups to
signal that smem_v is ready" (mainloop line 1093, and the same in `load`). Only
the first of them goes on to load V. The warpgroups never wait for the other
three after their arrival on barrier_Q, so with the single-tile or static
scheduler they can finish the tile and complete another phase of barrier_O
before such a warp has looked at it: the parity is again the one it refuses,
and it waits for a phase nobody completes. It takes a warp that is not scheduled for
the length of a whole tile, which hardware makes very unlikely but nothing in
the code excludes. The dynamic and the varlen scheduler exclude it, since a
warp must take its tile before the next can be handed over (`tile_scheduler`
checks `HelpersSignalSeen`).

`sparse_empty_table`. `flash_attn_interface.py:970` says of a block table "If
empty the call returns O=0, LSE=-inf (empty partial for combine)". The host
keeps the table as a data pointer, null for a tensor without elements
(`flash_api.cpp:992`), and the heuristic and the kernels recognise a table by a
pointer that is not null: an empty one runs dense attention over all keys. So
does a repair of a complete prediction through `flash_attn_speculative_sparse`,
which counts every key a second time.

`one_block_table`. `flash_attn_with_sparse_block_table_partials` promises a partial
for each entry of a table that is not empty, and asks the host for one split per
entry. The host allocates partials only when there are several splits
(`flash_api.cpp:1168`): a table of one entry yields none, and the caller that
predicted one block and selects it loses it.

The tile of head dimension 64 (finding about `tile_size.h:26`, seen in `inference`).
A `block_size` of 128 takes the standard kernel, whose tile is 192 keys when the
head dimension is 64, and an entry `b` of the table then stands for keys `192 b` to
`192 b + 191`, although the README promises `block_idx * block_size`. Where
`IncrementalEqualsAttention` counts tiles of the kernel, this is why; with
`HeadDim = {64}`, `IncrementalIsExact` fails in a single call.

`stale_rotary_table`. Graphs are found by batch and number of tokens and dropped only
for a larger batch or `max_length`, another device or dtype
(`generation.py:629-673`). They read the cos/sin table by address, and
`_update_cos_sin_cache` makes a new table, freeing the old one, when the model is
trained after inference or a call without graphs needs more positions
(`rotary.py:392-398`). The next call with graphs replays kernels that read memory
which may hold anything. `test_gpt.py:283` wants decoding with graphs to equal
decoding without.

`smaller_batch`. `lengths_per_sample` has a row for each sequence of the call that
allocated the cache (`generation.py:663`). The appending path slices it by the
batch; the prompt pass hands it whole to `apply_rotary` (`mha.py:622-650`), which
asserts `seqlen_offsets.shape == (batch,)` (`ops/triton/rotary.py:143`). A call with
graphs for fewer sequences fails in its prompt pass, though `test_gpt.py:316` goes
back to smaller batches on purpose.

`one_token_too_many`. `generation.py:298` gives sequences a length of `max_length`
and the comment at 430 keeps `seqlen_og + 1 + n_spec_tokens` within it. Later rounds
take the offset of the draft model, which is one token behind after a round that
accepted a draft: when the last round accepts everything, the sequence has
`max_length + 1` tokens. `EndsAtMaxLengthOrOneMore` shows that it is never more.

`post_norm_dropout`. A GPT with `prenorm=False` drops the attention output of its
first layer with `embd_pdrop` (`gpt.py:275`) and its embeddings not at all: the
mapping that the comment at `gpt.py:462` describes is for blocks which begin with
dropout, add and norm.

Other calls on which graphs go wrong, in the model and excused by `GraphsUsable` or
`Refused`; no run is about them since no text of the repository promises otherwise
or the runs above show the same property:

- `capture_graph` takes `max_length - n` for the offset of a graph of `n` tokens
  (`generation.py:701`). At offset 0 the model runs its prompt path, which writes
  at position 0; a longer call with the same cache finds the graph, replays it and
  loses what it had evaluated. A negative offset, from speculative decoding with
  `lookahead + 1 > max_length`, is counted as a failure (`Refused`).
- Without flash attention a graph keeps the offset it was captured with
  (`mha.py:549`), so that replaying it at another one goes wrong.
- With rotary, graphs on a model that was retrained on shorter sequences: the table
  is shorter than the cache that is kept, which the kernel refuses.

Disagreements that reading for the models brought up and no model shows:

- `BertForPreTraining` with `last_layer_subset`, flash attention, a mask and no
  labels fails an assertion, although its docstring makes labels optional
  (`models/bert.py:470`).
- The fallback of `fused_mlp_func` computes relu for "sqrelu"
  (`ops/fused_dense.py:519`).
- `DropoutAddLayerNormSubsetFn` with `prenorm` and without `return_dmask`
  views its residual with the shape of `x0`, which a subset does not have.
- `get_scheduler_metadata(pack_gqa=False)` with splits plans unpacked M blocks
  for a launch that packs (`flash_api.cpp:700`).
- `training/README.md:171` promises a restart at exactly the same batch; on one
  GPU the sampler is not fast-forwarded (`language_modeling_hf.py:259`).

## 5. What is proved

`TmaRingProofs` (for every `kStages > 0`, every non-empty set of consumers and
any `Laps`; assumptions `StagesAssumption`, `ConsumersAssumption`,
`NoBlockAssumption`):

- `TypeCorrect`: `Spec => []TypeOK`.
- `RingInvariant`: `Spec => []RingInv`.
- `ReadsOwnLapAlways`: `Spec => []ReadsOwnLap`.
- `NeverOverwrites`: `Spec => NoOverwrite`.

`ReadsOwnLap` is not inductive: it says nothing of consumers that are not
reading. The invariant counts, with `Passed(st, s)` the number of times a
position has gone past stage `s`:

1. `CopiesCounted`: full barrier + copy in flight = passes of the producer;
2. `ProducerWithinOneLap`: passes of the producer are the completions of the
   empty barrier or one more;
3. `ReleasesCounted`: passes of a consumer are the completions of the empty
   barrier, one more if it has arrived in this phase, and never more than the
   full barrier has;
4. `ReadersSawFull`: a reading consumer has seen the full barrier of its lap;
5. `ContentsKnown`: what is in flight and what landed last in each stage.

Two counts that differ by at most one are told apart by their parity
(`ParitySeparates`), so a parity wait that succeeds gives the equality that
`AcquiredStageIsFree` and `AwaitedCopyLanded` need. 1 to 4, `Counted`, are in
`TmaPipeline` and speak of no variable: `TmaPipelineProofs` shows that acquiring
and issuing, landing, a wait and a release each keep them (`Ring`), whoever owns
the positions. `TmaRingProofs` adds the contents, one lemma per action;
`MainloopFwdProofs` uses the same lemmas for the rings of K and of V. Where the
blocks that go through a pipeline are 0, 1, 2, ..., the counts say what each stage
holds (`Numbered`): that part serves `MainloopBwdProofs`.

`MainloopFwdProofs` (for any number of warpgroups and stages, with and without
turns, any launches: tables, splits, epilogues, tiles with and without blocks;
assumptions `WarpGroupsAssumption` and `RingSizeAssumption`, at least one of
each; `TurnsAssumption`, a Boolean; `LaunchesAssumption`, launches are of their
type, with at least one split; `NoBlockAssumption`):

- `TypesCorrect`: `Spec => []TypeOK`.
- `SharedMemorySafe`: `Spec => []SmemSafe`.
- `ParitiesUnambiguous`: `Spec => []ParityUnambiguous`.
- `BarriersUnmixed`: `Spec => []NamedBarriersUnmixed`.
- `ExitsDrained`: `Spec => []DrainedOnExit`.
- `RingsAlways`: `Spec => [](KIsRing /\ VIsRing)`, the counts of the pipelines.
- `PipelinesImplementRings`: `Spec => PipelinesAreRings`, the refinement of `TmaRing`
  by each pipeline.
- `StagesAlwaysHold`, `QueryAlwaysHolds`, `TermsAlways`: what is in the stages of K
  and V, in smem_q, in the registers and in smem_o.
- `CtaAttentionImplemented`: `Spec => Cta!Init /\ [][Cta!Next]_(Cta!vars)`, the
  refinement of `CtaAttention` without its fairness: `ImplementsCtaAttention` but for
  the promise that every tile is written in the end.

None of these properties is inductive. They rest on invariants that give every
party's place in the launch, proved in layers, each using those before it:

1. `Places`: `TypeOK`, and where everybody is: the producer's and a warpgroup's
   ring positions are the blocks of the tiles before theirs, `Before(BlockCount,
   t)`, plus how far the label says the step is, and `work_idx` is the number of
   tiles with blocks before theirs, `Before(WorkCount, t)`. `Before` is a
   cardinality, so that sums over tiles need no induction;
2. `TurnsInOrder`: with scheduler barriers exactly one warpgroup has the turn;
   those before it in the ring have taken one more than the others, and no other
   barrier holds an arrival;
3. `KIsRing`, `VIsRing`: each pipeline is `Counted`, with the positions that
   `WriteK`, `ReadK`, `WriteV`, `ReadV` of `MainloopFwdRefinement` give. A step of
   the CTA does one thing at most to each ring (`RingMove`), which is what both
   this invariant and the refinement need;
4. `QueryCounted`: loads of Q asked for are those completed and the one in flight;
   each warpgroup has waited for no more than were completed, and QueryEmpty
   counts the warpgroups that are one release ahead;
5. `SyncsAgree`, `StoreArrivals`: all warpgroups have left as many syncs of the
   epilogue behind, and who has arrived for the TMA store;
6. `StoresCounted`, `OBehind`: barrier_O counts the stores, and the producer
   loads V of a tile only when O of the one before it is stored;
7. `Drained`: what `load_tail` has waited for;
8. `KHolds`, `VHolds`, `QueryHolds`: the n-th copy of a pipeline brings the n-th
   block of the launch (`Listing`: the blocks of all tiles, one tile after the
   other), so the count of a stage says which block it holds, if it still must;
   the n-th copy of Q brings the n-th tile with blocks (`Asked`). When
   O is written over V no stage of V must hold anything: every one has been
   released as often as it was filled (`SmemOIsHeld`);
9. `AllComputed`, `StoredO`: a warpgroup's scores are those of its step and its
   accumulator the terms of the blocks before; smem_o, when it is copied out, holds
   the whole of one tile in every warpgroup's part;
10. `Outputs`: a share is written, with that whole, once its `Writer` has left the
    tile: the `Storer` for all with the TMA store, else each its own.

Four arguments carry them. *A warpgroup that does not wait reads a full stage*
(`StepSeesFull`): in the loop only warpgroup 0 waits for K and V if turns are
taken; the one that has the turn has taken no more turns than warpgroup 0
(`FirstIsAhead`), so warpgroup 0 has waited for the same block and its count of
the full barrier holds for both. *A phase of barrier_Q or barrier_O that is seen
by parity is the one that was meant*: counts of the two sides differ by at most
one, by 4 and 6. *smem_o is free while it is used* (`SmemOIsHeld`): a
warpgroup in the epilogue has all others past the V of its tile by 5
(`ReadersPastTheTile`), and the producer has not asked for V of a later tile,
since that takes barrier_O to count a store that is still to come
(`OwnStoreNotCounted`); tiles without blocks in between have no V
(`NoWorkBetween`). *What the split is asked
for is what is loaded* (`TileBlocksAreLoaded`): the positions whose quotient by
the slice length is the split's are one interval (`SliceInterval`), and counting
them upwards gives them in order (`AscendingInterval`), so the definition of
`MainloopFwdRefinement` and the ranges of the code list the same blocks.

`MainloopBwdProofs` (for two or three warpgroups, one or two stages of dO and of
dS, P and dS in registers or shared, sliced gemms or not, each of the three
epilogues, and any number of Q blocks; assumption `CtaKernelsAssumption`, which
says this of the kernels):

- `SharedMemorySafe`: `CtaSpec => []BwdSmemSafe`.
- `EndedCtaAddsAll`: `CtaSpec => [](Exited => GradientsOfTile)`, the safety part of
  `CtaGradientsRight`.
- `IInvAlways`: `CtaSpec => []IInv`, the inductive invariant.

`BwdSmemSafe` says what is in a buffer while something reads it; the invariant
derives everything from the places of the parties:

1. `Places`: a warpgroup's call and block, `(pc, m)`, determine the gemms it has
   under way (`UnderWay`), the stages it holds and what it has written of P, dS
   and dQ. `CallAt` is the loop as a table of places, since `Loop` is put together
   from pieces that differ with the kernel (`LoopCalls` shows they agree);
2. `QueryRing`, `DoRing`: both pipelines are rings in which block `n` is Q block
   `n` (`NumberedRing`), by the lemmas of `TmaPipelineProofs`; a warpgroup has
   the block of its own `m` (`NumberedRead`). dO is released before the
   iteration ends, so its reading position runs ahead of `m` (`ReadDo`);
3. `SyncInv`: all warpgroups have passed the same syncs (`Round`), and who has
   arrived at a barrier is still before that sync;
4. `PdSInv`: the buffers of P and dS hold the blocks written last, one or two of
   them with the stages of dS;
5. `DqInv`: dQFull and dQEmpty of a warpgroup hold what it has written minus what
   the dQ warp has taken (`Copied`), and what that has given back (`Freed`),
   plus the arrival of `mma_init`, minus what it has written;
6. `KvInv`, `EpilogueInv`: K and V are whole until every warpgroup has left the
   loop, and what of dK and dV has been written and is being stored.

The argument at its centre is `Lockstep`: a gemm reads P or dS of *all* warpgroups,
each of which may be ahead, and with two stages one sync per block is all there
is. By 3 the others are within a block of each other, and by 4 whoever is ahead
has not yet come to the buffer that is read. The sums need a second invariant on
top, `GradientsInv`: how many gemms into dK, dV and dQ of a place have ended
(`EndedCount`) gives the terms in each accumulator (`FirstTerms`), and the places of
the epilogue and of the dQ warp how often each has left the CTA.

`SparseSplitProofs`: `SlicesPartition`: for every table length and number of
splits each position of the table is in the slice of exactly one split. This is
what lets the combine kernel add splits up. It uses only the remainder law of
integer division (`CeilDivEnough`) and monotonicity of the product.

`TrainingProofs` (for every dataset and shuffling, any number of ranks, batch
size, accumulation, checkpoint period, prefetching and stops; assumptions
`SamplerAssumption` and `TrainingAssumption`):

- `TypesAreKept`: `TrainingSpec => []TypeInv`.
- `ResumedIsUninterrupted`: `TrainingSpec => []RestartsAtSameBatch`.
- `ResumesTheMostSaved`: `TrainingSpec => []NoSavedStepLost`.

`RestartsAtSameBatch` speaks of the parameters alone; what makes it last is what
loaders, gradients and files hold. The inductive invariant is

1. `TypeInv`;
2. `Uninterrupted(weights)`: the property itself;
3. `DiskInv`: every checkpoint is a point of uninterrupted training, with
   completed batches = steps times accumulation, and the newest file is not
   behind the other;
4. `RunningInv`: while training runs, the loop is at the epoch and step that the
   number of optimizer steps gives (`At`), the gradients are the batches since
   the last step (`GradientInv`), queue and sampler of each rank hold what
   remains of the epoch from the next batch on (`LoaderAt`), and no file is ahead.

Arithmetic lemmas (`CeilDivBelow`, `DivMod`, `Sizes`) give the place of a step in
its epoch; sequence lemmas (`CutInTwo`, `DrawsNextBatch`) cut an epoch's indices
into batches; then there is one lemma per action. The hard case is a file saved
at the end of an epoch: there steps times accumulation may exceed the batches
of the epoch, and the resumed loader must be empty.

`TileSchedulerProofs` (for any number of CTAs, warpgroups, helpers, tiles and
launches, any scheduler in each launch; assumptions `CtasAssumption`,
`ReadersAssumption`: at least one warpgroup; `StreamsAssumption`: a grid has a
CTA for every tile of the single-tile scheduler; `GarbageAssumption`):

- `TypesCorrect`: `Spec => []TypeOK`.
- `ReadersFollow`: `Spec => []ReadersFollowProducer`.
- `BarriersUnmixed`: `Spec => []HandoffBarriersUnmixed`.
- `DrawnOnce`: `Spec => []TilesDrawnOnce`.
- `SignalNotMissed`: `Spec => [](Handoff \/ Helpers = {} => SignalSeen)`. The
  proviso is needed: `late_producer_warp` violates `SignalSeen` without it;
  `HelpersSignalSeen` is the first case in a run.
- `Implements`: `Spec => Dispatch!Safety`, the safety part of `TileDispatch`.

The invariant, `ScheduleInv` (theorem `Scheduled`), is about each CTA by itself
but for the semaphore:

1. `TypeInv`, and what labels say about tiles (`ProducerAt`, `ReaderAt`): nobody
   goes on after a tile that is not valid;
2. `HandoverInv`: all readers are in the same phase of TileCountSmemFull, and
   TileCountSmemEmpty has counted exactly those that have received the
   producer's newest tile but have not been given another. Both barriers only
   count; who has arrived follows from how many tiles each warp has taken;
3. `ComputedInv`: the schedulers without a hand-over compute the same tiles
   everywhere;
4. `SemaphoreInv`: the tiles drawn, in shared memory or on their way to it, are
   the numbers counted so far, each at one place; and at the next `Setup`
   a caller's semaphore is 0 again;
5. `WorkInv`: `work_idx` and the stores of each warp are the number of tiles with
   blocks it has been through, so no warpgroup is ahead of its producer;
6. `OutInv`: what is written is what warpgroups are through with.

A count that goes up by one per arrival is turned into a set of readers by
cardinality lemmas; a phase of a named barrier then ends exactly when the set is
`Readers`. `SignalSeen` follows from 2 and 5, `TilesDrawnOnce` from 4, and the
refinement needs all: a launch is over when every CTA has met an invalid tile,
and then the tiles drawn are all there are.

`GenerationProofs` (for any tokens, lengths, batches, drafts and number of calls, in
any order, with training in between; assumption `GenerationAssumption`, positive
sizes and tokens that are not the marker 0 of the drafts). The specification has no
guard but those of the code, so the theorems are about every call it begins:

- `SampledFromPrefix`: `Spec => []UsableGraphsSeeThePrefix`.
- `OnlyRefusalsFail`: `Spec => []OnlyRefusedCallsFail`.
- `GraphsLive`: `Spec => GraphsStayLive`.
- `EndsWhereAsked`: `Spec => []EndsAtMaxLengthOrOneMore`.
- `ImplementsAbstractDecoder`: `Spec => ImplementsDecoder`.

That a token was right says nothing of the next one; this depends on both caches
and on the graphs. The inductive invariant is `SessionInv`: a session that failed
has failed in a refused call, with everything sampled before it right; in any
other `GenerationInv` holds:

1. `TypeInv` and `CallInv`: among others, a call with graphs has one for each
   length it will ask for, and memory as large as it needs (`ReadyInv`);
2. `GraphsInv`: every graph that is kept was captured in the memory of its cache
   and at an offset from which it stays inside, with the table of the module or an
   older one; one that can be replayed with the current table has a table as long
   as the cache;
3. `MainInv`: the main model has evaluated all but the last token; and, if the
   graphs of the call are usable, its entries up to its offset are those of the
   text, whatever lies beyond, and each score is that of the text before it;
4. `DraftInv`: the same for the draft model and the text followed by the drafts;
   between rounds it is one token behind the main model exactly if its last
   draft was accepted;
5. `PlaceInv`: how far each loop can still go, which bounds every write by the
   rows that were allocated, and by one token the length of the result.

Offsets, places and graphs are thus known of calls that go wrong, too, which is
what makes `OnlyRefusalsFail` and the refinement hold for them. Rejecting drafts is
going back to a prefix (`KeptPrefixes`); evaluating `n` tokens after the offset
extends the entries by `n` (`EvaluationExtends`) by any of the three paths of
`MHA.forward`, replayed or not; `CallMade` joins the two with the graphs, and
`CallServed` shows that an evaluation which fails is of a refused call. `GraphsUsable`
does not change during a call (`TableAfterCall`): evaluations replace a table only
in a call for more positions than it has, which one with graphs never is. One
lemma per action follows.

Only model-checked: the grid of the backward pass (`GradientsExact`),
`VarlenSchedule`, `SparseInterface`, the models
(`GradientsAreChainRule` and the others evaluate programs recursively, which is
out of the prover's reach), `EpochsCoverDataset`, a fold over sequences, and all
liveness (`Terminates`, the fairness in `ImplementsTileDispatch` and
`ImplementsCtaAttention`, that calls return in `GradientsExact` and CTAs end in
`CtaGradientsRight`).

## 6. Not modelled, and the plan

Next, in the order of importance:

1. Paged KV and AppendKV: the hand-over of appended pages between producer and
   consumers on a second pair of pipelines, K/V by cp.async.
2. More of the forward mainloop: helper warps inside `MainloopFwd` (now only in
   `TileScheduler`), `Transpose_V`, `LargeHeadDimV` (`mma_pv`), clusters with
   multicast, no `IntraWGOverlap`.
3. The postprocess kernels of the backward pass, and `seqused` without
   `cu_seqlens`, which the backward launch ignores (the Python functions never
   pass it so).
4. Tensor parallelism in layers and decoding, activation checkpointing, the
   bias-GELU Function.
5. Host dispatch as such: the checks of arguments, tile sizes, the heuristic for
   `num_splits` (any value up to a bound in the models).
6. EMA, validation, dataset caches and the one-GPU sampler of the harness.

Theorems planned: the order of additions in `BackwardGrid`
for any number of blocks; the tables of `SparseInterface`.

Left out on purpose: softmax, masks inside a block, scaling, FP8 conversion and
layouts are numerical data that no barrier depends on; masks enter as ranges of
blocks. SM80 and FA-2 kernels synchronise inside one thread block, and the
sparse loop of FA-2 repeats the slice in `SparseSplit`. Arithmetic of the Triton
and CUDA kernels behind the Functions is one operator each. Gradients the code
does not define (`qv`, `attention_chunk` in FA-3) are not in the programs.
Instantiations, code generation, build and benchmarks have no behaviour of their
own. Small things known and not in a property: graphs are kept when device and dtype
agree, whether or not parameters were replaced (`generation.py:629`); what a caller
finds who goes on after a failed call is not modelled.
