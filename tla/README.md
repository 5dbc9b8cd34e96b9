# A TLA+ model of flashattn

This directory models and verifies the parts of the repository whose correctness depends on
control: which key blocks a thread block visits and how it masks them, how the warps of a block
share memory, how several thread blocks share a key-value cache and combine partial results, how the
three kernels of the backward pass retrace what the forward pass let attend, and how
decoding, plain and speculative, keeps its caches in step with the text. The arithmetic of attention is abstracted to
*which columns a row combines*: a softmax over a set of scores is right exactly if the set is
right, every score enters once, and no `-inf - -inf` is computed on the way.

Paths below are relative to the repository; `K64` is
`csrc/flash_attn/flash_kernel/fwd_kernel/xcore1000/flash_fwd_kernel_hdim128_blockM64.h`, `SPLIT` is
`.../xcore1000/flash_fwd_split_kernel.h`, `COMBINE` is `.../fwd_kernel/flash_fwd_split_combine_kernel.h`,
`B128` is `.../bwd_kernel/xcore1000/flash_bwd_kernel_hdim128_32x64.h`, `BWD` is `flash_bwd_kernel.h` beside it.

## 1. The system

| Component | State | Operations | Talks to |
|---|---|---|---|
| Entry points `flash_api/*.cpp`, C interface `capi/` | none between calls; a parameter struct per call | `mha_fwd`, `mha_varlen_fwd`, `mha_bwd`, `mha_varlen_bwd`, `mha_fwd_kvcache` | launches kernels through the dispatch |
| Dispatch `flash_dispatch/`, `flash_run/`, tuning tables | none | template switches, grid dimensions | kernels |
| Forward kernels `flash_kernel/fwd_kernel` | per CTA: registers of each warp, shared memory | one CTA per row block, head and batch element | read Q, K, V; write O, LSE |
| Split-KV kernels | as above, and the cache | append the new keys and values, attend to one split of the keys | read and write the cache; write O, LSE or the accumulators |
| Combine kernel | shared memory with the LSE of the splits | merge the splits of a row | reads the accumulators, writes O, LSE |
| Backward kernels `flash_kernel/bwd_kernel` | registers, shared memory; dPsum and dQ accumulator between the kernels | `dot_do_o` (dPsum, clear the accumulator), `dq_dk_dv` (one CTA per column block, or several blocks per CTA; `atomicAdd` to dQ), `convert_dq` | read LSE of the forward pass, write dQ, dK, dV |
| Generation `flash_attn/utils/generation.py` | `InferenceParams` (offset, caches), graph cache | `decode`, `decode_speculative`, `update_graph_cache`, `capture_graph` | attention module, rotary table |
| Attention module `modules/mha.py`, `layers/rotary.py` | cos/sin table | `_update_kv_cache`, `_update_cos_sin_cache` | kernels |
| Layer norm, fused dense, softmax, rotary, cross-entropy, `ft_attention` | per CTA only | row-wise kernels | - |
| Models, training, examples, kernel generator, `mctlass` | - | - | - |

`PROJECT.json` lists every component with what is modelled of it and why the rest is not.

What is hard about it:

* **Interleavings.** Warps of a CTA share memory through split arrive/wait barriers; CTAs of a grid
  run in any order and, when they append to the cache, write the same rows without a barrier. In the
  backward pass up to four tensors share one place in shared memory, and many CTAs add to one dQ.
* **Boundaries.** Lengths that are no multiple of the tile, more queries than keys, windows wider
  or narrower than a block, empty sequences, splits without a block, C++ division of negative
  numbers. Many loads have no bound check because of an argument about block numbers.
* **Stale state.** A rejected guess stays in the cache until it is overwritten; a cache row may be
  read before the CTA that appends it has run.
* **Protocols over several calls or kernels.** Accumulators, LSE, offsets: what one step leaves must
  be what the next one takes. The backward pass derives its mask and its grid a second time, in other files.

What makes each part correct: a row's output combines exactly the columns its mask allows (and the
masks the interface documents), each once; LSE is `+inf` exactly for rows without keys (the backward
pass relies on it); nothing outside the sequence is read unchecked or written; all warps reach the
same barriers and the kernel ends; the gradients combine exactly the pairs the forward pass let attend each other,
each tile once, in an order that does not depend on the scheduler when the caller asks for that; the cache holds exactly the appended rows; decoding returns a text
the main model could have produced alone.

## 2. Modules

```
AttnMask           C++ integer arithmetic, windows, the documented mask
 |- FwdTiling      arithmetic of the forward kernels, no state             <- FwdTilingProofs
 |   |- FlashFwd     one CTA, warps independent but for the epilogue       <- FlashFwdProofs
 |   |- FwdPipeline  the same CTA with shared memory and barriers          => implements FlashFwd
 |   |                                                                     <- FwdPipelineProofs
 |   `- SplitKV      split kernel, append, combine: a whole call             <- SplitKVProofs
 `- BwdTiling      arithmetic of the backward kernels, no state            <- BwdTilingProofs
     |- FlashBwd     the three backward kernels, all CTAs: a whole call    <- FlashBwdProofs
     `- BwdPipeline  one CTA of dq_dk_dv with shared memory and barriers  <- BwdPipelineProofs
Generation         the main model alone, what decoding promises
 `- SpecDecode     decode and decode_speculative with their caches         => implements Generation
                                                                           <- SpecDecodeProofs
MCFlashFwd, MCFwdPipeline, MCSplitKV, MCFlashBwd, MCBwdPipeline, MCSpecDecode     instances for TLC
```

**AttnMask.** `MaskParams` is `set_params_fprop`, used by both directions: a one-sided window gets `seqlen_k`
on its open side. `FwdMask` is what `mha_fwd` and `mha_varlen_fwd` make of a call before that; they clamp
the window and apply `causal` in different orders. `Attends` is the mask of the kernel's parameters,
`DocAttends` the one documented in `flash_attn_interface.py`. `TruncDiv` is C++ division, truncating
towards zero.

**FwdTiling.** `NBlockMin`, `NBlockMax`, `NMaskingSteps`, `NextPhase` are the bounds and branch tests of the
forward kernel; `KeptCols` the columns the masking code leaves of a sequence of visits. Every tile shape,
number of warps and atom is a constant.

**FlashFwd.** State: per warp the loop variable, `masking_step`, a phase, and `acc`, the visits
folded into its output; per row `gO`, `gLSE`. Actions follow the code: `Return` (lines 56-58 of K64),
`StoreZero` (66-96), `FirstStep` (281-364), `MaskedStep` (366-456), `FreeStep` (458-540), `LastStep`
(542-618), `StoreLse` (710-725), `StoreO` (728-733). Warps meet only in `StoreO`: a row is stored by
another warp than the one that computed it.

**FwdPipeline.** The same kernel at the grain of its shared memory. A tile store is *issued*, then
*lands* any time before the warp passes the next `sync_threads`; `sQ`, `sK` and `sO` start at the same
address and `sV` follows, so tiles overlap when their sizes differ. A warp has one action per
statement between two barriers (`LoadQ`, `ReadQ`, `StoreK`, `GemmS`, `GemmO`, `StoreSO`, `ReadO`,
`StoreO`); `Land` completes an outstanding store, `Arrive` brings a warp to a barrier, the last one
releasing all. The refinement mapping (`Tiled`) forgets registers and shared memory; a visit is the
one of FlashFwd only if the warp read the tiles it should, otherwise no step of FlashFwd matches it.

**SplitKV.** One sequence and one key head of `mha_fwd_kvcache`, for all calls `run_mha_fwd` sends to
the split kernel. State: `stage` of the stream, one record per CTA (head of the group, row block,
split), the cache as the sets of rows written in `kcache` and `vcache`, the partial results, the
result. `Launch` fixes the grid; `Start`, `AppendBlock`, `LoadKeys`, `MaskedVisit`, `FreeVisit`,
`Store`, `StoreEmpty` are the CTA; `SplitDone` starts the combine grid; `Combine` is one of its CTAs.
A visit records which new rows it read before they were in the cache (`stale`) and whether the keys and the
values came from the same block. A CTA is sequential: its inner shared memory is FwdPipeline's
subject, so here only the interleaving of CTAs counts.

**BwdTiling.** `BwdMask` is the third order of clamping and `causal`, that of `mha_bwd` and
`mha_varlen_bwd`; `IsBalance`, `GridDim`, `BwdParams` are what the host derives, `ColumnBlocks` the list
of column blocks a CTA works on (every grid-th block when deterministic, a block and its mirror image
when balanced, otherwise one). `MBlockMin`, `MBlockMax`, `NoQueries`, `Masks`, `BwdKeep` are the
transposed loop bounds, the early exit and the masking code. `RowsFor` and `ColsFor` say which pairs a tile
contributes to dK, dV and dQ: a score is dropped if it is masked or its row's LSE is `+inf`.

**FlashBwd.** One call for one sequence and head. State: `kernel`, the one that runs, and the CTAs of it
that have `finished`; `dPsum` and `dqAccum`, what the first kernel leaves to the second and the second to the third;
per CTA of `dq_dk_dv` the column blocks still `todo`, the loop variable and `acc`, the visits folded
into dK and dV; the results `gdKV`, `gdQ`. Actions: `DotDoO` (`compute_dot_do_o`), `Skip` (B128:46),
`StoreZero` (B128:286-318), `FirstTile`, `NextTile` (the loop), `StoreKV` (epilogue), `Exit`, `ConvertDQ`.
`Tile` appends the column block to the accumulator of the row block, so that a share that is added twice, by the
wrong CTA or in another order can be told apart.

**BwdPipeline.** One CTA of the 32x64 kernel for head size 128 at the grain of its shared memory. The region
`|Q|Qt|dO|dOt|` is five cells; K, K transposed, Q, P and dS, and at last dK and dV go through the same ones.
A warp has one action per stretch of code between two barriers; a store to shared memory or an
asynchronous copy is issued there and *lands* later, before the warp passes a barrier that awaits its
kind: `sync_threads` awaits the stores, the barrier at the head of the loop the copies. A warp that reads a
cell of wrong contents computes nonsense from then on (`good`, `Wrong`), which reaches what it stores.
A CTA goes through its column blocks one after the other, as FlashBwd's does.

**Generation** is the abstract specification: the text grows by tokens to which the main model gives
a positive weight, until it is long enough or ends in the eos token, and no further. The first step is taken
even if the prompt is as long as the result should be, which is where `max_length + 1` tokens of `decode`
come from. **SpecDecode** is both functions, a call with `lookahead = 0` standing for `decode`: `StartDecode`,
`DecodeStep` for one turn of its loop and `DecodeStop` for `should_stop`; for `decode_speculative` `StartFirst`,
`StartSingle` before the loop, `LoopRound`, `LoopSingle`, `Break` for its branches, `SampleDraft`
for one guess, `Verify` for the call of the main model with `sample_speculative` and the update of
both offsets, `SampleMain`, `Return`. A cache cell holds *the tokens its keys and values were computed from*, so
a cell left by a rejected guess differs from the one that belongs there. `Store` is
`_update_kv_cache` (`modules/mha.py:347-372`), cells outside the new ones untouched. With CUDA graphs a call
finds the caches of the one before: `ResetCache` is `InferenceParams.reset`, which moves the offset and
erases nothing, and `Earlier` the texts that may be left there.

## 3. What is checked

| Run | Module, cfg | Question | Distinct states |
|---|---|---|---|
| `flash_fwd` | MCFlashFwd, FlashFwd.cfg | Does one CTA write exactly the attended columns and the right LSE, for every mask, length, evenness and both entry points, in every order of its warps; is that the *documented* mask wherever there are no more queries than keys or at most a causal mask; are the unchecked loads inside and the rescales defined; does it end? | 57 648 |
| `flash_fwd_one_sided` | MCFlashFwd, FlashFwdOneSided.cfg | (violation) the documented mask for windows open on the right | - |
| `fwd_pipeline` | MCFwdPipeline, FwdPipeline.cfg | Two warps, kBlockM = 2 kBlockN: no race on shared memory, same barriers, FlashFwd implemented, all warps finish | 6 108 |
| `split_kv` | MCSplitKV, SplitKV.cfg | Reading a cache in one, two or three splits, and appending to it with several heads, row blocks and splits: documented output and LSE, each column once, loads inside, no NaN, no stale row, exactly the new rows written, end | 148 186 |
| `kv_prefill` | MCSplitKV, KVPrefill.cfg | (violation) more new keys than the window reaches | - |
| `kv_lse` | MCSplitKV, KVLse.cfg | (violation) LSE stored past its end by the combine kernel | - |
| `flash_bwd` | MCFlashBwd, FlashBwd.cfg | Three kernels, their CTAs in every order, the plain, deterministic and balanced grid: dQ, dK and dV combine the pairs of the forward pass, each tile once, determinism, loads inside, nothing read before it is prepared, end | 34 655 |
| `bwd_balance` | MCFlashBwd, FlashBwdBalance.cfg | (violation) the grid of the length the host singles out, without a causal mask | - |
| `bwd_pipeline` | MCBwdPipeline, BwdPipeline.cfg | Three warps, delayed stores and asynchronous copies, one or several column blocks per CTA: no race, same barriers, every tile from the right data, end | 25 876 |
| `bwd_race` | MCBwdPipeline, BwdPipelineBalance.cfg | (violation) a balanced CTA on its way to the second column block | - |
| `spec_decode` | MCSpecDecode, SpecDecode.cfg | `decode` and `decode_speculative`: rejected guesses and the text of an earlier call are never attended to, the caches suffice, Generation is implemented (with its stop at the eos token), decoding ends | 7 864 |
| `spec_decode_length` | MCSpecDecode, SpecDecodeLength.cfg | (violation) the documented length of the result | - |

The properties, by what they guard against:

* `OutputExact`, `AlignedAsDocumented`, `OutputAsDocumented`, `ColumnOnce`, `NoBlockTwice`: a wrong loop
  bound, masking step, window clamp or split bound. `OutputExact` compares with the kernel's parameters for *all*
  calls, the next two with the interface for those calls where the code agrees with it.
* `DKVExact`, `DQExact`: the gradients against the mask of the *forward* pass, derived by the other entry
  point from the same call: transposed bounds, early exits, masking decisions, grid, window clamps.
* `TileOnce`, `Deterministic`: what the tolerance of a numeric test hides, a share added twice or in an
  order the scheduler chooses.
* `StoresAll`: what FlashBwd takes a column block to do, each row block folded once, in order and from the
  right tiles, is what the warps of a CTA do together.
* `LseInfIffEmpty`: the three places that store LSE agree.
* `UncheckedLoadsInBounds`, `NoNaN`: the arguments by which the code leaves out a bound check or a test for `-inf`.
* `NoRace`, `SameBarrier`, `ImplementsFlashFwd`: shared memory and barriers, among them the barrier of the
  forward epilogue that does not wait for outstanding accesses, and the one of the backward loop that waits for
  copies only.
* `NoStaleRead` (FlashBwd): dPsum and the accumulators were prepared by the first kernel, or by `torch::zeros`.
* `NoStaleRead` (SplitKV), `CacheUpdated`: appending without a barrier between CTAs, which the comment at
  SPLIT:248 calls "technically a race" that is safe. It is, because a CTA appends every new row of its split
  before it reads any.
* `CacheFresh`, `CacheInBounds`, `ImplementsGeneration`: offsets that disagree with what the caches hold, after rejected
  guesses or an earlier call; a loop that stops a step too early or too late.
* `Termination` of every component.

Each property of a passing run has a mutant in `PROJECT.json`, a plausible slip in the modelled code
that makes the run fail.

**Bounds, and why they are enough.** The kernels compare lengths only with multiples of the tile and
with each other, so small tiles show every case: with `kBlockM = 6`, `kBlockN = 3` the lengths
{1, 4, 6, 8} x {1, 5, 6, 9, 13} give even and ragged tiles, one to five key blocks, more and fewer
queries than keys (the diagonal at every offset inside a block), and window widths 0, 1 and 4 are empty,
narrower and wider than a block. Varlen adds shorter and empty sequences. FwdPipeline needs two row
atoms per warp and enough key blocks to pass through the masked, the free and the last step. SplitKV is bounded to grids of at most four CTAs
(`SmallReadArgs`, `SmallAppendArgs`; `AutoArgs` adds the calls that cannot run), because CTAs meet only in the cache and in the combination:
two heads times two splits, two row blocks times two splits, and three splits of which one is empty, all
occur. `CombineRows = 2` leaves a last combine CTA that is not full. 
FlashBwd has `kBlockM = 2`, `kBlockN = 4`, query lengths {1, 4, 5} and key lengths {3, 8, 9}: one to three
blocks in each direction, ragged and even, more queries than keys and fewer; six masks, among them a
causal one with a window and windows closed on one side; deterministic grids of two and four CTAs (fewer and more
than column blocks); varlen sequences of length 0. `BalanceLen = BalanceMin = 8` put the lengths 8192 and 2048 of the host's
conditions at two column blocks. BwdPipeline has three warps, so that two can disagree while a third waits, and
calls of one to three column blocks: plain, and deterministic ones whose only CTA does all of them, with one
past the keys and with blocks no row attends. `bwd_race` has the one balanced call and two warps.

SpecDecode has, for `decode_speculative`, prompts
of one to three tokens, `max_length` up to 7 and up to three guesses: the first and at least two later rounds,
with all, some and none of the guesses accepted; the two models agree on some prefixes, differ on others,
and are certain or undecided. The draws exclude 0, see section 5. `decode` has the same prompts, `max_length` 3 (the longest
prompt fills it) and 5, with and without an eos token, which may also stand in the prompt. The caches are new, or hold seven tokens of
an earlier text.

**Fairness.** FlashFwd: weak fairness of each warp, since a resident CTA's warps are all scheduled.
FwdPipeline and BwdPipeline: the same, and each issued store or copy lands. FlashBwd: weak fairness of
`Step`, that is of *some* CTA of the running kernel. SplitKV: weak fairness of the host (stream
order), of *some* CTA of the grid and of *some* combine CTA: blocks wait for nobody, so nothing
more is needed, and the device promises no more. SpecDecode is sequential: weak fairness of `Next`.
In `FlashFwd` and the others a finished program may stutter, so deadlock is checked everywhere.

## 4. What is proved

TLAPS checks 13861 obligations, for every tile shape (in the forward kernels, with kBlockN dividing kBlockM), every number
of warps, of splits and of CTAs, every set of calls, every vocabulary and pair of models.

None of the safety properties is inductive: a state in which a warp or a CTA has skipped a block
satisfies all of them until it finishes. So each component has a strengthening `IInv` that says how far
everyone is and what is stored because of it.

* **FwdTilingProofs.** First division of C++ and of TLA+, products and remainders, which all the others use (BwdTilingProofs
  repeats what it needs of them: both directions declare a tile shape, so one cannot extend the other). `AttendedBlocks`: no attended column lies outside the loop bounds.
  `FreeBlocksBelowDiagonal`: after `NMaskingSteps` steps of a causal call, blocks lie left of
  the diagonal of every row. `KeepExact`: the masking code keeps exactly the attended scores of every block
  the loops visit. `AlignedMask`: for the calls of `Aligned` (no more queries than keys, or at most a causal mask)
  the host derives the documented mask.
* **FlashFwdProofs.** `TypeCorrect`; then `Inductive`, `Spec => []IInv` with
  `IInv == TypeOK /\ (\A w : VisitInv(w)) /\ (\A r : StoreInv(r))`. `VisitInv` says that a warp's visits are the
  countdown from `NBlockMax - 1`, masked for the first `NMaskingSteps`, and that its phase is the one the
  branch tests give; `StoreInv` that what is stored for a row is what its owner kept after leaving the
  loops. From it follow `OutputCorrect`, `LseCorrect`, `BlocksDistinct`, `LoadsInBounds`, `RescaleDefined` and,
  with `AlignedMask`, `OutputDocumented`.
* **FwdPipelineProofs.** The warps share rows of memory without knowing of each other, so the invariant has to say where
  the *others* may be. `Passed(w)` counts the barriers a warp has passed, two in the prologue and two per
  visit; `Synced`: all warps have passed the same number. That leaves a warp two neighbouring statements or so
  (`SameStretch`, `ReadersElsewhere`), and in each such stretch the rows written (`StoreInv`: what is in flight and
  where) are not those read (`MemoryInv`). The exception is the epilogue, whose first barrier awaits no
  store: there `BarrierInv` shows that none is in flight. Hence `ReadsNeverRace` and `BarriersMatch`. `RegisterInv` (each
  product is of the tiles of one block) makes `Tiled`'s visits those of the mapping, so that `ImplementsTiled`, the
  refinement of FlashFwd, follows: one lemma per action, most of them stutter. With it FlashFwd's theorems hold of the pipeline.
* **SplitKVProofs.** `IInv` adds to the countdown of each CTA (`CtaInv`) that, once it loads, every new row of
  its split is in the cache, because it has put it there *itself*: the order of the other CTAs never
  matters, which is why the "technically a race" of the code is harmless (`NoStale`). A cell of the
  result belongs to one CTA per split (`PartialInv`, `ResultInv`), and the splits partition the blocks between the loop bounds of a
  row, so no column is combined twice (`SplitsExclusive`) and none is left out. Masking counts from the
  last block of a *split*, not of the row: `KeepInSplit` shows that this keeps the same scores. From these follow
  `LoadsInBounds`, `RescaleDefined`, `OutputDocumented` and `LseDocumented`. The last two assume `seqlen_q <= capacity`
  for every call, which `flash_api_fwd_kvcache.cpp:178` demands of calls that append; `CacheComplete` (exactly the new rows
  are written) assumes `Reaches`: a call with a left window appends no more keys than its rows and the window cover, so that some row
  attends each new key. All calls of run `split_kv` are such; those of `kv_prefill`, where the cache stays incomplete, are not.
* **BwdTilingProofs.** `MasksAgree`: the forward and the backward entry points, which clamp and apply `causal` in different orders,
  derive the same mask. `AttendedRowBlocks`: the transposed loop bounds exclude no attending row. `BwdKeepExact`: a tile
  keeps exactly the attended pairs. `ColumnBlocksCover` and its companions: the CTAs' lists of column blocks are
  disjoint, and cover all blocks for the plain, the deterministic and the balanced grid.
* **FlashBwdProofs.** `IInv` is a conjunction of what each step leaves to the next: `PsumInv` (what the first kernel has stored), `TodoInv` (a CTA's
  remaining column blocks are the end of its list), `AccInv` (its visits count down from the last row block),
  `AccumInv` (the dQ accumulator of a row block holds the column blocks that have visited it, once each, in whatever order), `DKVInv`
  and `DQInv` (the results). It gives `TilesOnce`, `LoadsInBounds`, `NoStale`, `KeyGradients`, `QueryGradients`. The last
  two assume `GridAgrees`: the host halves the grid only where the kernel makes up for it. That is exactly the condition
  run `bwd_balance` violates. `OrderFixed` is `Deterministic`: each CTA adds its column blocks to its own buffer, and they increase
  (`OrderInv`), so that what the buffer holds in the end is one sequence only.
* **BwdPipelineProofs.** Four tensors take turns in the same cells, and there are no rows to tell warps apart by, so the invariant is
  about time: a warp's *stretch* is the barrier that ends it, the column blocks it has left and its row block (`SameStretch`),
  and `Synced` says that all warps are in the same stretch; column blocks
  without a row block do not count, since a warp skips them without a barrier. `ShapeInv` lists what a warp may have in
  flight at each statement, `BarrierInv` that those who wait have nothing in flight the barrier awaits. This much, `IInv`, holds of all
  calls, and gives `TypeCorrect` and `BarriersMatch`. In every stretch the cells written are not those read, except on the way to the next column block of a balanced CTA, where no
  barrier keeps them apart: `ReadsNeverRace` assumes that no call is balanced, exactly what run `bwd_race` violates. `DInv` then follows
  the data: what is in flight is right (`IssuedInv`), what a warp has read is of its own row and column block (`KeptInv`), what it
  has folded are the row blocks so far, in order (`AccInv`), and what it has stored is complete (`StoreInv`). Hence `StoresComplete`.
* **SpecDecodeProofs.** `IInv` relates the offset of each cache to the length of the text at every
  program point (the draft model is one behind after an accepted guess: `LoopInv`; `DecodeInv` for `decode`), and says that the
  cells below the offset are those of the text and the guesses (`FreshInv`). `CachesFresh`, `StoresInBounds` and
  `Refinement` (SpecDecode, hence both functions, implements Generation) follow, whatever an earlier call has left in the caches. Assumptions, stated in the theorems: the models give
  every token a weight (`ModelsGiveWeights`), and `torch.rand` never returns exactly 0
  (`NeverDrawsZero`, Refinement only).

The named assumptions on constants are evaluated by TLC in every run.

**Model-checked only.** Termination of every component, since liveness is out of the prover's reach. Every other property
of a passing run is a theorem, under the assumptions named above.

## 5. Disagreements found

1. *One-sided windows* (`flash_parameter_utils.cpp:129`, run `flash_fwd_one_sided`). The open side of a window
   becomes the bound `seqlen_k` instead of infinity; with many more queries than keys, rows lose
   keys no one asked to hide.
2. *Length of the result* (`generation.py:479`, run `spec_decode_length`). Later rounds may guess one token too
   many; the result can be `max_length + 1` long. Theorem `StoresInBounds` shows the caches still suffice.
3. *Long appends with a window* (SPLIT:305, run `kv_prefill`). New keys left of every row block's window are
   not copied to the cache.
4. *LSE of the combine kernel* (COMBINE:145, run `kv_lse`). The last CTA stores LSE for rows that do not exist.
5. *Half a backward grid* (`flash_launch_parameter.cpp:32`, run `bwd_balance`). For length 8192 and head size 128 the host
   halves the grid whatever the mask; the kernel lets a CTA do two column blocks under a causal mask only. Without
   one, half of dK and dV is never written.
6. *Second column block of a balanced CTA* (B128:320, run `bwd_race`). Only deterministic calls synchronise before K and V are stored over
   dK and dV that other warps still read.

Two limits that are listed as hazards: with `num_splits = 0`, documented as "use a heuristic", a call that takes the split kernel
reaches the grid computation unchanged, zero CTAs (`flash_performance_mode.cpp:169`; `CannotRun` ends it, and `AutoArgs`
reach it in `split_kv`). If `torch.rand` returns 0, `sample_speculative` accepts a guess of weight zero (`generation.py:242`).

## 6. What is not modelled

* *Numbers.* Scores, scaling, softcap, alibi, dropout, sinks, an explicit attention mask: they change what a
  column contributes, not which ones do.
* *Inside a CTA of the split and combine kernels*: shared memory, the unexplained barrier at COMBINE:183.
* *Tiles with kBlockM not a multiple of kBlockN*, which the forward dispatch never uses and one split
  kernel of xcore1500 does.
* *Addresses.* Page tables, left padding, strides, packed and padded layouts (hence the LSE offset at
  SPLIT:89), rotary inside the kernel, de-quantisation.
* *Calls that cannot run* beyond `num_splits = 0`: Python calls with `num_splits > 1` have no
  accumulators; `CannotRun` ends them.
* *Batches.* Sequences of a batch share nothing in the kernels; `decode_speculative` asserts batch size 1.
* *Of the backward pass*: dropout, alibi, softcap and an explicit mask; `clear_dKVaccum` and `convert_dKV`, which nothing
  calls; the sum of dK and dV over the heads of a group, done by PyTorch; shared memory of tile shapes other than 32x64.
* *Of decoding*: `teacher_outputs`, which tests use in place of sampling; of CUDA graphs everything but the re-use of
  the caches: captured addresses, `update_graph_cache` over several calls, cos/sin tables. Planned.
* Layer norm, `ft_attention`, fused kernels, training,
  vendored and generated code: no protocol worth a model, or not this project's code; see `PROJECT.json`.

## 7. Plan

Done, in this order: FwdTiling, FlashFwd and their proofs; FwdPipeline; Generation, SpecDecode and
their proofs; SplitKV; AttnMask, BwdTiling, FlashBwd and their proofs; BwdPipeline; SplitKVProofs; `decode` and re-used
caches in SpecDecode; FwdPipelineProofs, BwdPipelineProofs. To come:

1. `GraphCache`: captured graphs against re-allocated cos/sin tables, `update_graph_cache` over several calls with growing
   lengths and changing batch sizes.
2. The shared memory of the combine kernel, and the pipeline of a kernel with another layout.
3. Page tables: `block_table` translation in SplitKV as a function from rows to cells, with shared and
   permuted pages.
