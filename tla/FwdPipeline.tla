----------------------------- MODULE FwdPipeline -----------------------------
(***************************************************************************)
(* FlashFwd with the shared memory of the CTA.  Each warp moves its rows   *)
(* of a Q, K or V tile from registers to shared memory and then reads rows *)
(* other warps moved; only sync_threads (wait for the warp's own shared    *)
(* memory accesses, then a barrier of all warps) orders the two.  sQ, sK   *)
(* and sO start at the same address (Share_Q_K_smem) and sV follows sK, so *)
(* with kBlockN < kBlockM the tiles of Q and O reach into sV.              *)
(*                                                                         *)
(* A store to shared memory is issued and lands later, at any time before  *)
(* the warp passes a sync_threads; the barrier of the epilogue does not    *)
(* wait for it.                                                            *)
(***************************************************************************)
EXTENDS FwdTiling, Sequences

CONSTANT Args            \* the calls considered, records as in FwdTiling

ASSUME ArgsAssumption == \A a \in Args : IsCall(a)

VARIABLES arg, params, m_block, n_block, step, gO, gLSE,   \* as in FlashFwd
          pc,        \* per warp: the next statement
          waiting,   \* the warps that have reached the barrier
          pend,      \* per warp: stores issued to shared memory, in order
          smem,      \* per row of shared memory: what it holds
          rQ,        \* per warp: TRUE when tSrQ holds its query rows
          rK, rV,    \* per warp: the block held in tKrK, in tVrV
          score,     \* per warp: the block whose keys acc_s was computed from
          visits,    \* per warp: acc_o, as the tiles that were folded into it
          rO         \* per row: what its mover read from sO

shared == <<waiting, pend, smem>>
regs   == <<rQ, rK, rV, score, visits, rO>>
launch == <<arg, params, m_block>>
vars   == <<launch, n_block, step, gO, gLSE, pc, shared, regs>>

Unset == {-1}
Junk  == {-2}            \* the output of a row that read wrong memory

\* Contents of a row of shared memory: a tile and a block (or warp) number.
Holds(tile, n) == [tile |-> tile, n |-> n]
Garbage == Holds("none", 0)

\* Shared memory in rows: Q and O have rows Rows, K has KeyRows, V the next.
KeyRows == 0 .. kBlockN - 1
ValueRow(c) == kBlockN + c
ValueRows == {ValueRow(c) : c \in KeyRows}
SmemRows == 0 .. AtLeast(kBlockM, 2 * kBlockN) - 1

MovedBy(w) == {r \in Rows : Mover(r) = w}
OwnedBy(w) == {r \in Rows : Owner(r) = w}
KeysMovedBy(w) == {c \in KeyRows : Mover(c) = w}

nmin == NBlockMin(params, m_block)
nmax == NBlockMax(params, m_block)

Init == /\ arg \in Args
        /\ params = SetParams(arg)
        /\ m_block \in 0 .. CeilDiv(arg.seqlen_q, kBlockM) - 1
        /\ n_block = [w \in Warps |-> 0]
        /\ step = [w \in Warps |-> 0]
        /\ gO = [r \in Rows |-> Unset]
        /\ gLSE = [r \in Rows |-> "unset"]
        /\ pc = [w \in Warps |-> "start"]
        /\ waiting = {}
        /\ pend = [w \in Warps |-> <<>>]
        /\ smem = [r \in SmemRows |-> Garbage]
        /\ rQ = [w \in Warps |-> FALSE]
        /\ rK = [w \in Warps |-> -1]
        /\ rV = [w \in Warps |-> -1]
        /\ score = [w \in Warps |-> -1]
        /\ visits = [w \in Warps |-> <<>>]
        /\ rO = [r \in Rows |-> Garbage]

-----------------------------------------------------------------------------
(* Shared memory and the barrier *)

Goto(w, l) == pc' = [pc EXCEPT ![w] = l]

\* Issue a store of a tile's contents to rows S of shared memory.
Issue(w, S, content) ==
    pend' = [pend EXCEPT ![w] = Append(@, [rows |-> S, content |-> content])]

\* The oldest store of warp w lands.
Land(w) ==
    /\ pend[w] # <<>>
    /\ smem' = [r \in SmemRows |-> IF r \in Head(pend[w]).rows
                                   THEN Head(pend[w]).content ELSE smem[r]]
    /\ pend' = [pend EXCEPT ![w] = Tail(@)]
    /\ UNCHANGED <<launch, n_block, step, gO, gLSE, pc, waiting, regs>>

\* The block whose rows fill rows S of shared memory, if they are all there.
TileIn(S, tile) ==
    IF \E n \in 0 .. nmax : \A r \in S : smem[r] = Holds(tile, n)
    THEN (CHOOSE n \in 0 .. nmax : \A r \in S : smem[r] = Holds(tile, n))
    ELSE -1

\* Where a warp goes on after the barrier it waits at.
After == [sync_q |-> "read_q", sync_k |-> "sts_k", sync_s |-> "gemm_s",
          sync_o |-> "gemm_o", barrier_o |-> "sts_o", sync_out |-> "read_o"]

\* Mutants of WaitsForStores: no barrier waits, or the one before Q K^T fails to.
WaitsNever(l) == FALSE
WaitsNotForKeys(l) == l \notin {"barrier_o", "sync_s"}

\* barrier() at the head of the epilogue lets the warp's stores be in flight.
WaitsForStores(l) == l # "barrier_o"

\* A warp reaches the barrier; the last to reach it releases all.
Arrive(w) ==
    /\ pc[w] \in DOMAIN After
    /\ w \notin waiting
    /\ WaitsForStores(pc[w]) => pend[w] = <<>>
    /\ IF waiting \cup {w} = Warps
       THEN /\ waiting' = {}
            /\ pc' = [v \in Warps |-> After[pc[v]]]
       ELSE /\ waiting' = waiting \cup {w}
            /\ UNCHANGED pc
    /\ UNCHANGED <<launch, n_block, step, gO, gLSE, pend, smem, regs>>

-----------------------------------------------------------------------------
(* The kernel *)

Return(w) ==
    /\ pc[w] = "start"
    /\ NoRows(params, m_block)
    /\ Goto(w, "done")
    /\ UNCHANGED <<launch, n_block, step, gO, gLSE, shared, regs>>

StoreZero(w) ==
    /\ pc[w] = "start"
    /\ ~NoRows(params, m_block) /\ ExitsEarly(params, m_block)
    /\ LET mine == {r \in MovedBy(w) : Valid(params, m_block, r)}
       IN  /\ gO' = [r \in Rows |-> IF r \in mine THEN {} ELSE gO[r]]
           /\ gLSE' = [r \in Rows |-> IF r \in mine THEN "inf" ELSE gLSE[r]]
    /\ Goto(w, "done")
    /\ UNCHANGED <<launch, n_block, step, shared, regs>>

\* Q to shared memory, the keys of the last block to registers.
LoadQ(w) ==
    /\ pc[w] = "start"
    /\ ~NoRows(params, m_block) /\ ~ExitsEarly(params, m_block)
    /\ n_block' = [n_block EXCEPT ![w] = nmax - 1]
    /\ Issue(w, MovedBy(w), Holds("Q", 0))
    /\ rK' = [rK EXCEPT ![w] = nmax - 1]
    /\ Goto(w, "sync_q")
    /\ UNCHANGED <<launch, step, gO, gLSE, waiting, smem,
                   rQ, rV, score, visits, rO>>

\* The query rows the warp accumulates for, to registers for good.
ReadQ(w) ==
    /\ pc[w] = "read_q"
    /\ rQ' = [rQ EXCEPT ![w] =
                 \A r \in OwnedBy(w) : smem[r] = Holds("Q", 0)]
    /\ rV' = [rV EXCEPT ![w] = n_block[w]]
    /\ Goto(w, "sync_k")
    /\ UNCHANGED <<launch, n_block, step, gO, gLSE, shared,
                   rK, score, visits, rO>>

\* Keys to shared memory; values of the block to registers, unless the
\* prologue has loaded them.
StoreK(w) ==
    /\ pc[w] = "sts_k"
    /\ Issue(w, KeysMovedBy(w), Holds("K", rK[w]))
    /\ rV' = [rV EXCEPT ![w] = n_block[w]]
    /\ Goto(w, "sync_s")
    /\ UNCHANGED <<launch, n_block, step, gO, gLSE, waiting, smem,
                   rQ, rK, score, visits, rO>>

\* Mutant of GemmS: the keys of the next block are not loaded.
GemmSNoPrefetch(w) ==
    /\ pc[w] = "gemm_s"
    /\ score' = [score EXCEPT
                     ![w] = IF rQ[w] THEN TileIn(KeyRows, "K") ELSE -1]
    /\ Issue(w, {ValueRow(c) : c \in KeysMovedBy(w)}, Holds("V", rV[w]))
    /\ Goto(w, "sync_o")
    /\ UNCHANGED <<launch, n_block, step, gO, gLSE, waiting, smem,
                   rQ, rK, rV, visits, rO>>

\* S = Q K^T, values to shared memory, keys of the next block to registers.
GemmS(w) ==
    /\ pc[w] = "gemm_s"
    /\ score' = [score EXCEPT
                     ![w] = IF rQ[w] THEN TileIn(KeyRows, "K") ELSE -1]
    /\ Issue(w, {ValueRow(c) : c \in KeysMovedBy(w)}, Holds("V", rV[w]))
    /\ rK' = [rK EXCEPT ![w] = IF n_block[w] > nmin THEN n_block[w] - 1 ELSE @]
    /\ Goto(w, "sync_o")
    /\ UNCHANGED <<launch, n_block, step, gO, gLSE, waiting, smem,
                   rQ, rV, visits, rO>>

\* The loop the visit at hand belongs to.
Loop(w) == IF step[w] = 0 THEN "first"
           ELSE NextPhase(params, m_block, n_block[w], step[w])

\* Mutant of GemmO: a warp without query rows leaves the loop on its own.
GemmOAlone(w) ==
    /\ pc[w] = "gemm_o"
    /\ LET masking == Loop(w) \in {"first", "masked"}
       IN  /\ visits' = [visits EXCEPT ![w] =
                  Append(@, [n |-> n_block[w], masking |-> masking,
                             k |-> score[w], v |-> TileIn(ValueRows, "V")])]
           /\ step' = [step EXCEPT ![w] = IF masking THEN @ + 1 ELSE @]
    /\ n_block' = [n_block EXCEPT ![w] = @ - 1]
    /\ Goto(w, IF /\ n_block[w] > nmin
                  /\ \E r \in OwnedBy(w) : Valid(params, m_block, r)
               THEN "sts_k" ELSE "barrier_o")
    /\ UNCHANGED <<launch, gO, gLSE, shared, rQ, rK, rV, score, rO>>

\* O += P V, which ends the visit.
GemmO(w) ==
    /\ pc[w] = "gemm_o"
    /\ LET masking == Loop(w) \in {"first", "masked"}
       IN  /\ visits' = [visits EXCEPT ![w] =
                  Append(@, [n |-> n_block[w], masking |-> masking,
                             k |-> score[w], v |-> TileIn(ValueRows, "V")])]
           /\ step' = [step EXCEPT ![w] = IF masking THEN @ + 1 ELSE @]
    /\ n_block' = [n_block EXCEPT ![w] = @ - 1]
    /\ Goto(w, IF n_block[w] > nmin THEN "sts_k" ELSE "barrier_o")
    /\ UNCHANGED <<launch, gO, gLSE, shared, rQ, rK, rV, score, rO>>

\* Mutant of StoreSO: a warp without query rows skips the synchronisation.
StoreSOAlone(w) ==
    /\ pc[w] = "sts_o"
    /\ Issue(w, OwnedBy(w), Holds("O", w))
    /\ Goto(w, IF \E r \in OwnedBy(w) : Valid(params, m_block, r)
               THEN "sync_out" ELSE "read_o")
    /\ UNCHANGED <<launch, n_block, step, gO, gLSE, waiting, smem, regs>>

\* The accumulated rows to sO, over the keys.
StoreSO(w) ==
    /\ pc[w] = "sts_o"
    /\ Issue(w, OwnedBy(w), Holds("O", w))
    /\ Goto(w, "sync_out")
    /\ UNCHANGED <<launch, n_block, step, gO, gLSE, waiting, smem, regs>>

\* The visits as FlashFwd counts them: one computed from the wrong keys or
\* values folds something that is no block.
Folded(w) ==
    [i \in DOMAIN visits[w] |->
        LET t == visits[w][i]
        IN  [n |-> IF t.k = t.n /\ t.v = t.n THEN t.n ELSE -2,
             masking |-> t.masking]]

\* sO to registers; LSE comes from the warp's own registers.
ReadO(w) ==
    /\ pc[w] = "read_o"
    /\ rO' = [r \in Rows |-> IF Mover(r) = w THEN smem[r] ELSE rO[r]]
    /\ gLSE' = [r \in Rows |->
                   IF r \in OwnedBy(w) /\ Valid(params, m_block, r)
                   THEN Lse(KeptCols(params, m_block, Folded(w), r))
                   ELSE gLSE[r]]
    /\ Goto(w, "store_o")
    /\ UNCHANGED <<launch, n_block, step, gO, shared,
                   rQ, rK, rV, score, visits>>

\* O to global memory.
StoreO(w) ==
    /\ pc[w] = "store_o"
    /\ gO' = [r \in Rows |->
                 IF Mover(r) = w /\ Valid(params, m_block, r)
                 THEN IF rO[r] = Holds("O", Owner(r))
                      THEN KeptCols(params, m_block, Folded(Owner(r)), r)
                      ELSE Junk
                 ELSE gO[r]]
    /\ Goto(w, "done")
    /\ UNCHANGED <<launch, n_block, step, gLSE, shared, regs>>

Run(w) == \/ Return(w) \/ StoreZero(w) \/ LoadQ(w) \/ ReadQ(w) \/ StoreK(w)
          \/ GemmS(w) \/ GemmO(w) \/ StoreSO(w) \/ ReadO(w) \/ StoreO(w)
          \/ Arrive(w)

Finished == \A w \in Warps : pc[w] = "done"

Next == \/ \E w \in Warps : Run(w) \/ Land(w)
        \/ Finished /\ UNCHANGED vars

Spec == Init /\ [][Next]_vars

\* The scheduler runs every resident warp and the memory lands every store.
FairSpec == Spec /\ \A w \in Warps : WF_vars(Run(w)) /\ WF_vars(Land(w))

-----------------------------------------------------------------------------
(* Properties *)

PCs == {"start", "sync_q", "read_q", "sync_k", "sts_k", "sync_s", "gemm_s",
        "sync_o", "gemm_o", "barrier_o", "sts_o", "sync_out", "read_o",
        "store_o", "done"}

\* The shape of the state; a warp never has more than one store in flight.
TypeOK ==
    /\ pc \in [Warps -> PCs]
    /\ waiting \in SUBSET Warps
    /\ n_block \in [Warps -> Int]
    /\ step \in [Warps -> Nat]
    /\ rQ \in [Warps -> BOOLEAN]
    /\ rK \in [Warps -> Int] /\ rV \in [Warps -> Int]
    /\ score \in [Warps -> Int]
    /\ \A w \in Warps : Len(pend[w]) <= 1

\* The rows of shared memory the next statement of w reads.
Reads(w) ==
    CASE pc[w] = "read_q" -> OwnedBy(w)
      [] pc[w] = "gemm_s" -> KeyRows
      [] pc[w] = "gemm_o" -> ValueRows
      [] pc[w] = "read_o" -> MovedBy(w)
      [] OTHER            -> {}

\* While a warp is about to read rows of shared memory, no other warp has a
\* store to these rows in flight: reads and writes never race.
NoRace ==
    \A w, v \in Warps : \A i \in DOMAIN pend[v] :
        w # v => pend[v][i].rows \cap Reads(w) = {}

\* While a warp waits at the barrier, the others arrive at it from the same
\* statement of the same visit: no warp is released by another's barrier.
SameBarrier ==
    \A w \in waiting, v \in Warps :
        pc[v] \in DOMAIN After => pc[v] = pc[w] /\ n_block[v] = n_block[w]

\* The statement of FlashFwd a warp is in.
Phase(w) ==
    IF pc[w] \in {"barrier_o", "sts_o", "sync_out", "read_o"} THEN "epilogue"
    ELSE IF pc[w] = "store_o" THEN "store"
    ELSE IF pc[w] = "done" THEN "done"
    ELSE IF step[w] = 0 THEN "start"
    ELSE NextPhase(params, m_block, n_block[w], step[w])

Tiled == INSTANCE FlashFwd WITH
            phase   <- [w \in Warps |-> Phase(w)],
            n_block <- [w \in Warps |-> IF step[w] = 0 THEN 0 ELSE n_block[w]],
            acc     <- [w \in Warps |-> Folded(w)]

\* The kernel with shared memory implements the kernel without: every visit
\* is computed from the keys and values of its own block and every stored
\* row is the one its owner accumulated, in every interleaving of the warps.
ImplementsFlashFwd == Tiled!Spec

\* Every warp gets through all its barriers to the end of the kernel.
Termination == <>Finished
=============================================================================
