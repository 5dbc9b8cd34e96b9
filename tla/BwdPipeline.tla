----------------------------- MODULE BwdPipeline -----------------------------
(***************************************************************************)
(* One CTA of dq_dk_dv with its warps and its shared memory                *)
(* (compute_dq_dk_dv_1colblock_hdim128_32x64).  Every tensor the warps     *)
(* exchange passes through one region |Q|Qt|dO|dOt|, and up to four of     *)
(* them share a place in it: K, then K transposed, then Q, then P and dS,  *)
(* and in the end dK and dV.  sync_threads waits for the warp's own stores *)
(* to shared memory and joins all warps; the barrier at the head of the    *)
(* loop waits instead for the asynchronous copies of Q and dO.             *)
(*                                                                         *)
(* An action is what a warp does between two barriers.  A store or copy it *)
(* issues lands later, at any time before the warp has waited for it.      *)
(***************************************************************************)
EXTENDS BwdTiling

CONSTANTS Args,          \* the calls considered, records as in BwdTiling
          Warps          \* the warps of the CTA

ASSUME BwdPipelineAssumption ==
    /\ \A a \in Args : IsBwdCall(a)
    /\ Warps # {}

VARIABLES params,    \* the parameters of the call
          cta,       \* the CTA's index in the grid
          pc,        \* per warp: the next statement
          waiting,   \* the warps that have reached the barrier
          todo,      \* per warp: the column blocks still to do
          m_block,   \* per warp: the loop variable
          acc,       \* per warp: the row blocks folded into acc_dk and acc_dv
          good,      \* per warp: all it has read for the block was right
          pend,      \* per warp: what it has issued and has not landed
          smem,      \* per cell and warp: what the part the warp wrote holds
          gdKV       \* per column block and warp: the rows it has stored

launch == <<params, cta>>
shared == <<waiting, pend, smem>>
vars   == <<launch, pc, shared, todo, m_block, acc, good, gdKV>>

\* The region in cells: sdS and sP each take half of Q's place.
Cells == {"dS", "P", "Qt", "dO", "dOt"}

\* The cells each tensor occupies.
sQ == {"dS", "P"}
sK == {"dS", "P", "Qt"}
sV == {"dO", "dOt"}

\* Contents of a cell: a tensor, of a column block, a row block or both.
Holds(tensor, of) == [tensor |-> tensor, of |-> of]
Garbage == Holds("none", <<>>)
Wrong   == -2            \* stands for a row block computed from wrong data
Unset   == <<-1>>        \* what the caller's dK and dV hold
Zero    == <<>>          \* no row block contributes

n_block(w) == Head(todo[w])
mmin(w) == MBlockMin(params, n_block(w))
Blocks == 0 .. params.nblocks - 1

Init == /\ \E arg \in Args : params = BwdParams(arg)
        /\ cta \in 0 .. params.grid - 1
        /\ pc = [w \in Warps |-> "start"]
        /\ waiting = {}
        /\ todo = [w \in Warps |-> ColumnBlocks(params, cta)]
        /\ m_block = [w \in Warps |-> 0]
        /\ acc = [w \in Warps |-> <<>>]
        /\ good = [w \in Warps |-> TRUE]
        /\ pend = [w \in Warps |-> {}]
        /\ smem = [c \in Cells |-> [w \in Warps |-> Garbage]]
        /\ gdKV = [n \in Blocks |-> [w \in Warps |-> Unset]]

-----------------------------------------------------------------------------
(* Shared memory and the barrier *)

Goto(w, l) == pc' = [pc EXCEPT ![w] = l]

\* A store to shared memory, and a copy from global memory that lands there.
Store(cells, content) ==
    [kind |-> "store", cells |-> cells, content |-> content]
Copy(cells, content) ==
    [kind |-> "copy", cells |-> cells, content |-> content]

Issue(w, accesses) == pend' = [pend EXCEPT ![w] = @ \cup accesses]

Land(w) ==
    \E e \in pend[w] :
        /\ pend' = [pend EXCEPT ![w] = @ \ {e}]
        /\ smem' = [c \in Cells |->
                       IF c \in e.cells
                       THEN [smem[c] EXCEPT ![w] = e.content] ELSE smem[c]]
        /\ UNCHANGED <<launch, pc, waiting, todo, m_block, acc, good, gdKV>>

\* All warps' parts of the cells hold the tensor.
Complete(cells, content) ==
    \A c \in cells, v \in Warps : smem[c][v] = content

\* The part the warp wrote itself does.
Own(w, c, content) == smem[c][w] = content

\* Where a warp goes on after the barrier it waits at.
After == [sync_first |-> "sts_kv",  sync_kv |-> "read_kv",
          sync_read  |-> "sts_kt",  sync_kt |-> "read_kt",
          sync_pre   |-> "load",    barrier |-> "sts_q",
          sync_q     |-> "gemm_s",  sync_do |-> "gemm_dp",
          sync_ds    |-> "gemm_dv", sync_p  |-> "gemm_dk",
          sync_loop  |-> "sts_dkv", sync_dkv |-> "read_dkv"]

\* Mutant of Awaits: the barrier of the loop does not wait for the copies.
AwaitsStores(l) == "store"

\* cp_async_wait before the barrier of the loop, sync_threads elsewhere.
Awaits(l) == IF l = "barrier" THEN "copy" ELSE "store"

\* A warp reaches the barrier; the last to reach it releases all.
Arrive(w) ==
    /\ pc[w] \in DOMAIN After
    /\ w \notin waiting
    /\ \A e \in pend[w] : e.kind # Awaits(pc[w])
    /\ IF waiting \cup {w} = Warps
       THEN /\ waiting' = {}
            /\ pc' = [v \in Warps |-> After[pc[v]]]
       ELSE /\ waiting' = waiting \cup {w}
            /\ UNCHANGED pc
    /\ UNCHANGED <<launch, todo, m_block, acc, good, pend, smem, gdKV>>

-----------------------------------------------------------------------------
(* The prologue of a column block *)

\* Nothing to compute: the block lies past the keys, or no row attends it and
\* zeros are stored.
Skip(w) ==
    /\ pc[w] = "start" /\ todo[w] # <<>>
    /\ LET n == n_block(w)
       IN  /\ NoKeys(params, n) \/ NoQueries(params, n)
           /\ gdKV' = IF NoKeys(params, n) THEN gdKV
                      ELSE [gdKV EXCEPT ![n][w] = Zero]
    /\ todo' = [todo EXCEPT ![w] = Tail(@)]
    /\ UNCHANGED <<launch, pc, shared, m_block, acc, good>>

\* Mutant of Enter: the deterministic kernel does not synchronise either.
EnterAtOnce(w) ==
    /\ pc[w] = "start" /\ todo[w] # <<>>
    /\ ~NoKeys(params, n_block(w)) /\ ~NoQueries(params, n_block(w))
    /\ m_block' = [m_block EXCEPT ![w] = MBlockMax(params, n_block(w)) - 1]
    /\ acc' = [acc EXCEPT ![w] = <<>>]
    /\ good' = [good EXCEPT ![w] = TRUE]
    /\ Goto(w, "sts_kv")
    /\ UNCHANGED <<launch, shared, todo, gdKV>>

Enter(w) ==
    /\ pc[w] = "start" /\ todo[w] # <<>>
    /\ ~NoKeys(params, n_block(w)) /\ ~NoQueries(params, n_block(w))
    /\ m_block' = [m_block EXCEPT ![w] = MBlockMax(params, n_block(w)) - 1]
    /\ acc' = [acc EXCEPT ![w] = <<>>]
    /\ good' = [good EXCEPT ![w] = TRUE]
    /\ Goto(w, IF params.deterministic THEN "sync_first" ELSE "sts_kv")
    /\ UNCHANGED <<launch, shared, todo, gdKV>>

\* A statement that leaves the loop variable and the results alone.
Between(w, l, accesses, right, next) ==
    /\ pc[w] = l
    /\ Issue(w, accesses)
    /\ good' = [good EXCEPT ![w] = @ /\ right]
    /\ Goto(w, next)
    /\ UNCHANGED <<launch, waiting, smem, todo, m_block, acc, gdKV>>

K(w)  == Holds("K", <<n_block(w)>>)
V(w)  == Holds("V", <<n_block(w)>>)
Kt(w) == Holds("Kt", <<n_block(w)>>)

StoreKV(w) ==
    Between(w, "sts_kv", {Store(sK, K(w)), Store(sV, V(w))}, TRUE, "sync_kv")

\* K and V to registers, for good.
ReadKV(w) ==
    Between(w, "read_kv", {}, Complete(sK, K(w)) /\ Complete(sV, V(w)),
            "sync_read")

StoreKt(w) == Between(w, "sts_kt", {Store(sK, Kt(w))}, TRUE, "sync_kt")

ReadKt(w) == Between(w, "read_kt", {}, Complete(sK, Kt(w)), "sync_pre")

-----------------------------------------------------------------------------
(* The loop over the row blocks *)

Q(m)  == Holds("Q", <<m>>)
dO(m) == Holds("dO", <<m>>)

\* What the warp makes of its tile: P or dS, or nonsense if it read nonsense.
Made(w, tensor) ==
    Holds(tensor, IF good[w] THEN <<n_block(w), m_block[w]>> ELSE <<Wrong>>)
P(w)  == Holds("P", <<n_block(w), m_block[w]>>)
dS(w) == Holds("dS", <<n_block(w), m_block[w]>>)

\* Start the copies of the last row block's Q and dO.
Load(w) ==
    Between(w, "load", {Copy({"Qt"}, Q(m_block[w])),
                        Copy({"dOt"}, dO(m_block[w]))}, TRUE, "barrier")

\* Rearrange the warp's own part of Q.
StoreQ(w) ==
    Between(w, "sts_q", {Store(sQ, Q(m_block[w]))},
            Own(w, "Qt", Q(m_block[w])), "sync_q")

\* S = Q K^T and P; rearrange the warp's own part of dO.
GemmS(w) ==
    Between(w, "gemm_s", {Store({"dO"}, dO(m_block[w]))},
            Complete(sQ, Q(m_block[w])) /\ Own(w, "dOt", dO(m_block[w])),
            "sync_do")

\* dP = dO V^T and dS; dO for the next product to registers.
GemmDP(w) ==
    Between(w, "gemm_dp",
            {Store({"P"}, Made(w, "P")), Store({"dS"}, Made(w, "dS"))},
            Complete({"dO", "dOt"}, dO(m_block[w])), "sync_ds")

\* The row block after this one, if any, as a set.
NextRows(w) == {m_block[w] - 1} \cap (mmin(w) .. m_block[w])

\* dS again, for the product with the transpose; start the copy of the next
\* dO; Q to registers; dV += P^T dO.
GemmDV(w) ==
    Between(w, "gemm_dv",
            {Store({"dO"}, Made(w, "dS"))}
            \cup {Copy({"dOt"}, dO(m)) : m \in NextRows(w)},
            Complete({"Qt"}, Q(m_block[w])) /\ Complete({"P"}, P(w)),
            "sync_p")

\* Mutant of GemmDK: a warp leaves the loop one row block early.
GemmDKAlone(w) ==
    /\ pc[w] = "gemm_dk"
    /\ Issue(w, {Copy({"Qt"}, Q(m)) : m \in NextRows(w)})
    /\ LET right == good[w] /\ Complete({"dS", "dO"}, dS(w))
       IN  /\ good' = [good EXCEPT ![w] = right]
           /\ acc' = [acc EXCEPT ![w] =
                         Append(@, IF right THEN m_block[w] ELSE Wrong)]
    /\ m_block' = [m_block EXCEPT ![w] = @ - 1]
    /\ Goto(w, IF m_block[w] > mmin(w) + (IF w = 0 THEN 1 ELSE 0)
               THEN "barrier" ELSE "sync_loop")
    /\ UNCHANGED <<launch, waiting, smem, todo, gdKV>>

\* Mutant of GemmDK: Q of the next row block is not copied.
GemmDKNoPrefetch(w) ==
    /\ pc[w] = "gemm_dk"
    /\ Issue(w, {})
    /\ LET right == good[w] /\ Complete({"dS", "dO"}, dS(w))
       IN  /\ good' = [good EXCEPT ![w] = right]
           /\ acc' = [acc EXCEPT ![w] =
                         Append(@, IF right THEN m_block[w] ELSE Wrong)]
    /\ m_block' = [m_block EXCEPT ![w] = @ - 1]
    /\ Goto(w, IF NextRows(w) # {} THEN "barrier" ELSE "sync_loop")
    /\ UNCHANGED <<launch, waiting, smem, todo, gdKV>>

\* Start the copy of the next Q; dQ = dS K is added to dQaccum; dK += dS^T Q.
GemmDK(w) ==
    /\ pc[w] = "gemm_dk"
    /\ Issue(w, {Copy({"Qt"}, Q(m)) : m \in NextRows(w)})
    /\ LET right == good[w] /\ Complete({"dS", "dO"}, dS(w))
       IN  /\ good' = [good EXCEPT ![w] = right]
           /\ acc' = [acc EXCEPT ![w] =
                         Append(@, IF right THEN m_block[w] ELSE Wrong)]
    /\ m_block' = [m_block EXCEPT ![w] = @ - 1]
    /\ Goto(w, IF NextRows(w) # {} THEN "barrier" ELSE "sync_loop")
    /\ UNCHANGED <<launch, waiting, smem, todo, gdKV>>

-----------------------------------------------------------------------------
(* The epilogue *)

StoreDKV(w) ==
    Between(w, "sts_dkv", {Store(sK \cup sV, Holds("dKV", acc[w]))}, TRUE,
            "sync_dkv")

\* Mutant of ReadDKV: the block is done again.
ReadDKVAgain(w) ==
    /\ pc[w] = "read_dkv"
    /\ gdKV' = [gdKV EXCEPT ![n_block(w)][w] =
                   IF Complete(Cells, Holds("dKV", acc[w]))
                   THEN acc[w] ELSE <<Wrong>>]
    /\ Goto(w, "start")
    /\ UNCHANGED <<launch, shared, todo, m_block, acc, good>>

\* Rows of dK and dV that other warps computed to registers and to global
\* memory; on to the next column block.
ReadDKV(w) ==
    /\ pc[w] = "read_dkv"
    /\ gdKV' = [gdKV EXCEPT ![n_block(w)][w] =
                   IF Complete(Cells, Holds("dKV", acc[w]))
                   THEN acc[w] ELSE <<Wrong>>]
    /\ todo' = [todo EXCEPT ![w] = Tail(@)]
    /\ Goto(w, "start")
    /\ UNCHANGED <<launch, shared, m_block, acc, good>>

Exit(w) ==
    /\ pc[w] = "start" /\ todo[w] = <<>>
    /\ Goto(w, "done")
    /\ UNCHANGED <<launch, shared, todo, m_block, acc, good, gdKV>>

Run(w) == \/ Skip(w) \/ Enter(w) \/ StoreKV(w) \/ ReadKV(w) \/ StoreKt(w)
          \/ ReadKt(w) \/ Load(w) \/ StoreQ(w) \/ GemmS(w) \/ GemmDP(w)
          \/ GemmDV(w) \/ GemmDK(w) \/ StoreDKV(w) \/ ReadDKV(w) \/ Exit(w)
          \/ Arrive(w)

Finished == \A w \in Warps : pc[w] = "done"

Next == \/ \E w \in Warps : Run(w) \/ Land(w)
        \/ Finished /\ UNCHANGED vars

Spec == Init /\ [][Next]_vars

\* The scheduler runs every resident warp and the memory completes every
\* access.
FairSpec == Spec /\ \A w \in Warps : WF_vars(Run(w)) /\ WF_vars(Land(w))

-----------------------------------------------------------------------------
(* Properties *)

PCs == {"start", "sts_kv", "read_kv", "sts_kt", "read_kt", "load", "sts_q",
        "gemm_s", "gemm_dp", "gemm_dv", "gemm_dk", "sts_dkv", "read_dkv",
        "done"} \cup DOMAIN After

\* The shape of the state; a warp never has two accesses of a kind to the same
\* cell in flight, so that the order in which they land does not matter.
TypeOK ==
    /\ pc \in [Warps -> PCs]
    /\ waiting \in SUBSET Warps
    /\ todo \in [Warps -> Seq(Blocks)]
    /\ m_block \in [Warps -> Int]
    /\ acc \in [Warps -> Seq(Int)]
    /\ good \in [Warps -> BOOLEAN]
    /\ \A w \in Warps : \A e, f \in pend[w] : e # f => e.cells \cap f.cells = {}

\* The cells the next statement of w reads.
Reads(w) ==
    CASE pc[w] = "read_kv"  -> sK \cup sV
      [] pc[w] = "read_kt"  -> sK
      [] pc[w] = "gemm_s"   -> sQ
      [] pc[w] = "gemm_dp"  -> {"dO", "dOt"}
      [] pc[w] = "gemm_dv"  -> {"Qt", "P"}
      [] pc[w] = "gemm_dk"  -> {"dS", "dO"}
      [] pc[w] = "read_dkv" -> Cells
      [] OTHER              -> {}

\* While a warp is about to read a cell no other warp has a store or copy to
\* it in flight: no thread modifies a tile while another is reading it, which
\* is what the comment on the barrier of the epilogue is about.
NoRace ==
    \A w, v \in Warps : w # v =>
        \A e \in pend[v] : e.cells \cap Reads(w) = {}

\* While a warp waits at a barrier the others arrive there from the same
\* statement of the same tile of the same column block.
SameBarrier ==
    \A w \in waiting, v \in Warps :
        pc[v] \in DOMAIN After =>
            /\ pc[v] = pc[w]
            /\ todo[v] = todo[w] /\ m_block[v] = m_block[w]

\* The row blocks of column block n, from the last to the first.
Visited(n) ==
    [i \in 1 .. MBlockMax(params, n) - MBlockMin(params, n) |->
        MBlockMax(params, n) - i]

\* The CTA has stored dK and dV of each of its column blocks, every product
\* computed from the tiles of its own blocks and every row block folded once
\* and in order, which is what FlashBwd takes a column block to do.
StoresAll ==
    Finished => \A n \in Blocks, w \in Warps :
        gdKV[n][w] =
            IF ~(\E i \in DOMAIN ColumnBlocks(params, cta) :
                     ColumnBlocks(params, cta)[i] = n)
            THEN Unset
            ELSE IF NoKeys(params, n) THEN Unset
            ELSE IF NoQueries(params, n) THEN Zero
            ELSE Visited(n)

\* Every warp gets through all its barriers to the end of the kernel.
Termination == <>Finished
=============================================================================
