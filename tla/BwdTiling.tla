------------------------------ MODULE BwdTiling ------------------------------
(***************************************************************************)
(* The arithmetic of the backward attention kernels: the parameters the    *)
(* host derives from a call, which column blocks each CTA of the grid      *)
(* works on, which row blocks a column block visits, and which scores the  *)
(* masking code keeps.  No state: FlashBwd and BwdPipeline execute it.     *)
(*                                                                         *)
(* Row block m of the queries holds rows m*kBlockM .. (m+1)*kBlockM-1,     *)
(* column block n of the keys columns n*kBlockN .. (n+1)*kBlockN-1.        *)
(***************************************************************************)
EXTENDS AttnMask, Sequences

CONSTANTS kBlockM,      \* rows of a tile (Kernel_traits::kBlockM)
          kBlockN,      \* columns of a tile (Kernel_traits::kBlockN)
          BalanceLen,   \* the one length balanced for head size 128 (8192)
          BalanceMin    \* keys from which head size 96 is balanced (2048)

ASSUME BwdBlockAssumption ==
    /\ kBlockM \in Nat \ {0}
    /\ kBlockN \in Nat \ {0}
    /\ BalanceLen \in Nat
    /\ BalanceMin \in Nat

-----------------------------------------------------------------------------
(***************************************************************************)
(* Host side.  Besides the fields AttnMask names, a call of mha_bwd or     *)
(* mha_varlen_bwd has                                                      *)
(*   evenK          is_even_K: the head size is the kernel's               *)
(*   hdim           the kernel's head size (HEADDIM_SWITCH)                *)
(*   deterministic  the caller's flag                                      *)
(*   xcore1500      the architecture, xcore1000 or xcore1500               *)
(*   nsplits        ceil(multiprocessors / (batch * heads)), the grid of   *)
(*                  the deterministic kernel                               *)
(***************************************************************************)
IsBwdCall(a) ==
    /\ a \in [varlen : BOOLEAN, seqlen_q : Nat \ {0}, seqlen_k : Nat \ {0},
              sq : Nat, sk : Nat, causal : BOOLEAN, wl : Int, wr : Int,
              evenK : BOOLEAN, hdim : Nat, deterministic : BOOLEAN,
              xcore1500 : BOOLEAN, nsplits : Nat \ {0}]
    /\ a.sq <= a.seqlen_q /\ a.sk <= a.seqlen_k
    /\ ~a.varlen => a.sq = a.seqlen_q /\ a.sk = a.seqlen_k

\* mha_bwd and mha_varlen_bwd: causal closes the right side of the window, for
\* a single query too, and then both sides are clamped.
BwdMask(a) ==
    MaskParams(a, Clamp(a.wl, a.seqlen_k),
               Clamp(IF a.causal THEN 0 ELSE a.wr, a.seqlen_k))

\* A call in which the host halves the grid for length BalanceLen.
LongCall(a) ==
    /\ ~a.xcore1500 /\ a.hdim = 128 /\ a.evenK
    /\ a.seqlen_q = BalanceLen /\ a.seqlen_k = BalanceLen

\* Launch parameter is_balance, after run_flash_bwd_seqk_parallel has dropped
\* it for an odd number of column blocks.
IsBalance(a) ==
    /\ \/ /\ a.hdim = 96 /\ ~a.deterministic /\ BwdMask(a).causal
          /\ a.seqlen_k >= BalanceMin
       \/ LongCall(a)
    /\ CeilDiv(a.seqlen_k, kBlockN) % 2 = 0

\* Mutant of GridDim: the grid is not halved.
GridDimFull(a) ==
    IF a.deterministic THEN a.nsplits ELSE CeilDiv(a.seqlen_k, kBlockN)

\* gridDimx, the number of CTAs per head.
GridDim(a) ==
    IF a.deterministic THEN a.nsplits
    ELSE IF IsBalance(a) THEN CeilDiv(a.seqlen_k, kBlockN) \div 2
    ELSE CeilDiv(a.seqlen_k, kBlockN)

\* balance is the template argument.
BwdParams(a) ==
    LET p == BwdMask(a)
    IN  [sq |-> p.sq, sk |-> p.sk, wl |-> p.wl, wr |-> p.wr,
         causal |-> p.causal, local |-> p.local,
         even |-> /\ a.evenK /\ ~p.local /\ ~a.varlen
                  /\ a.seqlen_q % kBlockM = 0
                  /\ a.seqlen_k % kBlockN = 0,
         deterministic |-> a.deterministic,
         balance |-> IsBalance(a) /\ p.causal /\ ~a.deterministic,
         nblocks |-> CeilDiv(a.seqlen_k, kBlockN),
         grid |-> GridDim(a)]

-----------------------------------------------------------------------------
(* Kernel side: the parameter record p is a result of BwdParams. *)

\* The column blocks CTA x works on, in order: every grid-th one, block x and
\* its mirror image, or block x.
ColumnBlocks(p, x) ==
    IF p.deterministic
    THEN [i \in 1 .. CeilDiv(p.nblocks - x, p.grid) |-> x + (i - 1) * p.grid]
    ELSE IF p.balance THEN <<x, p.nblocks - x - 1>> ELSE <<x>>

MBlockMax(p, n) ==
    LET all == CeilDiv(p.sq, kBlockM)
    IN  IF p.local
        THEN AtMost(all, CeilDiv((n + 1) * kBlockN + p.sq - p.sk + p.wl,
                                 kBlockM))
        ELSE all

\* Mutant of MBlockMin: counted from the last column of the block.
MBlockMinLast(p, n) ==
    IF p.causal \/ p.local
    THEN AtLeast(0, TruncDiv((n + 1) * kBlockN - 1 + p.sq - p.sk - p.wr,
                             kBlockM))
    ELSE 0

MBlockMin(p, n) ==
    IF p.causal \/ p.local
    THEN AtLeast(0, TruncDiv(n * kBlockN + p.sq - p.sk - p.wr, kBlockM))
    ELSE 0

\* The block lies past the end of the keys.
NoKeys(p, n) == n * kBlockN >= p.sk

\* Mutant of NoQueries: only a window can leave a block of keys unattended.
NoQueriesLocal(p, n) == p.local /\ MBlockMax(p, n) - 1 < MBlockMin(p, n)

\* No row block attends the column block.
NoQueries(p, n) ==
    /\ p.local \/ ~p.even
    /\ MBlockMax(p, n) - 1 < MBlockMin(p, n)

\* The block may reach past the end of the keys.
Ragged(p, n) == ~p.even /\ (n + 1) * kBlockN >= p.sk

\* Mutant of Masks: the left edge of the window is forgotten.
MasksRight(p, m, n) ==
    LET right == m * kBlockM < (n + 1) * kBlockN + p.sq - p.sk
    IN  \/ Ragged(p, n)
        \/ p.causal /\ right
        \/ p.local /\ m * kBlockM < (n + 1) * kBlockN + p.sq - p.sk - p.wr

\* Whether the kernel runs the masking code on tile (m, n).
Masks(p, m, n) ==
    \/ Ragged(p, n)
    \/ /\ p.causal
       /\ m * kBlockM < (n + 1) * kBlockN + p.sq - p.sk
    \/ /\ p.local
       /\ \/ m * kBlockM < (n + 1) * kBlockN + p.sq - p.sk - p.wr
          \/ (m + 1) * kBlockM >= n * kBlockN + p.sq - p.sk + p.wl

\* apply_mask, apply_mask_causal, apply_mask_local: is the score of row and
\* column c of tile (m, n) kept?
BwdKeep(p, m, n, row, c) ==
    Masks(p, m, n) =>
        /\ c < (IF p.causal \/ p.local THEN ColLimitRight(p, row) ELSE p.sk)
        /\ p.local => c >= ColLimitLeft(p, row)

TileRows(m) == m * kBlockM .. (m + 1) * kBlockM - 1
TileCols(n) == n * kBlockN .. (n + 1) * kBlockN - 1

\* Does the forward pass store a finite LSE for the row?  For the others it
\* stores +inf (FlashFwd!LseInfIffEmpty), which makes P = exp(S - LSE) zero.
LseFinite(p, row) == \E c \in 0 .. p.sk - 1 : Attends(p, row, c)

\* Rows of tile v.m whose probability for column c of block n is not zero.  A
\* row past the end of the queries gets LSE = +inf, but only where the load
\* is checked.
RowsFor(p, v, n, c) ==
    {row \in TileRows(v.m) :
        /\ BwdKeep(p, v.m, n, row, c)
        /\ IF row < p.sq THEN LseFinite(p, row) ELSE ~v.checked}

\* Columns of block n whose probability for the row is not zero; column blocks
\* past the keys were loaded as zeros.
ColsFor(p, m, n, row) ==
    {c \in TileCols(n) : BwdKeep(p, m, n, row, c) /\ LseFinite(p, row)}
=============================================================================
