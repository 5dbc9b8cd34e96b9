------------------------------ MODULE FwdTiling ------------------------------
(***************************************************************************)
(* The arithmetic of the forward attention kernels: the parameters the host*)
(* adds to those of AttnMask, which key blocks a row block visits, how many*)
(* of the visits run the masking code, and which scores that code keeps.   *)
(* No state: FlashFwd and FwdPipeline execute it.                          *)
(*                                                                         *)
(* Block n of the keys holds the columns n*kBlockN .. (n+1)*kBlockN-1.     *)
(***************************************************************************)
EXTENDS AttnMask

CONSTANTS kBlockM,      \* rows of a CTA's tile (Kernel_traits::kBlockM)
          kBlockN,      \* columns of a key block (Kernel_traits::kBlockN)
          kNWarps,      \* warps of a CTA (Kernel_traits::kNWarps)
          RowAtom,      \* rows of one MMA atom of a warp (16 in the code)
          CopyAtom      \* rows a warp moves at a time between global and
                        \* shared memory (GmemTiledCopyQKV, GmemTiledCopyO)

\* Every tile shape the forward dispatch instantiates has kBlockN | kBlockM.
ASSUME BlockAssumption ==
    /\ kBlockM \in Nat \ {0}
    /\ kBlockN \in Nat \ {0}
    /\ kBlockM % kBlockN = 0

ASSUME WarpAssumption ==
    /\ kNWarps \in Nat \ {0}
    /\ RowAtom \in Nat \ {0}
    /\ CopyAtom \in Nat \ {0}

Warps == 0 .. kNWarps - 1
Rows  == 0 .. kBlockM - 1

\* The warp that accumulates row r of the tile (tidx >> 6 in mask_offset).
Owner(r) == (r \div RowAtom) % kNWarps

\* The warp that moves row r of a tile to and from global memory.
Mover(r) == (r \div CopyAtom) % kNWarps

-----------------------------------------------------------------------------
(* Host side *)

\* run_flash_fwd adds whether the tiling is even.
SetParams(a) ==
    LET p == FwdMask(a)
    IN  [sq |-> p.sq, sk |-> p.sk, wl |-> p.wl, wr |-> p.wr,
         causal |-> p.causal, local |-> p.local,
         even |-> /\ a.evenK /\ ~p.local /\ ~a.varlen
                  /\ a.seqlen_k % kBlockN = 0
                  /\ a.seqlen_q % kBlockM = 0]

-----------------------------------------------------------------------------
(* Kernel side: the parameter record p is a result of SetParams. *)

NBlockMin(p, m) ==
    IF p.local
    THEN AtLeast(0, TruncDiv(m * kBlockM + p.sk - p.sq - p.wl, kBlockN))
    ELSE 0

\* Mutant of NBlockMax: the diagonal alone, not cut off at the last key.
NBlockMaxUncut(p, m) ==
    IF p.causal \/ p.local
    THEN CeilDiv(m * kBlockM + kBlockM + p.sk - p.sq + p.wr, kBlockN)
    ELSE CeilDiv(p.sk, kBlockN)

NBlockMax(p, m) ==
    LET all == CeilDiv(p.sk, kBlockN)
    IN  IF p.causal \/ p.local
        THEN AtMost(all, CeilDiv(m * kBlockM + kBlockM + p.sk - p.sq + p.wr,
                                 kBlockN))
        ELSE all

\* Mutant of NMaskingSteps: no extra step for an uneven tiling.
NMaskingStepsEven(p) ==
    IF ~p.causal /\ ~p.local THEN 1 ELSE CeilDiv(kBlockM, kBlockN)

\* How many visits, counted from the last block, run the full masking code.
NMaskingSteps(p) ==
    IF ~p.causal /\ ~p.local THEN 1
    ELSE IF p.even /\ p.causal THEN CeilDiv(kBlockM, kBlockN)
    ELSE CeilDiv(kBlockM, kBlockN) + 1

\* The CTA has no query row at all.
NoRows(p, m) == m * kBlockM >= p.sq

\* The CTA has query rows but no key block to visit.
ExitsEarly(p, m) ==
    /\ p.causal \/ p.local \/ ~p.even
    /\ NBlockMax(p, m) <= NBlockMin(p, m)

\* Mask::apply_mask: is the score of (row, c) kept?  "masking" says whether
\* the visit instantiates it with <Is_causal, Is_even_MN> or with <false>.
Keep(p, masking, row, c) ==
    /\ p.local => ColLimitLeft(p, row) <= c /\ c < ColLimitRight(p, row)
    /\ masking /\ p.causal => c < ColLimitRight(p, row)
    /\ masking /\ ~p.causal /\ ~p.local /\ ~p.even => c < p.sk

\* Mutant of CheckInf: rows above the diagonal are forgotten.
CheckInfLocal(p, masking) == p.local

\* Whether softmax_rescale_o guards its subtraction against row_max = -inf.
CheckInf(p, masking) == p.local \/ (masking /\ p.causal)

\* Row r of the tile is a row of the sequence.
Valid(p, m, r) == m * kBlockM + r < p.sq

Columns(p) == 0 .. p.sk + kBlockN

\* s lists the visits of a warp, each with the block and the kind of masking.
\* These are the columns whose scores they keep for row r of the tile.
KeptCols(p, m, s, r) ==
    {c \in Columns(p) : \E i \in DOMAIN s :
        /\ s[i].n = c \div kBlockN
        /\ Keep(p, s[i].masking, m * kBlockM + r, c)}

\* Mutants of Lse: the empty row is not told apart, or gets -inf.
LseFinite(cols) == "finite"
LseMinus(cols) == IF cols = {} THEN "-inf" ELSE "finite"

\* normalize_softmax_lse: a row whose sum is 0 gets LSE = +inf.
Lse(cols) == IF cols = {} THEN "inf" ELSE "finite"

\* Which of the loops runs next, with block n to visit and s masking steps
\* done; breaking out of the masking loop leaves n below NBlockMin.
NextPhase(p, m, n, s) ==
    IF n >= NBlockMin(p, m) /\ s < NMaskingSteps(p) THEN "masked"
    ELSE IF n > NBlockMin(p, m) THEN "free"
    ELSE IF n = NBlockMin(p, m) THEN "last"
    ELSE "epilogue"
=============================================================================
