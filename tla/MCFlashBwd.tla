----------------------------- MODULE MCFlashBwd ------------------------------
(***************************************************************************)
(* Instances of FlashBwd for TLC: calls of both entry points without mask, *)
(* with a causal mask and with windows, deterministic and not, over LenQ x *)
(* LenK, and the head sizes whose grid the host may halve.                 *)
(***************************************************************************)
EXTENDS FlashBwd

CONSTANTS LenQ, LenK, Grids

Call(varlen, seqlen_q, seqlen_k, sq, sk, mask, hdim, det, nsplits) ==
    [varlen |-> varlen, seqlen_q |-> seqlen_q, seqlen_k |-> seqlen_k,
     sq |-> sq, sk |-> sk, causal |-> mask.causal, wl |-> mask.wl,
     wr |-> mask.wr, evenK |-> TRUE, hdim |-> hdim, deterministic |-> det,
     xcore1500 |-> FALSE, nsplits |-> nsplits]

Mask(causal, wl, wr) == [causal |-> causal, wl |-> wl, wr |-> wr]

\* No mask, causal, causal with a window, and windows closed on both sides
\* or on one: the window is the whole mask of a row far from the diagonal.
MaskSet == {Mask(FALSE, -1, -1), Mask(TRUE, -1, -1), Mask(TRUE, 1, -1),
            Mask(FALSE, 1, 0), Mask(FALSE, 0, 2), Mask(FALSE, 2, -1)}

\* mha_bwd, with the grid of the head sizes that are never balanced.
FixedArgs ==
    {Call(FALSE, sq, sk, sq, sk, k, 64, FALSE, 1) :
        sq \in LenQ, sk \in LenK, k \in MaskSet}

\* The deterministic kernel, with fewer and with more CTAs than blocks.
DetArgs ==
    {Call(FALSE, sq, sk, sq, sk, k, 64, TRUE, g) :
        sq \in LenQ, sk \in LenK, k \in MaskSet, g \in Grids}

\* mha_varlen_bwd: shorter sequences than the longest, possibly empty.
VarlenArgs ==
    {Call(TRUE, 5, 9, sq, sk, k, 64, FALSE, 1) :
        sq \in {0, 1, 4}, sk \in {0, 3, 9}, k \in MaskSet}

\* Causal calls whose grid is halved: head size 128 at the length the host
\* singles out, head size 96 with two CTAs.
BalanceArgs ==
    {Call(FALSE, BalanceLen, BalanceLen, BalanceLen, BalanceLen,
          Mask(TRUE, -1, -1), 128, FALSE, 1),
     Call(FALSE, 6, 2 * BalanceMin, 6, 2 * BalanceMin,
          Mask(TRUE, -1, -1), 96, FALSE, 1)}

\* A call of that length without a causal mask.
LongArgs ==
    {Call(FALSE, BalanceLen, BalanceLen, BalanceLen, BalanceLen,
          Mask(FALSE, -1, -1), 128, FALSE, 1)}

AllArgs == FixedArgs \cup DetArgs \cup VarlenArgs \cup BalanceArgs
=============================================================================
