------------------------------ MODULE AttnMask -------------------------------
(***************************************************************************)
(* What the forward and the backward kernels share: the integer arithmetic *)
(* of C++, how the host turns the window and the causal flag of a call into*)
(* the mask parameters of the kernel (set_params_fprop, which both         *)
(* directions use), the column limits of a row, and the mask the caller is *)
(* promised.  A query row is an index 0 .. sq-1 of one sequence and head, a*)
(* column an index 0 .. sk-1 of its keys.                                  *)
(***************************************************************************)
EXTENDS Integers

-----------------------------------------------------------------------------
(* C++ integer helpers *)

AtLeast(a, b) == IF a >= b THEN a ELSE b      \* std::max
AtMost(a, b)  == IF a <= b THEN a ELSE b      \* std::min

\* Integer division of C++, which truncates towards zero.
TruncDiv(a, b) == IF a >= 0 THEN a \div b ELSE -((-a) \div b)

CeilDiv(a, b) == TruncDiv(a + b - 1, b)       \* cute::ceil_div

-----------------------------------------------------------------------------
(***************************************************************************)
(* Host side.  An argument record a of mha_fwd / mha_varlen_fwd (and the   *)
(* same fields of a call of mha_bwd / mha_varlen_bwd):                     *)
(*   varlen            which of the two entry points                       *)
(*   seqlen_q/k        tensor lengths (the maxima, for varlen)             *)
(*   sq, sk            lengths of the sequence at hand (equal to the above *)
(*                     unless varlen)                                      *)
(*   causal, wl, wr    is_causal and the window the caller passed          *)
(*   evenK             IsEvenKConst && !ReturnSoftmaxConst                 *)
(***************************************************************************)
Unlimited == -1

\* What the entry points check of a call before they launch the kernel; a
\* sequence of a varlen call may be empty.
IsCall(a) ==
    /\ a \in [varlen : BOOLEAN, seqlen_q : Nat \ {0}, seqlen_k : Nat \ {0},
              sq : Nat, sk : Nat, causal : BOOLEAN, wl : Int, wr : Int,
              evenK : BOOLEAN]
    /\ ~a.varlen => a.sq = a.seqlen_q /\ a.sk = a.seqlen_k

Clamp(w, seqlen_k) == IF w >= seqlen_k THEN Unlimited ELSE w

\* set_params_fprop, from the window (l, r) the entry point passes on: a window
\* that is open on one side gets seqlen_k there.
MaskParams(a, l, r) ==
    LET wl == IF l < 0 /\ r >= 0 THEN a.seqlen_k ELSE l
        wr == IF wl >= 0 /\ r < 0 THEN a.seqlen_k ELSE r
        causal == l < 0 /\ r = 0
    IN  [sq |-> a.sq, sk |-> a.sk, wl |-> wl, wr |-> wr, causal |-> causal,
         local |-> ~causal /\ (wl >= 0 \/ wr >= 0)]

\* A single query row sees every key under the causal mask.
EffectiveCausal(a) == a.causal /\ a.seqlen_q # 1

\* mha_fwd clamps the window before causal overwrites its right side,
\* mha_varlen_fwd after.
ApiWindowRight(a) ==
    IF a.varlen
    THEN Clamp(IF EffectiveCausal(a) THEN 0 ELSE a.wr, a.seqlen_k)
    ELSE IF EffectiveCausal(a) THEN 0 ELSE Clamp(a.wr, a.seqlen_k)

\* The mask of the forward kernels.
FwdMask(a) == MaskParams(a, Clamp(a.wl, a.seqlen_k), ApiWindowRight(a))

-----------------------------------------------------------------------------
(* Kernel side: p holds the fields of a result of MaskParams. *)

ColLimitLeft(p, row) == AtLeast(0, row + p.sk - p.sq - p.wl)

\* Mutant of ColLimitRight: the diagonal itself is masked.
ColLimitRightStrict(p, row) == AtMost(p.sk, row + p.sk - p.sq + p.wr)

ColLimitRight(p, row) == AtMost(p.sk, row + 1 + p.sk - p.sq + p.wr)

-----------------------------------------------------------------------------
(***************************************************************************)
(* What the caller is promised (flash_attn_interface.py, bottom-right      *)
(* aligned causal mask and sliding window): query row i attends column j.  *)
(***************************************************************************)
DocAttends(a, i, j) ==
    /\ j \in 0 .. a.sk - 1
    /\ a.causal => j <= i + a.sk - a.sq
    /\ a.wl >= 0 => j >= i + a.sk - a.sq - a.wl
    /\ a.wr >= 0 => j <= i + a.sk - a.sq + a.wr

\* Calls with no more queries than keys, counted with their padding, or that
\* ask for at most a causal mask; the lengths passed as maxima are maxima.
Aligned(a) ==
    /\ a.sq <= a.seqlen_q /\ a.sk <= a.seqlen_k
    /\ a.seqlen_q <= a.seqlen_k \/ (a.wr < 0 /\ (a.causal \/ a.wl < 0))

\* The same mask, in the terms of the kernel's parameters.
Attends(p, i, j) ==
    /\ j \in 0 .. p.sk - 1
    /\ p.causal => j <= i + p.sk - p.sq
    /\ p.local => /\ j >= i + p.sk - p.sq - p.wl
                  /\ j <= i + p.sk - p.sq + p.wr
=============================================================================
