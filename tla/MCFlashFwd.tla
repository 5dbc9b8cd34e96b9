----------------------------- MODULE MCFlashFwd -----------------------------
(***************************************************************************)
(* Instances of FlashFwd for TLC: every call with the lengths of LenQ and  *)
(* LenK and the window sides of Widths, each side possibly unlimited.      *)
(***************************************************************************)
EXTENDS FlashFwd, FiniteSetsExt

CONSTANTS LenQ, LenK, Widths

Sides == {Unlimited} \cup Widths

Call(varlen, seqlen_q, seqlen_k, sq, sk, causal, wl, wr, evenK) ==
    [varlen |-> varlen, seqlen_q |-> seqlen_q, seqlen_k |-> seqlen_k,
     sq |-> sq, sk |-> sk, causal |-> causal, wl |-> wl, wr |-> wr,
     evenK |-> evenK]

\* mha_fwd: one length for all sequences of the batch.
FixedArgs ==
    {Call(FALSE, sq, sk, sq, sk, c, wl, wr, e) :
        sq \in LenQ, sk \in LenK, c \in BOOLEAN,
        wl \in Sides, wr \in Sides, e \in BOOLEAN}

\* mha_varlen_fwd: a sequence shorter than the longest one, possibly empty.
VarlenArgs ==
    {Call(TRUE, Max(LenQ), Max(LenK), sq, sk, c, wl, wr, TRUE) :
        sq \in LenQ \cup {0}, sk \in LenK \cup {0}, c \in BOOLEAN,
        wl \in Sides, wr \in Sides}

AllArgs == FixedArgs \cup VarlenArgs

\* Fixed-length calls with a window that is open on the right.
OneSidedArgs == {a \in FixedArgs : ~a.causal /\ a.wl >= 0 /\ a.wr = -1}
=============================================================================
