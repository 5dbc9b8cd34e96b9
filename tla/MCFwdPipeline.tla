---------------------------- MODULE MCFwdPipeline ----------------------------
(***************************************************************************)
(* Instances of FwdPipeline for TLC: fixed-length calls without mask, with *)
(* a causal mask and with a window, over LenQ x LenK, and a varlen call.   *)
(***************************************************************************)
EXTENDS FwdPipeline

CONSTANTS LenQ, LenK

Call(varlen, seqlen_q, sq, sk, causal, wl, wr) ==
    [varlen |-> varlen, seqlen_q |-> seqlen_q, seqlen_k |-> sk, sq |-> sq,
     sk |-> sk, causal |-> causal, wl |-> wl, wr |-> wr, evenK |-> TRUE]

Masks == {[causal |-> FALSE, wl |-> -1, wr |-> -1],
          [causal |-> TRUE,  wl |-> -1, wr |-> -1],
          [causal |-> FALSE, wl |-> 1,  wr |-> 0]}

\* In the varlen call the sequence ends in the first row block of the two.
MCArgs ==
    {Call(FALSE, sq, sq, sk, w.causal, w.wl, w.wr) :
        sq \in LenQ, sk \in LenK, w \in Masks}
    \cup {Call(TRUE, kBlockM + 1, 2, sk, TRUE, -1, -1) : sk \in LenK}
=============================================================================
