---------------------------- MODULE MCBwdPipeline ----------------------------
(***************************************************************************)
(* Instances of BwdPipeline for TLC: calls of one CTA per column block,    *)
(* deterministic calls with fewer CTAs than column blocks, and the         *)
(* balanced calls whose CTAs do two column blocks each.                    *)
(***************************************************************************)
EXTENDS BwdPipeline

Call(varlen, seqlen_q, seqlen_k, sq, sk, causal, wl, hdim, det) ==
    [varlen |-> varlen, seqlen_q |-> seqlen_q, seqlen_k |-> seqlen_k,
     sq |-> sq, sk |-> sk, causal |-> causal, wl |-> wl, wr |-> wl,
     evenK |-> TRUE, hdim |-> hdim, deterministic |-> det,
     xcore1500 |-> FALSE, nsplits |-> 1]

\* Without mask, causal and with a window too small for the last keys.
PlainArgs ==
    {Call(FALSE, 6, 8, 6, 8, c, -1, 64, FALSE) : c \in BOOLEAN}
    \cup {Call(FALSE, 3, 12, 3, 12, FALSE, 0, 64, FALSE)}

\* One CTA does all column blocks; in the varlen call the sequence ends before
\* the last of them, with the window it attends none of the first.
DetArgs ==
    {Call(FALSE, 6, 8, 6, 8, TRUE, -1, 64, TRUE),
     Call(TRUE, 6, 12, 3, 7, TRUE, -1, 64, TRUE),
     Call(FALSE, 3, 12, 3, 12, FALSE, 0, 64, TRUE)}

SyncedArgs == PlainArgs \cup DetArgs

\* A call whose grid is halved.
BalancedArgs ==
    {Call(FALSE, BalanceLen, BalanceLen, BalanceLen, BalanceLen, TRUE, -1,
          128, FALSE)}
=============================================================================
