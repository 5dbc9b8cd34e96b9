------------------------------- MODULE SplitKV -------------------------------
(***************************************************************************)
(* The kvcache entry points and the kernels behind them: every CTA of a    *)
(* launch takes one head, one row block and one split of the keys, appends *)
(* the new keys and values of its split to the cache, attends to its split *)
(* and stores a partial result, which a second kernel combines.            *)
(* One sequence and one key/value head; batches repeat both.  A CTA runs   *)
(* as one process: what its warps share is the subject of FwdPipeline.     *)
(***************************************************************************)
EXTENDS FwdTiling, Sequences

CONSTANTS Args,          \* the calls considered
          CombineRows    \* rows of a CTA of the combine kernel (its kBlockM)

(***************************************************************************)
(* A call: seqlen_q queries of ngroups query heads, against a cache with   *)
(* room for "capacity" keys of which cache_len are set, and seqlen_knew    *)
(* keys to append (0: k and v are not passed).  "seqlens": cache_seqlens   *)
(* is passed; "capi": the C entry point, which does not regroup heads and  *)
(* gets buffers for the partial results from its caller.  Calls here are   *)
(* those run_mha_fwd sends to the split kernel: they append, index the     *)
(* cache (cache_batch_idx, block_table) or ask for splits.                 *)
(***************************************************************************)
IsKVCall(a) ==
    /\ a \in [capi : BOOLEAN, seqlen_q : Nat \ {0}, ngroups : Nat \ {0},
              capacity : Nat \ {0}, cache_len : Nat, seqlen_knew : Nat,
              seqlens : BOOLEAN, causal : BOOLEAN, wl : Int, wr : Int,
              evenK : BOOLEAN, num_splits : Nat]
    /\ a.seqlen_knew > 0 => a.seqlens
    /\ ~a.seqlens => a.cache_len = a.capacity
    /\ a.cache_len + a.seqlen_knew <= a.capacity
    /\ a.capi => a.num_splits \in 1 .. 128

ASSUME SplitAssumption ==
    /\ CombineRows \in Nat \ {0}
    /\ \A a \in Args : IsKVCall(a)

Append_KV(a) == a.seqlen_knew > 0
Split(a)     == a.num_splits > 1
SeqlenK(a)   == a.cache_len + a.seqlen_knew        \* actual_seqlen_k

\* seqlenq_ngroups_swapped: the query heads become rows of one head.
Swapped(a) == ~a.capi /\ a.seqlen_q = 1 /\ a.ngroups > 1 /\ a.wl < 0 /\ a.wr < 0
SeqlenQ(a) == IF Swapped(a) THEN a.ngroups ELSE a.seqlen_q
Heads(a)   == IF Swapped(a) THEN 1 ELSE a.ngroups

\* The call in the terms of FwdTiling, and what set_params_fprop makes of it.
CallOf(a, seqlen_q) ==
    [varlen |-> a.seqlens, seqlen_q |-> seqlen_q, seqlen_k |-> a.capacity,
     sq |-> seqlen_q, sk |-> SeqlenK(a),
     causal |-> a.causal /\ a.seqlen_q # 1, wl |-> a.wl, wr |-> a.wr,
     evenK |-> a.evenK /\ ~Append_KV(a)]

KVParams(a) == SetParams(CallOf(a, SeqlenQ(a)))

-----------------------------------------------------------------------------
(* Which blocks a split visits, and which rows of the cache it appends. *)

Splits(a) == 0 .. (IF Split(a) THEN a.num_splits ELSE 1) - 1

\* Mutant of PerSplit: the last blocks belong to no split.
PerSplitFloor(a) == TruncDiv(CeilDiv(SeqlenK(a), kBlockN), AtLeast(1, a.num_splits))

PerSplit(a) == CeilDiv(CeilDiv(SeqlenK(a), kBlockN), AtLeast(1, a.num_splits))

SplitMin(a, p, m, s) == AtLeast(s * PerSplit(a), NBlockMin(p, m))

\* Mutant of SplitMax: a split runs on to the diagonal.
SplitMaxOn(a, p, m, s) == NBlockMax(p, m)

\* Mutant of SplitMax: the last split ends past the last key.
SplitMaxFull(a, p, m, s) == (s + 1) * PerSplit(a)

SplitMax(a, p, m, s) == AtMost((s + 1) * PerSplit(a), NBlockMax(p, m))

\* n_block_copy_min: the lowest block with rows to append.
CopyMin(a, p, m, s) ==
    AtLeast(SplitMin(a, p, m, s), TruncDiv(a.cache_len, kBlockN))

Block(n) == n * kBlockN .. n * kBlockN + kBlockN - 1

\* Mutant of NewCols: the copy ignores its lower bound min_MN.
NewColsBelow(a, n) == {j \in Block(n) : j < SeqlenK(a)}

\* copy_w_min_idx: the columns of block n that are appended.
NewCols(a, n) == {j \in Block(n) : a.cache_len <= j /\ j < SeqlenK(a)}

\* Mutant of SplitCheckInf: rows above the diagonal are forgotten.
SplitCheckInfLocal(p, masking) == p.local

SplitCheckInf(p, masking) == p.local \/ (masking /\ (p.causal \/ ~p.even))

\* Mutant of EmptyLse: the value for the combine kernel, in either case.
EmptyLseSplit(a) == "-inf"

\* LSE of a row no column of which was kept.
EmptyLse(a) == IF Split(a) THEN "-inf" ELSE "inf"
-----------------------------------------------------------------------------
VARIABLES arg,       \* the call
          params,    \* the parameters the host derives from it
          stage,     \* of the host's stream: which kernel runs
          cta,       \* per CTA: where it is and what it holds
          kcache,    \* the columns of the key cache written by this call
          vcache,    \* the same for the value cache
          partial,   \* per split and cell: oaccum and lseaccum
          combined,  \* the CTAs of the combine kernel that are done
          result     \* per cell: out and softmax_lse

vars == <<arg, params, stage, cta, kcache, vcache, partial, combined, result>>

\* A CTA <<h, m, s>> is head h, row block m, split s.
RowBlocks == 0 .. CeilDiv(SeqlenQ(arg), kBlockM) - 1
Ctas      == (0 .. Heads(arg) - 1) \X RowBlocks \X Splits(arg)

\* A cell is a query row of a head, flattened as in lse_size = h * seqlen_q.
\* The combine kernel has whole CTAs only, so some of its rows are no cells.
Size   == Heads(arg) * SeqlenQ(arg)
Cells  == 0 .. Size - 1
Chunks == 0 .. CeilDiv(Size, CombineRows) - 1
Chunk(b) == b * CombineRows .. b * CombineRows + CombineRows - 1
AllRows  == Cells \cup UNION {Chunk(b) : b \in Chunks}

CellOf(c, r) == c[1] * SeqlenQ(arg) + c[2] * kBlockM + r

NMin(c) == SplitMin(arg, params, c[2], c[3])
NMax(c) == SplitMax(arg, params, c[2], c[3])
NCopy(c) == CopyMin(arg, params, c[2], c[3])

Unset      == {-1}      \* never written
NotANumber == {-2}

NoKeys == [n |-> -1, stale |-> {}]

Init == /\ arg \in Args
        /\ params = KVParams(arg)
        /\ stage = "called"
        /\ cta = [c \in Ctas |-> [phase |-> "start", n_block |-> 0,
                                  keys |-> NoKeys, acc |-> <<>>]]
        /\ kcache = {} /\ vcache = {}
        /\ partial = [s \in Splits(arg) |-> [x \in Cells |->
                         [cols |-> Unset, lse |-> "unset"]]]
        /\ combined = {}
        /\ result = [x \in AllRows |-> [cols |-> Unset, lse |-> "unset"]]

-----------------------------------------------------------------------------
(* The host: two kernels on one stream. *)

\* The grid of the split kernel is num_splits wide unless num_splits = 1, so
\* 0 launches nothing and is an error; only the C entry point has buffers
\* for partial results, the other one passes null.
CannotRun == arg.num_splits = 0 \/ (Split(arg) /\ ~arg.capi)

Launch ==
    /\ stage = "called"
    /\ stage' = IF CannotRun THEN "failed" ELSE "split"
    /\ UNCHANGED <<arg, params, cta, kcache, vcache, partial, combined, result>>

SplitDone ==
    /\ stage = "split"
    /\ \A c \in Ctas : cta[c].phase = "done"
    /\ stage' = IF Split(arg) THEN "combine" ELSE "done"
    /\ UNCHANGED <<arg, params, cta, kcache, vcache, partial, combined, result>>

CombineDone ==
    /\ stage = "combine"
    /\ combined = Chunks
    /\ stage' = "done"
    /\ UNCHANGED <<arg, params, cta, kcache, vcache, partial, combined, result>>

-----------------------------------------------------------------------------
(* A CTA of the split kernel *)

At(c, phase) == stage = "split" /\ cta[c].phase = phase

\* Store what the CTA's rows have combined, as a partial result if Split.
StoreRows(c, cols) ==
    LET mine == {r \in Rows : Valid(params, c[2], r)}
        Stored(old) ==
            [x \in DOMAIN old |->
                LET r == x - CellOf(c, 0)
                IN  IF r \in mine
                    THEN [cols |-> cols[r],
                          lse  |-> IF cols[r] = {} THEN EmptyLse(arg) ELSE "finite"]
                    ELSE old[x]]
    IN  /\ IF Split(arg)
           THEN partial' = [partial EXCEPT ![c[3]] = Stored(@)] /\ UNCHANGED result
           ELSE result' = Stored(result) /\ UNCHANGED partial
        /\ cta' = [cta EXCEPT ![c].phase = "done"]
        /\ UNCHANGED <<arg, params, stage, kcache, vcache, combined>>

\* No block for this row block in this split.
StoreEmpty(c) ==
    /\ At(c, "start")
    /\ NMin(c) >= NMax(c)
    /\ StoreRows(c, [r \in Rows |-> {}])

Start(c) ==
    /\ At(c, "start")
    /\ NMin(c) < NMax(c)
    /\ cta' = [cta EXCEPT ![c].n_block = NMax(c) - 1,
                          ![c].phase = IF Append_KV(arg) /\ NCopy(c) < NMax(c)
                                       THEN "append" ELSE "load"]
    /\ UNCHANGED <<arg, params, stage, kcache, vcache, partial, combined, result>>

\* Mutant of AppendBlock: only the first query head of the group appends.
AppendBlockFirst(c) ==
    LET n == cta[c].n_block
        new == IF c[1] = 0 THEN NewCols(arg, n) ELSE {}
    IN  /\ At(c, "append")
        /\ vcache' = vcache \cup new
        /\ kcache' = kcache \cup new
        /\ cta' = [cta EXCEPT ![c].n_block = n - 1,
                              ![c].phase = IF n > NCopy(c) THEN "append" ELSE "load"]
        /\ UNCHANGED <<arg, params, stage, partial, combined, result>>

\* Every CTA copies the new rows of its own blocks, from the last one down.
AppendBlock(c) ==
    LET n == cta[c].n_block
    IN  /\ At(c, "append")
        /\ vcache' = vcache \cup NewCols(arg, n)
        /\ kcache' = kcache \cup NewCols(arg, n)
        /\ cta' = [cta EXCEPT ![c].n_block = n - 1,
                              ![c].phase = IF n > NCopy(c) THEN "append" ELSE "load"]
        /\ UNCHANGED <<arg, params, stage, partial, combined, result>>

\* What a load of block n finds: the new columns not in the cache yet.
Missing(cache, n) == NewCols(arg, n) \ cache
KeysOf(n) == [n |-> n, stale |-> Missing(kcache, n)]

\* Mutant of LoadKeys: wait for every CTA to have appended its rows.
LoadKeysTogether(c) ==
    /\ At(c, "load")
    /\ \A d \in Ctas : cta[d].phase \in {"load", "loop", "store"}
    /\ cta' = [cta EXCEPT ![c].n_block = NMax(c) - 1,
                          ![c].keys = KeysOf(NMax(c) - 1),
                          ![c].phase = "loop"]
    /\ UNCHANGED <<arg, params, stage, kcache, vcache, partial, combined, result>>

LoadKeys(c) ==
    /\ At(c, "load")
    /\ cta' = [cta EXCEPT ![c].n_block = NMax(c) - 1,
                          ![c].keys = KeysOf(NMax(c) - 1),
                          ![c].phase = "loop"]
    /\ UNCHANGED <<arg, params, stage, kcache, vcache, partial, combined, result>>

\* Whether a visit of block n loads the keys of the next block.
Prefetch(c, n) == n > NMin(c)

\* One iteration: load the values of block n, fold it in with the keys at
\* hand, and load the keys of the block below.
Visit(c, masking) ==
    LET n == cta[c].n_block
        k == cta[c].keys
        seen == [n |-> n, masking |-> masking, k |-> k.n,
                 stale |-> k.stale \cup Missing(vcache, n)]
    IN  /\ cta' = [cta EXCEPT ![c].n_block = n - 1,
                              ![c].keys = IF Prefetch(c, n) THEN KeysOf(n - 1) ELSE k,
                              ![c].acc = Append(@, seen),
                              ![c].phase = IF n > NMin(c) THEN "loop" ELSE "store"]
        /\ UNCHANGED <<arg, params, stage, kcache, vcache, partial, combined, result>>

\* masking_step is the number of iterations so far.
MaskedVisit(c) ==
    /\ At(c, "loop")
    /\ Len(cta[c].acc) < NMaskingSteps(params)
    /\ Visit(c, TRUE)

FreeVisit(c) ==
    /\ At(c, "loop")
    /\ Len(cta[c].acc) >= NMaskingSteps(params)
    /\ Visit(c, FALSE)

Kept(c, r) == KeptCols(params, c[2], cta[c].acc, r)

\* normalize_softmax_lse<Split> and the stores of the epilogue.
Store(c) ==
    /\ At(c, "store")
    /\ StoreRows(c, [r \in Rows |-> Kept(c, r)])

-----------------------------------------------------------------------------
(* A CTA of the combine kernel *)

\* Mutant of CombineRow: the sum over no split is not told apart.
CombineRowMinus(x) ==
    LET some == {s \in Splits(arg) : partial[s][x].lse # "-inf"}
    IN  [cols |-> UNION {partial[s][x].cols : s \in some}, lse |-> "finite"]

\* The scale of split s is exp(lse_s - lse_logsum): 0 for -inf, and NaN when
\* lse_s is +inf.  If no split has a finite LSE, lse_logsum is +inf.
CombineRow(x) ==
    LET some == {s \in Splits(arg) : partial[s][x].lse # "-inf"}
    IN  IF \A s \in some : partial[s][x].lse = "finite"
        THEN [cols |-> UNION {partial[s][x].cols : s \in some},
              lse  |-> IF some = {} THEN "inf" ELSE "finite"]
        ELSE [cols |-> NotANumber, lse |-> "inf"]

\* Rows past the last cell count as -inf in every split; the store of O is
\* predicated on lse_size, the store of LSE is not.
Combine(b) ==
    /\ stage = "combine"
    /\ b \notin combined
    /\ result' = [x \in AllRows |->
                    IF x \notin Chunk(b) THEN result[x]
                    ELSE IF x \in Cells THEN CombineRow(x)
                    ELSE [result[x] EXCEPT !.lse = "inf"]]
    /\ combined' = combined \cup {b}
    /\ UNCHANGED <<arg, params, stage, cta, kcache, vcache, partial>>

-----------------------------------------------------------------------------
Step(c) == \/ StoreEmpty(c) \/ Start(c) \/ AppendBlock(c) \/ LoadKeys(c)
           \/ MaskedVisit(c) \/ FreeVisit(c) \/ Store(c)

Host == Launch \/ SplitDone \/ CombineDone

Ended == stage \in {"done", "failed"}

Next == \/ Host
        \/ \E c \in Ctas : Step(c)
        \/ \E b \in Chunks : Combine(b)
        \/ Ended /\ UNCHANGED vars

Spec == Init /\ [][Next]_vars

\* The device starts every CTA of a grid and keeps scheduling it; kernels of
\* a stream follow one another.
FairSpec == /\ Spec
            /\ WF_vars(Host)
            /\ WF_vars(\E c \in Ctas : Step(c))
            /\ WF_vars(\E b \in Chunks : Combine(b))

-----------------------------------------------------------------------------
(* Properties *)

TypeOK ==
    /\ arg \in Args /\ params = KVParams(arg)
    /\ stage \in {"called", "split", "combine", "done", "failed"}
    /\ \A c \in Ctas :
         /\ cta[c].phase \in {"start", "append", "load", "loop", "store", "done"}
         /\ cta[c].n_block \in -1 .. CeilDiv(SeqlenK(arg), kBlockN)
    /\ kcache \subseteq 0 .. arg.capacity - 1
    /\ vcache \subseteq 0 .. arg.capacity - 1
    /\ combined \subseteq Chunks
    /\ \A s \in Splits(arg), x \in Cells :
         partial[s][x].lse \in {"unset", "-inf", "finite"}
    /\ \A x \in AllRows : result[x].lse \in {"unset", "inf", "finite"}

\* The mask the interface documents for a cell, in the caller's terms.
DocCols(x) ==
    LET i == IF Swapped(arg) THEN 0 ELSE x % arg.seqlen_q
    IN  {j \in 0 .. arg.capacity - 1 :
            DocAttends([CallOf(arg, arg.seqlen_q) EXCEPT !.causal = arg.causal], i, j)}

\* The call returns, for every query row of every head, the columns the
\* interface documents, however many splits they are spread over.
OutputAsDocumented ==
    stage = "done" => \A x \in Cells : result[x].cols = DocCols(x)

\* LSE is +inf exactly for the rows that attend nothing, also when splits
\* without a column contribute -inf.
LseInfIffEmpty ==
    stage = "done" => \A x \in Cells : (result[x].lse = "inf") = (DocCols(x) = {})

\* No column is combined twice: the splits of a row are disjoint.
ColumnOnce ==
    \A s, t \in Splits(arg), x \in Cells :
        s # t /\ partial[s][x].cols # Unset =>
            partial[s][x].cols \cap partial[t][x].cols = {}

\* Without any barrier between CTAs, no CTA folds in a block whose new keys
\* or values were not in the cache yet when it loaded them, or the keys of
\* another block.
NoStaleRead ==
    \A c \in Ctas : \A i \in DOMAIN cta[c].acc :
        LET v == cta[c].acc[i] IN v.k = v.n /\ v.stale = {}

\* When the call returns, exactly the new rows of the cache were written,
\* in place of nothing that was cached before.
CacheUpdated ==
    /\ kcache \cup vcache \subseteq arg.cache_len .. SeqlenK(arg) - 1
    /\ stage = "done" =>
         arg.cache_len .. SeqlenK(arg) - 1 \subseteq kcache \cap vcache

\* Every load without a bound check stays within the keys.
UncheckedLoadsInBounds ==
    \A c \in Ctas : \A i \in DOMAIN cta[c].acc :
        LET n == cta[c].acc[i].n
        IN  n >= 0 /\ (i > 1 \/ params.even => (n + 1) * kBlockN <= params.sk)

\* A rescale that does not test row_max for -inf never meets a row for which
\* this split has kept no score yet.
NoNaN ==
    \A c \in Ctas : \A i \in DOMAIN cta[c].acc \ {1} :
        ~SplitCheckInf(params, cta[c].acc[i].masking) =>
            \A r \in Rows : Valid(params, c[2], r) =>
                KeptCols(params, c[2], SubSeq(cta[c].acc, 1, i), r) # {}

\* softmax_lse has batch_size x num_heads x seqlen_q entries.
LseInBounds == \A x \in AllRows \ Cells : result[x].lse = "unset"

\* Every call comes to an end.
Termination == <>Ended
=============================================================================
