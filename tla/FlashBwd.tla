------------------------------ MODULE FlashBwd -------------------------------
(***************************************************************************)
(* The backward pass of one sequence and head (run_flash_bwd_seqk_parallel)*)
(* in its three kernels, which the stream runs one after the other:        *)
(*   dot_do_o     one CTA per row block stores dPsum = rowsum(dO * O) and  *)
(*                clears dQaccum, unless the call is deterministic         *)
(*   dq_dk_dv     CTA x walks its column blocks; for each it visits the row*)
(*                blocks from the last to the first, adds the tile's share *)
(*                of dQ to dQaccum (atomicAdd), and stores dK and dV       *)
(*   convert_dq   one CTA per row block sums the dQaccum buffers to dQ     *)
(* The CTAs of a kernel run in any order.  An output is modelled by the    *)
(* set of rows or columns it combines.                                     *)
(***************************************************************************)
EXTENDS BwdTiling

CONSTANT Args            \* the calls considered, records as in BwdTiling

ASSUME BwdArgsAssumption == \A a \in Args : IsBwdCall(a)

VARIABLES arg,       \* the call
          params,    \* the parameters the host derives from it
          kernel,    \* the kernel that runs, "returned" after the last
          finished,  \* the CTAs of that kernel that have finished
          dPsum,     \* the row blocks whose dPsum has been stored
          dqAccum,   \* per buffer and row block: the column blocks added
          todo,      \* per CTA of dq_dk_dv: the column blocks still to do
          m_block,   \* per CTA: the loop variable
          acc,       \* per CTA: the visits folded into acc_dk and acc_dv
          gdKV,      \* per column: the rows dK and dV combine
          gdQ        \* per row: the columns dQ combines

vars == <<arg, params, kernel, finished, dPsum, dqAccum, todo, m_block, acc,
          gdKV, gdQ>>

Unset   == {-1}        \* no output combines row or column -1
Garbage == <<-1>>      \* what torch::empty leaves in dQaccum

RowBlocks == 0 .. CeilDiv(arg.seqlen_q, kBlockM) - 1
CTAs      == 0 .. params.grid - 1
Buffers   == IF params.deterministic THEN CTAs ELSE {0}
QueryRows == 0 .. CeilDiv(arg.seqlen_q, kBlockM) * kBlockM - 1
KeyCols   == 0 .. params.nblocks * kBlockN - 1

\* A deterministic call gets one zeroed buffer per CTA (torch::zeros), the
\* others a single buffer that dot_do_o clears.
Init == /\ arg \in Args
        /\ params = BwdParams(arg)
        /\ kernel = "dot_do_o"
        /\ finished = {}
        /\ dPsum = {}
        /\ dqAccum = [b \in Buffers |-> [m \in RowBlocks |->
                         IF params.deterministic THEN <<>> ELSE Garbage]]
        /\ todo = [x \in CTAs |-> ColumnBlocks(params, x)]
        /\ m_block = [x \in CTAs |-> 0]
        /\ acc = [x \in CTAs |-> <<>>]
        /\ gdKV = [c \in KeyCols |-> Unset]
        /\ gdQ = [r \in QueryRows |-> Unset]

\* A CTA finishes; when all have, the stream starts the next kernel.
Finish(cta, grid, next) ==
    IF finished \cup {cta} = grid
    THEN kernel' = next /\ finished' = {}
    ELSE finished' = finished \cup {cta} /\ UNCHANGED kernel

-----------------------------------------------------------------------------
(* dot_do_o *)

\* Mutant of HasRows: a last row block that is not full is left out.
HasRowsFull(m) == (m + 1) * kBlockM <= params.sq

HasRows(m) == m * kBlockM < params.sq

DotDoO(m) ==
    /\ kernel = "dot_do_o" /\ m \notin finished
    /\ IF HasRows(m)
       THEN /\ dPsum' = dPsum \cup {m}
            /\ dqAccum' = IF params.deterministic THEN dqAccum
                          ELSE [dqAccum EXCEPT ![0][m] = <<>>]
       ELSE UNCHANGED <<dPsum, dqAccum>>
    /\ Finish(m, RowBlocks, "dq_dk_dv")
    /\ UNCHANGED <<arg, params, todo, m_block, acc, gdKV, gdQ>>

-----------------------------------------------------------------------------
(* dq_dk_dv *)

Runs(x) == kernel = "dq_dk_dv" /\ x \notin finished
Block(x) == Head(todo[x])
Idle(x) == Runs(x) /\ todo[x] # <<>> /\ acc[x] = <<>>

\* The columns of block n that a predicated store writes.
Stored(n) == {c \in TileCols(n) : params.even \/ c < params.sk}

\* Mutant of Skip: the loop variable is not advanced.
SkipAgain(x) ==
    /\ Idle(x) /\ NoKeys(params, Block(x))
    /\ UNCHANGED vars

\* The column block lies past the keys of this sequence.
Skip(x) ==
    /\ Idle(x) /\ NoKeys(params, Block(x))
    /\ todo' = [todo EXCEPT ![x] = Tail(@)]
    /\ UNCHANGED <<arg, params, kernel, finished, dPsum, dqAccum, m_block,
                   acc, gdKV, gdQ>>

\* No row attends the column block: dK = dV = 0.
StoreZero(x) ==
    /\ Idle(x) /\ ~NoKeys(params, Block(x)) /\ NoQueries(params, Block(x))
    /\ gdKV' = [c \in KeyCols |-> IF c \in Stored(Block(x)) THEN {}
                                  ELSE gdKV[c]]
    /\ todo' = [todo EXCEPT ![x] = Tail(@)]
    /\ UNCHANGED <<arg, params, kernel, finished, dPsum, dqAccum, m_block,
                   acc, gdQ>>

\* Mutant of Buffer: all CTAs of a deterministic call share the first buffer.
BufferShared(x) == 0

Buffer(x) == IF params.deterministic THEN x ELSE 0

\* Compute tile (m, Block(x)); what was loaded before the loop was checked
\* against the end of the queries, unless the tiling is even.
Tile(x, m, checked) ==
    /\ acc' = [acc EXCEPT ![x] = Append(@, [m |-> m, checked |-> checked])]
    /\ dqAccum' = [dqAccum EXCEPT ![Buffer(x)][m] = Append(@, Block(x))]
    /\ m_block' = [m_block EXCEPT ![x] = m - 1]
    /\ UNCHANGED <<arg, params, kernel, finished, dPsum, todo, gdKV, gdQ>>

\* The first row block; the guard of the loop is not tested before it.
FirstTile(x) ==
    /\ Idle(x) /\ ~NoKeys(params, Block(x)) /\ ~NoQueries(params, Block(x))
    /\ Tile(x, MBlockMax(params, Block(x)) - 1, ~params.even)

NextTile(x) ==
    /\ Runs(x) /\ acc[x] # <<>>
    /\ m_block[x] >= MBlockMin(params, Block(x))
    /\ Tile(x, m_block[x], FALSE)

\* Epilogue: dK and dV of the column block, then the CTA's next block.
StoreKV(x) ==
    /\ Runs(x) /\ acc[x] # <<>>
    /\ m_block[x] < MBlockMin(params, Block(x))
    /\ gdKV' = [c \in KeyCols |->
                   IF c \in Stored(Block(x))
                   THEN UNION {RowsFor(params, acc[x][i], Block(x), c) :
                               i \in DOMAIN acc[x]}
                   ELSE gdKV[c]]
    /\ todo' = [todo EXCEPT ![x] = Tail(@)]
    /\ acc' = [acc EXCEPT ![x] = <<>>]
    /\ UNCHANGED <<arg, params, kernel, finished, dPsum, dqAccum, m_block,
                   gdQ>>

\* The CTA has no column block left.
Exit(x) ==
    /\ Runs(x) /\ todo[x] = <<>>
    /\ Finish(x, CTAs, "convert_dq")
    /\ UNCHANGED <<arg, params, dPsum, dqAccum, todo, m_block, acc, gdKV, gdQ>>

-----------------------------------------------------------------------------
(* convert_dq *)

\* The column blocks added to row block m, over all buffers.
Added(m) == UNION {{dqAccum[b][m][i] : i \in DOMAIN dqAccum[b][m]} :
                   b \in Buffers}

ConvertDQ(m) ==
    /\ kernel = "convert_dq" /\ m \notin finished
    /\ gdQ' = [r \in QueryRows |->
                  IF r \in TileRows(m) /\ r < params.sq
                  THEN UNION {ColsFor(params, m, n, r) : n \in Added(m)}
                  ELSE gdQ[r]]
    /\ Finish(m, RowBlocks, "returned")
    /\ UNCHANGED <<arg, params, dPsum, dqAccum, todo, m_block, acc, gdKV>>

Returned == kernel = "returned"

Step == \/ \E m \in RowBlocks : DotDoO(m) \/ ConvertDQ(m)
        \/ \E x \in CTAs : \/ Skip(x) \/ StoreZero(x) \/ FirstTile(x)
                           \/ NextTile(x) \/ StoreKV(x) \/ Exit(x)

Next == Step \/ (Returned /\ UNCHANGED vars)

Spec == Init /\ [][Next]_vars

\* Some CTA of the running kernel is resident, and its warps are scheduled.
FairSpec == Spec /\ WF_vars(Step)

-----------------------------------------------------------------------------
(* Properties *)

TypeOK ==
    /\ arg \in Args
    /\ params = BwdParams(arg)
    /\ kernel \in {"dot_do_o", "dq_dk_dv", "convert_dq", "returned"}
    /\ finished \in SUBSET Nat
    /\ dPsum \in SUBSET RowBlocks
    /\ dqAccum \in [Buffers -> [RowBlocks -> Seq(Int)]]
    /\ todo \in [CTAs -> Seq(Int)]
    /\ m_block \in [CTAs -> Int]
    /\ acc \in [CTAs -> Seq([m : RowBlocks, checked : BOOLEAN])]
    /\ gdKV \in [KeyCols -> SUBSET Int]
    /\ gdQ \in [QueryRows -> SUBSET Int]

\* When the call returns, dK and dV of every key combine exactly the queries
\* the forward pass let attend it, once the call's own parameters have gone
\* through the other entry point; nothing is written past the keys.
DKVExact ==
    Returned => \A c \in KeyCols :
        gdKV[c] = IF c < params.sk
                  THEN {r \in 0 .. params.sq - 1 : Attends(FwdMask(arg), r, c)}
                  ELSE Unset

\* And dQ of every query combines exactly the keys it attended.
DQExact ==
    Returned => \A r \in QueryRows :
        gdQ[r] = IF r < params.sq
                 THEN {c \in KeyCols : Attends(FwdMask(arg), r, c)}
                 ELSE Unset

\* No tile's share is added to dQ twice, by one CTA or by two.
TileOnce ==
    \A m \in RowBlocks : \A b1, b2 \in Buffers :
        \A i \in DOMAIN dqAccum[b1][m], j \in DOMAIN dqAccum[b2][m] :
            dqAccum[b1][m][i] = dqAccum[b2][m][j] => b1 = b2 /\ i = j

\* Row blocks after the first are prefetched without a bound check, so they
\* must lie within the queries.
UncheckedLoadsInBounds ==
    \A x \in CTAs : \A i \in DOMAIN acc[x] :
        LET v == acc[x][i]
        IN  v.m >= 0 /\ (v.checked \/ (v.m + 1) * kBlockM <= params.sq)

\* What a tile reads was initialised by the first kernel: dPsum of its rows,
\* and the accumulator it adds to.
NoStaleRead ==
    \A x \in CTAs : \A i \in DOMAIN acc[x] :
        LET m == acc[x][i].m
        IN  m \in dPsum /\ Head(dqAccum[Buffer(x)][m]) # Head(Garbage)

\* A deterministic call adds to each buffer in an order that depends on the
\* call alone, whatever the order of the CTAs: the column blocks of the buffer's
\* CTA that visit the row block, each after the smaller ones.
Deterministic ==
    Returned /\ params.deterministic =>
        \A b \in Buffers, m \in RowBlocks :
            LET blocks == ColumnBlocks(params, b)
                s == dqAccum[b][m]
            IN  /\ {s[i] : i \in DOMAIN s} =
                       {n \in {blocks[i] : i \in DOMAIN blocks} :
                           /\ ~NoKeys(params, n)
                           /\ m >= MBlockMin(params, n)
                           /\ m < MBlockMax(params, n)}
                /\ \A i, j \in DOMAIN s : i < j => s[i] < s[j]

\* Every call returns.
Termination == <>Returned
=============================================================================
