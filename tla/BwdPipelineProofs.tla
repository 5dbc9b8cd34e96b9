--------------------------- MODULE BwdPipelineProofs --------------------------
(***************************************************************************)
(* BwdPipeline for every tile shape, set of warps and call: the barriers   *)
(* join the warps at the same statement of the same tile of the same       *)
(* column block; and unless a CTA does a block and its mirror image, the   *)
(* cells are read without a race and each column block gets the products   *)
(* of its own tiles.                                                       *)
(*                                                                         *)
(* The argument: all warps are in the same stretch of code between two     *)
(* barriers (Synced).  A stretch is named by the barrier that ends it, the *)
(* column blocks left to compute and the row block; blocks that are only   *)
(* skipped do not count, since no barrier separates them from the next.    *)
(* In each stretch the cells that are written (Issued) are not the cells   *)
(* that are read (KeptInv).                                                *)
(***************************************************************************)
EXTENDS BwdPipeline, BwdTilingProofs, SequenceTheorems

-----------------------------------------------------------------------------
(* Where the warps are *)

\* The column blocks of the CTA; the index of the one a warp works on.
CB == ColumnBlocks(params, cta)
Pos(w) == Len(CB) - Len(todo[w]) + 1

\* A column block the CTA computes; the indices of those from the j-th on.
Active(n) == ~NoKeys(params, n) /\ ~NoQueries(params, n)
Left(j) == {i \in DOMAIN CB : i >= j /\ Active(CB[i])}

mmax(w) == MBlockMax(params, n_block(w))

Prologue == {"sync_first", "sts_kv", "sync_kv", "read_kv", "sync_read",
             "sts_kt", "sync_kt", "read_kt", "sync_pre", "load"}
InLoop   == {"barrier", "sts_q", "sync_q", "gemm_s", "sync_do", "gemm_dp",
             "sync_ds", "gemm_dv", "sync_p", "gemm_dk"}
Epilogue == {"sync_loop", "sts_dkv", "sync_dkv", "read_dkv"}

\* The statements at which a warp is not between two barriers of one block.
Outside == {"start", "read_dkv", "done"}

\* The first barrier of a column block, and the barrier that ends the stretch
\* of each other statement, but for the last one of the loop.
First == IF params.deterministic THEN "sync_first" ELSE "sync_kv"
Upto == [sts_kv  |-> "sync_kv", read_kv |-> "sync_read",
         sts_kt  |-> "sync_kt", read_kt |-> "sync_pre",
         load    |-> "barrier", sts_q   |-> "sync_q",
         gemm_s  |-> "sync_do", gemm_dp |-> "sync_ds",
         gemm_dv |-> "sync_p",  sts_dkv |-> "sync_dkv"]

\* The stretch of code warp w is in: the barrier that ends it, the column
\* blocks left to compute and the row block.
BarOf(w) ==
    IF pc[w] \in DOMAIN After THEN pc[w]
    ELSE IF pc[w] \in Outside THEN First
    ELSE IF pc[w] = "gemm_dk"
         THEN IF m_block[w] > mmin(w) THEN "barrier" ELSE "sync_loop"
    ELSE Upto[pc[w]]
LeftOf(w) == Left(IF pc[w] = "read_dkv" THEN Pos(w) + 1 ELSE Pos(w))
RowOf(w) ==
    IF pc[w] \in Outside \cup (Prologue \ {"load"}) THEN 0
    ELSE IF pc[w] = "gemm_dk" THEN m_block[w] - 1 ELSE m_block[w]

Synced == \A w, v \in Warps : /\ BarOf(w) = BarOf(v)
                              /\ LeftOf(w) = LeftOf(v)
                              /\ RowOf(w) = RowOf(v)

\* What is left to do is the end of the CTA's list.
TodoInv(w) ==
    /\ Len(todo[w]) <= Len(CB)
    /\ \A i \in 1 .. Len(todo[w]) : todo[w][i] = CB[Pos(w) - 1 + i]

\* Where a warp is tells the row block it works on.
PlaceInv(w) ==
    /\ pc[w] \in Prologue \cup InLoop \cup Epilogue =>
           todo[w] # <<>> /\ Active(n_block(w))
    /\ pc[w] \in Prologue => m_block[w] = mmax(w) - 1
    /\ pc[w] \in InLoop => mmin(w) <= m_block[w] /\ m_block[w] <= mmax(w) - 1
    /\ pc[w] \in Epilogue => m_block[w] = mmin(w) - 1
    /\ pc[w] = "done" => todo[w] = <<>>
    /\ pc[w] = "sync_first" => params.deterministic

\* The kinds and cells of what may be in flight at each statement.
Shapes(w) ==
    IF pc[w] = "sync_kv" THEN {<<"store", sK>>, <<"store", sV>>}
    ELSE IF pc[w] = "sync_kt" THEN {<<"store", sK>>}
    ELSE IF pc[w] = "barrier" THEN {<<"copy", {"Qt"}>>, <<"copy", {"dOt"}>>}
    ELSE IF pc[w] = "sync_q" THEN {<<"store", sQ>>}
    ELSE IF pc[w] = "sync_do" THEN {<<"store", {"dO"}>>}
    ELSE IF pc[w] = "sync_ds" THEN {<<"store", {"P"}>>, <<"store", {"dS"}>>}
    ELSE IF pc[w] = "sync_p"
         THEN {<<"store", {"dO"}>>}
              \cup {<<"copy", {"dOt"}>> : m \in NextRows(w)}
    ELSE IF pc[w] = "gemm_dk" THEN {<<"copy", {"dOt"}>> : m \in NextRows(w)}
    ELSE IF pc[w] = "sync_dkv" THEN {<<"store", sK \cup sV>>}
    ELSE {}
ShapeInv(w) == \A e \in pend[w] : <<e.kind, e.cells>> \in Shapes(w)

\* The warps that wait are at a barrier and have nothing in flight that it
\* waits for; the last to arrive does not wait.
BarrierInv ==
    /\ waiting # Warps
    /\ \A w \in waiting : /\ pc[w] \in DOMAIN After
                          /\ \A e \in pend[w] : e.kind # Awaits(pc[w])

\* The types the proofs need, TypeOK among them.
StateOK ==
    /\ TypeOK
    /\ \E a \in Args : params = BwdParams(a)
    /\ cta \in 0 .. params.grid - 1
    /\ DOMAIN pend = Warps

IInv == /\ StateOK /\ Synced /\ BarrierInv
        /\ \A w \in Warps : TodoInv(w) /\ PlaceInv(w) /\ ShapeInv(w)

-----------------------------------------------------------------------------
(* What the cells hold *)

\* The part of the cells that w wrote holds the tensor.
Has(w, cells, content) == \A c \in cells : smem[c][w] = content

\* What may be in flight at each statement if all that was read was right.
Issued(w) ==
    IF pc[w] = "sync_kv" THEN {Store(sK, K(w)), Store(sV, V(w))}
    ELSE IF pc[w] = "sync_kt" THEN {Store(sK, Kt(w))}
    ELSE IF pc[w] = "barrier"
         THEN {Copy({"Qt"}, Q(m_block[w])), Copy({"dOt"}, dO(m_block[w]))}
    ELSE IF pc[w] = "sync_q" THEN {Store(sQ, Q(m_block[w]))}
    ELSE IF pc[w] = "sync_do" THEN {Store({"dO"}, dO(m_block[w]))}
    ELSE IF pc[w] = "sync_ds" THEN {Store({"P"}, P(w)), Store({"dS"}, dS(w))}
    ELSE IF pc[w] = "sync_p"
         THEN {Store({"dO"}, dS(w))}
              \cup {Copy({"dOt"}, dO(m)) : m \in NextRows(w)}
    ELSE IF pc[w] = "gemm_dk"
         THEN {Copy({"dOt"}, dO(m)) : m \in NextRows(w)}
    ELSE IF pc[w] = "sync_dkv"
         THEN {Store(sK \cup sV, Holds("dKV", acc[w]))}
    ELSE {}

\* What is not in flight any more has landed.
IssuedInv(w) ==
    /\ pend[w] \subseteq Issued(w)
    /\ \A e \in Issued(w) \ pend[w] : Has(w, e.cells, e.content)

\* What w has stored and it or another warp still reads in this stretch.
KeptInv(w) ==
    /\ pc[w] \in {"read_kv", "sync_read"} => Has(w, sK, K(w)) /\ Has(w, sV, V(w))
    /\ pc[w] \in {"read_kt", "sync_pre"} => Has(w, sK, Kt(w))
    /\ pc[w] \in {"sts_q", "sync_q", "gemm_s", "sync_do", "gemm_dp", "sync_ds"} =>
           Has(w, {"dOt"}, dO(m_block[w]))
    /\ pc[w] \in {"sts_q", "sync_q", "gemm_s", "sync_do", "gemm_dp", "sync_ds",
                  "gemm_dv", "sync_p"} => Has(w, {"Qt"}, Q(m_block[w]))
    /\ pc[w] \in {"gemm_s", "sync_do"} => Has(w, sQ, Q(m_block[w]))
    /\ pc[w] \in {"gemm_dp", "sync_ds"} => Has(w, {"dO"}, dO(m_block[w]))
    /\ pc[w] \in {"gemm_dv", "sync_p"} => Has(w, {"P"}, P(w))
    /\ pc[w] \in {"gemm_dv", "sync_p"} => Has(w, {"dS"}, dS(w))
    /\ pc[w] = "gemm_dk" => Has(w, {"dS", "dO"}, dS(w))
    /\ pc[w] \in {"barrier", "sync_loop"} /\ m_block[w] < mmax(w) - 1 =>
           Has(w, {"dS", "dO"}, Holds("dS", <<n_block(w), m_block[w] + 1>>))
    /\ pc[w] = "read_dkv" => Has(w, Cells, Holds("dKV", acc[w]))

\* Outside the blocks the cells hold dK and dV of the last one computed.
LastInv(w) ==
    pc[w] \in {"start", "sync_first", "done"} =>
        \A j \in DOMAIN CB :
            /\ j < Pos(w) /\ Active(CB[j]) /\ Left(j + 1) = Left(Pos(w))
            => Has(w, Cells, Holds("dKV", Visited(CB[j])))

\* The row blocks folded so far.
AccInv(w) ==
    pc[w] \in Prologue \cup InLoop \cup Epilogue =>
        acc[w] = [i \in 1 .. mmax(w) - 1 - m_block[w] |-> mmax(w) - i]

\* What is stored for a column block.
Result(n) == IF NoKeys(params, n) THEN Unset
             ELSE IF NoQueries(params, n) THEN Zero ELSE Visited(n)
StoreInv(w) ==
    \A n \in Blocks :
        gdKV[n][w] = IF \E i \in DOMAIN CB : i < Pos(w) /\ CB[i] = n
                     THEN Result(n) ELSE Unset

\* The domains of the memories.
MemoryOK ==
    /\ DOMAIN smem = Cells /\ \A c \in Cells : DOMAIN smem[c] = Warps
    /\ DOMAIN gdKV = Blocks /\ \A n \in Blocks : DOMAIN gdKV[n] = Warps

DInv == /\ IInv /\ MemoryOK /\ ~params.balance
        /\ \A w \in Warps : /\ good[w]
                            /\ IssuedInv(w) /\ KeptInv(w) /\ LastInv(w)
                            /\ AccInv(w) /\ StoreInv(w)

-----------------------------------------------------------------------------
(* Column blocks *)

\* The parameters, and the list of the CTA's column blocks.
LEMMA CallType ==
    ASSUME StateOK
    PROVE  /\ IsBwdParams(params) /\ params.deterministic \in BOOLEAN
           /\ CB \in Seq(Blocks) /\ Len(CB) \in Nat /\ DOMAIN CB = 1 .. Len(CB)
<1>1. IsBwdParams(params)
  BY BwdPipelineAssumption, BwdParamsType DEF StateOK
<1>2. CB \in Seq(Blocks)
  <2>1. cta \in 0 .. params.grid - 1
    BY DEF StateOK
  <2> QED
    BY <1>1, <2>1, ColumnBlocksType DEF CB, Blocks
<1>3. params.deterministic \in BOOLEAN
  BY <1>1 DEF IsBwdParams
<1>4. Len(CB) \in Nat /\ DOMAIN CB = 1 .. Len(CB)
  BY <1>2, LenProperties
<1> QED
  BY <1>1, <1>2, <1>3, <1>4

\* The row blocks of a column block; there are some if it is active.
LEMMA RowBlocks ==
    ASSUME StateOK, NEW n \in Blocks
    PROVE  /\ MBlockMin(params, n) \in Nat /\ MBlockMax(params, n) \in Int
           /\ Active(n) => MBlockMin(params, n) <= MBlockMax(params, n) - 1
<1>1. IsBwdParams(params) /\ n \in Nat /\ n \in 0 .. params.nblocks - 1
  BY CallType DEF Blocks
<1> QED
  BY <1>1, MBlockType, LoopNotEmpty DEF Active

\* The position of a warp in the list.
LEMMA PosType ==
    ASSUME StateOK, NEW w \in Warps, TodoInv(w)
    PROVE  /\ Len(todo[w]) \in Nat /\ Pos(w) \in Nat \ {0}
           /\ Pos(w) <= Len(CB) + 1
           /\ todo[w] = <<>> => Pos(w) = Len(CB) + 1
           /\ todo[w] # <<>> => /\ Pos(w) \in DOMAIN CB
                                /\ n_block(w) = CB[Pos(w)]
                                /\ n_block(w) \in Blocks
<1>1. todo[w] \in Seq(Blocks)
  BY DEF StateOK, TypeOK
<1>2. Len(todo[w]) \in Nat /\ Len(CB) \in Nat /\ DOMAIN CB = 1 .. Len(CB)
  BY <1>1, CallType, LenProperties
<1>3. Len(todo[w]) <= Len(CB)
  BY DEF TodoInv
<1>4. Pos(w) \in Nat \ {0} /\ Pos(w) <= Len(CB) + 1
  <2> DEFINE a == Len(todo[w])
             b == Len(CB)
             k == Pos(w)
  <2>1. k = b - a + 1 /\ a \in Nat /\ b \in Nat /\ a <= b
    BY <1>2, <1>3 DEF Pos
  <2> HIDE DEF a, b, k
  <2>2. k \in Nat \ {0} /\ k <= b + 1
    BY <2>1
  <2> QED
    BY <2>2 DEF b, k
<1>5. todo[w] = <<>> => Pos(w) = Len(CB) + 1
  BY <1>2 DEF Pos
<1>6. ASSUME todo[w] # <<>>
      PROVE  /\ Pos(w) \in DOMAIN CB /\ n_block(w) = CB[Pos(w)]
             /\ n_block(w) \in Blocks
  <2>1. Len(todo[w]) >= 1
    BY <1>1, <1>2, <1>6, EmptySeq
  <2>2. Pos(w) \in DOMAIN CB
    BY <1>2, <1>4, <2>1 DEF Pos
  <2>3. 1 \in 1 .. Len(todo[w]) /\ Pos(w) - 1 + 1 = Pos(w)
    BY <1>2, <1>4, <2>1
  <2>4. todo[w][1] = CB[Pos(w)]
    BY <2>3 DEF TodoInv
  <2>5. n_block(w) = CB[Pos(w)]
    BY <2>4 DEF n_block
  <2>6. CB[Pos(w)] \in Blocks
    BY <2>2, CallType, ElementOfSeq
  <2> QED
    BY <2>2, <2>5, <2>6
<1> QED
  BY <1>2, <1>4, <1>5, <1>6

\* Two warps at the same position have the same list left.
LEMMA SameTodo ==
    ASSUME StateOK, NEW w \in Warps, NEW v \in Warps,
           TodoInv(w), TodoInv(v), Pos(w) = Pos(v)
    PROVE  todo[w] = todo[v]
<1>1. todo[w] \in Seq(Blocks) /\ todo[v] \in Seq(Blocks)
  BY DEF StateOK, TypeOK
<1>2. /\ Len(todo[w]) \in Nat /\ Len(todo[v]) \in Nat /\ Len(CB) \in Nat
      /\ Len(CB) - Len(todo[w]) + 1 = Len(CB) - Len(todo[v]) + 1
  BY PosType, CallType DEF Pos
<1>3. Len(todo[w]) = Len(todo[v])
  <2> DEFINE a == Len(todo[w])
             b == Len(todo[v])
             c == Len(CB)
  <2>1. a \in Nat /\ b \in Nat /\ c \in Nat /\ c - a + 1 = c - b + 1
    BY <1>2
  <2> HIDE DEF a, b, c
  <2>2. a = b
    BY <2>1
  <2> QED
    BY <2>2 DEF a, b
<1>4. \A i \in 1 .. Len(todo[w]) : todo[w][i] = todo[v][i]
  BY <1>3 DEF TodoInv
<1> QED
  BY <1>1, <1>3, <1>4, SeqEqual

\* The blocks left after two active ones are the same only if these are.
LEMMA LeftInjective ==
    ASSUME StateOK, NEW i \in DOMAIN CB, NEW j \in DOMAIN CB,
           Active(CB[i]), Active(CB[j]),
           Left(i) = Left(j) \/ Left(i + 1) = Left(j + 1)
    PROVE  i = j
<1>1. i \in Nat /\ j \in Nat
  BY CallType
<1>2. CASE Left(i) = Left(j)
  <2>1. i \in Left(i) /\ j \in Left(j)
    BY <1>1 DEF Left
  <2>2. i \in Left(j) /\ j \in Left(i)
    BY <1>2, <2>1
  <2> QED
    BY <1>1, <2>2 DEF Left
<1>3. CASE Left(i + 1) = Left(j + 1)
  <2>1. i < j => j \in Left(i + 1) /\ j \notin Left(j + 1)
    BY <1>1 DEF Left
  <2>2. j < i => i \in Left(j + 1) /\ i \notin Left(i + 1)
    BY <1>1 DEF Left
  <2> QED
    BY <1>1, <1>3, <2>1, <2>2
<1> QED
  BY <1>2, <1>3

\* A block that is skipped is not left to compute.
LEMMA LeftSkip ==
    ASSUME StateOK, NEW i \in DOMAIN CB, ~Active(CB[i])
    PROVE  Left(i + 1) = Left(i)
<1>1. \A j \in DOMAIN CB : j \in Nat /\ i \in Nat
  BY CallType
<1>2. \A j \in DOMAIN CB : Active(CB[j]) => (j >= i + 1 <=> j >= i)
  BY <1>1
<1> QED
  BY <1>2 DEF Left

-----------------------------------------------------------------------------
(* Warps in the same stretch *)

InBlock == Prologue \cup InLoop \cup Epilogue

\* The conjuncts of the invariant that the steps below start from.
LEMMA WarpParts ==
    ASSUME IInv, NEW w \in Warps
    PROVE  /\ StateOK /\ TodoInv(w) /\ PlaceInv(w) /\ ShapeInv(w)
           /\ pc[w] \in PCs /\ m_block[w] \in Int
           /\ pc[w] \notin {"sync_kv", "sync_kt", "barrier", "sync_q",
                            "sync_do", "sync_ds", "sync_p", "gemm_dk",
                            "sync_dkv"} => pend[w] = {}
<1>1. StateOK /\ TodoInv(w) /\ PlaceInv(w) /\ ShapeInv(w)
  BY DEF IInv
<1>2. pc[w] \in PCs /\ m_block[w] \in Int
  BY <1>1 DEF StateOK, TypeOK
<1>3. ASSUME pc[w] \notin {"sync_kv", "sync_kt", "barrier", "sync_q",
                           "sync_do", "sync_ds", "sync_p", "gemm_dk",
                           "sync_dkv"}
      PROVE  pend[w] = {}
  <2>1. Shapes(w) = {}
    BY <1>3 DEF Shapes
  <2> QED
    BY <1>1, <2>1 DEF ShapeInv
<1> QED
  BY <1>1, <1>2, <1>3

\* A warp in a block works on an active block of the list.
LEMMA BlockOf ==
    ASSUME StateOK, NEW w \in Warps, TodoInv(w), PlaceInv(w),
           pc[w] \in InBlock
    PROVE  /\ todo[w] # <<>> /\ Active(n_block(w)) /\ n_block(w) \in Blocks
           /\ Pos(w) \in DOMAIN CB /\ n_block(w) = CB[Pos(w)]
           /\ mmin(w) \in Nat /\ mmax(w) \in Int /\ mmin(w) <= mmax(w) - 1
<1>1. todo[w] # <<>> /\ Active(n_block(w))
  BY DEF PlaceInv, InBlock
<1>2. /\ Pos(w) \in DOMAIN CB /\ n_block(w) = CB[Pos(w)]
      /\ n_block(w) \in Blocks
  BY <1>1, PosType
<1>3. mmin(w) \in Nat /\ mmax(w) \in Int /\ mmin(w) <= mmax(w) - 1
  BY <1>1, <1>2, RowBlocks DEF mmin, mmax
<1> QED
  BY <1>1, <1>2, <1>3

\* Two warps in a block are in the same one.
LEMMA SameBlock ==
    ASSUME StateOK, NEW w \in Warps, NEW v \in Warps,
           TodoInv(w), TodoInv(v), PlaceInv(w), PlaceInv(v),
           pc[w] \in InBlock, pc[v] \in InBlock,
           LeftOf(w) = LeftOf(v), pc[w] = "read_dkv" <=> pc[v] = "read_dkv"
    PROVE  todo[w] = todo[v] /\ n_block(w) = n_block(v) /\ Pos(w) = Pos(v)
<1>1. /\ Pos(w) \in DOMAIN CB /\ Active(CB[Pos(w)])
      /\ Pos(v) \in DOMAIN CB /\ Active(CB[Pos(v)])
  BY BlockOf
<1>2. \/ Left(Pos(w)) = Left(Pos(v))
      \/ Left(Pos(w) + 1) = Left(Pos(v) + 1)
  BY DEF LeftOf
<1>3. Pos(w) = Pos(v)
  BY <1>1, <1>2, LeftInjective
<1>4. todo[w] = todo[v]
  BY <1>3, SameTodo
<1> QED
  BY <1>3, <1>4 DEF n_block

\* Two warps at a barrier are at the same barrier of the same tile.
LEMMA SamePlace ==
    ASSUME IInv, NEW w \in Warps, NEW v \in Warps,
           pc[w] \in DOMAIN After, pc[v] \in DOMAIN After
    PROVE  /\ pc[w] = pc[v] /\ todo[w] = todo[v] /\ m_block[w] = m_block[v]
           /\ Pos(w) = Pos(v)
<1>1. pc[w] = pc[v] /\ LeftOf(w) = LeftOf(v) /\ RowOf(w) = RowOf(v)
  BY DEF IInv, Synced, BarOf
<1>2. pc[w] \in InBlock /\ pc[v] \in InBlock /\ pc[w] \notin Outside
  BY <1>1 DEF After, InBlock, Prologue, InLoop, Epilogue, Outside
<1>3. todo[w] = todo[v] /\ n_block(w) = n_block(v) /\ Pos(w) = Pos(v)
  BY <1>1, <1>2, WarpParts, SameBlock
<1>4. m_block[w] = m_block[v]
  <2>1. CASE pc[w] \in Prologue
    <3>1. m_block[w] = mmax(w) - 1 /\ m_block[v] = mmax(v) - 1
      BY <1>1, <2>1, WarpParts DEF PlaceInv
    <3> QED
      BY <1>3, <3>1 DEF mmax
  <2>2. CASE pc[w] \notin Prologue
    <3>1. RowOf(w) = m_block[w] /\ RowOf(v) = m_block[v]
      BY <1>1, <1>2, <2>2 DEF RowOf, After
    <3> QED
      BY <1>1, <3>1
  <2> QED
    BY <2>1, <2>2
<1> QED
  BY <1>1, <1>3, <1>4

-----------------------------------------------------------------------------
(* Steps of one warp between barriers *)

\* What the control part of the invariant says of a warp.
WarpInv(w) == TodoInv(w) /\ PlaceInv(w) /\ ShapeInv(w)
SameStretch(w) ==
    BarOf(w)' = BarOf(w) /\ LeftOf(w)' = LeftOf(w) /\ RowOf(w)' = RowOf(w)

\* It reads nothing else of the warps.
SameWarp(v) == /\ pc'[v] = pc[v] /\ todo'[v] = todo[v]
               /\ m_block'[v] = m_block[v] /\ pend'[v] = pend[v]

\* The list of column blocks does not change.
LEMMA SameList ==
    ASSUME UNCHANGED launch
    PROVE  /\ params' = params /\ cta' = cta /\ CB' = CB /\ First' = First
           /\ \A j : Left(j)' = Left(j)
           /\ \A n : Active(n)' = Active(n)
           /\ Blocks' = Blocks
<1>1. params' = params /\ cta' = cta
  BY DEF launch
<1>2. CB' = CB /\ First' = First /\ Blocks' = Blocks
  BY <1>1 DEF CB, First, Blocks
<1>3. \A n : Active(n)' = Active(n)
  BY <1>1 DEF Active
<1>4. \A j : Left(j)' = Left(j)
  BY <1>1, <1>2, <1>3 DEF Left
<1> QED
  BY <1>1, <1>2, <1>3, <1>4

\* A warp that keeps its own state keeps the invariant.
LEMMA OthersKept ==
    ASSUME NEW v \in Warps, UNCHANGED launch, SameWarp(v), WarpInv(v)
    PROVE  WarpInv(v)' /\ SameStretch(v)
<1>1. /\ params' = params /\ CB' = CB /\ First' = First
      /\ \A j : Left(j)' = Left(j)
  BY SameList
<1>2. /\ Pos(v)' = Pos(v) /\ n_block(v)' = n_block(v)
      /\ mmin(v)' = mmin(v) /\ mmax(v)' = mmax(v)
  BY <1>1 DEF SameWarp, Pos, n_block, mmin, mmax
<1>3. TodoInv(v)'
  BY <1>1, <1>2 DEF WarpInv, SameWarp, TodoInv
<1>4. PlaceInv(v)'
  BY <1>1, <1>2 DEF WarpInv, SameWarp, PlaceInv, Active
<1>5. ShapeInv(v)'
  <2>1. NextRows(v)' = NextRows(v)
    BY <1>2 DEF SameWarp, NextRows
  <2>2. Shapes(v)' = Shapes(v)
    BY <2>1 DEF SameWarp, Shapes
  <2> QED
    BY <2>2 DEF WarpInv, SameWarp, ShapeInv
<1>6. SameStretch(v)
  <2>1. BarOf(v)' = BarOf(v)
    BY <1>1, <1>2 DEF SameWarp, BarOf
  <2>2. LeftOf(v)' = LeftOf(v)
    BY <1>1, <1>2 DEF SameWarp, LeftOf
  <2>3. RowOf(v)' = RowOf(v)
    BY DEF SameWarp, RowOf
  <2> QED
    BY <2>1, <2>2, <2>3 DEF SameStretch
<1> QED
  BY <1>3, <1>4, <1>5, <1>6 DEF WarpInv

\* A step of warp w that is no barrier.
LEMMA LocalStep ==
    ASSUME IInv, NEW w \in Warps, pc[w] \notin DOMAIN After,
           UNCHANGED <<launch, waiting>>,
           \A v \in Warps \ {w} : SameWarp(v),
           StateOK', WarpInv(w)', SameStretch(w)
    PROVE  IInv'
<1>1. \A v \in Warps : WarpInv(v)
  BY DEF IInv, WarpInv
<1>2. \A v \in Warps \ {w} : WarpInv(v)' /\ SameStretch(v)
  BY <1>1, OthersKept
<1>3. Synced'
  <2>1. \A v \in Warps : SameStretch(v)
    BY <1>2
  <2>2. \A u, v \in Warps : /\ BarOf(u) = BarOf(v) /\ LeftOf(u) = LeftOf(v)
                            /\ RowOf(u) = RowOf(v)
    BY DEF IInv, Synced
  <2> QED
    BY <2>1, <2>2 DEF Synced, SameStretch
<1>4. BarrierInv'
  <2>1. w \notin waiting /\ BarrierInv
    BY DEF IInv, BarrierInv
  <2>2. waiting \subseteq Warps
    BY DEF IInv, StateOK, TypeOK
  <2>3. \A v \in waiting : pc'[v] = pc[v] /\ pend'[v] = pend[v]
    BY <2>1, <2>2 DEF SameWarp
  <2> QED
    BY <2>1, <2>3 DEF BarrierInv
<1> QED
  BY <1>2, <1>3, <1>4 DEF IInv, WarpInv

\* The initial state satisfies the invariant.
LEMMA InitHolds == Init => IInv
<1> SUFFICES ASSUME Init PROVE IInv
  OBVIOUS
<1>1. /\ \E a \in Args : params = BwdParams(a)
      /\ cta \in 0 .. params.grid - 1 /\ IsBwdParams(params)
  BY BwdPipelineAssumption, BwdParamsType DEF Init
<1>2. CB \in Seq(Blocks) /\ Len(CB) \in Nat
  <2>1. CB \in Seq(Blocks)
    BY <1>1, ColumnBlocksType DEF CB, Blocks
  <2> QED
    BY <2>1, LenProperties
<1>3. \A w \in Warps : todo[w] = CB /\ pc[w] = "start" /\ pend[w] = {}
  BY DEF Init, CB
<1>4. TypeOK
  <2>1. "start" \in PCs
    BY DEF PCs
  <2>2. todo \in [Warps -> Seq(Blocks)]
    <3>1. todo = [w \in Warps |-> CB]
      BY DEF Init, CB
    <3> QED
      BY <1>2, <3>1
  <2>3. \A w \in Warps : \A e, f \in pend[w] : e # f => e.cells \cap f.cells = {}
    BY <1>3
  <2>4. /\ pc \in [Warps -> PCs] /\ waiting \in SUBSET Warps
        /\ m_block \in [Warps -> Int] /\ good \in [Warps -> BOOLEAN]
    BY <2>1 DEF Init
  <2>5. acc \in [Warps -> Seq(Int)]
    <3>1. <<>> \in Seq(Int)
      BY EmptySeq
    <3> QED
      BY <3>1 DEF Init
  <2> QED
    BY <2>2, <2>3, <2>4, <2>5 DEF TypeOK
<1>5. StateOK
  BY <1>1, <1>4 DEF StateOK, Init
<1>6. ASSUME NEW w \in Warps
      PROVE  TodoInv(w) /\ PlaceInv(w) /\ ShapeInv(w)
  <2>1. Pos(w) = 1
    BY <1>2, <1>3 DEF Pos
  <2>2. TodoInv(w)
    BY <1>2, <1>3, <2>1 DEF TodoInv
  <2>3. PlaceInv(w)
    BY <1>3 DEF PlaceInv, Prologue, InLoop, Epilogue
  <2> QED
    BY <1>3, <2>2, <2>3 DEF ShapeInv
<1>7. Synced
  <2>1. ASSUME NEW w \in Warps, NEW v \in Warps
        PROVE  BarOf(w) = BarOf(v) /\ LeftOf(w) = LeftOf(v) /\ RowOf(w) = RowOf(v)
    <3>1. BarOf(w) = BarOf(v)
      BY <1>3 DEF BarOf, Outside, After
    <3>2. Pos(w) = Pos(v)
      BY <1>3 DEF Pos
    <3>3. LeftOf(w) = LeftOf(v)
      BY <1>3, <3>2 DEF LeftOf
    <3>4. RowOf(w) = RowOf(v)
      BY <1>3 DEF RowOf, Outside
    <3> QED
      BY <3>1, <3>3, <3>4
  <2> QED
    BY <2>1 DEF Synced
<1>8. BarrierInv
  BY BwdPipelineAssumption DEF Init, BarrierInv
<1> QED
  BY <1>5, <1>6, <1>7, <1>8 DEF IInv

\* A step between barriers keeps the types if what it issues lies in cells of
\* its own.
LEMMA TypesKept ==
    ASSUME IInv, NEW w \in Warps, UNCHANGED launch, waiting' = waiting,
           NEW l \in PCs, pc' = [pc EXCEPT ![w] = l],
           todo' \in [Warps -> Seq(Blocks)], m_block' \in [Warps -> Int],
           acc' \in [Warps -> Seq(Int)], good' \in [Warps -> BOOLEAN],
           NEW accesses, pend' = [pend EXCEPT ![w] = accesses],
           \A e, f \in accesses : e # f => e.cells \cap f.cells = {}
    PROVE  StateOK'
<1>1. StateOK /\ TypeOK
  BY DEF IInv, StateOK
<1>2. params' = params /\ cta' = cta /\ Blocks' = Blocks
  BY SameList
<1>3. pc' \in [Warps -> PCs] /\ waiting' \in SUBSET Warps
  BY <1>1 DEF TypeOK
<1>4. DOMAIN pend' = Warps
  BY <1>1 DEF StateOK
<1>5. ASSUME NEW v \in Warps, NEW e \in pend'[v], NEW f \in pend'[v], e # f
      PROVE  e.cells \cap f.cells = {}
  <2>1. CASE v = w
    <3>1. pend'[w] = accesses
      BY <1>1 DEF StateOK
    <3> QED
      BY <1>5, <2>1, <3>1
  <2>2. CASE v # w
    <3>1. pend'[v] = pend[v]
      BY <1>1, <2>2 DEF StateOK
    <3> QED
      BY <1>1, <1>5, <3>1 DEF TypeOK
  <2> QED
    BY <2>1, <2>2
<1>6. TypeOK'
  BY <1>2, <1>3, <1>5 DEF TypeOK
<1>7. (\E a \in Args : params = BwdParams(a))' /\ (cta \in 0 .. params.grid - 1)'
  BY <1>1, <1>2 DEF StateOK
<1> QED
  BY <1>4, <1>6, <1>7 DEF StateOK

\* A statement between two barriers.
LEMMA BetweenHolds ==
    ASSUME IInv, NEW w \in Warps, NEW l \in DOMAIN Upto, NEW accesses,
           NEW right \in BOOLEAN, Between(w, l, accesses, right, Upto[l]),
           \A e, f \in accesses : e # f => e.cells \cap f.cells = {},
           (\A e \in accesses : <<e.kind, e.cells>> \in Shapes(w)')
    PROVE  IInv'
<1>1. /\ StateOK /\ TodoInv(w) /\ PlaceInv(w) /\ pc[w] = l
      /\ pend[w] = {}
  <2>1. pc[w] = l
    BY DEF Between
  <2> QED
    BY <2>1, WarpParts DEF Upto
<1>2. /\ pc' = [pc EXCEPT ![w] = Upto[l]]
      /\ pend' = [pend EXCEPT ![w] = accesses]
      /\ good' = [good EXCEPT ![w] = @ /\ right]
      /\ UNCHANGED <<launch, waiting, smem, todo, m_block, acc, gdKV>>
  <2>1. pend[w] \cup accesses = accesses
    BY <1>1
  <2> QED
    BY <2>1 DEF Between, Goto, Issue
<1>3. Upto[l] \in DOMAIN After /\ Upto[l] \in PCs /\ l \notin DOMAIN After
  BY DEF Upto, After, PCs
<1>4. StateOK'
  <2>1. /\ todo' \in [Warps -> Seq(Blocks)] /\ m_block' \in [Warps -> Int]
        /\ acc' \in [Warps -> Seq(Int)]
    BY <1>1, <1>2 DEF StateOK, TypeOK
  <2>2. good' \in [Warps -> BOOLEAN]
    <3>1. good \in [Warps -> BOOLEAN]
      BY <1>1 DEF StateOK, TypeOK
    <3>2. (good[w] /\ right) \in BOOLEAN
      OBVIOUS
    <3> QED
      BY <1>2, <3>1, <3>2
  <2> QED
    BY <1>2, <1>3, <2>1, <2>2, TypesKept
<1>5. \A v \in Warps \ {w} : SameWarp(v)
  BY <1>1, <1>2 DEF SameWarp, StateOK, TypeOK
<1>6. /\ pc'[w] = Upto[l] /\ todo'[w] = todo[w] /\ m_block'[w] = m_block[w]
      /\ pend'[w] = accesses
  BY <1>1, <1>2 DEF StateOK, TypeOK
<1>7. /\ params' = params /\ CB' = CB /\ \A j : Left(j)' = Left(j)
      /\ \A n : Active(n)' = Active(n)
  BY <1>2, SameList
<1>8. /\ Pos(w)' = Pos(w) /\ n_block(w)' = n_block(w)
      /\ mmin(w)' = mmin(w) /\ mmax(w)' = mmax(w)
  BY <1>6, <1>7 DEF Pos, n_block, mmin, mmax
<1>9. TodoInv(w)'
  BY <1>1, <1>6, <1>7, <1>8 DEF TodoInv
<1>10. PlaceInv(w)'
  <2>1. l \in InBlock
    BY DEF Upto, InBlock, Prologue, InLoop, Epilogue
  <2>2. /\ todo[w] # <<>> /\ Active(n_block(w)) /\ m_block[w] \in Int
        /\ mmin(w) \in Nat /\ mmax(w) \in Int /\ mmin(w) <= mmax(w) - 1
    BY <1>1, <2>1, BlockOf, WarpParts
  <2>3. /\ l \in {"sts_kv", "read_kv", "sts_kt", "read_kt", "load"} =>
               m_block[w] = mmax(w) - 1
        /\ l \in {"sts_q", "gemm_s", "gemm_dp", "gemm_dv"} =>
               mmin(w) <= m_block[w] /\ m_block[w] <= mmax(w) - 1
        /\ l = "sts_dkv" => m_block[w] = mmin(w) - 1
    BY <1>1 DEF PlaceInv, Prologue, InLoop, Epilogue
  <2>4. /\ Upto[l] \in Prologue => l \in {"sts_kv", "read_kv", "sts_kt", "read_kt"}
        /\ Upto[l] \in InLoop =>
               l \in {"load", "sts_q", "gemm_s", "gemm_dp", "gemm_dv"}
        /\ Upto[l] \in Epilogue => l = "sts_dkv"
        /\ Upto[l] \notin {"done", "sync_first"}
    BY DEF Upto, Prologue, InLoop, Epilogue
  <2>5. m_block[w] = mmax(w) - 1 =>
            mmin(w) <= m_block[w] /\ m_block[w] <= mmax(w) - 1
    BY <2>2
  <2> QED
    BY <1>6, <1>7, <1>8, <2>2, <2>3, <2>4, <2>5 DEF PlaceInv
<1>11. ShapeInv(w)'
  BY <1>6 DEF ShapeInv
<1>12. SameStretch(w)
  <2>1. BarOf(w)' = Upto[l] /\ BarOf(w) = Upto[l]
    BY <1>1, <1>3, <1>6 DEF BarOf, Upto, Outside
  <2>2. LeftOf(w)' = LeftOf(w)
    <3>1. l # "read_dkv" /\ Upto[l] # "read_dkv"
      BY <1>3 DEF Upto, After
    <3> QED
      BY <1>1, <1>6, <1>7, <1>8, <3>1 DEF LeftOf
  <2>3. RowOf(w)' = RowOf(w)
    <3>1. /\ l # "gemm_dk" /\ Upto[l] # "gemm_dk"
          /\ l \in Outside \cup (Prologue \ {"load"})
             <=> Upto[l] \in Outside \cup (Prologue \ {"load"})
      BY DEF Upto, Outside, Prologue
    <3> QED
      BY <1>1, <1>6, <3>1 DEF RowOf
  <2> QED
    BY <2>1, <2>2, <2>3 DEF SameStretch
<1> QED
  BY <1>1, <1>2, <1>3, <1>4, <1>5, <1>9, <1>10, <1>11, <1>12, LocalStep DEF WarpInv

\* The accesses of a statement lie in different cells.
LEMMA CellsDisjoint ==
    sK \cap sV = {} /\ sQ \cap {"dO", "dOt"} = {} /\ sQ \subseteq sK
  BY DEF sK, sV, sQ

\* The kind and the cells of an access.
LEMMA AccessFields ==
    ASSUME NEW cells, NEW content
    PROVE  /\ Store(cells, content).kind = "store"
           /\ Store(cells, content).cells = cells
           /\ Store(cells, content).content = content
           /\ Copy(cells, content).kind = "copy"
           /\ Copy(cells, content).cells = cells
           /\ Copy(cells, content).content = content
  BY DEF Store, Copy

\* The same tile has the same rows to copy next.
LEMMA SameNextRows ==
    ASSUME NEW w \in Warps, UNCHANGED <<launch, todo, m_block>>
    PROVE  NextRows(w)' = NextRows(w) /\ n_block(w)' = n_block(w)
<1>1. params' = params
  BY DEF launch
<1> QED
  BY <1>1 DEF NextRows, mmin, n_block

\* The prologue of a column block.
LEMMA PrologueHolds ==
    ASSUME IInv, NEW w \in Warps,
           StoreKV(w) \/ ReadKV(w) \/ StoreKt(w) \/ ReadKt(w) \/ Load(w)
    PROVE  IInv'
<1>1. /\ "sts_kv" \in DOMAIN Upto /\ Upto["sts_kv"] = "sync_kv"
      /\ "read_kv" \in DOMAIN Upto /\ Upto["read_kv"] = "sync_read"
      /\ "sts_kt" \in DOMAIN Upto /\ Upto["sts_kt"] = "sync_kt"
      /\ "read_kt" \in DOMAIN Upto /\ Upto["read_kt"] = "sync_pre"
      /\ "load" \in DOMAIN Upto /\ Upto["load"] = "barrier"
  BY DEF Upto
<1>2. \A l \in PCs : pc' = [pc EXCEPT ![w] = l] => pc'[w] = l
  BY DEF IInv, StateOK, TypeOK
<1>3. CASE StoreKV(w)
  <2> DEFINE S == {Store(sK, K(w)), Store(sV, V(w))}
             right == TRUE
  <2>1. Between(w, "sts_kv", S, right, "sync_kv")
    BY <1>3 DEF StoreKV
  <2>2. Shapes(w)' = {<<"store", sK>>, <<"store", sV>>}
    <3>1. pc'[w] = "sync_kv"
      BY <1>2, <2>1 DEF Between, Goto, PCs, After
    <3> QED
      BY <3>1 DEF Shapes
  <2>3. /\ \A e, f \in S : e # f => e.cells \cap f.cells = {}
        /\ \A e \in S : <<e.kind, e.cells>> \in Shapes(w)'
    BY <2>2, AccessFields, CellsDisjoint
  <2>4. right \in BOOLEAN
    OBVIOUS
  <2> HIDE DEF S, right
  <2> QED
    BY <1>1, <2>1, <2>3, <2>4, BetweenHolds
<1>4. CASE ReadKV(w)
  <2> DEFINE right == Complete(sK, K(w)) /\ Complete(sV, V(w))
  <2>1. Between(w, "read_kv", {}, right, "sync_read")
    BY <1>4 DEF ReadKV
  <2>2. right \in BOOLEAN
    OBVIOUS
  <2> HIDE DEF right
  <2> QED
    BY <1>1, <2>1, <2>2, BetweenHolds
<1>5. CASE StoreKt(w)
  <2> DEFINE S == {Store(sK, Kt(w))}
             right == TRUE
  <2>1. Between(w, "sts_kt", S, right, "sync_kt")
    BY <1>5 DEF StoreKt
  <2>2. Shapes(w)' = {<<"store", sK>>}
    <3>1. pc'[w] = "sync_kt"
      BY <1>2, <2>1 DEF Between, Goto, PCs, After
    <3> QED
      BY <3>1 DEF Shapes
  <2>3. /\ \A e, f \in S : e # f => e.cells \cap f.cells = {}
        /\ \A e \in S : <<e.kind, e.cells>> \in Shapes(w)'
    BY <2>2, AccessFields
  <2>4. right \in BOOLEAN
    OBVIOUS
  <2> HIDE DEF S, right
  <2> QED
    BY <1>1, <2>1, <2>3, <2>4, BetweenHolds
<1>6. CASE ReadKt(w)
  <2>1. Between(w, "read_kt", {}, Complete(sK, Kt(w)), "sync_pre")
    BY <1>6 DEF ReadKt
  <2>2. Complete(sK, Kt(w)) \in BOOLEAN
    BY DEF Complete
  <2> QED
    BY <1>1, <2>1, <2>2, BetweenHolds
<1>7. CASE Load(w)
  <2> DEFINE S == {Copy({"Qt"}, Q(m_block[w])), Copy({"dOt"}, dO(m_block[w]))}
             right == TRUE
  <2>1. Between(w, "load", S, right, "barrier")
    BY <1>7 DEF Load
  <2>2. Shapes(w)' = {<<"copy", {"Qt"}>>, <<"copy", {"dOt"}>>}
    <3>1. pc'[w] = "barrier"
      BY <1>2, <2>1 DEF Between, Goto, PCs, After
    <3> QED
      BY <3>1 DEF Shapes
  <2>3. /\ \A e, f \in S : e # f => e.cells \cap f.cells = {}
        /\ \A e \in S : <<e.kind, e.cells>> \in Shapes(w)'
    BY <2>2, AccessFields
  <2>4. right \in BOOLEAN
    OBVIOUS
  <2> HIDE DEF S, right
  <2> QED
    BY <1>1, <2>1, <2>3, <2>4, BetweenHolds
<1> QED
  BY <1>3, <1>4, <1>5, <1>6, <1>7

\* The loop but for its last statement, and the store of dK and dV.
LEMMA LoopHolds ==
    ASSUME IInv, NEW w \in Warps,
           StoreQ(w) \/ GemmS(w) \/ GemmDP(w) \/ GemmDV(w) \/ StoreDKV(w)
    PROVE  IInv'
<1>1. /\ "sts_q" \in DOMAIN Upto /\ Upto["sts_q"] = "sync_q"
      /\ "gemm_s" \in DOMAIN Upto /\ Upto["gemm_s"] = "sync_do"
      /\ "gemm_dp" \in DOMAIN Upto /\ Upto["gemm_dp"] = "sync_ds"
      /\ "gemm_dv" \in DOMAIN Upto /\ Upto["gemm_dv"] = "sync_p"
      /\ "sts_dkv" \in DOMAIN Upto /\ Upto["sts_dkv"] = "sync_dkv"
  BY DEF Upto
<1>2. \A l \in PCs : pc' = [pc EXCEPT ![w] = l] => pc'[w] = l
  BY DEF IInv, StateOK, TypeOK
<1>3. CASE StoreQ(w)
  <2> DEFINE S == {Store(sQ, Q(m_block[w]))}
  <2>1. Between(w, "sts_q", S, Own(w, "Qt", Q(m_block[w])), "sync_q")
    BY <1>3 DEF StoreQ
  <2>2. Shapes(w)' = {<<"store", sQ>>}
    <3>1. pc'[w] = "sync_q"
      BY <1>2, <2>1 DEF Between, Goto, PCs, After
    <3> QED
      BY <3>1 DEF Shapes
  <2>3. /\ \A e, f \in S : e # f => e.cells \cap f.cells = {}
        /\ \A e \in S : <<e.kind, e.cells>> \in Shapes(w)'
    BY <2>2, AccessFields
  <2>4. Own(w, "Qt", Q(m_block[w])) \in BOOLEAN
    BY DEF Own
  <2> HIDE DEF S
  <2> QED
    BY <1>1, <2>1, <2>3, <2>4, BetweenHolds
<1>4. CASE GemmS(w)
  <2> DEFINE S == {Store({"dO"}, dO(m_block[w]))}
             right == Complete(sQ, Q(m_block[w])) /\ Own(w, "dOt", dO(m_block[w]))
  <2>1. Between(w, "gemm_s", S, right, "sync_do")
    BY <1>4 DEF GemmS
  <2>2. Shapes(w)' = {<<"store", {"dO"}>>}
    <3>1. pc'[w] = "sync_do"
      BY <1>2, <2>1 DEF Between, Goto, PCs, After
    <3> QED
      BY <3>1 DEF Shapes
  <2>3. /\ \A e, f \in S : e # f => e.cells \cap f.cells = {}
        /\ \A e \in S : <<e.kind, e.cells>> \in Shapes(w)'
    BY <2>2, AccessFields
  <2>4. right \in BOOLEAN
    OBVIOUS
  <2> HIDE DEF S, right
  <2> QED
    BY <1>1, <2>1, <2>3, <2>4, BetweenHolds
<1>5. CASE GemmDP(w)
  <2> DEFINE S == {Store({"P"}, Made(w, "P")), Store({"dS"}, Made(w, "dS"))}
             right == Complete({"dO", "dOt"}, dO(m_block[w]))
  <2>1. Between(w, "gemm_dp", S, right, "sync_ds")
    BY <1>5 DEF GemmDP
  <2>2. Shapes(w)' = {<<"store", {"P"}>>, <<"store", {"dS"}>>}
    <3>1. pc'[w] = "sync_ds"
      BY <1>2, <2>1 DEF Between, Goto, PCs, After
    <3> QED
      BY <3>1 DEF Shapes
  <2>3. /\ \A e, f \in S : e # f => e.cells \cap f.cells = {}
        /\ \A e \in S : <<e.kind, e.cells>> \in Shapes(w)'
    BY <2>2, AccessFields
  <2>4. right \in BOOLEAN
    BY DEF Complete
  <2> HIDE DEF S, right
  <2> QED
    BY <1>1, <2>1, <2>3, <2>4, BetweenHolds
<1>6. CASE GemmDV(w)
  <2> DEFINE C == {Copy({"dOt"}, dO(m)) : m \in NextRows(w)}
             S == {Store({"dO"}, Made(w, "dS"))} \cup C
             right == /\ Complete({"Qt"}, Q(m_block[w]))
                      /\ Complete({"P"}, P(w))
  <2>1. Between(w, "gemm_dv", S, right, "sync_p")
    BY <1>6 DEF GemmDV
  <2>2. Shapes(w)' = {<<"store", {"dO"}>>}
                     \cup {<<"copy", {"dOt"}>> : m \in NextRows(w)}
    <3>1. pc'[w] = "sync_p"
      BY <1>2, <2>1 DEF Between, Goto, PCs, After
    <3>2. NextRows(w)' = NextRows(w)
      BY <2>1, SameNextRows DEF Between
    <3> QED
      BY <3>1, <3>2 DEF Shapes
  <2>3. \A e \in C : \E m \in NextRows(w) : e = Copy({"dOt"}, dO(m))
    OBVIOUS
  <2>4. \A m, k \in NextRows(w) : m = k
    BY DEF NextRows
  <2>5. /\ \A e, f \in S : e # f => e.cells \cap f.cells = {}
        /\ \A e \in S : <<e.kind, e.cells>> \in Shapes(w)'
    <3> HIDE DEF C
    <3>1. \A e \in C : e.kind = "copy" /\ e.cells = {"dOt"} /\ NextRows(w) # {}
      BY <2>3, AccessFields
    <3>2. \A e, f \in C : e = f
      BY <2>3, <2>4
    <3>3. /\ Store({"dO"}, Made(w, "dS")).kind = "store"
          /\ Store({"dO"}, Made(w, "dS")).cells = {"dO"}
      BY AccessFields
    <3>4. \A e, f \in S : e # f => e.cells \cap f.cells = {}
      BY <3>1, <3>2, <3>3
    <3>5. \A e \in S : <<e.kind, e.cells>> \in Shapes(w)'
      BY <2>2, <3>1, <3>3
    <3> QED
      BY <3>4, <3>5
  <2>6. right \in BOOLEAN
    OBVIOUS
  <2> HIDE DEF S, right
  <2> QED
    BY <1>1, <2>1, <2>5, <2>6, BetweenHolds
<1>7. CASE StoreDKV(w)
  <2> DEFINE S == {Store(sK \cup sV, Holds("dKV", acc[w]))}
             right == TRUE
  <2>1. Between(w, "sts_dkv", S, right, "sync_dkv")
    BY <1>7 DEF StoreDKV
  <2>2. Shapes(w)' = {<<"store", sK \cup sV>>}
    <3>1. pc'[w] = "sync_dkv"
      BY <1>2, <2>1 DEF Between, Goto, PCs, After
    <3> QED
      BY <3>1 DEF Shapes
  <2>3. /\ \A e, f \in S : e # f => e.cells \cap f.cells = {}
        /\ \A e \in S : <<e.kind, e.cells>> \in Shapes(w)'
    BY <2>2, AccessFields
  <2>4. right \in BOOLEAN
    OBVIOUS
  <2> HIDE DEF S, right
  <2> QED
    BY <1>1, <2>1, <2>3, <2>4, BetweenHolds
<1> QED
  BY <1>3, <1>4, <1>5, <1>6, <1>7

-----------------------------------------------------------------------------
(* From one column block to the next *)

\* A step that issues nothing keeps the types.
LEMMA TypesSame ==
    ASSUME IInv, UNCHANGED launch, waiting' = waiting, pend' = pend,
           pc' \in [Warps -> PCs],
           todo' \in [Warps -> Seq(Blocks)], m_block' \in [Warps -> Int],
           acc' \in [Warps -> Seq(Int)], good' \in [Warps -> BOOLEAN]
    PROVE  StateOK'
<1>1. StateOK /\ TypeOK
  BY DEF IInv, StateOK
<1>2. params' = params /\ cta' = cta /\ Blocks' = Blocks
  BY SameList
<1>3. TypeOK'
  BY <1>1, <1>2 DEF TypeOK
<1>4. (\E a \in Args : params = BwdParams(a))' /\ (cta \in 0 .. params.grid - 1)'
  BY <1>1, <1>2 DEF StateOK
<1> QED
  BY <1>1, <1>3, <1>4 DEF StateOK

\* A warp goes on to the next block of its list.
LEMMA NextTodo ==
    ASSUME StateOK, NEW w \in Warps, TodoInv(w), todo[w] # <<>>,
           UNCHANGED launch, todo' = [todo EXCEPT ![w] = Tail(@)]
    PROVE  /\ todo' \in [Warps -> Seq(Blocks)]
           /\ \A v \in Warps \ {w} : todo'[v] = todo[v]
           /\ Pos(w)' = Pos(w) + 1 /\ TodoInv(w)'
<1>1. todo \in [Warps -> Seq(Blocks)] /\ todo[w] \in Seq(Blocks)
  BY DEF StateOK, TypeOK
<1>2. /\ Tail(todo[w]) \in Seq(Blocks) /\ Len(Tail(todo[w])) = Len(todo[w]) - 1
      /\ Len(todo[w]) \in Nat \ {0}
      /\ \A i \in 1 .. Len(todo[w]) - 1 : Tail(todo[w])[i] = todo[w][i + 1]
  BY <1>1, EmptySeq, HeadTailProperties
<1>3. /\ todo' \in [Warps -> Seq(Blocks)] /\ todo'[w] = Tail(todo[w])
      /\ \A v \in Warps \ {w} : todo'[v] = todo[v]
  BY <1>1, <1>2
<1>4. CB' = CB /\ Len(CB) \in Nat
  BY SameList, CallType
<1>5. Len(todo[w]) <= Len(CB) /\ Pos(w) \in Nat
  BY PosType DEF TodoInv
<1>6. Pos(w)' = Pos(w) + 1
  <2> DEFINE a == Len(todo[w])
             b == Len(CB)
  <2>1. Pos(w) = b - a + 1 /\ Pos(w)' = b - (a - 1) + 1 /\ a \in Nat /\ b \in Nat
    BY <1>2, <1>3, <1>4 DEF Pos
  <2> HIDE DEF a, b
  <2> QED
    BY <2>1
<1>7. TodoInv(w)'
  <2>1. Len(todo'[w]) <= Len(CB)
    <3> DEFINE a == Len(todo[w])
               b == Len(CB)
    <3>1. a - 1 <= b
      <4>1. a \in Nat /\ b \in Nat /\ a <= b
        BY <1>2, <1>4, <1>5
      <4> HIDE DEF a, b
      <4> QED
        BY <4>1
    <3> QED
      BY <1>2, <1>3, <3>1
  <2>2. ASSUME NEW i \in 1 .. Len(todo'[w])
        PROVE  todo'[w][i] = CB[Pos(w)' - 1 + i]
    <3>1. i \in 1 .. Len(todo[w]) - 1 /\ i + 1 \in 1 .. Len(todo[w]) /\ i \in Int
      BY <1>2, <1>3
    <3>2. todo'[w][i] = todo[w][i + 1] /\ todo[w][i + 1] = CB[Pos(w) - 1 + (i + 1)]
      BY <1>2, <1>3, <3>1 DEF TodoInv
    <3>3. Pos(w)' - 1 + i = Pos(w) - 1 + (i + 1)
      BY <1>5, <1>6, <3>1
    <3> QED
      BY <3>2, <3>3
  <2> QED
    BY <1>4, <2>1, <2>2 DEF TodoInv
<1> QED
  BY <1>3, <1>6, <1>7

\* A block without keys or rows is passed over.
LEMMA SkipHolds ==
    ASSUME IInv, NEW w \in Warps, Skip(w)
    PROVE  IInv'
<1>1. /\ StateOK /\ TodoInv(w) /\ pend[w] = {}
      /\ pc[w] = "start" /\ todo[w] # <<>> /\ ~Active(n_block(w))
  BY WarpParts DEF Skip, Active
<1>2. /\ UNCHANGED <<launch, pc, shared, m_block, acc, good>>
      /\ todo' = [todo EXCEPT ![w] = Tail(@)]
  BY DEF Skip
<1>3. /\ todo' \in [Warps -> Seq(Blocks)]
      /\ \A v \in Warps \ {w} : todo'[v] = todo[v]
      /\ Pos(w)' = Pos(w) + 1 /\ TodoInv(w)'
  BY <1>1, <1>2, NextTodo
<1>4. StateOK'
  BY <1>1, <1>2, <1>3, TypesSame DEF shared, StateOK, TypeOK
<1>5. PlaceInv(w)' /\ ShapeInv(w)'
  BY <1>1, <1>2 DEF shared, PlaceInv, ShapeInv, Prologue, InLoop, Epilogue
<1>6. SameStretch(w)
  <2>1. Pos(w) \in DOMAIN CB /\ n_block(w) = CB[Pos(w)]
    BY <1>1, PosType
  <2>2. Left(Pos(w) + 1) = Left(Pos(w))
    BY <1>1, <2>1, LeftSkip
  <2>3. First' = First /\ \A j : Left(j)' = Left(j)
    BY <1>2, SameList
  <2>4. LeftOf(w)' = LeftOf(w)
    <3>1. LeftOf(w) = Left(Pos(w))
      BY <1>1 DEF LeftOf
    <3>2. LeftOf(w)' = Left(Pos(w)')
      BY <1>1, <1>2, <2>3 DEF LeftOf
    <3> QED
      BY <1>3, <2>2, <3>1, <3>2
  <2>5. BarOf(w)' = BarOf(w)
    BY <1>1, <1>2, <2>3 DEF BarOf, Outside, After
  <2>6. RowOf(w)' = RowOf(w)
    BY <1>1, <1>2 DEF RowOf, Outside
  <2> QED
    BY <2>4, <2>5, <2>6 DEF SameStretch
<1>7. \A v \in Warps \ {w} : SameWarp(v)
  BY <1>2, <1>3 DEF SameWarp, shared
<1>8. pc[w] \notin DOMAIN After
  BY <1>1 DEF After
<1> QED
  BY <1>2, <1>3, <1>4, <1>5, <1>6, <1>7, <1>8, LocalStep DEF WarpInv, shared

\* A warp begins a block.
LEMMA EnterHolds ==
    ASSUME IInv, NEW w \in Warps, Enter(w)
    PROVE  IInv'
<1> DEFINE l == IF params.deterministic THEN "sync_first" ELSE "sts_kv"
<1>1. /\ StateOK /\ TodoInv(w) /\ pend[w] = {}
      /\ pc[w] = "start" /\ todo[w] # <<>> /\ Active(n_block(w))
  BY WarpParts DEF Enter, Active
<1>2. /\ UNCHANGED <<launch, shared, todo, gdKV>>
      /\ pc' = [pc EXCEPT ![w] = l]
      /\ m_block' = [m_block EXCEPT ![w] = mmax(w) - 1]
      /\ acc' = [acc EXCEPT ![w] = <<>>]
      /\ good' = [good EXCEPT ![w] = TRUE]
  BY DEF Enter, Goto, mmax
<1>3. n_block(w) \in Blocks /\ mmax(w) \in Int
  BY <1>1, PosType, RowBlocks DEF mmax
<1>4. l \in PCs /\ l \in Prologue \ {"load"}
  BY DEF PCs, After, Prologue
<1>5. StateOK'
  <2>1. pc' \in [Warps -> PCs] /\ todo' \in [Warps -> Seq(Blocks)]
    BY <1>1, <1>2, <1>4 DEF StateOK, TypeOK
  <2>2. m_block' \in [Warps -> Int]
    BY <1>1, <1>2, <1>3 DEF StateOK, TypeOK
  <2>3. acc' \in [Warps -> Seq(Int)]
    <3>1. <<>> \in Seq(Int)
      BY EmptySeq
    <3> QED
      BY <1>1, <1>2, <3>1 DEF StateOK, TypeOK
  <2>4. good' \in [Warps -> BOOLEAN]
    BY <1>1, <1>2 DEF StateOK, TypeOK
  <2> QED
    BY <1>2, <2>1, <2>2, <2>3, <2>4, TypesSame DEF shared
<1>6. pc'[w] = l /\ m_block'[w] = mmax(w) - 1 /\ todo'[w] = todo[w] /\ pend'[w] = {}
  BY <1>1, <1>2 DEF shared, StateOK, TypeOK
<1>7. /\ params' = params /\ CB' = CB /\ First' = First
      /\ \A j : Left(j)' = Left(j) /\ \A n : Active(n)' = Active(n)
  BY <1>2, SameList
<1>8. Pos(w)' = Pos(w) /\ n_block(w)' = n_block(w) /\ mmax(w)' = mmax(w)
  BY <1>6, <1>7 DEF Pos, n_block, mmax
<1>9. TodoInv(w)' /\ ShapeInv(w)'
  BY <1>1, <1>6, <1>7, <1>8 DEF TodoInv, ShapeInv
<1>10. PlaceInv(w)'
  BY <1>1, <1>6, <1>7, <1>8 DEF PlaceInv, Prologue, InLoop, Epilogue
<1>11. SameStretch(w)
  <2>1. BarOf(w) = First
    BY <1>1 DEF BarOf, Outside, After
  <2>2. BarOf(w)' = First
    BY <1>6, <1>7 DEF BarOf, First, Outside, After, Upto
  <2>3. LeftOf(w)' = LeftOf(w)
    BY <1>1, <1>6, <1>7, <1>8 DEF LeftOf
  <2>4. RowOf(w)' = RowOf(w)
    BY <1>1, <1>4, <1>6 DEF RowOf, Outside
  <2> QED
    BY <1>7, <2>1, <2>2, <2>3, <2>4 DEF SameStretch
<1>12. \A v \in Warps \ {w} : SameWarp(v)
  BY <1>1, <1>2 DEF SameWarp, shared, StateOK, TypeOK
<1>13. pc[w] \notin DOMAIN After
  BY <1>1 DEF After
<1> QED
  BY <1>2, <1>5, <1>9, <1>10, <1>11, <1>12, <1>13, LocalStep DEF WarpInv, shared

\* dK and dV of the block are stored.
LEMMA ReadDKVHolds ==
    ASSUME IInv, NEW w \in Warps, ReadDKV(w)
    PROVE  IInv'
<1>1. /\ StateOK /\ TodoInv(w) /\ PlaceInv(w) /\ pend[w] = {}
      /\ pc[w] = "read_dkv" /\ todo[w] # <<>>
  BY WarpParts DEF ReadDKV, PlaceInv, Epilogue
<1>2. /\ UNCHANGED <<launch, shared, m_block, acc, good>>
      /\ todo' = [todo EXCEPT ![w] = Tail(@)]
      /\ pc' = [pc EXCEPT ![w] = "start"]
  BY DEF ReadDKV, Goto
<1>3. /\ todo' \in [Warps -> Seq(Blocks)]
      /\ \A v \in Warps \ {w} : todo'[v] = todo[v]
      /\ Pos(w)' = Pos(w) + 1 /\ TodoInv(w)'
  BY <1>1, <1>2, NextTodo
<1>4. StateOK'
  <2>1. "start" \in PCs
    BY DEF PCs
  <2> QED
    BY <1>1, <1>2, <1>3, <2>1, TypesSame DEF shared, StateOK, TypeOK
<1>5. pc'[w] = "start" /\ pend'[w] = {}
  BY <1>1, <1>2 DEF shared, StateOK, TypeOK
<1>6. PlaceInv(w)' /\ ShapeInv(w)'
  BY <1>5 DEF PlaceInv, ShapeInv, Prologue, InLoop, Epilogue
<1>7. SameStretch(w)
  <2>1. First' = First /\ \A j : Left(j)' = Left(j)
    BY <1>2, SameList
  <2>2. LeftOf(w)' = LeftOf(w)
    BY <1>1, <1>3, <1>5, <2>1 DEF LeftOf
  <2>3. BarOf(w)' = BarOf(w)
    BY <1>1, <1>5, <2>1 DEF BarOf, Outside, After
  <2>4. RowOf(w)' = RowOf(w)
    BY <1>1, <1>5 DEF RowOf, Outside
  <2> QED
    BY <2>2, <2>3, <2>4 DEF SameStretch
<1>8. \A v \in Warps \ {w} : SameWarp(v)
  BY <1>1, <1>2, <1>3 DEF SameWarp, shared, StateOK, TypeOK
<1>9. pc[w] \notin DOMAIN After
  BY <1>1 DEF After
<1> QED
  BY <1>2, <1>3, <1>4, <1>6, <1>7, <1>8, <1>9, LocalStep DEF WarpInv, shared

\* The list is done.
LEMMA ExitHolds ==
    ASSUME IInv, NEW w \in Warps, Exit(w)
    PROVE  IInv'
<1>1. /\ StateOK /\ TodoInv(w) /\ pend[w] = {}
      /\ pc[w] = "start" /\ todo[w] = <<>>
  BY WarpParts DEF Exit
<1>2. /\ UNCHANGED <<launch, shared, todo, m_block, acc, good, gdKV>>
      /\ pc' = [pc EXCEPT ![w] = "done"]
  BY DEF Exit, Goto
<1>3. StateOK'
  <2>1. "done" \in PCs
    BY DEF PCs
  <2> QED
    BY <1>1, <1>2, <2>1, TypesSame DEF shared, StateOK, TypeOK
<1>4. pc'[w] = "done" /\ pend'[w] = {} /\ todo'[w] = todo[w]
  BY <1>1, <1>2 DEF shared, StateOK, TypeOK
<1>5. CB' = CB /\ First' = First /\ \A j : Left(j)' = Left(j)
  BY <1>2, SameList
<1>6. Pos(w)' = Pos(w)
  BY <1>4, <1>5 DEF Pos
<1>7. TodoInv(w)' /\ PlaceInv(w)' /\ ShapeInv(w)'
  BY <1>1, <1>4, <1>5, <1>6
     DEF TodoInv, PlaceInv, ShapeInv, Prologue, InLoop, Epilogue
<1>8. SameStretch(w)
  <2>1. LeftOf(w)' = LeftOf(w)
    BY <1>1, <1>4, <1>5, <1>6 DEF LeftOf
  <2>2. BarOf(w)' = BarOf(w)
    BY <1>1, <1>4, <1>5 DEF BarOf, Outside, After
  <2>3. RowOf(w)' = RowOf(w)
    BY <1>1, <1>4 DEF RowOf, Outside
  <2> QED
    BY <2>1, <2>2, <2>3 DEF SameStretch
<1>9. \A v \in Warps \ {w} : SameWarp(v)
  BY <1>1, <1>2 DEF SameWarp, shared, StateOK, TypeOK
<1>10. pc[w] \notin DOMAIN After
  BY <1>1 DEF After
<1> QED
  BY <1>2, <1>3, <1>7, <1>8, <1>9, <1>10, LocalStep DEF WarpInv, shared

\* The last statement of the loop: one row block down, or out of the loop.
LEMMA GemmDKHolds ==
    ASSUME IInv, NEW w \in Warps, GemmDK(w)
    PROVE  IInv'
<1> DEFINE C == {Copy({"Qt"}, Q(m)) : m \in NextRows(w)}
           right == good[w] /\ Complete({"dS", "dO"}, dS(w))
           l == IF NextRows(w) # {} THEN "barrier" ELSE "sync_loop"
<1>1. /\ StateOK /\ TodoInv(w) /\ PlaceInv(w) /\ ShapeInv(w)
      /\ pc[w] = "gemm_dk" /\ m_block[w] \in Int
  BY WarpParts DEF GemmDK
<1>2. /\ UNCHANGED <<launch, waiting, smem, todo, gdKV>>
      /\ pc' = [pc EXCEPT ![w] = l]
      /\ pend' = [pend EXCEPT ![w] = pend[w] \cup C]
      /\ m_block' = [m_block EXCEPT ![w] = m_block[w] - 1]
      /\ good' = [good EXCEPT ![w] = right]
      /\ acc' = [acc EXCEPT ![w] =
                    Append(acc[w], IF right THEN m_block[w] ELSE Wrong)]
  BY <1>1 DEF GemmDK, Goto, Issue, StateOK, TypeOK
<1>3. /\ todo[w] # <<>> /\ Active(n_block(w))
      /\ mmin(w) \in Nat /\ mmax(w) \in Int
      /\ mmin(w) <= m_block[w] /\ m_block[w] <= mmax(w) - 1
  <2>1. pc[w] \in InLoop /\ pc[w] \in InBlock
    BY <1>1 DEF InLoop, InBlock
  <2> QED
    BY <1>1, <2>1, BlockOf DEF PlaceInv
<1>4. NextRows(w) = IF m_block[w] > mmin(w) THEN {m_block[w] - 1} ELSE {}
  <2> DEFINE m == m_block[w]
             lo == mmin(w)
  <2>1. m \in Int /\ lo \in Nat /\ NextRows(w) = {m - 1} \cap (lo .. m)
    BY <1>1, <1>3 DEF NextRows
  <2> HIDE DEF m, lo
  <2>2. NextRows(w) = IF m > lo THEN {m - 1} ELSE {}
    BY <2>1
  <2> QED
    BY <2>2 DEF m, lo
<1>5. \A e \in C : e.kind = "copy" /\ e.cells = {"Qt"} /\ NextRows(w) # {}
  BY AccessFields
<1>6. \A e, f \in C : e = f
  BY <1>4
<1>7. /\ \A e \in pend[w] : /\ e.kind = "copy" /\ e.cells = {"dOt"}
                            /\ NextRows(w) # {}
      /\ \A e, f \in pend[w] : e # f => e.cells \cap f.cells = {}
  <2>1. Shapes(w) = {<<"copy", {"dOt"}>> : m \in NextRows(w)}
    BY <1>1 DEF Shapes
  <2> QED
    BY <1>1, <2>1 DEF ShapeInv, StateOK, TypeOK
<1> HIDE DEF C
<1>8. \A e, f \in pend[w] \cup C : e # f => e.cells \cap f.cells = {}
  BY <1>5, <1>6, <1>7
<1>9. StateOK'
  <2>1. l \in PCs
    BY DEF PCs, After
  <2>2. /\ todo' \in [Warps -> Seq(Blocks)] /\ m_block' \in [Warps -> Int]
    BY <1>1, <1>2 DEF StateOK, TypeOK
  <2>3. acc' \in [Warps -> Seq(Int)]
    <3>1. acc \in [Warps -> Seq(Int)]
      BY <1>1 DEF StateOK, TypeOK
    <3>2. (IF right THEN m_block[w] ELSE Wrong) \in Int
      BY <1>1 DEF Wrong
    <3> DEFINE x == IF right THEN m_block[w] ELSE Wrong
    <3> HIDE DEF x, right
    <3>3. Append(acc[w], x) \in Seq(Int)
      BY <3>1, <3>2, AppendProperties DEF x
    <3> QED
      BY <1>2, <3>1, <3>3 DEF x
  <2>4. good' \in [Warps -> BOOLEAN]
    <3>1. right \in BOOLEAN
      OBVIOUS
    <3> HIDE DEF right
    <3> QED
      BY <1>1, <1>2, <3>1 DEF StateOK, TypeOK
  <2> HIDE DEF l
  <2> QED
    BY <1>2, <1>8, <2>1, <2>2, <2>3, <2>4, TypesKept
<1> HIDE DEF right
<1>10. /\ pc'[w] = l /\ m_block'[w] = m_block[w] - 1 /\ todo'[w] = todo[w]
       /\ pend'[w] = pend[w] \cup C
  BY <1>1, <1>2 DEF StateOK, TypeOK
<1>11. /\ params' = params /\ CB' = CB
       /\ \A j : Left(j)' = Left(j) /\ \A n : Active(n)' = Active(n)
  BY <1>2, SameList
<1>12. /\ Pos(w)' = Pos(w) /\ n_block(w)' = n_block(w)
       /\ mmax(w)' = mmax(w) /\ mmin(w)' = mmin(w)
  BY <1>10, <1>11 DEF Pos, n_block, mmax, mmin
<1>13. TodoInv(w)'
  BY <1>1, <1>10, <1>11, <1>12 DEF TodoInv
<1>14. PlaceInv(w)'
  <2>1. l = "barrier" => /\ mmin(w) <= m_block[w] - 1
                         /\ m_block[w] - 1 <= mmax(w) - 1
    BY <1>1, <1>3, <1>4
  <2>2. l = "sync_loop" => m_block[w] - 1 = mmin(w) - 1
    BY <1>1, <1>3, <1>4
  <2>3. l \in {"barrier", "sync_loop"}
    OBVIOUS
  <2> HIDE DEF l
  <2> QED
    BY <1>3, <1>10, <1>11, <1>12, <2>1, <2>2, <2>3
       DEF PlaceInv, Prologue, InLoop, Epilogue
<1>15. ShapeInv(w)'
  <2>1. CASE NextRows(w) # {}
    <3>1. Shapes(w)' = {<<"copy", {"Qt"}>>, <<"copy", {"dOt"}>>}
      BY <1>10, <2>1 DEF Shapes
    <3> QED
      BY <1>5, <1>7, <1>10, <3>1 DEF ShapeInv
  <2>2. CASE NextRows(w) = {}
    <3>1. pend'[w] = {}
      BY <1>5, <1>7, <1>10, <2>2
    <3> QED
      BY <3>1 DEF ShapeInv
  <2> QED
    BY <2>1, <2>2
<1>16. SameStretch(w)
  <2>1. BarOf(w) = l
    BY <1>1, <1>4 DEF BarOf, Outside, After
  <2>2. BarOf(w)' = l
    BY <1>10 DEF BarOf, After
  <2>3. LeftOf(w)' = LeftOf(w)
    BY <1>1, <1>10, <1>11, <1>12 DEF LeftOf
  <2>4. RowOf(w)' = RowOf(w)
    BY <1>1, <1>10 DEF RowOf, Outside, Prologue
  <2> QED
    BY <2>1, <2>2, <2>3, <2>4 DEF SameStretch
<1>17. \A v \in Warps \ {w} : SameWarp(v)
  BY <1>1, <1>2 DEF SameWarp, StateOK, TypeOK
<1>18. pc[w] \notin DOMAIN After
  BY <1>1 DEF After
<1> QED
  BY <1>2, <1>9, <1>13, <1>14, <1>15, <1>16, <1>17, <1>18, LocalStep DEF WarpInv

-----------------------------------------------------------------------------
(* Accesses that land and barriers *)

\* An access lands.
LEMMA LandHolds ==
    ASSUME IInv, NEW w \in Warps, Land(w)
    PROVE  IInv'
<1> PICK e \in pend[w] : pend' = [pend EXCEPT ![w] = @ \ {e}]
  BY DEF Land
<1>1. UNCHANGED <<launch, pc, waiting, todo, m_block, acc, good, gdKV>>
  BY DEF Land
<1>2. StateOK /\ TypeOK /\ \A v \in Warps : WarpInv(v)
  BY DEF IInv, StateOK, WarpInv
<1>3. \A v \in Warps : pend'[v] \subseteq pend[v]
  BY <1>2 DEF StateOK
<1>4. StateOK'
  <2>1. \A x, y \in pend[w] \ {e} : x # y => x.cells \cap y.cells = {}
    BY <1>2 DEF TypeOK
  <2>2. pc' = [pc EXCEPT ![w] = pc[w]] /\ pc[w] \in PCs
    BY <1>1, <1>2 DEF TypeOK
  <2>3. /\ todo' \in [Warps -> Seq(Blocks)] /\ m_block' \in [Warps -> Int]
        /\ acc' \in [Warps -> Seq(Int)] /\ good' \in [Warps -> BOOLEAN]
    BY <1>1, <1>2 DEF TypeOK
  <2> QED
    BY <1>1, <2>1, <2>2, <2>3, TypesKept
<1>5. ASSUME NEW v \in Warps
      PROVE  WarpInv(v)' /\ SameStretch(v)
  <2>1. /\ params' = params /\ CB' = CB /\ First' = First
        /\ \A j : Left(j)' = Left(j) /\ \A n : Active(n)' = Active(n)
    BY <1>1, SameList
  <2>2. /\ Pos(v)' = Pos(v) /\ n_block(v)' = n_block(v)
        /\ mmin(v)' = mmin(v) /\ mmax(v)' = mmax(v)
    BY <1>1, <2>1 DEF Pos, n_block, mmin, mmax
  <2>3. TodoInv(v)' /\ PlaceInv(v)'
    BY <1>1, <1>2, <2>1, <2>2 DEF WarpInv, TodoInv, PlaceInv
  <2>4. ShapeInv(v)'
    <3>1. NextRows(v)' = NextRows(v)
      BY <1>1, <2>2 DEF NextRows
    <3>2. Shapes(v)' = Shapes(v)
      BY <1>1, <3>1 DEF Shapes
    <3> QED
      BY <1>2, <1>3, <3>2 DEF WarpInv, ShapeInv
  <2>5. BarOf(v)' = BarOf(v) /\ LeftOf(v)' = LeftOf(v) /\ RowOf(v)' = RowOf(v)
    BY <1>1, <2>1, <2>2 DEF BarOf, LeftOf, RowOf
  <2> QED
    BY <2>3, <2>4, <2>5 DEF WarpInv, SameStretch
<1>6. Synced'
  <2>1. \A u, v \in Warps : /\ BarOf(u) = BarOf(v) /\ LeftOf(u) = LeftOf(v)
                            /\ RowOf(u) = RowOf(v)
    BY DEF IInv, Synced
  <2> QED
    BY <1>5, <2>1 DEF Synced, SameStretch
<1>7. BarrierInv'
  <2>1. waiting \subseteq Warps
    BY <1>2 DEF TypeOK
  <2> QED
    BY <1>1, <1>3, <2>1 DEF IInv, BarrierInv
<1> QED
  BY <1>4, <1>5, <1>6, <1>7 DEF IInv, WarpInv

\* Where a barrier leads to is in the same part of the block.
LEMMA AfterPlace ==
    ASSUME NEW l \in DOMAIN After
    PROVE  /\ After[l] \in PCs /\ After[l] \notin DOMAIN After
           /\ l \in InBlock /\ After[l] \in InBlock
           /\ After[l] \in Prologue <=> l \in Prologue
           /\ After[l] \in InLoop <=> l \in InLoop
           /\ After[l] \in Epilogue <=> l \in Epilogue
           /\ After[l] \notin {"done", "sync_first"}
  BY DEF After, PCs, InBlock, Prologue, InLoop, Epilogue

\* A warp comes to a barrier, or all leave it.
LEMMA ArriveHolds ==
    ASSUME IInv, NEW w \in Warps, Arrive(w)
    PROVE  IInv'
<1>1. /\ UNCHANGED <<launch, todo, m_block, acc, good, pend, smem, gdKV>>
      /\ pc[w] \in DOMAIN After
      /\ \A e \in pend[w] : e.kind # Awaits(pc[w])
  BY DEF Arrive
<1>2. StateOK /\ TypeOK /\ \A v \in Warps : WarpInv(v)
  BY DEF IInv, StateOK, WarpInv
<1>3. /\ params' = params /\ cta' = cta /\ CB' = CB /\ First' = First
      /\ Blocks' = Blocks
      /\ \A j : Left(j)' = Left(j) /\ \A n : Active(n)' = Active(n)
  BY <1>1, SameList
<1>4. CASE waiting \cup {w} # Warps
  <2>1. waiting' = waiting \cup {w} /\ pc' = pc
    BY <1>4 DEF Arrive
  <2>2. StateOK'
    <3>1. TypeOK'
      BY <1>1, <1>2, <1>3, <2>1 DEF TypeOK
    <3> QED
      BY <1>1, <1>2, <1>3, <3>1 DEF StateOK
  <2>3. \A v \in Warps : WarpInv(v)' /\ SameStretch(v)
    <3>1. \A v \in Warps : SameWarp(v)
      BY <1>1, <2>1 DEF SameWarp
    <3> QED
      BY <1>1, <1>2, <3>1, OthersKept
  <2>4. Synced'
    <3>1. \A u, v \in Warps : /\ BarOf(u) = BarOf(v) /\ LeftOf(u) = LeftOf(v)
                              /\ RowOf(u) = RowOf(v)
      BY DEF IInv, Synced
    <3> QED
      BY <2>3, <3>1 DEF Synced, SameStretch
  <2>5. BarrierInv'
    BY <1>1, <1>4, <2>1 DEF IInv, BarrierInv
  <2> QED
    BY <2>2, <2>3, <2>4, <2>5 DEF IInv, WarpInv
<1>5. CASE waiting \cup {w} = Warps
  <2>1. waiting' = {} /\ pc' = [v \in Warps |-> After[pc[v]]]
    BY <1>5 DEF Arrive
  <2>2. \A v \in Warps : /\ pc[v] \in DOMAIN After
                         /\ \A e \in pend[v] : e.kind # Awaits(pc[v])
    BY <1>1, <1>5 DEF IInv, BarrierInv
  <2>3. \A v \in Warps : pc'[v] = After[pc[v]]
    BY <2>1
  <2>4. StateOK'
    <3>1. pc' \in [Warps -> PCs]
      BY <2>1, <2>2, AfterPlace
    <3>2. TypeOK'
      BY <1>1, <1>2, <1>3, <2>1, <3>1 DEF TypeOK
    <3> QED
      BY <1>1, <1>2, <1>3, <3>2 DEF StateOK
  <2>5. ASSUME NEW v \in Warps
        PROVE  WarpInv(v)'
    <3>1. /\ Pos(v)' = Pos(v) /\ n_block(v)' = n_block(v)
          /\ mmin(v)' = mmin(v) /\ mmax(v)' = mmax(v)
      BY <1>1, <1>3 DEF Pos, n_block, mmin, mmax
    <3>2. TodoInv(v)'
      BY <1>1, <1>2, <1>3, <3>1 DEF WarpInv, TodoInv
    <3>3. PlaceInv(v)'
      <4>1. /\ pc[v] \in DOMAIN After /\ pc'[v] = After[pc[v]]
            /\ pc[v] \in InBlock
        BY <2>2, <2>3, AfterPlace
      <4>2. /\ todo[v] # <<>> /\ Active(n_block(v))
            /\ pc[v] \in Prologue => m_block[v] = mmax(v) - 1
            /\ pc[v] \in InLoop =>
                   mmin(v) <= m_block[v] /\ m_block[v] <= mmax(v) - 1
            /\ pc[v] \in Epilogue => m_block[v] = mmin(v) - 1
        BY <1>2, <4>1 DEF WarpInv, PlaceInv, InBlock
      <4>3. /\ pc'[v] \in Prologue <=> pc[v] \in Prologue
            /\ pc'[v] \in InLoop <=> pc[v] \in InLoop
            /\ pc'[v] \in Epilogue <=> pc[v] \in Epilogue
            /\ pc'[v] \notin {"done", "sync_first"}
        BY <4>1, AfterPlace
      <4> QED
        BY <1>1, <1>3, <3>1, <4>2, <4>3 DEF PlaceInv
    <3>4. ShapeInv(v)'
      <4>1. NextRows(v)' = NextRows(v)
        BY <1>1, <3>1 DEF NextRows
      <4>2. ASSUME NEW e \in pend[v]
            PROVE  <<e.kind, e.cells>> \in Shapes(v)'
        <5>1. <<e.kind, e.cells>> \in Shapes(v) /\ e.kind # Awaits(pc[v])
          BY <1>2, <2>2 DEF WarpInv, ShapeInv
        <5>2. /\ pc[v] = "sync_p" /\ e.kind = "copy"
              /\ <<e.kind, e.cells>> \in {<<"copy", {"dOt"}>> : m \in NextRows(v)}
          BY <2>2, <5>1 DEF Shapes, Awaits, After
        <5>3. pc'[v] = "gemm_dk"
          BY <2>3, <5>2 DEF After
        <5>4. Shapes(v)' = {<<"copy", {"dOt"}>> : m \in NextRows(v)}
          BY <4>1, <5>3 DEF Shapes
        <5> QED
          BY <5>2, <5>4
      <4> QED
        BY <1>1, <4>2 DEF ShapeInv
    <3> QED
      BY <3>2, <3>3, <3>4 DEF WarpInv
  <2>6. Synced'
    <3>1. ASSUME NEW u \in Warps, NEW v \in Warps
          PROVE  /\ BarOf(u)' = BarOf(v)' /\ LeftOf(u)' = LeftOf(v)'
                 /\ RowOf(u)' = RowOf(v)'
      <4>1. /\ pc[u] = pc[v] /\ todo[u] = todo[v] /\ m_block[u] = m_block[v]
            /\ Pos(u) = Pos(v)
        BY <2>2, SamePlace
      <4>2. /\ pc'[u] = pc'[v] /\ todo'[u] = todo'[v] /\ m_block'[u] = m_block'[v]
        BY <1>1, <2>3, <4>1
      <4>3. /\ Pos(u)' = Pos(v)' /\ mmin(u)' = mmin(v)'
        BY <4>2 DEF Pos, mmin, n_block
      <4> QED
        BY <4>2, <4>3 DEF BarOf, LeftOf, RowOf
    <3> QED
      BY <3>1 DEF Synced
  <2>7. BarrierInv'
    BY <2>1, BwdPipelineAssumption DEF BarrierInv
  <2> QED
    BY <2>4, <2>5, <2>6, <2>7 DEF IInv, WarpInv
<1> QED
  BY <1>4, <1>5

\* A step of a warp keeps the invariant.
LEMMA RunHolds ==
    ASSUME IInv, NEW w \in Warps, Run(w)
    PROVE  IInv'
<1>1. CASE Skip(w)
  BY <1>1, SkipHolds
<1>2. CASE Enter(w)
  BY <1>2, EnterHolds
<1>3. CASE StoreKV(w) \/ ReadKV(w) \/ StoreKt(w) \/ ReadKt(w) \/ Load(w)
  BY <1>3, PrologueHolds
<1>4. CASE StoreQ(w) \/ GemmS(w) \/ GemmDP(w) \/ GemmDV(w) \/ StoreDKV(w)
  BY <1>4, LoopHolds
<1>5. CASE GemmDK(w)
  BY <1>5, GemmDKHolds
<1>6. CASE ReadDKV(w)
  BY <1>6, ReadDKVHolds
<1>7. CASE Exit(w)
  BY <1>7, ExitHolds
<1>8. CASE Arrive(w)
  BY <1>8, ArriveHolds
<1> QED
  BY <1>1, <1>2, <1>3, <1>4, <1>5, <1>6, <1>7, <1>8 DEF Run

\* A state that stutters keeps the invariant.
LEMMA StutterHolds ==
    ASSUME IInv, UNCHANGED vars
    PROVE  IInv'
<1>1. UNCHANGED <<params, cta, launch, pc, waiting, pend, smem, todo, m_block,
                  acc, good, gdKV>>
  BY DEF vars, launch, shared
<1>2. StateOK /\ TypeOK /\ \A v \in Warps : WarpInv(v)
  BY DEF IInv, StateOK, WarpInv
<1>3. \A v \in Warps : WarpInv(v)' /\ SameStretch(v)
  <2>1. \A v \in Warps : SameWarp(v)
    BY <1>1 DEF SameWarp
  <2> QED
    BY <1>1, <1>2, <2>1, OthersKept
<1>4. StateOK'
  BY <1>1, <1>2, TypesSame DEF TypeOK
<1>5. Synced'
  <2>1. \A u, v \in Warps : /\ BarOf(u) = BarOf(v) /\ LeftOf(u) = LeftOf(v)
                            /\ RowOf(u) = RowOf(v)
    BY DEF IInv, Synced
  <2> QED
    BY <1>3, <2>1 DEF Synced, SameStretch
<1>6. BarrierInv'
  BY <1>1 DEF IInv, BarrierInv
<1> QED
  BY <1>3, <1>4, <1>5, <1>6 DEF IInv, WarpInv

\* The inductive invariant of the barriers: all warps are in the same stretch
\* of code.
THEOREM Inductive == Spec => []IInv
<1>1. Init => IInv
  BY InitHolds
<1>2. IInv /\ [Next]_vars => IInv'
  <2> SUFFICES ASSUME IInv, [Next]_vars
               PROVE  IInv'
    OBVIOUS
  <2>1. CASE UNCHANGED vars
    BY <2>1, StutterHolds
  <2>2. ASSUME NEW w \in Warps, Run(w) PROVE IInv'
    BY <2>2, RunHolds
  <2>3. ASSUME NEW w \in Warps, Land(w) PROVE IInv'
    BY <2>3, LandHolds
  <2> QED
    BY <2>1, <2>2, <2>3 DEF Next
<1> QED
  BY <1>1, <1>2, PTL DEF Spec

\* Every reachable state is well typed, and no warp has two accesses to one
\* cell in flight.
THEOREM TypeCorrect == Spec => []TypeOK
<1>1. IInv => TypeOK
  BY DEF IInv, StateOK
<1> QED
  BY <1>1, Inductive, PTL

\* Warps that wait are joined at the same barrier of the same tile of the same
\* column block, for the balanced calls too.
THEOREM BarriersMatch == Spec => []SameBarrier
<1>1. IInv => SameBarrier
  <2> SUFFICES ASSUME IInv, NEW w \in waiting, NEW v \in Warps,
                      pc[v] \in DOMAIN After
               PROVE  pc[v] = pc[w] /\ todo[v] = todo[w] /\ m_block[v] = m_block[w]
    BY DEF SameBarrier
  <2>1. w \in Warps /\ pc[w] \in DOMAIN After
    BY DEF IInv, StateOK, TypeOK, BarrierInv
  <2> QED
    BY <2>1, SamePlace
<1> QED
  BY <1>1, Inductive, PTL

-----------------------------------------------------------------------------
(* The warps a reader shares its stretch with *)

\* Their statements, given the one of the reader.
LEMMA Companions ==
    ASSUME IInv, NEW w \in Warps, NEW v \in Warps
    PROVE  /\ pc[w] = "read_kv" => pc[v] \in {"read_kv", "sync_read"}
           /\ pc[w] = "read_kt" => pc[v] \in {"read_kt", "sync_pre"}
           /\ pc[w] = "gemm_s" => pc[v] \in {"gemm_s", "sync_do"}
           /\ pc[w] = "gemm_dp" => pc[v] \in {"gemm_dp", "sync_ds"}
           /\ pc[w] = "gemm_dv" => pc[v] \in {"gemm_dv", "sync_p"}
           /\ pc[w] = "gemm_dk" =>
                  IF m_block[w] > mmin(w)
                  THEN pc[v] \in {"gemm_dk", "barrier", "load"}
                  ELSE pc[v] \in {"gemm_dk", "sync_loop"}
           /\ pc[w] = "read_dkv" =>
                  IF params.deterministic THEN pc[v] \in Outside \cup {"sync_first"}
                  ELSE pc[v] \in Outside \cup {"sts_kv", "sync_kv"}
<1>1. BarOf(w) = BarOf(v) /\ pc[v] \in PCs
  BY WarpParts DEF IInv, Synced
<1>2. /\ pc[w] = "read_kv" => BarOf(w) = "sync_read"
      /\ pc[w] = "read_kt" => BarOf(w) = "sync_pre"
      /\ pc[w] = "gemm_s" => BarOf(w) = "sync_do"
      /\ pc[w] = "gemm_dp" => BarOf(w) = "sync_ds"
      /\ pc[w] = "gemm_dv" => BarOf(w) = "sync_p"
      /\ pc[w] = "gemm_dk" =>
             BarOf(w) = IF m_block[w] > mmin(w) THEN "barrier" ELSE "sync_loop"
      /\ pc[w] = "read_dkv" => BarOf(w) = First
  BY DEF BarOf, After, Outside, Upto
<1>3. /\ BarOf(v) = "sync_read" => pc[v] \in {"read_kv", "sync_read"}
      /\ BarOf(v) = "sync_pre" => pc[v] \in {"read_kt", "sync_pre"}
      /\ BarOf(v) = "sync_do" => pc[v] \in {"gemm_s", "sync_do"}
      /\ BarOf(v) = "sync_ds" => pc[v] \in {"gemm_dp", "sync_ds"}
      /\ BarOf(v) = "sync_p" => pc[v] \in {"gemm_dv", "sync_p"}
      /\ BarOf(v) = "barrier" => pc[v] \in {"gemm_dk", "barrier", "load"}
      /\ BarOf(v) = "sync_loop" => pc[v] \in {"gemm_dk", "sync_loop"}
      /\ BarOf(v) = "sync_first" => pc[v] \in Outside \cup {"sync_first"}
      /\ BarOf(v) = "sync_kv" => pc[v] \in Outside \cup {"sts_kv", "sync_kv"}
  BY <1>1 DEF BarOf, After, Outside, Upto, First, PCs
<1> QED
  BY <1>1, <1>2, <1>3 DEF First

\* A warp in the loop or the prologue reads together with warps of the same
\* block and row block, some of which may have begun the next row block.
LEMMA Together ==
    ASSUME IInv, NEW w \in Warps, NEW v \in Warps,
           pc[w] \in {"read_kv", "read_kt", "gemm_s", "gemm_dp", "gemm_dv",
                      "gemm_dk"}
    PROVE  /\ n_block(w) = n_block(v) /\ mmin(w) = mmin(v) /\ mmax(w) = mmax(v)
           /\ m_block[w] \in Int /\ m_block[v] \in Int /\ mmax(w) \in Int
           /\ mmin(w) \in Nat
           /\ pc[w] \in {"gemm_s", "gemm_dp", "gemm_dv"} =>
                  m_block[v] = m_block[w]
           /\ pc[w] = "gemm_dk" =>
                  /\ mmin(w) <= m_block[w] /\ m_block[w] <= mmax(w) - 1
                  /\ pc[v] # "load"
                  /\ pc[v] = "gemm_dk" => m_block[v] = m_block[w]
                  /\ pc[v] # "gemm_dk" => m_block[v] = m_block[w] - 1
<1>1. /\ StateOK /\ TodoInv(w) /\ TodoInv(v) /\ PlaceInv(w) /\ PlaceInv(v)
      /\ m_block[w] \in Int /\ m_block[v] \in Int
  BY WarpParts
<1>2. LeftOf(w) = LeftOf(v) /\ RowOf(w) = RowOf(v)
  BY DEF IInv, Synced
<1>3. /\ pc[w] \in InBlock /\ pc[v] \in InBlock
      /\ pc[w] \notin Outside /\ pc[v] \notin Outside
  BY Companions DEF InBlock, Prologue, InLoop, Epilogue, Outside
<1>4. todo[w] = todo[v] /\ n_block(w) = n_block(v)
  BY <1>1, <1>2, <1>3, SameBlock DEF Outside
<1>5. mmin(w) = mmin(v) /\ mmax(w) = mmax(v) /\ mmin(w) \in Nat /\ mmax(w) \in Int
  BY <1>1, <1>3, <1>4, BlockOf DEF mmin, mmax
<1>6. ASSUME pc[w] \in {"gemm_s", "gemm_dp", "gemm_dv"}
      PROVE  m_block[v] = m_block[w]
  BY <1>2, <1>6, Companions DEF RowOf, Outside, Prologue
<1>7. ASSUME pc[w] = "gemm_dk"
      PROVE  /\ mmin(w) <= m_block[w] /\ m_block[w] <= mmax(w) - 1
             /\ pc[v] # "load"
             /\ pc[v] = "gemm_dk" => m_block[v] = m_block[w]
             /\ pc[v] # "gemm_dk" => m_block[v] = m_block[w] - 1
  <2>1. mmin(w) <= m_block[w] /\ m_block[w] <= mmax(w) - 1
    BY <1>1, <1>7 DEF PlaceInv, InLoop
  <2>2. pc[v] \in {"gemm_dk", "barrier", "load", "sync_loop"}
    BY <1>7, Companions
  <2>3. RowOf(w) = m_block[w] - 1
    BY <1>7 DEF RowOf, Outside, Prologue
  <2>4. /\ pc[v] = "gemm_dk" => RowOf(v) = m_block[v] - 1
        /\ pc[v] # "gemm_dk" => RowOf(v) = m_block[v]
    BY <2>2 DEF RowOf, Outside, Prologue
  <2>5. pc[v] = "load" => m_block[v] = mmax(w) - 1
    BY <1>1, <1>5 DEF PlaceInv, Prologue
  <2> DEFINE a == m_block[w]
             b == m_block[v]
             hi == mmax(w)
  <2>6. /\ a \in Int /\ b \in Int /\ hi \in Int /\ a <= hi - 1
        /\ pc[v] = "load" => b = hi - 1
        /\ pc[v] = "gemm_dk" => b - 1 = a - 1
        /\ pc[v] # "gemm_dk" => b = a - 1
    BY <1>1, <1>2, <1>5, <2>1, <2>3, <2>4, <2>5
  <2> HIDE DEF a, b, hi
  <2>7. /\ pc[v] # "load"
        /\ pc[v] = "gemm_dk" => b = a
        /\ pc[v] # "gemm_dk" => b = a - 1
    BY <2>6
  <2> QED
    BY <2>1, <2>7 DEF a, b
<1> QED
  BY <1>1, <1>4, <1>5, <1>6, <1>7

\* Unless a CTA does a block and its mirror image, no warp stores the next
\* block's K and V while another still reads dK and dV.
LEMMA NoneAhead ==
    ASSUME IInv, ~params.balance, NEW w \in Warps, NEW v \in Warps,
           pc[w] = "read_dkv"
    PROVE  pc[v] \in Outside \cup {"sync_first"}
<1>1. /\ StateOK /\ TodoInv(w) /\ TodoInv(v) /\ PlaceInv(w) /\ PlaceInv(v)
      /\ LeftOf(w) = LeftOf(v)
  BY WarpParts DEF IInv, Synced
<1>2. CASE params.deterministic
  BY <1>2, Companions
<1>3. CASE ~params.deterministic
  <2>1. CB = <<cta>>
    BY <1>3 DEF CB, ColumnBlocks
  <2>2. DOMAIN CB = {1}
    BY <2>1
  <2>3. ASSUME pc[v] \in {"sts_kv", "sync_kv"} PROVE FALSE
    <3>1. Pos(w) \in DOMAIN CB /\ Pos(v) \in DOMAIN CB /\ Active(CB[Pos(v)])
      BY <1>1, <2>3, BlockOf DEF InBlock, Prologue, Epilogue
    <3>2. Pos(w) = 1 /\ Pos(v) = 1
      BY <2>2, <3>1
    <3>3. LeftOf(w) = Left(1 + 1) /\ LeftOf(v) = Left(1)
      BY <2>3, <3>2 DEF LeftOf
    <3>4. 1 \in Left(1) /\ 1 \notin Left(1 + 1)
      BY <2>2, <3>1, <3>2 DEF Left
    <3> QED
      BY <1>1, <3>3, <3>4
  <2> QED
    BY <1>3, <2>3, Companions
<1> QED
  BY <1>2, <1>3

\* A call is balanced or it is not, for good.
LEMMA StaysUnbalanced ==
    ASSUME \A a \in Args : ~BwdParams(a).balance
    PROVE  StateOK => ~params.balance
  BY DEF StateOK

\* No cell is written while another warp reads it.  Balanced calls are left
\* out: run bwd_race shows them racing.
THEOREM ReadsNeverRace ==
    ASSUME \A a \in Args : ~BwdParams(a).balance
    PROVE  Spec => []NoRace
<1>1. IInv => NoRace
  <2> SUFFICES ASSUME IInv, NEW w \in Warps, NEW v \in Warps, w # v,
                      NEW e \in pend[v]
               PROVE  e.cells \cap Reads(w) = {}
    BY DEF NoRace
  <2>1. ~params.balance
    BY StaysUnbalanced DEF IInv
  <2>2. <<e.kind, e.cells>> \in Shapes(v)
    BY DEF IInv, ShapeInv
  <2>3. /\ pc[v] = "sync_do" => e.cells = {"dO"}
        /\ pc[v] = "sync_ds" => e.cells = {"P"} \/ e.cells = {"dS"}
        /\ pc[v] = "sync_p" => e.cells = {"dO"} \/ e.cells = {"dOt"}
        /\ pc[v] = "gemm_dk" => e.cells = {"dOt"}
        /\ pc[v] = "barrier" => e.cells = {"Qt"} \/ e.cells = {"dOt"}
        /\ pc[v] \notin {"read_kv", "sync_read", "read_kt", "sync_pre",
                         "gemm_s", "gemm_dp", "gemm_dv", "load", "sync_loop",
                         "sync_first"} \cup Outside
    BY <2>2 DEF Shapes, Outside
  <2>4. CASE pc[w] = "read_kv" \/ pc[w] = "read_kt"
    BY <2>3, <2>4, Companions
  <2>5. CASE pc[w] = "gemm_s"
    BY <2>3, <2>5, Companions DEF Reads, sQ
  <2>6. CASE pc[w] = "gemm_dp"
    BY <2>3, <2>6, Companions DEF Reads
  <2>7. CASE pc[w] = "gemm_dv"
    BY <2>3, <2>7, Companions DEF Reads
  <2>8. CASE pc[w] = "gemm_dk"
    BY <2>3, <2>8, Companions DEF Reads
  <2>9. CASE pc[w] = "read_dkv"
    BY <2>1, <2>3, <2>9, NoneAhead
  <2>10. CASE pc[w] \notin {"read_kv", "read_kt", "gemm_s", "gemm_dp",
                            "gemm_dv", "gemm_dk", "read_dkv"}
    BY <2>10 DEF Reads
  <2> QED
    BY <2>4, <2>5, <2>6, <2>7, <2>8, <2>9, <2>10
<1> QED
  BY <1>1, Inductive, PTL

-----------------------------------------------------------------------------
(* What is read *)

\* What the data part of the invariant says of a warp.
WarpData(w) == /\ good[w] /\ IssuedInv(w) /\ KeptInv(w) /\ LastInv(w)
               /\ AccInv(w) /\ StoreInv(w)

\* The conjuncts of the data invariant.
LEMMA DataParts ==
    ASSUME DInv, NEW w \in Warps
    PROVE  /\ IInv /\ StateOK /\ MemoryOK /\ ~params.balance /\ WarpData(w)
           /\ good[w] /\ IssuedInv(w) /\ KeptInv(w) /\ LastInv(w)
           /\ AccInv(w) /\ StoreInv(w)
<1>1. IInv /\ MemoryOK /\ ~params.balance /\ WarpData(w)
  BY DEF DInv, WarpData
<1> QED
  BY <1>1 DEF IInv, WarpData

\* Past the loop all row blocks of the column block have been folded.
LEMMA AllFolded ==
    ASSUME DInv, NEW w \in Warps, pc[w] \in Epilogue
    PROVE  acc[w] = Visited(n_block(w))
<1>1. /\ StateOK /\ TodoInv(w) /\ PlaceInv(w) /\ AccInv(w)
      /\ pc[w] \in InBlock
  BY WarpParts, DataParts DEF InBlock
<1>2. mmin(w) \in Nat /\ mmax(w) \in Int /\ m_block[w] = mmin(w) - 1
  BY <1>1, BlockOf DEF PlaceInv
<1>3. mmax(w) - 1 - m_block[w] = mmax(w) - mmin(w)
  BY <1>2
<1>4. acc[w] = [i \in 1 .. mmax(w) - mmin(w) |-> mmax(w) - i]
  BY <1>1, <1>3 DEF AccInv
<1> QED
  BY <1>4 DEF Visited, mmin, mmax

\* The prologue reads the block's own K and V.
LEMMA PrologueReads ==
    ASSUME DInv, NEW w \in Warps
    PROVE  /\ pc[w] = "read_kv" => Complete(sK, K(w)) /\ Complete(sV, V(w))
           /\ pc[w] = "read_kt" => Complete(sK, Kt(w))
<1>1. IInv
  BY DEF DInv
<1>2. ASSUME pc[w] = "read_kv", NEW v \in Warps
      PROVE  Has(v, sK, K(w)) /\ Has(v, sV, V(w))
  <2>1. K(v) = K(w) /\ V(v) = V(w)
    BY <1>1, <1>2, Together DEF K, V
  <2>2. pc[v] \in {"read_kv", "sync_read"}
    BY <1>1, <1>2, Companions
  <2> QED
    BY <2>1, <2>2, DataParts DEF KeptInv
<1>3. ASSUME pc[w] = "read_kt", NEW v \in Warps
      PROVE  Has(v, sK, Kt(w))
  <2>1. Kt(v) = Kt(w)
    BY <1>1, <1>3, Together DEF Kt
  <2>2. pc[v] \in {"read_kt", "sync_pre"}
    BY <1>1, <1>3, Companions
  <2> QED
    BY <2>1, <2>2, DataParts DEF KeptInv
<1> QED
  BY <1>2, <1>3 DEF Has, Complete

\* The loop reads Q, dO, P and dS of its own tile.
LEMMA LoopReads ==
    ASSUME DInv, NEW w \in Warps
    PROVE  /\ pc[w] = "sts_q" => Own(w, "Qt", Q(m_block[w]))
           /\ pc[w] = "gemm_s" => /\ Complete(sQ, Q(m_block[w]))
                                  /\ Own(w, "dOt", dO(m_block[w]))
           /\ pc[w] = "gemm_dp" => Complete({"dO", "dOt"}, dO(m_block[w]))
           /\ pc[w] = "gemm_dv" => /\ Complete({"Qt"}, Q(m_block[w]))
                                   /\ Complete({"P"}, P(w))
           /\ pc[w] = "gemm_dk" => Complete({"dS", "dO"}, dS(w))
<1>1. IInv /\ KeptInv(w)
  BY DataParts
<1>2. pc[w] = "sts_q" => Own(w, "Qt", Q(m_block[w]))
  BY <1>1 DEF KeptInv, Has, Own
<1>3. pc[w] = "gemm_s" => Own(w, "dOt", dO(m_block[w]))
  BY <1>1 DEF KeptInv, Has, Own
<1>4. ASSUME pc[w] = "gemm_s", NEW v \in Warps
      PROVE  Has(v, sQ, Q(m_block[w]))
  <2>1. m_block[v] = m_block[w] /\ pc[v] \in {"gemm_s", "sync_do"}
    BY <1>1, <1>4, Together, Companions
  <2> QED
    BY <2>1, DataParts DEF KeptInv
<1>5. ASSUME pc[w] = "gemm_dp", NEW v \in Warps
      PROVE  Has(v, {"dO"}, dO(m_block[w])) /\ Has(v, {"dOt"}, dO(m_block[w]))
  <2>1. m_block[v] = m_block[w] /\ pc[v] \in {"gemm_dp", "sync_ds"}
    BY <1>1, <1>5, Together, Companions
  <2> QED
    BY <2>1, DataParts DEF KeptInv
<1>6. ASSUME pc[w] = "gemm_dv", NEW v \in Warps
      PROVE  Has(v, {"Qt"}, Q(m_block[w])) /\ Has(v, {"P"}, P(w))
  <2>1. /\ m_block[v] = m_block[w] /\ n_block(v) = n_block(w)
        /\ pc[v] \in {"gemm_dv", "sync_p"}
    BY <1>1, <1>6, Together, Companions
  <2>2. P(v) = P(w)
    BY <2>1 DEF P
  <2> QED
    BY <2>1, <2>2, DataParts DEF KeptInv
<1>7. ASSUME pc[w] = "gemm_dk", NEW v \in Warps
      PROVE  Has(v, {"dS", "dO"}, dS(w))
  <2>1. /\ n_block(v) = n_block(w) /\ mmax(v) = mmax(w)
        /\ m_block[w] \in Int /\ m_block[v] \in Int /\ mmax(w) \in Int
        /\ m_block[w] <= mmax(w) - 1
        /\ pc[v] \in {"gemm_dk", "barrier", "sync_loop"}
        /\ pc[v] = "gemm_dk" => m_block[v] = m_block[w]
        /\ pc[v] # "gemm_dk" => m_block[v] = m_block[w] - 1
    <3>1. pc[v] \in {"gemm_dk", "barrier", "load", "sync_loop"}
      BY <1>1, <1>7, Companions
    <3> QED
      BY <1>1, <1>7, <3>1, Together
  <2>2. CASE pc[v] = "gemm_dk"
    <3>1. dS(v) = dS(w)
      BY <2>1, <2>2 DEF dS
    <3> QED
      BY <2>2, <3>1, DataParts DEF KeptInv
  <2>3. CASE pc[v] # "gemm_dk"
    <3>1. m_block[v] < mmax(v) - 1 /\ m_block[v] + 1 = m_block[w]
      BY <2>1, <2>3
    <3>2. Holds("dS", <<n_block(v), m_block[v] + 1>>) = dS(w)
      BY <2>1, <3>1 DEF dS
    <3>3. Has(v, {"dS", "dO"}, Holds("dS", <<n_block(v), m_block[v] + 1>>))
      BY <2>1, <2>3, <3>1, DataParts DEF KeptInv
    <3> QED
      BY <3>2, <3>3
  <2> QED
    BY <2>2, <2>3
<1> QED
  BY <1>2, <1>3, <1>4, <1>5, <1>6, <1>7 DEF Has, Complete

\* The epilogue reads dK and dV of its own block.
LEMMA EpilogueReads ==
    ASSUME DInv, NEW w \in Warps, pc[w] = "read_dkv"
    PROVE  Complete(Cells, Holds("dKV", acc[w]))
<1>1. /\ StateOK /\ IInv /\ ~params.balance /\ TodoInv(w) /\ PlaceInv(w)
      /\ pc[w] \in InBlock /\ pc[w] \in Epilogue
  BY DataParts, WarpParts DEF InBlock, Epilogue
<1>2. /\ Pos(w) \in DOMAIN CB /\ n_block(w) = CB[Pos(w)] /\ Active(CB[Pos(w)])
      /\ acc[w] = Visited(n_block(w))
  BY <1>1, BlockOf, AllFolded
<1>3. ASSUME NEW v \in Warps
      PROVE  Has(v, Cells, Holds("dKV", acc[w]))
  <2>1. TodoInv(v) /\ PlaceInv(v) /\ LeftOf(w) = LeftOf(v)
    BY <1>1, WarpParts DEF IInv, Synced
  <2>2. CASE pc[v] = "read_dkv"
    <3>1. pc[v] \in InBlock /\ pc[v] \in Epilogue
      BY <2>2 DEF InBlock, Epilogue
    <3>2. n_block(v) = n_block(w)
      BY <1>1, <2>1, <2>2, <3>1, SameBlock
    <3>3. acc[v] = acc[w]
      BY <1>2, <3>1, <3>2, AllFolded
    <3> QED
      BY <2>2, <3>3, DataParts DEF KeptInv
  <2>3. CASE pc[v] # "read_dkv"
    <3>1. pc[v] \in {"start", "sync_first", "done"}
      BY <1>1, <2>3, NoneAhead DEF Outside
    <3>2. Left(Pos(w) + 1) = Left(Pos(v))
      BY <2>1, <2>3 DEF LeftOf
    <3>3. Pos(w) < Pos(v)
      <4>1. Pos(w) \in Nat /\ Pos(v) \in Nat
        BY <1>1, <2>1, PosType
      <4>2. Pos(w) \notin Left(Pos(w) + 1)
        BY <4>1 DEF Left
      <4>3. Pos(w) >= Pos(v) => Pos(w) \in Left(Pos(v))
        BY <1>2 DEF Left
      <4> QED
        BY <3>2, <4>1, <4>2, <4>3
    <3> QED
      BY <1>2, <3>1, <3>2, <3>3, DataParts DEF LastInv
  <2> QED
    BY <2>2, <2>3
<1> QED
  BY <1>3 DEF Has, Complete

-----------------------------------------------------------------------------
(* Steps and what the cells hold *)

\* The data of a warp depends on its own state and on what it has written.
SameData(v) == /\ SameWarp(v) /\ acc'[v] = acc[v] /\ good'[v] = good[v]
               /\ \A c \in Cells : smem'[c][v] = smem[c][v]
               /\ \A n \in Blocks : gdKV'[n][v] = gdKV[n][v]

\* The names of the parts of a tile.
LEMMA CellNames ==
    /\ sK \subseteq Cells /\ sV \subseteq Cells /\ sQ \subseteq Cells
    /\ sK \cup sV = Cells
    /\ {"dS", "P", "Qt", "dO", "dOt"} \subseteq Cells
  BY DEF sK, sV, sQ, Cells

\* Accesses are to cells.
LEMMA IssuedCells ==
    ASSUME NEW w \in Warps, NEW e \in Issued(w)
    PROVE  e.cells \subseteq Cells
<1>1. \/ e \in {Store(sK, K(w)), Store(sV, V(w))}
      \/ e = Store(sK, Kt(w))
      \/ e \in {Copy({"Qt"}, Q(m_block[w])), Copy({"dOt"}, dO(m_block[w]))}
      \/ e = Store(sQ, Q(m_block[w])) \/ e = Store({"dO"}, dO(m_block[w]))
      \/ e \in {Store({"P"}, P(w)), Store({"dS"}, dS(w))}
      \/ e = Store({"dO"}, dS(w))
      \/ \E m \in NextRows(w) : e = Copy({"dOt"}, dO(m))
      \/ e = Store(sK \cup sV, Holds("dKV", acc[w]))
  BY DEF Issued
<1>2. \/ e.cells \in {sK, sV, sQ, sK \cup sV}
      \/ e.cells \in {{"Qt"}, {"dOt"}, {"dO"}, {"P"}, {"dS"}}
  BY <1>1, AccessFields
<1> QED
  BY <1>2, CellNames

\* The results of the column blocks do not change.
LEMMA SameResults ==
    ASSUME UNCHANGED launch
    PROVE  \A n : Visited(n)' = Visited(n) /\ Result(n)' = Result(n)
<1>1. params' = params
  BY DEF launch
<1>2. \A n : Visited(n)' = Visited(n)
  BY <1>1 DEF Visited
<1> QED
  BY <1>1, <1>2 DEF Result

\* The contents of a tile depend on the block and the row block.
LEMMA SameContents ==
    ASSUME NEW v \in Warps, n_block(v)' = n_block(v), m_block'[v] = m_block[v]
    PROVE  /\ K(v)' = K(v) /\ V(v)' = V(v) /\ Kt(v)' = Kt(v)
           /\ Q(m_block[v])' = Q(m_block[v]) /\ dO(m_block[v])' = dO(m_block[v])
           /\ P(v)' = P(v) /\ dS(v)' = dS(v)
  BY DEF K, V, Kt, Q, dO, P, dS, Holds

\* What may be in flight depends on the place of the warp and what it folded.
LEMMA SameIssued ==
    ASSUME NEW v \in Warps, UNCHANGED launch, pc'[v] = pc[v],
           todo'[v] = todo[v], m_block'[v] = m_block[v], acc'[v] = acc[v]
    PROVE  Issued(v)' = Issued(v)
<1>1. n_block(v)' = n_block(v) /\ mmin(v)' = mmin(v)
  BY SameList DEF n_block, mmin
<1>2. /\ K(v)' = K(v) /\ V(v)' = V(v) /\ Kt(v)' = Kt(v)
      /\ Q(m_block[v])' = Q(m_block[v]) /\ dO(m_block[v])' = dO(m_block[v])
      /\ P(v)' = P(v) /\ dS(v)' = dS(v)
  BY <1>1, SameContents
<1>3. NextRows(v)' = NextRows(v)
  BY <1>1 DEF NextRows
<1>4. {Copy({"dOt"}, dO(m)) : m \in NextRows(v)}'
          = {Copy({"dOt"}, dO(m)) : m \in NextRows(v)}
  BY <1>3 DEF Copy, dO, Holds
<1>5. /\ Store(sK, K(v))' = Store(sK, K(v)) /\ Store(sV, V(v))' = Store(sV, V(v))
      /\ Store(sK, Kt(v))' = Store(sK, Kt(v))
      /\ Copy({"Qt"}, Q(m_block[v]))' = Copy({"Qt"}, Q(m_block[v]))
      /\ Copy({"dOt"}, dO(m_block[v]))' = Copy({"dOt"}, dO(m_block[v]))
      /\ Store(sQ, Q(m_block[v]))' = Store(sQ, Q(m_block[v]))
      /\ Store({"dO"}, dO(m_block[v]))' = Store({"dO"}, dO(m_block[v]))
      /\ Store({"P"}, P(v))' = Store({"P"}, P(v))
      /\ Store({"dS"}, dS(v))' = Store({"dS"}, dS(v))
      /\ Store({"dO"}, dS(v))' = Store({"dO"}, dS(v))
      /\ Store(sK \cup sV, Holds("dKV", acc[v]))'
             = Store(sK \cup sV, Holds("dKV", acc[v]))
  BY <1>2 DEF Store, Copy, Holds, sK, sV, sQ
<1> QED
  BY <1>4, <1>5 DEF Issued

\* What is kept depends on the cells that are read, as far as they changed.
LEMMA SameKept ==
    ASSUME NEW v \in Warps, UNCHANGED launch, pc'[v] = pc[v],
           todo'[v] = todo[v], m_block'[v] = m_block[v], acc'[v] = acc[v],
           KeptInv(v), NEW X \in SUBSET Cells,
           \A c \in Cells \ X : smem'[c][v] = smem[c][v],
           pc[v] \in {"read_kv", "sync_read", "read_kt", "sync_pre", "sts_q",
                      "gemm_s", "gemm_dp", "gemm_dv", "sync_loop", "read_dkv"}
               => X = {},
           pc[v] = "sync_q" => X \cap {"Qt", "dOt"} = {},
           pc[v] = "sync_do" => X = {"dO"},
           pc[v] = "sync_ds" => X \cap {"Qt", "dO", "dOt"} = {},
           pc[v] = "sync_p" => X \cap {"Qt", "P", "dS"} = {},
           pc[v] \in {"gemm_dk", "barrier"} => X \cap {"dS", "dO"} = {}
    PROVE  KeptInv(v)'
<1>1. n_block(v)' = n_block(v) /\ mmax(v)' = mmax(v)
  BY SameList DEF n_block, mmax
<1>2. /\ K(v)' = K(v) /\ V(v)' = V(v) /\ Kt(v)' = Kt(v)
      /\ Q(m_block[v])' = Q(m_block[v]) /\ dO(m_block[v])' = dO(m_block[v])
      /\ P(v)' = P(v) /\ dS(v)' = dS(v)
  BY <1>1, SameContents
<1>3. \A cells \in SUBSET Cells : \A x :
          Has(v, cells, x) /\ X \cap cells = {}
              => \A c \in cells : smem'[c][v] = x
  BY DEF Has
<1> QED
  BY <1>1, <1>2, <1>3, CellNames DEF KeptInv, Has, Holds, sQ

\* A warp that keeps its own state keeps its data.
LEMMA DataKept ==
    ASSUME NEW v \in Warps, UNCHANGED launch, SameData(v), WarpData(v)
    PROVE  WarpData(v)'
<1>1. /\ params' = params /\ CB' = CB /\ Blocks' = Blocks
      /\ \A j : Left(j)' = Left(j) /\ \A n : Active(n)' = Active(n)
  BY SameList
<1>2. /\ SameWarp(v) /\ acc'[v] = acc[v] /\ good'[v] = good[v]
      /\ \A c \in Cells : smem'[c][v] = smem[c][v]
      /\ \A n \in Blocks : gdKV'[n][v] = gdKV[n][v]
  BY DEF SameData
<1>3. /\ Pos(v)' = Pos(v) /\ n_block(v)' = n_block(v)
      /\ mmin(v)' = mmin(v) /\ mmax(v)' = mmax(v)
  BY <1>1, <1>2 DEF SameWarp, Pos, n_block, mmin, mmax
<1>4. /\ K(v)' = K(v) /\ V(v)' = V(v) /\ Kt(v)' = Kt(v)
      /\ Q(m_block[v])' = Q(m_block[v]) /\ dO(m_block[v])' = dO(m_block[v])
      /\ P(v)' = P(v) /\ dS(v)' = dS(v)
  BY <1>2, <1>3, SameContents DEF SameWarp
<1>5. \A cells \in SUBSET Cells : \A x :
          (\A c \in cells : smem'[c][v] = x) <=> (\A c \in cells : smem[c][v] = x)
  BY <1>2
<1>6. NextRows(v)' = NextRows(v)
  BY <1>2, <1>3 DEF SameWarp, NextRows
<1>7. Issued(v)' = Issued(v)
  BY <1>2, SameIssued DEF SameWarp
<1>8. IssuedInv(v)'
  <2>1. pend'[v] = pend[v]
    BY <1>2 DEF SameWarp
  <2>2. \A e \in Issued(v) : e.cells \subseteq Cells
    BY IssuedCells
  <2> QED
    BY <1>2, <1>7, <2>1, <2>2 DEF WarpData, IssuedInv, Has
<1>9. KeptInv(v)'
  <2>1. pc'[v] = pc[v] /\ m_block'[v] = m_block[v]
    BY <1>2 DEF SameWarp
  <2>2. \A cells \in SUBSET Cells : \A x : Has(v, cells, x) =>
            \A c \in cells : smem'[c][v] = x
    BY <1>2 DEF Has
  <2> QED
    BY <1>2, <1>3, <1>4, <2>1, CellNames DEF WarpData, KeptInv, Has, Holds
<1>10. LastInv(v)'
  <2>1. \A n : Visited(n)' = Visited(n)
    BY SameResults
  <2>2. pc'[v] = pc[v]
    BY <1>2 DEF SameWarp
  <2> QED
    BY <1>1, <1>2, <1>3, <2>1, <2>2 DEF WarpData, LastInv, Has, Holds
<1>11. AccInv(v)'
  BY <1>2, <1>3 DEF SameWarp, WarpData, AccInv
<1>12. StoreInv(v)'
  <2>1. \A n : Result(n)' = Result(n)
    BY SameResults
  <2> QED
    BY <1>1, <1>2, <1>3, <2>1 DEF WarpData, StoreInv, Unset
<1>13. good'[v]
  BY <1>2 DEF WarpData
<1> QED
  BY <1>8, <1>9, <1>10, <1>11, <1>12, <1>13 DEF WarpData

\* A step of warp w, given what it does to its own data.
LEMMA DataStep ==
    ASSUME DInv, IInv', NEW w \in Warps, UNCHANGED launch,
           \A v \in Warps \ {w} : SameData(v), MemoryOK', WarpData(w)'
    PROVE  DInv'
<1>1. \A v \in Warps : WarpData(v)'
  BY DataParts, DataKept
<1>2. ~params'.balance
  BY SameList DEF DInv
<1> QED
  BY <1>1, <1>2 DEF DInv, WarpData

\* Nothing is computed in the initial state.
LEMMA InitData == Init /\ ~params.balance => DInv
<1> SUFFICES ASSUME Init, ~params.balance PROVE DInv
  OBVIOUS
<1>1. IInv /\ StateOK
  BY InitHolds DEF IInv
<1>2. MemoryOK
  BY DEF Init, MemoryOK
<1>3. ASSUME NEW w \in Warps PROVE WarpData(w)
  <2>1. /\ pc[w] = "start" /\ pend[w] = {} /\ good[w]
        /\ \A n \in Blocks : gdKV[n][w] = Unset
    BY DEF Init
  <2>2. Pos(w) = 1
    <3>1. todo[w] = CB /\ Len(CB) \in Nat
      BY <1>1, CallType DEF Init, CB
    <3> QED
      BY <3>1 DEF Pos
  <2>3. \A i \in DOMAIN CB : ~(i < Pos(w))
    BY <1>1, <2>2, CallType
  <2>4. IssuedInv(w)
    BY <2>1 DEF IssuedInv, Issued
  <2>5. KeptInv(w)
    BY <2>1 DEF KeptInv
  <2>6. LastInv(w)
    BY <2>3 DEF LastInv
  <2>7. AccInv(w)
    BY <2>1 DEF AccInv, Prologue, InLoop, Epilogue
  <2>8. StoreInv(w)
    BY <2>1, <2>3 DEF StoreInv
  <2> QED
    BY <2>1, <2>4, <2>5, <2>6, <2>7, <2>8 DEF WarpData
<1> QED
  BY <1>1, <1>2, <1>3 DEF DInv, WarpData

\* A statement between two barriers that reads what it should.
LEMMA BetweenData ==
    ASSUME DInv, IInv', NEW w \in Warps, NEW l \in DOMAIN Upto,
           NEW accesses, NEW right \in BOOLEAN, right,
           Between(w, l, accesses, right, Upto[l]), Issued(w)' = accesses
    PROVE  DInv'
<1>1. /\ StateOK /\ MemoryOK /\ WarpData(w) /\ pc[w] = l /\ pend[w] = {}
      /\ PlaceInv(w) /\ m_block[w] \in Int
  <2>1. pc[w] = l
    BY DEF Between
  <2>2. IInv /\ StateOK /\ MemoryOK /\ WarpData(w)
    BY DataParts
  <2> QED
    BY <2>1, <2>2, WarpParts DEF Upto
<1>2. /\ pc' = [pc EXCEPT ![w] = Upto[l]]
      /\ pend' = [pend EXCEPT ![w] = accesses]
      /\ good' = [good EXCEPT ![w] = @ /\ right]
      /\ UNCHANGED <<launch, waiting, smem, todo, m_block, acc, gdKV>>
  <2>1. pend[w] \cup accesses = accesses
    BY <1>1
  <2> QED
    BY <2>1 DEF Between, Goto, Issue
<1>3. \A v \in Warps \ {w} : SameData(v)
  BY <1>1, <1>2 DEF SameData, SameWarp, StateOK, TypeOK
<1>4. /\ pc'[w] = Upto[l] /\ todo'[w] = todo[w] /\ m_block'[w] = m_block[w]
      /\ acc'[w] = acc[w] /\ pend'[w] = accesses /\ smem' = smem
      /\ gdKV' = gdKV
  BY <1>1, <1>2 DEF StateOK, TypeOK
<1>5. good'[w]
  <2>1. good \in [Warps -> BOOLEAN] /\ good[w]
    BY <1>1 DEF StateOK, TypeOK, WarpData
  <2> QED
    BY <1>2, <2>1
<1>6. /\ params' = params /\ CB' = CB /\ Blocks' = Blocks
      /\ \A j : Left(j)' = Left(j) /\ \A n : Active(n)' = Active(n)
      /\ \A n : Result(n)' = Result(n)
  BY <1>2, SameList, SameResults
<1>7. /\ Pos(w)' = Pos(w) /\ n_block(w)' = n_block(w)
      /\ mmin(w)' = mmin(w) /\ mmax(w)' = mmax(w)
  BY <1>4, <1>6 DEF Pos, n_block, mmin, mmax
<1>8. /\ K(w)' = K(w) /\ V(w)' = V(w) /\ Kt(w)' = Kt(w)
      /\ Q(m_block[w])' = Q(m_block[w]) /\ dO(m_block[w])' = dO(m_block[w])
      /\ P(w)' = P(w) /\ dS(w)' = dS(w)
  BY <1>4, <1>7, SameContents
<1>9. IssuedInv(w)'
  BY <1>4 DEF IssuedInv
<1>10. KeptInv(w)'
  <2>1. /\ l = "load" => m_block[w] = mmax(w) - 1
        /\ l = "load" => mmax(w) \in Int
    <3>1. l = "load" => pc[w] \in InBlock
      BY <1>1 DEF InBlock, Prologue
    <3> QED
      BY <1>1, <3>1, BlockOf, WarpParts DEF PlaceInv, Prologue, DInv
  <2>2. l = "load" => ~(m_block[w] < mmax(w) - 1)
    BY <1>1, <2>1
  <2>3. /\ pc'[w] \in {"read_kv", "sync_read"} => l = "read_kv"
        /\ pc'[w] \in {"read_kt", "sync_pre"} => l = "read_kt"
        /\ pc'[w] \in {"sts_q", "sync_q", "gemm_s", "sync_do", "gemm_dp", "sync_ds"}
               => l \in {"sts_q", "gemm_s", "gemm_dp"}
        /\ pc'[w] \in {"sts_q", "sync_q", "gemm_s", "sync_do", "gemm_dp",
                       "sync_ds", "gemm_dv", "sync_p"}
               => l \in {"sts_q", "gemm_s", "gemm_dp", "gemm_dv"}
        /\ pc'[w] \in {"gemm_s", "sync_do"} => l = "gemm_s"
        /\ pc'[w] \in {"gemm_dp", "sync_ds"} => l = "gemm_dp"
        /\ pc'[w] \in {"gemm_dv", "sync_p"} => l = "gemm_dv"
        /\ pc'[w] \in {"barrier", "sync_loop"} => l = "load"
        /\ pc'[w] \notin {"gemm_dk", "read_dkv"}
    BY <1>4 DEF Upto
  <2>4. KeptInv(w)
    BY <1>1 DEF WarpData
  <2> QED
    BY <1>1, <1>4, <1>7, <1>8, <2>2, <2>3, <2>4 DEF KeptInv, Has
<1>11. LastInv(w)'
  <2>1. pc'[w] \notin {"start", "sync_first", "done"}
    BY <1>4 DEF Upto
  <2> QED
    BY <2>1 DEF LastInv
<1>12. AccInv(w)'
  <2>1. l \in InBlock
    BY DEF Upto, InBlock, Prologue, InLoop, Epilogue
  <2> QED
    BY <1>1, <1>4, <1>7, <2>1 DEF WarpData, AccInv, InBlock
<1>13. StoreInv(w)'
  BY <1>1, <1>4, <1>6, <1>7 DEF WarpData, StoreInv, Unset
<1>14. MemoryOK'
  BY <1>1, <1>4, <1>6 DEF MemoryOK
<1> QED
  BY <1>2, <1>3, <1>5, <1>9, <1>10, <1>11, <1>12, <1>13, <1>14, DataStep
     DEF WarpData

\* The prologue of a column block.
LEMMA PrologueData ==
    ASSUME DInv, IInv', NEW w \in Warps,
           StoreKV(w) \/ ReadKV(w) \/ StoreKt(w) \/ ReadKt(w) \/ Load(w)
    PROVE  DInv'
<1>1. /\ "sts_kv" \in DOMAIN Upto /\ Upto["sts_kv"] = "sync_kv"
      /\ "read_kv" \in DOMAIN Upto /\ Upto["read_kv"] = "sync_read"
      /\ "sts_kt" \in DOMAIN Upto /\ Upto["sts_kt"] = "sync_kt"
      /\ "read_kt" \in DOMAIN Upto /\ Upto["read_kt"] = "sync_pre"
      /\ "load" \in DOMAIN Upto /\ Upto["load"] = "barrier"
  BY DEF Upto
<1>2. \A l \in PCs : pc' = [pc EXCEPT ![w] = l] => pc'[w] = l
  BY DataParts DEF StateOK, TypeOK
<1>3. ASSUME UNCHANGED <<launch, todo, m_block>>
      PROVE  /\ K(w)' = K(w) /\ V(w)' = V(w) /\ Kt(w)' = Kt(w)
             /\ Q(m_block[w])' = Q(m_block[w]) /\ dO(m_block[w])' = dO(m_block[w])
  BY <1>3, SameNextRows, SameContents
<1> DEFINE right == TRUE
<1>4. right \in BOOLEAN /\ right
  OBVIOUS
<1>5. CASE StoreKV(w)
  <2> DEFINE S == {Store(sK, K(w)), Store(sV, V(w))}
  <2>1. Between(w, "sts_kv", S, right, "sync_kv")
    BY <1>5 DEF StoreKV
  <2>2. pc'[w] = "sync_kv" /\ K(w)' = K(w) /\ V(w)' = V(w)
    BY <1>2, <1>3, <2>1 DEF Between, Goto, PCs, After
  <2>3. Issued(w)' = S
    BY <2>2 DEF Issued, Store, sK, sV
  <2> HIDE DEF S, right
  <2> QED
    BY <1>1, <1>4, <2>1, <2>3, BetweenData
<1>6. CASE ReadKV(w)
  <2> DEFINE ok == Complete(sK, K(w)) /\ Complete(sV, V(w))
  <2>1. Between(w, "read_kv", {}, ok, "sync_read")
    BY <1>6 DEF ReadKV
  <2>2. pc'[w] = "sync_read" /\ pc[w] = "read_kv"
    BY <1>2, <2>1 DEF Between, Goto, PCs, After
  <2>3. Issued(w)' = {}
    BY <2>2 DEF Issued
  <2>4. ok \in BOOLEAN /\ ok
    BY <2>2, PrologueReads
  <2> HIDE DEF ok
  <2> QED
    BY <1>1, <2>1, <2>3, <2>4, BetweenData
<1>7. CASE StoreKt(w)
  <2> DEFINE S == {Store(sK, Kt(w))}
  <2>1. Between(w, "sts_kt", S, right, "sync_kt")
    BY <1>7 DEF StoreKt
  <2>2. pc'[w] = "sync_kt" /\ Kt(w)' = Kt(w)
    BY <1>2, <1>3, <2>1 DEF Between, Goto, PCs, After
  <2>3. Issued(w)' = S
    BY <2>2 DEF Issued, Store, sK
  <2> HIDE DEF S, right
  <2> QED
    BY <1>1, <1>4, <2>1, <2>3, BetweenData
<1>8. CASE ReadKt(w)
  <2> DEFINE ok == Complete(sK, Kt(w))
  <2>1. Between(w, "read_kt", {}, ok, "sync_pre")
    BY <1>8 DEF ReadKt
  <2>2. pc'[w] = "sync_pre" /\ pc[w] = "read_kt"
    BY <1>2, <2>1 DEF Between, Goto, PCs, After
  <2>3. Issued(w)' = {}
    BY <2>2 DEF Issued
  <2>4. ok \in BOOLEAN /\ ok
    BY <2>2, PrologueReads DEF Complete
  <2> HIDE DEF ok
  <2> QED
    BY <1>1, <2>1, <2>3, <2>4, BetweenData
<1>9. CASE Load(w)
  <2> DEFINE S == {Copy({"Qt"}, Q(m_block[w])), Copy({"dOt"}, dO(m_block[w]))}
  <2>1. Between(w, "load", S, right, "barrier")
    BY <1>9 DEF Load
  <2>2. /\ pc'[w] = "barrier" /\ Q(m_block[w])' = Q(m_block[w])
        /\ dO(m_block[w])' = dO(m_block[w])
    BY <1>2, <1>3, <2>1 DEF Between, Goto, PCs, After
  <2>3. Issued(w)' = S
    BY <2>2 DEF Issued, Copy
  <2> HIDE DEF S, right
  <2> QED
    BY <1>1, <1>4, <2>1, <2>3, BetweenData
<1> QED
  BY <1>5, <1>6, <1>7, <1>8, <1>9

\* The loop but for its last statement, and the store of dK and dV.
LEMMA LoopData ==
    ASSUME DInv, IInv', NEW w \in Warps,
           StoreQ(w) \/ GemmS(w) \/ GemmDP(w) \/ GemmDV(w) \/ StoreDKV(w)
    PROVE  DInv'
<1>1. /\ "sts_q" \in DOMAIN Upto /\ Upto["sts_q"] = "sync_q"
      /\ "gemm_s" \in DOMAIN Upto /\ Upto["gemm_s"] = "sync_do"
      /\ "gemm_dp" \in DOMAIN Upto /\ Upto["gemm_dp"] = "sync_ds"
      /\ "gemm_dv" \in DOMAIN Upto /\ Upto["gemm_dv"] = "sync_p"
      /\ "sts_dkv" \in DOMAIN Upto /\ Upto["sts_dkv"] = "sync_dkv"
  BY DEF Upto
<1>2. \A l \in PCs : pc' = [pc EXCEPT ![w] = l] => pc'[w] = l
  BY DataParts DEF StateOK, TypeOK
<1>3. ASSUME UNCHANGED <<launch, todo, m_block>>
      PROVE  /\ Q(m_block[w])' = Q(m_block[w]) /\ dO(m_block[w])' = dO(m_block[w])
             /\ P(w)' = P(w) /\ dS(w)' = dS(w) /\ NextRows(w)' = NextRows(w)
  BY <1>3, SameNextRows, SameContents
<1>4. CASE StoreQ(w)
  <2> DEFINE S == {Store(sQ, Q(m_block[w]))}
             ok == Own(w, "Qt", Q(m_block[w]))
  <2>1. Between(w, "sts_q", S, ok, "sync_q")
    BY <1>4 DEF StoreQ
  <2>2. pc'[w] = "sync_q" /\ Q(m_block[w])' = Q(m_block[w]) /\ pc[w] = "sts_q"
    BY <1>2, <1>3, <2>1 DEF Between, Goto, PCs, After
  <2>3. Issued(w)' = S
    BY <2>2 DEF Issued, Store, sQ
  <2>4. ok \in BOOLEAN /\ ok
    BY <2>2, LoopReads DEF Own
  <2> HIDE DEF S, ok
  <2> QED
    BY <1>1, <2>1, <2>3, <2>4, BetweenData
<1>5. CASE GemmS(w)
  <2> DEFINE S == {Store({"dO"}, dO(m_block[w]))}
             ok == Complete(sQ, Q(m_block[w])) /\ Own(w, "dOt", dO(m_block[w]))
  <2>1. Between(w, "gemm_s", S, ok, "sync_do")
    BY <1>5 DEF GemmS
  <2>2. pc'[w] = "sync_do" /\ dO(m_block[w])' = dO(m_block[w]) /\ pc[w] = "gemm_s"
    BY <1>2, <1>3, <2>1 DEF Between, Goto, PCs, After
  <2>3. Issued(w)' = S
    BY <2>2 DEF Issued, Store
  <2>4. ok \in BOOLEAN /\ ok
    BY <2>2, LoopReads
  <2> HIDE DEF S, ok
  <2> QED
    BY <1>1, <2>1, <2>3, <2>4, BetweenData
<1>6. CASE GemmDP(w)
  <2> DEFINE S == {Store({"P"}, P(w)), Store({"dS"}, dS(w))}
             ok == Complete({"dO", "dOt"}, dO(m_block[w]))
  <2>1. Made(w, "P") = P(w) /\ Made(w, "dS") = dS(w)
    BY DataParts DEF Made, P, dS
  <2>2. Between(w, "gemm_dp", S, ok, "sync_ds")
    BY <1>6, <2>1 DEF GemmDP
  <2>3. pc'[w] = "sync_ds" /\ P(w)' = P(w) /\ dS(w)' = dS(w) /\ pc[w] = "gemm_dp"
    BY <1>2, <1>3, <2>2 DEF Between, Goto, PCs, After
  <2>4. Issued(w)' = S
    BY <2>3 DEF Issued, Store
  <2>5. ok \in BOOLEAN /\ ok
    BY <2>3, LoopReads DEF Complete
  <2> HIDE DEF S, ok
  <2> QED
    BY <1>1, <2>2, <2>4, <2>5, BetweenData
<1>7. CASE GemmDV(w)
  <2> DEFINE C == {Copy({"dOt"}, dO(m)) : m \in NextRows(w)}
             S == {Store({"dO"}, dS(w))} \cup C
             ok == /\ Complete({"Qt"}, Q(m_block[w]))
                   /\ Complete({"P"}, P(w))
  <2>1. Made(w, "dS") = dS(w)
    BY DataParts DEF Made, dS
  <2>2. Between(w, "gemm_dv", S, ok, "sync_p")
    BY <1>7, <2>1 DEF GemmDV
  <2>3. /\ pc'[w] = "sync_p" /\ dS(w)' = dS(w) /\ NextRows(w)' = NextRows(w)
        /\ pc[w] = "gemm_dv"
    BY <1>2, <1>3, <2>2 DEF Between, Goto, PCs, After
  <2>4. Issued(w)' = S
    <3>1. {Copy({"dOt"}, dO(m)) : m \in NextRows(w)}' = C
      BY <2>3 DEF Copy, dO, Holds
    <3> QED
      BY <2>3, <3>1 DEF Issued, Store
  <2>5. ok \in BOOLEAN /\ ok
    BY <2>3, LoopReads
  <2> HIDE DEF S, ok
  <2> QED
    BY <1>1, <2>2, <2>4, <2>5, BetweenData
<1>8. CASE StoreDKV(w)
  <2> DEFINE S == {Store(sK \cup sV, Holds("dKV", acc[w]))}
             ok == TRUE
  <2>1. Between(w, "sts_dkv", S, ok, "sync_dkv")
    BY <1>8 DEF StoreDKV
  <2>2. pc'[w] = "sync_dkv" /\ acc' = acc
    BY <1>2, <2>1 DEF Between, Goto, PCs, After
  <2>3. Issued(w)' = S
    BY <2>2 DEF Issued, Store, Holds, sK, sV
  <2>4. ok \in BOOLEAN /\ ok
    OBVIOUS
  <2> HIDE DEF S, ok
  <2> QED
    BY <1>1, <2>1, <2>3, <2>4, BetweenData
<1> QED
  BY <1>4, <1>5, <1>6, <1>7, <1>8

-----------------------------------------------------------------------------
(* What is stored for the column blocks *)

\* A step to the next block of the list that stores its result.
LEMMA StoreNext ==
    ASSUME StateOK, NEW w \in Warps, TodoInv(w), todo[w] # <<>>, StoreInv(w),
           UNCHANGED launch, Pos(w)' = Pos(w) + 1,
           gdKV'[n_block(w)][w] = Result(n_block(w)),
           \A n \in Blocks \ {n_block(w)} : gdKV'[n][w] = gdKV[n][w]
    PROVE  StoreInv(w)'
<1>1. Pos(w) \in DOMAIN CB /\ n_block(w) = CB[Pos(w)] /\ Pos(w) \in Nat
  BY PosType
<1>2. CB' = CB /\ Blocks' = Blocks /\ \A n : Result(n)' = Result(n)
  BY SameList, SameResults
<1>3. \A i \in DOMAIN CB : i < Pos(w) + 1 <=> i < Pos(w) \/ i = Pos(w)
  BY <1>1, CallType
<1>4. ASSUME NEW n \in Blocks
      PROVE  gdKV'[n][w] = IF \E i \in DOMAIN CB : i < Pos(w) + 1 /\ CB[i] = n
                           THEN Result(n) ELSE Unset
  <2>1. CASE n = n_block(w)
    <3>1. Pos(w) < Pos(w) + 1
      BY <1>1
    <3> QED
      BY <1>1, <2>1, <3>1
  <2>2. CASE n # n_block(w)
    <3>1. (\E i \in DOMAIN CB : i < Pos(w) + 1 /\ CB[i] = n)
              <=> \E i \in DOMAIN CB : i < Pos(w) /\ CB[i] = n
      BY <1>1, <1>3, <2>2
    <3> QED
      BY <2>2, <3>1 DEF StoreInv
  <2> QED
    BY <2>1, <2>2
<1> QED
  BY <1>2, <1>4 DEF StoreInv, Unset

\* A block without keys or rows is passed over.
LEMMA SkipData ==
    ASSUME DInv, IInv', NEW w \in Warps, Skip(w)
    PROVE  DInv'
<1> DEFINE n == n_block(w)
<1>1. /\ StateOK /\ MemoryOK /\ WarpData(w) /\ TodoInv(w) /\ StoreInv(w)
      /\ pc[w] = "start" /\ todo[w] # <<>> /\ ~Active(n) /\ pend[w] = {}
  <2>1. IInv /\ StateOK /\ MemoryOK /\ WarpData(w) /\ StoreInv(w)
    BY DataParts
  <2> QED
    BY <2>1, WarpParts DEF Skip, Active
<1>2. /\ UNCHANGED <<launch, pc, shared, m_block, acc, good>>
      /\ todo' = [todo EXCEPT ![w] = Tail(@)]
      /\ NoKeys(params, n) \/ NoQueries(params, n)
      /\ gdKV' = IF NoKeys(params, n) THEN gdKV
                 ELSE [gdKV EXCEPT ![n][w] = Zero]
  BY DEF Skip
<1>3. /\ \A v \in Warps \ {w} : todo'[v] = todo[v]
      /\ Pos(w)' = Pos(w) + 1
  BY <1>1, <1>2, NextTodo
<1>4. Pos(w) \in DOMAIN CB /\ n = CB[Pos(w)] /\ n \in Blocks /\ Pos(w) \in Nat
  BY <1>1, PosType
<1>5. /\ \A k \in Blocks, v \in Warps :
             (k # n \/ v # w) => gdKV'[k][v] = gdKV[k][v]
      /\ gdKV'[n][w] = IF NoKeys(params, n) THEN gdKV[n][w] ELSE Zero
      /\ DOMAIN gdKV' = Blocks /\ \A k \in Blocks : DOMAIN gdKV'[k] = Warps
  <2> HIDE DEF n
  <2> QED
    BY <1>1, <1>2, <1>4 DEF MemoryOK
<1>6. \A v \in Warps \ {w} : SameData(v)
  BY <1>2, <1>3, <1>5 DEF SameData, SameWarp, shared
<1>7. Blocks' = Blocks /\ CB' = CB /\ \A j : Left(j)' = Left(j)
      /\ \A k : Active(k)' = Active(k) /\ Visited(k)' = Visited(k)
  BY <1>2, SameList, SameResults
<1>8. MemoryOK'
  BY <1>1, <1>2, <1>5, <1>7 DEF MemoryOK, shared
<1>9. gdKV'[n][w] = Result(n)
  <2>1. NoKeys(params, n) => gdKV[n][w] = Unset
    BY <1>1, <1>4 DEF StoreInv, Result
  <2> QED
    BY <1>2, <1>5, <2>1 DEF Result
<1>10. StoreInv(w)'
  BY <1>1, <1>2, <1>3, <1>5, <1>9, StoreNext
<1>11. LastInv(w)'
  <2>1. Left(Pos(w) + 1) = Left(Pos(w))
    BY <1>1, <1>4, LeftSkip
  <2>2. ASSUME NEW j \in DOMAIN CB, j < Pos(w) + 1, Active(CB[j]),
               Left(j + 1) = Left(Pos(w) + 1)
        PROVE  Has(w, Cells, Holds("dKV", Visited(CB[j])))
    <3>1. j # Pos(w)
      BY <1>1, <1>4, <2>2
    <3>2. j < Pos(w)
      BY <1>1, <1>4, <2>2, <3>1, CallType
    <3> QED
      BY <1>1, <2>1, <2>2, <3>2 DEF WarpData, LastInv
  <2>3. smem' = smem /\ pc' = pc
    BY <1>2 DEF shared
  <2> QED
    BY <1>1, <1>3, <1>7, <2>2, <2>3 DEF LastInv, Has, Holds
<1>12. IssuedInv(w)' /\ KeptInv(w)' /\ AccInv(w)' /\ good'[w]
  <2>1. pc'[w] = "start" /\ pend'[w] = {} /\ good' = good
    BY <1>1, <1>2 DEF shared
  <2> QED
    BY <1>1, <2>1 DEF WarpData, IssuedInv, Issued, KeptInv, AccInv, Prologue,
                      InLoop, Epilogue
<1> QED
  BY <1>2, <1>6, <1>8, <1>10, <1>11, <1>12, DataStep DEF WarpData

\* A warp begins a block.
LEMMA EnterData ==
    ASSUME DInv, IInv', NEW w \in Warps, Enter(w)
    PROVE  DInv'
<1> DEFINE l == IF params.deterministic THEN "sync_first" ELSE "sts_kv"
<1>1. /\ StateOK /\ MemoryOK /\ WarpData(w) /\ TodoInv(w)
      /\ pc[w] = "start" /\ todo[w] # <<>> /\ pend[w] = {}
  <2>1. IInv /\ StateOK /\ MemoryOK /\ WarpData(w)
    BY DataParts
  <2> QED
    BY <2>1, WarpParts DEF Enter
<1>2. /\ UNCHANGED <<launch, shared, todo, gdKV>>
      /\ pc' = [pc EXCEPT ![w] = l]
      /\ m_block' = [m_block EXCEPT ![w] = mmax(w) - 1]
      /\ acc' = [acc EXCEPT ![w] = <<>>]
      /\ good' = [good EXCEPT ![w] = TRUE]
  BY DEF Enter, Goto, mmax
<1>3. n_block(w) \in Blocks /\ mmax(w) \in Int
  BY <1>1, PosType, RowBlocks DEF mmax
<1>4. l \in {"sync_first", "sts_kv"}
  OBVIOUS
<1>5. /\ pc'[w] = l /\ m_block'[w] = mmax(w) - 1 /\ todo'[w] = todo[w]
      /\ pend'[w] = {} /\ acc'[w] = <<>> /\ good'[w]
      /\ smem' = smem /\ gdKV' = gdKV
  BY <1>1, <1>2 DEF shared, StateOK, TypeOK
<1>6. \A v \in Warps \ {w} : SameData(v)
  BY <1>1, <1>2 DEF SameData, SameWarp, shared, StateOK, TypeOK
<1>7. /\ CB' = CB /\ Blocks' = Blocks /\ params' = params
      /\ \A j : Left(j)' = Left(j) /\ \A n : Active(n)' = Active(n)
      /\ \A n : Visited(n)' = Visited(n) /\ Result(n)' = Result(n)
  BY <1>2, SameList, SameResults
<1>8. Pos(w)' = Pos(w) /\ n_block(w)' = n_block(w) /\ mmax(w)' = mmax(w)
  BY <1>5, <1>7 DEF Pos, n_block, mmax
<1> HIDE DEF l
<1>9. IssuedInv(w)' /\ KeptInv(w)'
  BY <1>4, <1>5 DEF IssuedInv, Issued, KeptInv
<1>10. LastInv(w)'
  BY <1>1, <1>5, <1>7, <1>8 DEF WarpData, LastInv, Has, Holds
<1>11. AccInv(w)'
  <2>1. mmax(w) - 1 - (mmax(w) - 1) = 0
    BY <1>3
  <2>2. [i \in 1 .. 0 |-> mmax(w) - i] = <<>>
    BY <1>3
  <2> QED
    BY <1>5, <1>8, <2>1, <2>2 DEF AccInv
<1>12. StoreInv(w)'
  BY <1>1, <1>5, <1>7, <1>8 DEF WarpData, StoreInv, Unset
<1>13. MemoryOK'
  BY <1>1, <1>5, <1>7 DEF MemoryOK
<1> QED
  BY <1>2, <1>5, <1>6, <1>9, <1>10, <1>11, <1>12, <1>13, DataStep DEF WarpData

\* dK and dV of the block are stored.
LEMMA ReadDKVData ==
    ASSUME DInv, IInv', NEW w \in Warps, ReadDKV(w)
    PROVE  DInv'
<1> DEFINE n == n_block(w)
<1>1. /\ StateOK /\ MemoryOK /\ WarpData(w) /\ TodoInv(w) /\ StoreInv(w)
      /\ PlaceInv(w) /\ KeptInv(w) /\ pend[w] = {}
      /\ pc[w] = "read_dkv" /\ pc[w] \in InBlock /\ pc[w] \in Epilogue
  <2>1. IInv /\ StateOK /\ MemoryOK /\ WarpData(w) /\ StoreInv(w) /\ KeptInv(w)
    BY DataParts
  <2>2. pc[w] = "read_dkv"
    BY DEF ReadDKV
  <2> QED
    BY <2>1, <2>2, WarpParts DEF InBlock, Epilogue
<1>2. /\ todo[w] # <<>> /\ Active(n) /\ n \in Blocks
      /\ Pos(w) \in DOMAIN CB /\ n = CB[Pos(w)] /\ Pos(w) \in Nat
      /\ acc[w] = Visited(n)
  BY <1>1, BlockOf, PosType, AllFolded
<1>3. /\ UNCHANGED <<launch, shared, m_block, acc, good>>
      /\ todo' = [todo EXCEPT ![w] = Tail(@)]
      /\ pc' = [pc EXCEPT ![w] = "start"]
      /\ gdKV' = [gdKV EXCEPT ![n][w] = Visited(n)]
  <2>1. Complete(Cells, Holds("dKV", acc[w]))
    BY <1>1, EpilogueReads
  <2> QED
    BY <1>2, <2>1 DEF ReadDKV, Goto
<1>4. /\ \A v \in Warps \ {w} : todo'[v] = todo[v]
      /\ Pos(w)' = Pos(w) + 1
  BY <1>1, <1>2, <1>3, NextTodo
<1>5. /\ \A k \in Blocks, v \in Warps :
             (k # n \/ v # w) => gdKV'[k][v] = gdKV[k][v]
      /\ gdKV'[n][w] = Visited(n)
      /\ DOMAIN gdKV' = Blocks /\ \A k \in Blocks : DOMAIN gdKV'[k] = Warps
  <2> DEFINE x == Visited(n)
  <2>1. gdKV' = [gdKV EXCEPT ![n][w] = x]
    BY <1>3
  <2> HIDE DEF n, x
  <2>2. /\ \A k \in Blocks, v \in Warps :
               (k # n \/ v # w) => gdKV'[k][v] = gdKV[k][v]
        /\ gdKV'[n][w] = x
        /\ DOMAIN gdKV' = Blocks /\ \A k \in Blocks : DOMAIN gdKV'[k] = Warps
    BY <1>1, <1>2, <2>1 DEF MemoryOK
  <2> QED
    BY <2>2 DEF x
<1>6. \A v \in Warps \ {w} : SameData(v)
  <2>1. \A v \in Warps \ {w} : pc'[v] = pc[v]
    BY <1>1, <1>3 DEF StateOK, TypeOK
  <2> QED
    BY <1>3, <1>4, <1>5, <2>1 DEF SameData, SameWarp, shared
<1>7. Blocks' = Blocks /\ CB' = CB /\ \A j : Left(j)' = Left(j)
      /\ \A k : Active(k)' = Active(k) /\ Visited(k)' = Visited(k)
  BY <1>3, SameList, SameResults
<1>8. MemoryOK'
  BY <1>1, <1>3, <1>5, <1>7 DEF MemoryOK, shared
<1>9. Visited(n) = Result(n)
  BY <1>2 DEF Result, Active
<1>10. StoreInv(w)'
  BY <1>1, <1>2, <1>3, <1>4, <1>5, <1>9, StoreNext
<1>11. LastInv(w)'
  <2>1. ASSUME NEW j \in DOMAIN CB, j < Pos(w) + 1, Active(CB[j]),
               Left(j + 1) = Left(Pos(w) + 1)
        PROVE  Has(w, Cells, Holds("dKV", Visited(CB[j])))
    <3>1. j = Pos(w)
      BY <1>1, <1>2, <2>1, LeftInjective
    <3>2. Has(w, Cells, Holds("dKV", acc[w]))
      BY <1>1 DEF KeptInv
    <3> QED
      BY <1>2, <3>1, <3>2
  <2>2. smem' = smem
    BY <1>3 DEF shared
  <2> QED
    BY <1>4, <1>7, <2>1, <2>2 DEF LastInv, Has, Holds
<1>12. IssuedInv(w)' /\ KeptInv(w)' /\ AccInv(w)' /\ good'[w]
  <2>1. pc'[w] = "start" /\ pend'[w] = {} /\ good' = good
    BY <1>1, <1>3 DEF shared, StateOK, TypeOK
  <2> QED
    BY <1>1, <2>1 DEF WarpData, IssuedInv, Issued, KeptInv, AccInv, Prologue,
                      InLoop, Epilogue
<1> QED
  BY <1>3, <1>6, <1>8, <1>10, <1>11, <1>12, DataStep DEF WarpData

\* The list is done.
LEMMA ExitData ==
    ASSUME DInv, IInv', NEW w \in Warps, Exit(w)
    PROVE  DInv'
<1>1. /\ StateOK /\ MemoryOK /\ WarpData(w) /\ TodoInv(w)
      /\ pc[w] = "start" /\ pend[w] = {}
  <2>1. IInv /\ StateOK /\ MemoryOK /\ WarpData(w)
    BY DataParts
  <2> QED
    BY <2>1, WarpParts DEF Exit
<1>2. /\ UNCHANGED <<launch, shared, todo, m_block, acc, good, gdKV>>
      /\ pc' = [pc EXCEPT ![w] = "done"]
  BY DEF Exit, Goto
<1>3. /\ pc'[w] = "done" /\ todo'[w] = todo[w] /\ pend'[w] = {}
      /\ good' = good /\ smem' = smem /\ gdKV' = gdKV
  BY <1>1, <1>2 DEF shared, StateOK, TypeOK
<1>4. \A v \in Warps \ {w} : SameData(v)
  BY <1>1, <1>2 DEF SameData, SameWarp, shared, StateOK, TypeOK
<1>5. /\ CB' = CB /\ Blocks' = Blocks
      /\ \A j : Left(j)' = Left(j) /\ \A n : Active(n)' = Active(n)
      /\ \A n : Visited(n)' = Visited(n) /\ Result(n)' = Result(n)
  BY <1>2, SameList, SameResults
<1>6. Pos(w)' = Pos(w)
  BY <1>3, <1>5 DEF Pos
<1>7. IssuedInv(w)' /\ KeptInv(w)' /\ AccInv(w)' /\ good'[w]
  BY <1>1, <1>3 DEF WarpData, IssuedInv, Issued, KeptInv, AccInv, Prologue,
                    InLoop, Epilogue
<1>8. LastInv(w)'
  BY <1>1, <1>3, <1>5, <1>6 DEF WarpData, LastInv, Has, Holds
<1>9. StoreInv(w)'
  BY <1>1, <1>3, <1>5, <1>6 DEF WarpData, StoreInv, Unset
<1>10. MemoryOK'
  BY <1>1, <1>3, <1>5 DEF MemoryOK
<1> QED
  BY <1>2, <1>4, <1>7, <1>8, <1>9, <1>10, DataStep DEF WarpData

\* One more row block is folded.
LEMMA AppendRow ==
    ASSUME NEW h \in Int, NEW m \in Int, m <= h - 1
    PROVE  Append([i \in 1 .. h - 1 - m |-> h - i], m)
               = [i \in 1 .. h - 1 - (m - 1) |-> h - i]
<1> DEFINE k == h - 1 - m
           s == [i \in 1 .. k |-> h - i]
           t == [i \in 1 .. k + 1 |-> h - i]
<1>1. k \in Nat /\ h - 1 - (m - 1) = k + 1 /\ h - (k + 1) = m
  OBVIOUS
<1> HIDE DEF k
<1>2. s \in Seq(Int) /\ Len(s) = k
  BY <1>1
<1>3. t \in Seq(Int) /\ Len(t) = k + 1
  BY <1>1
<1>4. /\ Append(s, m) \in Seq(Int) /\ Len(Append(s, m)) = k + 1
      /\ \A i \in 1 .. k : Append(s, m)[i] = s[i]
      /\ Append(s, m)[k + 1] = m
  BY <1>1, <1>2, AppendProperties
<1>5. ASSUME NEW i \in 1 .. k + 1 PROVE Append(s, m)[i] = t[i]
  <2>1. CASE i \in 1 .. k
    BY <1>4, <2>1
  <2>2. CASE i = k + 1
    BY <1>1, <1>4, <2>2
  <2> QED
    BY <1>1, <2>1, <2>2
<1>6. Append(s, m) = t
  <2> HIDE DEF s, t
  <2> QED
    BY <1>3, <1>4, <1>5, SeqEqual
<1> QED
  BY <1>1, <1>6 DEF k

\* The last statement of the loop.
LEMMA GemmDKData ==
    ASSUME DInv, IInv', NEW w \in Warps, GemmDK(w)
    PROVE  DInv'
<1> DEFINE C == {Copy({"Qt"}, Q(m)) : m \in NextRows(w)}
           D == {Copy({"dOt"}, dO(m)) : m \in NextRows(w)}
           right == good[w] /\ Complete({"dS", "dO"}, dS(w))
           l == IF NextRows(w) # {} THEN "barrier" ELSE "sync_loop"
<1>1. /\ IInv /\ StateOK /\ MemoryOK /\ WarpData(w) /\ TodoInv(w) /\ PlaceInv(w)
      /\ pc[w] = "gemm_dk" /\ m_block[w] \in Int /\ KeptInv(w) /\ IssuedInv(w)
  <2>1. IInv
    BY DataParts
  <2> QED
    BY <2>1, WarpParts, DataParts DEF GemmDK
<1>2. right = TRUE
  BY <1>1, LoopReads DEF WarpData
<1>3. /\ UNCHANGED <<launch, waiting, smem, todo, gdKV>>
      /\ pc' = [pc EXCEPT ![w] = l]
      /\ pend' = [pend EXCEPT ![w] = pend[w] \cup C]
      /\ m_block' = [m_block EXCEPT ![w] = m_block[w] - 1]
      /\ good' = [good EXCEPT ![w] = TRUE]
      /\ acc' = [acc EXCEPT ![w] = Append(acc[w], m_block[w])]
  BY <1>1, <1>2 DEF GemmDK, Goto, Issue, StateOK, TypeOK
<1> HIDE DEF right
<1>4. /\ n_block(w) \in Blocks /\ mmin(w) \in Nat /\ mmax(w) \in Int
      /\ mmin(w) <= m_block[w] /\ m_block[w] <= mmax(w) - 1
  <2>1. pc[w] \in InLoop /\ pc[w] \in InBlock
    BY <1>1 DEF InLoop, InBlock
  <2> QED
    BY <1>1, <2>1, BlockOf DEF PlaceInv
<1>5. NextRows(w) = IF m_block[w] > mmin(w) THEN {m_block[w] - 1} ELSE {}
  <2> DEFINE m == m_block[w]
             lo == mmin(w)
  <2>1. m \in Int /\ lo \in Nat /\ NextRows(w) = {m - 1} \cap (lo .. m)
    BY <1>1, <1>4 DEF NextRows
  <2> HIDE DEF m, lo
  <2>2. NextRows(w) = IF m > lo THEN {m - 1} ELSE {}
    BY <2>1
  <2> QED
    BY <2>2 DEF m, lo
<1>6. l \in {"barrier", "sync_loop"} /\ (l = "barrier" <=> NextRows(w) # {})
  OBVIOUS
<1> HIDE DEF l
<1>7. /\ pc'[w] = l /\ m_block'[w] = m_block[w] - 1 /\ todo'[w] = todo[w]
      /\ pend'[w] = pend[w] \cup C /\ smem' = smem /\ gdKV' = gdKV
      /\ acc'[w] = Append(acc[w], m_block[w]) /\ good'[w]
  <2> HIDE DEF C
  <2> QED
    BY <1>1, <1>3 DEF StateOK, TypeOK
<1>8. \A v \in Warps \ {w} : SameData(v)
  BY <1>1, <1>3 DEF SameData, SameWarp, StateOK, TypeOK
<1>9. /\ CB' = CB /\ Blocks' = Blocks /\ params' = params
      /\ \A j : Left(j)' = Left(j) /\ \A n : Active(n)' = Active(n)
      /\ \A n : Visited(n)' = Visited(n) /\ Result(n)' = Result(n)
  BY <1>3, SameList, SameResults
<1>10. Pos(w)' = Pos(w) /\ n_block(w)' = n_block(w) /\ mmax(w)' = mmax(w)
  BY <1>7, <1>9 DEF Pos, n_block, mmax
<1>11. IssuedInv(w)'
  <2>1. /\ Issued(w) = D /\ pend[w] \subseteq D
        /\ \A e \in D \ pend[w] : Has(w, e.cells, e.content)
    BY <1>1 DEF Issued, IssuedInv
  <2>2. Issued(w)' = C \cup D
    <3>1. CASE NextRows(w) # {}
      <4>1. NextRows(w) = {m_block[w] - 1}
        BY <1>5, <3>1
      <4>2. /\ C = {Copy({"Qt"}, Q(m_block[w] - 1))}
            /\ D = {Copy({"dOt"}, dO(m_block[w] - 1))}
        BY <4>1
      <4>3. Issued(w)' = {Copy({"Qt"}, Q(m_block[w] - 1)),
                          Copy({"dOt"}, dO(m_block[w] - 1))}
        BY <1>6, <1>7, <3>1 DEF Issued, Copy, Q, dO, Holds
      <4> QED
        BY <4>2, <4>3
    <3>2. CASE NextRows(w) = {}
      <4>1. Issued(w)' = {}
        BY <1>6, <1>7, <3>2 DEF Issued
      <4> QED
        BY <3>2, <4>1
    <3> QED
      BY <3>1, <3>2
  <2> HIDE DEF C, D
  <2> QED
    BY <1>7, <2>1, <2>2 DEF IssuedInv, Has
<1>12. KeptInv(w)'
  <2>1. Has(w, {"dS", "dO"}, Holds("dS", <<n_block(w), m_block[w]>>))
    BY <1>1 DEF KeptInv, dS
  <2>2. m_block'[w] + 1 = m_block[w]
    BY <1>1, <1>7
  <2> QED
    BY <1>6, <1>7, <1>10, <2>1, <2>2 DEF KeptInv, Has, Holds
<1>13. LastInv(w)'
  BY <1>6, <1>7 DEF LastInv
<1>14. AccInv(w)'
  <2>1. acc[w] = [i \in 1 .. mmax(w) - 1 - m_block[w] |-> mmax(w) - i]
    BY <1>1 DEF WarpData, AccInv, InLoop
  <2>2. acc'[w] = [i \in 1 .. mmax(w) - 1 - (m_block[w] - 1) |-> mmax(w) - i]
    <3> DEFINE h == mmax(w)
               m == m_block[w]
               s == [i \in 1 .. h - 1 - m |-> h - i]
               t == [i \in 1 .. h - 1 - (m - 1) |-> h - i]
    <3>1. h \in Int /\ m \in Int /\ m <= h - 1
      BY <1>1, <1>4
    <3>2. acc[w] = s /\ acc'[w] = Append(acc[w], m)
      BY <1>7, <2>1
    <3> HIDE DEF h, m
    <3>3. Append(s, m) = t
      BY <3>1, AppendRow
    <3> HIDE DEF s, t
    <3>4. acc'[w] = t
      BY <3>2, <3>3
    <3> QED
      BY <3>4 DEF t, h, m
  <2> QED
    BY <1>7, <1>10, <2>2 DEF AccInv
<1>15. StoreInv(w)'
  BY <1>1, <1>7, <1>9, <1>10 DEF WarpData, StoreInv, Unset
<1>16. MemoryOK'
  BY <1>1, <1>7, <1>9 DEF MemoryOK
<1> QED
  BY <1>3, <1>7, <1>8, <1>11, <1>12, <1>13, <1>14, <1>15, <1>16, DataStep
     DEF WarpData

\* The cells of what may be in flight.
LEMMA IssuedAt ==
    ASSUME NEW w \in Warps, pc[w] \in PCs, NEW e \in Issued(w)
    PROVE  /\ pc[w] = "barrier" => e.cells \in {{"Qt"}, {"dOt"}}
           /\ pc[w] = "sync_q" => e.cells = sQ
           /\ pc[w] = "sync_do" => e.cells = {"dO"}
           /\ pc[w] = "sync_ds" => e.cells \in {{"P"}, {"dS"}}
           /\ pc[w] = "sync_p" => e.cells \in {{"dO"}, {"dOt"}}
           /\ pc[w] = "gemm_dk" => e.cells = {"dOt"}
           /\ pc[w] \in {"sync_kv", "sync_kt", "barrier", "sync_q", "sync_do",
                         "sync_ds", "sync_p", "gemm_dk", "sync_dkv"}
<1>1. pc[w] \in {"sync_kv", "sync_kt", "barrier", "sync_q", "sync_do",
                 "sync_ds", "sync_p", "gemm_dk", "sync_dkv"}
  BY DEF Issued
<1>2. pc[w] = "barrier" => e.cells \in {{"Qt"}, {"dOt"}}
  BY AccessFields DEF Issued
<1>3. pc[w] = "sync_q" => e.cells = sQ
  BY AccessFields DEF Issued
<1>4. pc[w] = "sync_do" => e.cells = {"dO"}
  BY AccessFields DEF Issued
<1>5. pc[w] = "sync_ds" => e.cells \in {{"P"}, {"dS"}}
  BY AccessFields DEF Issued
<1>6. pc[w] = "sync_p" => e.cells \in {{"dO"}, {"dOt"}}
  BY AccessFields DEF Issued
<1>7. pc[w] = "gemm_dk" => e.cells = {"dOt"}
  BY AccessFields DEF Issued
<1> QED
  BY <1>1, <1>2, <1>3, <1>4, <1>5, <1>6, <1>7

\* Different accesses that may be in flight are to different cells.
LEMMA IssuedApart ==
    ASSUME NEW w \in Warps, pc[w] \in PCs,
           NEW e \in Issued(w), NEW f \in Issued(w), e # f
    PROVE  e.cells \cap f.cells = {}
<1>1. \A i, j \in NextRows(w) : i = j
  BY DEF NextRows
<1>2. sK \cap sV = {} /\ {"Qt"} \cap {"dOt"} = {} /\ {"P"} \cap {"dS"} = {}
      /\ {"dO"} \cap {"dOt"} = {}
  BY DEF sK, sV
<1>3. CASE pc[w] = "sync_kv"
  BY <1>2, <1>3, AccessFields DEF Issued
<1>4. CASE pc[w] = "barrier"
  BY <1>2, <1>4, AccessFields DEF Issued
<1>5. CASE pc[w] = "sync_ds"
  BY <1>2, <1>5, AccessFields DEF Issued
<1>6. CASE pc[w] \in {"sync_p", "gemm_dk"}
  <2>1. \A x \in {e, f} : \/ x = Store({"dO"}, dS(w))
                          \/ \E m \in NextRows(w) : x = Copy({"dOt"}, dO(m))
    BY <1>6 DEF Issued
  <2> QED
    BY <1>1, <1>2, <2>1, AccessFields
<1>7. CASE pc[w] \in {"sync_kt", "sync_q", "sync_do", "sync_dkv"}
  BY <1>7 DEF Issued
<1> QED
  BY <1>3, <1>4, <1>5, <1>6, <1>7, IssuedAt

\* An access lands.
LEMMA LandData ==
    ASSUME DInv, IInv', NEW w \in Warps, Land(w)
    PROVE  DInv'
<1> PICK e \in pend[w] :
        /\ pend' = [pend EXCEPT ![w] = @ \ {e}]
        /\ smem' = [c \in Cells |->
                       IF c \in e.cells
                       THEN [smem[c] EXCEPT ![w] = e.content] ELSE smem[c]]
  BY DEF Land
<1>1. UNCHANGED <<launch, pc, waiting, todo, m_block, acc, good, gdKV>>
  BY DEF Land
<1>2. /\ IInv /\ StateOK /\ MemoryOK /\ WarpData(w) /\ pc[w] \in PCs
      /\ good[w] /\ IssuedInv(w) /\ KeptInv(w) /\ AccInv(w) /\ StoreInv(w)
  <2>1. IInv
    BY DataParts
  <2> QED
    BY <2>1, WarpParts, DataParts
<1>3. e \in Issued(w) /\ e.cells \subseteq Cells
  BY <1>2, IssuedCells DEF IssuedInv
<1>4. /\ \A c \in Cells : smem'[c][w] = IF c \in e.cells THEN e.content
                                        ELSE smem[c][w]
      /\ \A c \in Cells, v \in Warps \ {w} : smem'[c][v] = smem[c][v]
      /\ DOMAIN smem' = Cells /\ \A c \in Cells : DOMAIN smem'[c] = Warps
  BY <1>2 DEF MemoryOK
<1>5. pend'[w] = pend[w] \ {e} /\ \A v \in Warps \ {w} : pend'[v] = pend[v]
  BY <1>2 DEF StateOK
<1>6. \A v \in Warps \ {w} : SameData(v)
  BY <1>1, <1>4, <1>5 DEF SameData, SameWarp
<1>7. /\ CB' = CB /\ Blocks' = Blocks
      /\ \A j : Left(j)' = Left(j) /\ \A n : Active(n)' = Active(n)
      /\ \A n : Visited(n)' = Visited(n) /\ Result(n)' = Result(n)
  BY <1>1, SameList, SameResults
<1>8. Pos(w)' = Pos(w) /\ n_block(w)' = n_block(w) /\ mmax(w)' = mmax(w)
  BY <1>1, SameList DEF Pos, n_block, mmax
<1>9. IssuedInv(w)'
  <2>1. Issued(w)' = Issued(w)
    BY <1>1, SameIssued
  <2>2. ASSUME NEW f \in Issued(w), f \notin pend'[w], NEW c \in f.cells
        PROVE  smem'[c][w] = f.content
    <3>1. c \in Cells
      BY <2>2, IssuedCells
    <3>2. CASE f = e
      BY <1>4, <2>2, <3>1, <3>2
    <3>3. CASE f # e
      <4>1. c \notin e.cells
        BY <1>2, <1>3, <2>2, <3>3, IssuedApart
      <4>2. smem[c][w] = f.content
        BY <1>2, <1>5, <2>2, <3>3 DEF IssuedInv, Has
      <4> QED
        BY <1>4, <3>1, <4>1, <4>2
    <3> QED
      BY <3>2, <3>3
  <2> QED
    BY <1>2, <1>5, <2>1, <2>2 DEF IssuedInv, Has
<1>10. KeptInv(w)'
  <2> DEFINE X == e.cells
  <2>1. X \in SUBSET Cells /\ \A c \in Cells \ X : smem'[c][w] = smem[c][w]
    BY <1>3, <1>4
  <2>2. /\ pc[w] \notin {"read_kv", "sync_read", "read_kt", "sync_pre", "sts_q",
                         "gemm_s", "gemm_dp", "gemm_dv", "sync_loop", "read_dkv"}
        /\ pc[w] = "sync_q" => X \cap {"Qt", "dOt"} = {}
        /\ pc[w] = "sync_do" => X = {"dO"}
        /\ pc[w] = "sync_ds" => X \cap {"Qt", "dO", "dOt"} = {}
        /\ pc[w] = "sync_p" => X \cap {"Qt", "P", "dS"} = {}
        /\ pc[w] \in {"gemm_dk", "barrier"} => X \cap {"dS", "dO"} = {}
    BY <1>2, <1>3, IssuedAt DEF sQ
  <2> HIDE DEF X
  <2> QED
    BY <1>1, <1>2, <2>1, <2>2, SameKept
<1>11. LastInv(w)'
  BY <1>1, <1>2, <1>3, IssuedAt DEF LastInv
<1>12. AccInv(w)' /\ StoreInv(w)' /\ good'[w]
  BY <1>1, <1>2, <1>7, <1>8 DEF AccInv, StoreInv, Unset
<1>13. MemoryOK'
  BY <1>1, <1>2, <1>4, <1>7 DEF MemoryOK
<1> QED
  BY <1>1, <1>6, <1>9, <1>10, <1>11, <1>12, <1>13, DataStep DEF WarpData

\* Behind a barrier what it waits for has landed, for every warp.
LEMMA Released ==
    ASSUME DInv, IInv', NEW v \in Warps, pc[v] \in DOMAIN After,
           pc'[v] = After[pc[v]],
           \A e \in pend[v] : e.kind # Awaits(pc[v]),
           UNCHANGED <<launch, todo, m_block, acc, good, pend, smem, gdKV>>
    PROVE  WarpData(v)'
<1>1. /\ StateOK /\ WarpData(v) /\ pc[v] \in PCs
      /\ good[v] /\ IssuedInv(v) /\ KeptInv(v) /\ AccInv(v) /\ StoreInv(v)
  <2>1. IInv
    BY DataParts
  <2> QED
    BY <2>1, WarpParts, DataParts
<1>2. /\ CB' = CB /\ Blocks' = Blocks
      /\ \A j : Left(j)' = Left(j) /\ \A n : Active(n)' = Active(n)
      /\ \A n : Visited(n)' = Visited(n) /\ Result(n)' = Result(n)
  BY SameList, SameResults
<1>3. /\ Pos(v)' = Pos(v) /\ n_block(v)' = n_block(v)
      /\ mmax(v)' = mmax(v) /\ mmin(v)' = mmin(v)
  BY <1>2, SameList DEF Pos, n_block, mmax, mmin
<1>4. /\ K(v)' = K(v) /\ V(v)' = V(v) /\ Kt(v)' = Kt(v)
      /\ Q(m_block[v])' = Q(m_block[v]) /\ dO(m_block[v])' = dO(m_block[v])
      /\ P(v)' = P(v) /\ dS(v)' = dS(v)
  BY <1>3, SameContents
<1>5. /\ pend[v] \subseteq Issued(v)
      /\ \A e \in Issued(v) : e.kind = Awaits(pc[v]) => Has(v, e.cells, e.content)
  BY <1>1 DEF IssuedInv
<1>6. IssuedInv(v)'
  <2>1. CASE pc[v] = "sync_p"
    <3> DEFINE C == {Copy({"dOt"}, dO(m)) : m \in NextRows(v)}
    <3>1. Issued(v) = {Store({"dO"}, dS(v))} \cup C
      BY <2>1 DEF Issued
    <3>2. Issued(v)' = C
      <4>1. NextRows(v)' = NextRows(v)
        BY <1>3 DEF NextRows
      <4>2. C' = C
        BY <4>1 DEF Copy, dO, Holds
      <4>3. pc'[v] = "gemm_dk"
        BY <2>1 DEF After
      <4> QED
        BY <4>2, <4>3 DEF Issued
    <3>3. Awaits(pc[v]) = "store" /\ Store({"dO"}, dS(v)).kind = "store"
      BY <2>1, AccessFields DEF Awaits
    <3> HIDE DEF C
    <3>4. pend[v] \subseteq C
      BY <1>5, <3>1, <3>3
    <3>5. \A e \in C \ pend[v] : Has(v, e.cells, e.content)
      BY <1>1, <3>1 DEF IssuedInv
    <3> QED
      BY <3>2, <3>4, <3>5 DEF IssuedInv, Has
  <2>2. CASE pc[v] # "sync_p"
    <3>1. \A e \in Issued(v) : e.kind = Awaits(pc[v])
      BY <2>2, AccessFields DEF Issued, Awaits, After
    <3>2. pend[v] = {}
      BY <1>5, <3>1
    <3>3. Issued(v)' = {}
      BY <2>2 DEF Issued, After
    <3> QED
      BY <3>2, <3>3 DEF IssuedInv
  <2> QED
    BY <2>1, <2>2
<1>7. KeptInv(v)'
  <2>1. CASE pc[v] = "sync_kv"
    <3>1. Has(v, sK, K(v)) /\ Has(v, sV, V(v))
      BY <1>5, <2>1, AccessFields DEF Issued, Awaits
    <3>2. pc'[v] = "read_kv"
      BY <2>1 DEF After
    <3> QED
      BY <1>4, <3>1, <3>2 DEF KeptInv, Has, sK, sV
  <2>2. CASE pc[v] = "sync_kt"
    <3>1. Has(v, sK, Kt(v))
      BY <1>5, <2>2, AccessFields DEF Issued, Awaits
    <3>2. pc'[v] = "read_kt"
      BY <2>2 DEF After
    <3> QED
      BY <1>4, <3>1, <3>2 DEF KeptInv, Has, sK
  <2>3. CASE pc[v] = "barrier"
    <3>1. Has(v, {"Qt"}, Q(m_block[v])) /\ Has(v, {"dOt"}, dO(m_block[v]))
      BY <1>5, <2>3, AccessFields DEF Issued, Awaits
    <3>2. pc'[v] = "sts_q"
      BY <2>3 DEF After
    <3> QED
      BY <1>4, <3>1, <3>2 DEF KeptInv, Has
  <2>4. CASE pc[v] = "sync_q"
    <3>1. Has(v, sQ, Q(m_block[v]))
      BY <1>5, <2>4, AccessFields DEF Issued, Awaits
    <3>2. Has(v, {"Qt"}, Q(m_block[v])) /\ Has(v, {"dOt"}, dO(m_block[v]))
      BY <1>1, <2>4 DEF KeptInv
    <3>3. pc'[v] = "gemm_s"
      BY <2>4 DEF After
    <3> QED
      BY <1>4, <3>1, <3>2, <3>3 DEF KeptInv, Has, sQ
  <2>5. CASE pc[v] = "sync_do"
    <3>1. Has(v, {"dO"}, dO(m_block[v]))
      BY <1>5, <2>5, AccessFields DEF Issued, Awaits
    <3>2. Has(v, {"Qt"}, Q(m_block[v])) /\ Has(v, {"dOt"}, dO(m_block[v]))
      BY <1>1, <2>5 DEF KeptInv
    <3>3. pc'[v] = "gemm_dp"
      BY <2>5 DEF After
    <3> QED
      BY <1>4, <3>1, <3>2, <3>3 DEF KeptInv, Has
  <2>6. CASE pc[v] = "sync_ds"
    <3>1. Has(v, {"P"}, P(v)) /\ Has(v, {"dS"}, dS(v))
      BY <1>5, <2>6, AccessFields DEF Issued, Awaits
    <3>2. Has(v, {"Qt"}, Q(m_block[v]))
      BY <1>1, <2>6 DEF KeptInv
    <3>3. pc'[v] = "gemm_dv"
      BY <2>6 DEF After
    <3> QED
      BY <1>4, <3>1, <3>2, <3>3 DEF KeptInv, Has
  <2>7. CASE pc[v] = "sync_p"
    <3>1. Store({"dO"}, dS(v)) \in Issued(v) /\ Awaits(pc[v]) = "store"
      BY <2>7 DEF Issued, Awaits
    <3>2. Has(v, {"dO"}, dS(v)) /\ Has(v, {"dS"}, dS(v))
      BY <1>1, <1>5, <2>7, <3>1, AccessFields DEF KeptInv
    <3>3. pc'[v] = "gemm_dk"
      BY <2>7 DEF After
    <3> QED
      BY <1>4, <3>2, <3>3 DEF KeptInv, Has
  <2>8. CASE pc[v] = "sync_dkv"
    <3>1. Has(v, Cells, Holds("dKV", acc[v]))
      <4> DEFINE s == Store(Cells, Holds("dKV", acc[v]))
      <4>1. s \in Issued(v) /\ Awaits(pc[v]) = "store"
        BY <2>8, CellNames DEF Issued, Awaits
      <4>2. /\ s.kind = "store" /\ s.cells = Cells
            /\ s.content = Holds("dKV", acc[v])
        BY AccessFields
      <4> HIDE DEF s
      <4> QED
        BY <1>5, <4>1, <4>2
    <3>2. pc'[v] = "read_dkv"
      BY <2>8 DEF After
    <3> QED
      BY <3>1, <3>2 DEF KeptInv, Has, Holds, Cells
  <2>9. CASE pc[v] \in {"sync_first", "sync_read", "sync_pre", "sync_loop"}
    <3>1. pc'[v] \in {"sts_kv", "sts_kt", "load", "sts_dkv"}
      BY <2>9 DEF After
    <3> QED
      BY <3>1 DEF KeptInv
  <2> QED
    BY <2>1, <2>2, <2>3, <2>4, <2>5, <2>6, <2>7, <2>8, <2>9 DEF After
<1>8. LastInv(v)'
  <2>1. pc'[v] \notin {"start", "sync_first", "done"}
    BY DEF After
  <2> QED
    BY <2>1 DEF LastInv
<1>9. AccInv(v)'
  <2>1. pc[v] \in Prologue \cup InLoop \cup Epilogue
    BY AfterPlace DEF InBlock
  <2> QED
    BY <1>1, <1>3, <2>1 DEF AccInv
<1>10. StoreInv(v)' /\ good'[v]
  BY <1>1, <1>2, <1>3 DEF StoreInv, Unset
<1> QED
  BY <1>6, <1>7, <1>8, <1>9, <1>10 DEF WarpData

\* A warp comes to a barrier, or all leave it.
LEMMA ArriveData ==
    ASSUME DInv, IInv', NEW w \in Warps, Arrive(w)
    PROVE  DInv'
<1>1. /\ UNCHANGED <<launch, todo, m_block, acc, good, pend, smem, gdKV>>
      /\ pc[w] \in DOMAIN After
      /\ \A e \in pend[w] : e.kind # Awaits(pc[w])
  BY DEF Arrive
<1>2. ASSUME NEW v \in Warps PROVE WarpData(v)'
  <2>1. CASE waiting \cup {w} # Warps
    <3>1. pc' = pc
      BY <2>1 DEF Arrive
    <3>2. SameData(v)
      BY <1>1, <3>1 DEF SameData, SameWarp
    <3> QED
      BY <1>1, <3>2, DataParts, DataKept
  <2>2. CASE waiting \cup {w} = Warps
    <3>1. pc'[v] = After[pc[v]]
      BY <2>2 DEF Arrive
    <3>2. pc[v] \in DOMAIN After /\ \A e \in pend[v] : e.kind # Awaits(pc[v])
      BY <1>1, <2>2, DataParts DEF IInv, BarrierInv
    <3> QED
      BY <1>1, <3>1, <3>2, Released
  <2> QED
    BY <2>1, <2>2
<1>3. MemoryOK' /\ ~params'.balance
  <2>1. params' = params /\ Blocks' = Blocks
    BY <1>1, SameList
  <2> QED
    BY <1>1, <2>1 DEF DInv, MemoryOK
<1> QED
  BY <1>2, <1>3 DEF DInv, WarpData

\* A step of a warp keeps the data.
LEMMA RunData ==
    ASSUME DInv, IInv', NEW w \in Warps, Run(w)
    PROVE  DInv'
<1>1. CASE Skip(w)
  BY <1>1, SkipData
<1>2. CASE Enter(w)
  BY <1>2, EnterData
<1>3. CASE StoreKV(w) \/ ReadKV(w) \/ StoreKt(w) \/ ReadKt(w) \/ Load(w)
  BY <1>3, PrologueData
<1>4. CASE StoreQ(w) \/ GemmS(w) \/ GemmDP(w) \/ GemmDV(w) \/ StoreDKV(w)
  BY <1>4, LoopData
<1>5. CASE GemmDK(w)
  BY <1>5, GemmDKData
<1>6. CASE ReadDKV(w)
  BY <1>6, ReadDKVData
<1>7. CASE Exit(w)
  BY <1>7, ExitData
<1>8. CASE Arrive(w)
  BY <1>8, ArriveData
<1> QED
  BY <1>1, <1>2, <1>3, <1>4, <1>5, <1>6, <1>7, <1>8 DEF Run

\* A state that stutters keeps the data.
LEMMA StutterData ==
    ASSUME DInv, IInv', UNCHANGED vars
    PROVE  DInv'
<1>1. UNCHANGED <<params, cta, launch, pc, waiting, pend, smem, todo, m_block,
                  acc, good, gdKV>>
  BY DEF vars, launch, shared
<1>2. ASSUME NEW v \in Warps PROVE WarpData(v)'
  <2>1. SameData(v)
    BY <1>1 DEF SameData, SameWarp
  <2> QED
    BY <1>1, <2>1, DataParts, DataKept
<1>3. MemoryOK' /\ ~params'.balance
  BY <1>1 DEF DInv, MemoryOK, Blocks
<1> QED
  BY <1>2, <1>3 DEF DInv, WarpData

\* The inductive invariant of the data: unless a CTA does a block and its
\* mirror image, the cells hold what the warps take them to hold.
THEOREM InductiveData ==
    ASSUME \A a \in Args : ~BwdParams(a).balance
    PROVE  Spec => []DInv
<1>1. Init => DInv
  <2>1. Init => ~params.balance
    BY InitHolds, StaysUnbalanced DEF IInv
  <2> QED
    BY <2>1, InitData
<1>2. DInv /\ IInv' /\ [Next]_vars => DInv'
  <2> SUFFICES ASSUME DInv, IInv', [Next]_vars
               PROVE  DInv'
    OBVIOUS
  <2>1. CASE UNCHANGED vars
    BY <2>1, StutterData
  <2>2. ASSUME NEW w \in Warps, Run(w) PROVE DInv'
    BY <2>2, RunData
  <2>3. ASSUME NEW w \in Warps, Land(w) PROVE DInv'
    BY <2>3, LandData
  <2> QED
    BY <2>1, <2>2, <2>3 DEF Next
<1> QED
  BY <1>1, <1>2, Inductive, PTL DEF Spec

\* When the warps are done the CTA has stored dK and dV of each of its column
\* blocks, from the tiles of that block, with each row block folded once and in
\* order.  Balanced calls are left out for the race that run
\* bwd_race shows.
THEOREM StoresComplete ==
    ASSUME \A a \in Args : ~BwdParams(a).balance
    PROVE  Spec => []StoresAll
<1>1. DInv => StoresAll
  <2> SUFFICES ASSUME DInv, Finished, NEW n \in Blocks, NEW w \in Warps
               PROVE  gdKV[n][w] =
                          IF ~(\E i \in DOMAIN CB : CB[i] = n)
                          THEN Unset ELSE Result(n)
    BY DEF StoresAll, CB, Result
  <2>1. IInv /\ StateOK /\ StoreInv(w) /\ pc[w] = "done"
    BY DataParts DEF Finished
  <2>2. TodoInv(w) /\ todo[w] = <<>>
    BY <2>1, WarpParts DEF PlaceInv
  <2>3. Pos(w) = Len(CB) + 1
    BY <2>1, <2>2, PosType
  <2>4. \A i \in DOMAIN CB : i < Pos(w)
    BY <2>1, <2>3, CallType
  <2> QED
    BY <2>1, <2>4 DEF StoreInv
<1> QED
  BY <1>1, InductiveData, PTL
=============================================================================
