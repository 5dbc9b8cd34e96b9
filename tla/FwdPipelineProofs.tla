-------------------------- MODULE FwdPipelineProofs ---------------------------
(***************************************************************************)
(* FwdPipeline for every tile shape, number of warps, assignment of rows to*)
(* warps and call: the barriers join the warps at the same statement of the*)
(* same visit, shared memory is read without a race, and the kernel with   *)
(* shared memory implements FlashFwd.                                      *)
(*                                                                         *)
(* The argument: all warps have passed the same number of barriers         *)
(* (Synced), and that number determines the statements a warp may be in;   *)
(* in each stretch of code between two barriers the rows that are written  *)
(* are not the rows that are read (StoreInv, MemoryInv), with one          *)
(* exception, the epilogue, where nothing is in flight at the barrier that *)
(* does not wait.                                                          *)
(***************************************************************************)
EXTENDS FwdPipeline, FwdTilingProofs, SequenceTheorems

\* The CTA has rows and blocks, so it runs the loops.
Looping == ~NoRows(params, m_block) /\ ~ExitsEarly(params, m_block)

Prologue == {"sync_q", "read_q", "sync_k"}
InLoop   == {"sts_k", "sync_s", "gemm_s", "sync_o", "gemm_o"}
Epilogue == {"barrier_o", "sts_o", "sync_out", "read_o", "store_o"}

\* Barriers warp w has passed: two in the prologue and two per visit.
Passed(w) ==
    LET v == 2 * (nmax - 1 - n_block[w])
    IN  IF pc[w] \in {"start", "sync_q"} THEN 0
        ELSE IF pc[w] \in {"read_q", "sync_k"} THEN 1
        ELSE IF pc[w] \in {"sts_k", "sync_s", "barrier_o"} THEN v + 2
        ELSE IF pc[w] \in {"gemm_s", "sync_o", "sts_o", "sync_out"} THEN v + 3
        ELSE IF pc[w] \in {"gemm_o", "read_o", "store_o"} THEN v + 4
        ELSE IF Looping THEN v + 4 ELSE 0

Synced == \A w, v \in Warps : Passed(w) = Passed(v)

\* Where a warp is in the loops tells the block it works on.
PlaceInv(w) ==
    /\ pc[w] \notin {"start", "done"} => Looping
    /\ pc[w] = "start" => step[w] = 0 /\ visits[w] = <<>>
    /\ pc[w] \in Prologue =>
           step[w] = 0 /\ visits[w] = <<>> /\ n_block[w] = nmax - 1
    /\ pc[w] \in InLoop =>
           /\ nmin <= n_block[w] /\ n_block[w] <= nmax - 1
           /\ step[w] = 0 <=> n_block[w] = nmax - 1
    /\ pc[w] \in Epilogue => n_block[w] = nmin - 1 /\ step[w] # 0
    /\ pc[w] = "done" => IF Looping THEN n_block[w] = nmin - 1 /\ step[w] # 0
                                    ELSE step[w] = 0 /\ visits[w] = <<>>

\* The warps that wait are at a barrier and have nothing in flight that it
\* waits for; the last to arrive does not wait.
BarrierInv ==
    /\ waiting # Warps
    /\ \A w \in waiting : /\ pc[w] \in DOMAIN After
                          /\ WaitsForStores(pc[w]) => pend[w] = <<>>

\* The barriers at which a store may be in flight, and what was stored.
Storing == {"sync_q", "sync_s", "sync_o", "sync_out"}
Target(w) ==
    IF pc[w] = "sync_q" THEN MovedBy(w)
    ELSE IF pc[w] = "sync_s" THEN KeysMovedBy(w)
    ELSE IF pc[w] = "sync_o" THEN {ValueRow(c) : c \in KeysMovedBy(w)}
    ELSE OwnedBy(w)
Content(w) ==
    IF pc[w] = "sync_q" THEN Holds("Q", 0)
    ELSE IF pc[w] = "sync_s" THEN Holds("K", n_block[w])
    ELSE IF pc[w] = "sync_o" THEN Holds("V", n_block[w])
    ELSE Holds("O", w)

StoreInv(w) ==
    IF pend[w] = <<>>
    THEN pc[w] \in Storing =>
             \A r \in Target(w) : smem[r] = Content(w)
    ELSE /\ pc[w] \in Storing
         /\ pend[w] = <<[rows |-> Target(w), content |-> Content(w)]>>

\* What the next statement of w reads is the tile it should read.
MemoryInv(w) ==
    /\ pc[w] = "read_q" => \A r \in Rows : smem[r] = Holds("Q", 0)
    /\ pc[w] = "gemm_s" =>
           \A c \in KeyRows : smem[c] = Holds("K", n_block[w])
    /\ pc[w] = "gemm_o" =>
           \A r \in ValueRows : smem[r] = Holds("V", n_block[w])
    /\ pc[w] = "read_o" => \A r \in Rows : smem[r] = Holds("O", Owner(r))

\* What the registers hold.
RegisterInv(w) ==
    /\ pc[w] \in Prologue \cup {"sts_k"} => rK[w] = n_block[w]
    /\ pc[w] \in {"sync_o", "gemm_o"} =>
           /\ n_block[w] > nmin => rK[w] = n_block[w] - 1
           /\ score[w] = n_block[w]
    /\ pc[w] \in {"sync_s", "gemm_s"} => rV[w] = n_block[w]
    /\ pc[w] \in InLoop \cup {"sync_k"} => rQ[w]
    /\ \A i \in DOMAIN visits[w] : /\ visits[w][i].k = visits[w][i].n
                                   /\ visits[w][i].v = visits[w][i].n
    /\ pc[w] = "store_o" =>
           \A r \in MovedBy(w) : rO[r] = Holds("O", Owner(r))

Visit == [n : Int, masking : BOOLEAN, k : Int, v : Int]

\* The types the proofs need, TypeOK among them.
StateOK ==
    /\ TypeOK
    /\ arg \in Args /\ params = SetParams(arg) /\ m_block \in Nat
    /\ visits \in [Warps -> Seq(Visit)]
    /\ DOMAIN pend = Warps

IInv == /\ StateOK /\ Synced /\ BarrierInv
        /\ \A w \in Warps : PlaceInv(w) /\ StoreInv(w) /\ MemoryInv(w)
                            /\ RegisterInv(w)

-----------------------------------------------------------------------------
(* Warps, rows and blocks *)

\* Every row of a tile is moved, and accumulated, by a warp.
LEMMA WarpsOfRow ==
    ASSUME NEW r \in Nat
    PROVE  Owner(r) \in Warps /\ Mover(r) \in Warps
<1>1. r \in Int /\ RowAtom \in Nat \ {0} /\ CopyAtom \in Nat \ {0}
      /\ kNWarps \in Nat \ {0}
  BY WarpAssumption
<1>2. r \div RowAtom \in Int /\ r \div CopyAtom \in Int
  BY <1>1, DivMod
<1> QED
  BY <1>1, <1>2, DivMod DEF Owner, Mover, Warps

\* There is shared memory for every tile, and keys and values do not overlap.
LEMMA RowsOfSmem ==
    /\ Rows \subseteq SmemRows /\ KeyRows \subseteq SmemRows
    /\ ValueRows \subseteq SmemRows
    /\ KeyRows # {} /\ ValueRows # {} /\ KeyRows \cap ValueRows = {}
    /\ KeyRows \subseteq Nat /\ Rows \subseteq Nat
<1>1. kBlockM \in Nat \ {0} /\ kBlockN \in Nat \ {0}
  BY BlockAssumption
<1>2. /\ 2 * kBlockN \in Int /\ AtLeast(kBlockM, 2 * kBlockN) \in Int
      /\ AtLeast(kBlockM, 2 * kBlockN) >= kBlockM
      /\ AtLeast(kBlockM, 2 * kBlockN) >= 2 * kBlockN
  BY <1>1 DEF AtLeast
<1>3. 0 \in KeyRows /\ KeyRows \subseteq Nat /\ Rows \subseteq Nat
  BY <1>1 DEF KeyRows, Rows
<1>4. \A c \in KeyRows : /\ c \in SmemRows /\ ValueRow(c) \in SmemRows
                         /\ ValueRow(c) \notin KeyRows
  BY <1>1, <1>2 DEF KeyRows, SmemRows, ValueRow
<1>5. Rows \subseteq SmemRows
  BY <1>1, <1>2 DEF Rows, SmemRows
<1> QED
  BY <1>3, <1>4, <1>5 DEF ValueRows

\* A column of keys is the column of one row of values.
LEMMA ValueRowInjective ==
    ASSUME NEW c \in KeyRows, NEW d \in KeyRows, ValueRow(c) = ValueRow(d)
    PROVE  c = d
  BY BlockAssumption DEF ValueRow, KeyRows

\* The loop bounds of the row block.
LEMMA Bounds ==
    ASSUME StateOK
    PROVE  /\ nmin \in Nat /\ nmax \in Int
           /\ Looping => nmin < nmax
           /\ \A w \in Warps : n_block[w] \in Int /\ step[w] \in Nat
                               /\ pc[w] \in PCs
<1>1. IsParams(params) /\ m_block \in Nat
  BY ArgsAssumption, SetParamsType DEF StateOK
<1>2. nmin \in Nat /\ nmax \in Int /\ (Looping => nmin < nmax)
  BY <1>1, LoopBoundsType DEF nmin, nmax, Looping
<1> QED
  BY <1>2 DEF StateOK, TypeOK

\* A block that fills the rows is the one that TileIn finds.
LEMMA TileFound ==
    ASSUME NEW S, S # {}, NEW tile, NEW n \in 0 .. nmax,
           \A r \in S : smem[r] = Holds(tile, n)
    PROVE  TileIn(S, tile) = n
<1>1. \A k \in 0 .. nmax : (\A r \in S : smem[r] = Holds(tile, k)) => k = n
  BY DEF Holds
<1> QED
  BY <1>1 DEF TileIn

-----------------------------------------------------------------------------
(* Warps that have passed the same number of barriers *)

\* The number for each place in the code.
LEMMA PassedAt ==
    ASSUME StateOK, NEW w \in Warps
    PROVE  LET v == 2 * (nmax - 1 - n_block[w])
           IN  /\ pc[w] \in {"start", "sync_q"} => Passed(w) = 0
               /\ pc[w] \in {"read_q", "sync_k"} => Passed(w) = 1
               /\ pc[w] \in {"sts_k", "sync_s", "barrier_o"} =>
                      Passed(w) = v + 2
               /\ pc[w] \in {"gemm_s", "sync_o", "sts_o", "sync_out"} =>
                      Passed(w) = v + 3
               /\ pc[w] \in {"gemm_o", "read_o", "store_o"} =>
                      Passed(w) = v + 4
               /\ pc[w] = "done" => Passed(w) = IF Looping THEN v + 4 ELSE 0
  BY DEF Passed

\* Two warps at a barrier are at the same barrier of the same visit.
LEMMA SameStretch ==
    ASSUME StateOK, NEW w \in Warps, NEW v \in Warps,
           PlaceInv(w), PlaceInv(v), Passed(w) = Passed(v),
           pc[w] \in DOMAIN After, pc[v] \in DOMAIN After
    PROVE  pc[w] = pc[v] /\ n_block[w] = n_block[v]
<1> DEFINE a == n_block[w]
           b == n_block[v]
           lo == nmin
           hi == nmax
<1>1. a \in Int /\ b \in Int /\ lo \in Nat /\ hi \in Int
  BY Bounds
<1>2. /\ pc[w] \in {"sync_q", "sync_k", "sync_s", "sync_o", "barrier_o", "sync_out"}
      /\ pc[v] \in {"sync_q", "sync_k", "sync_s", "sync_o", "barrier_o", "sync_out"}
  BY DEF After
<1>3. /\ pc[w] \in {"sync_q", "sync_k"} => a = hi - 1
      /\ pc[w] \in {"sync_s", "sync_o"} => lo <= a /\ a <= hi - 1
      /\ pc[w] \in {"barrier_o", "sync_out"} => a = lo - 1
      /\ pc[w] \notin {"start", "done"} => Looping
      /\ pc[v] \in {"sync_q", "sync_k"} => b = hi - 1
      /\ pc[v] \in {"sync_s", "sync_o"} => lo <= b /\ b <= hi - 1
      /\ pc[v] \in {"barrier_o", "sync_out"} => b = lo - 1
  BY DEF PlaceInv, Prologue, InLoop, Epilogue
<1>4. lo < hi
  BY <1>2, <1>3, Bounds
<1>5. /\ pc[w] = "sync_q" => Passed(w) = 0
      /\ pc[w] = "sync_k" => Passed(w) = 1
      /\ pc[w] \in {"sync_s", "barrier_o"} => Passed(w) = 2 * (hi - 1 - a) + 2
      /\ pc[w] \in {"sync_o", "sync_out"} => Passed(w) = 2 * (hi - 1 - a) + 3
      /\ pc[v] = "sync_q" => Passed(v) = 0
      /\ pc[v] = "sync_k" => Passed(v) = 1
      /\ pc[v] \in {"sync_s", "barrier_o"} => Passed(v) = 2 * (hi - 1 - b) + 2
      /\ pc[v] \in {"sync_o", "sync_out"} => Passed(v) = 2 * (hi - 1 - b) + 3
  BY PassedAt
<1> HIDE DEF a, b, lo, hi
<1>6. a = b
  BY <1>1, <1>2, <1>3, <1>4, <1>5
<1>7. pc[w] = pc[v]
  BY <1>1, <1>2, <1>3, <1>4, <1>5, <1>6
<1> QED
  BY <1>6, <1>7 DEF a, b

\* While a warp may have a store in flight, the others read other rows.
LEMMA ReadersElsewhere ==
    ASSUME StateOK, NEW w \in Warps, NEW v \in Warps,
           PlaceInv(w), PlaceInv(v), Passed(w) = Passed(v), pc[w] \in Storing
    PROVE  /\ pc[v] \notin {"read_q", "read_o"}
           /\ pc[v] = "gemm_s" => pc[w] = "sync_o"
           /\ pc[v] = "gemm_o" => pc[w] = "sync_s"
<1> DEFINE a == n_block[w]
           b == n_block[v]
           lo == nmin
           hi == nmax
<1>1. a \in Int /\ b \in Int /\ lo \in Nat /\ hi \in Int
  BY Bounds
<1>2. pc[w] \in {"sync_q", "sync_s", "sync_o", "sync_out"}
  BY DEF Storing
<1>3. /\ pc[w] = "sync_q" => a = hi - 1
      /\ pc[w] \in {"sync_s", "sync_o"} => lo <= a /\ a <= hi - 1
      /\ pc[w] = "sync_out" => a = lo - 1
      /\ pc[w] \notin {"start", "done"} => Looping
      /\ pc[v] = "read_q" => b = hi - 1
      /\ pc[v] \in {"gemm_s", "gemm_o"} => lo <= b /\ b <= hi - 1
      /\ pc[v] = "read_o" => b = lo - 1
  BY DEF PlaceInv, Prologue, InLoop, Epilogue
<1>4. lo < hi
  BY <1>2, <1>3, Bounds
<1>5. /\ pc[w] = "sync_q" => Passed(w) = 0
      /\ pc[w] = "sync_s" => Passed(w) = 2 * (hi - 1 - a) + 2
      /\ pc[w] \in {"sync_o", "sync_out"} => Passed(w) = 2 * (hi - 1 - a) + 3
      /\ pc[v] = "read_q" => Passed(v) = 1
      /\ pc[v] = "gemm_s" => Passed(v) = 2 * (hi - 1 - b) + 3
      /\ pc[v] \in {"gemm_o", "read_o"} => Passed(v) = 2 * (hi - 1 - b) + 4
  BY PassedAt
<1> HIDE DEF a, b, lo, hi
<1>6. CASE pc[v] = "read_q"
  BY <1>1, <1>2, <1>3, <1>4, <1>5, <1>6
<1>7. CASE pc[v] = "read_o"
  BY <1>1, <1>2, <1>3, <1>4, <1>5, <1>7
<1>8. CASE pc[v] = "gemm_s"
  BY <1>1, <1>2, <1>3, <1>4, <1>5, <1>8
<1>9. CASE pc[v] = "gemm_o"
  BY <1>1, <1>2, <1>3, <1>4, <1>5, <1>9
<1> QED
  BY <1>6, <1>7, <1>8, <1>9

\* Two warps never store to the same rows.
LEMMA TargetsDisjoint ==
    ASSUME NEW w \in Warps, NEW v \in Warps, w # v, pc[w] = pc[v]
    PROVE  Target(w) \cap Target(v) = {}
<1>1. /\ MovedBy(w) \cap MovedBy(v) = {} /\ OwnedBy(w) \cap OwnedBy(v) = {}
      /\ KeysMovedBy(w) \cap KeysMovedBy(v) = {}
  BY DEF MovedBy, OwnedBy, KeysMovedBy
<1>2. {ValueRow(c) : c \in KeysMovedBy(w)}
          \cap {ValueRow(c) : c \in KeysMovedBy(v)} = {}
  BY ValueRowInjective DEF KeysMovedBy
<1> QED
  BY <1>1, <1>2 DEF Target

\* What a store is aimed at is shared memory, key rows or value rows.
LEMMA TargetRows ==
    ASSUME NEW w \in Warps
    PROVE  /\ Target(w) \subseteq SmemRows
           /\ pc[w] = "sync_s" => Target(w) \cap ValueRows = {}
           /\ pc[w] = "sync_o" => Target(w) \cap KeyRows = {}
<1>1. /\ MovedBy(w) \subseteq Rows /\ OwnedBy(w) \subseteq Rows
      /\ KeysMovedBy(w) \subseteq KeyRows
      /\ {ValueRow(c) : c \in KeysMovedBy(w)} \subseteq ValueRows
  BY DEF MovedBy, OwnedBy, KeysMovedBy, ValueRows
<1> QED
  BY <1>1, RowsOfSmem DEF Target

-----------------------------------------------------------------------------
(* Type correctness *)

\* The initial state satisfies the invariant.
LEMMA InitHolds == Init => IInv
<1> SUFFICES ASSUME Init PROVE IInv
  OBVIOUS
<1>1. arg \in Args /\ IsCall(arg)
  BY ArgsAssumption DEF Init
<1>2. m_block \in Nat
  <2>1. arg.seqlen_q \in Int /\ kBlockM \in Nat \ {0}
    BY <1>1, BlockAssumption DEF IsCall
  <2>2. CeilDiv(arg.seqlen_q, kBlockM) \in Int
    BY <2>1, CeilDivType
  <2> QED
    BY <2>2 DEF Init
<1>3. TypeOK
  <2>1. "start" \in PCs
    BY DEF PCs
  <2>2. \A w \in Warps : Len(pend[w]) <= 1
    BY DEF Init
  <2> QED
    BY <2>1, <2>2 DEF Init, TypeOK
<1>4. StateOK
  BY <1>1, <1>2, <1>3 DEF Init, StateOK
<1>5. Synced
  BY DEF Init, Synced, Passed
<1>6. 0 \in Warps
  BY WarpAssumption DEF Warps
<1>7. BarrierInv
  BY <1>6 DEF Init, BarrierInv
<1>8. ASSUME NEW w \in Warps
      PROVE  PlaceInv(w) /\ StoreInv(w) /\ MemoryInv(w) /\ RegisterInv(w)
  BY DEF Init, PlaceInv, StoreInv, MemoryInv, RegisterInv, Prologue, InLoop,
         Epilogue, Storing
<1> QED
  BY <1>4, <1>5, <1>7, <1>8 DEF IInv

-----------------------------------------------------------------------------
(* Steps of one warp between barriers *)

\* What the invariant says of warp v reads nothing else of the warps.
SameWarp(v) ==
    /\ pc'[v] = pc[v] /\ n_block'[v] = n_block[v] /\ step'[v] = step[v]
    /\ pend'[v] = pend[v] /\ rQ'[v] = rQ[v] /\ rK'[v] = rK[v]
    /\ rV'[v] = rV[v] /\ score'[v] = score[v] /\ visits'[v] = visits[v]
    /\ \A r \in MovedBy(v) : rO'[r] = rO[r]

WarpInv(w) == PlaceInv(w) /\ StoreInv(w) /\ MemoryInv(w) /\ RegisterInv(w)

\* Between barriers: where no store has been issued and none is in flight.
LEMMA NothingInFlight ==
    ASSUME NEW w \in Warps, StoreInv(w), pc[w] \notin Storing
    PROVE  pend[w] = <<>>
  BY DEF StoreInv

\* A warp that keeps its own state keeps the invariant.
LEMMA OthersKept ==
    ASSUME NEW v \in Warps, UNCHANGED launch, UNCHANGED smem, SameWarp(v),
           WarpInv(v)
    PROVE  WarpInv(v)' /\ Passed(v)' = Passed(v)
<1>1. UNCHANGED <<params, m_block, smem>>
  BY DEF launch
<1>2. nmin' = nmin /\ nmax' = nmax /\ Looping' = Looping
  BY <1>1 DEF nmin, nmax, Looping
<1>3. PlaceInv(v)'
  BY <1>2 DEF WarpInv, SameWarp, PlaceInv
<1>4. StoreInv(v)'
  <2>1. Target(v)' = Target(v) /\ Content(v)' = Content(v)
    BY DEF SameWarp, Target, Content
  <2> QED
    BY <1>1, <2>1 DEF WarpInv, SameWarp, StoreInv
<1>5. MemoryInv(v)'
  BY <1>1 DEF WarpInv, SameWarp, MemoryInv
<1>6. RegisterInv(v)'
  BY <1>2 DEF WarpInv, SameWarp, RegisterInv
<1>7. Passed(v)' = Passed(v)
  BY <1>2 DEF SameWarp, Passed
<1> QED
  BY <1>3, <1>4, <1>5, <1>6, <1>7 DEF WarpInv

\* A step of warp w that is no barrier and after which it reads no shared
\* memory before the next one.
LEMMA LocalStep ==
    ASSUME IInv, NEW w \in Warps, pc[w] \notin DOMAIN After,
           UNCHANGED <<launch, waiting, smem>>,
           \A v \in Warps \ {w} : SameWarp(v),
           pc'[w] \notin {"read_q", "gemm_s", "gemm_o", "read_o"},
           StateOK', Passed(w)' = Passed(w),
           PlaceInv(w)', StoreInv(w)', RegisterInv(w)'
    PROVE  IInv'
<1>1. \A v \in Warps : WarpInv(v)
  BY DEF IInv, WarpInv
<1>2. \A v \in Warps \ {w} : WarpInv(v)' /\ Passed(v)' = Passed(v)
  BY <1>1, OthersKept
<1>3. WarpInv(w)'
  BY DEF WarpInv, MemoryInv
<1>4. Synced'
  <2>1. \A v \in Warps : Passed(v)' = Passed(v)
    BY <1>2
  <2>2. \A u, v \in Warps : Passed(u) = Passed(v)
    BY DEF IInv, Synced
  <2> QED
    BY <2>1, <2>2 DEF Synced
<1>5. BarrierInv'
  <2>1. w \notin waiting /\ BarrierInv
    BY DEF IInv, BarrierInv
  <2>2. waiting \subseteq Warps
    BY DEF IInv, StateOK, TypeOK
  <2>3. \A v \in waiting : pc'[v] = pc[v] /\ pend'[v] = pend[v]
    BY <2>1, <2>2 DEF SameWarp
  <2> QED
    BY <2>1, <2>3 DEF BarrierInv
<1> QED
  BY <1>2, <1>3, <1>4, <1>5 DEF IInv, WarpInv

\* The conjuncts of the invariant that the steps below start from.
LEMMA WarpParts ==
    ASSUME IInv, NEW w \in Warps
    PROVE  /\ StateOK /\ PlaceInv(w) /\ StoreInv(w) /\ MemoryInv(w)
           /\ RegisterInv(w)
           /\ pc[w] \notin Storing => pend[w] = <<>>
  BY NothingInFlight DEF IInv

\* A warp that issues a store when it has none in flight then has one.
LEMMA OneStore ==
    ASSUME StateOK, NEW w \in Warps, NEW x, pend'[w] = <<x>>,
           \A v \in Warps \ {w} : SameWarp(v)
    PROVE  \A v \in Warps : Len(pend'[v]) <= 1
<1>1. Len(pend'[w]) <= 1
  OBVIOUS
<1>2. ASSUME NEW v \in Warps \ {w} PROVE Len(pend'[v]) <= 1
  BY DEF SameWarp, StateOK, TypeOK
<1> QED
  BY <1>1, <1>2

\* The CTA has no query rows.
LEMMA ReturnHolds ==
    ASSUME IInv, NEW w \in Warps, Return(w)
    PROVE  IInv'
<1>1. /\ StateOK /\ PlaceInv(w) /\ RegisterInv(w) /\ pend[w] = <<>>
      /\ pc[w] = "start" /\ ~Looping
  BY WarpParts DEF Return, Looping, Storing
<1>2. /\ UNCHANGED <<launch, waiting, smem>> /\ pc'[w] = "done"
      /\ \A v \in Warps \ {w} : SameWarp(v)
  BY <1>1 DEF Return, Goto, shared, regs, SameWarp, StateOK, TypeOK
<1>3. StateOK'
  <2>1. "done" \in PCs
    BY DEF PCs
  <2> QED
    BY <1>1, <2>1 DEF Return, Goto, launch, shared, regs, StateOK, TypeOK
<1>4. Looping' = Looping
  BY <1>2 DEF launch, Looping
<1>5. PlaceInv(w)' /\ StoreInv(w)' /\ RegisterInv(w)'
  BY <1>1, <1>2, <1>4 DEF Return, shared, regs, PlaceInv, StoreInv, RegisterInv,
     Prologue, InLoop, Epilogue, Storing
<1>6. Passed(w)' = Passed(w)
  BY <1>1, <1>2, <1>4 DEF Passed
<1>7. pc[w] \notin DOMAIN After
  BY <1>1 DEF After
<1> QED
  BY <1>2, <1>3, <1>5, <1>6, <1>7, LocalStep

\* The CTA has rows but no block to visit.
LEMMA StoreZeroHolds ==
    ASSUME IInv, NEW w \in Warps, StoreZero(w)
    PROVE  IInv'
<1>1. /\ StateOK /\ PlaceInv(w) /\ RegisterInv(w) /\ pend[w] = <<>>
      /\ pc[w] = "start" /\ ~Looping
  BY WarpParts DEF StoreZero, Looping, Storing
<1>2. /\ UNCHANGED <<launch, waiting, smem>> /\ pc'[w] = "done"
      /\ \A v \in Warps \ {w} : SameWarp(v)
  BY <1>1 DEF StoreZero, Goto, shared, regs, SameWarp, StateOK, TypeOK
<1>3. StateOK'
  <2>1. "done" \in PCs
    BY DEF PCs
  <2> QED
    BY <1>1, <2>1 DEF StoreZero, Goto, launch, shared, regs, StateOK, TypeOK
<1>4. Looping' = Looping
  BY <1>2 DEF launch, Looping
<1>5. PlaceInv(w)' /\ StoreInv(w)' /\ RegisterInv(w)'
  BY <1>1, <1>2, <1>4 DEF StoreZero, shared, regs, PlaceInv, StoreInv,
     RegisterInv, Prologue, InLoop, Epilogue, Storing
<1>6. Passed(w)' = Passed(w)
  BY <1>1, <1>2, <1>4 DEF Passed
<1>7. pc[w] \notin DOMAIN After
  BY <1>1 DEF After
<1> QED
  BY <1>2, <1>3, <1>5, <1>6, <1>7, LocalStep

\* Q is stored to shared memory.
LEMMA LoadQHolds ==
    ASSUME IInv, NEW w \in Warps, LoadQ(w)
    PROVE  IInv'
<1>1. /\ StateOK /\ PlaceInv(w) /\ RegisterInv(w) /\ pend[w] = <<>>
      /\ pc[w] = "start" /\ Looping
  BY WarpParts DEF LoadQ, Looping, Storing
<1>2. /\ UNCHANGED <<launch, waiting, smem>> /\ pc'[w] = "sync_q"
      /\ n_block'[w] = nmax - 1 /\ rK'[w] = nmax - 1
      /\ pend'[w] = <<[rows |-> MovedBy(w), content |-> Holds("Q", 0)]>>
      /\ \A v \in Warps \ {w} : SameWarp(v)
  BY <1>1 DEF LoadQ, Goto, Issue, SameWarp, StateOK, TypeOK
<1>3. StateOK'
  <2>1. "sync_q" \in PCs /\ nmax - 1 \in Int
    BY <1>1, Bounds DEF PCs
  <2>2. \A v \in Warps : Len(pend'[v]) <= 1
    BY <1>1, <1>2, OneStore
  <2>3. DOMAIN pend' = Warps
    BY <1>1 DEF LoadQ, Issue, StateOK
  <2> QED
    BY <1>1, <2>1, <2>2, <2>3 DEF LoadQ, Goto, launch, StateOK, TypeOK
<1>4. Looping' = Looping /\ nmax' = nmax /\ nmin' = nmin
  BY <1>2 DEF launch, Looping, nmax, nmin
<1>5. PlaceInv(w)'
  BY <1>1, <1>2, <1>4 DEF LoadQ, PlaceInv, Prologue, InLoop, Epilogue
<1>6. StoreInv(w)'
  BY <1>2 DEF StoreInv, Storing, Target, Content
<1>7. RegisterInv(w)'
  BY <1>1, <1>2, <1>4 DEF LoadQ, RegisterInv, Prologue, InLoop
<1>8. Passed(w)' = Passed(w)
  BY <1>1, <1>2 DEF Passed
<1>9. pc[w] \notin DOMAIN After
  BY <1>1 DEF After
<1> QED
  BY <1>2, <1>3, <1>5, <1>6, <1>7, <1>8, <1>9, LocalStep

\* The query rows are read.
LEMMA ReadQHolds ==
    ASSUME IInv, NEW w \in Warps, ReadQ(w)
    PROVE  IInv'
<1>1. /\ StateOK /\ PlaceInv(w) /\ RegisterInv(w) /\ pend[w] = <<>>
      /\ MemoryInv(w) /\ pc[w] = "read_q"
  BY WarpParts DEF ReadQ, Storing
<1>2. /\ UNCHANGED <<launch, waiting, smem>> /\ pc'[w] = "sync_k" /\ rQ'[w]
      /\ UNCHANGED pend
      /\ \A v \in Warps \ {w} : SameWarp(v)
  <2>1. \A r \in OwnedBy(w) : smem[r] = Holds("Q", 0)
    BY <1>1 DEF MemoryInv, OwnedBy
  <2>2. rQ'[w]
    BY <1>1, <2>1 DEF ReadQ, StateOK, TypeOK
  <2> QED
    BY <1>1, <2>2 DEF ReadQ, Goto, shared, SameWarp, StateOK, TypeOK
<1>3. StateOK'
  <2>1. "sync_k" \in PCs /\ n_block[w] \in Int
    BY <1>1, Bounds DEF PCs
  <2>2. (\A r \in OwnedBy(w) : smem[r] = Holds("Q", 0)) \in BOOLEAN
    OBVIOUS
  <2>3. rQ' \in [Warps -> BOOLEAN] /\ rV' \in [Warps -> Int]
    BY <1>1, <2>1, <2>2 DEF ReadQ, StateOK, TypeOK
  <2> QED
    BY <1>1, <2>1, <2>3 DEF ReadQ, Goto, launch, shared, StateOK, TypeOK
<1>4. Looping' = Looping /\ nmax' = nmax /\ nmin' = nmin
  BY <1>2 DEF launch, Looping, nmax, nmin
<1>5. PlaceInv(w)'
  BY <1>1, <1>2, <1>4 DEF ReadQ, PlaceInv, Prologue, InLoop, Epilogue
<1>6. StoreInv(w)'
  BY <1>1, <1>2 DEF StoreInv, Storing
<1>7. RegisterInv(w)'
  BY <1>1, <1>2, <1>4 DEF ReadQ, RegisterInv, Prologue, InLoop
<1>8. Passed(w)' = Passed(w)
  BY <1>1, <1>2 DEF Passed
<1>9. pc[w] \notin DOMAIN After
  BY <1>1 DEF After
<1> QED
  BY <1>2, <1>3, <1>5, <1>6, <1>7, <1>8, <1>9, LocalStep

\* Keys are stored to shared memory.
LEMMA StoreKHolds ==
    ASSUME IInv, NEW w \in Warps, StoreK(w)
    PROVE  IInv'
<1>1. /\ StateOK /\ PlaceInv(w) /\ RegisterInv(w) /\ pend[w] = <<>>
      /\ pc[w] = "sts_k"
  BY WarpParts DEF StoreK, Storing
<1>2. /\ UNCHANGED <<launch, waiting, smem>> /\ pc'[w] = "sync_s"
      /\ pend'[w] = <<[rows |-> KeysMovedBy(w),
                       content |-> Holds("K", n_block[w])]>>
      /\ n_block'[w] = n_block[w]
      /\ \A v \in Warps \ {w} : SameWarp(v)
  <2>1. rK[w] = n_block[w]
    BY <1>1 DEF RegisterInv
  <2> QED
    BY <1>1, <2>1 DEF StoreK, Goto, Issue, SameWarp, StateOK, TypeOK
<1>3. StateOK'
  <2>1. "sync_s" \in PCs /\ n_block[w] \in Int
    BY <1>1, Bounds DEF PCs
  <2>2. \A v \in Warps : Len(pend'[v]) <= 1
    BY <1>1, <1>2, OneStore
  <2>3. DOMAIN pend' = Warps
    BY <1>1 DEF StoreK, Issue, StateOK
  <2> QED
    BY <1>1, <2>1, <2>2, <2>3 DEF StoreK, Goto, launch, StateOK, TypeOK
<1>4. Looping' = Looping /\ nmax' = nmax /\ nmin' = nmin
  BY <1>2 DEF launch, Looping, nmax, nmin
<1>5. PlaceInv(w)'
  BY <1>1, <1>2, <1>4 DEF StoreK, PlaceInv, Prologue, InLoop, Epilogue
<1>6. StoreInv(w)'
  BY <1>2 DEF StoreInv, Storing, Target, Content, KeysMovedBy
<1>7. RegisterInv(w)'
  <2>1. rV'[w] = n_block'[w]
    BY <1>1, <1>2 DEF StoreK, StateOK, TypeOK
  <2> QED
    BY <1>1, <1>2, <1>4, <2>1 DEF StoreK, RegisterInv, Prologue, InLoop
<1>8. Passed(w)' = Passed(w)
  BY <1>1, <1>2, <1>4 DEF Passed
<1>9. pc[w] \notin DOMAIN After
  BY <1>1 DEF After
<1> QED
  BY <1>2, <1>3, <1>5, <1>6, <1>7, <1>8, <1>9, LocalStep

\* In the loop the block is one the scans of shared memory consider.
LEMMA BlockInRange ==
    ASSUME StateOK, NEW w \in Warps, PlaceInv(w), pc[w] \in InLoop
    PROVE  n_block[w] \in 0 .. nmax
  BY Bounds DEF PlaceInv

\* S = Q K^T, and values are stored to shared memory.
LEMMA GemmSHolds ==
    ASSUME IInv, NEW w \in Warps, GemmS(w)
    PROVE  IInv'
<1>1. /\ StateOK /\ PlaceInv(w) /\ RegisterInv(w) /\ pend[w] = <<>>
      /\ MemoryInv(w) /\ pc[w] = "gemm_s"
  BY WarpParts DEF GemmS, Storing
<1>2. rQ[w] = TRUE /\ rV[w] = n_block[w]
  BY <1>1 DEF RegisterInv, InLoop, StateOK, TypeOK
<1>3. TileIn(KeyRows, "K") = n_block[w]
  <2>1. n_block[w] \in 0 .. nmax
    BY <1>1, BlockInRange DEF InLoop
  <2>2. \A r \in KeyRows : smem[r] = Holds("K", n_block[w])
    BY <1>1 DEF MemoryInv
  <2>3. KeyRows # {}
    BY RowsOfSmem
  <2> QED
    BY <2>1, <2>2, <2>3, TileFound
<1>4. /\ UNCHANGED <<launch, waiting, smem>> /\ pc'[w] = "sync_o"
      /\ pend'[w] = <<[rows |-> {ValueRow(c) : c \in KeysMovedBy(w)},
                       content |-> Holds("V", n_block[w])]>>
      /\ n_block'[w] = n_block[w] /\ score'[w] = n_block[w]
      /\ \A v \in Warps \ {w} : SameWarp(v)
  <2> DEFINE x == [rows |-> {ValueRow(c) : c \in KeysMovedBy(w)},
                   content |-> Holds("V", n_block[w])]
  <2>1. /\ score' = [score EXCEPT ![w] = n_block[w]]
        /\ pend' = [pend EXCEPT ![w] = Append(@, x)]
    BY <1>2, <1>3 DEF GemmS, Issue
  <2> HIDE DEF x
  <2>2. \A v \in Warps \ {w} : SameWarp(v)
    BY <1>1, <2>1 DEF GemmS, Goto, SameWarp, StateOK, TypeOK
  <2>3. score'[w] = n_block[w] /\ pc'[w] = "sync_o"
    BY <1>1, <2>1 DEF GemmS, Goto, StateOK, TypeOK
  <2>4. pend'[w] = <<x>>
    BY <1>1, <2>1 DEF StateOK
  <2>5. pend'[w] = <<[rows |-> {ValueRow(c) : c \in KeysMovedBy(w)},
                      content |-> Holds("V", n_block[w])]>>
    BY <2>4 DEF x
  <2> QED
    BY <2>2, <2>3, <2>5 DEF GemmS
<1>5. StateOK'
  <2>1. "sync_o" \in PCs /\ n_block[w] \in Int
    BY <1>1, Bounds DEF PCs
  <2>2. \A v \in Warps : Len(pend'[v]) <= 1
    BY <1>1, <1>4, OneStore
  <2>3. DOMAIN pend' = Warps
    BY <1>1 DEF GemmS, Issue, StateOK
  <2>4. score' \in [Warps -> Int] /\ rK' \in [Warps -> Int]
    <3>1. score' = [score EXCEPT ![w] = n_block[w]]
      BY <1>2, <1>3 DEF GemmS
    <3> QED
      BY <1>1, <2>1, <3>1 DEF GemmS, StateOK, TypeOK
  <2> QED
    BY <1>1, <2>1, <2>2, <2>3, <2>4 DEF GemmS, Goto, launch, StateOK, TypeOK
<1>6. Looping' = Looping /\ nmax' = nmax /\ nmin' = nmin
  BY <1>4 DEF launch, Looping, nmax, nmin
<1>7. PlaceInv(w)'
  BY <1>1, <1>4, <1>6 DEF GemmS, PlaceInv, Prologue, InLoop, Epilogue
<1>8. StoreInv(w)'
  BY <1>4 DEF StoreInv, Storing, Target, Content, KeysMovedBy
<1>9. RegisterInv(w)'
  <2>1. n_block[w] > nmin => rK'[w] = n_block[w] - 1
    BY <1>1 DEF GemmS, StateOK, TypeOK
  <2> QED
    BY <1>1, <1>2, <1>4, <1>6, <2>1 DEF GemmS, RegisterInv, Prologue, InLoop
<1>10. Passed(w)' = Passed(w)
  BY <1>1, <1>4, <1>6 DEF Passed
<1>11. pc[w] \notin DOMAIN After
  BY <1>1 DEF After
<1> QED
  BY <1>4, <1>5, <1>7, <1>8, <1>9, <1>10, <1>11, LocalStep

\* The accumulated rows are stored to shared memory.
LEMMA StoreSOHolds ==
    ASSUME IInv, NEW w \in Warps, StoreSO(w)
    PROVE  IInv'
<1>1. /\ StateOK /\ PlaceInv(w) /\ RegisterInv(w) /\ pend[w] = <<>>
      /\ pc[w] = "sts_o"
  BY WarpParts DEF StoreSO, Storing
<1>2. /\ UNCHANGED <<launch, waiting, smem>> /\ pc'[w] = "sync_out"
      /\ pend'[w] = <<[rows |-> OwnedBy(w), content |-> Holds("O", w)]>>
      /\ n_block'[w] = n_block[w]
      /\ \A v \in Warps \ {w} : SameWarp(v)
  BY <1>1 DEF StoreSO, Goto, Issue, regs, SameWarp, StateOK, TypeOK
<1>3. StateOK'
  <2>1. "sync_out" \in PCs
    BY DEF PCs
  <2>2. \A v \in Warps : Len(pend'[v]) <= 1
    BY <1>1, <1>2, OneStore
  <2>3. DOMAIN pend' = Warps
    BY <1>1 DEF StoreSO, Issue, StateOK
  <2> QED
    BY <1>1, <2>1, <2>2, <2>3 DEF StoreSO, Goto, launch, regs, StateOK, TypeOK
<1>4. Looping' = Looping /\ nmax' = nmax /\ nmin' = nmin
  BY <1>2 DEF launch, Looping, nmax, nmin
<1>5. PlaceInv(w)'
  BY <1>1, <1>2, <1>4 DEF StoreSO, regs, PlaceInv, Prologue, InLoop, Epilogue
<1>6. StoreInv(w)'
  BY <1>2 DEF StoreInv, Storing, Target, Content, OwnedBy
<1>7. RegisterInv(w)'
  BY <1>1, <1>2, <1>4 DEF StoreSO, regs, RegisterInv, Prologue, InLoop
<1>8. Passed(w)' = Passed(w)
  BY <1>1, <1>2, <1>4 DEF Passed
<1>9. pc[w] \notin DOMAIN After
  BY <1>1 DEF After
<1> QED
  BY <1>2, <1>3, <1>5, <1>6, <1>7, <1>8, <1>9, LocalStep

\* The rows a warp moves are read back.
LEMMA ReadOHolds ==
    ASSUME IInv, NEW w \in Warps, ReadO(w)
    PROVE  IInv'
<1>1. /\ StateOK /\ PlaceInv(w) /\ RegisterInv(w) /\ pend[w] = <<>>
      /\ MemoryInv(w) /\ pc[w] = "read_o"
  BY WarpParts DEF ReadO, Storing
<1>2. /\ UNCHANGED <<launch, waiting, smem, pend, n_block, step, rQ, rK, rV,
                     score, visits>>
      /\ pc' = [pc EXCEPT ![w] = "store_o"] /\ pc'[w] = "store_o"
      /\ rO' = [r \in Rows |-> IF Mover(r) = w THEN smem[r] ELSE rO[r]]
  BY <1>1 DEF ReadO, Goto, shared, StateOK, TypeOK
<1>3. \A v \in Warps \ {w} : SameWarp(v)
  BY <1>2 DEF SameWarp, MovedBy
<1>4. StateOK'
  <2>1. "store_o" \in PCs
    BY DEF PCs
  <2> QED
    BY <1>1, <1>2, <2>1 DEF launch, StateOK, TypeOK
<1>5. Looping' = Looping /\ nmax' = nmax /\ nmin' = nmin
  BY <1>2 DEF launch, Looping, nmax, nmin
<1>6. PlaceInv(w)'
  BY <1>1, <1>2, <1>5 DEF PlaceInv, Prologue, InLoop, Epilogue
<1>7. StoreInv(w)'
  BY <1>1, <1>2 DEF StoreInv, Storing
<1>8. RegisterInv(w)'
  <2>1. \A r \in MovedBy(w) : rO'[r] = Holds("O", Owner(r))
    BY <1>1, <1>2 DEF MemoryInv, MovedBy
  <2> QED
    BY <1>1, <1>2, <1>5, <2>1 DEF RegisterInv, Prologue, InLoop
<1>9. Passed(w)' = Passed(w)
  BY <1>1, <1>2, <1>5 DEF Passed
<1>10. pc[w] \notin DOMAIN After
  BY <1>1 DEF After
<1> QED
  BY <1>2, <1>3, <1>4, <1>6, <1>7, <1>8, <1>9, <1>10, LocalStep

\* The rows a warp moves are stored to global memory.
LEMMA StoreOHolds ==
    ASSUME IInv, NEW w \in Warps, StoreO(w)
    PROVE  IInv'
<1>1. /\ StateOK /\ PlaceInv(w) /\ RegisterInv(w) /\ pend[w] = <<>>
      /\ pc[w] = "store_o" /\ Looping
  BY WarpParts DEF StoreO, Storing, PlaceInv
<1>2. /\ UNCHANGED <<launch, waiting, smem, pend, n_block, step, rQ, rK, rV,
                     score, visits, rO>>
      /\ pc' = [pc EXCEPT ![w] = "done"] /\ pc'[w] = "done"
  BY <1>1 DEF StoreO, Goto, shared, regs, StateOK, TypeOK
<1>3. \A v \in Warps \ {w} : SameWarp(v)
  BY <1>2 DEF SameWarp
<1>4. StateOK'
  <2>1. "done" \in PCs
    BY DEF PCs
  <2> QED
    BY <1>1, <1>2, <2>1 DEF launch, StateOK, TypeOK
<1>5. Looping' = Looping /\ nmax' = nmax /\ nmin' = nmin
  BY <1>2 DEF launch, Looping, nmax, nmin
<1>6. PlaceInv(w)'
  BY <1>1, <1>2, <1>5 DEF PlaceInv, Prologue, InLoop, Epilogue
<1>7. StoreInv(w)'
  BY <1>1, <1>2 DEF StoreInv, Storing
<1>8. RegisterInv(w)'
  BY <1>1, <1>2, <1>5 DEF RegisterInv, Prologue, InLoop
<1>9. Passed(w)' = Passed(w)
  BY <1>1, <1>2, <1>5 DEF Passed
<1>10. pc[w] \notin DOMAIN After
  BY <1>1 DEF After
<1> QED
  BY <1>2, <1>3, <1>4, <1>6, <1>7, <1>8, <1>9, <1>10, LocalStep

\* The visit a warp ends with O += P V: its keys and values are of the block.
Folding(w) == [n |-> n_block[w], masking |-> Loop(w) \in {"first", "masked"},
               k |-> n_block[w], v |-> n_block[w]]

\* O += P V folds the block the warp is at.
LEMMA GemmOFolds ==
    ASSUME IInv, NEW w \in Warps, GemmO(w)
    PROVE  /\ visits' = [visits EXCEPT ![w] = Append(@, Folding(w))]
           /\ step' = [step EXCEPT ![w] = IF Loop(w) \in {"first", "masked"}
                                          THEN @ + 1 ELSE @]
           /\ Folding(w) \in Visit
           /\ step'[w] \in Nat \ {0}
<1>1. /\ StateOK /\ PlaceInv(w) /\ RegisterInv(w) /\ MemoryInv(w)
      /\ pc[w] = "gemm_o"
  BY WarpParts DEF GemmO
<1>2. TileIn(ValueRows, "V") = n_block[w]
  <2>1. n_block[w] \in 0 .. nmax
    BY <1>1, BlockInRange DEF InLoop
  <2>2. \A r \in ValueRows : smem[r] = Holds("V", n_block[w])
    BY <1>1 DEF MemoryInv
  <2>3. ValueRows # {}
    BY RowsOfSmem
  <2> QED
    BY <2>1, <2>2, <2>3, TileFound
<1>3. score[w] = n_block[w]
  BY <1>1 DEF RegisterInv
<1>4. visits' = [visits EXCEPT ![w] = Append(@, Folding(w))]
  BY <1>2, <1>3 DEF GemmO, Folding
<1>5. step' = [step EXCEPT ![w] = IF Loop(w) \in {"first", "masked"}
                                  THEN @ + 1 ELSE @]
  BY DEF GemmO
<1>6. Folding(w) \in Visit
  <2>1. n_block[w] \in Int
    BY <1>1, Bounds
  <2> QED
    BY <2>1 DEF Folding, Visit
<1>7. step'[w] \in Nat \ {0}
  <2>1. step[w] \in Nat /\ (step[w] = 0 => Loop(w) = "first")
    BY <1>1, Bounds DEF Loop
  <2>2. step'[w] = IF Loop(w) \in {"first", "masked"} THEN step[w] + 1
                   ELSE step[w]
    BY <1>1, <1>5 DEF StateOK, TypeOK
  <2> QED
    BY <2>1, <2>2
<1> QED
  BY <1>4, <1>5, <1>6, <1>7

\* O += P V, after which the warp goes on to the next block or leaves the loop.
LEMMA GemmOHolds ==
    ASSUME IInv, NEW w \in Warps, GemmO(w)
    PROVE  IInv'
<1>1. /\ StateOK /\ PlaceInv(w) /\ RegisterInv(w) /\ pend[w] = <<>>
      /\ pc[w] = "gemm_o"
  BY WarpParts DEF GemmO, Storing
<1>2. /\ UNCHANGED <<launch, waiting, smem, pend, rQ, rK, rV, score, rO>>
      /\ n_block' = [n_block EXCEPT ![w] = @ - 1]
      /\ pc' = [pc EXCEPT ![w] = IF n_block[w] > nmin THEN "sts_k"
                                 ELSE "barrier_o"]
  BY DEF GemmO, Goto, shared
<1>3. n_block'[w] = n_block[w] - 1
  BY <1>1, <1>2 DEF StateOK, TypeOK
<1>4. pc'[w] = IF n_block[w] > nmin THEN "sts_k" ELSE "barrier_o"
  BY <1>1, <1>2 DEF StateOK, TypeOK
<1>5. \A v \in Warps \ {w} : SameWarp(v)
  <2>1. visits \in [Warps -> Seq(Visit)] /\ step \in [Warps -> Nat]
    BY <1>1 DEF StateOK, TypeOK
  <2>2. \A v \in Warps \ {w} : visits'[v] = visits[v] /\ step'[v] = step[v]
    BY <2>1, GemmOFolds
  <2> QED
    BY <1>1, <1>2, <2>2 DEF SameWarp, StateOK, TypeOK
<1>6. StateOK'
  <2>1. "sts_k" \in PCs /\ "barrier_o" \in PCs /\ n_block[w] - 1 \in Int
    BY <1>1, Bounds DEF PCs
  <2>2. visits \in [Warps -> Seq(Visit)] /\ step \in [Warps -> Nat]
    BY <1>1 DEF StateOK, TypeOK
  <2>3. Append(visits[w], Folding(w)) \in Seq(Visit)
    BY <2>2, GemmOFolds, AppendProperties
  <2>4. visits' \in [Warps -> Seq(Visit)]
    BY <2>2, <2>3, GemmOFolds
  <2>5. step' \in [Warps -> Nat]
    <3>1. step[w] + 1 \in Nat /\ step[w] \in Nat
      BY <2>2
    <3> QED
      BY <2>2, <3>1, GemmOFolds
  <2>6. n_block' \in [Warps -> Int] /\ pc' \in [Warps -> PCs]
    BY <1>1, <1>2, <2>1 DEF StateOK, TypeOK
  <2>7. TypeOK'
    BY <1>1, <1>2, <2>5, <2>6 DEF StateOK, TypeOK
  <2> QED
    BY <1>1, <1>2, <2>4, <2>7 DEF launch, StateOK
<1>7. Looping' = Looping /\ nmax' = nmax /\ nmin' = nmin
  BY <1>2 DEF launch, Looping, nmax, nmin
<1>8. /\ nmin <= n_block[w] /\ n_block[w] <= nmax - 1 /\ Looping
      /\ n_block[w] \in Int /\ nmin \in Nat /\ nmax \in Int
  BY <1>1, Bounds DEF PlaceInv, InLoop
<1>9. PlaceInv(w)'
  <2>1. step'[w] # 0
    BY GemmOFolds
  <2>2. CASE n_block[w] > nmin
    <3>1. /\ pc'[w] = "sts_k" /\ nmin <= n_block'[w]
          /\ n_block'[w] <= nmax - 1 /\ n_block'[w] # nmax - 1
      BY <1>3, <1>4, <1>8, <2>2
    <3> QED
      BY <1>7, <1>8, <2>1, <3>1 DEF PlaceInv, Prologue, InLoop, Epilogue
  <2>3. CASE ~(n_block[w] > nmin)
    <3>1. pc'[w] = "barrier_o" /\ n_block'[w] = nmin - 1
      BY <1>3, <1>4, <1>8, <2>3
    <3> QED
      BY <1>7, <1>8, <2>1, <3>1 DEF PlaceInv, Prologue, InLoop, Epilogue
  <2> QED
    BY <2>2, <2>3
<1>10. StoreInv(w)'
  BY <1>1, <1>2, <1>4 DEF StoreInv, Storing
<1>11. RegisterInv(w)'
  <2>1. n_block[w] > nmin => rK[w] = n_block[w] - 1
    BY <1>1 DEF RegisterInv
  <2>2. rQ[w]
    BY <1>1 DEF RegisterInv, InLoop
  <2>3. \A i \in DOMAIN visits'[w] : /\ visits'[w][i].k = visits'[w][i].n
                                     /\ visits'[w][i].v = visits'[w][i].n
    <3>1. visits[w] \in Seq(Visit) /\ visits'[w] = Append(visits[w], Folding(w))
      BY <1>1, GemmOFolds DEF StateOK
    <3>2. /\ DOMAIN visits'[w] = 1 .. (Len(visits[w]) + 1)
          /\ visits'[w][Len(visits[w]) + 1] = Folding(w)
          /\ \A i \in 1 .. Len(visits[w]) : visits'[w][i] = visits[w][i]
          /\ DOMAIN visits[w] = 1 .. Len(visits[w]) /\ Len(visits[w]) \in Nat
      BY <3>1, GemmOFolds, AppendProperties
    <3>3. \A i \in 1 .. Len(visits[w]) : /\ visits[w][i].k = visits[w][i].n
                                         /\ visits[w][i].v = visits[w][i].n
      BY <1>1, <3>2 DEF RegisterInv
    <3>4. ASSUME NEW i \in 1 .. (Len(visits[w]) + 1)
          PROVE  i \in 1 .. Len(visits[w]) \/ i = Len(visits[w]) + 1
      BY <3>2
    <3>5. Folding(w).k = Folding(w).n /\ Folding(w).v = Folding(w).n
      BY DEF Folding
    <3> QED
      BY <3>2, <3>3, <3>4, <3>5
  <2> QED
    BY <1>2, <1>3, <1>4, <1>7, <2>1, <2>2, <2>3 DEF RegisterInv, Prologue, InLoop
<1>12. Passed(w)' = Passed(w)
  <2>1. Passed(w) = 2 * (nmax - 1 - n_block[w]) + 4
    BY <1>1 DEF Passed
  <2>2. Passed(w)' = 2 * (nmax - 1 - n_block'[w]) + 2
    BY <1>4, <1>7 DEF Passed
  <2> QED
    BY <1>3, <1>8, <2>1, <2>2
<1>13. pc[w] \notin DOMAIN After
  BY <1>1 DEF After
<1>14. pc'[w] \notin {"read_q", "gemm_s", "gemm_o", "read_o"}
  BY <1>4
<1> QED
  BY <1>2, <1>5, <1>6, <1>9, <1>10, <1>11, <1>12, <1>13, <1>14, LocalStep

-----------------------------------------------------------------------------
(* Stores that land and barriers *)

\* A store lands: it changes no row that another warp reads or has stored.
LEMMA LandHolds ==
    ASSUME IInv, NEW w \in Warps, Land(w)
    PROVE  IInv'
<1>1. /\ StateOK /\ PlaceInv(w) /\ StoreInv(w) /\ RegisterInv(w)
      /\ pend[w] # <<>>
  BY WarpParts DEF Land
<1>2. /\ pc[w] \in Storing
      /\ pend[w] = <<[rows |-> Target(w), content |-> Content(w)]>>
  BY <1>1 DEF StoreInv
<1>3. /\ UNCHANGED <<launch, n_block, step, pc, waiting, regs>>
      /\ smem' = [r \in SmemRows |-> IF r \in Target(w) THEN Content(w)
                                     ELSE smem[r]]
      /\ pend' = [pend EXCEPT ![w] = <<>>]
  BY <1>2 DEF Land
<1>4. /\ Looping' = Looping /\ nmax' = nmax /\ nmin' = nmin
      /\ UNCHANGED <<arg, params, m_block, rQ, rK, rV, score, visits, rO>>
  BY <1>3 DEF launch, regs, Looping, nmax, nmin
<1>5. pend'[w] = <<>> /\ \A v \in Warps \ {w} : pend'[v] = pend[v]
  BY <1>1, <1>3 DEF StateOK
<1>6. StateOK'
  <2>1. \A v \in Warps : Len(pend'[v]) <= 1
    BY <1>1, <1>5 DEF StateOK, TypeOK
  <2>2. DOMAIN pend' = Warps
    BY <1>1, <1>3 DEF StateOK
  <2>3. TypeOK'
    BY <1>1, <1>3, <1>4, <2>1 DEF StateOK, TypeOK, regs
  <2> QED
    BY <1>1, <1>3, <1>4, <2>2, <2>3 DEF StateOK
<1>7. ASSUME NEW v \in Warps
      PROVE  /\ PlaceInv(v)' /\ RegisterInv(v)' /\ Passed(v)' = Passed(v)
             /\ Target(v)' = Target(v) /\ Content(v)' = Content(v)
  <2>1. PlaceInv(v) /\ RegisterInv(v)
    BY WarpParts
  <2>2. PlaceInv(v)' /\ RegisterInv(v)'
    BY <1>3, <1>4, <2>1 DEF PlaceInv, RegisterInv
  <2>3. Passed(v)' = Passed(v)
    BY <1>3, <1>4 DEF Passed
  <2>4. Target(v)' = Target(v) /\ Content(v)' = Content(v)
    BY <1>3 DEF Target, Content
  <2> QED
    BY <2>2, <2>3, <2>4
<1>8. Synced'
  BY <1>7 DEF IInv, Synced
<1>9. BarrierInv'
  <2>1. waiting \subseteq Warps
    BY <1>1 DEF StateOK, TypeOK
  <2> QED
    BY <1>3, <1>5, <2>1 DEF IInv, BarrierInv
<1>10. Target(w) \subseteq SmemRows
  BY TargetRows
<1>11. StoreInv(w)'
  BY <1>3, <1>5, <1>7, <1>10 DEF StoreInv
<1>12. ASSUME NEW v \in Warps \ {w}
       PROVE  StoreInv(v)'
  <2>1. StoreInv(v) /\ PlaceInv(v)
    BY WarpParts
  <2>2. CASE pend[v] = <<>> /\ pc[v] \in Storing
    <3>1. pc[w] \in DOMAIN After /\ pc[v] \in DOMAIN After
      BY <1>2, <2>2 DEF Storing, After
    <3>2. Passed(w) = Passed(v)
      BY DEF IInv, Synced
    <3>3. pc[w] = pc[v]
      BY <1>1, <2>1, <3>1, <3>2, SameStretch
    <3>4. Target(w) \cap Target(v) = {} /\ Target(v) \subseteq SmemRows
      BY <3>3, TargetsDisjoint, TargetRows
    <3>5. \A r \in Target(v) : smem'[r] = Content(v)
      BY <1>3, <2>1, <2>2, <3>4 DEF StoreInv
    <3> QED
      BY <1>5, <1>7, <2>2, <3>5 DEF StoreInv
  <2>3. CASE pend[v] = <<>> /\ pc[v] \notin Storing
    BY <1>3, <1>5, <2>3 DEF StoreInv
  <2>4. CASE pend[v] # <<>>
    BY <1>3, <1>5, <1>7, <2>1, <2>4 DEF StoreInv
  <2> QED
    BY <2>2, <2>3, <2>4
<1>13. MemoryInv(w)'
  BY <1>2, <1>3 DEF MemoryInv, Storing
<1>14. ASSUME NEW v \in Warps \ {w}
       PROVE  MemoryInv(v)'
  <2>1. MemoryInv(v) /\ PlaceInv(v) /\ Passed(w) = Passed(v)
    BY WarpParts DEF IInv, Synced
  <2>2. /\ pc[v] \notin {"read_q", "read_o"}
        /\ pc[v] = "gemm_s" => pc[w] = "sync_o"
        /\ pc[v] = "gemm_o" => pc[w] = "sync_s"
    BY <1>1, <1>2, <2>1, ReadersElsewhere
  <2>3. /\ pc[w] = "sync_s" => Target(w) \cap ValueRows = {}
        /\ pc[w] = "sync_o" => Target(w) \cap KeyRows = {}
    BY TargetRows
  <2>4. KeyRows \subseteq SmemRows /\ ValueRows \subseteq SmemRows
    BY RowsOfSmem
  <2>5. ASSUME pc[v] = "gemm_s"
        PROVE  \A c \in KeyRows : smem'[c] = Holds("K", n_block[v])
    BY <1>3, <2>1, <2>2, <2>3, <2>4, <2>5 DEF MemoryInv
  <2>6. ASSUME pc[v] = "gemm_o"
        PROVE  \A r \in ValueRows : smem'[r] = Holds("V", n_block[v])
    BY <1>3, <2>1, <2>2, <2>3, <2>4, <2>6 DEF MemoryInv
  <2> QED
    BY <1>3, <2>2, <2>5, <2>6 DEF MemoryInv
<1> QED
  BY <1>6, <1>7, <1>8, <1>9, <1>11, <1>12, <1>13, <1>14 DEF IInv

\* A warp arrives at a barrier that others have yet to reach.
LEMMA ArriveWaits ==
    ASSUME IInv, NEW w \in Warps, Arrive(w), waiting \cup {w} # Warps
    PROVE  IInv'
<1>1. /\ UNCHANGED <<launch, n_block, step, pc, pend, smem, regs>>
      /\ waiting' = waiting \cup {w}
      /\ pc[w] \in DOMAIN After /\ (WaitsForStores(pc[w]) => pend[w] = <<>>)
  BY DEF Arrive
<1>2. UNCHANGED <<arg, params, m_block, rQ, rK, rV, score, visits, rO>>
  BY <1>1 DEF launch, regs
<1>3. StateOK'
  BY <1>1, <1>2 DEF IInv, StateOK, TypeOK
<1>4. \A v \in Warps : SameWarp(v)
  BY <1>1, <1>2 DEF SameWarp
<1>5. \A v \in Warps : WarpInv(v)' /\ Passed(v)' = Passed(v)
  BY <1>1, <1>4, OthersKept DEF IInv, WarpInv
<1>6. Synced'
  BY <1>5 DEF IInv, Synced
<1>7. BarrierInv'
  BY <1>1 DEF IInv, BarrierInv
<1> QED
  BY <1>3, <1>5, <1>6, <1>7 DEF IInv, WarpInv

\* A warp passes one barrier.
LEMMA PassedOneMore ==
    ASSUME StateOK, NEW v \in Warps, PlaceInv(v), UNCHANGED <<launch, n_block>>,
           step'[v] = step[v], visits'[v] = visits[v],
           pc[v] \in DOMAIN After, pc'[v] = After[pc[v]]
    PROVE  Passed(v)' = Passed(v) + 1 /\ PlaceInv(v)'
<1> DEFINE a == n_block[v]
           lo == nmin
           hi == nmax
<1>1. a \in Int /\ lo \in Nat /\ hi \in Int /\ (Looping => lo < hi)
  BY Bounds
<1>2. a' = a /\ lo' = lo /\ hi' = hi /\ Looping' = Looping
  BY DEF launch, nmin, nmax, Looping
<1>3. pc[v] \in {"sync_q", "sync_k", "sync_s", "sync_o", "barrier_o", "sync_out"}
  BY DEF After
<1>4. /\ pc[v] = "sync_q" => pc'[v] = "read_q"
      /\ pc[v] = "sync_k" => pc'[v] = "sts_k"
      /\ pc[v] = "sync_s" => pc'[v] = "gemm_s"
      /\ pc[v] = "sync_o" => pc'[v] = "gemm_o"
      /\ pc[v] = "barrier_o" => pc'[v] = "sts_o"
      /\ pc[v] = "sync_out" => pc'[v] = "read_o"
  BY DEF After
<1>5. /\ pc[v] \in {"sync_q", "sync_k"} => a = hi - 1 /\ step[v] = 0
      /\ pc[v] \in {"sync_q", "sync_k"} => visits[v] = <<>>
      /\ pc[v] \in {"sync_s", "sync_o"} =>
             lo <= a /\ a <= hi - 1 /\ (step[v] = 0 <=> a = hi - 1)
      /\ pc[v] \in {"barrier_o", "sync_out"} => a = lo - 1 /\ step[v] # 0
      /\ Looping
  BY <1>3 DEF PlaceInv, Prologue, InLoop, Epilogue
<1>6. /\ pc[v] = "sync_q" => Passed(v) = 0 /\ Passed(v)' = 1
      /\ pc[v] = "sync_k" => Passed(v) = 1 /\ Passed(v)' = 2 * (hi - 1 - a) + 2
      /\ pc[v] \in {"sync_s", "barrier_o"} =>
             /\ Passed(v) = 2 * (hi - 1 - a) + 2
             /\ Passed(v)' = 2 * (hi - 1 - a) + 3
      /\ pc[v] \in {"sync_o", "sync_out"} =>
             /\ Passed(v) = 2 * (hi - 1 - a) + 3
             /\ Passed(v)' = 2 * (hi - 1 - a) + 4
  BY <1>2, <1>4 DEF Passed
<1> HIDE DEF a, lo, hi
<1>7. Passed(v)' = Passed(v) + 1
  BY <1>1, <1>3, <1>5, <1>6
<1>8. PlaceInv(v)'
  BY <1>1, <1>2, <1>3, <1>4, <1>5
     DEF PlaceInv, Prologue, InLoop, Epilogue, a, lo, hi
<1> QED
  BY <1>7, <1>8

\* The last warp arrives: all go on from the same barrier, and what they
\* stored before it, each its own rows, fills the tile.
LEMMA ArriveReleases ==
    ASSUME IInv, NEW w \in Warps, Arrive(w), waiting \cup {w} = Warps
    PROVE  IInv'
<1>1. /\ UNCHANGED <<launch, n_block, step, pend, smem, regs>>
      /\ waiting' = {} /\ pc' = [v \in Warps |-> After[pc[v]]]
  BY DEF Arrive
<1>2. /\ UNCHANGED <<arg, params, m_block, rQ, rK, rV, score, visits, rO>>
      /\ nmin' = nmin /\ nmax' = nmax
  BY <1>1 DEF launch, regs, nmin, nmax
<1>3. ASSUME NEW v \in Warps
      PROVE  /\ pc[v] \in DOMAIN After /\ pc'[v] = After[pc[v]]
             /\ pend[v] = <<>>
  <2>1. pc[v] \in DOMAIN After /\ (WaitsForStores(pc[v]) => pend[v] = <<>>)
    <3>1. v = w \/ v \in waiting
      OBVIOUS
    <3> QED
      BY <3>1 DEF Arrive, IInv, BarrierInv
  <2>2. pc[v] = "barrier_o" => pend[v] = <<>>
    BY WarpParts DEF Storing
  <2> QED
    BY <1>1, <2>1, <2>2 DEF WaitsForStores
<1>4. ASSUME NEW u \in Warps, NEW v \in Warps
      PROVE  pc[u] = pc[v] /\ n_block[u] = n_block[v]
  <2>1. StateOK /\ PlaceInv(u) /\ PlaceInv(v) /\ Passed(u) = Passed(v)
    BY WarpParts DEF IInv, Synced
  <2> QED
    BY <1>3, <2>1, SameStretch
<1>5. ASSUME NEW v \in Warps
      PROVE  \/ pc[v] = "sync_q" /\ pc'[v] = "read_q"
             \/ pc[v] = "sync_k" /\ pc'[v] = "sts_k"
             \/ pc[v] = "sync_s" /\ pc'[v] = "gemm_s"
             \/ pc[v] = "sync_o" /\ pc'[v] = "gemm_o"
             \/ pc[v] = "barrier_o" /\ pc'[v] = "sts_o"
             \/ pc[v] = "sync_out" /\ pc'[v] = "read_o"
  <2>1. pc[v] \in {"sync_q", "sync_k", "sync_s", "sync_o", "barrier_o",
                   "sync_out"}
    BY <1>3 DEF After
  <2>2. /\ pc[v] = "sync_q" => pc'[v] = "read_q"
        /\ pc[v] = "sync_k" => pc'[v] = "sts_k"
        /\ pc[v] = "sync_s" => pc'[v] = "gemm_s"
        /\ pc[v] = "sync_o" => pc'[v] = "gemm_o"
        /\ pc[v] = "barrier_o" => pc'[v] = "sts_o"
        /\ pc[v] = "sync_out" => pc'[v] = "read_o"
    BY <1>3 DEF After
  <2> QED
    BY <2>1, <2>2
<1>6. StateOK'
  <2>1. \A v \in Warps : pc'[v] \in PCs
    BY <1>5 DEF PCs
  <2>2. pc' \in [Warps -> PCs]
    BY <1>1, <2>1
  <2> QED
    BY <1>1, <1>2, <2>2 DEF IInv, StateOK, TypeOK
<1>7. ASSUME NEW v \in Warps
      PROVE  Passed(v)' = Passed(v) + 1 /\ PlaceInv(v)'
  <2>1. StateOK /\ PlaceInv(v)
    BY WarpParts
  <2> QED
    BY <1>1, <1>2, <1>3, <2>1, PassedOneMore
<1>8. Synced'
  BY <1>7 DEF IInv, Synced
<1>9. BarrierInv'
  <2>1. 0 \in Warps
    BY WarpAssumption DEF Warps
  <2> QED
    BY <1>1, <2>1 DEF BarrierInv
<1>10. ASSUME NEW v \in Warps PROVE StoreInv(v)'
  BY <1>1, <1>3, <1>5 DEF StoreInv, Storing
<1>11. ASSUME NEW u \in Warps, NEW r \in Target(u), pc[u] \in Storing
       PROVE  smem[r] = Content(u)
  BY <1>3, <1>11, WarpParts DEF StoreInv
<1>12. ASSUME NEW v \in Warps PROVE MemoryInv(v)'
  <2>1. ASSUME pc'[v] = "read_q", NEW r \in Rows
        PROVE  smem[r] = Holds("Q", 0)
    <3>1. Mover(r) \in Warps
      BY WarpsOfRow, RowsOfSmem
    <3>2. pc[Mover(r)] = "sync_q"
      BY <1>4, <1>5, <2>1, <3>1
    <3> QED
      BY <1>11, <3>1, <3>2 DEF Storing, Target, Content, MovedBy
  <2>2. ASSUME pc'[v] = "gemm_s", NEW c \in KeyRows
        PROVE  smem[c] = Holds("K", n_block[v])
    <3>1. Mover(c) \in Warps
      BY WarpsOfRow, RowsOfSmem
    <3>2. pc[Mover(c)] = "sync_s" /\ n_block[Mover(c)] = n_block[v]
      BY <1>4, <1>5, <2>2, <3>1
    <3> QED
      BY <1>11, <3>1, <3>2 DEF Storing, Target, Content, KeysMovedBy
  <2>3. ASSUME pc'[v] = "gemm_o", NEW r \in ValueRows
        PROVE  smem[r] = Holds("V", n_block[v])
    <3>1. PICK c \in KeyRows : r = ValueRow(c)
      BY DEF ValueRows
    <3>2. Mover(c) \in Warps
      BY WarpsOfRow, RowsOfSmem
    <3>3. pc[Mover(c)] = "sync_o" /\ n_block[Mover(c)] = n_block[v]
      BY <1>4, <1>5, <2>3, <3>2
    <3>4. r \in Target(Mover(c))
      BY <3>1, <3>3 DEF Target, KeysMovedBy
    <3> QED
      BY <1>11, <3>2, <3>3, <3>4 DEF Storing, Content
  <2>4. ASSUME pc'[v] = "read_o", NEW r \in Rows
        PROVE  smem[r] = Holds("O", Owner(r))
    <3>1. Owner(r) \in Warps
      BY WarpsOfRow, RowsOfSmem
    <3>2. pc[Owner(r)] = "sync_out"
      BY <1>4, <1>5, <2>4, <3>1
    <3> QED
      BY <1>11, <3>1, <3>2 DEF Storing, Target, Content, OwnedBy
  <2> QED
    BY <1>1, <2>1, <2>2, <2>3, <2>4 DEF MemoryInv
<1>13. ASSUME NEW v \in Warps PROVE RegisterInv(v)'
  <2>1. RegisterInv(v) /\ PlaceInv(v)
    BY WarpParts
  <2> QED
    BY <1>1, <1>2, <1>5, <2>1 DEF RegisterInv, Prologue, InLoop
<1> QED
  BY <1>6, <1>7, <1>8, <1>9, <1>10, <1>12, <1>13 DEF IInv

\* The invariant is inductive.
LEMMA StepHolds == IInv /\ [Next]_vars => IInv'
<1> SUFFICES ASSUME IInv, [Next]_vars PROVE IInv'
  OBVIOUS
<1>1. ASSUME NEW w \in Warps, Run(w) PROVE IInv'
  <2>1. ASSUME Arrive(w) PROVE IInv'
    BY <2>1, ArriveWaits, ArriveReleases
  <2> QED
    BY <1>1, <2>1, ReturnHolds, StoreZeroHolds, LoadQHolds, ReadQHolds,
       StoreKHolds, GemmSHolds, GemmOHolds, StoreSOHolds, ReadOHolds,
       StoreOHolds DEF Run
<1>2. ASSUME NEW w \in Warps, Land(w) PROVE IInv'
  BY <1>2, LandHolds
<1>3. ASSUME UNCHANGED vars PROVE IInv'
  <2>1. UNCHANGED <<launch, n_block, step, pc, shared, regs>>
    BY <1>3 DEF vars
  <2>2. UNCHANGED <<arg, params, m_block, n_block, step, pc, waiting, pend, smem,
                    rQ, rK, rV, score, visits, rO>>
    BY <2>1 DEF launch, shared, regs
  <2>3. StateOK'
    BY <2>2 DEF IInv, StateOK, TypeOK
  <2>4. \A v \in Warps : SameWarp(v)
    BY <2>2 DEF SameWarp
  <2>5. \A v \in Warps : WarpInv(v)' /\ Passed(v)' = Passed(v)
    BY <2>1, <2>2, <2>4, OthersKept DEF IInv, WarpInv
  <2>6. Synced' /\ BarrierInv'
    BY <2>2, <2>5 DEF IInv, Synced, BarrierInv
  <2> QED
    BY <2>3, <2>5, <2>6 DEF IInv, WarpInv
<1> QED
  BY <1>1, <1>2, <1>3 DEF Next

\* The invariant the properties below follow from.
THEOREM Inductive == Spec => []IInv
  BY InitHolds, StepHolds, PTL DEF Spec

\* The state keeps its shape, and a warp has at most one store in flight.
THEOREM TypeCorrect == Spec => []TypeOK
<1>1. IInv => TypeOK
  BY DEF IInv, StateOK
<1> QED
  BY <1>1, Inductive, PTL

-----------------------------------------------------------------------------
(* The properties *)

\* The rows a warp is about to read are not rows another has a store to in
\* flight: the barriers separate every store from every read.
THEOREM ReadsNeverRace == Spec => []NoRace
<1>1. IInv => NoRace
  <2> SUFFICES ASSUME IInv, NEW w \in Warps, NEW v \in Warps,
                      NEW i \in DOMAIN pend[v]
               PROVE  pend[v][i].rows \cap Reads(w) = {}
    BY DEF NoRace
  <2>1. /\ StateOK /\ PlaceInv(w) /\ PlaceInv(v) /\ StoreInv(v)
        /\ Passed(v) = Passed(w)
    BY WarpParts DEF IInv, Synced
  <2>2. pend[v] # <<>>
    OBVIOUS
  <2>3. /\ pc[v] \in Storing
        /\ pend[v] = <<[rows |-> Target(v), content |-> Content(v)]>>
    BY <2>1, <2>2 DEF StoreInv
  <2>4. pend[v][i].rows = Target(v)
    BY <2>3
  <2>5. /\ pc[w] \notin {"read_q", "read_o"}
        /\ pc[w] = "gemm_s" => pc[v] = "sync_o"
        /\ pc[w] = "gemm_o" => pc[v] = "sync_s"
    BY <2>1, <2>3, ReadersElsewhere
  <2>6. /\ pc[v] = "sync_s" => Target(v) \cap ValueRows = {}
        /\ pc[v] = "sync_o" => Target(v) \cap KeyRows = {}
    BY TargetRows
  <2>7. \/ Reads(w) = {}
        \/ pc[w] = "gemm_s" /\ Reads(w) = KeyRows
        \/ pc[w] = "gemm_o" /\ Reads(w) = ValueRows
    BY <2>5 DEF Reads
  <2> QED
    BY <2>4, <2>5, <2>6, <2>7
<1> QED
  BY <1>1, Inductive, PTL

\* The warps that are released together have arrived from the same statement
\* of the same visit.
THEOREM BarriersMatch == Spec => []SameBarrier
<1>1. IInv => SameBarrier
  <2> SUFFICES ASSUME IInv, NEW w \in waiting, NEW v \in Warps,
                      pc[v] \in DOMAIN After
               PROVE  pc[v] = pc[w] /\ n_block[v] = n_block[w]
    BY DEF SameBarrier
  <2>1. w \in Warps /\ pc[w] \in DOMAIN After
    BY DEF IInv, StateOK, TypeOK, BarrierInv
  <2>2. /\ StateOK /\ PlaceInv(w) /\ PlaceInv(v) /\ Passed(w) = Passed(v)
    BY <2>1, WarpParts DEF IInv, Synced
  <2> QED
    BY <2>1, <2>2, SameStretch
<1> QED
  BY <1>1, Inductive, PTL

-----------------------------------------------------------------------------
(* The operators of FlashFwd, which are those of FwdTiling *)

\* Integer arithmetic and the rows and warps of the tile.
LEMMA TiledBase ==
    /\ Tiled!Warps = Warps /\ Tiled!Rows = Rows /\ Tiled!Unset = Unset
    /\ \A r : Tiled!Owner(r) = Owner(r) /\ Tiled!Mover(r) = Mover(r)
    /\ \A a, b : Tiled!AtLeast(a, b) = AtLeast(a, b)
    /\ \A a, b : Tiled!AtMost(a, b) = AtMost(a, b)
    /\ \A a, b : Tiled!TruncDiv(a, b) = TruncDiv(a, b)
    /\ \A a, b : Tiled!CeilDiv(a, b) = CeilDiv(a, b)
<1>1. /\ Tiled!Warps = Warps /\ Tiled!Rows = Rows /\ Tiled!Unset = Unset
      /\ \A r : Tiled!Owner(r) = Owner(r) /\ Tiled!Mover(r) = Mover(r)
  BY DEF Tiled!Warps, Warps, Tiled!Rows, Rows, Tiled!Owner, Owner, Tiled!Mover,
         Mover, Tiled!Unset, Unset
<1>2. /\ \A a, b : Tiled!AtLeast(a, b) = AtLeast(a, b)
      /\ \A a, b : Tiled!AtMost(a, b) = AtMost(a, b)
  BY DEF Tiled!AtLeast, AtLeast, Tiled!AtMost, AtMost
<1>3. \A a, b : Tiled!TruncDiv(a, b) = TruncDiv(a, b)
  BY DEF Tiled!TruncDiv, TruncDiv
<1>4. \A a, b : Tiled!CeilDiv(a, b) = CeilDiv(a, b)
  BY <1>3 DEF Tiled!CeilDiv, CeilDiv
<1> QED
  BY <1>1, <1>2, <1>3, <1>4

\* The parameters the host sets.
LEMMA TiledParams ==
    \A a : Tiled!SetParams(a) = SetParams(a)
<1>1. \A w, n : Tiled!Clamp(w, n) = Clamp(w, n)
  BY DEF Tiled!Clamp, Clamp, Tiled!Unlimited, Unlimited
<1>2. \A a : Tiled!EffectiveCausal(a) = EffectiveCausal(a)
  BY DEF Tiled!EffectiveCausal, EffectiveCausal
<1>3. \A a : Tiled!ApiWindowRight(a) = ApiWindowRight(a)
  BY <1>1, <1>2 DEF Tiled!ApiWindowRight, ApiWindowRight
<1>4. \A a, l, r : Tiled!MaskParams(a, l, r) = MaskParams(a, l, r)
  BY DEF Tiled!MaskParams, MaskParams
<1>5. \A a : Tiled!FwdMask(a) = FwdMask(a)
  BY <1>1, <1>3, <1>4 DEF Tiled!FwdMask, FwdMask
<1> QED
  BY <1>5 DEF Tiled!SetParams, SetParams

\* The loop bounds and the phases.
LEMMA TiledLoops ==
    ASSUME NEW p, NEW m
    PROVE  /\ Tiled!NBlockMin(p, m) = NBlockMin(p, m)
           /\ Tiled!NBlockMax(p, m) = NBlockMax(p, m)
           /\ Tiled!NoRows(p, m) <=> NoRows(p, m)
           /\ Tiled!ExitsEarly(p, m) <=> ExitsEarly(p, m)
           /\ \A n, s : Tiled!NextPhase(p, m, n, s) = NextPhase(p, m, n, s)
<1>1. Tiled!NBlockMin(p, m) = NBlockMin(p, m)
  BY TiledBase DEF Tiled!NBlockMin, NBlockMin
<1>2. Tiled!NBlockMax(p, m) = NBlockMax(p, m)
  BY TiledBase DEF Tiled!NBlockMax, NBlockMax
<1>3. Tiled!NoRows(p, m) <=> NoRows(p, m)
  BY DEF Tiled!NoRows, NoRows
<1>4. Tiled!ExitsEarly(p, m) <=> ExitsEarly(p, m)
  BY <1>1, <1>2 DEF Tiled!ExitsEarly, ExitsEarly
<1>5. Tiled!NMaskingSteps(p) = NMaskingSteps(p)
  BY TiledBase DEF Tiled!NMaskingSteps, NMaskingSteps
<1>6. \A n, s : Tiled!NextPhase(p, m, n, s) = NextPhase(p, m, n, s)
  BY <1>1, <1>5 DEF Tiled!NextPhase, NextPhase
<1> QED
  BY <1>1, <1>2, <1>3, <1>4, <1>6

\* What is kept of the rows, and what is stored for them.
LEMMA TiledRows ==
    ASSUME NEW p, NEW m
    PROVE  /\ \A r : Tiled!Valid(p, m, r) <=> Valid(p, m, r)
           /\ \A s, r : Tiled!KeptCols(p, m, s, r) = KeptCols(p, m, s, r)
           /\ \A cols : Tiled!Lse(cols) = Lse(cols)
<1>1. /\ \A row : Tiled!ColLimitLeft(p, row) = ColLimitLeft(p, row)
      /\ \A row : Tiled!ColLimitRight(p, row) = ColLimitRight(p, row)
  BY TiledBase DEF Tiled!ColLimitLeft, ColLimitLeft, Tiled!ColLimitRight,
                   ColLimitRight
<1>2. \A masking, row, c :
          Tiled!Keep(p, masking, row, c) <=> Keep(p, masking, row, c)
  BY <1>1 DEF Tiled!Keep, Keep
<1>3. Tiled!Columns(p) = Columns(p)
  BY DEF Tiled!Columns, Columns
<1>4. \A s, r : Tiled!KeptCols(p, m, s, r) = KeptCols(p, m, s, r)
  BY <1>2, <1>3 DEF Tiled!KeptCols, KeptCols
<1>5. \A r : Tiled!Valid(p, m, r) <=> Valid(p, m, r)
  BY DEF Tiled!Valid, Valid
<1>6. \A cols : Tiled!Lse(cols) = Lse(cols)
  BY DEF Tiled!Lse, Lse
<1> QED
  BY <1>4, <1>5, <1>6

-----------------------------------------------------------------------------
(* The kernel with shared memory implements FlashFwd *)

\* The variables of FlashFwd.
TPhase == [w \in Warps |-> Phase(w)]
TBlock == [w \in Warps |-> IF step[w] = 0 THEN 0 ELSE n_block[w]]
TAcc == [w \in Warps |-> Folded(w)]

\* A step of warp w changes them for w only.
LEMMA TiledFrame ==
    ASSUME NEW w \in Warps, UNCHANGED launch,
           \A v \in Warps \ {w} : SameWarp(v)
    PROVE  /\ TPhase' = [TPhase EXCEPT ![w] = Phase(w)']
           /\ TBlock' = [TBlock EXCEPT ![w] = IF step'[w] = 0 THEN 0
                                              ELSE n_block'[w]]
           /\ TAcc' = [TAcc EXCEPT ![w] = Folded(w)']
<1>1. ASSUME NEW v \in Warps \ {w}
      PROVE  /\ Phase(v)' = Phase(v) /\ Folded(v)' = Folded(v)
             /\ step'[v] = step[v] /\ n_block'[v] = n_block[v]
  BY DEF SameWarp, Phase, Folded, launch
<1> QED
  BY <1>1 DEF TPhase, TBlock, TAcc

\* A step that leaves the phase, the block and the visits of every warp alone
\* is a stutter.
LEMMA TiledStutter ==
    ASSUME UNCHANGED <<launch, step, gO, gLSE>>,
           \A v \in Warps :
               /\ Phase(v)' = Phase(v) /\ visits'[v] = visits[v]
               /\ step[v] # 0 => n_block'[v] = n_block[v]
    PROVE  UNCHANGED Tiled!vars
<1>1. TPhase' = TPhase
  BY DEF TPhase
<1>2. TBlock' = TBlock
  BY DEF TBlock
<1>3. TAcc' = TAcc
  BY DEF TAcc, Folded
<1> QED
  BY <1>1, <1>2, <1>3 DEF Tiled!vars, TPhase, TBlock, TAcc, launch

\* A CTA without rows returns.
LEMMA ReturnTiled ==
    ASSUME IInv, NEW w \in Warps, Return(w)
    PROVE  Tiled!Return(w)
<1>1. /\ StateOK /\ pc[w] = "start" /\ step[w] = 0
      /\ pc' = [pc EXCEPT ![w] = "done"]
      /\ UNCHANGED <<arg, params, m_block, n_block, step, visits, gO, gLSE>>
      /\ NoRows(params, m_block)
  BY WarpParts DEF Return, Goto, launch, regs, PlaceInv
<1>2. \A v \in Warps \ {w} : SameWarp(v)
  BY <1>1 DEF Return, shared, regs, SameWarp, StateOK, TypeOK
<1>3. UNCHANGED launch
  BY DEF Return
<1>4. Phase(w) = "start" /\ Phase(w)' = "done"
  BY <1>1 DEF Phase, StateOK, TypeOK
<1>5. TPhase[w] = "start" /\ TPhase' = [TPhase EXCEPT ![w] = "done"]
  BY <1>2, <1>3, <1>4, TiledFrame DEF TPhase
<1>6. TBlock' = TBlock /\ TAcc' = TAcc
  BY <1>1 DEF TBlock, TAcc, Folded
<1>7. Tiled!NoRows(params, m_block)
  BY <1>1, TiledLoops
<1> QED
  BY <1>1, <1>5, <1>6, <1>7 DEF Tiled!Return, TPhase, TBlock, TAcc

\* A CTA without blocks stores zeros.
LEMMA StoreZeroTiled ==
    ASSUME IInv, NEW w \in Warps, StoreZero(w)
    PROVE  Tiled!StoreZero(w)
<1>1. /\ StateOK /\ pc[w] = "start" /\ step[w] = 0
      /\ pc' = [pc EXCEPT ![w] = "done"]
      /\ UNCHANGED <<arg, params, m_block, n_block, step, visits>>
      /\ ~NoRows(params, m_block) /\ ExitsEarly(params, m_block)
  BY WarpParts DEF StoreZero, Goto, launch, regs, PlaceInv
<1>2. \A v \in Warps \ {w} : SameWarp(v)
  BY <1>1 DEF StoreZero, shared, regs, SameWarp, StateOK, TypeOK
<1>3. UNCHANGED launch
  BY DEF StoreZero
<1>4. Phase(w) = "start" /\ Phase(w)' = "done"
  BY <1>1 DEF Phase, StateOK, TypeOK
<1>5. TPhase[w] = "start" /\ TPhase' = [TPhase EXCEPT ![w] = "done"]
  BY <1>2, <1>3, <1>4, TiledFrame DEF TPhase
<1>6. TBlock' = TBlock /\ TAcc' = TAcc
  BY <1>1 DEF TBlock, TAcc, Folded
<1>7. ~Tiled!NoRows(params, m_block) /\ Tiled!ExitsEarly(params, m_block)
  BY <1>1, TiledLoops
<1>8. \A r \in Rows : r \in Tiled!Moved(w) <=>
          r \in {s \in MovedBy(w) : Valid(params, m_block, s)}
  BY TiledBase, TiledRows DEF Tiled!Moved, MovedBy
<1>9. /\ gO' = [r \in Tiled!Rows |-> IF r \in Tiled!Moved(w) THEN {} ELSE gO[r]]
      /\ gLSE' = [r \in Tiled!Rows |-> IF r \in Tiled!Moved(w) THEN "inf"
                                       ELSE gLSE[r]]
  BY <1>8, TiledBase DEF StoreZero
<1> QED
  BY <1>1, <1>5, <1>6, <1>7, <1>9 DEF Tiled!StoreZero, TPhase, TBlock, TAcc

\* The LSE of the rows a warp owns is stored with the visits it folded.
LEMMA ReadOTiled ==
    ASSUME IInv, NEW w \in Warps, ReadO(w)
    PROVE  Tiled!StoreLse(w)
<1>1. /\ StateOK /\ pc[w] = "read_o"
      /\ pc' = [pc EXCEPT ![w] = "store_o"]
      /\ UNCHANGED <<arg, params, m_block, n_block, step, visits, gO>>
  BY WarpParts DEF ReadO, Goto, launch
<1>2. \A v \in Warps \ {w} : SameWarp(v)
  BY <1>1 DEF ReadO, shared, MovedBy, SameWarp, StateOK, TypeOK
<1>3. UNCHANGED launch
  BY DEF ReadO
<1>4. Phase(w) = "epilogue" /\ Phase(w)' = "store"
  BY <1>1 DEF Phase, StateOK, TypeOK
<1>5. TPhase[w] = "epilogue" /\ TPhase' = [TPhase EXCEPT ![w] = "store"]
  BY <1>2, <1>3, <1>4, TiledFrame DEF TPhase
<1>6. TBlock' = TBlock /\ TAcc' = TAcc
  BY <1>1 DEF TBlock, TAcc, Folded
<1>7. \A r \in Rows : r \in Tiled!Owned(w) <=>
          r \in OwnedBy(w) /\ Valid(params, m_block, r)
  BY TiledBase, TiledRows DEF Tiled!Owned, OwnedBy
<1>8. \A r : Tiled!Lse(Tiled!Kept(w, r))
                 = Lse(KeptCols(params, m_block, Folded(w), r))
  BY TiledRows DEF Tiled!Kept
<1>9. gLSE' = [r \in Tiled!Rows |->
                  IF r \in Tiled!Owned(w) THEN Tiled!Lse(Tiled!Kept(w, r))
                  ELSE gLSE[r]]
  BY <1>7, <1>8, TiledBase DEF ReadO
<1> QED
  BY <1>1, <1>5, <1>6, <1>9 DEF Tiled!StoreLse, TPhase, TBlock, TAcc

\* When a warp stores its rows to global memory, all have left the loops.
LEMMA OthersLeft ==
    ASSUME IInv, NEW w \in Warps, pc[w] = "store_o", NEW v \in Warps
    PROVE  pc[v] \in Epilogue \cup {"done"}
<1> DEFINE a == n_block[w]
           b == n_block[v]
           lo == nmin
           hi == nmax
<1>1. /\ StateOK /\ PlaceInv(w) /\ PlaceInv(v) /\ Passed(w) = Passed(v)
  BY WarpParts DEF IInv, Synced
<1>2. a \in Int /\ b \in Int /\ lo \in Nat /\ hi \in Int /\ pc[v] \in PCs
  BY <1>1, Bounds
<1>3. Looping /\ a = lo - 1
  BY <1>1 DEF PlaceInv, Epilogue
<1>4. lo < hi
  BY <1>1, <1>3, Bounds
<1>5. Passed(w) = 2 * (hi - 1 - a) + 4
  BY DEF Passed
<1>6. pc[v] \in {"start"} \cup Prologue => Passed(v) \in {0, 1, 2 * (hi - 1 - b) + 2}
                                         /\ (pc[v] = "start" \/ b = hi - 1)
  BY <1>1 DEF Passed, Prologue, PlaceInv
<1>7. pc[v] \in InLoop => /\ lo <= b /\ b <= hi - 1
                          /\ \/ Passed(v) = 2 * (hi - 1 - b) + 2
                             \/ Passed(v) = 2 * (hi - 1 - b) + 3
                             \/ Passed(v) = 2 * (hi - 1 - b) + 4
  BY <1>1 DEF Passed, InLoop, PlaceInv
<1>8. pc[v] \in {"start"} \cup Prologue => Passed(v) \in {0, 1}
  BY <1>1 DEF Passed, Prologue
<1>9. pc[v] \in {"start"} \cup Prologue \cup InLoop \cup Epilogue \cup {"done"}
  BY <1>2 DEF PCs, Prologue, InLoop, Epilogue
<1> HIDE DEF a, b, lo, hi
<1>10. pc[v] \notin {"start"} \cup Prologue
  BY <1>1, <1>2, <1>3, <1>4, <1>5, <1>8
<1>11. pc[v] \notin InLoop
  BY <1>1, <1>2, <1>3, <1>4, <1>5, <1>7
<1> QED
  BY <1>9, <1>10, <1>11

\* The rows a warp stores are the ones their owners accumulated.
LEMMA StoreOTiled ==
    ASSUME IInv, NEW w \in Warps, StoreO(w)
    PROVE  Tiled!StoreO(w)
<1>1. /\ StateOK /\ RegisterInv(w) /\ pc[w] = "store_o"
      /\ pc' = [pc EXCEPT ![w] = "done"]
      /\ UNCHANGED <<arg, params, m_block, n_block, step, visits, gLSE>>
  BY WarpParts DEF StoreO, Goto, launch, regs
<1>2. \A v \in Warps \ {w} : SameWarp(v)
  BY <1>1 DEF StoreO, shared, regs, SameWarp, StateOK, TypeOK
<1>3. UNCHANGED launch
  BY DEF StoreO
<1>4. Phase(w) = "store" /\ Phase(w)' = "done"
  BY <1>1 DEF Phase, StateOK, TypeOK
<1>5. TPhase[w] = "store" /\ TPhase' = [TPhase EXCEPT ![w] = "done"]
  BY <1>2, <1>3, <1>4, TiledFrame DEF TPhase
<1>6. TBlock' = TBlock /\ TAcc' = TAcc
  BY <1>1 DEF TBlock, TAcc, Folded
<1>7. \A r \in Rows : Owner(r) \in Warps
  BY WarpsOfRow, RowsOfSmem
<1>8. ASSUME NEW r \in Rows
      PROVE  TPhase[Owner(r)] \in {"epilogue", "store", "done"}
  <2>1. pc[Owner(r)] \in Epilogue \cup {"done"}
    BY <1>1, <1>7, OthersLeft
  <2> QED
    BY <1>7, <2>1 DEF TPhase, Phase, Epilogue
<1>9. \A r \in Rows : r \in Tiled!Moved(w) <=>
          Mover(r) = w /\ Valid(params, m_block, r)
  BY TiledBase, TiledRows DEF Tiled!Moved
<1>10. \A r \in Rows : Tiled!Kept(Owner(r), r)
                          = KeptCols(params, m_block, Folded(Owner(r)), r)
  BY <1>7, TiledRows DEF Tiled!Kept
<1>11. \A r \in Rows : Mover(r) = w => rO[r] = Holds("O", Owner(r))
  BY <1>1 DEF RegisterInv, MovedBy
<1>12. gO' = [r \in Tiled!Rows |->
                 IF r \in Tiled!Moved(w) THEN Tiled!Kept(Tiled!Owner(r), r)
                 ELSE gO[r]]
  BY <1>9, <1>10, <1>11, TiledBase DEF StoreO
<1>13. \A r \in Tiled!Rows : Tiled!Mover(r) = w =>
           TPhase[Tiled!Owner(r)] \in {"epilogue", "store", "done"}
  BY <1>8, TiledBase
<1> QED
  BY <1>1, <1>5, <1>6, <1>12, <1>13 DEF Tiled!StoreO, TPhase, TBlock, TAcc

\* The visits as FlashFwd counts them, when their keys and values are those of
\* the block.
LEMMA FoldedVisits ==
    ASSUME NEW s \in Seq(Visit), NEW f,
           \A i \in DOMAIN s : s[i].k = s[i].n /\ s[i].v = s[i].n,
           f = [i \in DOMAIN s |->
                   [n |-> IF s[i].k = s[i].n /\ s[i].v = s[i].n
                          THEN s[i].n ELSE -2,
                    masking |-> s[i].masking]]
    PROVE  /\ f \in Seq([n : Int, masking : BOOLEAN]) /\ Len(f) = Len(s)
           /\ \A i \in 1 .. Len(s) :
                  f[i] = [n |-> s[i].n, masking |-> s[i].masking]
<1> DEFINE T == [n : Int, masking : BOOLEAN]
<1>1. /\ Len(s) \in Nat /\ DOMAIN s = 1 .. Len(s)
      /\ \A i \in 1 .. Len(s) : s[i] \in Visit
  BY LenProperties, ElementOfSeq
<1>2. \A i \in 1 .. Len(s) : f[i] = [n |-> s[i].n, masking |-> s[i].masking]
  BY <1>1
<1>3. \A i \in 1 .. Len(s) : f[i] \in T
  BY <1>1, <1>2 DEF Visit
<1>4. f \in [1 .. Len(s) -> T]
  <2> HIDE DEF T
  <2> QED
    BY <1>1, <1>3
<1>5. f \in Seq(T) /\ Len(f) = Len(s)
  <2> HIDE DEF T
  <2> QED
    BY <1>1, <1>4
<1> QED
  BY <1>2, <1>5

\* A visit more is one more there.
LEMMA FoldedAppend ==
    ASSUME IInv, IInv', NEW w \in Warps, GemmO(w)
    PROVE  Folded(w)' = Append(Folded(w),
               [n |-> n_block[w], masking |-> Loop(w) \in {"first", "masked"}])
<1> DEFINE x == [n |-> n_block[w],
                 masking |-> Loop(w) \in {"first", "masked"}]
           T == [n : Int, masking : BOOLEAN]
<1>1. visits[w] \in Seq(Visit) /\ visits'[w] = Append(visits[w], Folding(w))
      /\ visits'[w] \in Seq(Visit) /\ Folding(w) \in Visit
  <2>1. visits \in [Warps -> Seq(Visit)] /\ visits' \in [Warps -> Seq(Visit)]
    BY DEF IInv, StateOK
  <2> QED
    BY <2>1, GemmOFolds
<1>2. /\ Len(visits'[w]) = Len(visits[w]) + 1 /\ Len(visits[w]) \in Nat
      /\ visits'[w][Len(visits[w]) + 1] = Folding(w)
      /\ \A i \in 1 .. Len(visits[w]) : visits'[w][i] = visits[w][i]
  BY <1>1, AppendProperties, LenProperties
<1>3. /\ Folded(w) \in Seq(T) /\ Len(Folded(w)) = Len(visits[w])
      /\ \A i \in 1 .. Len(visits[w]) :
             Folded(w)[i] = [n |-> visits[w][i].n,
                             masking |-> visits[w][i].masking]
  BY <1>1, WarpParts, FoldedVisits DEF Folded, RegisterInv
<1>4. RegisterInv(w)'
  BY DEF IInv
<1>5. /\ Folded(w)' \in Seq(T) /\ Len(Folded(w)') = Len(visits'[w])
      /\ \A i \in 1 .. Len(visits'[w]) :
             Folded(w)'[i] = [n |-> visits'[w][i].n,
                              masking |-> visits'[w][i].masking]
  <2> DEFINE s == visits'[w]
             f == Folded(w)'
  <2>1. s \in Seq(Visit) /\ \A i \in DOMAIN s : s[i].k = s[i].n /\ s[i].v = s[i].n
    BY <1>1, <1>4 DEF RegisterInv
  <2>2. f = [i \in DOMAIN s |->
                [n |-> IF s[i].k = s[i].n /\ s[i].v = s[i].n
                       THEN s[i].n ELSE -2,
                 masking |-> s[i].masking]]
    BY DEF Folded
  <2>3. /\ f \in Seq([n : Int, masking : BOOLEAN]) /\ Len(f) = Len(s)
        /\ \A i \in 1 .. Len(s) :
               f[i] = [n |-> s[i].n, masking |-> s[i].masking]
    <3> HIDE DEF s, f
    <3> QED
      BY <2>1, <2>2, FoldedVisits
  <2> QED
    BY <2>3
<1>6. x \in T
  BY <1>1 DEF Folding, Visit
<1>7. /\ Append(Folded(w), x) \in Seq(T)
      /\ Len(Append(Folded(w), x)) = Len(Folded(w)) + 1
      /\ Append(Folded(w), x)[Len(Folded(w)) + 1] = x
      /\ \A i \in 1 .. Len(Folded(w)) : Append(Folded(w), x)[i] = Folded(w)[i]
  <2> HIDE DEF x, T
  <2> QED
    BY <1>3, <1>6, AppendProperties
<1>8. Folding(w).n = n_block[w]
      /\ Folding(w).masking = (Loop(w) \in {"first", "masked"})
  BY DEF Folding
<1>9. ASSUME NEW i \in 1 .. Len(visits'[w])
      PROVE  Folded(w)'[i] = Append(Folded(w), x)[i]
  <2>1. CASE i \in 1 .. Len(visits[w])
    <3> HIDE DEF x
    <3> QED
      BY <1>2, <1>3, <1>5, <1>7, <2>1
  <2>2. CASE i = Len(visits[w]) + 1
    <3>1. Folded(w)'[i] = [n |-> Folding(w).n, masking |-> Folding(w).masking]
      BY <1>2, <1>5, <2>2
    <3> QED
      BY <1>3, <1>7, <1>8, <2>2, <3>1
  <2>3. i \in 1 .. Len(visits[w]) \/ i = Len(visits[w]) + 1
    BY <1>2
  <2> HIDE DEF x, T
  <2> QED
    BY <2>1, <2>2, <2>3
<1>10. Folded(w)' = Append(Folded(w), x)
  <2> HIDE DEF x, T
  <2> QED
    BY <1>2, <1>3, <1>5, <1>7, <1>9, SeqEqual
<1> QED
  BY <1>10

\* O += P V folds a block, as the step of FlashFwd that Loop names.
LEMMA GemmOTiled ==
    ASSUME IInv, IInv', NEW w \in Warps, GemmO(w)
    PROVE  \/ Tiled!FirstStep(w) \/ Tiled!MaskedStep(w)
           \/ Tiled!FreeStep(w) \/ Tiled!LastStep(w)
<1> DEFINE n == n_block[w]
           k == IF Loop(w) \in {"first", "masked"} THEN step[w] + 1 ELSE step[w]
           x == [n |-> n, masking |-> Loop(w) \in {"first", "masked"}]
<1>1. /\ StateOK /\ PlaceInv(w) /\ pc[w] = "gemm_o"
      /\ UNCHANGED <<arg, params, m_block, gO, gLSE>> /\ UNCHANGED launch
      /\ pc' = [pc EXCEPT ![w] = IF n > nmin THEN "sts_k" ELSE "barrier_o"]
      /\ n_block' = [n_block EXCEPT ![w] = n - 1]
  BY WarpParts DEF GemmO, Goto, launch
<1>2. /\ Looping /\ nmin \in Nat /\ nmax \in Int /\ n \in Int
      /\ step[w] \in Nat /\ nmin <= n /\ n <= nmax - 1
      /\ (step[w] = 0 <=> n = nmax - 1)
  BY <1>1, Bounds DEF PlaceInv, InLoop
<1>3. step' = [step EXCEPT ![w] = k] /\ step'[w] = k /\ k \in Nat \ {0}
  <2>1. step' = [step EXCEPT ![w] = k]
    BY GemmOFolds
  <2>2. step'[w] = k
    BY <1>1, <2>1 DEF StateOK, TypeOK
  <2> QED
    BY <2>1, <2>2, GemmOFolds
<1>4. n_block'[w] = n - 1
  BY <1>1 DEF StateOK, TypeOK
<1>5. \A v \in Warps \ {w} : SameWarp(v)
  <2>1. \A v \in Warps \ {w} : visits'[v] = visits[v]
    BY <1>1, GemmOFolds DEF StateOK
  <2>2. step \in [Warps -> Nat] /\ n_block \in [Warps -> Int]
        /\ pc \in [Warps -> PCs]
    BY <1>1 DEF StateOK, TypeOK
  <2>3. \A v \in Warps \ {w} : step'[v] = step[v] /\ n_block'[v] = n_block[v]
                               /\ pc'[v] = pc[v]
    BY <1>1, <1>3, <2>2
  <2>4. UNCHANGED <<pend, rQ, rK, rV, score, rO>>
    BY DEF GemmO, shared
  <2> QED
    BY <2>1, <2>3, <2>4 DEF SameWarp
<1>6. Phase(w) = (IF step[w] = 0 THEN "start"
                  ELSE NextPhase(params, m_block, n, step[w]))
  BY <1>1 DEF Phase
<1>7. Phase(w)' = NextPhase(params, m_block, n - 1, k)
  <2>1. CASE n > nmin
    <3>1. pc'[w] = "sts_k"
      BY <1>1, <2>1 DEF StateOK, TypeOK
    <3> QED
      BY <1>1, <1>3, <1>4, <3>1 DEF Phase
  <2>2. CASE ~(n > nmin)
    <3>1. pc'[w] = "barrier_o"
      BY <1>1, <2>2 DEF StateOK, TypeOK
    <3>2. NextPhase(params, m_block, n - 1, k) = "epilogue"
      BY <1>2, <2>2 DEF NextPhase, nmin
    <3> QED
      BY <3>1, <3>2 DEF Phase
  <2> QED
    BY <2>1, <2>2
<1>8. Folded(w)' = Append(Folded(w), x)
  BY FoldedAppend
<1> DEFINE b == IF step[w] = 0 THEN 0 ELSE n
<1>9. TPhase[w] = Phase(w) /\ TBlock[w] = b /\ TAcc[w] = Folded(w)
  BY DEF TPhase, TBlock, TAcc
<1>10. /\ TPhase' = [TPhase EXCEPT ![w] = NextPhase(params, m_block, n - 1, k)]
       /\ TBlock' = [TBlock EXCEPT ![w] = n - 1]
       /\ TAcc' = [TAcc EXCEPT ![w] = Append(@, x)]
  <2>1. /\ TPhase' = [TPhase EXCEPT ![w] = Phase(w)']
        /\ TBlock' = [TBlock EXCEPT ![w] = IF step'[w] = 0 THEN 0
                                           ELSE n_block'[w]]
        /\ TAcc' = [TAcc EXCEPT ![w] = Folded(w)']
    BY <1>1, <1>5, TiledFrame
  <2>2. TPhase' = [TPhase EXCEPT ![w] = NextPhase(params, m_block, n - 1, k)]
    BY <1>7, <2>1
  <2>3. TBlock' = [TBlock EXCEPT ![w] = n - 1]
    BY <1>3, <1>4, <2>1
  <2>4. TAcc' = [TAcc EXCEPT ![w] = Append(@, x)]
    <3> HIDE DEF x
    <3> QED
      BY <1>8, <1>9, <2>1
  <2> QED
    BY <2>2, <2>3, <2>4
<1>11. TBlock'[w] = n - 1
  BY <1>10 DEF TBlock
<1>12. /\ Tiled!NBlockMax(params, m_block) = nmax
       /\ ~Tiled!NoRows(params, m_block) /\ ~Tiled!ExitsEarly(params, m_block)
       /\ Tiled!NextPhase(params, m_block, n - 1, k)
              = NextPhase(params, m_block, n - 1, k)
  BY <1>2, TiledLoops DEF Looping, nmax
<1>13. ASSUME NEW masking \in BOOLEAN,
              masking <=> Loop(w) \in {"first", "masked"}
       PROVE  Tiled!Fold(w, masking)
  <2>1. TAcc' = [TAcc EXCEPT ![w] = Append(@,
            [n |-> TBlock'[w] + 1, masking |-> masking])]
    <3>1. TBlock'[w] + 1 = n
      BY <1>2, <1>11
    <3>2. x = [n |-> n, masking |-> masking]
      BY <1>13
    <3> HIDE DEF x
    <3> QED
      BY <1>10, <3>1, <3>2
  <2>2. TPhase' = [TPhase EXCEPT ![w] =
            Tiled!NextPhase(params, m_block, TBlock'[w], step'[w])]
    BY <1>3, <1>10, <1>11, <1>12
  <2> QED
    BY <1>1, <2>1, <2>2 DEF Tiled!Fold, TPhase, TBlock, TAcc
<1>14. Loop(w) = IF step[w] = 0 THEN "first"
                 ELSE NextPhase(params, m_block, n, step[w])
  BY DEF Loop
<1>15. NextPhase(params, m_block, n, step[w]) \in {"masked", "free", "last"}
  BY <1>2 DEF NextPhase, nmin
<1>16. CASE step[w] = 0
  <2>1. TPhase[w] = "start" /\ Loop(w) = "first"
    BY <1>6, <1>9, <1>14, <1>16
  <2>2. step' = [step EXCEPT ![w] = 1]
    BY <1>3, <1>16, <2>1
  <2>3. TBlock' = [TBlock EXCEPT ![w] = nmax - 2]
    <3>1. n - 1 = nmax - 2
      BY <1>2, <1>16
    <3> QED
      BY <1>10, <3>1
  <2>4. Tiled!Fold(w, TRUE)
    <3>1. Loop(w) \in {"first", "masked"}
      BY <2>1
    <3> QED
      BY <1>13, <3>1
  <2> QED
    BY <1>12, <2>1, <2>2, <2>3, <2>4 DEF Tiled!FirstStep, TPhase, TBlock
<1>17. CASE step[w] # 0
  <2>1. TPhase[w] = Loop(w) /\ Loop(w) \in {"masked", "free", "last"}
    BY <1>6, <1>9, <1>14, <1>15, <1>17
  <2>2. TBlock' = [TBlock EXCEPT ![w] = @ - 1]
    BY <1>9, <1>10, <1>17
  <2>3. CASE Loop(w) = "masked"
    <3>1. step' = [step EXCEPT ![w] = @ + 1]
      BY <1>3, <2>3
    <3>2. Loop(w) \in {"first", "masked"}
      BY <2>3
    <3>3. Tiled!Fold(w, TRUE)
      BY <1>13, <3>2
    <3> QED
      BY <2>1, <2>2, <2>3, <3>1, <3>3 DEF Tiled!MaskedStep, TPhase, TBlock
  <2>4. CASE Loop(w) \in {"free", "last"}
    <3>1. step' = step
      BY <1>1, <1>3, <2>4 DEF StateOK, TypeOK
    <3>2. ~(Loop(w) \in {"first", "masked"})
      BY <2>4
    <3>3. Tiled!Fold(w, FALSE)
      BY <1>13, <3>2
    <3> QED
      BY <2>1, <2>2, <2>4, <3>1, <3>3
         DEF Tiled!FreeStep, Tiled!LastStep, TPhase, TBlock
  <2> QED
    BY <2>1, <2>3, <2>4
<1> QED
  BY <1>16, <1>17

\* Within the loops, and within the epilogue, a statement more is no step of
\* FlashFwd.
LEMMA QuietStep ==
    ASSUME UNCHANGED <<launch, step, visits, gO, gLSE>>,
           \A v \in Warps :
               /\ n_block'[v] = n_block[v] \/ step[v] = 0
               /\ \/ pc'[v] = pc[v]
                  \/ /\ pc[v] \in {"start"} \cup Prologue \cup InLoop
                     /\ pc'[v] \in {"start"} \cup Prologue \cup InLoop
                  \/ /\ pc[v] \in {"barrier_o", "sts_o", "sync_out", "read_o"}
                     /\ pc'[v] \in {"barrier_o", "sts_o", "sync_out", "read_o"}
    PROVE  UNCHANGED Tiled!vars
<1>1. UNCHANGED <<launch, step, gO, gLSE>> /\ UNCHANGED visits
      /\ UNCHANGED <<params, m_block>>
  BY DEF launch
<1>2. ASSUME NEW v \in Warps PROVE Phase(v)' = Phase(v)
  BY <1>1 DEF Phase, Prologue, InLoop
<1> QED
  BY <1>1, <1>2, TiledStutter

\* The other steps of a warp are stutters.
LEMMA QuietTiled ==
    ASSUME IInv, NEW w \in Warps,
           \/ LoadQ(w) \/ ReadQ(w) \/ StoreK(w) \/ GemmS(w) \/ StoreSO(w)
    PROVE  UNCHANGED Tiled!vars
<1>1. StateOK /\ PlaceInv(w) /\ pc \in [Warps -> PCs]
      /\ n_block \in [Warps -> Int]
  BY WarpParts DEF StateOK, TypeOK
<1>2. CASE LoadQ(w)
  <2>1. step[w] = 0
    BY <1>1, <1>2 DEF LoadQ, PlaceInv
  <2>2. \A v \in Warps \ {w} : pc'[v] = pc[v] /\ n_block'[v] = n_block[v]
    BY <1>1, <1>2 DEF LoadQ, Goto
  <2>3. pc[w] = "start" /\ pc'[w] = "sync_q"
    BY <1>1, <1>2 DEF LoadQ, Goto
  <2>4. UNCHANGED <<launch, step, visits, gO, gLSE>>
    BY <1>2 DEF LoadQ
  <2> QED
    BY <2>1, <2>2, <2>3, <2>4, QuietStep DEF Prologue
<1>3. CASE ReadQ(w)
  <2>1. UNCHANGED <<launch, step, visits, gO, gLSE, n_block>>
    BY <1>3 DEF ReadQ
  <2>2. pc[w] = "read_q" /\ pc'[w] = "sync_k"
        /\ \A v \in Warps \ {w} : pc'[v] = pc[v]
    BY <1>1, <1>3 DEF ReadQ, Goto
  <2> QED
    BY <2>1, <2>2, QuietStep DEF Prologue
<1>4. CASE StoreK(w)
  <2>1. UNCHANGED <<launch, step, visits, gO, gLSE, n_block>>
    BY <1>4 DEF StoreK
  <2>2. pc[w] = "sts_k" /\ pc'[w] = "sync_s"
        /\ \A v \in Warps \ {w} : pc'[v] = pc[v]
    BY <1>1, <1>4 DEF StoreK, Goto
  <2> QED
    BY <2>1, <2>2, QuietStep DEF InLoop
<1>5. CASE GemmS(w)
  <2>1. UNCHANGED <<launch, step, visits, gO, gLSE, n_block>>
    BY <1>5 DEF GemmS
  <2>2. pc[w] = "gemm_s" /\ pc'[w] = "sync_o"
        /\ \A v \in Warps \ {w} : pc'[v] = pc[v]
    BY <1>1, <1>5 DEF GemmS, Goto
  <2> QED
    BY <2>1, <2>2, QuietStep DEF InLoop
<1>6. CASE StoreSO(w)
  <2>1. UNCHANGED <<launch, step, visits, gO, gLSE, n_block>>
    BY <1>6 DEF StoreSO, regs
  <2>2. pc[w] = "sts_o" /\ pc'[w] = "sync_out"
        /\ \A v \in Warps \ {w} : pc'[v] = pc[v]
    BY <1>1, <1>6 DEF StoreSO, Goto
  <2> QED
    BY <2>1, <2>2, QuietStep
<1> QED
  BY <1>2, <1>3, <1>4, <1>5, <1>6

\* So are the stores that land and the barriers.
LEMMA MemoryTiled ==
    ASSUME IInv, NEW w \in Warps, Land(w) \/ Arrive(w)
    PROVE  UNCHANGED Tiled!vars
<1>1. UNCHANGED <<launch, step, visits, gO, gLSE, n_block>>
  BY DEF Land, Arrive, regs
<1>2. CASE UNCHANGED pc
  BY <1>1, <1>2, QuietStep
<1>3. CASE Arrive(w) /\ waiting \cup {w} = Warps
  <2>1. ASSUME NEW v \in Warps
        PROVE  /\ pc'[v] = After[pc[v]]
               /\ pc[v] \in {"sync_q", "sync_k", "sync_s", "sync_o",
                             "barrier_o", "sync_out"}
    <3>1. pc[v] \in DOMAIN After
      <4>1. v = w \/ v \in waiting
        BY <1>3
      <4> QED
        BY <1>3, <4>1 DEF Arrive, IInv, BarrierInv
    <3> QED
      BY <1>3, <3>1 DEF Arrive, After
  <2>2. ASSUME NEW v \in Warps
        PROVE  \/ /\ pc[v] \in {"start"} \cup Prologue \cup InLoop
                  /\ pc'[v] \in {"start"} \cup Prologue \cup InLoop
               \/ /\ pc[v] \in {"barrier_o", "sts_o", "sync_out", "read_o"}
                  /\ pc'[v] \in {"barrier_o", "sts_o", "sync_out", "read_o"}
    <3>1. /\ pc[v] = "sync_q" => pc'[v] = "read_q"
          /\ pc[v] = "sync_k" => pc'[v] = "sts_k"
          /\ pc[v] = "sync_s" => pc'[v] = "gemm_s"
          /\ pc[v] = "sync_o" => pc'[v] = "gemm_o"
          /\ pc[v] = "barrier_o" => pc'[v] = "sts_o"
          /\ pc[v] = "sync_out" => pc'[v] = "read_o"
      BY <2>1 DEF After
    <3> QED
      BY <2>1, <3>1 DEF Prologue, InLoop
  <2> QED
    BY <1>1, <2>2, QuietStep
<1> QED
  BY <1>2, <1>3 DEF Land, Arrive

\* The kernel with shared memory implements the kernel without: each visit of
\* FlashFwd ends with O += P V, LSE is stored as sO is read, and the rows a
\* warp stores are what their owners folded from the right keys and values.
THEOREM ImplementsTiled == Spec => ImplementsFlashFwd
<1>1. Init => Tiled!Init
  <2> SUFFICES ASSUME Init PROVE Tiled!Init
    OBVIOUS
  <2>1. \A w \in Warps : Phase(w) = "start" /\ Folded(w) = <<>> /\ step[w] = 0
    BY DEF Init, Phase, Folded
  <2>2. /\ TPhase = [w \in Warps |-> "start"] /\ TBlock = [w \in Warps |-> 0]
        /\ TAcc = [w \in Warps |-> <<>>]
    BY <2>1 DEF TPhase, TBlock, TAcc
  <2> QED
    BY <2>2, TiledBase, TiledParams
       DEF Init, Tiled!Init, TPhase, TBlock, TAcc
<1>2. IInv /\ IInv' /\ [Next]_vars => [Tiled!Next]_(Tiled!vars)
  <2> SUFFICES ASSUME IInv, IInv', [Next]_vars
               PROVE  [Tiled!Next]_(Tiled!vars)
    OBVIOUS
  <2>1. ASSUME NEW w \in Warps, Tiled!Step(w) PROVE Tiled!Next
    BY <2>1, TiledBase DEF Tiled!Next
  <2>2. ASSUME NEW w \in Warps, Run(w) PROVE Tiled!Step(w) \/ UNCHANGED Tiled!vars
    <3>1. CASE Return(w)
      BY <3>1, ReturnTiled DEF Tiled!Step
    <3>2. CASE StoreZero(w)
      BY <3>2, StoreZeroTiled DEF Tiled!Step
    <3>3. CASE GemmO(w)
      BY <3>3, GemmOTiled DEF Tiled!Step
    <3>4. CASE ReadO(w)
      BY <3>4, ReadOTiled DEF Tiled!Step
    <3>5. CASE StoreO(w)
      BY <3>5, StoreOTiled DEF Tiled!Step
    <3> QED
      BY <2>2, <3>1, <3>2, <3>3, <3>4, <3>5, QuietTiled, MemoryTiled DEF Run
  <2>3. ASSUME NEW w \in Warps, Land(w) PROVE UNCHANGED Tiled!vars
    BY <2>3, MemoryTiled
  <2>4. ASSUME UNCHANGED vars PROVE UNCHANGED Tiled!vars
    <3>1. UNCHANGED <<launch, step, visits, gO, gLSE, n_block, pc>>
      BY <2>4 DEF vars, regs
    <3> QED
      BY <3>1, QuietStep
  <2> QED
    BY <2>1, <2>2, <2>3, <2>4 DEF Next
<1> QED
  BY <1>1, <1>2, Inductive, PTL DEF Spec, ImplementsFlashFwd, Tiled!Spec
=============================================================================
