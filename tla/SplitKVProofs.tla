---------------------------- MODULE SplitKVProofs ----------------------------
(***************************************************************************)
(* The safety properties of SplitKV, for every tile shape, every number of *)
(* splits, every call and every order of the CTAs.                         *)
(*                                                                         *)
(* The argument: a CTA that starts to load has itself copied every new row *)
(* of its split to the cache, whatever the others did (CtaInv); what it    *)
(* visited is determined by how long its list of visits is; the cell of a  *)
(* query row belongs to one CTA per split, so what is stored there is what *)
(* that CTA kept (PartialInv); and the splits of a row partition the blocks*)
(* between its loop bounds, outside of which it attends to nothing.        *)
(***************************************************************************)
EXTENDS SplitKV, FwdTilingProofs, SequenceTheorems

\* The CTA has blocks of its row block in its split.
Working(c) == NMin(c) < NMax(c)

\* The new rows of blocks n and up of the CTA's split are in the cache.
Appended(c, n) ==
    \A i \in n .. NMax(c) - 1 : NewCols(arg, i) \subseteq kcache \cap vcache

\* The list of visits counts down from the last block of the split.
InOrder(c) ==
    \A i \in 1 .. Len(cta[c].acc) :
        LET v == cta[c].acc[i]
        IN  /\ v.n = NMax(c) - i /\ v.k = v.n /\ v.stale = {}
            /\ v.masking <=> i <= NMaskingSteps(params)

CtaInv(c) ==
    /\ cta[c].phase \in {"start", "append", "load"} => cta[c].acc = <<>>
    /\ ~Working(c) => cta[c].phase \in {"start", "done"} /\ cta[c].acc = <<>>
    /\ cta[c].phase = "append" =>
          /\ NCopy(c) <= cta[c].n_block /\ cta[c].n_block < NMax(c)
          /\ Appended(c, cta[c].n_block + 1)
    /\ Working(c) /\ cta[c].phase \in {"load", "loop", "store", "done"} =>
          Appended(c, NMin(c))
    /\ cta[c].phase = "loop" =>
          /\ cta[c].n_block = NMax(c) - 1 - Len(cta[c].acc)
          /\ cta[c].n_block >= NMin(c)
          /\ cta[c].keys.n = cta[c].n_block /\ cta[c].keys.stale = {}
    /\ Working(c) /\ cta[c].phase \in {"store", "done"} =>
          Len(cta[c].acc) = NMax(c) - NMin(c)
    /\ InOrder(c)

\* The CTA of split s that stores cell x, and the row of its tile x is.
CtaOf(x, s) == <<x \div SeqlenQ(arg), (x % SeqlenQ(arg)) \div kBlockM, s>>
RowOf(x)    == (x % SeqlenQ(arg)) % kBlockM

Blank == [cols |-> Unset, lse |-> "unset"]

\* What CTA c stores for row r of its tile.
Final(c, r) == [cols |-> Kept(c, r),
                lse  |-> IF Kept(c, r) = {} THEN EmptyLse(arg) ELSE "finite"]

Stored(x, s) == IF cta[CtaOf(x, s)].phase = "done"
                THEN Final(CtaOf(x, s), RowOf(x)) ELSE Blank

PartialInv ==
    \A s \in Splits(arg), x \in Cells :
        partial[s][x] = IF Split(arg) THEN Stored(x, s) ELSE Blank

ResultInv ==
    \A x \in Cells :
        result[x] = IF ~Split(arg) THEN Stored(x, 0)
                    ELSE IF \E b \in combined : x \in Chunk(b) THEN CombineRow(x)
                    ELSE Blank

StageInv ==
    /\ stage \in {"combine", "done"} => \A c \in Ctas : cta[c].phase = "done"
    /\ stage \in {"split", "combine", "done"} => ~CannotRun
    /\ stage = "combine" => Split(arg)
    /\ stage \notin {"combine", "done"} => combined = {}
    /\ stage = "done" /\ Split(arg) => combined = Chunks

CacheInv == kcache \cup vcache \subseteq arg.cache_len .. SeqlenK(arg) - 1

Phases    == {"start", "append", "load", "loop", "store", "done"}
Visited   == [n : Int, masking : BOOLEAN, k : Int, stale : SUBSET Int]
CtaStates == [phase : Phases, n_block : Int, keys : [n : Int, stale : SUBSET Int],
              acc : Seq(Visited)]
Outputs   == [cols : SUBSET Int, lse : {"unset", "-inf", "inf", "finite"}]

Shape == /\ cta \in [Ctas -> CtaStates]
         /\ partial \in [Splits(arg) -> [Cells -> Outputs]]
         /\ result \in [AllRows -> Outputs]

IInv == /\ TypeOK /\ Shape /\ CacheInv /\ StageInv
        /\ \A c \in Ctas : CtaInv(c)
        /\ PartialInv /\ ResultInv

-----------------------------------------------------------------------------
(* The splits of a row block *)

\* A quotient and a remainder that fit are those of the division.
LEMMA DivModUnique ==
    ASSUME NEW b \in Nat \ {0}, NEW q \in Int, NEW r \in 0 .. b - 1, NEW x \in Int,
           x = b * q + r
    PROVE  x \div b = q /\ x % b = r
  <1>1. x \div b \in Int /\ x % b \in Int /\ x = b * (x \div b) + (x % b)
    BY DivMod
  <1>2. b * q <= x /\ x < b * (q + 1)
    <2>1. b * (q + 1) = b * q + b /\ b * q \in Int
      OBVIOUS
    <2> QED BY <2>1
  <1>3. q <= x \div b
    BY <1>2, DivBounds
  <1>4. x \div b < q + 1
    <2>1. q + 1 \in Int
      OBVIOUS
    <2> QED BY <1>2, <2>1, DivBounds
  <1>5. x \div b = q
    BY <1>1, <1>3, <1>4
  <1> QED BY <1>1, <1>5

\* A quotient of naturals, rounded up, is a natural.
LEMMA CeilDivNat ==
    ASSUME NEW b \in Nat \ {0}, NEW y \in Nat
    PROVE  CeilDiv(y, b) \in Nat
  <1>1. y + b - 1 \in Int /\ y + b - 1 >= 0
    OBVIOUS
  <1> QED BY <1>1, TruncDivBounds DEF CeilDiv

\* The derived facts about a call.
LEMMA CallType ==
    ASSUME NEW a \in Args
    PROVE  /\ IsKVCall(a) /\ IsParams(KVParams(a)) /\ IsCall(CallOf(a, SeqlenQ(a)))
           /\ KVParams(a).sq = SeqlenQ(a) /\ KVParams(a).sk = SeqlenK(a)
           /\ SeqlenQ(a) \in Nat \ {0} /\ Heads(a) \in Nat \ {0}
           /\ SeqlenK(a) \in Nat /\ a.cache_len \in Nat /\ a.capacity \in Nat
           /\ a.cache_len <= SeqlenK(a) /\ SeqlenK(a) <= a.capacity
           /\ ~Append_KV(a) => SeqlenK(a) = a.cache_len
           /\ Splits(a) \subseteq Nat /\ PerSplit(a) \in Nat
  <1>1. IsKVCall(a)
    BY SplitAssumption
  <1>2. SeqlenQ(a) \in Nat \ {0} /\ Heads(a) \in Nat \ {0}
    BY <1>1 DEF IsKVCall, SeqlenQ, Heads
  <1>3. /\ SeqlenK(a) \in Nat /\ a.cache_len \in Nat /\ a.capacity \in Nat
        /\ a.cache_len <= SeqlenK(a) /\ SeqlenK(a) <= a.capacity
        /\ ~Append_KV(a) => SeqlenK(a) = a.cache_len
    BY <1>1 DEF IsKVCall, SeqlenK, Append_KV
  <1>4. IsCall(CallOf(a, SeqlenQ(a)))
    <2>1. CallOf(a, SeqlenQ(a)) \in
              [varlen : BOOLEAN, seqlen_q : Nat \ {0}, seqlen_k : Nat \ {0},
               sq : Nat, sk : Nat, causal : BOOLEAN, wl : Int, wr : Int,
               evenK : BOOLEAN]
      BY <1>1, <1>2, <1>3 DEF CallOf, IsKVCall
    <2>2. ~a.seqlens => SeqlenK(a) = a.capacity
      BY <1>1, <1>3 DEF IsKVCall, SeqlenK
    <2>3. /\ CallOf(a, SeqlenQ(a)).varlen = a.seqlens
          /\ CallOf(a, SeqlenQ(a)).sq = CallOf(a, SeqlenQ(a)).seqlen_q
          /\ CallOf(a, SeqlenQ(a)).sk = SeqlenK(a)
          /\ CallOf(a, SeqlenQ(a)).seqlen_k = a.capacity
      BY DEF CallOf
    <2> QED BY <2>1, <2>2, <2>3 DEF IsCall
  <1>5. IsParams(KVParams(a))
    BY <1>4, SetParamsType DEF KVParams
  <1>6. KVParams(a).sq = SeqlenQ(a) /\ KVParams(a).sk = SeqlenK(a)
    BY DEF KVParams, SetParams, FwdMask, MaskParams, CallOf
  <1>7. a.num_splits \in Nat
    BY <1>1 DEF IsKVCall
  <1>8. Splits(a) \subseteq Nat
    BY <1>7 DEF Splits
  <1>9. PerSplit(a) \in Nat
    <2>1. CeilDiv(SeqlenK(a), kBlockN) \in Nat
      BY <1>3, BlockAssumption, CeilDivNat
    <2>2. AtLeast(1, a.num_splits) \in Nat \ {0}
      BY <1>7 DEF AtLeast
    <2> QED BY <2>1, <2>2, CeilDivNat DEF PerSplit
  <1> QED BY <1>1, <1>2, <1>3, <1>4, <1>5, <1>6, <1>8, <1>9

\* The bounds of a split lie within those of the row block, and within the
\* split's share of the blocks.
LEMMA SplitBounds ==
    ASSUME TypeOK, NEW c \in Ctas
    PROVE  /\ c[1] \in 0 .. Heads(arg) - 1 /\ c[2] \in Nat /\ c[3] \in Splits(arg)
           /\ c[3] \in Nat /\ c = <<c[1], c[2], c[3]>>
           /\ IsParams(params) /\ params = KVParams(arg) /\ arg \in Args
           /\ NMin(c) \in Nat /\ NMax(c) \in Int /\ NCopy(c) \in Int
           /\ NBlockMin(params, c[2]) \in Nat /\ NBlockMax(params, c[2]) \in Int
           /\ NBlockMin(params, c[2]) <= NMin(c) /\ NMin(c) <= NCopy(c)
           /\ NMax(c) <= NBlockMax(params, c[2])
           /\ NMax(c) <= CeilDiv(SeqlenK(arg), kBlockN)
           /\ NMaskingSteps(params) \in Nat \ {0}
  <1>1. arg \in Args /\ params = KVParams(arg)
    BY DEF TypeOK
  <1>2. /\ c[1] \in 0 .. Heads(arg) - 1 /\ c[2] \in RowBlocks /\ c[3] \in Splits(arg)
        /\ c = <<c[1], c[2], c[3]>>
    BY DEF Ctas
  <1>3. c[2] \in Nat /\ c[3] \in Nat
    <2>1. CeilDiv(SeqlenQ(arg), kBlockM) \in Int
      BY <1>1, CallType, CeilDivType, BlockAssumption
    <2> QED BY <1>1, <1>2, <2>1, CallType DEF RowBlocks
  <1>4. /\ IsParams(params) /\ params.sk = SeqlenK(arg)
        /\ PerSplit(arg) \in Nat /\ arg.cache_len \in Nat
    BY <1>1, CallType
  <1>5. /\ NBlockMin(params, c[2]) \in Nat /\ NBlockMax(params, c[2]) \in Int
        /\ NBlockMax(params, c[2]) <= CeilDiv(SeqlenK(arg), kBlockN)
        /\ NMaskingSteps(params) \in Nat \ {0}
        /\ CeilDiv(SeqlenK(arg), kBlockN) \in Int
    <2>1. CeilDiv(SeqlenK(arg), kBlockN) \in Int
      BY <1>1, CallType, CeilDivType, BlockAssumption
    <2> QED BY <1>3, <1>4, <2>1, LoopBoundsType
  <1>6. c[3] * PerSplit(arg) \in Int /\ (c[3] + 1) * PerSplit(arg) \in Int
    BY <1>3, <1>4
  <1>7. NMin(c) \in Nat /\ NBlockMin(params, c[2]) <= NMin(c)
    BY <1>5, <1>6 DEF NMin, SplitMin, AtLeast
  <1>8. NMax(c) \in Int /\ NMax(c) <= NBlockMax(params, c[2])
    BY <1>5, <1>6, AtLeastAtMost DEF NMax, SplitMax
  <1>9. NCopy(c) \in Int /\ NMin(c) <= NCopy(c)
    <2>1. TruncDiv(arg.cache_len, kBlockN) \in Int
      BY <1>4, BlockAssumption, TruncDivBounds
    <2> QED BY <1>7, <2>1, AtLeastAtMost DEF NCopy, CopyMin, NMin
  <1> QED BY <1>1, <1>2, <1>3, <1>4, <1>5, <1>7, <1>8, <1>9

\* A block below NCopy, or any block of a call that appends nothing, has no
\* new rows.
LEMMA NothingNew ==
    ASSUME TypeOK, NEW c \in Ctas, NEW n \in Nat, NMin(c) <= n,
           n < NCopy(c) \/ ~Append_KV(arg)
    PROVE  NewCols(arg, n) = {}
  <1>1. /\ arg.cache_len \in Nat /\ SeqlenK(arg) \in Nat
        /\ ~Append_KV(arg) => SeqlenK(arg) = arg.cache_len
        /\ kBlockN \in Nat \ {0} /\ n * kBlockN \in Int
    BY CallType, BlockAssumption DEF TypeOK
  <1>2. CASE ~Append_KV(arg)
    BY <1>1, <1>2 DEF NewCols, Block
  <1>3. CASE n < NCopy(c)
    <2> DEFINE d == arg.cache_len \div kBlockN
    <2>1. NMin(c) \in Nat /\ d \in Int /\ TruncDiv(arg.cache_len, kBlockN) = d
      BY <1>1, SplitBounds, DivMod, TruncDivBounds
    <2>2. n < d
      <3>1. NCopy(c) = AtLeast(NMin(c), d)
        BY <2>1 DEF NCopy, CopyMin, NMin
      <3> QED BY <1>3, <2>1, <3>1 DEF AtLeast
    <2>3. kBlockN * (n + 1) <= arg.cache_len
      <3>1. n + 1 \in Int /\ n + 1 <= d /\ arg.cache_len \in Int
        BY <1>1, <2>1, <2>2
      <3> QED BY <1>1, <3>1, DivBounds
    <2>4. kBlockN * (n + 1) = n * kBlockN + kBlockN
      BY <1>1
    <2> QED BY <1>1, <2>3, <2>4 DEF NewCols, Block
  <1> QED BY <1>2, <1>3

-----------------------------------------------------------------------------
(* The cells of a CTA *)

\* Every cell belongs to one CTA of every split, as a valid row of its tile.
LEMMA CellOwner ==
    ASSUME TypeOK, NEW x \in Cells, NEW s \in Splits(arg)
    PROVE  /\ CtaOf(x, s) \in Ctas /\ RowOf(x) \in Rows
           /\ Valid(params, CtaOf(x, s)[2], RowOf(x))
           /\ CtaOf(x, s)[2] * kBlockM + RowOf(x) = x % SeqlenQ(arg)
           /\ x % SeqlenQ(arg) \in 0 .. SeqlenQ(arg) - 1
           /\ x - CellOf(CtaOf(x, s), 0) = RowOf(x)
  <1> DEFINE Q == SeqlenQ(arg)
             H == Heads(arg)
             y == x % Q
  <1>1. Q \in Nat \ {0} /\ H \in Nat \ {0} /\ kBlockM \in Nat \ {0} /\ params.sq = Q
    BY CallType, BlockAssumption DEF TypeOK
  <1>2. x \in Int /\ 0 <= x /\ x < Q * H
    <2>1. H * Q \in Int /\ H * Q = Q * H
      BY <1>1
    <2> QED BY <2>1 DEF Cells, Size
  <1> HIDE DEF Q, H
  <1>3. x \div Q \in Int /\ y \in 0 .. Q - 1 /\ x = Q * (x \div Q) + y
    BY <1>1, <1>2, DivMod
  <1>4. x \div Q \in 0 .. H - 1
    <2>1. x \div Q < H
      BY <1>1, <1>2, DivBounds
    <2>2. 0 <= x \div Q
      BY <1>1, <1>2, DivBounds, Q * 0 = 0
    <2> QED BY <1>1, <1>3, <2>1, <2>2
  <1> DEFINE b == y \div kBlockM
             r == y % kBlockM
  <1>5. b \in Int /\ r \in 0 .. kBlockM - 1 /\ y = kBlockM * b + r
    <2> HIDE DEF y
    <2> QED BY <1>1, <1>3, DivMod
  <1>6. 0 <= b
    <2>1. kBlockM * 0 <= y /\ y \in Int
      BY <1>1, <1>3
    <2> HIDE DEF y
    <2> QED BY <1>1, <2>1, DivBounds
  <1>7. b < CeilDiv(Q, kBlockM) /\ CeilDiv(Q, kBlockM) \in Int
    <2>1. y \in Nat /\ y < Q /\ Q \in Int
      BY <1>1, <1>3
    <2> HIDE DEF y
    <2> QED BY <1>1, <2>1, CeilDivCovers, CeilDivType
  <1>8. /\ CtaOf(x, s) = <<x \div Q, b, s>> /\ RowOf(x) = r
        /\ CtaOf(x, s)[1] = x \div Q /\ CtaOf(x, s)[2] = b
    BY DEF CtaOf, RowOf, Q
  <1>9. CtaOf(x, s) \in Ctas
    <2>1. b \in RowBlocks
      BY <1>5, <1>6, <1>7 DEF RowBlocks, Q
    <2> HIDE DEF b
    <2> QED BY <1>4, <1>8, <2>1 DEF Ctas, H
  <1>10. b * kBlockM = kBlockM * b /\ b * kBlockM + r = y /\ b * kBlockM \in Int
    BY <1>1, <1>5
  <1>11. CellOf(CtaOf(x, s), 0) = (x \div Q) * Q + b * kBlockM
    <2>1. (x \div Q) * Q \in Int
      BY <1>1, <1>3
    <2>2. CellOf(CtaOf(x, s), 0) = (x \div Q) * Q + b * kBlockM + 0
      BY <1>8 DEF CellOf, Q
    <2> HIDE DEF b
    <2> QED BY <1>10, <2>1, <2>2
  <1>12. x - CellOf(CtaOf(x, s), 0) = r
    <2>1. (x \div Q) * Q = Q * (x \div Q) /\ (x \div Q) * Q \in Int
      BY <1>1, <1>3
    <2> HIDE DEF b, r, y
    <2> QED BY <1>1, <1>2, <1>3, <1>5, <1>10, <1>11, <2>1
  <1>13. Valid(params, CtaOf(x, s)[2], RowOf(x))
    <2> HIDE DEF b, r
    <2> QED BY <1>1, <1>3, <1>8, <1>10 DEF Valid
  <1> QED BY <1>3, <1>5, <1>8, <1>9, <1>10, <1>12, <1>13 DEF Rows, Q

\* A valid row of a CTA's tile is a cell, and this CTA's only.
LEMMA CellOwned ==
    ASSUME TypeOK, NEW c \in Ctas, NEW x \in Int, x - CellOf(c, 0) \in Rows,
           Valid(params, c[2], x - CellOf(c, 0))
    PROVE  /\ x \in Cells /\ c = CtaOf(x, c[3]) /\ RowOf(x) = x - CellOf(c, 0)
  <1> DEFINE Q == SeqlenQ(arg)
             H == Heads(arg)
             r == x - CellOf(c, 0)
             y == c[2] * kBlockM + r
  <1>1. Q \in Nat \ {0} /\ H \in Nat \ {0} /\ kBlockM \in Nat \ {0} /\ params.sq = Q
    BY CallType, BlockAssumption DEF TypeOK
  <1>2. /\ c[1] \in 0 .. H - 1 /\ c[2] \in Nat /\ c = <<c[1], c[2], c[3]>>
    BY SplitBounds
  <1>3. r \in 0 .. kBlockM - 1 /\ y < Q
    BY <1>1 DEF Rows, Valid
  <1>4. /\ c[2] * kBlockM \in Nat /\ c[1] * Q \in Nat /\ c[1] * Q = Q * c[1]
        /\ c[2] * kBlockM = kBlockM * c[2]
    BY <1>1, <1>2
  <1> HIDE DEF Q, H
  <1>5. CellOf(c, 0) = c[1] * Q + c[2] * kBlockM
    <2>1. CellOf(c, 0) = c[1] * Q + c[2] * kBlockM + 0
      BY DEF CellOf, Q
    <2> QED BY <1>4, <2>1
  <1>6. x = Q * c[1] + y /\ y \in 0 .. Q - 1
    BY <1>1, <1>3, <1>4, <1>5
  <1>7. y \in Int /\ y = kBlockM * c[2] + r
    BY <1>3, <1>4
  <1> HIDE DEF r, y
  <1>8. x \div Q = c[1] /\ x % Q = y
    <2> DEFINE h == c[1]
    <2>1. /\ h \in Int /\ Q \in Nat \ {0} /\ y \in 0 .. Q - 1
          /\ x \in Int /\ x = Q * h + y
      BY <1>1, <1>2, <1>6
    <2> HIDE DEF h
    <2>2. x \div Q = h /\ x % Q = y
      BY <2>1, DivModUnique
    <2> QED BY <2>2 DEF h
  <1>9. y \div kBlockM = c[2] /\ y % kBlockM = r
    <2> DEFINE m == c[2]
    <2>1. /\ m \in Int /\ kBlockM \in Nat \ {0} /\ r \in 0 .. kBlockM - 1
          /\ y \in Int /\ y = kBlockM * m + r
      BY <1>1, <1>2, <1>3, <1>7
    <2> HIDE DEF m
    <2>2. y \div kBlockM = m /\ y % kBlockM = r
      BY <2>1, DivModUnique
    <2> QED BY <2>2 DEF m
  <1>10. x \in Cells
    <2>1. Q * c[1] >= 0 /\ Q * c[1] \in Int
      BY <1>4
    <2>2. Q * (c[1] + 1) <= Q * H
      <3>1. c[1] + 1 \in Int /\ H \in Int /\ c[1] + 1 <= H
        BY <1>1, <1>2
      <3> QED BY <1>1, <3>1, MulMono
    <2>3. Q * (c[1] + 1) = Q * c[1] + Q /\ Q * H = H * Q /\ H * Q \in Int
      BY <1>1, <1>2
    <2>4. 0 <= x /\ x < H * Q
      BY <1>1, <1>6, <2>1, <2>2, <2>3
    <2> QED BY <1>1, <2>3, <2>4 DEF Cells, Size, Q, H
  <1>11. c = CtaOf(x, c[3])
    BY <1>2, <1>8, <1>9 DEF CtaOf, Q
  <1> QED BY <1>8, <1>9, <1>10, <1>11 DEF RowOf, Q, r

-----------------------------------------------------------------------------
(* What the CTAs of a row keep *)

\* The masking code is exact for a split as well, which starts to count its
\* masking steps at its own last block and so masks more blocks than needed.
LEMMA KeepInSplit ==
    ASSUME NEW p, IsParams(p), NEW m \in Nat, NEW r \in Rows, NEW j \in Nat,
           NEW n \in Nat, n = j \div kBlockN,
           NBlockMin(p, m) <= n, n < NBlockMax(p, m),
           NEW masking \in BOOLEAN,
           ~masking => NBlockMax(p, m) - n > NMaskingSteps(p)
    PROVE  Keep(p, masking, m * kBlockM + r, j) <=> Attends(p, m * kBlockM + r, j)
  <1>1. NBlockMax(p, m) \in Int /\ NMaskingSteps(p) \in Nat \ {0}
    BY LoopBoundsType
  <1>2. CASE NBlockMax(p, m) - n <= NMaskingSteps(p)
    <2>1. masking
      BY <1>1, <1>2
    <2> QED BY <1>2, <2>1, KeepExact
  <1>3. CASE NBlockMax(p, m) - n > NMaskingSteps(p)
    <2>1. Keep(p, FALSE, m * kBlockM + r, j) <=> Attends(p, m * kBlockM + r, j)
      <3>1. FALSE \in BOOLEAN /\ (FALSE <=> NBlockMax(p, m) - n <= NMaskingSteps(p))
        BY <1>1, <1>3
      <3> QED BY <3>1, KeepExact
    <2>2. CASE ~masking
      <3>1. masking = FALSE
        BY <2>2
      <3> QED BY <2>1, <3>1
    <2>3. CASE masking /\ p.local
      <3>1. ~p.causal
        BY <2>3 DEF IsParams
      <3> QED BY <2>1, <2>3, <3>1 DEF Keep
    <2>4. CASE masking /\ p.causal
      <3>1. /\ p.sk \in Nat /\ p.sq \in Nat /\ p.wr = 0 /\ ~p.local
            /\ m * kBlockM + r \in Nat
        BY <2>4, BlockAssumption DEF IsParams, Rows
      <3> QED BY <2>4, <3>1 DEF Keep, Attends, ColLimitRight, AtMost
    <2>5. CASE masking /\ ~p.local /\ ~p.causal
      <3>1. Keep(p, FALSE, m * kBlockM + r, j)
        BY <2>5 DEF Keep
      <3>2. p.sk \in Nat
        BY DEF IsParams
      <3>3. j \in 0 .. p.sk - 1
        BY <2>1, <3>1 DEF Attends
      <3>4. j < p.sk
        BY <3>2, <3>3
      <3> QED BY <2>1, <2>5, <3>1, <3>4 DEF Keep
    <2> QED BY <2>2, <2>3, <2>4, <2>5
  <1> QED BY <1>1, <1>2, <1>3

\* The columns row i attends in blocks lo .. hi - 1.
AttendedIn(i, lo, hi) ==
    {j \in Columns(params) : /\ Attends(params, i, j)
                             /\ lo <= j \div kBlockN /\ j \div kBlockN < hi}

\* A CTA that has left its loop has kept what its rows attend in its split.
LEMMA KeptInSplit ==
    ASSUME TypeOK, Shape, NEW c \in Ctas, CtaInv(c), NEW r \in Rows,
           cta[c].phase \in {"store", "done"}
    PROVE  Kept(c, r) = AttendedIn(c[2] * kBlockM + r, NMin(c), NMax(c))
  <1> DEFINE acc == cta[c].acc
             i == c[2] * kBlockM + r
  <1>1. /\ IsParams(params) /\ c[2] \in Nat /\ NMin(c) \in Nat /\ NMax(c) \in Int
        /\ NBlockMin(params, c[2]) \in Nat /\ NBlockMax(params, c[2]) \in Int
        /\ NBlockMin(params, c[2]) <= NMin(c) /\ NMax(c) <= NBlockMax(params, c[2])
        /\ NMaskingSteps(params) \in Nat \ {0}
    BY SplitBounds
  <1>2. acc \in Seq(Visited)
    BY DEF Shape, CtaStates
  <1>3. Len(acc) \in Nat /\ DOMAIN acc = 1 .. Len(acc)
    BY <1>2, LenProperties
  <1>4. \A k \in 1 .. Len(acc) : acc[k] \in Visited
    BY <1>2, ElementOfSeq
  <1>5. \A k \in 1 .. Len(acc) :
            /\ acc[k].n = NMax(c) - k
            /\ acc[k].masking <=> k <= NMaskingSteps(params)
    BY DEF CtaInv, InOrder
  <1>6. \A j \in Columns(params) :
            /\ j \in Nat /\ j \div kBlockN \in Nat
    <2> TAKE j \in Columns(params)
    <2>1. j \in Nat /\ j \in Int /\ kBlockN \in Nat \ {0} /\ kBlockN * 0 <= j
      BY <1>1, BlockAssumption DEF Columns, IsParams
    <2>2. j \div kBlockN \in Int
      BY <2>1, DivMod
    <2>3. 0 <= j \div kBlockN
      BY <2>1, DivBounds
    <2> QED BY <2>1, <2>2, <2>3
  <1>7. ASSUME NEW j \in Columns(params), NEW k \in 1 .. Len(acc),
               acc[k].n = j \div kBlockN, NMin(c) <= j \div kBlockN
        PROVE  Keep(params, acc[k].masking, i, j) <=> Attends(params, i, j)
    <2> DEFINE n == j \div kBlockN
    <2>1. n = NMax(c) - k /\ n \in Nat /\ j \in Nat
      BY <1>5, <1>6, <1>7
    <2>2. acc[k].masking \in BOOLEAN
      BY <1>4 DEF Visited
    <2>3. NBlockMin(params, c[2]) <= n /\ n < NBlockMax(params, c[2])
      BY <1>1, <1>7, <2>1
    <2>4. ~acc[k].masking => NBlockMax(params, c[2]) - n > NMaskingSteps(params)
      <3>1. ~acc[k].masking => k > NMaskingSteps(params)
        BY <1>1, <1>3, <1>5
      <3> HIDE DEF n
      <3> QED BY <1>1, <1>3, <2>1, <3>1
    <2> HIDE DEF acc
    <2> QED BY <1>1, <2>1, <2>2, <2>3, <2>4, KeepInSplit
  <1>8. CASE ~Working(c)
    <2>1. acc = <<>>
      BY <1>8 DEF CtaInv
    <2>2. DOMAIN acc = {}
      BY <2>1
    <2>3. Kept(c, r) = {}
      BY <2>2 DEF Kept, KeptCols
    <2>4. AttendedIn(i, NMin(c), NMax(c)) = {}
      BY <1>1, <1>6, <1>8 DEF AttendedIn, Working
    <2> QED BY <2>3, <2>4
  <1>9. CASE Working(c)
    <2>1. Len(acc) = NMax(c) - NMin(c)
      BY <1>9 DEF CtaInv
    <2>2. ASSUME NEW j \in Columns(params), NEW k \in DOMAIN acc,
                 acc[k].n = j \div kBlockN, Keep(params, acc[k].masking, i, j)
          PROVE  j \in AttendedIn(i, NMin(c), NMax(c))
      <3>1. k \in 1 .. Len(acc) /\ j \div kBlockN = NMax(c) - k /\ k \in Int
        BY <1>3, <1>5, <2>2
      <3>2. NMin(c) <= j \div kBlockN /\ j \div kBlockN < NMax(c)
        BY <1>1, <1>3, <2>1, <3>1
      <3>3. Attends(params, i, j)
        BY <1>7, <2>2, <3>1, <3>2
      <3> QED BY <3>2, <3>3 DEF AttendedIn
    <2>3. ASSUME NEW j \in AttendedIn(i, NMin(c), NMax(c))
          PROVE  j \in Kept(c, r)
      <3> DEFINE k == NMax(c) - (j \div kBlockN)
      <3>1. /\ j \in Columns(params) /\ Attends(params, i, j)
            /\ NMin(c) <= j \div kBlockN /\ j \div kBlockN < NMax(c)
        BY <2>3 DEF AttendedIn
      <3>2. k \in 1 .. Len(acc)
        <4>1. j \div kBlockN \in Nat
          BY <1>6, <3>1
        <4> QED BY <1>1, <2>1, <3>1, <4>1
      <3>3. acc[k].n = j \div kBlockN
        <4>1. j \div kBlockN \in Int
          BY <1>6, <3>1
        <4>2. acc[k].n = NMax(c) - k
          BY <1>5, <3>2
        <4> QED BY <1>1, <4>1, <4>2
      <3> HIDE DEF k
      <3>4. Keep(params, acc[k].masking, i, j)
        BY <1>7, <3>1, <3>2, <3>3
      <3> QED BY <1>3, <3>1, <3>2, <3>3, <3>4 DEF Kept, KeptCols
    <2>4. ASSUME NEW j \in Kept(c, r)
          PROVE  j \in AttendedIn(i, NMin(c), NMax(c))
      <3>1. j \in Columns(params)
        BY <2>4 DEF Kept, KeptCols
      <3>2. PICK k \in DOMAIN acc : acc[k].n = j \div kBlockN
                                    /\ Keep(params, acc[k].masking, i, j)
        BY <2>4 DEF Kept, KeptCols
      <3> QED BY <2>2, <3>1, <3>2
    <2> QED BY <2>3, <2>4
  <1> QED BY <1>8, <1>9

\* Between them the splits of a cell have every block its row attends.
LEMMA SplitsCover ==
    ASSUME TypeOK, ~CannotRun, NEW x \in Cells, NEW j,
           Attends(params, x % SeqlenQ(arg), j)
    PROVE  \E s \in Splits(arg) : /\ NMin(CtaOf(x, s)) <= j \div kBlockN
                                  /\ j \div kBlockN < NMax(CtaOf(x, s))
  <1> DEFINE m == (x % SeqlenQ(arg)) \div kBlockM
             n == j \div kBlockN
             P == PerSplit(arg)
             k == AtLeast(1, arg.num_splits)
             all == CeilDiv(SeqlenK(arg), kBlockN)
  <1>1. /\ arg \in Args /\ IsParams(params) /\ params.sk = SeqlenK(arg)
        /\ SeqlenK(arg) \in Nat /\ P \in Nat /\ kBlockN \in Nat \ {0} /\ all \in Nat
    BY CallType, CeilDivNat, BlockAssumption DEF TypeOK
  <1>2. arg.num_splits \in Nat \ {0} /\ k = arg.num_splits /\ Splits(arg) = 0 .. k - 1
    <2>1. arg.num_splits \in Nat /\ arg.num_splits # 0
      BY <1>1, SplitAssumption DEF IsKVCall, CannotRun
    <2> QED BY <2>1 DEF AtLeast, Splits, Split
  <1>3. 0 \in Splits(arg)
    BY <1>2
  <1>4. /\ m \in Nat /\ RowOf(x) \in Rows /\ m * kBlockM + RowOf(x) = x % SeqlenQ(arg)
    <2>1. CtaOf(x, 0) \in Ctas /\ CtaOf(x, 0)[2] = m
      BY <1>3, CellOwner DEF CtaOf
    <2>2. m \in Nat
      BY <2>1, SplitBounds
    <2> QED BY <1>3, <2>1, <2>2, CellOwner
  <1> HIDE DEF m, n, P, k, all
  <1>5. NBlockMin(params, m) <= n /\ n < NBlockMax(params, m)
    <2>1. Attends(params, m * kBlockM + RowOf(x), j)
      BY <1>4
    <2> QED BY <1>1, <1>4, <2>1, AttendedBlocks DEF n
  <1>6. /\ n \in Nat /\ n < all
        /\ NBlockMin(params, m) \in Nat /\ NBlockMax(params, m) \in Int
    <2>1. j \in Int
      BY <1>1 DEF Attends
    <2>2. n \in Int
      BY <1>1, <2>1, DivMod DEF n
    <2>3. /\ NBlockMin(params, m) \in Nat /\ NBlockMax(params, m) \in Int
          /\ NBlockMax(params, m) <= all
      BY <1>1, <1>4, LoopBoundsType DEF all
    <2> QED BY <1>1, <1>5, <2>2, <2>3
  <1>7. P = CeilDiv(all, k)
    BY DEF P, PerSplit, all, k
  <1>8. P \in Nat \ {0}
    <2>1. n \div k < P /\ n \div k \in Int
      <3>1. n \in Int /\ all \in Int /\ k \in Nat \ {0}
        BY <1>1, <1>2, <1>6
      <3>2. n \div k < CeilDiv(all, k)
        BY <1>6, <3>1, CeilDivCovers
      <3> QED BY <1>7, <3>1, <3>2, DivMod
    <2>2. 0 <= n \div k
      <3>1. k * 0 <= n /\ n \in Int
        BY <1>2, <1>6
      <3> QED BY <1>2, <3>1, DivBounds
    <2> QED BY <1>1, <2>1, <2>2
  <1>9. all <= k * P
    BY <1>1, <1>2, <1>7, <1>8, CeilDivBounds
  <1> DEFINE s == n \div P
  <1>10. s \in Int /\ P * s <= n /\ n < P * (s + 1) /\ P * s \in Int
    <2>1. s \in Int /\ n % P \in 0 .. P - 1 /\ n = P * s + (n % P)
      BY <1>6, <1>8, DivMod
    <2> HIDE DEF s
    <2>2. P * (s + 1) = P * s + P /\ P * s \in Int
      BY <1>8, <2>1
    <2> QED BY <1>8, <2>1, <2>2
  <1>11. s \in 0 .. k - 1
    <2>1. n < P * k
      <3>1. P * k = k * P /\ P * k \in Int
        BY <1>2, <1>8
      <3> QED BY <1>1, <1>6, <1>9, <3>1
    <2>2. s < k
      BY <1>2, <1>6, <1>8, <2>1, DivBounds
    <2>3. 0 <= s
      <3>1. P * 0 <= n /\ n \in Int
        BY <1>6, <1>8
      <3> QED BY <1>8, <3>1, DivBounds
    <2> QED BY <1>2, <1>10, <2>2, <2>3
  <1> HIDE DEF s
  <1>12. CtaOf(x, s)[2] = m /\ CtaOf(x, s)[3] = s
    BY DEF CtaOf, m
  <1>13. /\ s * P = P * s /\ (s + 1) * P = P * (s + 1)
         /\ s * P \in Int /\ (s + 1) * P \in Int
    BY <1>8, <1>11
  <1>14. NMin(CtaOf(x, s)) <= n
    BY <1>5, <1>6, <1>10, <1>12, <1>13 DEF NMin, SplitMin, AtLeast, P
  <1>15. n < NMax(CtaOf(x, s))
    BY <1>5, <1>6, <1>10, <1>12, <1>13 DEF NMax, SplitMax, AtMost, P
  <1> QED BY <1>2, <1>11, <1>14, <1>15 DEF n

\* No block is in two splits of a cell.
LEMMA SplitsDisjoint ==
    ASSUME TypeOK, NEW x \in Cells, NEW s \in Splits(arg), NEW t \in Splits(arg),
           s # t, NEW n \in Int,
           NMin(CtaOf(x, s)) <= n, n < NMax(CtaOf(x, s)),
           NMin(CtaOf(x, t)) <= n, n < NMax(CtaOf(x, t))
    PROVE  FALSE
  <1> DEFINE P == PerSplit(arg)
  <1>1. P \in Nat /\ s \in Nat /\ t \in Nat
    BY CallType DEF TypeOK
  <1>2. ASSUME NEW u \in Splits(arg),
               NMin(CtaOf(x, u)) <= n, n < NMax(CtaOf(x, u))
        PROVE  P * u <= n /\ n < P * (u + 1)
    <2>1. CtaOf(x, u) \in Ctas /\ CtaOf(x, u)[3] = u
      BY CellOwner DEF CtaOf
    <2>2. /\ u \in Nat /\ NMin(CtaOf(x, u)) \in Nat /\ NMax(CtaOf(x, u)) \in Int
          /\ NBlockMin(params, CtaOf(x, u)[2]) \in Nat
          /\ NBlockMax(params, CtaOf(x, u)[2]) \in Int
      BY <2>1, SplitBounds
    <2> HIDE DEF P
    <2>3. /\ u * P = P * u /\ (u + 1) * P = P * (u + 1)
          /\ u * P \in Int /\ (u + 1) * P \in Int
      BY <1>1, <2>2
    <2>4. NMin(CtaOf(x, u)) >= u * P
      BY <2>1, <2>2, <2>3 DEF NMin, SplitMin, AtLeast, P
    <2>5. NMax(CtaOf(x, u)) <= (u + 1) * P
      BY <2>1, <2>2, <2>3 DEF NMax, SplitMax, AtMost, P
    <2> QED BY <1>2, <2>2, <2>3, <2>4, <2>5
  <1>3. /\ P * s <= n /\ n < P * (s + 1)
        /\ P * t <= n /\ n < P * (t + 1)
    BY <1>2
  <1> HIDE DEF P
  <1>4. P * s \in Int /\ P * t \in Int /\ P * (s + 1) = P * s + P
        /\ P * (t + 1) = P * t + P
    BY <1>1
  <1>5. P \in Nat \ {0}
    BY <1>1, <1>3, <1>4
  <1>6. ASSUME NEW u \in Nat, NEW v \in Nat, u < v
        PROVE  P * (u + 1) <= P * v
    <2>1. u + 1 \in Int /\ v \in Int /\ u + 1 <= v
      BY <1>6
    <2> QED BY <1>5, <2>1, MulMono
  <1>7. CASE s < t
    BY <1>1, <1>3, <1>4, <1>6, <1>7
  <1>8. CASE t < s
    BY <1>1, <1>3, <1>4, <1>6, <1>8
  <1> QED BY <1>1, <1>7, <1>8

-----------------------------------------------------------------------------
(* The initial state *)

\* The initial states satisfy the invariant: no CTA has begun, nothing is stored.
LEMMA InitInv == Init => IInv
  <1> SUFFICES ASSUME Init PROVE IInv
    OBVIOUS
  <1>1. /\ arg \in Args /\ params = KVParams(arg) /\ stage = "called"
        /\ kcache = {} /\ vcache = {} /\ combined = {}
        /\ \A c \in Ctas : cta[c] = [phase |-> "start", n_block |-> 0,
                                     keys |-> NoKeys, acc |-> <<>>]
        /\ \A s \in Splits(arg), x \in Cells : partial[s][x] = Blank
        /\ \A x \in AllRows : result[x] = Blank
    BY DEF Init, Blank
  <1>2. CeilDiv(SeqlenK(arg), kBlockN) \in Nat
    BY <1>1, CallType, CeilDivNat, BlockAssumption
  <1>3. TypeOK
    <2>1. \A s \in Splits(arg), x \in Cells : partial[s][x].lse = "unset"
      BY <1>1 DEF Blank
    <2>2. \A x \in AllRows : result[x].lse = "unset"
      BY <1>1 DEF Blank
    <2>3. \A c \in Ctas : cta[c].phase = "start" /\ cta[c].n_block = 0
      BY <1>1
    <2> QED BY <1>1, <1>2, <2>1, <2>2, <2>3 DEF TypeOK
  <1>4. Shape
    <2>1. cta \in [Ctas -> CtaStates]
      <3>1. [phase |-> "start", n_block |-> 0, keys |-> NoKeys, acc |-> <<>>]
                \in CtaStates
        <4>1. <<>> \in Seq(Visited)
          BY EmptySeq
        <4> QED BY <4>1 DEF CtaStates, NoKeys, Phases
      <3> QED BY <3>1 DEF Init
    <2>2. Blank \in Outputs
      BY DEF Blank, Outputs, Unset
    <2>3. partial \in [Splits(arg) -> [Cells -> Outputs]]
      BY <2>2 DEF Init, Blank
    <2>4. result \in [AllRows -> Outputs]
      BY <2>2 DEF Init, Blank
    <2> QED BY <2>1, <2>3, <2>4 DEF Shape
  <1>5. \A c \in Ctas : CtaInv(c)
    <2> TAKE c \in Ctas
    <2>1. cta[c].phase = "start" /\ cta[c].acc = <<>>
      BY <1>1
    <2>2. Len(cta[c].acc) = 0
      BY <2>1
    <2> QED BY <2>1, <2>2 DEF CtaInv, InOrder
  <1>6. PartialInv
    <2>1. \A s \in Splits(arg), x \in Cells : Stored(x, s) = Blank
      BY <1>1, <1>3, CellOwner DEF Stored
    <2> QED BY <1>1, <2>1 DEF PartialInv
  <1>7. ResultInv
    <2> SUFFICES ASSUME NEW x \in Cells, ~Split(arg) PROVE Stored(x, 0) = Blank
      BY <1>1 DEF ResultInv, AllRows
    <2>1. 0 \in Splits(arg)
      BY DEF Splits
    <2> QED BY <1>1, <1>3, <2>1, CellOwner DEF Stored
  <1> QED BY <1>1, <1>3, <1>4, <1>5, <1>6, <1>7 DEF IInv, CacheInv, StageInv

-----------------------------------------------------------------------------
(* What a step leaves alone *)

\* The grid, the cells and the bounds depend on the call only.
LEMMA Frame ==
    ASSUME arg' = arg, params' = params
    PROVE  /\ Ctas' = Ctas /\ Cells' = Cells /\ AllRows' = AllRows /\ Chunks' = Chunks
           /\ CannotRun' = CannotRun
           /\ \A c \in Ctas : /\ NMin(c)' = NMin(c) /\ NMax(c)' = NMax(c)
                              /\ NCopy(c)' = NCopy(c)
           /\ \A x \in Cells : RowOf(x)' = RowOf(x)
           /\ \A x \in Cells, s \in Splits(arg) : CtaOf(x, s)' = CtaOf(x, s)
  <1>1. Ctas' = Ctas
    BY DEF Ctas, RowBlocks
  <1>2. Cells' = Cells /\ Chunks' = Chunks
    BY DEF Cells, Chunks, Size
  <1>3. AllRows' = AllRows
    BY <1>2 DEF AllRows
  <1>4. CannotRun' = CannotRun
    BY DEF CannotRun
  <1>5. \A c \in Ctas : NMin(c)' = NMin(c) /\ NMax(c)' = NMax(c)
                        /\ NCopy(c)' = NCopy(c)
    BY DEF NMin, NMax, NCopy
  <1>6. \A x \in Cells : RowOf(x)' = RowOf(x)
    BY DEF RowOf
  <1>7. \A x \in Cells, s \in Splits(arg) : CtaOf(x, s)' = CtaOf(x, s)
    BY DEF CtaOf
  <1> QED BY <1>1, <1>2, <1>3, <1>4, <1>5, <1>6, <1>7

\* A CTA that does not move keeps its invariant while the caches grow.
LEMMA OtherKeeps ==
    ASSUME NEW d \in Ctas, CtaInv(d), arg' = arg, params' = params,
           cta'[d] = cta[d], kcache \subseteq kcache', vcache \subseteq vcache'
    PROVE  CtaInv(d)'
  <1>1. NMin(d)' = NMin(d) /\ NMax(d)' = NMax(d) /\ NCopy(d)' = NCopy(d)
    BY Frame
  <1>2. Working(d)' <=> Working(d)
    BY <1>1 DEF Working
  <1>3. InOrder(d) => InOrder(d)'
    BY <1>1 DEF InOrder
  <1>4. Appended(d, NMin(d)) => Appended(d, NMin(d))'
    BY <1>1 DEF Appended
  <1>5. Appended(d, cta[d].n_block + 1) => Appended(d, cta[d].n_block + 1)'
    BY <1>1 DEF Appended
  <1> QED BY <1>1, <1>2, <1>3, <1>4, <1>5 DEF CtaInv

\* A step of CTA c that stores nothing.
LEMMA QuietStep ==
    ASSUME IInv, NEW c \in Ctas, stage = "split",
           UNCHANGED <<arg, params, stage, partial, combined, result>>,
           cta' \in [Ctas -> CtaStates],
           \A d \in Ctas \ {c} : cta'[d] = cta[d],
           cta[c].phase # "done", cta'[c].phase # "done",
           cta'[c].n_block \in -1 .. CeilDiv(SeqlenK(arg), kBlockN),
           kcache \subseteq kcache', vcache \subseteq vcache',
           kcache' \cup vcache' \subseteq arg.cache_len .. SeqlenK(arg) - 1,
           CtaInv(c)'
    PROVE  IInv'
  <1>1. /\ Ctas' = Ctas /\ Cells' = Cells /\ AllRows' = AllRows /\ Chunks' = Chunks
        /\ CannotRun' = CannotRun /\ arg' = arg /\ params' = params
    BY Frame
  <1>2. \A d \in Ctas : CtaInv(d)'
    <2> TAKE d \in Ctas
    <2>1. CASE d # c
      BY <2>1, OtherKeeps DEF IInv
    <2> QED BY <2>1
  <1>3. TypeOK'
    <2>1. arg.cache_len .. SeqlenK(arg) - 1 \subseteq 0 .. arg.capacity - 1
      BY CallType DEF IInv, TypeOK
    <2>2. kcache' \subseteq 0 .. arg.capacity - 1 /\ vcache' \subseteq 0 .. arg.capacity - 1
      BY <2>1
    <2>3. \A d \in Ctas : /\ cta'[d].phase \in Phases
                          /\ cta'[d].n_block \in -1 .. CeilDiv(SeqlenK(arg), kBlockN)
      BY DEF IInv, TypeOK, CtaStates, Phases
    <2> QED BY <1>1, <2>2, <2>3 DEF IInv, TypeOK, Phases
  <1>4. Shape'
    BY <1>1 DEF IInv, Shape
  <1>5. CacheInv'
    BY <1>1 DEF CacheInv
  <1>6. StageInv'
    BY <1>1 DEF IInv, StageInv
  <1>7. \A x \in Cells, s \in Splits(arg) : Stored(x, s)' = Stored(x, s)
    <2> TAKE x \in Cells, s \in Splits(arg)
    <2>1. CtaOf(x, s) \in Ctas /\ CtaOf(x, s)' = CtaOf(x, s) /\ RowOf(x)' = RowOf(x)
      BY CellOwner, Frame DEF IInv
    <2>2. CASE CtaOf(x, s) = c
      BY <1>1, <2>1, <2>2 DEF Stored, Blank
    <2>3. CASE CtaOf(x, s) # c
      BY <1>1, <2>1, <2>3 DEF Stored, Final, Kept, Blank
    <2> QED BY <2>2, <2>3
  <1>8. PartialInv'
    BY <1>1, <1>7 DEF IInv, PartialInv, Blank
  <1>9. ResultInv'
    <2>1. \A x \in Cells : CombineRow(x)' = CombineRow(x)
      BY <1>1 DEF CombineRow
    <2>2. ~Split(arg) => 0 \in Splits(arg)
      BY DEF Splits
    <2> QED BY <1>1, <1>7, <2>1, <2>2 DEF IInv, ResultInv, Blank
  <1> QED BY <1>1, <1>2, <1>3, <1>4, <1>5, <1>6, <1>8, <1>9 DEF IInv

-----------------------------------------------------------------------------
(* The steps of a CTA before it stores *)

\* Blocks a CTA need not copy: nothing of them is new.
LEMMA NothingToCopy ==
    ASSUME TypeOK, NEW c \in Ctas, Append_KV(arg) => Appended(c, NCopy(c))
    PROVE  Appended(c, NMin(c))
  <1> SUFFICES ASSUME NEW i \in NMin(c) .. NMax(c) - 1
               PROVE  NewCols(arg, i) \subseteq kcache \cap vcache
    BY DEF Appended
  <1>1. NMin(c) \in Nat /\ NMax(c) \in Int /\ NCopy(c) \in Int
    BY SplitBounds
  <1>2. i \in Nat /\ NMin(c) <= i /\ i <= NMax(c) - 1
    BY <1>1
  <1>3. CASE i < NCopy(c) \/ ~Append_KV(arg)
    BY <1>2, <1>3, NothingNew
  <1>4. CASE i >= NCopy(c) /\ Append_KV(arg)
    <2>1. i \in NCopy(c) .. NMax(c) - 1
      BY <1>1, <1>2, <1>4
    <2> QED BY <1>4, <2>1 DEF Appended
  <1> QED BY <1>1, <1>2, <1>3, <1>4

\* A load of an appended block finds all its rows.
LEMMA LoadFresh ==
    ASSUME NEW c \in Ctas, Appended(c, NMin(c)), NEW n \in NMin(c) .. NMax(c) - 1
    PROVE  Missing(kcache, n) = {} /\ Missing(vcache, n) = {} /\ KeysOf(n).stale = {}
  BY DEF Appended, Missing, KeysOf

\* The new rows of a block are columns from the old length of the cache on.
LEMMA NewColsType ==
    ASSUME NEW a, NEW n \in Int
    PROVE  /\ NewCols(a, n) \subseteq Int
           /\ \A j \in NewCols(a, n) : a.cache_len <= j /\ j < SeqlenK(a)
           /\ KeysOf(n) \in [n : Int, stale : SUBSET Int]
           /\ Missing(vcache, n) \subseteq Int
  BY DEF NewCols, Block, KeysOf, Missing

\* The CTAs after c has moved.
Moved(c, n, keys, acc, phase) ==
    [cta EXCEPT ![c].n_block = n, ![c].keys = keys, ![c].acc = acc, ![c].phase = phase]

\* A CTA that moves keeps the shape of its state.
LEMMA MoveType ==
    ASSUME Shape, NEW c \in Ctas, NEW n \in Int, NEW phase \in Phases,
           NEW keys \in [n : Int, stale : SUBSET Int], NEW acc \in Seq(Visited),
           cta' = Moved(c, n, keys, acc, phase)
    PROVE  /\ cta' \in [Ctas -> CtaStates]
           /\ \A d \in Ctas \ {c} : cta'[d] = cta[d]
           /\ cta'[c].phase = phase /\ cta'[c].n_block = n
           /\ cta'[c].keys = keys /\ cta'[c].acc = acc
  <1>1. cta \in [Ctas -> CtaStates]
    BY DEF Shape
  <1> DEFINE new == [cta[c] EXCEPT !.n_block = n, !.keys = keys, !.acc = acc,
                                   !.phase = phase]
  <1>2. cta' = [cta EXCEPT ![c] = new]
    BY <1>1 DEF Moved
  <1>3. /\ new \in CtaStates /\ new.phase = phase /\ new.n_block = n
        /\ new.keys = keys /\ new.acc = acc
    BY <1>1 DEF CtaStates
  <1> HIDE DEF new
  <1>4. cta' \in [Ctas -> CtaStates]
    BY <1>1, <1>2, <1>3
  <1>5. cta'[c] = new
    BY <1>1, <1>2
  <1>6. \A d \in Ctas \ {c} : cta'[d] = cta[d]
    BY <1>1, <1>2
  <1> QED BY <1>3, <1>4, <1>5, <1>6

\* A CTA that begins sets its first block to append, or goes straight to its loads.
LEMMA StartKeeps ==
    ASSUME IInv, NEW c \in Ctas, Start(c)
    PROVE  IInv'
  <1>1. /\ stage = "split" /\ cta[c].phase = "start" /\ NMin(c) < NMax(c)
        /\ UNCHANGED <<arg, params, stage, kcache, vcache, partial, combined, result>>
    BY DEF Start, At
  <1>2. /\ NMin(c) \in Nat /\ NMax(c) \in Int /\ NCopy(c) \in Int
        /\ NMax(c) <= CeilDiv(SeqlenK(arg), kBlockN)
        /\ CeilDiv(SeqlenK(arg), kBlockN) \in Int /\ TypeOK /\ CtaInv(c) /\ Shape
    BY <1>1, SplitBounds, CallType, CeilDivType, BlockAssumption DEF IInv, TypeOK
  <1> DEFINE phase == IF Append_KV(arg) /\ NCopy(c) < NMax(c) THEN "append" ELSE "load"
             n == NMax(c) - 1
  <1>3. /\ cta' \in [Ctas -> CtaStates]
        /\ \A d \in Ctas \ {c} : cta'[d] = cta[d]
        /\ cta'[c].phase = phase /\ cta'[c].n_block = n
        /\ cta'[c].acc = <<>>
    <2>1. cta[c].acc = <<>> /\ cta[c] \in CtaStates /\ cta \in [Ctas -> CtaStates]
      BY <1>1, <1>2 DEF CtaInv, Shape
    <2>2. phase \in Phases /\ n \in Int
      BY <1>2 DEF Phases
    <2>3. cta' = [cta EXCEPT ![c].n_block = n, ![c].phase = phase]
      BY DEF Start
    <2> HIDE DEF phase, n
    <2>4. cta' = Moved(c, n, cta[c].keys, cta[c].acc, phase)
      BY <2>1, <2>3 DEF CtaStates, Moved
    <2>5. cta[c].keys \in [n : Int, stale : SUBSET Int] /\ cta[c].acc \in Seq(Visited)
      BY <2>1 DEF CtaStates
    <2>6. /\ cta' \in [Ctas -> CtaStates]
          /\ \A d \in Ctas \ {c} : cta'[d] = cta[d]
          /\ cta'[c].phase = phase /\ cta'[c].n_block = n
          /\ cta'[c].acc = cta[c].acc
      BY <1>2, <2>2, <2>4, <2>5, MoveType
    <2> QED BY <2>1, <2>6
  <1>4. CtaInv(c)'
    <2>1. NMin(c)' = NMin(c) /\ NMax(c)' = NMax(c) /\ NCopy(c)' = NCopy(c)
      BY <1>1, Frame
    <2>2. Len(cta'[c].acc) = 0
      BY <1>3
    <2>3. CASE phase = "append"
      <3>1. NCopy(c) <= cta'[c].n_block /\ cta'[c].n_block < NMax(c)
        BY <1>2, <1>3, <2>3
      <3>2. Appended(c, cta[c].n_block + 1)'
        BY <1>2, <1>3, <2>1 DEF Appended
      <3> QED BY <1>1, <1>3, <2>1, <2>2, <2>3, <3>1, <3>2 DEF CtaInv, Working, InOrder
    <2>4. CASE phase = "load"
      <3>1. Append_KV(arg) => Appended(c, NCopy(c))
        BY <1>2, <2>4 DEF Appended
      <3>2. Appended(c, NMin(c))
        BY <1>2, <3>1, NothingToCopy
      <3>3. Appended(c, NMin(c))'
        BY <1>1, <2>1, <3>2 DEF Appended
      <3> QED BY <1>1, <1>3, <2>1, <2>2, <2>4, <3>3 DEF CtaInv, Working, InOrder
    <2> QED BY <2>3, <2>4
  <1>5. cta'[c].phase # "done" /\ cta'[c].n_block \in -1 .. CeilDiv(SeqlenK(arg), kBlockN)
    BY <1>1, <1>2, <1>3
  <1> QED BY <1>1, <1>3, <1>4, <1>5, QuietStep DEF IInv, CacheInv

\* A CTA copies the new rows of one block; the rows of other CTAs stay.
LEMMA AppendBlockKeeps ==
    ASSUME IInv, NEW c \in Ctas, AppendBlock(c)
    PROVE  IInv'
  <1> DEFINE n == cta[c].n_block
             phase == IF n > NCopy(c) THEN "append" ELSE "load"
  <1>1. /\ stage = "split" /\ cta[c].phase = "append"
        /\ kcache' = kcache \cup NewCols(arg, n) /\ vcache' = vcache \cup NewCols(arg, n)
        /\ UNCHANGED <<arg, params, stage, partial, combined, result>>
    BY DEF AppendBlock, At
  <1>2. /\ NMin(c) \in Nat /\ NMax(c) \in Int /\ NCopy(c) \in Int /\ NMin(c) <= NCopy(c)
        /\ NMax(c) <= CeilDiv(SeqlenK(arg), kBlockN)
        /\ CeilDiv(SeqlenK(arg), kBlockN) \in Int /\ TypeOK /\ CtaInv(c) /\ Shape
    BY <1>1, SplitBounds, CallType, CeilDivType, BlockAssumption DEF IInv, TypeOK
  <1>3. /\ cta[c].acc = <<>> /\ Working(c) /\ n \in Int
        /\ NCopy(c) <= n /\ n < NMax(c) /\ Appended(c, n + 1)
    BY <1>1, <1>2 DEF CtaInv, Shape, CtaStates
  <1>4. /\ cta' \in [Ctas -> CtaStates]
        /\ \A d \in Ctas \ {c} : cta'[d] = cta[d]
        /\ cta'[c].phase = phase /\ cta'[c].n_block = n - 1
        /\ cta'[c].acc = <<>>
    <2>1. cta[c] \in CtaStates /\ cta \in [Ctas -> CtaStates]
      BY <1>2 DEF Shape
    <2>2. phase \in Phases /\ n - 1 \in Int
      BY <1>3 DEF Phases
    <2>3. cta' = [cta EXCEPT ![c].n_block = n - 1, ![c].phase = phase]
      BY DEF AppendBlock
    <2> HIDE DEF phase, n
    <2>4. cta' = Moved(c, n - 1, cta[c].keys, cta[c].acc, phase)
      BY <2>1, <2>3 DEF CtaStates, Moved
    <2>5. cta[c].keys \in [n : Int, stale : SUBSET Int] /\ cta[c].acc \in Seq(Visited)
      BY <2>1 DEF CtaStates
    <2>6. /\ cta' \in [Ctas -> CtaStates]
          /\ \A d \in Ctas \ {c} : cta'[d] = cta[d]
          /\ cta'[c].phase = phase /\ cta'[c].n_block = n - 1
          /\ cta'[c].acc = cta[c].acc
      BY <1>2, <2>2, <2>4, <2>5, MoveType
    <2> QED BY <1>3, <2>6
  <1>5. kcache' \cup vcache' \subseteq arg.cache_len .. SeqlenK(arg) - 1
    <2>1. NewCols(arg, n) \subseteq arg.cache_len .. SeqlenK(arg) - 1
      <3>1. arg.cache_len \in Nat /\ SeqlenK(arg) \in Nat
        BY <1>2, CallType DEF TypeOK
      <3> QED BY <1>3, <3>1, NewColsType
    <2> QED BY <1>1, <2>1 DEF IInv, CacheInv
  <1>6. CtaInv(c)'
    <2>1. /\ NMin(c)' = NMin(c) /\ NMax(c)' = NMax(c) /\ NCopy(c)' = NCopy(c)
          /\ TypeOK'
      <3>1. TypeOK'
        <4>1. /\ arg.cache_len .. SeqlenK(arg) - 1 \subseteq 0 .. arg.capacity - 1
              /\ Ctas' = Ctas /\ Cells' = Cells /\ AllRows' = AllRows
              /\ Chunks' = Chunks
          BY <1>1, <1>2, CallType, Frame DEF TypeOK
        <4>2. kcache' \subseteq 0 .. arg.capacity - 1 /\ vcache' \subseteq 0 .. arg.capacity - 1
          BY <1>5, <4>1
        <4>3. \A d \in Ctas : /\ cta'[d].phase \in Phases
                              /\ cta'[d].n_block \in -1 .. CeilDiv(SeqlenK(arg), kBlockN)
          <5>1. cta'[c].n_block \in -1 .. CeilDiv(SeqlenK(arg), kBlockN)
            BY <1>2, <1>3, <1>4
          <5>2. \A d \in Ctas : cta'[d].phase \in Phases
            BY <1>4 DEF CtaStates
          <5> HIDE DEF n, phase
          <5> QED BY <1>2, <1>4, <5>1, <5>2 DEF TypeOK
        <4> QED BY <1>1, <1>2, <4>1, <4>2, <4>3 DEF TypeOK, Phases
      <3> QED BY <1>1, <3>1, Frame
    <2>2. Len(cta'[c].acc) = 0
      BY <1>4
    <2>3. \A i \in n .. NMax(c) - 1 : NewCols(arg, i) \subseteq kcache' \cap vcache'
      <3> TAKE i \in n .. NMax(c) - 1
      <3>1. CASE i = n
        BY <1>1, <3>1
      <3>2. CASE i # n
        <4>1. i \in n + 1 .. NMax(c) - 1
          BY <1>2, <1>3, <3>2
        <4> QED BY <1>1, <1>3, <4>1 DEF Appended
      <3> QED BY <3>1, <3>2
    <2>4. CASE phase = "append"
      <3>1. NCopy(c) <= cta'[c].n_block /\ cta'[c].n_block < NMax(c)
        BY <1>2, <1>3, <1>4, <2>4
      <3>2. Appended(c, cta[c].n_block + 1)'
        <4>1. cta'[c].n_block + 1 = n
          BY <1>3, <1>4
        <4> QED BY <1>1, <2>1, <2>3, <4>1 DEF Appended
      <3>3. Working(c)'
        BY <1>3, <2>1 DEF Working
      <3> QED BY <1>4, <2>1, <2>2, <2>4, <3>1, <3>2, <3>3 DEF CtaInv, InOrder
    <2>5. CASE phase = "load"
      <3>1. n = NCopy(c)
        BY <1>2, <1>3, <2>5
      <3>2. Appended(c, NCopy(c))'
        BY <1>1, <2>1, <2>3, <3>1 DEF Appended
      <3>3. \A i \in NMin(c) .. NMax(c) - 1 : NewCols(arg, i) \subseteq kcache' \cap vcache'
        <4> TAKE i \in NMin(c) .. NMax(c) - 1
        <4>1. CASE i < NCopy(c)
          <5>1. i \in Nat /\ NMin(c) <= i
            BY <1>2
          <5> QED BY <1>2, <4>1, <5>1, NothingNew
        <4>2. CASE i >= NCopy(c)
          <5>1. i \in n .. NMax(c) - 1
            BY <1>2, <3>1, <4>2
          <5> QED BY <2>3, <5>1
        <4> QED BY <1>2, <4>1, <4>2
      <3>4. Appended(c, NMin(c))'
        BY <1>1, <2>1, <3>3 DEF Appended
      <3>5. Working(c)'
        BY <1>3, <2>1 DEF Working
      <3> QED BY <1>4, <2>1, <2>2, <2>5, <3>4, <3>5 DEF CtaInv, InOrder
    <2> QED BY <2>4, <2>5
  <1>7. cta'[c].phase # "done" /\ cta'[c].n_block \in -1 .. CeilDiv(SeqlenK(arg), kBlockN)
    BY <1>2, <1>3, <1>4
  <1>8. kcache \subseteq kcache' /\ vcache \subseteq vcache'
    BY <1>1
  <1> QED BY <1>1, <1>4, <1>5, <1>6, <1>7, <1>8, QuietStep

\* A CTA that has appended its whole split loads its first keys.
LEMMA LoadKeysKeeps ==
    ASSUME IInv, NEW c \in Ctas, LoadKeys(c)
    PROVE  IInv'
  <1> DEFINE n == NMax(c) - 1
  <1>1. /\ stage = "split" /\ cta[c].phase = "load"
        /\ UNCHANGED <<arg, params, stage, kcache, vcache, partial, combined, result>>
    BY DEF LoadKeys, At
  <1>2. /\ NMin(c) \in Nat /\ NMax(c) \in Int
        /\ NMax(c) <= CeilDiv(SeqlenK(arg), kBlockN)
        /\ CeilDiv(SeqlenK(arg), kBlockN) \in Int /\ TypeOK /\ CtaInv(c) /\ Shape
    BY <1>1, SplitBounds, CallType, CeilDivType, BlockAssumption DEF IInv, TypeOK
  <1>3. cta[c].acc = <<>> /\ Working(c) /\ Appended(c, NMin(c))
    BY <1>1, <1>2 DEF CtaInv
  <1>4. n \in Int /\ n \in NMin(c) .. NMax(c) - 1
    BY <1>2, <1>3 DEF Working
  <1>5. KeysOf(n) \in [n : Int, stale : SUBSET Int] /\ KeysOf(n).n = n /\ KeysOf(n).stale = {}
    BY <1>3, <1>4, NewColsType, LoadFresh DEF KeysOf
  <1>6. /\ cta' \in [Ctas -> CtaStates]
        /\ \A d \in Ctas \ {c} : cta'[d] = cta[d]
        /\ cta'[c].phase = "loop" /\ cta'[c].n_block = n
        /\ cta'[c].keys = KeysOf(n) /\ cta'[c].acc = <<>>
    <2>1. cta[c] \in CtaStates /\ cta \in [Ctas -> CtaStates]
      BY <1>2 DEF Shape
    <2>2. cta' = [cta EXCEPT ![c].n_block = n, ![c].keys = KeysOf(n), ![c].phase = "loop"]
      BY DEF LoadKeys
    <2>3. cta[c].acc \in Seq(Visited) /\ "loop" \in Phases
      BY <2>1 DEF CtaStates, Phases
    <2> HIDE DEF n
    <2>4. cta' = Moved(c, n, KeysOf(n), cta[c].acc, "loop")
      BY <2>1, <2>2 DEF CtaStates, Moved
    <2>5. /\ cta' \in [Ctas -> CtaStates]
          /\ \A d \in Ctas \ {c} : cta'[d] = cta[d]
          /\ cta'[c].phase = "loop" /\ cta'[c].n_block = n
          /\ cta'[c].keys = KeysOf(n) /\ cta'[c].acc = cta[c].acc
      BY <1>2, <1>4, <1>5, <2>3, <2>4, MoveType
    <2> QED BY <1>3, <2>5
  <1>7. CtaInv(c)'
    <2>1. /\ NMin(c)' = NMin(c) /\ NMax(c)' = NMax(c) /\ NCopy(c)' = NCopy(c)
          /\ Working(c)'
      BY <1>1, <1>3, Frame DEF Working
    <2>2. Len(cta'[c].acc) = 0
      BY <1>6
    <2>3. Appended(c, NMin(c))'
      BY <1>1, <1>3, <2>1 DEF Appended
    <2>4. cta'[c].n_block = NMax(c) - 1 - Len(cta'[c].acc) /\ cta'[c].n_block >= NMin(c)
      BY <1>2, <1>4, <1>6, <2>2
    <2> QED BY <1>5, <1>6, <2>1, <2>2, <2>3, <2>4 DEF CtaInv, InOrder
  <1>8. cta'[c].phase # "done" /\ cta'[c].n_block \in -1 .. CeilDiv(SeqlenK(arg), kBlockN)
    BY <1>2, <1>4, <1>6
  <1> QED BY <1>1, <1>6, <1>7, <1>8, QuietStep DEF IInv, CacheInv

\* A visit extends the countdown by one block, masked as its place demands, and
\* reads no row that is missing.
LEMMA VisitKeeps ==
    ASSUME IInv, NEW c \in Ctas, NEW masking \in BOOLEAN, At(c, "loop"),
           masking <=> Len(cta[c].acc) < NMaskingSteps(params), Visit(c, masking)
    PROVE  IInv'
  <1> DEFINE n == cta[c].n_block
             acc == cta[c].acc
             keys == cta[c].keys
             seen == [n |-> n, masking |-> masking, k |-> keys.n,
                      stale |-> keys.stale \cup Missing(vcache, n)]
             phase == IF n > NMin(c) THEN "loop" ELSE "store"
  <1>1. /\ stage = "split" /\ cta[c].phase = "loop"
        /\ UNCHANGED <<arg, params, stage, kcache, vcache, partial, combined, result>>
    BY DEF At, Visit
  <1>2. /\ NMin(c) \in Nat /\ NMax(c) \in Int
        /\ NMax(c) <= CeilDiv(SeqlenK(arg), kBlockN)
        /\ CeilDiv(SeqlenK(arg), kBlockN) \in Int /\ TypeOK /\ CtaInv(c) /\ Shape
        /\ NMaskingSteps(params) \in Nat \ {0}
    <2>1. TypeOK /\ CtaInv(c) /\ Shape
      BY DEF IInv
    <2>2. /\ NMin(c) \in Nat /\ NMax(c) \in Int
          /\ NMax(c) <= CeilDiv(SeqlenK(arg), kBlockN)
          /\ NMaskingSteps(params) \in Nat \ {0} /\ arg \in Args
      BY <2>1, SplitBounds
    <2>3. SeqlenK(arg) \in Int
      BY <2>2, CallType
    <2>4. CeilDiv(SeqlenK(arg), kBlockN) \in Int
      BY <2>3, CeilDivType, BlockAssumption
    <2> QED BY <2>1, <2>2, <2>3, <2>4
  <1>3. /\ Working(c) /\ Appended(c, NMin(c)) /\ InOrder(c)
        /\ n = NMax(c) - 1 - Len(acc) /\ n >= NMin(c)
        /\ keys.n = n /\ keys.stale = {}
    BY <1>1, <1>2 DEF CtaInv
  <1>4. /\ acc \in Seq(Visited) /\ Len(acc) \in Nat
        /\ keys \in [n : Int, stale : SUBSET Int] /\ n \in Int
    <2>1. cta[c] \in CtaStates
      BY <1>2 DEF Shape
    <2>2. /\ acc \in Seq(Visited) /\ n \in Int
          /\ keys \in [n : Int, stale : SUBSET Int]
      BY <2>1 DEF CtaStates
    <2> HIDE DEF acc
    <2> QED BY <2>2, LenProperties
  <1>5. n \in NMin(c) .. NMax(c) - 1
    BY <1>2, <1>3, <1>4
  <1>6. Missing(vcache, n) = {}
    BY <1>3, <1>5, LoadFresh
  <1>7. seen.stale = {} /\ seen.n = n /\ seen.k = n /\ seen.masking = masking
        /\ seen \in Visited
    BY <1>3, <1>4, <1>6 DEF Visited
  <1>8. n > NMin(c) => /\ KeysOf(n - 1).n = n - 1 /\ KeysOf(n - 1).stale = {}
                       /\ KeysOf(n - 1) \in [n : Int, stale : SUBSET Int]
    <2>1. n > NMin(c) => n - 1 \in NMin(c) .. NMax(c) - 1 /\ n - 1 \in Int
      BY <1>2, <1>4, <1>5
    <2> QED BY <1>3, <2>1, LoadFresh, NewColsType DEF KeysOf
  <1> HIDE DEF seen
  <1>9. Append(acc, seen) \in Seq(Visited)
    BY <1>4, <1>7, AppendProperties
  <1>10. /\ cta' \in [Ctas -> CtaStates]
         /\ \A d \in Ctas \ {c} : cta'[d] = cta[d]
         /\ cta'[c].phase = phase /\ cta'[c].n_block = n - 1
         /\ cta'[c].keys = IF n > NMin(c) THEN KeysOf(n - 1) ELSE keys
         /\ cta'[c].acc = Append(acc, seen)
    <2> DEFINE held == IF n > NMin(c) THEN KeysOf(n - 1) ELSE keys
               list == Append(acc, seen)
    <2>1. cta' = Moved(c, n - 1, held, list, phase)
      BY DEF Visit, Prefetch, seen, Moved
    <2>2. /\ n - 1 \in Int /\ phase \in Phases
          /\ held \in [n : Int, stale : SUBSET Int] /\ list \in Seq(Visited)
      BY <1>4, <1>8, <1>9 DEF Phases
    <2>3. /\ cta' \in [Ctas -> CtaStates]
          /\ \A d \in Ctas \ {c} : cta'[d] = cta[d]
          /\ cta'[c].phase = phase /\ cta'[c].n_block = n - 1
          /\ cta'[c].keys = held /\ cta'[c].acc = list
      <3> DEFINE m == n - 1
      <3>1. cta' = Moved(c, m, held, list, phase) /\ m \in Int
        BY <2>1, <2>2
      <3> HIDE DEF phase, m, held, list
      <3> QED BY <1>2, <2>2, <3>1, MoveType DEF m
    <2> QED BY <2>3
  <1>11. /\ Len(cta'[c].acc) = Len(acc) + 1 /\ cta'[c].acc[Len(acc) + 1] = seen
         /\ \A i \in 1 .. Len(acc) : cta'[c].acc[i] = acc[i]
    BY <1>4, <1>7, <1>10, AppendProperties
  <1>12. CtaInv(c)'
    <2>1. /\ NMin(c)' = NMin(c) /\ NMax(c)' = NMax(c) /\ NCopy(c)' = NCopy(c)
          /\ Working(c)'
      BY <1>1, <1>3, Frame DEF Working
    <2>2. Appended(c, NMin(c))'
      BY <1>1, <1>3, <2>1 DEF Appended
    <2>3. InOrder(c)'
      <3> SUFFICES ASSUME NEW i \in 1 .. Len(acc) + 1
                   PROVE  LET v == cta'[c].acc[i]
                          IN  /\ v.n = NMax(c) - i /\ v.k = v.n /\ v.stale = {}
                              /\ v.masking <=> i <= NMaskingSteps(params)
        BY <1>1, <1>11, <2>1 DEF InOrder
      <3>1. CASE i \in 1 .. Len(acc)
        BY <1>3, <1>11, <3>1 DEF InOrder
      <3>2. CASE i = Len(acc) + 1
        <4>1. cta'[c].acc[i] = seen
          BY <1>11, <3>2
        <4>2. seen.n = NMax(c) - i
          <5>1. seen.n = NMax(c) - 1 - Len(acc)
            BY <1>3, <1>7
          <5> HIDE DEF acc
          <5> QED BY <1>2, <1>4, <3>2, <5>1
        <4>3. seen.masking <=> i <= NMaskingSteps(params)
          <5>1. Len(acc) < NMaskingSteps(params) <=> i <= NMaskingSteps(params)
            <6> HIDE DEF acc
            <6> QED BY <1>2, <1>4, <3>2
          <5> QED BY <1>7, <5>1
        <4> QED BY <1>7, <4>1, <4>2, <4>3
      <3> QED BY <1>4, <3>1, <3>2
    <2>4. CASE phase = "loop"
      <3>1. n > NMin(c)
        BY <2>4
      <3>2. cta'[c].n_block = NMax(c) - 1 - Len(cta'[c].acc) /\ cta'[c].n_block >= NMin(c)
        <4>1. /\ cta'[c].n_block = n - 1 /\ Len(cta'[c].acc) = Len(acc) + 1
              /\ n = NMax(c) - 1 - Len(acc)
          BY <1>3, <1>10, <1>11
        <4>2. Len(acc) \in Nat /\ n \in Int
          BY <1>4
        <4>3. NMin(c) \in Nat /\ NMax(c) \in Int
          BY <1>2
        <4> HIDE DEF n, acc
        <4> QED BY <3>1, <4>1, <4>2, <4>3
      <3> QED BY <1>8, <1>10, <2>1, <2>2, <2>3, <2>4, <3>1, <3>2 DEF CtaInv
    <2>5. CASE phase = "store"
      <3>1. Len(cta'[c].acc) = NMax(c) - NMin(c)
        <4>1. n = NMin(c) /\ n = NMax(c) - 1 - Len(acc) /\ Len(acc) \in Nat
          BY <1>2, <1>3, <1>4, <2>5
        <4>2. Len(cta'[c].acc) = Len(acc) + 1
          BY <1>11
        <4> HIDE DEF n, acc
        <4> QED BY <1>2, <4>1, <4>2
      <3> QED BY <1>10, <2>1, <2>2, <2>3, <2>5, <3>1 DEF CtaInv
    <2> QED BY <2>4, <2>5
  <1>13. cta'[c].phase # "done" /\ cta'[c].n_block \in -1 .. CeilDiv(SeqlenK(arg), kBlockN)
    BY <1>2, <1>3, <1>4, <1>5, <1>10
  <1> QED BY <1>1, <1>10, <1>12, <1>13, QuietStep DEF IInv, CacheInv

-----------------------------------------------------------------------------
(* What a CTA stores *)

\* The result of a store of c into old: its rows get what it kept.
Overwritten(c, old) ==
    [x \in DOMAIN old |-> IF /\ x - CellOf(c, 0) \in Rows
                             /\ Valid(params, c[2], x - CellOf(c, 0))
                          THEN Final(c, x - CellOf(c, 0)) ELSE old[x]]

\* Storing a tile overwrites the cells of its valid rows and no others.
LEMMA StoreRowsEffect ==
    ASSUME NEW c \in Ctas, NEW cols, cols = [r \in Rows |-> Kept(c, r)], StoreRows(c, cols)
    PROVE  /\ UNCHANGED <<arg, params, stage, kcache, vcache, combined>>
           /\ cta' = [cta EXCEPT ![c].phase = "done"]
           /\ Split(arg) => /\ partial' = [partial EXCEPT ![c[3]] = Overwritten(c, @)]
                            /\ result' = result
           /\ ~Split(arg) => result' = Overwritten(c, result) /\ partial' = partial
  <1> DEFINE mine == {r \in Rows : Valid(params, c[2], r)}
             new(old) == [x \in DOMAIN old |->
                LET r == x - CellOf(c, 0)
                IN  IF r \in mine
                    THEN [cols |-> cols[r],
                          lse  |-> IF cols[r] = {} THEN EmptyLse(arg) ELSE "finite"]
                    ELSE old[x]]
  <1>1. ASSUME NEW old PROVE new(old) = Overwritten(c, old)
    <2>1. \A x \in DOMAIN old :
              LET r == x - CellOf(c, 0)
              IN  (IF r \in mine
                   THEN [cols |-> cols[r],
                         lse  |-> IF cols[r] = {} THEN EmptyLse(arg) ELSE "finite"]
                   ELSE old[x]) =
                  (IF r \in Rows /\ Valid(params, c[2], r)
                   THEN Final(c, r) ELSE old[x])
      BY DEF Final
    <2> QED BY <2>1 DEF Overwritten
  <1>2. /\ UNCHANGED <<arg, params, stage, kcache, vcache, combined>>
        /\ cta' = [cta EXCEPT ![c].phase = "done"]
        /\ IF Split(arg)
           THEN partial' = [partial EXCEPT ![c[3]] = new(@)] /\ UNCHANGED result
           ELSE result' = new(result) /\ UNCHANGED partial
    BY DEF StoreRows
  <1> HIDE DEF new
  <1>3. ASSUME Split(arg)
        PROVE  partial' = [partial EXCEPT ![c[3]] = Overwritten(c, @)] /\ result' = result
    <2>1. new(partial[c[3]]) = Overwritten(c, partial[c[3]])
      BY <1>1
    <2> QED BY <1>2, <1>3, <2>1
  <1>4. ASSUME ~Split(arg)
        PROVE  result' = Overwritten(c, result) /\ partial' = partial
    BY <1>1, <1>2, <1>4
  <1> QED BY <1>2, <1>3, <1>4

\* What a row keeps is a set of columns.
LEMMA KeptType ==
    ASSUME TypeOK, NEW c, NEW r
    PROVE  Kept(c, r) \in SUBSET Int
  <1>1. params.sk \in Nat /\ kBlockN \in Nat
    BY CallType, BlockAssumption DEF TypeOK, IsParams
  <1> QED BY <1>1 DEF Kept, KeptCols, Columns

\* A CTA that stores its tile, with or without visits, keeps the invariant.
LEMMA StoreKeeps ==
    ASSUME IInv, NEW c \in Ctas, stage = "split", cta[c].phase \in {"start", "store"},
           Working(c) <=> cta[c].phase = "store",
           StoreRows(c, [r \in Rows |-> Kept(c, r)])
    PROVE  IInv'
  <1>1. /\ UNCHANGED <<arg, params, stage, kcache, vcache, combined>>
        /\ cta' = [cta EXCEPT ![c].phase = "done"]
        /\ Split(arg) => /\ partial' = [partial EXCEPT ![c[3]] = Overwritten(c, @)]
                         /\ result' = result
        /\ ~Split(arg) => result' = Overwritten(c, result) /\ partial' = partial
    BY StoreRowsEffect
  <1>2. /\ TypeOK /\ Shape /\ StageInv /\ CacheInv /\ PartialInv /\ ResultInv
        /\ \A d \in Ctas : CtaInv(d)
    BY DEF IInv
  <1>3. /\ cta \in [Ctas -> CtaStates] /\ cta[c] \in CtaStates
        /\ partial \in [Splits(arg) -> [Cells -> Outputs]]
        /\ result \in [AllRows -> Outputs] /\ c[3] \in Splits(arg)
    BY <1>2, SplitBounds DEF Shape
  <1>4. /\ Ctas' = Ctas /\ Cells' = Cells /\ AllRows' = AllRows /\ Chunks' = Chunks
        /\ CannotRun' = CannotRun
        /\ NMin(c)' = NMin(c) /\ NMax(c)' = NMax(c) /\ NCopy(c)' = NCopy(c)
    BY <1>1, Frame
  <1>5. /\ cta' \in [Ctas -> CtaStates]
        /\ \A d \in Ctas \ {c} : cta'[d] = cta[d]
        /\ cta'[c].phase = "done" /\ cta'[c].n_block = cta[c].n_block
        /\ cta'[c].acc = cta[c].acc
    <2>1. cta' = Moved(c, cta[c].n_block, cta[c].keys, cta[c].acc, "done")
      BY <1>1, <1>3 DEF CtaStates, Moved
    <2>2. /\ cta[c].keys \in [n : Int, stale : SUBSET Int] /\ cta[c].acc \in Seq(Visited)
          /\ cta[c].n_block \in Int /\ "done" \in Phases
      BY <1>3 DEF CtaStates, Phases
    <2> QED BY <1>2, <2>1, <2>2, MoveType
  <1>6. \A d \in Ctas : CtaInv(d)'
    <2> TAKE d \in Ctas
    <2>1. CASE d # c
      BY <1>1, <1>2, <1>5, <2>1, OtherKeeps
    <2>2. CtaInv(c)'
      <3>1. InOrder(c)'
        BY <1>1, <1>2, <1>4, <1>5 DEF CtaInv, InOrder
      <3>2. Working(c)' <=> Working(c)
        BY <1>4 DEF Working
      <3>3. Working(c) => Appended(c, NMin(c))'
        BY <1>1, <1>2, <1>4 DEF CtaInv, Appended
      <3>4. Working(c) => Len(cta'[c].acc) = NMax(c) - NMin(c)
        BY <1>2, <1>5 DEF CtaInv
      <3>5. ~Working(c) => cta'[c].acc = <<>>
        BY <1>2, <1>5 DEF CtaInv
      <3> QED BY <1>4, <1>5, <3>1, <3>2, <3>3, <3>4, <3>5 DEF CtaInv
    <2> QED BY <2>1, <2>2
  <1>7. \A x \in Cells, s \in Splits(arg) :
            /\ CtaOf(x, s) = c => Stored(x, s)' = Final(c, RowOf(x))
            /\ CtaOf(x, s) # c => Stored(x, s)' = Stored(x, s)
    <2> TAKE x \in Cells, s \in Splits(arg)
    <2>1. CtaOf(x, s) \in Ctas /\ CtaOf(x, s)' = CtaOf(x, s) /\ RowOf(x)' = RowOf(x)
      BY <1>1, <1>2, CellOwner, Frame
    <2>2. Final(CtaOf(x, s), RowOf(x))' = Final(CtaOf(x, s), RowOf(x))
      <3>1. cta'[CtaOf(x, s)].acc = cta[CtaOf(x, s)].acc
        BY <1>5, <2>1
      <3>2. Kept(CtaOf(x, s), RowOf(x))' = Kept(CtaOf(x, s), RowOf(x))
        BY <1>1, <2>1, <3>1 DEF Kept
      <3> QED BY <1>1, <3>2 DEF Final
    <2>3. CASE CtaOf(x, s) = c
      BY <1>5, <2>1, <2>2, <2>3 DEF Stored
    <2>4. CASE CtaOf(x, s) # c
      BY <1>5, <2>1, <2>2, <2>4 DEF Stored, Blank
    <2> QED BY <2>3, <2>4
  <1>8. \A old, x : x \in Cells /\ x \in DOMAIN old =>
            /\ CtaOf(x, c[3]) = c => Overwritten(c, old)[x] = Final(c, RowOf(x))
            /\ CtaOf(x, c[3]) # c => Overwritten(c, old)[x] = old[x]
    <2> TAKE old, x
    <2> HAVE x \in Cells /\ x \in DOMAIN old
    <2>1. Overwritten(c, old)[x] =
              IF x - CellOf(c, 0) \in Rows /\ Valid(params, c[2], x - CellOf(c, 0))
              THEN Final(c, x - CellOf(c, 0)) ELSE old[x]
      BY DEF Overwritten
    <2>2. CASE CtaOf(x, c[3]) = c
      <3>1. /\ RowOf(x) \in Rows /\ Valid(params, c[2], RowOf(x))
            /\ x - CellOf(c, 0) = RowOf(x)
        BY <1>2, <1>3, <2>2, CellOwner
      <3> QED BY <2>1, <2>2, <3>1
    <2>3. CASE CtaOf(x, c[3]) # c
      <3>1. x \in Int
        BY DEF Cells
      <3>2. ~(x - CellOf(c, 0) \in Rows /\ Valid(params, c[2], x - CellOf(c, 0)))
        BY <1>2, <2>3, <3>1, CellOwned
      <3> QED BY <2>1, <2>3, <3>2
    <2> QED BY <2>2, <2>3
  <1>9. PartialInv'
    <2> SUFFICES ASSUME NEW s \in Splits(arg), NEW x \in Cells
                 PROVE  partial'[s][x] = IF Split(arg) THEN Stored(x, s)' ELSE Blank
      BY <1>1, <1>4 DEF PartialInv, Blank
    <2>1. CASE ~Split(arg)
      BY <1>1, <1>2, <2>1 DEF PartialInv
    <2>2. CASE Split(arg) /\ s # c[3]
      <3>1. partial'[s] = partial[s]
        BY <1>1, <1>3, <2>2
      <3>2. CtaOf(x, s) # c
        BY <2>2 DEF CtaOf
      <3> QED BY <1>2, <1>7, <2>2, <3>1, <3>2 DEF PartialInv
    <2>3. CASE Split(arg) /\ s = c[3]
      <3>1. partial'[s] = Overwritten(c, partial[s]) /\ DOMAIN partial[s] = Cells
        BY <1>1, <1>3, <2>3
      <3>2. CASE CtaOf(x, s) = c
        BY <1>7, <1>8, <2>3, <3>1, <3>2
      <3>3. CASE CtaOf(x, s) # c
        <4>1. partial'[s][x] = partial[s][x]
          BY <1>8, <2>3, <3>1, <3>3
        <4> QED BY <1>2, <1>7, <2>3, <3>3, <4>1 DEF PartialInv
      <3> QED BY <3>2, <3>3
    <2> QED BY <2>1, <2>2, <2>3
  <1>10. ResultInv'
    <2> SUFFICES ASSUME NEW x \in Cells
                 PROVE  result'[x] = IF ~Split(arg) THEN Stored(x, 0)' ELSE Blank
      <3>1. combined' = {}
        BY <1>1, <1>2 DEF StageInv
      <3> QED BY <1>1, <1>4, <3>1 DEF ResultInv, Blank
    <2>1. CASE Split(arg)
      <3>1. combined = {}
        BY <1>2 DEF StageInv
      <3> QED BY <1>1, <1>2, <2>1, <3>1 DEF ResultInv
    <2>2. CASE ~Split(arg)
      <3>1. c[3] = 0 /\ 0 \in Splits(arg)
        BY <1>3, <2>2 DEF Splits
      <3>2. result' = Overwritten(c, result) /\ DOMAIN result = AllRows /\ x \in AllRows
        BY <1>1, <1>3, <2>2 DEF AllRows
      <3>3. CASE CtaOf(x, 0) = c
        BY <1>7, <1>8, <2>2, <3>1, <3>2, <3>3
      <3>4. CASE CtaOf(x, 0) # c
        <4>1. result'[x] = result[x]
          BY <1>8, <3>1, <3>2, <3>4
        <4>2. result[x] = Stored(x, 0)
          BY <1>2, <2>2 DEF ResultInv
        <4> QED BY <1>7, <2>2, <3>1, <3>4, <4>1, <4>2
      <3> QED BY <3>3, <3>4
    <2> QED BY <2>1, <2>2
  <1>11. \A r : Final(c, r) \in Outputs /\ Final(c, r).lse \in {EmptyLse(arg), "finite"}
    <2> TAKE r
    <2>1. Kept(c, r) \in SUBSET Int
      BY <1>2, KeptType
    <2>2. EmptyLse(arg) \in {"-inf", "inf"}
      BY DEF EmptyLse
    <2> QED BY <2>1, <2>2 DEF Final, Outputs
  <1>12. ASSUME NEW S, NEW old \in [S -> Outputs]
         PROVE  /\ Overwritten(c, old) \in [S -> Outputs]
                /\ \A x \in S : Overwritten(c, old)[x].lse \in
                                    {old[x].lse, EmptyLse(arg), "finite"}
    <2>1. DOMAIN old = S /\ \A x \in S : old[x] \in Outputs
      BY <1>12
    <2>2. \A x \in S : \/ Overwritten(c, old)[x] = old[x]
                       \/ \E r : Overwritten(c, old)[x] = Final(c, r)
      BY <2>1 DEF Overwritten
    <2>3. \A x \in S : Overwritten(c, old)[x] \in Outputs
      BY <1>11, <2>1, <2>2
    <2>4. Overwritten(c, old) = [x \in S |-> Overwritten(c, old)[x]]
      BY <2>1 DEF Overwritten
    <2>5. \A x \in S : Overwritten(c, old)[x].lse \in {old[x].lse, EmptyLse(arg), "finite"}
      BY <1>11, <2>2
    <2> QED BY <2>3, <2>4, <2>5
  <1>13. Shape'
    <2>1. CASE Split(arg)
      <3>1. Overwritten(c, partial[c[3]]) \in [Cells -> Outputs]
        BY <1>3, <1>12
      <3>2. partial' \in [Splits(arg) -> [Cells -> Outputs]] /\ result' \in [AllRows -> Outputs]
        BY <1>1, <1>3, <2>1, <3>1
      <3> QED BY <1>1, <1>4, <1>5, <3>2 DEF Shape
    <2>2. CASE ~Split(arg)
      <3>1. partial' \in [Splits(arg) -> [Cells -> Outputs]] /\ result' \in [AllRows -> Outputs]
        BY <1>1, <1>3, <1>12, <2>2
      <3> QED BY <1>1, <1>4, <1>5, <3>1 DEF Shape
    <2> QED BY <2>1, <2>2
  <1>14. TypeOK'
    <2>1. \A s \in Splits(arg), x \in Cells : partial'[s][x].lse \in {"unset", "-inf", "finite"}
      <3> TAKE s \in Splits(arg), x \in Cells
      <3>1. partial[s][x].lse \in {"unset", "-inf", "finite"}
        BY <1>2 DEF TypeOK
      <3>2. CASE Split(arg) /\ s = c[3]
        <4>1. partial'[s] = Overwritten(c, partial[s]) /\ partial[s] \in [Cells -> Outputs]
          BY <1>1, <1>3, <3>2
        <4>2. EmptyLse(arg) = "-inf"
          BY <3>2 DEF EmptyLse
        <4> QED BY <1>12, <3>1, <4>1, <4>2
      <3>3. CASE ~(Split(arg) /\ s = c[3])
        BY <1>1, <1>3, <3>1, <3>3
      <3> QED BY <3>2, <3>3
    <2>2. \A x \in AllRows : result'[x].lse \in {"unset", "inf", "finite"}
      <3> TAKE x \in AllRows
      <3>1. result[x].lse \in {"unset", "inf", "finite"}
        BY <1>2 DEF TypeOK
      <3>2. CASE ~Split(arg)
        <4>1. result' = Overwritten(c, result)
          BY <1>1, <3>2
        <4>2. EmptyLse(arg) = "inf"
          BY <3>2 DEF EmptyLse
        <4> QED BY <1>3, <1>12, <3>1, <4>1, <4>2
      <3>3. CASE Split(arg)
        BY <1>1, <3>1, <3>3
      <3> QED BY <3>2, <3>3
    <2>3. \A d \in Ctas : /\ cta'[d].phase \in Phases
                          /\ cta'[d].n_block \in -1 .. CeilDiv(SeqlenK(arg), kBlockN)
      BY <1>2, <1>5 DEF TypeOK, CtaStates
    <2> QED BY <1>1, <1>2, <1>4, <2>1, <2>2, <2>3 DEF TypeOK, Phases
  <1>15. StageInv' /\ CacheInv'
    BY <1>1, <1>2, <1>4 DEF StageInv, CacheInv
  <1> QED BY <1>6, <1>9, <1>10, <1>13, <1>14, <1>15, <1>4 DEF IInv

\* The two actions that store, the early exit with zeros and the epilogue.
LEMMA StoreStepKeeps ==
    ASSUME IInv, NEW c \in Ctas, StoreEmpty(c) \/ Store(c)
    PROVE  IInv'
  <1>1. /\ stage = "split" /\ CtaInv(c) /\ NMin(c) \in Nat /\ NMax(c) \in Int
    BY SplitBounds DEF IInv, StoreEmpty, Store, At
  <1>2. CASE StoreEmpty(c)
    <2>1. cta[c].phase = "start" /\ ~Working(c) /\ StoreRows(c, [r \in Rows |-> {}])
      BY <1>1, <1>2 DEF StoreEmpty, At, Working
    <2>2. cta[c].acc = <<>>
      BY <1>1, <2>1 DEF CtaInv
    <2>3. \A r \in Rows : Kept(c, r) = {}
      BY <2>2 DEF Kept, KeptCols
    <2>4. [r \in Rows |-> {}] = [r \in Rows |-> Kept(c, r)]
      BY <2>3
    <2>5. StoreRows(c, [r \in Rows |-> Kept(c, r)])
      BY <2>1, <2>4
    <2> QED BY <1>1, <2>1, <2>5, StoreKeeps
  <1>3. CASE Store(c)
    <2>1. cta[c].phase = "store" /\ StoreRows(c, [r \in Rows |-> Kept(c, r)])
      BY <1>3 DEF Store, At
    <2>2. Working(c)
      BY <1>1, <2>1 DEF CtaInv
    <2> QED BY <1>1, <2>1, <2>2, StoreKeeps
  <1> QED BY <1>2, <1>3

-----------------------------------------------------------------------------
(* The host and the combine kernel *)

\* A step that moves nothing but the host.
LEMMA StageStep ==
    ASSUME IInv,
           UNCHANGED <<arg, params, cta, kcache, vcache, partial, combined, result>>,
           stage' \in {"called", "split", "combine", "done", "failed"}, StageInv'
    PROVE  IInv'
  <1>1. UNCHANGED <<arg, params, cta, kcache, vcache, partial, combined, result>>
    OBVIOUS
  <1>2. /\ Ctas' = Ctas /\ Cells' = Cells /\ AllRows' = AllRows /\ Chunks' = Chunks
        /\ CannotRun' = CannotRun
    BY <1>1, Frame
  <1>3. \A c \in Ctas : CtaInv(c)'
    BY <1>1, OtherKeeps DEF IInv
  <1>4. \A x \in Cells, s \in Splits(arg) : Stored(x, s)' = Stored(x, s)
    <2> TAKE x \in Cells, s \in Splits(arg)
    <2>1. CtaOf(x, s) \in Ctas /\ CtaOf(x, s)' = CtaOf(x, s) /\ RowOf(x)' = RowOf(x)
      BY <1>1, CellOwner, Frame DEF IInv
    <2> QED BY <1>1, <2>1 DEF Stored, Final, Kept, Blank
  <1>5. PartialInv'
    BY <1>1, <1>2, <1>4 DEF IInv, PartialInv, Blank
  <1>6. ResultInv'
    <2>1. \A x \in Cells : CombineRow(x)' = CombineRow(x)
      BY <1>1 DEF CombineRow
    <2>2. ~Split(arg) => 0 \in Splits(arg)
      BY DEF Splits
    <2> QED BY <1>1, <1>2, <1>4, <2>1, <2>2 DEF IInv, ResultInv, Blank
  <1>7. TypeOK' /\ Shape' /\ CacheInv'
    BY <1>1, <1>2 DEF IInv, TypeOK, Shape, CacheInv
  <1> QED BY <1>2, <1>3, <1>5, <1>6, <1>7 DEF IInv

\* The host launches a grid only when the one before it has finished.
LEMMA HostKeeps ==
    ASSUME IInv, Host
    PROVE  IInv'
  <1>1. UNCHANGED <<arg, params, cta, kcache, vcache, partial, combined, result>>
    BY DEF Host, Launch, SplitDone, CombineDone
  <1>2. Ctas' = Ctas /\ Chunks' = Chunks /\ CannotRun' = CannotRun
    BY <1>1, Frame
  <1>3. stage' \in {"called", "split", "combine", "done", "failed"} /\ StageInv'
    BY <1>1, <1>2 DEF IInv, StageInv, TypeOK, Host, Launch, SplitDone, CombineDone
  <1> QED BY <1>1, <1>3, StageStep

\* A CTA of the combine grid writes the merged rows of its chunk only.
LEMMA CombineKeeps ==
    ASSUME IInv, NEW b \in Chunks, Combine(b)
    PROVE  IInv'
  <1>1. /\ stage = "combine" /\ combined' = combined \cup {b}
        /\ UNCHANGED <<arg, params, stage, cta, kcache, vcache, partial>>
        /\ result' = [x \in AllRows |->
                        IF x \notin Chunk(b) THEN result[x]
                        ELSE IF x \in Cells THEN CombineRow(x)
                        ELSE [result[x] EXCEPT !.lse = "inf"]]
    BY DEF Combine
  <1>2. /\ Ctas' = Ctas /\ Cells' = Cells /\ AllRows' = AllRows /\ Chunks' = Chunks
        /\ CannotRun' = CannotRun
    BY <1>1, Frame
  <1>3. \A c \in Ctas : CtaInv(c)'
    BY <1>1, OtherKeeps DEF IInv
  <1>4. \A x \in Cells, s \in Splits(arg) : Stored(x, s)' = Stored(x, s)
    <2> TAKE x \in Cells, s \in Splits(arg)
    <2>1. CtaOf(x, s) \in Ctas /\ CtaOf(x, s)' = CtaOf(x, s) /\ RowOf(x)' = RowOf(x)
      BY <1>1, CellOwner, Frame DEF IInv
    <2> QED BY <1>1, <2>1 DEF Stored, Final, Kept, Blank
  <1>5. PartialInv'
    BY <1>1, <1>2, <1>4 DEF IInv, PartialInv, Blank
  <1>6. \A x \in Cells : CombineRow(x)' = CombineRow(x)
    BY <1>1 DEF CombineRow
  <1>7. Split(arg)
    BY <1>1 DEF IInv, StageInv
  <1>8. ResultInv'
    <2> SUFFICES ASSUME NEW x \in Cells
                 PROVE  result'[x] = IF \E d \in combined' : x \in Chunk(d)
                                     THEN CombineRow(x) ELSE Blank
      BY <1>1, <1>2, <1>6, <1>7 DEF ResultInv, Blank, Chunk
    <2>1. result[x] = IF \E d \in combined : x \in Chunk(d) THEN CombineRow(x) ELSE Blank
      BY <1>7 DEF IInv, ResultInv
    <2>2. x \in AllRows
      BY DEF AllRows
    <2>3. CASE x \in Chunk(b)
      BY <1>1, <2>2, <2>3
    <2>4. CASE x \notin Chunk(b)
      BY <1>1, <2>1, <2>2, <2>4
    <2> QED BY <2>3, <2>4
  <1>9. \A x \in Cells : CombineRow(x) \in Outputs /\ CombineRow(x).lse \in {"inf", "finite"}
    <2> TAKE x \in Cells
    <2>1. \A s \in Splits(arg) : partial[s][x].cols \in SUBSET Int
      BY DEF IInv, Shape, Outputs
    <2> DEFINE some == {s \in Splits(arg) : partial[s][x].lse # "-inf"}
    <2>2. UNION {partial[s][x].cols : s \in some} \in SUBSET Int
      BY <2>1
    <2> QED BY <2>2 DEF CombineRow, Outputs, NotANumber
  <1>10. \A x \in AllRows : /\ result'[x] \in Outputs
                            /\ result'[x].lse \in {"unset", "inf", "finite"}
    <2> TAKE x \in AllRows
    <2>1. result[x] \in Outputs /\ result[x].lse \in {"unset", "inf", "finite"}
      BY DEF IInv, Shape, TypeOK
    <2>2. [result[x] EXCEPT !.lse = "inf"] \in Outputs
          /\ [result[x] EXCEPT !.lse = "inf"].lse = "inf"
      BY <2>1 DEF Outputs
    <2> QED BY <1>1, <1>9, <2>1, <2>2
  <1>11. Shape'
    <2>1. result' \in [AllRows -> Outputs]
      BY <1>1, <1>10
    <2> QED BY <1>1, <1>2, <2>1 DEF IInv, Shape
  <1>12. TypeOK'
    BY <1>1, <1>2, <1>10 DEF IInv, TypeOK
  <1>13. StageInv' /\ CacheInv'
    BY <1>1, <1>2 DEF IInv, StageInv, CacheInv
  <1> QED BY <1>2, <1>3, <1>5, <1>8, <1>11, <1>12, <1>13 DEF IInv

-----------------------------------------------------------------------------
(* The invariant *)

\* The invariant reads nothing but the variables.
LEMMA StutterKeeps ==
    ASSUME IInv, UNCHANGED vars
    PROVE  IInv'
  <1>1. UNCHANGED <<arg, params, stage, cta, kcache, vcache, partial, combined, result>>
    BY DEF vars
  <1>2. Ctas' = Ctas /\ Chunks' = Chunks /\ CannotRun' = CannotRun
    BY <1>1, Frame
  <1>3. stage' \in {"called", "split", "combine", "done", "failed"} /\ StageInv'
    BY <1>1, <1>2 DEF IInv, StageInv, TypeOK
  <1> QED BY <1>1, <1>3, StageStep

\* Every step of the host and of a CTA of either kernel keeps the invariant.
LEMMA NextKeeps == IInv /\ [Next]_vars => IInv'
  <1> SUFFICES ASSUME IInv, [Next]_vars PROVE IInv'
    OBVIOUS
  <1>1. CASE Host
    BY <1>1, HostKeeps
  <1>2. ASSUME NEW c \in Ctas, Step(c) PROVE IInv'
    <2>1. CASE StoreEmpty(c) \/ Store(c)
      BY <2>1, StoreStepKeeps
    <2>2. CASE Start(c)
      BY <2>2, StartKeeps
    <2>3. CASE AppendBlock(c)
      BY <2>3, AppendBlockKeeps
    <2>4. CASE LoadKeys(c)
      BY <2>4, LoadKeysKeeps
    <2>5. ASSUME MaskedVisit(c) \/ FreeVisit(c) PROVE IInv'
      <3>1. cta[c].acc \in Seq(Visited)
        BY DEF IInv, Shape, CtaStates
      <3>2. Len(cta[c].acc) \in Nat /\ NMaskingSteps(params) \in Nat
        BY <3>1, LenProperties, SplitBounds DEF IInv
      <3>3. CASE MaskedVisit(c)
        <4>1. At(c, "loop") /\ Visit(c, TRUE) /\ Len(cta[c].acc) < NMaskingSteps(params)
          BY <3>3 DEF MaskedVisit
        <4> QED BY <4>1, VisitKeeps
      <3>4. CASE FreeVisit(c)
        <4>1. At(c, "loop") /\ Visit(c, FALSE) /\ Len(cta[c].acc) >= NMaskingSteps(params)
          BY <3>4 DEF FreeVisit
        <4>2. FALSE <=> Len(cta[c].acc) < NMaskingSteps(params)
          <5>1. Len(cta[c].acc) >= NMaskingSteps(params)
            BY <4>1
          <5> QED BY <3>2, <5>1
        <4> QED BY <4>1, <4>2, VisitKeeps
      <3> QED BY <2>5, <3>3, <3>4
    <2> QED BY <1>2, <2>1, <2>2, <2>3, <2>4, <2>5 DEF Step
  <1>3. ASSUME NEW b \in Chunks, Combine(b) PROVE IInv'
    BY <1>3, CombineKeeps
  <1>4. CASE UNCHANGED vars
    BY <1>4, StutterKeeps
  <1> QED BY <1>1, <1>2, <1>3, <1>4 DEF Next

\* The invariant of the split and the combine kernel holds in every reachable
\* state.
THEOREM Inductive == Spec => []IInv
  BY InitInv, NextKeeps, PTL DEF Spec

\* Every reachable state is well typed.
THEOREM TypeCorrect == Spec => []TypeOK
  <1>1. IInv => TypeOK
    BY DEF IInv
  <1> QED BY <1>1, Inductive, PTL

-----------------------------------------------------------------------------
(* What the loops do *)

\* Every visit is of a block of the CTA's split.
LEMMA VisitRange ==
    ASSUME IInv, NEW c \in Ctas, NEW i \in DOMAIN cta[c].acc
    PROVE  /\ i \in Nat \ {0} /\ cta[c].acc[i] \in Visited
           /\ cta[c].acc[i].n = NMax(c) - i
           /\ cta[c].acc[i].k = cta[c].acc[i].n /\ cta[c].acc[i].stale = {}
           /\ cta[c].acc[i].masking <=> i <= NMaskingSteps(params)
           /\ NMin(c) <= cta[c].acc[i].n /\ cta[c].acc[i].n < NMax(c)
  <1> DEFINE acc == cta[c].acc
  <1>1. /\ acc \in Seq(Visited) /\ cta[c].phase \in Phases /\ CtaInv(c)
        /\ NMin(c) \in Nat /\ NMax(c) \in Int
    BY SplitBounds DEF IInv, Shape, CtaStates
  <1>2. Len(acc) \in Nat /\ DOMAIN acc = 1 .. Len(acc)
    BY <1>1, LenProperties
  <1>3. i \in 1 .. Len(acc) /\ acc[i] \in Visited
    BY <1>1, <1>2, ElementOfSeq
  <1>4. acc # <<>>
    BY <1>2, <1>3
  <1>5. Working(c) /\ cta[c].phase \in {"loop", "store", "done"}
    BY <1>1, <1>4 DEF CtaInv, Phases
  <1>6. Len(acc) <= NMax(c) - NMin(c)
    <2>1. CASE cta[c].phase = "loop"
      <3>1. /\ cta[c].n_block = NMax(c) - 1 - Len(acc) /\ cta[c].n_block >= NMin(c)
        BY <1>1, <2>1 DEF CtaInv
      <3> HIDE DEF acc
      <3> QED BY <1>1, <1>2, <3>1
    <2>2. CASE cta[c].phase \in {"store", "done"}
      <3>1. Len(acc) = NMax(c) - NMin(c)
        BY <1>1, <1>5, <2>2 DEF CtaInv
      <3> HIDE DEF acc
      <3> QED BY <1>1, <1>2, <3>1
    <2> QED BY <1>5, <2>1, <2>2
  <1>7. /\ acc[i].n = NMax(c) - i /\ acc[i].k = acc[i].n /\ acc[i].stale = {}
        /\ acc[i].masking <=> i <= NMaskingSteps(params)
    BY <1>1, <1>3 DEF CtaInv, InOrder
  <1>8. NMin(c) <= acc[i].n /\ acc[i].n < NMax(c)
    <2>1. acc[i].n = NMax(c) - i
      BY <1>7
    <2> HIDE DEF acc
    <2> QED BY <1>1, <1>2, <1>3, <1>6, <2>1
  <1> QED BY <1>2, <1>3, <1>7, <1>8

\* No CTA folds in a block whose new keys or values were not in the cache yet,
\* or the keys of another block: what others have appended does not matter.
THEOREM NoStale == Spec => []NoStaleRead
  <1>1. IInv => NoStaleRead
    BY VisitRange DEF NoStaleRead
  <1> QED BY <1>1, Inductive, PTL

\* Every load without a bound check stays within the keys, also at the upper
\* end of a split.
THEOREM LoadsInBounds == Spec => []UncheckedLoadsInBounds
  <1>1. IInv => UncheckedLoadsInBounds
    <2> SUFFICES ASSUME IInv, NEW c \in Ctas, NEW i \in DOMAIN cta[c].acc
                 PROVE  LET n == cta[c].acc[i].n
                        IN  n >= 0 /\ (i > 1 \/ params.even => (n + 1) * kBlockN <= params.sk)
      BY DEF UncheckedLoadsInBounds
    <2> DEFINE n == cta[c].acc[i].n
    <2>1. /\ i \in Nat \ {0} /\ n = NMax(c) - i /\ NMin(c) <= n /\ n < NMax(c)
      BY VisitRange
    <2>2. /\ IsParams(params) /\ c[2] \in Nat /\ NMin(c) \in Nat /\ NMax(c) \in Int
          /\ NBlockMax(params, c[2]) \in Int /\ NMax(c) <= NBlockMax(params, c[2])
      BY SplitBounds DEF IInv
    <2> HIDE DEF n
    <2>3. n \in Nat /\ n < NBlockMax(params, c[2])
      BY <2>1, <2>2
    <2>4. i > 1 => n < NBlockMax(params, c[2]) - 1
      BY <2>1, <2>2
    <2>5. i > 1 \/ params.even => kBlockN * (n + 1) <= params.sk
      BY <2>2, <2>3, <2>4, BlockInBounds
    <2>6. kBlockN * (n + 1) = (n + 1) * kBlockN
      BY <2>3, BlockAssumption
    <2> QED BY <2>3, <2>5, <2>6 DEF n
  <1> QED BY <1>1, Inductive, PTL

\* A rescale that does not test row_max for -inf never meets a row without a
\* score: the visit it belongs to keeps the whole block.
THEOREM RescaleDefined == Spec => []NoNaN
  <1>1. IInv => NoNaN
    <2> SUFFICES ASSUME IInv, NEW c \in Ctas, NEW i \in DOMAIN cta[c].acc \ {1},
                        ~SplitCheckInf(params, cta[c].acc[i].masking), NEW r \in Rows
                 PROVE  KeptCols(params, c[2], SubSeq(cta[c].acc, 1, i), r) # {}
      BY DEF NoNaN
    <2> DEFINE acc == cta[c].acc
               n == acc[i].n
               j == n * kBlockN
               s == SubSeq(acc, 1, i)
    <2>1. /\ i \in Nat \ {0} /\ NMin(c) <= n /\ n < NMax(c) /\ acc[i] \in Visited
      BY VisitRange
    <2>2. /\ IsParams(params) /\ NMin(c) \in Nat /\ NMax(c) \in Int
          /\ NMax(c) <= CeilDiv(SeqlenK(arg), kBlockN) /\ params.sk = SeqlenK(arg)
          /\ kBlockN \in Nat \ {0} /\ params.sk \in Nat
          /\ CeilDiv(SeqlenK(arg), kBlockN) \in Int
      BY SplitBounds, CallType, CeilDivType, BlockAssumption DEF IInv, TypeOK
    <2>3. n \in Nat /\ n < CeilDiv(params.sk, kBlockN)
      <3>1. n \in Int
        BY <2>1 DEF Visited
      <3> HIDE DEF n
      <3> QED BY <2>1, <2>2, <3>1
    <2>4. i \in DOMAIN s /\ s[i] = acc[i]
      <3>1. acc \in Seq(Visited) /\ i \in 1 .. Len(acc) /\ Len(acc) \in Nat
        <4>1. acc \in Seq(Visited)
          BY DEF IInv, Shape, CtaStates
        <4> QED BY <4>1, LenProperties
      <3> HIDE DEF acc
      <3>2. 1 \in 1 .. Len(acc) + 1 /\ i \in 1 - 1 .. Len(acc)
        BY <3>1
      <3>3. /\ Len(SubSeq(acc, 1, i)) = i
            /\ SubSeq(acc, 1, i) \in Seq(Visited)
            /\ SubSeq(acc, 1, i)[i] = acc[i]
        BY <3>1, <3>2, SubSeqProperties
      <3>4. DOMAIN s = 1 .. i
        BY <3>3, LenProperties
      <3> QED BY <2>1, <3>3, <3>4
    <2>5. Keep(params, s[i].masking, c[2] * kBlockM + r, j)
      <3>1. ~params.local /\ (acc[i].masking => ~params.causal /\ params.even)
        BY DEF SplitCheckInf
      <3> HIDE DEF s, acc, j
      <3> QED BY <2>4, <3>1 DEF Keep
    <2>6. j \div kBlockN = n /\ j \in Int
      <3> HIDE DEF n
      <3>1. 0 \in 0 .. kBlockN - 1 /\ j \in Int /\ j = kBlockN * n + 0 /\ n \in Int
        BY <2>2, <2>3
      <3> HIDE DEF j
      <3> QED BY <2>2, <3>1, DivModUnique
    <2>7. j \in Columns(params)
      <3> HIDE DEF n
      <3>1. j >= 0
        BY <2>2, <2>3
      <3>2. j < params.sk + kBlockN
        <4>1. CeilDiv(params.sk, kBlockN) \in Int /\ CeilDiv(params.sk, kBlockN) > 0
          BY <2>2, <2>3
        <4>2. kBlockN * CeilDiv(params.sk, kBlockN) < params.sk + kBlockN
          BY <2>2, <4>1, CeilDivBounds
        <4>3. /\ kBlockN * n <= kBlockN * CeilDiv(params.sk, kBlockN)
              /\ kBlockN * n \in Int /\ kBlockN * CeilDiv(params.sk, kBlockN) \in Int
          <5>1. n \in Int /\ n <= CeilDiv(params.sk, kBlockN)
            BY <2>3, <4>1
          <5> QED BY <2>2, <4>1, <5>1, MulMono
        <4>4. j = kBlockN * n
          BY <2>2, <2>3
        <4> HIDE DEF j
        <4> QED BY <2>2, <4>2, <4>3, <4>4
      <3> HIDE DEF j
      <3> QED BY <2>2, <2>6, <3>1, <3>2 DEF Columns
    <2>8. j \in KeptCols(params, c[2], s, r)
      <3>1. s[i].n = j \div kBlockN
        BY <2>4, <2>6
      <3> HIDE DEF s, j
      <3> QED BY <2>4, <2>5, <2>7, <3>1 DEF KeptCols
    <2> QED BY <2>8
  <1> QED BY <1>1, Inductive, PTL

-----------------------------------------------------------------------------
(* What the caller gets *)

\* What a CTA that is done has stored in cell x: the attended columns of its
\* split.
LEMMA StoredCols ==
    ASSUME IInv, NEW x \in Cells, NEW s \in Splits(arg),
           cta[CtaOf(x, s)].phase = "done"
    PROVE  /\ Stored(x, s).cols = AttendedIn(x % SeqlenQ(arg), NMin(CtaOf(x, s)),
                                             NMax(CtaOf(x, s)))
           /\ Stored(x, s).lse = IF Stored(x, s).cols = {} THEN EmptyLse(arg) ELSE "finite"
  <1> DEFINE c == CtaOf(x, s)
  <1>1. /\ c \in Ctas /\ RowOf(x) \in Rows
        /\ c[2] * kBlockM + RowOf(x) = x % SeqlenQ(arg)
    BY CellOwner DEF IInv
  <1> HIDE DEF c
  <1>2. cta[c].phase \in {"store", "done"} /\ CtaInv(c) /\ TypeOK /\ Shape
    BY <1>1 DEF c, IInv
  <1>3. Kept(c, RowOf(x)) = AttendedIn(x % SeqlenQ(arg), NMin(c), NMax(c))
    BY <1>1, <1>2, KeptInSplit
  <1>4. Stored(x, s) = Final(c, RowOf(x))
    BY DEF Stored, c
  <1>5. /\ Stored(x, s).cols = Kept(c, RowOf(x))
        /\ Stored(x, s).lse = IF Kept(c, RowOf(x)) = {} THEN EmptyLse(arg) ELSE "finite"
    BY <1>4 DEF Final
  <1> QED BY <1>3, <1>5 DEF c

\* No column is combined twice.
THEOREM SplitsExclusive == Spec => []ColumnOnce
  <1>1. IInv => ColumnOnce
    <2> SUFFICES ASSUME IInv, NEW s \in Splits(arg), NEW t \in Splits(arg), NEW x \in Cells,
                        s # t, partial[s][x].cols # Unset,
                        NEW j \in partial[s][x].cols, j \in partial[t][x].cols
                 PROVE  FALSE
      BY DEF ColumnOnce
    <2>1. ASSUME NEW u \in Splits(arg), partial[u][x].cols # Unset
          PROVE  partial[u][x].cols = AttendedIn(x % SeqlenQ(arg), NMin(CtaOf(x, u)),
                                                 NMax(CtaOf(x, u)))
      <3>1. partial[u][x] = IF Split(arg) THEN Stored(x, u) ELSE Blank
        BY DEF IInv, PartialInv
      <3>2. Blank.cols = Unset
        BY DEF Blank
      <3>3. cta[CtaOf(x, u)].phase = "done" /\ partial[u][x] = Stored(x, u)
        BY <2>1, <3>1, <3>2 DEF Stored
      <3> QED BY <3>3, StoredCols
    <2>2. j \in AttendedIn(x % SeqlenQ(arg), NMin(CtaOf(x, s)), NMax(CtaOf(x, s)))
      BY <2>1
    <2>3. j \in Columns(params) /\ j >= 0
      <3>1. params.sk \in Nat /\ kBlockN \in Nat
        BY CallType, BlockAssumption DEF IInv, TypeOK, IsParams
      <3> QED BY <2>2, <3>1 DEF AttendedIn, Columns
    <2>4. partial[t][x].cols # Unset
      BY <2>3 DEF Unset
    <2>5. j \in AttendedIn(x % SeqlenQ(arg), NMin(CtaOf(x, t)), NMax(CtaOf(x, t)))
      BY <2>1, <2>4
    <2>6. j \div kBlockN \in Int
      <3>1. j \in Int /\ kBlockN \in Nat \ {0}
        BY <2>3, BlockAssumption DEF Columns
      <3> QED BY <3>1, DivMod
    <2>7. TypeOK
      BY DEF IInv
    <2> QED BY <2>2, <2>5, <2>6, <2>7, SplitsDisjoint DEF AttendedIn
  <1> QED BY <1>1, Inductive, PTL

\* The columns the query row of cell x attends.
AttendedCols(x) == {j \in Columns(params) : Attends(params, x % SeqlenQ(arg), j)}

\* At the end, every cell has what its query row attends, from all splits.
LEMMA Gathered ==
    ASSUME IInv, stage = "done", NEW x \in Cells
    PROVE  /\ result[x].cols = AttendedCols(x)
           /\ result[x].lse = "inf" <=> AttendedCols(x) = {}
  <1> DEFINE Part(s) == AttendedIn(x % SeqlenQ(arg), NMin(CtaOf(x, s)), NMax(CtaOf(x, s)))
  <1>1. TypeOK /\ ~CannotRun /\ \A c \in Ctas : cta[c].phase = "done"
    BY DEF IInv, StageInv
  <1>2. \A s \in Splits(arg) :
            /\ Stored(x, s).cols = Part(s)
            /\ Stored(x, s).lse = IF Part(s) = {} THEN EmptyLse(arg) ELSE "finite"
    <2> TAKE s \in Splits(arg)
    <2>1. cta[CtaOf(x, s)].phase = "done"
      BY <1>1, CellOwner
    <2> QED BY <2>1, StoredCols
  <1>3. \A j \in AttendedCols(x) : \E s \in Splits(arg) : j \in Part(s)
    <2> TAKE j \in AttendedCols(x)
    <2>1. j \in Columns(params) /\ Attends(params, x % SeqlenQ(arg), j)
      BY DEF AttendedCols
    <2>2. PICK s \in Splits(arg) : /\ NMin(CtaOf(x, s)) <= j \div kBlockN
                                   /\ j \div kBlockN < NMax(CtaOf(x, s))
      BY <1>1, <2>1, SplitsCover
    <2>3. j \in Part(s)
      BY <2>1, <2>2 DEF AttendedIn
    <2> QED BY <2>3
  <1>4. \A s \in Splits(arg) : Part(s) \subseteq AttendedCols(x)
    BY DEF AttendedIn, AttendedCols
  <1> HIDE DEF Part
  <1>5. CASE ~Split(arg)
    <2>1. Splits(arg) = {0}
      BY <1>5 DEF Splits
    <2>2. Part(0) = AttendedCols(x)
      BY <1>3, <1>4, <2>1
    <2>3. result[x] = Stored(x, 0) /\ EmptyLse(arg) = "inf"
      BY <1>5 DEF IInv, ResultInv, EmptyLse
    <2> QED BY <1>2, <2>1, <2>2, <2>3
  <1>6. CASE Split(arg)
    <2>1. \A s \in Splits(arg) :
              /\ partial[s][x].cols = Part(s)
              /\ partial[s][x].lse = IF Part(s) = {} THEN "-inf" ELSE "finite"
      BY <1>2, <1>6 DEF IInv, PartialInv, EmptyLse
    <2> DEFINE some == {s \in Splits(arg) : partial[s][x].lse # "-inf"}
    <2>2. some = {s \in Splits(arg) : Part(s) # {}}
      BY <2>1
    <2>3. \A s \in some : partial[s][x].lse = "finite"
      BY <2>1
    <2>4. UNION {partial[s][x].cols : s \in some} = AttendedCols(x)
      BY <1>3, <1>4, <2>1, <2>2
    <2>5. some = {} <=> AttendedCols(x) = {}
      BY <1>3, <1>4, <2>2
    <2>6. CombineRow(x) = [cols |-> UNION {partial[s][x].cols : s \in some},
                           lse |-> IF some = {} THEN "inf" ELSE "finite"]
      BY <2>3 DEF CombineRow
    <2>7. \E b \in Chunks : x \in Chunk(b)
      <3> DEFINE b == x \div CombineRows
      <3>1. x \in Nat /\ x < Size /\ Size \in Int /\ CombineRows \in Nat \ {0}
        <4>1. Size \in Int
          BY <1>1, CallType DEF Size, TypeOK
        <4> QED BY <4>1, SplitAssumption DEF Cells
      <3>2. b \in Int /\ x % CombineRows \in 0 .. CombineRows - 1
            /\ x = CombineRows * b + (x % CombineRows)
        BY <3>1, DivMod
      <3>3. 0 <= b
        <4>1. CombineRows * 0 <= x /\ x \in Int
          BY <3>1
        <4> QED BY <3>1, <4>1, DivBounds
      <3>4. b < CeilDiv(Size, CombineRows) /\ CeilDiv(Size, CombineRows) \in Int
        BY <3>1, CeilDivCovers, CeilDivType
      <3> HIDE DEF b
      <3>5. CombineRows * b = b * CombineRows /\ b * CombineRows \in Int
        BY <3>1, <3>2
      <3>6. b \in Chunks /\ x \in Chunk(b)
        BY <3>1, <3>2, <3>3, <3>4, <3>5 DEF Chunks, Chunk
      <3> QED BY <3>6
    <2>8. result[x] = CombineRow(x)
      <3>1. combined = Chunks
        BY <1>6 DEF IInv, StageInv
      <3> QED BY <1>6, <2>7, <3>1 DEF IInv, ResultInv
    <2> HIDE DEF some
    <2> QED BY <2>4, <2>5, <2>6, <2>8
  <1> QED BY <1>5, <1>6

\* The kernel's mask of a cell is the one documented, in the caller's terms:
\* regrouped heads, the cut of causal for a single query, clamped windows and
\* a capacity larger than the keys change no row.
LEMMA DocMask ==
    ASSUME TypeOK, NEW x \in Cells, arg.seqlen_q <= arg.capacity
    PROVE  DocCols(x) = AttendedCols(x)
  <1> DEFINE i == IF Swapped(arg) THEN 0 ELSE x % arg.seqlen_q
             doc == [CallOf(arg, arg.seqlen_q) EXCEPT !.causal = arg.causal]
             Q == SeqlenQ(arg)
  <1>1. /\ arg \in Args /\ IsKVCall(arg) /\ params = KVParams(arg)
        /\ SeqlenK(arg) \in Nat /\ SeqlenK(arg) <= arg.capacity
        /\ params.sk = SeqlenK(arg) /\ params.sq = Q /\ Q \in Nat \ {0}
        /\ IsCall(CallOf(arg, Q)) /\ kBlockN \in Nat \ {0}
    BY CallType, BlockAssumption DEF TypeOK
  <1>2. /\ arg.seqlen_q \in Nat \ {0} /\ arg.capacity \in Nat \ {0}
        /\ arg.wl \in Int /\ arg.wr \in Int /\ arg.causal \in BOOLEAN
    BY <1>1 DEF IsKVCall
  <1>3. x % Q \in 0 .. Q - 1
    <2>1. x \in Int
      BY DEF Cells
    <2> QED BY <1>1, <2>1, DivMod
  <1>4. \A j \in Int : DocAttends(doc, i, j) <=> Attends(params, x % Q, j)
    <2> TAKE j \in Int
    <2>1. DocAttends(doc, i, j) <=>
              /\ j \in 0 .. SeqlenK(arg) - 1
              /\ arg.causal => j <= i + SeqlenK(arg) - arg.seqlen_q
              /\ arg.wl >= 0 => j >= i + SeqlenK(arg) - arg.seqlen_q - arg.wl
              /\ arg.wr >= 0 => j <= i + SeqlenK(arg) - arg.seqlen_q + arg.wr
      BY DEF DocAttends, CallOf
    <2>2. CASE Swapped(arg)
      <3>1. arg.seqlen_q = 1 /\ arg.wl < 0 /\ arg.wr < 0 /\ i = 0
        BY <2>2 DEF Swapped
      <3>2. DocAttends(doc, i, j) <=> j \in 0 .. SeqlenK(arg) - 1
        BY <1>1, <1>2, <2>1, <3>1
      <3> DEFINE a == CallOf(arg, Q)
      <3>3. /\ a.causal = FALSE /\ a.wl = arg.wl /\ a.wr = arg.wr
            /\ a.seqlen_k = arg.capacity
        BY <3>1 DEF CallOf
      <3> HIDE DEF a
      <3>4. Clamp(a.wl, a.seqlen_k) = arg.wl /\ ApiWindowRight(a) = arg.wr
        BY <1>2, <3>1, <3>3 DEF Clamp, ApiWindowRight, EffectiveCausal
      <3>5. params = SetParams(a)
        BY <1>1 DEF KVParams, a
      <3>6. /\ params.wl = arg.wl /\ params.wr = arg.wr
            /\ params.causal <=> (arg.wl < 0 /\ arg.wr = 0)
            /\ params.local <=> ~params.causal /\ (params.wl >= 0 \/ params.wr >= 0)
        <4>1. ~(arg.wl < 0 /\ arg.wr >= 0) /\ ~(arg.wl >= 0 /\ arg.wr < 0)
          BY <1>2, <3>1
        <4> QED BY <3>4, <3>5, <4>1 DEF SetParams, FwdMask, MaskParams
      <3>7. ~params.causal /\ ~params.local
        BY <1>2, <3>1, <3>6
      <3>8. Attends(params, x % Q, j) <=> j \in 0 .. SeqlenK(arg) - 1
        BY <1>1, <3>7 DEF Attends
      <3> QED BY <3>2, <3>8
    <2>3. CASE ~Swapped(arg)
      <3> DEFINE a == CallOf(arg, arg.seqlen_q)
      <3>1. Q = arg.seqlen_q /\ i = x % Q /\ i \in 0 .. Q - 1
        BY <1>3, <2>3 DEF SeqlenQ
      <3>2. /\ a.sq = arg.seqlen_q /\ a.sk = SeqlenK(arg) /\ a.seqlen_q = arg.seqlen_q
            /\ a.seqlen_k = arg.capacity /\ a.wl = arg.wl /\ a.wr = arg.wr
            /\ a.causal <=> arg.causal /\ arg.seqlen_q # 1
        BY <1>2 DEF CallOf
      <3>3. IsCall(a) /\ SetParams(a) = params
        BY <1>1, <3>1 DEF KVParams
      <3> HIDE DEF a, i, doc
      <3>4. Aligned(a)
        BY <1>1, <1>2, <3>2 DEF Aligned
      <3>5. DocAttends(a, i, j) <=> Attends(params, i, j)
        <4>1. i \in Nat /\ i < a.sq
          BY <1>1, <3>1, <3>2
        <4> QED BY <3>3, <3>4, <4>1, AlignedMask
      <3>6. DocAttends(a, i, j) <=>
              /\ j \in 0 .. SeqlenK(arg) - 1
              /\ a.causal => j <= i + SeqlenK(arg) - arg.seqlen_q
              /\ arg.wl >= 0 => j >= i + SeqlenK(arg) - arg.seqlen_q - arg.wl
              /\ arg.wr >= 0 => j <= i + SeqlenK(arg) - arg.seqlen_q + arg.wr
        BY <3>2 DEF DocAttends
      <3>7. arg.seqlen_q = 1 /\ j \in 0 .. SeqlenK(arg) - 1 =>
                j <= i + SeqlenK(arg) - arg.seqlen_q
        BY <1>1, <3>1
      <3>8. DocAttends(doc, i, j) <=> DocAttends(a, i, j)
        BY <2>1, <3>2, <3>6, <3>7
      <3> QED BY <3>1, <3>5, <3>8
    <2> QED BY <2>2, <2>3
  <1>5. \A j : Attends(params, x % Q, j) =>
            j \in Columns(params) /\ j \in 0 .. arg.capacity - 1 /\ j \in Int
    BY <1>1, <1>2 DEF Attends, Columns
  <1>6. DocCols(x) = {j \in 0 .. arg.capacity - 1 : DocAttends(doc, i, j)}
    BY DEF DocCols
  <1>7. AttendedCols(x) = {j \in Columns(params) : Attends(params, x % Q, j)}
    BY DEF AttendedCols
  <1>8. Columns(params) \subseteq Int /\ 0 .. arg.capacity - 1 \subseteq Int
    BY DEF Columns
  <1> HIDE DEF doc, i, Q
  <1> QED BY <1>4, <1>5, <1>6, <1>7, <1>8

\* The split and the combine kernel together return the columns the interface
\* documents, for calls whose queries are no more than the cache holds (what
\* mha_fwd_kvcache demands of a call that appends).
THEOREM OutputDocumented ==
    ASSUME \A a \in Args : a.seqlen_q <= a.capacity
    PROVE  Spec => []OutputAsDocumented
  <1>1. IInv => OutputAsDocumented
    <2> SUFFICES ASSUME IInv, stage = "done", NEW x \in Cells
                 PROVE  result[x].cols = DocCols(x)
      BY DEF OutputAsDocumented
    <2>1. TypeOK /\ arg.seqlen_q <= arg.capacity
      BY DEF IInv, TypeOK
    <2> QED BY <2>1, Gathered, DocMask
  <1> QED BY <1>1, Inductive, PTL

\* For the same calls LSE is +inf exactly for the rows that attend nothing,
\* in however many splits.
THEOREM LseDocumented ==
    ASSUME \A a \in Args : a.seqlen_q <= a.capacity
    PROVE  Spec => []LseInfIffEmpty
  <1>1. IInv => LseInfIffEmpty
    <2> SUFFICES ASSUME IInv, stage = "done", NEW x \in Cells
                 PROVE  (result[x].lse = "inf") = (DocCols(x) = {})
      BY DEF LseInfIffEmpty
    <2>1. TypeOK /\ arg.seqlen_q <= arg.capacity
      BY DEF IInv, TypeOK
    <2>2. DocCols(x) = AttendedCols(x)
      BY <2>1, DocMask
    <2>3. result[x].lse = "inf" <=> AttendedCols(x) = {}
      BY Gathered
    <2> QED BY <2>2, <2>3
  <1> QED BY <1>1, Inductive, PTL

\* Without a left window, the last row of the first head attends every key.
LEMMA LastRowAttendsAll ==
    ASSUME TypeOK, Clamp(arg.wl, arg.capacity) < 0, NEW j \in 0 .. SeqlenK(arg) - 1
    PROVE  Attends(params, SeqlenQ(arg) - 1, j)
  <1> DEFINE a == CallOf(arg, SeqlenQ(arg))
             l == Clamp(a.wl, a.seqlen_k)
             r == ApiWindowRight(a)
             d == SeqlenQ(arg) - 1 + SeqlenK(arg) - SeqlenQ(arg)
  <1>1. /\ params = SetParams(a) /\ params.sk = SeqlenK(arg) /\ params.sq = SeqlenQ(arg)
        /\ SeqlenK(arg) \in Nat /\ SeqlenQ(arg) \in Nat /\ IsParams(params)
        /\ SeqlenK(arg) <= arg.capacity /\ IsCall(a)
    BY CallType DEF TypeOK, KVParams
  <1>2. a.seqlen_k = arg.capacity /\ a.wl = arg.wl
    BY DEF CallOf
  <1> HIDE DEF a
  <1>3. /\ a.seqlen_k \in Nat \ {0} /\ r \in Int /\ l \in Int /\ l < 0
    BY <1>1, <1>2 DEF IsCall, Clamp, ApiWindowRight, Unlimited
  <1>4. /\ params.wl = IF l < 0 /\ r >= 0 THEN a.seqlen_k ELSE l
        /\ params.wr = IF params.wl >= 0 /\ r < 0 THEN a.seqlen_k ELSE r
        /\ params.causal <=> (l < 0 /\ r = 0)
        /\ params.local <=> ~params.causal /\ (params.wl >= 0 \/ params.wr >= 0)
    BY <1>1 DEF SetParams, FwdMask, MaskParams
  <1> HIDE DEF l, r
  <1>5. d = SeqlenK(arg) - 1 /\ j <= d /\ j >= 0 /\ j \in Int
    BY <1>1
  <1>6. params.local => /\ params.wl = a.seqlen_k /\ params.wr \in Nat
    BY <1>2, <1>3, <1>4
  <1>7. Attends(params, SeqlenQ(arg) - 1, j) <=>
            /\ j \in 0 .. params.sk - 1
            /\ params.causal => j <= SeqlenQ(arg) - 1 + params.sk - params.sq
            /\ params.local =>
                /\ j >= SeqlenQ(arg) - 1 + params.sk - params.sq - params.wl
                /\ j <= SeqlenQ(arg) - 1 + params.sk - params.sq + params.wr
    BY Zenon DEF Attends
  <1>8. SeqlenQ(arg) - 1 + params.sk - params.sq = d /\ j \in 0 .. params.sk - 1
    BY <1>1
  <1>9. params.causal => j <= SeqlenQ(arg) - 1 + params.sk - params.sq
    BY <1>5, <1>8
  <1>10. params.local =>
             /\ j >= SeqlenQ(arg) - 1 + params.sk - params.sq - params.wl
             /\ j <= SeqlenQ(arg) - 1 + params.sk - params.sq + params.wr
    <2> SUFFICES ASSUME params.local
                 PROVE  /\ j >= SeqlenQ(arg) - 1 + params.sk - params.sq - params.wl
                        /\ j <= SeqlenQ(arg) - 1 + params.sk - params.sq + params.wr
      OBVIOUS
    <2>1. params.wl \in Int /\ params.wl >= SeqlenK(arg) /\ params.wr \in Nat
      BY <1>1, <1>2, <1>3, <1>6 DEF IsCall
    <2>2. params.sk = SeqlenK(arg) /\ params.sq = SeqlenQ(arg)
      BY <1>1
    <2>3. SeqlenK(arg) \in Nat /\ SeqlenQ(arg) \in Nat
      BY <1>1
    <2> QED BY <1>5, <2>1, <2>2, <2>3
  <1> QED BY <1>7, <1>8, <1>9, <1>10, Zenon

\* With one, a new key is attended by the query it belongs to, or by the first
\* if there are more new keys than queries and the window reaches the key.
LEMMA WindowReachesNew ==
    ASSUME TypeOK, Clamp(arg.wl, arg.capacity) >= 0,
           arg.seqlen_knew <= SeqlenQ(arg) + arg.wl,
           NEW j \in arg.cache_len .. SeqlenK(arg) - 1
    PROVE  \E i \in 0 .. SeqlenQ(arg) - 1 : Attends(params, i, j)
  <1> DEFINE a == CallOf(arg, SeqlenQ(arg))
             l == Clamp(a.wl, a.seqlen_k)
             r == ApiWindowRight(a)
             d == SeqlenK(arg) - SeqlenQ(arg)
             i == IF j >= d THEN j - d ELSE 0
  <1>1. /\ params = SetParams(a) /\ params.sk = SeqlenK(arg) /\ params.sq = SeqlenQ(arg)
        /\ SeqlenK(arg) \in Nat /\ SeqlenQ(arg) \in Nat \ {0} /\ IsCall(a)
        /\ arg.cache_len \in Nat /\ arg.seqlen_knew \in Nat
        /\ SeqlenK(arg) = arg.cache_len + arg.seqlen_knew
    BY CallType DEF TypeOK, KVParams, IsKVCall, SeqlenK
  <1>2. a.seqlen_k = arg.capacity /\ a.wl = arg.wl
    BY DEF CallOf
  <1> HIDE DEF a
  <1>3. /\ a.seqlen_k \in Nat \ {0} /\ r \in Int
        /\ l = arg.wl /\ l \in Nat
    BY <1>1, <1>2 DEF IsCall, Clamp, ApiWindowRight, Unlimited
  <1>4. /\ params.wl = IF l < 0 /\ r >= 0 THEN a.seqlen_k ELSE l
        /\ params.wr = IF params.wl >= 0 /\ r < 0 THEN a.seqlen_k ELSE r
        /\ params.causal <=> (l < 0 /\ r = 0)
    BY <1>1 DEF SetParams, FwdMask, MaskParams
  <1> HIDE DEF l, r
  <1>5. /\ params.wl = arg.wl /\ arg.wl \in Nat /\ params.wr \in Nat
        /\ ~params.causal
    BY <1>3, <1>4
  <1>6. /\ i \in 0 .. SeqlenQ(arg) - 1 /\ d \in Int /\ j \in 0 .. SeqlenK(arg) - 1
        /\ i + d - arg.wl <= j /\ j <= i + d
    BY <1>1, <1>5
  <1>7. i + params.sk - params.sq = i + d
    BY <1>1, <1>6
  <1> HIDE DEF i, d
  <1>8. /\ j >= i + params.sk - params.sq - params.wl
        /\ j <= i + params.sk - params.sq + params.wr
    BY <1>1, <1>5, <1>6, <1>7
  <1>9. Attends(params, i, j)
    BY <1>1, <1>5, <1>6, <1>8, Zenon DEF Attends
  <1> QED BY <1>6, <1>9

\* The cache is complete if the window of a call, when it has one, reaches its
\* new keys: there are not more of them than the rows and their window cover.
Reaches(a) == a.wl < 0 \/ a.seqlen_knew <= SeqlenQ(a) + a.wl

\* Then some row attends each new key.
LEMMA NewKeyAttended ==
    ASSUME TypeOK, Reaches(arg), NEW j \in arg.cache_len .. SeqlenK(arg) - 1
    PROVE  \E i \in 0 .. SeqlenQ(arg) - 1 : Attends(params, i, j)
  <1>1. /\ SeqlenQ(arg) \in Nat \ {0} /\ SeqlenK(arg) \in Nat
        /\ arg.cache_len \in Nat /\ arg.capacity \in Nat /\ arg.wl \in Int
    BY CallType DEF TypeOK, IsKVCall
  <1>2. CASE Clamp(arg.wl, arg.capacity) < 0
    <2>1. j \in 0 .. SeqlenK(arg) - 1
      BY <1>1
    <2>2. Attends(params, SeqlenQ(arg) - 1, j)
      BY <1>2, <2>1, LastRowAttendsAll
    <2> QED BY <1>1, <2>2
  <1>3. CASE ~(Clamp(arg.wl, arg.capacity) < 0)
    <2>1. Clamp(arg.wl, arg.capacity) >= 0 /\ ~(arg.wl < 0)
      BY <1>1, <1>3 DEF Clamp, Unlimited
    <2> QED BY <2>1, WindowReachesNew DEF Reaches
  <1> QED BY <1>2, <1>3

\* If a call does not append more keys than its rows and their left window
\* reach, every new row is in the cache when the call returns, and nothing else
\* has changed; otherwise it need not be (run kv_prefill).
THEOREM CacheComplete ==
    ASSUME \A a \in Args : Reaches(a)
    PROVE  Spec => []CacheUpdated
  <1>1. IInv => CacheUpdated
    <2> SUFFICES ASSUME IInv, stage = "done",
                        NEW j \in arg.cache_len .. SeqlenK(arg) - 1
                 PROVE  j \in kcache \cap vcache
      BY DEF CacheUpdated, IInv, CacheInv
    <2> DEFINE Q == SeqlenQ(arg)
    <2>1. /\ TypeOK /\ ~CannotRun /\ Reaches(arg)
          /\ \A c \in Ctas : cta[c].phase = "done" /\ CtaInv(c)
      BY DEF IInv, StageInv, TypeOK
    <2>2. /\ Q \in Nat \ {0} /\ Heads(arg) \in Nat \ {0} /\ SeqlenK(arg) \in Nat
          /\ arg.cache_len \in Nat /\ kBlockN \in Nat \ {0}
      BY <2>1, CallType, BlockAssumption DEF TypeOK
    <2>3. j \in 0 .. SeqlenK(arg) - 1 /\ j \in Int /\ arg.cache_len <= j
      BY <2>2
    <2>0. PICK x \in 0 .. Q - 1 : Attends(params, x, j)
      BY <2>1, NewKeyAttended
    <2>4. x % Q = x
      <3>1. /\ 0 \in Int /\ x \in Int /\ x = Q * 0 + x
            /\ Q \in Nat \ {0}
        BY <2>2
      <3> HIDE DEF Q
      <3> QED BY <3>1, DivModUnique
    <2>5. x \in Cells
      <3>1. Heads(arg) * Q = Q * Heads(arg) /\ Heads(arg) * Q \in Int
        BY <2>2
      <3>2. Q * 1 <= Q * Heads(arg)
        <4>1. 1 \in Int /\ Heads(arg) \in Int /\ 1 <= Heads(arg)
          BY <2>2
        <4> HIDE DEF Q
        <4> QED BY <2>2, <4>1, MulMono
      <3>3. Size = Heads(arg) * Q
        BY DEF Size
      <3> HIDE DEF Q
      <3> QED BY <2>2, <3>1, <3>2, <3>3 DEF Cells
    <2>6. Attends(params, x % Q, j)
      BY <2>4, <2>0
    <2>7. PICK s \in Splits(arg) : /\ NMin(CtaOf(x, s)) <= j \div kBlockN
                                   /\ j \div kBlockN < NMax(CtaOf(x, s))
      <3> QED BY <2>1, <2>5, <2>6, SplitsCover
    <2> DEFINE c == CtaOf(x, s)
               n == j \div kBlockN
    <2>8. c \in Ctas /\ NMin(c) \in Nat /\ NMax(c) \in Int
      <3>1. c \in Ctas
        <4> QED BY <2>1, <2>5, CellOwner
      <3> HIDE DEF c
      <3> QED BY <2>1, <3>1, SplitBounds
    <2>9. n \in Int /\ NMin(c) <= n /\ n < NMax(c)
      <3>1. n \in Int
        BY <2>2, <2>3, DivMod
      <3> QED BY <2>7, <3>1
    <2> HIDE DEF c, n, Q
    <2>10. Appended(c, NMin(c))
      <3>1. Working(c) /\ cta[c].phase = "done" /\ CtaInv(c)
        BY <2>1, <2>8, <2>9 DEF Working
      <3> QED BY <3>1 DEF CtaInv
    <2>11. NewCols(arg, n) \subseteq kcache \cap vcache
      <3>1. n \in NMin(c) .. NMax(c) - 1
        BY <2>8, <2>9
      <3> QED BY <2>10, <3>1 DEF Appended
    <2>12. j \in NewCols(arg, n)
      <3>1. j % kBlockN \in 0 .. kBlockN - 1 /\ j = kBlockN * n + (j % kBlockN)
        BY <2>2, <2>3, DivMod DEF n
      <3>2. n * kBlockN = kBlockN * n /\ n * kBlockN \in Int
        BY <2>2, <2>9
      <3>3. j \in Block(n)
        BY <2>2, <2>3, <3>1, <3>2 DEF Block
      <3> QED BY <2>2, <2>3, <3>3 DEF NewCols
    <2> QED BY <2>11, <2>12
  <1> QED BY <1>1, Inductive, PTL
=============================================================================
