--------------------------- MODULE FlashBwdProofs ----------------------------
(***************************************************************************)
(* FlashBwd is correct for every tile shape, every set of calls and every  *)
(* order of the CTAs of its kernels.                                       *)
(***************************************************************************)
EXTENDS FlashBwd, BwdTilingProofs

-----------------------------------------------------------------------------
(* The inductive invariant *)

CB(x) == ColumnBlocks(params, x)

\* How many of its column blocks CTA x has finished.
Done(x) == Len(CB(x)) - Len(todo[x])

\* What remains to do is the end of the CTA's list.
TodoInv(x) ==
    /\ Len(todo[x]) <= Len(CB(x))
    /\ \A i \in 1 .. Len(todo[x]) : todo[x][i] = CB(x)[Done(x) + i]
    /\ kernel = "dot_do_o" => Done(x) = 0
    /\ kernel = "dq_dk_dv" /\ x \in finished => todo[x] = <<>>
    /\ kernel \in {"convert_dq", "returned"} => todo[x] = <<>>

\* The visits of a column block count down from its last row block, and the
\* first is checked unless the tiling is even.
AccInv(x) ==
    acc[x] # <<>> =>
        /\ kernel = "dq_dk_dv" /\ todo[x] # <<>>
        /\ ~NoKeys(params, Block(x)) /\ ~NoQueries(params, Block(x))
        /\ m_block[x] = MBlockMax(params, Block(x)) - 1 - Len(acc[x])
        /\ m_block[x] >= MBlockMin(params, Block(x)) - 1
        /\ \A i \in 1 .. Len(acc[x]) :
               /\ acc[x][i].m = MBlockMax(params, Block(x)) - i
               /\ acc[x][i].checked = (i = 1 /\ ~params.even)

\* dot_do_o has been run for the row blocks with rows.
PsumInv ==
    /\ finished \subseteq IF kernel = "dq_dk_dv" THEN CTAs ELSE RowBlocks
    /\ \A m \in RowBlocks :
           m \in dPsum <=> HasRows(m) /\ (kernel # "dot_do_o" \/ m \in finished)

\* CTA x has computed tile (m, CB(x)[j]).
Visited(x, j, m) ==
    /\ ~NoKeys(params, CB(x)[j])
    /\ MBlockMin(params, CB(x)[j]) <= m /\ m < MBlockMax(params, CB(x)[j])
    /\ \/ j <= Done(x)
       \/ j = Done(x) + 1 /\ acc[x] # <<>> /\ m_block[x] < m

Cleared(m) == params.deterministic \/ m \in dPsum

\* A buffer holds, once each, the column blocks its CTAs have visited.
AccumInv(b, m) ==
    LET s == dqAccum[b][m]
    IN  /\ ~Cleared(m) => s = Garbage
        /\ \A i, j \in DOMAIN s : s[i] = s[j] => i = j
        /\ Cleared(m) =>
            /\ \A i \in DOMAIN s : \E x \in CTAs : \E j \in DOMAIN CB(x) :
                   Buffer(x) = b /\ s[i] = CB(x)[j] /\ Visited(x, j, m)
            /\ \A x \in CTAs : \A j \in DOMAIN CB(x) :
                   Buffer(x) = b /\ Visited(x, j, m) =>
                       \E i \in DOMAIN s : s[i] = CB(x)[j]

\* Column c belongs to a column block of some CTA; that CTA has finished it.
Owned(c) == \E x \in CTAs : \E j \in DOMAIN CB(x) : c \in TileCols(CB(x)[j])
Finished(c) ==
    \E x \in CTAs : \E j \in DOMAIN CB(x) :
        j <= Done(x) /\ c \in TileCols(CB(x)[j])

\* A column has its final gradient exactly when its block is finished.
DKVInv(c) ==
    gdKV[c] = IF c < params.sk /\ Finished(c)
              THEN {r \in 0 .. params.sq - 1 : Attends(params, r, c)}
              ELSE Unset

Converted(r) ==
    \/ kernel = "returned"
    \/ kernel = "convert_dq" /\ \E m \in finished : r \in TileRows(m)

DQInv(r) ==
    gdQ[r] = IF r < params.sq /\ Converted(r)
             THEN {c \in KeyCols : Attends(params, r, c) /\ Owned(c)}
             ELSE Unset

IInv ==
    /\ TypeOK
    /\ PsumInv
    /\ \A x \in CTAs : TodoInv(x)
    /\ \A x \in CTAs : AccInv(x)
    /\ \A b \in Buffers, m \in RowBlocks : AccumInv(b, m)
    /\ \A c \in KeyCols : DKVInv(c)
    /\ \A r \in QueryRows : DQInv(r)

-----------------------------------------------------------------------------
(* The setting of a call *)

\* What the call's parameters satisfy throughout.
LEMMA Setting ==
    ASSUME TypeOK
    PROVE  /\ arg \in Args /\ IsBwdCall(arg)
           /\ params = BwdParams(arg) /\ IsBwdParams(params)
           /\ params.sq = arg.sq /\ params.sk = arg.sk
           /\ params.nblocks = CeilDiv(arg.seqlen_k, kBlockN)
           /\ arg.sq <= arg.seqlen_q
  <1>1. arg \in Args /\ params = BwdParams(arg)
    BY DEF TypeOK
  <1>2. IsBwdCall(arg)
    BY <1>1, BwdArgsAssumption
  <1>3. IsBwdParams(params)
    BY <1>1, <1>2, BwdParamsType
  <1>4. params.sq = arg.sq /\ params.sk = arg.sk
    <2>1. BwdMask(arg).sq = arg.sq /\ BwdMask(arg).sk = arg.sk
      BY <1>2, BwdMaskType
    <2> QED BY <1>1, <2>1 DEF BwdParams
  <1>5. params.nblocks = CeilDiv(arg.seqlen_k, kBlockN)
    BY <1>1 DEF BwdParams
  <1>6. arg.sq <= arg.seqlen_q
    BY <1>2 DEF IsBwdCall
  <1> QED BY <1>1, <1>2, <1>3, <1>4, <1>5, <1>6

\* The call and what is derived from it alone never change.
LEMMA SameCall ==
    ASSUME [Next]_vars
    PROVE  /\ arg' = arg /\ params' = params
           /\ CTAs' = CTAs /\ RowBlocks' = RowBlocks /\ Buffers' = Buffers
           /\ QueryRows' = QueryRows /\ KeyCols' = KeyCols
           /\ \A x : CB(x)' = CB(x)
  <1>1. arg' = arg /\ params' = params
    BY DEF Next, Step, vars, DotDoO, ConvertDQ, Skip, StoreZero, FirstTile,
           NextTile, Tile, StoreKV, Exit
  <1>2. CTAs' = CTAs
    BY <1>1 DEF CTAs
  <1>3. Buffers' = Buffers
    BY <1>1, <1>2 DEF Buffers
  <1>4. RowBlocks' = RowBlocks /\ QueryRows' = QueryRows /\ KeyCols' = KeyCols
    BY <1>1 DEF RowBlocks, QueryRows, KeyCols
  <1>5. \A x : CB(x)' = CB(x)
    BY <1>1 DEF CB
  <1> QED BY <1>1, <1>2, <1>3, <1>4, <1>5

\* Every row lies in a row block, every block with rows is one of them.
LEMMA RowBlocksType ==
    ASSUME TypeOK
    PROVE  /\ RowBlocks \subseteq Nat /\ 0 \in RowBlocks
           /\ \A m \in Nat : m * kBlockM < params.sq => m \in RowBlocks
           /\ \A r \in QueryRows : r \in Nat /\ r \div kBlockM \in RowBlocks
                                   /\ r \in TileRows(r \div kBlockM)
  <1> DEFINE k == CeilDiv(arg.seqlen_q, kBlockM)
  <1>1. /\ arg.seqlen_q \in Nat \ {0} /\ kBlockM \in Nat \ {0}
        /\ params.sq \in Nat /\ params.sq <= arg.seqlen_q
    BY Setting, BwdBlockAssumption DEF IsBwdCall, IsBwdParams
  <1>2. k \in Nat \ {0}
    BY <1>1, NBlocks
  <1>3. RowBlocks = 0 .. k - 1 /\ QueryRows = 0 .. k * kBlockM - 1
    BY DEF RowBlocks, QueryRows
  <1>4. ASSUME NEW m \in Nat, m * kBlockM < params.sq
        PROVE  m \in RowBlocks
    <2>1. m * kBlockM \in Nat /\ arg.seqlen_q \in Int /\ m * kBlockM < arg.seqlen_q
      BY <1>1, <1>4
    <2>2. (m * kBlockM) \div kBlockM < k
      BY <1>1, <2>1, CeilDivCovers
    <2>3. m = (m * kBlockM) \div kBlockM
      <3>1. m * kBlockM \in m * kBlockM .. (m + 1) * kBlockM - 1
        BY <1>1, <2>1, TileOf
      <3> QED BY <1>1, <2>1, <3>1, TileOf
    <2> HIDE DEF k
    <2> QED BY <1>2, <1>3, <2>2, <2>3
  <1> HIDE DEF k
  <1>5. ASSUME NEW r \in QueryRows
        PROVE  /\ r \in Nat /\ r \div kBlockM \in RowBlocks
               /\ r \in TileRows(r \div kBlockM)
    <2>1. k * kBlockM \in Int /\ kBlockM * k = k * kBlockM
      BY <1>1, <1>2
    <2>2. r \in Nat /\ r < kBlockM * k
      BY <1>3, <2>1
    <2>3. r \div kBlockM \in Int /\ r \div kBlockM < k /\ 0 <= r \div kBlockM
      <3>1. r \in Int /\ k \in Int /\ kBlockM * 0 <= r /\ 0 \in Int
        BY <1>1, <1>2, <2>2
      <3>2. r \div kBlockM \in Int
        BY <1>1, <3>1, DivMod
      <3>3. r \div kBlockM < k
        BY <1>1, <2>2, <3>1, DivBounds
      <3>4. 0 <= r \div kBlockM
        BY <1>1, <3>1, DivBounds
      <3> QED BY <3>2, <3>3, <3>4
    <2>4. r \in TileRows(r \div kBlockM)
      BY <2>2, <2>3, RowTile
    <2> QED BY <1>2, <1>3, <2>2, <2>3, <2>4
  <1>6. RowBlocks \subseteq Nat /\ 0 \in RowBlocks
    BY <1>2, <1>3
  <1> QED BY <1>4, <1>5, <1>6

\* The list of a CTA holds column blocks.
LEMMA CBType ==
    ASSUME TypeOK, NEW x \in CTAs
    PROVE  /\ CB(x) \in Seq(0 .. params.nblocks - 1)
           /\ Len(CB(x)) \in Nat /\ DOMAIN CB(x) = 1 .. Len(CB(x))
           /\ \A j \in DOMAIN CB(x) : /\ CB(x)[j] \in 0 .. params.nblocks - 1
                                      /\ CB(x)[j] \in Nat
  <1>1. CB(x) \in Seq(0 .. params.nblocks - 1)
    BY Setting, ColumnBlocksType DEF CB, CTAs
  <1>2. params.nblocks \in Nat
    BY Setting DEF IsBwdParams
  <1> QED BY <1>1, <1>2

\* Different positions of different CTAs hold different column blocks.
LEMMA CBDisjoint ==
    ASSUME TypeOK, NEW x \in CTAs, NEW y \in CTAs,
           NEW i \in DOMAIN CB(x), NEW j \in DOMAIN CB(y), CB(x)[i] = CB(y)[j]
    PROVE  x = y /\ i = j
  BY Setting, ColumnBlocksDisjoint DEF CB, CTAs

\* The block a CTA works on is the next of its list.
LEMMA CurrentBlock ==
    ASSUME TypeOK, NEW x \in CTAs, TodoInv(x), todo[x] # <<>>
    PROVE  /\ Done(x) \in Nat /\ Done(x) + 1 \in DOMAIN CB(x)
           /\ Block(x) = CB(x)[Done(x) + 1]
           /\ Block(x) \in 0 .. params.nblocks - 1 /\ Block(x) \in Nat
  <1>1. todo[x] \in Seq(Int)
    BY DEF TypeOK
  <1>2. Len(todo[x]) \in Nat /\ Len(todo[x]) >= 1 /\ Len(todo[x]) <= Len(CB(x))
    BY <1>1 DEF TodoInv
  <1>3. Done(x) \in Nat /\ Done(x) + 1 \in DOMAIN CB(x)
    <2>1. Len(CB(x)) \in Nat /\ DOMAIN CB(x) = 1 .. Len(CB(x))
      BY CBType
    <2>2. Done(x) = Len(CB(x)) - Len(todo[x])
      BY DEF Done
    <2> QED BY <1>2, <2>1, <2>2
  <1>4. todo[x][1] = CB(x)[Done(x) + 1]
    BY <1>2 DEF TodoInv
  <1>5. Block(x) = todo[x][1]
    BY DEF Block
  <1> QED BY <1>3, <1>4, <1>5, CBType

-----------------------------------------------------------------------------
(* Initially *)

\* A sequence over a set is one over a larger set.
LEMMA WiderSeq ==
    ASSUME NEW S, NEW T, S \subseteq T, NEW s \in Seq(S)
    PROVE  s \in Seq(T)
  <1>1. Len(s) \in Nat /\ s \in [1 .. Len(s) -> S]
    OBVIOUS
  <1>2. s \in [1 .. Len(s) -> T]
    BY <1>1
  <1> QED BY <1>1, <1>2

\* Before dot_do_o nothing is visited, stored or converted.
LEMMA InitKeeps == Init => IInv
  <1> SUFFICES ASSUME Init PROVE IInv
    OBVIOUS
  <1> USE DEF Init
  <1>1. arg \in Args /\ params = BwdParams(arg) /\ IsBwdParams(params)
    <2>1. IsBwdCall(arg)
      BY BwdArgsAssumption
    <2> QED BY <2>1, BwdParamsType
  <1>2. \A x \in CTAs : CB(x) \in Seq(0 .. params.nblocks - 1)
    BY <1>1, ColumnBlocksType DEF CB, CTAs
  <1>3. \A x \in CTAs : todo[x] = CB(x)
    BY DEF CB
  <1>4. TypeOK
    <2>1. \A x \in CTAs : CB(x) \in Seq(Int)
      <3> TAKE x \in CTAs
      <3>1. CB(x) \in Seq(0 .. params.nblocks - 1)
        BY <1>2
      <3>2. 0 .. params.nblocks - 1 \subseteq Int
        OBVIOUS
      <3> QED BY <3>1, <3>2, WiderSeq
    <2>2. todo \in [CTAs -> Seq(Int)]
      BY <2>1 DEF CB
    <2>3. dqAccum \in [Buffers -> [RowBlocks -> Seq(Int)]]
      BY DEF Garbage
    <2>4. acc \in [CTAs -> Seq([m : RowBlocks, checked : BOOLEAN])]
      OBVIOUS
    <2>5. /\ gdKV \in [KeyCols -> SUBSET Int] /\ gdQ \in [QueryRows -> SUBSET Int]
          /\ m_block \in [CTAs -> Int]
      BY DEF Unset
    <2>6. dPsum \in SUBSET RowBlocks /\ finished \in SUBSET Nat
      OBVIOUS
    <2> QED BY <1>1, <2>2, <2>3, <2>4, <2>5, <2>6 DEF TypeOK
  <1>5. PsumInv
    BY DEF PsumInv
  <1>6. \A x \in CTAs : Len(CB(x)) \in Nat /\ Done(x) = 0
    <2> TAKE x \in CTAs
    <2>1. Len(CB(x)) \in Nat
      BY <1>4, CBType
    <2> QED BY <1>3, <2>1 DEF Done
  <1>7. \A x \in CTAs : TodoInv(x)
    <2> TAKE x \in CTAs
    <2>1. Len(todo[x]) = Len(CB(x)) /\ Len(CB(x)) \in Nat /\ Done(x) = 0
      BY <1>3, <1>6
    <2>2. \A i \in 1 .. Len(todo[x]) : todo[x][i] = CB(x)[Done(x) + i]
      BY <1>3, <2>1
    <2> QED BY <2>1, <2>2 DEF TodoInv
  <1>8. \A x \in CTAs : AccInv(x)
    BY DEF AccInv
  <1>9. \A b \in Buffers, m \in RowBlocks : AccumInv(b, m)
    <2> TAKE b \in Buffers, m \in RowBlocks
    <2>1. dqAccum[b][m] = IF params.deterministic THEN <<>> ELSE Garbage
      OBVIOUS
    <2>2. Cleared(m) <=> params.deterministic
      BY DEF Cleared
    <2>3. \A x \in CTAs : \A j \in DOMAIN CB(x) : ~Visited(x, j, m)
      <3> TAKE x \in CTAs
      <3> TAKE j \in DOMAIN CB(x)
      <3>1. j >= 1 /\ j \in Int /\ Done(x) = 0 /\ acc[x] = <<>>
        BY <1>4, <1>6, CBType
      <3> QED BY <3>1 DEF Visited
    <2>4. \A i, j \in DOMAIN dqAccum[b][m] : dqAccum[b][m][i] = dqAccum[b][m][j] => i = j
      BY <2>1 DEF Garbage
    <2>5. params.deterministic => DOMAIN dqAccum[b][m] = {}
      BY <2>1
    <2> QED BY <2>1, <2>2, <2>3, <2>4, <2>5 DEF AccumInv
  <1>10. \A c \in KeyCols : DKVInv(c)
    <2> TAKE c \in KeyCols
    <2>1. ~Finished(c)
      <3>1. \A x \in CTAs : \A j \in DOMAIN CB(x) : ~(j <= Done(x))
        BY <1>4, <1>6, CBType
      <3> QED BY <3>1 DEF Finished
    <2> QED BY <2>1 DEF DKVInv
  <1>11. \A r \in QueryRows : DQInv(r)
    BY DEF DQInv, Converted
  <1> QED BY <1>4, <1>5, <1>7, <1>8, <1>9, <1>10, <1>11 DEF IInv

-----------------------------------------------------------------------------
(* A CTA leaves a column block: Skip, StoreZero and StoreKV *)

Leaves(x) ==
    /\ Runs(x) /\ todo[x] # <<>>
    /\ todo' = [todo EXCEPT ![x] = Tail(@)]
    /\ UNCHANGED <<kernel, finished>>

\* A CTA that leaves a block has finished one more, the others as many.
LEMMA LeaveTodo ==
    ASSUME TypeOK, \A y \in CTAs : TodoInv(y), [Next]_vars,
           NEW x \in CTAs, Leaves(x)
    PROVE  /\ todo' \in [CTAs -> Seq(Int)]
           /\ \A y \in CTAs : TodoInv(y)'
           /\ Done(x)' = Done(x) + 1
           /\ \A y \in CTAs : y # x => Done(y)' = Done(y) /\ todo'[y] = todo[y]
  <1>1. /\ todo \in [CTAs -> Seq(Int)]
        /\ \A y : CB(y)' = CB(y)
        /\ kernel = "dq_dk_dv" /\ x \notin finished /\ todo[x] # <<>>
        /\ kernel' = kernel /\ finished' = finished
        /\ todo' = [todo EXCEPT ![x] = Tail(@)]
    BY SameCall DEF TypeOK, Leaves, Runs
  <1>2. /\ Tail(todo[x]) \in Seq(Int) /\ Len(todo[x]) \in Nat /\ Len(todo[x]) >= 1
        /\ Len(Tail(todo[x])) = Len(todo[x]) - 1
        /\ \A i \in 1 .. Len(todo[x]) - 1 : Tail(todo[x])[i] = todo[x][i + 1]
    <2>1. todo[x] \in Seq(Int) /\ todo[x] # <<>>
      BY <1>1
    <2> QED BY <2>1
  <1>3. todo'[x] = Tail(todo[x]) /\ \A y \in CTAs : y # x => todo'[y] = todo[y]
    BY <1>1
  <1>4. todo' \in [CTAs -> Seq(Int)]
    BY <1>1, <1>2
  <1>5. Len(CB(x)) \in Nat
    BY CBType
  <1>6. /\ Done(x) = Len(CB(x)) - Len(todo[x])
        /\ Done(x)' = Len(CB(x)) - Len(todo'[x])
    BY <1>1 DEF Done
  <1>7. Done(x)' = Done(x) + 1 /\ Done(x) \in Int
    <2>1. Len(todo'[x]) = Len(todo[x]) - 1
      BY <1>2, <1>3
    <2> QED BY <1>2, <1>5, <1>6, <2>1
  <1>8. \A y \in CTAs : y # x => Done(y)' = Done(y)
    BY <1>1, <1>3 DEF Done
  <1>9. \A y \in CTAs : TodoInv(y)'
    <2> TAKE y \in CTAs
    <2>1. CASE y # x
      <3>1. TodoInv(y)
        OBVIOUS
      <3>2. todo'[y] = todo[y] /\ Done(y)' = Done(y) /\ CB(y)' = CB(y)
        BY <1>1, <1>3, <1>8, <2>1
      <3> QED BY <1>1, <3>1, <3>2 DEF TodoInv
    <2>2. CASE y = x
      <3>1. /\ Len(todo[x]) <= Len(CB(x))
            /\ \A i \in 1 .. Len(todo[x]) : todo[x][i] = CB(x)[Done(x) + i]
        BY DEF TodoInv
      <3>2. Len(todo'[x]) <= Len(CB(x))
        BY <1>2, <1>3, <1>5, <3>1
      <3>3. \A i \in 1 .. Len(todo'[x]) : todo'[x][i] = CB(x)[Done(x)' + i]
        <4> TAKE i \in 1 .. Len(todo'[x])
        <4>1. i \in 1 .. Len(todo[x]) - 1 /\ i + 1 \in 1 .. Len(todo[x])
          BY <1>2, <1>3
        <4>2. todo'[x][i] = todo[x][i + 1]
          BY <1>2, <1>3, <4>1
        <4>3. todo[x][i + 1] = CB(x)[Done(x) + (i + 1)]
          BY <3>1, <4>1
        <4>4. Done(x) + (i + 1) = Done(x)' + i
          BY <1>2, <1>7, <4>1
        <4> QED BY <4>2, <4>3, <4>4
      <3>4. TodoInv(x)'
        BY <1>1, <3>2, <3>3 DEF TodoInv
      <3> QED BY <2>2, <3>4
    <2> QED BY <2>1, <2>2
  <1> QED BY <1>3, <1>4, <1>7, <1>8, <1>9

\* The buffers are right as long as no CTA has computed more tiles.
LEMMA AccumKept ==
    ASSUME \A b \in Buffers, m \in RowBlocks : AccumInv(b, m), [Next]_vars,
           UNCHANGED <<dPsum, dqAccum>>,
           \A m \in RowBlocks : \A x \in CTAs : \A j \in DOMAIN CB(x) :
               Visited(x, j, m)' <=> Visited(x, j, m)
    PROVE  (\A b \in Buffers, m \in RowBlocks : AccumInv(b, m))'
  <1>1. /\ CTAs' = CTAs /\ RowBlocks' = RowBlocks /\ Buffers' = Buffers
        /\ params' = params /\ \A x : CB(x)' = CB(x)
    BY SameCall
  <1> SUFFICES ASSUME NEW b \in Buffers, NEW m \in RowBlocks
               PROVE  AccumInv(b, m)'
    BY <1>1
  <1>2. Cleared(m)' <=> Cleared(m)
    BY <1>1 DEF Cleared
  <1>3. \A x : Buffer(x)' = Buffer(x)
    BY <1>1 DEF Buffer
  <1>4. AccumInv(b, m)
    OBVIOUS
  <1> QED BY <1>1, <1>2, <1>3, <1>4 DEF AccumInv

\* A CTA leaves a block only when the block has visited all its row blocks.
LEMMA LeaveVisited ==
    ASSUME TypeOK, \A y \in CTAs : TodoInv(y), [Next]_vars,
           NEW x \in CTAs, Leaves(x),
           acc' = [acc EXCEPT ![x] = <<>>], UNCHANGED m_block,
           NEW m \in RowBlocks,
           ~NoKeys(params, Block(x)) /\ MBlockMin(params, Block(x)) <= m
               /\ m < MBlockMax(params, Block(x)) => acc[x] # <<>> /\ m_block[x] < m,
           NEW y \in CTAs, NEW j \in DOMAIN CB(y)
    PROVE  Visited(y, j, m)' <=> Visited(y, j, m)
  <1>1. /\ acc \in [CTAs -> Seq([m : RowBlocks, checked : BOOLEAN])]
        /\ params' = params /\ CB(y)' = CB(y) /\ m_block' = m_block
    BY SameCall DEF TypeOK
  <1>2. CASE y # x
    <2>1. Done(y)' = Done(y) /\ acc'[y] = acc[y]
      BY <1>1, <1>2, LeaveTodo
    <2> QED BY <1>1, <2>1 DEF Visited
  <1>3. CASE y = x
    <2>1. acc'[x] = <<>>
      BY <1>1
    <2>2. Done(x)' = Done(x) + 1
      BY LeaveTodo
    <2>3. Done(x) \in Nat /\ Block(x) = CB(x)[Done(x) + 1]
      BY CurrentBlock DEF Leaves
    <2>4. j \in Nat
      BY CBType
    <2>5. Visited(x, j, m)' <=>
              /\ ~NoKeys(params, CB(x)[j])
              /\ MBlockMin(params, CB(x)[j]) <= m
              /\ m < MBlockMax(params, CB(x)[j])
              /\ j <= Done(x) + 1
      BY <1>1, <1>3, <2>1, <2>2 DEF Visited
    <2>6. Visited(x, j, m) <=>
              /\ ~NoKeys(params, CB(x)[j])
              /\ MBlockMin(params, CB(x)[j]) <= m
              /\ m < MBlockMax(params, CB(x)[j])
              /\ \/ j <= Done(x)
                 \/ j = Done(x) + 1 /\ acc[x] # <<>> /\ m_block[x] < m
      BY DEF Visited
    <2>7. CASE j = Done(x) + 1
      <3>1. CB(x)[j] = Block(x)
        BY <2>3, <2>7
      <3> QED BY <1>3, <2>3, <2>4, <2>5, <2>6, <2>7, <3>1
    <2>8. CASE j # Done(x) + 1
      <3>1. j <= Done(x) + 1 <=> j <= Done(x)
        BY <2>3, <2>4, <2>8
      <3> QED BY <1>3, <2>5, <2>6, <2>8, <3>1
    <2> QED BY <2>7, <2>8
  <1> QED BY <1>2, <1>3

\* What the other parts of the invariant need not to be disturbed.
LEMMA DQKept ==
    ASSUME \A r \in QueryRows : DQInv(r), [Next]_vars, UNCHANGED gdQ,
           \A r \in QueryRows : Converted(r)' <=> Converted(r)
    PROVE  (\A r \in QueryRows : DQInv(r))'
  <1>1. /\ QueryRows' = QueryRows /\ params' = params /\ KeyCols' = KeyCols
        /\ CTAs' = CTAs /\ \A x : CB(x)' = CB(x)
    BY SameCall
  <1>2. \A c : Owned(c)' <=> Owned(c)
    BY <1>1 DEF Owned
  <1> SUFFICES ASSUME NEW r \in QueryRows PROVE DQInv(r)'
    BY <1>1
  <1>3. DQInv(r) /\ (Converted(r)' <=> Converted(r))
    OBVIOUS
  <1>4. {c \in KeyCols : Attends(params, r, c) /\ Owned(c)}' =
            {c \in KeyCols : Attends(params, r, c) /\ Owned(c)}
    BY <1>1, <1>2
  <1> QED BY <1>1, <1>3, <1>4 DEF DQInv

\* dK and dV stay right while no block is finished.
LEMMA DKVKept ==
    ASSUME \A c \in KeyCols : DKVInv(c), [Next]_vars, UNCHANGED <<gdKV, todo>>
    PROVE  (\A c \in KeyCols : DKVInv(c))'
  <1>1. /\ KeyCols' = KeyCols /\ params' = params
        /\ CTAs' = CTAs /\ \A x : CB(x)' = CB(x)
    BY SameCall
  <1>2. \A c : Finished(c)' <=> Finished(c)
    BY <1>1 DEF Finished, Done
  <1> SUFFICES ASSUME NEW c \in KeyCols PROVE DKVInv(c)'
    BY <1>1
  <1>3. DKVInv(c)
    OBVIOUS
  <1> QED BY <1>1, <1>2, <1>3 DEF DKVInv

\* Leaving a block keeps the invariant if it stores the right gradient.
LEMMA LeaveKeeps ==
    ASSUME IInv, [Next]_vars, NEW x \in CTAs, Leaves(x),
           acc' = [acc EXCEPT ![x] = <<>>],
           UNCHANGED <<dPsum, dqAccum, m_block, gdQ>>,
           \A m \in RowBlocks :
               ~NoKeys(params, Block(x)) /\ MBlockMin(params, Block(x)) <= m
               /\ m < MBlockMax(params, Block(x)) => acc[x] # <<>> /\ m_block[x] < m,
           gdKV' \in [KeyCols -> SUBSET Int],
           \A c \in KeyCols :
               gdKV'[c] = IF c \in TileCols(Block(x)) /\ c < params.sk
                          THEN {r \in 0 .. params.sq - 1 : Attends(params, r, c)}
                          ELSE gdKV[c]
    PROVE  IInv'
  <1>1. /\ TypeOK /\ PsumInv /\ \A y \in CTAs : TodoInv(y)
        /\ \A y \in CTAs : AccInv(y)
        /\ \A b \in Buffers, m \in RowBlocks : AccumInv(b, m)
        /\ \A c \in KeyCols : DKVInv(c)
        /\ \A r \in QueryRows : DQInv(r)
    BY DEF IInv
  <1>2. /\ arg' = arg /\ params' = params /\ CTAs' = CTAs /\ RowBlocks' = RowBlocks
        /\ Buffers' = Buffers /\ QueryRows' = QueryRows /\ KeyCols' = KeyCols
        /\ \A y : CB(y)' = CB(y)
    BY SameCall
  <1>3. kernel = "dq_dk_dv" /\ kernel' = kernel /\ finished' = finished
    BY DEF Leaves, Runs
  <1>4. /\ todo' \in [CTAs -> Seq(Int)] /\ \A y \in CTAs : TodoInv(y)'
        /\ Done(x)' = Done(x) + 1
        /\ \A y \in CTAs : y # x => Done(y)' = Done(y) /\ todo'[y] = todo[y]
    BY <1>1, LeaveTodo
  <1>5. acc'[x] = <<>> /\ \A y \in CTAs : y # x => acc'[y] = acc[y]
    BY <1>1 DEF TypeOK
  <1>6. TypeOK'
    <2>1. acc' \in [CTAs -> Seq([m : RowBlocks, checked : BOOLEAN])]
      <3> DEFINE R == [m : RowBlocks, checked : BOOLEAN]
      <3>1. acc \in [CTAs -> Seq(R)]
        BY <1>1 DEF TypeOK
      <3> HIDE DEF R
      <3>2. <<>> \in Seq(R)
        OBVIOUS
      <3>3. acc' \in [CTAs -> Seq(R)]
        BY <3>1, <3>2
      <3> QED BY <3>3 DEF R
    <2>2. /\ (arg \in Args)' /\ (params = BwdParams(arg))'
          /\ (kernel \in {"dot_do_o", "dq_dk_dv", "convert_dq", "returned"})'
          /\ (finished \in SUBSET Nat)'
      BY <1>1, <1>2, <1>3 DEF TypeOK
    <2>3. /\ (dPsum \in SUBSET RowBlocks)'
          /\ (dqAccum \in [Buffers -> [RowBlocks -> Seq(Int)]])'
          /\ (m_block \in [CTAs -> Int])'
          /\ (gdQ \in [QueryRows -> SUBSET Int])'
      BY <1>1, <1>2 DEF TypeOK
    <2> QED BY <1>2, <1>4, <2>1, <2>2, <2>3 DEF TypeOK
  <1>7. PsumInv'
    BY <1>1, <1>2, <1>3 DEF PsumInv, HasRows
  <1>8. (\A y \in CTAs : TodoInv(y))'
    BY <1>2, <1>4
  <1>9. (\A y \in CTAs : AccInv(y))'
    <2> SUFFICES ASSUME NEW y \in CTAs PROVE AccInv(y)'
      BY <1>2
    <2>1. CASE y = x
      BY <1>5, <2>1 DEF AccInv
    <2>2. CASE y # x
      <3>1. Block(y)' = Block(y) /\ todo'[y] = todo[y] /\ acc'[y] = acc[y]
        BY <1>4, <1>5, <2>2 DEF Block
      <3>2. AccInv(y)
        BY <1>1
      <3> QED BY <1>2, <1>3, <3>1, <3>2 DEF AccInv
    <2> QED BY <2>1, <2>2
  <1>10. (\A b \in Buffers, m \in RowBlocks : AccumInv(b, m))'
    <2>1. \A m \in RowBlocks : \A y \in CTAs : \A j \in DOMAIN CB(y) :
              Visited(y, j, m)' <=> Visited(y, j, m)
      BY <1>1, LeaveVisited
    <2> QED BY <1>1, <2>1, AccumKept
  <1>11. (\A c \in KeyCols : DKVInv(c))'
    <2> SUFFICES ASSUME NEW c \in KeyCols PROVE DKVInv(c)'
      BY <1>2
    <2>1. /\ Done(x) \in Nat /\ Done(x) + 1 \in DOMAIN CB(x)
          /\ Block(x) = CB(x)[Done(x) + 1]
      BY <1>1, CurrentBlock DEF Leaves
    <2>2. Finished(c)' <=> Finished(c) \/ c \in TileCols(Block(x))
      <3>1. ASSUME NEW y \in CTAs, NEW j \in DOMAIN CB(y)
            PROVE  j <= Done(y)' <=> j <= Done(y) \/ (y = x /\ j = Done(x) + 1)
        <4>1. j \in Nat
          BY <1>1, CBType
        <4>2. CASE y = x
          BY <1>4, <2>1, <4>1, <4>2
        <4>3. CASE y # x
          BY <1>4, <4>3
        <4> QED BY <4>2, <4>3
      <3>2. Finished(c)' <=> \E y \in CTAs : \E j \in DOMAIN CB(y) :
                                 j <= Done(y)' /\ c \in TileCols(CB(y)[j])
        BY <1>2 DEF Finished
      <3> QED BY <2>1, <3>1, <3>2 DEF Finished
    <2>3. DKVInv(c)
      BY <1>1
    <2>4. gdKV'[c] = IF c \in TileCols(Block(x)) /\ c < params.sk
                     THEN {r \in 0 .. params.sq - 1 : Attends(params, r, c)}
                     ELSE gdKV[c]
      OBVIOUS
    <2>5. CASE c \in TileCols(Block(x)) /\ c < params.sk
      BY <1>2, <2>2, <2>4, <2>5 DEF DKVInv
    <2>6. CASE ~(c \in TileCols(Block(x)) /\ c < params.sk)
      BY <1>2, <2>2, <2>3, <2>4, <2>6 DEF DKVInv
    <2> QED BY <2>5, <2>6
  <1>12. (\A r \in QueryRows : DQInv(r))'
    <2>1. \A r \in QueryRows : Converted(r)' <=> Converted(r)
      BY <1>3 DEF Converted
    <2> QED BY <1>1, <2>1, DQKept
  <1> QED BY <1>6, <1>7, <1>8, <1>9, <1>10, <1>11, <1>12 DEF IInv

\* A predicated store writes the columns of the sequence.
LEMMA StoredExact ==
    ASSUME TypeOK, NEW n \in 0 .. params.nblocks - 1, NEW c
    PROVE  c \in Stored(n) <=> c \in TileCols(n) /\ c < params.sk
  <1>1. /\ n \in Nat /\ params.nblocks \in Nat /\ params.sk \in Nat
        /\ params.even => params.sk = kBlockN * params.nblocks
    BY Setting DEF IsBwdParams
  <1>2. ASSUME params.even, c \in TileCols(n)
        PROVE  c < params.sk
    <2>1. kBlockN * (n + 1) <= kBlockN * params.nblocks
      <3>1. n + 1 \in Int /\ params.nblocks \in Int /\ n + 1 <= params.nblocks
        BY <1>1
      <3> QED BY <3>1, MulMono, BwdBlockAssumption
    <2>2. kBlockN * (n + 1) = (n + 1) * kBlockN /\ (n + 1) * kBlockN \in Int
      BY <1>1, BwdBlockAssumption
    <2>3. c < (n + 1) * kBlockN /\ c \in Int
      BY <1>1, <1>2, <2>2, BwdBlockAssumption DEF TileCols
    <2> QED BY <1>1, <1>2, <2>1, <2>2, <2>3
  <1> QED BY <1>2 DEF Stored

\* A block past the keys has nothing to store.
LEMMA SkipKeeps ==
    ASSUME IInv, [Next]_vars, NEW x \in CTAs, Skip(x)
    PROVE  IInv'
  <1>1. TypeOK /\ TodoInv(x)
    BY DEF IInv
  <1>2. /\ Leaves(x) /\ acc[x] = <<>> /\ NoKeys(params, Block(x))
        /\ UNCHANGED <<dPsum, dqAccum, m_block, acc, gdKV, gdQ>>
    BY DEF Skip, Idle, Leaves
  <1>3. acc' = [acc EXCEPT ![x] = <<>>]
    BY <1>1, <1>2 DEF TypeOK
  <1>4. gdKV' \in [KeyCols -> SUBSET Int]
    BY <1>1, <1>2 DEF TypeOK
  <1>5. \A c \in KeyCols : ~(c \in TileCols(Block(x)) /\ c < params.sk)
    <2>1. Block(x) \in Nat
      BY <1>1, <1>2, CurrentBlock DEF Leaves
    <2>2. params.sk \in Nat
      BY <1>1, Setting DEF IsBwdParams
    <2>3. params.sk <= Block(x) * kBlockN
      BY <1>2, <2>1, <2>2, BwdBlockAssumption DEF NoKeys
    <2> QED BY <2>1, <2>2, <2>3, BwdBlockAssumption DEF TileCols
  <1> QED BY <1>2, <1>3, <1>4, <1>5, LeaveKeeps

\* A block whose loop is empty is attended by no row: zero is right.
LEMMA StoreZeroKeeps ==
    ASSUME IInv, [Next]_vars, NEW x \in CTAs, StoreZero(x)
    PROVE  IInv'
  <1> DEFINE n == Block(x)
  <1>1. TypeOK /\ TodoInv(x)
    BY DEF IInv
  <1>2. /\ Leaves(x) /\ acc[x] = <<>> /\ NoQueries(params, n)
        /\ UNCHANGED <<dPsum, dqAccum, m_block, acc, gdQ>>
        /\ gdKV' = [c \in KeyCols |-> IF c \in Stored(n) THEN {} ELSE gdKV[c]]
    BY DEF StoreZero, Idle, Leaves
  <1>3. acc' = [acc EXCEPT ![x] = <<>>]
    BY <1>1, <1>2 DEF TypeOK
  <1>4. gdKV' \in [KeyCols -> SUBSET Int]
    BY <1>1, <1>2 DEF TypeOK
  <1>5. n \in 0 .. params.nblocks - 1 /\ n \in Nat
    BY <1>1, <1>2, CurrentBlock DEF Leaves
  <1>6. MBlockMin(params, n) \in Nat /\ MBlockMax(params, n) \in Int
        /\ MBlockMax(params, n) - 1 < MBlockMin(params, n)
    BY <1>1, <1>2, <1>5, Setting, MBlockType DEF NoQueries
  <1> HIDE DEF n
  <1>7. ASSUME NEW c \in TileCols(n)
        PROVE  {r \in 0 .. params.sq - 1 : Attends(params, r, c)} = {}
    <2> SUFFICES ASSUME NEW r \in 0 .. params.sq - 1, Attends(params, r, c)
                 PROVE  FALSE
      OBVIOUS
    <2>1. /\ MBlockMin(params, n) <= r \div kBlockM
          /\ r \div kBlockM < MBlockMax(params, n)
          /\ r \div kBlockM \in Nat
      BY <1>1, <1>5, Setting, AttendedRowBlocks
    <2> QED BY <1>6, <2>1
  <1>8. \A c \in KeyCols :
            gdKV'[c] = IF c \in TileCols(n) /\ c < params.sk
                       THEN {r \in 0 .. params.sq - 1 : Attends(params, r, c)}
                       ELSE gdKV[c]
    <2> TAKE c \in KeyCols
    <2>1. gdKV'[c] = IF c \in TileCols(n) /\ c < params.sk THEN {} ELSE gdKV[c]
      BY <1>1, <1>2, <1>5, StoredExact
    <2> QED BY <1>7, <2>1
  <1>9. \A m \in RowBlocks :
            ~NoKeys(params, n) /\ MBlockMin(params, n) <= m
            /\ m < MBlockMax(params, n) => acc[x] # <<>> /\ m_block[x] < m
    <2>1. RowBlocks \subseteq Nat
      BY <1>1, RowBlocksType
    <2> QED BY <1>6, <2>1
  <1> QED BY <1>2, <1>3, <1>4, <1>8, <1>9, LeaveKeeps DEF n

\* Where the loads of a visit were not checked, its row block lies within the
\* queries; the row block exists.
LEMMA VisitInBounds ==
    ASSUME TypeOK, NEW x \in CTAs, TodoInv(x), AccInv(x), NEW i \in DOMAIN acc[x]
    PROVE  /\ acc[x][i].m \in RowBlocks /\ acc[x][i].m \in Nat
           /\ acc[x][i].m = MBlockMax(params, Block(x)) - i /\ i \in Nat \ {0}
           /\ MBlockMin(params, Block(x)) <= acc[x][i].m
           /\ acc[x][i].checked \/ (acc[x][i].m + 1) * kBlockM <= params.sq
           /\ HasRows(acc[x][i].m)
  <1> DEFINE n == Block(x)
             m == acc[x][i].m
             hi == MBlockMax(params, n)
             lo == MBlockMin(params, n)
  <1>1. /\ acc[x][i] \in [m : RowBlocks, checked : BOOLEAN]
        /\ acc[x] # <<>> /\ Len(acc[x]) \in Nat /\ i \in 1 .. Len(acc[x])
    <2> DEFINE R == [m : RowBlocks, checked : BOOLEAN]
    <2>1. acc[x] \in Seq(R)
      BY DEF TypeOK
    <2> HIDE DEF R
    <2>2. acc[x][i] \in R /\ acc[x] # <<>>
      BY <2>1
    <2>3. Len(acc[x]) \in Nat /\ i \in 1 .. Len(acc[x])
      BY <2>1
    <2> QED BY <2>2, <2>3 DEF R
  <1>2. m_block[x] \in Int
    BY DEF TypeOK
  <1>3. /\ todo[x] # <<>>
        /\ m_block[x] = hi - 1 - Len(acc[x])
        /\ m_block[x] >= lo - 1
        /\ m = hi - i
    BY <1>1 DEF AccInv
  <1>4. acc[x][i].checked <=> i = 1 /\ ~params.even
    BY <1>1 DEF AccInv
  <1>5. n \in Nat /\ hi \in Int /\ lo \in Nat /\ IsBwdParams(params)
    BY <1>3, CurrentBlock, Setting, MBlockType
  <1>6. m \in RowBlocks
    BY <1>1
  <1>7. m \in Nat
    BY <1>6, RowBlocksType
  <1> HIDE DEF n, m, hi, lo
  <1>8. lo <= m /\ m < hi
    BY <1>1, <1>3, <1>5, <1>7, <1>2
  <1>9. /\ m * kBlockM < params.sq
        /\ m < hi - 1 \/ params.even => (m + 1) * kBlockM <= params.sq
    BY <1>5, <1>7, <1>8, RowBlockInBounds DEF hi
  <1>10. acc[x][i].checked \/ (m + 1) * kBlockM <= params.sq
    <2>1. i # 1 => m < hi - 1
      BY <1>1, <1>3, <1>5
    <2>2. params.even \in BOOLEAN
      BY <1>5 DEF IsBwdParams
    <2> QED BY <1>9, <1>4, <2>1, <2>2
  <1>11. HasRows(m)
    BY <1>9 DEF HasRows
  <1>12. i \in Nat \ {0}
    BY <1>1
  <1> QED BY <1>3, <1>6, <1>7, <1>8, <1>10, <1>11, <1>12 DEF m, n, hi, lo

\* The visits of a block together see every row that attends it.
LEMMA StoreKVKeeps ==
    ASSUME IInv, [Next]_vars, NEW x \in CTAs, StoreKV(x)
    PROVE  IInv'
  <1> DEFINE n == Block(x)
             folded(c) == UNION {RowsFor(params, acc[x][i], n, c) :
                                 i \in DOMAIN acc[x]}
             attending(c) == {r \in 0 .. params.sq - 1 : Attends(params, r, c)}
  <1>1. TypeOK /\ TodoInv(x) /\ AccInv(x)
    BY DEF IInv
  <1>2. /\ Runs(x) /\ acc[x] # <<>> /\ m_block[x] < MBlockMin(params, n)
        /\ todo' = [todo EXCEPT ![x] = Tail(@)]
        /\ acc' = [acc EXCEPT ![x] = <<>>]
        /\ UNCHANGED <<kernel, finished, dPsum, dqAccum, m_block, gdQ>>
        /\ gdKV' = [c \in KeyCols |-> IF c \in Stored(n) THEN folded(c)
                                      ELSE gdKV[c]]
    BY DEF StoreKV
  <1>3. Leaves(x)
    <2>1. todo[x] # <<>>
      BY <1>1, <1>2 DEF AccInv
    <2> QED BY <1>2, <2>1 DEF Leaves
  <1>4. n \in 0 .. params.nblocks - 1 /\ n \in Nat /\ IsBwdParams(params)
    BY <1>1, <1>3, CurrentBlock, Setting DEF Leaves
  <1>5. MBlockMin(params, n) \in Nat /\ MBlockMax(params, n) \in Int
        /\ m_block[x] \in Int /\ params.sq \in Nat
    BY <1>1, <1>4, MBlockType DEF TypeOK, IsBwdParams
  <1>6. /\ m_block[x] = MBlockMax(params, n) - 1 - Len(acc[x])
        /\ m_block[x] >= MBlockMin(params, n) - 1
        /\ Len(acc[x]) \in Nat /\ DOMAIN acc[x] = 1 .. Len(acc[x])
    BY <1>1, <1>2 DEF AccInv, TypeOK
  <1> HIDE DEF n
  <1>7. Len(acc[x]) = MBlockMax(params, n) - MBlockMin(params, n)
    BY <1>2, <1>5, <1>6
  <1>8. ASSUME NEW c \in TileCols(n)
        PROVE  folded(c) = attending(c)
    <2>1. ASSUME NEW i \in DOMAIN acc[x]
          PROVE  RowsFor(params, acc[x][i], n, c) =
                     {r \in 0 .. params.sq - 1 :
                          r \in TileRows(acc[x][i].m) /\ Attends(params, r, c)}
      <3>1. /\ acc[x][i].m \in Nat
            /\ acc[x][i].checked \/ (acc[x][i].m + 1) * kBlockM <= params.sq
        BY <1>1, VisitInBounds
      <3> QED BY <1>4, <3>1, RowsForExact
    <2>2. folded(c) \subseteq attending(c)
      BY <2>1
    <2>3. ASSUME NEW r \in attending(c)
          PROVE  r \in folded(c)
      <3> DEFINE q == r \div kBlockM
                 i == MBlockMax(params, n) - q
      <3>1. /\ MBlockMin(params, n) <= q /\ q < MBlockMax(params, n) /\ q \in Nat
            /\ r \in 0 .. params.sq - 1 /\ Attends(params, r, c) /\ r \in Int
        BY <1>4, <1>5, AttendedRowBlocks
      <3>2. r \in TileRows(q)
        BY <3>1, RowTile
      <3> HIDE DEF q
      <3>3. i \in DOMAIN acc[x] /\ MBlockMax(params, n) - i = q
        BY <1>5, <1>6, <1>7, <3>1
      <3> HIDE DEF i
      <3>4. acc[x][i].m = q
        BY <1>1, <3>3, VisitInBounds DEF n
      <3>5. r \in RowsFor(params, acc[x][i], n, c)
        BY <2>1, <3>1, <3>2, <3>3, <3>4
      <3> QED BY <3>3, <3>5
    <2> QED BY <2>2, <2>3
  <1>9. \A c \in KeyCols :
            gdKV'[c] = IF c \in TileCols(n) /\ c < params.sk
                       THEN attending(c) ELSE gdKV[c]
    <2> TAKE c \in KeyCols
    <2>1. gdKV'[c] = IF c \in TileCols(n) /\ c < params.sk THEN folded(c) ELSE gdKV[c]
      <3> HIDE DEF folded
      <3> QED BY <1>1, <1>2, <1>4, StoredExact
    <2> QED BY <1>8, <2>1
  <1>10. gdKV' \in [KeyCols -> SUBSET Int]
    <2>1. \A c \in KeyCols : attending(c) \subseteq Int /\ gdKV[c] \subseteq Int
      BY <1>1, <1>5 DEF TypeOK
    <2>2. DOMAIN gdKV' = KeyCols /\ gdKV' = [c \in KeyCols |-> gdKV'[c]]
      <3> HIDE DEF folded
      <3> QED BY <1>2
    <2>3. \A c \in KeyCols : gdKV'[c] \subseteq Int
      <3> HIDE DEF attending
      <3> QED BY <1>9, <2>1
    <2> QED BY <2>2, <2>3
  <1>11. \A m \in RowBlocks :
            ~NoKeys(params, n) /\ MBlockMin(params, n) <= m
            /\ m < MBlockMax(params, n) => acc[x] # <<>> /\ m_block[x] < m
    <2>1. RowBlocks \subseteq Nat
      BY <1>1, RowBlocksType
    <2> QED BY <1>2, <1>5, <2>1
  <1> QED BY <1>2, <1>3, <1>9, <1>10, <1>11, LeaveKeeps DEF n

-----------------------------------------------------------------------------
(* A CTA computes a tile: FirstTile and NextTile *)

\* A tile adds the current block, which no buffer holds yet, to one row block.
LEMMA TileKeeps ==
    ASSUME IInv, [Next]_vars, NEW x \in CTAs, NEW m \in Int, NEW checked \in BOOLEAN,
           Runs(x), todo[x] # <<>>,
           ~NoKeys(params, Block(x)), ~NoQueries(params, Block(x)),
           Tile(x, m, checked),
           m = MBlockMax(params, Block(x)) - 1 - Len(acc[x]),
           m >= MBlockMin(params, Block(x)),
           checked <=> (acc[x] = <<>> /\ ~params.even),
           acc[x] # <<>> => m = m_block[x]
    PROVE  IInv'
  <1> DEFINE n == Block(x)
             v == [m |-> m, checked |-> checked]
             R == [m : RowBlocks, checked : BOOLEAN]
             b0 == Buffer(x)
  <1>1. /\ TypeOK /\ PsumInv /\ \A y \in CTAs : TodoInv(y)
        /\ \A y \in CTAs : AccInv(y)
        /\ \A b \in Buffers, k \in RowBlocks : AccumInv(b, k)
        /\ \A c \in KeyCols : DKVInv(c)
        /\ \A r \in QueryRows : DQInv(r)
    BY DEF IInv
  <1>2. /\ arg' = arg /\ params' = params /\ CTAs' = CTAs /\ RowBlocks' = RowBlocks
        /\ Buffers' = Buffers /\ QueryRows' = QueryRows /\ KeyCols' = KeyCols
        /\ \A y : CB(y)' = CB(y)
    BY SameCall
  <1>3. /\ kernel = "dq_dk_dv"
        /\ UNCHANGED <<kernel, finished, dPsum, todo, gdKV, gdQ>>
        /\ acc' = [acc EXCEPT ![x] = Append(@, v)]
        /\ dqAccum' = [dqAccum EXCEPT ![b0][m] = Append(@, n)]
        /\ m_block' = [m_block EXCEPT ![x] = m - 1]
    BY DEF Tile, Runs
  <1>4. /\ n \in Nat /\ n \in 0 .. params.nblocks - 1 /\ IsBwdParams(params)
        /\ Done(x) \in Nat /\ Done(x) + 1 \in DOMAIN CB(x)
        /\ n = CB(x)[Done(x) + 1]
    BY <1>1, CurrentBlock, Setting
  <1>5. /\ acc \in [CTAs -> Seq(R)] /\ m_block \in [CTAs -> Int]
        /\ dqAccum \in [Buffers -> [RowBlocks -> Seq(Int)]]
        /\ acc[x] \in Seq(R)
    BY <1>1 DEF TypeOK
  <1> HIDE DEF R
  <1>6. Len(acc[x]) \in Nat
    BY <1>5
  <1>7. MBlockMin(params, n) \in Nat /\ MBlockMax(params, n) \in Int
    BY <1>4, MBlockType
  <1>8. m \in Nat /\ m < MBlockMax(params, n)
    BY <1>6, <1>7
  <1>9. m * kBlockM < params.sq
    BY <1>4, <1>8, RowBlockInBounds
  <1>10. m \in RowBlocks
    BY <1>1, <1>8, <1>9, RowBlocksType
  <1>11. v \in R
    BY <1>10 DEF R
  <1>12. b0 \in Buffers
    BY DEF Buffer, Buffers
  <1>13. Cleared(m)
    BY <1>1, <1>3, <1>9, <1>10 DEF Cleared, PsumInv, HasRows
  <1> HIDE DEF n, v, b0
  <1>14. /\ acc'[x] = Append(acc[x], v) /\ acc'[x] \in Seq(R) /\ acc'[x] # <<>>
         /\ Len(acc'[x]) = Len(acc[x]) + 1
         /\ \A i \in 1 .. Len(acc[x]) : acc'[x][i] = acc[x][i]
         /\ acc'[x][Len(acc[x]) + 1] = v
    <2>1. acc'[x] = Append(acc[x], v)
      BY <1>3, <1>5
    <2> QED BY <1>5, <1>11, <2>1
  <1>15. m_block'[x] = m - 1
    BY <1>3, <1>5
  <1>16. \A y \in CTAs : y # x => acc'[y] = acc[y] /\ m_block'[y] = m_block[y]
    BY <1>3, <1>5
  <1>17. TypeOK'
    <2>1. acc' \in [CTAs -> Seq(R)]
      <3>1. Append(acc[x], v) \in Seq(R)
        BY <1>5, <1>11
      <3> QED BY <1>3, <1>5, <3>1
    <2>2. dqAccum' \in [Buffers -> [RowBlocks -> Seq(Int)]]
      <3>1. Append(dqAccum[b0][m], n) \in Seq(Int)
        <4>1. dqAccum[b0][m] \in Seq(Int) /\ n \in Int
          BY <1>4, <1>5, <1>10, <1>12
        <4> QED BY <4>1
      <3>2. [dqAccum[b0] EXCEPT ![m] = Append(@, n)] \in [RowBlocks -> Seq(Int)]
        BY <1>5, <1>12, <3>1
      <3> QED BY <1>3, <1>5, <3>2
    <2>3. m_block' \in [CTAs -> Int]
      BY <1>3, <1>5
    <2>4. /\ (arg \in Args)' /\ (params = BwdParams(arg))'
          /\ (kernel \in {"dot_do_o", "dq_dk_dv", "convert_dq", "returned"})'
          /\ (finished \in SUBSET Nat)'
      BY <1>1, <1>2, <1>3 DEF TypeOK
    <2>5. /\ (dPsum \in SUBSET RowBlocks)' /\ (todo \in [CTAs -> Seq(Int)])'
          /\ (gdKV \in [KeyCols -> SUBSET Int])' /\ (gdQ \in [QueryRows -> SUBSET Int])'
      BY <1>1, <1>2, <1>3 DEF TypeOK
    <2> QED BY <1>2, <2>1, <2>2, <2>3, <2>4, <2>5 DEF TypeOK, R
  <1>18. PsumInv'
    BY <1>1, <1>2, <1>3 DEF PsumInv, HasRows
  <1>19. \A y \in CTAs : Done(y)' = Done(y) /\ Block(y)' = Block(y)
    BY <1>2, <1>3 DEF Done, Block
  <1>20. (\A y \in CTAs : TodoInv(y))'
    <2> SUFFICES ASSUME NEW y \in CTAs PROVE TodoInv(y)'
      BY <1>2
    <2>1. TodoInv(y)
      BY <1>1
    <2> QED BY <1>2, <1>3, <1>19, <2>1 DEF TodoInv
  <1>21. (\A y \in CTAs : AccInv(y))'
    <2> SUFFICES ASSUME NEW y \in CTAs PROVE AccInv(y)'
      BY <1>2
    <2>1. CASE y # x
      <3>1. AccInv(y)
        BY <1>1
      <3> QED BY <1>2, <1>3, <1>16, <1>19, <2>1, <3>1 DEF AccInv
    <2>2. CASE y = x
      <3>1. m_block'[x] = MBlockMax(params, n) - 1 - Len(acc'[x])
        BY <1>6, <1>7, <1>14, <1>15 DEF n
      <3>2. m_block'[x] >= MBlockMin(params, n) - 1
        BY <1>7, <1>15 DEF n
      <3>3. ASSUME NEW i \in 1 .. Len(acc'[x])
            PROVE  /\ acc'[x][i].m = MBlockMax(params, n) - i
                   /\ acc'[x][i].checked = (i = 1 /\ ~params.even)
        <4>1. CASE i = Len(acc[x]) + 1
          <5>1. acc'[x][i] = v
            BY <1>14, <4>1
          <5>2. v.m = MBlockMax(params, n) - i
            BY <1>6, <1>7, <4>1 DEF v, n
          <5>3. i = 1 <=> acc[x] = <<>>
            BY <1>5, <1>6, <4>1
          <5>4. v.checked = (i = 1 /\ ~params.even)
            <6>1. checked <=> (i = 1 /\ ~params.even)
              BY <5>3
            <6> QED BY <6>1 DEF v
          <5> QED BY <5>1, <5>2, <5>4
        <4>2. CASE i # Len(acc[x]) + 1
          <5>1. i \in 1 .. Len(acc[x])
            BY <1>6, <1>14, <4>2
          <5>2. acc[x] # <<>>
            BY <1>5, <5>1
          <5>3. /\ acc[x][i].m = MBlockMax(params, n) - i
                /\ acc[x][i].checked = (i = 1 /\ ~params.even)
            BY <1>1, <5>1, <5>2 DEF AccInv, n
          <5> QED BY <1>14, <5>1, <5>3
        <4> QED BY <4>1, <4>2
      <3>4. AccInv(x)'
        BY <1>2, <1>3, <1>19, <3>1, <3>2, <3>3 DEF AccInv, n
      <3> QED BY <2>2, <3>4
    <2> QED BY <2>1, <2>2
  <1>22. ASSUME NEW k \in RowBlocks, NEW y \in CTAs, NEW j \in DOMAIN CB(y)
         PROVE  Visited(y, j, k)' <=>
                    Visited(y, j, k) \/ (y = x /\ j = Done(x) + 1 /\ k = m)
    <2>1. CASE y # x
      BY <1>2, <1>16, <1>19, <2>1 DEF Visited
    <2>2. CASE y = x /\ j # Done(x) + 1
      BY <1>2, <1>19, <2>2 DEF Visited
    <2>3. CASE y = x /\ j = Done(x) + 1
      <3>1. CB(x)[j] = n /\ ~(j <= Done(x)) /\ ~NoKeys(params, n)
        BY <1>4, <2>3 DEF n
      <3>2. k \in Nat
        BY <1>1, RowBlocksType
      <3>3. Visited(x, j, k)' <=> MBlockMin(params, n) <= k
                                  /\ k < MBlockMax(params, n) /\ m - 1 < k
        BY <1>2, <1>14, <1>15, <1>19, <2>3, <3>1 DEF Visited
      <3>4. Visited(x, j, k) <=> MBlockMin(params, n) <= k
                                 /\ k < MBlockMax(params, n)
                                 /\ acc[x] # <<>> /\ m_block[x] < k
        BY <2>3, <3>1 DEF Visited
      <3>5. CASE acc[x] = <<>>
        <4>1. m = MBlockMax(params, n) - 1
          BY <1>7, <3>5 DEF n
        <4>2. MBlockMin(params, n) <= m
          BY DEF n
        <4> QED BY <1>7, <2>3, <3>2, <3>3, <3>4, <3>5, <4>1, <4>2
      <3>6. CASE acc[x] # <<>>
        <4>1. m = m_block[x] /\ MBlockMin(params, n) <= m
          BY <3>6 DEF n
        <4> QED BY <1>7, <1>8, <2>3, <3>2, <3>3, <3>4, <3>6, <4>1
      <3> QED BY <3>5, <3>6
    <2> QED BY <2>1, <2>2, <2>3
  <1>23. ~Visited(x, Done(x) + 1, m)
    BY <1>4, <1>8 DEF Visited
  <1>24. (\A b \in Buffers, k \in RowBlocks : AccumInv(b, k))'
    <2> SUFFICES ASSUME NEW b \in Buffers, NEW k \in RowBlocks
                 PROVE  AccumInv(b, k)'
      BY <1>2
    <2>1. AccumInv(b, k)
      BY <1>1
    <2>2. /\ Cleared(k)' <=> Cleared(k)
          /\ \A y : Buffer(y)' = Buffer(y)
      BY <1>2, <1>3 DEF Cleared, Buffer
    <2>3. CASE ~(b = b0 /\ k = m)
      <3>1. dqAccum'[b][k] = dqAccum[b][k]
        BY <1>3, <1>5, <2>3
      <3>2. \A y \in CTAs : \A j \in DOMAIN CB(y) :
                Buffer(y) = b => (Visited(y, j, k)' <=> Visited(y, j, k))
        BY <1>22, <2>3 DEF b0
      <3> DEFINE s == dqAccum[b][k]
      <3>3. ~Cleared(k) => s = Garbage
        BY <2>1 DEF AccumInv
      <3>4. \A i, j \in DOMAIN s : s[i] = s[j] => i = j
        BY <2>1 DEF AccumInv
      <3>5. Cleared(k) => \A i \in DOMAIN s : \E y \in CTAs : \E j \in DOMAIN CB(y) :
                Buffer(y) = b /\ s[i] = CB(y)[j] /\ Visited(y, j, k)'
        BY <2>1, <3>2 DEF AccumInv
      <3>6. Cleared(k) => \A y \in CTAs : \A j \in DOMAIN CB(y) :
                Buffer(y) = b /\ Visited(y, j, k)' => \E i \in DOMAIN s : s[i] = CB(y)[j]
        BY <2>1, <3>2 DEF AccumInv
      <3> HIDE DEF s
      <3> QED BY <1>2, <2>2, <3>1, <3>3, <3>4, <3>5, <3>6 DEF AccumInv, s
    <2>4. CASE b = b0 /\ k = m
      <3> DEFINE s == dqAccum[b0][m]
                 t == Append(s, n)
      <3>1. dqAccum'[b][k] = t
        BY <1>3, <1>5, <1>10, <1>12, <2>4
      <3>2. s \in Seq(Int) /\ Len(s) \in Nat /\ DOMAIN s = 1 .. Len(s)
        BY <1>5, <1>10, <1>12
      <3> HIDE DEF s
      <3>3. /\ DOMAIN t = 1 .. Len(s) + 1 /\ t[Len(s) + 1] = n
            /\ \A i \in DOMAIN s : i \in DOMAIN t /\ t[i] = s[i]
        BY <3>2
      <3> HIDE DEF t
      <3>4. \A i \in DOMAIN s : \E y \in CTAs : \E j \in DOMAIN CB(y) :
                Buffer(y) = b0 /\ s[i] = CB(y)[j] /\ Visited(y, j, m)
        BY <1>13, <2>1, <2>4 DEF AccumInv, s
      <3>5. \A y \in CTAs : \A j \in DOMAIN CB(y) :
                Buffer(y) = b0 /\ Visited(y, j, m) => \E i \in DOMAIN s : s[i] = CB(y)[j]
        BY <1>13, <2>1, <2>4 DEF AccumInv, s
      <3>6. \A i \in DOMAIN s : s[i] # n
        <4> SUFFICES ASSUME NEW i \in DOMAIN s, s[i] = n PROVE FALSE
          OBVIOUS
        <4>1. PICK y \in CTAs :
                  \E j \in DOMAIN CB(y) : s[i] = CB(y)[j] /\ Visited(y, j, m)
          BY <3>4
        <4>2. PICK j \in DOMAIN CB(y) : s[i] = CB(y)[j] /\ Visited(y, j, m)
          BY <4>1
        <4>3. y = x /\ j = Done(x) + 1
          BY <1>1, <1>4, <4>2, CBDisjoint
        <4> QED BY <1>23, <4>2, <4>3
      <3>7. \A i, j \in DOMAIN t : t[i] = t[j] => i = j
        <4>1. \A i, j \in DOMAIN s : s[i] = s[j] => i = j
          BY <2>1, <2>4 DEF AccumInv, s
        <4>2. \A i \in DOMAIN t : i \in DOMAIN s \/ i = Len(s) + 1
          BY <3>2, <3>3
        <4> QED BY <3>3, <3>6, <4>1, <4>2
      <3>8. ASSUME NEW i \in DOMAIN t
            PROVE  \E y \in CTAs : \E j \in DOMAIN CB(y) :
                       Buffer(y) = b0 /\ t[i] = CB(y)[j] /\ Visited(y, j, m)'
        <4>1. CASE i = Len(s) + 1
          <5>1. PICK j \in DOMAIN CB(x) : j = Done(x) + 1
            BY <1>4
          <5>2. t[i] = CB(x)[j] /\ Buffer(x) = b0
            BY <1>4, <3>3, <4>1, <5>1 DEF b0
          <5>3. Visited(x, j, m)'
            BY <1>10, <1>22, <5>1
          <5> QED BY <5>2, <5>3
        <4>2. CASE i # Len(s) + 1
          <5>1. i \in DOMAIN s /\ t[i] = s[i]
            BY <3>2, <3>3, <4>2
          <5>2. PICK y \in CTAs : \E j \in DOMAIN CB(y) :
                    Buffer(y) = b0 /\ s[i] = CB(y)[j] /\ Visited(y, j, m)
            BY <3>4, <5>1
          <5>3. PICK j \in DOMAIN CB(y) :
                    Buffer(y) = b0 /\ s[i] = CB(y)[j] /\ Visited(y, j, m)
            BY <5>2
          <5>4. Visited(y, j, m)'
            BY <1>10, <1>22, <5>3
          <5> QED BY <5>1, <5>3, <5>4
        <4> QED BY <4>1, <4>2
      <3>9. ASSUME NEW y \in CTAs, NEW j \in DOMAIN CB(y),
                   Buffer(y) = b0, Visited(y, j, m)'
            PROVE  \E i \in DOMAIN t : t[i] = CB(y)[j]
        <4>1. CASE Visited(y, j, m)
          <5>1. PICK i \in DOMAIN s : s[i] = CB(y)[j]
            BY <3>5, <3>9, <4>1
          <5> QED BY <3>3, <5>1
        <4>2. CASE y = x /\ j = Done(x) + 1
          <5>1. Len(s) + 1 \in DOMAIN t /\ t[Len(s) + 1] = CB(y)[j]
            BY <1>4, <3>2, <3>3, <4>2
          <5> QED BY <5>1
        <4> QED BY <1>10, <1>22, <3>9, <4>1, <4>2
      <3>10. Cleared(k)' /\ (\A y : Buffer(y)' = Buffer(y))
        BY <1>13, <2>2, <2>4
      <3>11. \A i \in DOMAIN t : \E y \in CTAs : \E j \in DOMAIN CB(y) :
                 Buffer(y)' = b /\ t[i] = CB(y)[j] /\ Visited(y, j, k)'
        BY <2>4, <3>8, <3>10
      <3>12. \A y \in CTAs : \A j \in DOMAIN CB(y) :
                 Buffer(y)' = b /\ Visited(y, j, k)' =>
                     \E i \in DOMAIN t : t[i] = CB(y)[j]
        BY <2>4, <3>9, <3>10
      <3> QED BY <1>2, <3>1, <3>7, <3>10, <3>11, <3>12 DEF AccumInv
    <2> QED BY <2>3, <2>4
  <1>25. (\A c \in KeyCols : DKVInv(c))'
    BY <1>1, <1>3, DKVKept
  <1>26. (\A r \in QueryRows : DQInv(r))'
    <2>1. \A r \in QueryRows : Converted(r)' <=> Converted(r)
      BY <1>3 DEF Converted
    <2> QED BY <1>1, <1>3, <2>1, DQKept
  <1> QED BY <1>17, <1>18, <1>20, <1>21, <1>24, <1>25, <1>26 DEF IInv

\* The first tile is the last row block of the loop.
LEMMA FirstTileKeeps ==
    ASSUME IInv, [Next]_vars, NEW x \in CTAs, FirstTile(x)
    PROVE  IInv'
  <1> DEFINE m == MBlockMax(params, Block(x)) - 1
             checked == ~params.even
  <1>1. TypeOK /\ TodoInv(x)
    BY DEF IInv
  <1>2. /\ Runs(x) /\ todo[x] # <<>> /\ acc[x] = <<>>
        /\ ~NoKeys(params, Block(x)) /\ ~NoQueries(params, Block(x))
        /\ Tile(x, m, checked)
    BY DEF FirstTile, Idle
  <1>3. Block(x) \in 0 .. params.nblocks - 1 /\ Block(x) \in Nat /\ IsBwdParams(params)
    BY <1>1, <1>2, CurrentBlock, Setting
  <1>4. /\ MBlockMax(params, Block(x)) \in Int
        /\ m >= MBlockMin(params, Block(x))
    BY <1>2, <1>3, MBlockType, LoopNotEmpty
  <1>5. m = MBlockMax(params, Block(x)) - 1 - Len(acc[x]) /\ m \in Int
    <2>1. Len(acc[x]) = 0
      BY <1>2
    <2> QED BY <1>4, <2>1
  <1>6. checked \in BOOLEAN /\ (checked <=> (acc[x] = <<>> /\ ~params.even))
    BY <1>2
  <1> HIDE DEF m, checked
  <1> QED BY <1>2, <1>4, <1>5, <1>6, TileKeeps

\* Every other tile is one row block further up.
LEMMA NextTileKeeps ==
    ASSUME IInv, [Next]_vars, NEW x \in CTAs, NextTile(x)
    PROVE  IInv'
  <1>1. TypeOK /\ AccInv(x)
    BY DEF IInv
  <1>2. /\ Runs(x) /\ acc[x] # <<>>
        /\ m_block[x] >= MBlockMin(params, Block(x))
        /\ Tile(x, m_block[x], FALSE)
    BY DEF NextTile
  <1>3. m_block[x] \in Int
    BY <1>1 DEF TypeOK
  <1>4. /\ todo[x] # <<>>
        /\ ~NoKeys(params, Block(x)) /\ ~NoQueries(params, Block(x))
        /\ m_block[x] = MBlockMax(params, Block(x)) - 1 - Len(acc[x])
    BY <1>1, <1>2 DEF AccInv
  <1> DEFINE m == m_block[x]
             checked == FALSE
  <1>5. /\ m \in Int /\ checked \in BOOLEAN /\ Tile(x, m, checked)
        /\ m = MBlockMax(params, Block(x)) - 1 - Len(acc[x])
        /\ m >= MBlockMin(params, Block(x))
        /\ checked <=> (acc[x] = <<>> /\ ~params.even)
        /\ acc[x] # <<>> => m = m_block[x]
    BY <1>2, <1>3, <1>4
  <1> HIDE DEF m, checked
  <1> QED BY <1>2, <1>4, <1>5, TileKeeps

-----------------------------------------------------------------------------
(* The other steps *)

\* Between the kernels a CTA is at the beginning or at the end of its list.
LEMMA NothingVisited ==
    ASSUME IInv, kernel = "dot_do_o", NEW x \in CTAs
    PROVE  /\ acc[x] = <<>> /\ Done(x) = 0
           /\ \A j \in DOMAIN CB(x) : \A m : ~Visited(x, j, m)
  <1>1. TypeOK /\ TodoInv(x) /\ AccInv(x)
    BY DEF IInv
  <1>2. acc[x] = <<>> /\ Done(x) = 0
    BY <1>1 DEF TodoInv, AccInv
  <1>3. \A j \in DOMAIN CB(x) : j \in Nat /\ j >= 1
    BY <1>1, CBType
  <1> QED BY <1>2, <1>3 DEF Visited

\* dot_do_o clears accumulators to which nothing has been added.
LEMMA DotDoOKeeps ==
    ASSUME IInv, [Next]_vars, NEW k \in RowBlocks, DotDoO(k)
    PROVE  IInv'
  <1>1. /\ TypeOK /\ PsumInv /\ \A y \in CTAs : TodoInv(y)
        /\ \A y \in CTAs : AccInv(y)
        /\ \A b \in Buffers, m \in RowBlocks : AccumInv(b, m)
        /\ \A c \in KeyCols : DKVInv(c)
        /\ \A r \in QueryRows : DQInv(r)
    BY DEF IInv
  <1>2. /\ arg' = arg /\ params' = params /\ CTAs' = CTAs /\ RowBlocks' = RowBlocks
        /\ Buffers' = Buffers /\ QueryRows' = QueryRows /\ KeyCols' = KeyCols
        /\ \A y : CB(y)' = CB(y)
    BY SameCall
  <1>3. /\ kernel = "dot_do_o"
        /\ \/ kernel' = "dot_do_o" /\ finished' = finished \cup {k}
           \/ kernel' = "dq_dk_dv" /\ finished' = {} /\ finished \cup {k} = RowBlocks
        /\ UNCHANGED <<todo, m_block, acc, gdKV, gdQ>>
    BY DEF DotDoO, Finish
  <1>4. IF HasRows(k)
        THEN /\ dPsum' = dPsum \cup {k}
             /\ dqAccum' = IF params.deterministic THEN dqAccum
                           ELSE [dqAccum EXCEPT ![0][k] = <<>>]
        ELSE UNCHANGED <<dPsum, dqAccum>>
    BY DEF DotDoO
  <1>5. /\ dqAccum \in [Buffers -> [RowBlocks -> Seq(Int)]]
        /\ RowBlocks \subseteq Nat
    BY <1>1, RowBlocksType DEF TypeOK
  <1>6. ASSUME NEW b \in Buffers, NEW m \in RowBlocks
        PROVE  dqAccum'[b][m] = IF m = k /\ HasRows(k) /\ ~params.deterministic
                                THEN <<>> ELSE dqAccum[b][m]
    <2>1. ~params.deterministic => b = 0
      BY DEF Buffers
    <2> QED BY <1>4, <1>5, <2>1
  <1>7. TypeOK'
    <2>1. dqAccum' \in [Buffers -> [RowBlocks -> Seq(Int)]]
      <3>1. <<>> \in Seq(Int)
        OBVIOUS
      <3>2. ~params.deterministic => 0 \in Buffers
        BY DEF Buffers
      <3>3. \A b \in Buffers :
                [dqAccum[b] EXCEPT ![k] = <<>>] \in [RowBlocks -> Seq(Int)]
        BY <1>5, <3>1
      <3> QED BY <1>4, <1>5, <3>2, <3>3
    <2>2. dPsum' \in SUBSET RowBlocks
      BY <1>1, <1>4 DEF TypeOK
    <2>3. finished' \in SUBSET Nat
      BY <1>1, <1>3, <1>5 DEF TypeOK
    <2>4. kernel' \in {"dot_do_o", "dq_dk_dv", "convert_dq", "returned"}
      BY <1>3
    <2>5. /\ (arg \in Args)' /\ (params = BwdParams(arg))'
          /\ (todo \in [CTAs -> Seq(Int)])' /\ (m_block \in [CTAs -> Int])'
          /\ (acc \in [CTAs -> Seq([m : RowBlocks, checked : BOOLEAN])])'
          /\ (gdKV \in [KeyCols -> SUBSET Int])' /\ (gdQ \in [QueryRows -> SUBSET Int])'
      BY <1>1, <1>2, <1>3 DEF TypeOK
    <2> QED BY <1>2, <2>1, <2>2, <2>3, <2>4, <2>5 DEF TypeOK
  <1>8. finished \subseteq RowBlocks
        /\ \A m \in RowBlocks : m \in dPsum <=> HasRows(m) /\ m \in finished
    BY <1>1, <1>3 DEF PsumInv
  <1>9. \A m \in RowBlocks : m \in dPsum' <=> HasRows(m) /\ m \in finished \cup {k}
    BY <1>4, <1>8
  <1>10. PsumInv'
    <2>1. \A m : HasRows(m)' <=> HasRows(m)
      BY <1>2 DEF HasRows
    <2>2. CASE kernel' = "dot_do_o" /\ finished' = finished \cup {k}
      BY <1>2, <1>8, <1>9, <2>1, <2>2 DEF PsumInv
    <2>3. CASE kernel' = "dq_dk_dv" /\ finished' = {} /\ finished \cup {k} = RowBlocks
      BY <1>2, <1>9, <2>1, <2>3 DEF PsumInv
    <2> QED BY <1>3, <2>2, <2>3
  <1>11. \A y \in CTAs : Done(y)' = Done(y)
    BY <1>2, <1>3 DEF Done
  <1>12. (\A y \in CTAs : TodoInv(y))'
    <2> SUFFICES ASSUME NEW y \in CTAs PROVE TodoInv(y)'
      BY <1>2
    <2>1. TodoInv(y)
      BY <1>1
    <2>2. kernel' = "dq_dk_dv" => finished' = {}
      BY <1>3
    <2>3. kernel' \notin {"convert_dq", "returned"}
      BY <1>3
    <2> QED BY <1>2, <1>3, <1>11, <2>1, <2>2, <2>3 DEF TodoInv
  <1>13. (\A y \in CTAs : AccInv(y))'
    <2>1. \A y \in CTAs : acc'[y] = <<>>
      BY <1>3, NothingVisited
    <2> QED BY <1>2, <2>1 DEF AccInv
  <1>14. (\A b \in Buffers, m \in RowBlocks : AccumInv(b, m))'
    <2> SUFFICES ASSUME NEW b \in Buffers, NEW m \in RowBlocks
                 PROVE  AccumInv(b, m)'
      BY <1>2
    <2>1. AccumInv(b, m)
      BY <1>1
    <2>2. \A y \in CTAs : \A j \in DOMAIN CB(y) : ~Visited(y, j, m) /\ ~Visited(y, j, m)'
      <3> TAKE y \in CTAs
      <3> TAKE j \in DOMAIN CB(y)
      <3>1. ~Visited(y, j, m)
        BY <1>3, NothingVisited
      <3>2. Visited(y, j, m)' <=> Visited(y, j, m)
        BY <1>2, <1>3, <1>11 DEF Visited
      <3> QED BY <3>1, <3>2
    <2>3. Cleared(m)' <=> params.deterministic \/ m \in dPsum'
      BY <1>2 DEF Cleared
    <2>4. CASE m = k /\ HasRows(k) /\ ~params.deterministic
      <3>1. dqAccum'[b][m] = <<>> /\ Cleared(m)'
        BY <1>6, <1>9, <2>3, <2>4
      <3>2. DOMAIN dqAccum'[b][m] = {}
        BY <3>1
      <3> QED BY <1>2, <2>2, <3>1, <3>2 DEF AccumInv
    <2>5. CASE ~(m = k /\ HasRows(k) /\ ~params.deterministic)
      <3>1. dqAccum'[b][m] = dqAccum[b][m]
        BY <1>6, <2>5
      <3>2. Cleared(m)' <=> Cleared(m)
        BY <1>8, <1>9, <2>3, <2>5 DEF Cleared
      <3> QED BY <1>2, <2>1, <2>2, <3>1, <3>2 DEF AccumInv
    <2> QED BY <2>4, <2>5
  <1>15. (\A c \in KeyCols : DKVInv(c))'
    BY <1>1, <1>3, DKVKept
  <1>16. (\A r \in QueryRows : DQInv(r))'
    <2>1. \A r \in QueryRows : Converted(r)' <=> Converted(r)
      BY <1>3 DEF Converted
    <2> QED BY <1>1, <1>3, <2>1, DQKept
  <1> QED BY <1>7, <1>10, <1>12, <1>13, <1>14, <1>15, <1>16 DEF IInv

\* A step of the kernel's end changes neither buffers nor results.
LEMMA ExitKeeps ==
    ASSUME IInv, [Next]_vars, NEW x \in CTAs, Exit(x)
    PROVE  IInv'
  <1>1. /\ TypeOK /\ PsumInv /\ \A y \in CTAs : TodoInv(y)
        /\ \A y \in CTAs : AccInv(y)
        /\ \A b \in Buffers, m \in RowBlocks : AccumInv(b, m)
        /\ \A c \in KeyCols : DKVInv(c)
        /\ \A r \in QueryRows : DQInv(r)
    BY DEF IInv
  <1>2. /\ arg' = arg /\ params' = params /\ CTAs' = CTAs /\ RowBlocks' = RowBlocks
        /\ Buffers' = Buffers /\ QueryRows' = QueryRows /\ KeyCols' = KeyCols
        /\ \A y : CB(y)' = CB(y)
    BY SameCall
  <1>3. /\ kernel = "dq_dk_dv" /\ todo[x] = <<>>
        /\ \/ kernel' = "dq_dk_dv" /\ finished' = finished \cup {x}
           \/ kernel' = "convert_dq" /\ finished' = {} /\ finished \cup {x} = CTAs
        /\ UNCHANGED <<dPsum, dqAccum, todo, m_block, acc, gdKV, gdQ>>
    BY DEF Exit, Runs, Finish
  <1>4. CTAs \subseteq Nat
    BY DEF CTAs
  <1>5. TypeOK'
    <2>1. finished' \in SUBSET Nat
      BY <1>1, <1>3, <1>4 DEF TypeOK
    <2>2. kernel' \in {"dot_do_o", "dq_dk_dv", "convert_dq", "returned"}
      BY <1>3
    <2>3. /\ (arg \in Args)' /\ (params = BwdParams(arg))'
          /\ (todo \in [CTAs -> Seq(Int)])' /\ (m_block \in [CTAs -> Int])'
          /\ (acc \in [CTAs -> Seq([m : RowBlocks, checked : BOOLEAN])])'
          /\ (gdKV \in [KeyCols -> SUBSET Int])' /\ (gdQ \in [QueryRows -> SUBSET Int])'
          /\ (dPsum \in SUBSET RowBlocks)'
          /\ (dqAccum \in [Buffers -> [RowBlocks -> Seq(Int)]])'
      BY <1>1, <1>2, <1>3 DEF TypeOK
    <2> QED BY <2>1, <2>2, <2>3 DEF TypeOK
  <1>6. PsumInv'
    <2>1. \A m \in RowBlocks : m \in dPsum <=> HasRows(m)
      BY <1>1, <1>3 DEF PsumInv
    <2>2. \A m : HasRows(m)' <=> HasRows(m)
      BY <1>2 DEF HasRows
    <2>3. finished \subseteq CTAs
      BY <1>1, <1>3 DEF PsumInv
    <2>4. finished' \subseteq IF kernel' = "dq_dk_dv" THEN CTAs ELSE RowBlocks
      BY <1>3, <2>3
    <2>5. kernel' # "dot_do_o"
      BY <1>3
    <2> QED BY <1>2, <1>3, <2>1, <2>2, <2>4, <2>5 DEF PsumInv
  <1>7. \A y \in CTAs : Done(y)' = Done(y) /\ Block(y)' = Block(y)
    BY <1>2, <1>3 DEF Done, Block
  <1>8. (\A y \in CTAs : TodoInv(y))'
    <2> SUFFICES ASSUME NEW y \in CTAs PROVE TodoInv(y)'
      BY <1>2
    <2>1. TodoInv(y)
      BY <1>1
    <2>2. y \in finished \cup {x} => todo[y] = <<>>
      BY <1>3, <2>1 DEF TodoInv
    <2>3. kernel' = "dq_dk_dv" /\ y \in finished' => todo'[y] = <<>>
      BY <1>3, <2>2
    <2>4. kernel' \in {"convert_dq", "returned"} => todo'[y] = <<>>
      BY <1>3, <2>2
    <2>5. kernel' # "dot_do_o"
      BY <1>3
    <2> QED BY <1>2, <1>3, <1>7, <2>1, <2>3, <2>4, <2>5 DEF TodoInv
  <1>9. (\A y \in CTAs : AccInv(y))'
    <2> SUFFICES ASSUME NEW y \in CTAs PROVE AccInv(y)'
      BY <1>2
    <2>1. AccInv(y) /\ TodoInv(y)
      BY <1>1
    <2>2. CASE kernel' = "dq_dk_dv"
      BY <1>2, <1>3, <1>7, <2>1, <2>2 DEF AccInv
    <2>3. CASE kernel' = "convert_dq"
      <3>1. y \in finished \cup {x}
        BY <1>3, <2>3
      <3>2. todo[y] = <<>>
        BY <1>3, <2>1, <3>1 DEF TodoInv
      <3>3. acc[y] = <<>>
        BY <2>1, <3>2 DEF AccInv
      <3> QED BY <1>3, <3>3 DEF AccInv
    <2> QED BY <1>3, <2>2, <2>3
  <1>10. (\A b \in Buffers, m \in RowBlocks : AccumInv(b, m))'
    <2>1. \A m \in RowBlocks : \A y \in CTAs : \A j \in DOMAIN CB(y) :
              Visited(y, j, m)' <=> Visited(y, j, m)
      BY <1>2, <1>3, <1>7 DEF Visited
    <2> QED BY <1>1, <1>3, <2>1, AccumKept
  <1>11. (\A c \in KeyCols : DKVInv(c))'
    BY <1>1, <1>3, DKVKept
  <1>12. (\A r \in QueryRows : DQInv(r))'
    <2>1. \A r \in QueryRows : Converted(r)' <=> Converted(r)
      BY <1>3 DEF Converted
    <2> QED BY <1>1, <1>3, <2>1, DQKept
  <1> QED BY <1>5, <1>6, <1>8, <1>9, <1>10, <1>11, <1>12 DEF IInv

\* From convert_dq on every CTA has finished its list.
LEMMA AllVisited ==
    ASSUME IInv, kernel \in {"convert_dq", "returned"},
           NEW x \in CTAs, NEW j \in DOMAIN CB(x), NEW m
    PROVE  Visited(x, j, m) <=> /\ ~NoKeys(params, CB(x)[j])
                                /\ MBlockMin(params, CB(x)[j]) <= m
                                /\ m < MBlockMax(params, CB(x)[j])
  <1>1. TypeOK /\ TodoInv(x)
    BY DEF IInv
  <1>2. todo[x] = <<>>
    BY <1>1 DEF TodoInv
  <1>3. Len(CB(x)) \in Nat /\ DOMAIN CB(x) = 1 .. Len(CB(x))
    BY <1>1, CBType
  <1>4. Done(x) = Len(CB(x))
    BY <1>2, <1>3 DEF Done
  <1>5. j <= Done(x)
    BY <1>3, <1>4
  <1> QED BY <1>5 DEF Visited

\* Then the buffers hold the column blocks that visited the row block.
LEMMA AddedExact ==
    ASSUME IInv, kernel = "convert_dq", NEW k \in RowBlocks, HasRows(k), NEW n
    PROVE  n \in Added(k) <=>
               /\ \E x \in CTAs : \E j \in DOMAIN CB(x) : n = CB(x)[j]
               /\ ~NoKeys(params, n)
               /\ MBlockMin(params, n) <= k /\ k < MBlockMax(params, n)
  <1>1. \A b \in Buffers : AccumInv(b, k)
    BY DEF IInv
  <1>2. Cleared(k)
    BY DEF IInv, PsumInv, Cleared
  <1>3. n \in Added(k) <=>
            \E b \in Buffers : \E i \in DOMAIN dqAccum[b][k] : dqAccum[b][k][i] = n
    BY DEF Added
  <1>4. ASSUME NEW b \in Buffers, NEW i \in DOMAIN dqAccum[b][k],
               dqAccum[b][k][i] = n
        PROVE  /\ \E x \in CTAs : \E j \in DOMAIN CB(x) : n = CB(x)[j]
               /\ ~NoKeys(params, n)
               /\ MBlockMin(params, n) <= k /\ k < MBlockMax(params, n)
    <2>1. PICK x \in CTAs : \E j \in DOMAIN CB(x) : n = CB(x)[j] /\ Visited(x, j, k)
      BY <1>1, <1>2, <1>4 DEF AccumInv
    <2>2. PICK j \in DOMAIN CB(x) : n = CB(x)[j] /\ Visited(x, j, k)
      BY <2>1
    <2> QED BY <2>2, AllVisited
  <1>5. ASSUME NEW x \in CTAs, NEW j \in DOMAIN CB(x), n = CB(x)[j],
               ~NoKeys(params, n), MBlockMin(params, n) <= k,
               k < MBlockMax(params, n)
        PROVE  \E b \in Buffers : \E i \in DOMAIN dqAccum[b][k] : dqAccum[b][k][i] = n
    <2>1. Visited(x, j, k)
      BY <1>5, AllVisited
    <2>2. Buffer(x) \in Buffers
      BY DEF Buffer, Buffers
    <2>3. \E i \in DOMAIN dqAccum[Buffer(x)][k] : dqAccum[Buffer(x)][k][i] = n
      BY <1>1, <1>2, <1>5, <2>1, <2>2 DEF AccumInv
    <2> QED BY <2>2, <2>3
  <1> QED BY <1>3, <1>4, <1>5

\* The columns of a column block lie in the padded key range.
LEMMA TileColsInside ==
    ASSUME TypeOK, NEW n \in 0 .. params.nblocks - 1
    PROVE  TileCols(n) \subseteq KeyCols
  <1>1. params.nblocks \in Nat /\ n \in Nat /\ kBlockN \in Nat \ {0}
    BY Setting, BwdBlockAssumption DEF IsBwdParams
  <1>2. kBlockN * (n + 1) <= kBlockN * params.nblocks
    <2>1. n + 1 \in Int /\ params.nblocks \in Int /\ n + 1 <= params.nblocks
      BY <1>1
    <2> QED BY <1>1, <2>1, MulMono
  <1>3. /\ (n + 1) * kBlockN = kBlockN * (n + 1)
        /\ params.nblocks * kBlockN = kBlockN * params.nblocks
        /\ n * kBlockN \in Nat /\ (n + 1) * kBlockN \in Nat
        /\ params.nblocks * kBlockN \in Nat
    BY <1>1
  <1> QED BY <1>2, <1>3 DEF TileCols, KeyCols

\* What convert_dq sums for a row.
LEMMA ConvertedExact ==
    ASSUME IInv, kernel = "convert_dq", NEW k \in RowBlocks,
           NEW r \in TileRows(k), r < params.sq
    PROVE  UNION {ColsFor(params, k, n, r) : n \in Added(k)} =
               {c \in KeyCols : Attends(params, r, c) /\ Owned(c)}
  <1>1. TypeOK /\ IsBwdParams(params) /\ k \in Nat
    BY Setting, RowBlocksType DEF IInv
  <1>2. r \in 0 .. params.sq - 1 /\ k = r \div kBlockM /\ HasRows(k)
    <2>1. params.sq \in Nat
      BY <1>1 DEF IsBwdParams
    <2>2. r \in Int /\ k * kBlockM \in Nat /\ k * kBlockM <= r
      BY <1>1, BwdBlockAssumption DEF TileRows
    <2>3. k = r \div kBlockM
      BY <1>1, <2>2, RowTile
    <2> QED BY <2>1, <2>2, <2>3 DEF HasRows
  <1>3. ASSUME NEW n \in Added(k), NEW c \in ColsFor(params, k, n, r)
        PROVE  c \in KeyCols /\ Attends(params, r, c) /\ Owned(c)
    <2>1. PICK x \in CTAs : \E j \in DOMAIN CB(x) : n = CB(x)[j]
      BY <1>2, AddedExact
    <2>2. PICK j \in DOMAIN CB(x) : n = CB(x)[j]
      BY <2>1
    <2>3. n \in 0 .. params.nblocks - 1
      BY <1>1, <2>2, CBType
    <2>4. c \in TileCols(n) /\ Attends(params, r, c)
      BY <1>1, <2>3, ColsForExact
    <2>5. c \in KeyCols
      BY <1>1, <2>3, <2>4, TileColsInside
    <2>6. Owned(c)
      BY <2>2, <2>4 DEF Owned
    <2> QED BY <2>4, <2>5, <2>6
  <1>4. ASSUME NEW c \in KeyCols, Attends(params, r, c), Owned(c)
        PROVE  \E n \in Added(k) : c \in ColsFor(params, k, n, r)
    <2>1. PICK x \in CTAs : \E j \in DOMAIN CB(x) : c \in TileCols(CB(x)[j])
      BY <1>4 DEF Owned
    <2>2. PICK j \in DOMAIN CB(x) : c \in TileCols(CB(x)[j])
      BY <2>1
    <2> DEFINE n == CB(x)[j]
    <2>3. n \in 0 .. params.nblocks - 1 /\ n \in Nat
      BY <1>1, CBType
    <2> HIDE DEF n
    <2>4. c \in TileCols(n)
      BY <2>2 DEF n
    <2>5. ~NoKeys(params, n)
      <3>1. params.sk \in Nat
        BY <1>1 DEF IsBwdParams
      <3>2. c \in Nat /\ c < params.sk
        BY <1>4, <3>1 DEF Attends
      <3>3. n * kBlockN <= c /\ n * kBlockN \in Nat
        BY <2>3, <2>4, BwdBlockAssumption DEF TileCols
      <3> QED BY <3>1, <3>2, <3>3 DEF NoKeys
    <2>6. MBlockMin(params, n) <= k /\ k < MBlockMax(params, n)
      BY <1>1, <1>2, <1>4, <2>3, <2>4, AttendedRowBlocks
    <2>7. n \in Added(k)
      <3>1. \E y \in CTAs : \E i \in DOMAIN CB(y) : n = CB(y)[i]
        BY DEF n
      <3> QED BY <1>2, <2>5, <2>6, <3>1, AddedExact
    <2>8. c \in ColsFor(params, k, n, r)
      BY <1>1, <1>4, <2>3, <2>4, ColsForExact
    <2> QED BY <2>7, <2>8
  <1> QED BY <1>3, <1>4

\* convert_dq turns the visits of a row block into the final dQ of its rows.
LEMMA ConvertDQKeeps ==
    ASSUME IInv, [Next]_vars, NEW k \in RowBlocks, ConvertDQ(k)
    PROVE  IInv'
  <1>1. /\ TypeOK /\ PsumInv /\ \A y \in CTAs : TodoInv(y)
        /\ \A y \in CTAs : AccInv(y)
        /\ \A b \in Buffers, m \in RowBlocks : AccumInv(b, m)
        /\ \A c \in KeyCols : DKVInv(c)
        /\ \A r \in QueryRows : DQInv(r)
    BY DEF IInv
  <1>2. /\ arg' = arg /\ params' = params /\ CTAs' = CTAs /\ RowBlocks' = RowBlocks
        /\ Buffers' = Buffers /\ QueryRows' = QueryRows /\ KeyCols' = KeyCols
        /\ \A y : CB(y)' = CB(y)
    BY SameCall
  <1>3. /\ kernel = "convert_dq" /\ k \notin finished
        /\ \/ kernel' = "convert_dq" /\ finished' = finished \cup {k}
           \/ kernel' = "returned" /\ finished' = {} /\ finished \cup {k} = RowBlocks
        /\ UNCHANGED <<dPsum, dqAccum, todo, m_block, acc, gdKV>>
    BY DEF ConvertDQ, Finish
  <1>4. /\ RowBlocks \subseteq Nat
        /\ \A r \in QueryRows : r \in Nat /\ r \div kBlockM \in RowBlocks
                                /\ r \in TileRows(r \div kBlockM)
    BY <1>1, RowBlocksType
  <1>5. finished \subseteq RowBlocks
    BY <1>1, <1>3 DEF PsumInv
  <1>6. ASSUME NEW r \in QueryRows
        PROVE  gdQ'[r] = IF r \in TileRows(k) /\ r < params.sq
                         THEN {c \in KeyCols : Attends(params, r, c) /\ Owned(c)}
                         ELSE gdQ[r]
    <2>1. gdQ'[r] = IF r \in TileRows(k) /\ r < params.sq
                    THEN UNION {ColsFor(params, k, n, r) : n \in Added(k)}
                    ELSE gdQ[r]
      BY DEF ConvertDQ
    <2> QED BY <1>3, <2>1, ConvertedExact
  <1>7. TypeOK'
    <2>1. gdQ' \in [QueryRows -> SUBSET Int]
      <3>1. DOMAIN gdQ' = QueryRows /\ gdQ' = [r \in QueryRows |-> gdQ'[r]]
        BY DEF ConvertDQ
      <3>2. KeyCols \subseteq Int
        BY DEF KeyCols
      <3>3. \A r \in QueryRows : gdQ'[r] \in SUBSET Int
        BY <1>1, <1>6, <3>2 DEF TypeOK
      <3> QED BY <3>1, <3>3
    <2>2. finished' \in SUBSET Nat
      BY <1>3, <1>4, <1>5
    <2>3. kernel' \in {"dot_do_o", "dq_dk_dv", "convert_dq", "returned"}
      BY <1>3
    <2>4. /\ (arg \in Args)' /\ (params = BwdParams(arg))'
          /\ (todo \in [CTAs -> Seq(Int)])' /\ (m_block \in [CTAs -> Int])'
          /\ (acc \in [CTAs -> Seq([m : RowBlocks, checked : BOOLEAN])])'
          /\ (gdKV \in [KeyCols -> SUBSET Int])'
          /\ (dPsum \in SUBSET RowBlocks)'
          /\ (dqAccum \in [Buffers -> [RowBlocks -> Seq(Int)]])'
      BY <1>1, <1>2, <1>3 DEF TypeOK
    <2> QED BY <1>2, <2>1, <2>2, <2>3, <2>4 DEF TypeOK
  <1>8. PsumInv'
    <2>1. \A m \in RowBlocks : m \in dPsum <=> HasRows(m)
      BY <1>1, <1>3 DEF PsumInv
    <2>2. \A m : HasRows(m)' <=> HasRows(m)
      BY <1>2 DEF HasRows
    <2>3. finished' \subseteq RowBlocks /\ kernel' # "dot_do_o" /\ kernel' # "dq_dk_dv"
      BY <1>3, <1>5
    <2> QED BY <1>2, <1>3, <2>1, <2>2, <2>3 DEF PsumInv
  <1>9. \A y \in CTAs : /\ Done(y)' = Done(y) /\ Block(y)' = Block(y)
                        /\ todo[y] = <<>> /\ acc[y] = <<>>
    <2> TAKE y \in CTAs
    <2>1. Done(y)' = Done(y) /\ Block(y)' = Block(y)
      BY <1>2, <1>3 DEF Done, Block
    <2>2. todo[y] = <<>>
      BY <1>1, <1>3 DEF TodoInv
    <2>3. acc[y] = <<>>
      BY <1>1, <1>3 DEF AccInv
    <2> QED BY <2>1, <2>2, <2>3
  <1>10. (\A y \in CTAs : TodoInv(y))'
    <2> SUFFICES ASSUME NEW y \in CTAs PROVE TodoInv(y)'
      BY <1>2
    <2>1. TodoInv(y)
      BY <1>1
    <2>2. kernel' # "dot_do_o" /\ kernel' # "dq_dk_dv"
      BY <1>3
    <2> QED BY <1>2, <1>3, <1>9, <2>1, <2>2 DEF TodoInv
  <1>11. (\A y \in CTAs : AccInv(y))'
    BY <1>2, <1>3, <1>9 DEF AccInv
  <1>12. (\A b \in Buffers, m \in RowBlocks : AccumInv(b, m))'
    <2>1. \A m \in RowBlocks : \A y \in CTAs : \A j \in DOMAIN CB(y) :
              Visited(y, j, m)' <=> Visited(y, j, m)
      BY <1>2, <1>3, <1>9 DEF Visited
    <2> QED BY <1>1, <1>3, <2>1, AccumKept
  <1>13. (\A c \in KeyCols : DKVInv(c))'
    BY <1>1, <1>3, DKVKept
  <1>14. \A r \in QueryRows : Converted(r)' <=> Converted(r) \/ r \in TileRows(k)
    <2> TAKE r \in QueryRows
    <2>1. Converted(r) <=> \E m \in finished : r \in TileRows(m)
      BY <1>3 DEF Converted
    <2>2. CASE kernel' = "convert_dq" /\ finished' = finished \cup {k}
      <3>1. Converted(r)' <=> \E m \in finished \cup {k} : r \in TileRows(m)
        BY <2>2 DEF Converted
      <3> QED BY <2>1, <3>1
    <2>3. CASE kernel' = "returned" /\ finished \cup {k} = RowBlocks
      <3>1. Converted(r)'
        BY <2>3 DEF Converted
      <3>2. r \div kBlockM \in finished \cup {k} /\ r \in TileRows(r \div kBlockM)
        BY <1>4, <2>3
      <3> QED BY <2>1, <3>1, <3>2
    <2> QED BY <1>3, <2>2, <2>3
  <1>15. (\A r \in QueryRows : DQInv(r))'
    <2> SUFFICES ASSUME NEW r \in QueryRows PROVE DQInv(r)'
      BY <1>2
    <2>1. \A c : Owned(c)' <=> Owned(c)
      BY <1>2 DEF Owned
    <2>2. {c \in KeyCols : Attends(params, r, c) /\ Owned(c)}' =
              {c \in KeyCols : Attends(params, r, c) /\ Owned(c)}
      BY <1>2, <2>1
    <2>3. /\ DQInv(r)
          /\ Converted(r)' <=> Converted(r) \/ r \in TileRows(k)
      BY <1>1, <1>14
    <2>4. CASE r \in TileRows(k) /\ r < params.sq
      BY <1>2, <1>6, <2>2, <2>3, <2>4 DEF DQInv
    <2>5. CASE ~(r \in TileRows(k) /\ r < params.sq)
      BY <1>2, <1>6, <2>2, <2>3, <2>5 DEF DQInv
    <2> QED BY <2>4, <2>5
  <1> QED BY <1>7, <1>8, <1>10, <1>11, <1>12, <1>13, <1>15 DEF IInv

\* A stuttering step keeps the invariant.
LEMMA StutterKeeps ==
    ASSUME IInv, UNCHANGED vars
    PROVE  IInv'
  <1>1. [Next]_vars
    OBVIOUS
  <1>2. /\ arg' = arg /\ params' = params /\ CTAs' = CTAs /\ RowBlocks' = RowBlocks
        /\ Buffers' = Buffers /\ QueryRows' = QueryRows /\ KeyCols' = KeyCols
        /\ \A y : CB(y)' = CB(y)
    BY <1>1, SameCall
  <1>3. UNCHANGED <<kernel, finished, dPsum, dqAccum, todo, m_block, acc, gdKV, gdQ>>
    BY DEF vars
  <1>4. /\ TypeOK /\ PsumInv /\ \A y \in CTAs : TodoInv(y)
        /\ \A y \in CTAs : AccInv(y)
        /\ \A b \in Buffers, m \in RowBlocks : AccumInv(b, m)
        /\ \A c \in KeyCols : DKVInv(c)
        /\ \A r \in QueryRows : DQInv(r)
    BY DEF IInv
  <1>5. TypeOK' /\ PsumInv'
    BY <1>2, <1>3, <1>4 DEF TypeOK, PsumInv, HasRows
  <1>6. \A y : Done(y)' = Done(y) /\ Block(y)' = Block(y)
    BY <1>2, <1>3 DEF Done, Block
  <1>7. (\A y \in CTAs : TodoInv(y))' /\ (\A y \in CTAs : AccInv(y))'
    BY <1>2, <1>3, <1>4, <1>6 DEF TodoInv, AccInv
  <1>8. (\A b \in Buffers, m \in RowBlocks : AccumInv(b, m))'
    <2>1. \A m \in RowBlocks : \A y \in CTAs : \A j \in DOMAIN CB(y) :
              Visited(y, j, m)' <=> Visited(y, j, m)
      BY <1>2, <1>3, <1>6 DEF Visited
    <2> QED BY <1>1, <1>3, <1>4, <2>1, AccumKept
  <1>9. (\A c \in KeyCols : DKVInv(c))' /\ (\A r \in QueryRows : DQInv(r))'
    <2>1. \A r \in QueryRows : Converted(r)' <=> Converted(r)
      BY <1>3 DEF Converted
    <2> QED BY <1>1, <1>3, <1>4, <2>1, DKVKept, DQKept
  <1> QED BY <1>5, <1>7, <1>8, <1>9 DEF IInv

\* Every step of the three kernels keeps the invariant.
LEMMA NextKeeps ==
    ASSUME IInv, [Next]_vars
    PROVE  IInv'
  <1>1. CASE UNCHANGED vars
    BY <1>1, StutterKeeps
  <1>2. ASSUME NEW m \in RowBlocks, DotDoO(m) PROVE IInv'
    BY <1>2, DotDoOKeeps
  <1>3. ASSUME NEW m \in RowBlocks, ConvertDQ(m) PROVE IInv'
    BY <1>3, ConvertDQKeeps
  <1>4. ASSUME NEW x \in CTAs, Skip(x) PROVE IInv'
    BY <1>4, SkipKeeps
  <1>5. ASSUME NEW x \in CTAs, StoreZero(x) PROVE IInv'
    BY <1>5, StoreZeroKeeps
  <1>6. ASSUME NEW x \in CTAs, FirstTile(x) PROVE IInv'
    BY <1>6, FirstTileKeeps
  <1>7. ASSUME NEW x \in CTAs, NextTile(x) PROVE IInv'
    BY <1>7, NextTileKeeps
  <1>8. ASSUME NEW x \in CTAs, StoreKV(x) PROVE IInv'
    BY <1>8, StoreKVKeeps
  <1>9. ASSUME NEW x \in CTAs, Exit(x) PROVE IInv'
    BY <1>9, ExitKeeps
  <1> QED BY <1>1, <1>2, <1>3, <1>4, <1>5, <1>6, <1>7, <1>8, <1>9 DEF Next, Step

-----------------------------------------------------------------------------
(* What the invariant implies *)

\* Different buffers and positions hold different column blocks.
LEMMA NoTileTwice == IInv => TileOnce
  <1> SUFFICES ASSUME IInv, NEW m \in RowBlocks, NEW b1 \in Buffers, NEW b2 \in Buffers,
                      NEW i \in DOMAIN dqAccum[b1][m], NEW j \in DOMAIN dqAccum[b2][m],
                      dqAccum[b1][m][i] = dqAccum[b2][m][j]
               PROVE  b1 = b2 /\ i = j
    BY DEF TileOnce
  <1>1. TypeOK /\ AccumInv(b1, m) /\ AccumInv(b2, m)
    BY DEF IInv
  <1>2. b1 = b2
    <2>1. CASE ~Cleared(m)
      BY <2>1 DEF Cleared, Buffers
    <2>2. CASE Cleared(m)
      <3>1. PICK x \in CTAs : \E k \in DOMAIN CB(x) :
                Buffer(x) = b1 /\ dqAccum[b1][m][i] = CB(x)[k]
        BY <1>1, <2>2 DEF AccumInv
      <3>2. PICK k \in DOMAIN CB(x) :
                Buffer(x) = b1 /\ dqAccum[b1][m][i] = CB(x)[k]
        BY <3>1
      <3>3. PICK y \in CTAs : \E l \in DOMAIN CB(y) :
                Buffer(y) = b2 /\ dqAccum[b2][m][j] = CB(y)[l]
        BY <1>1, <2>2 DEF AccumInv
      <3>4. PICK l \in DOMAIN CB(y) :
                Buffer(y) = b2 /\ dqAccum[b2][m][j] = CB(y)[l]
        BY <3>3
      <3>5. x = y
        <4>1. CB(x)[k] = CB(y)[l]
          BY <3>2, <3>4
        <4> QED BY <1>1, <4>1, CBDisjoint
      <3> QED BY <3>2, <3>4, <3>5
    <2> QED BY <2>1, <2>2
  <1>3. i = j
    BY <1>1, <1>2 DEF AccumInv
  <1> QED BY <1>2, <1>3

\* Every visit lies within the queries or was checked.
LEMMA LoadsInside == IInv => UncheckedLoadsInBounds
  <1> SUFFICES ASSUME IInv, NEW x \in CTAs, NEW i \in DOMAIN acc[x]
               PROVE  /\ acc[x][i].m >= 0
                      /\ acc[x][i].checked
                         \/ (acc[x][i].m + 1) * kBlockM <= params.sq
    BY DEF UncheckedLoadsInBounds
  <1>1. TypeOK /\ TodoInv(x) /\ AccInv(x)
    BY DEF IInv
  <1> QED BY <1>1, VisitInBounds

\* A visited row block has rows, so dot_do_o has prepared it.
LEMMA ReadsInitialised == IInv => NoStaleRead
  <1> SUFFICES ASSUME IInv, NEW x \in CTAs, NEW i \in DOMAIN acc[x]
               PROVE  /\ acc[x][i].m \in dPsum
                      /\ Head(dqAccum[Buffer(x)][acc[x][i].m]) # Head(Garbage)
    BY DEF NoStaleRead
  <1> DEFINE m == acc[x][i].m
             n == Block(x)
             b == Buffer(x)
  <1>1. TypeOK /\ PsumInv /\ TodoInv(x) /\ AccInv(x)
    BY DEF IInv
  <1>2. /\ m \in RowBlocks /\ m \in Nat /\ m = MBlockMax(params, n) - i
        /\ i \in Nat \ {0} /\ MBlockMin(params, n) <= m
    BY <1>1, VisitInBounds
  <1>3. acc[x] # <<>> /\ Len(acc[x]) \in Nat /\ i <= Len(acc[x])
    <2> DEFINE R == [m : RowBlocks, checked : BOOLEAN]
    <2>1. acc[x] \in Seq(R)
      BY <1>1 DEF TypeOK
    <2> HIDE DEF R
    <2> QED BY <2>1
  <1>4. /\ kernel = "dq_dk_dv" /\ todo[x] # <<>> /\ ~NoKeys(params, n)
        /\ m_block[x] = MBlockMax(params, n) - 1 - Len(acc[x])
    BY <1>1, <1>3 DEF AccInv
  <1>5. /\ Done(x) \in Nat /\ Done(x) + 1 \in DOMAIN CB(x)
        /\ n = CB(x)[Done(x) + 1] /\ n \in Nat /\ IsBwdParams(params)
    BY <1>1, <1>4, CurrentBlock, Setting
  <1>6. MBlockMax(params, n) \in Int
    BY <1>5, MBlockType
  <1> HIDE DEF m, n, b
  <1>7. m < MBlockMax(params, n) /\ m_block[x] < m
    BY <1>2, <1>3, <1>4, <1>6
  <1>8. m \in dPsum
    <2>1. m * kBlockM < params.sq
      BY <1>2, <1>5, <1>7, RowBlockInBounds
    <2> QED BY <1>1, <1>2, <1>4, <2>1 DEF PsumInv, HasRows
  <1>9. Visited(x, Done(x) + 1, m)
    BY <1>2, <1>3, <1>4, <1>5, <1>7 DEF Visited
  <1>10. b \in Buffers /\ AccumInv(b, m) /\ Cleared(m) /\ dqAccum[b][m] \in Seq(Int)
    <2>1. b \in Buffers
      BY DEF b, Buffer, Buffers
    <2> QED BY <1>1, <1>2, <1>8, <2>1 DEF IInv, Cleared, TypeOK
  <1> DEFINE s == dqAccum[b][m]
  <1>11. PICK k \in DOMAIN s : s[k] = CB(x)[Done(x) + 1]
    BY <1>5, <1>9, <1>10 DEF AccumInv, b
  <1>12. 1 \in DOMAIN s /\ Head(s) = s[1]
    BY <1>10, <1>11
  <1>13. PICK y \in CTAs : \E j \in DOMAIN CB(y) : s[1] = CB(y)[j]
    BY <1>10, <1>12 DEF AccumInv
  <1>14. s[1] \in Nat
    BY <1>1, <1>13, CBType
  <1>15. Head(s) # Head(Garbage)
    BY <1>12, <1>14 DEF Garbage
  <1> QED BY <1>8, <1>15 DEF m, b

\* Where the grid agrees with the kernel, every key has a CTA.
LEMMA EveryKeyOwned ==
    ASSUME TypeOK, GridAgrees(arg), NEW c \in KeyCols
    PROVE  Owned(c)
  <1>1. IsBwdParams(params) /\ FullGrid(params)
    BY Setting, BwdParamsType
  <1>2. params.nblocks \in Nat /\ kBlockN \in Nat \ {0}
    BY <1>1, BwdBlockAssumption DEF IsBwdParams
  <1> DEFINE n == c \div kBlockN
  <1>3. params.nblocks * kBlockN = kBlockN * params.nblocks
        /\ params.nblocks * kBlockN \in Nat
    BY <1>2
  <1>4. c \in Int /\ kBlockN * 0 <= c /\ c < kBlockN * params.nblocks
    BY <1>2, <1>3 DEF KeyCols
  <1>5. n \in 0 .. params.nblocks - 1
    <2>1. n \in Int
      BY <1>2, <1>4, DivMod
    <2>2. 0 <= n /\ n < params.nblocks
      BY <1>2, <1>4, DivBounds
    <2> HIDE DEF n
    <2> QED BY <1>2, <2>1, <2>2
  <1>6. c \in TileCols(n)
    BY <1>4, <1>5, ColTile
  <1> HIDE DEF n
  <1>7. PICK x \in 0 .. params.grid - 1 :
            \E i \in DOMAIN ColumnBlocks(params, x) : ColumnBlocks(params, x)[i] = n
    BY <1>1, <1>5, ColumnBlocksCover
  <1>8. x \in CTAs /\ \E i \in DOMAIN CB(x) : CB(x)[i] = n
    BY <1>7 DEF CTAs, CB
  <1> QED BY <1>6, <1>8 DEF Owned

\* When the call has returned, every column block is finished.
LEMMA KeyGradientsExact ==
    ASSUME IInv, GridAgrees(arg)
    PROVE  DKVExact
  <1> SUFFICES ASSUME Returned, NEW c \in KeyCols
               PROVE  gdKV[c] = IF c < params.sk
                                THEN {r \in 0 .. params.sq - 1 :
                                          Attends(FwdMask(arg), r, c)}
                                ELSE Unset
    BY DEF DKVExact
  <1>1. TypeOK /\ DKVInv(c) /\ kernel = "returned" /\ \A x \in CTAs : TodoInv(x)
    BY DEF IInv, Returned
  <1>2. Finished(c)
    <2>1. PICK x \in CTAs : \E j \in DOMAIN CB(x) : c \in TileCols(CB(x)[j])
      BY <1>1, EveryKeyOwned DEF Owned
    <2>2. PICK j \in DOMAIN CB(x) : c \in TileCols(CB(x)[j])
      BY <2>1
    <2>3. todo[x] = <<>>
      BY <1>1 DEF TodoInv
    <2>4. Len(CB(x)) \in Nat /\ DOMAIN CB(x) = 1 .. Len(CB(x))
      BY <1>1, CBType
    <2>5. j <= Done(x)
      BY <2>3, <2>4 DEF Done
    <2> QED BY <2>2, <2>5 DEF Finished
  <1>3. \A r \in 0 .. params.sq - 1 :
            Attends(FwdMask(arg), r, c) <=> Attends(params, r, c)
    BY <1>1, Setting, MasksAgree
  <1>4. {r \in 0 .. params.sq - 1 : Attends(FwdMask(arg), r, c)} =
            {r \in 0 .. params.sq - 1 : Attends(params, r, c)}
    BY <1>3
  <1> QED BY <1>1, <1>2, <1>4 DEF DKVInv

\* When the call has returned, every row block is converted.
LEMMA QueryGradientsExact ==
    ASSUME IInv, GridAgrees(arg)
    PROVE  DQExact
  <1> SUFFICES ASSUME Returned, NEW r \in QueryRows
               PROVE  gdQ[r] = IF r < params.sq
                               THEN {c \in KeyCols : Attends(FwdMask(arg), r, c)}
                               ELSE Unset
    BY DEF DQExact
  <1>1. TypeOK /\ DQInv(r) /\ Converted(r)
    BY DEF IInv, Returned, Converted
  <1>2. CASE r < params.sq
    <2>1. r \in 0 .. arg.sq - 1
      <3>1. r \in Nat /\ params.sq \in Nat /\ params.sq = arg.sq
        BY <1>1, RowBlocksType, Setting DEF IsBwdParams
      <3> QED BY <1>2, <3>1
    <2>2. \A c \in KeyCols : Owned(c) /\ (Attends(FwdMask(arg), r, c)
                                          <=> Attends(params, r, c))
      BY <1>1, <2>1, Setting, MasksAgree, EveryKeyOwned
    <2>3. {c \in KeyCols : Attends(FwdMask(arg), r, c)} =
              {c \in KeyCols : Attends(params, r, c) /\ Owned(c)}
      BY <2>2
    <2> QED BY <1>1, <1>2, <2>3 DEF DQInv
  <1>3. CASE ~(r < params.sq)
    BY <1>1, <1>3 DEF DQInv
  <1> QED BY <1>2, <1>3

-----------------------------------------------------------------------------
(* The order of a deterministic call *)

\* The list of a CTA of the deterministic kernel increases.
LEMMA BlocksIncrease ==
    ASSUME TypeOK, params.deterministic, NEW x \in CTAs,
           NEW i \in DOMAIN CB(x), NEW j \in DOMAIN CB(x), i < j
    PROVE  CB(x)[i] < CB(x)[j]
  <1> DEFINE g == params.grid
  <1>1. g \in Nat \ {0} /\ x \in Int /\ i \in Int /\ j \in Int
    <2>1. g \in Nat \ {0}
      BY Setting DEF IsBwdParams
    <2> QED BY <2>1, CBType DEF CTAs
  <1>2. CB(x)[i] = x + (i - 1) * g /\ CB(x)[j] = x + (j - 1) * g
    BY DEF CB, ColumnBlocks
  <1> HIDE DEF g
  <1>3. g * (j - i) >= g
    BY <1>1, MulSign
  <1>4. (j - 1) * g = (i - 1) * g + g * (j - i)
    BY <1>1
  <1>5. (i - 1) * g \in Int /\ (j - 1) * g \in Int /\ g * (j - i) \in Int
    BY <1>1
  <1> QED BY <1>1, <1>2, <1>3, <1>4, <1>5

\* A deterministic call has added to a buffer in the order of the blocks.
OrderInv(b, m) ==
    LET s == dqAccum[b][m]
    IN  params.deterministic => \A i, j \in DOMAIN s : i < j => s[i] < s[j]

Ordered == \A b \in Buffers, m \in RowBlocks : OrderInv(b, m)

\* A tile's block is larger than those the CTA has added before.
LEMMA TileOrdered ==
    ASSUME IInv, [Next]_vars, Ordered, NEW x \in CTAs, NEW m, NEW checked,
           todo[x] # <<>>, Tile(x, m, checked), acc[x] # <<>> => m = m_block[x]
    PROVE  Ordered'
  <1> SUFFICES ASSUME NEW b \in Buffers, NEW k \in RowBlocks, params.deterministic
               PROVE  OrderInv(b, k)'
    BY SameCall DEF Ordered, OrderInv
  <1> DEFINE n == Block(x)
             s == dqAccum[b][k]
  <1>1. /\ TypeOK /\ TodoInv(x) /\ AccumInv(b, k) /\ OrderInv(b, k)
        /\ m_block[x] \in Int
    BY DEF IInv, TypeOK, Ordered
  <1>2. params' = params /\ dqAccum' = [dqAccum EXCEPT ![Buffer(x)][m] = Append(@, n)]
    BY DEF Tile
  <1>3. /\ dqAccum \in [Buffers -> [RowBlocks -> Seq(Int)]] /\ s \in Seq(Int)
        /\ Len(s) \in Nat /\ DOMAIN s = 1 .. Len(s)
    BY <1>1 DEF TypeOK
  <1>4. /\ Done(x) \in Nat /\ Done(x) + 1 \in DOMAIN CB(x)
        /\ n = CB(x)[Done(x) + 1] /\ n \in Nat
    BY <1>1, CurrentBlock
  <1>5. CASE ~(b = x /\ k = m)
    <2>1. dqAccum'[b][k] = s
      BY <1>2, <1>3, <1>5 DEF Buffer
    <2> QED BY <1>1, <1>2, <2>1 DEF OrderInv
  <1>6. CASE b = x /\ k = m
    <2> DEFINE t == Append(s, n)
    <2>1. dqAccum'[b][k] = t
      BY <1>2, <1>3, <1>6 DEF Buffer
    <2>2. ASSUME NEW i \in DOMAIN s PROVE s[i] < n /\ s[i] \in Int
      <3>1. PICK y \in CTAs : \E j \in DOMAIN CB(y) :
                Buffer(y) = b /\ s[i] = CB(y)[j] /\ Visited(y, j, k)
        BY <1>1 DEF AccumInv, Cleared
      <3>2. PICK j \in DOMAIN CB(y) :
                Buffer(y) = b /\ s[i] = CB(y)[j] /\ Visited(y, j, k)
        BY <3>1
      <3>3. y = x
        BY <1>6, <3>2 DEF Buffer
      <3>4. j < Done(x) + 1
        <4>1. j \in Nat
          BY <1>1, CBType
        <4>2. ~(acc[x] # <<>> /\ m_block[x] < m)
          BY <1>1
        <4> QED BY <1>4, <1>6, <3>2, <3>3, <4>1, <4>2 DEF Visited
      <3> QED BY <1>1, <1>3, <1>4, <3>2, <3>3, <3>4, BlocksIncrease
    <2> HIDE DEF n, s
    <2>3. /\ DOMAIN t = 1 .. Len(s) + 1 /\ t[Len(s) + 1] = n
          /\ \A i \in DOMAIN s : t[i] = s[i]
      BY <1>3
    <2>4. \A i, j \in DOMAIN s : i < j => s[i] < s[j]
      BY <1>1 DEF OrderInv, s
    <2> HIDE DEF t
    <2>5. ASSUME NEW i \in DOMAIN t, NEW j \in DOMAIN t, i < j
          PROVE  t[i] < t[j]
      <3>1. i \in DOMAIN s
        BY <1>3, <2>3, <2>5
      <3>2. CASE j = Len(s) + 1
        BY <2>2, <2>3, <3>1, <3>2
      <3>3. CASE j # Len(s) + 1
        <4>1. j \in DOMAIN s
          BY <1>3, <2>3, <3>3
        <4> QED BY <2>3, <2>4, <2>5, <3>1, <4>1
      <3> QED BY <3>2, <3>3
    <2> QED BY <2>1, <2>5 DEF OrderInv
  <1> QED BY <1>5, <1>6

\* Every step keeps the order; dot_do_o clears buffers for the others only.
LEMMA OrderKept ==
    ASSUME IInv, [Next]_vars, Ordered
    PROVE  Ordered'
  <1>1. /\ params' = params /\ Buffers' = Buffers /\ RowBlocks' = RowBlocks
    BY SameCall
  <1>2. ASSUME params.deterministic => dqAccum' = dqAccum PROVE Ordered'
    BY <1>1, <1>2 DEF Ordered, OrderInv
  <1>3. ASSUME NEW x \in CTAs, FirstTile(x) PROVE Ordered'
    BY <1>3, TileOrdered DEF FirstTile, Idle
  <1>4. ASSUME NEW x \in CTAs, NextTile(x) PROVE Ordered'
    <2>1. AccInv(x)
      BY DEF IInv
    <2> QED BY <1>4, <2>1, TileOrdered DEF NextTile, AccInv
  <1>5. ASSUME NEW m \in RowBlocks, DotDoO(m) PROVE Ordered'
    BY <1>2, <1>5 DEF DotDoO
  <1>6. ASSUME NEW m \in RowBlocks, ConvertDQ(m) PROVE Ordered'
    BY <1>2, <1>6 DEF ConvertDQ
  <1>7. ASSUME NEW x \in CTAs, Skip(x) \/ StoreZero(x) \/ StoreKV(x) \/ Exit(x)
        PROVE  Ordered'
    BY <1>2, <1>7 DEF Skip, StoreZero, StoreKV, Exit
  <1>8. CASE UNCHANGED vars
    BY <1>2, <1>8 DEF vars
  <1> QED BY <1>3, <1>4, <1>5, <1>6, <1>7, <1>8 DEF Next, Step

\* In the end a buffer holds the blocks of its CTA that visit the row block.
LEMMA OrderDetermined == IInv /\ Ordered => Deterministic
  <1> SUFFICES ASSUME IInv, Ordered, Returned, params.deterministic,
                      NEW b \in Buffers, NEW m \in RowBlocks
               PROVE  LET s == dqAccum[b][m]
                      IN  /\ {s[i] : i \in DOMAIN s} =
                                 {n \in {CB(b)[i] : i \in DOMAIN CB(b)} :
                                     /\ ~NoKeys(params, n)
                                     /\ m >= MBlockMin(params, n)
                                     /\ m < MBlockMax(params, n)}
                          /\ \A i, j \in DOMAIN s : i < j => s[i] < s[j]
    BY DEF Deterministic, CB
  <1> DEFINE s == dqAccum[b][m]
             Meets(n) == /\ ~NoKeys(params, n) /\ m >= MBlockMin(params, n)
                         /\ m < MBlockMax(params, n)
  <1>1. /\ TypeOK /\ AccumInv(b, m) /\ OrderInv(b, m) /\ b \in CTAs
        /\ kernel = "returned" /\ m \in Int
    BY RowBlocksType DEF IInv, Ordered, Buffers, Returned
  <1>2. ASSUME NEW j \in DOMAIN CB(b)
        PROVE  Visited(b, j, m) <=> Meets(CB(b)[j])
    <2>1. /\ CB(b)[j] \in 0 .. params.nblocks - 1 /\ CB(b)[j] \in Nat
          /\ IsBwdParams(params)
      BY <1>1, CBType, Setting
    <2>2. MBlockMin(params, CB(b)[j]) \in Nat
      BY <2>1, MBlockType
    <2> QED BY <1>1, <2>2, AllVisited
  <1>3. ASSUME NEW i \in DOMAIN s
        PROVE  \E j \in DOMAIN CB(b) : s[i] = CB(b)[j] /\ Meets(s[i])
    <2>1. PICK y \in CTAs : \E j \in DOMAIN CB(y) :
              Buffer(y) = b /\ s[i] = CB(y)[j] /\ Visited(y, j, m)
      BY <1>1 DEF AccumInv, Cleared
    <2>2. y = b
      BY <2>1 DEF Buffer
    <2> HIDE DEF Meets, s
    <2> QED BY <1>2, <2>1, <2>2
  <1>4. ASSUME NEW j \in DOMAIN CB(b), Meets(CB(b)[j])
        PROVE  \E i \in DOMAIN s : s[i] = CB(b)[j]
    <2>1. Visited(b, j, m) /\ Buffer(b) = b
      BY <1>2, <1>4 DEF Buffer
    <2> QED BY <1>1, <2>1 DEF AccumInv, Cleared
  <1>5. \A i, j \in DOMAIN s : i < j => s[i] < s[j]
    BY <1>1 DEF OrderInv
  <1> HIDE DEF s, Meets
  <1>6. {s[i] : i \in DOMAIN s} = {n \in {CB(b)[i] : i \in DOMAIN CB(b)} : Meets(n)}
    BY <1>3, <1>4
  <1> QED BY <1>5, <1>6 DEF s, Meets

-----------------------------------------------------------------------------
(* Theorems *)

\* The invariant holds of every behaviour of the backward pass.
THEOREM Inductive == Spec => []IInv
  <1>1. IInv /\ [Next]_vars => IInv'
    BY NextKeeps
  <1> QED BY <1>1, InitKeeps, PTL DEF Spec

\* The call and its parameters stay what the host derived; buffers,
\* accumulators and gradients stay within their types.
THEOREM TypeCorrect == Spec => []TypeOK
  <1>1. IInv => TypeOK
    BY DEF IInv
  <1> QED BY <1>1, Inductive, PTL

\* However the CTAs of the dq_dk_dv kernel interleave, no tile's share is
\* added to dQaccum twice: column_block_idx hands out each column block once.
THEOREM TilesOnce == Spec => []TileOnce
  <1> QED BY NoTileTwice, Inductive, PTL

\* The row blocks the loop of the dq_dk_dv kernel prefetches without a bound
\* check lie within the queries.
THEOREM LoadsInBounds == Spec => []UncheckedLoadsInBounds
  <1> QED BY LoadsInside, Inductive, PTL

\* A tile only reads rows whose dPsum dot_do_o has stored, and only adds to
\* accumulators that were cleared or allocated as zeros.
THEOREM NoStale == Spec => []NoStaleRead
  <1> QED BY ReadsInitialised, Inductive, PTL

\* If the host never halves a grid whose CTAs then do one column block each,
\* dK and dV of every key combine exactly the queries the forward pass let
\* attend it, and nothing is stored past the keys.
THEOREM KeyGradients ==
    ASSUME \A a \in Args : GridAgrees(a)
    PROVE  Spec => []DKVExact
  <1>1. IInv => DKVExact
    <2>1. IInv => GridAgrees(arg)
      BY DEF IInv, TypeOK
    <2> QED BY <2>1, KeyGradientsExact
  <1> QED BY <1>1, Inductive, PTL

\* Under the same condition dQ of every query combines exactly the keys it
\* attended in the forward pass.
THEOREM QueryGradients ==
    ASSUME \A a \in Args : GridAgrees(a)
    PROVE  Spec => []DQExact
  <1>1. IInv => DQExact
    <2>1. IInv => GridAgrees(arg)
      BY DEF IInv, TypeOK
    <2> QED BY <2>1, QueryGradientsExact
  <1> QED BY <1>1, Inductive, PTL

\* A deterministic call sums the shares of dQ in one order, whatever the order
\* of its CTAs.
THEOREM OrderFixed == Spec => []Deterministic
  <1>1. Init => Ordered
    BY DEF Init, Ordered, OrderInv
  <1>2. IInv /\ Ordered /\ [Next]_vars => Ordered'
    BY OrderKept
  <1>3. Spec => []Ordered
    BY <1>1, <1>2, Inductive, PTL DEF Spec
  <1> QED BY <1>3, OrderDetermined, Inductive, PTL
=============================================================================
