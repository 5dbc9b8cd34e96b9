--------------------------- MODULE BwdTilingProofs ---------------------------
(***************************************************************************)
(* Facts about the operators of BwdTiling, for every tile shape, every     *)
(* sequence length, window and grid.  The facts about division are among   *)
(* those of FwdTilingProofs, which declares the tile shape of the other    *)
(* direction and so cannot be extended here.                               *)
(***************************************************************************)
EXTENDS BwdTiling, TLAPS

-----------------------------------------------------------------------------
(* Division *)

\* Euclidean division by a positive number, the form the provers can use.
LEMMA DivMod ==
    ASSUME NEW b \in Nat \ {0}, NEW c \in Int
    PROVE  /\ c \div b \in Int
           /\ c % b \in 0 .. b - 1
           /\ c = b * (c \div b) + (c % b)
  OBVIOUS

\* A product with a positive factor is at least that factor when the other
\* one is positive, and at most its opposite when it is negative.
LEMMA MulSign ==
    ASSUME NEW b \in Nat \ {0}, NEW x \in Int
    PROVE  /\ x >= 1 => b * x >= b
           /\ x <= -1 => b * x <= -b
  <1>1. CASE x >= 1
    <2>1. b * x = b + b * (x - 1)
      OBVIOUS
    <2>2. b * (x - 1) >= 0
      BY <1>1
    <2> QED BY <1>1, <2>1, <2>2
  <1>2. CASE x <= -1
    <2>1. b * x = -b - b * (-1 - x)
      OBVIOUS
    <2>2. b * (-1 - x) >= 0
      BY <1>2
    <2> QED BY <1>2, <2>1, <2>2
  <1>3. CASE x = 0
    BY <1>3
  <1> QED BY <1>1, <1>2, <1>3

\* Multiplying by a positive number is monotone.
LEMMA MulMono ==
    ASSUME NEW b \in Nat \ {0}, NEW x \in Int, NEW y \in Int, x <= y
    PROVE  b * x \in Int /\ b * y \in Int /\ b * x <= b * y
  <1>1. b * y = b * x + b * (y - x)
    OBVIOUS
  <1>2. b * (y - x) >= 0
    OBVIOUS
  <1> QED BY <1>1, <1>2

\* c lies in block n exactly when n*b <= c < (n+1)*b.
LEMMA DivBounds ==
    ASSUME NEW b \in Nat \ {0}, NEW c \in Int, NEW n \in Int
    PROVE  /\ b * n <= c <=> n <= c \div b
           /\ c < b * n <=> c \div b < n
  <1> DEFINE q == c \div b
             x == n - q
  <1>1. q \in Int /\ c % b \in 0 .. b - 1 /\ c = b * q + (c % b)
    BY DivMod
  <1>2. b * n = b * q + b * x
    BY <1>1
  <1>3. b * x \in Int /\ b * q \in Int /\ b * n \in Int
    BY <1>1
  <1>4. x >= 1 => b * x >= b
    BY <1>1, MulSign
  <1>5. x <= 0 => b * x <= 0
    BY <1>1, MulSign
  <1> HIDE DEF q
  <1> QED BY <1>1, <1>2, <1>3, <1>4, <1>5

\* Truncation is floor for a numerator that is not negative, and not positive
\* for one that is.
LEMMA TruncDivBounds ==
    ASSUME NEW b \in Nat \ {0}, NEW a \in Int
    PROVE  /\ TruncDiv(a, b) \in Int
           /\ a >= 0 => TruncDiv(a, b) = a \div b /\ TruncDiv(a, b) >= 0
           /\ a < 0 => TruncDiv(a, b) <= 0
  <1>1. \A c \in Nat : c \div b \in Int /\ c \div b >= 0
    <2> TAKE c \in Nat
    <2>1. c \div b \in Int
      BY DivMod
    <2>2. 0 <= c \div b
      BY DivBounds, b * 0 = 0
    <2> QED BY <2>1, <2>2
  <1>2. CASE a >= 0
    BY <1>1, <1>2 DEF TruncDiv
  <1>3. CASE a < 0
    <2>1. -a \in Nat
      BY <1>3
    <2> QED BY <1>1, <1>3, <2>1 DEF TruncDiv
  <1> QED BY <1>2, <1>3

\* ceil_div of integers is an integer.
LEMMA CeilDivType ==
    ASSUME NEW b \in Nat \ {0}, NEW y \in Int
    PROVE  CeilDiv(y, b) \in Int
  <1>1. y + b - 1 \in Int
    OBVIOUS
  <1> QED BY <1>1, TruncDivBounds DEF CeilDiv

\* Every column below y lies below block CeilDiv(y, b).
LEMMA CeilDivCovers ==
    ASSUME NEW b \in Nat \ {0}, NEW y \in Int, NEW c \in Nat, c < y
    PROVE  c \div b < CeilDiv(y, b)
  <1> DEFINE z == y + b - 1
             q == z \div b
  <1>1. z \in Int /\ z >= 0 /\ q \in Int
    <2>1. z \in Int /\ z >= 0
      OBVIOUS
    <2> HIDE DEF z
    <2> QED BY <2>1, DivMod
  <1>2. CeilDiv(y, b) = q
    BY <1>1 DEF CeilDiv, TruncDiv
  <1>3. c \div b \in Int /\ b * (c \div b) \in Int /\ b * (c \div b) <= c
    BY DivMod
  <1>4. b * (c \div b + 1) = b * (c \div b) + b
    BY <1>3
  <1>5. b * (c \div b + 1) <= z
    BY <1>3, <1>4
  <1>6. c \div b + 1 <= q
    <2>1. c \div b + 1 \in Int
      BY <1>3
    <2> HIDE DEF z
    <2> QED BY <1>1, <1>5, <2>1, DivBounds
  <1> QED BY <1>1, <1>2, <1>3, <1>6

\* When it is positive, b * CeilDiv(y, b) overshoots y by less than a block.
LEMMA CeilDivBounds ==
    ASSUME NEW b \in Nat \ {0}, NEW y \in Int
    PROVE  CeilDiv(y, b) > 0 =>
               y > 0 /\ y <= b * CeilDiv(y, b) /\ b * CeilDiv(y, b) < y + b
  <1> DEFINE z == y + b - 1
             q == z \div b
  <1>1. z \in Int
    OBVIOUS
  <1>2. q \in Int /\ z % b \in 0 .. b - 1 /\ z = b * q + (z % b) /\ b * q \in Int
    <2> HIDE DEF z
    <2> QED BY <1>1, DivMod
  <1> SUFFICES ASSUME CeilDiv(y, b) > 0
               PROVE  y > 0 /\ y <= b * CeilDiv(y, b) /\ b * CeilDiv(y, b) < y + b
    OBVIOUS
  <1>3. z >= 0
    <2>1. z < 0 => CeilDiv(y, b) <= 0
      BY <1>1, TruncDivBounds DEF CeilDiv
    <2> QED BY <1>1, <2>1, CeilDivType
  <1>4. CeilDiv(y, b) = q
    BY <1>3 DEF CeilDiv, TruncDiv
  <1>5. b * q >= b
    BY <1>2, <1>4, MulSign
  <1> HIDE DEF q
  <1> QED BY <1>2, <1>4, <1>5

\* A quotient without remainder needs no rounding.
LEMMA CeilDivExact ==
    ASSUME NEW b \in Nat \ {0}, NEW y \in Nat, y % b = 0
    PROVE  CeilDiv(y, b) = y \div b /\ b * CeilDiv(y, b) = y
  <1> DEFINE q == y \div b
  <1>1. q \in Int /\ b * q \in Int /\ y = b * q
    BY DivMod
  <1>2. b * (q + 1) = b * q + b
    BY <1>1
  <1>3. (y + b - 1) \div b = q
    <2>1. y + b - 1 \in Int /\ (y + b - 1) \div b \in Int
      <3>1. y + b - 1 \in Int
        OBVIOUS
      <3> QED BY <3>1, DivMod
    <2>2. b * q <= y + b - 1 /\ y + b - 1 < b * (q + 1)
      BY <1>1, <1>2
    <2> HIDE DEF q
    <2>3. q <= (y + b - 1) \div b
      BY <1>1, <2>1, <2>2, DivBounds
    <2>4. (y + b - 1) \div b < q + 1
      BY <1>1, <2>1, <2>2, DivBounds
    <2> QED BY <1>1, <2>1, <2>3, <2>4
  <1> QED BY <1>1, <1>3 DEF CeilDiv, TruncDiv

-----------------------------------------------------------------------------
(* Parameters *)

\* What the kernels may assume of the parameters the host derives.
IsBwdParams(p) ==
    /\ p \in [sq : Nat, sk : Nat, wl : Int, wr : Int,
              causal : BOOLEAN, local : BOOLEAN, even : BOOLEAN,
              deterministic : BOOLEAN, balance : BOOLEAN,
              nblocks : Nat \ {0}, grid : Nat \ {0}]
    /\ p.causal => p.wr = 0 /\ ~p.local
    /\ p.even => /\ ~p.local /\ p.sq > 0 /\ p.sq % kBlockM = 0
                 /\ p.sk = kBlockN * p.nblocks
    /\ p.sk <= kBlockN * p.nblocks
    /\ p.balance => ~p.deterministic /\ 2 * p.grid = p.nblocks
    /\ ~p.balance /\ ~p.deterministic => p.grid <= p.nblocks

\* The grid is halved only if the kernel does two blocks per CTA.
GridAgrees(a) == IsBalance(a) => a.deterministic \/ BwdMask(a).causal

\* The grid has a CTA for every column block.
FullGrid(p) == ~p.balance /\ ~p.deterministic => p.grid = p.nblocks

\* What set_params_fprop derives is well typed.
LEMMA MaskParamsType ==
    ASSUME NEW a, a.sq \in Nat, a.sk \in Nat, a.seqlen_k \in Nat,
           NEW l \in Int, NEW r \in Int
    PROVE  LET p == MaskParams(a, l, r)
           IN  /\ p.sq = a.sq /\ p.sk = a.sk /\ p.wl \in Int /\ p.wr \in Int
               /\ p.causal \in BOOLEAN /\ p.local \in BOOLEAN
               /\ p.causal => p.wr = 0 /\ ~p.local
  <1> DEFINE p == MaskParams(a, l, r)
             wl == IF l < 0 /\ r >= 0 THEN a.seqlen_k ELSE l
             wr == IF wl >= 0 /\ r < 0 THEN a.seqlen_k ELSE r
  <1>1. /\ p.sq = a.sq /\ p.sk = a.sk /\ p.wl = wl /\ p.wr = wr
        /\ p.causal = (l < 0 /\ r = 0)
        /\ p.local = (~(l < 0 /\ r = 0) /\ (wl >= 0 \/ wr >= 0))
    BY DEF MaskParams
  <1>2. wl \in Int /\ wr \in Int
    OBVIOUS
  <1>3. l < 0 /\ r = 0 => wr = 0
    OBVIOUS
  <1> HIDE DEF p, wl, wr
  <1> QED BY <1>1, <1>2, <1>3 DEF p

\* Which windows are causal and which are local.
LEMMA MaskKind ==
    ASSUME NEW a, NEW l \in Int, NEW r \in Int, a.seqlen_k \in Nat
    PROVE  LET p == MaskParams(a, l, r)
           IN  /\ p.causal <=> l < 0 /\ r = 0
               /\ p.local <=> l >= 0 \/ r > 0
  <1> DEFINE p == MaskParams(a, l, r)
             wl == IF l < 0 /\ r >= 0 THEN a.seqlen_k ELSE l
             wr == IF wl >= 0 /\ r < 0 THEN a.seqlen_k ELSE r
  <1>1. p.causal <=> (l < 0 /\ r = 0)
    BY DEF MaskParams
  <1>2. p.local <=> ~(l < 0 /\ r = 0) /\ (wl >= 0 \/ wr >= 0)
    BY DEF MaskParams
  <1>3. ~(l < 0 /\ r = 0) /\ (wl >= 0 \/ wr >= 0) <=> l >= 0 \/ r > 0
    OBVIOUS
  <1> HIDE DEF p, wl, wr
  <1>4. p.local <=> l >= 0 \/ r > 0
    BY <1>2, <1>3
  <1> QED BY <1>1, <1>4 DEF p

\* The blocks of a non-empty sequence cover it.
LEMMA NBlocks ==
    ASSUME NEW k \in Nat \ {0}, NEW b \in Nat \ {0}
    PROVE  CeilDiv(k, b) \in Nat \ {0} /\ k <= b * CeilDiv(k, b)
  <1>1. 0 \div b < CeilDiv(k, b) /\ 0 \div b \in Int /\ 0 <= 0 \div b
    <2>1. k \in Int /\ 0 < k /\ 0 \in Nat /\ 0 \in Int /\ b * 0 <= 0
      OBVIOUS
    <2> QED BY <2>1, CeilDivCovers, DivMod, DivBounds
  <1>2. k \in Int /\ CeilDiv(k, b) \in Int
    BY CeilDivType
  <1>3. CeilDiv(k, b) > 0
    BY <1>1, <1>2
  <1> QED BY <1>2, <1>3, CeilDivBounds

\* The mask of a backward call is well typed.
LEMMA BwdMaskType ==
    ASSUME NEW a, IsBwdCall(a)
    PROVE  LET p == BwdMask(a)
           IN  /\ p.sq = a.sq /\ p.sk = a.sk /\ p.wl \in Int /\ p.wr \in Int
               /\ p.causal \in BOOLEAN /\ p.local \in BOOLEAN
               /\ p.causal => p.wr = 0 /\ ~p.local
  <1>1. /\ a.sq \in Nat /\ a.sk \in Nat /\ a.seqlen_k \in Nat
        /\ Clamp(a.wl, a.seqlen_k) \in Int
        /\ Clamp(IF a.causal THEN 0 ELSE a.wr, a.seqlen_k) \in Int
    BY DEF IsBwdCall, Clamp, Unlimited
  <1> QED BY <1>1, MaskParamsType DEF BwdMask

\* The host derives what the kernels may assume.
LEMMA BwdParamsType ==
    ASSUME NEW a, IsBwdCall(a)
    PROVE  /\ IsBwdParams(BwdParams(a))
           /\ GridAgrees(a) => FullGrid(BwdParams(a))
  <1> DEFINE p == BwdParams(a)
             b == BwdMask(a)
             nb == CeilDiv(a.seqlen_k, kBlockN)
  <1>1. /\ a.varlen \in BOOLEAN /\ a.evenK \in BOOLEAN
        /\ a.deterministic \in BOOLEAN /\ a.nsplits \in Nat \ {0}
        /\ a.seqlen_q \in Nat \ {0} /\ a.seqlen_k \in Nat \ {0}
        /\ a.sq \in Nat /\ a.sk \in Nat /\ a.sk <= a.seqlen_k
        /\ ~a.varlen => a.sq = a.seqlen_q /\ a.sk = a.seqlen_k
    BY DEF IsBwdCall
  <1>2. nb \in Nat \ {0} /\ a.seqlen_k <= kBlockN * nb
    BY <1>1, NBlocks, BwdBlockAssumption
  <1>3. /\ b.sq = a.sq /\ b.sk = a.sk /\ b.wl \in Int /\ b.wr \in Int
        /\ b.causal \in BOOLEAN /\ b.local \in BOOLEAN
        /\ b.causal => b.wr = 0 /\ ~b.local
    BY BwdMaskType
  <1>4. IsBalance(a) \in BOOLEAN /\ (IsBalance(a) => nb % 2 = 0)
    BY DEF IsBalance
  <1>5. /\ p.sq = b.sq /\ p.sk = b.sk /\ p.wl = b.wl /\ p.wr = b.wr
        /\ p.causal = b.causal /\ p.local = b.local
        /\ p.even = (/\ a.evenK /\ ~b.local /\ ~a.varlen
                     /\ a.seqlen_q % kBlockM = 0
                     /\ a.seqlen_k % kBlockN = 0)
        /\ p.deterministic = a.deterministic
        /\ p.balance = (IsBalance(a) /\ b.causal /\ ~a.deterministic)
        /\ p.nblocks = nb
        /\ p.grid = GridDim(a)
        /\ p = [sq |-> p.sq, sk |-> p.sk, wl |-> p.wl, wr |-> p.wr,
                causal |-> p.causal, local |-> p.local, even |-> p.even,
                deterministic |-> p.deterministic, balance |-> p.balance,
                nblocks |-> p.nblocks, grid |-> p.grid]
    BY DEF BwdParams
  <1>6. p.grid = IF a.deterministic THEN a.nsplits
                 ELSE IF IsBalance(a) THEN nb \div 2 ELSE nb
    BY <1>5 DEF GridDim
  <1> HIDE DEF p, b, nb
  <1>7. nb % 2 = 0 => nb \div 2 \in Nat \ {0} /\ 2 * (nb \div 2) = nb
    BY <1>2
  <1>8. p.grid \in Nat \ {0}
    BY <1>1, <1>2, <1>4, <1>6, <1>7
  <1>9. p \in [sq : Nat, sk : Nat, wl : Int, wr : Int,
              causal : BOOLEAN, local : BOOLEAN, even : BOOLEAN,
              deterministic : BOOLEAN, balance : BOOLEAN,
              nblocks : Nat \ {0}, grid : Nat \ {0}]
    <2>1. /\ p.sq \in Nat /\ p.sk \in Nat /\ p.wl \in Int /\ p.wr \in Int
          /\ p.nblocks \in Nat \ {0} /\ p.grid \in Nat \ {0}
      BY <1>1, <1>2, <1>3, <1>5, <1>8
    <2>2. /\ p.causal \in BOOLEAN /\ p.local \in BOOLEAN /\ p.even \in BOOLEAN
          /\ p.deterministic \in BOOLEAN /\ p.balance \in BOOLEAN
      BY <1>1, <1>3, <1>4, <1>5, Zenon
    <2>3. p = [sq |-> p.sq, sk |-> p.sk, wl |-> p.wl, wr |-> p.wr,
               causal |-> p.causal, local |-> p.local, even |-> p.even,
               deterministic |-> p.deterministic, balance |-> p.balance,
               nblocks |-> p.nblocks, grid |-> p.grid]
      BY <1>5
    <2> QED BY <2>1, <2>2, <2>3, Zenon
  <1>10. p.causal => p.wr = 0 /\ ~p.local
    BY <1>3, <1>5
  <1>11. p.even => /\ ~p.local /\ p.sq > 0 /\ p.sq % kBlockM = 0
                   /\ p.sk = kBlockN * p.nblocks
    <2> SUFFICES ASSUME p.even
                 PROVE  /\ ~p.local /\ p.sq > 0 /\ p.sq % kBlockM = 0
                        /\ p.sk = kBlockN * p.nblocks
      OBVIOUS
    <2>1. /\ ~b.local /\ ~a.varlen /\ a.seqlen_q % kBlockM = 0
          /\ a.seqlen_k % kBlockN = 0
      BY <1>5
    <2>2. kBlockN * nb = a.seqlen_k
      BY <1>1, <2>1, CeilDivExact, BwdBlockAssumption DEF nb
    <2> QED BY <1>1, <1>3, <1>5, <2>1, <2>2
  <1>12. p.sk <= kBlockN * p.nblocks
    BY <1>1, <1>2, <1>3, <1>5, BwdBlockAssumption
  <1>13. p.balance => ~p.deterministic /\ 2 * p.grid = p.nblocks
    BY <1>4, <1>5, <1>6, <1>7
  <1>14. ~p.balance /\ ~p.deterministic => p.grid <= p.nblocks
    BY <1>2, <1>4, <1>5, <1>6, <1>7
  <1>15. GridAgrees(a) => FullGrid(p)
    BY <1>5, <1>6 DEF GridAgrees, FullGrid, b
  <1>16. IsBwdParams(p)
    BY <1>9, <1>10, <1>11, <1>12, <1>13, <1>14 DEF IsBwdParams
  <1> QED BY <1>15, <1>16 DEF p

\* The backward pass masks what the forward pass masked, although the two
\* entry points normalise a causal call with a single query differently.
LEMMA MasksAgree ==
    ASSUME NEW a, IsBwdCall(a), NEW r \in 0 .. a.sq - 1, NEW c
    PROVE  Attends(FwdMask(a), r, c) <=> Attends(BwdParams(a), r, c)
  <1> DEFINE f == FwdMask(a)
             b == BwdMask(a)
             l == Clamp(a.wl, a.seqlen_k)
             rf == ApiWindowRight(a)
             rb == Clamp(IF a.causal THEN 0 ELSE a.wr, a.seqlen_k)
  <1>1. /\ a.seqlen_q \in Nat \ {0} /\ a.seqlen_k \in Nat \ {0}
        /\ a.sq \in Nat /\ a.sk \in Nat /\ a.causal \in BOOLEAN
        /\ a.wl \in Int /\ a.wr \in Int
        /\ a.sq <= a.seqlen_q /\ a.sk <= a.seqlen_k
    BY DEF IsBwdCall
  <1>2. Attends(BwdParams(a), r, c) <=> Attends(b, r, c)
    BY DEF BwdParams, Attends
  <1>3. /\ l \in Int /\ rf \in Int /\ rb \in Int
        /\ a.seqlen_q # 1 => rf = rb
        /\ ~a.causal => rf = rb
        /\ a.causal => rb = 0
    BY <1>1 DEF ApiWindowRight, EffectiveCausal, Clamp, Unlimited
  <1>4. f = MaskParams(a, l, rf) /\ b = MaskParams(a, l, rb)
    BY DEF FwdMask, BwdMask
  <1>5. /\ f.causal <=> l < 0 /\ rf = 0
        /\ f.local <=> l >= 0 \/ rf > 0
        /\ b.causal <=> l < 0 /\ rb = 0
        /\ b.local <=> l >= 0 \/ rb > 0
    <2> HIDE DEF l, rf, rb
    <2> QED BY <1>1, <1>3, <1>4, MaskKind
  <1> HIDE DEF f, b, l, rf, rb
  <1>6. CASE rf = rb
    BY <1>2, <1>4, <1>6 DEF f, b
  <1>7. CASE rf # rb
    <2>1. a.seqlen_q = 1 /\ a.causal /\ rb = 0 /\ r = 0 /\ a.sq = 1
      BY <1>1, <1>3, <1>7
    <2>2. /\ b.sq = 1 /\ b.sk = a.sk /\ b.wr = 0
          /\ l >= 0 => b.wl = l
      BY <1>1, <1>3, <1>4, <2>1 DEF MaskParams
    <2>3. Attends(b, r, c) <=> c \in 0 .. a.sk - 1 /\ (l >= 0 => c >= a.sk - 1 - l)
      <3>1. Attends(b, r, c) => c \in 0 .. a.sk - 1
        BY <2>2 DEF Attends
      <3>2. ASSUME c \in 0 .. a.sk - 1
            PROVE  Attends(b, r, c) <=> (l >= 0 => c >= a.sk - 1 - l)
        <4>1. CASE l >= 0
          <5>1. b.local /\ ~b.causal
            BY <1>3, <1>5, <2>1, <4>1
          <5> QED BY <1>1, <1>3, <2>1, <2>2, <3>2, <4>1, <5>1 DEF Attends
        <4>2. CASE l < 0
          <5>1. ~b.local /\ b.causal
            BY <1>3, <1>5, <2>1, <4>2
          <5> QED BY <1>1, <1>3, <2>1, <2>2, <3>2, <4>2, <5>1 DEF Attends
        <4> QED BY <1>3, <4>1, <4>2
      <3> QED BY <3>1, <3>2
    <2>4. /\ f.sq = 1 /\ f.sk = a.sk
          /\ f.wl = IF l < 0 /\ rf >= 0 THEN a.seqlen_k ELSE l
          /\ l >= 0 => f.wr = IF rf < 0 THEN a.seqlen_k ELSE rf
          /\ l < 0 /\ rf >= 0 => f.wr = rf
      BY <1>1, <1>3, <1>4, <2>1 DEF MaskParams
    <2>5. Attends(f, r, c) <=> c \in 0 .. a.sk - 1 /\ (l >= 0 => c >= a.sk - 1 - l)
      <3>1. Attends(f, r, c) => c \in 0 .. a.sk - 1
        BY <2>4 DEF Attends
      <3>2. ASSUME c \in 0 .. a.sk - 1
            PROVE  Attends(f, r, c) <=> (l >= 0 => c >= a.sk - 1 - l)
        <4>1. CASE l < 0 /\ rf < 0
          <5>1. ~f.local /\ ~f.causal
            BY <1>3, <1>5, <2>1, <4>1
          <5> QED BY <1>1, <1>3, <2>1, <2>4, <3>2, <4>1, <5>1 DEF Attends
        <4>2. CASE l < 0 /\ rf = 0
          <5>1. ~f.local /\ f.causal
            BY <1>3, <1>5, <2>1, <4>2
          <5> QED BY <1>1, <1>3, <2>1, <2>4, <3>2, <4>2, <5>1 DEF Attends
        <4>3. CASE l < 0 /\ rf > 0
          <5>1. f.local /\ ~f.causal
            BY <1>3, <1>5, <2>1, <4>3
          <5> QED BY <1>1, <1>3, <2>1, <2>4, <3>2, <4>3, <5>1 DEF Attends
        <4>4. CASE l >= 0
          <5>1. f.local /\ ~f.causal
            BY <1>3, <1>5, <2>1, <4>4
          <5> QED BY <1>1, <1>3, <2>1, <2>4, <3>2, <4>4, <5>1 DEF Attends
        <4> QED BY <1>3, <4>1, <4>2, <4>3, <4>4
      <3> QED BY <3>1, <3>2
    <2> QED BY <1>2, <2>3, <2>5 DEF f
  <1> QED BY <1>6, <1>7

-----------------------------------------------------------------------------
(* Blocks *)

\* An index lies in block m exactly when m is its quotient.
LEMMA TileOf ==
    ASSUME NEW b \in Nat \ {0}, NEW i \in Int, NEW m \in Int
    PROVE  /\ m * b \in Int /\ (m + 1) * b \in Int /\ (m + 1) * b = m * b + b
           /\ i \in m * b .. (m + 1) * b - 1 <=> m = i \div b
  <1>1. m * b = b * m /\ (m + 1) * b = b * (m + 1) /\ (m + 1) * b = m * b + b
    OBVIOUS
  <1>2. m * b \in Int /\ (m + 1) * b \in Int
    OBVIOUS
  <1>3. i \div b \in Int
    BY DivMod
  <1>4. b * m <= i <=> m <= i \div b
    BY DivBounds
  <1>5. i < b * (m + 1) <=> i \div b < m + 1
    BY DivBounds
  <1>6. i \in m * b .. (m + 1) * b - 1 <=> m * b <= i /\ i < (m + 1) * b
    BY <1>2
  <1> QED BY <1>1, <1>2, <1>3, <1>4, <1>5, <1>6

\* A row lies in the row block of its quotient.
LEMMA RowTile ==
    ASSUME NEW r \in Int, NEW m \in Int
    PROVE  r \in TileRows(m) <=> m = r \div kBlockM
  BY TileOf, BwdBlockAssumption DEF TileRows

\* A column lies in the column block of its quotient.
LEMMA ColTile ==
    ASSUME NEW c \in Int, NEW n \in Int
    PROVE  c \in TileCols(n) <=> n = c \div kBlockN
  BY TileOf, BwdBlockAssumption DEF TileCols

\* Truncated division stays below the block of any index it does not exceed.
LEMMA TruncDivBelow ==
    ASSUME NEW b \in Nat \ {0}, NEW x \in Int, NEW i \in Nat, x <= i
    PROVE  TruncDiv(x, b) \in Int /\ TruncDiv(x, b) <= i \div b
  <1>1. i \div b \in Int /\ 0 <= i \div b
    <2>1. b * 0 <= i /\ i \in Int /\ 0 \in Int
      OBVIOUS
    <2> QED BY <2>1, DivMod, DivBounds
  <1>2. TruncDiv(x, b) \in Int
    BY TruncDivBounds
  <1>3. CASE x < 0
    <2>1. TruncDiv(x, b) <= 0
      BY <1>3, TruncDivBounds
    <2> QED BY <1>1, <1>2, <2>1
  <1>4. CASE x >= 0
    <2>1. TruncDiv(x, b) = x \div b
      BY <1>4 DEF TruncDiv
    <2>2. /\ x \div b \in Int /\ b * (x \div b) \in Int
          /\ b * (x \div b) <= x
      BY DivMod
    <2>3. b * (x \div b) <= i /\ i \in Int
      BY <2>2
    <2>4. x \div b <= i \div b
      BY <2>2, <2>3, DivBounds
    <2> QED BY <1>2, <2>1, <2>4
  <1> QED BY <1>3, <1>4

\* The loop bounds are block numbers.
LEMMA MBlockType ==
    ASSUME NEW p, IsBwdParams(p), NEW n \in Nat
    PROVE  /\ MBlockMin(p, n) \in Nat
           /\ MBlockMax(p, n) \in Int
           /\ MBlockMax(p, n) <= CeilDiv(p.sq, kBlockM)
           /\ CeilDiv(p.sq, kBlockM) \in Int
           /\ ~p.local => MBlockMax(p, n) = CeilDiv(p.sq, kBlockM)
  <1>1. /\ p.sq \in Nat /\ p.sk \in Nat /\ p.wl \in Int /\ p.wr \in Int
        /\ p.local \in BOOLEAN
    BY DEF IsBwdParams
  <1>2. n * kBlockN \in Int /\ (n + 1) * kBlockN \in Int /\ kBlockM \in Nat \ {0}
    BY BwdBlockAssumption
  <1> DEFINE lo == TruncDiv(n * kBlockN + p.sq - p.sk - p.wr, kBlockM)
             hi == CeilDiv((n + 1) * kBlockN + p.sq - p.sk + p.wl, kBlockM)
             all == CeilDiv(p.sq, kBlockM)
  <1>3. lo \in Int
    <2>1. n * kBlockN + p.sq - p.sk - p.wr \in Int
      BY <1>1, <1>2
    <2> QED BY <1>2, <2>1, TruncDivBounds
  <1>4. hi \in Int
    <2>1. (n + 1) * kBlockN + p.sq - p.sk + p.wl \in Int
      BY <1>1, <1>2
    <2> QED BY <1>2, <2>1, CeilDivType
  <1>5. all \in Int
    <2>1. p.sq \in Int
      BY <1>1
    <2> QED BY <1>2, <2>1, CeilDivType
  <1>6. /\ MBlockMin(p, n) = IF p.causal \/ p.local THEN AtLeast(0, lo) ELSE 0
        /\ MBlockMax(p, n) = IF p.local THEN AtMost(all, hi) ELSE all
    BY DEF MBlockMin, MBlockMax
  <1> HIDE DEF lo, hi, all
  <1>7. MBlockMin(p, n) \in Nat
    BY <1>3, <1>6 DEF AtLeast
  <1>8. /\ MBlockMax(p, n) \in Int /\ MBlockMax(p, n) <= all
        /\ ~p.local => MBlockMax(p, n) = all
    BY <1>4, <1>5, <1>6 DEF AtMost
  <1> QED BY <1>5, <1>7, <1>8 DEF all

\* No query that attends a key of column block n lies outside the row blocks
\* the kernel visits for it.
LEMMA AttendedRowBlocks ==
    ASSUME NEW p, IsBwdParams(p), NEW n \in Nat, NEW c \in TileCols(n),
           NEW r \in 0 .. p.sq - 1, Attends(p, r, c)
    PROVE  /\ MBlockMin(p, n) <= r \div kBlockM
           /\ r \div kBlockM < MBlockMax(p, n)
           /\ r \div kBlockM \in Nat
  <1> DEFINE lo == n * kBlockN + p.sq - p.sk - p.wr
             hi == (n + 1) * kBlockN + p.sq - p.sk + p.wl
             all == CeilDiv(p.sq, kBlockM)
             q == r \div kBlockM
  <1>1. /\ p.sq \in Nat /\ p.sk \in Nat /\ p.wl \in Int /\ p.wr \in Int
        /\ r \in Nat /\ r < p.sq /\ kBlockM \in Nat \ {0}
        /\ p.causal => p.wr = 0
    BY BwdBlockAssumption DEF IsBwdParams
  <1>2. /\ n * kBlockN \in Int /\ (n + 1) * kBlockN \in Int
        /\ c \in Int /\ n * kBlockN <= c /\ c < (n + 1) * kBlockN
    BY BwdBlockAssumption DEF TileCols
  <1>3. q \in Int /\ 0 <= q
    <2>1. kBlockM * 0 <= r /\ r \in Int /\ 0 \in Int
      BY <1>1
    <2>2. r \div kBlockM \in Int
      BY <1>1, <2>1, DivMod
    <2>3. 0 <= r \div kBlockM
      BY <1>1, <2>1, DivBounds
    <2> QED BY <2>2, <2>3
  <1>4. p.causal \/ p.local => TruncDiv(lo, kBlockM) \in Int /\ TruncDiv(lo, kBlockM) <= q
    <2> SUFFICES ASSUME p.causal \/ p.local
                 PROVE  TruncDiv(lo, kBlockM) \in Int /\ TruncDiv(lo, kBlockM) <= q
      OBVIOUS
    <2>1. lo \in Int /\ lo <= r
      BY <1>1, <1>2 DEF Attends
    <2> HIDE DEF lo
    <2> QED BY <1>1, <2>1, TruncDivBelow
  <1>5. p.local => q < CeilDiv(hi, kBlockM)
    <2> SUFFICES ASSUME p.local
                 PROVE  q < CeilDiv(hi, kBlockM)
      OBVIOUS
    <2>1. hi \in Int /\ r < hi
      BY <1>1, <1>2 DEF Attends
    <2> HIDE DEF hi
    <2> QED BY <1>1, <2>1, CeilDivCovers
  <1>6. q < all
    <2>1. p.sq \in Int /\ r \in Nat /\ r < p.sq /\ kBlockM \in Nat \ {0}
      BY <1>1
    <2>2. r \div kBlockM < CeilDiv(p.sq, kBlockM)
      BY <2>1, CeilDivCovers
    <2> QED BY <2>2
  <1>7. /\ MBlockMin(p, n) = IF p.causal \/ p.local
                             THEN AtLeast(0, TruncDiv(lo, kBlockM)) ELSE 0
        /\ MBlockMax(p, n) = IF p.local
                             THEN AtMost(all, CeilDiv(hi, kBlockM)) ELSE all
    BY DEF MBlockMin, MBlockMax
  <1> HIDE DEF lo, hi, all, q
  <1>8. MBlockMin(p, n) <= q
    BY <1>3, <1>4, <1>7 DEF AtLeast
  <1>9. q < MBlockMax(p, n)
    BY <1>5, <1>6, <1>7 DEF AtMost
  <1> QED BY <1>3, <1>8, <1>9 DEF q

\* A column block that enters the loop has a row block, so that the loop may
\* be entered without testing its guard.
LEMMA LoopNotEmpty ==
    ASSUME NEW p, IsBwdParams(p), NEW n \in 0 .. p.nblocks - 1,
           ~NoQueries(p, n)
    PROVE  MBlockMin(p, n) <= MBlockMax(p, n) - 1
  <1>1. /\ p.sq \in Nat /\ p.sk \in Nat /\ p.wr \in Int
        /\ p.nblocks \in Nat \ {0} /\ n \in Nat
        /\ p.local \in BOOLEAN /\ p.even \in BOOLEAN /\ p.causal \in BOOLEAN
        /\ p.causal => p.wr = 0
    BY DEF IsBwdParams
  <1>2. MBlockMin(p, n) \in Nat /\ MBlockMax(p, n) \in Int
    BY <1>1, MBlockType
  <1>3. CASE p.local \/ ~p.even
    BY <1>2, <1>3 DEF NoQueries
  <1>4. CASE ~p.local /\ p.even
    <2> DEFINE lo == n * kBlockN + p.sq - p.sk - p.wr
               all == CeilDiv(p.sq, kBlockM)
    <2>1. p.sq > 0 /\ p.sk = kBlockN * p.nblocks
      BY <1>4 DEF IsBwdParams
    <2>2. kBlockM \in Nat \ {0} /\ kBlockN \in Nat \ {0}
      BY BwdBlockAssumption
    <2>3. p.causal => lo \in Int /\ lo <= p.sq - 1
      <3> SUFFICES ASSUME p.causal
                   PROVE  lo \in Int /\ lo <= p.sq - 1
        OBVIOUS
      <3>1. kBlockN * (n + 1) <= kBlockN * p.nblocks /\ kBlockN * (n + 1) \in Int
        <4>1. n + 1 \in Int /\ p.nblocks \in Int /\ n + 1 <= p.nblocks
          BY <1>1
        <4> QED BY <2>2, <4>1, MulMono
      <3>2. n * kBlockN + kBlockN = kBlockN * (n + 1) /\ n * kBlockN \in Int
        BY <1>1, <2>2
      <3> QED BY <1>1, <2>1, <2>2, <3>1, <3>2
    <2>4. p.sq - 1 \in Nat /\ p.sq \in Int /\ p.sq - 1 < p.sq
      BY <1>1, <2>1
    <2>5. (p.sq - 1) \div kBlockM < all /\ (p.sq - 1) \div kBlockM \in Int
      <3>1. (p.sq - 1) \div kBlockM < CeilDiv(p.sq, kBlockM)
        BY <2>2, <2>4, CeilDivCovers
      <3>2. (p.sq - 1) \div kBlockM \in Int
        BY <2>2, <2>4, DivMod
      <3> QED BY <3>1, <3>2
    <2>6. p.causal => TruncDiv(lo, kBlockM) \in Int
                      /\ TruncDiv(lo, kBlockM) <= (p.sq - 1) \div kBlockM
      <3> HIDE DEF lo
      <3> QED BY <2>2, <2>3, <2>4, TruncDivBelow
    <2>7. 0 <= (p.sq - 1) \div kBlockM
      <3>1. kBlockM * 0 <= p.sq - 1 /\ 0 \in Int /\ p.sq - 1 \in Int
        BY <2>2, <2>4
      <3> QED BY <2>2, <3>1, DivBounds
    <2>8. /\ MBlockMin(p, n) = IF p.causal THEN AtLeast(0, TruncDiv(lo, kBlockM)) ELSE 0
          /\ MBlockMax(p, n) = all
      BY <1>4 DEF MBlockMin, MBlockMax
    <2> HIDE DEF lo, all
    <2>9. MBlockMin(p, n) <= (p.sq - 1) \div kBlockM
      BY <2>5, <2>6, <2>7, <2>8 DEF AtLeast
    <2>10. all \in Int
      BY <1>2, <2>8
    <2> QED BY <1>2, <2>5, <2>8, <2>9, <2>10
  <1> QED BY <1>1, <1>3, <1>4

\* Every row block below MBlockMax has rows; all but the first of a loop, and
\* all of an even tiling, have no others.
LEMMA RowBlockInBounds ==
    ASSUME NEW p, IsBwdParams(p), NEW n \in Nat,
           NEW m \in Nat, m < MBlockMax(p, n)
    PROVE  /\ m * kBlockM < p.sq
           /\ m < MBlockMax(p, n) - 1 \/ p.even => (m + 1) * kBlockM <= p.sq
  <1> DEFINE all == CeilDiv(p.sq, kBlockM)
  <1>1. p.sq \in Nat /\ p.sq \in Int /\ kBlockM \in Nat \ {0} /\ m \in Int
    BY BwdBlockAssumption DEF IsBwdParams
  <1>2. MBlockMax(p, n) \in Int /\ MBlockMax(p, n) <= all /\ all \in Int
    BY MBlockType
  <1>3. all > 0
    BY <1>1, <1>2
  <1>4. kBlockM * all < p.sq + kBlockM
    BY <1>1, <1>3, CeilDivBounds
  <1>5. p.even => kBlockM * all = p.sq
    <2>1. p.even => p.sq % kBlockM = 0
      BY DEF IsBwdParams
    <2> QED BY <1>1, <2>1, CeilDivExact
  <1>6. /\ m * kBlockM = kBlockM * m /\ (m + 1) * kBlockM = kBlockM * (m + 1)
        /\ kBlockM * (m + 1) = kBlockM * m + kBlockM
        /\ kBlockM * (m + 2) = kBlockM * (m + 1) + kBlockM
        /\ kBlockM * m \in Int /\ kBlockM * (m + 1) \in Int
    BY <1>1
  <1> HIDE DEF all
  <1>7. kBlockM * (m + 1) <= kBlockM * all /\ kBlockM * all \in Int
    <2>1. m + 1 \in Int /\ m + 1 <= all
      BY <1>1, <1>2
    <2> QED BY <1>1, <1>2, <2>1, MulMono
  <1>8. m < MBlockMax(p, n) - 1 => kBlockM * (m + 2) <= kBlockM * all
    <2> SUFFICES ASSUME m < MBlockMax(p, n) - 1
                 PROVE  kBlockM * (m + 2) <= kBlockM * all
      OBVIOUS
    <2>1. m + 2 \in Int /\ m + 2 <= all
      BY <1>1, <1>2
    <2> QED BY <1>1, <1>2, <2>1, MulMono
  <1> QED BY <1>1, <1>4, <1>5, <1>6, <1>7, <1>8

-----------------------------------------------------------------------------
(* Masks *)

\* The masking code keeps exactly the attended scores of a tile, also where
\* the kernel does not run it.
LEMMA BwdKeepExact ==
    ASSUME NEW p, IsBwdParams(p), NEW n \in 0 .. p.nblocks - 1, NEW m \in Nat,
           NEW r \in TileRows(m), NEW c \in TileCols(n)
    PROVE  BwdKeep(p, m, n, r, c) <=> Attends(p, r, c)
  <1>1. /\ p.sq \in Nat /\ p.sk \in Nat /\ p.wl \in Int /\ p.wr \in Int
        /\ p.nblocks \in Nat \ {0} /\ n \in Nat
        /\ p.causal \in BOOLEAN /\ p.local \in BOOLEAN /\ p.even \in BOOLEAN
        /\ p.causal => p.wr = 0 /\ ~p.local
        /\ p.even => p.sk = kBlockN * p.nblocks
    BY DEF IsBwdParams
  <1>2. /\ n * kBlockN \in Int /\ (n + 1) * kBlockN \in Int /\ n * kBlockN >= 0
        /\ c \in Int /\ n * kBlockN <= c /\ c < (n + 1) * kBlockN /\ c \in Nat
    BY <1>1, BwdBlockAssumption DEF TileCols
  <1>3. /\ m * kBlockM \in Int /\ (m + 1) * kBlockM \in Int
        /\ r \in Int /\ m * kBlockM <= r /\ r < (m + 1) * kBlockM
    BY BwdBlockAssumption DEF TileRows
  <1>4. CASE Masks(p, m, n)
    <2>1. BwdKeep(p, m, n, r, c) <=>
              /\ c < (IF p.causal \/ p.local THEN ColLimitRight(p, r) ELSE p.sk)
              /\ p.local => c >= ColLimitLeft(p, r)
      BY <1>4 DEF BwdKeep
    <2>2. c < ColLimitRight(p, r) <=> c < p.sk /\ c < r + 1 + p.sk - p.sq + p.wr
      BY <1>1, <1>2, <1>3 DEF ColLimitRight, AtMost
    <2>3. c >= ColLimitLeft(p, r) <=> c >= r + p.sk - p.sq - p.wl
      BY <1>1, <1>2, <1>3 DEF ColLimitLeft, AtLeast
    <2>4. CASE p.causal
      BY <1>1, <1>2, <1>3, <2>1, <2>2, <2>4 DEF Attends
    <2>5. CASE p.local
      BY <1>1, <1>2, <1>3, <2>1, <2>2, <2>3, <2>5 DEF Attends
    <2>6. CASE ~p.causal /\ ~p.local
      BY <1>1, <1>2, <1>3, <2>1, <2>6 DEF Attends
    <2> QED BY <1>1, <2>4, <2>5, <2>6
  <1>5. CASE ~Masks(p, m, n)
    <2>1. BwdKeep(p, m, n, r, c)
      BY <1>5 DEF BwdKeep
    <2>2. c < p.sk
      <3>1. ~Ragged(p, n)
        BY <1>5 DEF Masks
      <3>2. CASE p.even
        <4>1. kBlockN * (n + 1) <= kBlockN * p.nblocks
          <5>1. n + 1 \in Int /\ p.nblocks \in Int /\ n + 1 <= p.nblocks
            BY <1>1
          <5> QED BY <5>1, MulMono, BwdBlockAssumption
        <4>2. kBlockN * (n + 1) = (n + 1) * kBlockN
          BY <1>1, BwdBlockAssumption
        <4> QED BY <1>1, <1>2, <3>2, <4>1, <4>2
      <3>3. CASE ~p.even
        BY <1>1, <1>2, <3>1, <3>3 DEF Ragged
      <3> QED BY <1>1, <3>2, <3>3
    <2>3. p.causal => c <= r + p.sk - p.sq
      <3>1. p.causal => m * kBlockM >= (n + 1) * kBlockN + p.sq - p.sk
        BY <1>1, <1>2, <1>3, <1>5 DEF Masks
      <3> QED BY <1>1, <1>2, <1>3, <3>1
    <2>4. p.local => c <= r + p.sk - p.sq + p.wr
      <3>1. p.local => m * kBlockM >= (n + 1) * kBlockN + p.sq - p.sk - p.wr
        BY <1>1, <1>2, <1>3, <1>5 DEF Masks
      <3> QED BY <1>1, <1>2, <1>3, <3>1
    <2>5. p.local => c >= r + p.sk - p.sq - p.wl
      <3>1. p.local => (m + 1) * kBlockM < n * kBlockN + p.sq - p.sk + p.wl
        BY <1>1, <1>2, <1>3, <1>5 DEF Masks
      <3> QED BY <1>1, <1>2, <1>3, <3>1
    <2>6. Attends(p, r, c)
      BY <1>1, <1>2, <2>2, <2>3, <2>4, <2>5 DEF Attends
    <2> QED BY <2>1, <2>6
  <1> QED BY <1>4, <1>5

\* A row that attends a column has a finite LSE.
LEMMA AttendedLse ==
    ASSUME NEW p, NEW r, NEW c, Attends(p, r, c)
    PROVE  LseFinite(p, r)
  BY DEF Attends, LseFinite

\* The rows a visit contributes to dK and dV of column c are those of its row
\* block that attend it.
LEMMA RowsForExact ==
    ASSUME NEW p, IsBwdParams(p), NEW n \in 0 .. p.nblocks - 1,
           NEW c \in TileCols(n), NEW v, v.m \in Nat,
           v.checked \/ (v.m + 1) * kBlockM <= p.sq
    PROVE  RowsFor(p, v, n, c) =
               {r \in 0 .. p.sq - 1 : r \in TileRows(v.m) /\ Attends(p, r, c)}
  <1>1. /\ p.sq \in Nat /\ v.m * kBlockM \in Int /\ v.m * kBlockM >= 0
        /\ (v.m + 1) * kBlockM \in Int
    BY BwdBlockAssumption DEF IsBwdParams
  <1>2. ASSUME NEW r \in TileRows(v.m)
        PROVE  /\ r \in Nat
               /\ BwdKeep(p, v.m, n, r, c) <=> Attends(p, r, c)
               /\ r >= p.sq => v.checked
    <2>1. r \in Nat
      BY <1>1 DEF TileRows
    <2>2. BwdKeep(p, v.m, n, r, c) <=> Attends(p, r, c)
      BY BwdKeepExact
    <2>3. r >= p.sq => v.checked
      BY <1>1 DEF TileRows
    <2> QED BY <2>1, <2>2, <2>3
  <1>3. ASSUME NEW r \in RowsFor(p, v, n, c)
        PROVE  r \in 0 .. p.sq - 1 /\ r \in TileRows(v.m) /\ Attends(p, r, c)
    <2>1. /\ r \in TileRows(v.m) /\ BwdKeep(p, v.m, n, r, c)
          /\ IF r < p.sq THEN LseFinite(p, r) ELSE ~v.checked
      BY <1>3 DEF RowsFor
    <2> QED BY <1>1, <1>2, <2>1
  <1>4. ASSUME NEW r \in 0 .. p.sq - 1, r \in TileRows(v.m), Attends(p, r, c)
        PROVE  r \in RowsFor(p, v, n, c)
    <2>1. LseFinite(p, r) /\ r < p.sq
      BY <1>1, <1>4, AttendedLse
    <2>2. BwdKeep(p, v.m, n, r, c)
      BY <1>2, <1>4
    <2> QED BY <1>4, <2>1, <2>2 DEF RowsFor
  <1> QED BY <1>3, <1>4

\* And the columns of a block that enter dQ of a row are those it attends.
LEMMA ColsForExact ==
    ASSUME NEW p, IsBwdParams(p), NEW n \in 0 .. p.nblocks - 1, NEW m \in Nat,
           NEW r \in TileRows(m)
    PROVE  ColsFor(p, m, n, r) = {c \in TileCols(n) : Attends(p, r, c)}
  <1>1. ASSUME NEW c \in TileCols(n)
        PROVE  BwdKeep(p, m, n, r, c) /\ LseFinite(p, r) <=> Attends(p, r, c)
    BY BwdKeepExact, AttendedLse
  <1> QED BY <1>1 DEF ColsFor

-----------------------------------------------------------------------------
(* The grid *)

\* A CTA works on column blocks of the sequence only.
LEMMA ColumnBlocksType ==
    ASSUME NEW p, IsBwdParams(p), NEW x \in 0 .. p.grid - 1
    PROVE  ColumnBlocks(p, x) \in Seq(0 .. p.nblocks - 1)
  <1>1. /\ p.nblocks \in Nat \ {0} /\ p.grid \in Nat \ {0} /\ x \in Nat /\ x < p.grid
        /\ p.deterministic \in BOOLEAN /\ p.balance \in BOOLEAN
        /\ p.balance => ~p.deterministic /\ 2 * p.grid = p.nblocks
        /\ ~p.balance /\ ~p.deterministic => p.grid <= p.nblocks
    BY DEF IsBwdParams
  <1>2. CASE p.deterministic
    <2> DEFINE y == p.nblocks - x
               k == CeilDiv(y, p.grid)
    <2>1. y \in Int /\ y + p.grid - 1 \in Int /\ y + p.grid - 1 >= 0
      BY <1>1
    <2>2. k \in Nat
      <3> HIDE DEF y
      <3>1. /\ TruncDiv(y + p.grid - 1, p.grid) \in Int
            /\ TruncDiv(y + p.grid - 1, p.grid) >= 0
        BY <1>1, <2>1, TruncDivBounds
      <3>2. CeilDiv(y, p.grid) \in Nat
        BY <3>1 DEF CeilDiv
      <3> QED BY <3>2
    <2>3. ASSUME NEW i \in 1 .. k
          PROVE  x + (i - 1) * p.grid \in 0 .. p.nblocks - 1
      <3>1. k > 0 /\ i \in Int /\ i - 1 \in Nat
        BY <2>2
      <3>2. p.grid * k < y + p.grid
        <4> HIDE DEF y
        <4> QED BY <1>1, <2>1, <3>1, CeilDivBounds
      <3>3. p.grid * i <= p.grid * k /\ p.grid * i \in Int /\ p.grid * k \in Int
        <4> HIDE DEF y, k
        <4>1. i <= k /\ k \in Int /\ i \in Int
          BY <2>2, <2>3
        <4> QED BY <1>1, <4>1, MulMono
      <3>4. (i - 1) * p.grid = p.grid * i - p.grid /\ (i - 1) * p.grid >= 0
        BY <1>1, <3>1
      <3> HIDE DEF k
      <3> QED BY <1>1, <3>2, <3>3, <3>4
    <2> HIDE DEF k
    <2>4. [i \in 1 .. k |-> x + (i - 1) * p.grid] \in [1 .. k -> 0 .. p.nblocks - 1]
      BY <2>3
    <2>5. ColumnBlocks(p, x) = [i \in 1 .. k |-> x + (i - 1) * p.grid]
      BY <1>2 DEF ColumnBlocks, k
    <2> QED BY <2>2, <2>4, <2>5
  <1>3. CASE p.balance
    <2>1. x \in 0 .. p.nblocks - 1 /\ p.nblocks - x - 1 \in 0 .. p.nblocks - 1
      BY <1>1, <1>3
    <2>2. ColumnBlocks(p, x) = <<x, p.nblocks - x - 1>>
      BY <1>1, <1>3 DEF ColumnBlocks
    <2> QED BY <2>1, <2>2
  <1>4. CASE ~p.balance /\ ~p.deterministic
    <2>1. x \in 0 .. p.nblocks - 1
      BY <1>1, <1>4
    <2>2. ColumnBlocks(p, x) = <<x>>
      BY <1>4 DEF ColumnBlocks
    <2> QED BY <2>1, <2>2
  <1> QED BY <1>1, <1>2, <1>3, <1>4

\* No column block is done twice.
LEMMA ColumnBlocksDisjoint ==
    ASSUME NEW p, IsBwdParams(p),
           NEW x \in 0 .. p.grid - 1, NEW y \in 0 .. p.grid - 1,
           NEW i \in DOMAIN ColumnBlocks(p, x), NEW j \in DOMAIN ColumnBlocks(p, y),
           ColumnBlocks(p, x)[i] = ColumnBlocks(p, y)[j]
    PROVE  x = y /\ i = j
  <1>1. /\ p.nblocks \in Nat \ {0} /\ p.grid \in Nat \ {0}
        /\ x \in Nat /\ x < p.grid /\ y \in Nat /\ y < p.grid
        /\ p.deterministic \in BOOLEAN /\ p.balance \in BOOLEAN
        /\ p.balance => ~p.deterministic /\ 2 * p.grid = p.nblocks
    BY DEF IsBwdParams
  <1>2. CASE p.deterministic
    <2> DEFINE v == x + (i - 1) * p.grid
    <2>1. /\ i \in 1 .. CeilDiv(p.nblocks - x, p.grid)
          /\ j \in 1 .. CeilDiv(p.nblocks - y, p.grid)
          /\ v = y + (j - 1) * p.grid
      BY <1>2 DEF ColumnBlocks
    <2>2. i \in Int /\ j \in Int
      BY <2>1
    <2>3. i - 1 \in Int /\ j - 1 \in Int /\ (i - 1) * p.grid \in Int
          /\ (j - 1) * p.grid \in Int /\ v \in Int
      BY <1>1, <2>2
    <2>4. /\ (i - 1 + 1) * p.grid = (i - 1) * p.grid + p.grid
          /\ (j - 1 + 1) * p.grid = (j - 1) * p.grid + p.grid
      BY <1>1, <2>3, TileOf
    <2>5. v \in (i - 1) * p.grid .. (i - 1 + 1) * p.grid - 1
      BY <1>1, <2>3, <2>4
    <2>6. v \in (j - 1) * p.grid .. (j - 1 + 1) * p.grid - 1
      <3>1. v = y + (j - 1) * p.grid
        BY <2>1
      <3> HIDE DEF v
      <3> QED BY <1>1, <2>3, <2>4, <3>1
    <2> HIDE DEF v
    <2>7. i - 1 = v \div p.grid /\ j - 1 = v \div p.grid
      BY <1>1, <2>3, <2>5, <2>6, TileOf
    <2>8. i = j
      BY <2>2, <2>7
    <2> QED BY <1>1, <2>1, <2>3, <2>8 DEF v
  <1>3. CASE p.balance
    <2>1. /\ ColumnBlocks(p, x) = <<x, p.nblocks - x - 1>>
          /\ ColumnBlocks(p, y) = <<y, p.nblocks - y - 1>>
      BY <1>1, <1>3 DEF ColumnBlocks
    <2>2. i \in {1, 2} /\ j \in {1, 2}
      BY <2>1
    <2> QED BY <1>1, <1>3, <2>1, <2>2
  <1>4. CASE ~p.balance /\ ~p.deterministic
    <2>1. ColumnBlocks(p, x) = <<x>> /\ ColumnBlocks(p, y) = <<y>>
      BY <1>4 DEF ColumnBlocks
    <2>2. i = 1 /\ j = 1
      BY <2>1
    <2> QED BY <2>1, <2>2
  <1> QED BY <1>1, <1>2, <1>3, <1>4

\* None is left out, if the grid is full.
LEMMA ColumnBlocksCover ==
    ASSUME NEW p, IsBwdParams(p), FullGrid(p), NEW n \in 0 .. p.nblocks - 1
    PROVE  \E x \in 0 .. p.grid - 1 : \E i \in DOMAIN ColumnBlocks(p, x) :
               ColumnBlocks(p, x)[i] = n
  <1>1. /\ p.nblocks \in Nat \ {0} /\ p.grid \in Nat \ {0} /\ n \in Nat
        /\ n < p.nblocks
        /\ p.deterministic \in BOOLEAN /\ p.balance \in BOOLEAN
        /\ p.balance => ~p.deterministic /\ 2 * p.grid = p.nblocks
        /\ ~p.balance /\ ~p.deterministic => p.grid = p.nblocks
    BY DEF IsBwdParams, FullGrid
  <1>2. CASE p.deterministic
    <2> DEFINE x == n % p.grid
               q == n \div p.grid
               y == p.nblocks - x
    <2>1. x \in 0 .. p.grid - 1 /\ q \in Int /\ n = p.grid * q + x
      <3>1. n \in Int
        BY <1>1
      <3>2. /\ n \div p.grid \in Int /\ n % p.grid \in 0 .. p.grid - 1
            /\ n = p.grid * (n \div p.grid) + (n % p.grid)
        BY <1>1, <3>1, DivMod
      <3> QED BY <3>2
    <2>2. q >= 0
      <3>1. p.grid * 0 <= n /\ 0 \in Int /\ n \in Int
        BY <1>1
      <3> QED BY <1>1, <3>1, DivBounds
    <2> HIDE DEF x, q
    <2>3. p.grid * q \in Nat /\ p.grid * q < y /\ y \in Int
      <3>1. p.grid * q \in Int
        BY <1>1, <2>1
      <3>2. p.grid * q >= 0
        BY <1>1, <2>1, <2>2
      <3> QED BY <1>1, <2>1, <3>1, <3>2
    <2> HIDE DEF y
    <2>4. (p.grid * q) \div p.grid = q
      <3>1. p.grid * q \in q * p.grid .. (q + 1) * p.grid - 1
        <4>1. q * p.grid = p.grid * q /\ (q + 1) * p.grid = p.grid * q + p.grid
          BY <1>1, <2>1
        <4> QED BY <1>1, <2>3, <4>1
      <3> QED BY <1>1, <2>1, <2>3, <3>1, TileOf
    <2>5. q < CeilDiv(y, p.grid) /\ CeilDiv(y, p.grid) \in Int
      <3>1. CeilDiv(y, p.grid) \in Int
        BY <1>1, <2>3, CeilDivType
      <3>2. (p.grid * q) \div p.grid < CeilDiv(y, p.grid)
        BY <1>1, <2>3, CeilDivCovers
      <3> QED BY <2>4, <3>1, <3>2
    <2>6. q + 1 \in 1 .. CeilDiv(p.nblocks - x, p.grid)
      BY <2>1, <2>2, <2>5 DEF y
    <2>7. ColumnBlocks(p, x) = [i \in 1 .. CeilDiv(p.nblocks - x, p.grid) |->
                                    x + (i - 1) * p.grid]
      BY <1>2 DEF ColumnBlocks
    <2>8. ColumnBlocks(p, x)[q + 1] = x + (q + 1 - 1) * p.grid
      <3> DEFINE k == CeilDiv(p.nblocks - x, p.grid)
      <3> HIDE DEF k
      <3>1. ColumnBlocks(p, x) = [i \in 1 .. k |-> x + (i - 1) * p.grid]
        BY <2>7 DEF k
      <3>2. \A i \in 1 .. k : ColumnBlocks(p, x)[i] = x + (i - 1) * p.grid
        BY <3>1
      <3> QED BY <2>1, <2>6, <3>2 DEF k
    <2>9. x + (q + 1 - 1) * p.grid = n
      <3>1. q + 1 - 1 = q /\ q * p.grid = p.grid * q
        BY <1>1, <2>1
      <3> QED BY <1>1, <2>1, <2>3, <3>1
    <2> QED BY <2>1, <2>6, <2>7, <2>8, <2>9
  <1>3. CASE p.balance
    <2>1. CASE n < p.grid
      <3>1. n \in 0 .. p.grid - 1 /\ ColumnBlocks(p, n) = <<n, p.nblocks - n - 1>>
        BY <1>1, <1>3, <2>1 DEF ColumnBlocks
      <3>2. 1 \in DOMAIN ColumnBlocks(p, n) /\ ColumnBlocks(p, n)[1] = n
        BY <3>1
      <3> QED BY <3>1, <3>2
    <2>2. CASE n >= p.grid
      <3> DEFINE x == p.nblocks - n - 1
      <3>1. x \in 0 .. p.grid - 1 /\ p.nblocks - x - 1 = n
        BY <1>1, <1>3, <2>2
      <3> HIDE DEF x
      <3>2. ColumnBlocks(p, x) = <<x, p.nblocks - x - 1>>
        BY <1>1, <1>3 DEF ColumnBlocks
      <3>3. 2 \in DOMAIN ColumnBlocks(p, x) /\ ColumnBlocks(p, x)[2] = n
        BY <3>1, <3>2
      <3> QED BY <3>1, <3>3
    <2> QED BY <1>1, <2>1, <2>2
  <1>4. CASE ~p.balance /\ ~p.deterministic
    <2>1. n \in 0 .. p.grid - 1 /\ ColumnBlocks(p, n) = <<n>>
      BY <1>1, <1>4 DEF ColumnBlocks
    <2>2. 1 \in DOMAIN ColumnBlocks(p, n) /\ ColumnBlocks(p, n)[1] = n
      BY <2>1
    <2> QED BY <2>1, <2>2
  <1> QED BY <1>1, <1>2, <1>3, <1>4
=============================================================================
