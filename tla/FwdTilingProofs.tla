--------------------------- MODULE FwdTilingProofs ---------------------------
(***************************************************************************)
(* Facts about division in C++ and in TLA+, which the other proofs of the  *)
(* forward side use too, and about the operators of FwdTiling, for every   *)
(* tile shape, every sequence length and every window.                     *)
(***************************************************************************)
EXTENDS FwdTiling, TLAPS

-----------------------------------------------------------------------------
(* Division *)

\* Euclidean division by a positive number, the form the provers can use.
LEMMA DivMod ==
    ASSUME NEW b \in Nat \ {0}, NEW c \in Int
    PROVE  /\ c \div b \in Int
           /\ c % b \in 0 .. b - 1
           /\ c = b * (c \div b) + (c % b)
  OBVIOUS

\* A multiple of b divided by b.
LEMMA DivExact ==
    ASSUME NEW b \in Nat \ {0}, NEW y \in Nat, y % b = 0
    PROVE  y \div b \in Int /\ y = b * (y \div b)
  BY DivMod

\* A product with a positive factor is at least that factor when the other
\* one is positive, and at most its opposite when it is negative.
LEMMA MulSign ==
    ASSUME NEW b \in Nat \ {0}, NEW x \in Int
    PROVE  /\ x >= 1 => b * x >= b
           /\ x <= -1 => b * x <= -b
  <1>1. CASE x >= 1
    <2>1. b * x = b + b * (x - 1)
      OBVIOUS
    <2>2. b * (x - 1) >= 0
      BY <1>1
    <2> QED BY <1>1, <2>1, <2>2
  <1>2. CASE x <= -1
    <2>1. b * x = -b - b * (-1 - x)
      OBVIOUS
    <2>2. b * (-1 - x) >= 0
      BY <1>2
    <2> QED BY <1>2, <2>1, <2>2
  <1>3. CASE x = 0
    BY <1>3
  <1> QED BY <1>1, <1>2, <1>3

\* Multiplying by a positive number is monotone.
LEMMA MulMono ==
    ASSUME NEW b \in Nat \ {0}, NEW x \in Int, NEW y \in Int, x <= y
    PROVE  b * x \in Int /\ b * y \in Int /\ b * x <= b * y
  <1>1. b * y = b * x + b * (y - x)
    OBVIOUS
  <1>2. b * (y - x) >= 0
    OBVIOUS
  <1> QED BY <1>1, <1>2

\* c lies in block n exactly when n*b <= c < (n+1)*b.
LEMMA DivBounds ==
    ASSUME NEW b \in Nat \ {0}, NEW c \in Int, NEW n \in Int
    PROVE  /\ b * n <= c <=> n <= c \div b
           /\ c < b * n <=> c \div b < n
  <1> DEFINE q == c \div b
             x == n - q
  <1>1. q \in Int /\ c % b \in 0 .. b - 1 /\ c = b * q + (c % b)
    BY DivMod
  <1>2. b * n = b * q + b * x
    BY <1>1
  <1>3. b * x \in Int /\ b * q \in Int /\ b * n \in Int
    BY <1>1
  <1>4. x >= 1 => b * x >= b
    BY <1>1, MulSign
  <1>5. x <= 0 => b * x <= 0
    BY <1>1, MulSign
  <1> HIDE DEF q
  <1> QED BY <1>1, <1>2, <1>3, <1>4, <1>5

\* std::max and std::min.
LEMMA AtLeastAtMost ==
    ASSUME NEW a \in Int, NEW b \in Int
    PROVE  /\ AtLeast(a, b) \in Int /\ AtMost(a, b) \in Int
           /\ AtLeast(a, b) >= a /\ AtLeast(a, b) >= b
           /\ AtLeast(a, b) \in {a, b}
           /\ AtMost(a, b) <= a /\ AtMost(a, b) <= b
           /\ AtMost(a, b) \in {a, b}
  BY DEF AtLeast, AtMost

\* Truncation is floor for a numerator that is not negative, and not positive
\* for one that is.
LEMMA TruncDivBounds ==
    ASSUME NEW b \in Nat \ {0}, NEW a \in Int
    PROVE  /\ TruncDiv(a, b) \in Int
           /\ a >= 0 => TruncDiv(a, b) = a \div b /\ TruncDiv(a, b) >= 0
           /\ a < 0 => TruncDiv(a, b) <= 0
  <1>1. \A c \in Nat : c \div b \in Int /\ c \div b >= 0
    <2> TAKE c \in Nat
    <2>1. c \div b \in Int
      BY DivMod
    <2>2. 0 <= c \div b
      BY DivBounds, b * 0 = 0
    <2> QED BY <2>1, <2>2
  <1>2. CASE a >= 0
    BY <1>1, <1>2 DEF TruncDiv
  <1>3. CASE a < 0
    <2>1. -a \in Nat
      BY <1>3
    <2> QED BY <1>1, <1>3, <2>1 DEF TruncDiv
  <1> QED BY <1>2, <1>3

\* A multiple of b has remainder zero.
LEMMA MulMod ==
    ASSUME NEW b \in Nat \ {0}, NEW k \in Int
    PROVE  (b * k) % b = 0
  <1> DEFINE c == b * k
             q == c \div b
  <1>1. c \in Int
    OBVIOUS
  <1>2. q \in Int /\ c % b \in 0 .. b - 1 /\ c = b * q + (c % b)
    <2> HIDE DEF c
    <2> QED BY <1>1, DivMod
  <1>3. k <= q /\ q < k + 1
    <2>1. b * k <= c /\ c < b * (k + 1)
      <3>1. b * (k + 1) = b * k + b
        OBVIOUS
      <3> QED BY <1>1, <3>1
    <2> HIDE DEF c
    <2> QED BY <1>1, <1>2, <2>1, DivBounds
  <1> HIDE DEF q
  <1>4. q = k
    BY <1>2, <1>3
  <1> QED BY <1>1, <1>2, <1>4

\* ceil_div of integers is an integer.
LEMMA CeilDivType ==
    ASSUME NEW b \in Nat \ {0}, NEW y \in Int
    PROVE  CeilDiv(y, b) \in Int
  <1>1. y + b - 1 \in Int
    OBVIOUS
  <1> QED BY <1>1, TruncDivBounds DEF CeilDiv

\* Every column below y lies below block CeilDiv(y, b).
LEMMA CeilDivCovers ==
    ASSUME NEW b \in Nat \ {0}, NEW y \in Int, NEW c \in Nat, c < y
    PROVE  c \div b < CeilDiv(y, b)
  <1> DEFINE z == y + b - 1
             q == z \div b
  <1>1. z \in Int /\ z >= 0 /\ q \in Int
    <2>1. z \in Int /\ z >= 0
      OBVIOUS
    <2> HIDE DEF z
    <2> QED BY <2>1, DivMod
  <1>2. CeilDiv(y, b) = q
    BY <1>1 DEF CeilDiv, TruncDiv
  <1>3. c \div b \in Int /\ b * (c \div b) \in Int /\ b * (c \div b) <= c
    BY DivMod
  <1>4. b * (c \div b + 1) = b * (c \div b) + b
    BY <1>3
  <1>5. b * (c \div b + 1) <= z
    BY <1>3, <1>4
  <1>6. c \div b + 1 <= q
    <2>1. c \div b + 1 \in Int
      BY <1>3
    <2> HIDE DEF z
    <2> QED BY <1>1, <1>5, <2>1, DivBounds
  <1> QED BY <1>1, <1>2, <1>3, <1>6

\* When it is positive, b * CeilDiv(y, b) overshoots y by less than a block.
LEMMA CeilDivBounds ==
    ASSUME NEW b \in Nat \ {0}, NEW y \in Int
    PROVE  CeilDiv(y, b) > 0 =>
               y > 0 /\ y <= b * CeilDiv(y, b) /\ b * CeilDiv(y, b) < y + b
  <1> DEFINE z == y + b - 1
             q == z \div b
  <1>1. z \in Int
    OBVIOUS
  <1>2. q \in Int /\ z % b \in 0 .. b - 1 /\ z = b * q + (z % b) /\ b * q \in Int
    <2> HIDE DEF z
    <2> QED BY <1>1, DivMod
  <1> SUFFICES ASSUME CeilDiv(y, b) > 0
               PROVE  y > 0 /\ y <= b * CeilDiv(y, b) /\ b * CeilDiv(y, b) < y + b
    OBVIOUS
  <1>3. z >= 0
    <2>1. z < 0 => CeilDiv(y, b) <= 0
      BY <1>1, TruncDivBounds DEF CeilDiv
    <2> QED BY <1>1, <2>1, CeilDivType
  <1>4. CeilDiv(y, b) = q
    BY <1>3 DEF CeilDiv, TruncDiv
  <1>5. b * q >= b
    BY <1>2, <1>4, MulSign
  <1> HIDE DEF q
  <1> QED BY <1>2, <1>4, <1>5

\* A quotient without remainder needs no rounding.
LEMMA CeilDivExact ==
    ASSUME NEW b \in Nat \ {0}, NEW y \in Nat, y % b = 0
    PROVE  CeilDiv(y, b) = y \div b /\ b * CeilDiv(y, b) = y
  <1> DEFINE q == y \div b
  <1>1. q \in Int /\ b * q \in Int /\ y = b * q
    BY DivMod
  <1>2. b * (q + 1) = b * q + b
    BY <1>1
  <1>3. (y + b - 1) \div b = q
    <2>1. y + b - 1 \in Int /\ (y + b - 1) \div b \in Int
      <3>1. y + b - 1 \in Int
        OBVIOUS
      <3> QED BY <3>1, DivMod
    <2>2. b * q <= y + b - 1 /\ y + b - 1 < b * (q + 1)
      BY <1>1, <1>2
    <2> HIDE DEF q
    <2>3. q <= (y + b - 1) \div b
      BY <1>1, <2>1, <2>2, DivBounds
    <2>4. (y + b - 1) \div b < q + 1
      BY <1>1, <2>1, <2>2, DivBounds
    <2> QED BY <1>1, <2>1, <2>3, <2>4
  <1> QED BY <1>1, <1>3 DEF CeilDiv, TruncDiv

-----------------------------------------------------------------------------
(* Parameters and loop bounds *)

\* What the kernel may assume of the record set_params_fprop fills in.
IsParams(p) ==
    /\ p \in [sq : Nat, sk : Nat, wl : Int, wr : Int,
              causal : BOOLEAN, local : BOOLEAN, even : BOOLEAN]
    /\ p.causal => p.wr = 0 /\ ~p.local
    /\ p.even => /\ ~p.local /\ p.sk > 0
                 /\ p.sk % kBlockN = 0 /\ p.sq % kBlockM = 0

LEMMA SetParamsType ==
    ASSUME NEW a, IsCall(a)
    PROVE  IsParams(SetParams(a))
  <1> DEFINE p == SetParams(a)
             l == Clamp(a.wl, a.seqlen_k)
             r == ApiWindowRight(a)
  <1>1. l \in Int /\ r \in Int /\ a.seqlen_k \in Nat \ {0}
    BY DEF IsCall, ApiWindowRight, Clamp, Unlimited
  <1>2. p \in [sq : Nat, sk : Nat, wl : Int, wr : Int,
               causal : BOOLEAN, local : BOOLEAN, even : BOOLEAN]
    <2> HIDE DEF l, r
    <2>1. SetParams(a) \in [sq : Nat, sk : Nat, wl : Int, wr : Int,
                            causal : BOOLEAN, local : BOOLEAN, even : BOOLEAN]
      BY <1>1 DEF IsCall, SetParams, FwdMask, MaskParams, l, r
    <2> QED BY <2>1
  <1>3. p.causal => p.wr = 0 /\ ~p.local
    <2> DEFINE wl == IF l < 0 /\ r >= 0 THEN a.seqlen_k ELSE l
    <2>1. p.causal <=> (l < 0 /\ r = 0)
      BY DEF SetParams, FwdMask, MaskParams
    <2>2. p.wr = IF wl >= 0 /\ r < 0 THEN a.seqlen_k ELSE r
      BY DEF SetParams, FwdMask, MaskParams
    <2>3. p.local <=> (~p.causal /\ (p.wl >= 0 \/ p.wr >= 0))
      BY DEF SetParams, FwdMask, MaskParams
    <2> HIDE DEF p, l, r
    <2> QED BY <1>1, <2>1, <2>2, <2>3
  <1>4. p.even => /\ ~p.local /\ p.sk > 0
                  /\ p.sk % kBlockN = 0 /\ p.sq % kBlockM = 0
    <2>1. /\ p.even => ~p.local
          /\ p.even => ~a.varlen /\ a.seqlen_k % kBlockN = 0
                       /\ a.seqlen_q % kBlockM = 0
          /\ p.sk = a.sk /\ p.sq = a.sq
      BY DEF SetParams, FwdMask, MaskParams
    <2>2. /\ a.seqlen_k > 0
          /\ ~a.varlen => a.sq = a.seqlen_q /\ a.sk = a.seqlen_k
      BY DEF IsCall
    <2> QED BY <2>1, <2>2
  <1> QED BY <1>2, <1>3, <1>4 DEF IsParams

\* The blocks of the tile that masking may concern: kBlockM is kBlockN times
\* this many.
LEMMA TileBlocks ==
    /\ CeilDiv(kBlockM, kBlockN) \in Nat \ {0}
    /\ kBlockN * CeilDiv(kBlockM, kBlockN) = kBlockM
  BY CeilDivExact, BlockAssumption, MulSign

LEMMA LoopBoundsType ==
    ASSUME NEW p, IsParams(p), NEW m \in Nat
    PROVE  /\ NBlockMin(p, m) \in Nat
           /\ NBlockMax(p, m) \in Int
           /\ NBlockMax(p, m) <= CeilDiv(p.sk, kBlockN)
           /\ NMaskingSteps(p) \in Nat \ {0}
           /\ ~ExitsEarly(p, m) => NBlockMin(p, m) < NBlockMax(p, m)
  <1>1. p.sk \in Nat /\ p.sq \in Nat /\ p.wl \in Int /\ p.wr \in Int
    BY DEF IsParams
  <1>2. m * kBlockM \in Int
    BY BlockAssumption
  <1>3. NBlockMin(p, m) \in Nat
    <2>1. m * kBlockM + p.sk - p.sq - p.wl \in Int
      BY <1>1, <1>2
    <2> HIDE DEF NBlockMin
    <2>2. TruncDiv(m * kBlockM + p.sk - p.sq - p.wl, kBlockN) \in Int
      BY <2>1, TruncDivBounds, BlockAssumption
    <2>3. AtLeast(0, TruncDiv(m * kBlockM + p.sk - p.sq - p.wl, kBlockN)) \in Nat
      BY <2>2 DEF AtLeast
    <2> QED BY <2>3 DEF NBlockMin
  <1>4. CeilDiv(p.sk, kBlockN) \in Int
    BY <1>1, CeilDivType, BlockAssumption
  <1>5. NBlockMax(p, m) \in Int /\ NBlockMax(p, m) <= CeilDiv(p.sk, kBlockN)
    <2>1. m * kBlockM + kBlockM + p.sk - p.sq + p.wr \in Int
      BY <1>1, <1>2, BlockAssumption
    <2>2. CeilDiv(m * kBlockM + kBlockM + p.sk - p.sq + p.wr, kBlockN) \in Int
      BY <2>1, CeilDivType, BlockAssumption
    <2> QED BY <1>4, <2>2, AtLeastAtMost DEF NBlockMax
  <1>6. NMaskingSteps(p) \in Nat \ {0}
    BY TileBlocks DEF NMaskingSteps
  <1>7. ASSUME ~ExitsEarly(p, m)
        PROVE  NBlockMin(p, m) < NBlockMax(p, m)
    <2>1. CASE p.causal \/ p.local \/ ~p.even
      BY <1>3, <1>5, <1>7, <2>1 DEF ExitsEarly
    <2>2. CASE ~p.causal /\ ~p.local /\ p.even
      <3>1. NBlockMin(p, m) = 0 /\ NBlockMax(p, m) = CeilDiv(p.sk, kBlockN)
        BY <2>2 DEF NBlockMin, NBlockMax
      <3>2. p.sk > 0
        BY <2>2 DEF IsParams
      <3>3. 0 \div kBlockN < CeilDiv(p.sk, kBlockN) /\ 0 \div kBlockN \in Int
        <4>1. p.sk \in Int /\ 0 < p.sk
          BY <1>1, <3>2
        <4>2. kBlockN \in Nat \ {0} /\ 0 \in Nat /\ 0 \in Int
          BY BlockAssumption
        <4> QED BY <4>1, <4>2, CeilDivCovers, DivMod
      <3>4. 0 <= 0 \div kBlockN
        BY DivBounds, BlockAssumption, kBlockN * 0 = 0
      <3> QED BY <1>4, <3>1, <3>3, <3>4
    <2> QED BY <2>1, <2>2 DEF IsParams
  <1> QED BY <1>3, <1>5, <1>6, <1>7

-----------------------------------------------------------------------------
(* Which columns the visits keep *)

\* The loop bounds lose nothing: a column that a valid row of the tile
\* attends lies in a block between NBlockMin and NBlockMax.
LEMMA AttendedBlocks ==
    ASSUME NEW p, IsParams(p), NEW m \in Nat, NEW r \in Rows, NEW c,
           Attends(p, m * kBlockM + r, c)
    PROVE  NBlockMin(p, m) <= c \div kBlockN /\ c \div kBlockN < NBlockMax(p, m)
  <1> DEFINE x == m * kBlockM + p.sk - p.sq - p.wl
             y == m * kBlockM + kBlockM + p.sk - p.sq + p.wr
  <1>1. /\ p.sk \in Nat /\ p.sq \in Nat /\ p.wl \in Int /\ p.wr \in Int
        /\ m * kBlockM \in Int /\ kBlockM \in Nat \ {0} /\ kBlockN \in Nat \ {0}
        /\ r \in 0 .. kBlockM - 1
    BY BlockAssumption DEF IsParams, Rows
  <1>2. c \in Nat /\ c < p.sk /\ c \div kBlockN \in Int /\ 0 <= c \div kBlockN
    <2>1. c \in Nat /\ c < p.sk
      BY <1>1 DEF Attends
    <2>2. c \div kBlockN \in Int
      BY <1>1, <2>1, DivMod
    <2>3. kBlockN * 0 <= c
      BY <1>1, <2>1
    <2> QED BY <1>1, <2>1, <2>2, <2>3, DivBounds
  <1>3. x \in Int /\ y \in Int
    BY <1>1
  <1>4. NBlockMin(p, m) <= c \div kBlockN
    <2>1. ASSUME p.local
          PROVE  TruncDiv(x, kBlockN) \in Int /\ TruncDiv(x, kBlockN) <= c \div kBlockN
      <3>1. x <= c
        BY <1>1, <1>2, <2>1 DEF Attends
      <3> HIDE DEF x
      <3>2. TruncDiv(x, kBlockN) \in Int
        BY <1>1, <1>3, TruncDivBounds
      <3>3. CASE x < 0
        <4>1. TruncDiv(x, kBlockN) <= 0
          BY <1>1, <1>3, <3>3, TruncDivBounds
        <4> QED BY <1>2, <3>2, <4>1
      <3>4. CASE x >= 0
        <4>1. TruncDiv(x, kBlockN) = x \div kBlockN
          BY <3>4 DEF TruncDiv
        <4>2. /\ x \div kBlockN \in Int
              /\ kBlockN * (x \div kBlockN) \in Int
              /\ kBlockN * (x \div kBlockN) <= x
          BY <1>1, <1>3, DivMod
        <4>3. kBlockN * (x \div kBlockN) <= c
          BY <1>2, <1>3, <3>1, <4>2
        <4>4. x \div kBlockN <= c \div kBlockN
          BY <1>1, <1>2, <4>2, <4>3, DivBounds
        <4> QED BY <3>2, <4>1, <4>4
      <3> QED BY <1>3, <3>3, <3>4
    <2> HIDE DEF x
    <2>2. CASE p.local
      <3>1. NBlockMin(p, m) = AtLeast(0, TruncDiv(x, kBlockN))
        BY <2>2 DEF NBlockMin, x
      <3> QED BY <1>2, <2>1, <2>2, <3>1 DEF AtLeast
    <2>3. CASE ~p.local
      BY <1>2, <2>3 DEF NBlockMin
    <2> QED BY <2>2, <2>3
  <1>5. c \div kBlockN < CeilDiv(p.sk, kBlockN)
    <2>1. p.sk \in Int /\ kBlockN \in Nat \ {0} /\ c \in Nat /\ c < p.sk
      BY <1>1, <1>2
    <2> QED BY <2>1, CeilDivCovers
  <1>6. ASSUME p.causal \/ p.local
        PROVE  c \div kBlockN < CeilDiv(y, kBlockN)
    <2>1. c < y
      <3>1. p.causal => p.wr = 0
        BY DEF IsParams
      <3> QED BY <1>1, <1>2, <1>6, <3>1 DEF Attends
    <2> HIDE DEF y
    <2> QED BY <1>1, <1>2, <1>3, <2>1, CeilDivCovers
  <1>7. c \div kBlockN < NBlockMax(p, m)
    <2>1. NBlockMax(p, m) = IF p.causal \/ p.local
              THEN AtMost(CeilDiv(p.sk, kBlockN), CeilDiv(y, kBlockN))
              ELSE CeilDiv(p.sk, kBlockN)
      BY DEF NBlockMax
    <2> HIDE DEF y
    <2> QED BY <1>5, <1>6, <2>1 DEF AtMost
  <1> QED BY <1>4, <1>7

\* A block below the last one, or any block of an even tiling, has only
\* columns of the sequence.
LEMMA BlockInBounds ==
    ASSUME NEW p, IsParams(p), NEW m \in Nat,
           NEW n \in Nat, n < NBlockMax(p, m),
           n < NBlockMax(p, m) - 1 \/ p.even
    PROVE  kBlockN * (n + 1) <= p.sk
  <1> DEFINE all == CeilDiv(p.sk, kBlockN)
  <1>1. /\ p.sk \in Nat /\ kBlockN \in Nat \ {0} /\ all \in Int
        /\ NBlockMax(p, m) \in Int /\ NBlockMax(p, m) <= all
    <2>1. p.sk \in Nat /\ p.sk \in Int /\ kBlockN \in Nat \ {0}
      BY BlockAssumption DEF IsParams
    <2> QED BY <2>1, LoopBoundsType, CeilDivType
  <1>2. CASE p.even
    <2>1. p.sk % kBlockN = 0
      BY <1>2 DEF IsParams
    <2>2. kBlockN * all = p.sk
      BY <1>1, <2>1, CeilDivExact
    <2> HIDE DEF all
    <2>3. kBlockN * (n + 1) <= kBlockN * all
      <3>1. n + 1 \in Int /\ n + 1 <= all
        BY <1>1
      <3> QED BY <1>1, <3>1, MulMono
    <2> QED BY <2>2, <2>3
  <1>3. CASE n < NBlockMax(p, m) - 1
    <2>1. all > 0
      BY <1>1, <1>3
    <2>2. kBlockN * all < p.sk + kBlockN
      <3>1. p.sk \in Int
        BY <1>1
      <3> QED BY <1>1, <2>1, <3>1, CeilDivBounds
    <2> HIDE DEF all
    <2>3. kBlockN * (n + 1) <= kBlockN * (all - 1)
      <3>1. n + 1 \in Int /\ all - 1 \in Int /\ n + 1 <= all - 1
        BY <1>1, <1>3
      <3> QED BY <1>1, <3>1, MulMono
    <2>4. kBlockN * (all - 1) = kBlockN * all - kBlockN /\ kBlockN * all \in Int
      BY <1>1
    <2>5. kBlockN * (n + 1) \in Int
      BY <1>1
    <2> QED BY <1>1, <2>2, <2>3, <2>4, <2>5
  <1> QED BY <1>2, <1>3

\* Under a causal mask, every column of a block visited without masking lies
\* on or left of the diagonal of the first row of the tile.  This is where
\* kBlockN | kBlockM and the extra masking step of uneven tilings matter.
LEMMA FreeBlocksBelowDiagonal ==
    ASSUME NEW p, IsParams(p), NEW m \in Nat, p.causal,
           NEW n \in Nat, NBlockMax(p, m) - n > NMaskingSteps(p)
    PROVE  kBlockN * (n + 1) <= m * kBlockM + p.sk - p.sq + 1
  <1> DEFINE y == m * kBlockM + kBlockM + p.sk - p.sq + p.wr
             top == CeilDiv(y, kBlockN)
             tile == CeilDiv(kBlockM, kBlockN)
  <1>1. /\ p.sk \in Nat /\ p.sq \in Nat /\ p.wr = 0 /\ ~p.local
        /\ m * kBlockM \in Nat /\ kBlockM \in Nat \ {0} /\ kBlockN \in Nat \ {0}
    BY BlockAssumption DEF IsParams
  <1>2. y \in Int /\ y = m * kBlockM + kBlockM + p.sk - p.sq
    BY <1>1
  <1>3. top \in Int
    <2> HIDE DEF y
    <2> QED BY <1>1, <1>2, CeilDivType
  <1>4. tile \in Nat \ {0} /\ kBlockN * tile = kBlockM
    BY TileBlocks
  <1>5. NBlockMax(p, m) \in Int /\ NBlockMax(p, m) <= top
    <2>1. CeilDiv(p.sk, kBlockN) \in Int
      <3>1. p.sk \in Int
        BY <1>1
      <3> QED BY <1>1, <3>1, CeilDivType
    <2>2. NBlockMax(p, m) = AtMost(CeilDiv(p.sk, kBlockN), top)
      BY DEF NBlockMax
    <2> HIDE DEF top
    <2> QED BY <1>3, <2>1, <2>2 DEF AtMost
  <1>6. /\ NMaskingSteps(p) \in Int
        /\ p.even => NMaskingSteps(p) = tile
        /\ ~p.even => NMaskingSteps(p) = tile + 1
    BY <1>4 DEF NMaskingSteps
  <1>7. top > 0
    BY <1>3, <1>4, <1>5, <1>6
  <1>8. kBlockN * top \in Int /\ kBlockN * top < y + kBlockN /\ y > 0
    <2> HIDE DEF y
    <2> QED BY <1>1, <1>2, <1>3, <1>7, CeilDivBounds
  <1>9. CASE p.even
    <2>1. y % kBlockN = 0
      <3>1. p.sk % kBlockN = 0 /\ p.sq % kBlockM = 0
        BY <1>9 DEF IsParams
      <3> DEFINE ks == p.sk \div kBlockN
                 qs == p.sq \div kBlockM
                 k == m * tile + tile + ks - qs * tile
      <3>2. ks \in Int /\ p.sk = kBlockN * ks
        BY <1>1, <3>1, DivExact
      <3>3. qs \in Int /\ p.sq = kBlockM * qs
        BY <1>1, <3>1, DivExact
      <3> HIDE DEF ks, qs, tile
      <3>4. k \in Int /\ y = kBlockN * k
        BY <1>1, <1>2, <1>4, <3>2, <3>3
      <3> HIDE DEF k, y
      <3> QED BY <1>1, <3>4, MulMod
    <2>2. kBlockN * top = y
      <3>1. y \in Nat
        BY <1>2, <1>8
      <3> HIDE DEF y
      <3> QED BY <1>1, <2>1, <3>1, CeilDivExact
    <2> HIDE DEF y, top, tile
    <2>3. kBlockN * (n + 1) <= kBlockN * (top - tile)
      <3>1. n + 1 \in Int /\ top - tile \in Int /\ n + 1 <= top - tile
        BY <1>3, <1>4, <1>5, <1>6, <1>9
      <3> QED BY <1>1, <3>1, MulMono
    <2>4. kBlockN * (top - tile) = kBlockN * top - kBlockN * tile
      BY <1>1, <1>3, <1>4
    <2>5. kBlockN * (n + 1) \in Int
      BY <1>1
    <2> QED BY <1>1, <1>2, <1>4, <2>2, <2>3, <2>4, <2>5
  <1>10. CASE ~p.even
    <2> HIDE DEF y, top, tile
    <2>1. kBlockN * (n + 1) <= kBlockN * (top - tile - 1)
      <3>1. /\ n + 1 \in Int /\ top - tile - 1 \in Int
            /\ n + 1 <= top - tile - 1
        BY <1>3, <1>4, <1>5, <1>6, <1>10
      <3> QED BY <1>1, <3>1, MulMono
    <2>2. kBlockN * (top - tile - 1) = kBlockN * top - kBlockN * tile - kBlockN
      BY <1>1, <1>3, <1>4
    <2>3. kBlockN * (n + 1) \in Int
      BY <1>1
    <2> QED BY <1>1, <1>2, <1>4, <1>8, <2>1, <2>2, <2>3
  <1> QED BY <1>9, <1>10

\* The masking code keeps exactly the attended scores of every block the
\* loops visit, given that the first NMaskingSteps visits, counted down from
\* block NBlockMax - 1, run its full version.
LEMMA KeepExact ==
    ASSUME NEW p, IsParams(p), NEW m \in Nat, NEW r \in Rows, NEW c \in Nat,
           NEW n \in Nat, n = c \div kBlockN,
           NBlockMin(p, m) <= n, n < NBlockMax(p, m),
           NEW masking \in BOOLEAN,
           masking <=> NBlockMax(p, m) - n <= NMaskingSteps(p)
    PROVE  Keep(p, masking, m * kBlockM + r, c) <=> Attends(p, m * kBlockM + r, c)
  <1> DEFINE row == m * kBlockM + r
  <1>1. /\ p.sk \in Nat /\ p.sq \in Nat /\ p.wl \in Int /\ p.wr \in Int
        /\ m * kBlockM \in Nat /\ r \in Nat /\ row \in Nat /\ m * kBlockM <= row
        /\ kBlockN \in Nat \ {0}
        /\ p.causal => p.wr = 0 /\ ~p.local
    BY BlockAssumption DEF IsParams, Rows
  <1>2. NBlockMax(p, m) \in Int /\ NMaskingSteps(p) \in Nat \ {0}
    BY LoopBoundsType
  <1>3. kBlockN * (n + 1) \in Int /\ c < kBlockN * (n + 1)
    <2>1. c \in Int /\ n + 1 \in Int /\ c \div kBlockN < n + 1
      OBVIOUS
    <2> QED BY <1>1, <2>1, DivBounds
  <1>4. n < NBlockMax(p, m) - 1 \/ p.even => c < p.sk
    <2>1. n < NBlockMax(p, m) - 1 \/ p.even => kBlockN * (n + 1) <= p.sk
      BY BlockInBounds
    <2> QED BY <1>1, <1>3, <2>1
  <1>5. CASE p.local
    <2> HIDE DEF row
    <2>1. ~p.causal
      BY <1>1, <1>5
    <2>2. Keep(p, masking, row, c) <=> /\ ColLimitLeft(p, row) <= c
                                       /\ c < ColLimitRight(p, row)
      BY <1>5, <2>1 DEF Keep
    <2>3. ColLimitLeft(p, row) <= c <=> row + p.sk - p.sq - p.wl <= c
      BY <1>1 DEF ColLimitLeft, AtLeast
    <2>4. c < ColLimitRight(p, row) <=> /\ c < p.sk
                                        /\ c <= row + p.sk - p.sq + p.wr
      BY <1>1 DEF ColLimitRight, AtMost
    <2>5. Attends(p, row, c) <=> /\ c < p.sk
                                 /\ row + p.sk - p.sq - p.wl <= c
                                 /\ c <= row + p.sk - p.sq + p.wr
      BY <1>1, <1>5, <2>1 DEF Attends
    <2> QED BY <2>2, <2>3, <2>4, <2>5 DEF row
  <1>6. CASE p.causal /\ masking
    BY <1>1, <1>6 DEF Keep, Attends, ColLimitRight, AtMost
  <1>7. CASE p.causal /\ ~masking
    <2>1. kBlockN * (n + 1) <= m * kBlockM + p.sk - p.sq + 1
      BY <1>2, <1>7, FreeBlocksBelowDiagonal
    <2>2. c <= row + p.sk - p.sq
      BY <1>1, <1>3, <2>1
    <2>3. c < p.sk
      BY <1>2, <1>4, <1>7
    <2> HIDE DEF row
    <2>4. Attends(p, row, c)
      BY <1>1, <1>7, <2>2, <2>3 DEF Attends
    <2>5. Keep(p, masking, row, c)
      BY <1>1, <1>7 DEF Keep
    <2> QED BY <2>4, <2>5 DEF row
  <1>8. CASE ~p.causal /\ ~p.local
    <2>1. NMaskingSteps(p) = 1
      BY <1>8 DEF NMaskingSteps
    <2>2. ~masking => c < p.sk
      BY <1>2, <1>4, <2>1
    <2>3. Attends(p, row, c) <=> c < p.sk
      BY <1>1, <1>8 DEF Attends
    <2>4. Keep(p, masking, row, c) <=> (masking /\ ~p.even => c < p.sk)
      BY <1>8 DEF Keep
    <2> QED BY <1>4, <2>2, <2>3, <2>4
  <1> QED BY <1>5, <1>6, <1>7, <1>8 DEF IsParams

-----------------------------------------------------------------------------
(* The kernel's mask and the documented one *)

\* The parameters SetParams derives from an aligned call select the columns
\* the interface documents: clamping a window, opening its other side with
\* seqlen_k and dropping causal for a single query change no row.
LEMMA AlignedMask ==
    ASSUME NEW a, IsCall(a), Aligned(a), NEW i \in Nat, i < a.sq, NEW j \in Int
    PROVE  DocAttends(a, i, j) <=> Attends(SetParams(a), i, j)
  <1> DEFINE p == SetParams(a)
             l == Clamp(a.wl, a.seqlen_k)
             r == ApiWindowRight(a)
             d == i + a.sk - a.sq
  <1>1. /\ a.sq \in Nat /\ a.sk \in Nat /\ a.wl \in Int /\ a.wr \in Int
        /\ a.seqlen_q \in Nat \ {0} /\ a.seqlen_k \in Nat \ {0}
        /\ a.causal \in BOOLEAN /\ a.sq <= a.seqlen_q /\ a.sk <= a.seqlen_k
        /\ a.seqlen_q <= a.seqlen_k \/ (a.wr < 0 /\ (a.causal \/ a.wl < 0))
    BY DEF IsCall, Aligned
  <1>2. d \in Int /\ d <= a.sk - 1 /\ d >= a.sk - a.seqlen_q
        /\ (a.seqlen_q = 1 => d = a.sk - 1)
    BY <1>1
  <1>3. l = IF a.wl >= a.seqlen_k THEN -1 ELSE a.wl
    BY DEF Clamp, Unlimited
  <1>4. r = IF a.causal /\ a.seqlen_q # 1 THEN 0
            ELSE IF a.wr >= a.seqlen_k THEN -1 ELSE a.wr
    BY <1>1 DEF ApiWindowRight, EffectiveCausal, Clamp, Unlimited
  <1>5. /\ p.sk = a.sk /\ p.sq = a.sq
        /\ p.wl = IF l < 0 /\ r >= 0 THEN a.seqlen_k ELSE l
        /\ p.wr = IF p.wl >= 0 /\ r < 0 THEN a.seqlen_k ELSE r
        /\ p.causal <=> (l < 0 /\ r = 0)
        /\ p.local <=> ~p.causal /\ (p.wl >= 0 \/ p.wr >= 0)
    BY DEF SetParams, FwdMask, MaskParams
  <1> HIDE DEF p, l, r
  <1>6. DocAttends(a, i, j) <=> /\ j >= 0 /\ j < a.sk
                                /\ a.causal => j <= d
                                /\ a.wl >= 0 => j >= d - a.wl
                                /\ a.wr >= 0 => j <= d + a.wr
    BY <1>1 DEF DocAttends
  <1>7. l \in Int /\ r \in Int /\ p.wl \in Int /\ p.wr \in Int
    BY <1>1, <1>3, <1>4, <1>5
  <1>8. Attends(p, i, j) <=> /\ j >= 0 /\ j < a.sk
                             /\ p.causal => j <= d
                             /\ p.local => j >= d - p.wl /\ j <= d + p.wr
    <2>1. p.sk = a.sk /\ p.sq = a.sq
      BY <1>5
    <2> QED BY <1>1, <1>7, <2>1 DEF Attends
  <1> HIDE DEF d
  \* The left side, the right side, and no side at all.
  <1>9. ASSUME j >= 0, j < a.sk
        PROVE  (a.wl >= 0 => j >= d - a.wl) <=> (p.local => j >= d - p.wl)
    BY <1>1, <1>2, <1>3, <1>4, <1>5, <1>7, <1>9
  <1>10. ASSUME j >= 0, j < a.sk
         PROVE  (a.causal => j <= d) /\ (a.wr >= 0 => j <= d + a.wr) <=>
                    (p.causal => j <= d) /\ (p.local => j <= d + p.wr)
    BY <1>1, <1>2, <1>3, <1>4, <1>5, <1>7, <1>10
  <1> QED BY <1>6, <1>8, <1>9, <1>10 DEF p
=============================================================================
