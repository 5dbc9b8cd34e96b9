--------------------------- MODULE FlashFwdProofs ---------------------------
(***************************************************************************)
(* The safety properties of FlashFwd, for every tile shape, every number   *)
(* of warps, every assignment of rows to warps and every call.             *)
(*                                                                         *)
(* The argument: a warp's visit list is determined by how long it is       *)
(* (VisitInv), so a warp that left the loops has visited NBlockMax - 1     *)
(* down to NBlockMin, the first NMaskingSteps of them with masking; the    *)
(* lemmas of FwdTilingProofs say what such a list keeps.                   *)
(***************************************************************************)
EXTENDS FlashFwd, FwdTilingProofs, SequenceTheorems

\* The CTA has rows and blocks, so it runs the loops.
Looping == ~NoRows(params, m_block) /\ ~ExitsEarly(params, m_block)

Left == {"epilogue", "store", "done"}

\* s is the list of the first Len(s) visits to the row block.
VisitsInOrder(s) ==
    \A i \in 1 .. Len(s) :
        /\ s[i].n = NBlockMax(params, m_block) - i
        /\ s[i].masking <=> i <= NMaskingSteps(params)

VisitInv(w) ==
    /\ phase[w] = "start" => acc[w] = <<>>
    /\ ~Looping => phase[w] \in {"start", "done"} /\ acc[w] = <<>>
    /\ Looping /\ phase[w] # "start" =>
          /\ n_block[w] = NBlockMax(params, m_block) - 1 - Len(acc[w])
          /\ n_block[w] >= NBlockMin(params, m_block) - 1
          /\ Len(acc[w]) >= 1
          /\ step[w] = AtMost(Len(acc[w]), NMaskingSteps(params))
          /\ NextPhase(params, m_block, n_block[w], step[w]) =
                 IF phase[w] \in Left THEN "epilogue" ELSE phase[w]
          /\ VisitsInOrder(acc[w])

\* What has been stored for row r; an owner has left the loops by the time a
\* row of its is stored.
StoreInv(r) ==
    /\ ~Valid(params, m_block, r) => gO[r] = Unset
    /\ phase[Mover(r)] = "done" /\ Valid(params, m_block, r) =>
          IF Looping
          THEN phase[Owner(r)] \in Left /\ gO[r] = Kept(Owner(r), r)
          ELSE gO[r] = {} /\ gLSE[r] = "inf"
    /\ Looping /\ phase[Owner(r)] \in {"store", "done"} /\ Valid(params, m_block, r) =>
          gLSE[r] = Lse(Kept(Owner(r), r))

IInv == /\ TypeOK
        /\ \A w \in Warps : VisitInv(w)
        /\ \A r \in Rows : StoreInv(r)

-----------------------------------------------------------------------------
(* Type correctness *)

LEMMA RowWarps ==
    ASSUME NEW r \in Rows
    PROVE  Owner(r) \in Warps /\ Mover(r) \in Warps
  <1>1. r \in Int /\ RowAtom \in Nat \ {0} /\ CopyAtom \in Nat \ {0}
        /\ kNWarps \in Nat \ {0}
    BY WarpAssumption, BlockAssumption DEF Rows
  <1>2. r \div RowAtom \in Int /\ r \div CopyAtom \in Int
    BY <1>1, DivMod
  <1> QED BY <1>1, <1>2, DivMod DEF Owner, Mover, Warps

LEMMA ParamsOK ==
    ASSUME TypeOK
    PROVE  /\ IsParams(params) /\ m_block \in Nat
           /\ NBlockMin(params, m_block) \in Nat
           /\ NBlockMax(params, m_block) \in Int
           /\ NMaskingSteps(params) \in Nat \ {0}
           /\ Looping => NBlockMin(params, m_block) < NBlockMax(params, m_block)
  <1>1. IsParams(params) /\ m_block \in Nat
    BY ArgsAssumption, SetParamsType DEF TypeOK
  <1> QED BY <1>1, LoopBoundsType DEF Looping

LEMMA NextPhaseType ==
    ASSUME NEW p, NEW m, NEW n, NEW s
    PROVE  NextPhase(p, m, n, s) \in {"masked", "free", "last", "epilogue"}
  BY DEF NextPhase

LEMMA KeptType ==
    ASSUME NEW w, NEW r
    PROVE  Kept(w, r) \in SUBSET (Columns(params) \cup Unset)
  BY DEF Kept, KeptCols

\* The columns an output may name, the kinds of LSE, one visit.
Cols == SUBSET (Columns(params) \cup Unset)
LseKinds == {"unset", "inf", "finite"}
Visit == [n : Int, masking : BOOLEAN]

LEMMA TypeInit == Init => TypeOK
  <1> SUFFICES ASSUME Init PROVE TypeOK
    OBVIOUS
  <1>1. arg \in Args /\ IsCall(arg)
    BY ArgsAssumption DEF Init
  <1>2. CeilDiv(arg.seqlen_q, kBlockM) \in Int
    <2>1. arg.seqlen_q \in Int /\ kBlockM \in Nat \ {0}
      BY <1>1, BlockAssumption DEF IsCall
    <2> QED BY <2>1, CeilDivType
  <1>3. m_block \in Nat
    BY <1>2 DEF Init
  <1>4. acc \in [Warps -> Seq([n : Int, masking : BOOLEAN])]
    BY DEF Init
  <1> QED BY <1>1, <1>3, <1>4 DEF Init, TypeOK, Phases

LEMMA FoldType ==
    ASSUME TypeOK, NEW w \in Warps, NEW masking \in BOOLEAN,
           n_block' \in [Warps -> Int], step' \in [Warps -> Nat],
           Fold(w, masking)
    PROVE  TypeOK'
  <1>1. acc' \in [Warps -> Seq(Visit)]
    <2>1. acc \in [Warps -> Seq(Visit)]
      BY DEF TypeOK, Visit
    <2>2. [n |-> n_block'[w] + 1, masking |-> masking] \in Visit
      BY DEF Visit
    <2>3. Append(acc[w], [n |-> n_block'[w] + 1, masking |-> masking]) \in Seq(Visit)
      BY <2>1, <2>2, AppendProperties
    <2> QED BY <2>1, <2>3 DEF Fold
  <1>2. phase' \in [Warps -> Phases]
    <2>1. NextPhase(params, m_block, n_block'[w], step'[w]) \in Phases
      BY NextPhaseType DEF Phases
    <2> QED BY <2>1 DEF Fold, TypeOK
  <1> QED BY <1>1, <1>2 DEF TypeOK, Fold, Visit, Columns

LEMMA TypeStep == TypeOK /\ [Next]_vars => TypeOK'
  <1> SUFFICES ASSUME TypeOK, [Next]_vars PROVE TypeOK'
    OBVIOUS
  <1>1. ASSUME NEW w \in Warps, Return(w) PROVE TypeOK'
    BY <1>1 DEF TypeOK, Return, Phases, Columns
  <1>2. ASSUME NEW w \in Warps, StoreZero(w) PROVE TypeOK'
    BY <1>2 DEF TypeOK, StoreZero, Phases, Columns
  <1>3. ASSUME NEW w \in Warps, FirstStep(w) PROVE TypeOK'
    <2>1. n_block' \in [Warps -> Int] /\ step' \in [Warps -> Nat]
      BY <1>3, ParamsOK DEF FirstStep, TypeOK
    <2> QED BY <1>3, <2>1, FoldType DEF FirstStep
  <1>4. ASSUME NEW w \in Warps, MaskedStep(w) PROVE TypeOK'
    <2>1. n_block' \in [Warps -> Int] /\ step' \in [Warps -> Nat]
      BY <1>4 DEF MaskedStep, TypeOK
    <2> QED BY <1>4, <2>1, FoldType DEF MaskedStep
  <1>5. ASSUME NEW w \in Warps, FreeStep(w) PROVE TypeOK'
    <2>1. n_block' \in [Warps -> Int] /\ step' \in [Warps -> Nat]
      BY <1>5 DEF FreeStep, TypeOK
    <2> QED BY <1>5, <2>1, FoldType DEF FreeStep
  <1>6. ASSUME NEW w \in Warps, LastStep(w) PROVE TypeOK'
    <2>1. n_block' \in [Warps -> Int] /\ step' \in [Warps -> Nat]
      BY <1>6 DEF LastStep, TypeOK
    <2> QED BY <1>6, <2>1, FoldType DEF LastStep
  <1>7. ASSUME NEW w \in Warps, StoreLse(w) PROVE TypeOK'
    <2>1. gLSE' \in [Rows -> LseKinds]
      BY <1>7 DEF StoreLse, Lse, TypeOK, LseKinds
    <2> QED BY <1>7, <2>1 DEF TypeOK, StoreLse, Phases, LseKinds, Columns
  <1>8. ASSUME NEW w \in Warps, StoreO(w) PROVE TypeOK'
    <2>1. gO' \in [Rows -> Cols]
      BY <1>8, KeptType DEF StoreO, TypeOK, Cols
    <2> QED BY <1>8, <2>1 DEF TypeOK, StoreO, Phases, Cols, Columns
  <1>9. ASSUME UNCHANGED vars PROVE TypeOK'
    BY <1>9 DEF TypeOK, vars, Columns
  <1> QED BY <1>1, <1>2, <1>3, <1>4, <1>5, <1>6, <1>7, <1>8, <1>9
          DEF Next, Step

\* Every reachable state is well typed.
THEOREM TypeCorrect == Spec => []TypeOK
  BY TypeInit, TypeStep, PTL DEF Spec

-----------------------------------------------------------------------------
(* The visits of a warp *)

LEMMA VisitInit == Init => \A w \in Warps : VisitInv(w)
  BY DEF Init, VisitInv

\* What one more visit of warp w, of block n_block'[w] + 1, does to the list.
LEMMA FoldVisits ==
    ASSUME TypeOK, TypeOK', NEW w \in Warps, NEW masking \in BOOLEAN,
           Looping, Fold(w, masking),
           n_block'[w] = NBlockMax(params, m_block) - 2 - Len(acc[w]),
           n_block'[w] >= NBlockMin(params, m_block) - 1,
           step'[w] = AtMost(Len(acc[w]) + 1, NMaskingSteps(params)),
           VisitsInOrder(acc[w]),
           masking <=> Len(acc[w]) + 1 <= NMaskingSteps(params)
    PROVE  VisitInv(w)'
  <1> DEFINE v == [n |-> n_block'[w] + 1, masking |-> masking]
             k == Len(acc[w])
  <1>1. /\ acc'[w] = Append(acc[w], v)
        /\ phase'[w] = NextPhase(params, m_block, n_block'[w], step'[w])
        /\ params' = params /\ m_block' = m_block
    BY DEF Fold, TypeOK
  <1>2. acc[w] \in Seq(Visit) /\ v \in Visit /\ k \in Nat
    BY DEF TypeOK, Visit
  <1>3. /\ Len(acc'[w]) = k + 1
        /\ acc'[w][k + 1] = v
        /\ \A i \in 1 .. k : acc'[w][i] = acc[w][i]
    BY <1>1, <1>2, AppendProperties
  <1>4. NBlockMax(params, m_block) \in Int /\ NMaskingSteps(params) \in Nat \ {0}
    BY ParamsOK
  <1>5. VisitsInOrder(acc'[w])
    <2> SUFFICES ASSUME NEW i \in 1 .. k + 1
                 PROVE  /\ acc'[w][i].n = NBlockMax(params, m_block) - i
                        /\ acc'[w][i].masking <=> i <= NMaskingSteps(params)
      BY <1>3 DEF VisitsInOrder
    <2>1. CASE i \in 1 .. k
      BY <1>3, <2>1 DEF VisitsInOrder
    <2>2. CASE i = k + 1
      <3>1. v.n = n_block'[w] + 1
        OBVIOUS
      <3>2. v.n = NBlockMax(params, m_block) - (k + 1)
        BY <1>2, <1>4, <3>1
      <3>3. v.masking <=> k + 1 <= NMaskingSteps(params)
        OBVIOUS
      <3> QED BY <1>3, <2>2, <3>2, <3>3
    <2> QED BY <1>2, <2>1, <2>2
  <1>6. Looping'
    BY <1>1 DEF Looping
  <1>7. phase'[w] \in {"masked", "free", "last", "epilogue"}
    BY <1>1, NextPhaseType
  <1>8. /\ n_block'[w] = NBlockMax(params, m_block) - 1 - Len(acc'[w])
        /\ Len(acc'[w]) >= 1
        /\ step'[w] = AtMost(Len(acc'[w]), NMaskingSteps(params))
    <2>1. n_block'[w] = NBlockMax(params, m_block) - 2 - k
      OBVIOUS
    <2>2. step'[w] = AtMost(k + 1, NMaskingSteps(params))
      OBVIOUS
    <2> HIDE DEF k
    <2>3. NBlockMax(params, m_block) - 2 - k = NBlockMax(params, m_block) - 1 - (k + 1)
      BY <1>2, <1>4
    <2> QED BY <1>2, <1>3, <2>1, <2>2, <2>3
  <1>9. NextPhase(params, m_block, n_block'[w], step'[w]) =
            IF phase'[w] \in Left THEN "epilogue" ELSE phase'[w]
    BY <1>1, <1>7 DEF Left
  <1> QED BY <1>1, <1>5, <1>6, <1>7, <1>8, <1>9 DEF VisitInv, VisitsInOrder

LEMMA VisitStep ==
    ASSUME TypeOK, \A w \in Warps : VisitInv(w), [Next]_vars
    PROVE  \A w \in Warps : VisitInv(w)'
  <1>0. TypeOK'
    BY TypeStep
  <1>1. /\ NBlockMin(params, m_block) \in Nat /\ NBlockMax(params, m_block) \in Int
        /\ NMaskingSteps(params) \in Nat \ {0}
        /\ Looping => NBlockMin(params, m_block) < NBlockMax(params, m_block)
        /\ \A w \in Warps : acc[w] \in Seq(Visit) /\ Len(acc[w]) \in Nat
        /\ \A w \in Warps : n_block[w] \in Int /\ step[w] \in Nat
    BY ParamsOK DEF TypeOK, Visit
  \* A warp that does not move, and one that moves outside the loops.
  <1>2. ASSUME NEW w \in Warps, params' = params, m_block' = m_block,
               n_block'[w] = n_block[w], step'[w] = step[w], acc'[w] = acc[w],
               phase'[w] = phase[w]
        PROVE  VisitInv(w)'
    BY <1>2 DEF VisitInv, VisitsInOrder, Looping
  <1>3. ASSUME NEW w \in Warps, Step(w), NEW v \in Warps, v # w
        PROVE  VisitInv(v)'
    <2>1. /\ params' = params /\ m_block' = m_block
          /\ n_block'[v] = n_block[v] /\ step'[v] = step[v] /\ acc'[v] = acc[v]
          /\ phase'[v] = phase[v]
      BY <1>3 DEF Step, Return, StoreZero, FirstStep, MaskedStep, FreeStep,
                  LastStep, StoreLse, StoreO, Fold, TypeOK
    <2> QED BY <1>2, <2>1
  <1>4. ASSUME NEW w \in Warps, Return(w) \/ StoreZero(w) PROVE VisitInv(w)'
    <2>1. ~Looping /\ phase[w] = "start"
      BY <1>4 DEF Return, StoreZero, Looping
    <2>2. /\ ~Looping' /\ phase'[w] = "done" /\ acc'[w] = acc[w]
      BY <1>4, <2>1 DEF Return, StoreZero, Looping, TypeOK
    <2> QED BY <2>1, <2>2 DEF VisitInv
  <1>5. ASSUME NEW w \in Warps, FirstStep(w) PROVE VisitInv(w)'
    <2>1. Looping /\ acc[w] = <<>> /\ Fold(w, TRUE)
      BY <1>5 DEF FirstStep, Looping, VisitInv
    <2>2. n_block'[w] = NBlockMax(params, m_block) - 2 /\ step'[w] = 1
      BY <1>5 DEF FirstStep, TypeOK
    <2>3. VisitsInOrder(acc[w])
      BY <2>1 DEF VisitsInOrder
    <2>4. /\ n_block'[w] = NBlockMax(params, m_block) - 2 - Len(acc[w])
          /\ n_block'[w] >= NBlockMin(params, m_block) - 1
          /\ step'[w] = AtMost(Len(acc[w]) + 1, NMaskingSteps(params))
          /\ TRUE <=> Len(acc[w]) + 1 <= NMaskingSteps(params)
      BY <1>1, <2>1, <2>2 DEF AtMost
    <2> QED BY <1>0, <2>1, <2>3, <2>4, FoldVisits
  <1>6. ASSUME NEW w \in Warps, phase[w] \in {"masked", "free", "last"},
               NEW masking \in BOOLEAN, Fold(w, masking),
               masking <=> phase[w] = "masked",
               n_block'[w] = n_block[w] - 1,
               step'[w] = IF masking THEN step[w] + 1 ELSE step[w]
        PROVE  VisitInv(w)'
    <2>1. /\ Looping
          /\ n_block[w] = NBlockMax(params, m_block) - 1 - Len(acc[w])
          /\ step[w] = AtMost(Len(acc[w]), NMaskingSteps(params))
          /\ NextPhase(params, m_block, n_block[w], step[w]) = phase[w]
          /\ VisitsInOrder(acc[w])
      BY <1>6 DEF VisitInv, Left
    <2>2. n_block[w] >= NBlockMin(params, m_block)
      BY <1>1, <1>6, <2>1 DEF NextPhase
    <2>3. phase[w] = "masked" <=> step[w] < NMaskingSteps(params)
      BY <1>1, <1>6, <2>1, <2>2 DEF NextPhase
    <2>4. masking <=> Len(acc[w]) + 1 <= NMaskingSteps(params)
      BY <1>1, <1>6, <2>1, <2>3 DEF AtMost
    <2>5. step'[w] = AtMost(Len(acc[w]) + 1, NMaskingSteps(params))
      BY <1>1, <1>6, <2>1, <2>4 DEF AtMost
    <2>6. /\ n_block'[w] = NBlockMax(params, m_block) - 2 - Len(acc[w])
          /\ n_block'[w] >= NBlockMin(params, m_block) - 1
      BY <1>1, <1>6, <2>1, <2>2
    <2> QED BY <1>0, <1>6, <2>1, <2>4, <2>5, <2>6, FoldVisits
  <1>7. ASSUME NEW w \in Warps, MaskedStep(w) \/ FreeStep(w) \/ LastStep(w)
        PROVE  VisitInv(w)'
    <2>1. CASE MaskedStep(w)
      BY <1>6, <2>1 DEF MaskedStep, TypeOK
    <2>2. CASE FreeStep(w)
      BY <1>6, <2>2 DEF FreeStep, TypeOK
    <2>3. CASE LastStep(w)
      BY <1>6, <2>3 DEF LastStep, TypeOK
    <2> QED BY <1>7, <2>1, <2>2, <2>3
  <1>8. ASSUME NEW w \in Warps, StoreLse(w) \/ StoreO(w) PROVE VisitInv(w)'
    <2>1. /\ params' = params /\ m_block' = m_block
          /\ n_block'[w] = n_block[w] /\ step'[w] = step[w] /\ acc'[w] = acc[w]
          /\ phase[w] \in {"epilogue", "store"} /\ phase'[w] \in {"store", "done"}
      BY <1>8 DEF StoreLse, StoreO, TypeOK
    <2>2. Looping
      BY <2>1 DEF VisitInv
    <2> QED BY <2>1, <2>2 DEF VisitInv, VisitsInOrder, Looping, Left
  <1>9. CASE UNCHANGED vars
    BY <1>2, <1>9 DEF vars
  <1> QED BY <1>3, <1>4, <1>5, <1>7, <1>8, <1>9 DEF Next, Step

-----------------------------------------------------------------------------
(* What has been stored *)

LEMMA StoreInit == Init => \A r \in Rows : StoreInv(r)
  <1> SUFFICES ASSUME Init, NEW r \in Rows PROVE StoreInv(r)
    OBVIOUS
  <1> QED BY RowWarps DEF Init, StoreInv

LEMMA StoreStep ==
    ASSUME TypeOK, \A w \in Warps : VisitInv(w), \A r \in Rows : StoreInv(r),
           [Next]_vars
    PROVE  \A r \in Rows : StoreInv(r)'
  <1> SUFFICES ASSUME NEW r \in Rows PROVE StoreInv(r)'
    OBVIOUS
  <1> DEFINE o == Owner(r)
             v == Mover(r)
  <1>1. o \in Warps /\ v \in Warps
    BY RowWarps
  <1>2. /\ phase \in [Warps -> Phases] /\ gLSE \in [Rows -> LseKinds]
        /\ gO \in [Rows -> Cols] /\ acc \in [Warps -> Seq(Visit)]
    BY DEF TypeOK, LseKinds, Cols, Visit
  \* While acc and phase of the owner, phase of the mover and what is stored
  \* for r stay the same, so does StoreInv(r).
  <1>3. ASSUME params' = params, m_block' = m_block, acc'[o] = acc[o],
               phase'[o] = phase[o], phase'[v] = phase[v],
               gO'[r] = gO[r], gLSE'[r] = gLSE[r]
        PROVE  StoreInv(r)'
    BY <1>3 DEF StoreInv, Looping, Kept
  <1>4. ASSUME NEW w \in Warps, Return(w) PROVE StoreInv(r)'
    <2>1. /\ ~Looping /\ ~Valid(params, m_block, r)
          /\ params' = params /\ m_block' = m_block /\ gO' = gO
      <3>1. IsParams(params) /\ m_block \in Nat
        BY ParamsOK
      <3>2. params.sq \in Nat /\ m_block * kBlockM \in Nat /\ r \in Nat
        BY <3>1, BlockAssumption DEF IsParams, Rows
      <3>3. m_block * kBlockM >= params.sq
        BY <1>4 DEF Return, NoRows
      <3> QED BY <1>4, <3>2, <3>3 DEF Return, Looping, Valid
    <2>2. ~Looping' /\ ~Valid(params', m_block', r)
      BY <2>1 DEF Looping
    <2> QED BY <2>1, <2>2 DEF StoreInv
  <1>5. ASSUME NEW w \in Warps, StoreZero(w) PROVE StoreInv(r)'
    <2>1. ~Looping /\ ~Looping' /\ params' = params /\ m_block' = m_block
      BY <1>5 DEF StoreZero, Looping
    <2>2. /\ gO'[r] = IF r \in Moved(w) THEN {} ELSE gO[r]
          /\ gLSE'[r] = IF r \in Moved(w) THEN "inf" ELSE gLSE[r]
          /\ phase'[v] = IF v = w THEN "done" ELSE phase[v]
      BY <1>1, <1>2, <1>5 DEF StoreZero
    <2>3. r \in Moved(w) <=> v = w /\ Valid(params, m_block, r)
      BY DEF Moved
    <2> QED BY <2>1, <2>2, <2>3 DEF StoreInv
  <1>6. ASSUME NEW w \in Warps, NEW masking \in BOOLEAN, Fold(w, masking),
               Looping, phase[w] \notin Left
        PROVE  StoreInv(r)'
    <2>1. /\ params' = params /\ m_block' = m_block /\ gO' = gO /\ gLSE' = gLSE
          /\ Looping' /\ phase'[w] \notin {"store", "done"}
          /\ \A u \in Warps : u # w => phase'[u] = phase[u] /\ acc'[u] = acc[u]
      <3>1. phase'[w] = NextPhase(params, m_block, n_block'[w], step'[w])
        BY <1>2, <1>6 DEF Fold
      <3> QED BY <1>2, <1>6, <3>1, NextPhaseType DEF Fold, Looping
    <2>2. CASE o = w
      \* The owner is in its loops, so nothing of the row is stored yet.
      <3>1. ~(phase[v] = "done" /\ Valid(params, m_block, r))
        BY <1>6, <2>2 DEF StoreInv
      <3>2. phase'[v] = "done" => phase[v] = "done"
        BY <1>1, <2>1
      <3> QED BY <2>1, <2>2, <3>1, <3>2 DEF StoreInv
    <2>3. CASE o # w
      <3>1. phase'[v] = "done" => phase[v] = "done"
        BY <1>1, <2>1
      <3>2. phase'[o] = phase[o] /\ acc'[o] = acc[o]
        BY <1>1, <2>1, <2>3
      <3> QED BY <1>6, <2>1, <3>1, <3>2 DEF StoreInv, Kept
    <2> QED BY <2>2, <2>3
  <1>7. ASSUME NEW w \in Warps,
               FirstStep(w) \/ MaskedStep(w) \/ FreeStep(w) \/ LastStep(w)
        PROVE  StoreInv(r)'
    <2>1. Looping /\ phase[w] \notin Left
      BY <1>7 DEF FirstStep, MaskedStep, FreeStep, LastStep, Looping, Left, VisitInv
    <2> QED BY <1>6, <1>7, <2>1 DEF FirstStep, MaskedStep, FreeStep, LastStep
  <1>8. ASSUME NEW w \in Warps, StoreLse(w) PROVE StoreInv(r)'
    <2>1. /\ params' = params /\ m_block' = m_block /\ gO' = gO /\ acc' = acc
          /\ phase[w] = "epilogue" /\ phase'[w] = "store"
          /\ \A u \in Warps : u # w => phase'[u] = phase[u]
          /\ gLSE'[r] = IF r \in Owned(w) THEN Lse(Kept(w, r)) ELSE gLSE[r]
      BY <1>2, <1>8 DEF StoreLse
    <2>2. Looping /\ Looping'
      BY <2>1 DEF VisitInv, Looping
    <2>3. r \in Owned(w) <=> o = w /\ Valid(params, m_block, r)
      BY DEF Owned
    <2>4. phase'[v] = "done" => phase[v] = "done"
      BY <1>1, <2>1
    <2>5. phase[o] \in Left => phase'[o] \in Left
      BY <1>1, <2>1 DEF Left
    <2> QED BY <1>1, <2>1, <2>2, <2>3, <2>4, <2>5 DEF StoreInv, Kept
  <1>9. ASSUME NEW w \in Warps, StoreO(w) PROVE StoreInv(r)'
    <2>1. /\ params' = params /\ m_block' = m_block /\ gLSE' = gLSE /\ acc' = acc
          /\ phase[w] = "store" /\ phase'[w] = "done"
          /\ \A u \in Warps : u # w => phase'[u] = phase[u]
          /\ gO'[r] = IF r \in Moved(w) THEN Kept(o, r) ELSE gO[r]
      BY <1>2, <1>9 DEF StoreO
    <2>2. Looping /\ Looping'
      BY <2>1 DEF VisitInv, Looping
    <2>3. r \in Moved(w) <=> v = w /\ Valid(params, m_block, r)
      BY DEF Moved
    <2>4. v = w => phase[o] \in Left
      BY <1>9 DEF StoreO, Left
    <2>5. phase[o] \in Left => phase'[o] \in Left
      BY <1>1, <2>1 DEF Left
    <2>6. phase'[o] \in {"store", "done"} => phase[o] \in {"store", "done"}
      BY <1>1, <2>1
    <2>7. phase'[v] = "done" => v = w \/ phase[v] = "done"
      BY <1>1, <2>1
    <2> QED BY <2>1, <2>2, <2>3, <2>4, <2>5, <2>6, <2>7 DEF StoreInv, Kept
  <1>10. CASE UNCHANGED vars
    BY <1>3, <1>10 DEF vars
  <1> QED BY <1>4, <1>5, <1>7, <1>8, <1>9, <1>10 DEF Next, Step

\* The inductive invariant: types, visit lists, stored results.
THEOREM Inductive == Spec => []IInv
  <1>1. Init => IInv
    BY TypeInit, VisitInit, StoreInit DEF IInv
  <1>2. IInv /\ [Next]_vars => IInv'
    <2> SUFFICES ASSUME IInv, [Next]_vars PROVE IInv'
      OBVIOUS
    <2>1. TypeOK'
      BY TypeStep DEF IInv
    <2>2. \A w \in Warps : VisitInv(w)'
      BY VisitStep DEF IInv
    <2>3. \A r \in Rows : StoreInv(r)'
      BY StoreStep DEF IInv
    <2> QED BY <2>1, <2>2, <2>3 DEF IInv, Warps, Rows
  <1> QED BY <1>1, <1>2, PTL DEF Spec

-----------------------------------------------------------------------------
(* The safety properties *)

\* What the mask of the kernel's parameters lets row r of the tile attend.
Attended(r) == {c \in Columns(params) : Attends(params, QueryRow(r), c)}

LEMMA VisitRange ==
    ASSUME TypeOK, NEW w \in Warps, VisitInv(w), NEW i \in DOMAIN acc[w]
    PROVE  /\ Looping /\ i \in 1 .. Len(acc[w]) /\ Len(acc[w]) \in Nat
           /\ acc[w][i].n = NBlockMax(params, m_block) - i
           /\ acc[w][i].masking <=> i <= NMaskingSteps(params)
           /\ acc[w][i].n \in Nat /\ acc[w][i].masking \in BOOLEAN
           /\ NBlockMin(params, m_block) <= acc[w][i].n
           /\ acc[w][i].n < NBlockMax(params, m_block)
  <1>1. acc[w] \in Seq(Visit)
    BY DEF TypeOK, Visit
  <1>2. Len(acc[w]) \in Nat /\ i \in 1 .. Len(acc[w]) /\ acc[w][i] \in Visit
    BY <1>1
  <1>3. acc[w] # <<>>
    BY <1>1, <1>2, EmptySeq
  <1>4. Looping /\ phase[w] # "start"
    BY <1>3 DEF VisitInv
  <1>5. /\ n_block[w] = NBlockMax(params, m_block) - 1 - Len(acc[w])
        /\ n_block[w] >= NBlockMin(params, m_block) - 1
        /\ acc[w][i].n = NBlockMax(params, m_block) - i
        /\ acc[w][i].masking <=> i <= NMaskingSteps(params)
    BY <1>2, <1>4 DEF VisitInv, VisitsInOrder
  <1>6. NBlockMax(params, m_block) \in Int /\ NBlockMin(params, m_block) \in Nat
    BY ParamsOK
  <1>7. acc[w][i].masking \in BOOLEAN
    BY <1>2 DEF Visit
  <1> QED BY <1>2, <1>4, <1>5, <1>6, <1>7

\* A warp that has left the loops has visited every block of the range.
LEMMA LeftLoops ==
    ASSUME TypeOK, NEW w \in Warps, VisitInv(w), Looping, phase[w] \in Left
    PROVE  Len(acc[w]) = NBlockMax(params, m_block) - NBlockMin(params, m_block)
  <1>1. /\ n_block[w] = NBlockMax(params, m_block) - 1 - Len(acc[w])
        /\ n_block[w] >= NBlockMin(params, m_block) - 1
        /\ NextPhase(params, m_block, n_block[w], step[w]) = "epilogue"
    BY DEF VisitInv, Left
  <1>2. /\ NBlockMax(params, m_block) \in Int /\ NBlockMin(params, m_block) \in Nat
        /\ n_block[w] \in Int /\ Len(acc[w]) \in Nat
    BY ParamsOK DEF TypeOK
  <1>3. n_block[w] < NBlockMin(params, m_block)
    BY <1>1, <1>2 DEF NextPhase
  <1> QED BY <1>1, <1>2, <1>3

\* So what it kept is what its rows attend.
LEMMA KeptExact ==
    ASSUME TypeOK, NEW w \in Warps, VisitInv(w), Looping, phase[w] \in Left,
           NEW r \in Rows
    PROVE  Kept(w, r) = Attended(r)
  <1> DEFINE nmin == NBlockMin(params, m_block)
             nmax == NBlockMax(params, m_block)
  <1>1. IsParams(params) /\ m_block \in Nat /\ nmin \in Nat /\ nmax \in Int
    BY ParamsOK
  <1>2. Len(acc[w]) = nmax - nmin /\ DOMAIN acc[w] = 1 .. Len(acc[w])
    BY LeftLoops DEF TypeOK
  <1>3. ASSUME NEW c \in Columns(params)
        PROVE  c \in Nat /\ c \div kBlockN \in Int
    <2>1. c \in Nat /\ c \in Int
      BY DEF Columns
    <2> QED BY <2>1, DivMod, BlockAssumption
  <1>4. ASSUME NEW c \in Columns(params), NEW i \in DOMAIN acc[w],
               acc[w][i].n = c \div kBlockN
        PROVE  Keep(params, acc[w][i].masking, QueryRow(r), c) <=>
                   Attends(params, QueryRow(r), c)
    <2> DEFINE n == acc[w][i].n
               b == acc[w][i].masking
    <2>1. /\ n \in Nat /\ b \in BOOLEAN /\ nmin <= n /\ n < nmax
          /\ n = nmax - i /\ (b <=> i <= NMaskingSteps(params)) /\ i \in Nat
      BY VisitRange
    <2>2. b <=> nmax - n <= NMaskingSteps(params)
      BY <1>1, <2>1
    <2>3. c \in Nat /\ n = c \div kBlockN
      BY <1>3, <1>4
    <2> HIDE DEF n, b
    <2>4. Keep(params, b, m_block * kBlockM + r, c) <=>
              Attends(params, m_block * kBlockM + r, c)
      BY <1>1, <2>1, <2>2, <2>3, KeepExact
    <2> QED BY <2>4 DEF QueryRow, b
  <1>5. ASSUME NEW c \in Columns(params), Attends(params, QueryRow(r), c)
        PROVE  \E i \in DOMAIN acc[w] : acc[w][i].n = c \div kBlockN
    <2>1. nmin <= c \div kBlockN /\ c \div kBlockN < nmax
      BY <1>1, <1>5, AttendedBlocks DEF QueryRow
    <2>2. nmax - (c \div kBlockN) \in DOMAIN acc[w]
      BY <1>1, <1>2, <1>3, <2>1
    <2>3. acc[w][nmax - (c \div kBlockN)].n = nmax - (nmax - (c \div kBlockN))
      BY <2>2, VisitRange
    <2>4. nmax - (nmax - (c \div kBlockN)) = c \div kBlockN
      BY <1>1, <1>3
    <2> QED BY <2>2, <2>3, <2>4
  <1> QED BY <1>4, <1>5 DEF Kept, KeptCols, Attended, QueryRow

\* A CTA that leaves early has no attended column.
LEMMA EarlyExact ==
    ASSUME TypeOK, ~Looping, NEW r \in Rows, Valid(params, m_block, r)
    PROVE  Attended(r) = {}
  <1>1. IsParams(params) /\ m_block \in Nat
        /\ NBlockMin(params, m_block) \in Nat /\ NBlockMax(params, m_block) \in Int
    BY ParamsOK
  <1>2. ~NoRows(params, m_block)
    <2>1. params.sq \in Nat /\ m_block * kBlockM \in Nat /\ r \in Nat
      BY <1>1, BlockAssumption DEF IsParams, Rows
    <2> QED BY <2>1 DEF Valid, NoRows
  <1>3. NBlockMax(params, m_block) <= NBlockMin(params, m_block)
    BY <1>2 DEF Looping, ExitsEarly
  <1>4. ASSUME NEW c \in Columns(params), Attends(params, QueryRow(r), c)
        PROVE  FALSE
    <2>1. c \in Int
      BY DEF Columns
    <2>2. c \div kBlockN \in Int
      BY <2>1, DivMod, BlockAssumption
    <2>3. /\ NBlockMin(params, m_block) <= c \div kBlockN
          /\ c \div kBlockN < NBlockMax(params, m_block)
      BY <1>1, <1>4, AttendedBlocks DEF QueryRow
    <2> QED BY <1>1, <1>3, <2>2, <2>3
  <1> QED BY <1>4 DEF Attended

\* Every finished CTA has written exactly the attended columns of each row.
THEOREM OutputCorrect == Spec => []OutputExact
  <1>1. IInv => OutputExact
    <2> SUFFICES ASSUME IInv, Finished, NEW r \in Rows
                 PROVE  gO[r] = IF Valid(params, m_block, r)
                                THEN Attended(r) ELSE Unset
      BY DEF OutputExact, Attended
    <2>1. Owner(r) \in Warps /\ phase[Mover(r)] = "done"
      BY RowWarps DEF Finished
    <2>2. /\ TypeOK /\ VisitInv(Owner(r)) /\ StoreInv(r)
      BY <2>1 DEF IInv
    <2>3. CASE ~Valid(params, m_block, r)
      BY <2>2, <2>3 DEF StoreInv
    <2>4. CASE Valid(params, m_block, r) /\ Looping
      BY <2>1, <2>2, <2>4, KeptExact DEF StoreInv
    <2>5. CASE Valid(params, m_block, r) /\ ~Looping
      BY <2>1, <2>2, <2>5, EarlyExact DEF StoreInv
    <2> QED BY <2>3, <2>4, <2>5
  <1> QED BY <1>1, Inductive, PTL

\* LSE is +inf exactly for the rows that attend nothing.
THEOREM LseCorrect == Spec => []LseInfIffEmpty
  <1>1. IInv => LseInfIffEmpty
    <2> SUFFICES ASSUME IInv, Finished, NEW r \in Rows, Valid(params, m_block, r)
                 PROVE  gLSE[r] = "inf" <=> Attended(r) = {}
      BY DEF LseInfIffEmpty, Attended
    <2>1. Owner(r) \in Warps /\ phase[Mover(r)] = "done" /\ phase[Owner(r)] = "done"
      BY RowWarps DEF Finished
    <2>2. /\ TypeOK /\ VisitInv(Owner(r)) /\ StoreInv(r)
      BY <2>1 DEF IInv
    <2>3. CASE Looping
      <3>1. gLSE[r] = Lse(Kept(Owner(r), r))
        BY <2>1, <2>2, <2>3 DEF StoreInv
      <3>2. Kept(Owner(r), r) = Attended(r)
        BY <2>1, <2>2, <2>3, KeptExact DEF Left
      <3> QED BY <3>1, <3>2 DEF Lse
    <2>4. CASE ~Looping
      BY <2>1, <2>2, <2>4, EarlyExact DEF StoreInv
    <2> QED BY <2>3, <2>4
  <1> QED BY <1>1, Inductive, PTL

\* No warp folds a block twice.
THEOREM BlocksDistinct == Spec => []NoBlockTwice
  <1>1. IInv => NoBlockTwice
    <2> SUFFICES ASSUME IInv, NEW w \in Warps, NEW i \in DOMAIN acc[w],
                        NEW j \in DOMAIN acc[w], acc[w][i].n = acc[w][j].n
                 PROVE  i = j
      BY DEF NoBlockTwice
    <2>1. TypeOK /\ VisitInv(w)
      BY DEF IInv
    <2>2. /\ i \in Int /\ acc[w][i].n = NBlockMax(params, m_block) - i
          /\ j \in Int /\ acc[w][j].n = NBlockMax(params, m_block) - j
      BY <2>1, VisitRange
    <2>3. NBlockMax(params, m_block) \in Int
      BY <2>1, ParamsOK
    <2>4. NBlockMax(params, m_block) - i = NBlockMax(params, m_block) - j
      BY <2>2
    <2>5. i \in Int /\ j \in Int
      BY <2>2
    <2> QED BY <2>3, <2>4, <2>5
  <1> QED BY <1>1, Inductive, PTL

\* Every load without a bound check stays inside the sequence.
THEOREM LoadsInBounds == Spec => []UncheckedLoadsInBounds
  <1>1. IInv => UncheckedLoadsInBounds
    <2> SUFFICES ASSUME IInv, NEW w \in Warps, NEW i \in DOMAIN acc[w]
                 PROVE  /\ acc[w][i].n >= 0
                        /\ i > 1 \/ params.even =>
                              (acc[w][i].n + 1) * kBlockN <= params.sk
      BY DEF UncheckedLoadsInBounds
    <2> DEFINE n == acc[w][i].n
    <2>1. TypeOK /\ VisitInv(w)
      BY DEF IInv
    <2>2. /\ n \in Nat /\ n = NBlockMax(params, m_block) - i /\ i \in Int
          /\ n < NBlockMax(params, m_block)
      BY <2>1, VisitRange
    <2>3. IsParams(params) /\ m_block \in Nat /\ NBlockMax(params, m_block) \in Int
      BY <2>1, ParamsOK
    <2>4. i > 1 => n < NBlockMax(params, m_block) - 1
      BY <2>2, <2>3
    <2> HIDE DEF n
    <2>5. i > 1 \/ params.even => kBlockN * (n + 1) <= params.sk
      BY <2>2, <2>3, <2>4, BlockInBounds
    <2>6. kBlockN * (n + 1) = (n + 1) * kBlockN
      BY <2>2, BlockAssumption
    <2>7. n >= 0
      BY <2>2
    <2>8. i > 1 \/ params.even => (n + 1) * kBlockN <= params.sk
      BY <2>5, <2>6
    <2> QED BY <2>7, <2>8 DEF n
  <1> QED BY <1>1, Inductive, PTL

\* No rescale without the -inf test sees a row for which nothing is kept: an
\* unmasked block keeps a score of every row.
THEOREM RescaleDefined == Spec => []NoNaN
  <1>1. IInv => NoNaN
    <2> SUFFICES ASSUME IInv, NEW w \in Warps, NEW i \in DOMAIN acc[w] \ {1},
                        ~CheckInf(params, acc[w][i].masking), NEW r \in Owned(w)
                 PROVE  KeptCols(params, m_block, SubSeq(acc[w], 1, i), r) # {}
      BY DEF NoNaN
    <2> DEFINE n == acc[w][i].n
               b == acc[w][i].masking
               c == kBlockN * n
    <2>1. TypeOK /\ VisitInv(w)
      BY DEF IInv
    <2>2. /\ i \in 1 .. Len(acc[w]) /\ Len(acc[w]) \in Nat /\ n \in Nat
          /\ n < NBlockMax(params, m_block)
          /\ n = NBlockMax(params, m_block) - i
          /\ (b <=> i <= NMaskingSteps(params)) /\ b \in BOOLEAN
      BY <2>1, VisitRange
    <2>3. /\ IsParams(params) /\ m_block \in Nat /\ NBlockMax(params, m_block) \in Int
          /\ params.sk \in Nat /\ kBlockN \in Nat \ {0}
      BY <2>1, ParamsOK, BlockAssumption DEF IsParams
    <2>4. ~params.local /\ ~b
      <3>1. ~params.local /\ ~(b /\ params.causal)
        BY DEF CheckInf
      <3>2. ~params.causal => NMaskingSteps(params) = 1
        BY <3>1 DEF NMaskingSteps
      <3> QED BY <2>2, <3>1, <3>2
    <2>5. Keep(params, b, m_block * kBlockM + r, c)
      BY <2>4 DEF Keep
    <2>6. kBlockN * (n + 1) <= params.sk
      <3>1. n < NBlockMax(params, m_block) - 1
        BY <2>2, <2>3
      <3> HIDE DEF n
      <3> QED BY <2>2, <2>3, <3>1, BlockInBounds
    <2>7. c \in Columns(params) /\ n = c \div kBlockN
      <3> HIDE DEF n
      <3>1. /\ kBlockN * n \in Nat /\ kBlockN * (n + 1) = kBlockN * n + kBlockN
            /\ kBlockN * n < kBlockN * (n + 1)
        BY <2>2, <2>3
      <3>2. n <= (kBlockN * n) \div kBlockN /\ (kBlockN * n) \div kBlockN < n + 1
            /\ (kBlockN * n) \div kBlockN \in Int
        <4>1. kBlockN * n \in Int /\ n \in Int /\ n + 1 \in Int /\ kBlockN * n <= kBlockN * n
          BY <2>2, <3>1
        <4> QED BY <2>3, <3>1, <4>1, DivBounds, DivMod
      <3>3. n = (kBlockN * n) \div kBlockN
        BY <2>2, <3>2
      <3>4. kBlockN * n \in Columns(params)
        BY <2>3, <2>6, <3>1 DEF Columns
      <3> QED BY <3>3, <3>4
    <2>8. i \in DOMAIN SubSeq(acc[w], 1, i) /\ SubSeq(acc[w], 1, i)[i] = acc[w][i]
      <3>1. acc[w] \in Seq(Visit)
        BY <2>1 DEF TypeOK, Visit
      <3> QED BY <2>2, <3>1
    <2> QED BY <2>5, <2>7, <2>8 DEF KeptCols
  <1> QED BY <1>1, Inductive, PTL

\* For aligned calls, what is written is what the interface documents.
THEOREM OutputDocumented == Spec => []AlignedAsDocumented
  <1>1. OutputExact /\ TypeOK => AlignedAsDocumented
    <2> SUFFICES ASSUME OutputExact, TypeOK, Aligned(arg), Finished,
                        NEW r \in Rows, Valid(params, m_block, r)
                 PROVE  gO[r] = {c \in Columns(params) : DocAttends(arg, QueryRow(r), c)}
      BY DEF AlignedAsDocumented, OutputAsDocumented
    <2>1. gO[r] = {c \in Columns(params) : Attends(params, QueryRow(r), c)}
      BY DEF OutputExact
    <2>2. /\ params = SetParams(arg) /\ IsCall(arg) /\ Aligned(arg)
          /\ QueryRow(r) \in Nat /\ QueryRow(r) < arg.sq
      <3>1. IsParams(params) /\ m_block \in Nat /\ params = SetParams(arg)
            /\ arg \in Args /\ params.sq = arg.sq
        BY ParamsOK DEF TypeOK, SetParams, FwdMask, MaskParams
      <3>2. r \in Nat /\ m_block * kBlockM \in Nat
        BY <3>1, BlockAssumption DEF Rows
      <3> QED BY <3>1, <3>2, ArgsAssumption DEF QueryRow, Valid
    <2>3. \A c \in Columns(params) : c \in Int
      BY DEF Columns
    <2>4. \A c \in Columns(params) :
              DocAttends(arg, QueryRow(r), c) <=> Attends(params, QueryRow(r), c)
      BY <2>2, <2>3, AlignedMask
    <2> QED BY <2>1, <2>4
  <1> QED BY <1>1, OutputCorrect, TypeCorrect, PTL
=============================================================================
