------------------------------ MODULE FlashFwd -------------------------------
(***************************************************************************)
(* One CTA of the forward kernel (compute_attn_1rowblock_opt_hdim128_      *)
(* blockM64): the warps walk the key blocks of row block m from the last   *)
(* to the first, each accumulating for the query rows it owns, and the     *)
(* epilogue stores O and LSE.  Shared memory and barriers are left to      *)
(* FwdPipeline, which implements this specification.                       *)
(***************************************************************************)
EXTENDS FwdTiling, Sequences

CONSTANT Args            \* the calls considered, records as in FwdTiling

ASSUME ArgsAssumption == \A a \in Args : IsCall(a)

VARIABLES arg,       \* the call
          params,    \* the parameters the host derives from it
          m_block,   \* the row block this CTA works on
          phase,     \* per warp: where it is in the kernel
          n_block,   \* per warp: the loop variable
          step,      \* per warp: masking_step
          acc,       \* per warp: the blocks folded into acc_o, in order
          gO,        \* per row: the columns its output combines
          gLSE       \* per row: "unset", "inf" or "finite"

vars == <<arg, params, m_block, phase, n_block, step, acc, gO, gLSE>>

Unset == {-1}        \* no row combines column -1

Init == /\ arg \in Args
        /\ params = SetParams(arg)
        /\ m_block \in 0 .. CeilDiv(arg.seqlen_q, kBlockM) - 1
        /\ phase = [w \in Warps |-> "start"]
        /\ n_block = [w \in Warps |-> 0]
        /\ step = [w \in Warps |-> 0]
        /\ acc = [w \in Warps |-> <<>>]
        /\ gO = [r \in Rows |-> Unset]
        /\ gLSE = [r \in Rows |-> "unset"]

\* Rows of the tile this warp accumulates, or moves, that exist.
Owned(w) == {r \in Rows : Owner(r) = w /\ Valid(params, m_block, r)}
Moved(w) == {r \in Rows : Mover(r) = w /\ Valid(params, m_block, r)}

Kept(w, r) == KeptCols(params, m_block, acc[w], r)

\* m_block * kBlockM >= actual_seqlen_q: the CTA has nothing to do.
Return(w) ==
    /\ phase[w] = "start"
    /\ NoRows(params, m_block)
    /\ phase' = [phase EXCEPT ![w] = "done"]
    /\ UNCHANGED <<arg, params, m_block, n_block, step, acc, gO, gLSE>>

\* No block to visit: the rows get O = 0 and LSE = +inf.
StoreZero(w) ==
    /\ phase[w] = "start"
    /\ ~NoRows(params, m_block) /\ ExitsEarly(params, m_block)
    /\ gO' = [r \in Rows |-> IF r \in Moved(w) THEN {} ELSE gO[r]]
    /\ gLSE' = [r \in Rows |-> IF r \in Moved(w) THEN "inf" ELSE gLSE[r]]
    /\ phase' = [phase EXCEPT ![w] = "done"]
    /\ UNCHANGED <<arg, params, m_block, n_block, step, acc>>

\* Fold block n_block[w] into acc_o and move to the next block.
Fold(w, masking) ==
    /\ acc' = [acc EXCEPT ![w] =
                  Append(@, [n |-> n_block'[w] + 1, masking |-> masking])]
    /\ phase' = [phase EXCEPT ![w] =
                  NextPhase(params, m_block, n_block'[w], step'[w])]
    /\ UNCHANGED <<arg, params, m_block, gO, gLSE>>

\* The first visit, split from the masking loop; there is always one.
FirstStep(w) ==
    /\ phase[w] = "start"
    /\ ~NoRows(params, m_block) /\ ~ExitsEarly(params, m_block)
    /\ n_block' = [n_block EXCEPT ![w] = NBlockMax(params, m_block) - 2]
    /\ step' = [step EXCEPT ![w] = 1]
    /\ Fold(w, TRUE)

MaskedStep(w) ==
    /\ phase[w] = "masked"
    /\ n_block' = [n_block EXCEPT ![w] = @ - 1]
    /\ step' = [step EXCEPT ![w] = @ + 1]
    /\ Fold(w, TRUE)

\* Mutant of FreeStep: the decrement of n_block is lost.
FreeStepAgain(w) ==
    /\ phase[w] = "free"
    /\ UNCHANGED <<n_block, step>>
    /\ Fold(w, FALSE)

\* The loop without masking (n_block > n_block_min).
FreeStep(w) ==
    /\ phase[w] = "free"
    /\ n_block' = [n_block EXCEPT ![w] = @ - 1]
    /\ UNCHANGED step
    /\ Fold(w, FALSE)

\* The last block, split from the loop because it prefetches no key.
LastStep(w) ==
    /\ phase[w] = "last"
    /\ n_block' = [n_block EXCEPT ![w] = @ - 1]
    /\ UNCHANGED step
    /\ Fold(w, FALSE)

\* A warp that has left the loops stores the LSE of its rows.
StoreLse(w) ==
    /\ phase[w] = "epilogue"
    /\ gLSE' = [r \in Rows |-> IF r \in Owned(w)
                               THEN Lse(Kept(w, r)) ELSE gLSE[r]]
    /\ phase' = [phase EXCEPT ![w] = "store"]
    /\ UNCHANGED <<arg, params, m_block, n_block, step, acc, gO>>

\* Mutant of StoreO: a warp waits for the others to finish altogether.
StoreOLast(w) ==
    /\ phase[w] = "store"
    /\ \A r \in Rows : Mover(r) = w => phase[Owner(r)] = "done"
    /\ gO' = [r \in Rows |-> IF r \in Moved(w)
                             THEN Kept(Owner(r), r) ELSE gO[r]]
    /\ phase' = [phase EXCEPT ![w] = "done"]
    /\ UNCHANGED <<arg, params, m_block, n_block, step, acc, gLSE>>

\* O goes through shared memory: a warp stores rows that others accumulated,
\* once those have finished.
StoreO(w) ==
    /\ phase[w] = "store"
    /\ \A r \in Rows : Mover(r) = w =>
           phase[Owner(r)] \in {"epilogue", "store", "done"}
    /\ gO' = [r \in Rows |-> IF r \in Moved(w)
                             THEN Kept(Owner(r), r) ELSE gO[r]]
    /\ phase' = [phase EXCEPT ![w] = "done"]
    /\ UNCHANGED <<arg, params, m_block, n_block, step, acc, gLSE>>

Step(w) == \/ Return(w) \/ StoreZero(w)
           \/ FirstStep(w) \/ MaskedStep(w) \/ FreeStep(w) \/ LastStep(w)
           \/ StoreLse(w) \/ StoreO(w)

Finished == \A w \in Warps : phase[w] = "done"

Next == (\E w \in Warps : Step(w)) \/ (Finished /\ UNCHANGED vars)

Spec == Init /\ [][Next]_vars

\* A warp of a resident CTA is always scheduled again.
FairSpec == Spec /\ \A w \in Warps : WF_vars(Step(w))

-----------------------------------------------------------------------------
(* Properties *)

QueryRow(r) == m_block * kBlockM + r

Phases == {"start", "masked", "free", "last", "epilogue", "store", "done"}

\* The shape of the state: a warp's visit list holds block numbers.
TypeOK ==
    /\ arg \in Args
    /\ params = SetParams(arg)
    /\ m_block \in Nat
    /\ phase \in [Warps -> Phases]
    /\ n_block \in [Warps -> Int]
    /\ step \in [Warps -> Nat]
    /\ acc \in [Warps -> Seq([n : Int, masking : BOOLEAN])]
    /\ gO \in [Rows -> SUBSET (Columns(params) \cup Unset)]
    /\ gLSE \in [Rows -> {"unset", "inf", "finite"}]

\* A finished CTA has written, for each of its rows that exist, exactly the
\* columns the mask of the kernel's parameters lets it attend, and it has
\* written nothing for the rows past the end of the sequence.
OutputExact ==
    Finished => \A r \in Rows :
        gO[r] = IF Valid(params, m_block, r)
                THEN {c \in Columns(params) : Attends(params, QueryRow(r), c)}
                ELSE Unset

\* The same against the mask the interface documents, in the caller's terms.
OutputAsDocumented ==
    Finished => \A r \in Rows : Valid(params, m_block, r) =>
        gO[r] = {c \in Columns(params) : DocAttends(arg, QueryRow(r), c)}

\* Both entry points, each with its own way to normalise causal and the
\* window, keep what they document for the calls whose window stays within
\* what the kernel's parameters can express.
AlignedAsDocumented == Aligned(arg) => OutputAsDocumented

\* LSE is +inf exactly for the rows that attend nothing, whether the CTA left
\* early or ran the loops over blocks in which only this row has no column:
\* the backward pass takes +inf as "no probability in this row".
LseInfIffEmpty ==
    Finished => \A r \in Rows : Valid(params, m_block, r) =>
        (gLSE[r] = "inf") =
            (\A c \in Columns(params) : ~Attends(params, QueryRow(r), c))

\* No block is folded into a row twice.
NoBlockTwice ==
    \A w \in Warps : \A i, j \in DOMAIN acc[w] :
        acc[w][i].n = acc[w][j].n => i = j

\* Every visit after the first loads its keys and values without a bound
\* check, so the block must lie within the sequence.
UncheckedLoadsInBounds ==
    \A w \in Warps : \A i \in DOMAIN acc[w] :
        LET n == acc[w][i].n
        IN  n >= 0 /\ (i > 1 \/ params.even => (n + 1) * kBlockN <= params.sk)

\* A rescale that does not test row_max for -inf would compute
\* (-inf) - (-inf) on a row for which no score has been kept yet.
NoNaN ==
    \A w \in Warps : \A i \in DOMAIN acc[w] \ {1} :
        ~CheckInf(params, acc[w][i].masking) =>
            \A r \in Owned(w) :
                KeptCols(params, m_block, SubSeq(acc[w], 1, i), r) # {}

\* Every warp of every CTA gets to the end of the kernel.
Termination == <>Finished
=============================================================================
