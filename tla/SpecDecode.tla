----------------------------- MODULE SpecDecode ------------------------------
(***************************************************************************)
(* decode and decode_speculative (flash_attn/utils/generation.py).  decode *)
(* calls the main model once per token.  In decode_speculative a draft     *)
(* model guesses up to lookahead tokens, the main model evaluates them in  *)
(* one call, sample_speculative keeps a prefix of them and adds one token  *)
(* of its own.  The models keep the keys and values of the tokens they have*)
(* evaluated in a cache; a rejected guess is undone only by moving         *)
(* seqlen_offset back, its cells are overwritten later.  With CUDA graphs  *)
(* (cg) the caches outlive a call: the next one finds the cells as the     *)
(* last one left them.                                                     *)
(*                                                                         *)
(* A cell is the sequence of tokens its keys and values were computed      *)
(* from: the token of the cell and everything before it.                   *)
(***************************************************************************)
EXTENDS Integers, Sequences

CONSTANTS Tokens,        \* the vocabulary
          NoToken,       \* what a cell that was never written holds
          Calls,         \* the calls considered; decode if lookahead is 0
          Earlier,       \* texts that a call before may have left in the
                         \* caches; <<>> in a cache that was just allocated
          MainP(_),      \* the models: from the tokens so far to the weight
          DraftP(_),     \* of each next token
          Unit,          \* torch.rand is r / Unit for some r in Draws
          Draws

IsCall(c) ==
    /\ c \in [prompt : Seq(Tokens) \ {<<>>}, max_length : Nat,
              lookahead : Nat, eos : Tokens \cup {NoToken}]
    /\ Len(c.prompt) <= c.max_length
    /\ c.lookahead > 0 => c.eos = NoToken

ASSUME CallAssumption == \A c \in Calls : IsCall(c)

ASSUME TokenAssumption == NoToken \notin Tokens /\ Earlier \subseteq Seq(Tokens)

ASSUME DrawAssumption == Unit \in Nat \ {0} /\ Draws \subseteq 0 .. Unit - 1

VARIABLES call,      \* the call
          pc,        \* the next statement
          out,       \* sequences, concatenated
          chunk,     \* the length of sequences[-1]
          n_spec,    \* n_spec_tokens, the guesses of this round
          input,     \* what the draft model is called with next
          drafted,   \* tokens_draft
          scores,    \* scores_draft, the distributions they came from
          main,      \* [offset, cache] of the main model
          draft      \* [offset, cache] of the draft model

vars == <<call, pc, out, chunk, n_spec, input, drafted, scores, main, draft>>

Least(a, b) == IF a <= b THEN a ELSE b

-----------------------------------------------------------------------------
(* The key-value caches *)

\* The first max_length cells of a cache after InferenceParams.reset, or of a
\* new one: the offset is 0, nothing is erased.
ResetCache(c, text) ==
    [offset |-> 0,
     cache |-> [j \in 1 .. c.max_length |->
                   IF j <= Len(text) THEN SubSeq(text, 1, j) ELSE <<NoToken>>]]

\* The tokens a model attends to before the ones it is called with.
Context(m) == [j \in 1 .. m.offset |-> m.cache[j][Len(m.cache[j])]]

\* Keys and values of the tokens s appended behind the offset.
Store(m, s) ==
    [m EXCEPT !.cache =
        [j \in DOMAIN m.cache |->
            IF j > m.offset /\ j <= m.offset + Len(s)
            THEN Context(m) \o SubSeq(s, 1, j - m.offset)
            ELSE m.cache[j]]]

\* The offset of a model, as InferenceParams keeps it.
MoveTo(m, offset) == [m EXCEPT !.offset = offset]

-----------------------------------------------------------------------------
Init == /\ call \in Calls
        /\ pc = "start"
        /\ out = call.prompt
        /\ chunk = Len(call.prompt)
        /\ n_spec = 0
        /\ input = <<>>
        /\ drafted = <<>>
        /\ scores = <<>>
        /\ \E text \in Earlier : /\ main = ResetCache(call, text)
                                 /\ draft = ResetCache(call, text)

\* The last n tokens of sequences[-1], or all of them.
LastOfChunk(n) == SubSeq(out, Len(out) - Least(n, chunk) + 1, Len(out))

\* What the main model has not evaluated yet.
Pending == IF main.offset = 0 THEN call.prompt ELSE LastOfChunk(1)

\* A round of n guesses, the draft model called with s first.
StartRound(n, s) ==
    /\ n_spec' = n
    /\ input' = s
    /\ drafted' = <<>>
    /\ scores' = <<>>
    /\ pc' = "draft"
    /\ UNCHANGED <<call, out, chunk, main, draft>>

Goto(l) ==
    /\ pc' = l
    /\ UNCHANGED <<call, out, chunk, n_spec, input, drafted, scores,
                   main, draft>>

-----------------------------------------------------------------------------
(* decode *)

StartDecode ==
    /\ pc = "start"
    /\ call.lookahead = 0
    /\ Goto("decode")

EndsIn(s, t) == s[Len(s)] = t

\* should_stop: never before the prompt is evaluated.
ShouldStop ==
    /\ main.offset > 0
    /\ EndsIn(out, call.eos) \/ main.offset >= call.max_length - 1

\* The main model is called with what it has not evaluated yet, and a token is
\* sampled behind it.
SampleToken ==
    /\ LET ctx == Context(main) \o Pending
       IN  \E t \in Tokens :
              /\ MainP(ctx)[t] > 0
              /\ out' = Append(out, t)
    /\ chunk' = 1
    /\ main' = MoveTo(Store(main, Pending), main.offset + Len(Pending))
    /\ UNCHANGED <<call, n_spec, input, drafted, scores, draft>>

DecodeStep ==
    /\ pc = "decode"
    /\ ~ShouldStop
    /\ SampleToken
    /\ pc' = "decode"

DecodeStop ==
    /\ pc = "decode"
    /\ ShouldStop
    /\ Goto("return")

-----------------------------------------------------------------------------
(* decode_speculative *)

\* Before the loop: no guesses when one token is all that is missing.
StartSingle ==
    /\ pc = "start"
    /\ call.lookahead > 0
    /\ Len(call.prompt) >= call.max_length - 1
    /\ Goto("single")

\* Mutant of StartFirst: the test for long prompts is missing.
StartFirstAlways ==
    /\ pc = "start"
    /\ call.lookahead > 0
    /\ StartRound(Least(call.lookahead,
                        call.max_length - Len(call.prompt) - 1),
                  call.prompt)

\* The first round, in which both models evaluate the prompt.
StartFirst ==
    /\ pc = "start"
    /\ call.lookahead > 0
    /\ Len(call.prompt) < call.max_length - 1
    /\ StartRound(Least(call.lookahead,
                        call.max_length - Len(call.prompt) - 1),
                  call.prompt)

\* Mutant of Break: the bound is missed by one.
BreakLate ==
    /\ pc = "loop"
    /\ main.offset > call.max_length - 1
    /\ Goto("return")

\* The head of the loop: enough tokens, one token missing, or another round.
Break ==
    /\ pc = "loop"
    /\ main.offset >= call.max_length - 1
    /\ Goto("return")

LoopSingle ==
    /\ pc = "loop"
    /\ main.offset = call.max_length - 2
    /\ Goto("single")

\* Mutant of LoopRound: guesses are not limited by the space left.
LoopRoundFull ==
    /\ pc = "loop"
    /\ main.offset < call.max_length - 2
    /\ StartRound(call.lookahead, LastOfChunk(2))

\* The draft model has not evaluated the last two tokens if its last guess
\* was accepted, only the last one otherwise.
LoopRound ==
    /\ pc = "loop"
    /\ main.offset < call.max_length - 2
    /\ StartRound(Least(call.lookahead, call.max_length - draft.offset - 2),
                  LastOfChunk(2))

\* sample_tokens_main(num_tokens = 1)
SampleMain ==
    /\ pc = "single"
    /\ SampleToken
    /\ pc' = IF main.offset = 0 THEN "loop" ELSE "return"

\* One turn of the loop of sample_tokens_draft.
SampleDraft ==
    /\ pc = "draft"
    /\ LET q == DraftP(Context(draft) \o input)
       IN  /\ scores' = Append(scores, q)
           /\ \E t \in Tokens : /\ q[t] > 0
                                /\ drafted' = Append(drafted, t)
                                /\ input' = <<t>>
    /\ draft' = MoveTo(Store(draft, input), draft.offset + Len(input))
    /\ pc' = IF Len(drafted) + 1 = n_spec THEN "verify" ELSE "draft"
    /\ UNCHANGED <<call, out, chunk, n_spec, main>>

-----------------------------------------------------------------------------
(* sample_speculative *)

\* Mutant of MayAccept: the probabilities are swapped.
MayAcceptSwapped(p, q) == \E r \in Draws : r * p <= Unit * q

\* torch.rand * q <= p, for some draw; and not, for some draw.
MayAccept(p, q) == \E r \in Draws : r * q <= Unit * p
MayReject(p, q) == \E r \in Draws : r * q > Unit * p

\* The distribution of the main model behind i guesses.
MainRow(i) == MainP(Context(main) \o Pending \o SubSeq(drafted, 1, i))

\* k guesses accepted and t sampled behind them, which is what the model
\* prefers to the guess if that was rejected.
MaySample(k, t) ==
    /\ \A i \in 1 .. k :
           MayAccept(MainRow(i - 1)[drafted[i]], scores[i][drafted[i]])
    /\ k < n_spec =>
           /\ MayReject(MainRow(k)[drafted[k + 1]], scores[k + 1][drafted[k + 1]])
           /\ MainRow(k)[t] > scores[k + 1][t]
    /\ k = n_spec => MainRow(k)[t] > 0

\* Mutant of Verify: the draft model is taken to have seen all that is kept.
VerifySameOffset ==
    /\ pc = "verify"
    /\ \E k \in 0 .. n_spec, t \in Tokens :
          /\ MaySample(k, t)
          /\ out' = out \o Append(SubSeq(drafted, 1, k), t)
          /\ chunk' = k + 1
          /\ LET offset == main.offset + Len(Pending) + k
             IN  /\ main' = MoveTo(Store(main, Pending \o drafted), offset)
                 /\ draft' = MoveTo(draft, offset)
    /\ pc' = "loop"
    /\ UNCHANGED <<call, n_spec, input, drafted, scores>>

\* The main model evaluates the guesses; the offsets go back to what both
\* models have evaluated of the tokens that are kept.
Verify ==
    /\ pc = "verify"
    /\ \E k \in 0 .. n_spec, t \in Tokens :
          /\ MaySample(k, t)
          /\ out' = out \o Append(SubSeq(drafted, 1, k), t)
          /\ chunk' = k + 1
          /\ LET offset == main.offset + Len(Pending) + k
             IN  /\ main' = MoveTo(Store(main, Pending \o drafted), offset)
                 /\ draft' = MoveTo(draft, IF k > 0 THEN offset - 1 ELSE offset)
    /\ pc' = "loop"
    /\ UNCHANGED <<call, n_spec, input, drafted, scores>>

\* The sequences are concatenated and returned.
Return ==
    /\ pc = "return"
    /\ Goto("done")

Finished == pc = "done"

Next == \/ StartDecode \/ DecodeStep \/ DecodeStop
        \/ StartSingle \/ StartFirst
        \/ Break \/ LoopSingle \/ LoopRound
        \/ SampleMain \/ SampleDraft \/ Verify \/ Return
        \/ Finished /\ UNCHANGED vars

Spec == Init /\ [][Next]_vars

\* The loops are sequential code that nothing suspends.
FairSpec == Spec /\ WF_vars(Next)

-----------------------------------------------------------------------------
(* Properties *)

Labels == {"start", "decode", "loop", "single", "draft", "verify",
           "return", "done"}

Memory(c) ==
    [offset : Nat,
     cache : [1 .. c.max_length -> Seq(Tokens \cup {NoToken}) \ {<<>>}]]

\* The shape of the state.
TypeOK ==
    /\ call \in Calls
    /\ pc \in Labels
    /\ out \in Seq(Tokens)
    /\ chunk \in 1 .. Len(out)
    /\ n_spec \in Nat
    /\ input \in Seq(Tokens) /\ drafted \in Seq(Tokens)
    /\ scores \in Seq([Tokens -> Nat]) /\ Len(scores) = Len(drafted)
    /\ main \in Memory(call) /\ draft \in Memory(call)

\* Every visible cell was computed from the sequence as it stands (and, for
\* the draft model, the guesses): no cell of a rejected guess, or of an earlier
\* call with the same cache, is ever seen.
CacheFresh ==
    /\ \A j \in 1 .. main.offset : main.cache[j] = SubSeq(out, 1, j)
    /\ \A j \in 1 .. draft.offset :
           draft.cache[j] = SubSeq(IF pc \in {"draft", "verify"}
                                   THEN out \o drafted ELSE out, 1, j)

\* No call of a model writes past the end of its cache.
CacheInBounds ==
    /\ pc = "single" \/ (pc = "decode" /\ ~ShouldStop) =>
           main.offset + Len(Pending) <= call.max_length
    /\ pc = "draft"  => draft.offset + Len(input) <= call.max_length
    /\ pc = "verify" =>
           main.offset + Len(Pending) + n_spec <= call.max_length

\* The returned sequence has the documented length.
LengthAsDocumented == Len(call.prompt) < call.max_length =>
                          Len(out) <= call.max_length

Abstract == INSTANCE Generation WITH finished <- Finished

\* decode returns what the main model may generate token by token, and
\* speculative decoding what decode could have returned: every token is one the
\* model samples after the ones before.
ImplementsGeneration == Abstract!Spec

\* decode and decode_speculative return.
Termination == <>Finished
=============================================================================
