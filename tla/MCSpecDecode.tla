---------------------------- MODULE MCSpecDecode -----------------------------
(***************************************************************************)
(* Instances of SpecDecode for TLC: two models over a vocabulary of two    *)
(* tokens that agree on some prefixes and differ on others, being certain  *)
(* or undecided.  Prompts may contain the token that ends a text.          *)
(***************************************************************************)
EXTENDS SpecDecode, FiniteSetsExt, SequencesExt

CONSTANTS PromptLen, MaxLengths, Lookaheads, DecodeLengths

Vocabulary == {0, 1}
None == 2

\* The weights 0 and 1 get; all add up to the same.
Weights(n) == CASE n = 0 -> [t \in Vocabulary |-> IF t = 0 THEN 2 ELSE 0]
                [] n = 1 -> [t \in Vocabulary |-> 1]
                [] n = 2 -> [t \in Vocabulary |-> IF t = 1 THEN 2 ELSE 0]

\* A number that depends on every token of s and on its position.
Digest(s, a, b) == 
    MapThenSumSet(LAMBDA i : (i + a) * (s[i] + b), DOMAIN s)

MCMainP(s)  == Weights(Digest(s, 0, 1) % 3)
MCDraftP(s) == Weights(Digest(s, 1, 2) % 3)

MCCalls ==
    {[prompt |-> p, max_length |-> m, lookahead |-> l, eos |-> None] :
        p \in BoundedSeq(Vocabulary, PromptLen) \ {<<>>},
        m \in MaxLengths, l \in Lookaheads}
    \cup
    {[prompt |-> p, max_length |-> m, lookahead |-> 0, eos |-> e] :
        p \in BoundedSeq(Vocabulary, PromptLen) \ {<<>>},
        m \in DecodeLengths, e \in {0, None}}

\* A new cache, and one an earlier call has filled with another text.
MCEarlier == {<<>>, <<1, 0, 0, 1, 1, 0, 1>>}

\* The draw 0, which torch.rand returns once in 2^24 calls, left out.
PositiveDraws == 1 .. Unit - 1
AllDraws == 0 .. Unit - 1
=============================================================================
