----------------------------- MODULE Generation ------------------------------
(***************************************************************************)
(* What decode and decode_speculative (flash_attn/utils/generation.py)     *)
(* promise of the sequence they return for one prompt: it is extended by   *)
(* tokens of the main model only, each sampled from the distribution the   *)
(* model gives to the tokens before it, until it is long enough or ends    *)
(* with the end-of-sequence token.                                         *)
(***************************************************************************)
EXTENDS Naturals, Sequences

CONSTANTS Tokens,        \* the vocabulary
          Calls,         \* the calls considered, records as below
          MainP(_)       \* the main model: from the tokens so far to the
                         \* weight of each next token, after temperature,
                         \* top-k and top-p

VARIABLES call,          \* [prompt, max_length, lookahead, eos]
          out,           \* the prompt and what has been generated
          finished

vars == <<call, out, finished>>

Init == /\ call \in Calls
        /\ out = call.prompt
        /\ finished = FALSE

\* The token at position i of s may follow the ones before it.
Sampled(s, i) == MainP(SubSeq(s, 1, i - 1))[s[i]] > 0

EndsIn(s, t) == s # <<>> /\ s[Len(s)] = t

\* Long enough, or ended; the prompt alone never is.
Enough == /\ out # call.prompt
          /\ Len(out) >= call.max_length \/ EndsIn(out, call.eos)

\* One call of the main model adds up to lookahead + 1 tokens; the first call
\* is made even if the prompt is as long as the result should be.
Extend ==
    /\ ~finished
    /\ ~Enough
    /\ Len(out') \in Len(out) + 1 .. Len(out) + call.lookahead + 1
    /\ SubSeq(out', 1, Len(out)) = out
    /\ \A i \in Len(out) + 1 .. Len(out') :
           out'[i] \in Tokens /\ Sampled(out', i)
    /\ UNCHANGED <<call, finished>>

Finish ==
    /\ ~finished
    /\ Enough
    /\ finished' = TRUE
    /\ UNCHANGED <<call, out>>

Next == Extend \/ Finish

Spec == Init /\ [][Next]_vars
=============================================================================
