-------------------------- MODULE SpecDecodeProofs --------------------------
(***************************************************************************)
(* Decoding, speculative or not, returns what the main model could have    *)
(* generated alone, for every vocabulary, every pair of models, every      *)
(* lookahead and length, whatever an earlier call left in the caches,      *)
(* provided torch.rand does not return 0.                                  *)
(*                                                                         *)
(* The argument: at every label the visible cells of both caches were      *)
(* computed from prefixes of the sequence as it stands (FreshInv), because *)
(* the offsets say exactly how far each model has read (MainStands,        *)
(* DraftInv).  So the rows the acceptance test looks at are the main       *)
(* model's answers to the true prefixes, and what it lets pass has         *)
(* positive weight there.                                                  *)
(***************************************************************************)
EXTENDS SpecDecode, SequenceTheorems, TLAPS
-----------------------------------------------------------------------------
(***************************************************************************)
(* The inductive invariant: how far each model has read at every label.    *)
(* The main model has read all but the last token of out, the draft model  *)
(* what the next call of it does not pass again.                           *)
(***************************************************************************)
InRound == pc \in {"draft", "verify"}

\* What the draft model is reading.
View == IF InRound THEN out \o drafted ELSE out

\* Where the main model stands: before the prompt or before the last token.
MainStands ==
    \/ main.offset = 0 /\ out = call.prompt
    \/ main.offset = Len(out) - 1 /\ Len(out) > Len(call.prompt)

PromptInv ==
    /\ call.prompt \in Seq(Tokens) /\ Len(call.prompt) >= 1
    /\ Len(call.prompt) <= call.max_length
    /\ Len(out) >= Len(call.prompt)

StartInv == pc = "start" => main.offset = 0 /\ draft.offset = 0 /\ out = call.prompt

DecodeInv ==
    /\ pc = "decode" => MainStands
    /\ pc \in {"loop", "single", "draft", "verify"} => call.lookahead > 0

LoopInv ==
    pc = "loop" =>
        /\ main.offset = Len(out) - 1 /\ Len(out) > Len(call.prompt)
        /\ main.offset < call.max_length - 1 =>
               draft.offset + Least(2, chunk) = Len(out)

SingleInv ==
    pc = "single" => MainStands /\ (Len(out) < call.max_length \/ out = call.prompt)
                     /\ Len(out) <= call.max_length
                     /\ Len(out) >= call.max_length - 1

RoundInv ==
    InRound =>
        /\ MainStands
        /\ n_spec \in 1 .. call.lookahead
        /\ Len(out) + n_spec <= call.max_length
        /\ \A i \in 1 .. Len(drafted) : scores[i][drafted[i]] \in Nat \ {0}

DraftInv ==
    pc = "draft" =>
        /\ Len(drafted) < n_spec
        /\ draft.offset + Len(input) = Len(out) + Len(drafted)
        /\ \A i \in 1 .. Len(input) : input[i] = View[draft.offset + i]

VerifyInv ==
    pc = "verify" =>
        /\ Len(drafted) = n_spec
        /\ draft.offset = Len(out) + n_spec - 1

ReturnInv ==
    pc \in {"return", "done"} =>
        /\ Len(out) >= call.max_length \/ EndsIn(out, call.eos)
        /\ Len(out) > Len(call.prompt)

FreshInv ==
    /\ main.offset <= Len(out) /\ main.offset <= call.max_length
    /\ \A j \in 1 .. main.offset : main.cache[j] = SubSeq(out, 1, j)
    /\ draft.offset <= Len(View) /\ draft.offset <= call.max_length
    /\ \A j \in 1 .. draft.offset : draft.cache[j] = SubSeq(View, 1, j)

IInv == /\ TypeOK /\ PromptInv
        /\ StartInv /\ DecodeInv /\ LoopInv /\ SingleInv /\ RoundInv /\ DraftInv
        /\ VerifyInv /\ ReturnInv /\ FreshInv

\* What the theorems assume of the two models and of torch.rand.
ModelsGiveWeights ==
    /\ \A s \in Seq(Tokens) : MainP(s) \in [Tokens -> Nat]
    /\ \A s \in Seq(Tokens) : DraftP(s) \in [Tokens -> Nat]

NeverDrawsZero == 0 \notin Draws

-----------------------------------------------------------------------------
(* Sequences *)

\* A prefix of a sequence, element by element.
LEMMA Prefix ==
    ASSUME NEW S, NEW s \in Seq(S), NEW j \in 0 .. Len(s)
    PROVE  /\ SubSeq(s, 1, j) \in Seq(S)
           /\ Len(SubSeq(s, 1, j)) = j
           /\ \A i \in 1 .. j : SubSeq(s, 1, j)[i] = s[i]
<1>1. \A i \in 1 .. j : s[i] \in S
  BY ElementOfSeq, LenProperties
<1> QED
  BY <1>1, SubSeqProperties, LenProperties

\* Two sequences that agree up to j have the same prefix of length j.
LEMMA SamePrefix ==
    ASSUME NEW S, NEW s \in Seq(S), NEW t \in Seq(S), NEW j \in Nat,
           j <= Len(s), j <= Len(t), \A i \in 1 .. j : s[i] = t[i]
    PROVE  SubSeq(s, 1, j) = SubSeq(t, 1, j)
<1>1. j \in 0 .. Len(s) /\ j \in 0 .. Len(t)
  BY LenProperties
<1>2. \A i \in 1 .. j : SubSeq(s, 1, j)[i] = SubSeq(t, 1, j)[i]
  BY <1>1, Prefix
<1> QED
  BY <1>1, <1>2, Prefix, SeqEqual

\* A prefix followed by some of what comes next is a longer prefix.
LEMMA LongerPrefix ==
    ASSUME NEW S, NEW w \in Seq(S), NEW u \in Seq(S), NEW o \in Nat,
           o + Len(u) <= Len(w),
           \A i \in 1 .. Len(u) : u[i] = w[o + i],
           NEW n \in 0 .. Len(u)
    PROVE  SubSeq(w, 1, o) \o SubSeq(u, 1, n) = SubSeq(w, 1, o + n)
<1> DEFINE a == SubSeq(w, 1, o)
           b == SubSeq(u, 1, n)
           c == SubSeq(w, 1, o + n)
<1>1. o \in 0 .. Len(w) /\ o + n \in 0 .. Len(w)
  BY LenProperties
<1>2. /\ a \in Seq(S) /\ Len(a) = o /\ \A i \in 1 .. o : a[i] = w[i]
      /\ b \in Seq(S) /\ Len(b) = n /\ \A i \in 1 .. n : b[i] = u[i]
      /\ c \in Seq(S) /\ Len(c) = o + n
      /\ \A i \in 1 .. o + n : c[i] = w[i]
  BY <1>1, Prefix
<1> HIDE DEF a, b, c
<1>3. a \o b \in Seq(S) /\ Len(a \o b) = Len(a) + Len(b)
  <2>1. a \in Seq(S) /\ b \in Seq(S)
    BY <1>2
  <2> QED
    BY <2>1, ConcatProperties
<1>4. \A i \in 1 .. o + n : (a \o b)[i] = c[i]
  <2> SUFFICES ASSUME NEW i \in 1 .. o + n PROVE (a \o b)[i] = c[i]
    OBVIOUS
  <2> i \in 1 .. Len(a) + Len(b)
    BY <1>2
  <2>0. (a \o b)[i] = IF i <= Len(a) THEN a[i] ELSE b[i - Len(a)]
    BY <1>2, ConcatProperties
  <2>1. CASE i <= o
    BY <2>0, <2>1, <1>2
  <2>2. CASE ~(i <= o)
    <3>1. i - o \in 1 .. n /\ i - o \in 1 .. Len(u)
      BY <2>2, LenProperties
    <3>2. o + (i - o) = i
      OBVIOUS
    <3>3. b[i - o] = u[i - o] /\ u[i - o] = w[o + (i - o)]
      BY <3>1, <1>2
    <3>4. b[i - o] = c[i]
      BY <3>2, <3>3, <1>2
    <3> QED
      BY <2>0, <2>2, <3>4, <1>2
  <2> QED
    BY <2>1, <2>2
<1>5. a \o b = c
  <2>1. Len(a \o b) = Len(c) /\ Len(c) = o + n
    BY <1>2, <1>3
  <2> QED
    BY <2>1, <1>2, <1>3, <1>4, SeqEqual
<1> QED
  BY <1>5 DEF a, b, c

\* A sequence is its own longest prefix.
LEMMA WholePrefix ==
    ASSUME NEW S, NEW s \in Seq(S)
    PROVE  SubSeq(s, 1, Len(s)) = s
<1>1. Len(s) \in 0 .. Len(s)
  BY LenProperties
<1>2. /\ SubSeq(s, 1, Len(s)) \in Seq(S)
      /\ Len(SubSeq(s, 1, Len(s))) = Len(s)
      /\ \A i \in 1 .. Len(s) : SubSeq(s, 1, Len(s))[i] = s[i]
  BY <1>1, Prefix
<1> QED
  BY <1>2, SeqEqual

\* The same with all of what comes next.
LEMMA LongerByAll ==
    ASSUME NEW S, NEW w \in Seq(S), NEW u \in Seq(S), NEW o \in Nat,
           o + Len(u) <= Len(w),
           \A i \in 1 .. Len(u) : u[i] = w[o + i]
    PROVE  SubSeq(w, 1, o) \o u = SubSeq(w, 1, o + Len(u))
<1> DEFINE n == Len(u)
<1>1. n \in 0 .. Len(u)
  BY LenProperties
<1>2. SubSeq(u, 1, n) = u
  BY WholePrefix
<1> HIDE DEF n
<1>3. SubSeq(w, 1, o) \o SubSeq(u, 1, n) = SubSeq(w, 1, o + n)
  BY <1>1, LongerPrefix
<1> QED
  BY <1>2, <1>3 DEF n

\* What is left of a sequence behind d elements.
LEMMA Suffix ==
    ASSUME NEW S, NEW w \in Seq(S), NEW d \in Nat, d < Len(w)
    PROVE  /\ SubSeq(w, d + 1, Len(w)) \in Seq(S)
           /\ Len(SubSeq(w, d + 1, Len(w))) = Len(w) - d
           /\ \A i \in 1 .. Len(w) - d : SubSeq(w, d + 1, Len(w))[i] = w[d + i]
<1> DEFINE e == Len(w)
           m == d + 1
<1>1. e \in Nat /\ m \in Int /\ e \in Int /\ m <= e
  BY LenProperties
<1>2. \A i \in m .. e : w[i] \in S
  BY <1>1, ElementOfSeq
<1> HIDE DEF e, m
<1>3. /\ SubSeq(w, m, e) \in Seq(S)
      /\ Len(SubSeq(w, m, e)) = IF m <= e THEN e - m + 1 ELSE 0
      /\ \A i \in 1 .. e - m + 1 : SubSeq(w, m, e)[i] = w[m + i - 1]
  BY <1>1, <1>2, SubSeqProperties
<1>4. e - m + 1 = e - d /\ \A i \in Nat : m + i - 1 = d + i
  BY <1>1 DEF m
<1>5. Len(SubSeq(w, m, e)) = e - d
  BY <1>1, <1>3, <1>4
<1>6. \A i \in 1 .. e - d : SubSeq(w, m, e)[i] = w[d + i]
  BY <1>3, <1>4
<1> QED
  BY <1>3, <1>5, <1>6 DEF m, e

\* One element more leaves the prefixes as they are.
LEMMA AppendPrefix ==
    ASSUME NEW S, NEW w \in Seq(S), NEW t \in S
    PROVE  /\ Append(w, t) \in Seq(S) /\ Len(Append(w, t)) = Len(w) + 1
           /\ \A i \in 1 .. Len(w) : Append(w, t)[i] = w[i]
           /\ Append(w, t)[Len(w) + 1] = t
           /\ \A j \in 0 .. Len(w) :
                  SubSeq(Append(w, t), 1, j) = SubSeq(w, 1, j)
<1>1. /\ Append(w, t) \in Seq(S) /\ Len(Append(w, t)) = Len(w) + 1
      /\ \A i \in 1 .. Len(w) : Append(w, t)[i] = w[i]
      /\ Append(w, t)[Len(w) + 1] = t
  BY AppendProperties
<1>2. \A j \in 0 .. Len(w) : SubSeq(Append(w, t), 1, j) = SubSeq(w, 1, j)
  <2> SUFFICES ASSUME NEW j \in 0 .. Len(w)
               PROVE  SubSeq(Append(w, t), 1, j) = SubSeq(w, 1, j)
    OBVIOUS
  <2> DEFINE v == Append(w, t)
  <2>1. /\ v \in Seq(S) /\ j \in Nat /\ j <= Len(v) /\ j <= Len(w)
        /\ \A i \in 1 .. j : v[i] = w[i]
    BY <1>1, LenProperties
  <2> HIDE DEF v
  <2>2. SubSeq(v, 1, j) = SubSeq(w, 1, j)
    BY <2>1, SamePrefix
  <2> QED
    BY <2>2 DEF v
<1> QED
  BY <1>1, <1>2

LEMMA ConcatAppend ==
    ASSUME NEW S, NEW w \in Seq(S), NEW u \in Seq(S), NEW t \in S
    PROVE  w \o Append(u, t) = Append(w \o u, t)
<1>1. <<t>> \in Seq(S) /\ w \o u \in Seq(S)
  BY ConcatProperties
<1>2. Append(u, t) = u \o <<t>> /\ Append(w \o u, t) = (w \o u) \o <<t>>
  BY <1>1, AppendIsConcat
<1> QED
  BY <1>1, <1>2, ConcatAssociative

\* The prefixes of a concatenation.
LEMMA ConcatPrefix ==
    ASSUME NEW S, NEW w \in Seq(S), NEW u \in Seq(S)
    PROVE  /\ w \o u \in Seq(S) /\ Len(w \o u) = Len(w) + Len(u)
           /\ \A i \in 1 .. Len(w) : (w \o u)[i] = w[i]
           /\ \A i \in 1 .. Len(u) : (w \o u)[Len(w) + i] = u[i]
           /\ \A j \in 0 .. Len(w) : SubSeq(w \o u, 1, j) = SubSeq(w, 1, j)
           /\ \A k \in 0 .. Len(u) :
                  SubSeq(w \o u, 1, Len(w) + k) = w \o SubSeq(u, 1, k)
<1> DEFINE v == w \o u
           e == Len(w)
<1>1. /\ v \in Seq(S) /\ Len(v) = e + Len(u)
      /\ e \in Nat /\ Len(u) \in Nat
  BY ConcatProperties, LenProperties
<1>2. \A i \in 1 .. e : v[i] = w[i]
  <2> SUFFICES ASSUME NEW i \in 1 .. Len(w) PROVE (w \o u)[i] = w[i]
    OBVIOUS
  <2> i \in 1 .. Len(w) + Len(u)
    BY <1>1
  <2>1. (w \o u)[i] = IF i <= Len(w) THEN w[i] ELSE u[i - Len(w)]
    BY ConcatProperties
  <2> QED
    BY <2>1
<1>3. \A i \in 1 .. Len(u) : v[e + i] = u[i]
  <2> SUFFICES ASSUME NEW i \in 1 .. Len(u)
               PROVE  (w \o u)[Len(w) + i] = u[i]
    OBVIOUS
  <2> DEFINE l == Len(w) + i
  <2>1. l \in 1 .. Len(w) + Len(u) /\ ~(l <= Len(w)) /\ l - Len(w) = i
    BY <1>1
  <2> HIDE DEF l
  <2>2. (w \o u)[l] = IF l <= Len(w) THEN w[l] ELSE u[l - Len(w)]
    BY <2>1, ConcatProperties
  <2> QED
    BY <2>1, <2>2 DEF l
<1> HIDE DEF v
<1>4. \A j \in 0 .. e : SubSeq(v, 1, j) = SubSeq(w, 1, j)
  <2> SUFFICES ASSUME NEW j \in 0 .. e
               PROVE  SubSeq(v, 1, j) = SubSeq(w, 1, j)
    OBVIOUS
  <2>1. /\ j \in Nat /\ j <= Len(v) /\ j <= Len(w)
        /\ \A i \in 1 .. j : v[i] = w[i]
    BY <1>1, <1>2, SMTT(20)
  <2> QED
    BY <2>1, <1>1, SamePrefix
<1>5. \A k \in 0 .. Len(u) : SubSeq(v, 1, e + k) = w \o SubSeq(u, 1, k)
  <2> SUFFICES ASSUME NEW k \in 0 .. Len(u)
               PROVE  SubSeq(v, 1, e + k) = w \o SubSeq(u, 1, k)
    OBVIOUS
  <2>1. SubSeq(v, 1, e) = w
    BY <1>1, <1>4, WholePrefix
  <2> HIDE DEF e
  <2>2. SubSeq(v, 1, e) \o SubSeq(u, 1, k) = SubSeq(v, 1, e + k)
    BY <1>1, <1>3, LongerPrefix
  <2> QED
    BY <2>1, <2>2
<1> QED
  BY <1>1, <1>2, <1>3, <1>4, <1>5 DEF v

\* A sequence continued by a prefix of another and one element more, which is
\* what sample_speculative keeps of the guesses.
LEMMA KeptPrefix ==
    ASSUME NEW S, NEW w \in Seq(S), NEW u \in Seq(S), NEW t \in S,
           NEW k \in 0 .. Len(u)
    PROVE  \A v : v = w \o Append(SubSeq(u, 1, k), t) =>
               /\ v \in Seq(S) /\ Len(v) = Len(w) + k + 1
               /\ SubSeq(v, 1, Len(w)) = w
               /\ v[Len(w) + k + 1] = t
               /\ \A d \in 1 .. k : v[Len(w) + d] = u[d]
               /\ \A d \in 0 .. k :
                      SubSeq(v, 1, Len(w) + d) = w \o SubSeq(u, 1, d)
               /\ \A j \in 0 .. Len(w) + k :
                      SubSeq(v, 1, j) = SubSeq(w \o u, 1, j)
<1> DEFINE c == SubSeq(u, 1, k)
           a == Append(c, t)
           v == w \o a
<1>1. Len(w) \in Nat /\ Len(u) \in Nat /\ k \in Nat
  BY LenProperties
<1>2. c \in Seq(S) /\ Len(c) = k /\ \A d \in 1 .. k : c[d] = u[d]
  BY Prefix
<1> HIDE DEF c
<1>3. /\ a \in Seq(S) /\ Len(a) = k + 1 /\ a[k + 1] = t
      /\ \A d \in 1 .. k : a[d] = c[d]
  BY <1>2, AppendPrefix
<1> HIDE DEF a
<1>4. /\ v \in Seq(S) /\ Len(v) = Len(w) + Len(a)
      /\ \A d \in 1 .. Len(a) : v[Len(w) + d] = a[d]
      /\ \A j \in 0 .. Len(w) : SubSeq(v, 1, j) = SubSeq(w, 1, j)
      /\ \A d \in 0 .. Len(a) : SubSeq(v, 1, Len(w) + d) = w \o SubSeq(a, 1, d)
  <2>1. v \in Seq(S) /\ Len(v) = Len(w) + Len(a)
    BY <1>3, ConcatPrefix
  <2>2. \A d \in 1 .. Len(a) : v[Len(w) + d] = a[d]
    BY <1>3, ConcatPrefix
  <2>3. \A j \in 0 .. Len(w) : SubSeq(v, 1, j) = SubSeq(w, 1, j)
    BY <1>3, ConcatPrefix
  <2>4. \A d \in 0 .. Len(a) : SubSeq(v, 1, Len(w) + d) = w \o SubSeq(a, 1, d)
    <3> SUFFICES ASSUME NEW d \in 0 .. Len(a)
                 PROVE  SubSeq(v, 1, Len(w) + d) = w \o SubSeq(a, 1, d)
      OBVIOUS
    <3>1. a \in Seq(S)
      BY <1>3
    <3> QED
      BY <3>1, ConcatPrefix, SMTT(20)
  <2> QED
    BY <2>1, <2>2, <2>3, <2>4
<1> HIDE DEF v
<1>5. /\ v \in Seq(S) /\ Len(v) = Len(w) + (k + 1)
      /\ \A d \in 1 .. k + 1 : v[Len(w) + d] = a[d]
      /\ \A j \in 0 .. Len(w) : SubSeq(v, 1, j) = SubSeq(w, 1, j)
      /\ \A d \in 0 .. k + 1 : SubSeq(v, 1, Len(w) + d) = w \o SubSeq(a, 1, d)
  BY <1>3, <1>4
<1>6. v[Len(w) + (k + 1)] = t /\ Len(w) + (k + 1) = Len(w) + k + 1
  BY <1>1, <1>3, <1>5
<1>7. \A d \in 1 .. k : v[Len(w) + d] = u[d]
  <2> SUFFICES ASSUME NEW d \in 1 .. k PROVE v[Len(w) + d] = u[d]
    OBVIOUS
  <2>1. d \in 1 .. k + 1
    BY <1>1
  <2> QED
    BY <2>1, <1>2, <1>3, <1>5
<1>8. \A d \in 0 .. k : SubSeq(a, 1, d) = SubSeq(u, 1, d)
  <2> SUFFICES ASSUME NEW d \in 0 .. k
               PROVE  SubSeq(a, 1, d) = SubSeq(u, 1, d)
    OBVIOUS
  <2>1. d \in Nat /\ d <= Len(a) /\ d <= Len(u)
        /\ \A i \in 1 .. d : a[i] = u[i]
    BY <1>1, <1>2, <1>3
  <2> QED
    BY <2>1, <1>3, SamePrefix
<1>9. \A d \in 0 .. k : SubSeq(v, 1, Len(w) + d) = w \o SubSeq(u, 1, d)
  <2> SUFFICES ASSUME NEW d \in 0 .. k
               PROVE  SubSeq(v, 1, Len(w) + d) = w \o SubSeq(u, 1, d)
    OBVIOUS
  <2>1. d \in 0 .. k + 1
    BY <1>1
  <2>2. SubSeq(v, 1, Len(w) + d) = w \o SubSeq(a, 1, d)
    BY <2>1, <1>5
  <2> QED
    BY <2>2, <1>8
<1>10. \A j \in 0 .. Len(w) : SubSeq(w \o u, 1, j) = SubSeq(w, 1, j)
  BY ConcatPrefix
<1>14. \A d \in 0 .. Len(u) :
           SubSeq(w \o u, 1, Len(w) + d) = w \o SubSeq(u, 1, d)
  <2> SUFFICES ASSUME NEW d \in 0 .. Len(u)
               PROVE  SubSeq(w \o u, 1, Len(w) + d) = w \o SubSeq(u, 1, d)
    OBVIOUS
  <2> QED
    BY ConcatPrefix
<1>11. \A j \in 0 .. Len(w) + k : SubSeq(v, 1, j) = SubSeq(w \o u, 1, j)
  <2> SUFFICES ASSUME NEW j \in 0 .. Len(w) + k
               PROVE  SubSeq(v, 1, j) = SubSeq(w \o u, 1, j)
    OBVIOUS
  <2>1. CASE j <= Len(w)
    BY <2>1, <1>1, <1>5, <1>10
  <2>2. CASE ~(j <= Len(w))
    <3> DEFINE d == j - Len(w)
    <3>1. d \in 0 .. k /\ d \in 0 .. Len(u) /\ Len(w) + d = j
      BY <2>2, <1>1
    <3> HIDE DEF d
    <3>2. /\ SubSeq(v, 1, Len(w) + d) = w \o SubSeq(u, 1, d)
          /\ SubSeq(w \o u, 1, Len(w) + d) = w \o SubSeq(u, 1, d)
      BY <3>1, <1>9, <1>14
    <3> QED
      BY <3>1, <3>2
  <2> QED
    BY <2>1, <2>2
<1>12. SubSeq(v, 1, Len(w)) = w
  BY <1>1, <1>5, WholePrefix
<1>13. Len(v) = Len(w) + k + 1
  BY <1>1, <1>5
<1> QED
  BY <1>5, <1>6, <1>7, <1>9, <1>11, <1>12, <1>13 DEF v, a, c

-----------------------------------------------------------------------------
(* The caches *)

\* A model whose visible cells are fresh attends to a prefix of w.
LEMMA ContextIsPrefix ==
    ASSUME NEW w \in Seq(Tokens), NEW m, m.offset \in 0 .. Len(w),
           \A j \in 1 .. m.offset : m.cache[j] = SubSeq(w, 1, j)
    PROVE  Context(m) = SubSeq(w, 1, m.offset)
<1> DEFINE o == m.offset
<1>1. \A j \in 1 .. o : m.cache[j][Len(m.cache[j])] = w[j]
  <2> SUFFICES ASSUME NEW j \in 1 .. o
               PROVE  m.cache[j][Len(m.cache[j])] = w[j]
    OBVIOUS
  <2>1. j \in 0 .. Len(w) /\ j \in 1 .. j
    BY LenProperties
  <2>2. Len(SubSeq(w, 1, j)) = j /\ SubSeq(w, 1, j)[j] = w[j]
    BY <2>1, Prefix
  <2> QED
    BY <2>2
<1>2. Context(m) = [j \in 1 .. o |-> w[j]]
  BY <1>1 DEF Context
<1>3. \A j \in 1 .. o : w[j] \in Tokens
  BY ElementOfSeq, LenProperties
<1>4. [j \in 1 .. o |-> w[j]] \in Seq(Tokens)
  BY <1>3, IsASeq
<1>5. Len([j \in 1 .. o |-> w[j]]) = o
  BY <1>4
<1> QED
  BY <1>2, <1>4, <1>5, Prefix, SeqEqual

\* Storing the tokens of w behind the offset keeps the cache fresh.
LEMMA StoreFresh ==
    ASSUME NEW w \in Seq(Tokens), NEW u \in Seq(Tokens), NEW c \in Calls,
           NEW m \in Memory(c),
           m.offset + Len(u) <= Len(w), m.offset + Len(u) <= c.max_length,
           \A i \in 1 .. Len(u) : u[i] = w[m.offset + i],
           \A j \in 1 .. m.offset : m.cache[j] = SubSeq(w, 1, j)
    PROVE  /\ Store(m, u) \in Memory(c)
           /\ Store(m, u).offset = m.offset
           /\ \A j \in 1 .. m.offset + Len(u) :
                  Store(m, u).cache[j] = SubSeq(w, 1, j)
<1> DEFINE o == m.offset
<1>0. /\ o \in Nat /\ Len(u) \in Nat /\ Len(w) \in Nat /\ o <= Len(w)
      /\ m.cache \in [1 .. c.max_length ->
                         Seq(Tokens \cup {NoToken}) \ {<<>>}]
      /\ DOMAIN m.cache = 1 .. c.max_length
      /\ c.max_length \in Nat
  BY LenProperties, CallAssumption DEF Memory, IsCall
<1>1. Context(m) = SubSeq(w, 1, o)
  BY <1>0, ContextIsPrefix
<1>2. \A n \in 1 .. Len(u) :
          Context(m) \o SubSeq(u, 1, n) = SubSeq(w, 1, o + n)
  <2> SUFFICES ASSUME NEW n \in 1 .. Len(u)
               PROVE  SubSeq(w, 1, o) \o SubSeq(u, 1, n) = SubSeq(w, 1, o + n)
    BY <1>1
  <2>1. n \in 0 .. Len(u)
    BY <1>0
  <2>2. \A i \in 1 .. Len(u) : u[i] = w[o + i]
    OBVIOUS
  <2> HIDE DEF o
  <2> QED
    BY <2>1, <2>2, <1>0, LongerPrefix
<1> DEFINE cells == [j \in DOMAIN m.cache |->
                        IF j > m.offset /\ j <= m.offset + Len(u)
                        THEN Context(m) \o SubSeq(u, 1, j - m.offset)
                        ELSE m.cache[j]]
<1>3. Store(m, u) = [m EXCEPT !.cache = cells]
  BY DEF Store
<1>4. \A j \in 1 .. o + Len(u) : cells[j] = SubSeq(w, 1, j)
  <2> SUFFICES ASSUME NEW j \in 1 .. o + Len(u)
               PROVE  cells[j] = SubSeq(w, 1, j)
    OBVIOUS
  <2>1. j \in DOMAIN m.cache
    BY <1>0
  <2>2. cells[j] = IF j > o /\ j <= o + Len(u)
                   THEN Context(m) \o SubSeq(u, 1, j - o) ELSE m.cache[j]
    BY <2>1
  <2> HIDE DEF cells
  <2>3. CASE ~(j > o)
    <3>1. cells[j] = m.cache[j]
      BY <2>2, <2>3
    <3>2. j \in 1 .. o
      BY <2>3, <1>0
    <3> QED
      BY <3>1, <3>2
  <2>4. CASE j > o
    <3>1. j - o \in 1 .. Len(u) /\ o + (j - o) = j
      BY <2>4, <1>0
    <3>2. Context(m) \o SubSeq(u, 1, j - o) = SubSeq(w, 1, j)
      BY <3>1, <1>2
    <3>3. j <= o + Len(u)
      BY <1>0
    <3> QED
      BY <3>2, <3>3, <2>2, <2>4
  <2> QED
    BY <2>3, <2>4
<1>5. \A j \in 1 .. c.max_length :
          cells[j] \in Seq(Tokens \cup {NoToken}) \ {<<>>}
  <2> SUFFICES ASSUME NEW j \in 1 .. c.max_length
               PROVE  cells[j] \in Seq(Tokens \cup {NoToken}) \ {<<>>}
    OBVIOUS
  <2>1. CASE j > o /\ j <= o + Len(u)
    <3>1. j \in 1 .. o + Len(u) /\ j \in 0 .. Len(w) /\ j >= 1
      BY <2>1, <1>0
    <3>2. cells[j] = SubSeq(w, 1, j)
      BY <3>1, <1>4
    <3>3. SubSeq(w, 1, j) \in Seq(Tokens) /\ Len(SubSeq(w, 1, j)) = j
      BY <3>1, Prefix
    <3>4. SubSeq(w, 1, j) \in Seq(Tokens \cup {NoToken})
      BY <3>3, SeqMonotonic
    <3>5. SubSeq(w, 1, j) # <<>>
      BY <3>1, <3>3, EmptySeq
    <3> QED
      BY <3>2, <3>4, <3>5
  <2>2. CASE ~(j > o /\ j <= o + Len(u))
    BY <2>2, <1>0
  <2> QED
    BY <2>1, <2>2
<1>6. cells \in [1 .. c.max_length -> Seq(Tokens \cup {NoToken}) \ {<<>>}]
  BY <1>0, <1>5
<1> HIDE DEF cells
<1>7. [m EXCEPT !.cache = cells] \in Memory(c)
  BY <1>6 DEF Memory
<1>8. /\ [m EXCEPT !.cache = cells].cache = cells
      /\ [m EXCEPT !.cache = cells].offset = m.offset
  BY DEF Memory
<1> QED
  BY <1>3, <1>4, <1>7, <1>8

-----------------------------------------------------------------------------
(* The two models, as the invariant finds them *)

\* What the draft model reads is a sequence that begins with out.
LEMMA ViewProperties ==
    ASSUME IInv
    PROVE  /\ out \in Seq(Tokens) /\ drafted \in Seq(Tokens)
           /\ View \in Seq(Tokens)
           /\ InRound => Len(View) = Len(out) + Len(drafted)
           /\ ~InRound => View = out
           /\ Len(out) \in Nat /\ Len(drafted) \in Nat
           /\ call \in Calls /\ call.max_length \in Nat
           /\ call.lookahead \in Nat
           /\ call.lookahead > 0 => call.eos = NoToken
           /\ main \in Memory(call) /\ draft \in Memory(call)
           /\ main.offset \in Nat /\ draft.offset \in Nat
           /\ chunk \in Nat /\ n_spec \in Nat
<1>1. out \in Seq(Tokens) /\ drafted \in Seq(Tokens) /\ call \in Calls
  BY DEF IInv, TypeOK
<1>2. out \o drafted \in Seq(Tokens)
      /\ Len(out \o drafted) = Len(out) + Len(drafted)
  BY <1>1, ConcatProperties
<1>3. IsCall(call)
  BY <1>1, CallAssumption
<1>4. Len(out) \in Nat /\ Len(drafted) \in Nat
  BY <1>1, LenProperties
<1> QED
  BY <1>1, <1>2, <1>3, <1>4 DEF IInv, TypeOK, View, IsCall, Memory

\* The main model is called with what is missing of out.
LEMMA PendingProperties ==
    ASSUME IInv, MainStands
    PROVE  /\ Pending \in Seq(Tokens)
           /\ main.offset + Len(Pending) = Len(out)
           /\ \A i \in 1 .. Len(Pending) : Pending[i] = out[main.offset + i]
           /\ Context(main) \o Pending = out
<1>1. /\ out \in Seq(Tokens) /\ Len(out) \in Nat /\ main.offset \in Nat
      /\ chunk \in 1 .. Len(out)
      /\ call.prompt \in Seq(Tokens) /\ Len(call.prompt) \in Nat
      /\ Len(call.prompt) >= 1
  BY ViewProperties, LenProperties DEF IInv, TypeOK, PromptInv
<1>2. /\ Pending \in Seq(Tokens)
      /\ main.offset + Len(Pending) = Len(out)
      /\ \A i \in 1 .. Len(Pending) : Pending[i] = out[main.offset + i]
  <2>1. CASE main.offset = 0
    <3>1. out = call.prompt /\ Pending = out
      BY <2>1, <1>1 DEF MainStands, Pending
    <3> QED
      BY <2>1, <3>1, <1>1
  <2>2. CASE main.offset # 0
    <3>1. main.offset = Len(out) - 1
      BY <2>2 DEF MainStands
    <3>2. Pending = SubSeq(out, Len(out), Len(out))
      BY <2>2, <1>1 DEF Pending, LastOfChunk, Least
    <3>3. \A i \in Len(out) .. Len(out) : out[i] \in Tokens
      BY <1>1, ElementOfSeq
    <3>4. /\ Pending \in Seq(Tokens) /\ Len(Pending) = 1
          /\ Pending[1] = out[Len(out)]
      BY <3>2, <3>3, <1>1, SubSeqProperties
    <3> QED
      BY <3>1, <3>4, <1>1
  <2> QED
    BY <2>1, <2>2
<1>3. main.offset \in 0 .. Len(out)
      /\ \A j \in 1 .. main.offset : main.cache[j] = SubSeq(out, 1, j)
  BY <1>1 DEF IInv, FreshInv
<1>4. Context(main) = SubSeq(out, 1, main.offset)
  BY <1>1, <1>3, ContextIsPrefix
<1>5. SubSeq(out, 1, main.offset) \o Pending
          = SubSeq(out, 1, main.offset + Len(Pending))
  <2> DEFINE o == main.offset
             p == Pending
  <2>1. p \in Seq(Tokens) /\ o + Len(p) <= Len(out) /\ o \in Nat
        /\ \A i \in 1 .. Len(p) : p[i] = out[o + i]
    BY <1>1, <1>2
  <2> HIDE DEF o, p
  <2>2. SubSeq(out, 1, o) \o p = SubSeq(out, 1, o + Len(p))
    BY <2>1, <1>1, LongerByAll
  <2> QED
    BY <2>2 DEF o, p
<1>6. SubSeq(out, 1, Len(out)) = out
  BY <1>1, WholePrefix
<1> QED
  BY <1>2, <1>4, <1>5, <1>6

\* A guess that may be accepted has a positive weight, unless 0 is drawn.
LEMMA AcceptedIsPossible ==
    ASSUME NeverDrawsZero, NEW p \in Nat, NEW q \in Nat \ {0},
           MayAccept(p, q)
    PROVE  p > 0
<1>1. PICK r \in Draws : r * q <= Unit * p
  BY DEF MayAccept
<1>2. r \in Nat /\ r >= 1 /\ Unit \in Nat
  BY DrawAssumption DEF NeverDrawsZero
<1>3. r * q >= 1
  <2> DEFINE x == r - 1
             y == q - 1
  <2>1. x \in Nat /\ y \in Nat /\ r = x + 1 /\ q = y + 1
    BY <1>2
  <2> HIDE DEF x, y
  <2>2. (x + 1) * (y + 1) = x * y + x + y + 1
    BY <2>1
  <2>3. x * y \in Nat
    BY <2>1
  <2> QED
    BY <2>1, <2>2, <2>3
<1>4. p = 0 => Unit * p = 0
  BY <1>2
<1> QED
  BY <1>1, <1>2, <1>3, <1>4

-----------------------------------------------------------------------------
(* The invariant holds at the call and is kept by the steps that only move *)

LEMMA InitInv == Init => IInv
<1> SUFFICES ASSUME Init PROVE IInv
  OBVIOUS
<1>1. call \in Calls /\ IsCall(call)
  BY CallAssumption DEF Init
<1>2. /\ call.prompt \in Seq(Tokens) /\ call.prompt # <<>>
      /\ Len(call.prompt) \in Nat /\ call.max_length \in Nat
      /\ Len(call.prompt) <= call.max_length
  BY <1>1, LenProperties DEF IsCall
<1>3. Len(call.prompt) >= 1
  BY <1>2, EmptySeq
<1>4. <<>> \in Seq(Tokens) /\ Len(<<>>) = 0
      /\ <<>> \in Seq([Tokens -> Nat])
  BY EmptySeq
<1>5. \A text \in Earlier : /\ ResetCache(call, text) \in Memory(call)
                           /\ ResetCache(call, text).offset = 0
  <2> SUFFICES ASSUME NEW text \in Earlier
               PROVE  /\ ResetCache(call, text) \in Memory(call)
                      /\ ResetCache(call, text).offset = 0
    OBVIOUS
  <2> DEFINE cell(j) == IF j <= Len(text) THEN SubSeq(text, 1, j) ELSE <<NoToken>>
  <2>1. text \in Seq(Tokens) /\ Len(text) \in Nat
    BY TokenAssumption, LenProperties
  <2>2. ASSUME NEW j \in 1 .. call.max_length
        PROVE  cell(j) \in Seq(Tokens \cup {NoToken}) \ {<<>>}
    <3>1. CASE j <= Len(text)
      <4>1. j \in 0 .. Len(text) /\ j >= 1 /\ j \in Nat
        BY <3>1, <2>1, <1>2
      <4>2. SubSeq(text, 1, j) \in Seq(Tokens) /\ Len(SubSeq(text, 1, j)) = j
        BY <2>1, <4>1, Prefix
      <4>3. SubSeq(text, 1, j) # <<>>
        BY <4>1, <4>2, EmptySeq
      <4>4. Seq(Tokens) \subseteq Seq(Tokens \cup {NoToken})
        OBVIOUS
      <4> QED
        BY <3>1, <4>2, <4>3, <4>4
    <3>2. CASE ~(j <= Len(text))
      <4>1. <<NoToken>> \in Seq(Tokens \cup {NoToken}) \ {<<>>}
        OBVIOUS
      <4> QED
        BY <3>2, <4>1
    <3> QED
      BY <3>1, <3>2
  <2>3. ResetCache(call, text)
            = [offset |-> 0, cache |-> [j \in 1 .. call.max_length |-> cell(j)]]
    BY DEF ResetCache
  <2> HIDE DEF cell
  <2> QED
    BY <2>2, <2>3 DEF Memory
<1> PICK text \in Earlier : /\ main = ResetCache(call, text)
                            /\ draft = ResetCache(call, text)
  BY DEF Init
<1>6. TypeOK
  BY <1>1, <1>2, <1>3, <1>4, <1>5 DEF Init, TypeOK, Labels
<1>7. View = out
  BY DEF Init, View, InRound
<1>8. FreshInv
  BY <1>2, <1>5, <1>7 DEF Init, FreshInv
<1> QED
  BY <1>2, <1>3, <1>5, <1>6, <1>8
     DEF Init, IInv, PromptInv, StartInv, DecodeInv, LoopInv, SingleInv,
         RoundInv, DraftInv, VerifyInv, ReturnInv, InRound

LEMMA StartSingleKeeps == IInv /\ StartSingle => IInv'
<1> SUFFICES ASSUME IInv, StartSingle PROVE IInv'
  OBVIOUS
<1>1. /\ pc = "start" /\ pc' = "single"
      /\ UNCHANGED <<call, out, chunk, n_spec, input, drafted, scores, main, draft>>
  BY DEF StartSingle, Goto
<1>2. View' = View
  BY <1>1 DEF View, InRound
<1> QED
  BY <1>1, <1>2, ViewProperties
     DEF StartSingle, IInv, TypeOK, Labels, PromptInv, StartInv, DecodeInv, LoopInv,
         SingleInv, RoundInv, DraftInv, VerifyInv, ReturnInv, FreshInv,
         InRound, MainStands

LEMMA BreakKeeps == IInv /\ Break => IInv'
<1> SUFFICES ASSUME IInv, Break PROVE IInv'
  OBVIOUS
<1>1. /\ pc = "loop" /\ pc' = "return"
      /\ UNCHANGED <<call, out, chunk, n_spec, input, drafted, scores, main, draft>>
  BY DEF Break, Goto
<1>2. View' = View
  BY <1>1 DEF View, InRound
<1> QED
  BY <1>1, <1>2, ViewProperties, SMTT(20)
     DEF Break, IInv, TypeOK, Labels, PromptInv, StartInv, DecodeInv, LoopInv,
         SingleInv, RoundInv, DraftInv, VerifyInv, ReturnInv, FreshInv,
         InRound, MainStands

LEMMA LoopSingleKeeps == IInv /\ LoopSingle => IInv'
<1> SUFFICES ASSUME IInv, LoopSingle PROVE IInv'
  OBVIOUS
<1>1. /\ pc = "loop" /\ pc' = "single"
      /\ UNCHANGED <<call, out, chunk, n_spec, input, drafted, scores, main, draft>>
  BY DEF LoopSingle, Goto
<1>2. View' = View
  BY <1>1 DEF View, InRound
<1>3. /\ main.offset = call.max_length - 2 /\ main.offset = Len(out) - 1
      /\ Len(out) > Len(call.prompt)
      /\ call.max_length \in Nat /\ Len(out) \in Nat
  BY <1>1, ViewProperties DEF LoopSingle, IInv, LoopInv
<1>4. SingleInv'
  BY <1>1, <1>3 DEF SingleInv, MainStands
<1>5. TypeOK'
  BY <1>1 DEF IInv, TypeOK, Labels
<1>6. FreshInv'
  BY <1>1, <1>2 DEF IInv, FreshInv
<1> QED
  BY <1>1, <1>4, <1>5, <1>6
     DEF IInv, PromptInv, StartInv, DecodeInv, LoopInv, RoundInv, DraftInv, VerifyInv,
         ReturnInv, InRound

\* The call is one of decode.
LEMMA StartDecodeKeeps == IInv /\ StartDecode => IInv'
<1> SUFFICES ASSUME IInv, StartDecode PROVE IInv'
  OBVIOUS
<1>1. /\ pc = "start" /\ pc' = "decode"
      /\ UNCHANGED <<call, out, chunk, n_spec, input, drafted, scores, main, draft>>
  BY DEF StartDecode, Goto
<1>2. View' = View
  BY <1>1 DEF View, InRound
<1>3. TypeOK' /\ FreshInv' /\ PromptInv'
  BY <1>1, <1>2 DEF IInv, TypeOK, Labels, FreshInv, PromptInv
<1>4. DecodeInv'
  BY <1>1 DEF IInv, StartInv, DecodeInv, MainStands
<1> QED
  BY <1>1, <1>3, <1>4
     DEF IInv, StartInv, LoopInv, SingleInv, RoundInv, DraftInv, VerifyInv,
         ReturnInv, InRound

\* decode leaves its loop.
LEMMA DecodeStopKeeps == IInv /\ DecodeStop => IInv'
<1> SUFFICES ASSUME IInv, DecodeStop PROVE IInv'
  OBVIOUS
<1>1. /\ pc = "decode" /\ pc' = "return" /\ ShouldStop
      /\ UNCHANGED <<call, out, chunk, n_spec, input, drafted, scores, main, draft>>
  BY DEF DecodeStop, Goto
<1>2. View' = View
  BY <1>1 DEF View, InRound
<1>3. TypeOK' /\ FreshInv' /\ PromptInv'
  BY <1>1, <1>2 DEF IInv, TypeOK, Labels, FreshInv, PromptInv
<1>4. ReturnInv'
  <2>1. /\ main.offset > 0 /\ MainStands /\ main.offset \in Nat
        /\ Len(out) \in Nat /\ call.max_length \in Nat
    BY <1>1, ViewProperties DEF ShouldStop, IInv, DecodeInv
  <2>2. main.offset = Len(out) - 1 /\ Len(out) > Len(call.prompt)
    BY <2>1 DEF MainStands
  <2>3. Len(out) >= call.max_length \/ EndsIn(out, call.eos)
    BY <1>1, <2>1, <2>2 DEF ShouldStop
  <2> QED
    BY <1>1, <2>2, <2>3 DEF ReturnInv
<1> QED
  BY <1>1, <1>3, <1>4
     DEF IInv, StartInv, DecodeInv, LoopInv, SingleInv, RoundInv, DraftInv,
         VerifyInv, InRound

LEMMA ReturnKeeps == IInv /\ Return => IInv'
<1> SUFFICES ASSUME IInv, Return PROVE IInv'
  OBVIOUS
<1>1. /\ pc = "return" /\ pc' = "done"
      /\ UNCHANGED <<call, out, chunk, n_spec, input, drafted, scores, main, draft>>
  BY DEF Return, Goto
<1>2. View' = View
  BY <1>1 DEF View, InRound
<1> QED
  BY <1>1, <1>2, ViewProperties
     DEF Return, IInv, TypeOK, Labels, PromptInv, StartInv, DecodeInv, LoopInv,
         SingleInv, RoundInv, DraftInv, VerifyInv, ReturnInv, FreshInv,
         InRound, MainStands

LEMMA StutterKeeps == IInv /\ UNCHANGED vars => IInv'
<1> SUFFICES ASSUME IInv, UNCHANGED vars PROVE IInv'
  OBVIOUS
<1>1. UNCHANGED <<call, pc, out, chunk, n_spec, input, drafted, scores, main, draft>>
  BY DEF vars
<1>2. View' = View
  BY <1>1 DEF View, InRound
<1> QED
  BY <1>1, <1>2
     DEF IInv, TypeOK, PromptInv, StartInv, DecodeInv, LoopInv, SingleInv, RoundInv,
         DraftInv, VerifyInv, ReturnInv, FreshInv, InRound, MainStands

\* A round starts with the draft model as far as out, its call included.
LEMMA StartRoundKeeps ==
    ASSUME IInv, pc \in {"start", "loop"}, NEW n \in Nat, NEW s \in Seq(Tokens),
           StartRound(n, s), MainStands,
           call.lookahead > 0,
           n \in 1 .. call.lookahead, Len(out) + n <= call.max_length,
           draft.offset + Len(s) = Len(out),
           \A i \in 1 .. Len(s) : s[i] = out[draft.offset + i]
    PROVE  IInv'
<1>1. /\ pc' = "draft" /\ n_spec' = n /\ input' = s
      /\ drafted' = <<>> /\ scores' = <<>>
      /\ UNCHANGED <<call, out, chunk, main, draft>>
  BY DEF StartRound
<1>2. /\ <<>> \in Seq(Tokens) /\ Len(<<>>) = 0
      /\ <<>> \in Seq([Tokens -> Nat])
  BY EmptySeq
<1>3. out \in Seq(Tokens) /\ Len(out) \in Nat /\ View = out
  BY ViewProperties DEF InRound
<1>4. View' = out
  <2>1. out \o <<>> = out
    BY <1>3, ConcatEmptySeq
  <2> QED
    BY <1>1, <2>1 DEF View, InRound
<1>5. TypeOK'
  BY <1>1, <1>2 DEF IInv, TypeOK, Labels
<1>6. DraftInv'
  BY <1>1, <1>2, <1>3, <1>4 DEF DraftInv
<1>7. RoundInv'
  BY <1>1, <1>2 DEF RoundInv, MainStands
<1>8. FreshInv'
  BY <1>1, <1>3, <1>4 DEF IInv, FreshInv
<1> QED
  BY <1>1, <1>5, <1>6, <1>7, <1>8
     DEF IInv, PromptInv, StartInv, DecodeInv, LoopInv, SingleInv, VerifyInv, ReturnInv

LEMMA StartFirstKeeps == IInv /\ StartFirst => IInv'
<1> SUFFICES ASSUME IInv, StartFirst PROVE IInv'
  OBVIOUS
<1> DEFINE n == Least(call.lookahead, call.max_length - Len(call.prompt) - 1)
<1>1. /\ pc = "start" /\ StartRound(n, call.prompt)
      /\ Len(call.prompt) < call.max_length - 1 /\ call.lookahead > 0
  BY DEF StartFirst
<1>2. /\ out = call.prompt /\ main.offset = 0 /\ draft.offset = 0
      /\ call.prompt \in Seq(Tokens)
  BY <1>1 DEF IInv, StartInv, PromptInv
<1>3. /\ call.max_length \in Nat /\ call.lookahead \in Nat \ {0}
      /\ Len(out) \in Nat
  BY <1>1, ViewProperties
<1>4. /\ n \in Nat /\ n \in 1 .. call.lookahead
      /\ Len(out) + n <= call.max_length
  BY <1>1, <1>2, <1>3 DEF Least
<1>5. /\ draft.offset + Len(call.prompt) = Len(out) /\ MainStands
      /\ \A i \in 1 .. Len(call.prompt) : call.prompt[i] = out[draft.offset + i]
  BY <1>2, <1>3 DEF MainStands
<1> HIDE DEF n
<1> QED
  BY <1>1, <1>2, <1>4, <1>5, StartRoundKeeps

LEMMA LoopRoundKeeps == IInv /\ LoopRound => IInv'
<1> SUFFICES ASSUME IInv, LoopRound PROVE IInv'
  OBVIOUS
<1> DEFINE n == Least(call.lookahead, call.max_length - draft.offset - 2)
           l == Least(2, chunk)
           s == LastOfChunk(2)
<1>1. /\ pc = "loop" /\ StartRound(n, s) /\ main.offset < call.max_length - 2
  BY DEF LoopRound
<1>2. /\ call.max_length \in Nat /\ call.lookahead \in Nat \ {0}
      /\ out \in Seq(Tokens) /\ Len(out) \in Nat /\ draft.offset \in Nat
      /\ main.offset \in Nat /\ chunk \in 1 .. Len(out)
  BY <1>1, ViewProperties DEF IInv, TypeOK, DecodeInv
<1>3. l \in {1, 2} /\ l <= Len(out) /\ l <= chunk
  BY <1>2 DEF Least
<1>4. /\ main.offset = Len(out) - 1 /\ MainStands
      /\ draft.offset + l = Len(out)
  BY <1>1, <1>2 DEF IInv, LoopInv, MainStands
<1>5. s = SubSeq(out, Len(out) - l + 1, Len(out))
  BY DEF LastOfChunk
<1> HIDE DEF l, s
<1>6. /\ n \in Nat /\ n \in 1 .. call.lookahead
      /\ Len(out) + n <= call.max_length
  <2> DEFINE room == call.max_length - draft.offset - 2
  <2>1. room >= 1 /\ Len(out) + room <= call.max_length /\ room \in Int
    <3>1. room + draft.offset + 2 = call.max_length /\ room \in Int
      BY <1>2
    <3>2. Len(out) + 1 < call.max_length
      BY <1>1, <1>2, <1>4
    <3> HIDE DEF room
    <3> QED
      BY <3>1, <3>2, <1>2, <1>3, <1>4
  <2> HIDE DEF room
  <2>2. n = IF call.lookahead <= room THEN call.lookahead ELSE room
    BY DEF room, Least
  <2> HIDE DEF n
  <2> QED
    BY <2>1, <2>2, <1>2
<1> HIDE DEF n
<1>7. /\ s \in Seq(Tokens) /\ Len(s) = l
      /\ \A i \in 1 .. Len(s) : s[i] = out[draft.offset + i]
  <2> DEFINE d == draft.offset
  <2>1. /\ d \in Nat /\ d < Len(out) /\ Len(out) - d = l
        /\ Len(out) - l + 1 = d + 1
    BY <1>2, <1>3, <1>4
  <2>2. s = SubSeq(out, d + 1, Len(out))
    BY <2>1, <1>5
  <2> HIDE DEF d
  <2>3. /\ s \in Seq(Tokens) /\ Len(s) = Len(out) - d
        /\ \A i \in 1 .. Len(out) - d : s[i] = out[d + i]
    BY <2>1, <2>2, <1>2, Suffix
  <2> QED
    BY <2>1, <2>3 DEF d
<1>8. draft.offset + Len(s) = Len(out)
  BY <1>4, <1>7
<1>9. call.lookahead > 0
  BY <1>2
<1> QED
  BY <1>1, <1>4, <1>6, <1>7, <1>8, <1>9, StartRoundKeeps

-----------------------------------------------------------------------------
(* The steps in which a model is called *)

LEMMA MoveToProperties ==
    ASSUME NEW c \in Calls, NEW m \in Memory(c), NEW o \in Nat
    PROVE  /\ MoveTo(m, o) \in Memory(c)
           /\ MoveTo(m, o).offset = o /\ MoveTo(m, o).cache = m.cache
BY DEF MoveTo, Memory

\* One token more: what both functions do when they call the main model alone.
LEMMA SampleTokenKeeps ==
    ASSUME IInv, SampleToken, MainStands, Len(out) <= call.max_length,
           pc \in {"single", "decode"}, pc' \in {"loop", "return", "decode"}
    PROVE  /\ TypeOK' /\ FreshInv' /\ PromptInv'
           /\ Len(out') = Len(out) + 1 /\ main'.offset = Len(out)
           /\ Len(out') > Len(call.prompt) /\ chunk' = 1
           /\ Len(out) \in Nat /\ call.max_length \in Nat
           /\ UNCHANGED <<call, draft>>
<1>1. PICK t \in Tokens : out' = Append(out, t)
  BY DEF SampleToken
<1>2. /\ chunk' = 1
      /\ main' = MoveTo(Store(main, Pending), main.offset + Len(Pending))
      /\ UNCHANGED <<call, n_spec, input, drafted, scores, draft>>
  BY DEF SampleToken
<1>3. MainStands /\ Len(out) <= call.max_length
  OBVIOUS
<1>4. /\ out \in Seq(Tokens) /\ Len(out) \in Nat /\ call.max_length \in Nat
      /\ main \in Memory(call) /\ draft \in Memory(call) /\ call \in Calls
      /\ draft.offset \in Nat /\ main.offset \in Nat
  BY ViewProperties
<1>5. View = out /\ View' = out'
  BY <1>2 DEF View, InRound
<1>6. /\ out' \in Seq(Tokens) /\ Len(out') = Len(out) + 1
      /\ \A j \in 0 .. Len(out) : SubSeq(out', 1, j) = SubSeq(out, 1, j)
  BY <1>1, <1>4, AppendPrefix
<1>7. /\ main' \in Memory(call) /\ main'.offset = Len(out)
      /\ \A j \in 1 .. Len(out) : main'.cache[j] = SubSeq(out, 1, j)
  <2> DEFINE u == Pending
             st == Store(main, u)
  <2>1. /\ u \in Seq(Tokens) /\ main.offset + Len(u) = Len(out)
        /\ \A i \in 1 .. Len(u) : u[i] = out[main.offset + i]
    BY <1>3, PendingProperties
  <2>2. \A j \in 1 .. main.offset : main.cache[j] = SubSeq(out, 1, j)
    BY DEF IInv, FreshInv
  <2> HIDE DEF u
  <2>3. /\ main.offset + Len(u) <= Len(out)
        /\ main.offset + Len(u) <= call.max_length
    BY <2>1, <1>3, <1>4
  <2>4. /\ st \in Memory(call)
        /\ \A j \in 1 .. main.offset + Len(u) : st.cache[j] = SubSeq(out, 1, j)
    BY <2>1, <2>2, <2>3, <1>4, StoreFresh
  <2>5. main' = MoveTo(st, Len(out))
    BY <2>1, <1>2 DEF u
  <2> HIDE DEF st
  <2>6. /\ main' \in Memory(call) /\ main'.offset = Len(out)
        /\ main'.cache = st.cache
    BY <2>4, <2>5, <1>4, MoveToProperties
  <2> QED
    BY <2>1, <2>4, <2>6
<1>8. TypeOK'
  BY <1>2, <1>4, <1>6, <1>7 DEF IInv, TypeOK, Labels
<1>9. FreshInv'
  <2>1. \A j \in 1 .. Len(out) : main'.cache[j] = SubSeq(out', 1, j)
    BY <1>4, <1>6, <1>7
  <2>2. draft.offset <= Len(out) /\ draft.offset <= call.max_length
        /\ \A j \in 1 .. draft.offset : draft.cache[j] = SubSeq(out, 1, j)
    BY <1>5 DEF IInv, FreshInv
  <2>3. \A j \in 1 .. draft.offset : draft.cache[j] = SubSeq(out', 1, j)
    BY <2>2, <1>4, <1>6
  <2> QED
    BY <2>1, <2>2, <2>3, <1>2, <1>3, <1>4, <1>5, <1>6, <1>7 DEF FreshInv
<1>10. PromptInv' /\ Len(out') > Len(call.prompt) /\ Len(call.prompt) \in Nat
  BY <1>2, <1>4, <1>6, LenProperties DEF IInv, PromptInv
<1> QED
  BY <1>2, <1>4, <1>6, <1>7, <1>8, <1>9, <1>10

\* The single token of decode_speculative, before the loop or at its end.
LEMMA SampleMainKeeps == IInv /\ SampleMain => IInv'
<1> SUFFICES ASSUME IInv, SampleMain PROVE IInv'
  OBVIOUS
<1>1. /\ pc = "single" /\ SampleToken
      /\ pc' = IF main.offset = 0 THEN "loop" ELSE "return"
  BY DEF SampleMain
<1>2. /\ MainStands /\ Len(out) <= call.max_length
      /\ Len(out) >= call.max_length - 1 /\ call.lookahead > 0
  BY <1>1 DEF IInv, SingleInv, DecodeInv
<1>3. /\ TypeOK' /\ FreshInv' /\ PromptInv'
      /\ Len(out') = Len(out) + 1 /\ main'.offset = Len(out)
      /\ Len(out') > Len(call.prompt) /\ chunk' = 1
      /\ Len(out) \in Nat /\ call.max_length \in Nat
      /\ UNCHANGED <<call, draft>>
  BY <1>1, <1>2, SampleTokenKeeps
<1>4. LoopInv' /\ ReturnInv' /\ DecodeInv'
  BY <1>1, <1>2, <1>3 DEF LoopInv, ReturnInv, DecodeInv
<1> QED
  BY <1>1, <1>3, <1>4
     DEF IInv, StartInv, SingleInv, RoundInv, DraftInv, VerifyInv, InRound

\* decode has not stopped, so the cache has room for what the model is given.
LEMMA DecodeRoom ==
    ASSUME IInv, pc = "decode", ~ShouldStop
    PROVE  /\ MainStands /\ Len(out) <= call.max_length
           /\ out # call.prompt =>
                  Len(out) < call.max_length /\ ~EndsIn(out, call.eos)
<1>1. /\ MainStands /\ PromptInv /\ Len(out) \in Nat /\ call.max_length \in Nat
      /\ main.offset \in Nat
  BY ViewProperties DEF IInv, DecodeInv
<1>2. CASE main.offset = 0
  <2>1. Len(call.prompt) \in Nat /\ Len(call.prompt) >= 1
    BY <1>1, LenProperties DEF PromptInv
  <2>2. out = call.prompt
    <3> DEFINE n == Len(out)
               l == Len(call.prompt)
    <3>0. n \in Nat /\ l \in Nat /\ l >= 1
      BY <1>1, <2>1
    <3> HIDE DEF n, l
    <3>1. ~(0 = n - 1 /\ n > l)
      BY <3>0
    <3>2. ~(main.offset = Len(out) - 1 /\ Len(out) > Len(call.prompt))
      BY <3>1, <1>2, Zenon DEF n, l
    <3> QED
      BY <1>1, <3>2, Zenon DEF MainStands
  <2> QED
    BY <1>1, <2>2 DEF PromptInv
<1>3. CASE main.offset # 0
  <2>1. ~EndsIn(out, call.eos) /\ main.offset < call.max_length - 1
    BY <1>1, <1>3 DEF ShouldStop
  <2>2. main.offset = Len(out) - 1
    BY <1>1, <1>3 DEF MainStands
  <2> QED
    BY <1>1, <2>1, <2>2
<1> QED
  BY <1>2, <1>3

\* A turn of decode's loop.
LEMMA DecodeStepKeeps == IInv /\ DecodeStep => IInv'
<1> SUFFICES ASSUME IInv, DecodeStep PROVE IInv'
  OBVIOUS
<1>1. pc = "decode" /\ ~ShouldStop /\ SampleToken /\ pc' = "decode"
  BY DEF DecodeStep
<1>2. MainStands /\ Len(out) <= call.max_length
  BY <1>1, DecodeRoom
<1>3. /\ TypeOK' /\ FreshInv' /\ PromptInv'
      /\ Len(out') = Len(out) + 1 /\ main'.offset = Len(out)
      /\ Len(out') > Len(call.prompt) /\ Len(out) \in Nat
      /\ UNCHANGED <<call, draft>>
  BY <1>1, <1>2, SampleTokenKeeps
<1>4. DecodeInv'
  BY <1>1, <1>3 DEF DecodeInv, MainStands
<1> QED
  BY <1>1, <1>3, <1>4
     DEF IInv, StartInv, LoopInv, SingleInv, RoundInv, DraftInv, VerifyInv,
         ReturnInv, InRound

LEMMA SampleDraftKeeps == ModelsGiveWeights /\ IInv /\ SampleDraft => IInv'
<1> SUFFICES ASSUME ModelsGiveWeights, IInv, SampleDraft PROVE IInv'
  OBVIOUS
<1> DEFINE q == DraftP(Context(draft) \o input)
           e == Len(View)
<1>1. PICK t \in Tokens : q[t] > 0 /\ drafted' = Append(drafted, t)
                          /\ input' = <<t>>
  BY DEF SampleDraft
<1>2. /\ pc = "draft" /\ scores' = Append(scores, q)
      /\ draft' = MoveTo(Store(draft, input), draft.offset + Len(input))
      /\ pc' = IF Len(drafted) + 1 = n_spec THEN "verify" ELSE "draft"
      /\ UNCHANGED <<call, out, chunk, n_spec, main>>
  BY DEF SampleDraft
<1>3. /\ out \in Seq(Tokens) /\ drafted \in Seq(Tokens)
      /\ View \in Seq(Tokens) /\ e = Len(out) + Len(drafted)
      /\ Len(out) \in Nat /\ Len(drafted) \in Nat
      /\ call \in Calls /\ call.max_length \in Nat
      /\ main \in Memory(call) /\ draft \in Memory(call)
      /\ main.offset \in Nat /\ draft.offset \in Nat
      /\ n_spec \in Nat /\ e \in Nat
      /\ scores \in Seq([Tokens -> Nat]) /\ Len(scores) = Len(drafted)
      /\ input \in Seq(Tokens)
  BY <1>2, ViewProperties DEF InRound, IInv, TypeOK
<1>4. /\ Len(drafted) < n_spec /\ draft.offset + Len(input) = e
      /\ \A i \in 1 .. Len(input) : input[i] = View[draft.offset + i]
  BY <1>2, <1>3 DEF IInv, DraftInv
<1>5. Len(out) + n_spec <= call.max_length /\ e < call.max_length
      /\ \A i \in 1 .. Len(drafted) : scores[i][drafted[i]] \in Nat \ {0}
  BY <1>2, <1>3, <1>4 DEF IInv, RoundInv, InRound
<1>6. \A j \in 1 .. draft.offset : draft.cache[j] = SubSeq(View, 1, j)
  BY DEF IInv, FreshInv
<1>7. q \in [Tokens -> Nat]
  <2>1. draft.offset \in 0 .. Len(View)
    BY <1>3 DEF IInv, FreshInv
  <2>2. Context(draft) = SubSeq(View, 1, draft.offset)
    BY <2>1, <1>3, <1>6, ContextIsPrefix
  <2>3. Context(draft) \in Seq(Tokens)
    BY <2>1, <2>2, <1>3, Prefix
  <2>4. Context(draft) \o input \in Seq(Tokens)
    BY <2>3, <1>3, ConcatProperties
  <2> QED
    BY <2>4 DEF ModelsGiveWeights
<1> HIDE DEF q
<1>8. /\ drafted' \in Seq(Tokens) /\ Len(drafted') = Len(drafted) + 1
      /\ \A i \in 1 .. Len(drafted) : drafted'[i] = drafted[i]
      /\ drafted'[Len(drafted) + 1] = t
  BY <1>1, <1>3, AppendPrefix
<1>9. /\ scores' \in Seq([Tokens -> Nat]) /\ Len(scores') = Len(drafted')
      /\ \A i \in 1 .. Len(drafted) : scores'[i] = scores[i]
      /\ scores'[Len(drafted) + 1] = q
  BY <1>2, <1>3, <1>7, <1>8, AppendPrefix
<1>10. View' = Append(View, t)
  <2>0. InRound /\ InRound'
    BY <1>2 DEF InRound
  <2>1. View' = out \o Append(drafted, t) /\ View = out \o drafted
    BY <2>0, <1>1, <1>2 DEF View
  <2>2. out \in Seq(Tokens) /\ drafted \in Seq(Tokens)
    BY <1>3
  <2>3. out \o Append(drafted, t) = Append(out \o drafted, t)
    BY <2>2, ConcatAppend
  <2> QED
    BY <2>1, <2>3
<1>11. /\ View' \in Seq(Tokens) /\ Len(View') = e + 1 /\ View'[e + 1] = t
       /\ \A j \in 0 .. e : SubSeq(View', 1, j) = SubSeq(View, 1, j)
  BY <1>3, <1>10, AppendPrefix, ZenonT(30)
<1>12. /\ draft' \in Memory(call) /\ draft'.offset = e
       /\ \A j \in 1 .. e : draft'.cache[j] = SubSeq(View, 1, j)
  <2> DEFINE st == Store(draft, input)
             w == View
  <2>1. /\ draft.offset + Len(input) <= Len(w)
        /\ draft.offset + Len(input) <= call.max_length
        /\ w \in Seq(Tokens)
        /\ \A i \in 1 .. Len(input) : input[i] = w[draft.offset + i]
        /\ \A j \in 1 .. draft.offset : draft.cache[j] = SubSeq(w, 1, j)
    BY <1>3, <1>4, <1>5, <1>6
  <2> HIDE DEF w
  <2>2. /\ st \in Memory(call)
        /\ \A j \in 1 .. draft.offset + Len(input) : st.cache[j] = SubSeq(w, 1, j)
    BY <2>1, <1>3, StoreFresh, ZenonT(30)
  <2>3. draft' = MoveTo(st, e)
    BY <1>2, <1>4
  <2> HIDE DEF st, e
  <2>4. /\ draft' \in Memory(call) /\ draft'.offset = e
        /\ draft'.cache = st.cache
    BY <2>2, <2>3, <1>3, MoveToProperties
  <2> QED
    BY <2>2, <2>4, <1>4 DEF w
<1> HIDE DEF e
<1>13. <<t>> \in Seq(Tokens) /\ Len(<<t>>) = 1 /\ <<t>>[1] = t
  OBVIOUS
<1>14. TypeOK'
  BY <1>1, <1>2, <1>3, <1>8, <1>9, <1>12, <1>13 DEF IInv, TypeOK, Labels
<1>15. \A i \in 1 .. Len(drafted') : scores'[i][drafted'[i]] \in Nat \ {0}
  <2> SUFFICES ASSUME NEW i \in 1 .. Len(drafted')
               PROVE  scores'[i][drafted'[i]] \in Nat \ {0}
    OBVIOUS
  <2>1. CASE i \in 1 .. Len(drafted)
    <3>1. scores'[i] = scores[i] /\ drafted'[i] = drafted[i]
      BY <2>1, <1>8, <1>9
    <3> QED
      BY <2>1, <3>1, <1>5
  <2>2. CASE i = Len(drafted) + 1
    <3>1. scores'[i] = q /\ drafted'[i] = t /\ q[t] \in Nat /\ q[t] > 0
      BY <2>2, <1>1, <1>7, <1>8, <1>9
    <3> QED
      BY <3>1
  <2> QED
    BY <2>1, <2>2, <1>3, <1>8
<1>16. RoundInv'
  BY <1>2, <1>15 DEF IInv, RoundInv, InRound, MainStands
<1>17. DraftInv'
  <2> SUFFICES ASSUME pc' = "draft"
               PROVE  /\ Len(drafted') < n_spec'
                      /\ draft'.offset + Len(input') = Len(out') + Len(drafted')
                      /\ \A i \in 1 .. Len(input') :
                             input'[i] = View'[draft'.offset + i]
    BY DEF DraftInv
  <2>1. Len(drafted) + 1 # n_spec
    BY <1>2
  <2>2. /\ Len(drafted') < n_spec'
        /\ draft'.offset + Len(input') = Len(out') + Len(drafted')
    BY <2>1, <1>1, <1>2, <1>3, <1>4, <1>8, <1>12, <1>13
  <2>3. \A i \in 1 .. Len(input') : input'[i] = View'[draft'.offset + i]
    BY <1>1, <1>11, <1>12, <1>13
  <2> QED
    BY <2>2, <2>3
<1>18. VerifyInv'
  <2> SUFFICES ASSUME pc' = "verify"
               PROVE  /\ Len(drafted') = n_spec'
                      /\ draft'.offset = Len(out') + n_spec' - 1
    BY DEF VerifyInv
  <2>1. Len(drafted) + 1 = n_spec /\ n_spec' = n_spec /\ out' = out
    BY <1>2
  <2>2. /\ draft'.offset = Len(out) + Len(drafted)
        /\ Len(out) \in Nat /\ Len(drafted) \in Nat
        /\ Len(drafted') = Len(drafted) + 1
    BY <1>3, <1>8, <1>12
  <2> QED
    BY <2>1, <2>2
<1>19. FreshInv'
  <2>1. \A j \in 1 .. e : draft'.cache[j] = SubSeq(View', 1, j)
    BY <1>3, <1>11, <1>12
  <2> QED
    <3>1. /\ draft'.offset <= Len(View') /\ draft'.offset <= call'.max_length
          /\ \A j \in 1 .. draft'.offset : draft'.cache[j] = SubSeq(View', 1, j)
      BY <2>1, <1>2, <1>3, <1>5, <1>11, <1>12, SMTT(20)
    <3>2. /\ main'.offset <= Len(out') /\ main'.offset <= call'.max_length
          /\ \A j \in 1 .. main'.offset : main'.cache[j] = SubSeq(out', 1, j)
      BY <1>2 DEF IInv, FreshInv
    <3> QED
      BY <3>1, <3>2 DEF FreshInv
<1> QED
  BY <1>2, <1>14, <1>16, <1>17, <1>18, <1>19
     DEF IInv, PromptInv, StartInv, DecodeInv, LoopInv, SingleInv, ReturnInv

LEMMA VerifyKeeps == IInv /\ Verify => IInv'
<1> SUFFICES ASSUME IInv, Verify PROVE IInv'
  OBVIOUS
<1> DEFINE offset(k) == main.offset + Len(Pending) + k
           e == Len(out)
<1>1. PICK k \in 0 .. n_spec, t \in Tokens :
          /\ out' = out \o Append(SubSeq(drafted, 1, k), t)
          /\ chunk' = k + 1
          /\ main' = MoveTo(Store(main, Pending \o drafted), offset(k))
          /\ draft' = MoveTo(draft, IF k > 0 THEN offset(k) - 1 ELSE offset(k))
  BY DEF Verify
<1>0. e = Len(out)
  OBVIOUS
<1>2. /\ pc = "verify" /\ pc' = "loop"
      /\ UNCHANGED <<call, n_spec, input, drafted, scores>>
  BY DEF Verify
<1>3. /\ out \in Seq(Tokens) /\ drafted \in Seq(Tokens)
      /\ View \in Seq(Tokens) /\ Len(View) = e + Len(drafted)
      /\ e \in Nat /\ call \in Calls /\ call.max_length \in Nat
      /\ main \in Memory(call) /\ draft \in Memory(call)
      /\ main.offset \in Nat /\ draft.offset \in Nat /\ n_spec \in Nat
      /\ View = out \o drafted
  BY <1>2, ViewProperties DEF InRound, View
<1>4. /\ Len(drafted) = n_spec /\ draft.offset = e + n_spec - 1
      /\ MainStands /\ n_spec >= 1 /\ e + n_spec <= call.max_length
  BY <1>2, <1>3 DEF IInv, VerifyInv, RoundInv, InRound
<1>5. /\ Pending \in Seq(Tokens) /\ main.offset + Len(Pending) = e
      /\ \A i \in 1 .. Len(Pending) : Pending[i] = out[main.offset + i]
      /\ Len(Pending) \in Nat
  BY <1>4, PendingProperties, LenProperties
<1>6. /\ out' \in Seq(Tokens) /\ Len(out') = e + k + 1
      /\ \A j \in 0 .. e + k : SubSeq(out', 1, j) = SubSeq(View, 1, j)
  <2>1. k \in 0 .. Len(drafted)
    BY <1>4
  <2>2. out' = out \o Append(SubSeq(drafted, 1, k), t)
    BY <1>1
  <2> DEFINE v == out'
  <2> HIDE DEF v
  <2>3. v = out \o Append(SubSeq(drafted, 1, k), t)
    BY <2>2 DEF v
  <2>4. /\ v \in Seq(Tokens) /\ Len(v) = Len(out) + k + 1
        /\ \A j \in 0 .. Len(out) + k :
               SubSeq(v, 1, j) = SubSeq(out \o drafted, 1, j)
    <3>1. /\ out \in Seq(Tokens) /\ drafted \in Seq(Tokens) /\ t \in Tokens
          /\ k \in 0 .. Len(drafted)
      BY <2>1, <1>3
    <3> QED
      BY <3>1, <2>3, KeptPrefix
  <2> QED
    BY <2>4, <1>0, <1>3 DEF v
<1> HIDE DEF e
<1>7. /\ main' \in Memory(call) /\ main'.offset = e + k
      /\ \A j \in 1 .. e + k : main'.cache[j] = SubSeq(View, 1, j)
  <2> DEFINE p == Pending
             u == p \o drafted
             o == main.offset
             st == Store(main, u)
             w == View
  <2>1. p \in Seq(Tokens) /\ o + Len(p) = e /\ o \in Nat /\ Len(p) \in Nat
        /\ \A i \in 1 .. Len(p) : p[i] = out[o + i]
    BY <1>3, <1>5
  <2> HIDE DEF p
  <2>2. /\ u \in Seq(Tokens) /\ Len(u) = Len(p) + Len(drafted)
        /\ \A i \in 1 .. Len(p) : u[i] = p[i]
        /\ \A i \in 1 .. Len(drafted) : u[Len(p) + i] = drafted[i]
    BY <2>1, <1>3, ConcatPrefix
  <2>3. /\ w \in Seq(Tokens)
        /\ \A i \in 1 .. Len(out) : w[i] = out[i]
        /\ \A i \in 1 .. Len(drafted) : w[Len(out) + i] = drafted[i]
        /\ \A j \in 0 .. Len(out) : SubSeq(w, 1, j) = SubSeq(out, 1, j)
    BY <1>3, ConcatPrefix
  <2> HIDE DEF u, w
  <2>4. \A i \in 1 .. Len(u) : u[i] = w[o + i]
    <3> SUFFICES ASSUME NEW i \in 1 .. Len(u) PROVE u[i] = w[o + i]
      OBVIOUS
    <3> Len(drafted) \in Nat
      BY <1>4, <1>3
    <3>1. CASE i <= Len(p)
      <4>1. i \in 1 .. Len(p) /\ o + i \in 1 .. Len(out)
        BY <3>1, <2>1, <1>0
      <4>2. u[i] = p[i] /\ p[i] = out[o + i]
        BY <4>1, <2>1, <2>2
      <4> HIDE DEF o
      <4>3. w[o + i] = out[o + i]
        BY <4>1, <2>3
      <4> QED
        BY <4>2, <4>3
    <3>2. CASE ~(i <= Len(p))
      <4> DEFINE d == i - Len(p)
      <4>0. /\ Len(u) = Len(p) + Len(drafted) /\ o + Len(p) = Len(out)
            /\ Len(p) \in Nat /\ o \in Nat /\ i \in Nat /\ i <= Len(u)
            /\ i >= 1
        BY <2>1, <2>2, <1>0
      <4> HIDE DEF o
      <4>1. d \in 1 .. Len(drafted) /\ i = Len(p) + d /\ o + i = Len(out) + d
        BY <4>0, <3>2
      <4> HIDE DEF d
      <4>2. u[i] = drafted[d] /\ w[o + i] = drafted[d]
        BY <4>1, <2>2, <2>3
      <4> QED
        BY <4>2
    <3> QED
      BY <3>1, <3>2
  <2>5. \A j \in 1 .. o : main.cache[j] = SubSeq(w, 1, j)
    <3> SUFFICES ASSUME NEW j \in 1 .. o
                 PROVE  main.cache[j] = SubSeq(w, 1, j)
      OBVIOUS
    <3>1. main.cache[j] = SubSeq(out, 1, j) /\ o <= Len(out)
      BY DEF IInv, FreshInv
    <3>2. j \in 0 .. Len(out)
      BY <3>1, <2>1, <1>0, <1>3
    <3> QED
      BY <3>1, <3>2, <2>3
  <2>6. o + Len(u) = e + n_spec
    <3>1. Len(u) = Len(p) + n_spec
      BY <2>2, <1>4
    <3>2. o + Len(p) = e /\ o \in Nat /\ Len(p) \in Nat
      BY <2>1
    <3>3. n_spec \in Nat
      BY <1>3
    <3> HIDE DEF o
    <3> QED
      BY <3>1, <3>2, <3>3
  <2>7. o + Len(u) <= Len(w) /\ o + Len(u) <= call.max_length
    BY <2>6, <1>3, <1>4 DEF w
  <2>8. /\ st \in Memory(call)
        /\ \A j \in 1 .. o + Len(u) : st.cache[j] = SubSeq(w, 1, j)
    BY <2>2, <2>3, <2>4, <2>5, <2>7, <1>3, StoreFresh, ZenonT(30)
  <2>9. main' = MoveTo(st, e + k) /\ e + k \in Nat
    BY <1>1, <1>3, <2>1 DEF u, p
  <2> HIDE DEF st
  <2>10. /\ main' \in Memory(call) /\ main'.offset = e + k
         /\ main'.cache = st.cache
    BY <2>8, <2>9, <1>3, MoveToProperties
  <2>11. \A j \in 1 .. e + k : j \in 1 .. o + Len(u)
    BY <2>6, <1>3
  <2> QED
    BY <2>8, <2>10, <2>11 DEF w
<1>8. /\ draft' \in Memory(call)
      /\ draft'.offset = IF k > 0 THEN e + k - 1 ELSE e
      /\ draft'.cache = draft.cache
  <2> DEFINE f == IF k > 0 THEN e + k - 1 ELSE e
  <2>1. draft' = MoveTo(draft, f) /\ f \in Nat
    BY <1>1, <1>3, <1>5, SMTT(20)
  <2> HIDE DEF f
  <2>2. draft' \in Memory(call) /\ draft'.offset = f /\ draft'.cache = draft.cache
    BY <2>1, <1>3, MoveToProperties
  <2> QED
    BY <2>2 DEF f
<1> HIDE DEF e
<1>9. View' = out'
  BY <1>2 DEF View, InRound
<1>10. TypeOK'
  <2>1. chunk' \in 1 .. Len(out')
    BY <1>1, <1>3, <1>6
  <2>2. /\ call' \in Calls /\ pc' \in Labels
        /\ n_spec' \in Nat /\ input' \in Seq(Tokens)
        /\ drafted' \in Seq(Tokens)
        /\ scores' \in Seq([Tokens -> Nat]) /\ Len(scores') = Len(drafted')
    BY <1>2 DEF IInv, TypeOK, Labels
  <2>3. main' \in Memory(call') /\ draft' \in Memory(call')
    BY <1>2, <1>7, <1>8
  <2> QED
    BY <2>1, <2>2, <2>3, <1>6 DEF TypeOK
<1>11. PromptInv' /\ Len(out') > Len(call.prompt)
  <2>1. e >= Len(call.prompt) /\ Len(call.prompt) \in Nat
    BY LenProperties DEF IInv, PromptInv, e
  <2> QED
    BY <2>1, <1>2, <1>3, <1>6 DEF IInv, PromptInv
<1>12. LoopInv'
  <2>1. draft'.offset + Least(2, chunk') = e + k + 1
    <3>1. CASE k > 0
      BY <3>1, <1>1, <1>3, <1>8 DEF Least
    <3>2. CASE ~(k > 0)
      BY <3>2, <1>1, <1>3, <1>8 DEF Least
    <3> QED
      BY <3>1, <3>2
  <2> QED
    BY <2>1, <1>2, <1>3, <1>6, <1>7, <1>11 DEF LoopInv
<1>13. FreshInv'
  <2>1. \A j \in 1 .. e + k : main'.cache[j] = SubSeq(out', 1, j)
    <3>1. \A j \in 1 .. e + k : j \in 0 .. e + k
      BY <1>3
    <3> QED
      BY <3>1, <1>6, <1>7
  <2>2. /\ draft'.offset <= e + k /\ draft'.offset <= draft.offset
        /\ draft'.offset \in Nat
    BY <1>3, <1>4, <1>8
  <2>3. \A j \in 1 .. draft.offset : draft.cache[j] = SubSeq(View, 1, j)
    BY DEF IInv, FreshInv
  <2>4. \A j \in 1 .. draft'.offset : draft'.cache[j] = SubSeq(out', 1, j)
    <3> SUFFICES ASSUME NEW j \in 1 .. draft'.offset
                 PROVE  draft'.cache[j] = SubSeq(out', 1, j)
      OBVIOUS
    <3>1. j \in 0 .. e + k /\ j \in 1 .. draft.offset
      BY <2>2, <1>3
    <3> QED
      BY <3>1, <2>3, <1>6, <1>8
  <2>5. e + k <= call.max_length
    BY <1>3, <1>4
  <2> QED
    BY <2>1, <2>2, <2>4, <2>5, <1>2, <1>3, <1>6, <1>7, <1>9, SMTT(20) DEF FreshInv
<1> QED
  BY <1>2, <1>10, <1>11, <1>12, <1>13
     DEF IInv, StartInv, DecodeInv, SingleInv, RoundInv, DraftInv, VerifyInv, ReturnInv,
         InRound

LEMMA NextKeeps == ModelsGiveWeights /\ IInv /\ [Next]_vars => IInv'
<1> SUFFICES ASSUME ModelsGiveWeights, IInv, [Next]_vars PROVE IInv'
  OBVIOUS
<1>1. CASE StartSingle
  BY <1>1, StartSingleKeeps
<1>2. CASE StartFirst
  BY <1>2, StartFirstKeeps
<1>3. CASE Break
  BY <1>3, BreakKeeps
<1>4. CASE LoopSingle
  BY <1>4, LoopSingleKeeps
<1>5. CASE LoopRound
  BY <1>5, LoopRoundKeeps
<1>6. CASE SampleMain
  BY <1>6, SampleMainKeeps
<1>7. CASE SampleDraft
  BY <1>7, SampleDraftKeeps
<1>8. CASE Verify
  BY <1>8, VerifyKeeps
<1>9. CASE Return
  BY <1>9, ReturnKeeps
<1>10. CASE UNCHANGED vars
  BY <1>10, StutterKeeps
<1>11. CASE StartDecode
  BY <1>11, StartDecodeKeeps
<1>12. CASE DecodeStep
  BY <1>12, DecodeStepKeeps
<1>13. CASE DecodeStop
  BY <1>13, DecodeStopKeeps
<1> QED
  BY <1>1, <1>2, <1>3, <1>4, <1>5, <1>6, <1>7, <1>8, <1>9, <1>10, <1>11,
     <1>12, <1>13 DEF Next

LEMMA Invariance == ASSUME ModelsGiveWeights PROVE Spec => []IInv
<1>1. Init => IInv
  BY InitInv
<1>2. IInv /\ [Next]_vars => IInv'
  BY NextKeeps
<1> QED
  BY <1>1, <1>2, PTL DEF Spec

-----------------------------------------------------------------------------
(* Invariants *)

\* The state has the shape TypeOK gives it: decode_speculative's variables,
\* both caches and their offsets, in every call.
THEOREM TypeCorrect == ASSUME ModelsGiveWeights PROVE Spec => []TypeOK
<1>1. IInv => TypeOK
  BY DEF IInv
<1> QED
  BY <1>1, Invariance, PTL

\* Neither model ever attends to keys and values of a guess that was rejected
\* (sample_speculative) or of an earlier call (InferenceParams.reset), though
\* nothing erases them.
THEOREM CachesFresh == ASSUME ModelsGiveWeights PROVE Spec => []CacheFresh
<1>1. IInv => CacheFresh
  BY DEF IInv, FreshInv, CacheFresh, View, InRound
<1> QED
  BY <1>1, Invariance, PTL

\* No call of a model writes past its cache of max_length cells, which
\* _update_kv_cache (mha.py) asserts and the kernels do not check.
THEOREM StoresInBounds == ASSUME ModelsGiveWeights PROVE Spec => []CacheInBounds
<1>1. IInv => CacheInBounds
  <2> SUFFICES ASSUME IInv PROVE CacheInBounds
    OBVIOUS
  <2>0. /\ main.offset \in Nat /\ draft.offset \in Nat /\ n_spec \in Nat
        /\ Len(out) \in Nat /\ Len(drafted) \in Nat /\ call.max_length \in Nat
    BY ViewProperties
  <2>1. ASSUME pc = "single"
        PROVE  main.offset + Len(Pending) <= call.max_length
    <3>1. MainStands /\ Len(out) <= call.max_length
      BY <2>1 DEF IInv, SingleInv
    <3>2. main.offset + Len(Pending) = Len(out)
      BY <3>1, PendingProperties
    <3> QED
      BY <3>1, <3>2
  <2>4. ASSUME pc = "decode", ~ShouldStop
        PROVE  main.offset + Len(Pending) <= call.max_length
    <3>1. MainStands /\ Len(out) <= call.max_length
      BY <2>4, DecodeRoom
    <3>2. main.offset + Len(Pending) = Len(out)
      BY <3>1, PendingProperties
    <3> QED
      BY <3>1, <3>2
  <2>2. ASSUME pc = "draft"
        PROVE  draft.offset + Len(input) <= call.max_length
    <3>1. /\ Len(drafted) < n_spec /\ Len(out) + n_spec <= call.max_length
          /\ draft.offset + Len(input) = Len(out) + Len(drafted)
      BY <2>2 DEF IInv, RoundInv, DraftInv, InRound
    <3> QED
      BY <3>1, <2>0
  <2>3. ASSUME pc = "verify"
        PROVE  main.offset + Len(Pending) + n_spec <= call.max_length
    <3>1. MainStands /\ Len(out) + n_spec <= call.max_length
      BY <2>3 DEF IInv, RoundInv, InRound
    <3>2. main.offset + Len(Pending) = Len(out)
      BY <3>1, PendingProperties
    <3> QED
      BY <3>1, <3>2
  <2> QED
    BY <2>1, <2>2, <2>3, <2>4 DEF CacheInBounds
<1> QED
  BY <1>1, Invariance, PTL

-----------------------------------------------------------------------------
(* Refinement: every step is one of Generation's, or a stutter *)

\* While a speculative call works, what it has is not enough for Generation,
\* unless it is long enough.
LEMMA NotEnough ==
    ASSUME IInv, call.lookahead > 0, Len(out) < call.max_length \/ out = call.prompt
    PROVE  ~Abstract!Enough
<1>1. /\ call.eos = NoToken /\ out \in Seq(Tokens) /\ Len(out) \in Nat
      /\ call.max_length \in Nat
  BY ViewProperties
<1>2. ~Abstract!EndsIn(out, call.eos)
  <2> SUFFICES ASSUME out # <<>> PROVE out[Len(out)] # NoToken
    BY <1>1 DEF Abstract!EndsIn
  <2>1. Len(out) \in 1 .. Len(out)
    BY <1>1, EmptySeq
  <2>2. out[Len(out)] \in Tokens
    BY <1>1, <2>1, ElementOfSeq
  <2> QED
    BY <2>2, TokenAssumption
<1> QED
  BY <1>1, <1>2 DEF Abstract!Enough

\* A token the main model samples alone is one Generation may add.
LEMMA SampleTokenExtends ==
    ASSUME IInv, SampleToken, MainStands, pc # "done", pc' # "done",
           ~Abstract!Enough
    PROVE  Abstract!Extend
<1>1. PICK t \in Tokens : /\ MainP(Context(main) \o Pending)[t] > 0
                          /\ out' = Append(out, t)
  BY DEF SampleToken
<1>2. UNCHANGED call
  BY DEF SampleToken
<1>3. MainStands /\ ~Abstract!Enough
  OBVIOUS
<1>4. /\ out \in Seq(Tokens) /\ Len(out) \in Nat
      /\ call.lookahead \in Nat
  BY ViewProperties
<1>5. MainP(out)[t] > 0
  BY <1>1, <1>3, PendingProperties
<1>6. /\ Len(out') = Len(out) + 1 /\ out'[Len(out) + 1] = t
      /\ SubSeq(out', 1, Len(out)) = out
  <2>1. /\ Len(out') = Len(out) + 1 /\ out'[Len(out) + 1] = t
        /\ \A j \in 0 .. Len(out) : SubSeq(out', 1, j) = SubSeq(out, 1, j)
    BY <1>1, <1>4, AppendPrefix
  <2>2. SubSeq(out, 1, Len(out)) = out
    BY <1>4, WholePrefix
  <2> QED
    BY <2>1, <2>2, <1>4
<1>7. \A i \in Len(out) + 1 .. Len(out') :
          out'[i] \in Tokens /\ Abstract!Sampled(out', i)
  <2> SUFFICES ASSUME NEW i \in Len(out) + 1 .. Len(out')
               PROVE  out'[i] \in Tokens /\ Abstract!Sampled(out', i)
    OBVIOUS
  <2>1. i = Len(out) + 1 /\ i - 1 = Len(out)
    BY <1>4, <1>6
  <2>2. out'[i] = t /\ SubSeq(out', 1, i - 1) = out
    BY <2>1, <1>6
  <2> QED
    BY <2>2, <1>5 DEF Abstract!Sampled
<1>8. Len(out') \in Len(out) + 1 .. Len(out) + call.lookahead + 1
  BY <1>4, <1>6
<1>9. ~Finished /\ ~Finished'
  BY DEF Finished
<1>10. UNCHANGED <<call, Finished>>
  <2>1. Finished' = Finished
    BY <1>9 DEF Finished
  <2> QED
    BY <2>1, <1>2
<1> QED
  BY <1>10, <1>3, <1>6, <1>7, <1>8, <1>9 DEF Abstract!Extend

\* The single token of decode_speculative.
LEMMA SampleMainExtends ==
    ASSUME IInv, SampleMain
    PROVE  Abstract!Extend
<1>1. /\ pc = "single" /\ pc' \in {"loop", "return"} /\ SampleToken
  BY DEF SampleMain
<1>2. /\ MainStands /\ (Len(out) < call.max_length \/ out = call.prompt)
      /\ call.lookahead > 0
  BY <1>1 DEF IInv, SingleInv, DecodeInv
<1>3. ~Abstract!Enough
  BY <1>2, NotEnough
<1> QED
  BY <1>1, <1>2, <1>3, SampleTokenExtends

\* A turn of decode's loop.
LEMMA DecodeStepExtends ==
    ASSUME IInv, DecodeStep
    PROVE  Abstract!Extend
<1>1. pc = "decode" /\ pc' = "decode" /\ SampleToken /\ ~ShouldStop
  BY DEF DecodeStep
<1>2. /\ MainStands
      /\ out # call.prompt => Len(out) < call.max_length /\ ~EndsIn(out, call.eos)
      /\ Len(out) \in Nat /\ call.max_length \in Nat
  BY <1>1, DecodeRoom, ViewProperties
<1>3. ~Abstract!Enough
  BY <1>2 DEF Abstract!Enough, Abstract!EndsIn, EndsIn
<1> QED
  BY <1>1, <1>2, <1>3, SampleTokenExtends

\* What sample_speculative keeps of the guesses, and what it adds, the main
\* model could have sampled one after the other.
LEMMA VerifyExtends ==
    ASSUME ModelsGiveWeights, NeverDrawsZero, IInv, Verify
    PROVE  Abstract!Extend
<1>1. PICK k \in 0 .. n_spec, t \in Tokens :
          /\ MaySample(k, t)
          /\ out' = out \o Append(SubSeq(drafted, 1, k), t)
  BY DEF Verify
<1>2. pc = "verify" /\ pc' = "loop" /\ UNCHANGED call
  BY DEF Verify
<1>3. /\ out \in Seq(Tokens) /\ drafted \in Seq(Tokens)
      /\ Len(out) \in Nat /\ call.max_length \in Nat
      /\ call.lookahead \in Nat /\ n_spec \in Nat
      /\ scores \in Seq([Tokens -> Nat]) /\ Len(scores) = Len(drafted)
  BY ViewProperties DEF IInv, TypeOK
<1>4. /\ Len(drafted) = n_spec /\ MainStands
      /\ n_spec \in 1 .. call.lookahead /\ Len(out) + n_spec <= call.max_length
      /\ \A i \in 1 .. Len(drafted) : scores[i][drafted[i]] \in Nat \ {0}
  BY <1>2 DEF IInv, VerifyInv, RoundInv, InRound
<1>5. \A d \in 0 .. n_spec :
          /\ MainRow(d) = MainP(out \o SubSeq(drafted, 1, d))
          /\ MainRow(d) \in [Tokens -> Nat]
  <2> SUFFICES ASSUME NEW d \in 0 .. n_spec
               PROVE  /\ MainRow(d) = MainP(out \o SubSeq(drafted, 1, d))
                      /\ MainRow(d) \in [Tokens -> Nat]
    OBVIOUS
  <2>1. Context(main) \o Pending = out
    BY <1>4, PendingProperties
  <2>2. MainRow(d) = MainP(out \o SubSeq(drafted, 1, d))
    BY <2>1 DEF MainRow
  <2>3. SubSeq(drafted, 1, d) \in Seq(Tokens)
    BY <1>3, <1>4, Prefix
  <2>4. out \o SubSeq(drafted, 1, d) \in Seq(Tokens)
    BY <2>3, <1>3, ConcatProperties
  <2> QED
    BY <2>2, <2>4 DEF ModelsGiveWeights
<1>6. /\ Len(out') = Len(out) + k + 1 /\ out'[Len(out) + k + 1] = t
      /\ SubSeq(out', 1, Len(out)) = out
      /\ \A d \in 1 .. k : out'[Len(out) + d] = drafted[d]
      /\ \A d \in 0 .. k :
             SubSeq(out', 1, Len(out) + d) = out \o SubSeq(drafted, 1, d)
  <2> DEFINE v == out'
  <2>1. v = out \o Append(SubSeq(drafted, 1, k), t) /\ k \in 0 .. Len(drafted)
    BY <1>1, <1>4
  <2> HIDE DEF v
  <2>2. out \in Seq(Tokens) /\ drafted \in Seq(Tokens)
    BY <1>3
  <2>3. /\ Len(v) = Len(out) + k + 1 /\ v[Len(out) + k + 1] = t
        /\ SubSeq(v, 1, Len(out)) = out
    BY <2>1, <2>2, KeptPrefix
  <2>4. \A d \in 1 .. k : v[Len(out) + d] = drafted[d]
    BY <2>1, <2>2, KeptPrefix
  <2>5. \A d \in 0 .. k :
            SubSeq(v, 1, Len(out) + d) = out \o SubSeq(drafted, 1, d)
    BY <2>1, <2>2, KeptPrefix
  <2> QED
    BY <2>3, <2>4, <2>5 DEF v
<1>7. \A d \in 1 .. k : /\ drafted[d] \in Tokens
                        /\ MainRow(d - 1)[drafted[d]] > 0
  <2> SUFFICES ASSUME NEW d \in 1 .. k
               PROVE  drafted[d] \in Tokens /\ MainRow(d - 1)[drafted[d]] > 0
    OBVIOUS
  <2>1. d \in 1 .. Len(drafted) /\ d - 1 \in 0 .. n_spec
    BY <1>3, <1>4
  <2>2. drafted[d] \in Tokens
    BY <2>1, <1>3, ElementOfSeq
  <2> DEFINE p == MainRow(d - 1)[drafted[d]]
             q == scores[d][drafted[d]]
  <2>3. MainRow(d - 1) \in [Tokens -> Nat]
    BY <2>1, <1>5
  <2>4. p \in Nat /\ q \in Nat \ {0} /\ MayAccept(p, q)
    BY <2>1, <2>2, <2>3, <1>1, <1>4 DEF MaySample
  <2> HIDE DEF p, q
  <2>5. p > 0
    BY <2>4, AcceptedIsPossible
  <2> QED
    BY <2>2, <2>5 DEF p
<1>8. MainRow(k)[t] > 0
  <2>1. CASE k = n_spec
    BY <2>1, <1>1 DEF MaySample
  <2>2. CASE k # n_spec
    <3>1. k + 1 \in 1 .. Len(scores) /\ k < n_spec
      BY <2>2, <1>3, <1>4
    <3>2. scores[k + 1] \in [Tokens -> Nat]
      BY <3>1, <1>3, ElementOfSeq
    <3>3. scores[k + 1][t] \in Nat /\ MainRow(k)[t] \in Nat
      BY <3>2, <1>5
    <3>4. MainRow(k)[t] > scores[k + 1][t]
      BY <3>1, <1>1 DEF MaySample
    <3> QED
      BY <3>3, <3>4
  <2> QED
    BY <2>1, <2>2
<1>9. \A i \in Len(out) + 1 .. Len(out') :
          out'[i] \in Tokens /\ Abstract!Sampled(out', i)
  <2> SUFFICES ASSUME NEW i \in Len(out) + 1 .. Len(out')
               PROVE  out'[i] \in Tokens /\ MainP(SubSeq(out', 1, i - 1))[out'[i]] > 0
    BY DEF Abstract!Sampled
  <2> DEFINE d == i - Len(out)
  <2>1. /\ d \in 1 .. k + 1 /\ i = Len(out) + d /\ i - 1 = Len(out) + (d - 1)
        /\ d - 1 \in 0 .. k
    BY <1>3, <1>6
  <2> HIDE DEF d
  <2>2. SubSeq(out', 1, i - 1) = out \o SubSeq(drafted, 1, d - 1)
    BY <2>1, <1>6
  <2>3. d - 1 \in 0 .. n_spec
    BY <2>1, <1>3
  <2>4. MainP(SubSeq(out', 1, i - 1)) = MainRow(d - 1)
    BY <2>2, <2>3, <1>5
  <2>5. CASE d \in 1 .. k
    BY <2>1, <2>4, <2>5, <1>6, <1>7
  <2>6. CASE d = k + 1
    <3>1. d - 1 = k /\ i = Len(out) + k + 1
      BY <2>1, <2>6, <1>3
    <3> QED
      BY <3>1, <2>4, <1>6, <1>8
  <2> QED
    BY <2>1, <2>5, <2>6, SMTT(20)
<1>10. Len(out') \in Len(out) + 1 .. Len(out) + call.lookahead + 1
  BY <1>3, <1>4, <1>6, SMTT(20)
<1>11. ~Abstract!Enough
  <2>1. Len(out) < call.max_length /\ call.lookahead > 0
    BY <1>3, <1>4
  <2> QED
    BY <2>1, NotEnough
<1>12. ~Finished /\ ~Finished'
  BY <1>2 DEF Finished
<1>13. UNCHANGED <<call, Finished>>
  <2>1. Finished' = Finished
    BY <1>12 DEF Finished
  <2> QED
    BY <2>1, <1>2
<1> QED
  BY <1>13, <1>6, <1>9, <1>10, <1>11, <1>12 DEF Abstract!Extend

LEMMA ReturnFinishes ==
    ASSUME IInv, Return
    PROVE  Abstract!Finish
<1>1. pc = "return" /\ pc' = "done" /\ UNCHANGED <<call, out>>
  BY DEF Return, Goto
<1>2. /\ Len(out) >= call.max_length \/ EndsIn(out, call.eos)
      /\ Len(out) > Len(call.prompt)
  BY <1>1 DEF IInv, ReturnInv
<1>3. out # call.prompt
  BY <1>2, ViewProperties
<1>4. ~Finished /\ Finished'
  BY <1>1 DEF Finished
<1>5. out # <<>>
  <2>1. Len(call.prompt) \in Nat /\ Len(call.prompt) >= 1 /\ Len(<<>>) = 0
    BY LenProperties, EmptySeq DEF IInv, PromptInv
  <2> QED
    BY <2>1, <1>2
<1> QED
  BY <1>1, <1>2, <1>3, <1>4, <1>5
     DEF Abstract!Finish, Abstract!Enough, Abstract!EndsIn, EndsIn

\* The steps that only move, and the guesses, are invisible.
LEMMA OthersStutter ==
    ASSUME \/ StartDecode \/ DecodeStop
           \/ StartSingle \/ StartFirst \/ Break \/ LoopSingle \/ LoopRound
           \/ SampleDraft \/ UNCHANGED vars
    PROVE  UNCHANGED Abstract!vars
<1>1. UNCHANGED <<call, out>>
  BY DEF StartDecode, DecodeStop, StartSingle, StartFirst, Break,
         LoopSingle, LoopRound, SampleDraft, StartRound, Goto, vars
<1>2. (pc = "done") <=> (pc' = "done")
  BY DEF StartDecode, DecodeStop, StartSingle, StartFirst, Break,
         LoopSingle, LoopRound, SampleDraft, StartRound, Goto, vars
<1>3. Finished' = Finished
  BY <1>2 DEF Finished
<1> QED
  BY <1>1, <1>3 DEF Abstract!vars

\* Both functions implement Generation: whatever the draft model guesses,
\* and wherever its guesses are cut off, the tokens returned are ones the main
\* model samples after the tokens before them, and there are enough of them.
\* torch.rand must not return 0, or a guess the main model rules out passes.
THEOREM Refinement ==
    ASSUME ModelsGiveWeights, NeverDrawsZero
    PROVE  Spec => ImplementsGeneration
<1>1. Init => Abstract!Init
  <2> SUFFICES ASSUME Init PROVE Abstract!Init
    OBVIOUS
  <2>1. Finished = FALSE
    BY DEF Init, Finished
  <2> QED
    BY <2>1 DEF Init, Abstract!Init
<1>2. IInv /\ [Next]_vars => [Abstract!Next]_(Abstract!vars)
  <2> SUFFICES ASSUME IInv, [Next]_vars PROVE [Abstract!Next]_(Abstract!vars)
    OBVIOUS
  <2>1. CASE SampleMain
    BY <2>1, SampleMainExtends DEF Abstract!Next
  <2>2. CASE Verify
    BY <2>2, VerifyExtends DEF Abstract!Next
  <2>3. CASE Return
    BY <2>3, ReturnFinishes DEF Abstract!Next
  <2>5. CASE DecodeStep
    BY <2>5, DecodeStepExtends DEF Abstract!Next
  <2>4. CASE \/ StartDecode \/ DecodeStop
             \/ StartSingle \/ StartFirst \/ Break \/ LoopSingle \/ LoopRound
             \/ SampleDraft \/ UNCHANGED vars
    BY <2>4, OthersStutter
  <2> QED
    BY <2>1, <2>2, <2>3, <2>4, <2>5 DEF Next
<1> QED
  BY <1>1, <1>2, Invariance, PTL DEF Spec, ImplementsGeneration, Abstract!Spec
=============================================================================
