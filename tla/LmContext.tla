------------------------------ MODULE LmContext ------------------------------
(***************************************************************************)
(* The cached context of the transformer (LanguageModelState): what the    *)
(* key-value cache of the native model holds, what active_context and      *)
(* past_mixes claim that it holds, and the sampling of suggestions, which  *)
(* shares the cache among hypotheses.  A request only decodes what the     *)
(* cache lacks, so a wrong claim gives suggestions for another text.       *)
(*                                                                         *)
(* A cell is modelled by the text its token was computed over: the cache   *)
(* is right when that is the text the request asks about.                  *)
(***************************************************************************)
EXTENDS Integers, Sequences, SequencesExt

CONSTANTS
  Contexts,     \* tokenized texts before the cursor, each starting with BOS
  Taps,         \* touches of letters of the word being typed
  Open, Closing,\* sampled tokens within a word, and those that end it
  XBU, XBC,     \* begin of the user's input, begin of the correction
  NBatch,       \* n_batch: tokens decoded at once
  Results,      \* n_results
  MaxTaps,      \* bound on the letters of a word
  MaxTokens,    \* rounds of sampling, 10 in the code
  MaxFailures   \* bound on the failures of llama_decode and of hypotheses

ASSUME LmAssumption ==
  /\ NBatch \in Nat \ {0} /\ Results \in Nat \ {0}
  /\ MaxTaps \in Nat /\ MaxTokens \in Nat \ {0} /\ MaxFailures \in Nat
  /\ \A c \in Contexts : c # << >> /\ c \in Seq(Range(c))

VARIABLES
  kv,         \* cells of the cache, in the order they were filled
  active,     \* active_context
  pastMixes,  \* past_mixes
  pc,         \* where the request is
  request,    \* the request: its kind, prompt and mixes
  fed,        \* tokens of the prompt decoded for it
  size,       \* DecodeResult.size
  logits,     \* the text the logits at hand continue
  hyps,       \* sequences: the hypotheses being sampled
  failures,
  spoiled     \* since the last reset a decoding has failed or taken two batches, or
              \* sampling was given up among its hypotheses

vars == <<kv, active, pastMixes, pc, request, fed, size, logits, hyps, failures, spoiled>>

----------------------------------------------------------------------------
(* The key-value cache *)

\* A token computed over cells that do not form one text.
Garbled == << >>

\* What a token at a position of a sequence attends to.
Seen(cells, seq, pos) ==
  {i \in DOMAIN cells : seq \in cells[i].seqs /\ cells[i].pos <= pos}

\* The cells form the text: one cell for each position, computed over those before.
Form(cells, seen, text) ==
  /\ {cells[i].pos : i \in seen} = 0..(Len(text) - 1)
  /\ \A i, j \in seen : cells[i].pos = cells[j].pos => i = j
  /\ \A i \in seen : cells[i].text = SubSeq(text, 1, cells[i].pos + 1)

\* What a token stands for: the text it was computed over, and itself.
Reads(cells, e) ==
  LET seen == Seen(cells, e.seq, e.pos)
      texts == {cells[i].text : i \in seen} \cup {<< >>}
      whole == {w \in texts : Len(w) = e.pos /\ Form(cells, seen, w)}
  IN  IF whole = {} THEN Garbled ELSE Append(CHOOSE w \in whole : TRUE, e.token)

\* llama_decode of a batch.
Decode(cells, batch) ==
  FoldLeft(LAMBDA cs, e :
             Append(cs, [seqs |-> {e.seq}, pos |-> e.pos, text |-> Reads(cs, e)]),
           cells, batch)

\* Tokens of a sequence, from a position on.
Batch(seq, pos, tokens) ==
  [i \in DOMAIN tokens |-> [seq |-> seq, pos |-> pos + i - 1, token |-> tokens[i]]]

\* Bug: a cell that no sequence uses stays.
SeqRmKeepsCells(cells, seq, from) ==
  [i \in DOMAIN cells |->
     IF cells[i].pos >= from THEN [cells[i] EXCEPT !.seqs = @ \ {seq}] ELSE cells[i]]

\* llama_kv_cache_seq_rm: a cell that no sequence uses is free.
SeqRm(cells, seq, from) ==
  FoldLeft(LAMBDA cs, c :
             LET left == IF c.pos >= from THEN c.seqs \ {seq} ELSE c.seqs
             IN  IF left = {} THEN cs ELSE Append(cs, [c EXCEPT !.seqs = left]),
           << >>, cells)

\* llama_kv_cache_seq_cp, below a position.
SeqCp(cells, src, dst, below) ==
  [i \in DOMAIN cells |->
     IF src \in cells[i].seqs /\ cells[i].pos < below
       THEN [cells[i] EXCEPT !.seqs = @ \cup {dst}] ELSE cells[i]]

----------------------------------------------------------------------------
(* Requests *)

Mixes == UNION {[1..n -> Taps] : n \in 0..MaxTaps}

Prompts == Contexts \cup {Append(c, XBU) : c \in Contexts}

NoRequest == [kind |-> "none", prompt |-> << >>, mixes |-> << >>]

\* What the request asks the model to continue.
Wanted ==
  request.prompt \o request.mixes \o (IF request.mixes = << >> THEN << >> ELSE <<XBC>>)

Init ==
  /\ kv = << >> /\ active = << >> /\ pastMixes = << >>
  /\ pc = "idle" /\ request = NoRequest /\ fed = 0 /\ size = 0
  /\ logits = Garbled /\ hyps = << >>
  /\ failures = 0 /\ spoiled = FALSE

cache == <<kv, active, pastMixes>>

\* The request is answered, with suggestions or without.
Return ==
  /\ pc' = "idle"
  /\ request' = NoRequest /\ fed' = 0 /\ size' = 0 /\ hyps' = << >>

Asked(kind, prompt, mixes) ==
  /\ pc = "idle"
  /\ pc' = "prompt"
  /\ request' = [kind |-> kind, prompt |-> prompt, mixes |-> mixes]
  /\ UNCHANGED <<cache, fed, size, logits, hyps, failures, spoiled>>

PredictNextWord(c) == Asked("next", c, << >>)
PredictCorrection(c, mixes) == Asked("correct", Append(c, XBU), mixes)
RescoreSuggestions(c) == Asked("rescore", c, << >>)

\* The model is closed, and opened again before the next request.
Reopen ==
  /\ pc = "idle"
  /\ kv' = << >> /\ active' = << >> /\ pastMixes' = << >>
  /\ logits' = Garbled /\ spoiled' = FALSE
  /\ UNCHANGED <<pc, request, fed, size, hyps, failures>>

----------------------------------------------------------------------------
(* DecodePromptAndMixes *)

\* Length of the longest common prefix.
Common(s, t) == Max({n \in 0..Len(s) : n <= Len(t) /\ SubSeq(s, 1, n) = SubSeq(t, 1, n)})

\* Bug: the last token is not computed again.
FastForwardKeepsLast(context, next, allowEmpty) == Common(context, next)

\* transformer_context_fastforward: the tokens of the next context that are cached;
\* the last one is computed again where its logits are needed.
FastForward(context, next, allowEmpty) ==
  LET npast == Common(context, next)
  IN  IF ~allowEmpty /\ npast = Len(next) /\ npast > 0 THEN npast - 1 ELSE npast

NPast == FastForward(active, request.prompt, request.mixes # << >>)
NewTokens == SubSeq(request.prompt, NPast + 1, Len(request.prompt))

\* One batch of the prompt; each begins by removing what follows the cached tokens.
DecodePrompt ==
  /\ pc = "prompt" /\ NewTokens # << >>
  /\ LET to == IF fed + NBatch < Len(NewTokens) THEN fed + NBatch ELSE Len(NewTokens)
         done == to = Len(NewTokens)
     IN  /\ kv' = Decode(SeqRm(kv, 0, NPast),
                         Batch(0, NPast + fed, SubSeq(NewTokens, fed + 1, to)))
         /\ fed' = to
         /\ active' = IF done THEN request.prompt ELSE active
         /\ pc' = IF done THEN "mixes" ELSE "prompt"
  /\ logits' = IF request.mixes = << >> THEN Last(kv').text ELSE logits
  /\ spoiled' = (spoiled \/ fed > 0)
  /\ UNCHANGED <<pastMixes, request, size, hyps, failures>>

PromptCached ==
  /\ pc = "prompt" /\ NewTokens = << >>
  /\ active' = request.prompt
  /\ pc' = "mixes"
  /\ UNCHANGED <<kv, pastMixes, request, fed, size, logits, hyps, failures, spoiled>>

\* Bug: the mixes count as cached although the prompt before them has changed.
CachedMixesAlways == Common(pastMixes, request.mixes)

\* GetCachedMixAmount; nothing is cached behind a prompt that has changed.
CachedMixes == IF fed > 0 THEN 0 ELSE Common(pastMixes, request.mixes)

\* What is decoded behind the prompt: the mixes that are not cached, one by one,
\* and XBC.
BehindPrompt ==
  IF request.mixes = << >> THEN << >>
  ELSE Batch(0, Len(request.prompt) + CachedMixes,
             SubSeq(request.mixes, CachedMixes + 1, Len(request.mixes)) \o <<XBC>>)

KeptForMixes == SeqRm(kv, 0, Len(request.prompt) + CachedMixes)

DecodeMixes ==
  /\ pc = "mixes"
  /\ pastMixes' = request.mixes
  /\ kv' = SeqRm(Decode(KeptForMixes, BehindPrompt), 0, Len(Wanted))
  /\ size' = Len(Wanted)
  /\ logits' = IF request.mixes = << >> THEN logits ELSE Last(kv').text
  /\ pc' = "sample"
  /\ UNCHANGED <<active, request, fed, hyps, failures, spoiled>>

\* llama_decode has failed: an empty result is returned, and sampling goes on.
Failed ==
  /\ failures < MaxFailures
  /\ failures' = failures + 1
  /\ spoiled' = TRUE
  /\ size' = 0
  /\ pc' = "sample"
  /\ UNCHANGED <<active, request, fed, logits, hyps>>

DecodePromptFails ==
  /\ pc = "prompt" /\ NewTokens # << >>
  /\ kv' = SeqRm(kv, 0, NPast)
  /\ Failed
  /\ UNCHANGED pastMixes

DecodeMixesFails(decoded) ==
  /\ pc = "mixes" /\ decoded < Len(BehindPrompt)
  /\ pastMixes' = request.mixes
  /\ kv' = Decode(KeptForMixes, SubSeq(BehindPrompt, 1, decoded))
  /\ Failed

----------------------------------------------------------------------------
(* Sample *)

Vocabulary == Open \cup Closing

\* Different tokens for the ranks 1..n, best first.
Rankings(n) == {r \in [1..n -> Vocabulary] : IsInjective(r)}

\* A hypothesis: its tokens, the sequence of the cache it uses, and the texts whose
\* probabilities make up its score.
Hypothesis(tokens, id, score) == [tokens |-> tokens, id |-> id, score |-> score]

sampled == <<active, pastMixes, request, fed, size, failures>>

\* The logits are not numbers: nothing has been done yet.
LogitsAreNaN ==
  /\ pc = "sample" /\ request.kind # "rescore"
  /\ Return
  /\ UNCHANGED <<cache, logits, failures, spoiled>>

\* "Detected bug": everything is reset but past_mixes.
ResetCache ==
  /\ pc = "sample" /\ request.kind # "rescore"
  /\ kv' = << >> /\ active' = << >>
  /\ spoiled' = FALSE
  /\ Return
  /\ UNCHANGED <<pastMixes, logits, failures>>

\* Rescoring only looks at the logits.
Rescored ==
  /\ pc = "sample" /\ request.kind = "rescore"
  /\ Return
  /\ UNCHANGED <<cache, logits, failures, spoiled>>

\* The best tokens each begin a hypothesis in a sequence of its own.
BeginHypotheses(ranking) ==
  /\ pc = "sample" /\ request.kind # "rescore"
  /\ hyps' = [i \in 1..Results |-> Hypothesis(<<ranking[i]>>, i - 1, <<<<ranking[i]>>>>)]
  /\ kv' = FoldLeft(LAMBDA cs, id : SeqCp(cs, 0, id, size), kv, [i \in 1..(Results - 1) |-> i])
  /\ pc' = "round"
  /\ UNCHANGED <<sampled, logits, spoiled>>

Unfinished ==
  FoldLeft(LAMBDA hs, h : IF Last(h.tokens) \in Closing THEN hs ELSE Append(hs, h), << >>, hyps)

\* The hypotheses that have not ended their word are decoded together; a failure of
\* this call goes unnoticed.
DecodeHypotheses(ok) ==
  /\ pc = "round" /\ Unfinished # << >>
  /\ Len(hyps[1].tokens) <= MaxTokens
  /\ ok \/ failures < MaxFailures
  /\ hyps' = Unfinished
  /\ kv' = IF ok THEN Decode(kv, [i \in DOMAIN Unfinished |->
                                    LET h == Unfinished[i]
                                    IN  [seq |-> h.id, pos |-> size + Len(h.tokens) - 1,
                                         token |-> Last(h.tokens)]])
                  ELSE kv
  /\ failures' = IF ok THEN failures ELSE failures + 1
  /\ pc' = "extend"
  /\ UNCHANGED <<active, pastMixes, request, fed, size, logits, spoiled>>

\* Sequences that are not in use by these hypotheses.
FreeIds(hs) == {id \in 0..(Results - 1) : \A i \in DOMAIN hs : hs[i].id # id}

Shared(hs, i) == \E j \in DOMAIN hs : j # i /\ hs[j].id = hs[i].id

\* Bug: the sequence that is given is not noted as used.
ReassignBlindly(h0) ==
  FoldLeft(LAMBDA a, i :
             IF Shared(h0, i)
               THEN [hyps |-> [a.hyps EXCEPT ![i].id = Min(FreeIds(h0))], kv |-> a.kv]
               ELSE a,
           [hyps |-> h0, kv |-> kv], [i \in DOMAIN h0 |-> i])

\* Hypotheses of one parent share its sequence: all but one are given a free one,
\* which gets a copy of the parent's cells.
Reassign(h0) ==
  FoldLeft(LAMBDA a, i :
             IF Shared(a.hyps, i)
               THEN LET free == Min(FreeIds(a.hyps))
                        h == a.hyps[i]
                    IN  [hyps |-> [a.hyps EXCEPT ![i].id = free],
                         kv |-> SeqCp(a.kv, h.id, free, size + Len(h.tokens) - 1)]
               ELSE a,
           [hyps |-> h0, kv |-> kv], [i \in DOMAIN h0 |-> i])

\* The best continuations: each of a parent, at a rank among that parent's tokens.
Continuations(n) ==
  {c \in [1..n -> [parent : 1..n, rank : 1..n, token : Vocabulary]] :
     \A i, j \in 1..n :
       i # j /\ c[i].parent = c[j].parent =>
         c[i].rank # c[j].rank /\ c[i].token # c[j].token}

\* The score of a continuation is taken from the hypothesis at its rank.
ExtendHypotheses(c) ==
  /\ pc = "extend"
  /\ LET extended(i) == LET tokens == Append(hyps[c[i].parent].tokens, c[i].token)
                        IN  Hypothesis(tokens, hyps[c[i].parent].id,
                                       Append(hyps[c[i].rank].score, tokens))
         new == Reassign([i \in DOMAIN hyps |-> extended(i)])
     IN  hyps' = new.hyps /\ kv' = new.kv
  /\ pc' = "round"
  /\ UNCHANGED <<sampled, logits, spoiled>>

\* The logits of a hypothesis are not numbers: its cells are left behind.
HypothesisIsNaN ==
  /\ pc = "extend"
  /\ failures < MaxFailures
  /\ failures' = failures + 1
  /\ spoiled' = TRUE
  /\ Return
  /\ UNCHANGED <<cache, logits>>

FinishSample ==
  /\ pc = "round"
  /\ Unfinished = << >> \/ Len(hyps[1].tokens) > MaxTokens
  /\ kv' = FoldLeft(LAMBDA cs, id : SeqRm(cs, id, 0), kv, [i \in 1..(Results - 1) |-> i])
  /\ Return
  /\ UNCHANGED <<active, pastMixes, logits, failures, spoiled>>

----------------------------------------------------------------------------
Next ==
  \/ \E c \in Contexts :
       \/ PredictNextWord(c) \/ RescoreSuggestions(c)
       \/ \E mixes \in Mixes : PredictCorrection(c, mixes)
  \/ Reopen
  \/ DecodePrompt \/ PromptCached \/ DecodeMixes
  \/ DecodePromptFails \/ \E n \in 0..MaxTaps : DecodeMixesFails(n)
  \/ LogitsAreNaN \/ ResetCache \/ Rescored
  \/ \E r \in Rankings(Results) : BeginHypotheses(r)
  \/ \E ok \in BOOLEAN : DecodeHypotheses(ok)
  \/ \E c \in Continuations(Len(hyps)) : ExtendHypotheses(c)
  \/ HypothesisIsNaN \/ FinishSample

Spec == Init /\ [][Next]_vars

----------------------------------------------------------------------------
(* Properties *)

Tokens == Taps \cup Vocabulary \cup {XBC} \cup UNION {Range(p) : p \in Prompts}

TypeOK ==
  /\ \A i \in DOMAIN kv :
       /\ kv[i].seqs \in (SUBSET (0..(Results - 1))) \ {{}}
       /\ kv[i].pos \in Nat /\ kv[i].text \in Seq(Tokens)
       /\ kv[i].text # Garbled => Len(kv[i].text) = kv[i].pos + 1
  /\ active \in Prompts \cup {<< >>} /\ pastMixes \in Mixes
  /\ pc \in {"idle", "prompt", "mixes", "sample", "round", "extend"}
  /\ request.prompt \in Prompts \cup {<< >>} /\ request.mixes \in Mixes
  /\ fed \in 0..Len(request.prompt) /\ size \in 0..(Len(request.prompt) + MaxTaps + 1)
  /\ logits \in Seq(Tokens)
  /\ Len(hyps) <= Results /\ hyps # << >> <=> pc \in {"round", "extend"}
  /\ failures \in 0..MaxFailures /\ spoiled \in BOOLEAN

\* Between requests the cache holds what active_context and past_mixes claim, each
\* position once and computed over the right text, whatever requests came before,
\* longer or shorter, sampled to the end or given up: until a decoding fails.
CacheIsWhatItClaims ==
  pc = "idle" /\ ~spoiled /\ active # << >> =>
    LET claimed == active \o pastMixes
    IN  Form(kv, Seen(kv, 0, Len(claimed) - 1), claimed)

\* What is sampled continues the request: never the logits of an earlier one, and
\* never those of a text put together from two.
AnswersTheRequest ==
  pc = "sample" /\ ~spoiled => logits = Wanted /\ size = Len(Wanted)

\* Each hypothesis uses a sequence of the cache of its own, and a free one is always
\* found for it ("This should never happen").
HypothesesApart ==
  pc = "round" => \A i, j \in DOMAIN hyps : hyps[i].id = hyps[j].id => i = j

\* What the comment on potential_sequence says: P = P(tokens[0]) * P(tokens[1]) * ...
ScoreIsProduct ==
  \A i \in DOMAIN hyps :
    hyps[i].score = [n \in DOMAIN hyps[i].tokens |-> SubSeq(hyps[i].tokens, 1, n)]
=============================================================================
