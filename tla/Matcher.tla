------------------------------- MODULE Matcher -------------------------------
(***************************************************************************)
(* The lexical matching of `dira check` (internal/enforcer/text.go and     *)
(* match.go): a text is parsed into spans of terms with a polarity, terms  *)
(* are weighed by how rare they are in the ledger, and a plan is scored    *)
(* against one unit of enforced text.                                      *)
(*                                                                         *)
(* A raw text is a sequence of chunks, a chunk the sequence of the words   *)
(* between two marks of punctuation.  Words are members of the small       *)
(* vocabulary below.  A parsed text is the set of its spans: nothing asks  *)
(* for their order, or how often one of them is there.  A score is in      *)
(* thousandths.                                                            *)
(***************************************************************************)
EXTENDS Naturals, Sequences, SequencesExt, FiniteSets, FiniteSetsExt

CONSTANT Ln   \* Ln[n]: the natural logarithm of n in thousandths, as far as it is asked for

ASSUME LnAssumption ==
    Ln \in Seq(Nat) /\ \A m, n \in DOMAIN Ln : m <= n => Ln[m] <= Ln[n]

\* The members of the three word tables that the instances use.
spanBreakers == {"and", "but"}
negationCues == {"no", "never", "without"}
stopwords == {"a", "the", "we"}

\* What stem returns for the words of the vocabulary it changes.
Inflected == [cache |-> "cach", caching |-> "cach", queues |-> "queu", queue |-> "queu"]
stem(w) == IF w \in DOMAIN Inflected THEN Inflected[w] ELSE w

-----------------------------------------------------------------------------
\* toSpan: a breaker ends a clause unless a negation cue follows it.
Breaks(words, i) ==
    words[i] \in spanBreakers /\ ~(i < Len(words) /\ words[i + 1] \in negationCues)

\* The positions of the clause that position i belongs to.
Clause(words, i) ==
    LET breaks == {b \in DOMAIN words : Breaks(words, b)}
    IN  {j \in DOMAIN words : \A b \in breaks : b # j /\ (b < i <=> b < j)}

\* scopeNegation: a cue negates what follows it in its clause; where only cues
\* follow the first cue, it negates what precedes it.
Negated(words, i) ==
    LET clause == Clause(words, i)
        cues   == {j \in clause : words[j] \in negationCues}
    IN  /\ cues # {}
        /\ IF \E j \in clause \ cues : j > Min(cues) THEN i > Min(cues) ELSE i < Min(cues)

\* The clauses of a chunk are scoped one by one and joined into one span.
toSpan(words) ==
    LET Dropped(i) == Breaks(words, i) \/ words[i] \in negationCues \cup stopwords
        Term(i) == [word |-> stem(words[i]), negated |-> Negated(words, i)]
        upTo[i \in 0 .. Len(words)] ==
            IF i = 0 THEN <<>> ELSE IF Dropped(i) THEN upTo[i - 1] ELSE Append(upTo[i - 1], Term(i))
    IN  upTo[Len(words)]

Parse(raw) == {toSpan(raw[k]) : k \in DOMAIN raw} \ {<<>>}

Empty(text) == text = {}

Terms(text) == UNION {Range(span) : span \in text}
Words(text) == {t.word : t \in Terms(text)}

Bag(text, polarised) ==
    IF polarised THEN Terms(text) ELSE {[t EXCEPT !.negated = FALSE] : t \in Terms(text)}
PositiveBag(text) == {t \in Terms(text) : ~t.negated}

\* The contiguous runs of n terms of one polarity inside a span; the polarity
\* is part of the phrase only where it is asked for.
Phrases(text, n, polarised) ==
    UNION {{[words |-> [k \in 1 .. n |-> span[i + k - 1].word],
             negated |-> polarised /\ span[i].negated] :
              i \in {j \in 1 .. Len(span) - n + 1 :
                        \A k \in 1 .. n : span[j + k - 1].negated = span[j].negated}} :
            span \in text}

positivePhrases(text, n) == {p \in Phrases(text, n, TRUE) : ~p.negated}

-----------------------------------------------------------------------------
\* The weights.  docs is the set of the documents observed, one per entry,
\* each with the words in it.
df(docs, word) == Cardinality({d \in docs : word \in d.words})
weight(docs, word) == Ln[Cardinality(docs) + 1] - Ln[df(docs, word) + 1] + 1000
rarest(docs) == Ln[Cardinality(docs) + 1] - Ln[2] + 1000
mass(docs, bag) == MapThenSumSet(LAMBDA t : weight(docs, t.word), bag)

matchThreshold == 380
phraseShare == 820
phraseLength == 2
phraseFloor(docs) == (phraseShare * phraseLength * rarest(docs)) \div 1000

-----------------------------------------------------------------------------
\* A unit is [text, polarised, phraseOnly, prose] and what it cites.

\* The maximal runs of one polarity of a span.
uniformRuns(span) ==
    {SubSeq(span, r[1], r[2]) : r \in
        {q \in (DOMAIN span) \X (DOMAIN span) :
            /\ q[1] <= q[2]
            /\ \A i \in q[1] .. q[2] : span[i].negated = span[q[1]].negated
            /\ q[1] = 1 \/ span[q[1] - 1].negated # span[q[1]].negated
            /\ q[2] = Len(span) \/ span[q[2] + 1].negated # span[q[1]].negated}}

containsRun(plan, run, polarised) ==
    \E span \in plan : \E i \in 1 .. Len(span) - Len(run) + 1 :
        \A j \in DOMAIN run :
            LET got == span[i + j - 1]
            IN  /\ got.word = run[j].word
                /\ IF polarised THEN got.negated = run[j].negated ELSE ~got.negated

RunMass(docs, run) == FoldSeq(LAMBDA t, acc : weight(docs, t.word) + acc, 0, run)

restates(docs, plan, u) ==
    \E span \in u.text : \E run \in uniformRuns(span) :
        /\ RunMass(docs, run) >= phraseFloor(docs)
        /\ containsRun(plan, run, u.polarised)

sharesPhrase(docs, plan, u) ==
    LET planPhrases == IF u.polarised THEN Phrases(plan, phraseLength, TRUE)
                       ELSE positivePhrases(plan, phraseLength)
    IN  \E p \in Phrases(u.text, phraseLength, u.polarised) \cap planPhrases :
            FoldSeq(LAMBDA w, acc : weight(docs, w) + acc, 0, p.words) >= phraseFloor(docs)

NoHit == [score |-> 0, phrase |-> FALSE, scores |-> FALSE]

score(docs, plan, u) ==
    LET planBag == IF u.polarised THEN Bag(plan, TRUE) ELSE PositiveBag(plan)
        unitBag == Bag(u.text, u.polarised)
        shared  == mass(docs, unitBag \cap planBag)
        least   == Min({mass(docs, unitBag), mass(docs, planBag)})
    IN  IF shared = 0 THEN NoHit
        ELSE [score  |-> (1000 * shared) \div least,
              phrase |-> IF u.prose THEN sharesPhrase(docs, plan, u) ELSE restates(docs, plan, u),
              scores |-> ~u.phraseOnly]

matched(h) == (h.scores /\ h.score >= matchThreshold) \/ h.phrase
=============================================================================
