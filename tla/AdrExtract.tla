----------------------------- MODULE AdrExtract -----------------------------
(***************************************************************************)
(* The extractor of `dira import` (internal/importadr/extract.go): which   *)
(* alternatives an ADR document records, and on what grounds.  It reads    *)
(* four shapes of document without being told which one it has.            *)
(*                                                                         *)
(* A document is the sequence of its level-two sections                    *)
(*     [head, chosen, bullets, children]                                   *)
(* where head is the set of phrases looked for in the heading, chosen the  *)
(* label on the section's first "Chosen option" line, bullets are those    *)
(* before the first level-three heading, and children are the level-three  *)
(* parts [label, prose, bullets].  A bullet is [label, says, text]: what   *)
(* stands before the dash, whether it opens with good, bad or neutral, and *)
(* the text behind.  A text is the set of what it says, "revisit" being a  *)
(* clause that starts with those words; a label is [token, words, long],   *)
(* long being more than the 200 characters an entry takes for an option.   *)
(***************************************************************************)
EXTENDS Naturals, Sequences, FiniteSets, SequencesExt

NoLabel == [token |-> "", words |-> {}, long |-> FALSE]

IsList(s) == s \in Seq(Range(s))
IsDocument(document) ==
    /\ IsList(document)
    /\ \A s \in Range(document) : IsList(s.bullets) /\ IsList(s.children)
                               /\ \A c \in Range(s.children) : IsList(c.bullets)

\* Two labels name one option: by their numbers if both have one, else if the
\* words of one contain the words of the other.
sameOption(a, b) ==
    IF a.token # "" /\ b.token # "" THEN a.token = b.token
    ELSE /\ a.words # {} /\ b.words # {}
         /\ a.words \subseteq b.words \/ b.words \subseteq a.words

alreadyHave(found, label) == \E k \in DOMAIN found : sameOption(found[k].option, label)

splitRevisit(reason) == [whyNot |-> reason \ {"revisit"}, revisitIf |-> "revisit" \in reason]
Alternative(label, reason) ==
    [option |-> label, whyNot |-> splitRevisit(reason).whyNot, revisitIf |-> splitRevisit(reason).revisitIf]

\* Every bullet below a section's heading, its children's too.
groupBullets(section) ==
    section.bullets \o FlattenSeq([k \in DOMAIN section.children |-> section.children[k].bullets])

sectionBodyText(part) == part.prose \cup UNION {b.text : b \in Range(part.bullets)}

\* The drawbacks, else what is neutral; upsides alone are no reason, and an
\* option without such bullets is explained by its prose.
reasonFromProsAndCons(part) ==
    LET Those(says) == {b \in Range(part.bullets) : b.says = says}
        Text(says) == UNION {b.text : b \in Those(says)}
    IN  CASE Those("bad") # {} -> Text("bad")
          [] Those("bad") = {} /\ Those("neutral") # {} -> Text("neutral")
          [] Those("bad") = {} /\ Those("neutral") = {} /\ Those("good") # {} -> {}
          [] OTHER -> sectionBodyText(part)

\* The first label that an outcome section names.
chosenLabels(document) ==
    LET named == SelectSeq(document, LAMBDA s : "outcome" \in s.head /\ s.chosen # NoLabel)
    IN  IF named = <<>> THEN NoLabel ELSE Head(named).chosen

isChosen(document, label) == sameOption(label, chosenLabels(document))

\* The first of the phrases that a heading has.
Kind(section) ==
    IF "pros and cons" \in section.head THEN "pros and cons"
    ELSE IF "alternatives rejected" \in section.head THEN "alternatives rejected"
    ELSE IF "considered options" \in section.head THEN "considered options" ELSE "other"

\* What a passage offers, and what would keep it out: that it is the chosen
\* option, or one that is there already.
Passage(label, reason, notChosen, notTwice) ==
    [alternative |-> Alternative(label, reason), notChosen |-> notChosen, notTwice |-> notTwice]

\* Pass 1: the sections that carry their own reasons.
Reasoned(section) ==
    LET listed == groupBullets(section)
        part == section.children
    IN  CASE Kind(section) = "pros and cons" ->
               [k \in DOMAIN part |-> Passage(part[k].label, reasonFromProsAndCons(part[k]), TRUE, FALSE)]
          [] Kind(section) = "alternatives rejected" ->
               [k \in DOMAIN listed |-> Passage(listed[k].label, listed[k].text, FALSE, FALSE)]
          [] Kind(section) = "considered options" ->
               [k \in DOMAIN part |-> Passage(part[k].label, sectionBodyText(part[k]), TRUE, TRUE)]
          [] OTHER -> <<>>

\* Pass 2: options that are only listed.
OnlyListed(section) == "considered options" \in section.head /\ section.children = <<>>
BareOptions(section) ==
    IF OnlyListed(section)
    THEN [k \in DOMAIN section.bullets |-> Passage(section.bullets[k].label, {}, TRUE, TRUE)]
    ELSE <<>>

\* The second pass runs once the first is through.
Passages(document) ==
    FlattenSeq([k \in DOMAIN document |-> Reasoned(document[k])])
    \o FlattenSeq([k \in DOMAIN document |-> BareOptions(document[k])])

\* Mutation: only a repetition is left out.
OnlyRepeated(document, found, c) == c.notTwice /\ alreadyHave(found, c.alternative.option)

KeptOut(document, found, c) ==
    \/ c.notChosen /\ isChosen(document, c.alternative.option)
    \/ c.notTwice /\ alreadyHave(found, c.alternative.option)

add(document, found, c) ==
    IF KeptOut(document, found, c) THEN found ELSE Append(found, c.alternative)

Extract(document) ==
    FoldLeft(LAMBDA found, c : add(document, found, c), <<>>, Passages(document))

WithReason(document) == \E k \in DOMAIN Extract(document) : Extract(document)[k].whyNot # {}
-----------------------------------------------------------------------------
(* What a document says, for the properties of the import                  *)

Under(document, kind) == {s \in Range(document) : Kind(s) = kind}
Weighed(document) == UNION {Range(s.children) : s \in Under(document, "pros and cons")}
Described(document) == UNION {Range(s.children) : s \in Under(document, "considered options")}
Rejected(document) == UNION {Range(groupBullets(s)) : s \in Under(document, "alternatives rejected")}

AllSaid(document, label) ==
    UNION ({sectionBodyText(c) : c \in {d \in Weighed(document) \cup Described(document) : d.label = label}}
           \cup {b.text : b \in {d \in Rejected(document) : d.label = label}})

\* The text has more than the terms on which to come back to the option.
Argues(text) == text \ {"revisit"} # {}

\* The document holds something against the option: a drawback, or prose in
\* place of any list of pros and cons; a reason behind the dash; or anything
\* below its own heading, if no other passage is about it.
SpokenAgainst(document, label) ==
    \/ ~isChosen(document, label) /\ \E c \in Weighed(document) :
          /\ c.label = label
          /\ (\E b \in Range(c.bullets) : b.says = "bad" /\ Argues(b.text)) \/ (c.bullets = <<>> /\ Argues(c.prose))
    \/ \E b \in Rejected(document) : b.label = label /\ Argues(b.text)
    \/ ~isChosen(document, label) /\ \E c \in Described(document) :
          /\ c.label = label /\ Argues(sectionBodyText(c))
          /\ \A d \in Weighed(document) \cup Rejected(document) \cup (Described(document) \ {c}) :
                ~sameOption(d.label, label)
=============================================================================
