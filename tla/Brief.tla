------------------------------- MODULE Brief -------------------------------
(***************************************************************************)
(* `dira brief` (cmd/dira/brief.go, internal/brief): the session brief     *)
(* under a ceiling of tokens.  The document is a sequence of pieces, each  *)
(* measured whole and then written or not; an omission notice has to fit   *)
(* under the same ceiling and is paid for by giving pieces back.           *)
(*                                                                         *)
(* A text is its cost.  What an entry costs is known when it is read,      *)
(* which is when it is offered: the index answered before that, so between *)
(* the two the file may have changed or gone.                              *)
(***************************************************************************)
EXTENDS Naturals, Sequences, FiniteSets, SequencesExt

CONSTANTS SectionLoads,  \* how many entries each local section selects, per ledger
          Ceilings,      \* brief.max_tokens, as config.toml may have it
          DefaultMaxTokens,
          EntryCosts,    \* what an entry may cost
          MaxAncestors, MaxIntents   \* bounds on the parent chain

ASSUME BriefAssumption ==
    /\ \A load \in SectionLoads : load \in Seq(Nat)
    /\ Ceilings \cup EntryCosts \subseteq Nat \ {0} /\ DefaultMaxTokens \in Nat \ {0}
    /\ MaxAncestors \in Nat /\ MaxIntents \in Nat

VARIABLES bAt,       \* "config", "preamble", "sections", "chain", "footer", "done"
          load,      \* the refs each section selected, counted
          maxTokens, chained,
          blocks,    \* preamble blocks still to offer
          sections,  \* result.Sections: [total, kept], the local ones first
          next,      \* the section the fill has reached, and how many it took of it
          written,   \* the pieces written, in order: [cost, section]
          tail,      \* the footer: its cost and the sections it names
          waiting    \* the intents of the ancestors the chain has not reached

briefVars == <<bAt, load, maxTokens, chained, blocks, sections, next, written, tail, waiting>>

noSection == 0
NoTail == [cost |-> 0, names |-> {}]
Heading == 1           \* what a section's or an ancestor's heading adds
EmptyRow == 2          \* a section with nothing in it says so
Cost(pieces) ==
    LET upTo[n \in 0..Len(pieces)] == IF n = 0 THEN 0 ELSE upTo[n - 1] + pieces[n].cost
    IN  upTo[Len(pieces)]
spent == Cost(written)
Fits(cost) == spent + cost <= maxTokens

Dropped == {i \in DOMAIN sections : sections[i].kept < sections[i].total}
AnyOmitted == Dropped # {}

\* Tokens counts the line that follows the last newline, once per document:
\* pieces measured apart cost one more each than they do joined.
Tokens == LET pieces == IF tail.cost = 0 THEN written ELSE Append(written, [cost |-> tail.cost])
          IN  IF pieces = <<>> THEN 0 ELSE Cost(pieces) - (Len(pieces) - 1)
-----------------------------------------------------------------------------
BriefInit ==
    /\ bAt = "config" /\ load \in SectionLoads /\ chained \in BOOLEAN
    /\ maxTokens = DefaultMaxTokens
    /\ blocks = 0 /\ sections = <<>> /\ next = 1 /\ written = <<>> /\ tail = NoTail /\ waiting = <<>>

\* A config that cannot be read costs a notice and the default ceiling; a
\* max_tokens that is absent or not positive is the default as well.  The
\* four sections are selected from the index.
load_sections ==
    /\ bAt = "config"
    /\ \E readable \in BOOLEAN :
          /\ maxTokens' \in IF readable THEN Ceilings \cup {DefaultMaxTokens} ELSE {DefaultMaxTokens}
          /\ blocks' = 1 + (IF chained THEN 1 ELSE 0) + (IF readable THEN 0 ELSE 1)
    /\ sections' = [i \in DOMAIN load |-> [total |-> load[i], kept |-> 0]]
    /\ bAt' = "preamble"
    /\ UNCHANGED <<load, chained, next, written, tail, waiting>>

Write(cost, section) == written' = Append(written, [cost |-> cost, section |-> section])
GoOn(at) == bAt' = at /\ UNCHANGED <<load, maxTokens, chained>>

\* A preamble block that does not fit ends the whole fill, the chain's too.
preamble ==
    /\ bAt = "preamble"
    /\ IF blocks = 0 THEN GoOn("sections") /\ UNCHANGED <<blocks, written>>
       ELSE \E cost \in EntryCosts :
               IF Fits(cost) THEN Write(cost, noSection) /\ blocks' = blocks - 1 /\ GoOn("preamble")
               ELSE GoOn("footer") /\ UNCHANGED <<blocks, written>>
    /\ UNCHANGED <<sections, next, tail, waiting>>

\* A section that selected nothing says so; if that line does not fit,
\* filling is cleared and the chain is not asked.
empty ==
    /\ bAt = "sections" /\ next \in DOMAIN load /\ load[next] = 0
    /\ IF Fits(Heading + EmptyRow)
       THEN Write(Heading + EmptyRow, noSection) /\ next' = next + 1 /\ GoOn("sections")
       ELSE GoOn("footer") /\ UNCHANGED <<next, written>>
    /\ UNCHANGED <<blocks, sections, tail, waiting>>

\* The heading rides with the first entry written.
CostOf(i, cost) == cost + (IF sections[i].kept = 0 THEN Heading ELSE 0)
Offer(i, cost, refused) ==
    IF Fits(CostOf(i, cost))
    THEN Write(CostOf(i, cost), i) /\ sections' = [sections EXCEPT ![i].kept = @ + 1] /\ GoOn(bAt)
    ELSE GoOn(refused) /\ UNCHANGED <<sections, written>>

\* item reads the entry and offers it.  The first that does not fit leaves
\* the loop over the sections; filling is not cleared.
item ==
    /\ bAt = "sections" /\ next \in DOMAIN load /\ load[next] > 0
    /\ IF sections[next].kept = load[next]
       THEN next' = next + 1 /\ GoOn("sections") /\ UNCHANGED <<sections, written>>
       ELSE /\ \E cost \in EntryCosts : Offer(next, cost, "chain")
            /\ UNCHANGED next
    /\ UNCHANGED <<blocks, tail, waiting>>

endSections ==
    /\ bAt = "sections" /\ next \notin DOMAIN load
    /\ GoOn("chain")
    /\ UNCHANGED <<blocks, sections, next, written, tail, waiting>>

\* ChainSource: the ancestors, and how many active intents each one has.  An
\* unreadable ancestor has none; a chain that cannot be walked adds nothing.
ChainSource ==
    /\ bAt = "chain"
    /\ IF ~chained THEN GoOn("footer") /\ UNCHANGED waiting
       ELSE /\ waiting' \in UNION {[1..n -> 0..MaxIntents] : n \in 0..MaxAncestors}
            /\ GoOn("ancestors")
    /\ UNCHANGED <<blocks, sections, next, written, tail>>

\* fillChain takes up one ancestor: from here on it is one of the sections.
\* The first of its entries that does not fit ends it (chainItem).
InAncestor == Len(sections) > Len(load) /\ Last(sections).kept < Last(sections).total
fillChain ==
    /\ bAt = "ancestors" /\ ~InAncestor
    /\ IF waiting = <<>> THEN GoOn("footer") /\ UNCHANGED <<sections, waiting>>
       ELSE /\ sections' = Append(sections, [total |-> Head(waiting), kept |-> 0])
            /\ waiting' = Tail(waiting)
            /\ GoOn("ancestors")
    /\ UNCHANGED <<blocks, next, written, tail>>

chainItem ==
    /\ bAt = "ancestors" /\ InAncestor
    /\ \E cost \in EntryCosts : Offer(Len(sections), cost, "footer")
    /\ UNCHANGED <<blocks, next, tail, waiting>>

\* The notice names every section that was cut.
footer == [cost |-> 2 + (Cardinality(Dropped) + 1) \div 2, names |-> Dropped]

\* Mutations: the notice comes on top of what was written; what is given back
\* is still counted as kept.
FooterOnTop ==
    /\ bAt = "footer"
    /\ tail' = IF AnyOmitted THEN footer ELSE NoTail
    /\ GoOn("done")
    /\ UNCHANGED <<blocks, sections, next, written, waiting>>
StaleCounts ==
    /\ bAt = "footer"
    /\ IF ~AnyOmitted \/ written = <<>> \/ Fits(footer.cost)
       THEN tail' = (IF AnyOmitted /\ Fits(footer.cost) THEN footer ELSE NoTail) /\ GoOn("done") /\ UNCHANGED written
       ELSE written' = Front(written) /\ GoOn("footer") /\ UNCHANGED tail
    /\ UNCHANGED <<blocks, next, sections, waiting>>

\* Pieces are given back from the end until the notice fits under the
\* ceiling; with nothing left to give, not even the notice is printed.
giveBack ==
    /\ bAt = "footer"
    /\ IF ~AnyOmitted \/ written = <<>> \/ Fits(footer.cost)
       THEN /\ tail' = IF AnyOmitted /\ Fits(footer.cost) THEN footer ELSE NoTail
            /\ GoOn("done") /\ UNCHANGED <<sections, written>>
       ELSE /\ written' = Front(written)
            /\ sections' = IF Last(written).section = noSection THEN sections
                           ELSE [sections EXCEPT ![Last(written).section].kept = @ - 1]
            /\ GoOn("footer") /\ UNCHANGED tail
    /\ UNCHANGED <<blocks, next, waiting>>

BriefNext ==
    \/ load_sections \/ preamble \/ empty \/ item \/ endSections
    \/ ChainSource \/ fillChain \/ chainItem \/ giveBack

BriefSpec == BriefInit /\ [][BriefNext]_briefVars
-----------------------------------------------------------------------------
(* Properties                                                              *)

\* The ceiling holds for the whole document, the omission notice and the
\* parents' entries included, whatever was given back on the way (cst-0001).
UnderCeiling == bAt = "done" => Tokens <= maxTokens

\* The notice names exactly the sections taken up of which an entry is missing
\* from the page, counted on the page; only a ceiling that cannot hold the
\* notice by itself goes without, and then nothing at all is printed.  An
\* ancestor the chain did not get to is not among the sections and goes without
\* a name, but never silently: the one it stopped at is named as cut.
Shown(i) == Cardinality({k \in DOMAIN written : written[k].section = i})
Missing == {i \in DOMAIN sections : Shown(i) < sections[i].total}
OmissionIsNamed ==
    bAt = "done" => \/ /\ tail.names = Missing
                       /\ waiting # <<>> => Len(load) < Len(sections) /\ Len(sections) \in tail.names
                    \/ written = <<>> /\ tail = NoTail

\* What is dropped is a tail of the keep order: nothing of a later section of
\* the own ledger is kept while an entry of an earlier one is not.
DropsAreATail ==
    bAt = "done" => \A i, j \in DOMAIN load : i < j /\ Shown(j) > 0 => Shown(i) = sections[i].total

\* What a reader cannot see is left out openly and in order.
OpenOmission == OmissionIsNamed /\ DropsAreATail

=============================================================================
