----------------------------- MODULE Enforcement -----------------------------
(***************************************************************************)
(* `dira check` (cmd/dira/check.go over internal/enforcer): what of the    *)
(* ledger and of its parents is enforced, which retired thinking is        *)
(* reported instead, what a verdict says, and what may be printed.  The    *)
(* ledger changes one write at a time and the parents come and go while a  *)
(* check reads them: the ids first, and then one file after the other.     *)
(***************************************************************************)
EXTENDS Matcher

CONSTANTS Ids,          \* the ids of the child's entries, naturals
          Drafts,       \* Drafts[id]: the entries `dira log` may write under id
          Namespaces,   \* the parents the child declares
          Homes,        \* Homes[n]: the conditions parent n may be in
          Plans,        \* the plans that are checked, raw texts
          Created,      \* Created[id]: when the entry under id was created
          MaxMoves,     \* how many changes are made while one check runs
          NoEntry, NoRun, NoCheck

RawText == Seq(Seq(STRING))

\* What may stand under an id, now or after amendments.
EntryStates == {"staged", "accepted", "rejected", "superseded", "active"}
Written(i) ==
    {[kind |-> e.kind, state |-> s, title |-> e.title, tags |-> e.tags, alts |-> e.alts,
      body |-> e.body, private |-> e.private, supersedes |-> olds] :
        e \in Drafts[i], s \in EntryStates, olds \in SUBSET Ids}

ASSUME EnforcementAssumption ==
    /\ "" \notin Namespaces
    /\ Ids \subseteq Nat \ {0}
    /\ \A i \in Ids : Drafts[i] \subseteq Written(i) /\ NoEntry \notin Written(i)
    /\ \A i \in Ids : \A d \in Drafts[i] :
          /\ d.title \in RawText /\ d.tags \in RawText
          /\ d.alts \in Seq([option : RawText, why : RawText])
    /\ \A n \in Namespaces : \A p \in Homes[n] : DOMAIN p.entries \subseteq Ids
    /\ IsFiniteSet(Ids) /\ IsFiniteSet(Namespaces)
    /\ Created \in [Ids -> Nat]
    \* There is a logarithm for every number of documents.
    /\ Cardinality(Ids) + Cardinality(Namespaces) * Cardinality(Ids) < Len(Ln)

VARIABLES entries,   \* the child's ledger, id -> entry
          parents,   \* namespace -> what is found where it is declared
          check,     \* the check that is running: what it has read, NoCheck if there is none
          last       \* what the last check had read, and what it printed and returned

vars == <<entries, parents, check, last>>

\* A ledger L maps ids to entries, as entries does.
Held(L) == {i \in Ids : L[i] # NoEntry}
Local(i) == [space |-> "", id |-> i]

-----------------------------------------------------------------------------
\* What an entry is matched by (target.go).

Cite(ref, basis, private) == [entry |-> ref, basis |-> basis, private |-> private]
NonEmpty(units) == {u \in units : ~Empty(u.text)}

\* nth is the place of the unit among those of its entry.
alternativeUnits(e, ref) ==
    LET Unit(text, quoted, nth) ==
            [text |-> Parse(text), polarised |-> TRUE, phraseOnly |-> quoted, prose |-> quoted,
             nth |-> nth, cites |-> Cite(ref, "alternative", e.private)]
    IN  NonEmpty({Unit(e.alts[k].option, FALSE, 2 * k) : k \in DOMAIN e.alts}
                 \cup {Unit(e.alts[k].why, TRUE, 2 * k + 1) : k \in DOMAIN e.alts})

Joined(r1, r2) ==        \* two raw texts with a blank between them
    CASE r1 = <<>> -> r2
      [] r2 = <<>> -> r1
      [] OTHER -> Front(r1) \o <<Last(r1) \o Head(r2)>> \o Tail(r2)

constraintUnits(e, ref, private) ==
    LET Unit(text, nth) ==
            [text |-> Parse(text), polarised |-> FALSE, phraseOnly |-> FALSE, prose |-> TRUE,
             nth |-> nth, cites |-> Cite(ref, "constraint", private)]
    IN  {Unit(Joined(e.title, e.tags), 0)} \cup NonEmpty({Unit(e.body[k], k) : k \in DOMAIN e.body})

\* Mutant: the table's row for a rejected decision read literally.
TitleAloneIfRejected(e, ref) ==
    CASE e.kind = "decision" /\ e.state = "accepted" -> alternativeUnits(e, ref)
      [] e.kind = "decision" /\ e.state = "rejected" ->
            {[text |-> Parse(e.title), polarised |-> TRUE, phraseOnly |-> FALSE, prose |-> FALSE,
              nth |-> 0, cites |-> Cite(ref, "decision", e.private)]}
      [] e.kind = "constraint" /\ e.state = "active" -> constraintUnits(e, ref, e.private)
      [] OTHER -> {}

unitsFor(e, ref) ==
    CASE e.kind = "decision" /\ e.state = "accepted" -> alternativeUnits(e, ref)
      [] e.kind = "decision" /\ e.state = "rejected" ->
            {[text |-> Parse(e.title), polarised |-> TRUE, phraseOnly |-> FALSE, prose |-> FALSE,
              nth |-> 0, cites |-> Cite(ref, "decision", e.private)]} \cup alternativeUnits(e, ref)
      [] e.kind = "constraint" /\ e.state = "active" -> constraintUnits(e, ref, e.private)
      [] OTHER -> {}

enforcementSet(L) == UNION {unitsFor(L[i], Local(i)) : i \in Held(L)}

\* Mutant: only thinking whose replacement is on record is reported.
RetiredWithAnEdge(L) ==
    UNION {alternativeUnits(L[i], Local(i)) :
             i \in {j \in Held(L) : L[j].kind = "decision" /\ L[j].state = "superseded"
                                    /\ \E k \in Held(L) : j \in L[k].supersedes}}

retiredSet(L) ==
    UNION {alternativeUnits(L[i], Local(i)) :
             i \in {j \in Held(L) : L[j].kind = "decision" /\ L[j].state = "superseded"}}

\* The lowest id that says it supersedes i, and whether that entry is enforced.
Nobody == [id |-> 0, enforced |-> FALSE]
\* Mutant: whether the replacement is enforced restated from its state.
EnforcedUnlessSuperseded(L, i) ==
    LET claims == {j \in Held(L) : i \in L[j].supersedes}
        first  == Min(claims)
    IN  IF claims = {} THEN [id |-> 0, enforced |-> FALSE]
        ELSE [id |-> first, enforced |-> L[first].state # "superseded"]

superseders(L, i) ==
    LET claims == {j \in Held(L) : i \in L[j].supersedes}
        first  == Min(claims)
    IN  IF claims = {} THEN Nobody
        ELSE [id |-> first, enforced |-> unitsFor(L[first], Local(first)) # {}]

\* The words that count as occurring in an entry.
documentText(e, ref) ==
    LET alts == FlattenSeq([k \in 1 .. Len(e.alts) |-> <<e.alts[k].option, e.alts[k].why>>])
        body == IF e.kind = "constraint" THEN e.body ELSE <<>>
    IN  [entry |-> ref, words |-> Words(Parse(FoldLeft(Joined, e.title, <<e.tags>> \o alts \o body)))]

-----------------------------------------------------------------------------
\* What a parent contributes (inherit.go, check.go).  A parent's condition is
\* [visibility, store, tier, entries]: the store is "open", has one entry that
\* cannot be read ("torn") or is not there ("absent").  homes maps each
\* namespace to the condition its parent was read in.

\* Mutant: a parent's tier is not asked.
DeclaredPrivate(p) == p.visibility # "public"

forcedPrivate(p) ==
    \/ p.visibility # "public"
    \/ p.tier \notin {"repo", "workspace"}

\* The constraints read out of a parent; a failed read contributes nothing.
readConstraints(p) ==
    IF p.store # "open" THEN {}
    ELSE {i \in DOMAIN p.entries : p.entries[i].kind = "constraint" /\ p.entries[i].state = "active"}

Inherited == {[space |-> n, id |-> i] : n \in Namespaces, i \in Ids}
Contributed(homes) == {ref \in Inherited : ref.id \in readConstraints(homes[ref.space])}

Inherit(homes) ==
    LET The(ref) == homes[ref.space].entries[ref.id]
        Private(ref) == The(ref).private \/ forcedPrivate(homes[ref.space])
    IN  [units |-> UNION {constraintUnits(The(ref), ref, Private(ref)) : ref \in Contributed(homes)},
         documents |-> {documentText(The(ref), ref) : ref \in Contributed(homes)}]

ParentReports(homes) ==
    [n \in Namespaces |->
        IF homes[n].store = "open"
        THEN [status |-> "resolved", evaluated |-> Cardinality({ref \in Contributed(homes) : ref.space = n})]
        ELSE [status |-> IF homes[n].visibility # "public" THEN "withheld" ELSE "unresolved",
              evaluated |-> 0]]

-----------------------------------------------------------------------------
\* The matcher over the child and what it inherits, and its verdict.

newMatcher(L) ==
    [units |-> enforcementSet(L), retired |-> retiredSet(L),
     docs |-> {documentText(L[i], Local(i)) : i \in Held(L)}]

adopt(m, homes) ==
    [m EXCEPT !.units = @ \cup Inherit(homes).units, !.docs = @ \cup Inherit(homes).documents]

\* The best hit of each entry some unit of which the plan matches, the first
\* of equals.
BestHits(docs, plan, units) ==
    LET hits == {h \in {[unit |-> u, hit |-> score(docs, plan, u)] : u \in units} : matched(h.hit)}
        Beats(g, h) == \/ g.hit.score > h.hit.score
                       \/ g.hit.score = h.hit.score /\ g.unit.nth < h.unit.nth
    IN  {[cites |-> h.unit.cites, score |-> h.hit.score] :
            h \in {h \in hits : \A g \in hits : g.unit.cites.entry = h.unit.cites.entry => ~Beats(g, h)}}

countEnforced(units) == Cardinality({u.cites.entry : u \in units})

notice(L, m, plan) ==
    {LET by == superseders(L, c.cites.entry.id)
     IN  [supersededBy |-> by.id, enforced |-> by.enforced,
          basis |-> c.cites.basis, entry |-> c.cites.entry.id] : c \in BestHits(m.docs, plan, m.retired)}

verdict(L, m, raw) ==
    LET plan == Parse(raw)
    IN  [enforced  |-> countEnforced(m.units),
         conflicts |-> IF Empty(plan) THEN {} ELSE BestHits(m.docs, plan, m.units),
         notices   |-> IF Empty(plan) THEN {} ELSE notice(L, m, plan)]

CheckInherited(L, homes, raw) == verdict(L, adopt(newMatcher(L), homes), raw)
Compliant(v) == v.conflicts = {}
ExitCode(v) == IF Compliant(v) THEN 0 ELSE 2

-----------------------------------------------------------------------------
\* What is printed (render.go): the texts of an entry that a line shows.

block(c) ==
    [entry |-> c.cites.entry,
     shows |-> IF c.cites.private THEN {}
               ELSE IF c.cites.basis = "alternative" THEN {"option", "why_not"} ELSE {"title"}]

jsonConflict(c) ==
    [entry |-> c.cites.entry,
     shows |-> IF c.cites.private THEN {}
               ELSE {"title"} \cup IF c.cites.basis = "alternative" THEN {"option", "why_not"} ELSE {}]

noticeLine(n) ==
    CASE n.supersededBy = 0 -> [says |-> "nothing replaced it", by |-> 0]
      [] n.supersededBy # 0 /\ ~n.enforced -> [says |-> "replaced, not enforced", by |-> n.supersededBy]
      [] OTHER -> [says |-> "enforced in its place", by |-> n.supersededBy]

\* The remedy: one line for the child's own entries, one for each parent.
Remedies(v) ==
    {[space |-> s, ids |-> {c.cites.entry.id : c \in {d \in v.conflicts : d.cites.entry.space = s}}] :
        s \in {c.cites.entry.space : c \in v.conflicts}}

Render(v) ==
    [blocks |-> {block(c) : c \in v.conflicts}, notices |-> {noticeLine(n) : n \in v.notices},
     remedies |-> Remedies(v)]

RenderJSON(v) ==
    [blocks |-> {jsonConflict(c) : c \in v.conflicts},
     notices |-> {[by |-> n.supersededBy, enforced |-> n.enforced] : n \in v.notices},
     code |-> ExitCode(v)]

\* Mutant: a withheld parent is withheld from stderr too.
OnlyUnresolved(reports) == {n \in Namespaces : reports[n].status = "unresolved"}

RenderParents(reports) == {n \in Namespaces : reports[n].status # "resolved"}

-----------------------------------------------------------------------------
\* What changes, between two checks or while one runs.

Meanwhile ==
    \/ check = NoCheck /\ last' = NoRun /\ UNCHANGED check
    \/ check # NoCheck /\ check.moves < MaxMoves /\ check' = [check EXCEPT !.moves = @ + 1] /\ UNCHANGED last

\* dira log: an entry under a new id.
Log(i) ==
    /\ entries[i] = NoEntry
    /\ \E e \in Drafts[i] : entries' = [entries EXCEPT ![i] = e]
    /\ Meanwhile
    /\ UNCHANGED parents

\* The first write of a supersession: the edge on the new entry.
Link(new, old) ==
    /\ {new, old} \subseteq Held(entries) /\ new # old
    /\ entries[new].kind = entries[old].kind
    /\ entries[old].kind \in {"decision", "constraint"}
    /\ "superseded" \notin {entries[new].state, entries[old].state}
    /\ old \notin entries[new].supersedes
    /\ entries' = [entries EXCEPT ![new].supersedes = @ \cup {old}]
    /\ Meanwhile
    /\ UNCHANGED parents

\* An entry's state moves: the second write of a supersession, or an amendment.
Moves(e) ==
    CASE e.kind = "decision" /\ e.state = "staged" -> {"accepted", "rejected"}
      [] e.kind = "decision" /\ e.state \in {"accepted", "rejected"} -> {"superseded"}
      [] e.kind = "constraint" /\ e.state = "active" -> {"superseded"}
      [] OTHER -> {}

Amend(i) ==
    /\ i \in Held(entries)
    /\ \E s \in Moves(entries[i]) : entries' = [entries EXCEPT ![i].state = s]
    /\ Meanwhile
    /\ UNCHANGED parents

ParentMoves(n) ==
    /\ \E p \in Homes[n] \ {parents[n]} : parents' = [parents EXCEPT ![n] = p]
    /\ Meanwhile
    /\ UNCHANGED entries

-----------------------------------------------------------------------------
\* One run of the command.  was is the ledger as the index found it, homes what
\* was read of the parents, asked those still to be read, seen what was read of
\* the ledger, left the ids still to be read.

None == [i \in Ids |-> NoEntry]

\* index.Open reconciles the rows with the files.
Open ==
    /\ check = NoCheck /\ last = NoRun
    /\ check' = [at |-> "opened", was |-> entries, homes |-> <<>>, asked |-> {},
               seen |-> None, left |-> {}, moves |-> 0]
    /\ UNCHANGED <<entries, parents, last>>

\* The child's declarations, and whether each parent is there and its tier.
declaredParents ==
    /\ check # NoCheck /\ check.at = "opened"
    /\ check' = [check EXCEPT !.at = "declared", !.homes = parents, !.asked = Namespaces]
    /\ UNCHANGED <<entries, parents, last>>

\* The constraints of a parent, unless it was not there.
readParent(n) ==
    /\ check # NoCheck /\ n \in check.asked
    /\ check' = [check EXCEPT !.asked = @ \ {n},
                          !.homes[n] = [visibility |-> @.visibility, tier |-> @.tier,
                                        store |-> IF @.store = "absent" THEN "absent" ELSE parents[n].store,
                                        entries |-> parents[n].entries]]
    /\ UNCHANGED <<entries, parents, last>>

\* The ids, out of tables that other commands may have added to.
Select ==
    /\ check # NoCheck /\ check.at = "declared" /\ check.asked = {}
    /\ \E found \in SUBSET Held(entries) :
          Held(check.was) \subseteq found /\ check' = [check EXCEPT !.at = "selected", !.left = found]
    /\ UNCHANGED <<entries, parents, last>>

\* Select's order: the newest first, and by id those created together.
Before(i, j) == Created[i] > Created[j] \/ (Created[i] = Created[j] /\ i < j)

\* Entries: the next of the files.
ReadEntry(i) ==
    /\ check # NoCheck /\ i \in check.left
    /\ \A j \in check.left \ {i} : Before(i, j)
    /\ check' = [check EXCEPT !.left = @ \ {i}, !.seen[i] = entries[i]]
    /\ UNCHANGED <<entries, parents, last>>

\* The verdict on a plan, which nothing before has looked at.
runCheck(raw) ==
    /\ check # NoCheck /\ check.at = "selected" /\ check.left = {}
    /\ LET v == CheckInherited(check.seen, check.homes, raw)
       IN  last' = [code |-> ExitCode(v), plan |-> raw, verdict |-> v, stdout |-> Render(v),
                    json |-> RenderJSON(v), stderr |-> RenderParents(ParentReports(check.homes)),
                    was |-> check.was, homes |-> check.homes, seen |-> check.seen]
    /\ check' = NoCheck
    /\ UNCHANGED <<entries, parents>>

\* The index cannot be opened or asked, or a file cannot be read: dira's own
\* error, and no verdict.
CheckFails(raw) ==
    /\ check # NoCheck
    /\ last' = [code |-> 1, plan |-> raw]
    /\ check' = NoCheck
    /\ UNCHANGED <<entries, parents>>

Init ==
    /\ entries = None
    /\ parents \in [Namespaces -> UNION {Homes[n] : n \in Namespaces}]
    /\ \A n \in Namespaces : parents[n] \in Homes[n]
    /\ check = NoCheck
    /\ last = NoRun

Checks ==
    \/ Open \/ declaredParents \/ Select
    \/ \E n \in Namespaces : readParent(n)
    \/ \E i \in Ids : ReadEntry(i)
    \/ \E raw \in Plans : runCheck(raw) \/ CheckFails(raw)

Changes ==
    \/ \E i \in Ids : Log(i) \/ Amend(i)
    \/ \E new, old \in Ids : Link(new, old)
    \/ \E n \in Namespaces : ParentMoves(n)

Next == Checks \/ Changes

Spec == Init /\ [][Next]_vars

-----------------------------------------------------------------------------
\* Properties

Ran == last # NoRun /\ last.code # 1
Cited(v) == {c.cites.entry : c \in v.conflicts}

\* Proposing again, in its own words, an option that an accepted or a rejected
\* decision turned down is refused with that decision cited, whatever else the
\* ledger and its parents hold and however common its words have become.
RestatedIsRefused ==
    check = NoCheck /\ last = NoRun =>
        \A i \in Held(entries) : \A k \in DOMAIN entries[i].alts :
            /\ entries[i].kind = "decision" /\ entries[i].state \in {"accepted", "rejected"}
            /\ ~Empty(Parse(entries[i].alts[k].option))
            => Local(i) \in Cited(CheckInherited(entries, parents, entries[i].alts[k].option))

\* Superseding an accepted decision moves its enforcement and never drops it
\* silently: where a check read it as superseded, and would have refused the
\* plan had it read it as accepted, the plan drew a notice about it, whatever
\* was written between one file and the next.
Retired(L) == {i \in Held(L) : L[i].kind = "decision" /\ L[i].state = "superseded"}
RefusedAs(L, homes, i, state, raw) ==
    Local(i) \in Cited(CheckInherited([L EXCEPT ![i].state = state], homes, raw))
RetiredIsRedirected ==
    Ran => \A i \in Retired(last.seen) :
        RefusedAs(last.seen, last.homes, i, "accepted", last.plan) =>
            \E n \in last.verdict.notices : n.entry = i

\* The texts of an entry that may be what it is refused by.
Texts(e) == {e.title, Joined(e.title, e.tags)} \cup {e.alts[k].option : k \in DOMAIN e.alts}

\* What a notice says of the replacement is so, although the files were read
\* one by one while others wrote: the one it names is on record, and it names
\* one where the edge was on record when the check began.  Of a replacement
\* that was not written to since it was read, what is said of its enforcement
\* is so too: where it is promised, there is a text of the replacement that is
\* refused with a citation of it, unless one of its texts is stop words only;
\* and where it is denied, no plan is refused for the replacement's sake.
NoticesAreTrue ==
    Ran => \A n \in last.verdict.notices :
        LET by == n.supersededBy
            unwritten == by # 0 /\ entries[by] = last.seen[by]
        IN  /\ by # 0 => by \in Held(entries) /\ n.entry \in entries[by].supersedes
            /\ by = 0 => \A j \in Held(last.was) : n.entry \notin last.was[j].supersedes
            /\ unwritten /\ n.enforced /\ (\A raw \in Texts(entries[by]) : ~Empty(Parse(raw))) =>
                  \E u \in enforcementSet(entries) :
                      /\ u.cites.entry = Local(by)
                      /\ matched(score(adopt(newMatcher(entries), parents).docs, u.text,
                                       [u EXCEPT !.polarised = TRUE]))
            /\ unwritten /\ ~n.enforced =>
                  \A raw \in Plans : Local(by) \notin Cited(CheckInherited(entries, parents, raw))

\* No text of a private entry, nor of anything out of a parent that is not
\* known to be public, is printed in either form.
Secret(ref, seen, homes) ==
    IF ref.space = "" THEN seen[ref.id].private
    ELSE LET p == homes[ref.space]
         IN  p.entries[ref.id].private \/ p.visibility # "public" \/ p.tier \notin {"repo", "workspace"}
PrivateStaysByReference ==
    Ran => \A b \in last.stdout.blocks \cup last.json.blocks :
        Secret(b.entry, last.seen, last.homes) => b.shows = {}

\* A parent that could not be read in full adds nothing to the verdict and is
\* named on stderr; one that is not named had every active constraint counted.
UnreadParentIsSaid ==
    Ran => \A n \in Namespaces :
        /\ n \in last.stderr => \A b \in last.stdout.blocks : b.entry.space # n
        /\ n \notin last.stderr =>
              \A i \in DOMAIN last.homes[n].entries :
                  LET e == last.homes[n].entries[i]
                  IN  e.kind = "constraint" /\ e.state = "active" /\ ~Empty(Parse(e.title)) =>
                        [space |-> n, id |-> i] \in
                            {u.cites.entry : u \in Inherit(last.homes).units}

=============================================================================
