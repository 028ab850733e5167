------------------------------- MODULE MCViews -------------------------------
\* The commands that show the ledger, each behaviour about one of them.
EXTENDS Brief, Drift, WhyChain, KaziJoin, TLC

\* brief: ledgers with too little and too much for the ceilings.
MCLoads == {<<0, 0, 0, 0>>, <<1, 0, 2, 0>>, <<0, 2, 1, 1>>, <<2, 1, 0, 0>>, <<0, 0, 0, 2>>}

\* drift: two parents, declared side by side, above one another, in a ring,
\* by two names and without a path.
Decl(name, path) == [name |-> name, path |-> path]
UpTo(n, S) == {s \in UNION {[1..k -> S] : k \in 0..n} : IsInjective(s)}
NamedOnce(s) == \A i, j \in DOMAIN s : s[i].name = s[j].name => i = j
CONSTANTS own, near, far
MCChains ==
    {(own :> x) @@ (near :> y) @@ (far :> z) :
        x \in {s \in UpTo(2, {Decl("s", near), Decl("m", far), Decl("s", far), Decl("m", NoPath)}) : NamedOnce(s)},
        y \in UpTo(1, {Decl("m", far), Decl("m", own), Decl("s", far), Decl("m", NoPath)}),
        z \in UpTo(1, {Decl("s", near), Decl("p", NoPath)})}

\* why: every ancestry of four entries with up to two parents, loops included.
From(t) == [type |-> "derives_from", to |-> t]
MCAncestries ==
    {("s" :> w) @@ ("a" :> x) @@ ("b" :> y) @@ ("c" :> z) :
        w \in (UpTo(3, {From("a"), From("b"), From("c")}) \ {<<>>})
              \cup {<<[type |-> "realized_by", to |-> "kazi:goal-g"], From("a"), [type |-> "informs", to |-> "b"]>>},
        x \in UpTo(2, {From("b"), From("c")}),
        y \in UpTo(2, {From("s"), From("c"), From("a")}),
        z \in UpTo(1, {From("a"), From("sire:f"), From("b")}) \cup {<<[type |-> "supersedes", to |-> "s"]>>}}

\* map: a question, two decisions and the intent they serve.
MCIndex == <<"q1", "d1", "d2", "i1">>
MCKinds == [i \in Range(MCIndex) |->
              CASE i = "q1" -> "question" [] i = "i1" -> "intent" [] OTHER -> "decision"]
Listed(state, realized, holdsUp, parent) ==
    [state |-> state, realized |-> realized, blocks |-> holdsUp, parent |-> parent]
Goal(g) == [verb |-> "goal", ref |-> g]
Prop(p) == [verb |-> "prop", ref |-> p]
MCLedgers ==
    {("q1" :> q) @@ ("d1" :> d) @@ ("d2" :> e) @@ ("i1" :> f) :
        q \in {Listed("open", NoTarget, "d1", NoTarget), Listed("answered", NoTarget, "d1", NoTarget),
               Listed("open", NoTarget, "i1", NoTarget)},
        d \in {Listed("accepted", Goal("g"), NoTarget, "i1"), Listed("accepted", NoTarget, NoTarget, "i1"),
               Listed("superseded", Goal("g"), NoTarget, NoTarget)},
        e \in {Listed("accepted", Goal("g"), NoTarget, "i1"), Listed("accepted", Prop("p"), NoTarget, "gone"),
               Listed("accepted", [verb |-> "other", ref |-> "uri"], NoTarget, "i1")},
        f \in {Listed("active", Prop("p"), NoTarget, NoTarget), Listed("achieved", NoTarget, NoTarget, NoTarget)}}
MCContents == {Listed("accepted", Goal("g"), NoTarget, "i1"), Listed("accepted", NoTarget, NoTarget, NoTarget)}
Says(runs, isBlocked, planned, proposals) ==
    [why |-> "ok", runs |-> [g \in {"g", "h"} |-> IF g = "g" THEN runs ELSE <<>>],
     blocked |-> isBlocked, planned |-> planned, proposals |-> proposals]
MCPortfolios ==
    {Says(<<"complete", "in_progress">>, {}, {}, "p" :> "g"), Says(<<"terminated", "stuck">>, {}, {"h"}, Nothing),
     Says(<<"stuck">>, {"h"}, {}, "p" :> "h"), Says(<<"terminated">>, {}, {"h"}, "p" :> "h"),
     Says(<<"complete">>, {}, {}, Nothing), Says(<<>>, {"g"}, {"g"}, Nothing)}
-----------------------------------------------------------------------------
VARIABLE view
viewVars == <<briefVars, driftVars, whyVars, mapVars, view>>

\* What a behaviour is not about stays at one quiet value.
QuietBrief == load = <<0, 0, 0, 0>> /\ chained = FALSE /\ BriefInit
QuietDrift ==
    /\ parentsOf = [l \in Ledgers |-> <<>>] /\ readable = Ledgers
    /\ holds = [l \in Ledgers |-> {}] /\ DriftInit
QuietWhy == cached = (CHOOSE a \in Ancestries : TRUE) /\ WhyInit
QuietMap == files = (CHOOSE l \in MapLedgers : TRUE) /\ MapInit

ViewsInit ==
    \/ view = "brief" /\ QuietDrift /\ QuietWhy /\ QuietMap /\ BriefInit
    \/ view = "drift" /\ QuietBrief /\ QuietWhy /\ QuietMap /\ DriftInit
    \/ view = "why" /\ QuietBrief /\ QuietDrift /\ QuietMap /\ WhyInit
    \/ view = "map" /\ QuietBrief /\ QuietDrift /\ QuietWhy /\ MapInit

ViewsNext ==
    /\ UNCHANGED view
    /\ \/ view = "brief" /\ BriefNext /\ UNCHANGED <<driftVars, whyVars, mapVars>>
       \/ view = "drift" /\ DriftNext /\ UNCHANGED <<briefVars, whyVars, mapVars>>
       \/ view = "why" /\ WhyNext /\ UNCHANGED <<briefVars, driftVars, mapVars>>
       \/ view = "map" /\ MapNext /\ UNCHANGED <<briefVars, driftVars, whyVars>>

=============================================================================
