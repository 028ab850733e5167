--------------------------- MODULE MCInstallation ---------------------------
\* Two of the three events, and the shapes a settings file comes in: missing,
\* empty, without hooks, with hooks of the operator's, of the wrong shape.
EXTENDS InstallHooks, SkillInstall, InitLedger, TLC

MCEvents == <<"SessionStart", "Stop">>
Perms == Token("permissions", "value", <<>>)
HooksOf(body) == Token("hooks", "object", body)
TheirStop == Token("Stop", "array", <<Blank, Entry(<<Theirs>>), Blank>>)
NoStop == Token("Stop", "array", <<>>)
TheirOther == Token("Notification", "array", <<Entry(<<Theirs>>)>>)

Shapes ==
    {Absent, <<>>, <<Blank, Perms, Blank>>, <<HooksOf(<<TheirOther, Comma, TheirStop>>)>>,
     <<Blank, HooksOf(<<Blank, NoStop>>), Comma, Blank, Perms>>,
     <<Token("hooks", "array", <<>>)>>}
\* The shape on which the three insertions meet in one place.
EmptyHooks == <<Perms, Comma, Blank, HooksOf(<<>>)>>
WithEmptyHooks == Shapes \cup {EmptyHooks}

\* They are what the theorems suppose of the files; that last one only where
\* these suppose less.
ASSUME ShapesAssumption ==
    /\ \A doc \in Shapes : doc = Absent \/ Sound(TRUE, doc)
    /\ Sound(FALSE, EmptyHooks) /\ ~Sound(TRUE, EmptyHooks)
-----------------------------------------------------------------------------
\* The three commands touch different files; each behaviour is about one.
VARIABLE tool
toolVars == <<hookVars, skillVars, initVars, tool>>

MCScript == <<"int", "cst">>
MCInit ==
    /\ tool \in {"hooks", "skill", "init"}
    /\ HooksInit /\ SkillInit /\ LedgerInit
    /\ tool # "hooks" => settings = Absent
    /\ tool # "skill" => skillFile = NoFile

MCNext ==
    /\ UNCHANGED tool
    /\ \/ tool = "hooks" /\ HooksNext /\ UNCHANGED <<skillVars, initVars>>
       \/ tool = "skill" /\ SkillNext /\ UNCHANGED <<hookVars, initVars>>
       \/ tool = "init" /\ LedgerNext /\ UNCHANGED <<hookVars, skillVars>>

MCSpec == MCInit /\ [][MCNext]_toolVars
Symmetry == Permutations(Runs)
=============================================================================
