----------------------------- MODULE MCCommands -----------------------------
\* The commands beside the record: those that install, those that show, and
\* the check.  Each behaviour is about one of them.
EXTENDS MCInstallation, MCViews, MCEnforcement

QuietTools ==
    tool = "none" /\ settings = Absent /\ skillFile = NoFile /\ HooksInit /\ SkillInit /\ LedgerInit
QuietViews == QuietBrief /\ QuietDrift /\ QuietWhy /\ QuietMap
QuietCheck == parents = [n \in Namespaces |-> CHOOSE p \in Homes[n] : TRUE] /\ Init

CommandsInit ==
    \/ view = "none" /\ QuietViews /\ QuietCheck /\ MCInit
    \/ QuietTools /\ QuietCheck /\ ViewsInit
    \/ view = "check" /\ QuietTools /\ QuietViews /\ Init

CommandsNext ==
    \/ MCNext /\ UNCHANGED <<viewVars, vars>>
    \/ ViewsNext /\ UNCHANGED <<toolVars, vars>>
    \/ view = "check" /\ Next /\ UNCHANGED <<toolVars, viewVars>>

CommandsSpec == CommandsInit /\ [][CommandsNext]_<<toolVars, viewVars, vars>>
=============================================================================
