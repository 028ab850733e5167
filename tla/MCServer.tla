------------------------------ MODULE MCServer ------------------------------
\* The index and its one long-lived reader.  Each behaviour is about Opens,
\* about the forms of the web view or about its pages.
EXTENDS MCIndexSync, WebView

VARIABLE part
CONSTANTS w1, w2, old

Captured(human) == [state |-> "staged", confirmed |-> human, body |-> old]
MCDecks == {<<Captured(FALSE), Captured(FALSE)>>, <<Captured(TRUE), NoCard>>}
MCTabs == {w1, w2}
ServerSymmetry == MCSymmetry \cup Permutations(MCTabs)

QuietIndex == file = [i \in Ids |-> None] /\ Init /\ current = None
QuietWeb == ledgerFiles = (CHOOSE d \in MCDecks : TRUE) /\ shared = FALSE /\ WebInit

ServerInit ==
    \/ part = "open" /\ QuietWeb /\ Init
    \/ part = "forms" /\ QuietIndex /\ shared = FALSE /\ WebInit
    \/ part = "pages" /\ QuietIndex /\ WebInit

ServerNext ==
    /\ UNCHANGED part
    /\ \/ part = "open" /\ Next /\ UNCHANGED webVars
       \/ part = "forms" /\ WebNext /\ UNCHANGED vars
       \/ part = "pages" /\ WebNext /\ (\A t \in Tabs : tab'[t].at = "idle") /\ UNCHANGED vars

ServerSpec == ServerInit /\ [][ServerNext]_<<vars, webVars, part>>
=============================================================================
