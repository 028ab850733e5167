-------------------------- MODULE MCSeveralWrites --------------------------
\* The commands that write several entries one after the other, so that what
\* they leave can be a part of it: those that supersede and amend, and the
\* import.  Each behaviour is about one of the two.
EXTENDS MCSupersession, MCImport

VARIABLE command

QuietRecord == entries = [i \in Ids |-> [state |-> "accepted", sup |-> {}, alts |-> TRUE]] /\ Init

WritesInit ==
    \/ command = "supersede" /\ Init /\ QuietImport
    \/ command = "import" /\ QuietRecord /\ ImportInit

WritesNext ==
    /\ UNCHANGED command
    /\ \/ command = "supersede" /\ Next /\ UNCHANGED importVars
       \/ command = "import" /\ ImportNext /\ UNCHANGED vars

WritesSpec == WritesInit /\ [][WritesNext]_<<vars, importVars, command>>
=============================================================================
