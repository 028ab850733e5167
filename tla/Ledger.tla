------------------------------- MODULE Ledger -------------------------------
(***************************************************************************)
(* What ledger.Add promises to its callers, with none of the mechanism: a  *)
(* ledger maps each id in use to the add that put the entry there; an add  *)
(* either appears in full under an id nothing else holds, or changes       *)
(* nothing and names no id; an entry leaves only by being removed.         *)
(* Allocation implements this with a listing, a guess and an exclusive     *)
(* create.                                                                 *)
(***************************************************************************)
EXTENDS Naturals

CONSTANTS
    Writers,   \* the adds in flight, one per process
    Kinds,     \* entry kinds; each has its own number space
    Prior,     \* the owner of an entry that was there before any of them
    NoId       \* e.ID = ""

VARIABLES
    ledger,    \* ledger[i]: whose entry id i holds; its domain the ids in use
    status,    \* status[w]: how the add of w stands
    given      \* given[w]: the id the add of w reported

vars == <<ledger, status, given>>

Ids == Kinds \X (Nat \ {0})

Init ==
    /\ DOMAIN ledger \subseteq Ids
    /\ ledger = [i \in DOMAIN ledger |-> Prior]
    /\ status = [w \in Writers |-> "pending"]
    /\ given  = [w \in Writers |-> NoId]

\* The entry and the report of its id appear together.
Succeed(w) ==
    /\ status[w] = "pending"
    /\ \E i \in DOMAIN ledger' \ DOMAIN ledger :
         /\ i \in Ids
         /\ ledger' = [j \in DOMAIN ledger \cup {i} |->
                         IF j = i THEN w ELSE ledger[j]]
         /\ given'  = [given EXCEPT ![w] = i]
    /\ status' = [status EXCEPT ![w] = "done"]

Fail(w) ==
    /\ status[w] = "pending"
    /\ status' = [status EXCEPT ![w] = "failed"]
    /\ UNCHANGED <<ledger, given>>

Remove(i) ==
    /\ ledger' = [j \in DOMAIN ledger \ {i} |-> ledger[j]]
    /\ UNCHANGED <<status, given>>

Next ==
    \/ \E w \in Writers : Succeed(w) \/ Fail(w)
    \/ \E i \in DOMAIN ledger : Remove(i)

Spec == Init /\ [][Next]_vars
=============================================================================
