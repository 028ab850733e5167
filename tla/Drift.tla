------------------------------- MODULE Drift -------------------------------
(***************************************************************************)
(* The parent chain (internal/chain) and the classification of active      *)
(* intents by it (internal/drift).  Ledgers declare parents by name and    *)
(* path in their config; the declarations may form diamonds and rings, and *)
(* a parent may be somewhere that is not there to be read.                 *)
(*                                                                         *)
(* Classify reads the ledger's intents one after the other and walks the   *)
(* chain afresh for each: parents come and go in between.                  *)
(***************************************************************************)
EXTENDS Naturals, Sequences, FiniteSets, SequencesExt

CONSTANTS Ledgers,     \* .dira directories
          Own,         \* the one Classify is called for
          Chains,      \* the declarations the ledgers may have, all together:
                       \* for each ledger a sequence of [name, path]
          Targets,     \* ids of parents' entries
          NoPath       \* "declared but not locatable"

ASSUME DriftAssumption ==
    /\ IsFiniteSet(Ledgers) /\ Own \in Ledgers /\ NoPath \notin Ledgers
    /\ Chains \subseteq [Ledgers -> Seq([name : STRING, path : Ledgers \cup {NoPath}])]

VARIABLES parentsOf,   \* the declarations of each ledger
          readable,    \* which ledgers can be opened now
          holds,       \* the ids each ledger has an entry under
          latest       \* the last intent Classify read: [ref, class]

driftVars == <<parentsOf, readable, holds, latest>>

-----------------------------------------------------------------------------
(* Walk: depth first, in the order of the declarations.  path is the set   *)
(* of ledgers between the root and this one, and not of all those seen.    *)
(* A ledger that cannot be opened is reported and not walked past; one     *)
(* that is on the path already is an error of the whole walk.              *)
Found(name, ledger) == [namespace |-> name, store |-> ledger]
Ancestors(found) == [err |-> FALSE, found |-> found]
Cycle == [err |-> TRUE, found |-> <<>>]

\* What one declaration contributes, once the walks above it are known; one
\* without a path is like one that cannot be read.
Hop(walks, path, decl) ==
    IF decl.path \in path THEN Cycle
    ELSE IF decl.path \notin readable THEN Ancestors(<<Found(decl.name, NoPath)>>)
    ELSE LET up == walks[<<decl.path, path \cup {decl.path}>>]
         IN  IF up.err THEN Cycle
             ELSE Ancestors(<<Found(decl.name, decl.path)>> \o up.found)

Gathered(parts) ==
    IF \E k \in DOMAIN parts : parts[k].err THEN Cycle
    ELSE Ancestors(FlattenSeq([k \in DOMAIN parts |-> parts[k].found]))

WalkParents[at \in Ledgers \X SUBSET Ledgers] ==
    LET decls == parentsOf[at[1]] IN
    Gathered([k \in DOMAIN decls |-> Hop(WalkParents, at[2], decls[k])])

\* Mutation: one visited set for the whole walk refuses a diamond as a ring.
SharedVisited ==
    LET walk == WalkParents[<<Own, {Own}>>]
        opened == {k \in DOMAIN walk.found : walk.found[k].store # NoPath}
    IN  IF \A i, j \in opened : walk.found[i].store = walk.found[j].store => i = j THEN walk
        ELSE Cycle

Walk == WalkParents[<<Own, {Own}>>]

\* Resolve: the first ancestor of that name that could be opened decides.
Resolve(name, id) ==
    LET found == Walk.found
        named == {k \in DOMAIN found : found[k].namespace = name}
        open == {k \in named : found[k].store # NoPath}
    IN  IF Walk.err THEN "error"
        ELSE IF open # {} THEN IF id \in holds[found[Min(open)].store] THEN "oriented" ELSE "error"
        ELSE IF named # {} THEN "withheld"
        ELSE "undeclared"

(* classifyOne on the first derives_from edge of an intent.  splitRef      *)
(* takes what follows the colon, which is nothing in a bare ref.           *)
NoEdge == [name |-> "", id |-> ""]
Bare(id) == [name |-> "", id |-> id]
splitRef(ref) == IF ref.name = "" THEN NoEdge ELSE ref

classifyOne(ref) ==
    LET to == splitRef(ref)
        found == Resolve(to.name, to.id)
    IN  CASE to = NoEdge -> "orphan"
          [] to # NoEdge /\ found = "undeclared" -> "broken"
          [] to # NoEdge /\ found = "oriented" -> "oriented"
          [] OTHER -> "withheld"

Names == {d.name : d \in UNION {UNION {Range(c[l]) : l \in Ledgers} : c \in Chains}} \cup {"typo"}
Refs == {NoEdge} \cup [name : Names, id : Targets] \cup {Bare(id) : id \in Targets}
-----------------------------------------------------------------------------
DriftInit ==
    /\ parentsOf \in Chains
    /\ readable \in {r \in SUBSET Ledgers : Own \in r}
    /\ holds \in {h \in [Ledgers -> {{}, Targets}] : h[Own] = {}}
    /\ latest = [ref |-> NoEdge, class |-> "none"]

\* Classify: the next intent, whichever reference it has.
Classify(ref) ==
    /\ latest' = [ref |-> ref, class |-> classifyOne(ref)]
    /\ UNCHANGED <<parentsOf, readable, holds>>

\* A parent's file system goes away, or comes back.
Unmount(l) ==
    /\ l # Own
    /\ readable' = IF l \in readable THEN readable \ {l} ELSE readable \cup {l}
    /\ UNCHANGED <<parentsOf, holds, latest>>

DriftNext == (\E ref \in Refs : Classify(ref)) \/ (\E l \in Ledgers : Unmount(l))

DriftSpec == DriftInit /\ [][DriftNext]_driftVars
-----------------------------------------------------------------------------
(* Properties, against the declarations as a relation                      *)

\* Ledgers known from Own through ledgers that can be read.
Climbs(l, up) ==
    /\ l \in readable /\ up \in readable
    /\ \E k \in DOMAIN parentsOf[l] : parentsOf[l][k].path = up
Closed(S) == \A l \in S, up \in Ledgers : Climbs(l, up) => up \in S
Reach(l) == {up \in Ledgers : \A S \in SUBSET Ledgers : l \in S /\ Closed(S) => up \in S}
Climbed == Reach(Own)
Ring == \E l \in Climbed, up \in Ledgers : Climbs(l, up) /\ l \in Reach(up)
Declared(name) == {l \in Climbed : \E k \in DOMAIN parentsOf[l] : parentsOf[l][k].name = name}
Readable(name) == {l \in Climbed : \E m \in Climbed : \E k \in DOMAIN parentsOf[m] :
                      parentsOf[m][k] = [name |-> name, path |-> l]}

\* A typo is never withheld and nothing legitimate is called broken; what is
\* oriented can be read; what some readable parent of that name holds in any
\* case is oriented, over however many ways its ledger is reached.  The
\* exception is a ring of parents, which withholds everything, typos too.
ClassifiedAsDeclared ==
    [][latest' # latest /\ latest'.ref.name # "" =>
         LET name == latest'.ref.name  id == latest'.ref.id  class == latest'.class
             ring == Ring  named == Readable(name) IN
         /\ class = "broken" <=> ~ring /\ Declared(name) = {}
         /\ class = "oriented" => ~ring /\ \E l \in named : id \in holds[l]
         /\ ~ring /\ named # {} /\ (\A l \in named : id \in holds[l])
               => class = "oriented"]_driftVars
=============================================================================
