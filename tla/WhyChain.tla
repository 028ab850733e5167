------------------------------ MODULE WhyChain ------------------------------
(***************************************************************************)
(* `dira why` (cmd/dira/why.go, internal/why, internal/index/query.go):    *)
(* what an entry arises from.  The derives_from ancestry is walked         *)
(* recursively and grouped by generation, the longest distance from the    *)
(* subject; a ledger edited by hand may hold loops, refs into other        *)
(* ledgers and refs to entries that are gone.                              *)
(*                                                                         *)
(* An entry is the sequence of its edges [type, to]; In reads the edges of *)
(* the cache, everything else the files, which may have changed since.     *)
(***************************************************************************)
EXTENDS Naturals, Sequences, FiniteSets, SequencesExt

CONSTANTS Asked,       \* the entry `dira why` is asked about
          Ancestries   \* ledgers: the edges of each entry

ASSUME WhyAssumption ==
    \A edges \in Ancestries :
       /\ IsFiniteSet(DOMAIN edges)
       /\ \A id \in DOMAIN edges : edges[id] \in Seq([type : STRING, to : STRING])

VARIABLES cached,      \* the ledger as Open reconciled it
          ancestry,    \* the files
          chain        \* the Chain that Build returned

whyVars == <<cached, ancestry, chain>>
NoChain == [outcome |-> "none"]

Derives(edge) == edge.type = "derives_from"
Parents(id) ==
    IF id \in DOMAIN ancestry THEN {e.to : e \in {x \in Range(ancestry[id]) : Derives(x)}} ELSE {}
WhyRefs == UNION {{id} \cup Parents(id) : id \in DOMAIN ancestry}

(* The builder: the depth found of each ref so far, 0 where none was, and  *)
(* where loops closed.                                                     *)
Builders == [depth : [WhyRefs -> Nat], cycle : SUBSET WhyRefs]
Start == [depth |-> [ref \in WhyRefs |-> 0], cycle |-> {}]
AtDepth(built, ref, depth) == [built EXCEPT !.depth = [@ EXCEPT ![ref] = depth]]

\* Mutation: a ref that was seen is not walked again, however deep it is now.
AnyDepth(built, ref, depth) == built.depth[ref] > 0
Known(built, ref, depth) == built.depth[ref] >= depth

\* The call of walk for an entry: path is the current descent.
Descents == [id : DOMAIN ancestry, depth : Nat, path : SUBSET WhyRefs, built : Builders]

\* What it does with one edge.  A loop is cut where it closes; a ref found at
\* a greater depth than before is walked again; a ref that cannot be opened is
\* a node and is not walked.
Follow(walks, at, built, edge) ==
    IF ~Derives(edge) THEN built
    ELSE IF edge.to \in at.path THEN [built EXCEPT !.cycle = @ \cup {edge.to}]
    ELSE IF Known(built, edge.to, at.depth + 1) THEN built
    ELSE LET deeper == AtDepth(built, edge.to, at.depth + 1) IN
         IF edge.to \notin DOMAIN ancestry THEN deeper
         ELSE walks[[id |-> edge.to, depth |-> at.depth + 1,
                     path |-> at.path \cup {edge.to}, built |-> deeper]]

walk[at \in Descents] ==
    FoldLeft(LAMBDA built, edge : Follow(walk, at, built, edge), at.built, ancestry[at.id])

\* generations: the outermost first, the subject's own parents last.
generations(depth) ==
    LET deepest == Max({0} \cup Range(depth))
    IN  [g \in 1..deepest |-> {ref \in DOMAIN depth : depth[ref] = deepest - g + 1}]

\* In, from the cache: who points at the subject, and how.
In(id) == UNION {{[type |-> e.type, from |-> other] : e \in {x \in Range(cached[other]) : x.to = id}} :
                    other \in DOMAIN cached}

\* The edges beside the spine; a ref that cannot be opened is shown all the same.
Outgoing(type) == {e.to : e \in {x \in Range(ancestry[Asked]) : x.type = type}}
Incoming(type) == {e.from : e \in {x \in In(Asked) : x.type = type}}
relationGroups == {"supersedes", "informs", "blocks"}
-----------------------------------------------------------------------------
WhyInit ==
    /\ cached \in Ancestries /\ ancestry = cached
    /\ chain = NoChain

\* Another process removes an entry after the cache was reconciled.
RemoveEntry(id) ==
    /\ chain = NoChain /\ ancestry = cached
    /\ id \in DOMAIN ancestry
    /\ ancestry' = [other \in DOMAIN ancestry \ {id} |-> ancestry[other]]
    /\ UNCHANGED <<cached, chain>>

\* Build reads the subject, its edges, the backlinks and the ancestry.
Build ==
    /\ chain = NoChain
    /\ chain' =
         IF Asked \notin DOMAIN ancestry THEN [outcome |-> "error"]
         ELSE LET built == walk[[id |-> Asked, depth |-> 0, path |-> {Asked}, built |-> Start]]
              IN  [outcome |-> "chain", arising |-> generations(built.depth), cycle |-> built.cycle,
                   realized |-> Outgoing("realized_by"), supersededBy |-> Incoming("supersedes"),
                   related |-> [type \in relationGroups |-> Outgoing(type)],
                   incoming |-> [type \in {"derives_from", "informs", "blocks"} |-> Incoming(type)]]
    /\ UNCHANGED <<cached, ancestry>>

WhyNext == Build \/ (\E id \in DOMAIN ancestry : RemoveEntry(id))

WhySpec == WhyInit /\ [][WhyNext]_whyVars
-----------------------------------------------------------------------------
(* Properties, against derives_from as a relation                          *)

\* What lies n edges above the subject, by some way; as many edges as there
\* are refs make a way that goes through one of them twice.
Above[n \in 0..Cardinality(WhyRefs)] ==
    IF n = 0 THEN {Asked} ELSE UNION {Parents(id) : id \in Above[n - 1]}

\* The chain holds every ancestor once and nothing else, no generation of it
\* is empty, and a loop is reported exactly when there is one; where there is
\* none each ancestor sits at the length of the longest way up to it, so that
\* nothing is printed below what it gave rise to.
ChainIsAncestry ==
    chain.outcome = "chain" =>
        LET refs == Cardinality(WhyRefs)
            looped == Above[refs] # {}
            height == Len(chain.arising)
        IN  /\ UNION Range(chain.arising) = (UNION {Above[n] : n \in 1..refs}) \ {Asked}
            /\ \A g, h \in 1..height : g # h => chain.arising[g] \cap chain.arising[h] = {}
            /\ chain.cycle # {} <=> looped
            /\ \A g \in 1..height : chain.arising[g] # {}
            /\ ~looped => \A g \in 1..height :
                  \A r \in chain.arising[g] : height - g + 1 = Max({n \in 1..refs : r \in Above[n]})
=============================================================================
