------------------------------ MODULE KaziJoin ------------------------------
(***************************************************************************)
(* `dira map` (cmd/dira/map.go, internal/cli, internal/status,             *)
(* internal/kazi): the ledger joined to the execution status of an         *)
(* external program.  A run reconciles the cache, asks the program for its *)
(* portfolio, reads the entries, resolves each one with a realized_by edge *)
(* (by a further question where the portfolio is ambiguous), derives the   *)
(* ledger's own buckets and assembles one node per entry.  Every stage     *)
(* reads the cache or the files anew, and the files may change between.    *)
(*                                                                         *)
(* An entry is [state, realized, blocks, parent]: the first target of each *)
(* edge type.  A portfolio says of each goal which runs are recorded and   *)
(* whether it is blocked or planned, and which goal a proposal became.     *)
(***************************************************************************)
EXTENDS Naturals, Sequences, FiniteSets, Functions

CONSTANTS Index,         \* the ids, in the order of the index
          KindOf,        \* "decision", "intent" or "question"
          MapLedgers,    \* ledgers a run may find
          Contents,      \* what another process may make of an entry
          Goals,         \* the goals an entry may name, or a proposal may become
          Portfolios,    \* [why, runs, blocked, planned, proposals], why being "ok"
          NoTarget,      \* no edge of a type
          MaxStatusCalls,\* 25 in the code
          MaxChanges     \* bound: changes by others during a run

RunStates == {"complete", "stuck", "in_progress", "terminated"}
NamesGoal(e) == e.realized # NoTarget /\ e.realized.verb = "goal" => e.realized.ref \in Goals

ASSUME MapAssumption ==
    /\ MaxStatusCalls \in Nat /\ Index \in Seq(Range(Index))
    /\ \A l \in MapLedgers : DOMAIN l \subseteq Range(Index) /\ \A i \in DOMAIN l : NamesGoal(l[i])
    /\ \A e \in Contents : NamesGoal(e)
    /\ \A p \in Portfolios : /\ p.runs \in [Goals -> Seq(RunStates)]
                             /\ \A k \in DOMAIN p.proposals : p.proposals[k] \in Goals

VARIABLES mAt,       \* the stage the run has reached
          files,     \* the entries
          rows,      \* the cache
          snap,      \* the portfolio, or why there is none
          read,      \* the entries as BuildTree read them
          joined,    \* the row of each candidate resolved so far
          calls,     \* the questions asked: [goal, answer]
          derived,   \* to be planned, decision-blocked, terminal: from the ledger alone
          nodes,     \* the tree: a node per entry
          changed    \* ids changed since the cache was reconciled

mapVars == <<mAt, files, rows, snap, read, joined, calls, derived, nodes, changed>>
Nothing == [i \in {} |-> NoTarget]
NotDerived == [toPlan |-> {}, blocked |-> Nothing, terminal |-> {}]

IsJoinCandidate(i, e) ==
    \/ KindOf[i] = "decision" /\ e.state = "accepted"
    \/ KindOf[i] = "intent" /\ e.state = "active"
IsAtRest(e) == e.state \in {"superseded", "rejected", "achieved", "abandoned"}
Candidates(entries) ==
    {i \in DOMAIN entries : IsJoinCandidate(i, entries[i]) /\ entries[i].realized # NoTarget}

\* Of several entries, the one the index lists first.
Earliest(S) ==
    Index[CHOOSE k \in DOMAIN Index : Index[k] \in S /\ \A m \in DOMAIN Index : Index[m] \in S => k <= m]

Unavailable == {"not_on_path", "nonzero_exit", "malformed_json", "wrong_kind", "timeout"}
Answers == Unavailable \cup {"not_found", "converged", "in_progress", "proposal"}

Degraded == snap.why \in Unavailable

Stage(from, to) == mAt = from /\ mAt' = to
-----------------------------------------------------------------------------
MapInit ==
    /\ mAt = "open" /\ files \in MapLedgers
    /\ rows = Nothing /\ snap = [why |-> "none"] /\ read = Nothing /\ joined = Nothing /\ calls = <<>>
    /\ derived = NotDerived /\ nodes = Nothing /\ changed = {}

\* Index.Open: the cache is reconciled with the files, all of them readable.
OpenIndex ==
    /\ Stage("open", "snapshot") /\ rows' = files
    /\ UNCHANGED <<files, snap, read, joined, calls, derived, nodes, changed>>

\* kazi.Snapshot, under a timeout: a portfolio or a reason.
Snapshot ==
    /\ Stage("snapshot", "entries") /\ snap' \in Portfolios \cup [why : Unavailable]
    /\ UNCHANGED <<files, rows, read, joined, calls, derived, nodes, changed>>

\* BuildTree reads every entry the cache lists; one that is gone ends the run.
ReadEntries ==
    /\ IF DOMAIN rows \subseteq DOMAIN files
       THEN Stage("entries", "join") /\ read' = [i \in DOMAIN rows |-> files[i]]
       ELSE Stage("entries", "failed") /\ UNCHANGED read
    /\ UNCHANGED <<files, rows, snap, joined, calls, derived, nodes, changed>>

(* resolveGoal                                                             *)
Row(bucket, says) == [bucket |-> bucket, says |-> says]
InBucket(bucket) == Row(bucket, "bucket")
Unresolved == Row("", "unresolved")
Ambiguous == Row("", "ambiguous")

mapRunBucket(run) ==
    CASE run = "complete" -> InBucket("completed")
      [] run = "stuck" -> InBucket("execution_blocked")
      [] run = "in_progress" -> InBucket("in_progress")
      [] run = "terminated" -> Unresolved

WithoutRuns(goal) ==
    IF goal \in snap.blocked THEN InBucket("execution_blocked")
    ELSE IF goal \in snap.planned THEN InBucket("planned") ELSE Unresolved

statusAnswer(answer) ==
    CASE answer = "converged" -> InBucket("completed")
      [] answer = "in_progress" -> InBucket("in_progress")
      [] answer \in Unavailable -> Ambiguous
      [] answer \in {"not_found", "proposal"} -> Unresolved

\* A proposal is a goal only through the portfolio; a goal is taken as named.
GoalOf(target) ==
    IF target.verb = "goal" THEN target.ref
    ELSE IF target.ref \in DOMAIN snap.proposals THEN snap.proposals[target.ref] ELSE NoTarget

Resolved(i, row) == joined' = [k \in DOMAIN joined \cup {i} |-> IF k = i THEN row ELSE joined[k]]

\* Mutation: the first of several recorded runs is taken for the goal's.
FirstRun(i, goal) ==
    LET runs == snap.runs[goal] IN
    /\ Resolved(i, IF runs = <<>> THEN WithoutRuns(goal) ELSE mapRunBucket(Head(runs)))
    /\ UNCHANGED calls

\* No run, one run, or several that may disagree: then the program is asked,
\* as long as the bound on such questions is not reached.
resolveGoal(i, goal) ==
    LET runs == snap.runs[goal] IN
    \/ runs = <<>> /\ Resolved(i, WithoutRuns(goal)) /\ UNCHANGED calls
    \/ Len(runs) = 1 /\ Resolved(i, mapRunBucket(runs[1])) /\ UNCHANGED calls
    \/ Len(runs) > 1 /\ Len(calls) >= MaxStatusCalls /\ Resolved(i, Ambiguous) /\ UNCHANGED calls
    \/ /\ Len(runs) > 1 /\ Len(calls) < MaxStatusCalls
       /\ \E answer \in Answers :
             /\ calls' = Append(calls, [goal |-> goal, answer |-> answer])
             /\ Resolved(i, statusAnswer(answer))

\* Join, one candidate: without a portfolio nothing is asked; a target of no
\* known form ends the run, but only where there is a portfolio.
Join ==
    /\ mAt = "join"
    /\ LET left == Candidates(read) \ DOMAIN joined
           i == Earliest(left)
           target == read[i].realized
       IN  IF left = {} THEN mAt' = "derive" /\ UNCHANGED <<joined, calls>>
           ELSE \/ Degraded /\ Resolved(i, Unresolved) /\ UNCHANGED <<mAt, calls>>
                \/ /\ ~Degraded /\ target.verb = "other"
                   /\ mAt' = "failed" /\ UNCHANGED <<joined, calls>>
                \/ /\ ~Degraded /\ target.verb # "other" /\ UNCHANGED mAt
                   /\ IF GoalOf(target) = NoTarget THEN Resolved(i, Unresolved) /\ UNCHANGED calls
                      ELSE resolveGoal(i, GoalOf(target))
    /\ UNCHANGED <<files, rows, snap, read, derived, nodes, changed>>

(* What the ledger says by itself, from the cache and from the files again.*)
Selected == {i \in DOMAIN rows : IsJoinCandidate(i, rows[i])}
DeriveToBePlanned == {i \in Selected : files[i].realized = NoTarget}

\* Mutation: a question blocks whatever has become of it.
AnyQuestion(i) == {q \in DOMAIN rows : rows[q].blocks = i}

\* The questions behind the blocks edges of the cache that are open in the files.
Blocking(i) ==
    {q \in DOMAIN rows \cap DOMAIN files : rows[q].blocks = i /\ files[q].state = "open"}
DeriveDecisionBlocked ==
    LET held == {i \in DOMAIN rows : ~IsAtRest(rows[i]) /\ Blocking(i) # {}}
    IN  [i \in held |-> Earliest(Blocking(i))]

Terminal == {i \in DOMAIN rows : KindOf[i] = "intent" /\ rows[i].state \in {"achieved", "abandoned"}}

\* Both read files again, and fail where one they need is gone.
Derive ==
    LET asked == Selected \cup {q \in DOMAIN rows :
                    rows[q].blocks \in {i \in DOMAIN rows : ~IsAtRest(rows[i])}}
    IN  /\ IF asked \subseteq DOMAIN files
           THEN /\ Stage("derive", "assemble")
                /\ derived' = [toPlan |-> DeriveToBePlanned, blocked |-> DeriveDecisionBlocked,
                               terminal |-> Terminal]
           ELSE Stage("derive", "failed") /\ UNCHANGED derived
        /\ UNCHANGED <<files, rows, snap, read, joined, calls, nodes, changed>>

\* One node per entry: held up by a question, else at rest, else joined, else
\* to be planned, else nothing to say.  It goes under its parent if that is an
\* entry, and under "unparented" if not.
nodeOf(i) ==
    IF i \in DOMAIN derived.blocked THEN InBucket("decision_blocked")
    ELSE IF i \in derived.terminal THEN Row("", "terminal")
    ELSE IF i \in DOMAIN joined THEN joined[i]
    ELSE IF i \in derived.toPlan THEN InBucket("to_be_planned")
    ELSE Row("", "nothing")
BuildTree ==
    /\ Stage("assemble", "done")
    /\ nodes' = [i \in DOMAIN read |->
                   [row |-> nodeOf(i), under |-> IF read[i].parent \in DOMAIN read THEN read[i].parent ELSE NoTarget]]
    /\ UNCHANGED <<files, rows, snap, read, joined, calls, derived, changed>>

\* Another process writes or deletes an entry while the run is under way.
Change(i) ==
    /\ mAt \in {"snapshot", "entries", "join", "derive"} /\ Cardinality(changed \cup {i}) <= MaxChanges
    /\ \/ files' = [k \in DOMAIN files \ {i} |-> files[k]]
       \/ \E e \in Contents : files' = [k \in DOMAIN files \cup {i} |-> IF k = i THEN e ELSE files[k]]
    /\ changed' = changed \cup {i}
    /\ UNCHANGED <<mAt, rows, snap, read, joined, calls, derived, nodes>>

MapNext ==
    \/ OpenIndex \/ Snapshot \/ ReadEntries \/ Join \/ Derive \/ BuildTree
    \/ \E i \in Range(Index) : Change(i)

MapSpec == MapInit /\ [][MapNext]_mapVars
-----------------------------------------------------------------------------
(* Properties                                                              *)

\* However the program answers, the ledger's own half of the map is what the
\* ledger says, and each decision or intent in force has something beside it:
\* a bucket, an ambiguity or a reason.  Only an entry that was changed during
\* the run, or that a changed question holds up, may be described otherwise.
Holds(i) == {q \in DOMAIN rows : rows[q].blocks = i}
Steady(i) == i \notin changed /\ Holds(i) \cap changed = {}
LedgerHalfStands ==
    mAt = "done" => \A i \in DOMAIN nodes : Steady(i) =>
        LET held == ~IsAtRest(files[i]) /\ \E q \in Holds(i) : files[q].state = "open"
            says == nodes[i].row
        IN  /\ says.bucket = "decision_blocked" <=> held
            /\ says.bucket = "to_be_planned" <=>
                 ~held /\ IsJoinCandidate(i, files[i]) /\ files[i].realized = NoTarget
            /\ IsJoinCandidate(i, files[i]) => says.says # "nothing"

\* An entry whose goal has several recorded runs is in no execution bucket but
\* the one the program named for that goal in this run; no more questions are
\* asked than the bound allows; and a run without a portfolio asks none and
\* puts nothing in an execution bucket.
Execution == {"planned", "in_progress", "completed", "execution_blocked"}
NeverGuessed ==
    mAt = "done" =>
        /\ Len(calls) <= MaxStatusCalls
        /\ \A i \in DOMAIN nodes : nodes[i].row.bucket \in Execution =>
             /\ ~Degraded
             /\ LET goal == GoalOf(read[i].realized) IN Len(snap.runs[goal]) > 1 =>
                  \E k \in DOMAIN calls : calls[k].goal = goal /\ statusAnswer(calls[k].answer) = nodes[i].row
=============================================================================
