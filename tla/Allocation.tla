----------------------------- MODULE Allocation -----------------------------
(***************************************************************************)
(* ledger.Add (ledger/write.go) run by several processes at once over one  *)
(* ledger.Store, while entries are also being removed.  There is no lock:  *)
(* a writer lists the ledger once, proposes the lowest number it believes  *)
(* free, and lets the exclusive Create decide.  Losing teaches it that the *)
(* number is taken.  A store operation is one step here; LocalStore shows  *)
(* that the filesystem backend makes it one.                               *)
(***************************************************************************)
EXTENDS Naturals, FiniteSets

CONSTANTS
    Writers,      \* processes, each performing one ledger.Add
    Kinds,        \* entry kinds in play
    Prior,        \* owner of the entries the ledger starts with
    NoId,         \* e.ID = ""
    InitialIds,   \* ids the ledger may start with; gaps are hand deletions
    MaxAttempts   \* maxAllocationAttempts

Ids == Kinds \X (Nat \ {0})

ASSUME WritersAssumption == IsFiniteSet(Writers) /\ Prior \notin Writers
ASSUME NoIdAssumption == NoId \notin Ids
ASSUME InitialIdsAssumption == InitialIds \subseteq Ids /\ IsFiniteSet(InitialIds)
ASSUME MaxAttemptsAssumption == MaxAttempts \in Nat \ {0}

VARIABLES
    ledger,     \* ledger[i]: whose entry id i holds
    pc,         \* pc[w]: where writer w is in Add
    kind,       \* kind[w]: e.Kind, once the draft is accepted
    taken,      \* taken[w]: the numbers w believes are in use
    attempts,   \* attempts[w]: failed Creates, all of them ErrExists
    id,         \* id[w]: e.ID
    removed     \* history: the <<id, owner>> pairs Delete has removed

vars == <<ledger, pc, kind, taken, attempts, id, removed>>

Terminal == {"done", "refused", "failed", "exhausted", "crashed"}

Init ==
    /\ \E S \in SUBSET InitialIds : ledger = [i \in S |-> Prior]
    /\ pc = [w \in Writers |-> "idle"]
    /\ kind \in [Writers -> Kinds]
    /\ taken = [w \in Writers |-> {}]
    /\ attempts = [w \in Writers |-> 0]
    /\ id = [w \in Writers |-> NoId]
    /\ removed = {}

(* A nil entry, one that already carries an id, one with no timestamp and  *)
(* one that fails ValidateDraft are refused before the store is touched.   *)
RefuseDraft(w) ==
    /\ pc[w] = "idle"
    /\ pc' = [pc EXCEPT ![w] = "refused"]
    /\ UNCHANGED <<ledger, kind, taken, attempts, id, removed>>

\* Faulty variant: the listing is not filtered by kind.
ListLedgerAnyKind(w) ==
    /\ pc[w] = "idle"
    /\ taken' = [taken EXCEPT ![w] = {i[2] : i \in DOMAIN ledger}]
    /\ pc' = [pc EXCEPT ![w] = "searching"]
    /\ UNCHANGED <<ledger, kind, attempts, id, removed>>

(* The one List: a starting point, stale from the next step on.            *)
ListLedger(w) ==
    /\ pc[w] = "idle"
    /\ taken' = [taken EXCEPT ![w] = {i[2] : i \in {j \in DOMAIN ledger : j[1] = kind[w]}}]
    /\ pc' = [pc EXCEPT ![w] = "searching"]
    /\ UNCHANGED <<ledger, kind, attempts, id, removed>>

ListFails(w) ==
    /\ pc[w] = "idle"
    /\ pc' = [pc EXCEPT ![w] = "failed"]
    /\ UNCHANGED <<ledger, kind, taken, attempts, id, removed>>

LowestFree(n, used) == n \notin used /\ \A m \in 1..(n - 1) : m \in used

Propose(w) ==
    /\ pc[w] = "searching"
    /\ attempts[w] < MaxAttempts
    /\ \E n \in 1..(Cardinality(taken[w]) + 1) :
         /\ LowestFree(n, taken[w])
         /\ id' = [id EXCEPT ![w] = <<kind[w], n>>]
    /\ pc' = [pc EXCEPT ![w] = "creating"]
    /\ UNCHANGED <<ledger, kind, taken, attempts, removed>>

CreateWins(w) ==
    /\ pc[w] = "creating"
    /\ id[w] \notin DOMAIN ledger
    /\ ledger' = [i \in DOMAIN ledger \cup {id[w]} |->
                    IF i = id[w] THEN w ELSE ledger[i]]
    /\ pc' = [pc EXCEPT ![w] = "done"]
    /\ UNCHANGED <<kind, taken, attempts, id, removed>>

\* Faulty variant: a loser does not learn that the number is taken.
LoseWithoutLearning(w) ==
    /\ pc[w] = "creating"
    /\ id[w] \in DOMAIN ledger
    /\ attempts' = [attempts EXCEPT ![w] = @ + 1]
    /\ id' = [id EXCEPT ![w] = NoId]
    /\ pc' = [pc EXCEPT ![w] = "searching"]
    /\ UNCHANGED <<ledger, kind, taken, removed>>

\* Faulty variant: nor is the attempt counted.
LoseWithoutCounting(w) ==
    /\ pc[w] = "creating"
    /\ id[w] \in DOMAIN ledger
    /\ id' = [id EXCEPT ![w] = NoId]
    /\ pc' = [pc EXCEPT ![w] = "searching"]
    /\ UNCHANGED <<ledger, kind, taken, attempts, removed>>

\* Faulty variant: ErrExists is taken for success.
LoseAsSuccess(w) ==
    /\ pc[w] = "creating"
    /\ id[w] \in DOMAIN ledger
    /\ pc' = [pc EXCEPT ![w] = "done"]
    /\ UNCHANGED <<ledger, kind, taken, attempts, id, removed>>

CreateLoses(w) ==
    /\ pc[w] = "creating"
    /\ id[w] \in DOMAIN ledger
    /\ taken' = [taken EXCEPT ![w] = @ \cup {id[w][2]}]
    /\ attempts' = [attempts EXCEPT ![w] = @ + 1]
    /\ id' = [id EXCEPT ![w] = NoId]
    /\ pc' = [pc EXCEPT ![w] = "searching"]
    /\ UNCHANGED <<ledger, kind, removed>>

\* Faulty variant: the id proposed stays on the entry that was not stored.
CreateFailsKeepingId(w) ==
    /\ pc[w] = "creating"
    /\ pc' = [pc EXCEPT ![w] = "failed"]
    /\ UNCHANGED <<ledger, kind, taken, attempts, id, removed>>

(* Any other error of Create: nothing was written.                         *)
CreateFails(w) ==
    /\ pc[w] = "creating"
    /\ id' = [id EXCEPT ![w] = NoId]
    /\ pc' = [pc EXCEPT ![w] = "failed"]
    /\ UNCHANGED <<ledger, kind, taken, attempts, removed>>

GiveUp(w) ==
    /\ pc[w] = "searching"
    /\ attempts[w] >= MaxAttempts
    /\ pc' = [pc EXCEPT ![w] = "exhausted"]
    /\ UNCHANGED <<ledger, kind, taken, attempts, id, removed>>

(* The process is killed; its entry value dies with it.                    *)
Crash(w) ==
    /\ pc[w] \in {"searching", "creating"}
    /\ pc' = [pc EXCEPT ![w] = "crashed"]
    /\ id' = [id EXCEPT ![w] = NoId]
    /\ UNCHANGED <<ledger, kind, taken, attempts, removed>>

(* Store.Delete by anyone: a discard in dira distill, or rm.               *)
Delete(i) ==
    /\ ledger' = [j \in DOMAIN ledger \ {i} |-> ledger[j]]
    /\ removed' = removed \cup {<<i, ledger[i]>>}
    /\ UNCHANGED <<pc, kind, taken, attempts, id>>

Step(w) ==
    \/ RefuseDraft(w) \/ ListLedger(w) \/ ListFails(w)
    \/ Propose(w) \/ CreateWins(w) \/ CreateLoses(w) \/ CreateFails(w)
    \/ GiveUp(w)

Next ==
    \/ \E w \in Writers : Step(w) \/ Crash(w)
    \/ \E i \in DOMAIN ledger : Delete(i)

Spec == Init /\ [][Next]_vars

(* An Add the scheduler keeps running: no lock is ever waited for.         *)
FairSpec == Spec /\ \A w \in Writers : WF_vars(Step(w))

-----------------------------------------------------------------------------
(* Properties.                                                             *)

TypeOK ==
    /\ DOMAIN ledger \subseteq Ids
    /\ IsFiniteSet(DOMAIN ledger)
    /\ ledger = [i \in DOMAIN ledger |-> ledger[i]]
    /\ \A i \in DOMAIN ledger : ledger[i] \in Writers \cup {Prior}
    /\ pc \in [Writers -> {"idle", "searching", "creating"} \cup Terminal]
    /\ kind \in [Writers -> Kinds]
    /\ taken \in [Writers -> SUBSET (Nat \ {0})]
    /\ \A w \in Writers : IsFiniteSet(taken[w])
    /\ attempts \in [Writers -> Nat]
    /\ id \in [Writers -> Ids \cup {NoId}]
    /\ removed \subseteq Ids \X (Writers \cup {Prior})

(* No step replaces an entry: what held an id goes on holding it until it  *)
(* is deleted.  The comment of Add calls the alternative "a silent         *)
(* data-loss bug" (write.go:21-26).                                        *)
NeverClobbered ==
    [][\A i \in DOMAIN ledger :
         \/ i \in DOMAIN ledger' /\ ledger'[i] = ledger[i]
         \/ <<i, ledger[i]>> \in removed']_vars

(* Add tells the truth in both directions: a success named the id under    *)
(* which exactly this entry was stored, and an add that did not succeed    *)
(* carries no id and left no entry under any id (write.go:41-42).          *)
ReportsWhatItStored ==
    /\ \A w \in Writers : pc[w] = "done" =>
         \/ id[w] \in DOMAIN ledger /\ ledger[id[w]] = w
         \/ <<id[w], w>> \in removed
    /\ \A w \in Writers : pc[w] \in Terminal \ {"done"} => id[w] = NoId
    /\ \A i \in DOMAIN ledger, w \in Writers :
         ledger[i] = w => pc[w] = "done" /\ id[w] = i

(* "N racers take N distinct ids after at most N-1 collisions each"        *)
(* (write.go:32-33): every collision is the loss of a number to another    *)
(* racer of the same kind, and no racer takes two.  A failed attempt thus  *)
(* has a success to show for it, and deletions do not weaken the bound.    *)
Winners(w) == {v \in Writers \ {w} : pc[v] = "done" /\ kind[v] = kind[w]}

CollisionBound == \A w \in Writers : attempts[w] <= Cardinality(Winners(w))

(* "the lowest unused id for its kind" (write.go:19): below an allocated   *)
(* number there is no number of that kind that was never in use.           *)
LowestUnused ==
    \A w \in Writers : pc[w] = "done" =>
        \A m \in 1..(id[w][2] - 1) :
            <<kind[w], m>> \in DOMAIN ledger \cup {r[1] : r \in removed}

(* A racer neither skips a number nor pays for one more often than others  *)
(* gain one.                                                               *)
FrugalNumbers == CollisionBound /\ LowestUnused

(* An Add that is not killed returns, whatever the other writers do: there *)
(* is no lock to wait for, and the search is bounded.                      *)
Termination == \A w \in Writers : <>(pc[w] \in Terminal)

(* Listing, guessing and colliding are invisible to a caller.              *)
L == INSTANCE Ledger WITH
       status <- [w \in Writers |->
                    IF pc[w] = "done" THEN "done"
                    ELSE IF pc[w] \in Terminal THEN "failed" ELSE "pending"],
       given  <- [w \in Writers |-> IF pc[w] = "done" THEN id[w] ELSE NoId]

ImplementsLedger == L!Spec
=============================================================================
