------------------------------- MODULE Staging -------------------------------
(***************************************************************************)
(* internal/sniff/stage.go: the capture hooks.  A hook reads the titles    *)
(* that are in the ledger, and then stages the candidates of its piece of  *)
(* the transcript one ledger.Add at a time, up to a bound per run.  Hooks  *)
(* of several sessions overlap, a hook is killed at its timeout, and what  *)
(* was said before it is read again by the next one.                       *)
(*                                                                         *)
(* A title is the key titleKey computes; dedupe has already collapsed a    *)
(* sentence that is said twice.  An add is one step, as Ledger promises;   *)
(* it takes the lowest number that is free.  Ids are the numbers of        *)
(* decision entries: existingTitles passes over the other kinds.           *)
(***************************************************************************)
EXTENDS Naturals, Sequences, FiniteSets, FiniteSetsExt

CONSTANTS
    Hooks,          \* the dira sniff --stage processes
    Transcript,     \* the candidates' titles, in the order they are first said
    Ids,            \* the numbers of decision entries
    Missing,        \* no entry
    MaxCandidates,  \* maxCandidates, the bound of one run
    MaxFaults,      \* bound on kills, and on failures of the store
    MaxDiscards     \* bound on the captures a human discards

Titles == {Transcript[k] : k \in DOMAIN Transcript}

ASSUME IdsAssumption == Ids \subseteq Nat /\ IsFiniteSet(Ids)
ASSUME TranscriptAssumption == Transcript \in Seq(Titles) /\ Cardinality(Titles) = Len(Transcript)
ASSUME MissingAssumption == Missing \notin Titles
ASSUME MaxCandidatesAssumption == MaxCandidates \in Nat \ {0}

VARIABLES
    entries,    \* entries[i]: the title of decision i, or Missing
    said,       \* how much of the transcript there is
    hook,       \* hook[p]: where p is in Stage, and its local variables
    faults,     \* failures and kills so far
    discards,   \* discards so far
    blurred     \* history: two hooks overlapped, or a Get failed

vars == <<entries, said, hook, faults, discards, blurred>>

\* todo: listed ids yet to be read.  batch: positions of the candidates yet to be
\* staged.  dropped: Result.Dropped.  History: unmet, the positions this run started
\* with whose title has not been in the ledger since.
IdleHook == [pc |-> "idle", todo |-> {}, batch |-> {}, known |-> {}, staged |-> {},
             dropped |-> 0, unmet |-> {}]

Present == {i \in Ids : entries[i] # Missing}

Active(p) == hook[p].pc \in {"list", "run"}

Init ==
    /\ entries = [i \in Ids |-> Missing]
    /\ said = 0
    /\ hook = [p \in Hooks |-> IdleHook]
    /\ faults = 0
    /\ discards = 0
    /\ blurred = FALSE

Set(p, q) == hook' = [hook EXCEPT ![p] = q]

Fault == faults < MaxFaults /\ faults' = faults + 1

(* Title t appears under id i.                                             *)
Store(i, t, next) ==
    /\ entries' = [entries EXCEPT ![i] = t]
    /\ hook' = [p \in Hooks |-> [next[p] EXCEPT !.unmet = {k \in @ : Transcript[k] # t}]]

-----------------------------------------------------------------------------
(* A run over the transcript from some turn on.                            *)
Start(p, from) ==
    /\ ~Active(p)
    /\ Set(p, [IdleHook EXCEPT !.pc = "list", !.batch = from..said,
                               !.unmet = {k \in from..said : \A i \in Ids : entries[i] # Transcript[k]}])
    /\ blurred' = (blurred \/ \E q \in Hooks : Active(q))
    /\ UNCHANGED <<entries, said, faults, discards>>

\* The last turn only, from Stop, or the whole with --all, from PreCompact.
StartLastTurn(p) == \E from \in 2..said : Start(p, from)
StartWhole(p) == said > 0 /\ Start(p, 1)

List(p) ==
    /\ hook[p].pc = "list"
    /\ Set(p, [hook[p] EXCEPT !.pc = "run", !.todo = Present])
    /\ UNCHANGED <<entries, said, faults, blurred, discards>>

\* Faulty variant: the scan ends at the first entry that has vanished.
ReadUntilVanished(p) ==
    /\ hook[p].todo # {}
    /\ LET i == Min(hook[p].todo) IN
         Set(p, IF entries[i] = Missing THEN [hook[p] EXCEPT !.todo = {}]
                ELSE [hook[p] EXCEPT !.todo = @ \ {i}, !.known = @ \cup {entries[i]}])
    /\ UNCHANGED <<entries, said, faults, blurred, discards>>

(* In the order of the ids; one that has vanished is passed over.          *)
ReadTitle(p) ==
    /\ hook[p].todo # {}
    /\ LET i == Min(hook[p].todo) IN
         Set(p, [hook[p] EXCEPT !.todo = @ \ {i}, !.known = @ \cup ({entries[i]} \ {Missing})])
    /\ UNCHANGED <<entries, said, faults, blurred, discards>>

\* So is one that cannot be read.
ReadFails(p) ==
    /\ hook[p].todo # {}
    /\ Fault
    /\ Set(p, [hook[p] EXCEPT !.todo = @ \ {Min(@)}])
    /\ blurred' = TRUE
    /\ UNCHANGED <<entries, said, discards>>

-----------------------------------------------------------------------------
(* The loop over the candidates.                                           *)

First(p) == Min(hook[p].batch)
Title(p) == Transcript[First(p)]

Staging(p) == hook[p].pc = "run" /\ hook[p].todo = {} /\ hook[p].batch # {}

Duplicate(p) ==
    /\ Staging(p)
    /\ Title(p) \in hook[p].known
    /\ Set(p, [hook[p] EXCEPT !.batch = @ \ {First(p)}])
    /\ UNCHANGED <<entries, said, faults, blurred, discards>>

\* Faulty variants: a candidate that is already in the
\* ledger uses up the bound too; the ones over the bound are not counted.
FullByPosition(p) == First(p) > MaxCandidates

Full(p) == Cardinality(hook[p].staged) >= MaxCandidates

DropUncounted(p) ==
    /\ Staging(p)
    /\ Title(p) \notin hook[p].known
    /\ Full(p)
    /\ Set(p, [hook[p] EXCEPT !.batch = @ \ {First(p)}])
    /\ UNCHANGED <<entries, said, faults, blurred, discards>>

Drop(p) ==
    /\ Staging(p)
    /\ Title(p) \notin hook[p].known
    /\ Full(p)
    /\ Set(p, [hook[p] EXCEPT !.batch = @ \ {First(p)}, !.dropped = @ + 1])
    /\ UNCHANGED <<entries, said, faults, blurred, discards>>

Add(p) ==
    /\ Staging(p)
    /\ Title(p) \notin hook[p].known
    /\ ~Full(p)
    /\ Ids \ Present # {}
    /\ Store(Min(Ids \ Present), Title(p),
               [hook EXCEPT ![p].batch = @ \ {First(p)}, ![p].known = @ \cup {Title(p)},
                            ![p].staged = @ \cup {Title(p)}])
    /\ UNCHANGED <<said, faults, blurred, discards>>

(* The list or an add fails: the run ends there, and says so.              *)
Fails(p) ==
    /\ hook[p].pc = "list" \/ (Staging(p) /\ Title(p) \notin hook[p].known /\ ~Full(p))
    /\ Fault
    /\ Set(p, IdleHook)
    /\ UNCHANGED <<entries, said, blurred, discards>>

Return(p) ==
    /\ hook[p].pc = "run" /\ hook[p].todo = {} /\ hook[p].batch = {}
    /\ Set(p, IdleHook)
    /\ UNCHANGED <<entries, said, faults, blurred, discards>>

(* Killed, at the hook's timeout or with its session.                      *)
Kill(p) ==
    /\ Active(p)
    /\ Fault
    /\ Set(p, IdleHook)
    /\ UNCHANGED <<entries, said, blurred, discards>>

-----------------------------------------------------------------------------
(* Everyone else.                                                          *)

Speak ==
    /\ said < Len(Transcript)
    /\ said' = said + 1
    /\ UNCHANGED <<entries, hook, faults, blurred, discards>>

\* A human discards a capture.
Discard ==
    /\ discards < MaxDiscards
    /\ discards' = discards + 1
    /\ \E i \in Present : entries' = [entries EXCEPT ![i] = Missing]
    /\ UNCHANGED <<said, hook, faults, blurred>>

Step(p) ==
    \/ List(p) \/ ReadTitle(p)
    \/ Duplicate(p) \/ Drop(p) \/ Add(p) \/ Return(p)

Next ==
    \/ \E p \in Hooks :
         StartLastTurn(p) \/ StartWhole(p) \/ Step(p) \/ ReadFails(p) \/ Fails(p) \/ Kill(p)
    \/ Speak \/ Discard

Spec == Init /\ [][Next]_vars

(* A hook that runs goes on running, and the session has its whole         *)
(* transcript read again and again.                                        *)
FairSpec ==
    /\ Spec
    /\ \A p \in Hooks : WF_vars(Step(p))
    /\ SF_vars(\E p \in Hooks : StartWhole(p))

-----------------------------------------------------------------------------
(* Properties.                                                             *)

(* "a sentence is staged once rather than once per turn"                   *)
(* (stage.go:156-157), across runs, kills in the middle of one, discards   *)
(* and later runs: no two captures carry one title unless two hooks        *)
(* overlapped or a read failed.                                            *)
NoSecondCopy ==
    ~blurred =>
        \A i, j \in Present : entries[i] = entries[j] => i = j

(* "silently discarding a decision is the failure this whole tool exists   *)
(* to prevent" (stage.go:68-71): a run that ends without an error has      *)
(* staged each of its candidates, or found it in the ledger, or counted it *)
(* as dropped.                                                             *)
NothingLostQuietly ==
    [][\A p \in Hooks : Return(p) =>
          Cardinality(hook[p].unmet) <= hook[p].dropped]_vars

(* The bound of one run delays a candidate and does not lose it: what is   *)
(* in the transcript reaches the ledger in some later run, however many    *)
(* candidates precede it and whichever runs are killed on the way; if it   *)
(* is discarded, it comes back.                                            *)
EveryCandidateArrives ==
    \A k \in DOMAIN Transcript : said >= k ~> \E i \in Ids : entries[i] = Transcript[k]
=============================================================================
