----------------------------- MODULE InitLedger -----------------------------
(***************************************************************************)
(* `dira init --interview` (cmd/dira/init.go, internal/interview) and      *)
(* local.InitLedger: a new ledger is built in .dira.staging, one fixed     *)
(* name beside .dira, and renamed into place.  Runs fail, are killed       *)
(* wherever they stand, and may overlap.                                   *)
(*                                                                         *)
(* A directory is [config, entries]: whose config.toml it holds, and whose *)
(* entry under each id.  RemoveAll goes by name, a file at a time.         *)
(***************************************************************************)
EXTENDS Naturals, Sequences, FiniteSets

CONSTANTS Inits,      \* the runs of the command, each with answers of its own
          EntryScript,\* the kinds of the entries an interview drafts, in order
          NoDir,      \* nothing under this name
          NoOne       \* no config.toml

VARIABLES target,     \* .dira
          staging,    \* .dira.staging
          init,       \* where each run stands: [at, next, outcome]
          overlap     \* history: whether two runs ever overlapped

initVars == <<target, staging, init, overlap>>

EmptyDir == [config |-> NoOne, entries |-> [id \in {} |-> NoOne]]
DraftIds == {EntryScript[n] : n \in 1 .. Len(EntryScript)}
Dirs == [config : Inits \cup {NoOne}, entries : UNION {[held -> Inits] : held \in SUBSET DraftIds}]
Seeded(p) == [config |-> p, entries |-> [k \in DraftIds |-> p]]

ASSUME InitLedgerAssumption ==
    EntryScript = [n \in 1 .. Len(EntryScript) |-> EntryScript[n]] /\ Len(EntryScript) \in Nat \ {0}
    /\ NoDir \notin Dirs

Running == {p \in Inits : init[p].at \notin {"idle", "ended"}}
Goto(p, at) == init' = [init EXCEPT ![p].at = at]
End(p, outcome) == init' = [init EXCEPT ![p].at = "ended", ![p].outcome = outcome]

-----------------------------------------------------------------------------
\* The prompts are answered up to where stdin ends; --tier contradicts the
\* first answer at once; a blank answer, or an unknown tier, is no answer.
Prompts == 4
askPrompts(p) ==
    /\ init[p].at = "idle"
    /\ \E answered \in {Prompts - 1, Prompts}, usable \in BOOLEAN :
          IF answered = Prompts /\ usable THEN Goto(p, "stat") ELSE End(p, "error")
    /\ overlap' = (overlap \/ Running # {})
    /\ UNCHANGED <<target, staging>>

\* A .dira that is there is refused before anything is written.
StatTarget(p) ==
    /\ init[p].at = "stat"
    /\ IF target # NoDir THEN End(p, "error") ELSE Goto(p, "mkdir")
    /\ UNCHANGED <<target, staging, overlap>>

MkdirAll(p) ==
    /\ init[p].at = "mkdir"
    /\ staging' = IF staging = NoDir THEN EmptyDir ELSE staging
    /\ Goto(p, "config")
    /\ UNCHANGED <<target, overlap>>

\* Any step from here on may fail: the disk is full.
Fails(p) ==
    /\ init[p].at \in {"mkdir", "config", "create", "rename"}
    /\ Goto(p, "cleanup")
    /\ UNCHANGED <<target, staging, overlap>>

WriteConfig(p) ==
    /\ init[p].at = "config"
    /\ IF staging = NoDir
       THEN Goto(p, "cleanup") /\ UNCHANGED staging
       ELSE staging' = [staging EXCEPT !.config = p] /\ Goto(p, "create")
    /\ UNCHANGED <<target, overlap>>

\* The first id of each kind, exclusively; the store makes its directories.
CreateDraft(p) ==
    LET id == EntryScript[init[p].next]
        there == IF staging = NoDir THEN EmptyDir ELSE staging
    IN  /\ init[p].at = "create"
        /\ IF id \in DOMAIN there.entries
           THEN Goto(p, "cleanup") /\ UNCHANGED staging
           ELSE /\ staging' = [there EXCEPT !.entries =
                                  [k \in DOMAIN @ \cup {id} |-> IF k = id THEN p ELSE @[k]]]
                /\ init' = [init EXCEPT ![p].next = @ + 1,
                                        ![p].at = IF init[p].next = Len(EntryScript) THEN "rename" ELSE "create"]
        /\ UNCHANGED <<target, overlap>>

\* One system call; it replaces no directory that holds something.
Rename(p) ==
    /\ init[p].at = "rename"
    /\ IF staging = NoDir \/ target # NoDir
       THEN Goto(p, "cleanup") /\ UNCHANGED <<target, staging>>
       ELSE target' = staging /\ staging' = NoDir /\ End(p, "seeded")
    /\ UNCHANGED overlap

\* The deferred RemoveAll of a run that has not committed.
RemoveFile(p) ==
    /\ init[p].at = "cleanup" /\ staging # NoDir
    /\ \/ staging.config # NoOne /\ staging' = [staging EXCEPT !.config = NoOne]
       \/ \E id \in DOMAIN staging.entries :
             staging' = [staging EXCEPT !.entries = [k \in DOMAIN @ \ {id} |-> @[k]]]
    /\ UNCHANGED <<target, init, overlap>>

\* RemoveAll gives up on what it cannot remove, and its error is discarded: the
\* run ends as it would have.  The outcome says which it was, as history.
RemoveAllFails(p) ==
    /\ init[p].at = "cleanup" /\ staging # NoDir
    /\ End(p, "uncleaned")
    /\ UNCHANGED <<target, staging, overlap>>

\* Mutant: a failing run keeps what it staged.
LeaveStaging(p) ==
    /\ init[p].at = "cleanup"
    /\ End(p, "error")
    /\ UNCHANGED <<target, staging, overlap>>

RemoveDir(p) ==
    /\ init[p].at = "cleanup" /\ staging \in {NoDir, EmptyDir}
    /\ staging' = NoDir
    /\ End(p, "error")
    /\ UNCHANGED <<target, overlap>>

Kill(p) ==
    /\ p \in Running
    /\ End(p, "killed")
    /\ UNCHANGED <<target, staging, overlap>>

LedgerInit ==
    /\ target = NoDir /\ staging = NoDir
    /\ init = [p \in Inits |-> [at |-> "idle", next |-> 1, outcome |-> "none"]]
    /\ overlap = FALSE

LedgerNext ==
    \E p \in Inits :
        \/ askPrompts(p) \/ StatTarget(p) \/ MkdirAll(p) \/ WriteConfig(p) \/ CreateDraft(p)
        \/ Rename(p) \/ RemoveFile(p) \/ RemoveDir(p) \/ RemoveAllFails(p)
        \/ Fails(p) \/ Kill(p)

LedgerSpec == LedgerInit /\ [][LedgerNext]_initVars
-----------------------------------------------------------------------------
\* Properties

\* All at once or not at all: the ledger that comes to be is the config and
\* every entry of one run, whatever killed runs and failed removals left under
\* the staging name, and wherever a clean-up was cut off.
AllOrNothing == target # NoDir => \E p \in Inits : target = Seeded(p)

\* As long as runs do not overlap, that holds, the run that reports success
\* is the one whose answers they are, and nothing is left under the staging
\* name unless some run was killed or could not remove what it had staged.
Swept == \A p \in Inits : init[p].outcome \notin {"killed", "uncleaned"}

LedgerIsWhole ==
    ~overlap => /\ AllOrNothing
                /\ \A p \in Inits : init[p].outcome = "seeded" => target = Seeded(p)
                /\ Running = {} /\ Swept => staging = NoDir
=============================================================================
