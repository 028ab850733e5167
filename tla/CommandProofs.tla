---------------------------- MODULE CommandProofs ----------------------------
(***************************************************************************)
(* Theorems about the commands that run from start to end: `dira init      *)
(* --interview`, `import adr`, `install-skill`, `map`, `brief`, `check`,   *)
(* `drift` and `why`: for any number of runs where several may overlap,    *)
(* and for every ledger, document and answer they may meet.                *)
(***************************************************************************)
EXTENDS InitLedger, ImportAdr, SkillInstall, KaziJoin, Brief, Enforcement,
        Drift, WhyChain, HooksProofs, FiniteSetTheorems, TLAPS

(***************************************************************************)
(* `dira init --interview`, by any number of processes.                    *)
(***************************************************************************)
LedgerSteps == {"idle", "stat", "mkdir", "config", "create", "rename", "cleanup", "ended"}
LedgerOutcomes == {"none", "error", "seeded", "uncleaned", "killed"}
LedgerRun == [at : LedgerSteps, next : Nat, outcome : LedgerOutcomes]

\* How far through the script a run is.
Position(run) ==
    /\ run.at \in {"idle", "stat", "mkdir", "config"} => run.next = 1
    /\ run.at = "create" => run.next \in 1 .. Len(EntryScript)
    /\ run.at = "rename" => run.next = Len(EntryScript) + 1

LedgerTypeOK ==
    /\ target \in Dirs \cup {NoDir} /\ staging \in Dirs \cup {NoDir}
    /\ init \in [Inits -> LedgerRun] /\ \A p \in Inits : Position(init[p])
    /\ overlap \in BOOLEAN

\* The first n - 1 entries of the script are there, and p's.
ScriptedBy(p, dir, n) ==
    \A k \in 1 .. Len(EntryScript) :
       k < n => EntryScript[k] \in DOMAIN dir.entries /\ dir.entries[EntryScript[k]] = p

\* What the run under way has staged, if no other run interferes.
Staged(p, run, dir) ==
    /\ run.at # "ended" => run.outcome = "none"
    /\ run.at \in {"create", "rename"} => dir \in Dirs /\ dir.config = p /\ ScriptedBy(p, dir, run.next)

LedgerAlone(p) == Running \subseteq {p}
Staging == {"config", "create", "rename", "cleanup"}

LedgerInv ==
    /\ LedgerTypeOK
    /\ ~overlap =>
         /\ AllOrNothing
         /\ \A p \in Inits : init[p].outcome = "seeded" => target = Seeded(p)
         /\ \A p \in Running : LedgerAlone(p) /\ Staged(p, init[p], staging)
         /\ \A p \in Inits : init[p].at # "ended" => init[p].outcome = "none"
         /\ Swept /\ staging # NoDir => \E p \in Inits : init[p].at \in Staging
-----------------------------------------------------------------------------
\* The script drafts something, and each draft has an id.
LEMMA ScriptFacts ==
  /\ Len(EntryScript) \in Nat /\ Len(EntryScript) >= 1
  /\ \A k \in 1 .. Len(EntryScript) : EntryScript[k] \in DraftIds
  /\ NoDir \notin Dirs
BY InitLedgerAssumption DEF DraftIds

\* What a ledger under way is made of.
LEMMA DirFacts ==
  ASSUME NEW dir \in Dirs
  PROVE  /\ dir = [config |-> dir.config, entries |-> dir.entries]
         /\ dir.config \in Inits \cup {NoOne}
         /\ DOMAIN dir.entries \in SUBSET DraftIds /\ dir.entries \in [DOMAIN dir.entries -> Inits]
BY DEF Dirs

\* An empty directory is one.
LEMMA EmptyIsADir == EmptyDir \in Dirs
<1> DEFINE none == [id \in {} |-> NoOne]
<1>1. none \in [{} -> Inits] /\ {} \in SUBSET DraftIds
  OBVIOUS
<1>2. none \in UNION {[held -> Inits] : held \in SUBSET DraftIds}
  BY <1>1
<1> HIDE DEF none
<1>3. [config |-> NoOne, entries |-> none] \in Dirs
  BY <1>2 DEF Dirs
<1>4. QED
  BY <1>3 DEF EmptyDir, none

\* It stays one when its config.toml is written,
LEMMA ConfigWritten ==
  ASSUME NEW dir \in Dirs, NEW c \in Inits \cup {NoOne}
  PROVE  LET new == [dir EXCEPT !.config = c]
         IN  new \in Dirs /\ new.config = c /\ new.entries = dir.entries
BY DirFacts DEF Dirs

\* and when its entries are.
LEMMA EntriesReplaced ==
  ASSUME NEW dir \in Dirs, NEW held \in SUBSET DraftIds, NEW drafted \in [held -> Inits]
  PROVE  LET new == [dir EXCEPT !.entries = drafted]
         IN  new \in Dirs /\ new.config = dir.config /\ new.entries = drafted
BY DirFacts DEF Dirs

\* With the whole script written, it is what the run was to leave.
LEMMA AllDrafted ==
  ASSUME NEW p \in Inits, NEW dir \in Dirs, dir.config = p,
         ScriptedBy(p, dir, Len(EntryScript) + 1)
  PROVE  dir = Seeded(p)
<1>1. DOMAIN dir.entries \in SUBSET DraftIds /\ dir.entries \in [DOMAIN dir.entries -> Inits]
  BY DirFacts
<1>2. \A k \in DraftIds : k \in DOMAIN dir.entries /\ dir.entries[k] = p
  BY ScriptFacts DEF ScriptedBy, DraftIds
<1>3. DOMAIN dir.entries = DraftIds
  BY <1>1, <1>2
<1>4. dir.entries = [k \in DraftIds |-> p]
  BY <1>1, <1>2, <1>3
<1>5. QED
  BY <1>4, DirFacts DEF Seeded

\* What a run is to leave is one.
LEMMA SeededIsADir == ASSUME NEW p \in Inits PROVE Seeded(p) \in Dirs
<1> DEFINE drafted == [k \in DraftIds |-> p]
<1>1. drafted \in UNION {[held -> Inits] : held \in SUBSET DraftIds}
  OBVIOUS
<1> HIDE DEF drafted
<1>2. [config |-> p, entries |-> drafted] \in Dirs
  BY <1>1 DEF Dirs
<1>3. QED
  BY <1>2 DEF Seeded, drafted
-----------------------------------------------------------------------------
(* A step of one run: what is left to show is about that run.              *)
LEMMA LedgerRunStep ==
  ASSUME LedgerInv, NEW p \in Inits, NEW run \in LedgerRun,
         init[p].at # "ended",
         init' = [init EXCEPT ![p] = run],
         Position(run),
         target' \in Dirs \cup {NoDir}, staging' \in Dirs \cup {NoDir}, overlap' \in BOOLEAN,
         ~overlap' =>
            /\ ~overlap /\ LedgerAlone(p)
            /\ run.at # "ended" => run.outcome = "none" /\ Staged(p, run, staging')
            /\ \/ target' = target /\ run.outcome # "seeded"
               \/ target = NoDir /\ target' = Seeded(p)
            /\ staging' # NoDir =>
                  \/ run.at \in Staging \/ run.outcome \in {"killed", "uncleaned"}
                  \/ staging # NoDir /\ init[p].at \notin Staging
  PROVE  LedgerInv'
<1>1. init \in [Inits -> LedgerRun]
  BY DEF LedgerInv, LedgerTypeOK
<1>2. init'[p] = run /\ \A r \in Inits \ {p} : init'[r] = init[r]
  BY <1>1
<1>3. LedgerTypeOK'
  BY <1>1, <1>2 DEF LedgerInv, LedgerTypeOK
<1>4. ASSUME ~overlap' PROVE ~overlap /\ LedgerAlone(p)
  BY <1>4
<1>5. ASSUME ~overlap'
      PROVE  \/ target' = target /\ run.outcome # "seeded"
             \/ target = NoDir /\ target' = Seeded(p)
  BY <1>5
<1>6. ASSUME ~overlap' PROVE AllOrNothing'
  <2>1. AllOrNothing
    BY <1>4, <1>6 DEF LedgerInv
  <2>2. CASE target' = target
    BY <2>1, <2>2 DEF AllOrNothing
  <2>3. CASE target' = Seeded(p)
    BY <2>3 DEF AllOrNothing
  <2>4. QED
    BY <1>5, <1>6, <2>2, <2>3
<1>7. ASSUME ~overlap', NEW r \in Inits, init'[r].outcome = "seeded" PROVE target' = Seeded(r)
  <2>1. init[r].outcome = "seeded" => target = Seeded(r)
    BY <1>4, <1>7 DEF LedgerInv
  <2>2. Seeded(r) # NoDir
    BY SeededIsADir, ScriptFacts
  <2>3. CASE r = p
    BY <1>2, <1>5, <1>7, <2>3
  <2>4. CASE r # p
    BY <1>2, <1>5, <1>7, <2>1, <2>2, <2>4
  <2>5. QED
    BY <2>3, <2>4
<1>8. ASSUME ~overlap' PROVE Running' \subseteq {p}
  BY <1>2, <1>4, <1>8 DEF Running, LedgerAlone
<1>9. ASSUME ~overlap', NEW r \in Running' PROVE LedgerAlone(r)' /\ Staged(r, init'[r], staging')
  <2>1. r = p /\ init'[p].at # "ended"
    BY <1>8, <1>9 DEF Running
  <2>2. QED
    BY <1>2, <1>8, <1>9, <2>1 DEF LedgerAlone
<1>10. ASSUME ~overlap', NEW r \in Inits
       PROVE  init'[r].at # "ended" => init'[r].outcome = "none"
  <2>1. CASE r = p
    BY <1>2, <1>10, <2>1
  <2>2. CASE r # p
    BY <1>2, <1>4, <1>10, <2>2 DEF LedgerInv
  <2>3. QED
    BY <2>1, <2>2
<1>11. ASSUME ~overlap', Swept', staging' # NoDir
       PROVE  \E r \in Inits : init'[r].at \in Staging
  <2>1. run.outcome \notin {"killed", "uncleaned"}
    BY <1>2, <1>11 DEF Swept
  <2>2. CASE run.at \in Staging
    BY <1>2, <2>2
  <2>3. CASE staging # NoDir /\ init[p].at \notin Staging
    <3>1. init[p].outcome = "none"
      BY <1>4, <1>11 DEF LedgerInv
    <3>2. Swept
      BY <1>2, <1>11, <3>1 DEF Swept
    <3>3. PICK r \in Inits : init[r].at \in Staging
      BY <1>4, <1>11, <2>3, <3>2 DEF LedgerInv
    <3>4. r # p
      BY <2>3, <3>3
    <3>5. QED
      BY <1>2, <3>3, <3>4
  <2>4. QED
    BY <1>11, <2>1, <2>2, <2>3
<1>12. QED
  BY <1>3, <1>6, <1>7, <1>9, <1>10, <1>11 DEF LedgerInv

\* What is known of a run that is under way.
LEMMA LedgerUnderWay ==
  ASSUME LedgerInv, NEW p \in Inits, init[p].at \notin {"idle", "ended"}
  PROVE  /\ init[p] \in LedgerRun /\ p \in Running /\ Position(init[p])
         /\ overlap \in BOOLEAN
         /\ target \in Dirs \cup {NoDir} /\ staging \in Dirs \cup {NoDir}
         /\ ~overlap => /\ LedgerAlone(p) /\ Staged(p, init[p], staging)
                        /\ init[p].outcome = "none"
<1>1. p \in Running
  BY DEF Running
<1>2. QED
  BY <1>1 DEF LedgerInv, LedgerTypeOK

\* A run that goes on keeps its place in the script,
LEMMA WentTo ==
  ASSUME NEW old \in LedgerRun, NEW at \in LedgerSteps
  PROVE  LET run == [old EXCEPT !.at = at]
         IN  run \in LedgerRun /\ run.at = at /\ run.next = old.next /\ run.outcome = old.outcome
BY DEF LedgerRun

\* or moves it,
LEMMA WentFurther ==
  ASSUME NEW old \in LedgerRun, NEW at \in LedgerSteps, NEW further \in Nat
  PROVE  LET run == [old EXCEPT !.next = further, !.at = at]
         IN  /\ run \in LedgerRun /\ run.at = at /\ run.next = further
             /\ run.outcome = old.outcome
BY DEF LedgerRun

\* or ends.
LEMMA Ended ==
  ASSUME NEW old \in LedgerRun, NEW outcome \in LedgerOutcomes
  PROVE  LET run == [old EXCEPT !.at = "ended", !.outcome = outcome]
         IN  run \in LedgerRun /\ run.at = "ended" /\ run.outcome = outcome
BY DEF LedgerRun, LedgerSteps
-----------------------------------------------------------------------------
\* The prompts are answered, or not.
LEMMA AskPromptsStep == ASSUME LedgerInv, NEW p \in Inits, askPrompts(p) PROVE LedgerInv'
<1>1. init[p] \in LedgerRun /\ init[p].at = "idle" /\ init[p].next = 1
  BY DEF LedgerInv, LedgerTypeOK, Position, askPrompts
<1>2. ~overlap' => ~overlap /\ LedgerAlone(p) /\ init[p].outcome = "none"
  BY <1>1 DEF askPrompts, LedgerAlone, LedgerInv
<1>3. /\ target' = target /\ staging' = staging /\ overlap' \in BOOLEAN
      /\ target \in Dirs \cup {NoDir} /\ staging \in Dirs \cup {NoDir}
  BY DEF askPrompts, LedgerInv, LedgerTypeOK
<1> DEFINE asked == [init[p] EXCEPT !.at = "stat"]
           ended == [init[p] EXCEPT !.at = "ended", !.outcome = "error"]
<1>4. PICK run \in {asked, ended} : init' = [init EXCEPT ![p] = run]
  BY DEF askPrompts, Goto, End
<1>5. asked \in LedgerRun /\ asked.at = "stat" /\ asked.next = init[p].next
      /\ asked.outcome = init[p].outcome
  BY <1>1, WentTo DEF LedgerSteps
<1>6. ended \in LedgerRun /\ ended.at = "ended" /\ ended.outcome = "error"
  BY <1>1, Ended DEF LedgerOutcomes
<1> HIDE DEF asked, ended
<1>7. /\ run \in LedgerRun
      /\ \/ run.at = "stat" /\ run.next = init[p].next /\ run.outcome = init[p].outcome
         \/ run.at = "ended" /\ run.outcome = "error"
  BY <1>4, <1>5, <1>6
<1>8. run.at \notin Staging /\ init[p].at \notin Staging
  BY <1>1, <1>7 DEF Staging
<1>9. run.at = "stat" => Staged(p, run, staging') \/ overlap'
  BY <1>2, <1>7 DEF Staged
<1>10. Position(run)
  BY <1>1, <1>7 DEF Position
<1>11. QED
  BY <1>1, <1>2, <1>3, <1>4, <1>7, <1>8, <1>9, <1>10, LedgerRunStep

\* A step to another point of the run that leaves the target alone.
LEMMA GotoStep ==
  ASSUME LedgerInv, NEW p \in Inits, NEW at \in LedgerSteps \ {"idle", "ended"}, Goto(p, at),
         init[p].at \notin {"idle", "ended"},
         target' = target, staging' \in Dirs \cup {NoDir}, overlap' = overlap,
         Position([init[p] EXCEPT !.at = at]),
         ~overlap => Staged(p, [init[p] EXCEPT !.at = at], staging'),
         staging' # NoDir => at \in Staging \/ (staging # NoDir /\ init[p].at \notin Staging)
  PROVE  LedgerInv'
<1> DEFINE run == [init[p] EXCEPT !.at = at]
<1>1. run \in LedgerRun /\ run.at = at /\ run.outcome = init[p].outcome
  BY LedgerUnderWay, WentTo
<1>2. init' = [init EXCEPT ![p] = run]
  BY DEF Goto
<1>3. Position(run) /\ (~overlap => Staged(p, run, staging'))
  OBVIOUS
<1> HIDE DEF run
<1>4. /\ overlap' \in BOOLEAN /\ target' \in Dirs \cup {NoDir}
      /\ ~overlap => LedgerAlone(p) /\ run.outcome = "none"
  BY <1>1, LedgerUnderWay
<1>5. QED
  BY <1>1, <1>2, <1>3, <1>4, LedgerRunStep

\* A run that goes to its clean-up has nothing to account for.
LEMMA CleanupStep ==
  ASSUME LedgerInv, NEW p \in Inits, Goto(p, "cleanup"), init[p].at \notin {"idle", "ended"},
         UNCHANGED <<target, staging, overlap>>
  PROVE  LedgerInv'
<1> DEFINE run == [init[p] EXCEPT !.at = "cleanup"]
<1>1. run.at = "cleanup" /\ run.outcome = init[p].outcome
  BY LedgerUnderWay, WentTo DEF LedgerSteps
<1> HIDE DEF run
<1>2. Position(run) /\ (~overlap => Staged(p, run, staging'))
  BY <1>1, LedgerUnderWay DEF Position, Staged
<1>3. "cleanup" \in LedgerSteps \ {"idle", "ended"} /\ "cleanup" \in Staging
  BY DEF LedgerSteps, Staging
<1>4. staging' \in Dirs \cup {NoDir}
  BY LedgerUnderWay
<1>5. QED
  BY <1>2, <1>3, <1>4, GotoStep DEF run

\* A run that ends without success, before it staged anything or when what it
\* staged is gone.
LEMMA EndStep ==
  ASSUME LedgerInv, NEW p \in Inits, NEW outcome \in {"error", "uncleaned", "killed"}, End(p, outcome),
         init[p].at \notin {"idle", "ended"},
         target' = target, staging' \in Dirs \cup {NoDir}, overlap' = overlap,
         \/ staging' = NoDir \/ outcome \in {"killed", "uncleaned"}
         \/ staging # NoDir /\ init[p].at \notin Staging
  PROVE  LedgerInv'
<1> DEFINE run == [init[p] EXCEPT !.at = "ended", !.outcome = outcome]
<1>1. run \in LedgerRun /\ run.at = "ended" /\ run.outcome = outcome
  <2>1. init[p] \in LedgerRun
    BY LedgerUnderWay
  <2>2. outcome \in LedgerOutcomes
    BY DEF LedgerOutcomes
  <2>3. QED
    BY <2>1, <2>2, Ended
<1>2. init' = [init EXCEPT ![p] = run]
  BY DEF End
<1> HIDE DEF run
<1>3. /\ overlap' \in BOOLEAN /\ target' \in Dirs \cup {NoDir} /\ (~overlap => LedgerAlone(p))
      /\ Position(run)
  BY <1>1, LedgerUnderWay DEF Position
<1>4. QED
  BY <1>1, <1>2, <1>3, LedgerRunStep

\* The run looks for a ledger.
LEMMA StatTargetStep == ASSUME LedgerInv, NEW p \in Inits, StatTarget(p) PROVE LedgerInv'
<1>1. init[p].at = "stat" /\ UNCHANGED <<target, staging, overlap>>
  BY DEF StatTarget
<1>2. "stat" \notin Staging /\ staging \in Dirs \cup {NoDir}
  BY <1>1, LedgerUnderWay DEF Staging
<1>3. CASE End(p, "error")
  BY <1>1, <1>2, <1>3, EndStep
<1>4. CASE Goto(p, "mkdir")
  <2> DEFINE run == [init[p] EXCEPT !.at = "mkdir"]
  <2>1. run.at = "mkdir" /\ run.next = init[p].next /\ run.outcome = init[p].outcome
    BY <1>1, LedgerUnderWay, WentTo DEF LedgerSteps
  <2> HIDE DEF run
  <2>2. Position(run) /\ (~overlap => Staged(p, run, staging'))
    BY <1>1, <2>1, LedgerUnderWay DEF Position, Staged
  <2>3. "mkdir" \in LedgerSteps \ {"idle", "ended"}
    BY DEF LedgerSteps
  <2>4. QED
    BY <1>1, <1>2, <1>4, <2>2, <2>3, GotoStep DEF run
<1>5. QED
  BY <1>3, <1>4 DEF StatTarget

\* The staging directory is made.
LEMMA MkdirAllStep == ASSUME LedgerInv, NEW p \in Inits, MkdirAll(p) PROVE LedgerInv'
<1> DEFINE run == [init[p] EXCEPT !.at = "config"]
<1>1. /\ init[p].at = "mkdir" /\ Goto(p, "config") /\ target' = target /\ overlap' = overlap
      /\ staging' = IF staging = NoDir THEN EmptyDir ELSE staging
  BY DEF MkdirAll
<1>2. run.at = "config" /\ run.next = init[p].next /\ run.outcome = init[p].outcome
  BY <1>1, LedgerUnderWay, WentTo DEF LedgerSteps
<1> HIDE DEF run
<1>3. Position(run) /\ (~overlap => Staged(p, run, staging'))
  BY <1>1, <1>2, LedgerUnderWay DEF Position, Staged
<1>4. staging' \in Dirs \cup {NoDir}
  BY <1>1, LedgerUnderWay, EmptyIsADir
<1>5. "config" \in LedgerSteps \ {"idle", "ended"} /\ "config" \in Staging
  BY DEF LedgerSteps, Staging
<1>6. QED
  BY <1>1, <1>3, <1>4, <1>5, GotoStep DEF run

\* config.toml is written.
LEMMA WriteConfigStep == ASSUME LedgerInv, NEW p \in Inits, WriteConfig(p) PROVE LedgerInv'
<1>1. init[p].at = "config" /\ target' = target /\ overlap' = overlap
  BY DEF WriteConfig
<1>2. CASE staging = NoDir
  BY <1>1, <1>2, CleanupStep DEF WriteConfig
<1>3. CASE staging # NoDir
  <2> DEFINE run == [init[p] EXCEPT !.at = "create"]
  <2>1. staging \in Dirs
    BY <1>1, <1>3, LedgerUnderWay
  <2>2. staging' \in Dirs /\ staging'.config = p /\ Goto(p, "create")
    BY <1>3, <2>1, ConfigWritten DEF WriteConfig
  <2>3. run.at = "create" /\ run.next = 1 /\ run.outcome = init[p].outcome
    BY <1>1, LedgerUnderWay, WentTo DEF LedgerSteps, Position
  <2> HIDE DEF run
  <2>4. ASSUME ~overlap PROVE Staged(p, run, staging')
    <3>1. run.outcome = "none"
      BY <1>1, <2>3, <2>4, LedgerUnderWay
    <3>2. ScriptedBy(p, staging', 1)
      BY DEF ScriptedBy
    <3>3. QED
      BY <2>2, <2>3, <3>1, <3>2 DEF Staged
  <2>5. "create" \in LedgerSteps \ {"idle", "ended"} /\ "create" \in Staging /\ Position(run)
    BY <2>3, ScriptFacts DEF LedgerSteps, Staging, Position
  <2>6. QED
    BY <1>1, <2>2, <2>4, <2>5, GotoStep DEF run
<1>4. QED
  BY <1>2, <1>3

\* One draft is written.
LEMMA CreateDraftStep == ASSUME LedgerInv, NEW p \in Inits, CreateDraft(p) PROVE LedgerInv'
<1> DEFINE n == init[p].next
           id == EntryScript[n]
           there == IF staging = NoDir THEN EmptyDir ELSE staging
           held == DOMAIN there.entries
           drafted == [k \in held \cup {id} |-> IF k = id THEN p ELSE there.entries[k]]
           at == IF n = Len(EntryScript) THEN "rename" ELSE "create"
           following == n + 1
           run == [init[p] EXCEPT !.next = following, !.at = at]
<1>1. init[p].at = "create" /\ target' = target /\ overlap' = overlap
  BY DEF CreateDraft
<1>2. CASE id \in held
  BY <1>1, <1>2, CleanupStep DEF CreateDraft
<1>3. CASE id \notin held
  <2>1. /\ init[p] \in LedgerRun /\ there \in Dirs /\ n \in Nat
        /\ n \in 1 .. Len(EntryScript)
    BY <1>1, LedgerUnderWay, EmptyIsADir DEF LedgerRun, Position
  <2>2. staging' = [there EXCEPT !.entries = drafted] /\ init' = [init EXCEPT ![p] = run]
    BY <1>3 DEF CreateDraft
  <2>3. /\ overlap \in BOOLEAN /\ target \in Dirs \cup {NoDir}
        /\ ~overlap => /\ LedgerAlone(p) /\ Staged(p, init[p], staging)
                       /\ init[p].outcome = "none"
    BY <1>1, LedgerUnderWay
  <2>4. /\ at \in {"create", "rename"} /\ at \in Staging
        /\ at = "rename" => n = Len(EntryScript)
        /\ at = "create" => n # Len(EntryScript)
    BY DEF Staging
  <2>5. held \in SUBSET DraftIds /\ there.entries \in [held -> Inits] /\ id \in DraftIds
    BY <2>1, DirFacts, ScriptFacts
  <2>6. ~overlap => there = staging
    BY <1>1, <2>3, ScriptFacts DEF Staged
  <2>7. id = EntryScript[n] /\ n = init[p].next
    OBVIOUS
  <2>8. /\ run \in LedgerRun /\ run.at = at /\ run.next = n + 1
        /\ run.outcome = init[p].outcome
    <3>1. at \in LedgerSteps /\ following \in Nat
      BY <2>1, <2>4 DEF LedgerSteps
    <3> HIDE DEF at, following
    <3>2. run \in LedgerRun /\ run.at = at /\ run.next = following
          /\ run.outcome = init[p].outcome
      BY <2>1, <3>1, WentFurther
    <3>3. QED
      BY <3>2 DEF following
  <2> HIDE DEF at, there, id, held, n
  <2> HIDE DEF run
  <2>9. Position(run)
    BY <2>1, <2>4, <2>8, ScriptFacts DEF Position
  <2>10. held \cup {id} \in SUBSET DraftIds /\ drafted \in [held \cup {id} -> Inits]
    BY <2>5
  <2>11. /\ DOMAIN drafted = held \cup {id} /\ drafted[id] = p
         /\ \A k \in held \ {id} : drafted[k] = there.entries[k]
    OBVIOUS
  <2> HIDE DEF drafted
  <2>12. staging' \in Dirs /\ staging'.config = there.config /\ staging'.entries = drafted
    BY <2>1, <2>2, <2>10, EntriesReplaced
  <2>13. ASSUME ~overlap PROVE Staged(p, run, staging')
    <3>1. there.config = p /\ ScriptedBy(p, there, n)
      BY <1>1, <2>3, <2>6, <2>7, <2>13 DEF Staged
    <3>2. ScriptedBy(p, staging', n + 1)
      <4> SUFFICES ASSUME NEW k \in 1 .. Len(EntryScript), k < n + 1
                   PROVE  EntryScript[k] \in DOMAIN drafted /\ drafted[EntryScript[k]] = p
        BY <2>12 DEF ScriptedBy
      <4>1. CASE EntryScript[k] = id
        BY <2>11, <4>1
      <4>2. CASE EntryScript[k] # id
        <5>1. k < n
          BY <2>1, <2>7, <4>2
        <5>2. EntryScript[k] \in held /\ there.entries[EntryScript[k]] = p
          BY <3>1, <5>1 DEF ScriptedBy, held
        <5>3. QED
          BY <2>11, <4>2, <5>2
      <4>3. QED
        BY <4>1, <4>2
    <3>3. QED
      BY <2>3, <2>8, <2>12, <2>13, <3>1, <3>2 DEF Staged
  <2>14. QED
    BY <1>1, <2>2, <2>3, <2>4, <2>8, <2>9, <2>12, <2>13, LedgerRunStep
<1>4. QED
  BY <1>2, <1>3

\* The staging directory takes its name.
LEMMA RenameStep == ASSUME LedgerInv, NEW p \in Inits, Rename(p) PROVE LedgerInv'
<1> DEFINE run == [init[p] EXCEPT !.at = "ended", !.outcome = "seeded"]
<1>1. init[p].at = "rename" /\ overlap' = overlap
  BY DEF Rename
<1>2. CASE staging = NoDir \/ target # NoDir
  BY <1>1, <1>2, CleanupStep DEF Rename
<1>3. CASE staging # NoDir /\ target = NoDir
  <2>1. target' = staging /\ staging' = NoDir /\ init' = [init EXCEPT ![p] = run]
    BY <1>3 DEF Rename, End
  <2>2. run \in LedgerRun /\ run.at = "ended" /\ run.outcome = "seeded"
    BY <1>1, LedgerUnderWay, Ended DEF LedgerOutcomes
  <2> HIDE DEF run
  <2>3. ~overlap => staging = Seeded(p)
    BY <1>1, LedgerUnderWay, AllDrafted DEF Staged, Position
  <2>4. /\ overlap \in BOOLEAN /\ staging \in Dirs \cup {NoDir}
        /\ ~overlap => LedgerAlone(p)
        /\ Position(run)
    BY <1>1, <2>2, LedgerUnderWay DEF Position
  <2>5. QED
    BY <1>1, <1>3, <2>1, <2>2, <2>3, <2>4, LedgerRunStep
<1>4. QED
  BY <1>2, <1>3

\* A failed run clears up.
LEMMA RemoveFileStep == ASSUME LedgerInv, NEW p \in Inits, RemoveFile(p) PROVE LedgerInv'
<1>1. /\ init[p].at = "cleanup" /\ staging # NoDir
      /\ target' = target /\ overlap' = overlap /\ init' = init
  BY DEF RemoveFile
<1>2. staging \in Dirs
  BY <1>1, LedgerUnderWay
<1>3. staging' \in Dirs
  <2>1. CASE staging' = [staging EXCEPT !.config = NoOne]
    BY <1>2, <2>1, ConfigWritten
  <2>2. ASSUME NEW id \in DOMAIN staging.entries,
               staging' = [staging EXCEPT !.entries = [k \in DOMAIN @ \ {id} |-> @[k]]]
        PROVE  staging' \in Dirs
    <3> DEFINE held == DOMAIN staging.entries \ {id}
               drafted == [k \in held |-> staging.entries[k]]
    <3>1. held \in SUBSET DraftIds /\ drafted \in [held -> Inits]
      BY <1>2, DirFacts
    <3>2. staging' = [staging EXCEPT !.entries = drafted]
      BY <2>2
    <3> HIDE DEF held, drafted
    <3>3. QED
      BY <1>2, <3>1, <3>2, EntriesReplaced
  <2>3. QED
    BY <2>1, <2>2 DEF RemoveFile
<1>4. init \in [Inits -> LedgerRun] /\ init' = [init EXCEPT ![p] = init[p]]
  BY <1>1 DEF LedgerInv, LedgerTypeOK
<1>5. ~overlap => LedgerAlone(p) /\ init[p].outcome = "none" /\ Staged(p, init[p], staging')
  BY <1>1, LedgerUnderWay DEF Staged
<1>6. /\ overlap \in BOOLEAN /\ target \in Dirs \cup {NoDir} /\ "cleanup" \in Staging
      /\ Position(init[p])
  BY <1>1, LedgerUnderWay DEF Staging
<1>7. QED
  BY <1>1, <1>3, <1>4, <1>5, <1>6, LedgerRunStep

\* No run has begun.
LEMMA LedgerInitInvariant == LedgerInit => LedgerInv
<1> SUFFICES ASSUME LedgerInit PROVE LedgerInv
  OBVIOUS
<1>1. \A p \in Inits : init[p] \in LedgerRun /\ init[p].at = "idle" /\ init[p].outcome = "none"
                       /\ init[p].next = 1
  BY DEF LedgerInit, LedgerRun, LedgerSteps, LedgerOutcomes
<1>2. init \in [Inits -> LedgerRun]
  BY <1>1 DEF LedgerInit
<1>3. Running = {} /\ \A p \in Inits : Position(init[p])
  BY <1>1 DEF Running, Position
<1>4. QED
  BY <1>1, <1>2, <1>3 DEF LedgerInit, LedgerInv, LedgerTypeOK, AllOrNothing

\* Every step keeps the invariant.
LEMMA LedgerStepInvariant == LedgerInv /\ [LedgerNext]_initVars => LedgerInv'
<1> SUFFICES ASSUME LedgerInv, [LedgerNext]_initVars PROVE LedgerInv'
  OBVIOUS
<1>1. ASSUME NEW p \in Inits, askPrompts(p) \/ StatTarget(p) \/ MkdirAll(p) \/ WriteConfig(p)
      PROVE  LedgerInv'
  BY <1>1, AskPromptsStep, StatTargetStep, MkdirAllStep, WriteConfigStep
<1>2. ASSUME NEW p \in Inits, CreateDraft(p) \/ Rename(p) \/ RemoveFile(p) PROVE LedgerInv'
  BY <1>2, CreateDraftStep, RenameStep, RemoveFileStep
<1>3. ASSUME NEW p \in Inits, RemoveDir(p) \/ RemoveAllFails(p) PROVE LedgerInv'
  <2>1. init[p].at \notin {"idle", "ended"} /\ staging \in Dirs \cup {NoDir}
    BY <1>3 DEF RemoveDir, RemoveAllFails, LedgerInv, LedgerTypeOK
  <2>2. CASE RemoveDir(p)
    BY <2>1, <2>2, EndStep DEF RemoveDir
  <2>3. CASE RemoveAllFails(p)
    BY <2>1, <2>3, EndStep DEF RemoveAllFails
  <2>4. QED
    BY <1>3, <2>2, <2>3
<1>4. ASSUME NEW p \in Inits, Fails(p) PROVE LedgerInv'
  BY <1>4, CleanupStep DEF Fails
<1>5. ASSUME NEW p \in Inits, Kill(p) PROVE LedgerInv'
  <2>1. init[p].at \notin {"idle", "ended"} /\ staging \in Dirs \cup {NoDir}
    BY <1>5 DEF Kill, Running, LedgerInv, LedgerTypeOK
  <2>2. QED
    BY <1>5, <2>1, EndStep DEF Kill
<1>6. CASE UNCHANGED initVars
  BY <1>6 DEF initVars, LedgerInv, LedgerTypeOK, AllOrNothing, Running, LedgerAlone, Staged, ScriptedBy, Swept, Position
<1>7. QED
  BY <1>1, <1>2, <1>3, <1>4, <1>5, <1>6 DEF LedgerNext

\* The inductive invariant: while no two runs overlapped, the run under way has
\* staged what it counts on, and whoever has left files behind was killed or could
\* not remove them.
THEOREM LedgerInvariance == LedgerSpec => []LedgerInv
<1>1. QED
  BY LedgerInitInvariant, LedgerStepInvariant, PTL DEF LedgerSpec

\* Whatever any number of runs that do not overlap left behind when they were
\* killed or could not clear up, the ledger that comes to be is one run's, whole,
\* and the run that says so is that run; a run that fails, wherever it fails,
\* leaves nothing under the staging name unless its removal fails too.
THEOREM WholeLedger == LedgerSpec => []LedgerIsWhole
<1>1. LedgerInv => LedgerIsWhole
  <2> SUFFICES ASSUME LedgerInv, ~overlap PROVE LedgerIsWhole
    BY DEF LedgerIsWhole
  <2>1. ASSUME Running = {}, Swept PROVE staging = NoDir
    <3>1. \A p \in Inits : init[p].at \notin Staging
      BY <2>1 DEF Running, Staging
    <3>2. QED
      BY <2>1, <3>1 DEF LedgerInv
  <2>2. QED
    BY <2>1 DEF LedgerInv, LedgerIsWhole
<1>2. QED
  BY <1>1, LedgerInvariance, PTL

-----------------------------------------------------------------------------
(***************************************************************************)
(* `dira import adr`, by any number of processes.                          *)
(***************************************************************************)
Outcomes == {"none", "error", "indexed", "declined", "imported", "killed"}
ImportRun == [at : {"idle", "scan", "list", "add", "ended"}, todo : SUBSET Nat, docs : SUBSET Keys,
            confirmed : BOOLEAN, known : SUBSET Keys, drafts : SUBSET Keys, gone : SUBSET Keys,
            outcome : Outcomes]

ImportTypeOK ==
    /\ corpus \in [Paths -> Documents \cup {NoDocument}]
    /\ imports \in [EntryIds -> ImportedEntries \cup {NoImport}]
    /\ import \in [Importers -> ImportRun]
    /\ overlapping \in BOOLEAN

ImportedBy(held) == {held[id].key : id \in {n \in EntryIds : held[n] # NoImport}}

\* What a run has left to do, and what it takes for done, is what was in the ledger
\* since it listed it.
Accounts(run, held) ==
    /\ run.at # "ended" => run.outcome = "none"
    /\ run.at = "scan" => run.todo \subseteq Paths /\ run.known = {}
    /\ run.at = "list" => run.known \subseteq ImportedBy(held) \cup run.gone
    /\ run.at = "add" => run.docs \subseteq run.drafts \cup ImportedBy(held) \cup run.gone

\* The listing has every entry's key, or will read it; no draft is in the ledger.
Lists(run, held) ==
    /\ run.at = "list" =>
          \A id \in EntryIds : held[id] # NoImport => id \in run.todo \/ held[id].key \in run.known
    /\ run.at = "add" => run.drafts \cap ImportedBy(held) = {}

ImportAlone(p) == Importing \subseteq {p}

ImportInv ==
    /\ ImportTypeOK
    /\ \A p \in Importers : Accounts(import[p], imports)
    /\ ~overlapping => \A p \in Importers :
          Lists(import[p], imports) /\ (p \in Importing => ImportAlone(p))
    /\ ImportedOnce
-----------------------------------------------------------------------------
\* The draft that is first in its path is one of the drafts.
LEMMA FirstIsADraft ==
  ASSUME ImportTypeOK, NEW p \in Importers, import[p].drafts # {}
  PROVE  FirstDraft(p) \in import[p].drafts /\ FirstDraft(p) \in Keys
<1> DEFINE drafts == import[p].drafts
           paths == {d.path : d \in drafts}
<1>1. drafts \in SUBSET Keys
  BY DEF ImportTypeOK, ImportRun
<1>2. paths \in SUBSET Nat /\ paths # {}
  BY <1>1, ImportAssumption DEF Keys, Key
<1>3. Min(paths) \in paths /\ \A n \in paths : Min(paths) <= n
  BY <1>2, MinIsIn
<1>4. PICK d \in drafts : d.path = Min(paths)
  BY <1>3
<1>5. \A e \in drafts : d.path <= e.path
  BY <1>3, <1>4
<1>6. QED
  BY <1>1, <1>5 DEF FirstDraft

\* An imported entry has a key.
LEMMA EntryHasKey == \A e \in ImportedEntries : e # NoImport /\ e.key \in Keys
BY ImportAssumption DEF ImportedEntries

\* A run that stops is an ended run.
LEMMA StoppedRun ==
  ASSUME NEW outcome \in Outcomes
  PROVE  LET run == [NotBegun EXCEPT !.at = "ended", !.outcome = outcome]
         IN  run \in ImportRun /\ run.at = "ended" /\ run.outcome = outcome
BY DEF NotBegun, ImportRun
-----------------------------------------------------------------------------
(* A step of one run that leaves the ledger alone.                         *)
LEMMA ImportRunStep ==
  ASSUME ImportInv, NEW p \in Importers, NEW run \in ImportRun, Become(p, run),
         corpus' = corpus, imports' = imports, overlapping' \in BOOLEAN,
         Accounts(run, imports),
         ~overlapping' => /\ ~overlapping
                          /\ Lists(run, imports)
                          /\ run.at = "ended" \/ ImportAlone(p)
  PROVE  ImportInv'
<1>1. import \in [Importers -> ImportRun] /\ import' = [import EXCEPT ![p] = run]
  BY DEF ImportInv, ImportTypeOK, Become
<1>2. import'[p] = run /\ \A r \in Importers \ {p} : import'[r] = import[r]
  BY <1>1
<1>3. ImportTypeOK'
  BY <1>1 DEF ImportInv, ImportTypeOK
<1>4. \A r \in Importers : Accounts(import'[r], imports')
  BY <1>2 DEF ImportInv
<1>5. ASSUME ~overlapping', NEW r \in Importers
      PROVE  Lists(import'[r], imports') /\ (r \in Importing' => ImportAlone(r)')
  BY <1>2, <1>5 DEF ImportInv, Importing, ImportAlone
<1>6. ImportedOnce'
  BY DEF ImportInv, ImportedOnce, Present
<1>7. QED
  BY <1>3, <1>4, <1>5, <1>6 DEF ImportInv

\* A run stops, whatever for.
LEMMA StopStep ==
  ASSUME ImportInv, NEW p \in Importers, NEW outcome \in Outcomes, Stop(p, outcome), LedgerStays
  PROVE  ImportInv'
<1> DEFINE run == [NotBegun EXCEPT !.at = "ended", !.outcome = outcome]
<1>1. run \in ImportRun /\ run.at = "ended"
  BY StoppedRun
<1>2. Become(p, run) /\ corpus' = corpus /\ imports' = imports /\ overlapping' = overlapping
  BY DEF Stop, LedgerStays
<1> HIDE DEF run
<1>3. Accounts(run, imports) /\ Lists(run, imports)
  BY <1>1 DEF Accounts, Lists
<1>4. overlapping' \in BOOLEAN
  BY <1>2 DEF ImportInv, ImportTypeOK
<1>5. QED
  BY <1>1, <1>2, <1>3, <1>4, ImportRunStep

\* The directory is listed.
LEMMA ScanDirectoryStep == ASSUME ImportInv, NEW p \in Importers, scanDirectory(p) PROVE ImportInv'
<1> DEFINE names == {n \in Paths : corpus[n] # NoDocument}
           run == [NotBegun EXCEPT !.at = "scan", !.todo = names]
<1>1. names \in SUBSET Nat /\ names \subseteq Paths
  BY ImportAssumption
<1>2. run \in ImportRun /\ run.at = "scan" /\ run.outcome = "none" /\ run.todo = names
      /\ run.known = {}
  <2> HIDE DEF names
  <2>1. QED
    BY <1>1 DEF NotBegun, ImportRun, Outcomes
<1>3. /\ Become(p, run) /\ corpus' = corpus /\ imports' = imports
      /\ overlapping' = (overlapping \/ Importing # {})
  BY DEF scanDirectory
<1> HIDE DEF run, names
<1>4. Accounts(run, imports) /\ Lists(run, imports)
  BY <1>1, <1>2 DEF Accounts, Lists
<1>5. overlapping' \in BOOLEAN /\ (~overlapping' => ~overlapping /\ ImportAlone(p))
  BY <1>3 DEF ImportInv, ImportTypeOK, ImportAlone
<1>6. QED
  BY <1>2, <1>3, <1>4, <1>5, ImportRunStep

\* What holds of a run that is under way.
LEMMA ImportUnderWay ==
  ASSUME ImportInv, NEW p \in Importers, import[p].at \in {"scan", "list", "add"}
  PROVE  /\ import[p] \in ImportRun /\ import[p].outcome = "none" /\ Accounts(import[p], imports)
         /\ overlapping \in BOOLEAN /\ p \in Importing
         /\ ~overlapping => Lists(import[p], imports) /\ ImportAlone(p)
<1>1. p \in Importing
  BY DEF Importing
<1>2. QED
  BY <1>1 DEF ImportInv, ImportTypeOK, Accounts

\* One document is read.
LEMMA ScanDocumentStep == ASSUME ImportInv, NEW p \in Importers, ScanDocument(p) PROVE ImportInv'
<1> DEFINE path == Min(import[p].todo)
           key == Key(path, corpus[path])
           run == [import[p] EXCEPT !.todo = @ \ {path}, !.docs = @ \cup {key}]
<1>1. import[p] \in ImportRun /\ import[p].at = "scan" /\ import[p].outcome = "none"
  BY ImportUnderWay DEF ScanDocument
<1>2. CASE corpus[path] = NoDocument
  BY <1>2, StopStep DEF ScanDocument, Outcomes
<1>3. CASE corpus[path] # NoDocument
  <2>1. Become(p, run) /\ corpus' = corpus /\ imports' = imports /\ overlapping' = overlapping
    BY <1>3 DEF ScanDocument, LedgerStays
  <2>2. import[p].todo \in SUBSET Paths /\ import[p].todo # {} /\ import[p].known = {}
    BY <1>1, ImportUnderWay DEF Accounts, ScanDocument
  <2>3. path \in Paths
    BY <2>2, MinIsIn, ImportAssumption
  <2>4. corpus[path] \in Documents
    BY <2>3, <1>3 DEF ImportInv, ImportTypeOK
  <2>5. key \in Keys
    BY <2>3, <2>4 DEF Keys
  <2> HIDE DEF path, key
  <2>6. /\ run \in ImportRun /\ run.at = "scan" /\ run.outcome = "none"
        /\ run.todo = import[p].todo \ {path} /\ run.known = import[p].known
    BY <1>1, <2>5 DEF ImportRun
  <2> HIDE DEF run
  <2>7. Accounts(run, imports) /\ Lists(run, imports)
    BY <2>2, <2>6 DEF Accounts, Lists
  <2>8. overlapping \in BOOLEAN /\ (~overlapping => ImportAlone(p))
    BY <1>1, ImportUnderWay
  <2>9. QED
    BY <2>1, <2>6, <2>7, <2>8, ImportRunStep
<1>4. QED
  BY <1>2, <1>3

\* The operator is asked.
LEMMA ReadConfirmationStep ==
  ASSUME ImportInv, NEW p \in Importers, readConfirmation(p) PROVE ImportInv'
<1> DEFINE reasoned == {d \in import[p].docs : WithReason(d.content)}
<1>1. import[p] \in ImportRun /\ import[p].at = "scan" /\ import[p].outcome = "none"
  BY ImportUnderWay DEF readConfirmation
<1>2. PICK confirmed \in BOOLEAN :
          IF reasoned = {} THEN Stop(p, IF confirmed THEN "indexed" ELSE "declined")
          ELSE Become(p, [import[p] EXCEPT !.at = "list", !.docs = reasoned,
                                           !.confirmed = confirmed, !.todo = Present])
  BY DEF readConfirmation
<1>3. CASE reasoned = {}
  <2>1. LedgerStays
    BY DEF readConfirmation
  <2>2. PICK outcome \in Outcomes : Stop(p, outcome)
    BY <1>2, <1>3 DEF Outcomes
  <2>3. QED
    BY <2>1, <2>2, StopStep
<1>4. CASE reasoned # {}
  <2> DEFINE run == [import[p] EXCEPT !.at = "list", !.docs = reasoned,
                                      !.confirmed = confirmed, !.todo = Present]
  <2>1. Become(p, run) /\ corpus' = corpus /\ imports' = imports /\ overlapping' = overlapping
    BY <1>2, <1>4 DEF readConfirmation, LedgerStays
  <2>2. reasoned \in SUBSET Keys
    BY <1>1 DEF ImportRun
  <2>3. Present \in SUBSET Nat
    BY ImportAssumption DEF Present
  <2>4. import[p].known = {}
    BY <1>1, ImportUnderWay DEF Accounts
  <2> HIDE DEF reasoned
  <2>5. run \in ImportRun /\ run.at = "list" /\ run.outcome = "none" /\ run.todo = Present
        /\ run.known = {}
    BY <1>1, <2>2, <2>3, <2>4 DEF ImportRun
  <2> HIDE DEF run
  <2>6. Accounts(run, imports) /\ Lists(run, imports)
    BY <2>5 DEF Accounts, Lists, Present
  <2>7. overlapping \in BOOLEAN /\ (~overlapping => ImportAlone(p))
    BY <1>1, ImportUnderWay
  <2>8. QED
    BY <2>1, <2>5, <2>6, <2>7, ImportRunStep
<1>5. QED
  BY <1>3, <1>4

\* One entry is read for its key.
LEMMA LoadAlreadyImportedStep ==
  ASSUME ImportInv, NEW p \in Importers, loadAlreadyImported(p) PROVE ImportInv'
<1> DEFINE id == Min(import[p].todo)
           key == imports[id].key
           run == [import[p] EXCEPT !.todo = @ \ {id}, !.known = @ \cup {key}]
<1>1. import[p] \in ImportRun /\ import[p].at = "list" /\ import[p].outcome = "none"
  BY ImportUnderWay DEF loadAlreadyImported
<1>2. CASE id \notin Present
  BY <1>2, StopStep DEF loadAlreadyImported, Outcomes
<1>3. CASE id \in Present
  <2>1. Become(p, run) /\ corpus' = corpus /\ imports' = imports /\ overlapping' = overlapping
    BY <1>3 DEF loadAlreadyImported, LedgerStays
  <2>2. id \in EntryIds /\ imports[id] # NoImport
    BY <1>3 DEF Present
  <2>3. imports[id] \in ImportedEntries
    BY <2>2 DEF ImportInv, ImportTypeOK
  <2>4. key \in Keys /\ key \in ImportedBy(imports)
    BY <2>2, <2>3, EntryHasKey DEF ImportedBy
  <2>5. Accounts(import[p], imports) /\ (~overlapping => Lists(import[p], imports) /\ ImportAlone(p))
        /\ overlapping \in BOOLEAN
    BY <1>1, ImportUnderWay
  <2>6. \A n \in EntryIds : n = id => imports[n].key = key
    OBVIOUS
  <2> HIDE DEF id, key
  <2>7. /\ run \in ImportRun /\ run.at = "list" /\ run.outcome = "none"
        /\ run.todo = import[p].todo \ {id} /\ run.known = import[p].known \cup {key}
        /\ run.gone = import[p].gone
    BY <1>1, <2>4 DEF ImportRun
  <2> HIDE DEF run
  <2>8. Accounts(run, imports)
    BY <1>1, <2>4, <2>5, <2>7 DEF Accounts
  <2>9. ~overlapping => Lists(run, imports)
    BY <1>1, <2>5, <2>6, <2>7 DEF Lists
  <2>10. QED
    BY <2>1, <2>5, <2>7, <2>8, <2>9, ImportRunStep
<1>4. QED
  BY <1>2, <1>3

\* What is known is left out.
LEMMA BuildImportDraftsStep ==
  ASSUME ImportInv, NEW p \in Importers, BuildImportDrafts(p) PROVE ImportInv'
<1> DEFINE fresh == import[p].docs \ import[p].known
           run == [import[p] EXCEPT !.at = "add", !.drafts = fresh]
<1>1. /\ import[p] \in ImportRun /\ import[p].at = "list" /\ import[p].outcome = "none"
      /\ import[p].todo = {} /\ LedgerStays
  BY ImportUnderWay DEF BuildImportDrafts
<1>2. \/ \E outcome \in {"declined", "error"} : Stop(p, outcome)
      \/ Become(p, run)
  BY DEF BuildImportDrafts
<1>3. ASSUME NEW outcome \in {"declined", "error"}, Stop(p, outcome) PROVE ImportInv'
  BY <1>1, <1>3, StopStep DEF Outcomes
<1>4. CASE Become(p, run)
  <2>1. fresh \in SUBSET Keys
    BY <1>1 DEF ImportRun
  <2>2. Accounts(import[p], imports) /\ (~overlapping => Lists(import[p], imports) /\ ImportAlone(p))
        /\ overlapping \in BOOLEAN
    BY <1>1, ImportUnderWay
  <2>3. fresh = import[p].docs \ import[p].known
    OBVIOUS
  <2> HIDE DEF fresh
  <2>4. /\ run \in ImportRun /\ run.at = "add" /\ run.outcome = "none" /\ run.drafts = fresh
        /\ run.docs = import[p].docs /\ run.gone = import[p].gone
    BY <1>1, <2>1 DEF ImportRun
  <2>5. corpus' = corpus /\ imports' = imports /\ overlapping' = overlapping
    BY <1>1 DEF LedgerStays
  <2> HIDE DEF run
  <2>6. Accounts(run, imports)
    BY <1>1, <2>2, <2>3, <2>4 DEF Accounts
  <2>7. ~overlapping => Lists(run, imports)
    BY <1>1, <2>2, <2>3, <2>4 DEF Lists, ImportedBy
  <2>8. QED
    BY <1>4, <2>2, <2>4, <2>5, <2>6, <2>7, ImportRunStep
<1>5. QED
  BY <1>2, <1>3, <1>4

-----------------------------------------------------------------------------
(* The steps that change the ledger.                                       *)

\* One draft is added.
LEMMA AddDraftStep == ASSUME ImportInv, NEW p \in Importers, AddDraft(p) PROVE ImportInv'
<1> DEFINE d == FirstDraft(p)
           n == Min(EntryIds \ Present)
           entry == [key |-> d, alternatives |-> Recorded(d.content), staged |-> TRUE]
           run == [import[p] EXCEPT !.drafts = @ \ {d}]
<1>1. /\ import[p] \in ImportRun /\ import[p].at = "add" /\ import[p].outcome = "none"
      /\ import[p].drafts # {} /\ Accounts(import[p], imports)
      /\ overlapping \in BOOLEAN /\ (~overlapping => Lists(import[p], imports) /\ ImportAlone(p))
  BY ImportUnderWay DEF AddDraft, NextDraft
<1>2. d \in import[p].drafts /\ d \in Keys
  BY <1>1, FirstIsADraft DEF ImportInv
<1>3. n \in EntryIds /\ imports[n] = NoImport
  <2>1. EntryIds \ Present \in SUBSET Nat /\ EntryIds \ Present # {}
    BY ImportAssumption DEF AddDraft
  <2>2. n \in EntryIds \ Present
    BY <2>1, MinIsIn
  <2>3. QED
    BY <2>2 DEF Present
<1>4. entry \in ImportedEntries
  <2>1. PICK path \in Paths, document \in Documents : d = Key(path, document)
    BY <1>2 DEF Keys
  <2>2. d.content = document
    BY <2>1 DEF Key
  <2> HIDE DEF d
  <2>3. Recorded(d.content) \in {Recorded(x) : x \in Documents}
    BY <2>1, <2>2
  <2> DEFINE recorded == Recorded(d.content)
  <2> HIDE DEF recorded
  <2>4. recorded \in {Recorded(x) : x \in Documents}
    BY <2>3 DEF recorded
  <2>5. [key |-> d, alternatives |-> recorded, staged |-> TRUE] \in ImportedEntries
    BY <1>2, <2>4 DEF ImportedEntries
  <2>6. QED
    BY <2>5 DEF recorded
<1>5. entry.key = d
  OBVIOUS
<1>6. /\ imports' = [imports EXCEPT ![n] = entry] /\ import' = [import EXCEPT ![p] = run]
      /\ corpus' = corpus /\ overlapping' = overlapping
  BY DEF AddDraft, Drafted, Become
<1> HIDE DEF d, n, entry
<1>7. /\ run \in ImportRun /\ run.at = "add" /\ run.outcome = "none" /\ run.gone = import[p].gone
      /\ run.docs = import[p].docs /\ run.drafts = import[p].drafts \ {d}
  BY <1>1 DEF ImportRun
<1> HIDE DEF run
<1>8. ImportTypeOK'
  BY <1>3, <1>4, <1>6, <1>7 DEF ImportInv, ImportTypeOK
<1>9. entry # NoImport
  BY <1>4, EntryHasKey
<1>10. /\ imports'[n] = entry /\ \A i \in EntryIds \ {n} : imports'[i] = imports[i]
       /\ import'[p] = run /\ \A r \in Importers \ {p} : import'[r] = import[r]
  BY <1>3, <1>6 DEF ImportInv, ImportTypeOK
<1>11. ImportedBy(imports') = ImportedBy(imports) \cup {d}
  BY <1>3, <1>5, <1>9, <1>10 DEF ImportedBy
<1>12. \A r \in Importers : Accounts(import'[r], imports')
  <2>1. Accounts(run, imports')
    BY <1>1, <1>7, <1>11 DEF Accounts
  <2>2. ASSUME NEW r \in Importers \ {p} PROVE Accounts(import[r], imports')
    <3>1. Accounts(import[r], imports)
      BY DEF ImportInv
    <3>2. QED
      BY <1>11, <3>1 DEF Accounts
  <2>3. QED
    BY <1>10, <2>1, <2>2
<1>13. ASSUME ~overlapping', NEW r \in Importers
       PROVE  Lists(import'[r], imports') /\ (r \in Importing' => ImportAlone(r)')
  <2>1. ~overlapping /\ ImportAlone(p) /\ Lists(import[p], imports)
    BY <1>1, <1>6, <1>13
  <2>2. Lists(run, imports')
    BY <1>1, <1>7, <1>11, <2>1 DEF Lists
  <2>3. Importing' \subseteq {p}
    BY <1>10, <2>1 DEF Importing, ImportAlone
  <2>4. CASE r = p
    BY <1>10, <2>2, <2>3, <2>4 DEF ImportAlone
  <2>5. CASE r # p
    <3>1. r \notin Importing'
      BY <2>3, <2>5
    <3>2. import'[r].at \in {"idle", "ended"}
      BY <3>1 DEF Importing
    <3>3. QED
      BY <3>1, <3>2 DEF Lists
  <2>6. QED
    BY <2>4, <2>5
<1>14. ImportedOnce'
  <2> SUFFICES ASSUME ~overlapping', NEW i \in Present', NEW j \in Present',
                      imports'[i].key = imports'[j].key
               PROVE  i = j
    BY DEF ImportedOnce
  <2>1. ~overlapping /\ ImportedOnce /\ d \notin ImportedBy(imports)
    BY <1>1, <1>2, <1>6 DEF Lists, ImportInv
  <2>2. i \in EntryIds /\ j \in EntryIds
    BY DEF Present
  <2>3. \A m \in EntryIds \ {n} : imports'[m] # NoImport => m \in Present /\ imports[m].key # d
    BY <1>10, <2>1 DEF Present, ImportedBy
  <2>4. imports'[i] # NoImport /\ imports'[j] # NoImport
    BY DEF Present
  <2>5. CASE i = n /\ j # n
    BY <1>5, <1>10, <2>2, <2>3, <2>4, <2>5
  <2>6. CASE j = n /\ i # n
    BY <1>5, <1>10, <2>2, <2>3, <2>4, <2>6
  <2>7. CASE i # n /\ j # n
    BY <1>10, <2>1, <2>2, <2>3, <2>4, <2>7 DEF ImportedOnce
  <2>8. QED
    BY <2>5, <2>6, <2>7
<1>15. QED
  BY <1>8, <1>12, <1>13, <1>14 DEF ImportInv

\* An imported entry is confirmed.
LEMMA ConfirmImportStep == ASSUME ImportInv, NEW id \in EntryIds, ConfirmImport(id) PROVE ImportInv'
<1> DEFINE entry == [imports[id] EXCEPT !.staged = FALSE]
<1>1. /\ imports' = [imports EXCEPT ![id] = entry]
      /\ corpus' = corpus /\ import' = import /\ overlapping' = overlapping
      /\ imports[id] # NoImport
  BY DEF ConfirmImport, Present
<1>2. imports[id] \in ImportedEntries
  BY <1>1 DEF ImportInv, ImportTypeOK
<1>3. entry \in ImportedEntries /\ entry.key = imports[id].key
  BY <1>2 DEF ImportedEntries
<1> HIDE DEF entry
<1>4. entry # NoImport
  BY <1>3, EntryHasKey
<1>5. ImportTypeOK'
  BY <1>1, <1>3 DEF ImportInv, ImportTypeOK
<1>6. \A i \in EntryIds : /\ imports'[i] = NoImport <=> imports[i] = NoImport
                          /\ imports'[i].key = imports[i].key
  BY <1>1, <1>3, <1>4 DEF ImportInv, ImportTypeOK
<1>7. ImportedBy(imports') = ImportedBy(imports)
  BY <1>6 DEF ImportedBy
<1>8. \A p \in Importers : Accounts(import'[p], imports')
  BY <1>1, <1>7 DEF ImportInv, Accounts
<1>9. ASSUME ~overlapping', NEW p \in Importers
      PROVE  Lists(import'[p], imports') /\ (p \in Importing' => ImportAlone(p)')
  <2>1. Lists(import[p], imports) /\ (p \in Importing => ImportAlone(p))
    BY <1>1, <1>9 DEF ImportInv
  <2>2. Lists(import[p], imports')
    BY <1>6, <1>7, <2>1 DEF Lists
  <2>3. QED
    BY <1>1, <2>1, <2>2 DEF Importing, ImportAlone
<1>10. ImportedOnce'
  BY <1>1, <1>6 DEF ImportInv, ImportedOnce, Present
<1>11. QED
  BY <1>5, <1>8, <1>9, <1>10 DEF ImportInv

\* An imported entry is discarded.
LEMMA DiscardImportStep == ASSUME ImportInv, NEW id \in EntryIds, DiscardImport(id) PROVE ImportInv'
<1> DEFINE key == imports[id].key
           then(p) == IF p \in Importing THEN [import[p] EXCEPT !.gone = @ \cup {key}]
                      ELSE import[p]
<1>1. /\ imports' = [imports EXCEPT ![id] = NoImport]
      /\ corpus' = corpus /\ overlapping' = overlapping
      /\ import' = [p \in Importers |-> then(p)]
      /\ imports[id] # NoImport
  BY DEF DiscardImport, Present
<1>2. key \in Keys
  BY <1>1, EntryHasKey DEF ImportInv, ImportTypeOK
<1>3. \A i \in EntryIds : imports'[i] # NoImport => imports[i] # NoImport /\ imports'[i] = imports[i]
  BY <1>1 DEF ImportInv, ImportTypeOK
<1>4. /\ ImportedBy(imports') \subseteq ImportedBy(imports)
      /\ ImportedBy(imports) \subseteq ImportedBy(imports') \cup {key}
  BY <1>1, <1>3 DEF ImportedBy, ImportInv, ImportTypeOK
<1> HIDE DEF key
<1>5. \A p \in Importers : import[p] \in ImportRun
  BY DEF ImportInv, ImportTypeOK
<1>6. ASSUME NEW p \in Importers
      PROVE  /\ then(p) \in ImportRun /\ then(p).at = import[p].at
             /\ then(p).todo = import[p].todo /\ then(p).docs = import[p].docs
             /\ then(p).known = import[p].known /\ then(p).drafts = import[p].drafts
             /\ then(p).outcome = import[p].outcome
             /\ import[p].gone \subseteq then(p).gone
             /\ import[p].at \notin {"idle", "ended"} => key \in then(p).gone
  <2>1. CASE p \in Importing
    BY <1>2, <1>5, <2>1 DEF ImportRun
  <2>2. CASE p \notin Importing
    BY <1>5, <2>2 DEF Importing
  <2>3. QED
    BY <2>1, <2>2
<1>7. \A p \in Importers : import'[p] = then(p)
  BY <1>1
<1> HIDE DEF then
<1>8. ImportTypeOK'
  BY <1>1, <1>6 DEF ImportInv, ImportTypeOK
<1>9. ASSUME NEW p \in Importers PROVE Accounts(import'[p], imports')
  <2>1. Accounts(import[p], imports)
    BY DEF ImportInv
  <2>2. QED
    BY <1>4, <1>6, <1>7, <2>1 DEF Accounts
<1>10. ASSUME ~overlapping', NEW p \in Importers
       PROVE  Lists(import'[p], imports') /\ (p \in Importing' => ImportAlone(p)')
  <2>1. Lists(import[p], imports) /\ (p \in Importing => ImportAlone(p))
    BY <1>1, <1>10 DEF ImportInv
  <2>2. Lists(import'[p], imports')
    BY <1>3, <1>4, <1>6, <1>7, <2>1 DEF Lists
  <2>3. Importing' = Importing
    BY <1>6, <1>7 DEF Importing
  <2>4. QED
    BY <2>1, <2>2, <2>3 DEF ImportAlone
<1>11. ImportedOnce'
  BY <1>1, <1>3 DEF ImportInv, ImportedOnce, Present
<1>12. QED
  BY <1>8, <1>9, <1>10, <1>11 DEF ImportInv

\* A document changes.
LEMMA RewriteStep == ASSUME ImportInv, NEW path \in Paths, Rewrite(path) PROVE ImportInv'
<1>1. PICK d \in Drafting \cup {NoDocument} : corpus' = [corpus EXCEPT ![path] = d]
  BY DEF Rewrite
<1>2. d \in Documents \cup {NoDocument}
  BY DEF Documents
<1>3. imports' = imports /\ import' = import /\ overlapping' = overlapping
  BY DEF Rewrite
<1>4. ImportTypeOK'
  BY <1>1, <1>2, <1>3 DEF ImportInv, ImportTypeOK
<1>5. QED
  BY <1>3, <1>4 DEF ImportInv, Importing, ImportAlone, ImportedOnce, Present
-----------------------------------------------------------------------------
\* No run has begun.
LEMMA ImportInitInvariant == ImportInit => ImportInv
<1> SUFFICES ASSUME ImportInit PROVE ImportInv
  OBVIOUS
<1>1. corpus \in Corpora /\ corpus = [path \in Paths |-> corpus[path]]
  BY ImportAssumption DEF ImportInit
<1>2. \A path \in Paths : corpus[path] \in Documents \cup {NoDocument}
  BY <1>1 DEF Documents
<1>3. NotBegun \in ImportRun /\ NotBegun.at = "idle" /\ NotBegun.outcome = "none"
  BY DEF NotBegun, ImportRun, Outcomes
<1>4. ImportTypeOK
  BY <1>1, <1>2, <1>3 DEF ImportInit, ImportTypeOK
<1>5. \A p \in Importers : import[p].at = "idle" /\ import[p].outcome = "none"
  BY <1>3 DEF ImportInit
<1>6. Present = {} /\ Importing = {}
  BY <1>5 DEF ImportInit, Present, Importing
<1>7. \A p \in Importers : Accounts(import[p], imports) /\ Lists(import[p], imports)
  BY <1>5 DEF Accounts, Lists
<1>8. QED
  BY <1>4, <1>6, <1>7 DEF ImportInv, ImportedOnce

\* Every step keeps the invariant.
LEMMA ImportStepInvariant == ImportInv /\ [ImportNext]_importVars => ImportInv'
<1> SUFFICES ASSUME ImportInv, [ImportNext]_importVars PROVE ImportInv'
  OBVIOUS
<1>1. ASSUME NEW p \in Importers, scanDirectory(p) PROVE ImportInv'
  BY <1>1, ScanDirectoryStep
<1>2. ASSUME NEW p \in Importers, ScanDocument(p) PROVE ImportInv'
  BY <1>2, ScanDocumentStep
<1>3. ASSUME NEW p \in Importers, readConfirmation(p) PROVE ImportInv'
  BY <1>3, ReadConfirmationStep
<1>4. ASSUME NEW p \in Importers, loadAlreadyImported(p) PROVE ImportInv'
  BY <1>4, LoadAlreadyImportedStep
<1>5. ASSUME NEW p \in Importers, BuildImportDrafts(p) PROVE ImportInv'
  BY <1>5, BuildImportDraftsStep
<1>6. ASSUME NEW p \in Importers, AddDraft(p) PROVE ImportInv'
  BY <1>6, AddDraftStep
<1>7. ASSUME NEW p \in Importers, AddFails(p) \/ Finish(p) \/ KillImport(p) PROVE ImportInv'
  BY <1>7, StopStep DEF AddFails, Finish, KillImport, Outcomes
<1>8. ASSUME NEW id \in EntryIds, ConfirmImport(id) \/ DiscardImport(id) PROVE ImportInv'
  BY <1>8, ConfirmImportStep, DiscardImportStep
<1>9. ASSUME NEW path \in Paths, Rewrite(path) PROVE ImportInv'
  BY <1>9, RewriteStep
<1>10. CASE UNCHANGED importVars
  BY <1>10 DEF importVars, ImportInv, ImportTypeOK, Importing, ImportAlone, ImportedOnce, Present
<1>11. QED
  BY <1>1, <1>2, <1>3, <1>4, <1>5, <1>6, <1>7, <1>8, <1>9, <1>10 DEF ImportNext

\* The inductive invariant: a run under way accounts for every document it
\* scanned, and as long as no two runs overlapped it has everything that is in
\* the ledger in its listing or still to be read, so that no draft is there.
THEOREM ImportInvariance == ImportSpec => []ImportInv
<1>1. QED
  BY ImportInitInvariant, ImportStepInvariant, PTL DEF ImportSpec

\* Any number of repeated, stopped and killed runs over any directory, with
\* documents and entries changing under them, make one entry of a document's
\* content, as long as no two of the runs overlap.
THEOREM OneEntryPerDocument == ImportSpec => []ImportedOnce
<1>1. ImportInv => ImportedOnce
  BY DEF ImportInv
<1>2. QED
  BY <1>1, ImportInvariance, PTL

\* A step that does not give a run the outcome "imported" leaves it without.
LEMMA OtherOutcome ==
  ASSUME ImportInv, NEW p \in Importers, import[p].at # "ended",
         NEW r \in Importers, NEW run, Become(r, run), run.outcome # "imported"
  PROVE  import'[p].outcome # "imported"
<1>1. import[p].outcome = "none"
  BY DEF ImportInv, Accounts
<1>2. import'[p] = run \/ import'[p] = import[p]
  BY DEF Become, ImportInv, ImportTypeOK
<1>3. QED
  BY <1>1, <1>2

\* The end of one run is not the end of another.
LEMMA OtherStop ==
  ASSUME ImportInv, NEW p \in Importers, import[p].at # "ended",
         NEW r \in Importers, NEW outcome \in Outcomes \ {"imported"}, Stop(r, outcome)
  PROVE  import'[p].outcome # "imported"
<1> DEFINE run == [NotBegun EXCEPT !.at = "ended", !.outcome = outcome]
<1>1. Become(r, run) /\ run.outcome = outcome
  BY StoppedRun DEF Stop
<1> HIDE DEF run
<1>2. QED
  BY <1>1, OtherOutcome

\* Only a run that adds its last draft ends imported.
LEMMA OnlyFinishImports ==
  ASSUME ImportInv, ImportNext, NEW p \in Importers,
         import[p].at # "ended", import'[p].outcome = "imported"
  PROVE  Finish(p)
<1>1. import[p].outcome = "none" /\ import[p] \in ImportRun
  BY DEF ImportInv, ImportTypeOK, Accounts
<1>2. \A r \in Importers : import[r] \in ImportRun
  BY DEF ImportInv, ImportTypeOK
<1>3. ASSUME NEW r \in Importers, scanDirectory(r) PROVE FALSE
  <2> DEFINE names == {n \in Paths : corpus[n] # NoDocument}
             run == [NotBegun EXCEPT !.at = "scan", !.todo = names]
  <2>1. Become(r, run) /\ run.outcome = "none"
    <3>1. Become(r, run)
      BY <1>3 DEF scanDirectory
    <3> HIDE DEF names
    <3>2. run.outcome = "none"
      BY DEF NotBegun
    <3>3. QED
      BY <3>1, <3>2
  <2> HIDE DEF run
  <2>2. QED
    BY <2>1, OtherOutcome
<1>4. ASSUME NEW r \in Importers,
             ScanDocument(r) \/ readConfirmation(r) \/ loadAlreadyImported(r)
                \/ BuildImportDrafts(r) \/ AddDraft(r)
      PROVE  FALSE
  <2>1. import[r].at # "ended" /\ import[r].outcome = "none"
    BY <1>4 DEF ScanDocument, readConfirmation, loadAlreadyImported, BuildImportDrafts,
                AddDraft, NextDraft, ImportInv, Accounts
  <2>2. \/ \E outcome \in {"error", "indexed", "declined"} : Stop(r, outcome)
        \/ \E run : run.outcome = import[r].outcome /\ Become(r, run)
    <3>1. CASE ScanDocument(r)
      BY <1>2, <3>1 DEF ScanDocument, ImportRun
    <3>2. CASE readConfirmation(r)
      BY <1>2, <3>2 DEF readConfirmation, ImportRun
    <3>3. CASE loadAlreadyImported(r)
      BY <1>2, <3>3 DEF loadAlreadyImported, ImportRun
    <3>4. CASE BuildImportDrafts(r)
      BY <1>2, <3>4 DEF BuildImportDrafts, ImportRun
    <3>5. CASE AddDraft(r)
      BY <1>2, <3>5 DEF AddDraft, Drafted, ImportRun
    <3>6. QED
      BY <1>4, <3>1, <3>2, <3>3, <3>4, <3>5
  <2>3. QED
    BY <2>1, <2>2, OtherStop, OtherOutcome DEF Outcomes
<1>5. ASSUME NEW r \in Importers, AddFails(r) \/ KillImport(r) PROVE FALSE
  BY <1>5, OtherStop DEF AddFails, KillImport, Outcomes
<1>6. ASSUME NEW r \in Importers, Finish(r) PROVE Finish(p)
  <2>1. CASE r = p
    BY <1>6, <2>1
  <2>2. CASE r # p
    BY <1>1, <1>6, <2>2 DEF Finish, Stop, Become, ImportInv, ImportTypeOK
  <2>3. QED
    BY <2>1, <2>2
<1>7. ASSUME NEW id \in EntryIds, ConfirmImport(id) \/ DiscardImport(id) PROVE FALSE
  BY <1>1, <1>7 DEF ConfirmImport, DiscardImport, ImportRun
<1>8. ASSUME NEW path \in Paths, Rewrite(path) PROVE FALSE
  BY <1>1, <1>8 DEF Rewrite
<1>9. QED
  BY <1>3, <1>4, <1>5, <1>6, <1>7, <1>8 DEF ImportNext

\* A run that ends well has every reasoned document it scanned in the ledger,
\* but for what was discarded while it was under way; overlapping runs included.
THEOREM SuccessIsComplete == ImportSpec => SuccessMeansImported
<1> DEFINE Complete ==
             \A p \in Importers :
                import[p].at # "ended" /\ import'[p].outcome = "imported"
                => import[p].docs \subseteq Imported' \cup import[p].gone
<1>1. ImportInv /\ [ImportNext]_importVars => [Complete]_importVars
  <2> SUFFICES ASSUME ImportInv, ImportNext, NEW p \in Importers,
                      import[p].at # "ended", import'[p].outcome = "imported"
               PROVE  import[p].docs \subseteq Imported' \cup import[p].gone
    OBVIOUS
  <2>1. Finish(p)
    BY OnlyFinishImports
  <2>2. import[p].docs \subseteq ImportedBy(imports) \cup import[p].gone
    BY <2>1 DEF Finish, ImportInv, Accounts
  <2>3. imports' = imports
    BY <2>1 DEF Finish, LedgerStays
  <2>4. ImportedBy(imports) \subseteq Imported'
    BY <2>3 DEF ImportedBy, Imported, Present
  <2>5. QED
    BY <2>2, <2>4
<1>2. QED
  BY <1>1, ImportInvariance, PTL DEF ImportSpec, SuccessMeansImported

-----------------------------------------------------------------------------
(***************************************************************************)
(* `dira install-skill`, by any number of processes.                       *)
(***************************************************************************)
SkillFiles == Edits \cup {NoFile, Shipped, CutOff}
\* Where a process of the command may stand.
SkillRun == [at : {"idle", "truncate", "write", "ended"}, force : BOOLEAN, saw : SkillFiles,
             outcome : {"none", "UNCHANGED", "REFUSED", "INSTALLED"}]

\* Whoever is about to write has looked, and may.
SkillInv ==
    /\ skillFile \in SkillFiles /\ inst \in [Installs -> SkillRun]
    /\ \A p \in Installs : inst[p].at \in {"truncate", "write"} =>
          skillOutcome(inst[p].saw, inst[p].force) = "INSTALLED"

\* What it takes to be let write: --force, or nothing there.
LEMMA MayInstall ==
  ASSUME NEW current, NEW force \in BOOLEAN, skillOutcome(current, force) = "INSTALLED"
  PROVE  current # Shipped /\ (force \/ current = NoFile)
BY DEF skillOutcome

\* A process that is not about to write disturbs nothing.
LEMMA SkillRunStep ==
  ASSUME SkillInv, NEW p \in Installs, NEW run \in SkillRun, inst' = [inst EXCEPT ![p] = run],
         run.at \in {"truncate", "write"} => skillOutcome(run.saw, run.force) = "INSTALLED",
         skillFile' \in SkillFiles
  PROVE  SkillInv'
<1>1. inst \in [Installs -> SkillRun]
  BY DEF SkillInv
<1>2. inst' \in [Installs -> SkillRun] /\ inst'[p] = run /\ \A r \in Installs \ {p} : inst'[r] = inst[r]
  BY <1>1
<1>3. ASSUME NEW r \in Installs, inst'[r].at \in {"truncate", "write"}
      PROVE  skillOutcome(inst'[r].saw, inst'[r].force) = "INSTALLED"
  BY <1>2, <1>3 DEF SkillInv
<1>4. QED
  BY <1>2, <1>3 DEF SkillInv

\* The question whether to write is asked of what is there at that moment.
LEMMA RunInstallSkillStep ==
  ASSUME SkillInv, NEW p \in Installs, runInstallSkill(p) PROVE SkillInv'
<1>1. PICK force \in BOOLEAN :
         inst' = [inst EXCEPT ![p] =
            [at |-> IF skillOutcome(skillFile, force) = "INSTALLED" THEN "truncate" ELSE "ended",
             force |-> force, outcome |-> skillOutcome(skillFile, force), saw |-> skillFile]]
  BY DEF runInstallSkill
<1> DEFINE answer == skillOutcome(skillFile, force)
           at == IF answer = "INSTALLED" THEN "truncate" ELSE "ended"
           run == [at |-> at, force |-> force, outcome |-> answer, saw |-> skillFile]
<1>2. answer \in {"UNCHANGED", "REFUSED", "INSTALLED"}
  BY DEF skillOutcome
<1>3. inst' = [inst EXCEPT ![p] = run] /\ skillFile' = skillFile /\ skillFile \in SkillFiles
  BY <1>1 DEF runInstallSkill, SkillInv
<1>4. run.at \in {"truncate", "write"} => skillOutcome(run.saw, run.force) = "INSTALLED"
  OBVIOUS
<1>5. at \in {"truncate", "ended"}
  OBVIOUS
<1> HIDE DEF answer, at
<1>6. run \in SkillRun
  BY <1>2, <1>3, <1>5 DEF SkillRun
<1> HIDE DEF run
<1>7. QED
  BY <1>3, <1>4, <1>6, SkillRunStep

\* The first write empties the file, the second fills it.
LEMMA SkillWriteStep ==
  ASSUME SkillInv, NEW p \in Installs, TruncateSkill(p) \/ WriteSkill(p) \/ ExitSkill(p)
  PROVE  SkillInv'
<1>1. inst[p] \in SkillRun
  BY DEF SkillInv
<1>2. CASE TruncateSkill(p)
  <2> DEFINE run == [inst[p] EXCEPT !.at = "write"]
  <2>1. /\ run \in SkillRun /\ run.saw = inst[p].saw /\ run.force = inst[p].force
    BY <1>1 DEF SkillRun
  <2>2. inst' = [inst EXCEPT ![p] = run] /\ skillFile' \in SkillFiles
    BY <1>2 DEF TruncateSkill, SkillFiles
  <2>3. skillOutcome(run.saw, run.force) = "INSTALLED"
    BY <1>2, <2>1 DEF TruncateSkill, SkillInv
  <2> HIDE DEF run
  <2>4. QED
    BY <2>1, <2>2, <2>3, SkillRunStep
<1>3. CASE WriteSkill(p)
  <2> DEFINE run == [inst[p] EXCEPT !.at = "ended"]
  <2>1. run \in SkillRun /\ run.at = "ended"
    BY <1>1 DEF SkillRun
  <2>2. inst' = [inst EXCEPT ![p] = run] /\ skillFile' \in SkillFiles
    BY <1>3 DEF WriteSkill, SkillFiles
  <2> HIDE DEF run
  <2>3. QED
    BY <2>1, <2>2, SkillRunStep
<1>4. CASE ExitSkill(p)
  <2>1. NotStarted \in SkillRun /\ NotStarted.at = "idle"
    BY DEF NotStarted, SkillRun, SkillFiles
  <2>2. inst' = [inst EXCEPT ![p] = NotStarted] /\ skillFile' \in SkillFiles
    BY <1>4 DEF ExitSkill, SkillInv
  <2>3. QED
    BY <2>1, <2>2, SkillRunStep
<1>5. QED
  BY <1>2, <1>3, <1>4

\* The inductive invariant: whoever is about to empty the file was answered
\* "INSTALLED" by skillOutcome for what it read there (internal/skill).
THEOREM SkillInvariance == SkillSpec => []SkillInv
<1>1. SkillInit => SkillInv
  BY DEF SkillInit, SkillInv, SkillFiles, SkillRun, NotStarted
<1>2. SkillInv /\ [SkillNext]_skillVars => SkillInv'
  <2> SUFFICES ASSUME SkillInv, [SkillNext]_skillVars PROVE SkillInv'
    OBVIOUS
  <2>1. ASSUME NEW p \in Installs, runInstallSkill(p) PROVE SkillInv'
    BY <2>1, RunInstallSkillStep
  <2>2. ASSUME NEW p \in Installs, TruncateSkill(p) \/ WriteSkill(p) \/ ExitSkill(p) PROVE SkillInv'
    BY <2>2, SkillWriteStep
  <2>3. CASE EditSkill
    BY <2>3 DEF EditSkill, SkillInv, SkillFiles
  <2>4. CASE UNCHANGED skillVars
    BY <2>4 DEF skillVars, SkillInv
  <2>5. QED
    BY <2>1, <2>2, <2>3, <2>4 DEF SkillNext
<1>3. QED
  BY <1>1, <1>2, PTL DEF SkillSpec

\* Whatever the operator does and however many processes install, a run
\* without --force empties an edited SKILL.md only if it had looked while there
\* was no file (internal/skill/skill.go; the window between look and write).
THEOREM EditsAreKept == SkillSpec => EditsOutliveReinstalls
<1> DEFINE Stays ==
             \A p \in Installs :
                inst[p].at = "truncate" /\ inst'[p].at = "write" /\ skillFile \in Edits
                => inst[p].force \/ inst[p].saw = NoFile
<1>1. SkillInv /\ [SkillNext]_skillVars => [Stays]_skillVars
  <2> SUFFICES ASSUME SkillInv, NEW p \in Installs, inst[p].at = "truncate"
               PROVE  inst[p].force \/ inst[p].saw = NoFile
    OBVIOUS
  <2>1. inst[p] \in SkillRun /\ skillOutcome(inst[p].saw, inst[p].force) = "INSTALLED"
    BY DEF SkillInv
  <2>2. inst[p].force \in BOOLEAN
    BY <2>1 DEF SkillRun
  <2>3. QED
    BY <2>1, <2>2, MayInstall
<1>2. QED
  BY <1>1, SkillInvariance, PTL DEF SkillSpec, EditsOutliveReinstalls

-----------------------------------------------------------------------------
(***************************************************************************)
(* `dira map`, for any ledger, any changes to it during the run, and       *)
(* whatever the external program answers.                                  *)
(***************************************************************************)
Listed == Range(Index)
\* A reading of the ledger: known entries, whose targets name goals.
Frozen(reading) == DOMAIN reading \subseteq Listed /\ \A i \in DOMAIN reading : NamesGoal(reading[i])

\* Two readings of the ledger differ only where something was changed.
Agree(a, b, except) ==
    \A i \in Listed \ except : /\ i \in DOMAIN a <=> i \in DOMAIN b
                               /\ i \in DOMAIN a => a[i] = b[i]

\* What a row in an execution bucket rests on.
Founded(i, row, asked) ==
    /\ row.says # "nothing" /\ row.bucket \in Execution \cup {""}
    /\ row.bucket \in Execution =>
         /\ ~Degraded
         /\ LET goal == GoalOf(read[i].realized) IN Len(snap.runs[goal]) > 1 =>
              \E k \in DOMAIN asked : asked[k].goal = goal /\ statusAnswer(asked[k].answer) = row

\* What the external program was asked, and said.
Questions == [goal : Goals, answer : Answers]
AskedWithin(asked) == asked \in Seq(Questions) /\ Len(asked) <= MaxStatusCalls

\* The tree is built of what the cache lists.
ReadInv == Frozen(read) /\ DOMAIN read = DOMAIN rows /\ Agree(read, rows, changed)
\* Every row so far is of a candidate and rests on something.
JoinedInv ==
    /\ snap \in Portfolios \cup [why : Unavailable]
    /\ DOMAIN joined \subseteq Candidates(read)
    /\ \A i \in DOMAIN joined : Founded(i, joined[i], calls)

\* What holds at every stage of a run.
MapInv ==
    /\ Frozen(files) /\ AskedWithin(calls)
    /\ mAt \in {"open", "snapshot", "entries", "join", "derive", "assemble", "done", "failed"}
    /\ mAt # "open" => Frozen(rows) /\ Agree(files, rows, changed)
    /\ mAt \in {"open", "snapshot", "entries"} => joined = Nothing
    /\ mAt = "entries" => snap \in Portfolios \cup [why : Unavailable]
    /\ mAt \in {"join", "derive", "assemble", "done"} => ReadInv /\ JoinedInv
    /\ mAt \in {"derive", "assemble", "done"} => DOMAIN joined = Candidates(read)
    /\ mAt \in {"assemble", "done"} =>
         derived = [toPlan |-> DeriveToBePlanned, blocked |-> DeriveDecisionBlocked, terminal |-> Terminal]
    /\ mAt = "done" => /\ DOMAIN nodes = DOMAIN read
                       /\ \A i \in DOMAIN nodes : nodes[i].row = nodeOf(i)

\* The entry the index lists first of some is one of them.
LEMMA EarliestIsOne ==
  ASSUME NEW S \in SUBSET Listed, S # {} PROVE Earliest(S) \in S
<1> DEFINE places == {k \in DOMAIN Index : Index[k] \in S}
<1>1. Index \in Seq(Listed) /\ DOMAIN Index \in SUBSET Nat
  BY MapAssumption DEF Listed
<1>2. places \in SUBSET Nat /\ places # {}
  BY <1>1 DEF Listed, Range
<1>3. Min(places) \in places /\ \A m \in places : Min(places) <= m
  BY <1>2, MinIsIn
<1>4. \E k \in DOMAIN Index : Index[k] \in S /\ \A m \in DOMAIN Index : Index[m] \in S => k <= m
  BY <1>3
<1>5. QED
  BY <1>4 DEF Earliest

\* What else is known where there is a portfolio: a target that resolves to a
\* goal resolves to one the portfolio keeps runs of.
LEMMA GoalIsKnown ==
  ASSUME ReadInv, snap \in Portfolios \cup [why : Unavailable], ~Degraded,
         NEW i \in Candidates(read), GoalOf(read[i].realized) # NoTarget
  PROVE  /\ GoalOf(read[i].realized) \in Goals
         /\ snap.runs[GoalOf(read[i].realized)] \in Seq(RunStates)
<1>1. snap \in Portfolios
  BY DEF Degraded
<1>2. snap.runs \in [Goals -> Seq(RunStates)] /\ \A k \in DOMAIN snap.proposals : snap.proposals[k] \in Goals
  BY <1>1, MapAssumption
<1>3. NamesGoal(read[i]) /\ read[i].realized # NoTarget
  BY DEF Candidates, ReadInv, Frozen
<1>4. GoalOf(read[i].realized) \in Goals
  BY <1>2, <1>3 DEF GoalOf, NamesGoal
<1>5. QED
  BY <1>2, <1>4

\* No answer of the program says nothing, and only two of them name a bucket.
LEMMA AnswerSays ==
  ASSUME NEW answer \in Answers
  PROVE  statusAnswer(answer).says # "nothing" /\ statusAnswer(answer).bucket \in Execution \cup {""}
<1>1. CASE answer = "converged"
  BY <1>1 DEF statusAnswer, InBucket, Row, Execution, Unavailable
<1>2. CASE answer = "in_progress"
  BY <1>2 DEF statusAnswer, InBucket, Row, Execution, Unavailable
<1>3. CASE answer \in Unavailable
  BY <1>3 DEF statusAnswer, Ambiguous, Row, Unavailable
<1>4. CASE answer \in {"not_found", "proposal"}
  BY <1>4 DEF statusAnswer, Unresolved, Row, Unavailable
<1>5. QED
  BY <1>1, <1>2, <1>3, <1>4 DEF Answers

\* One run names a bucket, or none.
LEMMA RunSays ==
  ASSUME NEW run \in RunStates
  PROVE  mapRunBucket(run).says # "nothing" /\ mapRunBucket(run).bucket \in Execution \cup {""}
<1>1. CASE run = "complete"
  BY <1>1 DEF mapRunBucket, InBucket, Row, Execution
<1>2. CASE run = "stuck"
  BY <1>2 DEF mapRunBucket, InBucket, Row, Execution
<1>3. CASE run = "in_progress"
  BY <1>3 DEF mapRunBucket, InBucket, Row, Execution
<1>4. CASE run = "terminated"
  BY <1>4 DEF mapRunBucket, Unresolved, Row
<1>5. QED
  BY <1>1, <1>2, <1>3, <1>4 DEF RunStates
-----------------------------------------------------------------------------
\* The cache is reconciled.
LEMMA OpenIndexStep == ASSUME MapInv, OpenIndex PROVE MapInv'
BY DEF OpenIndex, Stage, MapInv, Frozen, Agree, AskedWithin

\* The portfolio is asked for.
LEMMA SnapshotStep == ASSUME MapInv, Snapshot PROVE MapInv'
BY DEF Snapshot, Stage, MapInv, Frozen, Agree, AskedWithin

\* The entries are read once more.
LEMMA ReadEntriesStep == ASSUME MapInv, ReadEntries PROVE MapInv'
<1>1. CASE mAt' = "failed"
  BY <1>1 DEF ReadEntries, Stage, MapInv, Frozen, Agree, AskedWithin
<1>2. CASE mAt' # "failed"
  <2>1. /\ mAt = "entries" /\ mAt' = "join" /\ DOMAIN rows \subseteq DOMAIN files
        /\ read' = [i \in DOMAIN rows |-> files[i]]
        /\ UNCHANGED <<files, rows, snap, joined, calls, derived, nodes, changed>>
    BY <1>2 DEF ReadEntries, Stage
  <2>2. ReadInv'
    BY <2>1 DEF MapInv, ReadInv, Frozen, Agree
  <2>3. JoinedInv'
    BY <2>1 DEF MapInv, JoinedInv, Nothing
  <2>4. Frozen(files)' /\ AskedWithin(calls)' /\ Frozen(rows)' /\ Agree(files, rows, changed)'
    BY <2>1 DEF MapInv, Frozen, Agree, AskedWithin
  <2>5. QED
    BY <2>1, <2>2, <2>3, <2>4 DEF MapInv
<1>3. QED
  BY <1>1, <1>2

\* One candidate gets its row; the questions asked before are still there.
LEMMA ResolvedStep ==
  ASSUME MapInv, mAt = "join", mAt' = "join", NEW i \in Candidates(read), NEW row, Resolved(i, row),
         Founded(i, row, calls'), AskedWithin(calls'),
         \A k \in DOMAIN calls : k \in DOMAIN calls' /\ calls'[k] = calls[k],
         UNCHANGED <<files, rows, snap, read, derived, nodes, changed>>
  PROVE  MapInv'
<1>1. ReadInv' /\ Frozen(files)' /\ Frozen(rows)' /\ Agree(files, rows, changed)'
  BY DEF MapInv, ReadInv, Frozen, Agree
<1>2. AskedWithin(calls)'
  BY DEF AskedWithin
<1>3. JoinedInv
  BY DEF MapInv
<1>4. ASSUME NEW n \in DOMAIN joined' PROVE Founded(n, joined'[n], calls')
  <2>1. CASE n = i
    BY <2>1 DEF Resolved
  <2>2. CASE n # i
    <3>1. n \in DOMAIN joined /\ joined'[n] = joined[n]
      BY <1>4, <2>2 DEF Resolved
    <3>2. Founded(n, joined[n], calls)
      BY <1>3, <3>1 DEF JoinedInv
    <3>3. QED
      BY <3>1, <3>2 DEF Founded
  <2>3. QED
    BY <2>1, <2>2
<1>5. \A n \in DOMAIN joined' : Founded(n, joined[n], calls)'
  BY <1>4 DEF Founded, Degraded, GoalOf
<1>6. (DOMAIN joined \subseteq Candidates(read))'
  BY <1>3 DEF JoinedInv, Resolved, Candidates
<1>7. JoinedInv'
  BY <1>3, <1>5, <1>6 DEF JoinedInv
<1>8. QED
  BY <1>1, <1>2, <1>7 DEF MapInv

\* A row that rests on no question.
LEMMA FoundedAlone ==
  ASSUME NEW i, NEW row, NEW asked, row.says # "nothing", row.bucket \in Execution \cup {""},
         row.bucket \in Execution => ~Degraded /\ ~(Len(snap.runs[GoalOf(read[i].realized)]) > 1)
  PROVE  Founded(i, row, asked)
BY DEF Founded

\* A candidate that names a goal is resolved.
LEMMA ResolveGoalStep ==
  ASSUME MapInv, mAt = "join", mAt' = "join", ~Degraded, NEW i \in Candidates(read),
         GoalOf(read[i].realized) # NoTarget, resolveGoal(i, GoalOf(read[i].realized)),
         UNCHANGED <<files, rows, snap, read, derived, nodes, changed>>
  PROVE  MapInv'
<1> DEFINE goal == GoalOf(read[i].realized)
           runs == snap.runs[goal]
<1>1. ReadInv /\ snap \in Portfolios \cup [why : Unavailable] /\ AskedWithin(calls)
  BY DEF MapInv, JoinedInv
<1>2. goal \in Goals /\ runs \in Seq(RunStates)
  BY <1>1, GoalIsKnown
<1>3. CASE runs = <<>> /\ Resolved(i, WithoutRuns(goal)) /\ UNCHANGED calls
  <2>1. WithoutRuns(goal).says # "nothing" /\ WithoutRuns(goal).bucket \in Execution \cup {""}
    BY DEF WithoutRuns, InBucket, Unresolved, Row, Execution
  <2>2. Founded(i, WithoutRuns(goal), calls')
    <3>1. ~(Len(runs) > 1)
      BY <1>3
    <3>2. QED
      BY <2>1, <3>1, FoundedAlone
  <2>3. QED
    BY <1>1, <1>3, <2>2, ResolvedStep
<1>4. CASE Len(runs) = 1 /\ Resolved(i, mapRunBucket(runs[1])) /\ UNCHANGED calls
  <2>1. runs[1] \in RunStates
    BY <1>2, <1>4
  <2>2. Founded(i, mapRunBucket(runs[1]), calls')
    <3>1. ~(Len(runs) > 1)
      BY <1>4
    <3>2. QED
      BY <2>1, <3>1, RunSays, FoundedAlone
  <2>3. QED
    BY <1>1, <1>4, <2>2, ResolvedStep
<1>5. CASE Resolved(i, Ambiguous) /\ UNCHANGED calls
  <2>1. Founded(i, Ambiguous, calls')
    BY DEF Founded, Ambiguous, Row, Execution
  <2>2. QED
    BY <1>1, <1>5, <2>1, ResolvedStep
<1>6. ASSUME Len(runs) > 1, Len(calls) < MaxStatusCalls, NEW answer \in Answers,
             calls' = Append(calls, [goal |-> goal, answer |-> answer]),
             Resolved(i, statusAnswer(answer))
      PROVE  MapInv'
  <2> DEFINE asked == [goal |-> goal, answer |-> answer]
             newest == Len(calls) + 1
  <2>1. asked \in Questions /\ asked.goal = goal /\ asked.answer = answer
    BY <1>2 DEF Questions
  <2>2. calls \in Seq(Questions) /\ Len(calls) \in Nat /\ calls' = Append(calls, asked)
    BY <1>1, <1>6 DEF AskedWithin
  <2> HIDE DEF asked
  <2>3. /\ calls' \in Seq(Questions) /\ Len(calls') = newest
        /\ newest \in DOMAIN calls' /\ calls'[newest] = asked
        /\ \A k \in DOMAIN calls : k \in DOMAIN calls' /\ calls'[k] = calls[k]
    BY <2>1, <2>2
  <2>4. AskedWithin(calls')
    BY <1>6, <2>2, <2>3, MapAssumption DEF AskedWithin
  <2>5. Founded(i, statusAnswer(answer), calls')
    <3>1. \E k \in DOMAIN calls' : calls'[k].goal = goal
                                   /\ statusAnswer(calls'[k].answer) = statusAnswer(answer)
      BY <2>1, <2>3
    <3> HIDE DEF goal
    <3>2. QED
      BY <3>1, AnswerSays DEF Founded, goal
  <2>6. QED
    BY <1>6, <2>3, <2>4, <2>5, ResolvedStep
<1>7. QED
  BY <1>3, <1>4, <1>5, <1>6 DEF resolveGoal

\* The next candidate is taken, or none is left.
LEMMA JoinStep == ASSUME MapInv, Join PROVE MapInv'
<1> DEFINE left == Candidates(read) \ DOMAIN joined
           i == Earliest(left)
           aim == read[i].realized
<1>1. mAt = "join" /\ UNCHANGED <<files, rows, snap, read, derived, nodes, changed>>
  BY DEF Join
<1>2. ReadInv /\ JoinedInv /\ AskedWithin(calls)
  BY <1>1 DEF MapInv
<1>3. CASE left = {}
  <2>1. mAt' = "derive" /\ UNCHANGED <<joined, calls>>
    BY <1>3 DEF Join
  <2>2. DOMAIN joined = Candidates(read)
    BY <1>2, <1>3 DEF JoinedInv
  <2>3. ReadInv' /\ JoinedInv' /\ (DOMAIN joined = Candidates(read))'
    BY <1>1, <1>2, <2>1, <2>2 DEF ReadInv, JoinedInv, Frozen, Agree, Candidates, Founded, Degraded, GoalOf
  <2>4. Frozen(files)' /\ AskedWithin(calls)' /\ Frozen(rows)' /\ Agree(files, rows, changed)'
    BY <1>1, <2>1 DEF MapInv, Frozen, Agree, AskedWithin
  <2>5. QED
    BY <2>1, <2>3, <2>4 DEF MapInv
<1>4. CASE left # {}
  <2>1. left \in SUBSET Listed
    BY <1>2 DEF Candidates, ReadInv, Frozen
  <2>2. i \in Candidates(read)
    BY <1>4, <2>1, EarliestIsOne
  <2>3. \/ Degraded /\ Resolved(i, Unresolved) /\ UNCHANGED <<mAt, calls>>
        \/ mAt' = "failed" /\ UNCHANGED <<joined, calls>>
        \/ /\ ~Degraded /\ UNCHANGED mAt
           /\ IF GoalOf(aim) = NoTarget THEN Resolved(i, Unresolved) /\ UNCHANGED calls
              ELSE resolveGoal(i, GoalOf(aim))
    BY <1>4 DEF Join
  <2>4. aim = read[i].realized
    OBVIOUS
  <2> HIDE DEF i, aim, left
  <2>5. CASE Resolved(i, Unresolved) /\ UNCHANGED <<mAt, calls>>
    <3>1. Founded(i, Unresolved, calls')
      BY DEF Founded, Unresolved, Row, Execution
    <3>2. QED
      BY <1>1, <1>2, <2>2, <2>5, <3>1, ResolvedStep
  <2>6. CASE mAt' = "failed" /\ UNCHANGED <<joined, calls>>
    BY <1>1, <2>6 DEF MapInv, Frozen, Agree, AskedWithin
  <2>7. CASE ~Degraded /\ UNCHANGED mAt /\ GoalOf(aim) # NoTarget /\ resolveGoal(i, GoalOf(aim))
    BY <1>1, <2>2, <2>4, <2>7, ResolveGoalStep
  <2>8. QED
    BY <2>3, <2>5, <2>6, <2>7
<1>5. QED
  BY <1>3, <1>4

\* The ledger's own half is derived.
LEMMA DeriveStep == ASSUME MapInv, Derive PROVE MapInv'
<1>1. mAt = "derive" /\ UNCHANGED <<files, rows, snap, read, joined, calls, nodes, changed>>
  BY DEF Derive, Stage
<1>2. Frozen(files)' /\ AskedWithin(calls)' /\ Frozen(rows)' /\ Agree(files, rows, changed)'
  BY <1>1 DEF MapInv, Frozen, Agree, AskedWithin
<1>3. ReadInv' /\ JoinedInv' /\ (DOMAIN joined = Candidates(read))'
  BY <1>1 DEF MapInv, ReadInv, JoinedInv, Frozen, Agree, Candidates, Founded, Degraded, GoalOf
<1>4. \/ mAt' = "failed"
      \/ mAt' = "assemble" /\ derived' = [toPlan |-> DeriveToBePlanned, blocked |-> DeriveDecisionBlocked,
                                          terminal |-> Terminal]
  BY DEF Derive, Stage
<1>5. /\ DeriveToBePlanned' = DeriveToBePlanned /\ DeriveDecisionBlocked' = DeriveDecisionBlocked
      /\ Terminal' = Terminal
  BY <1>1 DEF DeriveToBePlanned, Selected, DeriveDecisionBlocked, Blocking, Terminal
<1>6. QED
  BY <1>2, <1>3, <1>4, <1>5 DEF MapInv

\* The nodes are put together.
LEMMA BuildTreeStep == ASSUME MapInv, BuildTree PROVE MapInv'
<1>1. /\ mAt = "assemble" /\ mAt' = "done"
      /\ UNCHANGED <<files, rows, snap, read, joined, calls, derived, changed>>
      /\ DOMAIN nodes' = DOMAIN read /\ \A i \in DOMAIN nodes' : nodes'[i].row = nodeOf(i)
  BY DEF BuildTree, Stage
<1>2. Frozen(files)' /\ AskedWithin(calls)' /\ Frozen(rows)' /\ Agree(files, rows, changed)'
  BY <1>1 DEF MapInv, Frozen, Agree, AskedWithin
<1>3. ReadInv' /\ JoinedInv' /\ (DOMAIN joined = Candidates(read))'
  BY <1>1 DEF MapInv, ReadInv, JoinedInv, Frozen, Agree, Candidates, Founded, Degraded, GoalOf
<1>4. /\ DeriveToBePlanned' = DeriveToBePlanned /\ DeriveDecisionBlocked' = DeriveDecisionBlocked
      /\ Terminal' = Terminal
  BY <1>1 DEF DeriveToBePlanned, Selected, DeriveDecisionBlocked, Blocking, Terminal
<1>5. \A i \in DOMAIN nodes' : nodeOf(i)' = nodeOf(i)
  BY <1>1 DEF nodeOf
<1>6. QED
  BY <1>1, <1>2, <1>3, <1>4, <1>5 DEF MapInv

\* An entry changes under the run.
LEMMA ChangeStep == ASSUME MapInv, NEW i \in Listed, Change(i) PROVE MapInv'
<1>1. /\ mAt \in {"snapshot", "entries", "join", "derive"} /\ changed' = changed \cup {i}
      /\ UNCHANGED <<mAt, rows, snap, read, joined, calls, derived, nodes>>
  BY DEF Change
<1>2. Frozen(files') /\ Agree(files', files, {i})
  <2>1. Frozen(files)
    BY DEF MapInv
  <2>2. CASE files' = [k \in DOMAIN files \ {i} |-> files[k]]
    BY <2>1, <2>2 DEF Frozen, Agree
  <2>3. ASSUME NEW e \in Contents,
               files' = [k \in DOMAIN files \cup {i} |-> IF k = i THEN e ELSE files[k]]
        PROVE  Frozen(files') /\ Agree(files', files, {i})
    <3>1. NamesGoal(e)
      BY MapAssumption
    <3>2. QED
      BY <2>1, <2>3, <3>1 DEF Frozen, Agree
  <2>4. QED
    BY <2>2, <2>3 DEF Change
<1>3. Frozen(files)' /\ AskedWithin(calls)' /\ Frozen(rows)' /\ Agree(files, rows, changed)'
  BY <1>1, <1>2 DEF MapInv, Frozen, Agree, AskedWithin
<1>4. ASSUME mAt \in {"join", "derive"} PROVE ReadInv' /\ JoinedInv'
  BY <1>1, <1>4 DEF MapInv, ReadInv, JoinedInv, Frozen, Agree, Candidates, Founded, Degraded, GoalOf
<1>5. ASSUME mAt = "derive" PROVE (DOMAIN joined = Candidates(read))'
  BY <1>1, <1>5 DEF MapInv, Candidates
<1>6. mAt = "entries" => (snap \in Portfolios \cup [why : Unavailable])'
  BY <1>1 DEF MapInv
<1>7. QED
  BY <1>1, <1>3, <1>4, <1>5, <1>6 DEF MapInv

\* Nothing happens.
LEMMA QuietMapStep == ASSUME MapInv, UNCHANGED mapVars PROVE MapInv'
<1>1. UNCHANGED <<mAt, files, rows, snap, read, joined, calls, derived, nodes, changed>>
  BY DEF mapVars
<1>2. Frozen(files)' /\ AskedWithin(calls)' /\ (mAt # "open" => Frozen(rows) /\ Agree(files, rows, changed))'
  BY <1>1 DEF MapInv, Frozen, Agree, AskedWithin
<1>3. (mAt \in {"join", "derive", "assemble", "done"} => ReadInv /\ JoinedInv)'
  BY <1>1 DEF MapInv, ReadInv, JoinedInv, Frozen, Agree, Candidates, Founded, Degraded, GoalOf
<1>4. (mAt \in {"derive", "assemble", "done"} => DOMAIN joined = Candidates(read))'
  BY <1>1 DEF MapInv, Candidates
<1>5. /\ DeriveToBePlanned' = DeriveToBePlanned /\ DeriveDecisionBlocked' = DeriveDecisionBlocked
      /\ Terminal' = Terminal
  BY <1>1 DEF DeriveToBePlanned, Selected, DeriveDecisionBlocked, Blocking, Terminal
<1>6. \A i \in DOMAIN nodes : nodeOf(i)' = nodeOf(i)
  BY <1>1 DEF nodeOf
<1>7. QED
  BY <1>1, <1>2, <1>3, <1>4, <1>5, <1>6 DEF MapInv

\* The inductive invariant: every reading agrees with the cache but where
\* something was changed; every row so far rests on the portfolio or on an
\* answer; and at the end the ledger's half is derived from what is there.
THEOREM MapInvariance == MapSpec => []MapInv
<1>1. MapInit => MapInv
  <2> SUFFICES ASSUME MapInit PROVE MapInv
    OBVIOUS
  <2>1. files \in MapLedgers /\ mAt = "open" /\ joined = Nothing /\ calls = <<>>
    BY DEF MapInit
  <2>2. Frozen(files) /\ AskedWithin(calls)
    BY <2>1, MapAssumption DEF Frozen, AskedWithin, Listed
  <2>3. QED
    BY <2>1, <2>2 DEF MapInv
<1>2. MapInv /\ [MapNext]_mapVars => MapInv'
  <2> SUFFICES ASSUME MapInv, [MapNext]_mapVars PROVE MapInv'
    OBVIOUS
  <2>1. ASSUME NEW i \in Range(Index), Change(i) PROVE MapInv'
    BY <2>1, ChangeStep DEF Listed
  <2>2. CASE UNCHANGED mapVars
    BY <2>2, QuietMapStep
  <2>3. QED
    BY <2>1, <2>2, OpenIndexStep, SnapshotStep, ReadEntriesStep, JoinStep, DeriveStep, BuildTreeStep
       DEF MapNext
<1>3. QED
  BY <1>1, <1>2, PTL DEF MapSpec

\* However the external program answers, and whatever changes in the ledger
\* during a run of `dira map`, the node of an entry that was left alone says of
\* the ledger what the ledger says (internal/status, internal/cli).
THEOREM TheLedgersHalf == MapSpec => []LedgerHalfStands
<1>1. MapInv => LedgerHalfStands
  <2> SUFFICES ASSUME MapInv, mAt = "done", NEW i \in DOMAIN nodes, Steady(i)
               PROVE  LET held == ~IsAtRest(files[i]) /\ \E q \in Holds(i) : files[q].state = "open"
                          says == nodes[i].row
                      IN  /\ says.bucket = "decision_blocked" <=> held
                          /\ says.bucket = "to_be_planned" <=>
                               ~held /\ IsJoinCandidate(i, files[i]) /\ files[i].realized = NoTarget
                          /\ IsJoinCandidate(i, files[i]) => says.says # "nothing"
    BY DEF LedgerHalfStands
  <2> DEFINE held == ~IsAtRest(files[i]) /\ \E q \in Holds(i) : files[q].state = "open"
             candidate == IsJoinCandidate(i, files[i])
             named == files[i].realized # NoTarget
             row == nodes[i].row
  <2>1. /\ i \in DOMAIN rows /\ i \in DOMAIN read /\ row = nodeOf(i)
        /\ Frozen(rows) /\ Agree(files, rows, changed) /\ ReadInv /\ JoinedInv
        /\ DOMAIN joined = Candidates(read)
        /\ derived = [toPlan |-> DeriveToBePlanned, blocked |-> DeriveDecisionBlocked, terminal |-> Terminal]
    BY DEF MapInv, ReadInv
  <2>2. i \in DOMAIN files /\ files[i] = rows[i] /\ read[i] = rows[i]
    BY <2>1 DEF Steady, Agree, ReadInv, Frozen
  <2>3. i \in DOMAIN derived.blocked <=> held
    <3>1. Blocking(i) # {} <=> \E q \in Holds(i) : files[q].state = "open"
      BY <2>1 DEF Blocking, Holds, Steady, Agree, Frozen
    <3>2. i \in DOMAIN DeriveDecisionBlocked <=> ~IsAtRest(rows[i]) /\ Blocking(i) # {}
      BY <2>1 DEF DeriveDecisionBlocked
    <3>3. QED
      BY <2>1, <2>2, <3>1, <3>2
  <2>4. candidate => i \notin derived.terminal
    BY <2>1, <2>2 DEF IsJoinCandidate, Terminal
  <2>5. i \in DOMAIN joined <=> candidate /\ named
    BY <2>1, <2>2 DEF Candidates
  <2>6. i \in derived.toPlan <=> candidate /\ ~named
    BY <2>1, <2>2 DEF DeriveToBePlanned, Selected
  <2>7. i \in DOMAIN joined => joined[i].says # "nothing" /\ joined[i].bucket \in Execution \cup {""}
    BY <2>1 DEF JoinedInv, Founded
  <2>8. row = IF i \in DOMAIN derived.blocked THEN InBucket("decision_blocked")
              ELSE IF i \in derived.terminal THEN Row("", "terminal")
              ELSE IF i \in DOMAIN joined THEN joined[i]
              ELSE IF i \in derived.toPlan THEN InBucket("to_be_planned")
              ELSE Row("", "nothing")
    BY <2>1 DEF nodeOf
  <2> HIDE DEF held, candidate, named, row
  <2>9. /\ row.bucket = "decision_blocked" <=> held
        /\ row.bucket = "to_be_planned" <=> ~held /\ candidate /\ ~named
        /\ candidate => row.says # "nothing"
    BY <2>3, <2>4, <2>5, <2>6, <2>7, <2>8 DEF InBucket, Row, Execution
  <2>10. QED
    BY <2>9 DEF held, candidate, named, row
<1>2. QED
  BY <1>1, MapInvariance, PTL

\* Where the portfolio has several runs of a goal, no entry is put in an
\* execution bucket but by the answer to a question about that goal, of which
\* there are never more than the bound; and without a portfolio none is
\* (internal/status/join.go resolveGoal).
THEOREM NothingIsGuessed == MapSpec => []NeverGuessed
<1>1. MapInv => NeverGuessed
  <2> SUFFICES ASSUME MapInv, mAt = "done" PROVE NeverGuessed
    BY DEF NeverGuessed
  <2>1. Len(calls) <= MaxStatusCalls
    BY DEF MapInv, AskedWithin
  <2>2. ASSUME NEW i \in DOMAIN nodes, nodes[i].row.bucket \in Execution
        PROVE  /\ ~Degraded
               /\ LET goal == GoalOf(read[i].realized) IN Len(snap.runs[goal]) > 1 =>
                    \E k \in DOMAIN calls : calls[k].goal = goal /\ statusAnswer(calls[k].answer) = nodes[i].row
    <3>1. nodes[i].row = nodeOf(i) /\ JoinedInv
      BY DEF MapInv
    <3> DEFINE row == nodes[i].row
    <3>2. \/ i \in DOMAIN joined /\ row = joined[i]
          \/ row \in {InBucket("decision_blocked"), Row("", "terminal"), InBucket("to_be_planned"), Row("", "nothing")}
      BY <3>1 DEF nodeOf
    <3>3. row.bucket \in Execution
      BY <2>2
    <3> HIDE DEF row
    <3>4. /\ InBucket("decision_blocked").bucket = "decision_blocked" /\ Row("", "terminal").bucket = ""
          /\ InBucket("to_be_planned").bucket = "to_be_planned" /\ Row("", "nothing").bucket = ""
      BY DEF InBucket, Row
    <3>5. row.bucket \notin {"decision_blocked", "to_be_planned", ""}
      BY <3>3 DEF Execution
    <3>6. i \in DOMAIN joined /\ row = joined[i]
      BY <3>2, <3>4, <3>5
    <3>7. i \in DOMAIN joined /\ nodes[i].row = joined[i]
      BY <3>6 DEF row
    <3>8. Founded(i, nodes[i].row, calls)
      BY <3>1, <3>7 DEF JoinedInv
    <3>9. QED
      BY <2>2, <3>8 DEF Founded
  <2>3. QED
    BY <2>1, <2>2 DEF NeverGuessed
<1>2. QED
  BY <1>1, MapInvariance, PTL

-----------------------------------------------------------------------------
(***************************************************************************)
(* What a list of pieces costs, and how many of them are of one section.   *)
(***************************************************************************)
Costed(s) == Len(s) \in Nat /\ DOMAIN s = 1 .. Len(s) /\ \A k \in 1 .. Len(s) : s[k].cost \in Nat

\* The costs of the first n pieces, added up.
SumsUpTo(f, n, s) == f = [k \in 0 .. n |-> IF k = 0 THEN 0 ELSE f[k - 1] + s[k].cost]


\* t is s with one more piece.
Extends(t, s, piece) ==
    /\ Len(t) = Len(s) + 1 /\ t[Len(t)] = piece
    /\ \A k \in 1 .. Len(s) : t[k] = s[k]

\* How many pieces of a section are written.
Count(s, i) == Cardinality({k \in DOMAIN s : s[k].section = i})

\* There is a function that sums the first pieces up, for any number of them.
LEMMA SumsExist ==
  ASSUME NEW s, Costed(s), NEW n \in 0 .. Len(s)
  PROVE  \E f \in [0 .. n -> Nat] : SumsUpTo(f, n, s)
<1> DEFINE without == {m \in 0 .. Len(s) : ~\E f \in [0 .. m -> Nat] : SumsUpTo(f, m, s)}
<1>1. SUFFICES ASSUME without # {} PROVE FALSE
  OBVIOUS
<1>2. without \in SUBSET Nat
  BY DEF Costed
<1>3. PICK m \in without : \A x \in without : m <= x
  BY <1>1, <1>2, MinIsIn
<1>4. /\ m \in 0 .. Len(s) /\ ~\E f \in [0 .. m -> Nat] : SumsUpTo(f, m, s)
      /\ \A x \in 0 .. Len(s) : x \notin without => \E f \in [0 .. x -> Nat] : SumsUpTo(f, x, s)
  OBVIOUS
<1> HIDE DEF without
<1>5. CASE m = 0
  <2> DEFINE f == [k \in 0 .. 0 |-> 0]
  <2>1. f \in [0 .. m -> Nat]
    BY <1>5
  <2>2. SumsUpTo(f, m, s)
    BY <1>5 DEF SumsUpTo
  <2>3. QED
    BY <1>4, <2>1, <2>2
<1>6. CASE m # 0
  <2>1. m \in Nat /\ m <= Len(s) /\ Len(s) \in Nat /\ m - 1 \in 0 .. Len(s)
    BY <1>6, <1>4 DEF Costed
  <2>2. m - 1 \notin without
    <3>1. ~(m <= m - 1)
      BY <2>1
    <3>2. QED
      BY <1>3, <3>1
  <2>3. PICK f \in [0 .. m - 1 -> Nat] : SumsUpTo(f, m - 1, s)
    BY <1>4, <2>1, <2>2
  <2> DEFINE g == [k \in 0 .. m |-> IF k = m THEN f[m - 1] + s[m].cost ELSE f[k]]
  <2>4. s[m].cost \in Nat
    BY <1>6, <2>1 DEF Costed
  <2>5. g \in [0 .. m -> Nat]
    BY <2>1, <2>3, <2>4
  <2>6. \A k \in 0 .. m - 1 : f[k] = IF k = 0 THEN 0 ELSE f[k - 1] + s[k].cost
    BY <2>3 DEF SumsUpTo
  <2>7. ASSUME NEW k \in 0 .. m PROVE g[k] = IF k = 0 THEN 0 ELSE g[k - 1] + s[k].cost
    <3>1. CASE k = m
      BY <1>6, <2>1, <3>1
    <3>2. CASE k # m
      <4>1. k \in 0 .. m - 1 /\ g[k] = f[k]
        BY <2>1, <3>2
      <4>2. k # 0 => g[k - 1] = f[k - 1]
        BY <2>1, <4>1
      <4>3. QED
        BY <2>6, <4>1, <4>2
    <3>3. QED
      BY <3>1, <3>2
  <2> HIDE DEF g
  <2>8. g = [k \in 0 .. m |-> IF k = 0 THEN 0 ELSE g[k - 1] + s[k].cost]
    BY <2>5, <2>7
  <2>9. QED
    BY <1>4, <2>5, <2>8 DEF SumsUpTo
<1>7. QED
  BY <1>5, <1>6

\* Two sums that start alike and grow alike are alike.
LEMMA SumsAgree ==
  ASSUME NEW s, NEW t, NEW f, NEW g, NEW n \in Nat, NEW m \in Nat, n <= m,
         SumsUpTo(f, n, s), SumsUpTo(g, m, t), Alike(s, t, n)
  PROVE  \A k \in 0 .. n : f[k] = g[k]
<1> DEFINE apart == {k \in 0 .. n : f[k] # g[k]}
<1>1. SUFFICES ASSUME apart # {} PROVE FALSE
  OBVIOUS
<1>2. PICK k \in apart : \A x \in apart : k <= x
  <2>1. apart \in SUBSET Nat
    OBVIOUS
  <2> HIDE DEF apart
  <2>2. QED
    BY <1>1, <2>1, MinIsIn
<1>3. f[k] = IF k = 0 THEN 0 ELSE f[k - 1] + s[k].cost
  BY DEF SumsUpTo
<1>4. g[k] = IF k = 0 THEN 0 ELSE g[k - 1] + t[k].cost
  BY DEF SumsUpTo
<1>5. k # 0
  BY <1>3, <1>4
<1>6. k - 1 \in 0 .. n /\ k - 1 \notin apart
  BY <1>2, <1>5
<1>7. f[k - 1] = g[k - 1] /\ s[k] = t[k]
  BY <1>5, <1>6 DEF Alike
<1>8. QED
  BY <1>3, <1>4, <1>5, <1>7

\* The recursive function is that sum.
LEMMA CostIsASum ==
  ASSUME NEW s, Costed(s)
  PROVE  \E f \in [0 .. Len(s) -> Nat] : SumsUpTo(f, Len(s), s) /\ Cost(s) = f[Len(s)]
<1> DEFINE upTo == CHOOSE f : f = [k \in 0 .. Len(s) |-> IF k = 0 THEN 0 ELSE f[k - 1] + s[k].cost]
<1>1. Len(s) \in Nat /\ Len(s) \in 0 .. Len(s)
  BY DEF Costed
<1>2. PICK f \in [0 .. Len(s) -> Nat] : SumsUpTo(f, Len(s), s)
  BY <1>1, SumsExist
<1>3. SumsUpTo(upTo, Len(s), s)
  BY <1>2 DEF SumsUpTo
<1>4. Cost(s) = upTo[Len(s)]
  BY DEF Cost
<1> HIDE DEF upTo
<1>5. upTo[Len(s)] = f[Len(s)]
  BY <1>1, <1>2, <1>3, SumsAgree DEF Alike
<1>6. QED
  BY <1>2, <1>4, <1>5

\* One more piece costs what it costs.
LEMMA CostOfOneMore ==
  ASSUME NEW s, NEW t, NEW piece, Costed(s), Costed(t), Extends(t, s, piece)
  PROVE  Cost(s) \in Nat /\ Cost(t) = Cost(s) + piece.cost
<1>1. Len(s) \in Nat /\ Len(t) = Len(s) + 1 /\ t[Len(t)] = piece /\ \A k \in 1 .. Len(s) : s[k] = t[k]
  BY DEF Costed, Extends
<1>2. PICK f \in [0 .. Len(s) -> Nat] : SumsUpTo(f, Len(s), s) /\ Cost(s) = f[Len(s)]
  BY CostIsASum
<1>3. PICK g \in [0 .. Len(t) -> Nat] : SumsUpTo(g, Len(t), t) /\ Cost(t) = g[Len(t)]
  BY CostIsASum
<1>4. \A k \in 0 .. Len(s) : f[k] = g[k]
  <2> DEFINE n == Len(s)
             m == Len(t)
  <2>1. n \in Nat /\ m \in Nat /\ n <= m /\ Alike(s, t, n)
    BY <1>1 DEF Alike
  <2>2. SumsUpTo(f, n, s) /\ SumsUpTo(g, m, t)
    BY <1>2, <1>3
  <2> HIDE DEF n, m
  <2>3. \A k \in 0 .. n : f[k] = g[k]
    BY <2>1, <2>2, SumsAgree
  <2>4. QED
    BY <2>3 DEF n
<1>5. g[Len(t)] = g[Len(t) - 1] + t[Len(t)].cost
  BY <1>1, <1>3 DEF SumsUpTo
<1>6. Len(t) - 1 = Len(s) /\ f[Len(s)] = g[Len(s)] /\ f[Len(s)] \in Nat
  BY <1>1, <1>2, <1>4
<1>7. QED
  BY <1>1, <1>2, <1>3, <1>5, <1>6

\* Nothing costs nothing.
LEMMA CostOfNone == Cost(<<>>) = 0
<1>1. Costed(<<>>)
  BY DEF Costed
<1>2. PICK f \in [0 .. Len(<<>>) -> Nat] : SumsUpTo(f, Len(<<>>), <<>>) /\ Cost(<<>>) = f[Len(<<>>)]
  BY <1>1, CostIsASum
<1>3. f[0] = 0
  BY <1>2 DEF SumsUpTo
<1>4. QED
  BY <1>2, <1>3

\* One more piece counts for its own section and no other.
LEMMA CountOfOneMore ==
  ASSUME NEW s, NEW t, NEW piece, Costed(s), Costed(t), Extends(t, s, piece), NEW i
  PROVE  /\ Count(s, i) \in Nat
         /\ Count(t, i) = IF piece.section = i THEN Count(s, i) + 1 ELSE Count(s, i)
<1> DEFINE old == {k \in DOMAIN s : s[k].section = i}
           new == {k \in DOMAIN t : t[k].section = i}
           newest == Len(t)
<1>1. /\ Len(s) \in Nat /\ newest = Len(s) + 1 /\ DOMAIN s = 1 .. Len(s) /\ DOMAIN t = 1 .. newest
      /\ t[newest] = piece /\ \A k \in 1 .. Len(s) : t[k] = s[k]
  BY DEF Costed, Extends
<1>2. IsFiniteSet(1 .. Len(s)) /\ old \in SUBSET (1 .. Len(s))
  BY <1>1, FS_Interval
<1>3. IsFiniteSet(old) /\ Cardinality(old) \in Nat
  BY <1>2, FS_Subset, FS_CardinalityType
<1>4. newest \notin old
  BY <1>1
<1> HIDE DEF newest
<1>5. new = IF piece.section = i THEN old \cup {newest} ELSE old
  <2>1. \A k \in 1 .. newest : k \in 1 .. Len(s) \/ k = newest
    BY <1>1
  <2>2. newest \in 1 .. newest /\ \A k \in 1 .. Len(s) : k \in 1 .. newest
    BY <1>1
  <2>3. QED
    BY <1>1, <2>1, <2>2
<1>6. Cardinality(old \cup {newest}) = Cardinality(old) + 1
  BY <1>3, <1>4, FS_AddElement
<1>7. QED
  BY <1>3, <1>5, <1>6 DEF Count

\* There is nothing of any section in nothing.
LEMMA CountOfNone == \A i : Count(<<>>, i) = 0
<1>1. \A i : {k \in DOMAIN <<>> : <<>>[k].section = i} = {}
  OBVIOUS
<1>2. QED
  BY <1>1, FS_EmptySet DEF Count

\* A section that counts nothing has no piece.
LEMMA CountedThere ==
  ASSUME NEW s, Costed(s), NEW k \in DOMAIN s
  PROVE  Count(s, s[k].section) \in Nat \ {0}
<1> DEFINE old == {m \in DOMAIN s : s[m].section = s[k].section}
<1>1. IsFiniteSet(1 .. Len(s)) /\ old \in SUBSET (1 .. Len(s))
  <2>1. Len(s) \in Nat /\ DOMAIN s = 1 .. Len(s)
    BY DEF Costed
  <2>2. IsFiniteSet(1 .. Len(s))
    BY <2>1, FS_Interval
  <2>3. QED
    BY <2>1, <2>2
<1>2. IsFiniteSet(old) /\ Cardinality(old) \in Nat /\ k \in old
  BY <1>1, FS_Subset, FS_CardinalityType
<1>3. Cardinality(old) # 0
  BY <1>2, FS_EmptySet
<1>4. QED
  BY <1>2, <1>3 DEF Count

\* Adding a piece leaves those before it.
LEMMA AppendExtends ==
  ASSUME NEW S, NEW s \in Seq(S), NEW piece \in S
  PROVE  Append(s, piece) \in Seq(S) /\ Extends(Append(s, piece), s, piece)
BY DEF Extends

\* So does taking the last one back.
LEMMA FrontIsExtended ==
  ASSUME NEW S, NEW s \in Seq(S), s # <<>>
  PROVE  Front(s) \in Seq(S) /\ Last(s) \in S /\ Extends(s, Front(s), Last(s))
<1>1. Len(s) \in Nat /\ Len(s) >= 1
  OBVIOUS
<1>2. Last(s) \in S
  BY <1>1 DEF Last
<1> DEFINE n == Len(s) - 1
<1>3. n \in Nat /\ n <= Len(s)
  BY <1>1
<1>4. Front(s) = SubSeq(s, 1, n)
  BY DEF Front
<1> HIDE DEF n
<1>5. SubSeq(s, 1, n) \in Seq(S)
  BY <1>3
<1>6. Len(SubSeq(s, 1, n)) = n
  BY <1>1, <1>3
<1>7. \A k \in 1 .. n : SubSeq(s, 1, n)[k] = s[k]
  BY <1>1, <1>3
<1>8. Front(s) \in Seq(S) /\ Len(Front(s)) = Len(s) - 1
      /\ \A k \in 1 .. Len(s) - 1 : Front(s)[k] = s[k]
  BY <1>4, <1>5, <1>6, <1>7 DEF n
<1>9. QED
  BY <1>1, <1>2, <1>8 DEF Extends, Last

-----------------------------------------------------------------------------
(***************************************************************************)
(* `dira brief`, for any ledger, any ceiling and whatever the entries cost *)
(* when they are read.                                                     *)
(***************************************************************************)
Tallies == [total : Nat, kept : Nat]
\* A piece of the brief.
Pieces == [cost : Nat, section : Nat]
\* The types of what a run keeps.
BriefTypeOK ==
    /\ bAt \in {"config", "preamble", "sections", "chain", "ancestors", "footer", "done"}
    /\ load \in SectionLoads /\ maxTokens \in Nat /\ blocks \in Nat /\ next \in Nat \ {0}
    /\ sections \in Seq(Tallies) /\ written \in Seq(Pieces) /\ waiting \in Seq(Nat)

\* What is counted as kept is on the page, and no more than there is.
Tallied(tally, pages) ==
    \A i \in 1 .. Len(tally) : tally[i].kept = Count(pages, i) /\ tally[i].kept <= tally[i].total

\* The pieces of the sections come in the order of the sections.
InOrder(tally, pages) ==
    /\ \A k \in DOMAIN pages : pages[k].section <= Len(tally)
    /\ \A k, m \in DOMAIN pages : k < m /\ pages[m].section # noSection => pages[k].section <= pages[m].section

\* A section of the own ledger has an entry on the page only if those before
\* it have all of theirs there.
FilledInTurn(tally) ==
    /\ Len(load) <= Len(tally)
    /\ \A i \in 1 .. Len(load) : tally[i].total = load[i]
    /\ \A i, j \in 1 .. Len(load) : i < j /\ tally[j].kept > 0 => tally[i].kept = load[i]

\* Before the chain is asked, the fill has come as far as its next section.
Reached(tally, pages, n) ==
    /\ Len(tally) = Len(load) /\ \A k \in DOMAIN pages : pages[k].section <= n
    /\ \A i \in 1 .. Len(load) : i < n => tally[i].kept = load[i]

\* What is written and the footer that is held for it stay within the ceiling.
Paid(pages, foot) == Cost(pages) \in Nat /\ foot.cost \in Nat /\ Cost(pages) + foot.cost <= maxTokens

\* What holds at every step of the fill.
BriefInv ==
    /\ BriefTypeOK /\ Paid(written, tail)
    /\ bAt = "config" => written = <<>> /\ next = 1
    /\ bAt # "config" => Tallied(sections, written) /\ InOrder(sections, written) /\ FilledInTurn(sections)
    /\ bAt \in {"preamble", "sections"} => Reached(sections, written, next)
    /\ bAt # "done" => tail = NoTail
    /\ bAt = "done" => tail.names = Dropped \/ (written = <<>> /\ tail = NoTail)

\* Every piece has a cost.
LEMMA PagesAreCosted == ASSUME NEW pages \in Seq(Pieces) PROVE Costed(pages)
<1>1. Len(pages) \in Nat /\ DOMAIN pages = 1 .. Len(pages)
  OBVIOUS
<1>2. \A k \in 1 .. Len(pages) : pages[k] \in Pieces
  OBVIOUS
<1>3. QED
  BY <1>1, <1>2 DEF Costed, Pieces

\* The sections stay typed when one of them changes.
LEMMA SectionsTyped ==
  ASSUME BriefTypeOK
  PROVE  /\ Len(sections) \in Nat /\ DOMAIN sections = 1 .. Len(sections)
         /\ \A i \in 1 .. Len(sections) : sections[i] \in Tallies
         /\ \A i \in 1 .. Len(sections) : sections[i].total \in Nat /\ sections[i].kept \in Nat
         /\ Len(load) \in Nat /\ DOMAIN load = 1 .. Len(load) /\ \A i \in 1 .. Len(load) : load[i] \in Nat
<1>1. sections \in Seq(Tallies) /\ load \in Seq(Nat)
  BY BriefAssumption DEF BriefTypeOK
<1>2. /\ Len(sections) \in Nat /\ DOMAIN sections = 1 .. Len(sections)
      /\ \A i \in 1 .. Len(sections) : sections[i] \in Tallies
  BY <1>1
<1>3. \A i \in 1 .. Len(sections) : sections[i].total \in Nat /\ sections[i].kept \in Nat
  BY <1>2 DEF Tallies
<1>4. Len(load) \in Nat /\ DOMAIN load = 1 .. Len(load) /\ \A i \in 1 .. Len(load) : load[i] \in Nat
  BY <1>1
<1>5. QED
  BY <1>2, <1>3, <1>4

\* A piece that fits is written after the others.
LEMMA WrittenStep ==
  ASSUME BriefTypeOK, Paid(written, tail), tail = NoTail,
         NEW cost \in Nat, NEW section \in Nat, Fits(cost), Write(cost, section)
  PROVE  /\ written' \in Seq(Pieces) /\ Paid(written', tail)
         /\ Extends(written', written, [cost |-> cost, section |-> section])
         /\ \A i : Count(written', i) = IF section = i THEN Count(written, i) + 1 ELSE Count(written, i)
<1> DEFINE piece == [cost |-> cost, section |-> section]
<1>1. piece \in Pieces /\ piece.cost = cost /\ piece.section = section
  BY DEF Pieces
<1>2. written \in Seq(Pieces) /\ maxTokens \in Nat
  BY DEF BriefTypeOK
<1>3. written' = Append(written, piece)
  BY DEF Write
<1> HIDE DEF piece
<1>4. written' \in Seq(Pieces) /\ Extends(written', written, piece)
  BY <1>1, <1>2, <1>3, AppendExtends
<1>5. Costed(written) /\ Costed(written')
  BY <1>2, <1>4, PagesAreCosted
<1>6. Cost(written) \in Nat /\ Cost(written') = Cost(written) + cost
  BY <1>1, <1>4, <1>5, CostOfOneMore
<1>7. Cost(written) + cost <= maxTokens
  BY DEF Fits, spent
<1>8. Paid(written', tail)
  BY <1>2, <1>6, <1>7 DEF Paid, NoTail
<1>9. \A i : Count(written', i) = IF section = i THEN Count(written, i) + 1 ELSE Count(written, i)
  BY <1>1, <1>4, <1>5, CountOfOneMore
<1>10. QED
  BY <1>4, <1>8, <1>9 DEF piece

\* The order of the pieces, when one comes after them that belongs to none of
\* the sections or to none before the others'.
LEMMA OrderStep ==
  ASSUME NEW tally, NEW pages \in Seq(Pieces), NEW more \in Seq(Pieces), NEW piece \in Pieces,
         Extends(more, pages, piece), InOrder(tally, pages), Len(tally) \in Nat,
         piece.section <= Len(tally),
         piece.section # noSection => \A k \in DOMAIN pages : pages[k].section <= piece.section
  PROVE  InOrder(tally, more)
<1>1. /\ Len(pages) \in Nat /\ DOMAIN pages = 1 .. Len(pages) /\ DOMAIN more = 1 .. Len(pages) + 1
      /\ more[Len(pages) + 1] = piece /\ \A k \in 1 .. Len(pages) : more[k] = pages[k]
  BY DEF Extends
<1>2. ASSUME NEW k \in DOMAIN more PROVE k \in DOMAIN pages \/ k = Len(pages) + 1
  BY <1>1
<1>3. \A k \in DOMAIN more : more[k].section <= Len(tally)
  BY <1>1, <1>2 DEF InOrder
<1>4. ASSUME NEW k \in DOMAIN more, NEW m \in DOMAIN more, k < m, more[m].section # noSection
      PROVE  more[k].section <= more[m].section
  <2>1. k \in DOMAIN pages
    BY <1>1, <1>2, <1>4
  <2>2. CASE m \in DOMAIN pages
    BY <1>1, <1>4, <2>1, <2>2 DEF InOrder
  <2>3. CASE m = Len(pages) + 1
    BY <1>1, <1>4, <2>1, <2>3
  <2>4. QED
    BY <1>2, <2>2, <2>3
<1>5. QED
  BY <1>3, <1>4 DEF InOrder

\* No piece is of a section that is not there yet.
LEMMA NoneBeyond ==
  ASSUME NEW pages \in Seq(Pieces), NEW n \in Nat, \A k \in DOMAIN pages : pages[k].section <= n
  PROVE  \A i \in Nat : n < i => Count(pages, i) = 0
<1>1. ASSUME NEW i \in Nat, n < i PROVE {k \in DOMAIN pages : pages[k].section = i} = {}
  <2>1. ~(i <= n)
    BY <1>1
  <2>2. QED
    BY <2>1
<1>2. QED
  BY <1>1, FS_EmptySet DEF Count

\* An entry of section i is put on the page, with those before it all there.
LEMMA OfferedStep ==
  ASSUME BriefTypeOK, Paid(written, tail), tail = NoTail,
         Tallied(sections, written), InOrder(sections, written), FilledInTurn(sections),
         NEW i \in 1 .. Len(sections), sections[i].kept < sections[i].total,
         NEW cost \in EntryCosts, Fits(CostOf(i, cost)), Write(CostOf(i, cost), i),
         sections' = [sections EXCEPT ![i].kept = @ + 1],
         \A k \in DOMAIN written : written[k].section <= i,
         \A h \in 1 .. Len(load) : h < i /\ i <= Len(load) => sections[h].kept = load[h]
  PROVE  /\ written' \in Seq(Pieces) /\ Paid(written', tail)
         /\ sections' \in Seq(Tallies) /\ Len(sections') = Len(sections)
         /\ \A h \in 1 .. Len(sections) : h # i => sections'[h] = sections[h]
         /\ Tallied(sections', written') /\ InOrder(sections', written') /\ FilledInTurn(sections')
         /\ \A k \in DOMAIN written' : written'[k].section <= i
<1> DEFINE price == CostOf(i, cost)
           piece == [cost |-> price, section |-> i]
           more == sections[i].kept + 1
<1>1. /\ Len(sections) \in Nat /\ sections[i].total \in Nat /\ sections[i].kept \in Nat
      /\ Len(load) \in Nat /\ \A h \in 1 .. Len(load) : load[h] \in Nat
      /\ \A h \in 1 .. Len(sections) : sections[h].kept \in Nat
  BY SectionsTyped
<1>2. price \in Nat /\ i \in Nat
  BY <1>1, BriefAssumption DEF CostOf, Heading
<1>3. piece \in Pieces /\ piece.section = i
  BY <1>2 DEF Pieces
<1>4. more \in Nat /\ more <= sections[i].total /\ more > 0
  BY <1>1
<1> HIDE DEF more
<1> DEFINE new == [sections[i] EXCEPT !.kept = more]
<1>5. sections' = [sections EXCEPT ![i] = new] /\ new \in Tallies
      /\ new.kept = more /\ new.total = sections[i].total
  <2>1. sections[i] \in Tallies
    BY SectionsTyped
  <2>2. new \in Tallies /\ new.kept = more /\ new.total = sections[i].total
    BY <1>4, <2>1 DEF Tallies
  <2>3. sections' = [sections EXCEPT ![i] = new]
    BY DEF more
  <2>4. QED
    BY <2>2, <2>3
<1> HIDE DEF new
<1>6. /\ sections' \in Seq(Tallies) /\ Len(sections') = Len(sections)
      /\ sections'[i].kept = more /\ sections'[i].total = sections[i].total
      /\ \A h \in 1 .. Len(sections) : h # i => sections'[h] = sections[h]
  <2>1. i \in DOMAIN sections /\ sections \in Seq(Tallies) /\ Len(sections) \in Nat
    BY SectionsTyped DEF BriefTypeOK
  <2>2. DOMAIN sections = 1 .. Len(sections)
    BY <2>1
  <2>3. sections'[i] = new /\ \A h \in 1 .. Len(sections) : h # i => sections'[h] = sections[h]
    BY <1>5, <2>1, <2>2
  <2>4. sections' \in Seq(Tallies) /\ Len(sections') = Len(sections)
    BY <1>5, <2>1
  <2>5. QED
    BY <1>5, <2>3, <2>4
<1> HIDE DEF price
<1>7. Fits(price) /\ Write(price, i)
  BY DEF price
<1>8. /\ written' \in Seq(Pieces) /\ Paid(written', tail)
      /\ Extends(written', written, piece)
      /\ \A h : Count(written', h) = IF i = h THEN Count(written, h) + 1 ELSE Count(written, h)
  BY <1>2, <1>7, WrittenStep
<1>9. Tallied(sections', written')
  <2>1. sections'[i].kept = Count(written', i)
    BY <1>6, <1>8 DEF Tallied, more
  <2>2. \A h \in 1 .. Len(sections) : h # i =>
           sections'[h].kept = Count(written', h) /\ sections'[h].kept <= sections'[h].total
    BY <1>6, <1>8 DEF Tallied
  <2>3. QED
    BY <1>4, <1>6, <2>1, <2>2 DEF Tallied
<1> HIDE DEF piece
<1>10. written \in Seq(Pieces) /\ InOrder(sections', written)
  BY <1>6 DEF BriefTypeOK, InOrder
<1>11. piece.section <= Len(sections') /\ \A k \in DOMAIN written : written[k].section <= piece.section
  BY <1>1, <1>3, <1>6
<1>12. InOrder(sections', written')
  BY <1>1, <1>3, <1>6, <1>8, <1>10, <1>11, OrderStep
<1>13. FilledInTurn(sections')
  <2>1. Len(load) <= Len(sections') /\ \A h \in 1 .. Len(load) : h \in 1 .. Len(sections)
    BY <1>1, <1>6 DEF FilledInTurn
  <2>2. \A h \in 1 .. Len(load) : sections'[h].total = load[h]
    BY <1>6, <2>1 DEF FilledInTurn
  <2>3. ASSUME NEW a \in 1 .. Len(load), NEW b \in 1 .. Len(load), a < b, sections'[b].kept > 0
        PROVE  sections'[a].kept = load[a]
    <3>1. CASE b = i
      BY <1>1, <1>6, <2>1, <2>3, <3>1
    <3>2. CASE b # i
      <4>1. sections[a].kept = load[a]
        BY <1>6, <2>1, <2>3, <3>2 DEF FilledInTurn
      <4>2. a # i
        BY <1>1, <4>1 DEF FilledInTurn
      <4>3. QED
        BY <1>6, <2>1, <4>1, <4>2
    <3>3. QED
      BY <3>1, <3>2
  <2>4. QED
    BY <2>1, <2>2, <2>3 DEF FilledInTurn
<1>14. ASSUME NEW k \in DOMAIN written' PROVE written'[k].section <= i
  <2>1. /\ DOMAIN written' = 1 .. Len(written) + 1 /\ DOMAIN written = 1 .. Len(written)
        /\ Len(written) \in Nat /\ written'[Len(written) + 1] = piece
        /\ \A h \in 1 .. Len(written) : written'[h] = written[h]
    BY <1>8, <1>10 DEF Extends
  <2>2. CASE k = Len(written) + 1
    BY <1>2, <1>3, <2>1, <2>2
  <2>3. CASE k # Len(written) + 1
    BY <2>1, <2>3
  <2>4. QED
    BY <2>2, <2>3
<1>15. QED
  BY <1>6, <1>8, <1>9, <1>12, <1>13, <1>14

\* A piece that belongs to no section is put on the page.
LEMMA LooseStep ==
  ASSUME BriefTypeOK, Paid(written, tail), tail = NoTail,
         Tallied(sections, written), InOrder(sections, written),
         NEW cost \in Nat, Fits(cost), Write(cost, noSection),
         NEW n \in Nat, \A k \in DOMAIN written : written[k].section <= n
  PROVE  /\ written' \in Seq(Pieces) /\ Paid(written', tail)
         /\ Tallied(sections, written') /\ InOrder(sections, written')
         /\ \A k \in DOMAIN written' : written'[k].section <= n
<1> DEFINE piece == [cost |-> cost, section |-> noSection]
<1>1. noSection \in Nat /\ noSection = 0 /\ written \in Seq(Pieces) /\ Len(sections) \in Nat
  BY SectionsTyped DEF noSection, BriefTypeOK
<1>2. piece \in Pieces /\ piece.section = noSection
  BY <1>1 DEF Pieces
<1>3. /\ written' \in Seq(Pieces) /\ Paid(written', tail) /\ Extends(written', written, piece)
      /\ \A i : Count(written', i) = IF noSection = i THEN Count(written, i) + 1 ELSE Count(written, i)
  BY <1>1, WrittenStep
<1> HIDE DEF piece
<1>4. Tallied(sections, written')
  <2>1. \A i \in 1 .. Len(sections) : Count(written', i) = Count(written, i)
    BY <1>1, <1>3
  <2>2. QED
    BY <2>1 DEF Tallied
<1>5. piece.section <= Len(sections)
  BY <1>1, <1>2
<1>6. InOrder(sections, written')
  BY <1>1, <1>2, <1>3, <1>5, OrderStep
<1>7. ASSUME NEW k \in DOMAIN written' PROVE written'[k].section <= n
  <2>1. /\ DOMAIN written' = 1 .. Len(written) + 1 /\ DOMAIN written = 1 .. Len(written)
        /\ Len(written) \in Nat /\ written'[Len(written) + 1] = piece
        /\ \A h \in 1 .. Len(written) : written'[h] = written[h]
    BY <1>1, <1>3 DEF Extends
  <2>2. CASE k = Len(written) + 1
    BY <1>1, <1>2, <2>1, <2>2
  <2>3. CASE k # Len(written) + 1
    BY <2>1, <2>3
  <2>4. QED
    BY <2>2, <2>3
<1>8. QED
  BY <1>3, <1>4, <1>6, <1>7
-----------------------------------------------------------------------------
(* A step that leaves the page alone.                                      *)
LEMMA SamePageStep ==
  ASSUME BriefInv, bAt \notin {"config", "done"},
         bAt' \in {"preamble", "sections", "chain", "ancestors", "footer"},
         UNCHANGED <<load, maxTokens, sections, written, tail>>,
         blocks' \in Nat, next' \in Nat \ {0}, waiting' \in Seq(Nat),
         bAt' \in {"preamble", "sections"} => Reached(sections, written, next')
  PROVE  BriefInv'
<1>1. BriefTypeOK'
  BY DEF BriefInv, BriefTypeOK
<1>2. Paid(written, tail)' /\ (tail = NoTail)'
  BY DEF BriefInv, Paid
<1>3. Tallied(sections, written)' /\ InOrder(sections, written)' /\ FilledInTurn(sections)'
  BY DEF BriefInv, Tallied, InOrder, FilledInTurn
<1>4. (bAt \in {"preamble", "sections"} => Reached(sections, written, next))'
  BY DEF Reached
<1>5. QED
  BY <1>1, <1>2, <1>3, <1>4 DEF BriefInv

\* What is known before a step.
LEMMA OnThePage ==
  ASSUME BriefInv, bAt \notin {"config", "done"}
  PROVE  /\ BriefTypeOK /\ Paid(written, tail) /\ tail = NoTail
         /\ Tallied(sections, written) /\ InOrder(sections, written) /\ FilledInTurn(sections)
         /\ bAt \in {"preamble", "sections"} => Reached(sections, written, next)
BY DEF BriefInv

\* The sections are loaded.
LEMMA LoadSectionsStep == ASSUME BriefInv, load_sections PROVE BriefInv'
<1> DEFINE tally == [i \in DOMAIN load |-> [total |-> load[i], kept |-> 0]]
<1>1. /\ bAt = "config" /\ bAt' = "preamble" /\ sections' = tally /\ maxTokens' \in Nat /\ blocks' \in Nat
      /\ UNCHANGED <<load, next, written, tail, waiting>>
  BY BriefAssumption DEF load_sections
<1>2. BriefTypeOK /\ written = <<>> /\ next = 1 /\ tail = NoTail
  BY <1>1 DEF BriefInv
<1>3. Len(load) \in Nat /\ DOMAIN load = 1 .. Len(load) /\ \A i \in 1 .. Len(load) : load[i] \in Nat
  BY <1>2, SectionsTyped
<1>4. /\ tally \in Seq(Tallies) /\ Len(tally) = Len(load)
      /\ \A i \in 1 .. Len(load) : tally[i].total = load[i] /\ tally[i].kept = 0
  <2>1. \A i \in 1 .. Len(load) : [total |-> load[i], kept |-> 0] \in Tallies
    BY <1>3 DEF Tallies
  <2>2. tally \in [1 .. Len(load) -> Tallies]
    BY <1>3, <2>1
  <2>3. \A i \in 1 .. Len(load) : tally[i].total = load[i] /\ tally[i].kept = 0
    BY <1>3
  <2> HIDE DEF tally
  <2>4. tally \in Seq(Tallies) /\ Len(tally) = Len(load)
    BY <1>3, <2>2
  <2>5. QED
    BY <2>3, <2>4
<1> HIDE DEF tally
<1>5. BriefTypeOK'
  BY <1>1, <1>2, <1>4 DEF BriefTypeOK
<1>6. Paid(written, tail)'
  BY <1>1, <1>2, CostOfNone DEF Paid, NoTail
<1>7. Tallied(tally, written) /\ InOrder(tally, written)
  BY <1>2, <1>3, <1>4, CountOfNone DEF Tallied, InOrder
<1>8. FilledInTurn(tally) /\ Reached(tally, written, 1)
  BY <1>2, <1>3, <1>4 DEF FilledInTurn, Reached
<1>9. FilledInTurn(sections)' /\ Reached(sections, written, next)'
  BY <1>1, <1>2, <1>8 DEF FilledInTurn, Reached
<1>10. QED
  BY <1>1, <1>2, <1>5, <1>6, <1>7, <1>9 DEF BriefInv

\* A block of the preamble is offered.
LEMMA PreambleStep == ASSUME BriefInv, preamble PROVE BriefInv'
<1>1. bAt = "preamble" /\ UNCHANGED <<load, maxTokens, sections, next, tail, waiting>>
  BY DEF preamble, GoOn
<1>2. /\ BriefTypeOK /\ Paid(written, tail) /\ tail = NoTail
      /\ Tallied(sections, written) /\ InOrder(sections, written) /\ FilledInTurn(sections)
      /\ Reached(sections, written, next)
  BY <1>1, OnThePage
<1>3. CASE bAt' \in {"sections", "footer"} /\ UNCHANGED <<blocks, written>>
  BY <1>1, <1>2, <1>3, SamePageStep DEF BriefTypeOK
<1>4. ASSUME NEW cost \in EntryCosts, Fits(cost), Write(cost, noSection), blocks # 0,
             blocks' = blocks - 1, GoOn("preamble")
      PROVE  BriefInv'
  <2>1. cost \in Nat /\ next \in Nat /\ \A k \in DOMAIN written : written[k].section <= next
    BY <1>2, BriefAssumption DEF Reached, BriefTypeOK
  <2>2. /\ written' \in Seq(Pieces) /\ Paid(written', tail)
        /\ Tallied(sections, written') /\ InOrder(sections, written')
        /\ \A k \in DOMAIN written' : written'[k].section <= next
    BY <1>2, <1>4, <2>1, LooseStep
  <2>3. BriefTypeOK' /\ bAt' = "preamble"
    BY <1>1, <1>2, <1>4, <2>2 DEF BriefTypeOK, GoOn
  <2>4. Paid(written, tail)' /\ Tallied(sections, written)' /\ InOrder(sections, written)'
    BY <1>1, <2>2 DEF Paid, Tallied, InOrder
  <2>5. FilledInTurn(sections)' /\ Reached(sections, written, next)'
    BY <1>1, <1>2, <2>2 DEF FilledInTurn, Reached
  <2>6. QED
    BY <1>1, <1>2, <2>3, <2>4, <2>5 DEF BriefInv
<1>5. QED
  BY <1>3, <1>4 DEF preamble, GoOn

\* A section with nothing in it says so.
LEMMA EmptyStep == ASSUME BriefInv, empty PROVE BriefInv'
<1>1. /\ bAt = "sections" /\ UNCHANGED <<load, maxTokens, blocks, sections, tail, waiting>>
      /\ next \in DOMAIN load /\ load[next] = 0
  BY DEF empty, GoOn
<1>2. /\ BriefTypeOK /\ Paid(written, tail) /\ tail = NoTail
      /\ Tallied(sections, written) /\ InOrder(sections, written) /\ FilledInTurn(sections)
      /\ Reached(sections, written, next)
  BY <1>1, OnThePage
<1>3. CASE bAt' = "footer" /\ UNCHANGED <<next, written>>
  BY <1>1, <1>2, <1>3, SamePageStep DEF BriefTypeOK
<1>4. CASE /\ Fits(Heading + EmptyRow) /\ Write(Heading + EmptyRow, noSection) /\ next' = next + 1
           /\ GoOn("sections")
  <2>1. /\ Heading + EmptyRow \in Nat /\ next \in Nat \ {0}
        /\ \A k \in DOMAIN written : written[k].section <= next
    BY <1>2 DEF Reached, BriefTypeOK, Heading, EmptyRow
  <2>2. /\ written' \in Seq(Pieces) /\ Paid(written', tail)
        /\ Tallied(sections, written') /\ InOrder(sections, written')
        /\ \A k \in DOMAIN written' : written'[k].section <= next
    BY <1>2, <1>4, <2>1, LooseStep
  <2>3. BriefTypeOK' /\ bAt' = "sections"
    BY <1>1, <1>2, <1>4, <2>1, <2>2 DEF BriefTypeOK, GoOn
  <2>4. Paid(written, tail)' /\ Tallied(sections, written)' /\ InOrder(sections, written)'
    BY <1>1, <2>2 DEF Paid, Tallied, InOrder
  <2>5. FilledInTurn(sections)'
    BY <1>1, <1>2 DEF FilledInTurn
  <2>6. Reached(sections, written', next + 1)
    <3>1. /\ Len(load) \in Nat /\ DOMAIN load = 1 .. Len(load) /\ Len(sections) = Len(load)
          /\ \A i \in 1 .. Len(sections) : sections[i].kept \in Nat
      BY <1>2, SectionsTyped DEF Reached
    <3>2. sections[next].kept = load[next]
      BY <1>1, <1>2, <3>1 DEF Tallied, FilledInTurn
    <3>3. \A i \in 1 .. Len(load) : i < next + 1 => i < next \/ i = next
      BY <2>1
    <3>4. \A i \in 1 .. Len(load) : i < next + 1 => sections[i].kept = load[i]
      BY <1>2, <3>2, <3>3 DEF Reached
    <3>5. \A k \in DOMAIN written' : written'[k].section <= next + 1
      <4>1. \A k \in DOMAIN written' : written'[k].section \in Nat
        <5>1. \A k \in DOMAIN written' : written'[k] \in Pieces
          BY <2>2
        <5>2. QED
          BY <5>1 DEF Pieces
      <4>2. QED
        BY <2>1, <2>2, <4>1
    <3>6. QED
      BY <3>1, <3>4, <3>5 DEF Reached
  <2>7. Reached(sections, written, next)'
    BY <1>1, <1>4, <2>6 DEF Reached
  <2>8. QED
    BY <1>1, <1>2, <2>3, <2>4, <2>5, <2>7 DEF BriefInv
<1>5. QED
  BY <1>3, <1>4 DEF empty, GoOn

\* An item of a local section is offered.
LEMMA ItemStep == ASSUME BriefInv, item PROVE BriefInv'
<1>1. /\ bAt = "sections" /\ UNCHANGED <<load, maxTokens, blocks, tail, waiting>>
      /\ next \in DOMAIN load
  BY DEF item, GoOn, Offer
<1>2. /\ BriefTypeOK /\ Paid(written, tail) /\ tail = NoTail
      /\ Tallied(sections, written) /\ InOrder(sections, written) /\ FilledInTurn(sections)
      /\ Reached(sections, written, next)
  BY <1>1, OnThePage
<1>3. /\ Len(load) \in Nat /\ DOMAIN load = 1 .. Len(load) /\ Len(sections) = Len(load)
      /\ \A i \in 1 .. Len(sections) : sections[i].kept \in Nat /\ sections[i].total \in Nat
      /\ next \in 1 .. Len(sections) /\ next \in Nat \ {0} /\ sections[next].total = load[next]
  BY <1>1, <1>2, SectionsTyped DEF Reached, FilledInTurn, BriefTypeOK
<1>4. CASE /\ sections[next].kept = load[next] /\ next' = next + 1 /\ bAt' = "sections"
           /\ UNCHANGED <<sections, written>>
  <2>1. \A i \in 1 .. Len(load) : i < next + 1 => sections[i].kept = load[i]
    <3>1. \A i \in 1 .. Len(load) : i < next + 1 => i < next \/ i = next
      BY <1>3
    <3>2. QED
      BY <1>2, <1>4, <3>1 DEF Reached
  <2>2. \A k \in DOMAIN written : written[k].section <= next + 1
    <3>1. \A k \in DOMAIN written : written[k].section \in Nat
      <4>1. \A k \in DOMAIN written : written[k] \in Pieces
        BY <1>2 DEF BriefTypeOK
      <4>2. QED
        BY <4>1 DEF Pieces
    <3>2. QED
      BY <1>2, <1>3, <3>1 DEF Reached
  <2>3. Reached(sections, written, next')
    BY <1>3, <1>4, <2>1, <2>2 DEF Reached
  <2>4. blocks' \in Nat /\ next' \in Nat \ {0} /\ waiting' \in Seq(Nat)
    BY <1>1, <1>2, <1>3, <1>4 DEF BriefTypeOK
  <2>5. QED
    BY <1>1, <1>4, <2>3, <2>4, SamePageStep
<1>5. CASE next' = next /\ bAt' = "chain" /\ UNCHANGED <<sections, written>>
  BY <1>1, <1>2, <1>5, SamePageStep DEF BriefTypeOK
<1>6. ASSUME sections[next].kept # load[next], NEW cost \in EntryCosts, next' = next, bAt' = "sections",
             Fits(CostOf(next, cost)), Write(CostOf(next, cost), next),
             sections' = [sections EXCEPT ![next].kept = @ + 1]
      PROVE  BriefInv'
  <2>1. sections[next].kept < sections[next].total
    BY <1>2, <1>3, <1>6 DEF Tallied
  <2>2. /\ \A k \in DOMAIN written : written[k].section <= next
        /\ \A h \in 1 .. Len(load) : h < next /\ next <= Len(load) => sections[h].kept = load[h]
    BY <1>2 DEF Reached
  <2>3. /\ written' \in Seq(Pieces) /\ Paid(written', tail)
        /\ sections' \in Seq(Tallies) /\ Len(sections') = Len(sections)
        /\ \A h \in 1 .. Len(sections) : h # next => sections'[h] = sections[h]
        /\ Tallied(sections', written') /\ InOrder(sections', written') /\ FilledInTurn(sections')
        /\ \A k \in DOMAIN written' : written'[k].section <= next
    BY <1>2, <1>3, <1>6, <2>1, <2>2, OfferedStep
  <2>4. BriefTypeOK'
    BY <1>1, <1>2, <1>6, <2>3 DEF BriefTypeOK
  <2>5. Paid(written, tail)' /\ Tallied(sections, written)' /\ InOrder(sections, written)'
        /\ FilledInTurn(sections)'
    BY <1>1, <2>3 DEF Paid, Tallied, InOrder, FilledInTurn
  <2>6. \A i \in 1 .. Len(load) : i < next => sections'[i].kept = load[i]
    BY <1>2, <1>3, <2>3 DEF Reached
  <2>7. Reached(sections, written, next)'
    BY <1>1, <1>3, <1>6, <2>3, <2>6 DEF Reached
  <2>8. QED
    BY <1>1, <1>2, <1>6, <2>4, <2>5, <2>7 DEF BriefInv
<1>7. \/ sections[next].kept = load[next] /\ next' = next + 1 /\ GoOn("sections") /\ UNCHANGED <<sections, written>>
      \/ /\ sections[next].kept # load[next] /\ next' = next
         /\ \E cost \in EntryCosts : Offer(next, cost, "chain")
  BY DEF item
<1>8. CASE sections[next].kept # load[next] /\ next' = next /\ \E cost \in EntryCosts : Offer(next, cost, "chain")
  <2>1. PICK cost \in EntryCosts : Offer(next, cost, "chain")
    BY <1>8
  <2>2. CASE Fits(CostOf(next, cost))
    BY <1>1, <1>6, <1>8, <2>1, <2>2 DEF Offer, GoOn
  <2>3. CASE ~Fits(CostOf(next, cost))
    BY <1>5, <1>8, <2>1, <2>3 DEF Offer, GoOn
  <2>4. QED
    BY <2>2, <2>3
<1>9. QED
  BY <1>4, <1>7, <1>8 DEF GoOn

\* An ancestor is met on the chain.
LEMMA ChainSourceStep == ASSUME BriefInv, ChainSource PROVE BriefInv'
<1>1. /\ bAt = "chain" /\ bAt' \in {"ancestors", "footer"}
      /\ UNCHANGED <<load, maxTokens, blocks, next, sections, written, tail>>
  BY DEF ChainSource, GoOn
<1>2. waiting' \in Seq(Nat)
  <2>1. CASE UNCHANGED waiting
    BY <2>1 DEF BriefInv, BriefTypeOK
  <2>2. ASSUME NEW n \in 0 .. MaxAncestors, waiting' \in [1 .. n -> 0 .. MaxIntents]
        PROVE  waiting' \in Seq(Nat)
    BY <2>2, BriefAssumption
  <2>3. QED
    BY <2>1, <2>2 DEF ChainSource
<1>3. blocks' \in Nat /\ next' \in Nat \ {0}
  BY <1>1 DEF BriefInv, BriefTypeOK
<1>4. QED
  BY <1>1, <1>2, <1>3, SamePageStep

\* The local sections are done.
LEMMA EndSectionsStep == ASSUME BriefInv, endSections PROVE BriefInv'
<1>1. /\ bAt = "sections" /\ bAt' = "chain"
      /\ UNCHANGED <<load, maxTokens, blocks, next, sections, written, tail, waiting>>
  BY DEF endSections, GoOn
<1>2. blocks' \in Nat /\ next' \in Nat \ {0} /\ waiting' \in Seq(Nat)
  BY <1>1 DEF BriefInv, BriefTypeOK
<1>3. QED
  BY <1>1, <1>2, SamePageStep

\* The chain section is begun.
LEMMA FillChainStep == ASSUME BriefInv, fillChain PROVE BriefInv'
<1>1. bAt = "ancestors" /\ UNCHANGED <<load, maxTokens, blocks, next, written, tail>>
  BY DEF fillChain, GoOn
<1>2. /\ BriefTypeOK /\ Paid(written, tail) /\ tail = NoTail
      /\ Tallied(sections, written) /\ InOrder(sections, written) /\ FilledInTurn(sections)
  BY <1>1, OnThePage
<1>3. CASE bAt' = "footer" /\ UNCHANGED <<sections, waiting>>
  BY <1>1, <1>2, <1>3, SamePageStep DEF BriefTypeOK
<1>4. CASE /\ waiting # <<>> /\ bAt' = "ancestors" /\ waiting' = Tail(waiting)
           /\ sections' = Append(sections, [total |-> Head(waiting), kept |-> 0])
  <2> DEFINE new == [total |-> Head(waiting), kept |-> 0]
             n == Len(sections)
  <2>1. waiting \in Seq(Nat) /\ written \in Seq(Pieces) /\ sections \in Seq(Tallies)
    BY <1>2 DEF BriefTypeOK
  <2>2. Head(waiting) \in Nat /\ waiting' \in Seq(Nat)
    BY <1>4, <2>1
  <2>3. new \in Tallies /\ new.kept = 0 /\ new.total \in Nat
    BY <2>2 DEF Tallies
  <2>4. sections' = Append(sections, new) /\ n = Len(sections)
    BY <1>4
  <2> HIDE DEF new, n
  <2>5. /\ sections' \in Seq(Tallies) /\ Len(sections') = n + 1 /\ n \in Nat /\ sections'[n + 1] = new
        /\ \A i \in 1 .. n : sections'[i] = sections[i]
    BY <2>1, <2>3, <2>4
  <2>6. Count(written, n + 1) = 0
    <3>1. \A k \in DOMAIN written : written[k].section <= n
      BY <1>2, <2>4 DEF InOrder
    <3>2. n + 1 \in Nat /\ n < n + 1
      BY <2>5
    <3>3. QED
      BY <2>1, <2>5, <3>1, <3>2, NoneBeyond
  <2>7. Tallied(sections', written)
    <3>1. \A i \in 1 .. n + 1 : i \in 1 .. n \/ i = n + 1
      BY <2>5
    <3>2. QED
      BY <1>2, <2>3, <2>4, <2>5, <2>6, <3>1 DEF Tallied
  <2>8. InOrder(sections', written)
    <3>1. \A k \in DOMAIN written : written[k].section \in Nat /\ written[k].section <= n
      <4>1. \A k \in DOMAIN written : written[k] \in Pieces
        BY <2>1
      <4>2. QED
        BY <1>2, <2>4, <4>1 DEF InOrder, Pieces
    <3>2. \A k \in DOMAIN written : written[k].section <= n + 1
      BY <2>5, <3>1
    <3>3. QED
      BY <1>2, <2>5, <3>2 DEF InOrder
  <2>9. FilledInTurn(sections')
    <3>1. Len(load) \in Nat
      BY <1>2, SectionsTyped
    <3>2. Len(load) <= n + 1 /\ \A i \in 1 .. Len(load) : i \in 1 .. n
      BY <1>2, <2>4, <2>5, <3>1 DEF FilledInTurn
    <3>3. QED
      BY <1>2, <2>4, <2>5, <3>2 DEF FilledInTurn
  <2>10. BriefTypeOK'
    BY <1>1, <1>2, <1>4, <2>2, <2>5 DEF BriefTypeOK
  <2>11. Paid(written, tail)' /\ Tallied(sections, written)' /\ InOrder(sections, written)'
         /\ FilledInTurn(sections)'
    BY <1>1, <1>2, <2>7, <2>8, <2>9 DEF Paid, Tallied, InOrder, FilledInTurn
  <2>12. QED
    BY <1>1, <1>2, <1>4, <2>10, <2>11 DEF BriefInv
<1>5. QED
  BY <1>3, <1>4 DEF fillChain, GoOn

\* An item of the chain is offered.
LEMMA ChainItemStep == ASSUME BriefInv, chainItem PROVE BriefInv'
<1> DEFINE i == Len(sections)
<1>1. /\ bAt = "ancestors" /\ UNCHANGED <<load, maxTokens, blocks, next, tail, waiting>>
      /\ i > Len(load) /\ sections[i].kept < sections[i].total
  BY DEF chainItem, GoOn, Offer, InAncestor, Last
<1>2. /\ BriefTypeOK /\ Paid(written, tail) /\ tail = NoTail
      /\ Tallied(sections, written) /\ InOrder(sections, written) /\ FilledInTurn(sections)
  BY <1>1, OnThePage
<1>3. i \in 1 .. Len(sections) /\ Len(load) \in Nat /\ Len(sections) \in Nat
  BY <1>1, <1>2, SectionsTyped
<1>4. /\ \A k \in DOMAIN written : written[k].section <= i
      /\ \A h \in 1 .. Len(load) : h < i /\ i <= Len(load) => sections[h].kept = load[h]
  BY <1>1, <1>2, <1>3 DEF InOrder
<1>5. PICK cost \in EntryCosts : Offer(i, cost, "footer")
  BY DEF chainItem
<1> HIDE DEF i
<1>6. CASE ~Fits(CostOf(i, cost))
  <2>1. bAt' = "footer" /\ UNCHANGED <<sections, written>>
    BY <1>5, <1>6 DEF Offer, GoOn
  <2>2. QED
    BY <1>1, <1>2, <2>1, SamePageStep DEF BriefTypeOK
<1>7. CASE Fits(CostOf(i, cost))
  <2>1. /\ bAt' = "ancestors" /\ Write(CostOf(i, cost), i)
        /\ sections' = [sections EXCEPT ![i].kept = @ + 1]
    BY <1>1, <1>5, <1>7 DEF Offer, GoOn
  <2>2. /\ written' \in Seq(Pieces) /\ Paid(written', tail)
        /\ sections' \in Seq(Tallies) /\ Len(sections') = Len(sections)
        /\ Tallied(sections', written') /\ InOrder(sections', written') /\ FilledInTurn(sections')
    BY <1>1, <1>2, <1>3, <1>4, <1>7, <2>1, OfferedStep
  <2>3. BriefTypeOK'
    BY <1>1, <1>2, <2>1, <2>2 DEF BriefTypeOK
  <2>4. Paid(written, tail)' /\ Tallied(sections, written)' /\ InOrder(sections, written)'
        /\ FilledInTurn(sections)'
    BY <1>1, <2>2 DEF Paid, Tallied, InOrder, FilledInTurn
  <2>5. QED
    BY <1>1, <1>2, <2>1, <2>3, <2>4 DEF BriefInv
<1>8. QED
  BY <1>6, <1>7

\* The footer has a cost.
LEMMA FooterCosts == ASSUME BriefTypeOK PROVE footer.cost \in Nat
<1>1. Len(sections) \in Nat /\ DOMAIN sections = 1 .. Len(sections)
  BY SectionsTyped
<1>2. Dropped \in SUBSET (1 .. Len(sections)) /\ IsFiniteSet(1 .. Len(sections))
  <2>1. Dropped \in SUBSET (1 .. Len(sections))
    BY <1>1 DEF Dropped
  <2>2. IsFiniteSet(1 .. Len(sections))
    BY <1>1, FS_Interval
  <2>3. QED
    BY <2>1, <2>2
<1>3. Cardinality(Dropped) \in Nat
  BY <1>2, FS_Subset, FS_CardinalityType
<1>4. (Cardinality(Dropped) + 1) \div 2 \in Nat
  BY <1>3
<1>5. QED
  BY <1>4 DEF footer

\* The last piece is given back: the order and the counts are those of the
\* pieces that are left.
LEMMA GivenBackStep ==
  ASSUME BriefTypeOK, Paid(written, tail), tail = NoTail,
         Tallied(sections, written), InOrder(sections, written), FilledInTurn(sections),
         written # <<>>, written' = Front(written),
         sections' = IF Last(written).section = noSection THEN sections
                     ELSE [sections EXCEPT ![Last(written).section].kept = @ - 1]
  PROVE  /\ written' \in Seq(Pieces) /\ sections' \in Seq(Tallies) /\ Paid(written', tail)
         /\ Tallied(sections', written') /\ InOrder(sections', written') /\ FilledInTurn(sections')
<1> DEFINE given == Last(written)
           n == Len(written)
           i == given.section
<1>1. written \in Seq(Pieces) /\ maxTokens \in Nat
  BY DEF BriefTypeOK
<1>2. /\ written' \in Seq(Pieces) /\ given \in Pieces /\ Extends(written, written', given)
  BY <1>1, FrontIsExtended
<1>3. given.cost \in Nat /\ i \in Nat
  BY <1>2 DEF Pieces
<1>4. Costed(written) /\ Costed(written')
  BY <1>1, <1>2, PagesAreCosted
<1>5. /\ n \in Nat /\ n >= 1 /\ DOMAIN written = 1 .. n /\ DOMAIN written' = 1 .. n - 1
      /\ written[n] = given /\ \A k \in 1 .. n - 1 : written[k] = written'[k]
  BY <1>1, <1>2, <1>4 DEF Costed, Extends
<1>6. Cost(written') \in Nat /\ Cost(written) = Cost(written') + given.cost
  BY <1>2, <1>4, CostOfOneMore
<1>7. \A h : /\ Count(written', h) \in Nat
             /\ Count(written, h) = IF i = h THEN Count(written', h) + 1 ELSE Count(written', h)
  BY <1>2, <1>4, CountOfOneMore
<1>8. Paid(written', tail)
  BY <1>1, <1>3, <1>6 DEF Paid, NoTail
<1>9. /\ Len(sections) \in Nat /\ DOMAIN sections = 1 .. Len(sections)
      /\ \A h \in 1 .. Len(sections) : sections[h] \in Tallies
      /\ \A h \in 1 .. Len(sections) : sections[h].total \in Nat /\ sections[h].kept \in Nat
      /\ Len(load) \in Nat /\ Len(load) <= Len(sections) /\ sections \in Seq(Tallies)
  BY SectionsTyped DEF FilledInTurn, BriefTypeOK
<1>10. \A k \in DOMAIN written' : k \in DOMAIN written /\ written[k] = written'[k]
  BY <1>5
<1>11. CASE i = noSection
  <2>1. sections' = sections
    BY <1>11
  <2>2. \A h \in 1 .. Len(sections) : Count(written', h) = Count(written, h)
    BY <1>7, <1>11 DEF noSection
  <2>3. Tallied(sections', written')
    BY <2>1, <2>2 DEF Tallied
  <2>4. InOrder(sections', written')
    BY <1>10, <2>1 DEF InOrder
  <2>5. QED
    BY <1>2, <1>8, <1>9, <2>1, <2>3, <2>4
<1>12. CASE i # noSection
  <2> DEFINE fewer == sections[i].kept - 1
             new == [sections[i] EXCEPT !.kept = fewer]
  <2>1. i \in 1 .. Len(sections)
    BY <1>3, <1>5, <1>12 DEF InOrder, noSection
  <2>2. fewer \in Nat /\ fewer = Count(written', i) /\ fewer <= sections[i].total
        /\ fewer + 1 = sections[i].kept
    BY <1>7, <1>9, <2>1, SMTT(40) DEF Tallied
  <2>3. sections' = [sections EXCEPT ![i] = new]
    BY <1>12
  <2> HIDE DEF fewer
  <2>4. new \in Tallies /\ new.kept = fewer /\ new.total = sections[i].total
    <3>1. sections[i] \in Tallies
      BY <1>9, <2>1
    <3>2. QED
      BY <2>2, <3>1 DEF Tallies
  <2> HIDE DEF new, given, n, i
  <2>5. /\ sections' \in Seq(Tallies) /\ Len(sections') = Len(sections)
        /\ sections'[i] = new
        /\ \A h \in 1 .. Len(sections) : h # i => sections'[h] = sections[h]
    <3>1. i \in DOMAIN sections /\ sections \in [1 .. Len(sections) -> Tallies]
      BY <1>9, <2>1
    <3>2. sections' \in [1 .. Len(sections) -> Tallies] /\ sections'[i] = new
          /\ \A h \in 1 .. Len(sections) : h # i => sections'[h] = sections[h]
      BY <2>3, <2>4, <3>1
    <3>3. sections' \in Seq(Tallies) /\ Len(sections') = Len(sections)
      BY <1>9, <3>2
    <3>4. QED
      BY <3>2, <3>3
  <2>6. Tallied(sections', written')
    <3>1. \A h \in 1 .. Len(sections) : h # i => Count(written', h) = Count(written, h)
      BY <1>7
    <3>2. QED
      BY <2>2, <2>4, <2>5, <3>1, SMTT(40) DEF Tallied
  <2>7. InOrder(sections', written')
    BY <1>10, <2>5 DEF InOrder
  <2>8. \A k \in DOMAIN written : written[k].section <= i
    <3>1. written[n].section = i
      BY <1>5 DEF i
    <3>2. ASSUME NEW k \in DOMAIN written, k # n PROVE written[k].section <= i
      <4>1. k < n /\ n \in DOMAIN written
        BY <1>5, <3>2
      <4>2. QED
        BY <1>12, <3>1, <4>1 DEF InOrder
    <3>3. QED
      BY <1>3, <3>1, <3>2
  <2>9. \A h \in 1 .. Len(sections) : i < h => sections[h].kept = 0
    <3>1. written \in Seq(Pieces) /\ i \in Nat
      BY <1>1, <1>3, <2>1 DEF BriefTypeOK
    <3>2. \A h \in Nat : i < h => Count(written, h) = 0
      BY <2>8, <3>1, NoneBeyond
    <3>3. QED
      BY <1>2, <1>9, <3>2 DEF Tallied
  <2>10. FilledInTurn(sections')
    <3>1. \A h \in 1 .. Len(load) : h \in 1 .. Len(sections)
      BY <1>9
    <3>2. \A h \in 1 .. Len(load) : sections'[h].total = load[h]
      BY <2>4, <2>5, <3>1 DEF FilledInTurn
    <3>3. ASSUME NEW a \in 1 .. Len(load), NEW b \in 1 .. Len(load), a < b, sections'[b].kept > 0
          PROVE  sections'[a].kept = load[a]
      <4>1. sections[b].kept > 0
        BY <1>9, <2>2, <2>4, <2>5, <3>1, <3>3
      <4>2. a # i
        <5>1. ~(i < b)
          BY <2>9, <3>1, <4>1
        <5>2. QED
          BY <3>3, <5>1
      <4>3. sections[a].kept = load[a]
        BY <3>3, <4>1 DEF FilledInTurn
      <4>4. QED
        BY <2>5, <3>1, <4>2, <4>3
    <3>4. QED
      BY <1>9, <2>5, <3>2, <3>3 DEF FilledInTurn
  <2>11. QED
    BY <1>2, <1>8, <2>5, <2>6, <2>7, <2>10
<1>13. QED
  BY <1>11, <1>12

\* Room is made for the footer.
LEMMA GiveBackStep == ASSUME BriefInv, giveBack PROVE BriefInv'
<1>1. bAt = "footer" /\ UNCHANGED <<load, maxTokens, blocks, next, waiting>>
  BY DEF giveBack, GoOn
<1>2. /\ BriefTypeOK /\ Paid(written, tail) /\ tail = NoTail
      /\ Tallied(sections, written) /\ InOrder(sections, written) /\ FilledInTurn(sections)
  BY <1>1, OnThePage
<1>3. CASE ~AnyOmitted \/ written = <<>> \/ Fits(footer.cost)
  <2>1. /\ bAt' = "done" /\ UNCHANGED <<sections, written>>
        /\ tail' = IF AnyOmitted /\ Fits(footer.cost) THEN footer ELSE NoTail
    BY <1>3 DEF giveBack, GoOn
  <2>2. BriefTypeOK'
    BY <1>1, <1>2, <2>1 DEF BriefTypeOK
  <2>3. Tallied(sections, written)' /\ InOrder(sections, written)' /\ FilledInTurn(sections)'
    BY <1>1, <1>2, <2>1 DEF Tallied, InOrder, FilledInTurn
  <2>4. Dropped' = Dropped
    BY <2>1 DEF Dropped
  <2>5. CASE AnyOmitted /\ Fits(footer.cost)
    <3>1. tail' = footer /\ footer.cost \in Nat /\ footer.names = Dropped
      BY <1>2, <2>1, <2>5, FooterCosts DEF footer
    <3>2. Paid(written, tail)'
      BY <1>1, <1>2, <2>1, <2>5, <3>1 DEF Paid, Fits, spent
    <3>3. QED
      BY <2>1, <2>2, <2>3, <2>4, <3>1, <3>2 DEF BriefInv
  <2>6. CASE ~(AnyOmitted /\ Fits(footer.cost))
    <3>1. tail' = NoTail /\ (AnyOmitted => written = <<>>)
      BY <1>3, <2>1, <2>6
    <3>2. Paid(written, tail)'
      BY <1>1, <1>2, <2>1, <3>1 DEF Paid
    <3>3. (tail.names = Dropped \/ (written = <<>> /\ tail = NoTail))'
      <4>1. CASE AnyOmitted
        BY <2>1, <3>1, <4>1
      <4>2. CASE ~AnyOmitted
        BY <2>4, <3>1, <4>2 DEF AnyOmitted, NoTail
      <4>3. QED
        BY <4>1, <4>2
    <3>4. QED
      BY <2>1, <2>2, <2>3, <3>2, <3>3 DEF BriefInv
  <2>7. QED
    BY <2>5, <2>6
<1>4. CASE ~(~AnyOmitted \/ written = <<>> \/ Fits(footer.cost))
  <2>1. /\ bAt' = "footer" /\ tail' = tail /\ written # <<>> /\ written' = Front(written)
        /\ sections' = IF Last(written).section = noSection THEN sections
                       ELSE [sections EXCEPT ![Last(written).section].kept = @ - 1]
    BY <1>4 DEF giveBack, GoOn
  <2>2. /\ written' \in Seq(Pieces) /\ sections' \in Seq(Tallies) /\ Paid(written', tail)
        /\ Tallied(sections', written') /\ InOrder(sections', written') /\ FilledInTurn(sections')
    BY <1>2, <2>1, GivenBackStep
  <2>3. BriefTypeOK'
    BY <1>1, <1>2, <2>1, <2>2 DEF BriefTypeOK
  <2>4. Paid(written, tail)' /\ Tallied(sections, written)' /\ InOrder(sections, written)'
        /\ FilledInTurn(sections)'
    BY <1>1, <2>1, <2>2 DEF Paid, Tallied, InOrder, FilledInTurn
  <2>5. QED
    BY <1>2, <2>1, <2>3, <2>4 DEF BriefInv
<1>5. QED
  BY <1>3, <1>4

\* Nothing happens.
LEMMA BriefStays == ASSUME BriefInv, UNCHANGED briefVars PROVE BriefInv'
<1>1. UNCHANGED <<bAt, load, maxTokens, blocks, sections, next, written, tail, waiting>>
  BY DEF briefVars
<1>2. BriefTypeOK' /\ Paid(written, tail)'
  BY <1>1 DEF BriefInv, BriefTypeOK, Paid
<1>3. (bAt # "config" => Tallied(sections, written) /\ InOrder(sections, written) /\ FilledInTurn(sections))'
  BY <1>1 DEF BriefInv, Tallied, InOrder, FilledInTurn
<1>4. (bAt \in {"preamble", "sections"} => Reached(sections, written, next))'
  BY <1>1 DEF BriefInv, Reached
<1>5. Dropped' = Dropped
  BY <1>1 DEF Dropped
<1>6. QED
  BY <1>1, <1>2, <1>3, <1>4, <1>5 DEF BriefInv

\* The inductive invariant: what is counted as kept is on the page, in the
\* order of the sections, each filled before the next one; and it is paid for.
THEOREM BriefInvariance == BriefSpec => []BriefInv
<1>1. BriefInit => BriefInv
  <2> SUFFICES ASSUME BriefInit PROVE BriefInv
    OBVIOUS
  <2>1. BriefTypeOK
    BY BriefAssumption DEF BriefInit, BriefTypeOK
  <2>2. Paid(written, tail)
    BY CostOfNone, BriefAssumption DEF BriefInit, Paid, NoTail
  <2>3. QED
    BY <2>1, <2>2 DEF BriefInit, BriefInv
<1>2. BriefInv /\ [BriefNext]_briefVars => BriefInv'
  BY LoadSectionsStep, PreambleStep, EmptyStep, ItemStep, EndSectionsStep, ChainSourceStep, FillChainStep,
     ChainItemStep, GiveBackStep, BriefStays DEF BriefNext
<1>3. QED
  BY <1>1, <1>2, PTL DEF BriefSpec

\* Whatever the entries cost and however many there are, the document of
\* `dira brief`, its notice and its parents' entries included, is within the
\* ceiling (internal/brief, cst-0001).
THEOREM NeverOverCeiling == BriefSpec => []UnderCeiling
<1>1. BriefInv => UnderCeiling
  <2> SUFFICES ASSUME BriefInv PROVE Tokens <= maxTokens
    BY DEF UnderCeiling
  <2> DEFINE foot == [cost |-> tail.cost]
             all == Append(written, foot)
  <2>1. Paid(written, tail) /\ written \in Seq(Pieces) /\ maxTokens \in Nat
    BY DEF BriefInv, BriefTypeOK
  <2>2. Cost(written) \in Nat /\ tail.cost \in Nat /\ Cost(written) + tail.cost <= maxTokens
    BY <2>1 DEF Paid
  <2>3. Costed(written) /\ Len(written) \in Nat
    BY <2>1, PagesAreCosted
  <2>4. Extends(all, written, foot) /\ Costed(all) /\ Len(all) = Len(written) + 1 /\ all # <<>>
    <3>1. foot \in {foot} \cup Pieces /\ written \in Seq({foot} \cup Pieces) /\ foot.cost = tail.cost
      <4>1. \A k \in 1 .. Len(written) : written[k] \in {foot} \cup Pieces
        BY <2>1
      <4>2. written \in [1 .. Len(written) -> {foot} \cup Pieces]
        BY <2>1, <4>1
      <4>3. QED
        BY <2>3, <4>2
    <3> HIDE DEF foot
    <3>2. all \in Seq({foot} \cup Pieces) /\ Extends(all, written, foot)
      BY <3>1, AppendExtends
    <3>3. Len(all) = Len(written) + 1 /\ DOMAIN all = 1 .. Len(all) /\ Len(all) \in Nat
      BY <2>3, <3>2 DEF Extends
    <3> HIDE DEF all
    <3>4. ASSUME NEW k \in 1 .. Len(all) PROVE all[k].cost \in Nat
      <4>1. CASE k = Len(all)
        BY <2>2, <3>1, <3>2, <4>1 DEF Extends
      <4>2. CASE k # Len(all)
        BY <2>3, <3>2, <3>3, <4>2 DEF Extends, Costed
      <4>3. QED
        BY <4>1, <4>2
    <3>5. all # <<>>
      BY <2>3, <3>3
    <3>6. QED
      BY <3>2, <3>3, <3>4, <3>5 DEF Costed
  <2>5. Cost(all) = Cost(written) + tail.cost
    BY <2>3, <2>4, CostOfOneMore
  <2> HIDE DEF foot
  <2>6. CASE tail.cost = 0
    <3>1. written # <<>> => Len(written) >= 1
      BY <2>1
    <3>2. QED
      BY <2>1, <2>2, <2>3, <2>6, <3>1 DEF Tokens
  <2>7. CASE tail.cost # 0
    <3>1. Tokens = Cost(all) - (Len(all) - 1)
      BY <2>4, <2>7 DEF Tokens, foot
    <3> HIDE DEF all
    <3>2. QED
      BY <2>1, <2>2, <2>3, <2>4, <2>5, <3>1
  <2>8. QED
    BY <2>6, <2>7
<1>2. QED
  BY <1>1, BriefInvariance, PTL

\* Where the chain stopped: ancestors it did not get to are behind one that
\* was cut, which the pieces given back later do not change.
StoppedAtACut ==
    /\ waiting # <<>> => bAt \in {"ancestors", "footer", "done"}
    /\ waiting # <<>> /\ bAt \in {"footer", "done"} =>
          Len(load) < Len(sections) /\ Len(sections) \in Dropped

LEMMA StoppedStep ==
  ASSUME BriefInv, BriefInv', StoppedAtACut, [BriefNext]_briefVars PROVE StoppedAtACut'
<1>1. CASE load_sections \/ preamble \/ empty \/ item \/ endSections
  <2>1. waiting' = waiting /\ bAt \notin {"ancestors", "footer", "done"}
    BY <1>1 DEF load_sections, preamble, empty, item, endSections
  <2>2. QED
    BY <2>1 DEF StoppedAtACut
<1>2. CASE ChainSource
  BY <1>2 DEF ChainSource, GoOn, StoppedAtACut
<1>3. CASE fillChain
  BY <1>3 DEF fillChain, GoOn, StoppedAtACut
<1>4. CASE chainItem
  <2>1. PICK cost \in EntryCosts : Offer(Len(sections), cost, "footer")
    BY <1>4 DEF chainItem
  <2>2. bAt = "ancestors" /\ InAncestor /\ UNCHANGED <<load, waiting>>
    BY <1>4 DEF chainItem, Offer, GoOn
  <2>3. CASE Fits(CostOf(Len(sections), cost))
    BY <2>1, <2>2, <2>3 DEF Offer, GoOn, StoppedAtACut
  <2>4. CASE ~Fits(CostOf(Len(sections), cost))
    <3>1. bAt' = "footer" /\ UNCHANGED sections
      BY <2>1, <2>4 DEF Offer, GoOn
    <3>2. Len(load) \in Nat /\ Len(sections) \in Nat /\ DOMAIN sections = 1 .. Len(sections)
      BY SectionsTyped DEF BriefInv
    <3>3. Len(load) < Len(sections) /\ Len(sections) \in DOMAIN sections
          /\ sections[Len(sections)].kept < sections[Len(sections)].total
      BY <2>2, <3>2 DEF InAncestor, Last
    <3>4. QED
      BY <2>2, <3>1, <3>3 DEF Dropped, StoppedAtACut
  <2>5. QED
    BY <2>3, <2>4
<1>5. CASE giveBack
  <2>1. bAt = "footer" /\ bAt' \in {"footer", "done"} /\ UNCHANGED <<load, waiting>>
    BY <1>5 DEF giveBack, GoOn
  <2>2. CASE UNCHANGED sections
    BY <2>1, <2>2 DEF Dropped, StoppedAtACut
  <2>3. CASE sections' = [sections EXCEPT ![Last(written).section].kept = @ - 1]
    <3> DEFINE i == Last(written).section
               n == Len(sections)
    <3>1. /\ n \in Nat /\ DOMAIN sections = 1 .. n /\ sections \in Seq(Tallies)
          /\ \A h \in 1 .. n : sections[h] \in Tallies
          /\ \A h \in 1 .. n : sections[h].total \in Nat /\ sections[h].kept \in Nat
      BY SectionsTyped DEF BriefInv, BriefTypeOK
    <3> HIDE DEF i
    <3>2. sections' = [sections EXCEPT ![i] = [sections[i] EXCEPT !.kept = @ - 1]]
      BY <2>3 DEF i
    <3>3. DOMAIN sections' = DOMAIN sections
      BY <3>2
    <3>4. \A h \in 1 .. n : sections'[h] = IF h = i THEN [sections[h] EXCEPT !.kept = @ - 1] ELSE sections[h]
      BY <3>1, <3>2
    <3>5. \A h \in 1 .. n : sections'[h].total = sections[h].total /\ sections'[h].kept <= sections[h].kept
      <4> SUFFICES ASSUME NEW h \in 1 .. n
                   PROVE  sections'[h].total = sections[h].total /\ sections'[h].kept <= sections[h].kept
        OBVIOUS
      <4>1. sections[h] \in Tallies /\ sections[h].kept \in Nat
        BY <3>1
      <4>2. CASE h = i
        <5>1. sections'[h] = [sections[h] EXCEPT !.kept = @ - 1]
          BY <3>4, <4>2
        <5>2. sections'[h].kept = sections[h].kept - 1 /\ sections'[h].total = sections[h].total
          BY <4>1, <5>1 DEF Tallies
        <5> HIDE DEF n
        <5>3. QED
          BY <4>1, <5>2
      <4>3. CASE h # i
        <5>1. sections'[h] = sections[h]
          BY <3>4, <4>3
        <5>2. QED
          BY <4>1, <5>1
      <4>4. QED
        BY <4>2, <4>3
    <3>6. n' = n /\ DOMAIN sections' = 1 .. n
      <4>1. sections' \in Seq(Tallies)
        BY DEF BriefInv, BriefTypeOK
      <4>2. QED
        BY <3>1, <3>3, <4>1
    <3>7. ASSUME n \in Dropped PROVE n' \in Dropped'
      <4>1. n \in 1 .. n /\ sections[n].kept < sections[n].total
        BY <3>1, <3>7 DEF Dropped
      <4>2. sections'[n].kept \in Int /\ sections'[n].kept < sections'[n].total
        <5>1. sections'[n] \in Tallies
          BY <3>6, <4>1 DEF BriefInv, BriefTypeOK
        <5>2. sections'[n].kept \in Nat
          BY <5>1 DEF Tallies
        <5>3. QED
          BY <3>1, <3>5, <4>1, <5>2
      <4>3. QED
        BY <3>6, <4>1, <4>2 DEF Dropped
    <3>8. QED
      BY <2>1, <3>6, <3>7 DEF StoppedAtACut
  <2>4. QED
    BY <1>5, <2>2, <2>3 DEF giveBack
<1>6. CASE UNCHANGED briefVars
  BY <1>6 DEF briefVars, StoppedAtACut, Dropped
<1>7. QED
  BY <1>1, <1>2, <1>3, <1>4, <1>5, <1>6 DEF BriefNext

\* The omission notice names the sections of which something is missing from
\* the page, and one of them is the ancestor at which the chain stopped, if it
\* did, or nothing is printed at all; and nothing of a later section of the own
\* ledger is kept while an entry of an earlier one is dropped (internal/brief:
\* fill, fillChain, footer and the pieces given back for it).
THEOREM OmittedOpenly == BriefSpec => []OpenOmission
<1>1. BriefInv /\ StoppedAtACut => OpenOmission
  <2> SUFFICES ASSUME BriefInv, StoppedAtACut, bAt = "done" PROVE OpenOmission
    BY DEF OpenOmission, OmissionIsNamed, DropsAreATail
  <2>1. BriefTypeOK /\ Tallied(sections, written) /\ FilledInTurn(sections)
    BY DEF BriefInv
  <2>2. /\ DOMAIN sections = 1 .. Len(sections) /\ DOMAIN load = 1 .. Len(load)
        /\ Len(sections) \in Nat /\ Len(load) \in Nat
    BY <2>1, SectionsTyped
  <2>3. \A i \in DOMAIN sections : Shown(i) = sections[i].kept
    BY <2>1, <2>2 DEF Shown, Tallied, Count
  <2>4. OmissionIsNamed
    <3>1. Missing = Dropped
      BY <2>3 DEF Missing, Dropped
    <3>2. QED
      BY <3>1 DEF BriefInv, StoppedAtACut, OmissionIsNamed
  <2>5. DropsAreATail
    <3>1. \A i \in DOMAIN load : i \in DOMAIN sections
      BY <2>1, <2>2 DEF FilledInTurn
    <3>2. QED
      BY <2>1, <2>2, <2>3, <3>1 DEF FilledInTurn, DropsAreATail
  <2>6. QED
    BY <2>4, <2>5 DEF OpenOmission
<1>2. BriefInit => StoppedAtACut
  BY DEF BriefInit, StoppedAtACut
<1>3. BriefSpec => []StoppedAtACut
  <2>1. BriefInv /\ BriefInv' /\ StoppedAtACut /\ [BriefNext]_briefVars => StoppedAtACut'
    BY StoppedStep
  <2>2. QED
    BY <1>2, <2>1, BriefInvariance, PTL DEF BriefSpec
<1>4. QED
  BY <1>1, <1>3, BriefInvariance, PTL

-----------------------------------------------------------------------------
(***************************************************************************)
(* `dira check`, for any ledger, any parents, any plan and whatever the    *)
(* matcher makes of a text.                                                *)
(***************************************************************************)
\* A ledger holds what was drafted, in some state and with some edges.
IsALedger(L) ==
    /\ L \in [Ids -> (UNION {Written(i) : i \in Ids}) \cup {NoEntry}]
    /\ \A i \in Held(L) : L[i] \in Written(i)

\* What L holds is still there in M, with the edges it had.
Outlives(L, M) == \A i \in Held(L) : i \in Held(M) /\ L[i].supersedes \subseteq M[i].supersedes

HomesAsRead(homes) == DOMAIN homes = Namespaces /\ \A n \in Namespaces : DOMAIN homes[n].entries \subseteq Ids

\* What is printed is of the child, or out of a parent that was read in full,
\* and shows nothing of what is secret.
Printed(b, seen, homes) ==
    /\ \/ \E i \in Ids : b.entry = Local(i)
       \/ \E ref \in Inherited : b.entry = ref /\ homes[ref.space].store = "open"
    /\ Secret(b.entry, seen, homes) => b.shows = {}

\* What the check that is running has read.
Reading ==
    /\ DOMAIN check = {"at", "was", "homes", "asked", "seen", "left", "moves"}
    /\ check.at \in {"opened", "declared", "selected"}
    /\ check.at # "opened" => HomesAsRead(check.homes)
    /\ check.asked \subseteq Namespaces /\ (check.asked # {} => check.at = "declared")
    /\ IsALedger(check.was) /\ Outlives(check.was, entries)
    /\ IsALedger(check.seen) /\ Outlives(check.seen, entries)
    /\ check.left \subseteq Held(entries) /\ (check.left # {} => check.at = "selected")
    /\ check.at = "selected" =>
          \A i \in Held(check.was) \ check.left :
              i \in Held(check.seen) /\ check.was[i].supersedes \subseteq check.seen[i].supersedes

\* What the last check had read, and what it made of it.
Judged ==
    /\ HomesAsRead(last.homes)
    /\ IsALedger(last.seen) /\ Outlives(last.seen, entries) /\ Outlives(last.was, last.seen)
    /\ last.verdict = CheckInherited(last.seen, last.homes, last.plan)
    /\ last.stderr = {n \in Namespaces : last.homes[n].store # "open"}
    /\ \A b \in last.stdout.blocks \cup last.json.blocks : Printed(b, last.seen, last.homes)

CheckInv ==
    /\ IsALedger(entries)
    /\ parents \in [Namespaces -> UNION {Homes[n] : n \in Namespaces}]
    /\ \A n \in Namespaces : parents[n] \in Homes[n]
    /\ check # NoCheck => Reading
    /\ Ran => Judged

\* The units of an entry cite it, and say whether it is private.
LEMMA AlternativesCite ==
  ASSUME NEW e, NEW ref, NEW u \in alternativeUnits(e, ref)
  PROVE  u.cites.entry = ref /\ u.cites.private = e.private
BY DEF alternativeUnits, NonEmpty, Cite

\* Those of a constraint too, and there is always one.
LEMMA ConstraintsCite ==
  ASSUME NEW e, NEW ref, NEW private
  PROVE  /\ \A u \in constraintUnits(e, ref, private) : u.cites.entry = ref /\ u.cites.private = private
         /\ \E u \in constraintUnits(e, ref, private) : u.cites.entry = ref
<1> DEFINE Unit(text, nth) ==
             [text |-> Parse(text), polarised |-> FALSE, phraseOnly |-> FALSE, prose |-> TRUE,
              nth |-> nth, cites |-> Cite(ref, "constraint", private)]
           title == Unit(Joined(e.title, e.tags), 0)
<1>1. /\ title \in constraintUnits(e, ref, private)
      /\ \A u \in constraintUnits(e, ref, private) :
            u = title \/ \E k \in DOMAIN e.body : u = Unit(e.body[k], k)
  BY DEF constraintUnits, NonEmpty
<1>2. \A text, nth : Unit(text, nth).cites.entry = ref /\ Unit(text, nth).cites.private = private
  BY DEF Cite
<1>3. title.cites.entry = ref /\ title.cites.private = private
  BY <1>2
<1> HIDE DEF Unit
<1>4. \A u \in constraintUnits(e, ref, private) : u.cites.entry = ref /\ u.cites.private = private
  <2> HIDE DEF title
  <2>1. QED
    BY <1>1, <1>2, <1>3
<1>5. QED
  BY <1>1, <1>3, <1>4

\* Whatever an entry is matched by cites it.
LEMMA UnitsCite ==
  ASSUME NEW e, NEW ref, NEW u \in unitsFor(e, ref)
  PROVE  u.cites.entry = ref /\ u.cites.private = e.private
<1>1. \/ u \in alternativeUnits(e, ref)
      \/ u \in constraintUnits(e, ref, e.private)
      \/ u.cites = Cite(ref, "decision", e.private)
  BY DEF unitsFor
<1>2. Cite(ref, "decision", e.private).entry = ref /\ Cite(ref, "decision", e.private).private = e.private
  BY DEF Cite
<1>3. QED
  BY <1>1, <1>2, AlternativesCite, ConstraintsCite

\* What a parent gives is cited under the parent, and its store was open.
LEMMA InheritedCite ==
  ASSUME NEW homes, NEW u \in Inherit(homes).units
  PROVE  \E ref \in Contributed(homes) :
            /\ u.cites.entry = ref /\ homes[ref.space].store = "open"
            /\ u.cites.private = (homes[ref.space].entries[ref.id].private \/ forcedPrivate(homes[ref.space]))
<1>1. PICK ref \in Contributed(homes) :
         u \in constraintUnits(homes[ref.space].entries[ref.id], ref,
                               homes[ref.space].entries[ref.id].private \/ forcedPrivate(homes[ref.space]))
  BY DEF Inherit
<1>2. homes[ref.space].store = "open"
  BY DEF Contributed, readConstraints
<1>3. QED
  BY <1>1, <1>2, ConstraintsCite

\* Every conflict and every notice is the hit of a unit.
LEMMA HitsCite ==
  ASSUME NEW docs, NEW plan, NEW units, NEW c \in BestHits(docs, plan, units)
  PROVE  \E u \in units : c.cites = u.cites
BY DEF BestHits

\* A conflict cites an entry of the child, or one that a parent gave.
LEMMA ConflictsCite ==
  ASSUME NEW L, NEW homes, NEW raw, NEW c \in CheckInherited(L, homes, raw).conflicts
  PROVE  \/ \E i \in Held(L) : c.cites.entry = Local(i) /\ c.cites.private = L[i].private
         \/ \E u \in Inherit(homes).units : c.cites = u.cites
<1>1. PICK u \in adopt(newMatcher(L), homes).units : c.cites = u.cites
  BY HitsCite DEF CheckInherited, verdict
<1>2. u \in enforcementSet(L) \/ u \in Inherit(homes).units
  BY DEF adopt, newMatcher
<1>3. CASE u \in enforcementSet(L)
  BY <1>1, <1>3, UnitsCite DEF enforcementSet
<1>4. QED
  BY <1>1, <1>2, <1>3

\* The child's own entries have no namespace.
LEMMA LocalIsOwn == ASSUME NEW i PROVE Local(i).space = "" /\ Local(i).id = i
BY DEF Local

\* They are told apart by their ids.
LEMMA LocalTellsApart == ASSUME NEW i, NEW k, Local(k) = Local(i) PROVE k = i
<1>1. Local(k).id = k /\ Local(i).id = i
  BY DEF Local
<1>2. QED
  BY <1>1

\* Nothing inherited has the child's own name.
LEMMA InheritedElsewhere ==
  ASSUME NEW ref \in Inherited
  PROVE  ref.space \in Namespaces /\ ref.id \in Ids /\ ref.space # ""
<1>1. PICK n \in Namespaces, i \in Ids : ref = [space |-> n, id |-> i]
  BY DEF Inherited
<1>2. ref.space = n /\ ref.id = i
  BY <1>1
<1>3. QED
  BY <1>2, EnforcementAssumption

\* A private citation shows nothing, in either form.
LEMMA PrivateShowsNothing ==
  ASSUME NEW c, c.cites.private
  PROVE  block(c).shows = {} /\ jsonConflict(c).shows = {}
BY DEF block, jsonConflict

\* What a check prints of a conflict is what may be printed.
LEMMA ConflictsPrinted ==
  ASSUME NEW L, NEW homes, NEW raw, NEW c \in CheckInherited(L, homes, raw).conflicts
  PROVE  Printed(block(c), L, homes) /\ Printed(jsonConflict(c), L, homes)
<1> DEFINE ref == c.cites.entry
<1>1. CASE \E i \in Held(L) : ref = Local(i) /\ c.cites.private = L[i].private
  <2>1. PICK i \in Held(L) : ref = Local(i) /\ c.cites.private = L[i].private
    BY <1>1
  <2>2. i \in Ids /\ ref.space = "" /\ ref.id = i
    BY <2>1, LocalIsOwn DEF Held
  <2>3. Secret(ref, L, homes) => c.cites.private
    BY <2>1, <2>2 DEF Secret
  <2>4. block(c).entry = ref /\ jsonConflict(c).entry = ref
    BY DEF block, jsonConflict
  <2> HIDE DEF ref
  <2>5. QED
    BY <2>1, <2>2, <2>3, <2>4, PrivateShowsNothing DEF Printed
<1>2. CASE \E u \in Inherit(homes).units : c.cites = u.cites
  <2>1. PICK from \in Contributed(homes) :
           /\ ref = from /\ homes[from.space].store = "open"
           /\ c.cites.private = (homes[from.space].entries[from.id].private
                                \/ forcedPrivate(homes[from.space]))
    BY <1>2, InheritedCite
  <2>2. from \in Inherited /\ from.space # ""
    BY <2>1, InheritedElsewhere DEF Contributed
  <2>3. Secret(ref, L, homes) <=> c.cites.private
    BY <2>1, <2>2 DEF Secret, forcedPrivate
  <2>4. block(c).entry = ref /\ jsonConflict(c).entry = ref
    BY DEF block, jsonConflict
  <2> HIDE DEF ref
  <2>5. QED
    BY <2>1, <2>2, <2>3, <2>4, PrivateShowsNothing DEF Printed
<1>3. QED
  BY <1>1, <1>2, ConflictsCite

\* What an entry is written as has its fields.
LEMMA Rewritten ==
  ASSUME NEW i \in Ids, NEW e \in Written(i), NEW s \in EntryStates, NEW olds \in SUBSET Ids
  PROVE  /\ [e EXCEPT !.state = s] \in Written(i)
         /\ [e EXCEPT !.supersedes = olds] \in Written(i)
         /\ e.supersedes \in SUBSET Ids
<1>1. PICK d \in Drafts[i], t \in EntryStates, has \in SUBSET Ids :
         e = [kind |-> d.kind, state |-> t, title |-> d.title, tags |-> d.tags, alts |-> d.alts,
              body |-> d.body, private |-> d.private, supersedes |-> has]
  BY DEF Written
<1> DEFINE As(t1, has1) ==
             [kind |-> d.kind, state |-> t1, title |-> d.title, tags |-> d.tags, alts |-> d.alts,
              body |-> d.body, private |-> d.private, supersedes |-> has1]
<1>2. [e EXCEPT !.state = s] = As(s, has) /\ [e EXCEPT !.supersedes = olds] = As(t, olds)
      /\ e.supersedes = has
  BY <1>1
<1>3. As(s, has) \in Written(i) /\ As(t, olds) \in Written(i)
  <2>1. \A t1 \in EntryStates, has1 \in SUBSET Ids : As(t1, has1) \in Written(i)
    BY <1>1 DEF Written
  <2> HIDE DEF As
  <2>2. QED
    BY <1>1, <2>1
<1> HIDE DEF As
<1>4. QED
  BY <1>2, <1>3

\* The last verdict stands while nothing is written and nothing is judged.
LEMMA JudgedStands ==
  ASSUME CheckInv, entries' = entries, last' = last
  PROVE  (Ran => Judged)'
<1>1. Ran' <=> Ran
  BY DEF Ran
<1>2. Judged => Judged'
  BY DEF Judged
<1>3. QED
  BY <1>1, <1>2 DEF CheckInv

\* What has been read stays what it was whatever is written.
LEMMA ReadsStand ==
  ASSUME CheckInv, Meanwhile, Outlives(entries, entries')
  PROVE  (check # NoCheck => Reading)' /\ (Ran => Judged)'
<1>1. \A L : Outlives(L, entries) => Outlives(L, entries')
  BY DEF Outlives
<1>2. Held(entries) \subseteq Held(entries')
  BY DEF Outlives
<1>3. CASE check = NoCheck /\ last' = NoRun /\ UNCHANGED check
  BY <1>3 DEF Ran
<1>4. CASE check # NoCheck /\ check' = [check EXCEPT !.moves = @ + 1] /\ UNCHANGED last
  <2>1. Reading
    BY <1>4 DEF CheckInv
  <2>2. /\ check'.at = check.at /\ check'.homes = check.homes /\ check'.asked = check.asked
        /\ check'.was = check.was /\ check'.seen = check.seen /\ check'.left = check.left
    BY <1>4
  <2>3. Reading'
    <3>1. Outlives(check.was, entries') /\ Outlives(check.seen, entries') /\ check.left \subseteq Held(entries')
      BY <1>1, <1>2, <2>1 DEF Reading
    <3>2. DOMAIN check' = DOMAIN check
      BY <1>4
    <3>3. QED
      BY <2>1, <2>2, <3>1, <3>2 DEF Reading
  <2>4. Ran => Judged
    BY DEF CheckInv
  <2>5. (Ran => Judged)'
    <3>1. Ran' <=> Ran
      BY <1>4 DEF Ran
    <3>2. Judged => Judged'
      BY <1>1, <1>4 DEF Judged
    <3>3. QED
      BY <2>4, <3>1, <3>2
  <2>6. QED
    BY <2>3, <2>5
<1>5. QED
  BY <1>3, <1>4 DEF Meanwhile

\* An entry is written with the edges it had, or more, and a check that is
\* running, or the last one, is none the wiser.
LEMMA WritesStep ==
  ASSUME CheckInv, NEW i \in Ids, NEW e \in Written(i), entries' = [entries EXCEPT ![i] = e],
         i \in Held(entries) => entries[i].supersedes \subseteq e.supersedes,
         Meanwhile, UNCHANGED parents
  PROVE  CheckInv'
<1>1. /\ entries' \in [Ids -> (UNION {Written(k) : k \in Ids}) \cup {NoEntry}]
      /\ entries'[i] = e /\ \A k \in Ids \ {i} : entries'[k] = entries[k]
  BY DEF CheckInv, IsALedger
<1>2. \A k \in Held(entries') : entries'[k] \in Written(k)
  BY <1>1 DEF Held, CheckInv, IsALedger
<1>3. IsALedger(entries') /\ Outlives(entries, entries')
  <2>1. e # NoEntry
    BY EnforcementAssumption
  <2>2. QED
    BY <1>1, <1>2, <2>1 DEF Held, IsALedger, Outlives
<1>4. QED
  BY <1>3, ReadsStand DEF CheckInv

\* A check begins.
LEMMA OpenStep == ASSUME CheckInv, Open PROVE CheckInv'
<1>1. /\ entries' = entries /\ parents' = parents /\ last' = last /\ last = NoRun
      /\ check' = [at |-> "opened", was |-> entries, homes |-> <<>>, asked |-> {},
                   seen |-> None, left |-> {}, moves |-> 0]
  BY DEF Open
<1>2. IsALedger(None) /\ Outlives(None, entries) /\ Outlives(entries, entries)
  BY DEF None, IsALedger, Held, Outlives
<1>3. Reading'
  BY <1>1, <1>2 DEF Reading, CheckInv
<1>4. QED
  BY <1>1, <1>3 DEF CheckInv, Ran

\* Where it stands changes, and what it has read does not.
LEMMA DeclaredStep == ASSUME CheckInv, declaredParents PROVE CheckInv'
<1>1. /\ entries' = entries /\ parents' = parents /\ last' = last
      /\ check # NoCheck /\ check.at = "opened"
      /\ check' = [check EXCEPT !.at = "declared", !.homes = parents, !.asked = Namespaces]
  BY DEF declaredParents
<1>2. Reading
  BY <1>1 DEF CheckInv
<1>3. /\ DOMAIN check' = DOMAIN check
      /\ check'.at = "declared" /\ check'.homes = parents /\ check'.asked = Namespaces
      /\ check'.was = check.was /\ check'.seen = check.seen /\ check'.left = check.left
  BY <1>1, <1>2 DEF Reading
<1>4. HomesAsRead(parents)
  BY EnforcementAssumption DEF CheckInv, HomesAsRead
<1>5. Reading'
  BY <1>1, <1>2, <1>3, <1>4 DEF Reading
<1>6. QED
  BY <1>1, <1>5, JudgedStands DEF CheckInv

LEMMA ReadParentStep == ASSUME CheckInv, NEW n \in Namespaces, readParent(n) PROVE CheckInv'
<1> DEFINE there == [visibility |-> check.homes[n].visibility, tier |-> check.homes[n].tier,
                     store |-> IF check.homes[n].store = "absent" THEN "absent" ELSE parents[n].store,
                     entries |-> parents[n].entries]
<1>1. /\ entries' = entries /\ parents' = parents /\ last' = last
      /\ check # NoCheck /\ n \in check.asked
      /\ check' = [check EXCEPT !.asked = @ \ {n}, !.homes[n] = there]
  BY DEF readParent
<1>2. Reading /\ check.at = "declared" /\ HomesAsRead(check.homes)
  BY <1>1 DEF CheckInv, Reading
<1>3. there.entries = parents[n].entries
  OBVIOUS
<1> HIDE DEF there
<1>4. /\ DOMAIN check' = DOMAIN check
      /\ check'.at = check.at /\ check'.homes = [check.homes EXCEPT ![n] = there]
      /\ check'.asked = check.asked \ {n}
      /\ check'.was = check.was /\ check'.seen = check.seen /\ check'.left = check.left
  BY <1>1, <1>2 DEF Reading
<1>5. DOMAIN parents[n].entries \subseteq Ids
  BY EnforcementAssumption DEF CheckInv
<1>6. HomesAsRead(check'.homes)
  BY <1>2, <1>3, <1>4, <1>5 DEF HomesAsRead
<1>7. Reading'
  BY <1>1, <1>2, <1>4, <1>6 DEF Reading
<1>8. QED
  BY <1>1, <1>7, JudgedStands DEF CheckInv

LEMMA SelectStep == ASSUME CheckInv, Select PROVE CheckInv'
<1>1. /\ entries' = entries /\ parents' = parents /\ last' = last
      /\ check # NoCheck /\ check.at = "declared"
  BY DEF Select
<1>2. PICK found \in SUBSET Held(entries) :
         Held(check.was) \subseteq found /\ check' = [check EXCEPT !.at = "selected", !.left = found]
  BY DEF Select
<1>3. Reading
  BY <1>1 DEF CheckInv
<1>4. /\ DOMAIN check' = DOMAIN check
      /\ check'.at = "selected" /\ check'.homes = check.homes /\ check'.asked = check.asked
      /\ check'.was = check.was /\ check'.seen = check.seen /\ check'.left = found
  BY <1>2, <1>3 DEF Reading
<1>5. check.asked = {}
  BY DEF Select
<1>6. Reading'
  BY <1>1, <1>2, <1>3, <1>4, <1>5 DEF Reading
<1>7. QED
  BY <1>1, <1>6, JudgedStands DEF CheckInv

\* A file is read, with the edges it has by now.
LEMMA ReadStep == ASSUME CheckInv, NEW i \in Ids, ReadEntry(i) PROVE CheckInv'
<1>1. /\ entries' = entries /\ parents' = parents /\ last' = last
      /\ check # NoCheck /\ i \in check.left
      /\ check' = [check EXCEPT !.left = @ \ {i}, !.seen[i] = entries[i]]
  BY DEF ReadEntry
<1>2. Reading
  BY <1>1 DEF CheckInv
<1>3. /\ DOMAIN check' = DOMAIN check
      /\ check'.at = check.at /\ check'.homes = check.homes /\ check'.asked = check.asked
      /\ check'.was = check.was /\ check'.left = check.left \ {i}
      /\ check'.seen = [check.seen EXCEPT ![i] = entries[i]]
  BY <1>1, <1>2 DEF Reading
<1>4. i \in Held(entries) /\ check.at = "selected"
  BY <1>1, <1>2 DEF Reading
<1>5. /\ check'.seen[i] = entries[i] /\ \A k \in Ids \ {i} : check'.seen[k] = check.seen[k]
      /\ check'.seen \in [Ids -> (UNION {Written(k) : k \in Ids}) \cup {NoEntry}]
  <2>1. check.seen \in [Ids -> (UNION {Written(k) : k \in Ids}) \cup {NoEntry}]
    BY <1>2 DEF Reading, IsALedger
  <2>2. entries[i] \in (UNION {Written(k) : k \in Ids}) \cup {NoEntry}
    BY DEF CheckInv, IsALedger
  <2>3. QED
    BY <1>3, <2>1, <2>2
<1>6. Held(check'.seen) = Held(check.seen) \cup {i}
  BY <1>4, <1>5 DEF Held
<1>7. IsALedger(check'.seen) /\ Outlives(check'.seen, entries)
  <2>1. \A k \in Held(check'.seen) : check'.seen[k] \in Written(k)
    BY <1>2, <1>4, <1>5, <1>6 DEF Reading, IsALedger, CheckInv, Held
  <2>2. Outlives(check'.seen, entries)
    BY <1>2, <1>4, <1>5, <1>6 DEF Reading, Outlives, Held
  <2>3. QED
    BY <1>5, <2>1, <2>2 DEF IsALedger
<1>8. \A k \in Held(check.was) \ check'.left :
         k \in Held(check'.seen) /\ check.was[k].supersedes \subseteq check'.seen[k].supersedes
  <2> SUFFICES ASSUME NEW k \in Held(check.was) \ check'.left
               PROVE  k \in Held(check'.seen) /\ check.was[k].supersedes \subseteq check'.seen[k].supersedes
    OBVIOUS
  <2>1. CASE k = i
    BY <1>2, <1>5, <1>6, <2>1 DEF Reading, Outlives
  <2>2. CASE k # i
    BY <1>2, <1>3, <1>4, <1>5, <1>6, <2>2 DEF Reading, Held
  <2>3. QED
    BY <2>1, <2>2
<1>9. Reading'
  BY <1>1, <1>2, <1>3, <1>7, <1>8 DEF Reading
<1>10. QED
  BY <1>1, <1>9, JudgedStands DEF CheckInv

\* A check is over.
LEMMA RunCheckStep == ASSUME CheckInv, NEW raw \in Plans, runCheck(raw) PROVE CheckInv'
<1> DEFINE v == CheckInherited(check.seen, check.homes, raw)
<1>1. /\ entries' = entries /\ parents' = parents /\ check' = NoCheck
      /\ check # NoCheck /\ check.at = "selected" /\ check.left = {}
      /\ last' = [code |-> ExitCode(v), plan |-> raw, verdict |-> v, stdout |-> Render(v),
                  json |-> RenderJSON(v), stderr |-> RenderParents(ParentReports(check.homes)),
                  was |-> check.was, homes |-> check.homes, seen |-> check.seen]
  BY DEF runCheck
<1>2. Reading
  BY <1>1 DEF CheckInv
<1>3. /\ last'.seen = check.seen /\ last'.homes = check.homes /\ last'.was = check.was
      /\ last'.verdict = v /\ last'.plan = raw
      /\ last'.stdout = Render(v) /\ last'.json = RenderJSON(v)
      /\ last'.stderr = RenderParents(ParentReports(check.homes))
  BY <1>1
<1>4. last'.stderr = {n \in Namespaces : check.homes[n].store # "open"}
  BY <1>3 DEF RenderParents, ParentReports
<1>5. \A b \in last'.stdout.blocks \cup last'.json.blocks :
         \E c \in v.conflicts : b = block(c) \/ b = jsonConflict(c)
  BY <1>3 DEF Render, RenderJSON
<1>6. \A b \in last'.stdout.blocks \cup last'.json.blocks : Printed(b, check.seen, check.homes)
  BY <1>5, ConflictsPrinted
<1>7. HomesAsRead(check.homes) /\ IsALedger(check.seen) /\ Outlives(check.seen, entries)
  BY <1>1, <1>2 DEF Reading
<1>8. Outlives(check.was, check.seen)
  BY <1>1, <1>2 DEF Reading, Outlives
<1> HIDE DEF v
<1>9. Judged'
  <2>1. last'.verdict = CheckInherited(last'.seen, last'.homes, last'.plan)
    BY <1>3 DEF v
  <2>2. last'.stderr = {n \in Namespaces : last'.homes[n].store # "open"}
    BY <1>3, <1>4
  <2>3. QED
    BY <1>1, <1>3, <1>6, <1>7, <1>8, <2>1, <2>2 DEF Judged
<1>10. QED
  BY <1>1, <1>9 DEF CheckInv

LEMMA CheckFailsStep == ASSUME CheckInv, NEW raw \in Plans, CheckFails(raw) PROVE CheckInv'
BY DEF CheckInv, CheckFails, Ran

\* What holds of the ledger, the parents, the check that is running and the last
\* verdict.
THEOREM CheckInvariance == Spec => []CheckInv
<1>1. Init => CheckInv
  <2> SUFFICES ASSUME Init PROVE CheckInv
    OBVIOUS
  <2>1. ~Ran /\ check = NoCheck /\ IsALedger(entries)
    BY DEF Init, Ran, None, IsALedger, Held
  <2>2. QED
    BY <2>1 DEF Init, CheckInv
<1>2. CheckInv /\ [Next]_vars => CheckInv'
  <2> SUFFICES ASSUME CheckInv, [Next]_vars PROVE CheckInv'
    OBVIOUS
  <2>1. ASSUME NEW i \in Ids, Log(i) PROVE CheckInv'
    <3>1. PICK e \in Drafts[i] : entries' = [entries EXCEPT ![i] = e]
      BY <2>1 DEF Log
    <3>2. e \in Written(i)
      BY EnforcementAssumption
    <3>3. i \notin Held(entries)
      BY <2>1 DEF Log, Held
    <3>4. QED
      BY <2>1, <3>1, <3>2, <3>3, WritesStep DEF Log
  <2>2. ASSUME NEW i \in Ids, Amend(i) PROVE CheckInv'
    <3>1. PICK s \in Moves(entries[i]) : entries' = [entries EXCEPT ![i].state = s]
      BY <2>2 DEF Amend
    <3>2. s \in EntryStates
      BY <3>1 DEF Moves, EntryStates
    <3>3. entries[i] \in Written(i)
      BY <2>2 DEF Amend, CheckInv, IsALedger
    <3>4. [entries[i] EXCEPT !.state = s] \in Written(i)
      BY <3>2, <3>3, Rewritten
    <3>5. entries' = [entries EXCEPT ![i] = [entries[i] EXCEPT !.state = s]]
      BY <3>1
    <3>6. [entries[i] EXCEPT !.state = s].supersedes = entries[i].supersedes
      BY <3>3 DEF Written
    <3>7. QED
      BY <2>2, <3>4, <3>5, <3>6, WritesStep DEF Amend
  <2>3. ASSUME NEW new \in Ids, NEW old \in Ids, Link(new, old) PROVE CheckInv'
    <3> DEFINE olds == entries[new].supersedes \cup {old}
    <3>1. entries[new] \in Written(new) /\ "active" \in EntryStates
      BY <2>3 DEF Link, CheckInv, IsALedger, EntryStates
    <3>2. olds \in SUBSET Ids
      BY <3>1, Rewritten
    <3>3. entries' = [entries EXCEPT ![new] = [entries[new] EXCEPT !.supersedes = olds]]
      BY <2>3 DEF Link
    <3>4. entries[new].supersedes \subseteq olds
      OBVIOUS
    <3> HIDE DEF olds
    <3>5. [entries[new] EXCEPT !.supersedes = olds] \in Written(new)
      BY <3>1, <3>2, Rewritten
    <3>6. [entries[new] EXCEPT !.supersedes = olds].supersedes = olds
      BY <3>1 DEF Written
    <3>7. QED
      BY <2>3, <3>3, <3>4, <3>5, <3>6, WritesStep DEF Link
  <2>4. ASSUME NEW n \in Namespaces, ParentMoves(n) PROVE CheckInv'
    <3>1. PICK p \in Homes[n] : parents' = [parents EXCEPT ![n] = p]
      BY <2>4 DEF ParentMoves
    <3>2. entries' = entries /\ Outlives(entries, entries')
      BY <2>4 DEF ParentMoves, Outlives
    <3>3. (check # NoCheck => Reading)' /\ (Ran => Judged)'
      BY <2>4, <3>2, ReadsStand DEF ParentMoves
    <3>4. QED
      BY <3>1, <3>2, <3>3 DEF CheckInv
  <2>5. CASE UNCHANGED vars
    <3>1. entries' = entries /\ parents' = parents /\ last' = last /\ check' = check
      BY <2>5 DEF vars
    <3>2. Reading => Reading'
      BY <3>1 DEF Reading
    <3>3. QED
      BY <3>1, <3>2, JudgedStands DEF CheckInv
  <2>6. QED
    BY <2>1, <2>2, <2>3, <2>4, <2>5, OpenStep, DeclaredStep, ReadParentStep, SelectStep, ReadStep,
       RunCheckStep, CheckFailsStep DEF Next, Checks, Changes
<1>3. QED
  BY <1>1, <1>2, PTL DEF Spec

\* No text of a private entry, nor of anything out of a parent that is not
\* known to be public, is printed in either form, whatever is checked against
\* whatever ledger (cmd/dira/check.go, internal/enforcer/render.go).
THEOREM PrivateStays == Spec => []PrivateStaysByReference
<1>1. CheckInv => PrivateStaysByReference
  BY DEF CheckInv, Judged, Printed, PrivateStaysByReference
<1>2. QED
  BY <1>1, CheckInvariance, PTL

\* A parent that could not be read adds nothing to the verdict and is named on
\* stderr; of one that is not named, every active constraint was enforced
\* (internal/enforcer/inherit.go).
THEOREM ParentsAreSaid == Spec => []UnreadParentIsSaid
<1>1. CheckInv => UnreadParentIsSaid
  <2> SUFFICES ASSUME CheckInv, Ran, NEW n \in Namespaces
               PROVE  /\ n \in last.stderr => \A b \in last.stdout.blocks : b.entry.space # n
                      /\ n \notin last.stderr =>
                           \A i \in DOMAIN last.homes[n].entries :
                              LET e == last.homes[n].entries[i]
                              IN  e.kind = "constraint" /\ e.state = "active" /\ ~Empty(Parse(e.title)) =>
                                    [space |-> n, id |-> i] \in {u.cites.entry : u \in Inherit(last.homes).units}
    BY DEF UnreadParentIsSaid
  <2>1. n \in last.stderr <=> last.homes[n].store # "open"
    BY DEF CheckInv, Judged
  <2>2. ASSUME n \in last.stderr, NEW b \in last.stdout.blocks PROVE b.entry.space # n
    <3>1. Printed(b, last.seen, last.homes)
      BY DEF CheckInv, Judged
    <3>2. CASE \E i \in Ids : b.entry = Local(i)
      BY <3>2, LocalIsOwn, EnforcementAssumption
    <3>3. CASE \E ref \in Inherited : b.entry = ref /\ last.homes[ref.space].store = "open"
      BY <2>1, <2>2, <3>3
    <3>4. QED
      BY <3>1, <3>2, <3>3 DEF Printed
  <2>3. ASSUME n \notin last.stderr, NEW i \in DOMAIN last.homes[n].entries,
               last.homes[n].entries[i].kind = "constraint", last.homes[n].entries[i].state = "active"
        PROVE  [space |-> n, id |-> i] \in {u.cites.entry : u \in Inherit(last.homes).units}
    <3> DEFINE ref == [space |-> n, id |-> i]
    <3>1. i \in Ids
      BY DEF CheckInv, Judged, HomesAsRead
    <3>2. ref \in Contributed(last.homes) /\ ref.space = n /\ ref.id = i
      BY <2>1, <2>3, <3>1 DEF Contributed, Inherited, readConstraints
    <3> HIDE DEF ref
    <3> DEFINE private == last.homes[ref.space].entries[ref.id].private \/ forcedPrivate(last.homes[ref.space])
               units == constraintUnits(last.homes[ref.space].entries[ref.id], ref, private)
    <3>3. units \subseteq Inherit(last.homes).units
      BY <3>2 DEF Inherit
    <3>4. \E u \in units : u.cites.entry = ref
      BY ConstraintsCite
    <3> HIDE DEF units
    <3>5. ref \in {u.cites.entry : u \in Inherit(last.homes).units}
      BY <3>3, <3>4
    <3>6. QED
      BY <3>5 DEF ref
  <2>4. QED
    BY <2>2, <2>3
<1>2. QED
  BY <1>1, CheckInvariance, PTL

\* An entry is matched by the same texts, and has the same words, whatever its
\* state.
LEMMA StateIsNoText ==
  ASSUME NEW i \in Ids, NEW e \in Written(i), NEW ref
  PROVE  LET then == [e EXCEPT !.state = "accepted"]
         IN  /\ alternativeUnits(then, ref) = alternativeUnits(e, ref)
             /\ documentText(then, ref) = documentText(e, ref)
<1> DEFINE then == [e EXCEPT !.state = "accepted"]
<1>1. /\ then.alts = e.alts /\ then.private = e.private /\ then.kind = e.kind
      /\ then.title = e.title /\ then.tags = e.tags /\ then.body = e.body
  BY DEF Written
<1> HIDE DEF then
<1>2. alternativeUnits(then, ref) = alternativeUnits(e, ref)
  BY <1>1 DEF alternativeUnits
<1>3. documentText(then, ref) = documentText(e, ref)
  BY <1>1 DEF documentText
<1>4. QED
  BY <1>2, <1>3 DEF then

\* The units of some that cite an entry.
Citing(units, ref) == {u \in units : u.cites.entry = ref}

\* Which hit of an entry is its best depends on the units of that entry alone.
LEMMA BestOfItsOwn ==
  ASSUME NEW docs, NEW plan, NEW units, NEW others, NEW c \in BestHits(docs, plan, units),
         Citing(units, c.cites.entry) = Citing(others, c.cites.entry)
  PROVE  c \in BestHits(docs, plan, others)
<1> DEFINE Hits(us) == {h \in {[unit |-> u, hit |-> score(docs, plan, u)] : u \in us} : matched(h.hit)}
           Beats(g, h) == \/ g.hit.score > h.hit.score
                          \/ g.hit.score = h.hit.score /\ g.unit.nth < h.unit.nth
           Best(h, us) == \A g \in Hits(us) : g.unit.cites.entry = h.unit.cites.entry => ~Beats(g, h)
           Hit(h) == [cites |-> h.unit.cites, score |-> h.hit.score]
<1>1. \A us : BestHits(docs, plan, us) = {Hit(h) : h \in {g \in Hits(us) : Best(g, us)}}
  BY DEF BestHits
<1>2. PICK h \in Hits(units) : Best(h, units) /\ c = Hit(h)
  BY <1>1
<1>3. \A us : \A g \in Hits(us) : g.unit \in us
  OBVIOUS
<1>4. \A g \in Hits(others) : g.unit \in units => g \in Hits(units)
  OBVIOUS
<1>5. h.unit \in others => h \in Hits(others)
  OBVIOUS
<1>6. c.cites.entry = h.unit.cites.entry
  BY <1>2
<1> HIDE DEF Hits, Beats, Hit
<1>7. h \in Hits(others)
  BY <1>2, <1>3, <1>5, <1>6 DEF Citing
<1>8. Best(h, others)
  <2> SUFFICES ASSUME NEW g \in Hits(others), g.unit.cites.entry = h.unit.cites.entry PROVE ~Beats(g, h)
    OBVIOUS
  <2>1. g.unit \in units
    BY <1>3, <1>6 DEF Citing
  <2>2. QED
    BY <1>2, <1>4, <2>1
<1>9. QED
  BY <1>1, <1>2, <1>7, <1>8

\* A superseded decision whose state alone is moved back to accepted: the words
\* of the ledger are the same, and what it is enforced by is what it was
\* retired with.
LEMMA TakenBack ==
  ASSUME NEW L, IsALedger(L), NEW homes, NEW i \in Retired(L)
  PROVE  LET before == [L EXCEPT ![i].state = "accepted"]
         IN  /\ adopt(newMatcher(before), homes).docs = adopt(newMatcher(L), homes).docs
             /\ Citing(adopt(newMatcher(before), homes).units, Local(i))
                = Citing(adopt(newMatcher(L), homes).retired, Local(i))
<1> DEFINE before == [L EXCEPT ![i].state = "accepted"]
           then == [L[i] EXCEPT !.state = "accepted"]
           alternatives == alternativeUnits(L[i], Local(i))
<1>1. /\ i \in Ids /\ i \in Held(L) /\ L[i] \in Written(i)
      /\ L[i].kind = "decision" /\ L[i].state = "superseded"
  BY DEF Retired, IsALedger, Held
<1>2. then \in Written(i) /\ L[i].supersedes \in SUBSET Ids
  <2>1. "accepted" \in EntryStates
    BY DEF EntryStates
  <2>2. {} \in SUBSET Ids
    OBVIOUS
  <2>3. QED
    BY <1>1, <2>1, <2>2, Rewritten
<1>3. /\ alternativeUnits(then, Local(i)) = alternatives
      /\ documentText(then, Local(i)) = documentText(L[i], Local(i))
  BY <1>1, StateIsNoText
<1>4. then.kind = "decision" /\ then.state = "accepted"
  BY <1>1 DEF Written
<1>5. before[i] = then /\ \A k \in Ids \ {i} : before[k] = L[k]
  BY <1>1 DEF IsALedger
<1> HIDE DEF before, then, alternatives
<1>6. Held(before) = Held(L)
  <2>1. then # NoEntry
    BY <1>1, <1>2, EnforcementAssumption
  <2>2. QED
    BY <1>1, <1>5, <2>1 DEF Held
<1>7. \A k \in Held(L) : documentText(before[k], Local(k)) = documentText(L[k], Local(k))
  BY <1>3, <1>5 DEF Held
<1>8. newMatcher(before).docs = newMatcher(L).docs
  BY <1>6, <1>7 DEF newMatcher
<1>9. adopt(newMatcher(before), homes).docs = adopt(newMatcher(L), homes).docs
  BY <1>8 DEF adopt, newMatcher
<1>10. unitsFor(then, Local(i)) = alternatives
  BY <1>3, <1>4 DEF unitsFor
<1>11. Citing(enforcementSet(before), Local(i)) = alternatives
  <2>1. enforcementSet(before) = UNION {unitsFor(before[k], Local(k)) : k \in Held(L)}
    BY <1>6 DEF enforcementSet
  <2>2. \A u \in alternatives : u \in enforcementSet(before) /\ u.cites.entry = Local(i)
    BY <1>1, <1>5, <1>10, <2>1, AlternativesCite DEF alternatives
  <2>3. ASSUME NEW u \in enforcementSet(before), u.cites.entry = Local(i) PROVE u \in alternatives
    <3>1. PICK k \in Held(L) : u \in unitsFor(before[k], Local(k))
      BY <2>1
    <3>2. Local(k) = Local(i)
      BY <2>3, <3>1, UnitsCite
    <3>3. k = i
      BY <3>2, LocalTellsApart
    <3>4. QED
      BY <1>5, <1>10, <3>1, <3>3
  <2>4. QED
    BY <2>2, <2>3 DEF Citing
<1>12. Citing(adopt(newMatcher(before), homes).units, Local(i)) = alternatives
  <2>1. adopt(newMatcher(before), homes).units = enforcementSet(before) \cup Inherit(homes).units
    BY DEF adopt, newMatcher
  <2>2. ASSUME NEW u \in Inherit(homes).units PROVE u.cites.entry # Local(i)
    <3>1. PICK ref \in Contributed(homes) : u.cites.entry = ref
      BY InheritedCite
    <3>2. ref.space # ""
      BY InheritedElsewhere DEF Contributed
    <3>3. QED
      BY <3>1, <3>2, LocalIsOwn
  <2>3. QED
    BY <1>11, <2>1, <2>2 DEF Citing
<1>13. Citing(retiredSet(L), Local(i)) = alternatives
  <2> DEFINE done == {j \in Held(L) : L[j].kind = "decision" /\ L[j].state = "superseded"}
  <2>1. retiredSet(L) = UNION {alternativeUnits(L[k], Local(k)) : k \in done} /\ i \in done
    BY <1>1 DEF retiredSet
  <2> HIDE DEF done
  <2>2. \A u \in alternatives : u \in retiredSet(L) /\ u.cites.entry = Local(i)
    BY <2>1, AlternativesCite DEF alternatives
  <2>3. ASSUME NEW u \in retiredSet(L), u.cites.entry = Local(i) PROVE u \in alternatives
    <3>1. PICK k \in done : u \in alternativeUnits(L[k], Local(k))
      BY <2>1
    <3>2. Local(k) = Local(i)
      BY <2>3, <3>1, AlternativesCite
    <3>3. k = i
      BY <3>2, LocalTellsApart
    <3>4. QED
      BY <3>1, <3>3 DEF alternatives
  <2>4. QED
    BY <2>2, <2>3 DEF Citing
<1>14. adopt(newMatcher(L), homes).retired = retiredSet(L)
  BY DEF adopt, newMatcher
<1>15. QED
  BY <1>9, <1>12, <1>13, <1>14 DEF before

\* Superseding a decision never drops what it refuses silently: where a check
\* read it as superseded, a plan it would refuse if it were accepted draws a
\* notice of it, whatever else the ledger and its parents hold, whatever is
\* written while they are read, and however the matcher scores a text
\* (internal/enforcer/target.go: retiredSet, enforcer.go: notice).
THEOREM RetiredDrawsANotice == Spec => []RetiredIsRedirected
<1>1. CheckInv => RetiredIsRedirected
  <2> SUFFICES ASSUME CheckInv, Ran, NEW i \in Retired(last.seen),
                      RefusedAs(last.seen, last.homes, i, "accepted", last.plan)
               PROVE  \E n \in last.verdict.notices : n.entry = i
    BY DEF RetiredIsRedirected
  <2> DEFINE L == last.seen
             raw == last.plan
             before == [L EXCEPT ![i].state = "accepted"]
             m == adopt(newMatcher(before), last.homes)
             now == adopt(newMatcher(L), last.homes)
  <2>1. m.docs = now.docs /\ Citing(m.units, Local(i)) = Citing(now.retired, Local(i))
    <3>1. IsALedger(L) /\ i \in Retired(L)
      BY DEF CheckInv, Judged
    <3> HIDE DEF L
    <3>2. QED
      BY <3>1, TakenBack
  <2> HIDE DEF before
  <2>2. PICK c \in BestHits(m.docs, Parse(raw), m.units) : c.cites.entry = Local(i) /\ ~Empty(Parse(raw))
    BY DEF RefusedAs, Cited, CheckInherited, verdict, before
  <2> HIDE DEF m, now
  <2>3. c \in BestHits(now.docs, Parse(raw), now.retired)
    BY <2>1, <2>2, BestOfItsOwn
  <2>4. last.verdict.notices = notice(L, now, Parse(raw))
    BY <2>2 DEF CheckInv, Judged, CheckInherited, verdict, now
  <2>5. \E n \in notice(L, now, Parse(raw)) : n.entry = c.cites.entry.id
    <3> DEFINE by == superseders(L, c.cites.entry.id)
               n == [supersededBy |-> by.id, enforced |-> by.enforced,
                     basis |-> c.cites.basis, entry |-> c.cites.entry.id]
    <3>1. n \in notice(L, now, Parse(raw))
      BY <2>3 DEF notice
    <3>2. n.entry = c.cites.entry.id
      OBVIOUS
    <3> HIDE DEF n
    <3>3. QED
      BY <3>1, <3>2
  <2>6. c.cites.entry.id = i
    BY <2>2, LocalIsOwn
  <2>7. QED
    BY <2>4, <2>5, <2>6
<1>2. QED
  BY <1>1, CheckInvariance, PTL
-----------------------------------------------------------------------------
(***************************************************************************)
(* What the matcher makes of a text that is put to it again.               *)
(***************************************************************************)
\* A span as far as the nth word.
SpanUpTo(f, n, words) ==
    f = [i \in 0 .. n |->
           IF i = 0 THEN <<>>
           ELSE IF Breaks(words, i) \/ words[i] \in negationCues \cup stopwords THEN f[i - 1]
           ELSE Append(f[i - 1], [word |-> stem(words[i]), negated |-> Negated(words, i)])]

Said(words) == {[word |-> stem(words[i]), negated |-> Negated(words, i)] : i \in 1 .. Len(words)}

LEMMA SpansExist ==
  ASSUME NEW words, Len(words) \in Nat
  PROVE  \A n \in 0 .. Len(words) : \E f : SpanUpTo(f, n, words)
<1> DEFINE S == {n \in 0 .. Len(words) : \E f : SpanUpTo(f, n, words)}
<1>1. 0 \in S
  <2> DEFINE f == [i \in 0 .. 0 |-> <<>>]
  <2>1. SpanUpTo(f, 0, words)
    BY DEF SpanUpTo
  <2>2. QED
    BY <2>1
<1>2. ASSUME NEW n \in 1 .. Len(words), n - 1 \in S PROVE n \in S
  <2>1. PICK f : SpanUpTo(f, n - 1, words)
    BY <1>2
  <2> DEFINE d(i) == Breaks(words, i) \/ words[i] \in negationCues \cup stopwords
             t(i) == [word |-> stem(words[i]), negated |-> Negated(words, i)]
             g == [i \in 0 .. n |-> IF i < n THEN f[i]
                                    ELSE IF d(n) THEN f[n - 1] ELSE Append(f[n - 1], t(n))]
  <2>2. f = [i \in 0 .. n - 1 |-> IF i = 0 THEN <<>> ELSE IF d(i) THEN f[i - 1] ELSE Append(f[i - 1], t(i))]
    BY <2>1 DEF SpanUpTo
  <2> HIDE DEF d, t
  <2>3. ASSUME NEW i \in 0 .. n
        PROVE  g[i] = IF i = 0 THEN <<>> ELSE IF d(i) THEN g[i - 1] ELSE Append(g[i - 1], t(i))
    <3>1. CASE i = n
      BY <1>2, <3>1
    <3>2. CASE i # n
      <4>1. i \in 0 .. n - 1 /\ g[i] = f[i] /\ (i # 0 => g[i - 1] = f[i - 1])
        BY <1>2, <3>2
      <4>2. f[i] = IF i = 0 THEN <<>> ELSE IF d(i) THEN f[i - 1] ELSE Append(f[i - 1], t(i))
        BY <2>2, <4>1
      <4>3. QED
        BY <4>1, <4>2
    <3>3. QED
      BY <3>1, <3>2
  <2>4. g = [i \in 0 .. n |-> g[i]]
    OBVIOUS
  <2> HIDE DEF g
  <2>5. g = [i \in 0 .. n |-> IF i = 0 THEN <<>> ELSE IF d(i) THEN g[i - 1] ELSE Append(g[i - 1], t(i))]
    BY <2>3, <2>4
  <2>6. SpanUpTo(g, n, words)
    BY <2>5 DEF SpanUpTo, d, t
  <2>7. QED
    BY <2>6
<1> HIDE DEF S
<1>3. \A n \in 0 .. Len(words) : n \in S
  BY <1>1, <1>2, CountedUp
<1>4. QED
  BY <1>3 DEF S

\* Whatever the words are, their span is a sequence of terms.
LEMMA SpanIsASequence ==
  ASSUME NEW words, Len(words) \in Nat
  PROVE  toSpan(words) \in Seq(Said(words))
<1> DEFINE d(i) == Breaks(words, i) \/ words[i] \in negationCues \cup stopwords
           t(i) == [word |-> stem(words[i]), negated |-> Negated(words, i)]
           upTo == CHOOSE f : f = [i \in 0 .. Len(words) |->
                      IF i = 0 THEN <<>> ELSE IF d(i) THEN f[i - 1] ELSE Append(f[i - 1], t(i))]
           S == {i \in 0 .. Len(words) : upTo[i] \in Seq(Said(words))}
<1>1. toSpan(words) = upTo[Len(words)]
  BY DEF toSpan
<1>2. upTo = [i \in 0 .. Len(words) |->
                IF i = 0 THEN <<>> ELSE IF d(i) THEN upTo[i - 1] ELSE Append(upTo[i - 1], t(i))]
  <2>1. PICK f : SpanUpTo(f, Len(words), words)
    BY SpansExist
  <2>2. f = [i \in 0 .. Len(words) |->
               IF i = 0 THEN <<>> ELSE IF d(i) THEN f[i - 1] ELSE Append(f[i - 1], t(i))]
    BY <2>1 DEF SpanUpTo
  <2> HIDE DEF d, t
  <2>3. QED
    BY <2>2
<1>3. \A i \in 1 .. Len(words) : t(i) \in Said(words)
  BY DEF Said
<1> HIDE DEF d, t, upTo
<1>4. \A i \in 0 .. Len(words) :
        upTo[i] = IF i = 0 THEN <<>> ELSE IF d(i) THEN upTo[i - 1] ELSE Append(upTo[i - 1], t(i))
  BY <1>2
<1>5. 0 \in S
  <2>1. 0 \in 0 .. Len(words)
    OBVIOUS
  <2>2. upTo[0] = <<>>
    BY <1>4, <2>1
  <2>3. <<>> \in Seq(Said(words))
    OBVIOUS
  <2>4. upTo[0] \in Seq(Said(words))
    BY <2>2, <2>3
  <2>5. QED
    BY <2>1, <2>4
<1>6. ASSUME NEW i \in 1 .. Len(words), i - 1 \in S PROVE i \in S
  <2>1. upTo[i - 1] \in Seq(Said(words)) /\ i \in 0 .. Len(words) /\ i # 0
    BY <1>6
  <2>2. upTo[i] = IF d(i) THEN upTo[i - 1] ELSE Append(upTo[i - 1], t(i))
    BY <1>4, <2>1
  <2>3. Append(upTo[i - 1], t(i)) \in Seq(Said(words))
    BY <1>3, <1>6, <2>1
  <2>4. upTo[i] \in Seq(Said(words))
    BY <2>1, <2>2, <2>3
  <2>5. QED
    BY <2>1, <2>4
<1> HIDE DEF S
<1>7. \A i \in 0 .. Len(words) : i \in S
  BY <1>5, <1>6, CountedUp
<1>8. Len(words) \in 0 .. Len(words)
  OBVIOUS
<1>9. QED
  BY <1>1, <1>7, <1>8 DEF S


\* As many values as arguments at the most.
LEMMA FiniteImage ==
  ASSUME NEW S, IsFiniteSet(S), NEW f
  PROVE  /\ IsFiniteSet({f[x] : x \in S})
         /\ Cardinality({f[x] : x \in S}) <= Cardinality(S)
<1> DEFINE g == [x \in S |-> f[x]]
<1>1. g \in Surjection(S, {f[x] : x \in S})
  BY DEF Surjection
<1>2. QED
  BY <1>1, FS_Surjection

\* What a text is parsed to has finitely many terms, and some unless it is empty.
LEMMA ParsedTerms ==
  ASSUME NEW raw \in RawText
  PROVE  IsFiniteSet(Terms(Parse(raw))) /\ (~Empty(Parse(raw)) => Terms(Parse(raw)) # {})
<1>1. \A k \in DOMAIN raw : Len(raw[k]) \in Nat
  BY DEF RawText
<1>2. \A k \in DOMAIN raw : toSpan(raw[k]) \in Seq(Said(raw[k]))
  BY <1>1, SpanIsASequence
<1>3. \A k \in DOMAIN raw : IsFiniteSet(Said(raw[k]))
  <2> SUFFICES ASSUME NEW k \in DOMAIN raw PROVE IsFiniteSet(Said(raw[k]))
    OBVIOUS
  <2> DEFINE w == raw[k]
             f == [i \in 1 .. Len(w) |-> [word |-> stem(w[i]), negated |-> Negated(w, i)]]
  <2>1. IsFiniteSet(1 .. Len(w))
    BY <1>1, FS_Interval
  <2>2. IsFiniteSet({f[x] : x \in 1 .. Len(w)})
    <3> HIDE DEF f
    <3>1. QED
      BY <2>1, FiniteImage
  <2>3. {f[x] : x \in 1 .. Len(w)} = Said(w)
    BY DEF Said
  <2>4. QED
    BY <2>2, <2>3
<1>4. IsFiniteSet(UNION {Said(raw[k]) : k \in DOMAIN raw})
  <2> DEFINE f == [k \in DOMAIN raw |-> Said(raw[k])]
  <2>1. IsFiniteSet(DOMAIN raw)
    <3>1. Len(raw) \in Nat /\ DOMAIN raw = 1 .. Len(raw)
      BY DEF RawText
    <3>2. QED
      BY <3>1, FS_Interval
  <2>2. IsFiniteSet({f[k] : k \in DOMAIN raw})
    <3> HIDE DEF f
    <3>1. QED
      BY <2>1, FiniteImage
  <2>3. {f[k] : k \in DOMAIN raw} = {Said(raw[k]) : k \in DOMAIN raw}
    OBVIOUS
  <2>4. QED
    BY <1>3, <2>2, <2>3, FS_UNION
<1>5. \A k \in DOMAIN raw : Range(toSpan(raw[k])) \subseteq Said(raw[k])
  BY <1>2 DEF Range
<1>6. Terms(Parse(raw)) \subseteq UNION {Said(raw[k]) : k \in DOMAIN raw}
  BY <1>5 DEF Terms, Parse
<1>7. IsFiniteSet(Terms(Parse(raw)))
  BY <1>4, <1>6, FS_Subset
<1>8. ASSUME ~Empty(Parse(raw)) PROVE Terms(Parse(raw)) # {}
  <2>1. PICK k \in DOMAIN raw : toSpan(raw[k]) # <<>> /\ toSpan(raw[k]) \in Parse(raw)
    BY <1>8 DEF Empty, Parse
  <2>2. toSpan(raw[k])[1] \in Range(toSpan(raw[k]))
    <3>1. 1 \in DOMAIN toSpan(raw[k])
      BY <1>2, <2>1
    <3>2. QED
      BY <3>1 DEF Range
  <2>3. QED
    BY <2>1, <2>2 DEF Terms
<1>9. QED
  BY <1>7, <1>8

-----------------------------------------------------------------------------
\* There is a logarithm for that many documents.
Weighable(docs) == IsFiniteSet(docs) /\ Cardinality(docs) + 1 <= Len(Ln)

\* Every word weighs something, however common it is.
LEMMA WeightIsPositive ==
  ASSUME NEW docs, Weighable(docs), NEW w
  PROVE  weight(docs, w) \in Nat /\ weight(docs, w) > 0
<1> DEFINE having == {d \in docs : w \in d.words}
<1>1. Cardinality(docs) \in Nat /\ Cardinality(having) \in Nat
  BY FS_CardinalityType, FS_Subset DEF Weighable
<1>2. Cardinality(having) <= Cardinality(docs)
  BY FS_Subset DEF Weighable
<1> HIDE DEF having
<1>3. Len(Ln) \in Nat /\ DOMAIN Ln = 1 .. Len(Ln)
  BY LnAssumption
<1>4. /\ Cardinality(docs) + 1 \in DOMAIN Ln /\ Cardinality(having) + 1 \in DOMAIN Ln
      /\ Cardinality(having) + 1 <= Cardinality(docs) + 1
  BY <1>1, <1>2, <1>3 DEF Weighable
<1>5. Ln[Cardinality(having) + 1] <= Ln[Cardinality(docs) + 1]
  BY <1>4, LnAssumption
<1>6. Ln[Cardinality(having) + 1] \in Nat /\ Ln[Cardinality(docs) + 1] \in Nat
  BY <1>4, LnAssumption
<1>7. weight(docs, w) = Ln[Cardinality(docs) + 1] - Ln[Cardinality(having) + 1] + 1000
  BY DEF weight, df, having
<1>8. QED
  BY <1>5, <1>6, <1>7

-----------------------------------------------------------------------------
\* The sum of the weights over the subsets of a bag that have n terms at the most.
SubsetsUpTo(bag, n) == {s \in SUBSET bag : Cardinality(s) <= n}
MassUpTo(f, n, docs, bag) ==
    f = [s \in SubsetsUpTo(bag, n) |->
           IF s = {} THEN 0
           ELSE weight(docs, (CHOOSE x \in s : TRUE).word) + f[s \ {CHOOSE x \in s : TRUE}]]

\* A subset that is not empty has one term more than without the one chosen from it.
LEMMA OneLess ==
  ASSUME NEW bag, IsFiniteSet(bag), NEW s \in SUBSET bag, s # {}
  PROVE  /\ s \ {CHOOSE x \in s : TRUE} \in SUBSET bag
         /\ Cardinality(s) \in Nat /\ Cardinality(s) > 0
         /\ Cardinality(s \ {CHOOSE x \in s : TRUE}) = Cardinality(s) - 1
<1>1. IsFiniteSet(s)
  BY FS_Subset
<1>2. (CHOOSE x \in s : TRUE) \in s
  OBVIOUS
<1>3. Cardinality(s \ {CHOOSE x \in s : TRUE}) = Cardinality(s) - 1
  BY <1>1, <1>2, FS_RemoveElement
<1>4. Cardinality(s) \in Nat /\ Cardinality(s) # 0
  BY <1>1, FS_CardinalityType, FS_EmptySet
<1>5. QED
  BY <1>3, <1>4

LEMMA NoneOfThem ==
  ASSUME NEW bag, IsFiniteSet(bag)
  PROVE  \A s \in SubsetsUpTo(bag, 0) : s = {}
<1> SUFFICES ASSUME NEW s \in SubsetsUpTo(bag, 0), s # {} PROVE FALSE
  OBVIOUS
<1>1. s \in SUBSET bag /\ Cardinality(s) <= 0
  BY DEF SubsetsUpTo
<1>2. Cardinality(s) \in Nat /\ Cardinality(s) > 0
  BY <1>1, OneLess
<1>3. QED
  BY <1>1, <1>2

LEMMA MassesExist ==
  ASSUME NEW docs, NEW bag, IsFiniteSet(bag)
  PROVE  \A n \in 0 .. Cardinality(bag) : \E f : MassUpTo(f, n, docs, bag)
<1> DEFINE S == {n \in 0 .. Cardinality(bag) : \E f : MassUpTo(f, n, docs, bag)}
           pick(s) == CHOOSE x \in s : TRUE
<1>1. Cardinality(bag) \in Nat
  BY FS_CardinalityType
<1>2. 0 \in S
  <2> DEFINE f == [s \in SubsetsUpTo(bag, 0) |-> 0]
  <2>1. \A s \in SubsetsUpTo(bag, 0) : s = {}
    BY NoneOfThem
  <2>2. f = [s \in SubsetsUpTo(bag, 0) |-> IF s = {} THEN 0
                                    ELSE weight(docs, (CHOOSE x \in s : TRUE).word) + f[s \ {CHOOSE x \in s : TRUE}]]
    BY <2>1
  <2> HIDE DEF f
  <2>3. MassUpTo(f, 0, docs, bag)
    BY <2>2 DEF MassUpTo
  <2>4. QED
    BY <1>1, <2>3
<1>3. ASSUME NEW n \in 1 .. Cardinality(bag), n - 1 \in S PROVE n \in S
  <2>1. PICK f : MassUpTo(f, n - 1, docs, bag)
    BY <1>3
  <2> DEFINE w(s) == weight(docs, pick(s).word)
             g == [s \in SubsetsUpTo(bag, n) |-> IF s = {} THEN 0
                                          ELSE w(s) + f[s \ {pick(s)}]]
  <2>2. f = [s \in SubsetsUpTo(bag, n - 1) |-> IF s = {} THEN 0 ELSE w(s) + f[s \ {pick(s)}]]
    BY <2>1 DEF MassUpTo
  <2>3. ASSUME NEW s \in SubsetsUpTo(bag, n), s # {}
        PROVE  s \ {pick(s)} \in SubsetsUpTo(bag, n - 1) /\ s \ {pick(s)} \in SubsetsUpTo(bag, n)
    <3>1. /\ s \ {pick(s)} \in SUBSET bag /\ Cardinality(s) \in Nat
          /\ Cardinality(s \ {pick(s)}) = Cardinality(s) - 1
      BY <2>3, OneLess DEF SubsetsUpTo
    <3>2. Cardinality(s) <= n /\ n \in Nat
      BY <1>1, <2>3 DEF SubsetsUpTo
    <3> HIDE DEF pick
    <3>3. QED
      BY <3>1, <3>2 DEF SubsetsUpTo
  <2> HIDE DEF w
  <2>4. ASSUME NEW s \in SubsetsUpTo(bag, n - 1) PROVE s \in SubsetsUpTo(bag, n) /\ g[s] = f[s]
    <3>1. s \in SubsetsUpTo(bag, n)
      <4>1. Cardinality(s) \in Nat /\ Cardinality(s) <= n - 1 /\ s \in SUBSET bag
        BY <2>4, FS_Subset, FS_CardinalityType DEF SubsetsUpTo
      <4>2. Cardinality(s) <= n
        BY <4>1, <1>1
      <4>3. QED
        BY <4>1, <4>2 DEF SubsetsUpTo
    <3>2. QED
      BY <2>2, <3>1
  <2>5. ASSUME NEW s \in SubsetsUpTo(bag, n)
        PROVE  g[s] = IF s = {} THEN 0 ELSE w(s) + g[s \ {pick(s)}]
    <3>1. g[s] = IF s = {} THEN 0 ELSE w(s) + f[s \ {pick(s)}]
      BY <2>5
    <3>2. s # {} => g[s \ {pick(s)}] = f[s \ {pick(s)}]
      <4> HIDE DEF g, pick
      <4>1. QED
        BY <2>3, <2>4
    <3> HIDE DEF g, pick
    <3>3. QED
      BY <3>1, <3>2
  <2>6. g = [s \in SubsetsUpTo(bag, n) |-> g[s]]
    OBVIOUS
  <2> HIDE DEF g
  <2>7. g = [s \in SubsetsUpTo(bag, n) |-> IF s = {} THEN 0 ELSE w(s) + g[s \ {pick(s)}]]
    BY <2>5, <2>6
  <2>8. MassUpTo(g, n, docs, bag)
    BY <2>7 DEF MassUpTo, w
  <2>9. QED
    BY <2>8
<1> HIDE DEF S
<1>4. \A n \in 0 .. Cardinality(bag) : n \in S
  BY <1>1, <1>2, <1>3, CountedUp
<1>5. QED
  BY <1>4 DEF S

\* The mass of a bag is a number, and 0 for the empty bag only.
LEMMA MassIsPositive ==
  ASSUME NEW docs, Weighable(docs), NEW bag, IsFiniteSet(bag)
  PROVE  mass(docs, bag) \in Nat /\ (mass(docs, bag) = 0 <=> bag = {})
<1> DEFINE pick(s) == CHOOSE x \in s : TRUE
           iter == CHOOSE f : f = [s \in SUBSET bag |->
                      IF s = {} THEN 0 ELSE weight(docs, pick(s).word) + f[s \ {pick(s)}]]
           S == {n \in 0 .. Cardinality(bag) :
                   \A s \in SubsetsUpTo(bag, n) : iter[s] \in Nat /\ (iter[s] = 0 <=> s = {})}
<1>1. mass(docs, bag) = iter[bag]
  BY DEF mass, MapThenSumSet, MapThenFoldSet
<1>2. Cardinality(bag) \in Nat
  BY FS_CardinalityType
<1>3. SubsetsUpTo(bag, Cardinality(bag)) = SUBSET bag
  BY FS_Subset DEF SubsetsUpTo
<1>4. iter = [s \in SUBSET bag |->
                IF s = {} THEN 0 ELSE weight(docs, pick(s).word) + iter[s \ {pick(s)}]]
  <2>1. PICK f : MassUpTo(f, Cardinality(bag), docs, bag)
    BY <1>2, MassesExist
  <2>2. f = [s \in SUBSET bag |->
               IF s = {} THEN 0 ELSE weight(docs, pick(s).word) + f[s \ {pick(s)}]]
    BY <1>3, <2>1 DEF MassUpTo
  <2>3. QED
    BY <2>2
<1> HIDE DEF iter
<1>5. \A s \in SUBSET bag :
        iter[s] = IF s = {} THEN 0 ELSE weight(docs, pick(s).word) + iter[s \ {pick(s)}]
  BY <1>4
<1>6. 0 \in S
  <2>1. \A s \in SubsetsUpTo(bag, 0) : s = {}
    BY NoneOfThem
  <2>2. iter[{}] = 0
    BY <1>5
  <2>3. ASSUME NEW s \in SubsetsUpTo(bag, 0) PROVE iter[s] \in Nat /\ (iter[s] = 0 <=> s = {})
    <3>1. s = {}
      BY <2>1
    <3>2. iter[s] = 0
      BY <2>2, <3>1
    <3>3. QED
      BY <3>1, <3>2
  <2>4. 0 \in 0 .. Cardinality(bag)
    BY <1>2
  <2>5. QED
    BY <2>3, <2>4
<1>7. ASSUME NEW n \in 1 .. Cardinality(bag), n - 1 \in S PROVE n \in S
  <2>1. ASSUME NEW s \in SubsetsUpTo(bag, n), s # {} PROVE iter[s] \in Nat /\ iter[s] > 0
    <3>1. /\ s \ {pick(s)} \in SUBSET bag /\ Cardinality(s) \in Nat /\ s \in SUBSET bag
          /\ Cardinality(s \ {pick(s)}) = Cardinality(s) - 1 /\ Cardinality(s) <= n
      BY <2>1, OneLess DEF SubsetsUpTo
    <3>2. iter[s] = weight(docs, pick(s).word) + iter[s \ {pick(s)}]
      BY <1>5, <2>1, <3>1
    <3>3. weight(docs, pick(s).word) \in Nat /\ weight(docs, pick(s).word) > 0
      BY WeightIsPositive
    <3> HIDE DEF pick
    <3>4. s \ {pick(s)} \in SubsetsUpTo(bag, n - 1)
      BY <1>2, <3>1 DEF SubsetsUpTo
    <3>5. iter[s \ {pick(s)}] \in Nat
      BY <1>7, <3>4
    <3>6. QED
      BY <3>2, <3>3, <3>5
  <2>2. iter[{}] = 0
    BY <1>5
  <2>3. ASSUME NEW s \in SubsetsUpTo(bag, n) PROVE iter[s] \in Nat /\ (iter[s] = 0 <=> s = {})
    <3>1. CASE s = {}
      BY <2>2, <3>1
    <3>2. CASE s # {}
      <4>1. iter[s] \in Nat /\ iter[s] > 0
        BY <2>1, <3>2
      <4>2. QED
        BY <3>2, <4>1
    <3>3. QED
      BY <3>1, <3>2
  <2>4. n \in 0 .. Cardinality(bag)
    BY <1>2
  <2>5. QED
    BY <2>3, <2>4
<1>8. \A n \in 0 .. Cardinality(bag) : n \in S
  <2> HIDE DEF S
  <2>1. QED
    BY <1>2, <1>6, <1>7, CountedUp
<1>9. bag \in SubsetsUpTo(bag, Cardinality(bag)) /\ Cardinality(bag) \in S
  BY <1>2, <1>3, <1>8
<1>10. QED
  BY <1>1, <1>9

-----------------------------------------------------------------------------
\* A polarised unit scores a number, whatever it is matched with.
LEMMA ScoreIsANumber ==
  ASSUME NEW docs, Weighable(docs), NEW plan, IsFiniteSet(Terms(plan)),
         NEW u, u.polarised = TRUE, IsFiniteSet(Terms(u.text))
  PROVE  score(docs, plan, u).score \in Nat
<1> DEFINE planBag == Terms(plan)
           unitBag == Terms(u.text)
           shared == mass(docs, unitBag \cap planBag)
           least == Min({mass(docs, unitBag), mass(docs, planBag)})
           hit == [score |-> (1000 * shared) \div least,
                   phrase |-> IF u.prose THEN sharesPhrase(docs, plan, u) ELSE restates(docs, plan, u),
                   scores |-> ~u.phraseOnly]
<1>1. score(docs, plan, u) = IF shared = 0 THEN NoHit ELSE hit
  <2> DEFINE ub == Bag(u.text, u.polarised)
             pb == IF u.polarised THEN Bag(plan, TRUE) ELSE PositiveBag(plan)
  <2>1. ub = unitBag /\ pb = planBag
    BY DEF Bag
  <2>2. score(docs, plan, u) =
          IF mass(docs, ub \cap pb) = 0 THEN NoHit
          ELSE [score |-> (1000 * mass(docs, ub \cap pb)) \div Min({mass(docs, ub), mass(docs, pb)}),
                phrase |-> IF u.prose THEN sharesPhrase(docs, plan, u) ELSE restates(docs, plan, u),
                scores |-> ~u.phraseOnly]
    BY Zenon DEF score
  <2> HIDE DEF ub, pb
  <2>3. QED
    BY <2>1, <2>2
<1>2. NoHit.score = 0
  BY DEF NoHit
<1>3. CASE shared = 0
  BY <1>1, <1>2, <1>3
<1>4. CASE shared # 0
  <2>1. IsFiniteSet(unitBag \cap planBag)
    BY FS_Subset
  <2>2. shared \in Nat /\ unitBag \cap planBag # {}
    BY <1>4, <2>1, MassIsPositive
  <2>3. /\ mass(docs, unitBag) \in Nat /\ mass(docs, unitBag) # 0
        /\ mass(docs, planBag) \in Nat /\ mass(docs, planBag) # 0
    BY <2>2, MassIsPositive
  <2>4. least \in {mass(docs, unitBag), mass(docs, planBag)}
    BY <2>3, MinIsIn
  <2>5. least \in Nat /\ least > 0
    BY <2>3, <2>4
  <2>6. hit.score = (1000 * shared) \div least
    OBVIOUS
  <2>7. score(docs, plan, u).score = (1000 * shared) \div least
    BY <1>1, <1>4, <2>6
  <2> HIDE DEF shared, least
  <2>8. 1000 * shared \in Nat
    BY <2>2
  <2>9. QED
    BY <2>5, <2>7, <2>8
<1>5. QED
  BY <1>3, <1>4

\* A text matches a polarised unit of that text.
LEMMA MatchesItself ==
  ASSUME NEW docs, Weighable(docs), NEW text, IsFiniteSet(Terms(text)), Terms(text) # {},
         NEW u, u.text = text, u.polarised = TRUE, u.phraseOnly = FALSE
  PROVE  matched(score(docs, text, u))
<1> DEFINE m == mass(docs, Terms(text))
           hit == [score |-> (1000 * m) \div Min({m, m}),
                   phrase |-> IF u.prose THEN sharesPhrase(docs, text, u) ELSE restates(docs, text, u),
                   scores |-> ~u.phraseOnly]
<1>1. m \in Nat /\ m # 0
  BY MassIsPositive
<1>2. score(docs, text, u) = IF m = 0 THEN NoHit ELSE hit
  <2> DEFINE ub == Bag(u.text, u.polarised)
             pb == IF u.polarised THEN Bag(text, TRUE) ELSE PositiveBag(text)
  <2>1. ub = Terms(text) /\ pb = Terms(text) /\ ub \cap pb = Terms(text)
    BY DEF Bag
  <2>2. score(docs, text, u) =
          IF mass(docs, ub \cap pb) = 0 THEN NoHit
          ELSE [score |-> (1000 * mass(docs, ub \cap pb)) \div Min({mass(docs, ub), mass(docs, pb)}),
                phrase |-> IF u.prose THEN sharesPhrase(docs, text, u) ELSE restates(docs, text, u),
                scores |-> ~u.phraseOnly]
    BY Zenon DEF score
  <2> HIDE DEF ub, pb
  <2>3. mass(docs, ub) = m /\ mass(docs, pb) = m /\ mass(docs, ub \cap pb) = m
    BY <2>1
  <2> HIDE DEF m
  <2>4. QED
    BY <2>2, <2>3
<1>3. hit.scores = TRUE /\ hit.score = (1000 * m) \div Min({m, m})
  OBVIOUS
<1>4. Min({m, m}) = m
  BY <1>1, MinIsIn
<1> HIDE DEF m, hit
<1>5. (1000 * m) \div m = 1000
  BY <1>1
<1>6. QED
  BY <1>1, <1>2, <1>3, <1>4, <1>5 DEF matched, matchThreshold

\* The greatest of finitely many numbers.
LEMMA GreatestExists ==
  ASSUME NEW T \in SUBSET Nat, IsFiniteSet(T), T # {}
  PROVE  \E m \in T : \A x \in T : x <= m
<1> DEFINE Topped(s) == s # {} => \E m \in s : \A x \in s : x <= m
           S == {n \in 0 .. Cardinality(T) : \A s \in SubsetsUpTo(T, n) : Topped(s)}
<1>1. Cardinality(T) \in Nat
  BY FS_CardinalityType
<1>2. 0 \in S
  BY <1>1, NoneOfThem
<1>3. ASSUME NEW n \in 1 .. Cardinality(T), n - 1 \in S PROVE n \in S
  <2>1. ASSUME NEW s \in SubsetsUpTo(T, n), s # {} PROVE \E m \in s : \A x \in s : x <= m
    <3> DEFINE y == CHOOSE x \in s : TRUE
               rest == s \ {y}
    <3>1. /\ rest \in SUBSET T /\ Cardinality(s) \in Nat /\ s \in SUBSET T
          /\ Cardinality(rest) = Cardinality(s) - 1 /\ Cardinality(s) <= n
      BY <2>1, OneLess DEF SubsetsUpTo
    <3>2. y \in s /\ y \in Nat
      BY <2>1, <3>1
    <3>3. s = rest \cup {y}
      BY <3>2
    <3> HIDE DEF y, rest
    <3>4. rest \in SubsetsUpTo(T, n - 1)
      BY <1>1, <3>1 DEF SubsetsUpTo
    <3>5. Topped(rest)
      BY <1>3, <3>4
    <3>6. CASE rest = {}
      BY <3>2, <3>3, <3>6
    <3>7. CASE rest # {}
      <4>1. PICK m \in rest : \A x \in rest : x <= m
        BY <3>5, <3>7
      <4>2. rest \subseteq Nat
        BY <3>1
      <4>3. CASE y <= m
        BY <3>3, <4>1, <4>3
      <4>4. CASE ~(y <= m)
        <5>1. \A x \in rest : x <= y
          BY <3>2, <4>1, <4>2, <4>4
        <5>2. QED
          BY <3>2, <3>3, <5>1
      <4>5. QED
        BY <4>3, <4>4
    <3>8. QED
      BY <3>6, <3>7
  <2>2. n \in 0 .. Cardinality(T)
    BY <1>1
  <2>3. QED
    BY <2>1, <2>2
<1>4. \A n \in 0 .. Cardinality(T) : n \in S
  <2> HIDE DEF S
  <2>1. QED
    BY <1>1, <1>2, <1>3, CountedUp
<1>5. T \in SubsetsUpTo(T, Cardinality(T)) /\ Cardinality(T) \in S
  BY <1>1, <1>4 DEF SubsetsUpTo
<1>6. QED
  BY <1>5

\* Where a plan matches one unit of an entry, the entry has a best hit.
LEMMA SomeBest ==
  ASSUME NEW docs, NEW plan, NEW units, NEW ref, IsFiniteSet(Citing(units, ref)),
         \A u \in Citing(units, ref) : u.nth \in Nat /\ score(docs, plan, u).score \in Nat,
         NEW v \in Citing(units, ref), matched(score(docs, plan, v))
  PROVE  \E c \in BestHits(docs, plan, units) : c.cites.entry = ref
<1> DEFINE Scored(u) == [unit |-> u, hit |-> score(docs, plan, u)]
           hits == {h \in {Scored(u) : u \in units} : matched(h.hit)}
           Beats(g, h) == \/ g.hit.score > h.hit.score
                          \/ g.hit.score = h.hit.score /\ g.unit.nth < h.unit.nth
           Hit(h) == [cites |-> h.unit.cites, score |-> h.hit.score]
           own == {u \in Citing(units, ref) : matched(score(docs, plan, u))}
           scores == {score(docs, plan, u).score : u \in own}
<1>1. BestHits(docs, plan, units) =
        {Hit(h) : h \in {h \in hits : \A g \in hits : g.unit.cites.entry = h.unit.cites.entry => ~Beats(g, h)}}
  BY DEF BestHits
<1>2. \A u \in own : u \in units /\ u.cites.entry = ref /\ u.nth \in Nat /\ score(docs, plan, u).score \in Nat
  BY DEF Citing
<1>3. PICK top \in scores : \A x \in scores : x <= top
  <2>1. IsFiniteSet(own)
    BY FS_Subset
  <2>2. IsFiniteSet(scores)
    <3> DEFINE f == [u \in own |-> score(docs, plan, u).score]
    <3>1. {f[u] : u \in own} = scores
      OBVIOUS
    <3> HIDE DEF f
    <3>2. QED
      BY <2>1, <3>1, FiniteImage
  <2>3. scores \in SUBSET Nat /\ scores # {}
    BY <1>2
  <2> HIDE DEF scores
  <2>4. QED
    BY <2>2, <2>3, GreatestExists
<1>4. PICK u \in own : /\ score(docs, plan, u).score = top
                       /\ \A w \in own : score(docs, plan, w).score = top => u.nth <= w.nth
  <2> DEFINE places == {w.nth : w \in {x \in own : score(docs, plan, x).score = top}}
  <2>1. places \in SUBSET Nat /\ places # {}
    BY <1>2, <1>3
  <2>2. PICK least \in places : \A y \in places : least <= y
    <3> HIDE DEF places
    <3>1. QED
      BY <2>1, MinIsIn
  <2>3. QED
    BY <2>2
<1>5. Scored(u) \in hits /\ Scored(u).unit = u /\ Scored(u).hit = score(docs, plan, u)
  BY <1>2
<1>6. \A g \in hits : /\ g.unit \in units /\ g.hit = score(docs, plan, g.unit)
                      /\ matched(score(docs, plan, g.unit))
  OBVIOUS
<1>7. ASSUME NEW g \in hits, g.unit.cites.entry = Scored(u).unit.cites.entry PROVE ~Beats(g, Scored(u))
  <2>1. g.unit \in own /\ g.hit = score(docs, plan, g.unit)
    BY <1>2, <1>5, <1>6, <1>7 DEF Citing
  <2>2. g.hit.score <= top /\ g.hit.score \in Nat /\ top \in Nat
    BY <1>2, <1>3, <2>1
  <2>3. g.hit.score = top => u.nth <= g.unit.nth /\ u.nth \in Nat /\ g.unit.nth \in Nat
    BY <1>2, <1>4, <2>1
  <2>4. Scored(u).hit.score = top /\ Scored(u).unit = u
    BY <1>4, <1>5
  <2> HIDE DEF Scored, hits, own
  <2>5. QED
    BY <2>2, <2>3, <2>4
<1>8. Hit(Scored(u)) \in BestHits(docs, plan, units)
  <2> HIDE DEF Hit, Beats, hits, Scored
  <2>1. QED
    BY <1>1, <1>5, <1>7
<1>9. Hit(Scored(u)).cites.entry = ref
  BY <1>2
<1>10. QED
  BY <1>8, <1>9

-----------------------------------------------------------------------------
\* The matcher has a document for each entry and each inherited constraint, and
\* a logarithm for as many.
LEMMA ThereAreLogarithms ==
  ASSUME NEW L, IsALedger(L), NEW homes PROVE Weighable(adopt(newMatcher(L), homes).docs)
<1> DEFINE ours == {documentText(L[i], Local(i)) : i \in Held(L)}
           The(ref) == homes[ref.space].entries[ref.id]
           theirs == {documentText(The(ref), ref) : ref \in Contributed(homes)}
<1>1. adopt(newMatcher(L), homes).docs = ours \cup theirs
  BY DEF adopt, newMatcher, Inherit
<1>2. IsFiniteSet(ours) /\ Cardinality(ours) <= Cardinality(Ids)
  <2> DEFINE f == [i \in Held(L) |-> documentText(L[i], Local(i))]
  <2>1. Held(L) \in SUBSET Ids
    BY DEF Held, IsALedger
  <2>2. IsFiniteSet(Held(L)) /\ Cardinality(Held(L)) <= Cardinality(Ids)
    BY <2>1, FS_Subset, EnforcementAssumption
  <2>3. ours = {f[i] : i \in Held(L)}
    OBVIOUS
  <2> HIDE DEF f, ours
  <2>4. IsFiniteSet(ours) /\ Cardinality(ours) <= Cardinality(Held(L))
    BY <2>2, <2>3, FiniteImage
  <2>5. Cardinality(ours) \in Nat /\ Cardinality(Held(L)) \in Nat /\ Cardinality(Ids) \in Nat
    BY <2>2, <2>4, FS_CardinalityType, EnforcementAssumption
  <2>6. QED
    BY <2>2, <2>4, <2>5
<1>3. IsFiniteSet(theirs) /\ Cardinality(theirs) <= Cardinality(Namespaces) * Cardinality(Ids)
  <2> DEFINE f == [ref \in Contributed(homes) |-> documentText(The(ref), ref)]
             pair == [p \in Namespaces \X Ids |-> [space |-> p[1], id |-> p[2]]]
  <2>1. /\ IsFiniteSet(Namespaces \X Ids)
        /\ Cardinality(Namespaces \X Ids) = Cardinality(Namespaces) * Cardinality(Ids)
    BY FS_Product, EnforcementAssumption
  <2>2. Contributed(homes) \subseteq {pair[p] : p \in Namespaces \X Ids}
    <3> SUFFICES ASSUME NEW ref \in Contributed(homes)
                 PROVE  ref \in {pair[p] : p \in Namespaces \X Ids}
      OBVIOUS
    <3>1. PICK n \in Namespaces, i \in Ids : ref = [space |-> n, id |-> i]
      BY DEF Contributed, Inherited
    <3>2. <<n, i>> \in Namespaces \X Ids /\ pair[<<n, i>>] = [space |-> n, id |-> i]
      OBVIOUS
    <3> HIDE DEF pair
    <3>3. QED
      BY <3>1, <3>2
  <2>3. theirs = {f[ref] : ref \in Contributed(homes)}
    OBVIOUS
  <2> HIDE DEF f, theirs, pair
  <2>4. /\ IsFiniteSet({pair[p] : p \in Namespaces \X Ids})
        /\ Cardinality({pair[p] : p \in Namespaces \X Ids}) <= Cardinality(Namespaces \X Ids)
    BY <2>1, FiniteImage
  <2>5. IsFiniteSet(Contributed(homes))
        /\ Cardinality(Contributed(homes)) <= Cardinality({pair[p] : p \in Namespaces \X Ids})
    BY <2>2, <2>4, FS_Subset
  <2>6. IsFiniteSet(theirs) /\ Cardinality(theirs) <= Cardinality(Contributed(homes))
    BY <2>3, <2>5, FiniteImage
  <2>7. /\ Cardinality(theirs) \in Nat /\ Cardinality(Contributed(homes)) \in Nat
        /\ Cardinality({pair[p] : p \in Namespaces \X Ids}) \in Nat
        /\ Cardinality(Namespaces \X Ids) \in Nat
    BY <2>1, <2>4, <2>5, <2>6, FS_CardinalityType
  <2>8. Cardinality(theirs) <= Cardinality(Namespaces \X Ids)
    BY <2>4, <2>5, <2>6, <2>7
  <2>9. QED
    BY <2>1, <2>6, <2>8
<1> HIDE DEF ours, theirs
<1>4. /\ IsFiniteSet(ours \cup theirs)
      /\ Cardinality(ours \cup theirs) = Cardinality(ours) + Cardinality(theirs) - Cardinality(ours \cap theirs)
  BY <1>2, <1>3, FS_Union
<1>5. IsFiniteSet(ours \cap theirs)
  BY <1>2, FS_Intersection
<1>6. /\ Cardinality(ours) \in Nat /\ Cardinality(theirs) \in Nat /\ Cardinality(ours \cap theirs) \in Nat
      /\ Cardinality(Ids) \in Nat /\ Cardinality(Namespaces) \in Nat
  BY <1>2, <1>3, <1>5, FS_CardinalityType, EnforcementAssumption
<1>7. Cardinality(ours \cup theirs) <= Cardinality(Ids) + Cardinality(Namespaces) * Cardinality(Ids)
  <2> DEFINE product == Cardinality(Namespaces) * Cardinality(Ids)
  <2>1. product \in Nat
    BY <1>6
  <2> HIDE DEF product
  <2>2. Cardinality(theirs) <= product
    BY <1>3 DEF product
  <2>3. Cardinality(ours \cup theirs) <= Cardinality(Ids) + product
    BY <1>2, <1>4, <1>6, <2>1, <2>2
  <2>4. QED
    BY <2>3 DEF product
<1>8. Cardinality(ours \cup theirs) + 1 <= Len(Ln)
  <2> DEFINE product == Cardinality(Namespaces) * Cardinality(Ids)
             both == Cardinality(ours \cup theirs)
  <2>1. product \in Nat /\ both \in Nat /\ Len(Ln) \in Nat
    BY <1>4, <1>6, FS_CardinalityType, LnAssumption
  <2>2. both <= Cardinality(Ids) + product /\ Cardinality(Ids) + product < Len(Ln)
    BY <1>7, EnforcementAssumption
  <2> HIDE DEF product, both
  <2>3. both + 1 <= Len(Ln)
    BY <1>6, <2>1, <2>2
  <2>4. QED
    BY <2>3 DEF both
<1>9. QED
  BY <1>1, <1>4, <1>8 DEF Weighable

\* The texts of an entry are those it was drafted with.
LEMMA TextsAreRaw ==
  ASSUME NEW L, IsALedger(L), NEW i \in Held(L)
  PROVE  /\ L[i].title \in RawText /\ L[i].tags \in RawText
         /\ DOMAIN L[i].alts = 1 .. Len(L[i].alts) /\ Len(L[i].alts) \in Nat
         /\ \A k \in DOMAIN L[i].alts :
               L[i].alts[k].option \in RawText /\ L[i].alts[k].why \in RawText
<1>1. i \in Ids /\ L[i] \in Written(i)
  BY DEF IsALedger, Held
<1>2. PICK d \in Drafts[i] : /\ L[i].title = d.title /\ L[i].tags = d.tags
                         /\ L[i].alts = d.alts
  BY <1>1 DEF Written
<1>3. d.title \in RawText /\ d.tags \in RawText /\ d.alts \in Seq([option : RawText, why : RawText])
  BY <1>1, EnforcementAssumption
<1>4. DOMAIN d.alts = 1 .. Len(d.alts) /\ Len(d.alts) \in Nat
  BY <1>3
<1>5. \A k \in DOMAIN d.alts : d.alts[k] \in [option : RawText, why : RawText]
  <2> DEFINE R == [option : RawText, why : RawText]
             alts == d.alts
  <2>1. alts \in Seq(R)
    BY <1>3
  <2> HIDE DEF R, alts
  <2>2. \A k \in 1 .. Len(alts) : alts[k] \in R
    BY <2>1
  <2>3. QED
    BY <1>4, <2>2 DEF R, alts
<1>6. QED
  BY <1>2, <1>3, <1>4, <1>5

\* What a decision that is in force, or was turned down, is enforced by: its
\* alternatives, and its title where it was turned down.
LEMMA OwnUnits ==
  ASSUME NEW L, IsALedger(L), NEW homes, NEW i \in Held(L), L[i].kind = "decision",
         L[i].state \in {"accepted", "rejected"}
  PROVE  LET own == Citing(adopt(newMatcher(L), homes).units, Local(i))
         IN  /\ alternativeUnits(L[i], Local(i)) \subseteq own
             /\ IsFiniteSet(own)
             /\ \A u \in own : u.nth \in Nat /\ u.polarised = TRUE /\ IsFiniteSet(Terms(u.text))
<1> DEFINE own == Citing(adopt(newMatcher(L), homes).units, Local(i))
           e == L[i]
           alternatives == alternativeUnits(e, Local(i))
           title == [text |-> Parse(e.title), polarised |-> TRUE, phraseOnly |-> FALSE, prose |-> FALSE,
                     nth |-> 0, cites |-> Cite(Local(i), "decision", e.private)]
<1>1. e.title \in RawText
  BY TextsAreRaw
<1>2. alternatives \subseteq unitsFor(e, Local(i)) /\ unitsFor(e, Local(i)) \subseteq alternatives \cup {title}
  BY DEF unitsFor
<1>3. own = unitsFor(e, Local(i))
  <2>1. adopt(newMatcher(L), homes).units = enforcementSet(L) \cup Inherit(homes).units
    BY DEF adopt, newMatcher
  <2>2. ASSUME NEW u \in Inherit(homes).units PROVE u.cites.entry # Local(i)
    <3>1. PICK ref \in Contributed(homes) : u.cites.entry = ref
      BY InheritedCite
    <3>2. ref.space # ""
      BY <3>1, InheritedElsewhere DEF Contributed
    <3>3. QED
      BY <3>1, <3>2, LocalIsOwn
  <2>3. ASSUME NEW k \in Held(L), NEW u \in unitsFor(L[k], Local(k)), u.cites.entry = Local(i)
        PROVE  k = i
    BY <2>3, UnitsCite, LocalTellsApart
  <2>4. \A u \in unitsFor(e, Local(i)) : u.cites.entry = Local(i) /\ u \in enforcementSet(L)
    BY UnitsCite DEF enforcementSet
  <2>5. ASSUME NEW u \in enforcementSet(L), u.cites.entry = Local(i) PROVE u \in unitsFor(e, Local(i))
    <3>1. PICK k \in Held(L) : u \in unitsFor(L[k], Local(k))
      BY DEF enforcementSet
    <3>2. QED
      BY <2>3, <2>5, <3>1
  <2>6. QED
    BY <2>1, <2>2, <2>4, <2>5 DEF Citing
<1> DEFINE Unit(text, quoted, nth) ==
             [text |-> Parse(text), polarised |-> TRUE, phraseOnly |-> quoted, prose |-> quoted,
              nth |-> nth, cites |-> Cite(Local(i), "alternative", e.private)]
           options == {Unit(e.alts[k].option, FALSE, 2 * k) : k \in DOMAIN e.alts}
           whys == {Unit(e.alts[k].why, TRUE, 2 * k + 1) : k \in DOMAIN e.alts}
<1>4. alternatives \subseteq options \cup whys
  BY DEF alternativeUnits, NonEmpty
<1>5. DOMAIN e.alts = 1 .. Len(e.alts) /\ Len(e.alts) \in Nat /\ IsFiniteSet(DOMAIN e.alts)
  <2>1. DOMAIN e.alts = 1 .. Len(e.alts) /\ Len(e.alts) \in Nat
    BY TextsAreRaw
  <2>2. \A n \in Nat : IsFiniteSet(1 .. n)
    BY FS_Interval
  <2>3. QED
    BY <2>1, <2>2
<1>6. \A k \in DOMAIN e.alts : e.alts[k].option \in RawText /\ e.alts[k].why \in RawText /\ k \in Nat
  BY <1>5, TextsAreRaw
<1>7. IsFiniteSet(options) /\ IsFiniteSet(whys)
  <2> DEFINE f == [k \in DOMAIN e.alts |-> Unit(e.alts[k].option, FALSE, 2 * k)]
             g == [k \in DOMAIN e.alts |-> Unit(e.alts[k].why, TRUE, 2 * k + 1)]
  <2>1. options = {f[k] : k \in DOMAIN e.alts} /\ whys = {g[k] : k \in DOMAIN e.alts}
    OBVIOUS
  <2> HIDE DEF f, g, options, whys
  <2>2. QED
    BY <1>5, <2>1, FiniteImage
<1>8. IsFiniteSet(own)
  <2> HIDE DEF options, whys, own, title
  <2>1. IsFiniteSet(options \cup whys)
    BY <1>7, FS_Union
  <2>2. IsFiniteSet({title})
    BY FS_Singleton
  <2>3. IsFiniteSet((options \cup whys) \cup {title})
    BY <2>1, <2>2, FS_Union
  <2>4. own \subseteq (options \cup whys) \cup {title}
    BY <1>2, <1>3, <1>4
  <2>5. QED
    BY <2>3, <2>4, FS_Subset
<1>9. ASSUME NEW u \in own PROVE u.nth \in Nat /\ u.polarised = TRUE /\ IsFiniteSet(Terms(u.text))
  <2>1. u = title \/ u \in options \/ u \in whys
    BY <1>2, <1>3, <1>4
  <2>2. CASE u = title
    <3>1. u.nth = 0 /\ u.polarised = TRUE /\ u.text = Parse(e.title)
      BY <2>2
    <3>2. QED
      BY <1>1, <3>1, ParsedTerms
  <2>3. CASE u \in options
    <3>1. PICK k \in DOMAIN e.alts : u = Unit(e.alts[k].option, FALSE, 2 * k)
      BY <2>3
    <3>2. u.nth = 2 * k /\ u.polarised = TRUE /\ u.text = Parse(e.alts[k].option)
      BY <3>1
    <3>3. QED
      BY <1>6, <3>2, ParsedTerms
  <2>4. CASE u \in whys
    <3>1. PICK k \in DOMAIN e.alts : u = Unit(e.alts[k].why, TRUE, 2 * k + 1)
      BY <2>4
    <3>2. u.nth = 2 * k + 1 /\ u.polarised = TRUE /\ u.text = Parse(e.alts[k].why)
      BY <3>1
    <3>3. QED
      BY <1>6, <3>2, ParsedTerms
  <2>5. QED
    BY <2>1, <2>2, <2>3, <2>4
<1>10. alternatives \subseteq own
  BY <1>2, <1>3
<1>11. QED
  BY <1>8, <1>9, <1>10

\* Proposing again, in its own words, an option that an accepted or a rejected
\* decision turned down is refused with that decision cited, whatever else the
\* ledger and its parents hold and however common its words have become
\* (internal/enforcer/match.go: score; enforcer.go: check).
THEOREM RestatedOptionsAreRefused == Spec => []RestatedIsRefused
<1>1. CheckInv => RestatedIsRefused
  <2> SUFFICES ASSUME CheckInv, NEW i \in Held(entries), NEW k \in DOMAIN entries[i].alts,
                      entries[i].kind = "decision", entries[i].state \in {"accepted", "rejected"},
                      ~Empty(Parse(entries[i].alts[k].option))
               PROVE  Local(i) \in Cited(CheckInherited(entries, parents, entries[i].alts[k].option))
    BY DEF RestatedIsRefused
  <2> DEFINE m == adopt(newMatcher(entries), parents)
             raw == entries[i].alts[k].option
             plan == Parse(raw)
             v == [text |-> plan, polarised |-> TRUE, phraseOnly |-> FALSE, prose |-> FALSE,
                   nth |-> 2 * k, cites |-> Cite(Local(i), "alternative", entries[i].private)]
  <2>1. raw \in RawText
    BY TextsAreRaw DEF CheckInv
  <2>2. IsFiniteSet(Terms(plan)) /\ Terms(plan) # {}
    BY <2>1, ParsedTerms
  <2>3. Weighable(m.docs)
    BY ThereAreLogarithms DEF CheckInv
  <2>4. v \in alternativeUnits(entries[i], Local(i))
    BY DEF alternativeUnits, NonEmpty
  <2>5. v.text = plan /\ v.polarised = TRUE /\ v.phraseOnly = FALSE
    OBVIOUS
  <2> HIDE DEF m, plan, v
  <2>6. matched(score(m.docs, plan, v))
    BY <2>2, <2>3, <2>5, MatchesItself
  <2>7. /\ v \in Citing(m.units, Local(i)) /\ IsFiniteSet(Citing(m.units, Local(i)))
        /\ \A u \in Citing(m.units, Local(i)) :
              u.nth \in Nat /\ u.polarised = TRUE /\ IsFiniteSet(Terms(u.text))
    BY <2>4, OwnUnits DEF m, CheckInv
  <2>8. \A u \in Citing(m.units, Local(i)) : score(m.docs, plan, u).score \in Nat
    BY <2>2, <2>3, <2>7, ScoreIsANumber
  <2>9. PICK c \in BestHits(m.docs, plan, m.units) : c.cites.entry = Local(i)
    BY <2>6, <2>7, <2>8, SomeBest
  <2>10. CheckInherited(entries, parents, raw).conflicts = BestHits(m.docs, plan, m.units)
    BY DEF CheckInherited, verdict, m, plan
  <2>11. QED
    BY <2>9, <2>10 DEF Cited
<1>2. QED
  BY <1>1, CheckInvariance, PTL
-----------------------------------------------------------------------------
(***************************************************************************)
(* What a notice says.                                                     *)
(***************************************************************************)
LEMMA JoinedIsRaw ==
  ASSUME NEW r1 \in RawText, NEW r2 \in RawText
  PROVE  Joined(r1, r2) \in RawText
<1>1. CASE r1 = <<>>
  <2>1. Joined(r1, r2) = r2 \/ Joined(r1, r2) = r1
    BY <1>1 DEF Joined
  <2>2. QED
    BY <2>1
<1>2. CASE r2 = <<>>
  <2>1. Joined(r1, r2) = r2 \/ Joined(r1, r2) = r1
    BY <1>2 DEF Joined
  <2>2. QED
    BY <2>1
<1>3. CASE r1 # <<>> /\ r2 # <<>>
  <2> DEFINE C == Seq(STRING)
  <2>1. Joined(r1, r2) = Front(r1) \o <<Last(r1) \o Head(r2)>> \o Tail(r2)
    BY <1>3 DEF Joined
  <2>2. r1 \in Seq(C) /\ r2 \in Seq(C)
    BY DEF RawText
  <2>3. Last(r1) \in C /\ Front(r1) \in Seq(C)
    <3> HIDE DEF C
    <3>1. Len(r1) \in Nat /\ Len(r1) > 0
      BY <1>3, <2>2
    <3>2. r1[Len(r1)] \in C /\ SubSeq(r1, 1, Len(r1) - 1) \in Seq(C)
      BY <2>2, <3>1
    <3>3. QED
      BY <3>2 DEF Last, Front
  <2>4. Head(r2) \in C /\ Tail(r2) \in Seq(C)
    <3> HIDE DEF C
    <3>1. QED
      BY <1>3, <2>2
  <2>5. Last(r1) \o Head(r2) \in C
    BY <2>3, <2>4
  <2> HIDE DEF C
  <2>6. Front(r1) \o <<Last(r1) \o Head(r2)>> \o Tail(r2) \in Seq(C)
    BY <2>3, <2>4, <2>5
  <2>7. QED
    BY <2>1, <2>6 DEF RawText, C
<1>4. QED
  BY <1>1, <1>2, <1>3

\* The replacement that is named is one that says it replaces the entry, and
\* nobody is named where none does.
LEMMA WhoReplaces ==
  ASSUME NEW L, IsALedger(L), NEW i
  PROVE  LET by == superseders(L, i)
             claims == {j \in Held(L) : i \in L[j].supersedes}
         IN  /\ claims = {} => by.id = 0
             /\ claims # {} => /\ by.id \in claims /\ by.id # 0
                               /\ by.enforced = (unitsFor(L[by.id], Local(by.id)) # {})
<1> DEFINE by == superseders(L, i)
           claims == {j \in Held(L) : i \in L[j].supersedes}
<1>1. by = IF claims = {} THEN Nobody
           ELSE [id |-> Min(claims),
                 enforced |-> unitsFor(L[Min(claims)], Local(Min(claims))) # {}]
  BY DEF superseders
<1>2. Nobody.id = 0
  BY DEF Nobody
<1>3. claims \in SUBSET Nat /\ 0 \notin claims
  BY EnforcementAssumption DEF Held, IsALedger
<1> HIDE DEF by, claims
<1>4. ASSUME claims # {}
      PROVE  by.id \in claims /\ by.id # 0 /\ by.enforced = (unitsFor(L[by.id], Local(by.id)) # {})
  <2>1. Min(claims) \in claims
    BY <1>3, <1>4, MinIsIn
  <2>2. by = [id |-> Min(claims), enforced |-> unitsFor(L[Min(claims)], Local(Min(claims))) # {}]
    BY <1>1, <1>4
  <2>3. by.id = Min(claims) /\ by.enforced = (unitsFor(L[Min(claims)], Local(Min(claims))) # {})
    BY <2>2
  <2>4. QED
    BY <1>3, <2>1, <2>3
<1>5. QED
  BY <1>1, <1>2, <1>4 DEF by, claims

\* An entry that is not enforced refuses nothing.
LEMMA NotEnforced ==
  ASSUME NEW L, IsALedger(L), NEW homes, NEW j \in Held(L), unitsFor(L[j], Local(j)) = {}, NEW raw
  PROVE  Local(j) \notin Cited(CheckInherited(L, homes, raw))
<1> DEFINE m == adopt(newMatcher(L), homes)
<1> SUFFICES ASSUME NEW c \in BestHits(m.docs, Parse(raw), m.units), c.cites.entry = Local(j) PROVE FALSE
  BY DEF Cited, CheckInherited, verdict
<1>1. PICK u \in m.units : u.cites = c.cites
  BY HitsCite
<1>2. u \in enforcementSet(L) \/ u \in Inherit(homes).units
  BY DEF adopt, newMatcher
<1>3. CASE u \in Inherit(homes).units
  <2>1. PICK ref \in Contributed(homes) : u.cites.entry = ref
    BY <1>3, InheritedCite
  <2>2. ref.space # ""
    BY <2>1, InheritedElsewhere DEF Contributed
  <2>3. QED
    BY <1>1, <2>1, <2>2, LocalIsOwn
<1>4. CASE u \in enforcementSet(L)
  <2>1. PICK k \in Held(L) : u \in unitsFor(L[k], Local(k))
    BY <1>4 DEF enforcementSet
  <2>2. u.cites.entry = Local(k)
    BY <2>1, UnitsCite
  <2>3. k = j
    BY <1>1, <2>2, LocalTellsApart
  <2>4. QED
    BY <2>1, <2>3
<1>5. QED
  BY <1>2, <1>3, <1>4

\* An entry that is enforced, and whose texts all have a term, has one that is
\* refused.
LEMMA Enforced ==
  ASSUME NEW L, IsALedger(L), NEW j \in Held(L), unitsFor(L[j], Local(j)) # {},
         \A raw \in Texts(L[j]) : ~Empty(Parse(raw)), NEW docs, Weighable(docs)
  PROVE  \E u \in unitsFor(L[j], Local(j)) :
            matched(score(docs, u.text, [u EXCEPT !.polarised = TRUE]))
<1> DEFINE e == L[j]
<1>1. ASSUME NEW raw \in Texts(e) PROVE IsFiniteSet(Terms(Parse(raw))) /\ Terms(Parse(raw)) # {}
  <2>1. e.title \in RawText /\ e.tags \in RawText /\ \A k \in DOMAIN e.alts : e.alts[k].option \in RawText
    BY TextsAreRaw
  <2>2. raw \in RawText
    BY <2>1, JoinedIsRaw DEF Texts
  <2>3. QED
    BY <2>2, ParsedTerms
<1>2. ASSUME NEW u \in unitsFor(e, Local(j)), NEW raw \in Texts(e), u.text = Parse(raw), u.phraseOnly = FALSE,
             [u EXCEPT !.polarised = TRUE].text = u.text,
             [u EXCEPT !.polarised = TRUE].polarised = TRUE,
             [u EXCEPT !.polarised = TRUE].phraseOnly = u.phraseOnly
      PROVE  matched(score(docs, u.text, [u EXCEPT !.polarised = TRUE]))
  BY <1>1, <1>2, MatchesItself
<1>3. \/ e.kind = "decision" /\ e.state = "accepted"
      \/ e.kind = "decision" /\ e.state = "rejected"
      \/ e.kind = "constraint" /\ e.state = "active"
  BY DEF unitsFor
<1>4. CASE e.kind = "decision" /\ e.state = "accepted"
  <2>1. unitsFor(e, Local(j)) = alternativeUnits(e, Local(j))
    BY <1>4 DEF unitsFor
  <2>2. PICK k \in DOMAIN e.alts : TRUE
    BY <2>1 DEF alternativeUnits, NonEmpty
  <2> DEFINE u == [text |-> Parse(e.alts[k].option), polarised |-> TRUE, phraseOnly |-> FALSE, prose |-> FALSE,
                   nth |-> 2 * k, cites |-> Cite(Local(j), "alternative", e.private)]
  <2>3. e.alts[k].option \in Texts(e)
    BY DEF Texts
  <2>4. u \in unitsFor(e, Local(j))
    BY <2>1, <2>3 DEF alternativeUnits, NonEmpty
  <2>5. QED
    BY <1>2, <2>3, <2>4
<1>5. CASE e.kind = "decision" /\ e.state = "rejected"
  <2> DEFINE u == [text |-> Parse(e.title), polarised |-> TRUE, phraseOnly |-> FALSE, prose |-> FALSE,
                   nth |-> 0, cites |-> Cite(Local(j), "decision", e.private)]
  <2>1. u \in unitsFor(e, Local(j)) /\ e.title \in Texts(e)
    BY <1>5 DEF unitsFor, Texts
  <2>2. QED
    BY <1>2, <2>1
<1>6. CASE e.kind = "constraint" /\ e.state = "active"
  <2> DEFINE u == [text |-> Parse(Joined(e.title, e.tags)), polarised |-> FALSE, phraseOnly |-> FALSE, prose |-> TRUE,
                   nth |-> 0, cites |-> Cite(Local(j), "constraint", e.private)]
  <2>1. u \in unitsFor(e, Local(j)) /\ Joined(e.title, e.tags) \in Texts(e)
    BY <1>6 DEF unitsFor, constraintUnits, Texts
  <2>2. QED
    BY <1>2, <2>1
<1>7. QED
  BY <1>3, <1>4, <1>5, <1>6

\* What a notice says of the replacement is so, although the files were read one
\* by one while others wrote: the one it names is on record, and it names one
\* where the edge was on record when the check began; of a replacement that was
\* not written to since it was read, where enforcement is promised, a text of it
\* is refused with a citation, unless one of its texts is stop words only, and
\* where it is denied, no plan is refused for its sake (cmd/dira/check.go:
\* Entries; internal/enforcer/target.go: superseders; render.go: noticeLine).
THEOREM NoticesHold == Spec => []NoticesAreTrue
<1>1. CheckInv => NoticesAreTrue
  <2> SUFFICES ASSUME CheckInv, Ran, NEW n \in last.verdict.notices
               PROVE  LET by == n.supersededBy
                          unwritten == by # 0 /\ entries[by] = last.seen[by]
                      IN  /\ by # 0 => by \in Held(entries) /\ n.entry \in entries[by].supersedes
                          /\ by = 0 => \A j \in Held(last.was) : n.entry \notin last.was[j].supersedes
                          /\ unwritten /\ n.enforced /\ (\A raw \in Texts(entries[by]) : ~Empty(Parse(raw))) =>
                                \E u \in enforcementSet(entries) :
                                    /\ u.cites.entry = Local(by)
                                    /\ matched(score(adopt(newMatcher(entries), parents).docs, u.text,
                                                     [u EXCEPT !.polarised = TRUE]))
                          /\ unwritten /\ ~n.enforced =>
                                \A raw \in Plans : Local(by) \notin Cited(CheckInherited(entries, parents, raw))
    BY DEF NoticesAreTrue
  <2> DEFINE L == last.seen
             by == superseders(L, n.entry)
             claims == {j \in Held(L) : n.entry \in L[j].supersedes}
             m == adopt(newMatcher(L), last.homes)
             docs == adopt(newMatcher(entries), parents).docs
             units == unitsFor(entries[by.id], Local(by.id))
  <2>1. n.supersededBy = by.id /\ n.enforced = by.enforced
    <3>1. n \in notice(L, m, Parse(last.plan))
      BY DEF CheckInv, Judged, CheckInherited, verdict
    <3>2. PICK c \in BestHits(m.docs, Parse(last.plan), m.retired) :
             n = [supersededBy |-> superseders(L, c.cites.entry.id).id,
                  enforced |-> superseders(L, c.cites.entry.id).enforced,
                  basis |-> c.cites.basis, entry |-> c.cites.entry.id]
      BY <3>1 DEF notice
    <3>3. n.entry = c.cites.entry.id
      BY <3>2
    <3>4. QED
      BY <3>2, <3>3
  <2>2. /\ claims = {} => by.id = 0
        /\ claims # {} => /\ by.id \in claims /\ by.id # 0
                          /\ by.enforced = (unitsFor(L[by.id], Local(by.id)) # {})
    BY WhoReplaces DEF CheckInv, Judged
  <2>3. ASSUME by.id # 0
        PROVE  by.id \in Held(entries) /\ n.entry \in L[by.id].supersedes /\ n.entry \in entries[by.id].supersedes
    BY <2>2, <2>3 DEF CheckInv, Judged, Outlives
  <2>4. ASSUME by.id = 0, NEW j \in Held(last.was) PROVE n.entry \notin last.was[j].supersedes
    BY <2>2, <2>4 DEF CheckInv, Judged, Outlives
  <2>5. ASSUME by.id # 0, entries[by.id] = L[by.id] PROVE n.enforced <=> units # {}
    BY <2>1, <2>2, <2>5
  <2> HIDE DEF L, by, claims, m
  <2>6. ASSUME by.id # 0, units # {}, \A raw \in Texts(entries[by.id]) : ~Empty(Parse(raw))
        PROVE  \E u \in enforcementSet(entries) :
                  /\ u.cites.entry = Local(by.id)
                  /\ matched(score(docs, u.text, [u EXCEPT !.polarised = TRUE]))
    <3>1. Weighable(docs)
      BY ThereAreLogarithms DEF CheckInv
    <3> HIDE DEF docs
    <3>2. PICK u \in units : matched(score(docs, u.text, [u EXCEPT !.polarised = TRUE]))
      BY <2>3, <2>6, <3>1, Enforced DEF CheckInv
    <3>3. u \in enforcementSet(entries) /\ u.cites.entry = Local(by.id)
      BY <2>3, <2>6, <3>2, UnitsCite DEF enforcementSet
    <3>4. QED
      BY <3>2, <3>3
  <2>7. ASSUME by.id # 0, units = {}, NEW raw \in Plans
        PROVE  Local(by.id) \notin Cited(CheckInherited(entries, parents, raw))
    BY <2>3, <2>7, NotEnforced DEF CheckInv
  <2> HIDE DEF docs, units
  <2>8. QED
    BY <2>1, <2>3, <2>4, <2>5, <2>6, <2>7 DEF docs, L
<1>2. QED
  BY <1>1, CheckInvariance, PTL
-----------------------------------------------------------------------------
(***************************************************************************)
(* What the extractor makes of a document.                                 *)
(***************************************************************************)
\* Lists that are joined have their members and no others.
LEMMA FlattenedMembers ==
  ASSUME NEW S, NEW lists \in Seq(Seq(S))
  PROVE  /\ FlattenSeq(lists) \in Seq(S)
         /\ Range(FlattenSeq(lists)) = UNION {Range(lists[k]) : k \in DOMAIN lists}
<1> DEFINE n == Len(lists)
           upTo == CHOOSE f : f = [i \in 1 .. n |-> IF i = 1 THEN lists[i] ELSE f[i - 1] \o lists[i]]
           T == {k \in 0 .. n : k > 0 => /\ upTo[k] \in Seq(S)
                                         /\ Range(upTo[k]) = UNION {Range(lists[i]) : i \in 1 .. k}}
<1>1. n \in Nat /\ DOMAIN lists = 1 .. n /\ \A k \in 1 .. n : lists[k] \in Seq(S)
  OBVIOUS
<1>2. CASE n = 0
  <2>1. FlattenSeq(lists) = lists /\ lists = <<>>
    BY <1>2 DEF FlattenSeq
  <2>2. Range(<<>>) = {} /\ DOMAIN lists = {}
    BY <2>1 DEF Range
  <2>3. QED
    BY <2>1, <2>2
<1>3. CASE n # 0
  <2>1. FlattenSeq(lists) = upTo[n]
    BY <1>3 DEF FlattenSeq
  <2>2. upTo = [i \in 1 .. n |-> IF i = 1 THEN lists[i] ELSE upTo[i - 1] \o lists[i]]
    <3> HIDE DEF n
    <3>1. n \in 0 .. n
      BY <1>1
    <3>2. PICK f : JoinedUpTo(f, n, lists)
      BY <1>1, <3>1, JoinsExist
    <3>3. f = [i \in 1 .. n |-> IF i = 1 THEN lists[i] ELSE f[i - 1] \o lists[i]]
      BY <3>2 DEF JoinedUpTo
    <3>4. QED
      BY <3>3
  <2> HIDE DEF upTo
  <2>3. \A k \in 1 .. n : upTo[k] = IF k = 1 THEN lists[k] ELSE upTo[k - 1] \o lists[k]
    BY <2>2
  <2>4. 0 \in T
    BY <1>1
  <2>5. ASSUME NEW k \in 1 .. n, k - 1 \in T PROVE k \in T
    <3>1. CASE k = 1
      <4>0. 1 .. k = {1}
        BY <3>1
      <4>1. upTo[k] = lists[1] /\ lists[1] \in Seq(S)
        BY <1>1, <2>3, <2>5, <3>1
      <4>2. Range(upTo[k]) = UNION {Range(lists[i]) : i \in 1 .. k}
        BY <4>0, <4>1
      <4>3. k \in 0 .. n
        BY <1>1
      <4>4. upTo[k] \in Seq(S)
        BY <4>1
      <4> HIDE DEF n
      <4>5. QED
        BY <4>2, <4>3, <4>4
    <3>2. CASE k # 1
      <4>1. /\ upTo[k - 1] \in Seq(S) /\ k \in Nat /\ k > 0
            /\ Range(upTo[k - 1]) = UNION {Range(lists[i]) : i \in 1 .. k - 1}
        BY <1>1, <2>5, <3>2
      <4>2. upTo[k] = upTo[k - 1] \o lists[k] /\ lists[k] \in Seq(S)
        BY <1>1, <2>3, <3>2
      <4>3. /\ upTo[k] \in Seq(S)
            /\ Range(upTo[k]) = Range(upTo[k - 1]) \cup Range(lists[k])
        BY <4>1, <4>2, MembersOfBoth
      <4>4. 1 .. k = (1 .. k - 1) \cup {k}
        BY <4>1
      <4>5. Range(upTo[k]) = UNION {Range(lists[i]) : i \in 1 .. k}
        BY <4>1, <4>3, <4>4
      <4>6. QED
        BY <4>3, <4>5
    <3>3. QED
      BY <3>1, <3>2
  <2>6. n \in T
    <3> HIDE DEF T
    <3>1. \A k \in 0 .. n : k \in T
      BY <1>1, <2>4, <2>5, CountedUp
    <3>2. n \in 0 .. n
      BY <1>1
    <3>3. QED
      BY <3>1, <3>2
  <2>7. QED
    BY <1>1, <1>3, <2>1, <2>6
<1>4. QED
  BY <1>2, <1>3

-----------------------------------------------------------------------------
\* What has been taken of any of the first k passages.
TakenUpTo(f, k, document, passages) ==
    f = [t \in SUBSET (1 .. k) |->
           IF t = {} THEN <<>> ELSE add(document, f[t \ {Max(t)}], passages[Max(t)])]

LEMMA TakingExists ==
  ASSUME NEW document, NEW passages, NEW n \in Nat
  PROVE  \A k \in 0 .. n : \E f : TakenUpTo(f, k, document, passages)
<1> DEFINE S == {k \in 0 .. n : \E f : TakenUpTo(f, k, document, passages)}
           one(f, t) == add(document, f[t \ {Max(t)}], passages[Max(t)])
<1>1. 0 \in S
  <2> DEFINE f == [t \in SUBSET (1 .. 0) |-> <<>>]
  <2>1. f = [t \in SUBSET (1 .. 0) |-> IF t = {} THEN <<>> ELSE one(f, t)]
    OBVIOUS
  <2> HIDE DEF f
  <2>2. TakenUpTo(f, 0, document, passages)
    BY <2>1 DEF TakenUpTo
  <2>3. QED
    BY <2>2
<1>2. ASSUME NEW k \in 1 .. n, k - 1 \in S PROVE k \in S
  <2>1. PICK f : TakenUpTo(f, k - 1, document, passages)
    BY <1>2
  <2>2. f = [t \in SUBSET (1 .. k - 1) |-> IF t = {} THEN <<>> ELSE one(f, t)]
    BY <2>1 DEF TakenUpTo
  <2> DEFINE g == [t \in SUBSET (1 .. k) |->
                     IF k \in t THEN add(document, f[t \ {k}], passages[k]) ELSE f[t]]
  <2>3. \A t \in SUBSET (1 .. k - 1) : t \in SUBSET (1 .. k) /\ k \notin t
    BY <1>2
  <2>4. \A t \in SUBSET (1 .. k - 1) : g[t] = f[t]
    BY <2>3
  <2>5. ASSUME NEW t \in SUBSET (1 .. k)
        PROVE  g[t] = IF t = {} THEN <<>> ELSE add(document, g[t \ {Max(t)}], passages[Max(t)])
    <3>1. CASE k \in t
      <4>1. Max(t) = k
        BY <1>2, <3>1, GreatestUpTo
      <4>2. t \ {k} \in SUBSET (1 .. k - 1)
        BY <1>2
      <4>3. g[t \ {k}] = f[t \ {k}]
        BY <2>4, <4>2
      <4>4. g[t] = add(document, f[t \ {k}], passages[k])
        BY <3>1
      <4> HIDE DEF g
      <4>5. QED
        BY <3>1, <4>1, <4>3, <4>4
    <3>2. CASE k \notin t
      <4>1. t \in SUBSET (1 .. k - 1)
        BY <1>2, <3>2
      <4>2. g[t] = f[t] /\ \A m : g[t \ {m}] = f[t \ {m}]
        BY <2>4, <4>1
      <4>3. f[t] = IF t = {} THEN <<>> ELSE one(f, t)
        BY <2>2, <4>1
      <4> HIDE DEF g
      <4>4. QED
        BY <4>2, <4>3
    <3>3. QED
      BY <3>1, <3>2
  <2>6. g = [t \in SUBSET (1 .. k) |-> g[t]]
    OBVIOUS
  <2> HIDE DEF g
  <2>7. g = [t \in SUBSET (1 .. k) |-> IF t = {} THEN <<>> ELSE one(g, t)]
    BY <2>5, <2>6
  <2>8. TakenUpTo(g, k, document, passages)
    BY <2>7 DEF TakenUpTo
  <2>9. QED
    BY <2>8
<1> HIDE DEF S
<1>3. \A k \in 0 .. n : k \in S
  BY <1>1, <1>2, CountedUp
<1>4. QED
  BY <1>3 DEF S

\* The extractor takes the passages one after another.
Steps(found, document) ==
    /\ found[0] = <<>>
    /\ \A k \in 1 .. Len(Passages(document)) :
          found[k] = add(document, found[k - 1], Passages(document)[k])
    /\ Extract(document) = found[Len(Passages(document))]

LEMMA OneByOne ==
  ASSUME NEW document, NEW S, Passages(document) \in Seq(S)
  PROVE  \E found : Steps(found, document)
<1> DEFINE passages == Passages(document)
           n == Len(passages)
           iter == CHOOSE f : f = [t \in SUBSET DOMAIN passages |->
                      IF t = {} THEN <<>> ELSE add(document, f[t \ {Max(t)}], passages[Max(t)])]
           found == [k \in 0 .. n |-> iter[1 .. k]]
<1>1. n \in Nat /\ DOMAIN passages = 1 .. n
  OBVIOUS
<1>2. Extract(document) = iter[DOMAIN passages]
  BY DEF Extract, FoldLeft, MapThenFoldSet
<1>3. iter = [t \in SUBSET (1 .. n) |->
                IF t = {} THEN <<>> ELSE add(document, iter[t \ {Max(t)}], passages[Max(t)])]
  <2> HIDE DEF n
  <2>1. n \in 0 .. n
    BY <1>1
  <2>2. PICK f : TakenUpTo(f, n, document, passages)
    BY <1>1, <2>1, TakingExists
  <2>3. f = [t \in SUBSET DOMAIN passages |->
               IF t = {} THEN <<>> ELSE add(document, f[t \ {Max(t)}], passages[Max(t)])]
    BY <1>1, <2>2 DEF TakenUpTo
  <2> HIDE DEF passages
  <2>4. iter = [t \in SUBSET DOMAIN passages |->
                  IF t = {} THEN <<>> ELSE add(document, iter[t \ {Max(t)}], passages[Max(t)])]
    BY <2>3
  <2>5. QED
    BY <1>1, <2>4
<1> HIDE DEF iter, n, passages
<1>4. \A t \in SUBSET (1 .. n) :
        iter[t] = IF t = {} THEN <<>> ELSE add(document, iter[t \ {Max(t)}], passages[Max(t)])
  BY <1>3
<1>5. found[0] = <<>>
  <2>1. 1 .. 0 = {} /\ {} \in SUBSET (1 .. n) /\ 0 \in 0 .. n
    BY <1>1
  <2>2. QED
    BY <1>4, <2>1
<1>6. ASSUME NEW k \in 1 .. n PROVE found[k] = add(document, found[k - 1], passages[k])
  <2>1. k \in Nat /\ k \in 1 .. k /\ k \in 0 .. n /\ k - 1 \in 0 .. n
    BY <1>1
  <2>2. Max(1 .. k) = k
    BY <2>1, GreatestUpTo
  <2>5. 1 .. k \in SUBSET (1 .. n)
    BY <1>1
  <2>7. 1 .. k # {}
    BY <2>1
  <2>6. (1 .. k) \ {k} = 1 .. k - 1
    BY <2>1
  <2>3. iter[1 .. k] = add(document, iter[1 .. k - 1], passages[k])
    BY <1>4, <2>2, <2>5, <2>6, <2>7
  <2>4. QED
    BY <2>1, <2>3
<1>7. Extract(document) = found[n]
  <2>1. n \in 0 .. n
    BY <1>1
  <2>2. QED
    BY <1>1, <1>2, <2>1
<1> HIDE DEF found
<1>8. Steps(found, document)
  BY <1>5, <1>6, <1>7 DEF Steps, n, passages
<1>9. QED
  BY <1>8

\* A passage about the chosen option, where that is left out.
Barred(document, c) == c.notChosen /\ isChosen(document, c.alternative.option)

\* What may come of the first k passages, and when the kth one need not have.
OfTheFirst(k, document) ==
    {Passages(document)[i].alternative :
        i \in {j \in 1 .. k : ~Barred(document, Passages(document)[j])}}
Settled(k, found, document) ==
    LET c(i) == Passages(document)[i].alternative IN
    \/ c(k) \in Range(found)
    \/ Barred(document, Passages(document)[k])
    \/ Passages(document)[k].notTwice
       /\ \E i \in 1 .. k - 1 : c(i) \in Range(found) /\ sameOption(c(i).option, c(k).option)

LEMMA OneMoreMember ==
  ASSUME NEW S, NEW s \in Seq(S), NEW x
  PROVE  Append(s, x) \in Seq(S \cup {x}) /\ Range(Append(s, x)) = Range(s) \cup {x}
<1> DEFINE X == S \cup {x}
           t == <<x>>
<1>1. s \in Seq(X) /\ t \in Seq(X)
  OBVIOUS
<1>2. Append(s, x) = s \o t
  OBVIOUS
<1>3. Range(t) = {x}
  BY DEF Range
<1> HIDE DEF X, t
<1>4. s \o t \in Seq(X) /\ Range(s \o t) = Range(s) \cup Range(t)
  BY <1>1, MembersOfBoth
<1>5. QED
  BY <1>2, <1>3, <1>4 DEF X

LEMMA ExtractSettles ==
  ASSUME NEW document, NEW S, Passages(document) \in Seq(S)
  PROVE  /\ Extract(document) \in Seq(OfTheFirst(Len(Passages(document)), document))
         /\ \A k \in 1 .. Len(Passages(document)) : Settled(k, Extract(document), document)
<1> DEFINE passages == Passages(document)
           n == Len(passages)
<1>1. PICK found : Steps(found, document)
  BY OneByOne
<1> DEFINE T == {k \in 0 .. n : /\ found[k] \in Seq(OfTheFirst(k, document))
                               /\ \A j \in 1 .. k : Settled(j, found[k], document)}
<1>2. n \in Nat
  OBVIOUS
<1> HIDE DEF n, passages
<1>3. 0 \in T
  <2>1. 0 \in 0 .. n /\ found[0] = <<>>
    BY <1>1, <1>2 DEF Steps
  <2>2. found[0] \in Seq(OfTheFirst(0, document))
    BY <2>1
  <2>3. \A j \in 1 .. 0 : Settled(j, found[0], document)
    OBVIOUS
  <2>4. QED
    BY <2>1, <2>2, <2>3
<1>4. ASSUME NEW k \in 1 .. n, k - 1 \in T PROVE k \in T
  <2> DEFINE before == found[k - 1]
             c == passages[k]
  <2>1. found[k] = add(document, before, c)
    BY <1>1 DEF Steps, n, passages
  <2>2. before \in Seq(OfTheFirst(k - 1, document)) /\ \A j \in 1 .. k - 1 : Settled(j, before, document)
    BY <1>4
  <2>3. OfTheFirst(k - 1, document) \subseteq OfTheFirst(k, document)
    BY <1>2 DEF OfTheFirst
  <2>4. before \in Seq(OfTheFirst(k, document))
    BY <2>2, <2>3
  <2>5. k \in 0 .. n /\ k \in 1 .. k /\ \A j \in 1 .. k : j # k => j \in 1 .. k - 1
    BY <1>2
  <2> HIDE DEF before
  <2>6. CASE KeptOut(document, before, c)
    <3>1. found[k] = before
      BY <2>1, <2>6 DEF add
    <3>2. Settled(k, before, document)
      <4>1. CASE c.notChosen /\ isChosen(document, c.alternative.option)
        BY <4>1 DEF Settled, Barred, passages
      <4>2. CASE c.notTwice /\ alreadyHave(before, c.alternative.option)
        <5>1. PICK m \in DOMAIN before : sameOption(before[m].option, c.alternative.option)
          BY <4>2 DEF alreadyHave
        <5>2. before[m] \in OfTheFirst(k - 1, document) /\ before[m] \in Range(before)
          BY <2>2 DEF Range
        <5>3. PICK i \in 1 .. k - 1 : before[m] = passages[i].alternative
          BY <5>2 DEF OfTheFirst, passages
        <5>4. QED
          BY <4>2, <5>1, <5>2, <5>3 DEF Settled, passages
      <4>3. QED
        BY <2>6, <4>1, <4>2 DEF KeptOut
    <3>3. \A j \in 1 .. k : Settled(j, before, document)
      BY <2>2, <2>5, <3>2
    <3>4. QED
      BY <2>4, <2>5, <3>1, <3>3
  <2>7. CASE ~KeptOut(document, before, c)
    <3>1. found[k] = Append(before, c.alternative)
      BY <2>1, <2>7 DEF add
    <3>2. c.alternative \in OfTheFirst(k, document)
      BY <2>5, <2>7 DEF OfTheFirst, KeptOut, Barred, passages
    <3>3. found[k] \in Seq(OfTheFirst(k, document))
      BY <2>4, <3>1, <3>2
    <3>4. Range(found[k]) = Range(before) \cup {c.alternative}
      <4> DEFINE A == OfTheFirst(k, document)
                 x == c.alternative
      <4>1. before \in Seq(A) /\ found[k] = Append(before, x)
        BY <2>4, <3>1
      <4> HIDE DEF A, x
      <4>2. Range(Append(before, x)) = Range(before) \cup {x}
        BY <4>1, OneMoreMember
      <4>3. QED
        BY <4>1, <4>2 DEF x
    <3>5. Settled(k, found[k], document)
      BY <3>4 DEF Settled, passages
    <3>6. ASSUME NEW j \in 1 .. k - 1 PROVE Settled(j, found[k], document)
      <4>1. Settled(j, before, document)
        BY <2>2
      <4>2. Range(before) \subseteq Range(found[k])
        BY <3>4
      <4>3. QED
        BY <4>1, <4>2 DEF Settled
    <3>7. \A j \in 1 .. k : Settled(j, found[k], document)
      BY <2>5, <3>5, <3>6
    <3>8. QED
      BY <2>5, <3>3, <3>7
  <2>8. QED
    BY <2>6, <2>7
<1>5. n \in T
  <2> HIDE DEF T
  <2>1. \A k \in 0 .. n : k \in T
    BY <1>2, <1>3, <1>4, CountedUp
  <2>2. n \in 0 .. n
    BY <1>2
  <2>3. QED
    BY <2>1, <2>2
<1>6. Extract(document) = found[n]
  BY <1>1 DEF Steps, n, passages
<1>7. QED
  BY <1>5, <1>6 DEF n, passages

-----------------------------------------------------------------------------
\* The bullets of a section are a list, and so are the passages it offers.
LEMMA BulletsAreAList ==
  ASSUME NEW document, IsDocument(document), NEW s \in Range(document)
  PROVE  IsList(groupBullets(s))
<1> DEFINE S == Range(s.bullets) \cup UNION {Range(c.bullets) : c \in Range(s.children)}
           inner == [k \in DOMAIN s.children |-> s.children[k].bullets]
<1>1. s.bullets \in Seq(Range(s.bullets)) /\ s.children \in Seq(Range(s.children))
  BY DEF IsDocument, IsList
<1>2. s.bullets \in Seq(S)
  BY <1>1
<1>3. ASSUME NEW k \in DOMAIN s.children PROVE inner[k] \in Seq(S)
  <2>1. s.children[k] \in Range(s.children)
    BY DEF Range
  <2>2. s.children[k].bullets \in Seq(Range(s.children[k].bullets))
    BY <2>1 DEF IsDocument, IsList
  <2>3. Range(s.children[k].bullets) \subseteq S
    BY <2>1
  <2> HIDE DEF S
  <2>4. QED
    BY <2>2, <2>3
<1>4. inner \in Seq(Seq(S))
  <2>1. DOMAIN s.children = 1 .. Len(s.children) /\ Len(s.children) \in Nat
    BY <1>1
  <2>2. DOMAIN inner = DOMAIN s.children /\ inner = [k \in DOMAIN inner |-> inner[k]]
    OBVIOUS
  <2> HIDE DEF S, inner
  <2>3. QED
    BY <1>3, <2>1, <2>2
<1> HIDE DEF inner, S
<1>5. FlattenSeq(inner) \in Seq(S)
  BY <1>4, FlattenedMembers
<1>6. groupBullets(s) \in Seq(S)
  BY <1>2, <1>5 DEF groupBullets, inner
<1>7. groupBullets(s) \in Seq(Range(groupBullets(s)))
  BY <1>6 DEF Range
<1>8. QED
  BY <1>7 DEF IsList

\* What the passages of either pass offer.
FirstPass(document) ==
    {Passage(c.label, reasonFromProsAndCons(c), TRUE, FALSE) : c \in Weighed(document)}
    \cup {Passage(b.label, b.text, FALSE, FALSE) : b \in Rejected(document)}
    \cup {Passage(c.label, sectionBodyText(c), TRUE, TRUE) : c \in Described(document)}
SecondPass(document) ==
    {Passage(b.label, {}, TRUE, TRUE) : b \in UNION {Range(s.bullets) : s \in Range(document)}}

\* One list made of another, member by member.
LEMMA MemberByMember ==
  ASSUME NEW s, IsList(s), NEW F, NEW t, t = [k \in DOMAIN s |-> F[s[k]]], NEW X, \A x \in Range(s) : F[x] \in X
  PROVE  t \in Seq(X) /\ Range(t) = {F[x] : x \in Range(s)}
<1>1. DOMAIN s = 1 .. Len(s) /\ Len(s) \in Nat
  BY DEF IsList
<1>2. \A k \in DOMAIN s : t[k] \in X
  BY DEF Range
<1>3. t \in Seq(X)
  BY <1>1, <1>2
<1>4. QED
  BY <1>3 DEF Range

LEMMA ReasonedIsFirst ==
  ASSUME NEW document, IsDocument(document), NEW s \in Range(document)
  PROVE  /\ Reasoned(s) \in Seq(FirstPass(document))
         /\ Kind(s) = "pros and cons" => Range(Reasoned(s)) =
               {Passage(c.label, reasonFromProsAndCons(c), TRUE, FALSE) : c \in Range(s.children)}
         /\ Kind(s) = "alternatives rejected" => Range(Reasoned(s)) =
               {Passage(b.label, b.text, FALSE, FALSE) : b \in Range(groupBullets(s))}
         /\ Kind(s) = "considered options" => Range(Reasoned(s)) =
               {Passage(c.label, sectionBodyText(c), TRUE, TRUE) : c \in Range(s.children)}
<1> DEFINE X == FirstPass(document)
<1>1. IsList(s.children) /\ IsList(groupBullets(s))
  BY BulletsAreAList DEF IsDocument
<1>2. CASE Kind(s) = "pros and cons"
  <2> DEFINE F == [c \in Range(s.children) |-> Passage(c.label, reasonFromProsAndCons(c), TRUE, FALSE)]
  <2>1. s \in Under(document, "pros and cons")
    BY <1>2 DEF Under
  <2>2. \A c \in Range(s.children) : c \in Weighed(document)
    BY <2>1 DEF Weighed
  <2>3. \A c \in Range(s.children) : F[c] \in X
    BY <2>2 DEF FirstPass
  <2>4. Reasoned(s) = [k \in DOMAIN s.children |-> F[s.children[k]]]
    <3>1. \A k \in DOMAIN s.children : s.children[k] \in Range(s.children)
      BY DEF Range
    <3>2. QED
      BY <1>2, <3>1 DEF Reasoned
  <2> HIDE DEF X
  <2>5. Reasoned(s) \in Seq(X) /\ Range(Reasoned(s)) = {F[c] : c \in Range(s.children)}
    <3> DEFINE t == Reasoned(s)
    <3>1. PICK list : list = s.children
      OBVIOUS
    <3>2. /\ t = [k \in DOMAIN list |-> F[list[k]]] /\ \A x \in Range(list) : F[x] \in X
          /\ IsList(list)
      BY <1>1, <2>3, <2>4, <3>1
    <3> HIDE DEF F, t
    <3>3. t \in Seq(X)
      BY <3>2, MemberByMember
    <3>4. Range(t) = {F[x] : x \in Range(list)}
      BY <3>2, MemberByMember
    <3>5. QED
      BY <3>1, <3>3, <3>4 DEF t
  <2>6. QED
    BY <1>2, <2>5 DEF X
<1>3. CASE Kind(s) = "alternatives rejected"
  <2>0. PICK listed : listed = groupBullets(s)
    OBVIOUS
  <2> DEFINE F == [b \in Range(listed) |-> Passage(b.label, b.text, FALSE, FALSE)]
  <2>1. s \in Under(document, "alternatives rejected")
    BY <1>3 DEF Under
  <2>2. \A b \in Range(listed) : b \in Rejected(document)
    BY <2>0, <2>1 DEF Rejected
  <2>3. \A b \in Range(listed) : F[b] \in X
    BY <2>2 DEF FirstPass
  <2>4. Reasoned(s) = [k \in DOMAIN listed |-> Passage(listed[k].label, listed[k].text, FALSE, FALSE)]
    BY <1>3, <2>0 DEF Reasoned
  <2>5. IsList(listed)
    BY <1>1, <2>0
  <2> HIDE DEF X
  <2>6. Reasoned(s) = [k \in DOMAIN listed |-> F[listed[k]]]
    <3>1. \A k \in DOMAIN listed : listed[k] \in Range(listed)
      BY DEF Range
    <3>2. QED
      BY <2>4, <3>1
  <2>7. Reasoned(s) \in Seq(X) /\ Range(Reasoned(s)) = {F[b] : b \in Range(listed)}
    <3> DEFINE t == Reasoned(s)
    <3>1. t = [k \in DOMAIN listed |-> F[listed[k]]] /\ \A x \in Range(listed) : F[x] \in X
      BY <2>3, <2>6
    <3> HIDE DEF F, t
    <3>2. t \in Seq(X)
      BY <2>5, <3>1, MemberByMember
    <3>3. Range(t) = {F[x] : x \in Range(listed)}
      BY <2>5, <3>1, MemberByMember
    <3>4. QED
      BY <3>2, <3>3 DEF t
  <2>8. QED
    BY <1>3, <2>0, <2>7 DEF X
<1>4. CASE Kind(s) = "considered options"
  <2> DEFINE F == [c \in Range(s.children) |-> Passage(c.label, sectionBodyText(c), TRUE, TRUE)]
  <2>1. s \in Under(document, "considered options")
    BY <1>4 DEF Under
  <2>2. \A c \in Range(s.children) : c \in Described(document)
    BY <2>1 DEF Described
  <2>3. \A c \in Range(s.children) : F[c] \in X
    BY <2>2 DEF FirstPass
  <2>4. Reasoned(s) = [k \in DOMAIN s.children |-> F[s.children[k]]]
    <3>1. \A k \in DOMAIN s.children : s.children[k] \in Range(s.children)
      BY DEF Range
    <3>2. QED
      BY <1>4, <3>1 DEF Reasoned
  <2> HIDE DEF X
  <2>5. Reasoned(s) \in Seq(X) /\ Range(Reasoned(s)) = {F[c] : c \in Range(s.children)}
    <3> DEFINE t == Reasoned(s)
    <3>1. PICK list : list = s.children
      OBVIOUS
    <3>2. /\ t = [k \in DOMAIN list |-> F[list[k]]] /\ \A x \in Range(list) : F[x] \in X
          /\ IsList(list)
      BY <1>1, <2>3, <2>4, <3>1
    <3> HIDE DEF F, t
    <3>3. t \in Seq(X)
      BY <3>2, MemberByMember
    <3>4. Range(t) = {F[x] : x \in Range(list)}
      BY <3>2, MemberByMember
    <3>5. QED
      BY <3>1, <3>3, <3>4 DEF t
  <2>6. QED
    BY <1>4, <2>5 DEF X
<1>5. CASE Kind(s) = "other"
  <2>1. Reasoned(s) = <<>>
    BY <1>5 DEF Reasoned
  <2>2. QED
    BY <1>5, <2>1
<1>6. Kind(s) \in {"pros and cons", "alternatives rejected", "considered options", "other"}
  BY DEF Kind
<1>7. QED
  BY <1>2, <1>3, <1>4, <1>5, <1>6

LEMMA BareIsSecond ==
  ASSUME NEW document, IsDocument(document), NEW s \in Range(document)
  PROVE  BareOptions(s) \in Seq(SecondPass(document))
<1> DEFINE F == [b \in Range(s.bullets) |-> Passage(b.label, {}, TRUE, TRUE)]
<1>1. CASE OnlyListed(s)
  <2>1. IsList(s.bullets)
    BY DEF IsDocument
  <2>2. \A b \in Range(s.bullets) : F[b] \in SecondPass(document)
    BY DEF SecondPass
  <2>3. BareOptions(s) = [k \in DOMAIN s.bullets |-> F[s.bullets[k]]]
    <3>1. \A k \in DOMAIN s.bullets : s.bullets[k] \in Range(s.bullets)
      BY DEF Range
    <3>2. QED
      BY <1>1, <3>1 DEF BareOptions
  <2> HIDE DEF F
  <2>4. QED
    BY <2>1, <2>2, <2>3, MemberByMember
<1>2. CASE ~OnlyListed(s)
  BY <1>2 DEF BareOptions
<1>3. QED
  BY <1>1, <1>2

\* First the one pass, with all it can offer, and then the other.
LEMMA PassAfterPass ==
  ASSUME NEW document, IsDocument(document)
  PROVE  \E one \in Seq(FirstPass(document)), two \in Seq(SecondPass(document)) :
            Passages(document) = one \o two /\ Range(one) = FirstPass(document)
<1> DEFINE firsts == [k \in DOMAIN document |-> Reasoned(document[k])]
           seconds == [k \in DOMAIN document |-> BareOptions(document[k])]
           X == FirstPass(document)
           Y == SecondPass(document)
<1>1. DOMAIN document = 1 .. Len(document) /\ Len(document) \in Nat
  BY DEF IsDocument, IsList
<1>2. \A k \in DOMAIN document : document[k] \in Range(document)
  BY DEF Range
<1>3. \A k \in DOMAIN document : firsts[k] \in Seq(X) /\ seconds[k] \in Seq(Y)
  BY <1>2, ReasonedIsFirst, BareIsSecond
<1>4. firsts \in Seq(Seq(X)) /\ seconds \in Seq(Seq(Y))
  <2>1. /\ firsts = [k \in 1 .. Len(document) |-> firsts[k]]
        /\ seconds = [k \in 1 .. Len(document) |-> seconds[k]]
    BY <1>1
  <2> HIDE DEF firsts, seconds, X, Y
  <2>2. QED
    BY <1>1, <1>3, <2>1
<1>5. Passages(document) = FlattenSeq(firsts) \o FlattenSeq(seconds)
  BY DEF Passages
<1>6. DOMAIN firsts = DOMAIN document /\ \A k \in DOMAIN document : firsts[k] = Reasoned(document[k])
  OBVIOUS
<1> HIDE DEF firsts, seconds, Y
<1>7. /\ FlattenSeq(firsts) \in Seq(X) /\ FlattenSeq(seconds) \in Seq(Y)
      /\ Range(FlattenSeq(firsts)) = UNION {Range(firsts[k]) : k \in DOMAIN firsts}
  <2> HIDE DEF X
  <2>1. QED
    BY <1>4, FlattenedMembers
<1>8. ASSUME NEW s \in Range(document) PROVE Range(Reasoned(s)) \subseteq Range(FlattenSeq(firsts))
  <2>1. PICK k \in DOMAIN document : s = document[k]
    BY DEF Range
  <2>2. QED
    BY <1>6, <1>7, <2>1
<1>9. X \subseteq Range(FlattenSeq(firsts))
  <2>1. ASSUME NEW c \in Weighed(document)
        PROVE  Passage(c.label, reasonFromProsAndCons(c), TRUE, FALSE) \in Range(FlattenSeq(firsts))
    <3>1. PICK s \in Range(document) : Kind(s) = "pros and cons" /\ c \in Range(s.children)
      BY <2>1 DEF Weighed, Under
    <3>2. QED
      BY <1>8, <3>1, ReasonedIsFirst
  <2>2. ASSUME NEW b \in Rejected(document)
        PROVE  Passage(b.label, b.text, FALSE, FALSE) \in Range(FlattenSeq(firsts))
    <3>1. PICK s \in Range(document) : Kind(s) = "alternatives rejected" /\ b \in Range(groupBullets(s))
      BY <2>2 DEF Rejected, Under
    <3>2. QED
      BY <1>8, <3>1, ReasonedIsFirst
  <2>3. ASSUME NEW c \in Described(document)
        PROVE  Passage(c.label, sectionBodyText(c), TRUE, TRUE) \in Range(FlattenSeq(firsts))
    <3>1. PICK s \in Range(document) : Kind(s) = "considered options" /\ c \in Range(s.children)
      BY <2>3 DEF Described, Under
    <3>2. QED
      BY <1>8, <3>1, ReasonedIsFirst
  <2>4. QED
    BY <2>1, <2>2, <2>3 DEF FirstPass
<1>10. Range(FlattenSeq(firsts)) \subseteq X
  <2> HIDE DEF X
  <2>1. QED
    BY <1>7 DEF Range
<1>11. QED
  BY <1>5, <1>7, <1>9, <1>10 DEF Y

-----------------------------------------------------------------------------
\* The reason taken from pros and cons is written there.
LEMMA ReasonIsWritten ==
  ASSUME NEW c
  PROVE  reasonFromProsAndCons(c) \subseteq sectionBodyText(c)
<1>1. \A says : UNION {b.text : b \in {x \in Range(c.bullets) : x.says = says}} \subseteq sectionBodyText(c)
  BY DEF sectionBodyText
<1>2. QED
  BY <1>1 DEF reasonFromProsAndCons

\* Where a drawback is written, or prose only, there is a reason.
LEMMA DrawbackIsReason ==
  ASSUME NEW c,
         \/ \E b \in Range(c.bullets) : b.says = "bad" /\ Argues(b.text)
         \/ c.bullets = <<>> /\ Argues(c.prose)
  PROVE  Argues(reasonFromProsAndCons(c))
<1> DEFINE Those(says) == {b \in Range(c.bullets) : b.says = says}
<1>1. CASE \E b \in Range(c.bullets) : b.says = "bad" /\ Argues(b.text)
  <2>1. PICK b \in Those("bad") : Argues(b.text)
    BY <1>1
  <2>2. reasonFromProsAndCons(c) = UNION {x.text : x \in Those("bad")}
    BY <2>1 DEF reasonFromProsAndCons
  <2>3. b.text \subseteq reasonFromProsAndCons(c)
    BY <2>2
  <2>4. QED
    BY <2>1, <2>3 DEF Argues
<1>2. CASE c.bullets = <<>> /\ Argues(c.prose)
  <2>1. Range(c.bullets) = {}
    BY <1>2 DEF Range
  <2>2. reasonFromProsAndCons(c) = sectionBodyText(c)
    BY <2>1 DEF reasonFromProsAndCons
  <2>3. QED
    BY <1>2, <2>2 DEF sectionBodyText, Argues
<1>3. QED
  BY <1>1, <1>2

\* A passage that is kept out by nothing but its content is recorded.
LEMMA WhatIsRecorded ==
  ASSUME NEW document, IsDocument(document)
  PROVE  /\ \A a \in Recorded(document) :
              \E c \in FirstPass(document) : a = c.alternative /\ ~Barred(document, c)
         /\ \A c \in FirstPass(document) :
              \/ c.alternative.whyNot = {} \/ c.alternative \in Recorded(document) \/ Barred(document, c)
              \/ /\ c.notTwice
                 /\ \E d \in FirstPass(document) :
                       /\ d.alternative \in Range(Extract(document))
                       /\ sameOption(d.alternative.option, c.alternative.option)
<1> DEFINE S == FirstPass(document) \cup SecondPass(document)
           passages == Passages(document)
<1>1. PICK one \in Seq(FirstPass(document)), two \in Seq(SecondPass(document)) :
        passages = one \o two /\ Range(one) = FirstPass(document)
  BY PassAfterPass
<1>2. one \in Seq(S) /\ two \in Seq(S)
  OBVIOUS
<1>3. passages \in Seq(S)
  <2> HIDE DEF S
  <2>1. QED
    BY <1>1, <1>2
<1>4. Len(passages) = Len(one) + Len(two) /\ Len(one) \in Nat /\ Len(two) \in Nat
  BY <1>1
<1>5. \A k \in 1 .. Len(one) : k \in 1 .. Len(passages) /\ passages[k] = one[k] /\ one[k] \in FirstPass(document)
  <2>1. \A k \in 1 .. Len(one) : passages[k] = one[k]
    BY <1>1
  <2>2. \A k \in 1 .. Len(one) : k \in 1 .. Len(passages)
    BY <1>4
  <2>3. \A k \in 1 .. Len(one) : one[k] \in FirstPass(document)
    OBVIOUS
  <2>4. QED
    BY <2>1, <2>2, <2>3
<1> HIDE DEF S, passages
<1>6. /\ Extract(document) \in Seq(OfTheFirst(Len(passages), document))
      /\ \A k \in 1 .. Len(passages) : Settled(k, Extract(document), document)
  BY <1>3, ExtractSettles DEF passages
<1>7. ASSUME NEW a \in Recorded(document)
      PROVE  \E c \in FirstPass(document) : a = c.alternative /\ ~Barred(document, c)
  <2>1. a \in Range(Extract(document)) /\ a.whyNot # {}
    BY DEF Recorded
  <2>2. a \in OfTheFirst(Len(passages), document)
    BY <1>6, <2>1 DEF Range
  <2>3. PICK i \in 1 .. Len(passages) : a = passages[i].alternative /\ ~Barred(document, passages[i])
    BY <2>2 DEF OfTheFirst, passages
  <2>4. passages[i] \in S
    BY <1>3, <2>3
  <2>5. passages[i] \notin SecondPass(document)
    BY <2>1, <2>3 DEF SecondPass, Passage, Alternative, splitRevisit
  <2>6. QED
    BY <2>3, <2>4, <2>5 DEF S
<1>8. ASSUME NEW c \in FirstPass(document), c.alternative.whyNot # {},
             c.alternative \notin Recorded(document), ~Barred(document, c)
      PROVE  /\ c.notTwice
             /\ \E d \in FirstPass(document) :
                   /\ d.alternative \in Range(Extract(document))
                   /\ sameOption(d.alternative.option, c.alternative.option)
  <2>0. c \in Range(one) /\ DOMAIN one = 1 .. Len(one)
    BY <1>1
  <2>1. PICK k \in 1 .. Len(one) : one[k] = c
    BY <2>0 DEF Range
  <2>2. passages[k] = c /\ k \in 1 .. Len(passages)
    BY <1>5, <2>1
  <2>3. Settled(k, Extract(document), document)
    BY <1>6, <2>2
  <2>4. c.alternative \notin Range(Extract(document))
    BY <1>8 DEF Recorded
  <2>5. /\ c.notTwice
        /\ \E i \in 1 .. k - 1 : /\ passages[i].alternative \in Range(Extract(document))
                                 /\ sameOption(passages[i].alternative.option, c.alternative.option)
    BY <1>8, <2>2, <2>3, <2>4 DEF Settled, passages
  <2>6. PICK i \in 1 .. k - 1 : /\ passages[i].alternative \in Range(Extract(document))
                               /\ sameOption(passages[i].alternative.option, c.alternative.option)
    BY <2>5
  <2>7. i \in 1 .. Len(one)
    BY <1>4
  <2>8. passages[i] \in FirstPass(document)
    BY <1>5, <2>7
  <2>9. QED
    BY <2>5, <2>6, <2>8
<1>9. QED
  BY <1>7, <1>8

\* Whatever the document, what is recorded of it is what it holds against its options.
LEMMA NothingElseIsRecorded ==
  ASSUME NEW document, IsDocument(document), NEW a \in Recorded(document)
  PROVE  /\ a.whyNot \subseteq AllSaid(document, a.option)
         /\ isChosen(document, a.option) => \E b \in Rejected(document) : b.label = a.option
<1>1. PICK o \in FirstPass(document) : a = o.alternative /\ ~Barred(document, o)
  BY WhatIsRecorded
<1>2. ASSUME NEW c \in Weighed(document), o = Passage(c.label, reasonFromProsAndCons(c), TRUE, FALSE)
      PROVE  a.whyNot \subseteq AllSaid(document, a.option) /\ ~isChosen(document, a.option)
  <2>1. a.option = c.label /\ a.whyNot \subseteq reasonFromProsAndCons(c) /\ o.notChosen
    BY <1>1, <1>2 DEF Passage, Alternative, splitRevisit
  <2>2. sectionBodyText(c) \subseteq AllSaid(document, c.label)
    BY DEF AllSaid
  <2>3. QED
    BY <1>1, <2>1, <2>2, ReasonIsWritten DEF Barred
<1>3. ASSUME NEW b \in Rejected(document), o = Passage(b.label, b.text, FALSE, FALSE)
      PROVE  a.whyNot \subseteq AllSaid(document, a.option) /\ b.label = a.option
  <2>1. a.option = b.label /\ a.whyNot \subseteq b.text
    BY <1>1, <1>3 DEF Passage, Alternative, splitRevisit
  <2>2. b.text \subseteq AllSaid(document, b.label)
    BY DEF AllSaid
  <2>3. QED
    BY <2>1, <2>2
<1>4. ASSUME NEW c \in Described(document), o = Passage(c.label, sectionBodyText(c), TRUE, TRUE)
      PROVE  a.whyNot \subseteq AllSaid(document, a.option) /\ ~isChosen(document, a.option)
  <2>1. a.option = c.label /\ a.whyNot \subseteq sectionBodyText(c) /\ o.notChosen
    BY <1>1, <1>4 DEF Passage, Alternative, splitRevisit
  <2>2. sectionBodyText(c) \subseteq AllSaid(document, c.label)
    BY DEF AllSaid
  <2>3. QED
    BY <1>1, <2>1, <2>2 DEF Barred
<1>5. QED
  BY <1>2, <1>3, <1>4 DEF FirstPass

LEMMA NothingIsLeftOut ==
  ASSUME NEW document, IsDocument(document), NEW label, SpokenAgainst(document, label)
  PROVE  \E a \in Recorded(document) : a.option = label
<1>1. CASE /\ ~isChosen(document, label)
           /\ \E c \in Weighed(document) :
                 /\ c.label = label
                 /\ \/ \E b \in Range(c.bullets) : b.says = "bad" /\ Argues(b.text)
                    \/ c.bullets = <<>> /\ Argues(c.prose)
  <2>1. PICK c \in Weighed(document) : c.label = label /\ Argues(reasonFromProsAndCons(c))
    BY <1>1, DrawbackIsReason
  <2> DEFINE o == Passage(c.label, reasonFromProsAndCons(c), TRUE, FALSE)
  <2>2. o \in FirstPass(document)
    BY DEF FirstPass
  <2>3. o.alternative.option = label /\ o.alternative.whyNot # {} /\ ~o.notTwice
    BY <2>1 DEF Passage, Alternative, splitRevisit, Argues
  <2>4. ~Barred(document, o)
    BY <1>1, <2>3 DEF Barred
  <2> HIDE DEF o
  <2>5. o.alternative \in Recorded(document)
    BY <2>2, <2>3, <2>4, WhatIsRecorded
  <2>6. QED
    BY <2>3, <2>5
<1>2. CASE \E b \in Rejected(document) : b.label = label /\ Argues(b.text)
  <2>1. PICK b \in Rejected(document) : b.label = label /\ Argues(b.text)
    BY <1>2
  <2> DEFINE o == Passage(b.label, b.text, FALSE, FALSE)
  <2>2. o \in FirstPass(document)
    BY DEF FirstPass
  <2>3. o.alternative.option = label /\ o.alternative.whyNot # {} /\ ~o.notTwice /\ ~o.notChosen
    BY <2>1 DEF Passage, Alternative, splitRevisit, Argues
  <2>4. ~Barred(document, o)
    BY <2>3 DEF Barred
  <2> HIDE DEF o
  <2>5. o.alternative \in Recorded(document)
    BY <2>2, <2>3, <2>4, WhatIsRecorded
  <2>6. QED
    BY <2>3, <2>5
<1>3. CASE /\ ~isChosen(document, label)
           /\ \E c \in Described(document) :
                 /\ c.label = label /\ Argues(sectionBodyText(c))
                 /\ \A d \in Weighed(document) \cup Rejected(document) \cup (Described(document) \ {c}) :
                       ~sameOption(d.label, label)
  <2>1. PICK c \in Described(document) :
          /\ c.label = label /\ Argues(sectionBodyText(c))
          /\ \A d \in Weighed(document) \cup Rejected(document) \cup (Described(document) \ {c}) :
                ~sameOption(d.label, label)
    BY <1>3
  <2> DEFINE o == Passage(c.label, sectionBodyText(c), TRUE, TRUE)
  <2>2. o \in FirstPass(document)
    BY DEF FirstPass
  <2>3. o.alternative.option = label /\ o.alternative.whyNot # {}
    BY <2>1 DEF Passage, Alternative, splitRevisit, Argues
  <2>4. ~Barred(document, o)
    BY <1>3, <2>3 DEF Barred
  <2>5. ASSUME NEW d \in FirstPass(document), sameOption(d.alternative.option, label) PROVE d = o
    <3>1. ASSUME NEW x \in Weighed(document) PROVE d # Passage(x.label, reasonFromProsAndCons(x), TRUE, FALSE)
      <4>1. ~sameOption(x.label, label)
        BY <2>1
      <4>2. QED
        BY <2>5, <4>1 DEF Passage, Alternative
    <3>2. ASSUME NEW x \in Rejected(document) PROVE d # Passage(x.label, x.text, FALSE, FALSE)
      <4>1. ~sameOption(x.label, label)
        BY <2>1
      <4>2. QED
        BY <2>5, <4>1 DEF Passage, Alternative
    <3>3. PICK x \in Described(document) : d = Passage(x.label, sectionBodyText(x), TRUE, TRUE)
      BY <3>1, <3>2 DEF FirstPass
    <3>4. sameOption(x.label, label)
      BY <2>5, <3>3 DEF Passage, Alternative
    <3>5. x = c
      BY <2>1, <3>4
    <3>6. QED
      BY <3>3, <3>5
  <2> HIDE DEF o
  <2>6. \/ o.alternative \in Recorded(document)
        \/ \E d \in FirstPass(document) :
              /\ d.alternative \in Range(Extract(document)) /\ sameOption(d.alternative.option, label)
    BY <2>2, <2>3, <2>4, WhatIsRecorded
  <2>7. o.alternative \in Recorded(document)
    BY <2>3, <2>5, <2>6 DEF Recorded
  <2>8. QED
    BY <2>3, <2>7
<1>4. QED
  BY <1>1, <1>2, <1>3 DEF SpokenAgainst

-----------------------------------------------------------------------------
\* Every entry has the alternatives that were drafted from its document.
AsExtracted ==
    \A i \in EntryIds :
        imports[i] # NoImport => imports[i].alternatives = Recorded(imports[i].key.content)

LEMMA DraftIsExtracted == ASSUME ImportInv, AsExtracted, NEW p \in Importers, AddDraft(p) PROVE AsExtracted'
<1> DEFINE d == FirstDraft(p)
           recorded == Recorded(d.content)
           entry == [key |-> d, alternatives |-> recorded, staged |-> TRUE]
           n == Min(EntryIds \ Present)
<1>1. imports' = [imports EXCEPT ![n] = entry]
  BY DEF AddDraft
<1>2. entry.key = d /\ entry.alternatives = recorded
  OBVIOUS
<1> HIDE DEF n, entry
<1>3. \A i \in EntryIds : imports'[i] = entry \/ imports'[i] = imports[i]
  BY <1>1 DEF ImportInv, ImportTypeOK
<1> HIDE DEF d
<1>4. entry.alternatives = Recorded(entry.key.content)
  BY <1>2
<1> HIDE DEF recorded
<1>5. QED
  BY <1>3, <1>4 DEF AsExtracted

LEMMA DisposalKeepsAlternatives ==
  ASSUME ImportInv, AsExtracted, NEW id \in EntryIds, ConfirmImport(id) \/ DiscardImport(id)
  PROVE  AsExtracted'
<1>1. imports \in [EntryIds -> ImportedEntries \cup {NoImport}]
  BY DEF ImportInv, ImportTypeOK
<1>2. CASE ConfirmImport(id)
  <2> DEFINE entry == [imports[id] EXCEPT !.staged = FALSE]
  <2>1. imports' = [imports EXCEPT ![id] = entry] /\ imports[id] # NoImport
    BY <1>2 DEF ConfirmImport, Present
  <2>2. imports[id] \in ImportedEntries
    BY <1>1, <2>1
  <2>3. entry.key = imports[id].key /\ entry.alternatives = imports[id].alternatives
    BY <2>2 DEF ImportedEntries
  <2> HIDE DEF entry
  <2>4. \A i \in EntryIds : imports'[i] = IF i = id THEN entry ELSE imports[i]
    BY <1>1, <2>1
  <2>5. QED
    BY <2>1, <2>3, <2>4 DEF AsExtracted
<1>3. CASE DiscardImport(id)
  <2>1. imports' = [imports EXCEPT ![id] = NoImport]
    BY <1>3 DEF DiscardImport
  <2>2. \A i \in EntryIds : imports'[i] = IF i = id THEN NoImport ELSE imports[i]
    BY <1>1, <2>1
  <2>3. QED
    BY <2>2 DEF AsExtracted
<1>4. QED
  BY <1>2, <1>3

LEMMA EntriesAreExtracted == ImportSpec => []AsExtracted
<1>1. ImportInit => AsExtracted
  BY DEF ImportInit, AsExtracted
<1>2. ASSUME ImportInv, AsExtracted, [ImportNext]_importVars PROVE AsExtracted'
  <2>1. ASSUME NEW p \in Importers, AddDraft(p) PROVE AsExtracted'
    BY <1>2, <2>1, DraftIsExtracted
  <2>2. ASSUME NEW id \in EntryIds, ConfirmImport(id) \/ DiscardImport(id) PROVE AsExtracted'
    BY <1>2, <2>2, DisposalKeepsAlternatives
  <2>3. CASE imports' = imports
    BY <1>2, <2>3 DEF AsExtracted
  <2>4. ASSUME NEW p \in Importers,
               \/ scanDirectory(p) \/ ScanDocument(p) \/ readConfirmation(p) \/ loadAlreadyImported(p)
               \/ BuildImportDrafts(p) \/ AddFails(p) \/ Finish(p) \/ KillImport(p)
        PROVE  imports' = imports
    BY <2>4 DEF scanDirectory, ScanDocument, readConfirmation, loadAlreadyImported,
                BuildImportDrafts, AddFails, Finish, KillImport, LedgerStays
  <2>5. ASSUME NEW path \in Paths, Rewrite(path) PROVE imports' = imports
    BY <2>5 DEF Rewrite
  <2>6. CASE UNCHANGED importVars
    BY <2>3, <2>6 DEF importVars
  <2>7. QED
    BY <1>2, <2>1, <2>2, <2>3, <2>4, <2>5, <2>6 DEF ImportNext
<1>3. QED
  BY <1>1, <1>2, ImportInvariance, PTL DEF ImportSpec

\* An entry that came of a document has what the document holds against its
\* options and nothing else, whichever of the four shapes the document has, in
\* whatever order its sections come and however its labels overlap: of every
\* option something is written against, and the chosen one only if the document
\* itself lists it among the rejected.
THEOREM RefusalsAreWritten == ImportSpec => []RefusalsAsWritten
<1>1. ImportInv /\ AsExtracted => RefusalsAsWritten
  <2> SUFFICES ASSUME ImportInv, AsExtracted, NEW id \in Present
               PROVE  LET document == imports[id].key.content
                          recorded == imports[id].alternatives
                      IN  /\ \A a \in recorded :
                                /\ a.whyNot \subseteq AllSaid(document, a.option)
                                /\ isChosen(document, a.option) =>
                                      \E b \in Rejected(document) : b.label = a.option
                          /\ \A c \in Weighed(document) \cup Described(document) \cup Rejected(document) :
                                SpokenAgainst(document, c.label) => \E a \in recorded : a.option = c.label
    BY DEF RefusalsAsWritten
  <2> DEFINE document == imports[id].key.content
  <2>1. imports[id] \in ImportedEntries /\ id \in EntryIds /\ imports[id] # NoImport
    BY DEF Present, ImportInv, ImportTypeOK
  <2>2. imports[id].alternatives = Recorded(document)
    BY <2>1 DEF AsExtracted
  <2>3. document \in Documents
    BY <2>1, EntryHasKey DEF Keys, Key
  <2>4. IsDocument(document)
    BY <2>3, ImportAssumption
  <2> HIDE DEF document
  <2>5. \A a \in Recorded(document) :
          /\ a.whyNot \subseteq AllSaid(document, a.option)
          /\ isChosen(document, a.option) => \E b \in Rejected(document) : b.label = a.option
    BY <2>4, NothingElseIsRecorded
  <2>6. \A label : SpokenAgainst(document, label) => \E a \in Recorded(document) : a.option = label
    BY <2>4, NothingIsLeftOut
  <2>7. QED
    BY <2>2, <2>5, <2>6 DEF document
<1>2. QED
  BY <1>1, ImportInvariance, EntriesAreExtracted, PTL

-----------------------------------------------------------------------------
(***************************************************************************)
(* The chain of parents.                                                   *)
(***************************************************************************)
ChainInv ==
    /\ parentsOf \in [Ledgers -> Seq([name : STRING, path : Ledgers \cup {NoPath}])]
    /\ readable \in SUBSET Ledgers /\ Own \in readable

Ats == Ledgers \X SUBSET Ledgers

\* One step of the walk, from what the walks further up have found.
Step(walks, at) ==
    Gathered([k \in DOMAIN parentsOf[at[1]] |-> Hop(walks, at[2], parentsOf[at[1]][k])])

\* How many more ledgers a path can take, and the walks with fewer than n.
Left(path) == Cardinality(Ledgers \ path)
WalkedUpTo(f, n) ==
    /\ f = [at \in Ats |-> f[at]]
    /\ \A at \in Ats : Left(at[2]) < n => f[at] = Step(f, at)

LEMMA OneFurther ==
  ASSUME NEW path \in SUBSET Ledgers
  PROVE  /\ Left(path) \in 0 .. Cardinality(Ledgers) /\ Cardinality(Ledgers) \in Nat
         /\ \A l \in Ledgers \ path :
              /\ path \cup {l} \in SUBSET Ledgers
              /\ Left(path \cup {l}) = Left(path) - 1
<1>1. IsFiniteSet(Ledgers)
  BY DriftAssumption
<1>2. Ledgers \ path \in SUBSET Ledgers
  OBVIOUS
<1>3. /\ IsFiniteSet(Ledgers \ path) /\ Cardinality(Ledgers \ path) <= Cardinality(Ledgers)
      /\ Cardinality(Ledgers \ path) \in Nat /\ Cardinality(Ledgers) \in Nat
  BY <1>1, <1>2, FS_Subset, FS_CardinalityType
<1>4. ASSUME NEW l \in Ledgers \ path PROVE Left(path \cup {l}) = Left(path) - 1
  <2>1. Ledgers \ (path \cup {l}) = (Ledgers \ path) \ {l}
    OBVIOUS
  <2>2. Cardinality((Ledgers \ path) \ {l}) = Cardinality(Ledgers \ path) - 1
    BY <1>3, <1>4, FS_RemoveElement
  <2>3. QED
    BY <2>1, <2>2 DEF Left
<1>5. QED
  BY <1>3, <1>4 DEF Left

\* A declaration is of a ledger or of nowhere.
LEMMA DeclarationFacts ==
  ASSUME ChainInv, NEW l \in Ledgers
  PROVE  /\ parentsOf[l] \in Seq([name : STRING, path : Ledgers \cup {NoPath}])
         /\ \A k \in DOMAIN parentsOf[l] :
              parentsOf[l][k] \in [name : STRING, path : Ledgers \cup {NoPath}]
<1> DEFINE S == [name : STRING, path : Ledgers \cup {NoPath}]
           decls == parentsOf[l]
<1>1. decls \in Seq(S)
  BY DEF ChainInv
<1> HIDE DEF S, decls
<1>2. \A k \in DOMAIN decls : decls[k] \in S
  BY <1>1
<1>3. QED
  BY <1>1, <1>2 DEF S, decls

\* A step asks only for the walks one ledger further up.
LEMMA StepsAgree ==
  ASSUME ChainInv, NEW at \in Ats, NEW f, NEW g,
         \A l \in Ledgers \ at[2] : f[<<l, at[2] \cup {l}>>] = g[<<l, at[2] \cup {l}>>]
  PROVE  Step(f, at) = Step(g, at)
<1> DEFINE decls == parentsOf[at[1]]
<1>1. at[1] \in Ledgers
  BY DEF Ats
<1>2. ASSUME NEW k \in DOMAIN decls
      PROVE  Hop(f, at[2], decls[k]) = Hop(g, at[2], decls[k])
  <2> DEFINE p == decls[k].path
  <2>1. p \in readable => p \in Ledgers
    BY DEF ChainInv
  <2>2. p \in readable /\ p \notin at[2] => f[<<p, at[2] \cup {p}>>] = g[<<p, at[2] \cup {p}>>]
    BY <2>1
  <2>3. QED
    BY <2>2 DEF Hop
<1> HIDE DEF decls
<1>3. [k \in DOMAIN decls |-> Hop(f, at[2], decls[k])]
      = [k \in DOMAIN decls |-> Hop(g, at[2], decls[k])]
  BY <1>2
<1>4. QED
  BY <1>3 DEF Step, decls

LEMMA WalksExist ==
  ASSUME ChainInv
  PROVE  \A n \in 0 .. Cardinality(Ledgers) + 1 : \E f : WalkedUpTo(f, n)
<1> DEFINE m == Cardinality(Ledgers) + 1
           S == {n \in 0 .. m : \E f : WalkedUpTo(f, n)}
<1>1. m \in Nat
  BY OneFurther
<1>2. \A at \in Ats : Left(at[2]) \in Nat
  <2>1. \A at \in Ats : at[2] \in SUBSET Ledgers
    BY DEF Ats
  <2>2. QED
    BY <2>1, OneFurther
<1>3. 0 \in S
  <2> DEFINE f == [at \in Ats |-> Cycle]
  <2>1. f = [at \in Ats |-> f[at]]
    OBVIOUS
  <2>2. \A at \in Ats : ~(Left(at[2]) < 0)
    BY <1>2
  <2> HIDE DEF f
  <2>3. WalkedUpTo(f, 0)
    BY <2>1, <2>2 DEF WalkedUpTo
  <2>4. QED
    BY <1>1, <2>3
<1>4. ASSUME NEW n \in 1 .. m, n - 1 \in S PROVE n \in S
  <2>1. PICK f : WalkedUpTo(f, n - 1)
    BY <1>4
  <2> DEFINE g == [at \in Ats |-> IF Left(at[2]) < n THEN Step(f, at) ELSE Cycle]
  <2>2. g = [at \in Ats |-> g[at]]
    OBVIOUS
  <2>3. ASSUME NEW at \in Ats, Left(at[2]) < n PROVE g[at] = Step(g, at)
    <3>1. at[2] \in SUBSET Ledgers
      BY DEF Ats
    <3>2. ASSUME NEW l \in Ledgers \ at[2]
          PROVE  f[<<l, at[2] \cup {l}>>] = g[<<l, at[2] \cup {l}>>]
      <4> DEFINE up == <<l, at[2] \cup {l}>>
      <4>1. up \in Ats /\ up[2] = at[2] \cup {l}
        BY <3>1 DEF Ats
      <4>2. Left(up[2]) = Left(at[2]) - 1
        BY <3>1, <4>1, OneFurther
      <4> HIDE DEF up
      <4>3. Left(up[2]) < n - 1 /\ Left(up[2]) < n
        BY <1>1, <1>2, <1>4, <2>3, <4>1, <4>2
      <4>4. f[up] = Step(f, up)
        BY <2>1, <4>1, <4>3 DEF WalkedUpTo
      <4>5. g[up] = Step(f, up)
        BY <4>1, <4>3
      <4>6. QED
        BY <4>4, <4>5 DEF up
    <3>3. Step(f, at) = Step(g, at)
      <4> HIDE DEF g
      <4>1. QED
        BY <3>2, StepsAgree
    <3>4. g[at] = Step(f, at)
      BY <2>3
    <3>5. QED
      BY <3>3, <3>4
  <2> HIDE DEF g
  <2>4. WalkedUpTo(g, n)
    BY <2>2, <2>3 DEF WalkedUpTo
  <2>5. QED
    BY <2>4
<1> HIDE DEF S
<1>5. \A n \in 0 .. m : n \in S
  <2> HIDE DEF m
  <2>1. QED
    BY <1>1, <1>3, <1>4, CountedUp
<1>6. QED
  BY <1>5 DEF S

\* The walk is what its steps make it.
LEMMA WalkedInSteps ==
  ASSUME ChainInv
  PROVE  \A at \in Ats : WalkParents[at] = Step(WalkParents, at)
<1> DEFINE m == Cardinality(Ledgers) + 1
<1>1. PICK f : WalkedUpTo(f, m)
  <2>1. m \in 0 .. m
    BY OneFurther
  <2>2. QED
    BY <2>1, WalksExist
<1>2. \A at \in Ats : Left(at[2]) < m
  <2>1. \A at \in Ats : at[2] \in SUBSET Ledgers
    BY DEF Ats
  <2>2. QED
    BY <2>1, OneFurther
<1>3. f = [at \in Ledgers \X SUBSET Ledgers |->
             LET decls == parentsOf[at[1]] IN
             Gathered([k \in DOMAIN decls |-> Hop(f, at[2], decls[k])])]
  BY <1>1, <1>2 DEF WalkedUpTo, Step, Ats
<1>4. WalkParents = [at \in Ledgers \X SUBSET Ledgers |->
             LET decls == parentsOf[at[1]] IN
             Gathered([k \in DOMAIN decls |-> Hop(WalkParents, at[2], decls[k])])]
  BY <1>3 DEF WalkParents
<1>5. QED
  BY <1>4 DEF Step, Ats

-----------------------------------------------------------------------------
\* Where the declarations lead from a ledger that can be read.
LEMMA ReachFacts ==
  ASSUME ChainInv, NEW l \in Ledgers
  PROVE  /\ Reach(l) \subseteq Ledgers /\ l \in Reach(l) /\ Closed(Reach(l))
         /\ \A S \in SUBSET Ledgers : l \in S /\ Closed(S) => Reach(l) \subseteq S
<1>1. Closed(Reach(l))
  BY DEF Reach, Closed
<1>2. QED
  BY <1>1 DEF Reach

LEMMA ReachThrough ==
  ASSUME ChainInv, NEW l \in Ledgers, NEW up \in Reach(l)
  PROVE  Reach(up) \subseteq Reach(l)
<1>1. up \in Ledgers /\ Reach(l) \in SUBSET Ledgers /\ Closed(Reach(l))
  BY ReachFacts
<1>2. QED
  BY <1>1, ReachFacts

\* Beyond itself a ledger leads where the ones it declares lead.
LEMMA ReachUnfolds ==
  ASSUME ChainInv, NEW l \in Ledgers
  PROVE  \A x \in Reach(l) : x = l \/ \E up \in Ledgers : Climbs(l, up) /\ x \in Reach(up)
<1> DEFINE S == {x \in Ledgers : x = l \/ \E up \in Ledgers : Climbs(l, up) /\ x \in Reach(up)}
<1>1. l \in S /\ S \in SUBSET Ledgers
  OBVIOUS
<1>2. ASSUME NEW x \in S, NEW up \in Ledgers, Climbs(x, up) PROVE up \in S
  <2>1. CASE x = l
    <3>1. up \in Reach(up)
      BY ReachFacts
    <3>2. QED
      BY <1>2, <2>1, <3>1
  <2>2. CASE x # l
    <3>1. PICK y \in Ledgers : Climbs(l, y) /\ x \in Reach(y)
      BY <2>2
    <3>2. Closed(Reach(y))
      BY ReachFacts
    <3>3. up \in Reach(y)
      BY <1>2, <3>1, <3>2 DEF Closed
    <3>4. QED
      BY <3>1, <3>3
  <2>3. QED
    BY <2>1, <2>2
<1> HIDE DEF S
<1>3. Reach(l) \subseteq S
  BY <1>1, <1>2, ReachFacts DEF Closed
<1>4. QED
  BY <1>3 DEF S

\* Whatever is reached is reached by a last declaration.
LEMMA ReachEnds ==
  ASSUME ChainInv, NEW l \in Ledgers, NEW x \in Reach(l), x # l
  PROVE  \E y \in Reach(l) : Climbs(y, x)
<1> DEFINE S == Reach(l) \ {x}
<1>1. SUFFICES ASSUME ~ \E y \in Reach(l) : Climbs(y, x) PROVE FALSE
  OBVIOUS
<1>2. Reach(l) \subseteq Ledgers /\ l \in Reach(l) /\ Closed(Reach(l))
  BY ReachFacts
<1>3. S \in SUBSET Ledgers /\ l \in S /\ Closed(S)
  BY <1>1, <1>2 DEF Closed
<1> HIDE DEF S
<1>4. Reach(l) \subseteq S
  BY <1>3, ReachFacts
<1>5. QED
  BY <1>4 DEF S

\* A ring above a ledger.
Rings(l) == \E x \in Reach(l), up \in Ledgers : Climbs(x, up) /\ x \in Reach(up)

\* The path of a walk is of ledgers that can be read and lead to its end.
Leading(at) ==
    /\ at[1] \in readable /\ at[1] \in at[2] /\ at[2] \subseteq readable
    /\ \A x \in at[2] : at[1] \in Reach(x)

LEMMA LeadingOn ==
  ASSUME ChainInv, NEW at \in Ats, Leading(at),
         NEW up \in Ledgers, Climbs(at[1], up)
  PROVE  <<up, at[2] \cup {up}>> \in Ats /\ Leading(<<up, at[2] \cup {up}>>)
<1> DEFINE on == <<up, at[2] \cup {up}>>
<1>1. on \in Ats /\ on[1] = up /\ on[2] = at[2] \cup {up} /\ at[1] \in Ledgers /\ at[2] \subseteq Ledgers
  BY DEF Ats
<1> HIDE DEF on
<1>2. up \in readable
  BY DEF Climbs
<1>3. ASSUME NEW x \in at[2] PROVE up \in Reach(x)
  <2>1. at[1] \in Reach(x) /\ x \in Ledgers
    BY <1>1 DEF Leading
  <2>2. Closed(Reach(x))
    BY <2>1, ReachFacts
  <2>3. QED
    BY <2>1, <2>2 DEF Closed
<1>4. up \in Reach(up)
  BY ReachFacts
<1>5. Leading(on)
  BY <1>1, <1>2, <1>3, <1>4 DEF Leading
<1>6. QED
  BY <1>1, <1>5 DEF on

AnyAncestor == [namespace : STRING, store : Ledgers \cup {NoPath}]

\* What a walk tells of a declaration, and of all that are above a ledger.
Told(decl) == Found(decl.name, IF decl.path \in readable THEN decl.path ELSE NoPath)
Reported(l) == {Told(d) : d \in UNION {Range(parentsOf[x]) : x \in Reach(l)}}

\* A walk that succeeds tells everything and has met no ring; one that fails
\* has met one.
WalkTells(at) ==
    LET hops == WalkParents[at] IN
    /\ hops.err \in BOOLEAN /\ hops.found \in Seq(AnyAncestor)
    /\ hops.err => Rings(at[1])
    /\ ~hops.err =>
          /\ Range(hops.found) = Reported(at[1]) /\ ~Rings(at[1])
          /\ \A x \in Reach(at[1]), up \in Ledgers : Climbs(x, up) => up \notin at[2]

LEMMA ReportedUnfolds ==
  ASSUME ChainInv, NEW l \in Ledgers
  PROVE  Reported(l) = {Told(d) : d \in Range(parentsOf[l])}
                    \cup UNION {Reported(up) : up \in {y \in Ledgers : Climbs(l, y)}}
<1>1. l \in Reach(l) /\ Closed(Reach(l))
  BY ReachFacts
<1>2. ASSUME NEW up \in Ledgers, Climbs(l, up) PROVE Reported(up) \subseteq Reported(l)
  <2>1. up \in Reach(l)
    BY <1>1, <1>2 DEF Closed
  <2>2. Reach(up) \subseteq Reach(l)
    BY <2>1, ReachThrough
  <2>3. QED
    BY <2>2 DEF Reported
<1>3. {Told(d) : d \in Range(parentsOf[l])} \subseteq Reported(l)
  BY <1>1 DEF Reported
<1>4. ASSUME NEW t \in Reported(l)
      PROVE  \/ t \in {Told(d) : d \in Range(parentsOf[l])}
             \/ \E up \in Ledgers : Climbs(l, up) /\ t \in Reported(up)
  <2>1. PICK x \in Reach(l) : \E d \in Range(parentsOf[x]) : t = Told(d)
    BY DEF Reported
  <2>2. CASE x = l
    BY <2>1, <2>2
  <2>3. CASE x # l
    <3>1. PICK up \in Ledgers : Climbs(l, up) /\ x \in Reach(up)
      BY <2>1, <2>3, ReachUnfolds
    <3>2. t \in Reported(up)
      BY <2>1, <3>1 DEF Reported
    <3>3. QED
      BY <3>1, <3>2
  <2>4. QED
    BY <2>2, <2>3
<1>5. QED
  BY <1>2, <1>3, <1>4

\* What one declaration contributes, once what is above it is told.
HopTells(part, at, decl) ==
    /\ part.err \in BOOLEAN /\ part.found \in Seq(AnyAncestor)
    /\ part.err <=> \/ decl.path \in at[2]
                    \/ /\ decl.path \in readable \ at[2]
                       /\ WalkParents[<<decl.path, at[2] \cup {decl.path}>>].err
    /\ ~part.err => Range(part.found) = {Told(decl)} \cup IF decl.path \in readable THEN Reported(decl.path) ELSE {}

LEMMA HopTold ==
  ASSUME ChainInv, NEW at \in Ats, Leading(at), NEW k \in DOMAIN parentsOf[at[1]],
         \A up \in Ledgers \ at[2] : Climbs(at[1], up) => WalkTells(<<up, at[2] \cup {up}>>)
  PROVE  HopTells(Hop(WalkParents, at[2], parentsOf[at[1]][k]), at, parentsOf[at[1]][k])
<1> DEFINE decl == parentsOf[at[1]][k]
           p == decl.path
           part == Hop(WalkParents, at[2], decl)
           on == <<p, at[2] \cup {p}>>
           up == WalkParents[on]
<1>1. at[1] \in Ledgers /\ at[1] \in readable /\ at[2] \subseteq readable
  BY DEF Ats, Leading
<1>2. decl \in [name : STRING, path : Ledgers \cup {NoPath}]
  BY <1>1, DeclarationFacts
<1>3. decl.name \in STRING /\ p \in Ledgers \cup {NoPath} /\ (p \in readable => p \in Ledgers)
  BY <1>2 DEF ChainInv
<1>4. Told(decl) \in AnyAncestor
  BY <1>3 DEF Told, Found, AnyAncestor
<1>5. <<Told(decl)>> \in Seq(AnyAncestor) /\ Range(<<Told(decl)>>) = {Told(decl)}
  BY <1>4 DEF Range
<1>6. <<>> \in Seq(AnyAncestor)
  OBVIOUS
<1>7. CASE p \in at[2]
  <2>1. part = Cycle
    BY <1>7 DEF Hop
  <2>2. part.err = TRUE /\ part.found = <<>>
    BY <2>1 DEF Cycle
  <2> HIDE DEF part
  <2>3. QED
    BY <1>6, <1>7, <2>2 DEF HopTells, part
<1>8. CASE p \notin at[2] /\ p \notin readable
  <2>1. part = Ancestors(<<Told(decl)>>)
    BY <1>8 DEF Hop, Told
  <2>2. part.err = FALSE /\ part.found = <<Told(decl)>>
    BY <2>1 DEF Ancestors
  <2> HIDE DEF part
  <2>3. QED
    BY <1>5, <1>8, <2>2 DEF HopTells, part
<1>9. CASE p \notin at[2] /\ p \in readable
  <2>1. Climbs(at[1], p)
    BY <1>1, <1>9 DEF Climbs
  <2>2. WalkTells(on) /\ on[1] = p
    BY <1>3, <1>9, <2>1
  <2>3. /\ up.err \in BOOLEAN /\ up.found \in Seq(AnyAncestor)
        /\ ~up.err => Range(up.found) = Reported(p)
    <3> HIDE DEF on
    <3>1. QED
      BY <2>2 DEF WalkTells
  <2>4. part = IF up.err THEN Cycle ELSE Ancestors(<<Told(decl)>> \o up.found)
    BY <1>9 DEF Hop, Told
  <2> DEFINE told == <<Told(decl)>>
             all == told \o up.found
  <2>5. part.err = up.err /\ (up.err => part.found = <<>>) /\ (~up.err => part.found = all)
    <3> HIDE DEF up, part, decl
    <3>1. CASE up.err
      BY <2>4, <2>3, <3>1 DEF Cycle
    <3>2. CASE ~up.err
      BY <2>4, <2>3, <3>2 DEF Ancestors
    <3>3. QED
      BY <3>1, <3>2
  <2>6. all \in Seq(AnyAncestor) /\ Range(all) = {Told(decl)} \cup Range(up.found)
    <3> HIDE DEF told, up
    <3>1. told \in Seq(AnyAncestor) /\ Range(told) = {Told(decl)}
      BY <1>5 DEF told
    <3>2. QED
      BY <2>3, <3>1, MembersOfBoth
  <2> HIDE DEF part, up, all
  <2>7. part.found \in Seq(AnyAncestor) /\ part.err \in BOOLEAN
    BY <1>6, <2>3, <2>5, <2>6
  <2>8. ~part.err => Range(part.found) = {Told(decl)} \cup Reported(p)
    BY <2>3, <2>5, <2>6
  <2>9. QED
    BY <1>9, <2>5, <2>7, <2>8 DEF HopTells, part, up
<1>10. QED
  BY <1>7, <1>8, <1>9

\* A declaration that is on the path closes a ring, and where there is none
\* nothing above leads back.
LEMMA RingsUnfold ==
  ASSUME ChainInv, NEW at \in Ats, Leading(at),
         \A up \in Ledgers : Climbs(at[1], up) =>
            /\ up \notin at[2] /\ ~Rings(up)
            /\ \A x \in Reach(up), y \in Ledgers : Climbs(x, y) => y \notin at[2] \cup {up}
  PROVE  /\ ~Rings(at[1])
         /\ \A x \in Reach(at[1]), y \in Ledgers : Climbs(x, y) => y \notin at[2]
<1>1. at[1] \in Ledgers /\ at[1] \in at[2]
  BY DEF Ats, Leading
<1>2. ASSUME NEW x \in Reach(at[1]), NEW y \in Ledgers, Climbs(x, y) PROVE y \notin at[2]
  <2>1. CASE x = at[1]
    BY <1>2, <2>1
  <2>2. CASE x # at[1]
    <3>1. PICK up \in Ledgers : Climbs(at[1], up) /\ x \in Reach(up)
      BY <1>1, <2>2, ReachUnfolds
    <3>2. QED
      BY <1>2, <3>1
  <2>3. QED
    BY <2>1, <2>2
<1>3. ASSUME NEW x \in Reach(at[1]), NEW y \in Ledgers, Climbs(x, y), x \in Reach(y) PROVE FALSE
  <2>1. CASE x = at[1]
    <3>1. y \notin at[2] /\ x # y
      BY <1>1, <1>3, <2>1
    <3>2. PICK z \in Reach(y) : Climbs(z, x)
      BY <1>3, <3>1, ReachEnds
    <3>3. QED
      BY <1>1, <1>3, <2>1, <3>2
  <2>2. CASE x # at[1]
    <3>1. PICK up \in Ledgers : Climbs(at[1], up) /\ x \in Reach(up)
      BY <1>1, <2>2, ReachUnfolds
    <3>2. QED
      BY <1>3, <3>1 DEF Rings
  <2>3. QED
    BY <2>1, <2>2
<1>4. QED
  BY <1>2, <1>3 DEF Rings

LEMMA WalkStepTold ==
  ASSUME ChainInv, NEW at \in Ats, Leading(at),
         \A up \in Ledgers \ at[2] : Climbs(at[1], up) => WalkTells(<<up, at[2] \cup {up}>>)
  PROVE  WalkTells(at)
<1> DEFINE decls == parentsOf[at[1]]
           parts == [k \in DOMAIN decls |-> Hop(WalkParents, at[2], decls[k])]
           lists == [k \in DOMAIN parts |-> parts[k].found]
           hops == WalkParents[at]
           part(k) == Hop(WalkParents, at[2], decls[k])
<1>1. at[1] \in Ledgers /\ at[1] \in readable /\ at[1] \in at[2] /\ at[2] \subseteq readable /\ at[2] \subseteq Ledgers
  BY DEF Ats, Leading
<1>2. hops = Gathered(parts)
  BY WalkedInSteps DEF Step
<1>3. \A k \in DOMAIN decls : HopTells(parts[k], at, decls[k])
  <2>1. \A k \in DOMAIN decls : HopTells(part(k), at, decls[k])
    BY HopTold
  <2>2. \A k \in DOMAIN decls : parts[k] = part(k)
    OBVIOUS
  <2> HIDE DEF part, parts
  <2>3. QED
    BY <2>1, <2>2
<1>4. DOMAIN parts = DOMAIN decls
  OBVIOUS
<1>5. \A k \in DOMAIN decls : decls[k] \in [name : STRING, path : Ledgers \cup {NoPath}]
  BY <1>1, DeclarationFacts
<1>6. Len(decls) \in Nat /\ DOMAIN decls = 1 .. Len(decls)
  <2> DEFINE S == [name : STRING, path : Ledgers \cup {NoPath}]
  <2>1. decls \in Seq(S)
    BY <1>1, DeclarationFacts
  <2> HIDE DEF decls, S
  <2>2. QED
    BY <2>1
<1> HIDE DEF decls, parts
\* Which declarations can be followed.
<1>7. \A k \in DOMAIN decls : decls[k].path \in readable =>
         decls[k].path \in Ledgers /\ Climbs(at[1], decls[k].path)
  BY <1>1 DEF Climbs, decls, ChainInv
<1>8. \A up \in Ledgers : Climbs(at[1], up) =>
         up \in readable /\ \E k \in DOMAIN decls : decls[k].path = up
  BY DEF Climbs, decls
<1>9. CASE \E k \in DOMAIN decls : parts[k].err
  <2>1. hops = Cycle
    BY <1>2, <1>4, <1>9 DEF Gathered
  <2>2. hops.err = TRUE /\ hops.found = <<>>
    BY <2>1 DEF Cycle
  <2>3. <<>> \in Seq(AnyAncestor)
    OBVIOUS
  <2>4. Rings(at[1])
    <3>1. PICK k \in DOMAIN decls : parts[k].err
      BY <1>9
    <3> DEFINE p == decls[k].path
    <3>2. p \in Ledgers /\ p \in readable /\ Climbs(at[1], p)
      BY <1>1, <1>3, <1>7, <3>1 DEF HopTells
    <3>3. at[1] \in Reach(at[1]) /\ p \in Reach(at[1])
      <4>1. at[1] \in Reach(at[1]) /\ Closed(Reach(at[1]))
        BY <1>1, ReachFacts
      <4>2. QED
        BY <3>2, <4>1 DEF Closed
    <3>4. CASE p \in at[2]
      BY <3>2, <3>3, <3>4 DEF Leading, Rings
    <3>5. CASE p \notin at[2]
      <4> DEFINE on == <<p, at[2] \cup {p}>>
      <4>1. WalkParents[on].err /\ WalkTells(on) /\ on[1] = p
        BY <1>3, <3>1, <3>2, <3>5 DEF HopTells
      <4> HIDE DEF on
      <4>2. Rings(p)
        BY <4>1 DEF WalkTells
      <4>3. Reach(p) \subseteq Reach(at[1])
        BY <1>1, <3>3, ReachThrough
      <4>4. QED
        BY <4>2, <4>3 DEF Rings
    <3>6. QED
      BY <3>4, <3>5
  <2> HIDE DEF hops
  <2>5. QED
    BY <2>2, <2>3, <2>4 DEF WalkTells, hops
<1>10. CASE \A k \in DOMAIN decls : ~parts[k].err
  <2>1. hops = Ancestors(FlattenSeq(lists))
    BY <1>2, <1>4, <1>10 DEF Gathered
  <2>2. hops.err = FALSE /\ hops.found = FlattenSeq(lists)
    BY <2>1 DEF Ancestors
  <2>3. \A k \in DOMAIN decls : lists[k] = parts[k].found /\ lists[k] \in Seq(AnyAncestor)
    BY <1>3, <1>4 DEF HopTells
  <2>4. lists \in Seq(Seq(AnyAncestor)) /\ DOMAIN lists = DOMAIN decls
    <3>1. DOMAIN lists = 1 .. Len(decls)
      BY <1>4, <1>6
    <3>2. lists = [k \in 1 .. Len(decls) |-> lists[k]]
      BY <1>4, <1>6
    <3> HIDE DEF lists
    <3>3. QED
      BY <1>6, <2>3, <3>1, <3>2
  <2> HIDE DEF lists, hops
  <2>5. /\ FlattenSeq(lists) \in Seq(AnyAncestor)
        /\ Range(FlattenSeq(lists)) = UNION {Range(lists[k]) : k \in DOMAIN lists}
    BY <2>4, FlattenedMembers
  <2>6. \A k \in DOMAIN decls :
           Range(lists[k]) = {Told(decls[k])} \cup IF decls[k].path \in readable THEN Reported(decls[k].path) ELSE {}
    BY <1>3, <1>10, <2>3 DEF HopTells
  <2>7. Range(hops.found) = Reported(at[1])
    <3>1. Range(decls) = {decls[k] : k \in DOMAIN decls}
      BY DEF Range
    <3>2. UNION {Range(lists[k]) : k \in DOMAIN decls}
          = {Told(decls[k]) : k \in DOMAIN decls}
            \cup UNION {Reported(up) : up \in {y \in Ledgers : Climbs(at[1], y)}}
      BY <1>7, <1>8, <2>6
    <3>3. {Told(d) : d \in Range(decls)} = {Told(decls[k]) : k \in DOMAIN decls}
      BY <3>1
    <3>4. Reported(at[1]) = {Told(d) : d \in Range(decls)}
                         \cup UNION {Reported(up) : up \in {y \in Ledgers : Climbs(at[1], y)}}
      BY <1>1, ReportedUnfolds DEF decls
    <3>5. QED
      BY <2>2, <2>4, <2>5, <3>2, <3>3, <3>4
  <2>8. ASSUME NEW up \in Ledgers, Climbs(at[1], up)
        PROVE  /\ up \notin at[2] /\ ~Rings(up)
               /\ \A x \in Reach(up), y \in Ledgers : Climbs(x, y) => y \notin at[2] \cup {up}
    <3>1. PICK k \in DOMAIN decls : decls[k].path = up
      BY <1>8, <2>8
    <3> DEFINE on == <<up, at[2] \cup {up}>>
    <3>2. up \notin at[2] /\ ~WalkParents[on].err
      BY <1>3, <1>8, <1>10, <2>8, <3>1 DEF HopTells
    <3>3. WalkTells(on) /\ on[1] = up /\ on[2] = at[2] \cup {up}
      BY <2>8, <3>2
    <3> HIDE DEF on
    <3>4. QED
      BY <3>2, <3>3 DEF WalkTells
  <2>9. /\ ~Rings(at[1])
        /\ \A x \in Reach(at[1]), y \in Ledgers : Climbs(x, y) => y \notin at[2]
    BY <2>8, RingsUnfold
  <2>10. QED
    BY <2>2, <2>5, <2>7, <2>9 DEF WalkTells, hops
<1>11. QED
  BY <1>9, <1>10

\* Every walk tells, the longest paths first.
LEMMA WalksTell ==
  ASSUME ChainInv
  PROVE  \A at \in Ats : Leading(at) => WalkTells(at)
<1> DEFINE m == Cardinality(Ledgers) + 1
           S == {n \in 0 .. m : \A at \in Ats : Leading(at) /\ Left(at[2]) < n => WalkTells(at)}
<1>1. m \in Nat /\ m \in 0 .. m
  BY OneFurther
<1>2. \A at \in Ats : at[2] \in SUBSET Ledgers /\ Left(at[2]) \in Nat /\ Left(at[2]) < m
  <2>1. \A at \in Ats : at[2] \in SUBSET Ledgers
    BY DEF Ats
  <2>2. QED
    BY <2>1, OneFurther
<1> HIDE DEF m
<1>3. 0 \in S
  BY <1>1, <1>2
<1>4. ASSUME NEW n \in 1 .. m, n - 1 \in S PROVE n \in S
  <2>1. ASSUME NEW at \in Ats, Leading(at), Left(at[2]) < n PROVE WalkTells(at)
    <3>1. ASSUME NEW up \in Ledgers \ at[2], Climbs(at[1], up) PROVE WalkTells(<<up, at[2] \cup {up}>>)
      <4> DEFINE on == <<up, at[2] \cup {up}>>
      <4>1. on \in Ats /\ Leading(on)
        BY <2>1, <3>1, LeadingOn
      <4>2. Left(on[2]) = Left(at[2]) - 1
        BY <1>2, OneFurther
      <4> HIDE DEF on
      <4>3. Left(on[2]) < n - 1
        BY <1>1, <1>2, <1>4, <2>1, <4>1, <4>2
      <4>4. WalkTells(on)
        BY <1>4, <4>1, <4>3
      <4>5. QED
        BY <4>4 DEF on
    <3>2. QED
      BY <2>1, <3>1, WalkStepTold
  <2>2. QED
    BY <1>1, <2>1
<1> HIDE DEF S
<1>5. \A n \in 0 .. m : n \in S
  BY <1>1, <1>3, <1>4, CountedUp
<1>6. QED
  BY <1>1, <1>2, <1>5 DEF S

LEMMA ChainStays == ASSUME ChainInv, [DriftNext]_driftVars PROVE ChainInv'
<1>1. CASE UNCHANGED driftVars
  BY <1>1 DEF ChainInv, driftVars
<1>2. ASSUME NEW ref \in Refs, Classify(ref) PROVE ChainInv'
  BY <1>2 DEF ChainInv, Classify
<1>3. ASSUME NEW l \in Ledgers, Unmount(l) PROVE ChainInv'
  BY <1>3 DEF ChainInv, Unmount
<1>4. QED
  BY <1>1, <1>2, <1>3 DEF DriftNext

\* Whatever parents come and go, the chain stays what the configurations
\* declare: a sequence of names and paths for each ledger, and the ledger
\* `dira drift` runs in can be read.
THEOREM ChainInvariance == DriftSpec => []ChainInv
<1>1. DriftInit => ChainInv
  BY DriftAssumption DEF DriftInit, ChainInv
<1>2. ChainInv /\ [DriftNext]_driftVars => ChainInv'
  BY ChainStays
<1>3. QED
  BY <1>1, <1>2, PTL DEF DriftSpec

\* What Resolve makes of a name, in terms of the declarations.
LEMMA ResolvedAsDeclared ==
  ASSUME ChainInv, NEW name, NEW id
  PROVE  LET found == Resolve(name, id)  named == Readable(name) IN
         /\ found = "undeclared" <=> ~Ring /\ Declared(name) = {}
         /\ found = "oriented" => ~Ring /\ \E l \in named : id \in holds[l]
         /\ ~Ring /\ named # {} /\ (\A l \in named : id \in holds[l]) => found = "oriented"
<1> DEFINE at == <<Own, {Own}>>
           found == Walk.found
           named == {k \in DOMAIN found : found[k].namespace = name}
           open == {k \in named : found[k].store # NoPath}
<1>1. at \in Ats /\ at[1] = Own /\ at[2] = {Own} /\ Own \in Ledgers /\ Own \in readable /\ readable \subseteq Ledgers
  BY DriftAssumption DEF Ats, ChainInv
<1>2. Own \in Reach(Own) /\ Closed(Reach(Own)) /\ Reach(Own) \subseteq Ledgers
  BY <1>1, ReachFacts
<1>3. WalkTells(at)
  <2>1. Leading(at)
    BY <1>1, <1>2 DEF Leading
  <2>2. QED
    BY <1>1, <2>1, WalksTell
<1>4. /\ Walk.err \in BOOLEAN /\ found \in Seq(AnyAncestor)
      /\ Walk.err <=> Ring
      /\ ~Walk.err => Range(found) = Reported(Own)
  <2>1. Rings(Own) <=> Ring
    BY DEF Rings, Ring, Climbed
  <2> HIDE DEF at
  <2>2. QED
    BY <1>1, <1>3, <2>1 DEF WalkTells, Walk, at
<1> HIDE DEF at, found
<1>5. DOMAIN found \in SUBSET Nat /\ \A k \in DOMAIN found : found[k] \in AnyAncestor
  BY <1>4
<1>6. NoPath \notin Ledgers /\ NoPath \notin readable
  BY <1>1, DriftAssumption
<1>7. ASSUME NEW x \in Reach(Own), NEW d \in Range(parentsOf[x])
      PROVE  \E k \in DOMAIN parentsOf[x] : d = parentsOf[x][k] /\ d \in [name : STRING, path : Ledgers \cup {NoPath}]
  BY <1>2, DeclarationFacts DEF Range
\* All that is reached can be read.
<1>8. Reach(Own) \subseteq readable
  <2>1. Closed(readable)
    BY DEF Closed, Climbs
  <2>2. QED
    BY <1>1, <2>1, ReachFacts
<1>9. CASE Walk.err
  <2>1. Resolve(name, id) = "error"
    BY <1>9 DEF Resolve
  <2>2. QED
    BY <1>4, <1>9, <2>1
<1>10. CASE ~Walk.err
  <2>1. Range(found) = Reported(Own) /\ ~Ring
    BY <1>4, <1>10
  <2>2. named = {} <=> Declared(name) = {}
    <3>1. ASSUME NEW k \in named PROVE Declared(name) # {}
      <4>1. found[k] \in Reported(Own) /\ found[k].namespace = name
        BY <2>1, <3>1 DEF Range
      <4>2. PICK x \in Reach(Own) : \E d \in Range(parentsOf[x]) : found[k] = Told(d)
        BY <4>1 DEF Reported
      <4>3. PICK d \in Range(parentsOf[x]) : found[k] = Told(d)
        BY <4>2
      <4>4. d.name = name
        BY <4>1, <4>3 DEF Told, Found
      <4>5. QED
        BY <1>7, <4>4 DEF Declared, Climbed
    <3>2. ASSUME NEW x \in Declared(name) PROVE named # {}
      <4>1. PICK k \in DOMAIN parentsOf[x] : x \in Reach(Own) /\ parentsOf[x][k].name = name
        BY <3>2 DEF Declared, Climbed
      <4> DEFINE d == parentsOf[x][k]
      <4>2. d \in Range(parentsOf[x]) /\ d.name = name
        BY <4>1 DEF Range
      <4> HIDE DEF d
      <4>3. Told(d) \in Range(found) /\ Told(d).namespace = name
        BY <2>1, <4>1, <4>2 DEF Reported, Told, Found
      <4>4. QED
        BY <4>3 DEF Range
    <3>3. QED
      BY <3>1, <3>2
  <2>3. ASSUME NEW k \in open PROVE found[k].store \in Readable(name)
    <3>1. found[k] \in Reported(Own) /\ found[k].namespace = name /\ found[k].store # NoPath
      BY <2>1, <2>3 DEF Range
    <3>2. PICK x \in Reach(Own) : \E d \in Range(parentsOf[x]) : found[k] = Told(d)
      BY <3>1 DEF Reported
    <3>3. PICK d \in Range(parentsOf[x]) : found[k] = Told(d)
      BY <3>2
    <3>4. d.name = name /\ d.path \in readable /\ found[k].store = d.path
      BY <3>1, <3>3 DEF Told, Found
    <3>5. PICK j \in DOMAIN parentsOf[x] : d = parentsOf[x][j] /\ d \in [name : STRING, path : Ledgers \cup {NoPath}]
      BY <1>7
    <3>6. Climbs(x, d.path)
      BY <1>8, <3>4, <3>5 DEF Climbs
    <3>7. d.path \in Reach(Own)
      BY <1>1, <1>2, <3>4, <3>6 DEF Closed
    <3>8. d = [name |-> name, path |-> d.path]
      BY <3>4, <3>5
    <3>9. QED
      BY <3>4, <3>5, <3>7, <3>8 DEF Readable, Climbed
  <2>4. Readable(name) # {} => open # {}
    <3>1. ASSUME NEW l \in Readable(name) PROVE open # {}
      <4>1. PICK x \in Reach(Own) : \E k \in DOMAIN parentsOf[x] : parentsOf[x][k] = [name |-> name, path |-> l]
        BY <3>1 DEF Readable, Climbed
      <4> DEFINE d == [name |-> name, path |-> l]
      <4>2. d \in Range(parentsOf[x]) /\ l \in readable
        BY <1>8, <3>1, <4>1 DEF Range, Readable, Climbed
      <4>3. Told(d) \in Range(found) /\ Told(d).namespace = name /\ Told(d).store = l
        BY <2>1, <4>2 DEF Reported, Told, Found
      <4> HIDE DEF d
      <4>4. QED
        BY <1>6, <4>2, <4>3 DEF Range
    <3>2. QED
      BY <3>1
  <2>5. CASE open # {}
    <3> DEFINE l == found[Min(open)].store
    <3>1. open \in SUBSET Nat
      BY <1>5
    <3>2. Min(open) \in open
      <4> HIDE DEF open
      <4>1. QED
        BY <2>5, <3>1, MinIsIn
    <3>3. l \in Readable(name)
      <4> HIDE DEF open
      <4>1. QED
        BY <2>3, <3>2
    <3>4. Resolve(name, id) = IF id \in holds[l] THEN "oriented" ELSE "error"
      BY <1>10, <2>5 DEF Resolve, found
    <3>5. Declared(name) # {}
      BY <2>2, <2>5
    <3> HIDE DEF l
    <3>6. QED
      BY <2>1, <3>3, <3>4, <3>5
  <2>6. CASE open = {}
    <3>1. Resolve(name, id) = IF named # {} THEN "withheld" ELSE "undeclared"
      BY <1>10, <2>6 DEF Resolve, found
    <3>2. Readable(name) = {}
      BY <2>4, <2>6
    <3> HIDE DEF named, open
    <3>3. QED
      BY <2>1, <2>2, <3>1, <3>2
  <2>7. QED
    BY <2>5, <2>6
<1>11. QED
  BY <1>4, <1>9, <1>10

\* A reference with a namespace is looked for under it.
LEMMA NamedRefs ==
  ASSUME NEW ref, ref.name # ""
  PROVE  splitRef(ref) = ref /\ ref # NoEdge
<1>1. NoEdge.name = ""
  BY DEF NoEdge
<1>2. QED
  BY <1>1 DEF splitRef

\* What `dira drift` says of the reference of an intent is what the
\* declarations say when it is read, whichever parents went while it ran: it
\* is broken exactly when no parent that is reached declares its ledger,
\* oriented only when a ledger of that name can be read and holds the entry,
\* and oriented if all of that name do; a ring of parents withholds it.
THEOREM DriftIsTrue == DriftSpec => ClassifiedAsDeclared
<1> DEFINE said == latest'.class
           named == Readable(latest'.ref.name)
           id == latest'.ref.id
           AsSaid == latest' # latest /\ latest'.ref.name # "" =>
                      /\ said = "broken" <=> ~Ring /\ Declared(latest'.ref.name) = {}
                      /\ said = "oriented" => ~Ring /\ \E l \in named : id \in holds[l]
                      /\ ~Ring /\ named # {} /\ (\A l \in named : id \in holds[l]) => said = "oriented"
<1>1. ChainInv /\ [DriftNext]_driftVars => [AsSaid]_driftVars
  <2>1. SUFFICES ASSUME ChainInv, DriftNext, latest' # latest, latest'.ref.name # ""
                 PROVE  AsSaid
    BY DEF driftVars
  <2>2. PICK ref \in Refs : Classify(ref)
    BY <2>1 DEF DriftNext, Unmount
  <2>3. latest'.ref = ref /\ said = classifyOne(ref) /\ ref.name # ""
    BY <2>1, <2>2 DEF Classify
  <2>4. splitRef(ref) = ref /\ ref # NoEdge
    BY <2>3, NamedRefs
  <2> DEFINE found == Resolve(ref.name, ref.id)
  <2>5. /\ said = "broken" <=> found = "undeclared"
        /\ said = "oriented" <=> found = "oriented"
    <3>1. classifyOne(ref) = CASE ref = NoEdge -> "orphan"
                               [] ref # NoEdge /\ found = "undeclared" -> "broken"
                               [] ref # NoEdge /\ found = "oriented" -> "oriented"
                               [] OTHER -> "withheld"
      BY <2>4 DEF classifyOne
    <3> HIDE DEF found
    <3>2. CASE found = "undeclared"
      BY <2>3, <2>4, <3>1, <3>2
    <3>3. CASE found = "oriented"
      BY <2>3, <2>4, <3>1, <3>3
    <3>4. CASE found # "undeclared" /\ found # "oriented"
      BY <2>3, <2>4, <3>1, <3>4
    <3>5. QED
      BY <3>2, <3>3, <3>4
  <2>6. LET open == Readable(ref.name) IN
        /\ found = "undeclared" <=> ~Ring /\ Declared(ref.name) = {}
        /\ found = "oriented" => ~Ring /\ \E l \in open : ref.id \in holds[l]
        /\ ~Ring /\ open # {} /\ (\A l \in open : ref.id \in holds[l]) => found = "oriented"
    BY <2>1, ResolvedAsDeclared
  <2> HIDE DEF found, said
  <2>7. QED
    BY <2>3, <2>5, <2>6
<1>2. [][AsSaid]_driftVars => ClassifiedAsDeclared
  BY DEF ClassifiedAsDeclared
<1> HIDE DEF AsSaid
<1>3. QED
  BY <1>1, <1>2, ChainInvariance, PTL DEF DriftSpec

-----------------------------------------------------------------------------
(***************************************************************************)
(* The ancestry of an entry.                                               *)
(***************************************************************************)
WhyEdges == [type : STRING, to : STRING]

WhyInv ==
    /\ IsFiniteSet(DOMAIN ancestry)
    /\ \A id \in DOMAIN ancestry : ancestry[id] \in Seq(WhyEdges)

LEMMA EdgeFacts ==
  ASSUME WhyInv, NEW id \in DOMAIN ancestry
  PROVE  /\ Len(ancestry[id]) \in Nat /\ DOMAIN ancestry[id] = 1 .. Len(ancestry[id])
         /\ id \in WhyRefs
         /\ \A k \in 1 .. Len(ancestry[id]) : Derives(ancestry[id][k]) => ancestry[id][k].to \in Parents(id)
         /\ \A up \in Parents(id) : up \in WhyRefs /\
              \E k \in 1 .. Len(ancestry[id]) : Derives(ancestry[id][k]) /\ ancestry[id][k].to = up
<1> DEFINE edges == ancestry[id]
<1>1. edges \in Seq(WhyEdges)
  BY DEF WhyInv
<1>2. Parents(id) = {e.to : e \in {x \in Range(edges) : Derives(x)}}
  BY DEF Parents
<1>3. id \in WhyRefs /\ Parents(id) \subseteq WhyRefs
  BY DEF WhyRefs
<1> HIDE DEF edges
<1>4. Len(edges) \in Nat /\ DOMAIN edges = 1 .. Len(edges)
  BY <1>1
<1>5. Range(edges) = {edges[k] : k \in 1 .. Len(edges)}
  BY <1>4 DEF Range
<1>6. QED
  BY <1>2, <1>3, <1>4, <1>5 DEF edges

LEMMA NoParents ==
  ASSUME NEW id, NEW up \in Parents(id)
  PROVE  id \in DOMAIN ancestry
BY DEF Parents

LEMMA RefsAreFinite ==
  ASSUME WhyInv
  PROVE  IsFiniteSet(WhyRefs) /\ Cardinality(WhyRefs) \in Nat
<1> DEFINE of == [id \in DOMAIN ancestry |-> {id} \cup Parents(id)]
<1>1. WhyRefs = UNION {of[id] : id \in DOMAIN ancestry}
  BY DEF WhyRefs
<1>2. IsFiniteSet({of[id] : id \in DOMAIN ancestry})
  BY FiniteImage DEF WhyInv
<1>3. ASSUME NEW id \in DOMAIN ancestry PROVE IsFiniteSet(of[id])
  <2> DEFINE to == [k \in 1 .. Len(ancestry[id]) |-> ancestry[id][k].to]
             all == {to[k] : k \in 1 .. Len(ancestry[id])}
  <2>1. IsFiniteSet(1 .. Len(ancestry[id]))
    BY EdgeFacts, FS_Interval
  <2>2. IsFiniteSet(all)
    BY <2>1, FiniteImage
  <2>3. Parents(id) \in SUBSET all
    BY EdgeFacts
  <2> HIDE DEF all
  <2>4. IsFiniteSet(Parents(id))
    BY <2>2, <2>3, FS_Subset
  <2>5. IsFiniteSet({id} \cup Parents(id))
    <3>1. {id} \cup Parents(id) = Parents(id) \cup {id}
      OBVIOUS
    <3>2. QED
      BY <2>4, <3>1, FS_AddElement
  <2>6. QED
    BY <2>5
<1> HIDE DEF of
<1>4. IsFiniteSet(UNION {of[id] : id \in DOMAIN ancestry})
  BY <1>2, <1>3, FS_UNION
<1>5. QED
  BY <1>1, <1>4, FS_CardinalityType

-----------------------------------------------------------------------------
\* What has been made of any of the first k edges.
FollowedUpTo(f, k, walks, at) ==
    f = [t \in SUBSET (1 .. k) |->
           IF t = {} THEN at.built ELSE Follow(walks, at, f[t \ {Max(t)}], ancestry[at.id][Max(t)])]

LEMMA FollowingExists ==
  ASSUME NEW walks, NEW at, NEW n \in Nat
  PROVE  \A k \in 0 .. n : \E f : FollowedUpTo(f, k, walks, at)
<1> DEFINE S == {k \in 0 .. n : \E f : FollowedUpTo(f, k, walks, at)}
           one(f, t) == Follow(walks, at, f[t \ {Max(t)}], ancestry[at.id][Max(t)])
<1>1. 0 \in S
  <2> DEFINE f == [t \in SUBSET (1 .. 0) |-> at.built]
  <2>1. f = [t \in SUBSET (1 .. 0) |-> IF t = {} THEN at.built ELSE one(f, t)]
    OBVIOUS
  <2> HIDE DEF f
  <2>2. FollowedUpTo(f, 0, walks, at)
    BY <2>1 DEF FollowedUpTo
  <2>3. QED
    BY <2>2
<1>2. ASSUME NEW k \in 1 .. n, k - 1 \in S PROVE k \in S
  <2>1. PICK f : FollowedUpTo(f, k - 1, walks, at)
    BY <1>2
  <2>2. f = [t \in SUBSET (1 .. k - 1) |-> IF t = {} THEN at.built ELSE one(f, t)]
    BY <2>1 DEF FollowedUpTo
  <2> DEFINE g == [t \in SUBSET (1 .. k) |->
                     IF k \in t THEN Follow(walks, at, f[t \ {k}], ancestry[at.id][k]) ELSE f[t]]
  <2>3. \A t \in SUBSET (1 .. k - 1) : t \in SUBSET (1 .. k) /\ k \notin t
    BY <1>2
  <2>4. \A t \in SUBSET (1 .. k - 1) : g[t] = f[t]
    BY <2>3
  <2>5. ASSUME NEW t \in SUBSET (1 .. k)
        PROVE  g[t] = IF t = {} THEN at.built ELSE one(g, t)
    <3>1. CASE k \in t
      <4>1. Max(t) = k
        BY <1>2, <3>1, GreatestUpTo
      <4>2. t \ {k} \in SUBSET (1 .. k - 1)
        BY <1>2
      <4>3. g[t \ {k}] = f[t \ {k}]
        BY <2>4, <4>2
      <4>4. g[t] = Follow(walks, at, f[t \ {k}], ancestry[at.id][k])
        BY <3>1
      <4> HIDE DEF g
      <4>5. QED
        BY <3>1, <4>1, <4>3, <4>4
    <3>2. CASE k \notin t
      <4>1. t \in SUBSET (1 .. k - 1)
        BY <1>2, <3>2
      <4>2. g[t] = f[t] /\ \A m : g[t \ {m}] = f[t \ {m}]
        BY <2>4, <4>1
      <4>3. f[t] = IF t = {} THEN at.built ELSE one(f, t)
        BY <2>2, <4>1
      <4> HIDE DEF g
      <4>4. QED
        BY <4>2, <4>3
    <3>3. QED
      BY <3>1, <3>2
  <2>6. g = [t \in SUBSET (1 .. k) |-> g[t]]
    OBVIOUS
  <2> HIDE DEF g
  <2>7. g = [t \in SUBSET (1 .. k) |-> IF t = {} THEN at.built ELSE one(g, t)]
    BY <2>5, <2>6
  <2>8. FollowedUpTo(g, k, walks, at)
    BY <2>7 DEF FollowedUpTo
  <2>9. QED
    BY <2>8
<1> HIDE DEF S
<1>3. \A k \in 0 .. n : k \in S
  BY <1>1, <1>2, CountedUp
<1>4. QED
  BY <1>3 DEF S

\* One entry of the walk, from what the descents further up come to.
Visited(walks, at) ==
    FoldLeft(LAMBDA built, edge : Follow(walks, at, built, edge), at.built, ancestry[at.id])

\* The builder after each edge.
Edgewise(after, walks, at) ==
    /\ after[0] = at.built
    /\ \A k \in 1 .. Len(ancestry[at.id]) :
          after[k] = Follow(walks, at, after[k - 1], ancestry[at.id][k])
    /\ Visited(walks, at) = after[Len(ancestry[at.id])]

LEMMA EdgeByEdge ==
  ASSUME WhyInv, NEW walks, NEW at, at.id \in DOMAIN ancestry
  PROVE  \E after : Edgewise(after, walks, at)
<1> DEFINE edges == ancestry[at.id]
           n == Len(edges)
           iter == CHOOSE f : f = [t \in SUBSET DOMAIN edges |->
                      IF t = {} THEN at.built ELSE Follow(walks, at, f[t \ {Max(t)}], edges[Max(t)])]
           after == [k \in 0 .. n |-> iter[1 .. k]]
<1>1. n \in Nat /\ DOMAIN edges = 1 .. n
  BY EdgeFacts
<1>2. Visited(walks, at) = iter[DOMAIN edges]
  BY DEF Visited, FoldLeft, MapThenFoldSet
<1>3. iter = [t \in SUBSET (1 .. n) |->
                IF t = {} THEN at.built ELSE Follow(walks, at, iter[t \ {Max(t)}], edges[Max(t)])]
  <2> HIDE DEF n
  <2>1. n \in 0 .. n
    BY <1>1
  <2>2. PICK f : FollowedUpTo(f, n, walks, at)
    BY <1>1, <2>1, FollowingExists
  <2>3. f = [t \in SUBSET DOMAIN edges |->
               IF t = {} THEN at.built ELSE Follow(walks, at, f[t \ {Max(t)}], edges[Max(t)])]
    BY <1>1, <2>2 DEF FollowedUpTo
  <2> HIDE DEF edges
  <2>4. iter = [t \in SUBSET DOMAIN edges |->
                  IF t = {} THEN at.built ELSE Follow(walks, at, iter[t \ {Max(t)}], edges[Max(t)])]
    BY <2>3
  <2>5. QED
    BY <1>1, <2>4
<1> HIDE DEF iter, n, edges
<1>4. \A t \in SUBSET (1 .. n) :
        iter[t] = IF t = {} THEN at.built ELSE Follow(walks, at, iter[t \ {Max(t)}], edges[Max(t)])
  BY <1>3
<1>5. after[0] = at.built
  <2>1. 1 .. 0 = {} /\ {} \in SUBSET (1 .. n) /\ 0 \in 0 .. n
    BY <1>1
  <2>2. QED
    BY <1>4, <2>1
<1>6. ASSUME NEW k \in 1 .. n PROVE after[k] = Follow(walks, at, after[k - 1], edges[k])
  <2>1. k \in Nat /\ k \in 1 .. k /\ k \in 0 .. n /\ k - 1 \in 0 .. n
    BY <1>1
  <2>2. Max(1 .. k) = k
    BY <2>1, GreatestUpTo
  <2>3. 1 .. k \in SUBSET (1 .. n) /\ 1 .. k # {} /\ (1 .. k) \ {k} = 1 .. k - 1
    BY <1>1, <2>1
  <2>4. iter[1 .. k] = Follow(walks, at, iter[1 .. k - 1], edges[k])
    BY <1>4, <2>2, <2>3
  <2>5. QED
    BY <2>1, <2>4
<1>7. Visited(walks, at) = after[n]
  <2>1. n \in 0 .. n
    BY <1>1
  <2>2. QED
    BY <1>1, <1>2, <2>1
<1> HIDE DEF after
<1>8. Edgewise(after, walks, at)
  BY <1>5, <1>6, <1>7 DEF Edgewise, n, edges
<1>9. QED
  BY <1>8

-----------------------------------------------------------------------------
\* Where a descent goes on.
Further(at, up, built) ==
    [id |-> up, depth |-> at.depth + 1, path |-> at.path \cup {up}, built |-> AtDepth(built, up, at.depth + 1)]

LEMMA DeeperFacts ==
  ASSUME NEW built \in Builders, NEW up \in WhyRefs, NEW depth \in Nat
  PROVE  LET deeper == AtDepth(built, up, depth) IN
         /\ deeper \in Builders /\ deeper.cycle = built.cycle
         /\ \A ref \in WhyRefs : deeper.depth[ref] = IF ref = up THEN depth ELSE built.depth[ref]
<1>1. built.depth \in [WhyRefs -> Nat] /\ built.cycle \in SUBSET WhyRefs
  BY DEF Builders
<1> DEFINE d == [built.depth EXCEPT ![up] = depth]
<1>2. d \in [WhyRefs -> Nat] /\ \A ref \in WhyRefs : d[ref] = IF ref = up THEN depth ELSE built.depth[ref]
  BY <1>1
<1>3. AtDepth(built, up, depth) = [depth |-> d, cycle |-> built.cycle]
  BY DEF AtDepth, Builders
<1> HIDE DEF d
<1>4. QED
  BY <1>1, <1>2, <1>3 DEF Builders

LEMMA LoopFacts ==
  ASSUME NEW built \in Builders, NEW up \in WhyRefs
  PROVE  LET closed == [built EXCEPT !.cycle = @ \cup {up}] IN
         closed \in Builders /\ closed.depth = built.depth /\ closed.cycle = built.cycle \cup {up}
BY DEF Builders

LEMMA FurtherFacts ==
  ASSUME NEW at \in Descents, NEW up \in DOMAIN ancestry, NEW built \in Builders
  PROVE  /\ Further(at, up, built) \in Descents
         /\ Further(at, up, built).path = at.path \cup {up}
         /\ Further(at, up, built).built \in Builders
<1>1. up \in WhyRefs /\ at.depth \in Nat /\ at.depth + 1 \in Nat /\ at.path \in SUBSET WhyRefs
  BY DEF Descents, WhyRefs
<1>2. AtDepth(built, up, at.depth + 1) \in Builders
  BY <1>1, DeeperFacts
<1>3. QED
  BY <1>1, <1>2 DEF Further, Descents

\* What becomes of the builder on one edge, by case.
LEMMA FollowedEdge ==
  ASSUME WhyInv, NEW walks, NEW at \in Descents, NEW built \in Builders, NEW k \in 1 .. Len(ancestry[at.id])
  PROVE  LET edge == ancestry[at.id][k]
             up == edge.to
             onward == Follow(walks, at, built, edge)
         IN  \/ ~Derives(edge) /\ onward = built
             \/ /\ Derives(edge) /\ up \in Parents(at.id) /\ up \in WhyRefs
                /\ \/ up \in at.path /\ onward = [built EXCEPT !.cycle = @ \cup {up}]
                   \/ up \notin at.path /\ built.depth[up] >= at.depth + 1 /\ onward = built
                   \/ /\ up \notin at.path \cup DOMAIN ancestry /\ ~(built.depth[up] >= at.depth + 1)
                      /\ onward = AtDepth(built, up, at.depth + 1)
                   \/ /\ up \in DOMAIN ancestry \ at.path /\ ~(built.depth[up] >= at.depth + 1)
                      /\ onward = walks[Further(at, up, built)]
<1>1. at.id \in DOMAIN ancestry
  BY DEF Descents
<1> DEFINE edge == ancestry[at.id][k]
<1>2. Derives(edge) => edge.to \in Parents(at.id) /\ edge.to \in WhyRefs
  BY <1>1, EdgeFacts
<1> HIDE DEF edge
<1>3. QED
  BY <1>2 DEF Follow, Known, Further, edge

LEMMA EdgesKeepType ==
  ASSUME WhyInv, NEW walks, NEW at \in Descents,
         \A d \in Descents : \A up \in WhyRefs \ at.path : d.path = at.path \cup {up} => walks[d] \in Builders,
         NEW after, Edgewise(after, walks, at)
  PROVE  /\ \A k \in 0 .. Len(ancestry[at.id]) : after[k] \in Builders
         /\ Visited(walks, at) \in Builders
<1> DEFINE n == Len(ancestry[at.id])
           S == {k \in 0 .. n : after[k] \in Builders}
<1>1. n \in Nat /\ at.built \in Builders /\ at.depth \in Nat
  BY EdgeFacts DEF Descents
<1>2. 0 \in S
  BY <1>1 DEF Edgewise
<1>3. ASSUME NEW k \in 1 .. n, k - 1 \in S PROVE k \in S
  <2> DEFINE built == after[k - 1]
             edge == ancestry[at.id][k]
             onward == Follow(walks, at, built, edge)
  <2>1. built \in Builders
    BY <1>3
  <2>2. after[k] = onward
    BY DEF Edgewise
  <2>3. onward \in Builders
    <3> HIDE DEF built
    <3>1. \/ onward = built
          \/ edge.to \in WhyRefs /\ onward = [built EXCEPT !.cycle = @ \cup {edge.to}]
          \/ edge.to \in WhyRefs /\ onward = AtDepth(built, edge.to, at.depth + 1)
          \/ edge.to \in DOMAIN ancestry \ at.path /\ onward = walks[Further(at, edge.to, built)]
      BY <2>1, FollowedEdge
    <3> HIDE DEF onward, edge
    <3>2. ASSUME edge.to \in DOMAIN ancestry \ at.path PROVE walks[Further(at, edge.to, built)] \in Builders
      <4> DEFINE on == Further(at, edge.to, built)
      <4>1. on \in Descents /\ on.path = at.path \cup {edge.to} /\ edge.to \in WhyRefs \ at.path
        BY <2>1, <3>2, FurtherFacts DEF WhyRefs
      <4> HIDE DEF on
      <4>2. walks[on] \in Builders
        BY <4>1
      <4>3. QED
        BY <4>2 DEF on
    <3>3. QED
      BY <1>1, <2>1, <3>1, <3>2, LoopFacts, DeeperFacts
  <2> HIDE DEF onward
  <2>4. k \in 0 .. n
    BY <1>1
  <2>5. QED
    BY <2>2, <2>3, <2>4
<1> HIDE DEF S
<1>4. \A k \in 0 .. n : k \in S
  <2> HIDE DEF n
  <2>1. QED
    BY <1>1, <1>2, <1>3, CountedUp
<1>5. n \in 0 .. n
  BY <1>1
<1>6. QED
  BY <1>4, <1>5 DEF S, Edgewise

\* An entry's edges ask only for descents one entry further up.
LEMMA VisitsAgree ==
  ASSUME WhyInv, NEW at \in Descents, NEW f, NEW g,
         \A d \in Descents : f[d] \in Builders /\ g[d] \in Builders,
         \A d \in Descents : \A up \in WhyRefs \ at.path : d.path = at.path \cup {up} => f[d] = g[d]
  PROVE  Visited(f, at) = Visited(g, at)
<1> DEFINE n == Len(ancestry[at.id])
<1>1. n \in Nat /\ at.id \in DOMAIN ancestry
  BY EdgeFacts DEF Descents
<1>2. PICK p : Edgewise(p, f, at)
  BY <1>1, EdgeByEdge
<1>3. PICK q : Edgewise(q, g, at)
  BY <1>1, EdgeByEdge
<1>4. \A k \in 0 .. n : p[k] \in Builders
  BY <1>2, EdgesKeepType
<1> DEFINE S == {k \in 0 .. n : p[k] = q[k]}
<1>5. 0 \in S
  BY <1>1, <1>2, <1>3 DEF Edgewise
<1>6. ASSUME NEW k \in 1 .. n, k - 1 \in S PROVE k \in S
  <2> DEFINE built == p[k - 1]
             edge == ancestry[at.id][k]
  <2>1. built \in Builders /\ q[k - 1] = built /\ k - 1 \in 0 .. n /\ k \in 0 .. n
    BY <1>1, <1>4, <1>6
  <2>2. p[k] = Follow(f, at, built, edge)
    BY <1>2 DEF Edgewise
  <2>3. q[k] = Follow(g, at, built, edge)
    BY <1>3, <2>1 DEF Edgewise
  <2> HIDE DEF built
  <2>4. Follow(f, at, built, edge) = Follow(g, at, built, edge)
    <3>1. CASE Derives(edge) /\ edge.to \in DOMAIN ancestry \ at.path
      <4> DEFINE on == Further(at, edge.to, built)
      <4>1. on \in Descents /\ on.path = at.path \cup {edge.to} /\ edge.to \in WhyRefs \ at.path
        BY <2>1, <3>1, FurtherFacts DEF WhyRefs
      <4> HIDE DEF edge
      <4>2. f[on] = g[on]
        <5> HIDE DEF on
        <5>1. QED
          BY <4>1
      <4>3. QED
        BY <4>2 DEF Follow, Further
    <3>2. CASE ~(Derives(edge) /\ edge.to \in DOMAIN ancestry \ at.path)
      <4> HIDE DEF edge
      <4>1. QED
        BY <3>2 DEF Follow
    <3>3. QED
      BY <3>1, <3>2
  <2> HIDE DEF edge
  <2>5. QED
    BY <2>1, <2>2, <2>3, <2>4
<1> HIDE DEF S
<1>7. \A k \in 0 .. n : k \in S
  <2> HIDE DEF n
  <2>1. QED
    BY <1>1, <1>5, <1>6, CountedUp
<1>8. n \in 0 .. n
  BY <1>1
<1>9. QED
  BY <1>2, <1>3, <1>7, <1>8 DEF S, Edgewise

\* How many more refs a path can take, and the descents with fewer than n.
Room(path) == Cardinality(WhyRefs \ path)
DescendedUpTo(f, n) ==
    /\ f = [at \in Descents |-> f[at]]
    /\ \A at \in Descents : f[at] \in Builders
    /\ \A at \in Descents : Room(at.path) < n => f[at] = Visited(f, at)

LEMMA LessRoom ==
  ASSUME WhyInv, NEW path \in SUBSET WhyRefs
  PROVE  /\ Room(path) \in 0 .. Cardinality(WhyRefs) /\ Cardinality(WhyRefs) \in Nat
         /\ \A up \in WhyRefs \ path : Room(path \cup {up}) = Room(path) - 1
<1>1. IsFiniteSet(WhyRefs)
  BY RefsAreFinite
<1>2. WhyRefs \ path \in SUBSET WhyRefs
  OBVIOUS
<1>3. /\ IsFiniteSet(WhyRefs \ path) /\ Cardinality(WhyRefs \ path) <= Cardinality(WhyRefs)
      /\ Cardinality(WhyRefs \ path) \in Nat /\ Cardinality(WhyRefs) \in Nat
  BY <1>1, <1>2, FS_Subset, FS_CardinalityType
<1>4. ASSUME NEW up \in WhyRefs \ path PROVE Room(path \cup {up}) = Room(path) - 1
  <2>1. WhyRefs \ (path \cup {up}) = (WhyRefs \ path) \ {up}
    OBVIOUS
  <2>2. Cardinality((WhyRefs \ path) \ {up}) = Cardinality(WhyRefs \ path) - 1
    BY <1>3, <1>4, FS_RemoveElement
  <2>3. QED
    BY <2>1, <2>2 DEF Room
<1>5. QED
  BY <1>3, <1>4 DEF Room

LEMMA DescentsExist ==
  ASSUME WhyInv
  PROVE  \A n \in 0 .. Cardinality(WhyRefs) + 1 : \E f : DescendedUpTo(f, n)
<1> DEFINE m == Cardinality(WhyRefs) + 1
           S == {n \in 0 .. m : \E f : DescendedUpTo(f, n)}
<1>1. m \in Nat
  BY LessRoom
<1>2. \A at \in Descents : at.path \in SUBSET WhyRefs /\ at.built \in Builders /\ Room(at.path) \in Nat
  <2>1. \A at \in Descents : at.path \in SUBSET WhyRefs /\ at.built \in Builders
    BY DEF Descents
  <2>2. QED
    BY <2>1, LessRoom
<1>3. 0 \in S
  <2> DEFINE f == [at \in Descents |-> at.built]
  <2>1. f = [at \in Descents |-> f[at]] /\ \A at \in Descents : f[at] \in Builders
    BY <1>2
  <2>2. \A at \in Descents : ~(Room(at.path) < 0)
    BY <1>2
  <2> HIDE DEF f
  <2>3. DescendedUpTo(f, 0)
    BY <2>1, <2>2 DEF DescendedUpTo
  <2>4. QED
    BY <1>1, <2>3
<1>4. ASSUME NEW n \in 1 .. m, n - 1 \in S PROVE n \in S
  <2>1. PICK f : DescendedUpTo(f, n - 1)
    BY <1>4
  <2> DEFINE g == [at \in Descents |-> IF Room(at.path) < n THEN Visited(f, at) ELSE at.built]
  <2>2. g = [at \in Descents |-> g[at]]
    OBVIOUS
  <2>3. \A at \in Descents : f[at] \in Builders
    BY <2>1 DEF DescendedUpTo
  <2>4. \A at \in Descents : g[at] \in Builders
    <3>1. ASSUME NEW at \in Descents PROVE Visited(f, at) \in Builders
      <4>1. at.id \in DOMAIN ancestry
        BY DEF Descents
      <4>2. PICK after : Edgewise(after, f, at)
        BY <4>1, EdgeByEdge
      <4>3. QED
        BY <2>3, <4>2, EdgesKeepType
    <3>2. QED
      BY <1>2, <3>1
  <2>5. ASSUME NEW at \in Descents, Room(at.path) < n PROVE g[at] = Visited(g, at)
    <3>1. ASSUME NEW d \in Descents, NEW up \in WhyRefs \ at.path, d.path = at.path \cup {up}
          PROVE  f[d] = g[d]
      <4>1. Room(d.path) = Room(at.path) - 1
        BY <1>2, <3>1, LessRoom
      <4>2. Room(d.path) < n - 1 /\ Room(d.path) < n
        BY <1>1, <1>2, <1>4, <2>5, <4>1
      <4>3. f[d] = Visited(f, d)
        BY <2>1, <4>2 DEF DescendedUpTo
      <4>4. g[d] = Visited(f, d)
        BY <4>2
      <4>5. QED
        BY <4>3, <4>4
    <3>2. g[at] = Visited(f, at)
      BY <2>5
    <3> HIDE DEF g
    <3>3. Visited(f, at) = Visited(g, at)
      BY <2>3, <2>4, <3>1, VisitsAgree
    <3>4. QED
      BY <3>2, <3>3
  <2> HIDE DEF g
  <2>6. DescendedUpTo(g, n)
    BY <2>2, <2>4, <2>5 DEF DescendedUpTo
  <2>7. QED
    BY <2>6
<1> HIDE DEF S
<1>5. \A n \in 0 .. m : n \in S
  <2> HIDE DEF m
  <2>1. QED
    BY <1>1, <1>3, <1>4, CountedUp
<1>6. QED
  BY <1>5 DEF S

\* The walk of an entry is the walk of its edges, in their order.
LEMMA WalkByEdges ==
  ASSUME WhyInv
  PROVE  \A at \in Descents : walk[at] = Visited(walk, at)
<1> DEFINE m == Cardinality(WhyRefs) + 1
<1>1. PICK f : DescendedUpTo(f, m)
  <2>1. m \in 0 .. m
    BY LessRoom
  <2>2. QED
    BY <2>1, DescentsExist
<1>2. \A at \in Descents : Room(at.path) < m
  <2>1. \A at \in Descents : at.path \in SUBSET WhyRefs
    BY DEF Descents
  <2>2. QED
    BY <2>1, LessRoom
<1>3. f = [at \in Descents |->
             FoldLeft(LAMBDA built, edge : Follow(f, at, built, edge), at.built, ancestry[at.id])]
  BY <1>1, <1>2 DEF DescendedUpTo, Visited
<1>4. walk = [at \in Descents |->
             FoldLeft(LAMBDA built, edge : Follow(walk, at, built, edge), at.built, ancestry[at.id])]
  BY <1>3 DEF walk
<1>5. QED
  BY <1>4 DEF Visited

LEMMA WalkBuilds ==
  ASSUME WhyInv
  PROVE  \A at \in Descents : walk[at] \in Builders
<1> DEFINE m == Cardinality(WhyRefs) + 1
           S == {n \in 0 .. m : \A at \in Descents : Room(at.path) < n => walk[at] \in Builders}
<1>1. m \in Nat /\ m \in 0 .. m
  BY RefsAreFinite
<1>2. \A at \in Descents : at.path \in SUBSET WhyRefs /\ Room(at.path) \in Nat /\ Room(at.path) < m
  <2>1. \A at \in Descents : at.path \in SUBSET WhyRefs
    BY DEF Descents
  <2>2. QED
    BY <2>1, LessRoom
<1> HIDE DEF m
<1>3. 0 \in S
  BY <1>1, <1>2
<1>4. ASSUME NEW n \in 1 .. m, n - 1 \in S PROVE n \in S
  <2>1. ASSUME NEW at \in Descents, Room(at.path) < n PROVE walk[at] \in Builders
    <3>1. ASSUME NEW d \in Descents, NEW up \in WhyRefs \ at.path, d.path = at.path \cup {up}
          PROVE  walk[d] \in Builders
      <4>1. Room(d.path) = Room(at.path) - 1
        BY <1>2, <3>1, LessRoom
      <4>2. Room(d.path) < n - 1
        BY <1>1, <1>2, <1>4, <2>1, <4>1
      <4>3. QED
        BY <1>4, <4>2
    <3>2. at.id \in DOMAIN ancestry
      BY DEF Descents
    <3>3. PICK after : Edgewise(after, walk, at)
      BY <3>2, EdgeByEdge
    <3>4. Visited(walk, at) \in Builders
      BY <3>1, <3>3, EdgesKeepType
    <3>5. QED
      BY <3>4, WalkByEdges
  <2>2. QED
    BY <1>1, <2>1
<1> HIDE DEF S
<1>5. \A n \in 0 .. m : n \in S
  BY <1>1, <1>3, <1>4, CountedUp
<1>6. QED
  BY <1>1, <1>2, <1>5 DEF S

-----------------------------------------------------------------------------
\* What lies some edges above the subject.
AboveUpTo(f, n) ==
    f = [i \in 0 .. n |-> IF i = 0 THEN {Asked} ELSE UNION {Parents(id) : id \in f[i - 1]}]

LEMMA AboveExists == ASSUME NEW m \in Nat PROVE \A n \in 0 .. m : \E f : AboveUpTo(f, n)
<1> DEFINE S == {n \in 0 .. m : \E f : AboveUpTo(f, n)}
           onward(s) == UNION {Parents(id) : id \in s}
<1>1. 0 \in S
  <2> DEFINE f == [i \in 0 .. 0 |-> {Asked}]
  <2>1. AboveUpTo(f, 0)
    BY DEF AboveUpTo
  <2>2. QED
    BY <2>1
<1>2. ASSUME NEW n \in 1 .. m, n - 1 \in S PROVE n \in S
  <2>1. PICK f : AboveUpTo(f, n - 1)
    BY <1>2
  <2> DEFINE g == [i \in 0 .. n |-> IF i < n THEN f[i] ELSE onward(f[n - 1])]
  <2>2. f = [i \in 0 .. n - 1 |-> IF i = 0 THEN {Asked} ELSE onward(f[i - 1])]
    BY <2>1 DEF AboveUpTo
  <2> HIDE DEF onward
  <2>3. ASSUME NEW i \in 0 .. n PROVE g[i] = IF i = 0 THEN {Asked} ELSE onward(g[i - 1])
    <3>1. CASE i = n
      BY <1>2, <3>1
    <3>2. CASE i # n
      <4>1. i \in 0 .. n - 1 /\ g[i] = f[i] /\ (i # 0 => g[i - 1] = f[i - 1])
        BY <1>2, <3>2
      <4>2. f[i] = IF i = 0 THEN {Asked} ELSE onward(f[i - 1])
        BY <2>2, <4>1
      <4>3. QED
        BY <4>1, <4>2
    <3>3. QED
      BY <3>1, <3>2
  <2>4. g = [i \in 0 .. n |-> g[i]]
    OBVIOUS
  <2> HIDE DEF g
  <2>5. g = [i \in 0 .. n |-> IF i = 0 THEN {Asked} ELSE onward(g[i - 1])]
    BY <2>3, <2>4
  <2>6. AboveUpTo(g, n)
    BY <2>5 DEF AboveUpTo, onward
  <2>7. QED
    BY <2>6
<1> HIDE DEF S
<1>3. \A n \in 0 .. m : n \in S
  BY <1>1, <1>2, CountedUp
<1>4. QED
  BY <1>3 DEF S

LEMMA AboveFacts ==
  ASSUME WhyInv
  PROVE  /\ Above[0] = {Asked}
         /\ \A n \in 1 .. Cardinality(WhyRefs) : Above[n] = UNION {Parents(id) : id \in Above[n - 1]}
         /\ Above = [n \in 0 .. Cardinality(WhyRefs) |-> Above[n]]
<1> DEFINE refs == Cardinality(WhyRefs)
<1>1. refs \in Nat /\ refs \in 0 .. refs
  BY RefsAreFinite
<1>2. PICK f : AboveUpTo(f, refs)
  BY <1>1, AboveExists
<1>3. f = [n \in 0 .. refs |-> IF n = 0 THEN {Asked} ELSE UNION {Parents(id) : id \in f[n - 1]}]
  BY <1>2 DEF AboveUpTo
<1>4. Above = [n \in 0 .. refs |-> IF n = 0 THEN {Asked} ELSE UNION {Parents(id) : id \in Above[n - 1]}]
  BY <1>3 DEF Above
<1> HIDE DEF refs
<1>5. \A n \in 0 .. refs : Above[n] = IF n = 0 THEN {Asked} ELSE UNION {Parents(id) : id \in Above[n - 1]}
  BY <1>4
<1>6. 0 \in 0 .. refs /\ \A n \in 1 .. refs : n \in 0 .. refs /\ n # 0
  BY <1>1
<1>7. Above = [n \in 0 .. refs |-> Above[n]]
  BY <1>4, <1>5
<1>8. QED
  BY <1>5, <1>6, <1>7 DEF refs

-----------------------------------------------------------------------------
\* Where derives_from leads from a ref.
UpClosed(S) == \A id \in S : Parents(id) \subseteq S
LeadsTo(id) == {up \in WhyRefs : \A S \in SUBSET WhyRefs : id \in S /\ UpClosed(S) => up \in S}

LEMMA LeadsFacts ==
  ASSUME WhyInv, NEW id \in WhyRefs
  PROVE  /\ LeadsTo(id) \subseteq WhyRefs /\ id \in LeadsTo(id) /\ UpClosed(LeadsTo(id))
         /\ \A S \in SUBSET WhyRefs : id \in S /\ UpClosed(S) => LeadsTo(id) \subseteq S
<1>1. \A x : Parents(x) \subseteq WhyRefs
  BY NoParents, EdgeFacts
<1>2. UpClosed(LeadsTo(id))
  BY <1>1 DEF LeadsTo, UpClosed
<1>3. QED
  BY <1>2 DEF LeadsTo

LEMMA LeadsThrough ==
  ASSUME WhyInv, NEW id \in WhyRefs
  PROVE  \A x \in LeadsTo(id) : x = id \/ \E up \in Parents(id) : x \in LeadsTo(up)
<1> DEFINE S == {x \in WhyRefs : x = id \/ \E up \in Parents(id) : x \in LeadsTo(up)}
<1>1. \A x : Parents(x) \subseteq WhyRefs
  BY NoParents, EdgeFacts
<1>2. id \in S /\ S \in SUBSET WhyRefs
  OBVIOUS
<1>3. ASSUME NEW x \in S PROVE Parents(x) \subseteq S
  <2>1. CASE x = id
    <3>1. \A up \in Parents(id) : up \in LeadsTo(up)
      BY <1>1, LeadsFacts
    <3>2. QED
      BY <1>1, <2>1, <3>1
  <2>2. CASE x # id
    <3>1. PICK up \in Parents(id) : x \in LeadsTo(up)
      BY <2>2
    <3>2. UpClosed(LeadsTo(up)) /\ LeadsTo(up) \subseteq WhyRefs
      BY <1>1, LeadsFacts
    <3>3. Parents(x) \subseteq LeadsTo(up)
      BY <3>1, <3>2 DEF UpClosed
    <3>4. QED
      BY <3>1, <3>2, <3>3
  <2>3. QED
    BY <2>1, <2>2
<1> HIDE DEF S
<1>4. LeadsTo(id) \subseteq S
  BY <1>2, <1>3, LeadsFacts DEF UpClosed
<1>5. QED
  BY <1>4 DEF S

\* However far one goes, there is something above.
Looped == \A n \in 0 .. Cardinality(WhyRefs) : Above[n] # {}

LEMMA LoopsForEver ==
  ASSUME WhyInv, NEW id \in WhyRefs, NEW up \in Parents(id), id \in LeadsTo(up),
         Asked \in WhyRefs, id \in LeadsTo(Asked)
  PROVE  Looped
<1> DEFINE refs == Cardinality(WhyRefs)
           Leads(x) == x \in WhyRefs /\ id \in LeadsTo(x)
           S == {n \in 0 .. refs : \E x \in Above[n] : Leads(x)}
<1>1. refs \in Nat
  BY RefsAreFinite
<1>2. 0 \in S
  BY <1>1, AboveFacts
<1>3. ASSUME NEW n \in 1 .. refs, n - 1 \in S PROVE n \in S
  <2>1. PICK x \in Above[n - 1] : Leads(x)
    BY <1>3
  <2>2. \E y \in Parents(x) : id \in LeadsTo(y)
    BY <2>1, LeadsThrough
  <2>3. PICK y \in Parents(x) : id \in LeadsTo(y)
    BY <2>2
  <2>4. y \in WhyRefs
    BY <2>3, NoParents, EdgeFacts
  <2>5. y \in Above[n]
    BY <2>1, <2>3, AboveFacts
  <2>6. QED
    BY <1>1, <2>3, <2>4, <2>5
<1> HIDE DEF S
<1>4. \A n \in 0 .. refs : n \in S
  <2> HIDE DEF refs
  <2>1. QED
    BY <1>1, <1>2, <1>3, CountedUp
<1>5. QED
  BY <1>4 DEF S, Looped

-----------------------------------------------------------------------------
\* A depth that was found is the length of some way up.
Measured(depth) ==
    /\ depth[Asked] = 0
    /\ \A ref \in WhyRefs : depth[ref] > 0 => depth[ref] <= Cardinality(WhyRefs) /\ ref \in Above[depth[ref]]

\* What was walked and is not being walked has all its parents among the
\* refs found, further up than itself unless there is a loop.
Upheld(path, built) ==
    \A ref \in DOMAIN ancestry \ path : built.depth[ref] > 0 =>
        \A up \in Parents(ref) :
           /\ built.depth[up] > 0 \/ up = Asked
           /\ built.cycle = {} => built.depth[up] > built.depth[ref]

\* What lies one edge further down than a ref found has been found there, or
\* is being walked and will lift the ref.
NoGaps(path, depth) ==
    \A ref \in WhyRefs \ path : depth[ref] > 0 =>
        \/ \E id \in DOMAIN ancestry : ref \in Parents(id) /\ depth[id] = depth[ref] - 1
        \/ \E id \in path : ref \in Parents(id) /\ depth[ref] <= depth[id]

Book(path, built) ==
    /\ Measured(built.depth) /\ Upheld(path, built) /\ NoGaps(path, built.depth)
    /\ built.cycle # {} => Looped

OnPath(at, depth) ==
    /\ Asked \in at.path /\ at.id \in at.path /\ at.path \subseteq DOMAIN ancestry
    /\ Cardinality(at.path) = at.depth + 1
    /\ depth[at.id] = at.depth /\ at.id \in Above[at.depth]
    /\ \A id \in at.path : at.id \in LeadsTo(id) /\ (id # Asked => depth[id] > 0)

Ready(at) == OnPath(at, at.built.depth) /\ Book(at.path, at.built)

\* What a descent has made of the builder once it has followed some edges.
Grown(at, built) ==
    /\ \A ref \in WhyRefs : built.depth[ref] >= at.built.depth[ref]
    /\ \A ref \in at.path : built.depth[ref] = at.built.depth[ref]
    /\ at.built.cycle \subseteq built.cycle
Taken(at, ups, built) ==
    \A up \in ups : (up \in at.path /\ built.cycle # {}) \/ built.depth[up] >= at.depth + 1
Made(at, ups, built) ==
    built \in Builders /\ Book(at.path, built) /\ Grown(at, built) /\ Taken(at, ups, built)

LEMMA BuilderFacts ==
  ASSUME NEW built \in Builders
  PROVE  built.depth \in [WhyRefs -> Nat] /\ \A ref \in WhyRefs : built.depth[ref] \in Nat
<1>1. built.depth \in [WhyRefs -> Nat]
  BY DEF Builders
<1>2. QED
  BY <1>1

\* The path is shorter than there are refs, and an edge leads one further up.
LEMMA OneEdgeUp ==
  ASSUME WhyInv, NEW at \in Descents, NEW depth, OnPath(at, depth), NEW up \in Parents(at.id)
  PROVE  /\ at.depth \in Nat /\ at.depth + 1 \in Nat /\ at.depth + 1 \in 1 .. Cardinality(WhyRefs)
         /\ up \in Above[at.depth + 1] /\ up \in WhyRefs
<1>1. at.depth \in Nat /\ at.path \in SUBSET WhyRefs /\ at.id \in DOMAIN ancestry
  BY DEF Descents
<1>2. Cardinality(at.path) <= Cardinality(WhyRefs) /\ Cardinality(WhyRefs) \in Nat
  BY <1>1, RefsAreFinite, FS_Subset
<1>3. at.depth + 1 \in 1 .. Cardinality(WhyRefs) /\ at.depth + 1 - 1 = at.depth
  BY <1>1, <1>2 DEF OnPath
<1>4. up \in Above[at.depth + 1]
  <2> DEFINE n == at.depth + 1
  <2>1. Above[n] = UNION {Parents(id) : id \in Above[n - 1]}
    BY <1>3, AboveFacts
  <2>2. at.id \in Above[n - 1]
    <3>1. n - 1 = at.depth
      BY <1>1
    <3>2. at.id \in Above[at.depth]
      BY DEF OnPath
    <3> HIDE DEF n
    <3>3. QED
      BY <3>1, <3>2
  <2> HIDE DEF n
  <2>3. up \in Above[n]
    BY <2>1, <2>2
  <2>4. QED
    BY <2>3 DEF n
<1>5. QED
  BY <1>1, <1>3, <1>4, EdgeFacts

\* A loop is closed.
LEMMA LoopClosed ==
  ASSUME WhyInv, NEW at \in Descents, NEW built \in Builders,
         OnPath(at, built.depth), Book(at.path, built),
         NEW up \in Parents(at.id), up \in at.path
  PROVE  Book(at.path, [built EXCEPT !.cycle = @ \cup {up}])
<1> DEFINE closed == [built EXCEPT !.cycle = @ \cup {up}]
<1>1. at.id \in DOMAIN ancestry /\ at.path \in SUBSET WhyRefs
  BY DEF Descents
<1>2. up \in WhyRefs /\ at.id \in WhyRefs
  BY <1>1, EdgeFacts
<1>3. closed.depth = built.depth /\ up \in closed.cycle
  BY <1>2, LoopFacts
<1> HIDE DEF closed
<1>4. at.id \in LeadsTo(up) /\ at.id \in LeadsTo(Asked) /\ Asked \in WhyRefs
  BY <1>1 DEF OnPath
<1>5. Looped
  BY <1>2, <1>4, LoopsForEver
<1>6. QED
  BY <1>3, <1>5 DEF Book, Upheld, closed

\* A ref that cannot be opened is found further up than before.
LEMMA EndFound ==
  ASSUME WhyInv, NEW at \in Descents, NEW built \in Builders,
         OnPath(at, built.depth), Book(at.path, built),
         NEW up \in Parents(at.id), up \notin at.path, up \notin DOMAIN ancestry,
         ~(built.depth[up] >= at.depth + 1)
  PROVE  Book(at.path, AtDepth(built, up, at.depth + 1))
<1> DEFINE deeper == AtDepth(built, up, at.depth + 1)
           old == built.depth
           new == deeper.depth
<1>1. /\ at.depth \in Nat /\ at.depth + 1 \in Nat /\ at.depth + 1 \in 1 .. Cardinality(WhyRefs)
      /\ up \in Above[at.depth + 1] /\ up \in WhyRefs
  BY OneEdgeUp
<1>2. /\ deeper.cycle = built.cycle
      /\ \A ref \in WhyRefs : new[ref] = IF ref = up THEN at.depth + 1 ELSE old[ref]
  <2> DEFINE d == at.depth + 1
  <2>1. d \in Nat /\ up \in WhyRefs
    BY <1>1
  <2> HIDE DEF d
  <2>2. LET there == AtDepth(built, up, d) IN
        /\ there.cycle = built.cycle
        /\ \A ref \in WhyRefs : there.depth[ref] = IF ref = up THEN d ELSE built.depth[ref]
    BY <2>1, DeeperFacts
  <2>3. QED
    BY <2>2 DEF d
<1>3. \A ref \in WhyRefs : old[ref] \in Nat
  BY BuilderFacts
<1>4. DOMAIN ancestry \subseteq WhyRefs /\ at.path \subseteq WhyRefs /\ at.id \in DOMAIN ancestry
  BY EdgeFacts DEF Descents
<1> HIDE DEF deeper, new, old
<1>5. \A ref \in WhyRefs : new[ref] >= old[ref] /\ (old[ref] > 0 => new[ref] > 0)
  BY <1>1, <1>2, <1>3 DEF old
<1>6. \A ref \in DOMAIN ancestry : new[ref] = old[ref]
  BY <1>2, <1>4
<1>7. Measured(new)
  <2>1. Asked \in DOMAIN ancestry
    BY DEF OnPath
  <2>2. Measured(old)
    BY DEF Book, old
  <2>3. new[Asked] = 0
    BY <1>6, <2>1, <2>2 DEF Measured
  <2>4. ASSUME NEW ref \in WhyRefs, new[ref] > 0
        PROVE  new[ref] <= Cardinality(WhyRefs) /\ ref \in Above[new[ref]]
    <3>1. CASE ref = up
      <4>1. new[ref] = at.depth + 1
        BY <1>2, <3>1
      <4>2. QED
        BY <1>1, <3>1, <4>1
    <3>2. CASE ref # up
      <4>1. new[ref] = old[ref]
        BY <1>2, <3>2
      <4>2. QED
        BY <2>2, <2>4, <4>1 DEF Measured
    <3>3. QED
      BY <3>1, <3>2
  <2>5. QED
    BY <2>3, <2>4 DEF Measured
<1>8. Upheld(at.path, deeper)
  <2>1. Upheld(at.path, built)
    BY DEF Book
  <2>2. ASSUME NEW ref \in DOMAIN ancestry \ at.path, new[ref] > 0, NEW x \in Parents(ref)
        PROVE  (new[x] > 0 \/ x = Asked) /\ (built.cycle = {} => new[x] > new[ref])
    <3>1. new[ref] = old[ref] /\ x \in WhyRefs /\ ref \in WhyRefs
      BY <1>4, <1>6, <2>2, EdgeFacts
    <3>2. (old[x] > 0 \/ x = Asked) /\ (built.cycle = {} => old[x] > old[ref])
      BY <2>1, <2>2, <3>1 DEF Upheld, old
    <3>3. new[x] >= old[x] /\ (old[x] > 0 => new[x] > 0) /\ old[x] \in Nat /\ old[ref] \in Nat /\ new[x] \in Nat
      BY <1>1, <1>2, <1>3, <1>5, <3>1 DEF old
    <3>4. QED
      BY <3>1, <3>2, <3>3
  <2>3. QED
    BY <1>2, <2>2 DEF Upheld, new
<1>9. NoGaps(at.path, new)
  <2>1. NoGaps(at.path, old)
    BY DEF Book, old
  <2>2. ASSUME NEW ref \in WhyRefs \ at.path, new[ref] > 0
        PROVE  \/ \E id \in DOMAIN ancestry : ref \in Parents(id) /\ new[id] = new[ref] - 1
               \/ \E id \in at.path : ref \in Parents(id) /\ new[ref] <= new[id]
    <3>1. CASE ref = up
      <4>1. new[at.id] = at.depth /\ new[ref] = at.depth + 1
        BY <1>2, <1>4, <1>6, <3>1 DEF OnPath, old
      <4>2. QED
        BY <1>1, <1>4, <3>1, <4>1
    <3>2. CASE ref # up
      <4>1. new[ref] = old[ref]
        BY <1>2, <3>2
      <4>2. at.path \subseteq DOMAIN ancestry
        BY DEF OnPath
      <4>3. \/ \E id \in DOMAIN ancestry : ref \in Parents(id) /\ old[id] = old[ref] - 1
            \/ \E id \in at.path : ref \in Parents(id) /\ old[ref] <= old[id]
        BY <2>1, <2>2, <4>1 DEF NoGaps
      <4>4. QED
        BY <1>6, <4>1, <4>2, <4>3
    <3>3. QED
      BY <3>1, <3>2
  <2>3. QED
    BY <2>2 DEF NoGaps
<1>10. deeper.cycle # {} => Looped
  BY <1>2 DEF Book
<1>11. QED
  BY <1>7, <1>8, <1>9, <1>10 DEF Book, new, deeper

\* A parent that is walked again is lifted first.
LEMMA DescentBegins ==
  ASSUME WhyInv, NEW at \in Descents, NEW built \in Builders,
         OnPath(at, built.depth), Book(at.path, built),
         NEW up \in Parents(at.id), up \in DOMAIN ancestry \ at.path,
         ~(built.depth[up] >= at.depth + 1)
  PROVE  Ready(Further(at, up, built))
<1> DEFINE on == Further(at, up, built)
           deeper == AtDepth(built, up, at.depth + 1)
           old == built.depth
           new == deeper.depth
<1>1. /\ at.depth \in Nat /\ at.depth + 1 \in Nat /\ at.depth + 1 \in 1 .. Cardinality(WhyRefs)
      /\ up \in Above[at.depth + 1] /\ up \in WhyRefs
  BY OneEdgeUp
<1>2. /\ deeper.cycle = built.cycle
      /\ \A ref \in WhyRefs : new[ref] = IF ref = up THEN at.depth + 1 ELSE old[ref]
  <2> DEFINE d == at.depth + 1
  <2>1. d \in Nat /\ up \in WhyRefs
    BY <1>1
  <2> HIDE DEF d
  <2>2. LET there == AtDepth(built, up, d) IN
        /\ there.cycle = built.cycle
        /\ \A ref \in WhyRefs : there.depth[ref] = IF ref = up THEN d ELSE built.depth[ref]
    BY <2>1, DeeperFacts
  <2>3. QED
    BY <2>2 DEF d
<1>3. \A ref \in WhyRefs : old[ref] \in Nat
  BY BuilderFacts
<1>4. /\ DOMAIN ancestry \subseteq WhyRefs /\ at.path \subseteq DOMAIN ancestry /\ at.path \subseteq WhyRefs
      /\ at.id \in DOMAIN ancestry /\ at.id \in at.path /\ Asked \in at.path /\ old[at.id] = at.depth
  BY EdgeFacts DEF Descents, OnPath
<1>5. on.id = up /\ on.depth = at.depth + 1 /\ on.path = at.path \cup {up} /\ on.built = deeper
  BY DEF Further
<1> HIDE DEF deeper, new, old, on
<1>6. \A ref \in WhyRefs : new[ref] >= old[ref] /\ (old[ref] > 0 => new[ref] > 0) /\ new[ref] \in Nat
  BY <1>1, <1>2, <1>3 DEF old
<1>7. \A ref \in WhyRefs \ {up} : new[ref] = old[ref]
  BY <1>2
<1>8. new[up] = at.depth + 1
  BY <1>1, <1>2
<1>9. Measured(new)
  <2>1. Measured(old)
    BY DEF Book, old
  <2>2. new[Asked] = 0
    BY <1>4, <1>7, <2>1 DEF Measured
  <2>3. ASSUME NEW ref \in WhyRefs, new[ref] > 0
        PROVE  new[ref] <= Cardinality(WhyRefs) /\ ref \in Above[new[ref]]
    <3>1. CASE ref = up
      BY <1>1, <1>8, <3>1
    <3>2. CASE ref # up
      <4>1. new[ref] = old[ref]
        BY <1>7, <3>2
      <4>2. QED
        BY <2>1, <2>3, <4>1 DEF Measured
    <3>3. QED
      BY <3>1, <3>2
  <2>4. QED
    BY <2>2, <2>3 DEF Measured
<1>10. Upheld(on.path, deeper)
  <2>1. Upheld(at.path, built)
    BY DEF Book
  <2>2. ASSUME NEW ref \in DOMAIN ancestry \ on.path, new[ref] > 0, NEW x \in Parents(ref)
        PROVE  (new[x] > 0 \/ x = Asked) /\ (built.cycle = {} => new[x] > new[ref])
    <3>1. new[ref] = old[ref] /\ x \in WhyRefs /\ ref \in WhyRefs /\ ref \notin at.path
      BY <1>4, <1>5, <1>7, <2>2, EdgeFacts
    <3>2. (old[x] > 0 \/ x = Asked) /\ (built.cycle = {} => old[x] > old[ref])
      BY <2>1, <2>2, <3>1 DEF Upheld, old
    <3>3. new[x] >= old[x] /\ (old[x] > 0 => new[x] > 0) /\ old[x] \in Nat /\ old[ref] \in Nat /\ new[x] \in Nat
      BY <1>3, <1>6, <3>1
    <3>4. QED
      BY <3>1, <3>2, <3>3
  <2>3. QED
    BY <1>2, <2>2 DEF Upheld, new
<1>11. NoGaps(on.path, new)
  <2>1. NoGaps(at.path, old)
    BY DEF Book, old
  <2>2. ASSUME NEW ref \in WhyRefs \ on.path, new[ref] > 0
        PROVE  \/ \E id \in DOMAIN ancestry : ref \in Parents(id) /\ new[id] = new[ref] - 1
               \/ \E id \in on.path : ref \in Parents(id) /\ new[ref] <= new[id]
    <3>1. new[ref] = old[ref] /\ ref \notin at.path /\ ref \in WhyRefs
      BY <1>5, <1>7, <2>2
    <3>2. CASE \E id \in DOMAIN ancestry : ref \in Parents(id) /\ old[id] = old[ref] - 1
      <4>1. PICK id \in DOMAIN ancestry : ref \in Parents(id) /\ old[id] = old[ref] - 1
        BY <3>2
      <4>2. CASE id = up
        <5>1. old[up] + 1 <= at.depth + 1 /\ old[ref] \in Nat /\ old[up] \in Nat
          BY <1>1, <1>3, <3>1 DEF old
        <5>2. new[ref] <= new[up]
          BY <1>1, <1>8, <3>1, <4>1, <4>2, <5>1
        <5>3. QED
          BY <1>5, <4>1, <4>2, <5>2
      <4>3. CASE id # up
        BY <1>4, <1>7, <3>1, <4>1, <4>3
      <4>4. QED
        BY <4>2, <4>3
    <3>3. CASE \E id \in at.path : ref \in Parents(id) /\ old[ref] <= old[id]
      <4>1. PICK id \in at.path : ref \in Parents(id) /\ old[ref] <= old[id]
        BY <3>3
      <4>2. new[id] = old[id]
        BY <1>4, <1>7, <4>1
      <4>3. QED
        BY <1>5, <3>1, <4>1, <4>2
    <3>4. QED
      BY <2>1, <2>2, <3>1, <3>2, <3>3 DEF NoGaps
  <2>3. QED
    BY <2>2 DEF NoGaps
<1>12. OnPath(on, new)
  <2>1. Cardinality(at.path \cup {up}) = at.depth + 2
    <3>1. IsFiniteSet(at.path)
      BY <1>4, RefsAreFinite, FS_Subset
    <3>2. Cardinality(at.path \cup {up}) = Cardinality(at.path) + 1
      BY <3>1, FS_AddElement
    <3>3. Cardinality(at.path) = at.depth + 1
      BY DEF OnPath
    <3>4. QED
      BY <1>1, <3>2, <3>3
  <2>2. ASSUME NEW id \in at.path PROVE up \in LeadsTo(id) /\ (id # Asked => new[id] > 0)
    <3>1. at.id \in LeadsTo(id) /\ (id # Asked => old[id] > 0) /\ id \in WhyRefs
      BY <1>4 DEF OnPath, old
    <3>2. UpClosed(LeadsTo(id))
      BY <3>1, LeadsFacts
    <3>3. QED
      BY <1>6, <3>1, <3>2 DEF UpClosed
  <2>3. up \in LeadsTo(up) /\ new[up] > 0
    BY <1>1, <1>8, LeadsFacts
  <2>4. QED
    BY <1>1, <1>4, <1>5, <1>8, <2>1, <2>2, <2>3 DEF OnPath
<1>13. deeper.cycle # {} => Looped
  BY <1>2 DEF Book
<1>14. QED
  BY <1>5, <1>9, <1>10, <1>11, <1>12, <1>13 DEF Ready, Book, new, on

\* When a parent has been walked nothing hangs on its being walked any more.
LEMMA DescentEnds ==
  ASSUME WhyInv, NEW at \in Descents, NEW built \in Builders,
         OnPath(at, built.depth), Book(at.path, built),
         NEW up \in Parents(at.id), up \in DOMAIN ancestry \ at.path,
         ~(built.depth[up] >= at.depth + 1),
         NEW onward, Made(Further(at, up, built), Parents(up), onward)
  PROVE  /\ onward \in Builders /\ Book(at.path, onward)
         /\ \A ref \in WhyRefs : onward.depth[ref] >= built.depth[ref]
         /\ \A ref \in at.path : onward.depth[ref] = built.depth[ref]
         /\ built.cycle \subseteq onward.cycle
         /\ onward.depth[up] >= at.depth + 1
<1> DEFINE on == Further(at, up, built)
           deeper == on.built
           old == built.depth
           mid == deeper.depth
           new == onward.depth
<1>1. /\ at.depth \in Nat /\ at.depth + 1 \in Nat /\ at.depth + 1 \in 1 .. Cardinality(WhyRefs)
      /\ up \in Above[at.depth + 1] /\ up \in WhyRefs
  BY OneEdgeUp
<1>2. on.id = up /\ on.depth = at.depth + 1 /\ on.path = at.path \cup {up} /\ deeper = AtDepth(built, up, at.depth + 1)
  BY DEF Further
<1>3. /\ deeper.cycle = built.cycle
      /\ \A ref \in WhyRefs : mid[ref] = IF ref = up THEN at.depth + 1 ELSE old[ref]
  <2> DEFINE d == at.depth + 1
  <2>1. d \in Nat /\ up \in WhyRefs
    BY <1>1
  <2>2. deeper = AtDepth(built, up, d)
    BY <1>2
  <2> HIDE DEF d, deeper
  <2>3. LET there == AtDepth(built, up, d) IN
        /\ there.cycle = built.cycle
        /\ \A ref \in WhyRefs : there.depth[ref] = IF ref = up THEN d ELSE built.depth[ref]
    BY <2>1, DeeperFacts
  <2>4. QED
    BY <2>2, <2>3 DEF d
<1>4. /\ DOMAIN ancestry \subseteq WhyRefs /\ at.path \subseteq DOMAIN ancestry /\ at.path \subseteq WhyRefs
      /\ at.id \in DOMAIN ancestry /\ at.id \in at.path /\ Asked \in at.path /\ old[at.id] = at.depth
      /\ \A id \in at.path : id # Asked => old[id] > 0
  BY EdgeFacts DEF Descents, OnPath
<1>5. Made(on, Parents(up), onward)
  OBVIOUS
<1> HIDE DEF on
<1>6. /\ onward \in Builders /\ Book(on.path, onward)
      /\ \A ref \in WhyRefs : new[ref] >= mid[ref]
      /\ \A ref \in on.path : new[ref] = mid[ref]
      /\ deeper.cycle \subseteq onward.cycle
      /\ Taken(on, Parents(up), onward)
  BY <1>5 DEF Made, Grown
<1>7. \A ref \in WhyRefs : old[ref] \in Nat /\ new[ref] \in Nat
  BY <1>6, BuilderFacts
<1> HIDE DEF deeper, old, mid, new
<1>8. \A ref \in at.path : new[ref] = old[ref]
  BY <1>2, <1>3, <1>4, <1>6
<1>9. new[up] = at.depth + 1
  BY <1>1, <1>2, <1>3, <1>6
<1>10. \A ref \in WhyRefs : new[ref] >= old[ref]
  BY <1>1, <1>3, <1>6, <1>7, <1>9 DEF old
<1>11. \A x \in Parents(up) : (x \in on.path /\ onward.cycle # {}) \/ new[x] >= at.depth + 2
  BY <1>1, <1>2, <1>6 DEF Taken, new
<1>12. Upheld(at.path, onward)
  <2>1. Upheld(on.path, onward)
    BY <1>6 DEF Book
  <2>2. ASSUME NEW ref \in DOMAIN ancestry \ at.path, new[ref] > 0, NEW x \in Parents(ref)
        PROVE  (new[x] > 0 \/ x = Asked) /\ (onward.cycle = {} => new[x] > new[ref])
    <3>1. CASE ref = up
      <4>1. CASE x \in on.path /\ onward.cycle # {}
        BY <1>1, <1>2, <1>4, <1>8, <1>9, <4>1
      <4>2. CASE new[x] >= at.depth + 2
        <5>1. x \in WhyRefs
          BY <2>2, EdgeFacts
        <5>2. new[x] \in Nat
          BY <1>7, <5>1
        <5>3. QED
          BY <1>1, <1>9, <3>1, <4>2, <5>2
      <4>3. QED
        BY <1>11, <2>2, <3>1, <4>1, <4>2
    <3>2. CASE ref # up
      BY <1>2, <2>1, <2>2, <3>2 DEF Upheld, new
    <3>3. QED
      BY <3>1, <3>2
  <2>3. QED
    BY <2>2 DEF Upheld, new
<1>13. NoGaps(at.path, new)
  <2>1. NoGaps(on.path, new)
    BY <1>6 DEF Book, new
  <2>2. ASSUME NEW ref \in WhyRefs \ at.path, new[ref] > 0
        PROVE  \/ \E id \in DOMAIN ancestry : ref \in Parents(id) /\ new[id] = new[ref] - 1
               \/ \E id \in at.path : ref \in Parents(id) /\ new[ref] <= new[id]
    <3>1. CASE ref = up
      <4>1. new[at.id] = new[ref] - 1
        BY <1>1, <1>4, <1>8, <1>9, <3>1
      <4>2. QED
        BY <1>4, <3>1, <4>1
    <3>2. CASE ref # up
      <4>1. ref \in WhyRefs \ on.path
        BY <1>2, <3>2
      <4>2. CASE \E id \in on.path : ref \in Parents(id) /\ new[ref] <= new[id]
        <5>1. PICK id \in on.path : ref \in Parents(id) /\ new[ref] <= new[id]
          BY <4>2
        <5>2. id # up
          <6>1. SUFFICES ASSUME id = up PROVE FALSE
            OBVIOUS
          <6>2. new[ref] >= at.depth + 2 /\ new[ref] \in Nat
            BY <1>7, <1>11, <4>1, <5>1, <6>1
          <6>3. QED
            BY <1>1, <1>9, <5>1, <6>1, <6>2
        <5>3. QED
          BY <1>2, <5>1, <5>2
      <4>3. QED
        BY <2>1, <2>2, <4>1, <4>2 DEF NoGaps
    <3>3. QED
      BY <3>1, <3>2
  <2>3. QED
    BY <2>2 DEF NoGaps
<1>14. Book(at.path, onward)
  BY <1>6, <1>12, <1>13 DEF Book, new
<1>15. built.cycle \subseteq onward.cycle
  BY <1>3, <1>6
<1>16. new[up] >= at.depth + 1
  BY <1>1, <1>9
<1>17. QED
  BY <1>6, <1>8, <1>10, <1>14, <1>15, <1>16 DEF new, old

\* The parents that the first k edges are of.
Ups(at, k) == {ancestry[at.id][j].to : j \in {i \in 1 .. k : Derives(ancestry[at.id][i])}}

\* What one edge makes of a builder, whichever its case.
Furthered(at, built, up, onward) ==
    /\ onward \in Builders /\ Book(at.path, onward)
    /\ \A ref \in WhyRefs : onward.depth[ref] >= built.depth[ref]
    /\ \A ref \in at.path : onward.depth[ref] = built.depth[ref]
    /\ built.cycle \subseteq onward.cycle
    /\ (up \in at.path /\ onward.cycle # {}) \/ onward.depth[up] >= at.depth + 1

LEMMA EdgeFurthers ==
  ASSUME WhyInv, NEW at \in Descents, NEW built \in Builders, NEW k \in 1 .. Len(ancestry[at.id]),
         OnPath(at, built.depth), Book(at.path, built), Derives(ancestry[at.id][k]),
         \A d \in Descents : \A up \in WhyRefs \ at.path :
            Ready(d) /\ d.path = at.path \cup {up} => Made(d, Parents(d.id), walk[d])
  PROVE  Furthered(at, built, ancestry[at.id][k].to, Follow(walk, at, built, ancestry[at.id][k]))
<1> DEFINE up == ancestry[at.id][k].to
           onward == Follow(walk, at, built, ancestry[at.id][k])
           on == Further(at, up, built)
<1>1. /\ up \in Parents(at.id) /\ up \in WhyRefs
      /\ \/ up \in at.path /\ onward = [built EXCEPT !.cycle = @ \cup {up}]
         \/ up \notin at.path /\ built.depth[up] >= at.depth + 1 /\ onward = built
         \/ /\ up \notin at.path \cup DOMAIN ancestry /\ ~(built.depth[up] >= at.depth + 1)
            /\ onward = AtDepth(built, up, at.depth + 1)
         \/ /\ up \in DOMAIN ancestry \ at.path /\ ~(built.depth[up] >= at.depth + 1)
            /\ onward = walk[on]
  BY FollowedEdge
<1>2. at.depth \in Nat /\ at.depth + 1 \in Nat /\ at.path \subseteq WhyRefs
  BY DEF Descents
<1>3. \A ref \in WhyRefs : built.depth[ref] \in Nat
  BY BuilderFacts
<1> HIDE DEF up, onward
<1>4. CASE up \in at.path /\ onward = [built EXCEPT !.cycle = @ \cup {up}]
  <2>1. onward \in Builders /\ onward.depth = built.depth /\ onward.cycle = built.cycle \cup {up}
    BY <1>1, <1>4, LoopFacts
  <2>2. Book(at.path, onward)
    BY <1>1, <1>4, LoopClosed
  <2>3. QED
    BY <1>2, <1>3, <1>4, <2>1, <2>2 DEF Furthered, up, onward
<1>5. CASE up \notin at.path /\ built.depth[up] >= at.depth + 1 /\ onward = built
  BY <1>2, <1>3, <1>5 DEF Furthered, up, onward
<1>6. CASE /\ up \notin at.path \cup DOMAIN ancestry /\ ~(built.depth[up] >= at.depth + 1)
           /\ onward = AtDepth(built, up, at.depth + 1)
  <2> DEFINE d == at.depth + 1
  <2>1. d \in Nat /\ onward = AtDepth(built, up, d) /\ ~(built.depth[up] >= d)
    BY <1>2, <1>6
  <2> HIDE DEF d
  <2>2. /\ onward \in Builders /\ onward.cycle = built.cycle
        /\ \A ref \in WhyRefs : onward.depth[ref] = IF ref = up THEN d ELSE built.depth[ref]
    BY <1>1, <2>1, DeeperFacts
  <2>3. Book(at.path, onward)
    BY <1>1, <1>6, EndFound
  <2>4. \A ref \in WhyRefs : onward.depth[ref] >= built.depth[ref]
    BY <1>1, <1>3, <2>1, <2>2
  <2>5. \A ref \in at.path : onward.depth[ref] = built.depth[ref]
    BY <1>2, <1>6, <2>2
  <2>6. onward.depth[up] >= at.depth + 1
    BY <1>1, <2>1, <2>2 DEF d
  <2>7. QED
    BY <2>2, <2>3, <2>4, <2>5, <2>6 DEF Furthered, up, onward
<1>7. CASE /\ up \in DOMAIN ancestry \ at.path /\ ~(built.depth[up] >= at.depth + 1)
           /\ onward = walk[on]
  <2>1. Ready(on)
    BY <1>1, <1>7, DescentBegins
  <2>2. on \in Descents /\ on.path = at.path \cup {up} /\ on.id = up
    BY <1>7, FurtherFacts DEF Further
  <2>3. Made(on, Parents(up), onward)
    <3> HIDE DEF on
    <3>1. QED
      BY <1>1, <1>7, <2>1, <2>2
  <2> DEFINE parent == up
             there == onward
  <2>4. /\ there = onward /\ parent = up /\ parent \in Parents(at.id)
        /\ parent \in DOMAIN ancestry \ at.path /\ ~(built.depth[parent] >= at.depth + 1)
        /\ Made(Further(at, parent, built), Parents(parent), there)
    BY <1>1, <1>7, <2>3
  <2> HIDE DEF parent, there, on
  <2>5. /\ there \in Builders /\ Book(at.path, there)
        /\ \A ref \in WhyRefs : there.depth[ref] >= built.depth[ref]
        /\ \A ref \in at.path : there.depth[ref] = built.depth[ref]
        /\ built.cycle \subseteq there.cycle
        /\ there.depth[parent] >= at.depth + 1
    BY <2>4, DescentEnds
  <2>6. Furthered(at, built, parent, there)
    BY <2>5 DEF Furthered
  <2>7. QED
    BY <2>4, <2>6 DEF up, onward
<1>8. QED
  BY <1>1, <1>4, <1>5, <1>6, <1>7

LEMMA EntryMade ==
  ASSUME WhyInv, NEW at \in Descents, Ready(at),
         \A d \in Descents : \A up \in WhyRefs \ at.path :
            Ready(d) /\ d.path = at.path \cup {up} => Made(d, Parents(d.id), walk[d])
  PROVE  Made(at, Parents(at.id), walk[at])
<1> DEFINE n == Len(ancestry[at.id])
<1>1. /\ n \in Nat /\ at.id \in DOMAIN ancestry /\ at.built \in Builders /\ at.depth \in Nat
      /\ at.path \subseteq WhyRefs
  BY EdgeFacts DEF Descents
<1>2. PICK after : Edgewise(after, walk, at)
  BY <1>1, EdgeByEdge
<1> DEFINE S == {k \in 0 .. n : Made(at, Ups(at, k), after[k])}
<1>3. 0 \in S
  <2>1. after[0] = at.built
    BY <1>2 DEF Edgewise
  <2>2. Ups(at, 0) = {}
    BY DEF Ups
  <2>3. \A ref \in WhyRefs : at.built.depth[ref] \in Nat
    BY <1>1, BuilderFacts
  <2>4. Made(at, {}, at.built)
    BY <1>1, <2>3 DEF Made, Grown, Taken, Ready
  <2>5. Made(at, Ups(at, 0), after[0])
    <3> HIDE DEF n
    <3>1. QED
      BY <2>1, <2>2, <2>4
  <2>6. 0 \in 0 .. n
    BY <1>1
  <2>7. QED
    BY <2>5, <2>6
<1>4. ASSUME NEW k \in 1 .. n, k - 1 \in S PROVE k \in S
  <2> DEFINE built == after[k - 1]
             edge == ancestry[at.id][k]
             onward == after[k]
  <2>1. Made(at, Ups(at, k - 1), built) /\ onward = Follow(walk, at, built, edge) /\ k \in 0 .. n /\ k \in Nat
    BY <1>1, <1>2, <1>4 DEF Edgewise
  <2>2. Ups(at, k) = Ups(at, k - 1) \cup IF Derives(edge) THEN {edge.to} ELSE {}
    <3>1. 1 .. k = (1 .. k - 1) \cup {k}
      BY <2>1
    <3>2. QED
      BY <3>1 DEF Ups
  <2> HIDE DEF built, onward, edge, n, S
  <2>3. built \in Builders /\ Book(at.path, built) /\ Grown(at, built) /\ Taken(at, Ups(at, k - 1), built)
    BY <2>1 DEF Made
  <2>4. OnPath(at, built.depth)
    <3>1. \A ref \in at.path : built.depth[ref] = at.built.depth[ref]
      BY <2>3 DEF Grown
    <3>2. OnPath(at, at.built.depth)
      BY DEF Ready
    <3>3. QED
      BY <3>1, <3>2 DEF OnPath
  <2>5. CASE ~Derives(edge)
    <3>1. onward = built
      BY <2>1, <2>5 DEF Follow
    <3>2. QED
      BY <2>1, <2>2, <2>5, <3>1 DEF S, onward
  <2>6. CASE Derives(edge)
    <3>1. Furthered(at, built, edge.to, onward)
      BY <2>1, <2>3, <2>4, <2>6, EdgeFurthers DEF n, edge
    <3>2. \A ref \in WhyRefs : built.depth[ref] \in Nat /\ onward.depth[ref] \in Nat /\ at.built.depth[ref] \in Nat
      BY <1>1, <2>3, <3>1, BuilderFacts DEF Furthered
    <3>3. Grown(at, onward)
      BY <1>1, <2>3, <3>1, <3>2 DEF Grown, Furthered
    <3>4. \A up \in Ups(at, k - 1) : up \in WhyRefs
      <4>1. \A j \in 1 .. k - 1 : j \in 1 .. Len(ancestry[at.id])
        BY <1>1, <2>1 DEF n
      <4>2. QED
        BY <1>1, <4>1, EdgeFacts DEF Ups
    <3>5. Taken(at, Ups(at, k - 1), onward)
      <4>1. ASSUME NEW up \in Ups(at, k - 1)
            PROVE  (up \in at.path /\ onward.cycle # {}) \/ onward.depth[up] >= at.depth + 1
        <5>1. (up \in at.path /\ built.cycle # {}) \/ built.depth[up] >= at.depth + 1
          BY <2>3 DEF Taken
        <5>2. onward.depth[up] >= built.depth[up] /\ built.cycle \subseteq onward.cycle /\ up \in WhyRefs
          BY <3>1, <3>4 DEF Furthered
        <5>3. built.depth[up] \in Nat /\ onward.depth[up] \in Nat
          BY <3>2, <5>2
        <5>4. QED
          BY <1>1, <5>1, <5>2, <5>3
      <4>2. QED
        BY <4>1 DEF Taken
    <3>6. Taken(at, Ups(at, k), onward)
      BY <2>2, <2>6, <3>1, <3>5 DEF Taken, Furthered
    <3>7. Made(at, Ups(at, k), onward)
      BY <3>1, <3>3, <3>6 DEF Made, Furthered
    <3>8. QED
      BY <2>1, <3>7 DEF S, onward
  <2>7. QED
    BY <2>5, <2>6
<1> HIDE DEF S
<1>5. \A k \in 0 .. n : k \in S
  <2> HIDE DEF n
  <2>1. QED
    BY <1>1, <1>3, <1>4, CountedUp
<1>6. Made(at, Ups(at, n), after[n])
  BY <1>1, <1>5 DEF S
<1>7. Ups(at, n) = Parents(at.id)
  BY <1>1, EdgeFacts DEF Ups
<1>8. walk[at] = after[n]
  BY <1>2, WalkByEdges DEF Edgewise
<1>9. QED
  BY <1>6, <1>7, <1>8

\* What a walk makes of the builder, the longest paths first.
LEMMA WalkMakes ==
  ASSUME WhyInv
  PROVE  \A at \in Descents : Ready(at) => Made(at, Parents(at.id), walk[at])
<1> DEFINE m == Cardinality(WhyRefs) + 1
           S == {n \in 0 .. m : \A at \in Descents :
                    Ready(at) /\ Room(at.path) < n => Made(at, Parents(at.id), walk[at])}
<1>1. m \in Nat /\ m \in 0 .. m
  BY RefsAreFinite
<1>2. \A at \in Descents : at.path \in SUBSET WhyRefs /\ Room(at.path) \in Nat /\ Room(at.path) < m
  <2>1. \A at \in Descents : at.path \in SUBSET WhyRefs
    BY DEF Descents
  <2>2. QED
    BY <2>1, LessRoom
<1> HIDE DEF m
<1>3. 0 \in S
  BY <1>1, <1>2
<1>4. ASSUME NEW n \in 1 .. m, n - 1 \in S PROVE n \in S
  <2>1. ASSUME NEW at \in Descents, Ready(at), Room(at.path) < n
        PROVE  Made(at, Parents(at.id), walk[at])
    <3>1. ASSUME NEW d \in Descents, NEW up \in WhyRefs \ at.path, Ready(d), d.path = at.path \cup {up}
          PROVE  Made(d, Parents(d.id), walk[d])
      <4>1. Room(d.path) = Room(at.path) - 1
        BY <1>2, <3>1, LessRoom
      <4>2. Room(d.path) < n - 1
        BY <1>1, <1>2, <1>4, <2>1, <4>1
      <4>3. QED
        BY <1>4, <3>1, <4>2
    <3>2. QED
      BY <2>1, <3>1, EntryMade
  <2>2. QED
    BY <1>1, <2>1
<1> HIDE DEF S
<1>5. \A n \in 0 .. m : n \in S
  BY <1>1, <1>3, <1>4, CountedUp
<1>6. QED
  BY <1>1, <1>2, <1>5 DEF S

-----------------------------------------------------------------------------
\* The whole walk: what has been found once the subject's edges are followed.
Subject == [id |-> Asked, depth |-> 0, path |-> {Asked}, built |-> Start]

WalkedUp(built) ==
    /\ built \in Builders /\ Asked \in WhyRefs
    /\ Measured(built.depth)
    /\ built.cycle # {} => Looped
    /\ \A ref \in WhyRefs : \A up \in Parents(ref) : built.depth[ref] > 0 \/ ref = Asked =>
          /\ built.depth[up] > 0 \/ up = Asked
          /\ built.cycle = {} => built.depth[up] > built.depth[ref]
    /\ \A ref \in WhyRefs : built.depth[ref] > 0 =>
          \E id \in WhyRefs : built.depth[id] = built.depth[ref] - 1

LEMMA SubjectReady ==
  ASSUME WhyInv, Asked \in DOMAIN ancestry
  PROVE  Subject \in Descents /\ Ready(Subject)
<1>1. Asked \in WhyRefs
  BY EdgeFacts
<1>2. Start \in Builders /\ Start.cycle = {} /\ \A ref \in WhyRefs : Start.depth[ref] = 0
  BY DEF Start, Builders
<1>3. /\ Subject.id = Asked /\ Subject.depth = 0 /\ Subject.path = {Asked} /\ Subject.built = Start
      /\ Subject \in [id : {Asked}, depth : {0}, path : {{Asked}}, built : {Start}]
  BY DEF Subject
<1>4. Subject \in Descents
  BY <1>1, <1>2, <1>3 DEF Descents
<1>5. Book({Asked}, Start)
  <2>1. \A ref \in WhyRefs : ~(Start.depth[ref] > 0)
    BY <1>2
  <2>2. DOMAIN ancestry \subseteq WhyRefs
    BY EdgeFacts
  <2> HIDE DEF Start
  <2>3. Measured(Start.depth)
    BY <1>1, <1>2, <2>1 DEF Measured
  <2>4. Upheld({Asked}, Start) /\ NoGaps({Asked}, Start.depth)
    BY <2>1, <2>2 DEF Upheld, NoGaps
  <2>5. QED
    BY <1>2, <2>3, <2>4 DEF Book
<1>6. Cardinality({Asked}) = 0 + 1
  BY FS_Singleton
<1>7. Asked \in Above[0] /\ Asked \in LeadsTo(Asked)
  BY <1>1, AboveFacts, LeadsFacts
<1>8. OnPath(Subject, Start.depth)
  BY <1>1, <1>2, <1>3, <1>6, <1>7 DEF OnPath
<1>9. QED
  BY <1>3, <1>4, <1>5, <1>8 DEF Ready

LEMMA SubjectWalked ==
  ASSUME WhyInv, Asked \in DOMAIN ancestry
  PROVE  WalkedUp(walk[Subject])
<1> DEFINE built == walk[Subject]
           D == built.depth
<1>1. Subject.id = Asked /\ Subject.depth = 0 /\ Subject.path = {Asked}
  BY DEF Subject
<1>2. Made(Subject, Parents(Asked), built)
  BY <1>1, SubjectReady, WalkMakes
<1> HIDE DEF built
<1>3. built \in Builders /\ Book({Asked}, built) /\ Taken(Subject, Parents(Asked), built)
  BY <1>1, <1>2 DEF Made
<1>4. Asked \in WhyRefs /\ \A ref \in WhyRefs : D[ref] \in Nat
  BY <1>3, EdgeFacts, BuilderFacts
<1>5. Measured(D) /\ D[Asked] = 0 /\ (built.cycle # {} => Looped)
  BY <1>3 DEF Book, Measured
<1>6. ASSUME NEW ref \in WhyRefs, NEW up \in Parents(ref), D[ref] > 0 \/ ref = Asked
      PROVE  (D[up] > 0 \/ up = Asked) /\ (built.cycle = {} => D[up] > D[ref])
  <2>1. ref \in DOMAIN ancestry
    BY NoParents
  <2>2. CASE ref = Asked
    <3>1. (up \in {Asked} /\ built.cycle # {}) \/ D[up] >= 0 + 1
      BY <1>1, <1>3, <2>2 DEF Taken
    <3>2. up \in WhyRefs
      BY <2>1, EdgeFacts
    <3>3. D[up] \in Nat
      BY <1>4, <3>2
    <3>4. QED
      BY <1>5, <2>2, <3>1, <3>3
  <2>3. CASE ref # Asked
    <3>1. Upheld({Asked}, built)
      BY <1>3 DEF Book
    <3>2. QED
      BY <1>6, <2>1, <2>3, <3>1 DEF Upheld
  <2>4. QED
    BY <2>2, <2>3
<1>7. ASSUME NEW ref \in WhyRefs, D[ref] > 0 PROVE \E id \in WhyRefs : D[id] = D[ref] - 1
  <2>1. NoGaps({Asked}, D)
    BY <1>3 DEF Book
  <2>2. ref \in WhyRefs \ {Asked}
    BY <1>5, <1>7
  <2>3. ~(D[ref] <= D[Asked])
    BY <1>4, <1>5, <1>7
  <2>4. DOMAIN ancestry \subseteq WhyRefs
    BY EdgeFacts
  <2>5. QED
    BY <1>7, <2>1, <2>2, <2>3, <2>4 DEF NoGaps
<1>8. QED
  BY <1>3, <1>4, <1>5, <1>6, <1>7 DEF WalkedUp, built

\* What lies above the subject was found, and deep enough where nothing loops.
LEMMA AboveIsFound ==
  ASSUME WhyInv, NEW built, WalkedUp(built)
  PROVE  \A n \in 0 .. Cardinality(WhyRefs) : \A x \in Above[n] :
            /\ x \in WhyRefs /\ (built.depth[x] > 0 \/ x = Asked)
            /\ built.cycle = {} => built.depth[x] >= n
<1> DEFINE D == built.depth
           refs == Cardinality(WhyRefs)
           Deep(n, x) == x \in WhyRefs /\ (D[x] > 0 \/ x = Asked) /\ (built.cycle = {} => D[x] >= n)
           S == {n \in 0 .. refs : \A x \in Above[n] : Deep(n, x)}
<1>1. refs \in Nat /\ 0 \in 0 .. refs
  BY RefsAreFinite
<1>2. Asked \in WhyRefs /\ \A ref \in WhyRefs : D[ref] \in Nat
  BY BuilderFacts DEF WalkedUp
<1>3. 0 \in S
  <2>1. \A x \in Above[0] : x = Asked
    BY AboveFacts
  <2>2. D[Asked] = 0
    BY DEF WalkedUp, Measured
  <2>3. QED
    BY <1>1, <1>2, <2>1, <2>2
<1>4. ASSUME NEW n \in 1 .. refs, n - 1 \in S PROVE n \in S
  <2>1. ASSUME NEW x \in Above[n] PROVE Deep(n, x)
    <3>1. Above[n] = UNION {Parents(id) : id \in Above[n - 1]}
      BY AboveFacts
    <3>2. PICK id \in Above[n - 1] : x \in Parents(id)
      BY <2>1, <3>1
    <3>3. Deep(n - 1, id)
      BY <1>4
    <3>4. x \in WhyRefs
      BY <3>2, NoParents, EdgeFacts
    <3>5. (D[x] > 0 \/ x = Asked) /\ (built.cycle = {} => D[x] > D[id])
      BY <3>2, <3>3 DEF WalkedUp
    <3>6. D[x] \in Nat /\ D[id] \in Nat
      BY <1>2, <3>3, <3>4
    <3>7. QED
      BY <1>1, <3>3, <3>4, <3>5, <3>6
  <2>2. QED
    BY <1>1, <2>1
<1> HIDE DEF S
<1>5. \A n \in 0 .. refs : n \in S
  <2> HIDE DEF refs
  <2>1. QED
    BY <1>1, <1>3, <1>4, CountedUp
<1>6. QED
  BY <1>5 DEF S

LEMMA FoundIsAbove ==
  ASSUME WhyInv, NEW built, WalkedUp(built)
  PROVE  {ref \in WhyRefs : built.depth[ref] > 0} =
         (UNION {Above[n] : n \in 1 .. Cardinality(WhyRefs)}) \ {Asked}
<1> DEFINE D == built.depth
           refs == Cardinality(WhyRefs)
<1>1. refs \in Nat /\ \A n \in 1 .. refs : n \in 0 .. refs
  BY RefsAreFinite
<1>2. \A ref \in WhyRefs : D[ref] \in Nat
  BY BuilderFacts DEF WalkedUp
<1>3. ASSUME NEW ref \in WhyRefs, D[ref] > 0 PROVE D[ref] \in 1 .. refs /\ ref \in Above[D[ref]] /\ ref # Asked
  BY <1>1, <1>2, <1>3 DEF WalkedUp, Measured
<1>4. ASSUME NEW n \in 1 .. refs, NEW x \in Above[n], x # Asked PROVE x \in WhyRefs /\ D[x] > 0
  BY <1>1, <1>4, AboveIsFound
<1>5. QED
  BY <1>3, <1>4

\* No depth is left out, so that the deepest is less than there are refs.
LEMMA DepthsInhabited ==
  ASSUME WhyInv, NEW built, WalkedUp(built), NEW ref \in WhyRefs
  PROVE  /\ \A k \in 0 .. built.depth[ref] : \E id \in WhyRefs : built.depth[id] = k
         /\ built.depth[ref] + 1 <= Cardinality(WhyRefs)
<1> DEFINE D == built.depth
           top == D[ref]
           S == {n \in 0 .. top : \E id \in WhyRefs : D[id] = top - n}
<1>1. \A id \in WhyRefs : D[id] \in Nat
  BY BuilderFacts DEF WalkedUp
<1>2. \A id \in WhyRefs : D[id] > 0 => \E down \in WhyRefs : D[down] = D[id] - 1
  BY DEF WalkedUp
<1>3. top \in Nat
  BY <1>1
<1>4. 0 \in S
  BY <1>3
<1>5. ASSUME NEW n \in 1 .. top, n - 1 \in S PROVE n \in S
  <2>1. PICK id \in WhyRefs : D[id] = top - (n - 1)
    BY <1>5
  <2> HIDE DEF D
  <2>2. D[id] > 0 /\ D[id] - 1 = top - n
    <3> HIDE DEF top
    <3>1. QED
      BY <1>3, <2>1
  <2>3. \E down \in WhyRefs : D[down] = top - n
    BY <1>2, <2>2
  <2>4. n \in 0 .. top
    <3> HIDE DEF top
    <3>1. QED
      BY <1>3
  <2>5. QED
    BY <2>3, <2>4
<1> HIDE DEF S
<1>6. \A n \in 0 .. top : n \in S
  <2> HIDE DEF top
  <2>1. QED
    BY <1>3, <1>4, <1>5, CountedUp
<1>7. ASSUME NEW k \in 0 .. top PROVE \E id \in WhyRefs : D[id] = k
  <2> HIDE DEF D
  <2>1. top - k \in S
    <3> HIDE DEF top
    <3>1. QED
      BY <1>3, <1>6
  <2>2. \E id \in WhyRefs : D[id] = top - (top - k)
    BY <2>1 DEF S
  <2>3. top - (top - k) = k
    <3> HIDE DEF top
    <3>1. QED
      BY <1>3
  <2>4. QED
    BY <2>2, <2>3
<1> DEFINE at == [k \in 0 .. top |-> CHOOSE id \in WhyRefs : D[id] = k]
<1>8. \A k \in 0 .. top : at[k] \in WhyRefs /\ D[at[k]] = k
  BY <1>7
<1> HIDE DEF top
<1>9. at \in Injection(0 .. top, WhyRefs)
  <2>1. at \in [0 .. top -> WhyRefs]
    BY <1>8
  <2> HIDE DEF at
  <2>2. \A i, j \in 0 .. top : at[i] = at[j] => i = j
    BY <1>8
  <2>3. QED
    BY <2>1, <2>2 DEF Injection, IsInjective
<1>10. Cardinality(0 .. top) <= Cardinality(WhyRefs)
  BY <1>9, RefsAreFinite, FS_Injection
<1>11. Cardinality(0 .. top) = top + 1
  BY <1>3, FS_Interval
<1>12. top + 1 <= Cardinality(WhyRefs)
  BY <1>10, <1>11
<1>13. QED
  BY <1>7, <1>12 DEF top

\* The loops, and the depths where there is none.
LEMMA LoopsAreTold ==
  ASSUME WhyInv, NEW built, WalkedUp(built)
  PROVE  /\ built.cycle # {} <=> Above[Cardinality(WhyRefs)] # {}
         /\ built.cycle = {} => \A ref \in WhyRefs : built.depth[ref] > 0 =>
              built.depth[ref] = Max({n \in 1 .. Cardinality(WhyRefs) : ref \in Above[n]})
<1> DEFINE D == built.depth
           refs == Cardinality(WhyRefs)
<1>1. refs \in Nat /\ refs \in 0 .. refs /\ \A n \in 1 .. refs : n \in 0 .. refs
  BY RefsAreFinite
<1>2. \A ref \in WhyRefs : D[ref] \in Nat
  BY BuilderFacts DEF WalkedUp
<1>3. built.cycle # {} => Above[refs] # {}
  BY <1>1 DEF WalkedUp, Looped
<1>4. ASSUME built.cycle = {}, NEW x \in Above[refs] PROVE FALSE
  <2>1. x \in WhyRefs /\ D[x] >= refs
    BY <1>1, <1>4, AboveIsFound
  <2>2. D[x] + 1 <= refs /\ D[x] \in Nat
    BY <1>2, <2>1, DepthsInhabited
  <2> HIDE DEF D, refs
  <2>3. QED
    BY <1>1, <2>1, <2>2
<1>5. ASSUME built.cycle = {}, NEW ref \in WhyRefs, D[ref] > 0
      PROVE  D[ref] = Max({n \in 1 .. refs : ref \in Above[n]})
  <2> DEFINE T == {n \in 1 .. refs : ref \in Above[n]}
             d == D[ref]
  <2>1. d \in T
    BY <1>1, <1>2, <1>5 DEF WalkedUp, Measured
  <2>2. \A n \in T : d >= n
    BY <1>1, <1>5, AboveIsFound
  <2>3. T \subseteq Nat
    OBVIOUS
  <2> HIDE DEF T, d
  <2>4. Max(T) = d
    <3>1. Max(T) \in T /\ \A n \in T : Max(T) >= n
      BY <2>1, <2>2 DEF Max
    <3>2. Max(T) \in Nat /\ d \in Nat /\ d >= Max(T) /\ Max(T) >= d
      BY <2>1, <2>2, <2>3, <3>1
    <3>3. QED
      BY <3>2
  <2>5. QED
    BY <2>4 DEF T, d
<1>6. QED
  BY <1>3, <1>4, <1>5

LEMMA GenerationFacts ==
  ASSUME WhyInv, NEW built, WalkedUp(built)
  PROVE  LET arising == generations(built.depth)
             height == Len(arising)
         IN  /\ height \in Nat /\ DOMAIN arising = 1 .. height
             /\ UNION Range(arising) = {ref \in WhyRefs : built.depth[ref] > 0}
             /\ \A g \in 1 .. height : arising[g] # {} /\ \A r \in arising[g] :
                   r \in WhyRefs /\ built.depth[r] > 0 /\ built.depth[r] = height - g + 1
<1> DEFINE D == built.depth
           arising == generations(D)
           T == {0} \cup Range(D)
           deepest == Max(T)
<1>1. D \in [WhyRefs -> Nat] /\ \A ref \in WhyRefs : D[ref] \in Nat
  BY BuilderFacts DEF WalkedUp
<1>2. Range(D) = {D[ref] : ref \in WhyRefs}
  BY <1>1 DEF Range
<1>3. IsFiniteSet(T) /\ T \in SUBSET Nat
  <2>1. IsFiniteSet({D[ref] : ref \in WhyRefs})
    BY RefsAreFinite, FiniteImage
  <2>2. T = {D[ref] : ref \in WhyRefs} \cup {0}
    BY <1>2
  <2>3. IsFiniteSet(T)
    BY <2>1, <2>2, FS_AddElement
  <2>4. QED
    BY <1>1, <2>2, <2>3
<1>4. deepest \in T /\ \A d \in T : deepest >= d
  <2>1. T # {}
    OBVIOUS
  <2> HIDE DEF T
  <2>2. PICK m \in T : \A d \in T : d <= m
    BY <1>3, <2>1, GreatestExists
  <2>3. m \in T /\ \A d \in T : m >= d
    BY <1>3, <2>2
  <2>4. QED
    BY <2>3 DEF Max
<1>5. deepest \in Nat /\ \A ref \in WhyRefs : deepest >= D[ref]
  BY <1>2, <1>3, <1>4
<1>6. arising = [g \in 1 .. deepest |-> {ref \in WhyRefs : D[ref] = deepest - g + 1}]
  BY <1>1 DEF generations
<1>7. deepest = 0 \/ \E ref \in WhyRefs : D[ref] = deepest
  BY <1>2, <1>4
<1> HIDE DEF arising, deepest, T, D
<1>8. Len(arising) = deepest /\ DOMAIN arising = 1 .. deepest
  BY <1>5, <1>6
<1>9. \A g \in 1 .. deepest : arising[g] = {ref \in WhyRefs : D[ref] = deepest - g + 1}
  BY <1>6
<1>10. ASSUME NEW g \in 1 .. deepest PROVE arising[g] # {}
  <2>1. PICK ref \in WhyRefs : D[ref] = deepest
    BY <1>5, <1>7
  <2>2. deepest - g + 1 \in 0 .. D[ref]
    BY <1>5, <2>1
  <2>3. \E id \in WhyRefs : D[id] = deepest - g + 1
    BY <2>2, DepthsInhabited DEF D
  <2>4. QED
    BY <1>9, <2>3
<1>11. ASSUME NEW g \in 1 .. deepest, NEW r \in arising[g]
       PROVE  r \in WhyRefs /\ D[r] > 0 /\ D[r] = deepest - g + 1
  BY <1>1, <1>5, <1>9, <1>11
<1>12. UNION Range(arising) = {ref \in WhyRefs : D[ref] > 0}
  <2>1. Range(arising) = {arising[g] : g \in 1 .. deepest}
    BY <1>8 DEF Range
  <2>2. ASSUME NEW ref \in WhyRefs, D[ref] > 0 PROVE \E g \in 1 .. deepest : ref \in arising[g]
    <3>1. deepest - D[ref] + 1 \in 1 .. deepest /\ deepest - (deepest - D[ref] + 1) + 1 = D[ref]
      BY <1>1, <1>5, <2>2
    <3>2. QED
      BY <1>9, <3>1
  <2>3. QED
    BY <1>11, <2>1, <2>2
<1>13. QED
  BY <1>5, <1>8, <1>10, <1>11, <1>12 DEF D, arising

\* What ChainIsAncestry says of a chain, of the refs and what lies above.
Ancestral(refs, above, arising, cycle) ==
    LET looped == above[refs] # {}
        height == Len(arising)
    IN  /\ UNION Range(arising) = (UNION {above[n] : n \in 1..refs}) \ {Asked}
        /\ \A g, h \in 1..height : g # h => arising[g] \cap arising[h] = {}
        /\ cycle # {} <=> looped
        /\ \A g \in 1..height : arising[g] # {}
        /\ ~looped => \A g \in 1..height :
              \A r \in arising[g] : height - g + 1 = Max({n \in 1..refs : r \in above[n]})

LEMMA AncestralChain ==
  ChainIsAncestry <=>
    (chain.outcome = "chain" => Ancestral(Cardinality(WhyRefs), Above, chain.arising, chain.cycle))
BY DEF ChainIsAncestry, Ancestral

LEMMA WalkIsAncestral ==
  ASSUME WhyInv, NEW built, WalkedUp(built)
  PROVE  Ancestral(Cardinality(WhyRefs), Above, generations(built.depth), built.cycle)
<1> DEFINE D == built.depth
           arising == generations(D)
           height == Len(arising)
           refs == Cardinality(WhyRefs)
<1>1. /\ height \in Nat /\ DOMAIN arising = 1 .. height
      /\ UNION Range(arising) = {ref \in WhyRefs : D[ref] > 0}
      /\ \A g \in 1 .. height : arising[g] # {} /\ \A r \in arising[g] :
            r \in WhyRefs /\ D[r] > 0 /\ D[r] = height - g + 1
  BY GenerationFacts
<1>2. {ref \in WhyRefs : D[ref] > 0} = (UNION {Above[n] : n \in 1 .. refs}) \ {Asked}
  BY FoundIsAbove
<1>3. /\ built.cycle # {} <=> Above[refs] # {}
      /\ built.cycle = {} => \A ref \in WhyRefs : D[ref] > 0 =>
           D[ref] = Max({n \in 1 .. refs : ref \in Above[n]})
  BY LoopsAreTold
<1> HIDE DEF D, arising, height, refs
<1>4. ASSUME NEW g \in 1 .. height, NEW h \in 1 .. height, g # h PROVE arising[g] \cap arising[h] = {}
  <2>1. SUFFICES ASSUME NEW r \in arising[g] \cap arising[h] PROVE FALSE
    OBVIOUS
  <2>2. height - g + 1 = height - h + 1
    BY <1>1
  <2>3. QED
    BY <1>1, <1>4, <2>2
<1>5. ASSUME Above[refs] = {}, NEW g \in 1 .. height, NEW r \in arising[g]
      PROVE  height - g + 1 = Max({n \in 1 .. refs : r \in Above[n]})
  BY <1>1, <1>3, <1>5
<1>6. QED
  BY <1>1, <1>2, <1>3, <1>4, <1>5 DEF Ancestral, D, arising, height, refs

\* The ledger `dira why` has built its chain from stays as it is.
AboveStepwise ==
    /\ Above[0] = {Asked}
    /\ \A n \in 1 .. Cardinality(WhyRefs) : Above[n] = UNION {Parents(id) : id \in Above[n - 1]}
    /\ Above = [n \in 0 .. Cardinality(WhyRefs) |-> Above[n]]

LEMMA AboveIsStepwise == WhyInv => AboveStepwise
BY AboveFacts DEF AboveStepwise

LEMMA AncestryStays ==
  ASSUME WhyInv, ancestry' = ancestry
  PROVE  WhyRefs' = WhyRefs /\ Above' = Above
<1> DEFINE refs == Cardinality(WhyRefs)
           here == Above
           onward == Above'
           S == {n \in 0 .. refs : onward[n] = here[n]}
<1>1. \A id : Parents(id)' = Parents(id)
  BY DEF Parents
<1>2. WhyRefs' = WhyRefs
  BY <1>1 DEF WhyRefs
<1>3. WhyInv'
  BY DEF WhyInv
<1>4. (WhyInv => AboveStepwise)'
  BY AboveIsStepwise, PTL
<1>5. refs \in Nat
  BY RefsAreFinite
<1>6. /\ here[0] = {Asked}
      /\ \A n \in 1 .. refs : here[n] = UNION {Parents(id) : id \in here[n - 1]}
      /\ here = [n \in 0 .. refs |-> here[n]]
  BY AboveFacts
<1>7. /\ onward[0] = {Asked}
      /\ \A n \in 1 .. refs : onward[n] = UNION {Parents(id) : id \in onward[n - 1]}
      /\ onward = [n \in 0 .. refs |-> onward[n]]
  BY <1>1, <1>2, <1>3, <1>4 DEF AboveStepwise
<1> HIDE DEF refs, here, onward
<1>8. 0 \in S
  <2>1. 0 \in 0 .. refs
    BY <1>5
  <2>2. onward[0] = here[0]
    BY <1>6, <1>7
  <2>3. QED
    BY <2>1, <2>2
<1>9. ASSUME NEW n \in 1 .. refs, n - 1 \in S PROVE n \in S
  <2>1. onward[n - 1] = here[n - 1] /\ n \in 0 .. refs
    BY <1>5, <1>9
  <2>2. here[n] = UNION {Parents(id) : id \in here[n - 1]}
    BY <1>6
  <2>3. onward[n] = UNION {Parents(id) : id \in onward[n - 1]}
    BY <1>7
  <2>4. onward[n] = here[n]
    BY <2>1, <2>2, <2>3
  <2>5. QED
    BY <2>1, <2>4
<1> HIDE DEF S
<1>10. \A n \in 0 .. refs : n \in S
  BY <1>5, <1>8, <1>9, CountedUp
<1>11. onward = here
  BY <1>6, <1>7, <1>10 DEF S
<1>12. QED
  BY <1>2, <1>11 DEF here, onward

AncestryInv == WhyInv /\ ChainIsAncestry /\ cached \in Ancestries

\* The chain `dira why` prints is the ancestry of its subject, whatever the
\* ledger holds and whichever entry is removed before it is read: it names
\* every ancestor once and nothing else, leaves no generation empty, reports
\* a loop exactly when there is one, and puts each ancestor at the length of
\* the longest way up to it when there is none.
THEOREM AncestryIsTold == WhySpec => []ChainIsAncestry
<1>0. (ChainIsAncestry <=>
        (chain.outcome = "chain" =>
           Ancestral(Cardinality(WhyRefs), Above, chain.arising, chain.cycle)))'
  BY AncestralChain, PTL
<1>1. WhyInit => AncestryInv
  <2> SUFFICES ASSUME WhyInit PROVE AncestryInv
    OBVIOUS
  <2>1. WhyInv /\ cached \in Ancestries
    BY WhyAssumption DEF WhyInit, WhyInv, WhyEdges
  <2>2. chain.outcome # "chain"
    BY DEF WhyInit, NoChain
  <2>3. QED
    BY <2>1, <2>2 DEF AncestryInv, ChainIsAncestry
<1>2. AncestryInv /\ [WhyNext]_whyVars => AncestryInv'
  <2> SUFFICES ASSUME AncestryInv, [WhyNext]_whyVars PROVE AncestryInv'
    OBVIOUS
  <2>1. ASSUME NEW id \in DOMAIN ancestry, RemoveEntry(id) PROVE AncestryInv'
    <3>1. ancestry' = [other \in DOMAIN ancestry \ {id} |-> ancestry[other]]
      BY <2>1 DEF RemoveEntry
    <3>2. IsFiniteSet(DOMAIN ancestry \ {id})
      BY FS_RemoveElement DEF AncestryInv, WhyInv
    <3>3. WhyInv'
      BY <3>1, <3>2 DEF AncestryInv, WhyInv
    <3>4. chain'.outcome # "chain" /\ cached' \in Ancestries
      BY <2>1 DEF RemoveEntry, NoChain, AncestryInv
    <3>5. QED
      BY <3>3, <3>4 DEF AncestryInv, ChainIsAncestry
  <2>2. CASE Build
    <3>1. ancestry' = ancestry /\ cached' = cached
      BY <2>2 DEF Build
    <3>2. WhyInv'
      BY <3>1 DEF AncestryInv, WhyInv
    <3>3. chain'.outcome = "chain" =>
            /\ Asked \in DOMAIN ancestry
            /\ chain'.arising = generations(walk[Subject].depth) /\ chain'.cycle = walk[Subject].cycle
      BY <2>2 DEF Build, Subject
    <3>4. chain'.outcome = "chain" =>
            Ancestral(Cardinality(WhyRefs), Above, chain'.arising, chain'.cycle)
      BY <3>3, SubjectWalked, WalkIsAncestral DEF AncestryInv
    <3>5. WhyRefs' = WhyRefs /\ Above' = Above
      BY <3>1, AncestryStays DEF AncestryInv
    <3>6. ChainIsAncestry'
      BY <3>4, <3>5, <1>0
    <3>7. QED
      BY <3>1, <3>2, <3>6 DEF AncestryInv
  <2>3. CASE UNCHANGED whyVars
    <3>1. ancestry' = ancestry /\ cached' = cached /\ chain' = chain
      BY <2>3 DEF whyVars
    <3>2. WhyRefs' = WhyRefs /\ Above' = Above
      BY <3>1, AncestryStays DEF AncestryInv
    <3>3. WhyInv'
      BY <3>1 DEF AncestryInv, WhyInv
    <3>4. ChainIsAncestry'
      BY <3>1, <3>2, <1>0, AncestralChain DEF AncestryInv
    <3>5. QED
      BY <3>1, <3>3, <3>4 DEF AncestryInv
  <2>4. QED
    BY <2>1, <2>2, <2>3 DEF WhyNext
<1>3. AncestryInv => ChainIsAncestry
  BY DEF AncestryInv
<1>4. QED
  BY <1>1, <1>2, <1>3, PTL DEF WhySpec
=============================================================================
