---------------------------- MODULE SkillInstall ----------------------------
(***************************************************************************)
(* `dira install-skill` (cmd/dira/install_skill.go, internal/skill): one   *)
(* document is copied under ~/.claude unless somebody edited the copy.     *)
(* The write truncates first; the operator edits at any moment.            *)
(***************************************************************************)
EXTENDS Naturals, FiniteSets

CONSTANTS Installs,   \* the processes that run the command
          Shipped,    \* the document of the binary
          Edits,      \* what the operator, or an older binary, put there
          NoFile,     \* nothing is there
          CutOff      \* a file somebody has truncated and not filled

VARIABLES skillFile,  \* SKILL.md
          inst        \* each process: [at, force, outcome, saw]

skillVars == <<skillFile, inst>>

NotStarted == [at |-> "idle", force |-> FALSE, outcome |-> "none", saw |-> NoFile]

\* Mutant: only --force looks at what is there.
heedlessOutcome(current, force) ==
    CASE current = Shipped /\ ~force -> "UNCHANGED"
      [] OTHER -> "INSTALLED"

\* The right bytes first, then the question whether a difference may go.
skillOutcome(current, force) ==
    CASE current = Shipped -> "UNCHANGED"
      [] current \notin {Shipped, NoFile} /\ ~force -> "REFUSED"
      [] OTHER -> "INSTALLED"

runInstallSkill(p) ==
    /\ inst[p] = NotStarted
    /\ \E force \in BOOLEAN :
          inst' = [inst EXCEPT ![p] =
                      [at |-> IF skillOutcome(skillFile, force) = "INSTALLED" THEN "truncate" ELSE "ended",
                       force |-> force, outcome |-> skillOutcome(skillFile, force), saw |-> skillFile]]
    /\ UNCHANGED skillFile

TruncateSkill(p) ==
    /\ inst[p].at = "truncate"
    /\ skillFile' = CutOff
    /\ inst' = [inst EXCEPT ![p].at = "write"]

WriteSkill(p) ==
    /\ inst[p].at = "write"
    /\ skillFile' = Shipped
    /\ inst' = [inst EXCEPT ![p].at = "ended"]

ExitSkill(p) == inst[p] # NotStarted /\ inst' = [inst EXCEPT ![p] = NotStarted] /\ UNCHANGED skillFile

EditSkill == skillFile' \in (Edits \cup {NoFile}) \ {skillFile} /\ UNCHANGED inst

SkillInit == skillFile \in Edits \cup {NoFile, Shipped} /\ inst = [p \in Installs |-> NotStarted]

SkillNext == EditSkill \/ \E p \in Installs : runInstallSkill(p) \/ TruncateSkill(p) \/ WriteSkill(p) \/ ExitSkill(p)

SkillSpec == SkillInit /\ [][SkillNext]_skillVars
-----------------------------------------------------------------------------
\* Properties

\* Without --force an edit is only ever lost to a process that had looked
\* while there was no file at all.
EditsOutliveReinstalls ==
    [][\A p \in Installs :
          inst[p].at = "truncate" /\ inst'[p].at = "write" /\ skillFile \in Edits
          => inst[p].force \/ inst[p].saw = NoFile]_skillVars
=============================================================================
