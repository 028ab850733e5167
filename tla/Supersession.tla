---------------------------- MODULE Supersession ----------------------------
(***************************************************************************)
(* dira supersede (cmd/dira/supersede.go), the one command that writes two *)
(* entries, against itself and against dira log <id> (cmd/dira/log.go),    *)
(* which reads an entry and puts the whole of it back.  There is no lock   *)
(* and no version check on Put, and a process may be killed between any    *)
(* two store operations.                                                   *)
(*                                                                         *)
(* An entry is its state, the targets of its supersedes edges, and whether *)
(* it records alternatives: all that the checks and the two writes look at.*)
(***************************************************************************)
EXTENDS Naturals, FiniteSets

CONSTANTS
    Procs,     \* dira processes; one runs one command at a time
    Ids,       \* entry ids
    KindOf,    \* KindOf[i]: the kind the prefix of id i encodes
    None       \* nothing read yet

States(kind) ==
    CASE kind = "intent"     -> {"active", "achieved", "abandoned"}
      [] kind = "decision"   -> {"accepted", "rejected", "superseded", "staged"}
      [] kind = "question"   -> {"open", "answered"}
      [] kind = "constraint" -> {"active", "superseded"}
      [] kind = "note"       -> {"active", "abandoned"}

ASSUME KindAssumption ==
    KindOf \in [Ids -> {"intent", "decision", "question", "constraint", "note"}]

VARIABLES
    entries,      \* entries[i]: the entry stored under id i
    proc,         \* proc[p]: the command p runs and what it has read
    recorded,     \* history: the ids some stored supersedes edge has ever pointed to
    overlapped    \* history: two commands on a common entry ran at once

vars == <<entries, proc, recorded, overlapped>>

\* with and target: the copies held in memory.  wrote: this run has stored something.
IdleProc == [pc |-> "idle", t |-> None, w |-> None, with |-> None, target |-> None,
             wrote |-> FALSE, exit |-> 0]

Init ==
    /\ entries \in [Ids -> [state : {"accepted", "active", "open", "staged"},
                            sup : {{}}, alts : BOOLEAN]]
    /\ \A i \in Ids :
         /\ entries[i].state \in States(KindOf[i])
         /\ KindOf[i] = "decision" /\ entries[i].state # "staged" => entries[i].alts
         /\ KindOf[i] # "decision" => ~entries[i].alts
    /\ proc = [p \in Procs |-> IdleProc]
    /\ recorded = {}
    /\ overlapped = FALSE

Active(p) == proc[p].pc \notin {"idle", "exit"}

Touches(p) == {proc[p].t, proc[p].w}

(* The rule of Entry.Validate that a change of state can break: a decision *)
(* needs an alternative as soon as it is not staged.                       *)
Valid(i, e) ==
    /\ e.state \in States(KindOf[i])
    /\ KindOf[i] = "decision" /\ e.state # "staged" => e.alts

Set(p, q) == proc' = [proc EXCEPT ![p] = q]

Exited(q, code) == [q EXCEPT !.pc = "exit", !.exit = code, !.with = None, !.target = None]

Exit(p, q, code) == Set(p, Exited(q, code))

Put(i, e) ==
    /\ entries' = [entries EXCEPT ![i] = e]
    /\ recorded' = recorded \cup e.sup

Start(p, q) ==
    /\ proc[p] = IdleProc
    /\ Set(p, q)
    /\ overlapped' = (overlapped \/ \E r \in Procs : Active(r) /\ Touches(r) \cap {q.t, q.w} # {})
    /\ UNCHANGED <<entries, recorded>>

-----------------------------------------------------------------------------
(* dira supersede t --with w                                               *)

(* A command line checkRefs lets through; it refuses the others before the *)
(* ledger is opened.                                                       *)
CheckRefs(t, w) ==
    /\ t # w
    /\ "superseded" \in States(KindOf[t])
    /\ KindOf[t] = KindOf[w]

Supersede(p) ==
    \E t, w \in Ids :
        /\ CheckRefs(t, w)
        /\ Start(p, [IdleProc EXCEPT !.pc = "getWith", !.t = t, !.w = w])

GetWith(p) ==
    /\ proc[p].pc = "getWith"
    /\ Set(p, [proc[p] EXCEPT !.pc = "getTarget", !.with = entries[proc[p].w]])
    /\ UNCHANGED <<entries, recorded, overlapped>>

\* Faulty variant: a retired entry may replace another.
CheckStatesOfTarget(retired, superseder, t) ==
    /\ superseder.state # "staged"
    /\ retired.state = "superseded" => t \in superseder.sup

CheckStates(retired, superseder, t) ==
    /\ superseder.state # "superseded"
    /\ superseder.state # "staged"
    /\ retired.state = "superseded" => t \in superseder.sup

\* Faulty variants: the state is written first and the edge left to a re-run;
\* an edge that is there is taken for the whole; the new edge replaces the others.
FirstWriteState(q, retired) ==
    IF retired.state # "superseded" THEN [q EXCEPT !.pc = "putState", !.target = retired]
    ELSE IF q.t \notin q.with.sup
      THEN [q EXCEPT !.pc = "putEdge", !.target = retired, !.with.sup = @ \cup {q.t}]
    ELSE Exited(q, 0)

FirstWriteTrustingEdge(q, retired) ==
    IF q.t \notin q.with.sup
      THEN [q EXCEPT !.pc = "putEdge", !.target = retired, !.with.sup = @ \cup {q.t}]
    ELSE Exited(q, 0)

FirstWriteOnlyEdge(q, retired) ==
    IF q.t \notin q.with.sup
      THEN [q EXCEPT !.pc = "putEdge", !.target = retired, !.with.sup = {q.t}]
    ELSE IF retired.state # "superseded" THEN [q EXCEPT !.pc = "putState", !.target = retired]
    ELSE Exited(q, 0)

(* Edge first, then state, and whichever is there already is not written:  *)
(* a re-run finishes what an interrupted run began.  AddEdge touches only  *)
(* the copy in memory.                                                     *)
FirstWrite(q, retired) ==
    IF q.t \notin q.with.sup
      THEN [q EXCEPT !.pc = "putEdge", !.target = retired, !.with.sup = @ \cup {q.t}]
    ELSE IF retired.state # "superseded" THEN [q EXCEPT !.pc = "putState", !.target = retired]
    ELSE Exited(q, 0)

(* The second Get and the checks; no store operation comes between.        *)
GetTarget(p) ==
    /\ proc[p].pc = "getTarget"
    /\ LET q == proc[p] IN
         Set(p, IF CheckStates(entries[q.t], q.with, q.t)
                  THEN FirstWrite(q, entries[q.t]) ELSE Exited(q, 2))
    /\ UNCHANGED <<entries, recorded, overlapped>>

(* Write one: the edge onto the entry that replaces.                       *)
PutEdge(p) ==
    /\ proc[p].pc = "putEdge"
    /\ LET q == [proc[p] EXCEPT !.wrote = TRUE] IN
         IF ~Valid(q.w, q.with)
           THEN Exit(p, proc[p], 1) /\ UNCHANGED <<entries, recorded>>
           ELSE /\ Put(q.w, q.with)
                /\ IF q.target.state = "superseded"
                     THEN Exit(p, q, 0)
                     ELSE Set(p, [q EXCEPT !.pc = "putState"])
    /\ UNCHANGED overlapped

(* Write two: the state of the entry that was replaced.                    *)
PutState(p) ==
    /\ proc[p].pc = "putState"
    /\ LET q == proc[p]
           retired == [q.target EXCEPT !.state = "superseded"]
       IN IF ~Valid(q.t, retired)
            THEN Exit(p, q, 1) /\ UNCHANGED <<entries, recorded>>
            ELSE Put(q.t, retired) /\ Exit(p, [q EXCEPT !.wrote = TRUE], 0)
    /\ UNCHANGED overlapped

-----------------------------------------------------------------------------
(* dira log t with a tag or an edge t does not carry yet, of a type other  *)
(* than supersedes: the entry goes back as it was read, plus that.         *)

Log(p) ==
    \E t \in Ids : Start(p, [IdleProc EXCEPT !.pc = "logGet", !.t = t, !.w = t])

LogGet(p) ==
    /\ proc[p].pc = "logGet"
    /\ Set(p, [proc[p] EXCEPT !.pc = "logPut", !.target = entries[proc[p].t]])
    /\ UNCHANGED <<entries, recorded, overlapped>>

LogPut(p) ==
    /\ proc[p].pc = "logPut"
    /\ Put(proc[p].t, proc[p].target)
    /\ Exit(p, [proc[p] EXCEPT !.wrote = TRUE], 0)
    /\ UNCHANGED overlapped

-----------------------------------------------------------------------------
(* A Get or a Put that fails ends the command.                             *)
StoreFails(p) ==
    /\ Active(p)
    /\ Exit(p, proc[p], 1)
    /\ UNCHANGED <<entries, recorded, overlapped>>

Crash(p) ==
    /\ Active(p)
    /\ Set(p, IdleProc)
    /\ UNCHANGED <<entries, recorded, overlapped>>

Restart(p) ==
    /\ proc[p].pc = "exit"
    /\ Set(p, IdleProc)
    /\ UNCHANGED <<entries, recorded, overlapped>>

Next ==
    \E p \in Procs :
        \/ Supersede(p) \/ GetWith(p) \/ GetTarget(p) \/ PutEdge(p) \/ PutState(p)
        \/ Log(p) \/ LogGet(p) \/ LogPut(p)
        \/ StoreFails(p) \/ Crash(p) \/ Restart(p)

Spec == Init /\ [][Next]_vars

-----------------------------------------------------------------------------
(* Properties.                                                             *)

Entry == [state : UNION {States(KindOf[i]) : i \in Ids}, sup : SUBSET Ids, alts : BOOLEAN]

TypeOK ==
    /\ entries \in [Ids -> Entry]
    /\ \A i \in Ids : Valid(i, entries[i])
    /\ \A p \in Procs :
         /\ proc[p].pc \in {"idle", "getWith", "getTarget", "putEdge", "putState",
                            "logGet", "logPut", "exit"}
         /\ proc[p].exit \in 0..2
    /\ recorded \subseteq Ids

(* Edge first, whatever runs at the same time and wherever a process dies  *)
(* (supersede.go:46-53): an entry that has left the enforced set had a     *)
(* replacement stored before it left.                                      *)
EdgeFirst ==
    \A t \in Ids : entries[t].state = "superseded" => t \in recorded

(* Exit code 2 says the record refused, and a refused command has changed  *)
(* nothing (supersede.go:172-178, 395-409).                                *)
RefusalWritesNothing ==
    \A p \in Procs : proc[p].exit = 2 => ~proc[p].wrote

(* "this command writes both sides" (supersede.go:26-31): when it exits 0, *)
(* both are in the ledger, unless another command worked on one of the two *)
(* entries at the same time.                                               *)
SuccessMeansBothSides ==
    \A p \in Procs :
        proc[p].pc = "exit" /\ proc[p].exit = 0 /\ proc[p].t # proc[p].w /\ ~overlapped =>
            /\ entries[proc[p].t].state = "superseded"
            /\ proc[p].t \in entries[proc[p].w].sup

\* What the exit code tells the caller to do next is right in both cases.
ExitCodeIsTrue == RefusalWritesNothing /\ SuccessMeansBothSides

(* dira check redirects a retired entry to what replaced it; the redirect  *)
(* must end at an entry that is still in force.  Crashes, failed writes    *)
(* and re-runs in any order do not produce a ring of retired entries or a  *)
(* retired entry with no replacement; only overlapping commands can.       *)
Replacing(t) == {w \in Ids : t \in entries[w].sup}

\* What replaced t, what replaced that, and so on.
Redirects(t) ==
    {l \in Ids : \A D \in SUBSET Ids :
        Replacing(t) \subseteq D /\ (\A d \in D : Replacing(d) \subseteq D) => l \in D}

RedirectReachesLive ==
    ~overlapped =>
        \A t \in Ids : entries[t].state = "superseded" =>
            \E l \in Redirects(t) : entries[l].state \notin {"superseded", "staged"}

(* Retirement is final and an edge is never dropped, as long as commands   *)
(* on a common entry do not overlap.                                       *)
NothingUndone ==
    [][~overlapped' => \A i \in Ids :
         /\ entries[i].state = "superseded" => entries'[i].state = "superseded"
         /\ entries[i].sup \subseteq entries'[i].sup]_vars

(* Claimed of an interrupted supersession: "recoverable by re-running the  *)
(* identical command" (supersede.go:59-62).  An edge whose target is still *)
(* in force must then be one that the same command can still complete.     *)
RerunCanFinish ==
    \A t, w \in Ids : t \in entries[w].sup /\ entries[t].state # "superseded" /\ ~overlapped =>
        /\ CheckStates(entries[t], entries[w], t)
        /\ Valid(t, [entries[t] EXCEPT !.state = "superseded"])
=============================================================================
