------------------------- MODULE SupersessionProofs -------------------------
(***************************************************************************)
(* Proofs about Supersession, for any number of processes, any entries and *)
(* any assignment of kinds.  What a command may do next follows from what  *)
(* it has read, so the invariant is about the copies in memory: Known says *)
(* what holds of them whatever else runs, Current what holds of them while *)
(* no two commands have overlapped on an entry.                            *)
(***************************************************************************)
EXTENDS Supersession, TLAPS

Command ==
    [pc : {"idle", "getWith", "getTarget", "putEdge", "putState", "logGet", "logPut", "exit"},
     t : Ids \cup {None}, w : Ids \cup {None},
     with : Entry \cup {None}, target : Entry \cup {None}, wrote : BOOLEAN, exit : 0..2]

\* What a command holds was stored, and every edge in it has been recorded.
Known(q, rec) ==
    /\ q \in Command
    /\ q.pc \notin {"idle", "exit"} => q.t \in Ids /\ q.w \in Ids
    /\ q.pc \in {"getTarget", "putEdge"} => q.with \in Entry
    /\ q.pc = "getTarget" => q.with.sup \subseteq rec
    /\ q.pc = "putEdge" => q.with.state # "superseded" /\ q.t \in q.with.sup
    /\ q.pc \in {"putEdge", "putState", "logPut"} =>
         q.target \in Entry /\ q.target.sup \subseteq rec
    /\ q.pc = "putState" => q.t \in rec
    /\ q.pc = "logPut" =>
         Valid(q.t, q.target) /\ (q.target.state = "superseded" => q.t \in rec)
    /\ q.pc \in {"getWith", "getTarget", "putEdge"} => ~q.wrote
    /\ q.exit = 2 => ~q.wrote
    /\ q.pc # "exit" => q.exit = 0

Stored ==
    /\ entries \in [Ids -> Entry]
    /\ \A i \in Ids : Valid(i, entries[i])
    /\ \A i \in Ids : entries[i].sup \subseteq recorded
    /\ recorded \subseteq Ids
    /\ overlapped \in BOOLEAN

IInv ==
    /\ Stored
    /\ EdgeFirst
    /\ proc \in [Procs -> Command]
    /\ \A p \in Procs : Known(proc[p], recorded)

\* A copy of an entry agrees with the ledger, but for the edge to be written.
Current(q, ent) ==
    /\ q.pc \in {"getWith", "getTarget", "putEdge", "putState"} => q.t # q.w
    /\ q.pc = "getTarget" => q.with = ent[q.w]
    /\ q.pc = "putEdge" =>
         /\ q.target = ent[q.t]
         /\ q.with.state = ent[q.w].state
         /\ ent[q.w].sup \subseteq q.with.sup
    /\ q.pc = "putState" => q.target = ent[q.t] /\ q.t \in ent[q.w].sup
    /\ q.pc \in {"logGet", "logPut"} => q.t = q.w
    /\ q.pc = "logPut" => q.target = ent[q.t]
    /\ q.pc = "exit" /\ q.exit = 0 /\ q.t # q.w =>
         q.t \in Ids /\ q.w \in Ids /\ ent[q.t].state = "superseded" /\ q.t \in ent[q.w].sup

Alone ==
    ~overlapped =>
        /\ \A p \in Procs : Current(proc[p], entries)
        /\ \A p, r \in Procs :
             p # r /\ Active(p) /\ Active(r) => Touches(p) \cap Touches(r) = {}

-----------------------------------------------------------------------------
(* What a command knows stays true while the record of edges grows.        *)
LEMMA KnownStays ==
    ASSUME NEW rec, NEW more, rec \subseteq more, NEW q, Known(q, rec)
    PROVE  Known(q, more)
BY DEF Known

(* A valid entry with edges to known ids is an Entry.                      *)
LEMMA ValidEntry ==
    ASSUME NEW i \in Ids, NEW e, e.state \in States(KindOf[i])
    PROVE  e.state \in UNION {States(KindOf[j]) : j \in Ids}
OBVIOUS

(* A command that is over holds no copies.                                 *)
LEMMA ExitedFields ==
    ASSUME NEW q \in Command, NEW code \in 0..2
    PROVE  LET e == Exited(q, code) IN
           /\ e \in Command /\ e.pc = "exit" /\ e.exit = code
           /\ e.t = q.t /\ e.w = q.w /\ e.wrote = q.wrote
BY DEF Exited, Command

LEMMA ExitKnows ==
    ASSUME NEW q \in Command, NEW code \in 0..2, code = 2 => ~q.wrote, NEW rec
    PROVE  Known(Exited(q, code), rec)
<1> DEFINE e == Exited(q, code)
<1>1. e \in Command /\ e.pc = "exit" /\ e.exit = code /\ e.wrote = q.wrote
  BY ExitedFields
<1> HIDE DEF e
<1>2. Known(e, rec)
  BY <1>1 DEF Known
<1> QED
  BY <1>2 DEF e

(* The commands' first steps.                                              *)
LEMMA StartKnows ==
    ASSUME NEW c \in {"getWith", "logGet"}, NEW t \in Ids, NEW w \in Ids, NEW rec
    PROVE  LET q == [IdleProc EXCEPT !.pc = c, !.t = t, !.w = w] IN
           Known(q, rec) /\ q.pc = c /\ q.t = t /\ q.w = w
<1> DEFINE q == [IdleProc EXCEPT !.pc = c, !.t = t, !.w = w]
<1>0. IdleProc \in Command /\ IdleProc.wrote = FALSE /\ IdleProc.exit = 0
  BY DEF IdleProc, Command
<1>1. /\ q \in Command /\ q.pc = c /\ q.t = t /\ q.w = w /\ q.wrote = FALSE /\ q.exit = 0
  BY <1>0 DEF Command
<1> HIDE DEF q
<1>2. Known(q, rec)
  BY <1>1 DEF Known
<1> QED
  BY <1>1, <1>2 DEF q

LEMMA Start0 == Init => IInv
<1> SUFFICES ASSUME Init PROVE IInv
  OBVIOUS
<1>1. \A i \in Ids : /\ entries[i].state \in States(KindOf[i])
                     /\ entries[i].sup = {} /\ entries[i].alts \in BOOLEAN
                     /\ entries[i].state \in {"accepted", "active", "open", "staged"}
                     /\ entries[i] \in Entry
  <2> TAKE i \in Ids
  <2>1. entries[i] \in [state : {"accepted", "active", "open", "staged"}, sup : {{}}, alts : BOOLEAN]
    BY DEF Init
  <2>2. entries[i].state \in UNION {States(KindOf[j]) : j \in Ids}
    BY ValidEntry DEF Init
  <2> QED
    BY <2>1, <2>2 DEF Init, Entry
<1>2. entries \in [Ids -> Entry]
  BY <1>1 DEF Init
<1>3. Stored
  BY <1>1, <1>2 DEF Init, Stored, Valid
<1>4. EdgeFirst
  BY <1>1 DEF EdgeFirst
<1>5. IdleProc \in Command /\ Known(IdleProc, recorded)
  BY DEF IdleProc, Command, Known
<1> QED
  BY <1>3, <1>4, <1>5 DEF Init, IInv

(* The command of p is replaced by q, and the record does not shrink.      *)
LEMMA Moves ==
    ASSUME IInv, NEW p \in Procs, NEW q, Set(p, q), Known(q, recorded'), recorded \subseteq recorded'
    PROVE  proc' \in [Procs -> Command] /\ \A r \in Procs : Known(proc[r], recorded)'
<1>1. q \in Command
  BY DEF Known
<1>2. proc' \in [Procs -> Command] /\ proc'[p] = q /\ \A r \in Procs \ {p} : proc'[r] = proc[r]
  BY <1>1 DEF IInv, Set
<1>3. \A r \in Procs : Known(proc[r], recorded')
  BY KnownStays DEF IInv
<1> QED
  BY <1>2, <1>3

(* Nothing is stored.                                                      *)
LEMMA Reads ==
    ASSUME IInv, NEW p \in Procs, NEW q, Set(p, q), Known(q, recorded),
           UNCHANGED <<entries, recorded>>, overlapped' \in BOOLEAN
    PROVE  IInv'
<1>1. Stored' /\ EdgeFirst'
  BY DEF IInv, Stored, EdgeFirst, Valid
<1>2. proc' \in [Procs -> Command] /\ \A r \in Procs : Known(proc[r], recorded)'
  BY Moves
<1> QED
  BY <1>1, <1>2 DEF IInv

(* A valid entry is stored, retired only if it has a replacement.          *)
LEMMA Writes ==
    ASSUME IInv, NEW p \in Procs, NEW q, Set(p, q), Known(q, recorded'),
           NEW i \in Ids, NEW e \in Entry, Put(i, e), Valid(i, e),
           e.state = "superseded" => i \in recorded, UNCHANGED overlapped
    PROVE  IInv'
<1>1. recorded \subseteq recorded' /\ e.sup \subseteq recorded' /\ recorded' \subseteq Ids
  BY DEF Put, IInv, Stored, Entry
<1>2. /\ entries' \in [Ids -> Entry] /\ entries'[i] = e
      /\ \A j \in Ids \ {i} : entries'[j] = entries[j]
  BY DEF Put, IInv, Stored
<1>3. Stored'
  <2>1. \A j \in Ids : Valid(j, entries'[j])
    BY <1>2 DEF IInv, Stored
  <2>2. \A j \in Ids : entries'[j].sup \subseteq recorded'
    BY <1>1, <1>2 DEF IInv, Stored
  <2> QED
    BY <1>1, <1>2, <2>1, <2>2 DEF IInv, Stored, Valid
<1>4. EdgeFirst'
  BY <1>1, <1>2 DEF IInv, EdgeFirst
<1>5. proc' \in [Procs -> Command] /\ \A r \in Procs : Known(proc[r], recorded)'
  BY <1>1, Moves
<1> QED
  BY <1>3, <1>4, <1>5 DEF IInv

-----------------------------------------------------------------------------
LEMMA Step == IInv /\ [Next]_vars => IInv'
<1> SUFFICES ASSUME IInv, [Next]_vars PROVE IInv'
  OBVIOUS
<1>0. \A p \in Procs : proc[p] \in Command /\ Known(proc[p], recorded)
  BY DEF IInv
<1> USE DEF Exit
<1>1. ASSUME NEW p \in Procs, NEW q, Start(p, q), Known(q, recorded) PROVE IInv'
  BY <1>1, Reads DEF Start, IInv, Stored
<1>2. ASSUME NEW p \in Procs, Supersede(p) PROVE IInv'
  <2>1. PICK t \in Ids, w \in Ids : Start(p, [IdleProc EXCEPT !.pc = "getWith", !.t = t, !.w = w])
    BY <1>2 DEF Supersede
  <2>2. Known([IdleProc EXCEPT !.pc = "getWith", !.t = t, !.w = w], recorded)
    BY StartKnows
  <2> QED
    BY <1>1, <2>1, <2>2
<1>3. ASSUME NEW p \in Procs, GetWith(p) PROVE IInv'
  <2> DEFINE q == [proc[p] EXCEPT !.pc = "getTarget", !.with = entries[proc[p].w]]
  <2>1. proc[p].pc = "getWith" /\ proc[p].w \in Ids /\ proc[p].t \in Ids
    BY <1>0, <1>3 DEF GetWith, Known
  <2>2. Known(q, recorded)
    <3>1. entries[proc[p].w] \in Entry /\ entries[proc[p].w].sup \subseteq recorded
      BY <2>1 DEF IInv, Stored
    <3>2. /\ q \in Command /\ q.pc = "getTarget" /\ q.t = proc[p].t /\ q.w = proc[p].w
          /\ q.with = entries[proc[p].w] /\ q.wrote = proc[p].wrote /\ q.exit = proc[p].exit
      BY <1>0, <3>1 DEF Command
    <3>3. ~proc[p].wrote /\ proc[p].exit = 0
      BY <1>0, <2>1 DEF Known
    <3> HIDE DEF q
    <3> QED
      BY <2>1, <3>1, <3>2, <3>3 DEF Known
  <2>3. Set(p, q) /\ UNCHANGED <<entries, recorded>> /\ overlapped' \in BOOLEAN
    BY <1>3 DEF GetWith, IInv, Stored
  <2> HIDE DEF q
  <2> QED
    BY <2>2, <2>3, Reads
<1>4. ASSUME NEW p \in Procs, GetTarget(p) PROVE IInv'
  <2> DEFINE q == proc[p]
             r == entries[q.t]
             next == IF CheckStates(r, q.with, q.t) THEN FirstWrite(q, r) ELSE Exited(q, 2)
  <2>1. /\ q \in Command /\ q.pc = "getTarget" /\ q.t \in Ids /\ q.w \in Ids
        /\ q.with \in Entry /\ q.with.sup \subseteq recorded /\ ~q.wrote /\ q.exit = 0
    BY <1>0, <1>4 DEF GetTarget, Known
  <2>2. r \in Entry /\ r.sup \subseteq recorded
    BY <2>1 DEF IInv, Stored
  <2>3. Known(next, recorded)
    <3>1. CASE ~CheckStates(r, q.with, q.t)
      BY <2>1, <3>1, ExitKnows
    <3>2. CASE CheckStates(r, q.with, q.t) /\ q.t \notin q.with.sup
      <4> DEFINE e == [q.with EXCEPT !.sup = @ \cup {q.t}]
      <4>1. next = [q EXCEPT !.pc = "putEdge", !.target = r, !.with.sup = @ \cup {q.t}]
        BY <3>2 DEF FirstWrite
      <4>2. e \in Entry /\ e.state = q.with.state /\ q.t \in e.sup
        BY <2>1 DEF Entry
      <4>3. /\ next \in Command /\ next.pc = "putEdge" /\ next.t = q.t /\ next.w = q.w
            /\ next.with = e /\ next.target = r /\ next.wrote = q.wrote /\ next.exit = q.exit
        BY <2>1, <2>2, <4>1, <4>2, ZenonT(60) DEF Command
      <4>4. e.state # "superseded"
        BY <3>2, <4>2 DEF CheckStates
      <4> HIDE DEF next, e
      <4> QED
        BY <2>1, <2>2, <4>2, <4>3, <4>4 DEF Known
    <3>3. CASE /\ CheckStates(r, q.with, q.t) /\ q.t \in q.with.sup
               /\ r.state # "superseded"
      <4>1. next = [q EXCEPT !.pc = "putState", !.target = r]
        BY <3>3 DEF FirstWrite
      <4>2. /\ next \in Command /\ next.pc = "putState" /\ next.t = q.t /\ next.w = q.w
            /\ next.target = r /\ next.exit = q.exit
        BY <2>1, <2>2, <4>1 DEF Command
      <4> HIDE DEF next
      <4> QED
        BY <2>1, <2>2, <3>3, <4>2 DEF Known
    <3>4. CASE /\ CheckStates(r, q.with, q.t) /\ q.t \in q.with.sup
               /\ r.state = "superseded"
      <4>1. next = Exited(q, 0)
        BY <3>4 DEF FirstWrite
      <4> QED
        BY <2>1, <4>1, ExitKnows
    <3> QED
      BY <3>1, <3>2, <3>3, <3>4
  <2>4. Set(p, next) /\ UNCHANGED <<entries, recorded>> /\ overlapped' \in BOOLEAN
    BY <1>4 DEF GetTarget, IInv, Stored
  <2> HIDE DEF next
  <2> QED
    BY <2>3, <2>4, Reads
<1>5. ASSUME NEW p \in Procs, PutEdge(p) PROVE IInv'
  <2> DEFINE q == [proc[p] EXCEPT !.wrote = TRUE]
  <2>1. /\ proc[p] \in Command /\ proc[p].pc = "putEdge" /\ proc[p].t \in Ids /\ proc[p].w \in Ids
        /\ proc[p].with \in Entry /\ proc[p].with.state # "superseded" /\ proc[p].t \in proc[p].with.sup
        /\ proc[p].target \in Entry /\ proc[p].target.sup \subseteq recorded
        /\ ~proc[p].wrote /\ proc[p].exit = 0
    BY <1>0, <1>5 DEF PutEdge, Known
  <2>2. /\ q \in Command /\ q.pc = "putEdge" /\ q.t = proc[p].t /\ q.w = proc[p].w
        /\ q.with = proc[p].with /\ q.target = proc[p].target /\ q.exit = 0
    BY <2>1 DEF Command
  <2>3. CASE ~Valid(q.w, q.with)
    <3> DEFINE next == Exited(proc[p], 1)
    <3>1. Known(next, recorded)
      BY <2>1, ExitKnows
    <3>2. Set(p, next) /\ UNCHANGED <<entries, recorded>> /\ overlapped' \in BOOLEAN
      BY <1>5, <2>3 DEF PutEdge, IInv, Stored
    <3> HIDE DEF next
    <3> QED
      BY <3>1, <3>2, Reads
  <2>4. CASE Valid(q.w, q.with)
    <3> DEFINE next == IF q.target.state = "superseded" THEN Exited(q, 0)
                       ELSE [q EXCEPT !.pc = "putState"]
    <3>1. Put(q.w, q.with) /\ Set(p, next) /\ UNCHANGED overlapped
      BY <1>5, <2>4 DEF PutEdge
    <3>2. recorded' = recorded \cup q.with.sup
      BY <3>1 DEF Put
    <3>3. Known(next, recorded')
      <4>1. CASE q.target.state = "superseded"
        BY <2>2, <4>1, ExitKnows
      <4>2. CASE q.target.state # "superseded"
        <5>1. /\ next \in Command /\ next.pc = "putState" /\ next.t = q.t /\ next.w = q.w
              /\ next.target = q.target /\ next.exit = 0
          BY <2>2, <4>2 DEF Command
        <5> HIDE DEF next
        <5> QED
          BY <2>1, <2>2, <3>2, <5>1 DEF Known
      <4> QED
        BY <4>1, <4>2
    <3> HIDE DEF next
    <3>4. q.w \in Ids /\ q.with \in Entry /\ q.with.state # "superseded"
      BY <2>1, <2>2
    <3> HIDE DEF q
    <3> QED
      BY <2>4, <3>1, <3>3, <3>4, Writes
  <2> QED
    BY <2>3, <2>4
<1>6. ASSUME NEW p \in Procs, PutState(p) PROVE IInv'
  <2> DEFINE q == proc[p]
             e == [q.target EXCEPT !.state = "superseded"]
  <2>1. /\ q \in Command /\ q.pc = "putState" /\ q.t \in Ids /\ q.t \in recorded
        /\ q.target \in Entry /\ q.exit = 0
    BY <1>0, <1>6 DEF PutState, Known
  <2>2. CASE ~Valid(q.t, e)
    <3> DEFINE next == Exited(q, 1)
    <3>1. Known(next, recorded)
      BY <2>1, ExitKnows
    <3>2. Set(p, next) /\ UNCHANGED <<entries, recorded>> /\ overlapped' \in BOOLEAN
      BY <1>6, <2>2 DEF PutState, IInv, Stored
    <3> HIDE DEF next
    <3> QED
      BY <3>1, <3>2, Reads
  <2>3. CASE Valid(q.t, e)
    <3> DEFINE next == Exited([q EXCEPT !.wrote = TRUE], 0)
    <3>1. Put(q.t, e) /\ Set(p, next) /\ UNCHANGED overlapped
      BY <1>6, <2>3 DEF PutState
    <3>2. e \in Entry
      BY <2>1, <2>3, ValidEntry DEF Valid, Entry
    <3>3. Known(next, recorded')
      BY <2>1, ExitKnows, [q EXCEPT !.wrote = TRUE] \in Command DEF Command
    <3>4. q.t \in Ids /\ q.t \in recorded
      BY <2>1
    <3> HIDE DEF next, e, q
    <3> QED
      BY <2>3, <3>1, <3>2, <3>3, <3>4, Writes
  <2> QED
    BY <2>2, <2>3
<1>7. ASSUME NEW p \in Procs, Log(p) PROVE IInv'
  <2>1. PICK t \in Ids : Start(p, [IdleProc EXCEPT !.pc = "logGet", !.t = t, !.w = t])
    BY <1>7 DEF Log
  <2>2. Known([IdleProc EXCEPT !.pc = "logGet", !.t = t, !.w = t], recorded)
    BY StartKnows
  <2> QED
    BY <1>1, <2>1, <2>2
<1>8. ASSUME NEW p \in Procs, LogGet(p) PROVE IInv'
  <2> DEFINE q == [proc[p] EXCEPT !.pc = "logPut", !.target = entries[proc[p].t]]
  <2>1. proc[p].pc = "logGet" /\ proc[p].w \in Ids /\ proc[p].t \in Ids
    BY <1>0, <1>8 DEF LogGet, Known
  <2>2. Known(q, recorded)
    <3>1. /\ entries[proc[p].t] \in Entry /\ entries[proc[p].t].sup \subseteq recorded
          /\ Valid(proc[p].t, entries[proc[p].t])
          /\ entries[proc[p].t].state = "superseded" => proc[p].t \in recorded
      BY <2>1 DEF IInv, Stored, EdgeFirst
    <3>2. /\ q \in Command /\ q.pc = "logPut" /\ q.t = proc[p].t /\ q.w = proc[p].w
          /\ q.target = entries[proc[p].t] /\ q.exit = proc[p].exit
      BY <1>0, <3>1 DEF Command
    <3>3. proc[p].exit = 0
      BY <1>0, <2>1 DEF Known
    <3> HIDE DEF q
    <3> QED
      BY <2>1, <3>1, <3>2, <3>3 DEF Known
  <2>3. Set(p, q) /\ UNCHANGED <<entries, recorded>> /\ overlapped' \in BOOLEAN
    BY <1>8 DEF LogGet, IInv, Stored
  <2> HIDE DEF q
  <2> QED
    BY <2>2, <2>3, Reads
<1>9. ASSUME NEW p \in Procs, LogPut(p) PROVE IInv'
  <2> DEFINE q == proc[p]
             next == Exited([q EXCEPT !.wrote = TRUE], 0)
  <2>1. /\ q \in Command /\ q.pc = "logPut" /\ q.t \in Ids /\ q.target \in Entry
        /\ Valid(q.t, q.target) /\ (q.target.state = "superseded" => q.t \in recorded)
        /\ q.exit = 0
    BY <1>0, <1>9 DEF LogPut, Known
  <2>2. Put(q.t, q.target) /\ Set(p, next) /\ UNCHANGED overlapped
    BY <1>9 DEF LogPut
  <2>3. Known(next, recorded')
    BY <2>1, ExitKnows, [q EXCEPT !.wrote = TRUE] \in Command DEF Command
  <2> HIDE DEF next, q
  <2> QED
    BY <2>1, <2>2, <2>3, Writes
<1>10. ASSUME NEW p \in Procs, StoreFails(p) PROVE IInv'
  <2> DEFINE next == Exited(proc[p], 1)
  <2>1. Known(next, recorded)
    BY <1>0, ExitKnows
  <2>2. Set(p, next) /\ UNCHANGED <<entries, recorded>> /\ overlapped' \in BOOLEAN
    BY <1>10 DEF StoreFails, IInv, Stored
  <2> HIDE DEF next
  <2> QED
    BY <2>1, <2>2, Reads
<1>11. ASSUME NEW p \in Procs, Crash(p) \/ Restart(p) PROVE IInv'
  <2>1. Known(IdleProc, recorded)
    BY DEF Known, Command, IdleProc
  <2>2. Set(p, IdleProc) /\ UNCHANGED <<entries, recorded>> /\ overlapped' \in BOOLEAN
    BY <1>11 DEF Crash, Restart, IInv, Stored
  <2> QED
    BY <2>1, <2>2, Reads
<1>12. ASSUME UNCHANGED vars PROVE IInv'
  BY <1>12 DEF vars, IInv, Stored, EdgeFirst, Known, Valid
<1> QED
  BY <1>2, <1>3, <1>4, <1>5, <1>6, <1>7, <1>8, <1>9, <1>10, <1>11, <1>12 DEF Next

LEMMA Invariance == Spec => []IInv
<1> QED
  BY Start0, Step, PTL DEF Spec

(* The type invariant, for every set of ids and every assignment of kinds: *)
(* what the commands store is always a valid entry of its kind.            *)
THEOREM TypeCorrect == Spec => []TypeOK
<1>1. IInv => TypeOK
  <2> SUFFICES ASSUME IInv PROVE TypeOK
    OBVIOUS
  <2>1. \A p \in Procs : proc[p] \in Command
    BY DEF IInv
  <2> QED
    BY <2>1 DEF IInv, Stored, TypeOK, Command
<1> QED
  BY <1>1, Invariance, PTL

(* An entry that left the enforced set had a replacement stored before it  *)
(* left, whatever runs at the same time and wherever processes die: the    *)
(* order of the two writes of dira supersede is right for any number of    *)
(* processes.                                                              *)
THEOREM ReplacementFirst == Spec => []EdgeFirst
<1>1. IInv => EdgeFirst
  BY DEF IInv
<1> QED
  BY <1>1, Invariance, PTL

(* A command that exits with 2, refused by the record, has stored nothing. *)
THEOREM RefusalsWriteNothing == Spec => []RefusalWritesNothing
<1>1. IInv => RefusalWritesNothing
  BY DEF IInv, Known, RefusalWritesNothing
<1> QED
  BY <1>1, Invariance, PTL

-----------------------------------------------------------------------------
(* While no two commands overlap on an entry.                              *)

\* No edge is dropped, and no entry comes back into force.
Keeps ==
    ~overlapped' => \A i \in Ids :
        /\ entries[i].state = "superseded" => entries'[i].state = "superseded"
        /\ entries[i].sup \subseteq entries'[i].sup

LEMMA AloneInit == Init => Alone
<1> SUFFICES ASSUME Init PROVE Alone
  OBVIOUS
<1>1. \A p \in Procs : proc[p].pc = "idle"
  BY DEF Init, IdleProc
<1> QED
  BY <1>1 DEF Alone, Current, Active

(* Nothing is stored, and p goes on with the entries it has.               *)
LEMMA AloneReads ==
    ASSUME IInv, Alone, NEW p \in Procs, NEW q, Set(p, q),
           UNCHANGED <<entries, overlapped>>,
           ~overlapped => Current(q, entries),
           q.pc \notin {"idle", "exit"} => Active(p) /\ q.t = proc[p].t /\ q.w = proc[p].w
    PROVE  Alone' /\ Keeps
<1>1. proc'[p] = q /\ \A r \in Procs \ {p} : proc'[r] = proc[r]
  BY DEF IInv, Set
<1>2. Keeps
  BY DEF Keeps
<1>3. ASSUME ~overlapped' PROVE \A r \in Procs : Current(proc[r], entries)'
  BY <1>1, <1>3 DEF Alone
<1>4. ASSUME ~overlapped', NEW r1 \in Procs, NEW r2 \in Procs, r1 # r2, Active(r1)', Active(r2)'
      PROVE  (Touches(r1) \cap Touches(r2))' = {}
  BY <1>1, <1>4 DEF Alone, Active, Touches
<1> QED
  BY <1>2, <1>3, <1>4 DEF Alone

(* p stores one of its two entries, which keeps what it had.               *)
LEMMA AloneWrites ==
    ASSUME IInv, Alone, NEW p \in Procs, Active(p), NEW q, Set(p, q),
           NEW i \in Touches(p), i \in Ids, NEW e \in Entry, Put(i, e), UNCHANGED overlapped,
           ~overlapped =>
             /\ Current(q, entries')
             /\ entries[i].state = "superseded" => e.state = "superseded"
             /\ entries[i].sup \subseteq e.sup,
           q.pc \notin {"idle", "exit"} => q.t = proc[p].t /\ q.w = proc[p].w
    PROVE  Alone' /\ Keeps
<1>1. proc'[p] = q /\ \A r \in Procs \ {p} : proc'[r] = proc[r]
  BY DEF IInv, Set
<1>2. entries'[i] = e /\ \A j \in Ids \ {i} : entries'[j] = entries[j]
  BY DEF Put, IInv, Stored
<1>3. Keeps
  BY <1>2 DEF Keeps
<1>4. ASSUME ~overlapped', NEW r \in Procs PROVE Current(proc[r], entries)'
  <2>1. CASE r = p
    BY <1>1, <1>4, <2>1
  <2>2. CASE r # p /\ Active(r)
    <3>1. i # proc[r].t /\ i # proc[r].w /\ proc[r].t \in Ids /\ proc[r].w \in Ids
      BY <1>4, <2>2 DEF Alone, Touches, IInv, Known, Active
    <3>2. Current(proc[r], entries) /\ proc'[r] = proc[r] /\ proc[r].pc # "exit"
      BY <1>1, <1>4, <2>2 DEF Alone, Active
    <3>3. entries'[proc[r].t] = entries[proc[r].t] /\ entries'[proc[r].w] = entries[proc[r].w]
      BY <1>2, <3>1
    <3> QED
      BY <3>2, <3>3 DEF Current
  <2>3. CASE r # p /\ ~Active(r)
    <3>1. Current(proc[r], entries) /\ proc'[r] = proc[r] /\ proc[r].pc \in {"idle", "exit"}
      BY <1>1, <1>4, <2>3 DEF Alone, Active
    <3> QED
      BY <1>3, <1>4, <3>1 DEF Current, Keeps
  <2> QED
    BY <2>1, <2>2, <2>3
<1>5. ASSUME ~overlapped', NEW r1 \in Procs, NEW r2 \in Procs, r1 # r2, Active(r1)', Active(r2)'
      PROVE  (Touches(r1) \cap Touches(r2))' = {}
  BY <1>1, <1>5 DEF Alone, Active, Touches
<1> QED
  BY <1>3, <1>4, <1>5 DEF Alone

(* p starts on two entries; whoever else works on one of them is noticed.  *)
LEMMA AloneStarts ==
    ASSUME IInv, Alone, NEW p \in Procs, NEW q, q \in Command, Start(p, q),
           q.pc \in {"getWith", "logGet"},
           q.pc = "getWith" => q.t # q.w,
           q.pc = "logGet" => q.t = q.w
    PROVE  Alone' /\ Keeps
<1>1. proc'[p] = q /\ (\A r \in Procs \ {p} : proc'[r] = proc[r]) /\ UNCHANGED entries
  BY DEF IInv, Set, Start
<1>2. Keeps
  BY <1>1 DEF Keeps
<1>3. ASSUME ~overlapped' PROVE ~overlapped /\ \A r \in Procs : Active(r) => Touches(r) \cap {q.t, q.w} = {}
  BY <1>3 DEF Start
<1>4. Current(q, entries)
  BY DEF Current
<1>5. ASSUME ~overlapped' PROVE \A r \in Procs : Current(proc[r], entries)'
  BY <1>1, <1>3, <1>4, <1>5 DEF Alone
<1>6. ASSUME ~overlapped', NEW r1 \in Procs, NEW r2 \in Procs, r1 # r2, Active(r1)', Active(r2)'
      PROVE  (Touches(r1) \cap Touches(r2))' = {}
  <2>1. CASE r1 # p /\ r2 # p
    BY <1>1, <1>3, <1>6, <2>1 DEF Alone, Active, Touches
  <2>2. CASE r1 = p
    BY <1>1, <1>3, <1>6, <2>2 DEF Active, Touches
  <2>3. CASE r2 = p
    BY <1>1, <1>3, <1>6, <2>3 DEF Active, Touches
  <2> QED
    BY <2>1, <2>2, <2>3
<1> QED
  BY <1>2, <1>5, <1>6 DEF Alone

(* A command that does not exit with 0 leaves nothing to keep current.     *)
LEMMA AloneFails ==
    ASSUME NEW q \in Command, NEW code \in {1, 2}, NEW ent
    PROVE  Current(Exited(q, code), ent) /\ Exited(q, code).pc = "exit"
<1> DEFINE e == Exited(q, code)
<1>1. e.pc = "exit" /\ e.exit = code
  BY ExitedFields
<1> HIDE DEF e
<1>2. Current(e, ent) /\ e.pc = "exit"
  BY <1>1 DEF Current
<1> QED
  BY <1>2 DEF e

(* A command that has stored its last entry.                               *)
LEMMA DoneFields ==
    ASSUME NEW q \in Command
    PROVE  LET e == Exited([q EXCEPT !.wrote = TRUE], 0) IN
           e.pc = "exit" /\ e.t = q.t /\ e.w = q.w
<1> DEFINE d == [q EXCEPT !.wrote = TRUE]
<1>1. d \in Command /\ d.t = q.t /\ d.w = q.w
  BY DEF Command
<1> HIDE DEF d
<1>2. Exited(d, 0).pc = "exit" /\ Exited(d, 0).t = d.t /\ Exited(d, 0).w = d.w
  BY <1>1, ExitedFields
<1> QED
  BY <1>1, <1>2 DEF d

LEMMA AloneStep == IInv /\ Alone /\ [Next]_vars => Alone' /\ Keeps
<1> SUFFICES ASSUME IInv, Alone, [Next]_vars PROVE Alone' /\ Keeps
  OBVIOUS
<1>0. \A p \in Procs : /\ proc[p] \in Command /\ Known(proc[p], recorded)
                       /\ ~overlapped => Current(proc[p], entries)
  BY DEF IInv, Alone
<1> USE DEF Exit
<1>1. ASSUME NEW p \in Procs, Supersede(p) PROVE Alone' /\ Keeps
  <2>1. PICK t \in Ids, w \in Ids :
          t # w /\ Start(p, [IdleProc EXCEPT !.pc = "getWith", !.t = t, !.w = w])
    BY <1>1 DEF Supersede, CheckRefs
  <2> DEFINE q == [IdleProc EXCEPT !.pc = "getWith", !.t = t, !.w = w]
  <2>2. Known(q, recorded) /\ q.pc = "getWith" /\ q.t = t /\ q.w = w
    BY StartKnows
  <2>3. Start(p, q)
    BY <2>1
  <2> HIDE DEF q
  <2> QED
    BY <2>1, <2>2, <2>3, AloneStarts DEF Known
<1>2. ASSUME NEW p \in Procs, GetWith(p) PROVE Alone' /\ Keeps
  <2> DEFINE q == [proc[p] EXCEPT !.pc = "getTarget", !.with = entries[proc[p].w]]
  <2>1. proc[p].pc = "getWith" /\ proc[p] \in Command /\ Active(p)
    BY <1>0, <1>2 DEF GetWith, Active
  <2>2. /\ q.pc = "getTarget" /\ q.t = proc[p].t /\ q.w = proc[p].w
        /\ q.with = entries[proc[p].w]
    BY <2>1 DEF Command
  <2>3. Set(p, q) /\ UNCHANGED <<entries, overlapped>>
    BY <1>2 DEF GetWith
  <2> HIDE DEF q
  <2>4. ~overlapped => Current(q, entries)
    BY <1>0, <2>1, <2>2 DEF Current
  <2> QED
    BY <2>1, <2>2, <2>3, <2>4, AloneReads
<1>3. ASSUME NEW p \in Procs, GetTarget(p) PROVE Alone' /\ Keeps
  <2> DEFINE q == proc[p]
             r == entries[q.t]
             next == IF CheckStates(r, q.with, q.t) THEN FirstWrite(q, r) ELSE Exited(q, 2)
  <2>1. /\ q \in Command /\ q.pc = "getTarget" /\ q.t \in Ids /\ q.w \in Ids /\ Active(p)
        /\ q.with \in Entry /\ r \in Entry /\ (~overlapped => Current(q, entries))
    BY <1>0, <1>3 DEF GetTarget, Known, Active, IInv, Stored
  <2>2. ~overlapped => q.t # q.w /\ q.with = entries[q.w]
    BY <2>1 DEF Current
  <2>3. /\ ~overlapped => Current(next, entries)
        /\ next.pc \notin {"idle", "exit"} => next.t = q.t /\ next.w = q.w
    <3>1. CASE ~CheckStates(r, q.with, q.t)
      <4>1. next = Exited(q, 2)
        BY <3>1
      <4>2. Current(Exited(q, 2), entries) /\ Exited(q, 2).pc = "exit"
        BY <2>1, AloneFails
      <4> QED
        BY <4>1, <4>2
    <3>2. CASE CheckStates(r, q.with, q.t) /\ q.t \notin q.with.sup
      <4> DEFINE e == [q.with EXCEPT !.sup = @ \cup {q.t}]
      <4>1. next = [q EXCEPT !.pc = "putEdge", !.target = r, !.with.sup = @ \cup {q.t}]
        BY <3>2 DEF FirstWrite
      <4>2. e.state = q.with.state /\ e.sup = q.with.sup \cup {q.t}
        BY <2>1 DEF Entry
      <4>3. /\ next.pc = "putEdge" /\ next.t = q.t /\ next.w = q.w
            /\ next.with = e /\ next.target = r
        BY <2>1, <4>1 DEF Command
      <4> HIDE DEF next, e
      <4> QED
        BY <2>2, <4>2, <4>3 DEF Current
    <3>3. CASE CheckStates(r, q.with, q.t) /\ q.t \in q.with.sup /\ r.state # "superseded"
      <4>1. next = [q EXCEPT !.pc = "putState", !.target = r]
        BY <3>3 DEF FirstWrite
      <4>2. next.pc = "putState" /\ next.t = q.t /\ next.w = q.w /\ next.target = r
        BY <2>1, <4>1 DEF Command
      <4> HIDE DEF next
      <4> QED
        BY <2>2, <3>3, <4>2 DEF Current
    <3>4. CASE CheckStates(r, q.with, q.t) /\ q.t \in q.with.sup /\ r.state = "superseded"
      <4>1. next = Exited(q, 0)
        BY <3>4 DEF FirstWrite
      <4>2. next.pc = "exit" /\ next.t = q.t /\ next.w = q.w
        BY <2>1, <4>1, ExitedFields
      <4> HIDE DEF next
      <4> QED
        BY <2>1, <2>2, <3>4, <4>2 DEF Current
    <3> QED
      BY <3>1, <3>2, <3>3, <3>4
  <2>4. Set(p, next) /\ UNCHANGED <<entries, overlapped>>
    BY <1>3 DEF GetTarget
  <2> HIDE DEF next
  <2> QED
    BY <2>1, <2>3, <2>4, AloneReads
<1>4. ASSUME NEW p \in Procs, PutEdge(p) PROVE Alone' /\ Keeps
  <2> DEFINE q == [proc[p] EXCEPT !.wrote = TRUE]
  <2>1. /\ proc[p] \in Command /\ proc[p].pc = "putEdge" /\ proc[p].t \in Ids /\ proc[p].w \in Ids
        /\ proc[p].with \in Entry /\ proc[p].t \in proc[p].with.sup /\ Active(p)
    BY <1>0, <1>4 DEF PutEdge, Known, Active
  <2>2. /\ q \in Command /\ q.pc = "putEdge" /\ q.t = proc[p].t /\ q.w = proc[p].w
        /\ q.with = proc[p].with /\ q.target = proc[p].target
    BY <2>1 DEF Command
  <2>3. CASE ~Valid(q.w, q.with)
    <3> DEFINE next == Exited(proc[p], 1)
    <3>1. Current(next, entries) /\ next.pc = "exit"
      BY <2>1, AloneFails
    <3>2. Set(p, next) /\ UNCHANGED <<entries, overlapped>>
      BY <1>4, <2>3 DEF PutEdge
    <3> HIDE DEF next
    <3> QED
      BY <3>1, <3>2, AloneReads
  <2>4. CASE Valid(q.w, q.with)
    <3> DEFINE next == IF q.target.state = "superseded" THEN Exited(q, 0)
                       ELSE [q EXCEPT !.pc = "putState"]
    <3>1. Put(q.w, q.with) /\ Set(p, next) /\ UNCHANGED overlapped
      BY <1>4, <2>4 DEF PutEdge
    <3>2. ~overlapped => /\ q.t # q.w /\ q.target = entries[q.t]
                         /\ q.with.state = entries[q.w].state /\ entries[q.w].sup \subseteq q.with.sup
      BY <1>0, <2>1, <2>2 DEF Current
    <3>3. entries'[q.w] = q.with /\ \A j \in Ids \ {q.w} : entries'[j] = entries[j]
      BY <2>1, <2>2, <3>1 DEF Put, IInv, Stored
    <3>4. ~overlapped => q.target = entries'[q.t] /\ q.t \in entries'[q.w].sup
      BY <2>1, <2>2, <3>2, <3>3
    <3>5. next.t = q.t /\ next.w = q.w
      BY <2>2, ExitedFields DEF Command
    <3>6. ~overlapped => Current(next, entries')
      <4>1. CASE q.target.state = "superseded"
        <5>1. next.pc = "exit"
          BY <2>2, <4>1, ExitedFields
        <5> HIDE DEF next
        <5> QED
          BY <2>1, <2>2, <3>4, <3>5, <4>1, <5>1 DEF Current
      <4>2. CASE q.target.state # "superseded"
        <5>1. next.pc = "putState" /\ next.target = q.target
          BY <2>2, <4>2 DEF Command
        <5> HIDE DEF next
        <5> QED
          BY <3>2, <3>4, <3>5, <5>1 DEF Current
      <4> QED
        BY <4>1, <4>2
    <3>7. q.w \in Touches(p) /\ q.w \in Ids /\ q.with \in Entry
      BY <2>1, <2>2 DEF Touches
    <3> HIDE DEF next, q
    <3> QED
      BY <2>1, <2>2, <3>1, <3>2, <3>5, <3>6, <3>7, AloneWrites
  <2> QED
    BY <2>3, <2>4
<1>5. ASSUME NEW p \in Procs, PutState(p) PROVE Alone' /\ Keeps
  <2> DEFINE q == proc[p]
             e == [q.target EXCEPT !.state = "superseded"]
  <2>1. /\ q \in Command /\ q.pc = "putState" /\ q.t \in Ids /\ q.w \in Ids
        /\ q.target \in Entry /\ Active(p)
    BY <1>0, <1>5 DEF PutState, Known, Active
  <2>2. CASE ~Valid(q.t, e)
    <3> DEFINE next == Exited(q, 1)
    <3>1. Current(next, entries) /\ next.pc = "exit"
      BY <2>1, AloneFails
    <3>2. Set(p, next) /\ UNCHANGED <<entries, overlapped>>
      BY <1>5, <2>2 DEF PutState
    <3> HIDE DEF next
    <3> QED
      BY <3>1, <3>2, AloneReads
  <2>3. CASE Valid(q.t, e)
    <3> DEFINE next == Exited([q EXCEPT !.wrote = TRUE], 0)
    <3>1. Put(q.t, e) /\ Set(p, next) /\ UNCHANGED overlapped
      BY <1>5, <2>3 DEF PutState
    <3>2. e \in Entry /\ e.state = "superseded" /\ e.sup = q.target.sup
      BY <2>1, <2>3, ValidEntry DEF Valid, Entry
    <3>3. ~overlapped => q.t # q.w /\ q.target = entries[q.t] /\ q.t \in entries[q.w].sup
      BY <1>0, <2>1 DEF Current
    <3>4. entries'[q.t] = e /\ \A j \in Ids \ {q.t} : entries'[j] = entries[j]
      BY <2>1, <3>1 DEF Put, IInv, Stored
    <3>5. next.pc = "exit" /\ next.t = q.t /\ next.w = q.w
      BY <2>1, DoneFields
    <3> HIDE DEF next, e
    <3>6. ~overlapped => Current(next, entries')
      BY <2>1, <3>2, <3>3, <3>4, <3>5 DEF Current
    <3>7. q.t \in Touches(p)
      BY DEF Touches
    <3> QED
      BY <2>1, <3>1, <3>2, <3>3, <3>5, <3>6, <3>7, AloneWrites
  <2> QED
    BY <2>2, <2>3
<1>6. ASSUME NEW p \in Procs, Log(p) PROVE Alone' /\ Keeps
  <2>1. PICK t \in Ids : Start(p, [IdleProc EXCEPT !.pc = "logGet", !.t = t, !.w = t])
    BY <1>6 DEF Log
  <2> DEFINE q == [IdleProc EXCEPT !.pc = "logGet", !.t = t, !.w = t]
  <2>2. Known(q, recorded) /\ q.pc = "logGet" /\ q.t = t /\ q.w = t
    BY StartKnows
  <2>3. Start(p, q)
    BY <2>1
  <2> HIDE DEF q
  <2> QED
    BY <2>2, <2>3, AloneStarts DEF Known
<1>7. ASSUME NEW p \in Procs, LogGet(p) PROVE Alone' /\ Keeps
  <2> DEFINE q == [proc[p] EXCEPT !.pc = "logPut", !.target = entries[proc[p].t]]
  <2>1. proc[p].pc = "logGet" /\ proc[p] \in Command /\ Active(p)
    BY <1>0, <1>7 DEF LogGet, Active
  <2>2. /\ q.pc = "logPut" /\ q.t = proc[p].t /\ q.w = proc[p].w
        /\ q.target = entries[proc[p].t]
    BY <2>1 DEF Command
  <2>3. Set(p, q) /\ UNCHANGED <<entries, overlapped>>
    BY <1>7 DEF LogGet
  <2> HIDE DEF q
  <2>4. ~overlapped => Current(q, entries)
    BY <1>0, <2>1, <2>2 DEF Current
  <2> QED
    BY <2>1, <2>2, <2>3, <2>4, AloneReads
<1>8. ASSUME NEW p \in Procs, LogPut(p) PROVE Alone' /\ Keeps
  <2> DEFINE q == proc[p]
             next == Exited([q EXCEPT !.wrote = TRUE], 0)
  <2>1. /\ q \in Command /\ q.pc = "logPut" /\ q.t \in Ids /\ q.target \in Entry /\ Active(p)
    BY <1>0, <1>8 DEF LogPut, Known, Active
  <2>2. Put(q.t, q.target) /\ Set(p, next) /\ UNCHANGED overlapped
    BY <1>8 DEF LogPut
  <2>3. ~overlapped => q.t = q.w /\ q.target = entries[q.t]
    BY <1>0, <2>1 DEF Current
  <2>4. next.pc = "exit" /\ next.t = q.t /\ next.w = q.w
    BY <2>1, DoneFields
  <2> HIDE DEF next
  <2>5. ~overlapped => Current(next, entries')
    BY <2>3, <2>4 DEF Current
  <2>6. q.t \in Touches(p)
    BY DEF Touches
  <2> QED
    BY <2>1, <2>2, <2>3, <2>4, <2>5, <2>6, AloneWrites
<1>9. ASSUME NEW p \in Procs, StoreFails(p) PROVE Alone' /\ Keeps
  <2> DEFINE next == Exited(proc[p], 1)
  <2>1. Current(next, entries) /\ next.pc = "exit"
    BY <1>0, AloneFails
  <2>2. Set(p, next) /\ UNCHANGED <<entries, overlapped>>
    BY <1>9 DEF StoreFails
  <2> HIDE DEF next
  <2> QED
    BY <2>1, <2>2, AloneReads
<1>10. ASSUME NEW p \in Procs, Crash(p) \/ Restart(p) PROVE Alone' /\ Keeps
  <2>1. Current(IdleProc, entries) /\ IdleProc.pc = "idle"
    BY DEF Current, IdleProc
  <2>2. Set(p, IdleProc) /\ UNCHANGED <<entries, overlapped>>
    BY <1>10 DEF Crash, Restart
  <2> QED
    BY <2>1, <2>2, AloneReads
<1>11. ASSUME UNCHANGED vars PROVE Alone' /\ Keeps
  BY <1>11 DEF vars, Alone, Keeps, Current, Active, Touches
<1> QED
  BY <1>1, <1>2, <1>3, <1>4, <1>5, <1>6, <1>7, <1>8, <1>9, <1>10, <1>11 DEF Next

LEMMA AloneAlways == Spec => []Alone
<1> QED
  BY AloneInit, AloneStep, Invariance, PTL DEF Spec

(* Retirement is final and no edge is ever dropped while commands on a     *)
(* common entry do not overlap, whoever fails or dies in between.          *)
THEOREM NothingIsUndone == Spec => NothingUndone
<1>1. IInv /\ Alone /\ [Next]_vars => [Keeps]_vars
  BY AloneStep
<1>2. Spec => [][Keeps]_vars
  BY <1>1, Invariance, AloneAlways, PTL DEF Spec
<1> QED
  BY <1>2 DEF NothingUndone, Keeps

(* dira supersede that exits with 0 has written both sides, or found them  *)
(* written, and they are still there.                                      *)
THEOREM BothSides == Spec => []SuccessMeansBothSides
<1>1. IInv /\ Alone => SuccessMeansBothSides
  BY DEF IInv, Alone, Current, SuccessMeansBothSides
<1> QED
  BY <1>1, Invariance, AloneAlways, PTL

(* The exit code says what the ledger holds: 2, that nothing was written;  *)
(* 0, that both sides are there.                                           *)
THEOREM ExitCodes == Spec => []ExitCodeIsTrue
<1>1. RefusalWritesNothing /\ SuccessMeansBothSides => ExitCodeIsTrue
  BY DEF ExitCodeIsTrue
<1> QED
  BY <1>1, RefusalsWriteNothing, BothSides, PTL

-----------------------------------------------------------------------------
(* Where a redirect ends.                                                  *)

InForce(i) == entries[i].state \notin {"superseded", "staged"}

\* The entry that replaces another is in force until the command has retired it.
Replacers ==
    ~overlapped =>
        \A p \in Procs : proc[p].pc \in {"putEdge", "putState"} => InForce(proc[p].w)

(* Redirects go one step, and on from there; and more edges take away none. *)
LEMMA OneStepOn ==
    ASSUME NEW t \in Ids, NEW w \in Replacing(t)'
    PROVE  w \in Redirects(t)'
BY DEF Redirects, Replacing

LEMMA StepsOn ==
    ASSUME NEW t \in Ids, NEW m \in Redirects(t)', NEW w \in Replacing(m)'
    PROVE  w \in Redirects(t)'
<1>1. ASSUME NEW D \in SUBSET Ids, Replacing(t)' \subseteq D, \A d \in D : Replacing(d)' \subseteq D
      PROVE  w \in D
  <2>1. m \in D
    BY <1>1 DEF Redirects
  <2>2. QED
    BY <1>1, <2>1
<1>2. w \in Ids
  BY DEF Replacing
<1>3. QED
  BY <1>1, <1>2 DEF Redirects

LEMMA MoreEdges ==
    ASSUME \A i \in Ids : entries[i].sup \subseteq entries'[i].sup, NEW t \in Ids
    PROVE  Redirects(t) \subseteq Redirects(t)'
<1>1. ASSUME NEW i PROVE Replacing(i) \subseteq Replacing(i)'
  BY DEF Replacing
<1>2. ASSUME NEW l \in Redirects(t), NEW D \in SUBSET Ids,
             Replacing(t)' \subseteq D, \A d \in D : Replacing(d)' \subseteq D
      PROVE  l \in D
  <2>1. Replacing(t) \subseteq D
    BY <1>1, <1>2
  <2>2. \A d \in D : Replacing(d) \subseteq D
    BY <1>1, <1>2
  <2>3. QED
    BY <1>2, <2>1, <2>2 DEF Redirects
<1>3. \A l \in Redirects(t) : l \in Ids
  BY DEF Redirects
<1>4. Redirects(t)' = {l \in Ids : \A D \in SUBSET Ids :
        Replacing(t)' \subseteq D /\ (\A d \in D : Replacing(d)' \subseteq D) => l \in D}
  BY DEF Redirects
<1>5. QED
  BY <1>2, <1>3, <1>4

(* A step of p that leaves every state alone.                              *)
LEMMA SameStates ==
    ASSUME IInv, Replacers, RedirectReachesLive, Keeps, NEW p \in Procs, NEW q, Set(p, q),
           overlapped => overlapped',
           ~overlapped => \A i \in Ids : entries'[i].state = entries[i].state,
           ~overlapped /\ q.pc \in {"putEdge", "putState"} => q.w \in Ids /\ InForce(q.w)
    PROVE  Replacers' /\ RedirectReachesLive'
<1> SUFFICES ASSUME ~overlapped' PROVE Replacers' /\ RedirectReachesLive'
  BY DEF Replacers, RedirectReachesLive
<1>1. proc'[p] = q /\ \A r \in Procs \ {p} : proc'[r] = proc[r]
  BY DEF IInv, Set
<1>2. \A i \in Ids : entries'[i].state = entries[i].state /\ entries[i].sup \subseteq entries'[i].sup
  BY DEF Keeps
<1>3. ASSUME NEW r \in Procs, proc'[r].pc \in {"putEdge", "putState"}
      PROVE  InForce(proc[r].w)'
  <2>1. proc'[r].w \in Ids /\ entries[proc'[r].w].state \notin {"superseded", "staged"}
    <3>1. CASE r = p
      BY <1>1, <1>3, <3>1 DEF InForce
    <3>2. CASE r # p
      <4>1. proc'[r] = proc[r] /\ Known(proc[r], recorded) /\ InForce(proc[r].w)
        BY <1>1, <1>3, <3>2 DEF IInv, Replacers
      <4>2. QED
        BY <1>3, <4>1 DEF Known, InForce
    <3>3. QED
      BY <3>1, <3>2
  <2>2. entries'[proc'[r].w].state = entries[proc'[r].w].state
    BY <1>2, <2>1
  <2>3. QED
    BY <2>1, <2>2 DEF InForce
<1>4. ASSUME NEW t \in Ids, entries'[t].state = "superseded"
      PROVE  \E l \in Redirects(t)' : entries'[l].state \notin {"superseded", "staged"}
  <2>1. PICK l \in Redirects(t) : entries[l].state \notin {"superseded", "staged"}
    BY <1>2, <1>4 DEF RedirectReachesLive
  <2>2. l \in Redirects(t)' /\ l \in Ids
    BY <1>2, MoreEdges DEF Redirects
  <2>3. QED
    BY <1>2, <2>1, <2>2
<1>5. QED
  BY <1>3, <1>4 DEF Replacers, RedirectReachesLive

(* The retirement itself: what ended at the retired entry goes on to the   *)
(* entry that replaces it, which is in force.                              *)
LEMMA Retires ==
    ASSUME IInv, Alone, Replacers, RedirectReachesLive, Keeps, NEW p \in Procs,
           proc[p].pc = "putState", UNCHANGED overlapped,
           NEW t, t = proc[p].t, NEW w, w = proc[p].w,
           NEW e, e.state = "superseded", Put(t, e),
           Set(p, Exited([proc[p] EXCEPT !.wrote = TRUE], 0))
    PROVE  Replacers' /\ RedirectReachesLive'
<1> SUFFICES ASSUME ~overlapped PROVE Replacers' /\ RedirectReachesLive'
  BY DEF Replacers, RedirectReachesLive
<1>1. /\ t \in Ids /\ w \in Ids /\ t # w /\ t \in entries[w].sup /\ InForce(w) /\ proc[p] \in Command
      /\ Active(p)
  BY DEF IInv, Known, Alone, Current, Replacers, Active
<1>2. entries'[t].state = "superseded" /\ \A j \in Ids \ {t} : entries'[j] = entries[j]
  BY <1>1 DEF Put, IInv, Stored
<1>3. proc'[p].pc = "exit" /\ \A r \in Procs \ {p} : proc'[r] = proc[r]
  BY <1>1, DoneFields DEF IInv, Set
<1>4. \A i \in Ids : entries[i].sup \subseteq entries'[i].sup
  BY DEF Keeps
<1>5. ASSUME NEW r \in Procs, proc'[r].pc \in {"putEdge", "putState"}
      PROVE  InForce(proc[r].w)'
  <2>1. r # p /\ proc'[r] = proc[r]
    BY <1>3, <1>5
  <2>2. Active(r) /\ proc[r].w \in Ids /\ InForce(proc[r].w)
    BY <1>5, <2>1 DEF Active, IInv, Known, Replacers
  <2>3. proc[r].w # t
    BY <1>1, <2>1, <2>2 DEF Alone, Touches
  <2>4. QED
    BY <1>2, <2>1, <2>2, <2>3 DEF InForce
<1>6. ASSUME NEW s \in Ids, entries'[s].state = "superseded"
      PROVE  \E l \in Redirects(s)' : entries'[l].state \notin {"superseded", "staged"}
  <2>1. w \in Replacing(t)' /\ entries'[w].state \notin {"superseded", "staged"}
    BY <1>1, <1>2 DEF Replacing, InForce
  <2>2. CASE s = t
    <3>1. w \in Redirects(t)'
      BY <1>1, <2>1, OneStepOn
    <3>2. QED
      BY <2>1, <2>2, <3>1
  <2>3. CASE s # t
    <3>1. PICK l \in Redirects(s) : entries[l].state \notin {"superseded", "staged"}
      BY <1>2, <1>6, <2>3 DEF RedirectReachesLive
    <3>2. l \in Redirects(s)' /\ l \in Ids
      BY <1>4, MoreEdges DEF Redirects
    <3>3. CASE l # t
      BY <1>2, <3>1, <3>2, <3>3
    <3>4. CASE l = t
      <4>1. w \in Redirects(s)'
        BY <2>1, <3>2, <3>4, StepsOn
      <4>2. QED
        BY <2>1, <4>1
    <3>5. QED
      BY <3>3, <3>4
  <2>4. QED
    BY <2>2, <2>3
<1>7. QED
  BY <1>5, <1>6 DEF Replacers, RedirectReachesLive

LEMMA RedirectStep ==
    ASSUME IInv, Alone, Replacers, RedirectReachesLive, [Next]_vars
    PROVE  Replacers' /\ RedirectReachesLive'
<1>0. Keeps
  BY AloneStep
<1>1. \A p \in Procs : /\ proc[p] \in Command /\ Known(proc[p], recorded)
                       /\ ~overlapped => Current(proc[p], entries)
  BY DEF IInv, Alone
<1> USE DEF Exit
<1>2. ASSUME NEW p \in Procs, Supersede(p) \/ Log(p) PROVE Replacers' /\ RedirectReachesLive'
  <2>1. PICK c \in {"getWith", "logGet"}, t \in Ids, w \in Ids :
          Start(p, [IdleProc EXCEPT !.pc = c, !.t = t, !.w = w])
    BY <1>2 DEF Supersede, Log
  <2> DEFINE q == [IdleProc EXCEPT !.pc = c, !.t = t, !.w = w]
  <2>2. q.pc = c /\ Start(p, q)
    <3>1. q.pc = c
      BY DEF IdleProc
    <3>2. QED
      BY <2>1, <3>1
  <2> HIDE DEF q
  <2>3. Set(p, q) /\ UNCHANGED entries /\ (overlapped => overlapped')
    BY <2>2 DEF Start
  <2>4. QED
    BY <1>0, <2>2, <2>3, SameStates
<1>3. ASSUME NEW p \in Procs, GetWith(p) \/ LogGet(p) PROVE Replacers' /\ RedirectReachesLive'
  <2>1. PICK q : Set(p, q) /\ q.pc \in {"getTarget", "logPut"}
    <3>1. [proc[p] EXCEPT !.pc = "getTarget", !.with = entries[proc[p].w]].pc = "getTarget"
          /\ [proc[p] EXCEPT !.pc = "logPut", !.target = entries[proc[p].t]].pc = "logPut"
      BY <1>1 DEF Command
    <3>2. QED
      BY <1>3, <3>1 DEF GetWith, LogGet
  <2>2. UNCHANGED <<entries, overlapped>>
    BY <1>3 DEF GetWith, LogGet
  <2>3. QED
    BY <1>0, <2>1, <2>2, SameStates
<1>4. ASSUME NEW p \in Procs, GetTarget(p) PROVE Replacers' /\ RedirectReachesLive'
  <2> DEFINE q == proc[p]
             r == entries[q.t]
             next == IF CheckStates(r, q.with, q.t) THEN FirstWrite(q, r) ELSE Exited(q, 2)
  <2>1. /\ q \in Command /\ q.pc = "getTarget" /\ q.w \in Ids
        /\ ~overlapped => q.with = entries[q.w]
    BY <1>1, <1>4 DEF GetTarget, Known, Current
  <2>2. Set(p, next) /\ UNCHANGED <<entries, overlapped>>
    BY <1>4 DEF GetTarget
  <2>3. ASSUME ~overlapped, next.pc \in {"putEdge", "putState"} PROVE next.w \in Ids /\ InForce(next.w)
    <3>1. CheckStates(r, q.with, q.t) /\ next.w = q.w
      <4>1. Exited(q, 0).pc = "exit" /\ Exited(q, 2).pc = "exit"
        BY <2>1, ExitedFields
      <4>2. [q EXCEPT !.pc = "putEdge", !.target = r, !.with.sup = @ \cup {q.t}].w = q.w
            /\ [q EXCEPT !.pc = "putState", !.target = r].w = q.w
        BY <2>1 DEF Command
      <4>3. QED
        BY <2>3, <4>1, <4>2 DEF FirstWrite
    <3>2. QED
      BY <2>1, <2>3, <3>1 DEF CheckStates, InForce
  <2> HIDE DEF next
  <2>4. QED
    BY <1>0, <2>2, <2>3, SameStates
<1>5. ASSUME NEW p \in Procs, PutEdge(p) PROVE Replacers' /\ RedirectReachesLive'
  <2> DEFINE q == [proc[p] EXCEPT !.wrote = TRUE]
             next == IF q.target.state = "superseded" THEN Exited(q, 0)
                     ELSE [q EXCEPT !.pc = "putState"]
  <2>1. /\ proc[p] \in Command /\ proc[p].pc = "putEdge" /\ proc[p].w \in Ids
        /\ ~overlapped => proc[p].with.state = entries[proc[p].w].state /\ InForce(proc[p].w)
    BY <1>1, <1>5 DEF PutEdge, Known, Current, Replacers
  <2>2. q \in Command /\ q.w = proc[p].w /\ q.with = proc[p].with
    BY <2>1 DEF Command
  <2>3. CASE ~Valid(q.w, q.with)
    <3>1. Exited(proc[p], 1).pc = "exit"
      BY <2>1, ExitedFields
    <3>2. Set(p, Exited(proc[p], 1)) /\ UNCHANGED <<entries, overlapped>>
      BY <1>5, <2>3 DEF PutEdge
    <3>3. QED
      BY <1>0, <3>1, <3>2, SameStates
  <2>4. CASE Valid(q.w, q.with)
    <3>1. Put(q.w, q.with) /\ Set(p, next) /\ UNCHANGED overlapped
      BY <1>5, <2>4 DEF PutEdge
    <3>2. ~overlapped => \A i \in Ids : entries'[i].state = entries[i].state
      BY <2>1, <2>2, <3>1 DEF Put, IInv, Stored
    <3>3. next.w = q.w
      BY <2>2, ExitedFields DEF Command
    <3> HIDE DEF next, q
    <3>4. QED
      BY <1>0, <2>1, <2>2, <3>1, <3>2, <3>3, SameStates
  <2>5. QED
    BY <2>3, <2>4
<1>6. ASSUME NEW p \in Procs, PutState(p) PROVE Replacers' /\ RedirectReachesLive'
  <2> DEFINE e == [proc[p].target EXCEPT !.state = "superseded"]
  <2>1. proc[p] \in Command /\ proc[p].pc = "putState" /\ proc[p].target \in Entry
    BY <1>1, <1>6 DEF PutState, Known
  <2>2. CASE ~Valid(proc[p].t, e)
    <3>1. Exited(proc[p], 1).pc = "exit"
      BY <2>1, ExitedFields
    <3>2. Set(p, Exited(proc[p], 1)) /\ UNCHANGED <<entries, overlapped>>
      BY <1>6, <2>2 DEF PutState
    <3>3. QED
      BY <1>0, <3>1, <3>2, SameStates
  <2>3. CASE Valid(proc[p].t, e)
    <3>1. /\ Put(proc[p].t, e) /\ Set(p, Exited([proc[p] EXCEPT !.wrote = TRUE], 0))
          /\ UNCHANGED overlapped
      BY <1>6, <2>3 DEF PutState
    <3>2. e.state = "superseded"
      BY <2>1 DEF Entry
    <3> HIDE DEF e
    <3>3. QED
      BY <1>0, <2>1, <3>1, <3>2, Retires
  <2>4. QED
    BY <2>2, <2>3
<1>7. ASSUME NEW p \in Procs, LogPut(p) PROVE Replacers' /\ RedirectReachesLive'
  <2> DEFINE q == [proc[p] EXCEPT !.wrote = TRUE]
  <2>1. /\ proc[p] \in Command /\ proc[p].pc = "logPut" /\ proc[p].t \in Ids
        /\ ~overlapped => proc[p].target = entries[proc[p].t]
    BY <1>1, <1>7 DEF LogPut, Known, Current
  <2>2. Exited(q, 0).pc = "exit"
    BY <2>1, DoneFields
  <2>3. Put(proc[p].t, proc[p].target) /\ Set(p, Exited(q, 0)) /\ UNCHANGED overlapped
    BY <1>7 DEF LogPut
  <2>4. ~overlapped => \A i \in Ids : entries'[i].state = entries[i].state
    BY <2>1, <2>3 DEF Put, IInv, Stored
  <2> HIDE DEF q
  <2>5. QED
    BY <1>0, <2>2, <2>3, <2>4, SameStates
<1>8. ASSUME NEW p \in Procs, StoreFails(p) \/ Crash(p) \/ Restart(p)
      PROVE  Replacers' /\ RedirectReachesLive'
  <2>1. IdleProc.pc = "idle" /\ Exited(proc[p], 1).pc = "exit"
    BY <1>1, ExitedFields DEF IdleProc
  <2>2. UNCHANGED <<entries, overlapped>> /\ (Set(p, IdleProc) \/ Set(p, Exited(proc[p], 1)))
    BY <1>8 DEF StoreFails, Crash, Restart
  <2>3. CASE Set(p, IdleProc)
    BY <1>0, <2>1, <2>2, <2>3, SameStates
  <2>4. CASE Set(p, Exited(proc[p], 1))
    BY <1>0, <2>1, <2>2, <2>4, SameStates
  <2>5. QED
    BY <2>2, <2>3, <2>4
<1>9. CASE UNCHANGED vars
  BY <1>9 DEF vars, Replacers, RedirectReachesLive, InForce, Redirects, Replacing
<1>10. QED
  BY <1>2, <1>3, <1>4, <1>5, <1>6, <1>7, <1>8, <1>9 DEF Next

LEMMA RedirectInit == Init => Replacers /\ RedirectReachesLive
BY DEF Init, IdleProc, Replacers, RedirectReachesLive

(* While commands on a common entry do not overlap, every redirect of      *)
(* dira check ends at an entry in force: no order of supersessions, kills, *)
(* failed writes and re-runs makes a ring of retired entries, or retires   *)
(* one that nothing replaces.                                              *)
THEOREM RedirectsEndInForce == Spec => []RedirectReachesLive
<1>1. Spec => [](Replacers /\ RedirectReachesLive)
  BY RedirectInit, RedirectStep, Invariance, AloneAlways, PTL DEF Spec
<1>2. QED
  BY <1>1, PTL
=============================================================================
