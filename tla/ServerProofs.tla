----------------------------- MODULE ServerProofs -----------------------------
(***************************************************************************)
(* Theorems about the derived index and about its one long-lived reader,   *)
(* the web view: for any number of processes, tabs, entries and contents,  *)
(* whatever else happens to the files and to the cache meanwhile.          *)
(***************************************************************************)
EXTENDS IndexSync, WebView, WellFoundedInduction, TLAPS

\* The least element of a set of numbers is one of them.
Less == {ss \in Nat \X Nat : ss[1] < ss[2]}

LEMMA LessIsWellFounded == IsWellFoundedOn(Less, Nat)
BY NatLessThanWellFounded DEF OpToRel, Less

LEMMA MinIsIn ==
  ASSUME NEW S \in SUBSET Nat, S # {}
  PROVE  Min(S) \in S /\ \A y \in S : Min(S) <= y
<1>1. PICK x \in S : \A y \in S : ~(<<y, x>> \in Less)
  BY LessIsWellFounded, WFMin
<1>2. ASSUME NEW y \in S PROVE x <= y
  <2>1. <<y, x>> \in Nat \X Nat /\ <<y, x>>[1] = y /\ <<y, x>>[2] = x
    OBVIOUS
  <2>2. ~(y < x)
    BY <1>1, <2>1 DEF Less
  <2>3. QED
    BY <2>2
<1>3. QED
  BY <1>2 DEF Min

(***************************************************************************)
(* The index.                                                              *)
(***************************************************************************)
Version == (Contents \ Unreadable) \cup {None}
Schemas == {"none", "tables", "ready", "old", "corrupt"}
Table == [schema : Schemas, rows : [Ids -> Version], edges : SUBSET (Ids \X Nat \X Contents)]
Process == [pc : {"idle", "discard", "attach", "recreate", "create", "version", "cached", "list",
                  "entries", "row", "answer"},
            fresh : BOOLEAN, h : Gens \cup Procs \cup {None}, cached : [Ids -> Version],
            todo : SUBSET Ids, live : SUBSET Ids, got : (Ids \X (Contents \cup {None})) \cup {None},
            tx : Table \cup {None}, steady : SUBSET Ids, alone : BOOLEAN]

IndexTypeOK ==
    /\ file \in [Ids -> Contents \cup {None}]
    /\ current \in Gens \cup {None}
    /\ db \in [Gens \cup Procs -> Table]
    /\ proc \in [Procs -> Process]
    /\ overlapped \in BOOLEAN

\* Every row with its edges, no edge without a row.
Linked(d) ==
    /\ \A i \in Ids : d.rows[i] # None => EdgeRows(i, d.rows[i]) \subseteq d.edges
    /\ \A e \in d.edges : d.rows[e[1]] # None

\* The edges of an entry are those of its row and no others.
Exact(d) ==
    \A i \in Ids : {e \in d.edges : e[1] = i} =
                     IF d.rows[i] = None THEN {} ELSE EdgeRows(i, d.rows[i])

-----------------------------------------------------------------------------
(* The operations on the tables.                                           *)

\* An edge row is of the entry that has it.
LEMMA EdgeRowFacts ==
  ASSUME NEW i \in Ids, NEW c \in Contents
  PROVE  EdgeRows(i, c) \subseteq Ids \X Nat \X Contents /\ \A e \in EdgeRows(i, c) : e[1] = i
BY ContentsAssumption DEF EdgeRows

\* A database as it is created.
LEMMA EmptyFacts ==
  /\ Empty \in Table /\ Linked(Empty) /\ Exact(Empty)
  /\ Empty.schema = "none" /\ Empty.edges = {} /\ \A i \in Ids : Empty.rows[i] = None
BY DEF Empty, Table, Schemas, Version, Linked, Exact

\* No database stands for the absence of one.
LEMMA NotNone == None \notin Table
<1>1. [Ids -> Version] \subseteq [Ids -> Contents \cup {None}]
  BY ContentsAssumption DEF Version
<1>2. QED
  BY <1>1, NoneAssumption DEF Table, Schemas

\* The schema of a database says nothing of its rows.
LEMMA SchemaStep ==
  ASSUME NEW d \in Table, NEW s \in Schemas
  PROVE  LET t == [d EXCEPT !.schema = s]
         IN  /\ t \in Table /\ t.schema = s /\ t.rows = d.rows /\ t.edges = d.edges
             /\ Linked(d) => Linked(t)
             /\ Exact(d) => Exact(t)
BY DEF Table, Linked, Exact

\* The edges of one entry go, and its row stays.
LEMMA NoEdgesFacts ==
  ASSUME NEW d \in Table, NEW i \in Ids
  PROVE  LET t == NoEdgesOf(d, i)
         IN  /\ t \in Table /\ t.schema = d.schema /\ t.rows = d.rows
             /\ t.edges = {e \in d.edges : e[1] # i}
BY DEF Table, NoEdgesOf

\* A row is put, with or without a known row of its entry before it.
LEMMA PutRowFacts ==
  ASSUME NEW d \in Table, NEW i \in Ids, NEW c \in Contents \ Unreadable, NEW known \in BOOLEAN
  PROVE  LET t == PutRow(d, i, c, known)
         IN  /\ t \in Table /\ t.schema = d.schema
             /\ t.rows[i] = c /\ \A j \in Ids \ {i} : t.rows[j] = d.rows[j]
             /\ Linked(d) => Linked(t)
             /\ Exact(d) /\ (known <=> d.rows[i] # None) => Exact(t)
<1> DEFINE t == PutRow(d, i, c, known)
           cleared == IF known THEN NoEdgesOf(d, i) ELSE d
<1>1. /\ cleared \in Table /\ cleared.schema = d.schema /\ cleared.rows = d.rows
      /\ cleared.edges = IF known THEN {e \in d.edges : e[1] # i} ELSE d.edges
  BY NoEdgesFacts
<1>2. t = [cleared EXCEPT !.rows[i] = c, !.edges = @ \cup EdgeRows(i, c)]
  BY DEF PutRow
<1> HIDE DEF t, cleared
<1>3. EdgeRows(i, c) \subseteq Ids \X Nat \X Contents /\ \A e \in EdgeRows(i, c) : e[1] = i
  BY EdgeRowFacts
<1>4. /\ t \in Table /\ t.schema = d.schema /\ t.rows = [d.rows EXCEPT ![i] = c]
      /\ t.edges = cleared.edges \cup EdgeRows(i, c)
  BY <1>1, <1>2, <1>3 DEF Table, Version
<1>5. t.rows[i] = c /\ \A j \in Ids \ {i} : t.rows[j] = d.rows[j]
  BY <1>4 DEF Table
<1>6. c # None
  BY GensAssumption
<1>7. \A e \in d.edges : e[1] \in Ids
  BY DEF Table
<1>8. \A j \in Ids : d.rows[j] # None => d.rows[j] \in Contents
  BY DEF Table, Version
<1>9. Linked(d) => Linked(t)
  <2>1. SUFFICES ASSUME Linked(d) PROVE Linked(t)
    OBVIOUS
  <2>2. ASSUME NEW j \in Ids, t.rows[j] # None PROVE EdgeRows(j, t.rows[j]) \subseteq t.edges
    <3>1. CASE j = i
      BY <1>4, <1>5, <3>1
    <3>2. CASE j # i
      <4>1. t.rows[j] = d.rows[j] /\ EdgeRows(j, d.rows[j]) \subseteq d.edges
        BY <1>5, <2>1, <2>2, <3>2 DEF Linked
      <4>2. \A e \in EdgeRows(j, d.rows[j]) : e[1] = j
        BY <1>8, <2>2, <4>1, EdgeRowFacts
      <4>3. QED
        BY <1>1, <1>4, <3>2, <4>1, <4>2
    <3>3. QED
      BY <3>1, <3>2
  <2>3. ASSUME NEW e \in t.edges PROVE t.rows[e[1]] # None
    <3>1. CASE e \in EdgeRows(i, c)
      BY <1>3, <1>5, <1>6, <3>1
    <3>2. CASE e \in d.edges
      BY <1>5, <1>6, <1>7, <2>1, <3>2 DEF Linked
    <3>3. QED
      BY <1>1, <1>4, <3>1, <3>2
  <2>4. QED
    BY <2>2, <2>3 DEF Linked
<1>10. ASSUME Exact(d), known <=> d.rows[i] # None PROVE Exact(t)
  <2>1. SUFFICES ASSUME NEW j \in Ids
                 PROVE {e \in t.edges : e[1] = j} =
                         IF t.rows[j] = None THEN {} ELSE EdgeRows(j, t.rows[j])
    BY DEF Exact
  <2>2. {e \in d.edges : e[1] = j} = IF d.rows[j] = None THEN {} ELSE EdgeRows(j, d.rows[j])
    BY <1>10 DEF Exact
  <2>3. CASE j = i
    <3>1. {e \in cleared.edges : e[1] = i} = {}
      BY <1>1, <1>10, <2>2, <2>3
    <3>2. QED
      BY <1>3, <1>4, <1>5, <1>6, <2>3, <3>1
  <2>4. CASE j # i
    <3>1. {e \in t.edges : e[1] = j} = {e \in d.edges : e[1] = j}
      BY <1>1, <1>3, <1>4, <2>4
    <3>2. QED
      BY <1>5, <2>2, <2>4, <3>1
  <2>5. QED
    BY <2>3, <2>4
<1>11. QED
  BY <1>4, <1>5, <1>9, <1>10 DEF t

\* The rows and the edges of the entries in S go.
LEMMA DropFacts ==
  ASSUME NEW d \in Table, NEW S \in SUBSET Ids
  PROVE  LET t == [d EXCEPT !.rows = [i \in Ids |-> IF i \in S THEN None ELSE @[i]],
                            !.edges = {e \in @ : e[1] \notin S}]
         IN  /\ t \in Table /\ t.schema = d.schema
             /\ \A i \in Ids : t.rows[i] = IF i \in S THEN None ELSE d.rows[i]
             /\ Linked(d) => Linked(t)
             /\ Exact(d) => Exact(t)
<1> DEFINE kept == [i \in Ids |-> IF i \in S THEN None ELSE d.rows[i]]
           left == {e \in d.edges : e[1] \notin S}
           t == [d EXCEPT !.rows = kept, !.edges = left]
<1>1. kept \in [Ids -> Version] /\ left \subseteq Ids \X Nat \X Contents
  BY DEF Table, Version
<1>2. \A i \in Ids : kept[i] = IF i \in S THEN None ELSE d.rows[i]
  OBVIOUS
<1>3. left \subseteq d.edges /\ \A e \in d.edges : e \in left <=> e[1] \notin S
  OBVIOUS
<1> HIDE DEF kept, left
<1>4. t \in Table /\ t.schema = d.schema /\ t.rows = kept /\ t.edges = left
  BY <1>1 DEF Table
<1> HIDE DEF t
<1>5. \A e \in d.edges : e[1] \in Ids
  BY DEF Table
<1>6. \A j \in Ids : d.rows[j] # None => d.rows[j] \in Contents
  BY DEF Table, Version
<1>7. Linked(d) => Linked(t)
  <2>1. SUFFICES ASSUME Linked(d) PROVE Linked(t)
    OBVIOUS
  <2>2. ASSUME NEW j \in Ids, kept[j] # None PROVE EdgeRows(j, kept[j]) \subseteq left
    <3>1. j \notin S /\ kept[j] = d.rows[j] /\ EdgeRows(j, d.rows[j]) \subseteq d.edges
      BY <1>2, <2>1, <2>2 DEF Linked
    <3>2. \A e \in EdgeRows(j, d.rows[j]) : e[1] = j
      BY <1>6, <2>2, <3>1, EdgeRowFacts
    <3>3. QED
      BY <1>3, <3>1, <3>2
  <2>3. ASSUME NEW e \in left PROVE kept[e[1]] # None
    BY <1>2, <1>3, <1>5, <2>1 DEF Linked
  <2>4. QED
    BY <1>4, <2>2, <2>3 DEF Linked
<1>8. ASSUME Exact(d) PROVE Exact(t)
  <2>1. SUFFICES ASSUME NEW j \in Ids
                 PROVE {e \in left : e[1] = j} = IF kept[j] = None THEN {} ELSE EdgeRows(j, kept[j])
    BY <1>4 DEF Exact
  <2>2. {e \in d.edges : e[1] = j} = IF d.rows[j] = None THEN {} ELSE EdgeRows(j, d.rows[j])
    BY <1>8 DEF Exact
  <2>3. {e \in left : e[1] = j} = IF j \in S THEN {} ELSE {e \in d.edges : e[1] = j}
    BY <1>3
  <2>4. QED
    BY <1>2, <2>2, <2>3
<1>9. QED
  BY <1>2, <1>4, <1>7, <1>8 DEF t, kept, left

\* One entry goes, with its edges.
LEMMA NoRowFacts ==
  ASSUME NEW d \in Table, NEW i \in Ids
  PROVE  LET t == NoRowOf(d, i)
         IN  /\ t \in Table /\ t.schema = d.schema
             /\ t.rows[i] = None /\ \A j \in Ids \ {i} : t.rows[j] = d.rows[j]
             /\ Linked(d) => Linked(t)
             /\ Exact(d) => Exact(t)
<1> DEFINE t == NoRowOf(d, i)
           u == [d EXCEPT !.rows = [j \in Ids |-> IF j \in {i} THEN None ELSE @[j]],
                          !.edges = {e \in @ : e[1] \notin {i}}]
<1>1. /\ u \in Table /\ u.schema = d.schema
      /\ \A j \in Ids : u.rows[j] = IF j \in {i} THEN None ELSE d.rows[j]
      /\ Linked(d) => Linked(u)
      /\ Exact(d) => Exact(u)
  <2>1. {i} \in SUBSET Ids
    OBVIOUS
  <2>2. QED
    BY <2>1, DropFacts
<1>2. t = u
  BY DEF NoRowOf, NoEdgesOf, Table
<1>3. QED
  BY <1>1, <1>2
-----------------------------------------------------------------------------
(* The invariant.                                                          *)

Busy(q) == q.pc \notin {"idle", "answer"}
InHand(d, q) == IF q.tx = None THEN d ELSE q.tx
Want(c) == IF c \in Unreadable THEN None ELSE c
Right(f, d, S) == \A i \in S : d.rows[i] = Want(f[i])

\* Which database a process is at, and whether it has begun a transaction.
Placed(p, q) ==
    /\ q.pc = "idle" => q = IdleProc
    /\ q.pc \in {"discard", "attach"} <=> q.h = None /\ q.pc # "idle"
    /\ q.h \in Procs => q.h = p
    /\ q.pc \notin {"entries", "row"} => q.tx = None
    /\ q.pc = "row" => q.got \in Ids \X (Contents \cup {None}) /\ q.got[1] \notin q.todo

\* What a process knows of a file that has not changed since it began.
Reading(f, q) ==
    /\ q.pc \in {"entries", "row"} => \A i \in q.steady \ q.live : f[i] = None
    /\ q.pc = "row" /\ q.got[1] \in q.steady => q.got[2] = f[q.got[1]]

\* Entries that the sync has yet to write.
Pending(q, i) == i \in q.todo \/ (q.pc = "row" /\ q.got[1] = i)

\* How far the sync of q is with the database d, if nobody else writes there.
Working(f, d, q) ==
    /\ q.pc \in {"recreate", "create", "version"} => d.schema # "ready"
    /\ q.pc \in {"cached", "list", "entries", "row", "answer"} =>
         d.schema = "ready" /\ InHand(d, q).schema = "ready"
    /\ q.pc = "list" => q.cached = d.rows
    /\ q.pc \in {"entries", "row"} => \A i \in Ids :
         /\ Pending(q, i) => InHand(d, q).rows[i] = q.cached[i]
         /\ i \in q.steady /\ ~Pending(q, i) =>
              \/ InHand(d, q).rows[i] = Want(f[i])
              \/ InHand(d, q).rows[i] = q.cached[i] /\ i \notin q.live
    /\ q.pc = "answer" => Right(f, d, q.steady)

\* Nobody else has written the database of q since it began, nor left it wrong.
Trusts(q, o) == q.h \in Procs \/ ~o \/ (q.alone /\ q.fresh)

Local(p, q, f, d, o) ==
    /\ Placed(p, q)
    /\ q.tx # None => Linked(q.tx)
    /\ Reading(f, q)
    /\ q.h # None /\ (Trusts(q, o) \/ q.alone) => Working(f, d, q)
    /\ q.h # None /\ Trusts(q, o) => Exact(d) /\ Exact(InHand(d, q))

\* Two Opens at a time are an overlap, and neither has the cache to itself.
Apart(p, r) == Busy(proc[r]) => ~proc[p].alone /\ (Busy(proc[p]) => overlapped)

\* An Open that began after another was done is not behind it.
Following(p, r) ==
    ~overlapped /\ proc[p].pc = "answer" /\ Busy(proc[r]) =>
      /\ proc[p].steady \subseteq proc[r].steady
      /\ proc[r].h = proc[p].h /\ proc[p].h # None =>
           Right(file, InHand(db[proc[p].h], proc[r]), proc[p].steady)

Databases ==
    /\ \A x \in Gens \cup Procs : Linked(db[x])
    /\ \A x \in Gens \cup Procs : x # current /\ (\A p \in Procs : proc[p].h # x) => db[x] = Empty
    /\ ~overlapped => \A g \in Gens : Exact(db[g])

IndexInv ==
    /\ IndexTypeOK
    /\ Databases
    /\ \A p \in Procs : Local(p, proc[p], file, db[proc[p].h], overlapped)
    /\ \A p \in Procs : proc[p].alone /\ proc[p].fresh /\ proc[p].pc = "attach" => current = None
    /\ \A p, r \in Procs : p # r => Apart(p, r) /\ Following(p, r)

-----------------------------------------------------------------------------
(* Steps of one process.                                                   *)

LEMMA Distinct == None \notin Gens \cup Procs \cup Contents /\ Gens \cap Procs = {}
BY GensAssumption

\* A step of p on the tables of the database it has, or now attaches to.
LEMMA WorkStep ==
  ASSUME IndexInv, NEW p \in Procs, Busy(proc[p]),
         NEW q \in Process, NEW d \in Table,
         proc' = [proc EXCEPT ![p] = q], file' = file, overlapped' = overlapped,
         q.h # None, proc[p].h \in {None, q.h}, db' = [db EXCEPT ![q.h] = d],
         current' = current \/ (current = None /\ current' = q.h /\ q.h \in Gens),
         q.pc \notin {"idle", "attach", "discard"},
         q.steady = proc[p].steady, q.alone = proc[p].alone, q.fresh = proc[p].fresh,
         Linked(d), Local(p, q, file, d, overlapped),
         \A S \in SUBSET proc[p].steady :
            /\ ~overlapped /\ db[q.h].schema = "ready" /\ Right(file, db[q.h], S)
            /\ (proc[p].h = q.h => Right(file, InHand(db[q.h], proc[p]), S))
            => d.schema = "ready" /\ Right(file, d, S) /\ Right(file, InHand(d, q), S)
  PROVE  IndexInv'
<1>1. /\ proc \in [Procs -> Process] /\ db \in [Gens \cup Procs -> Table]
      /\ q.h \in Gens \cup Procs
  BY DEF IndexInv, IndexTypeOK, Process
<1>2. /\ proc' \in [Procs -> Process] /\ proc'[p] = q
      /\ \A r \in Procs \ {p} : proc'[r] = proc[r]
  BY <1>1
<1>3. /\ db' \in [Gens \cup Procs -> Table] /\ db'[q.h] = d
      /\ \A x \in (Gens \cup Procs) \ {q.h} : db'[x] = db[x]
  BY <1>1
<1>4. IndexTypeOK'
  BY <1>1, <1>2, <1>3 DEF IndexInv, IndexTypeOK
<1>5. ~overlapped => Exact(d)
  BY DEF Local, Trusts
<1>6. Databases'
  <2>1. \A x \in Gens \cup Procs : Linked(db'[x])
    BY <1>3 DEF IndexInv, Databases
  <2>2. ASSUME NEW x \in Gens \cup Procs, x # current', \A r \in Procs : proc'[r].h # x
        PROVE db'[x] = Empty
    <3>1. x # q.h /\ x # current
      BY <1>2, <2>2, Distinct
    <3>2. \A r \in Procs : proc[r].h # x
      BY <1>2, <2>2, <3>1, Distinct
    <3>3. QED
      BY <1>3, <3>1, <3>2 DEF IndexInv, Databases
  <2>3. ~overlapped => \A g \in Gens : Exact(db'[g])
    BY <1>3, <1>5 DEF IndexInv, Databases
  <2>4. QED
    BY <2>1, <2>2, <2>3 DEF Databases
<1>7. ASSUME NEW r \in Procs \ {p}
      PROVE  /\ proc[r].h = q.h /\ q.h # None /\ Busy(proc[r]) => overlapped /\ ~proc[r].alone
             /\ proc[r].h \in Procs => proc[r].h # q.h
             /\ ~proc[r].alone
  <2>1. Local(r, proc[r], file, db[proc[r].h], overlapped) /\ Apart(r, p)
    BY DEF IndexInv
  <2>2. QED
    BY <2>1 DEF Local, Placed, Apart
<1>8. ASSUME NEW r \in Procs PROVE Local(r, proc'[r], file', db'[proc'[r].h], overlapped')
  <2>1. CASE r = p
    BY <1>2, <1>3, <2>1
  <2>2. CASE r # p /\ proc[r].h # q.h
    <3>1. Local(r, proc[r], file, db[proc[r].h], overlapped) /\ proc'[r] = proc[r]
      BY <1>2, <2>2 DEF IndexInv
    <3>2. proc[r].h # None => db'[proc[r].h] = db[proc[r].h]
      <4>1. proc[r].h \in Gens \cup Procs \cup {None}
        BY <1>1 DEF Process
      <4>2. QED
        BY <1>3, <2>2, <4>1
    <3>3. QED
      BY <3>1, <3>2 DEF Local
  <2>3. CASE r # p /\ proc[r].h = q.h
    <3>1. /\ Local(r, proc[r], file, db[q.h], overlapped) /\ proc'[r] = proc[r]
          /\ ~proc[r].alone /\ proc[r].h \notin Procs /\ (Busy(proc[r]) => overlapped)
      BY <1>2, <1>7, <2>3 DEF IndexInv
    <3>2. CASE overlapped
      BY <1>3, <2>3, <3>1, <3>2 DEF Local, Trusts
    <3>3. CASE ~overlapped
      <4>1. proc[r].pc = "answer" /\ proc[r].tx = None /\ Working(file, db[q.h], proc[r])
        <5>1. proc[r].pc # "idle"
          BY <2>3, <3>1 DEF Local, Placed, IdleProc
        <5>2. QED
          BY <2>3, <3>1, <3>3, <5>1 DEF Busy, Local, Placed, Trusts
      <4>2. db[q.h].schema = "ready" /\ Right(file, db[q.h], proc[r].steady)
        BY <4>1 DEF Working
      <4>3. Following(r, p)
        BY <2>3 DEF IndexInv
      <4>4. /\ proc[r].steady \subseteq proc[p].steady
            /\ proc[p].h = q.h => Right(file, InHand(db[q.h], proc[p]), proc[r].steady)
        BY <2>3, <3>3, <4>1, <4>3 DEF Following
      <4>5. d.schema = "ready" /\ Right(file, d, proc[r].steady)
        BY <3>3, <4>2, <4>4
      <4>6. Working(file, d, proc[r]) /\ InHand(d, proc[r]) = d
        BY <4>1, <4>5 DEF Working, InHand
      <4>7. QED
        BY <1>3, <1>5, <2>3, <3>1, <3>3, <4>6 DEF Local
    <3>4. QED
      BY <3>2, <3>3
  <2>4. QED
    BY <2>1, <2>2, <2>3
<1>9. \A r \in Procs : proc'[r].alone /\ proc'[r].fresh /\ proc'[r].pc = "attach" => current' = None
  BY <1>2, <1>7
<1>10. ASSUME NEW r \in Procs, NEW s \in Procs, r # s PROVE Apart(r, s)' /\ Following(r, s)'
  <2>1. Apart(r, s) /\ Following(r, s)
    BY <1>10 DEF IndexInv
  <2>2. CASE s = p
    <3>1. proc'[s] = q /\ proc'[r] = proc[r] /\ Busy(proc[s])
      BY <1>2, <1>10, <2>2
    <3>2. Apart(r, s)'
      BY <2>1, <3>1 DEF Apart
    <3>3. ASSUME ~overlapped, proc[r].pc = "answer"
          PROVE  /\ proc[r].steady \subseteq q.steady
                 /\ q.h = proc[r].h => Right(file, InHand(d, q), proc[r].steady)
      <4>1. /\ proc[r].steady \subseteq proc[p].steady
            /\ proc[r].h = q.h /\ proc[p].h = q.h =>
                  Right(file, InHand(db[q.h], proc[p]), proc[r].steady)
        BY <2>1, <2>2, <3>3 DEF Following
      <4>2. proc[r].h = q.h => Working(file, db[q.h], proc[r])
        BY <1>1, <3>3 DEF IndexInv, Local, Trusts
      <4>3. proc[r].h = q.h => db[q.h].schema = "ready" /\ Right(file, db[q.h], proc[r].steady)
        BY <3>3, <4>2 DEF Working
      <4>4. QED
        BY <3>3, <4>1, <4>3
    <3>4. Following(r, s)'
      BY <1>3, <3>1, <3>3 DEF Following
    <3>5. QED
      BY <3>2, <3>4
  <2>3. CASE r = p
    <3>1. proc'[s] = proc[s] /\ proc'[r] = q /\ Busy(proc[r])
      BY <1>2, <1>10, <2>3
    <3>2. Apart(r, s)'
      BY <2>1, <2>3, <3>1 DEF Apart
    <3>3. Following(r, s)'
      BY <2>1, <3>1 DEF Apart, Following
    <3>4. QED
      BY <3>2, <3>3
  <2>4. CASE r # p /\ s # p
    <3>1. proc'[s] = proc[s] /\ proc'[r] = proc[r]
      BY <1>2, <2>4
    <3>2. Apart(r, s)'
      BY <2>1, <3>1 DEF Apart
    <3>3. Busy(proc[s]) => overlapped
      <4>1. Apart(s, p)
        BY <2>4 DEF IndexInv
      <4>2. QED
        BY <4>1 DEF Apart
    <3>4. Following(r, s)'
      BY <3>1, <3>3 DEF Following
    <3>5. QED
      BY <3>2, <3>4
  <2>5. QED
    BY <2>2, <2>3, <2>4
<1>11. QED
  BY <1>4, <1>6, <1>8, <1>9, <1>10 DEF IndexInv
-----------------------------------------------------------------------------
(* A step that leaves a database behind.                                   *)

\* A database file that something refers to stays, any other is gone.
LEMMA CollectFacts ==
  ASSUME NEW d \in [Gens \cup Procs -> Table], Collect(d)
  PROVE  /\ db' \in [Gens \cup Procs -> Table]
         /\ \A x \in Gens \cup Procs : db'[x] = d[x] \/ db'[x] = Empty
         /\ \A x \in Gens \cup Procs :
               x = current' \/ (\E r \in Procs : proc'[r].h = x) => db'[x] = d[x]
         /\ \A x \in Gens \cup Procs :
               x # current' /\ (\A r \in Procs : proc'[r].h # x) => db'[x] = Empty
BY EmptyFacts DEF Collect

\* p goes on with no database, or with its own in memory.
LEMMA LeaveStep ==
  ASSUME IndexInv, NEW p \in Procs, NEW q \in Process, NEW t \in Table,
         proc' = [proc EXCEPT ![p] = q], file' = file, overlapped' = overlapped,
         current' \in {current, None},
         q.pc \in {"idle", "discard", "attach", "cached"},
         q.pc # "idle" => Busy(proc[p]) /\ q.steady = proc[p].steady /\ (q.alone => proc[p].alone),
         q.pc = "idle" => q = IdleProc,
         q.alone /\ q.fresh /\ q.pc = "attach" => current' = None,
         q.tx = None, q.h = IF q.pc = "cached" THEN p ELSE None,
         Collect(IF q.pc = "cached" THEN [db EXCEPT ![p] = t] ELSE db),
         t.schema = "ready", Linked(t), Exact(t)
  PROVE  IndexInv'
<1> DEFINE base == IF q.pc = "cached" THEN [db EXCEPT ![p] = t] ELSE db
<1>1. proc \in [Procs -> Process] /\ db \in [Gens \cup Procs -> Table]
  BY DEF IndexInv, IndexTypeOK
<1>2. /\ proc' \in [Procs -> Process] /\ proc'[p] = q
      /\ \A r \in Procs \ {p} : proc'[r] = proc[r]
  BY <1>1
<1>3. /\ base \in [Gens \cup Procs -> Table] /\ (q.h = p => base[p] = t)
      /\ \A x \in Gens \cup Procs : base[x] = db[x] \/ base[x] = t
      /\ \A x \in (Gens \cup Procs) \ {p} : base[x] = db[x]
  BY <1>1, Distinct
<1>4. Collect(base)
  OBVIOUS
<1> HIDE DEF base
<1>5. /\ db' \in [Gens \cup Procs -> Table]
      /\ \A x \in Gens \cup Procs : db'[x] = base[x] \/ db'[x] = Empty
      /\ \A x \in Gens \cup Procs :
            x = current' \/ (\E r \in Procs : proc'[r].h = x) => db'[x] = base[x]
      /\ \A x \in Gens \cup Procs :
            x # current' /\ (\A r \in Procs : proc'[r].h # x) => db'[x] = Empty
  BY <1>3, <1>4, CollectFacts
<1>6. IndexTypeOK'
  BY <1>1, <1>2, <1>5 DEF IndexInv, IndexTypeOK
<1>7. Databases'
  <2>1. \A x \in Gens \cup Procs : Linked(db'[x])
    BY <1>3, <1>5, EmptyFacts DEF IndexInv, Databases
  <2>2. \A g \in Gens : db'[g] = db[g] \/ db'[g] = Empty
    BY <1>3, <1>5, Distinct
  <2>3. ~overlapped => \A g \in Gens : Exact(db'[g])
    BY <2>2, EmptyFacts DEF IndexInv, Databases
  <2>4. QED
    BY <1>5, <2>1, <2>3 DEF Databases
<1>8. ASSUME NEW r \in Procs \ {p}
      PROVE  proc'[r] = proc[r] /\ (proc[r].h # None => db'[proc[r].h] = db[proc[r].h])
  <2>1. Local(r, proc[r], file, db[proc[r].h], overlapped)
    BY DEF IndexInv
  <2>2. proc[r].h \in Gens \cup Procs \cup {None} /\ proc[r].h # p
    BY <1>1, <2>1, Distinct DEF Local, Placed, Process
  <2>3. QED
    BY <1>2, <1>3, <1>5, <2>2
<1>9. Local(p, q, file, db'[q.h], overlapped)
  <2>1. Placed(p, q) /\ Reading(file, q)
    BY Distinct DEF Placed, Reading
  <2>2. q.h # None => db'[q.h] = t
    BY <1>2, <1>3, <1>5
  <2>3. q.h # None => Working(file, t, q) /\ InHand(t, q) = t
    BY DEF Working, InHand
  <2>4. QED
    BY <2>1, <2>2, <2>3 DEF Local
<1>10. ASSUME NEW r \in Procs PROVE Local(r, proc'[r], file', db'[proc'[r].h], overlapped')
  <2>1. CASE r = p
    BY <1>2, <1>9, <2>1
  <2>2. CASE r # p
    <3>1. Local(r, proc[r], file, db[proc[r].h], overlapped)
      BY DEF IndexInv
    <3>2. QED
      BY <1>8, <2>2, <3>1 DEF Local
  <2>3. QED
    BY <2>1, <2>2
<1>11. ASSUME NEW r \in Procs, proc'[r].alone, proc'[r].fresh, proc'[r].pc = "attach"
       PROVE current' = None
  BY <1>2, <1>11 DEF IndexInv
<1>12. ASSUME NEW r \in Procs, NEW s \in Procs, r # s PROVE Apart(r, s)' /\ Following(r, s)'
  <2>1. Apart(r, s) /\ Following(r, s)
    BY <1>12 DEF IndexInv
  <2>2. Busy(q) => Busy(proc[p])
    BY DEF Busy
  <2>3. Apart(r, s)'
    <3>1. Busy(proc'[s]) => Busy(proc[s])
      BY <1>2, <2>2
    <3>2. proc'[r].alone => proc[r].alone
      BY <1>2 DEF IdleProc
    <3>3. Busy(proc'[r]) => Busy(proc[r])
      BY <1>2, <2>2
    <3>4. QED
      BY <2>1, <3>1, <3>2, <3>3 DEF Apart
  <2>4. CASE r = p
    BY <1>2, <2>3, <2>4 DEF Following
  <2>5. CASE s = p
    <3>1. proc'[s] = q /\ proc'[r] = proc[r] /\ (Busy(q) => Busy(proc[s]))
      BY <1>2, <1>12, <2>2, <2>5
    <3>2. proc[r].h # None => proc[r].h # q.h
      <4>1. Local(r, proc[r], file, db[proc[r].h], overlapped)
        BY DEF IndexInv
      <4>2. QED
        BY <1>12, <2>5, <4>1 DEF Local, Placed
    <3>3. Busy(q) => q.steady = proc[s].steady
      BY <2>5 DEF Busy
    <3>4. QED
      BY <2>1, <2>3, <3>1, <3>2, <3>3 DEF Following
  <2>6. CASE r # p /\ s # p
    <3>1. proc'[s] = proc[s] /\ proc'[r] = proc[r] /\ (proc[r].h # None => db'[proc[r].h] = db[proc[r].h])
      BY <1>8, <2>6
    <3>2. QED
      BY <2>1, <2>3, <3>1 DEF Following
  <2>7. QED
    BY <2>3, <2>4, <2>5, <2>6
<1>13. QED
  BY <1>6, <1>7, <1>10, <1>11, <1>12 DEF IndexInv

\* The in-memory database of an Open that the cache would not take.
LEMMA DegradeStep ==
  ASSUME IndexInv, NEW p \in Procs, Busy(proc[p]), Degrade(p)
  PROVE  IndexInv'
<1> DEFINE q == [proc[p] EXCEPT !.pc = "cached", !.h = p, !.cached = Empty.rows,
                                !.todo = {}, !.live = {}, !.got = None, !.tx = None,
                                !.alone = FALSE, !.fresh = FALSE]
           t == [Empty EXCEPT !.schema = "ready"]
<1>1. proc[p] \in Process /\ Empty.rows \in [Ids -> Version]
  BY EmptyFacts DEF IndexInv, IndexTypeOK, Table
<1>2. /\ q \in Process /\ q.pc = "cached" /\ q.h = p /\ q.tx = None /\ q.alone = FALSE
      /\ q.steady = proc[p].steady
  BY <1>1 DEF Process
<1>3. t \in Table /\ t.schema = "ready" /\ Linked(t) /\ Exact(t)
  BY EmptyFacts, SchemaStep DEF Schemas
<1>4. /\ proc' = [proc EXCEPT ![p] = q] /\ file' = file /\ overlapped' = overlapped
      /\ current' = current /\ Collect([db EXCEPT ![p] = t])
  BY DEF Degrade, Set
<1> HIDE DEF q, t
<1>5. /\ Collect(IF q.pc = "cached" THEN [db EXCEPT ![p] = t] ELSE db)
      /\ q.h = IF q.pc = "cached" THEN p ELSE None
      /\ q.pc \in {"idle", "discard", "attach", "cached"}
      /\ q.pc # "idle" => Busy(proc[p]) /\ q.steady = proc[p].steady /\ (q.alone => proc[p].alone)
      /\ q.pc = "idle" => q = IdleProc
      /\ q.alone /\ q.fresh /\ q.pc = "attach" => current' = None
      /\ current' \in {current, None}
  BY <1>2, <1>4
<1>6. QED
  BY <1>2, <1>3, <1>4, <1>5, LeaveStep

\* The command is over.
LEMMA ExitStep ==
  ASSUME IndexInv, NEW p \in Procs, Set(p, IdleProc), UNCHANGED <<file, current, overlapped>>,
         Collect(db)
  PROVE  IndexInv'
<1> DEFINE t == [Empty EXCEPT !.schema = "ready"]
<1>1. t \in Table /\ t.schema = "ready" /\ Linked(t) /\ Exact(t)
  BY EmptyFacts, SchemaStep DEF Schemas
<1>2. /\ IdleProc \in Process /\ IdleProc.pc = "idle" /\ IdleProc.h = None /\ IdleProc.tx = None
      /\ IdleProc.alone = FALSE
  BY EmptyFacts DEF IdleProc, Process, Table
<1> HIDE DEF t
<1>3. /\ proc' = [proc EXCEPT ![p] = IdleProc] /\ file' = file /\ overlapped' = overlapped
      /\ current' \in {current, None}
  BY DEF Set
<1>4. /\ Collect(IF IdleProc.pc = "cached" THEN [db EXCEPT ![p] = t] ELSE db)
      /\ IdleProc.h = IF IdleProc.pc = "cached" THEN p ELSE None
      /\ IdleProc.pc \in {"idle", "discard", "attach", "cached"}
      /\ IdleProc.pc # "idle" => Busy(proc[p]) /\ IdleProc.steady = proc[p].steady
                                 /\ (IdleProc.alone => proc[p].alone)
      /\ IdleProc.alone /\ IdleProc.fresh /\ IdleProc.pc = "attach" => current' = None
  BY <1>2
<1>5. QED
  BY <1>1, <1>2, <1>3, <1>4, LeaveStep
-----------------------------------------------------------------------------
(* One step per action.                                                    *)

\* What the invariant says of one process and of its database.
LEMMA ProcFacts ==
  ASSUME IndexInv, NEW p \in Procs
  PROVE  /\ proc[p] \in Process /\ Local(p, proc[p], file, db[proc[p].h], overlapped)
         /\ proc[p].h \in Gens \cup Procs \cup {None}
         /\ proc[p].h # None => db[proc[p].h] \in Table /\ Linked(db[proc[p].h])
         /\ proc[p].h # None => Tables(p) \in Table /\ Linked(Tables(p))
         /\ Tables(p) = InHand(db[proc[p].h], proc[p])
<1>1. proc[p] \in Process /\ Local(p, proc[p], file, db[proc[p].h], overlapped)
  BY DEF IndexInv, IndexTypeOK
<1>2. proc[p].h \in Gens \cup Procs \cup {None} /\ proc[p].tx \in Table \cup {None}
  BY <1>1 DEF Process
<1>3. proc[p].h # None => db[proc[p].h] \in Table /\ Linked(db[proc[p].h])
  BY <1>2 DEF IndexInv, IndexTypeOK, Databases
<1>4. Tables(p) = InHand(db[proc[p].h], proc[p])
  BY DEF Tables, InHand
<1>5. proc[p].h # None => Tables(p) \in Table /\ Linked(Tables(p))
  BY <1>1, <1>2, <1>3, <1>4 DEF InHand, Local
<1>6. QED
  BY <1>1, <1>2, <1>3, <1>4, <1>5

\* The database file is removed.
LEMMA DiscardStep ==
  ASSUME IndexInv, NEW p \in Procs, Discard(p)
  PROVE  IndexInv'
<1> DEFINE q == [proc[p] EXCEPT !.pc = "attach"]
           t == [Empty EXCEPT !.schema = "ready"]
<1>1. t \in Table /\ t.schema = "ready" /\ Linked(t) /\ Exact(t)
  BY EmptyFacts, SchemaStep DEF Schemas
<1>2. /\ proc[p].pc = "discard" /\ current' = None /\ proc' = [proc EXCEPT ![p] = q]
      /\ Collect(db) /\ file' = file /\ overlapped' = overlapped
  BY DEF Discard, Set
<1>3. /\ q \in Process /\ q.pc = "attach" /\ q.h = proc[p].h /\ q.tx = proc[p].tx
      /\ q.alone = proc[p].alone /\ q.steady = proc[p].steady
  BY ProcFacts DEF Process
<1>4. q.h = None /\ q.tx = None /\ Busy(proc[p])
  BY <1>2, <1>3, ProcFacts DEF Local, Placed, Busy
<1> HIDE DEF q, t
<1>5. /\ Collect(IF q.pc = "cached" THEN [db EXCEPT ![p] = t] ELSE db)
      /\ q.h = IF q.pc = "cached" THEN p ELSE None
      /\ q.pc \in {"idle", "discard", "attach", "cached"}
      /\ q.pc # "idle" => Busy(proc[p]) /\ q.steady = proc[p].steady /\ (q.alone => proc[p].alone)
      /\ q.pc = "idle" => q = IdleProc
      /\ q.alone /\ q.fresh /\ q.pc = "attach" => current' = None
      /\ current' \in {current, None}
  BY <1>2, <1>3, <1>4
<1>6. QED
  BY <1>1, <1>2, <1>3, <1>4, <1>5, LeaveStep

\* A database that cannot be opened.
LEMMA AttachCorrupt ==
  ASSUME IndexInv, NEW p \in Procs, proc[p].pc = "attach",
         Set(p, [proc[p] EXCEPT !.pc = "discard"]), UNCHANGED <<file, current, db, overlapped>>
  PROVE  IndexInv'
<1> DEFINE q == [proc[p] EXCEPT !.pc = "discard"]
           t == [Empty EXCEPT !.schema = "ready"]
<1>1. t \in Table /\ t.schema = "ready" /\ Linked(t) /\ Exact(t)
  BY EmptyFacts, SchemaStep DEF Schemas
<1>2. /\ current' = current /\ proc' = [proc EXCEPT ![p] = q] /\ file' = file
      /\ overlapped' = overlapped /\ db' = db
  BY DEF Set
<1>3. /\ q \in Process /\ q.pc = "discard" /\ q.h = proc[p].h /\ q.tx = proc[p].tx
      /\ q.alone = proc[p].alone /\ q.steady = proc[p].steady
  BY ProcFacts DEF Process
<1>4. q.h = None /\ q.tx = None /\ Busy(proc[p])
  BY <1>3, ProcFacts DEF Local, Placed, Busy
<1> HIDE DEF q, t
<1>5. Collect(db)
  <2>1. db \in [Gens \cup Procs -> Table] /\ proc \in [Procs -> Process]
    BY DEF IndexInv, IndexTypeOK
  <2>2. \A r \in Procs : proc'[r].h = proc[r].h
    BY <1>2, <1>3, <2>1
  <2>3. \A x \in Gens \cup Procs : x # current /\ (\A r \in Procs : proc[r].h # x) => db[x] = Empty
    BY DEF IndexInv, Databases
  <2>4. db = [x \in Gens \cup Procs |->
               IF x = current' \/ \E r \in Procs : proc'[r].h = x THEN db[x] ELSE Empty]
    BY <1>2, <2>1, <2>2, <2>3
  <2>5. QED
    BY <1>2, <2>4 DEF Collect
<1>6. /\ Collect(IF q.pc = "cached" THEN [db EXCEPT ![p] = t] ELSE db)
      /\ q.h = IF q.pc = "cached" THEN p ELSE None
      /\ q.pc \in {"idle", "discard", "attach", "cached"}
      /\ q.pc # "idle" => Busy(proc[p]) /\ q.steady = proc[p].steady /\ (q.alone => proc[p].alone)
      /\ q.pc = "idle" => q = IdleProc
      /\ q.alone /\ q.fresh /\ q.pc = "attach" => current' = None
      /\ current' \in {current, None}
  BY <1>2, <1>3, <1>4, <1>5
<1>7. QED
  BY <1>1, <1>2, <1>3, <1>4, <1>6, LeaveStep

\* p comes to the database x and has not looked into it yet.
LEMMA AttachTo ==
  ASSUME IndexInv, NEW p \in Procs, proc[p].pc = "attach", NEW x \in Gens,
         NEW pc \in {"recreate", "create", "cached"},
         Set(p, [proc[p] EXCEPT !.pc = pc, !.h = x]), UNCHANGED <<file, db, overlapped>>,
         current' = x, current \in {None, x}, current = None => db[x] = Empty,
         pc = "cached" <=> db[x].schema = "ready"
  PROVE  IndexInv'
<1> DEFINE q == [proc[p] EXCEPT !.pc = pc, !.h = x]
<1>1. /\ q \in Process /\ q.pc = pc /\ q.h = x /\ q.tx = proc[p].tx
      /\ q.alone = proc[p].alone /\ q.steady = proc[p].steady /\ q.fresh = proc[p].fresh
  <2>1. proc[p] \in Process
    BY ProcFacts
  <2>2. q \in Process
    BY <2>1 DEF Process
  <2>3. QED
    BY <2>1, <2>2 DEF Process
<1>2. /\ proc' = [proc EXCEPT ![p] = q] /\ file' = file /\ overlapped' = overlapped
      /\ db' = [db EXCEPT ![x] = db[x]] /\ db[x] \in Table /\ Linked(db[x])
  BY DEF Set, IndexInv, IndexTypeOK, Databases
<1> HIDE DEF q
<1>3. proc[p].h = None /\ q.tx = None /\ Busy(proc[p]) /\ InHand(db[x], q) = db[x]
  BY <1>1, ProcFacts DEF Local, Placed, Busy, InHand
<1>4. Local(p, q, file, db[x], overlapped)
  <2>1. Placed(p, q) /\ Reading(file, q)
    BY <1>1, <1>3, Distinct DEF Placed, Reading
  <2>2. Working(file, db[x], q)
    BY <1>1, <1>3 DEF Working
  <2>3. Trusts(q, overlapped) => Exact(db[x])
    <3>1. CASE ~overlapped
      BY <3>1 DEF IndexInv, Databases
    <3>2. CASE q.alone /\ q.fresh
      BY <1>1, <3>2, EmptyFacts, Distinct DEF IndexInv
    <3>3. QED
      BY <1>1, <3>1, <3>2, Distinct DEF Trusts
  <2>4. QED
    BY <1>3, <2>1, <2>2, <2>3 DEF Local
<1>5. q.h # None /\ proc[p].h \in {None, q.h}
  BY <1>1, <1>3, Distinct
<1>6. QED
  BY <1>1, <1>2, <1>3, <1>4, <1>5, WorkStep

\* A database is opened, a new one if there is none.
LEMMA AttachStep ==
  ASSUME IndexInv, NEW p \in Procs, Attach(p)
  PROVE  IndexInv'
<1>1. proc[p].pc = "attach" /\ UNCHANGED <<file, db, overlapped>>
  BY DEF Attach
<1>2. CASE current = None
  <2>1. PICK g \in Gens : /\ \A r \in Procs : proc[r].h # g
                          /\ current' = g
                          /\ Set(p, [proc[p] EXCEPT !.pc = "create", !.h = g])
    BY <1>2 DEF Attach
  <2>2. db[g] = Empty
    BY <1>2, <2>1, Distinct DEF IndexInv, Databases
  <2>3. db[g].schema # "ready"
    BY <2>2, EmptyFacts
  <2>4. QED
    BY <1>1, <1>2, <2>1, <2>2, <2>3, AttachTo
<1>3. CASE current # None
  <2>1. /\ current' = current /\ current \in Gens /\ db[current] \in Table
        /\ Set(p, CASE db[current].schema = "corrupt" -> [proc[p] EXCEPT !.pc = "discard"]
                    [] db[current].schema = "ready" -> [proc[p] EXCEPT !.pc = "cached", !.h = current]
                    [] db[current].schema = "old" -> [proc[p] EXCEPT !.pc = "recreate", !.h = current]
                    [] OTHER -> [proc[p] EXCEPT !.pc = "create", !.h = current])
    BY <1>3 DEF Attach, IndexInv, IndexTypeOK
  <2>2. CASE db[current].schema = "corrupt"
    <3>1. Set(p, [proc[p] EXCEPT !.pc = "discard"])
      BY <2>1, <2>2
    <3>2. QED
      BY <1>1, <2>1, <3>1, AttachCorrupt
  <2>3. CASE db[current].schema = "ready"
    <3>1. Set(p, [proc[p] EXCEPT !.pc = "cached", !.h = current])
      BY <2>1, <2>3
    <3>2. QED
      BY <1>1, <1>3, <2>1, <2>3, <3>1, AttachTo
  <2>4. CASE db[current].schema = "old"
    <3>1. Set(p, [proc[p] EXCEPT !.pc = "recreate", !.h = current])
      BY <2>1, <2>4
    <3>2. QED
      BY <1>1, <1>3, <2>1, <2>4, <3>1, AttachTo
  <2>5. CASE db[current].schema \notin {"corrupt", "ready", "old"}
    <3>1. Set(p, [proc[p] EXCEPT !.pc = "create", !.h = current])
      BY <2>1, <2>5
    <3>2. QED
      BY <1>1, <1>3, <2>1, <2>5, <3>1, AttachTo
  <2>6. QED
    BY <2>2, <2>3, <2>4, <2>5
<1>4. QED
  BY <1>2, <1>3

\* The tables of a database that is not ready are made.
LEMMA SchemaWork ==
  ASSUME IndexInv, NEW p \in Procs, proc[p].pc \in {"recreate", "create", "version"},
         NEW pc \in {"create", "version", "cached"}, Set(p, [proc[p] EXCEPT !.pc = pc]),
         NEW d \in Table, db' = [db EXCEPT ![proc[p].h] = d],
         UNCHANGED <<file, current, overlapped>>,
         Linked(d), Exact(db[proc[p].h]) => Exact(d), pc = "cached" <=> d.schema = "ready"
  PROVE  IndexInv'
<1> DEFINE q == [proc[p] EXCEPT !.pc = pc]
<1>1. /\ q \in Process /\ q.pc = pc /\ q.h = proc[p].h /\ q.tx = proc[p].tx
      /\ q.alone = proc[p].alone /\ q.steady = proc[p].steady /\ q.fresh = proc[p].fresh
  BY ProcFacts DEF Process
<1>2. proc' = [proc EXCEPT ![p] = q] /\ file' = file /\ overlapped' = overlapped
  BY DEF Set
<1> HIDE DEF q
<1>3. /\ q.h # None /\ q.tx = None /\ Busy(proc[p]) /\ InHand(d, q) = d
      /\ (Trusts(proc[p], overlapped) \/ proc[p].alone) => db[q.h].schema # "ready"
  BY <1>1, ProcFacts DEF Local, Placed, Busy, InHand, Working
<1>4. Local(p, q, file, d, overlapped)
  <2>1. Placed(p, q) /\ Reading(file, q)
    BY <1>1, <1>3, ProcFacts DEF Placed, Reading, Local
  <2>2. Working(file, d, q)
    BY <1>1, <1>3 DEF Working
  <2>3. Trusts(q, overlapped) => Exact(d)
    BY <1>1, <1>3, ProcFacts DEF Local, Trusts
  <2>4. QED
    BY <1>3, <2>1, <2>2, <2>3 DEF Local
<1>5. ~overlapped => db[q.h].schema # "ready"
  BY <1>3 DEF Trusts
<1>6. q.pc \notin {"idle", "attach", "discard"} /\ proc[p].h \in {None, q.h}
  BY <1>1
<1>7. current' = current /\ db' = [db EXCEPT ![q.h] = d]
  BY <1>1
<1>8. QED
  BY <1>1, <1>2, <1>3, <1>4, <1>5, <1>6, <1>7, WorkStep

\* The tables are dropped, created and given their version.
LEMMA MakeStep ==
  ASSUME IndexInv, NEW p \in Procs, Recreate(p) \/ CreateTables(p) \/ InsertVersion(p)
  PROVE  IndexInv'
<1>1. proc[p].pc \in {"recreate", "create", "version"} /\ Busy(proc[p])
  BY DEF Recreate, CreateTables, InsertVersion, Busy
<1>2. proc[p].h # None
  BY <1>1, ProcFacts DEF Local, Placed
<1>3. db[proc[p].h] \in Table /\ Linked(db[proc[p].h])
  BY <1>2, ProcFacts
<1>4. CASE Recreate(p)
  <2>1. /\ Set(p, [proc[p] EXCEPT !.pc = "create"]) /\ db' = [db EXCEPT ![proc[p].h] = Empty]
        /\ UNCHANGED <<file, current, overlapped>>
    BY <1>4 DEF Recreate
  <2>2. Empty.schema # "ready"
    BY EmptyFacts
  <2>3. QED
    BY <1>1, <2>1, <2>2, EmptyFacts, SchemaWork
<1>5. CASE Degrade(p)
  BY <1>1, <1>5, DegradeStep
<1>6. CASE CreateTables(p) /\ ~Degrade(p)
  <2> DEFINE d == [db[proc[p].h] EXCEPT !.schema = "tables"]
  <2>1. /\ Set(p, [proc[p] EXCEPT !.pc = "version"]) /\ db' = [db EXCEPT ![proc[p].h] = d]
        /\ UNCHANGED <<file, current, overlapped>>
    BY <1>6 DEF CreateTables
  <2>2. d \in Table /\ d.schema = "tables" /\ Linked(d) /\ (Exact(db[proc[p].h]) => Exact(d))
    BY <1>3, SchemaStep DEF Schemas
  <2> HIDE DEF d
  <2>3. d.schema # "ready"
    BY <2>2
  <2>4. QED
    BY <1>1, <2>1, <2>2, <2>3, SchemaWork
<1>7. CASE InsertVersion(p) /\ ~Degrade(p)
  <2> DEFINE d == [db[proc[p].h] EXCEPT !.schema = "ready"]
  <2>1. /\ Set(p, [proc[p] EXCEPT !.pc = "cached"]) /\ db' = [db EXCEPT ![proc[p].h] = d]
        /\ UNCHANGED <<file, current, overlapped>>
    BY <1>7 DEF InsertVersion
  <2>2. d \in Table /\ d.schema = "ready" /\ Linked(d) /\ (Exact(db[proc[p].h]) => Exact(d))
    BY <1>3, SchemaStep DEF Schemas
  <2> HIDE DEF d
  <2>3. QED
    BY <1>1, <2>1, <2>2, SchemaWork
<1>8. QED
  BY <1>4, <1>5, <1>6, <1>7
-----------------------------------------------------------------------------
(* sync                                                                    *)

\* A step of the sync that leaves the database for its transaction to change.
LEMMA SyncStep ==
  ASSUME IndexInv, NEW p \in Procs, proc[p].pc \in {"cached", "list", "entries", "row"},
         NEW q \in Process, Set(p, q), UNCHANGED <<file, current, db, overlapped>>,
         q.pc \in {"list", "entries", "row"},
         q.h = proc[p].h, q.steady = proc[p].steady, q.alone = proc[p].alone,
         q.fresh = proc[p].fresh, q.pc = "list" => q.tx = None,
         q.pc = "row" => q.got \in Ids \X (Contents \cup {None}) /\ q.got[1] \notin q.todo,
         q.tx # None => Linked(q.tx),
         Reading(file, q),
         Working(file, db[proc[p].h], proc[p]) => Working(file, db[proc[p].h], q),
         /\ Exact(InHand(db[proc[p].h], proc[p])) /\ Working(file, db[proc[p].h], proc[p])
            => Exact(InHand(db[proc[p].h], q)),
         \A S \in SUBSET proc[p].steady :
            Right(file, InHand(db[proc[p].h], proc[p]), S) => Right(file, InHand(db[proc[p].h], q), S)
  PROVE  IndexInv'
<1>1. /\ proc' = [proc EXCEPT ![p] = q] /\ file' = file /\ overlapped' = overlapped
      /\ current' = current
  BY DEF Set
<1>2. q.h # None /\ Busy(proc[p]) /\ db[q.h] \in Table /\ Linked(db[q.h])
  BY ProcFacts DEF Local, Placed, Busy
<1>3. db' = [db EXCEPT ![q.h] = db[q.h]]
  BY DEF IndexInv, IndexTypeOK
<1>4. Local(p, q, file, db[q.h], overlapped)
  <2>1. Placed(p, q)
    BY <1>2, ProcFacts DEF Local, Placed
  <2>2. Trusts(q, overlapped) <=> Trusts(proc[p], overlapped)
    BY DEF Trusts
  <2>3. QED
    BY <1>2, <2>1, <2>2, ProcFacts DEF Local
<1>5. q.pc \notin {"idle", "attach", "discard"} /\ proc[p].h \in {None, q.h}
  OBVIOUS
<1>6. QED
  BY <1>1, <1>2, <1>3, <1>4, <1>5, WorkStep

\* The versions are read, before the transaction.
LEMMA CachedVersionsStep ==
  ASSUME IndexInv, NEW p \in Procs, CachedVersions(p)
  PROVE  IndexInv'
<1>1. proc[p].pc = "cached" /\ Busy(proc[p])
  BY DEF CachedVersions, Busy
<1>2. CASE Degrade(p)
  BY <1>1, <1>2, DegradeStep
<1>3. CASE ~Degrade(p)
  <2> DEFINE x == proc[p].h
             q == [proc[p] EXCEPT !.pc = "list", !.cached = db[x].rows]
  <2>1. Set(p, q) /\ UNCHANGED <<file, current, db, overlapped>>
    BY <1>3 DEF CachedVersions
  <2>2. x # None /\ db[x] \in Table /\ proc[p] \in Process
    BY <1>1, ProcFacts DEF Local, Placed
  <2>3. /\ q \in Process /\ q.pc = "list" /\ q.h = x /\ q.tx = proc[p].tx /\ q.cached = db[x].rows
        /\ q.alone = proc[p].alone /\ q.steady = proc[p].steady /\ q.fresh = proc[p].fresh
    BY <2>2 DEF Process, Table
  <2> HIDE DEF q
  <2>4. proc[p].tx = None
    BY <1>1, ProcFacts DEF Local, Placed
  <2>5. InHand(db[x], q) = db[x] /\ InHand(db[x], proc[p]) = db[x]
    BY <2>3, <2>4 DEF InHand
  <2>6. Reading(file, q) /\ (Working(file, db[x], proc[p]) => Working(file, db[x], q))
    BY <1>1, <2>3, <2>5 DEF Reading, Working
  <2>7. QED
    BY <1>1, <2>1, <2>3, <2>4, <2>5, <2>6, SyncStep
<1>4. QED
  BY <1>2, <1>3

\* The ledger is listed against them.
LEMMA ListStep ==
  ASSUME IndexInv, NEW p \in Procs, List(p)
  PROVE  IndexInv'
<1> DEFINE x == proc[p].h
           listed == {i \in Ids : file[i] # None}
           new == {i \in listed : file[i] # proc[p].cached[i]}
           q == [proc[p] EXCEPT !.pc = "entries", !.live = listed, !.todo = new]
<1>1. Set(p, q) /\ proc[p].pc = "list" /\ UNCHANGED <<file, current, db, overlapped>>
  BY DEF List
<1>2. x # None /\ db[x] \in Table /\ proc[p] \in Process
  BY <1>1, ProcFacts DEF Local, Placed
<1>3. listed \subseteq Ids /\ new \subseteq Ids
  OBVIOUS
<1>4. /\ \A i \in Ids : i \in listed <=> file[i] # None
      /\ \A i \in Ids : i \in new <=> file[i] # None /\ file[i] # proc[p].cached[i]
  OBVIOUS
<1> HIDE DEF listed, new
<1>5. /\ q \in Process /\ q.pc = "entries" /\ q.h = x /\ q.tx = proc[p].tx
      /\ q.cached = proc[p].cached /\ q.live = listed /\ q.todo = new
      /\ q.alone = proc[p].alone /\ q.steady = proc[p].steady /\ q.fresh = proc[p].fresh
  BY <1>2, <1>3 DEF Process
<1> HIDE DEF q
<1>6. proc[p].tx = None
  BY <1>1, ProcFacts DEF Local, Placed
<1>7. InHand(db[x], q) = db[x] /\ InHand(db[x], proc[p]) = db[x]
  BY <1>5, <1>6 DEF InHand
<1>8. Reading(file, q)
  <2>1. q.steady \subseteq Ids
    BY <1>5 DEF Process
  <2>2. QED
    BY <1>4, <1>5, <2>1 DEF Reading
<1>9. ASSUME Working(file, db[x], proc[p]) PROVE Working(file, db[x], q)
  <2>1. q.cached = db[x].rows /\ db[x].schema = "ready"
    BY <1>1, <1>5, <1>9 DEF Working
  <2>2. ASSUME NEW i \in Ids, i \in q.steady, ~Pending(q, i)
        PROVE db[x].rows[i] = Want(file[i]) \/ (db[x].rows[i] = q.cached[i] /\ i \notin q.live)
    <3>1. CASE file[i] = None
      BY <1>4, <1>5, <2>1, <3>1
    <3>2. CASE file[i] # None
      <4>1. file[i] = q.cached[i] /\ q.cached[i] \in Version
        BY <1>4, <1>5, <2>2, <3>2 DEF Pending, Process
      <4>2. QED
        BY <2>1, <3>2, <4>1 DEF Want, Version
    <3>3. QED
      BY <3>1, <3>2
  <2>3. QED
    BY <1>5, <1>7, <2>1, <2>2 DEF Working
<1>10. QED
  BY <1>1, <1>5, <1>6, <1>7, <1>8, <1>9, SyncStep

\* One listed entry is read.
LEMMA GetEntryStep ==
  ASSUME IndexInv, NEW p \in Procs, GetEntry(p)
  PROVE  IndexInv'
<1> DEFINE x == proc[p].h
<1>1. PICK i \in proc[p].todo :
         Set(p, [proc[p] EXCEPT !.pc = "row", !.todo = @ \ {i}, !.got = <<i, file[i]>>])
  BY DEF GetEntry
<1> DEFINE q == [proc[p] EXCEPT !.pc = "row", !.todo = @ \ {i}, !.got = <<i, file[i]>>]
<1>2. proc[p].pc = "entries" /\ UNCHANGED <<file, current, db, overlapped>>
  BY DEF GetEntry
<1>3. x # None /\ db[x] \in Table /\ proc[p] \in Process
  BY <1>2, ProcFacts DEF Local, Placed
<1>4. i \in Ids /\ <<i, file[i]>> \in Ids \X (Contents \cup {None})
  BY <1>3 DEF Process, IndexInv, IndexTypeOK
<1>5. /\ q \in Process /\ q.pc = "row" /\ q.h = x /\ q.tx = proc[p].tx
      /\ q.cached = proc[p].cached /\ q.live = proc[p].live /\ q.todo = proc[p].todo \ {i}
      /\ q.got = <<i, file[i]>>
      /\ q.alone = proc[p].alone /\ q.steady = proc[p].steady /\ q.fresh = proc[p].fresh
  BY <1>3, <1>4 DEF Process
<1>6. Set(p, q)
  BY <1>1
<1> HIDE DEF q
<1>7. InHand(db[x], q) = InHand(db[x], proc[p])
  BY <1>5 DEF InHand
<1>8. q.got[1] = i /\ q.got[2] = file[i]
  BY <1>5
<1>9. \A j \in Ids : Pending(q, j) <=> Pending(proc[p], j)
  BY <1>2, <1>5, <1>8 DEF Pending
<1>10. Reading(file, q) /\ (q.tx # None => Linked(q.tx))
  BY <1>2, <1>5, <1>8, ProcFacts DEF Local, Reading
<1>11. Working(file, db[x], proc[p]) => Working(file, db[x], q)
  BY <1>2, <1>5, <1>7, <1>9 DEF Working
<1>12. q.pc = "row" => q.got \in Ids \X (Contents \cup {None}) /\ q.got[1] \notin q.todo
  BY <1>4, <1>5, <1>8
<1>13. QED
  BY <1>2, <1>5, <1>6, <1>7, <1>10, <1>11, <1>12, SyncStep

\* The transaction goes on to the tables t, in which the row of the entry
\* that was read is as its bytes want it.
LEMMA RowStep ==
  ASSUME IndexInv, NEW p \in Procs, proc[p].pc = "row",
         NEW t \in Table, NEW live \in SUBSET Ids,
         Set(p, [proc[p] EXCEPT !.pc = "entries", !.got = None, !.tx = t, !.live = live]),
         UNCHANGED <<file, current, db, overlapped>>,
         live \in {proc[p].live, proc[p].live \ {proc[p].got[1]}},
         live # proc[p].live => proc[p].got[2] = None,
         t.schema = Tables(p).schema, Linked(t),
         t.rows[proc[p].got[1]] = Want(proc[p].got[2]),
         \A j \in Ids \ {proc[p].got[1]} : t.rows[j] = Tables(p).rows[j],
         Exact(Tables(p)) /\ Tables(p).rows[proc[p].got[1]] = proc[p].cached[proc[p].got[1]] => Exact(t)
  PROVE  IndexInv'
<1> DEFINE x == proc[p].h
           i == proc[p].got[1]
           q == [proc[p] EXCEPT !.pc = "entries", !.got = None, !.tx = t, !.live = live]
<1>1. x # None /\ db[x] \in Table /\ proc[p] \in Process /\ i \in Ids
  BY ProcFacts DEF Local, Placed
<1>2. /\ q \in Process /\ q.pc = "entries" /\ q.h = x /\ q.tx = t
      /\ q.cached = proc[p].cached /\ q.live = live /\ q.todo = proc[p].todo
      /\ q.alone = proc[p].alone /\ q.steady = proc[p].steady /\ q.fresh = proc[p].fresh
  BY <1>1 DEF Process
<1>3. Set(p, q)
  OBVIOUS
<1> HIDE DEF q
<1>4. InHand(db[x], q) = t /\ InHand(db[x], proc[p]) = Tables(p)
  BY <1>2, NotNone DEF InHand, Tables
<1>5. /\ \A j \in proc[p].steady \ proc[p].live : file[j] = None
      /\ i \in proc[p].steady => proc[p].got[2] = file[i]
  BY ProcFacts DEF Local, Reading
<1>6. Reading(file, q)
  BY <1>2, <1>5 DEF Reading
<1>7. ASSUME Working(file, db[x], proc[p]) PROVE Working(file, db[x], q)
  <2>1. ASSUME NEW j \in Ids
        PROVE  /\ Pending(q, j) => t.rows[j] = q.cached[j]
               /\ j \in q.steady /\ ~Pending(q, j) =>
                    t.rows[j] = Want(file[j]) \/ (t.rows[j] = q.cached[j] /\ j \notin q.live)
    <3>1. CASE j = i
      <4>1. i \notin proc[p].todo
        BY ProcFacts DEF Local, Placed
      <4>2. QED
        BY <1>2, <1>5, <3>1, <4>1 DEF Pending
    <3>2. CASE j # i
      <4>1. t.rows[j] = Tables(p).rows[j] /\ (Pending(q, j) <=> Pending(proc[p], j))
        BY <1>2, <3>2 DEF Pending
      <4>2. j \notin proc[p].live => j \notin q.live
        BY <1>2
      <4>3. QED
        BY <1>2, <1>4, <1>7, <4>1, <4>2 DEF Working
    <3>3. QED
      BY <3>1, <3>2
  <2>2. db[x].schema = "ready" /\ t.schema = "ready"
    BY <1>4, <1>7 DEF Working
  <2>3. QED
    BY <1>2, <1>4, <2>1, <2>2 DEF Working
<1>8. ASSUME NEW S \in SUBSET proc[p].steady, Right(file, Tables(p), S) PROVE Right(file, t, S)
  BY <1>1, <1>5, <1>8 DEF Right, Process
<1>9. Working(file, db[x], proc[p]) => Tables(p).rows[i] = proc[p].cached[i]
  BY <1>1, <1>4 DEF Working, Pending
<1>10. QED
  BY <1>2, <1>3, <1>4, <1>6, <1>7, <1>8, <1>9, SyncStep

\* Its row is written, or taken out.
LEMMA WriteRowStep ==
  ASSUME IndexInv, NEW p \in Procs, WriteRow(p)
  PROVE  IndexInv'
<1> DEFINE i == proc[p].got[1]
           c == proc[p].got[2]
           known == proc[p].cached[i] # None
           parsed == c \notin Unreadable \cup {None}
<1>1. proc[p].pc = "row" /\ Busy(proc[p])
  BY DEF WriteRow, Busy
<1>2. /\ proc[p].h # None /\ proc[p] \in Process /\ i \in Ids /\ c \in Contents \cup {None}
      /\ Tables(p) \in Table /\ Linked(Tables(p)) /\ proc[p].live \in SUBSET Ids
  BY <1>1, ProcFacts DEF Local, Placed, Process
<1>3. CASE Degrade(p)
  BY <1>1, <1>3, DegradeStep
<1>4. CASE ~Degrade(p) /\ parsed
  <2> DEFINE t == PutRow(Tables(p), i, c, known)
  <2>1. /\ Set(p, [proc[p] EXCEPT !.pc = "entries", !.got = None, !.tx = t])
        /\ UNCHANGED <<file, current, db, overlapped>>
    BY <1>4 DEF WriteRow
  <2>2. c \in Contents \ Unreadable /\ known \in BOOLEAN
    BY <1>2, <1>4
  <2> HIDE DEF known, c
  <2>3. /\ t \in Table /\ t.schema = Tables(p).schema
        /\ t.rows[i] = c /\ \A j \in Ids \ {i} : t.rows[j] = Tables(p).rows[j]
        /\ Linked(t)
        /\ Exact(Tables(p)) /\ (known <=> Tables(p).rows[i] # None) => Exact(t)
    BY <1>2, <2>2, PutRowFacts
  <2>4. Set(p, [proc[p] EXCEPT !.pc = "entries", !.got = None, !.tx = t, !.live = proc[p].live])
    BY <1>2, <2>1 DEF Set, Process
  <2> HIDE DEF t
  <2>5. t.rows[i] = Want(c)
    BY <2>2, <2>3 DEF Want
  <2>6. QED
    BY <1>1, <1>2, <2>1, <2>3, <2>4, <2>5, RowStep DEF known, c
<1>5. CASE ~Degrade(p) /\ ~parsed
  <2> DEFINE t == NoRowOf(Tables(p), i)
             live == IF c = None THEN proc[p].live \ {i} ELSE proc[p].live
  <2>1. /\ Set(p, [proc[p] EXCEPT !.pc = "entries", !.got = None, !.tx = t, !.live = live])
        /\ UNCHANGED <<file, current, db, overlapped>>
    BY <1>5 DEF WriteRow
  <2>2. /\ t \in Table /\ t.schema = Tables(p).schema
        /\ t.rows[i] = None /\ \A j \in Ids \ {i} : t.rows[j] = Tables(p).rows[j]
        /\ Linked(t) /\ (Exact(Tables(p)) => Exact(t))
    BY <1>2, NoRowFacts
  <2>3. /\ live \in SUBSET Ids /\ live \in {proc[p].live, proc[p].live \ {i}}
        /\ live # proc[p].live => c = None
    BY <1>2
  <2> HIDE DEF t, live
  <2>4. t.rows[i] = Want(c)
    BY <1>2, <1>5, <2>2 DEF Want
  <2>5. QED
    BY <1>1, <2>1, <2>2, <2>3, <2>4, RowStep
<1>6. QED
  BY <1>3, <1>4, <1>5

\* The transaction is committed, with the tables d.
LEMMA CommitTables ==
  ASSUME IndexInv, NEW p \in Procs, proc[p].pc = "entries", proc[p].todo = {}, NEW d \in Table,
         Set(p, [proc[p] EXCEPT !.pc = "answer", !.cached = Empty.rows, !.live = {}, !.tx = None]),
         UNCHANGED <<file, current, overlapped>>, db' = [db EXCEPT ![proc[p].h] = d],
         d.schema = Tables(p).schema, Linked(d), Exact(Tables(p)) => Exact(d),
         \A i \in Ids : d.rows[i] = IF i \in Stale(proc[p]) THEN None ELSE Tables(p).rows[i]
  PROVE  IndexInv'
<1> DEFINE x == proc[p].h
           q == [proc[p] EXCEPT !.pc = "answer", !.cached = Empty.rows, !.live = {}, !.tx = None]
<1>1. x # None /\ db[x] \in Table /\ proc[p] \in Process /\ Busy(proc[p])
  BY ProcFacts DEF Local, Placed, Busy
<1>2. /\ q \in Process /\ q.pc = "answer" /\ q.h = x /\ q.tx = None
      /\ q.alone = proc[p].alone /\ q.steady = proc[p].steady /\ q.fresh = proc[p].fresh
  BY <1>1, EmptyFacts DEF Process, Table
<1>3. Set(p, q)
  OBVIOUS
<1> HIDE DEF q
<1>4. InHand(d, q) = d /\ InHand(db[x], proc[p]) = Tables(p)
  BY <1>2 DEF InHand, Tables
<1>5. ASSUME NEW i \in proc[p].steady
      PROVE  i \in Ids /\ (i \notin proc[p].live => Want(file[i]) = None)
  <2>1. i \in Ids
    BY <1>1 DEF Process
  <2>2. i \notin proc[p].live => file[i] = None
    BY ProcFacts DEF Local, Reading
  <2>3. QED
    BY <2>1, <2>2 DEF Want
<1>6. ASSUME Working(file, db[x], proc[p]) PROVE Working(file, d, q)
  <2>1. ASSUME NEW i \in q.steady PROVE d.rows[i] = Want(file[i])
    <3>1. i \in Ids /\ i \in proc[p].steady /\ (i \notin proc[p].live => Want(file[i]) = None)
      BY <1>2, <1>5, <2>1
    <3>2. \/ Tables(p).rows[i] = Want(file[i])
          \/ Tables(p).rows[i] = proc[p].cached[i] /\ i \notin proc[p].live
      BY <1>4, <1>6, <3>1 DEF Working, Pending
    <3>3. i \in Stale(proc[p]) <=> proc[p].cached[i] # None /\ i \notin proc[p].live
      BY <3>1 DEF Stale
    <3>4. QED
      BY <3>1, <3>2, <3>3
  <2>2. d.schema = "ready"
    BY <1>4, <1>6 DEF Working
  <2>3. QED
    BY <1>2, <1>4, <2>1, <2>2 DEF Working, Right
<1>7. Trusts(q, overlapped) <=> Trusts(proc[p], overlapped)
  BY <1>2 DEF Trusts
<1>8. Local(p, q, file, d, overlapped)
  <2>1. Placed(p, q) /\ Reading(file, q)
    BY <1>1, <1>2, ProcFacts DEF Local, Placed, Reading
  <2>2. QED
    BY <1>1, <1>2, <1>4, <1>6, <1>7, <2>1, ProcFacts DEF Local
<1>9. ASSUME NEW S \in SUBSET proc[p].steady, ~overlapped, Right(file, Tables(p), S)
      PROVE  d.schema = "ready" /\ Right(file, d, S)
  <2>1. Working(file, db[x], proc[p])
    BY <1>1, <1>9, ProcFacts DEF Local, Trusts
  <2>2. d.schema = "ready"
    BY <1>4, <2>1 DEF Working
  <2>3. ASSUME NEW i \in S PROVE d.rows[i] = Want(file[i])
    BY <1>5, <1>9 DEF Right, Stale
  <2>4. QED
    BY <2>2, <2>3 DEF Right
<1>10. /\ q.pc \notin {"idle", "attach", "discard"} /\ proc[p].h \in {None, q.h} /\ q.h # None
       /\ proc' = [proc EXCEPT ![p] = q] /\ db' = [db EXCEPT ![q.h] = d] /\ current' = current
       /\ file' = file /\ overlapped' = overlapped
  BY <1>1, <1>2, <1>3 DEF Set
<1>11. \A S \in SUBSET proc[p].steady :
          /\ ~overlapped /\ db[q.h].schema = "ready" /\ Right(file, db[q.h], S)
          /\ (proc[p].h = q.h => Right(file, InHand(db[q.h], proc[p]), S))
          => d.schema = "ready" /\ Right(file, d, S) /\ Right(file, InHand(d, q), S)
  BY <1>2, <1>4, <1>9
<1>12. /\ Local(p, q, file, d, overlapped)
       /\ q.steady = proc[p].steady /\ q.alone = proc[p].alone /\ q.fresh = proc[p].fresh
  BY <1>2, <1>8
<1> HIDE DEF x
<1>13. QED
  BY <1>1, <1>2, <1>10, <1>11, <1>12, WorkStep

\* The rows of removed entries go, and the transaction is committed.
LEMMA CommitStep ==
  ASSUME IndexInv, NEW p \in Procs, Commit(p)
  PROVE  IndexInv'
<1> DEFINE x == proc[p].h
           stale == Stale(proc[p])
           d == [Tables(p) EXCEPT !.rows = [i \in Ids |-> IF i \in stale THEN None ELSE @[i]],
                                  !.edges = {e \in @ : e[1] \notin stale}]
<1>1. proc[p].pc = "entries" /\ proc[p].todo = {} /\ Busy(proc[p])
  BY DEF Commit, Busy
<1>2. /\ x # None /\ proc[p] \in Process /\ Tables(p) \in Table /\ Linked(Tables(p))
      /\ db \in [Gens \cup Procs -> Table] /\ stale \in SUBSET Ids
  BY <1>1, ProcFacts DEF Local, Placed, IndexInv, IndexTypeOK, Stale
<1>3. CASE Degrade(p)
  BY <1>1, <1>3, DegradeStep
<1>4. CASE ~Degrade(p)
  <2>1. /\ Set(p, [proc[p] EXCEPT !.pc = "answer", !.cached = Empty.rows, !.live = {}, !.tx = None])
        /\ UNCHANGED <<file, current, overlapped>>
        /\ db' = IF stale = {} /\ proc[p].tx = None THEN db ELSE [db EXCEPT ![x] = d]
    BY <1>4 DEF Commit
  <2>2. /\ d \in Table /\ d.schema = Tables(p).schema
        /\ \A i \in Ids : d.rows[i] = IF i \in stale THEN None ELSE Tables(p).rows[i]
        /\ Linked(d) /\ (Exact(Tables(p)) => Exact(d))
    BY <1>2, DropFacts, ZenonT(60)
  <2> HIDE DEF d
  <2>3. CASE stale = {} /\ proc[p].tx = None
    <3>1. Tables(p) = db[x] /\ db' = [db EXCEPT ![x] = db[x]]
      BY <1>2, <2>1, <2>3 DEF Tables
    <3>2. \A i \in Ids : db[x].rows[i] = IF i \in stale THEN None ELSE Tables(p).rows[i]
      BY <2>3, <3>1
    <3>3. QED
      BY <1>1, <1>2, <2>1, <3>1, <3>2, CommitTables
  <2>4. CASE ~(stale = {} /\ proc[p].tx = None)
    <3>1. db' = [db EXCEPT ![x] = d]
      BY <2>1, <2>4
    <3>2. QED
      BY <1>1, <2>1, <2>2, <3>1, CommitTables
  <2>5. QED
    BY <2>3, <2>4
<1>5. QED
  BY <1>3, <1>4
-----------------------------------------------------------------------------
(* What happens to all processes at once.                                  *)

\* r, seen when it has the cache to itself no more and the files of fewer
\* entries are as they were.
LEMMA LessKnown ==
  ASSUME NEW p \in Procs, NEW r \in Process, NEW s \in Process, NEW f, NEW g,
         NEW d \in Table, NEW o \in BOOLEAN, NEW u \in BOOLEAN,
         Local(p, r, f, d, o), o => u, s.steady \subseteq r.steady,
         \A i \in s.steady : g[i] = f[i],
         s.alone => r.alone, s.alone /\ s.fresh => r.fresh,
         s.pc = r.pc, s.h = r.h, s.cached = r.cached, s.todo = r.todo, s.live = r.live,
         s.got = r.got, s.tx = r.tx, s.pc = "idle" => s = IdleProc
  PROVE  Local(p, s, g, d, u)
<1>1. Placed(p, s) /\ (s.tx # None => Linked(s.tx))
  BY DEF Local, Placed
<1>2. Reading(g, s)
  BY DEF Local, Reading
<1>3. Trusts(s, u) => Trusts(r, o)
  BY DEF Trusts
<1>4. InHand(d, s) = InHand(d, r) /\ \A i \in Ids : Pending(s, i) <=> Pending(r, i)
  BY DEF InHand, Pending
<1>5. Working(f, d, r) => Working(g, d, s)
  BY <1>4 DEF Working, Right
<1>6. QED
  BY <1>1, <1>2, <1>3, <1>4, <1>5 DEF Local

\* All of the processes stay at their databases.
LEMMA SameDatabases ==
  ASSUME IndexInv, db' = db, current' = current, overlapped => overlapped',
         \A r \in Procs : proc'[r].h = proc[r].h
  PROVE  Databases'
BY DEF IndexInv, Databases

\* A process that is not at work is left as it was.
LEMMA IdleAsIs ==
  ASSUME NEW i
  PROVE  /\ [IdleProc EXCEPT !.alone = FALSE, !.fresh = FALSE] = IdleProc
         /\ [IdleProc EXCEPT !.steady = @ \ {i}] = IdleProc
<1>1. ASSUME NEW r \in Process, r.alone = FALSE, r.fresh = FALSE
      PROVE  [r EXCEPT !.alone = FALSE, !.fresh = FALSE] = r
  BY <1>1 DEF Process
<1>2. ASSUME NEW r \in Process, r.steady = {}
      PROVE  [r EXCEPT !.steady = @ \ {i}] = r
  <2>1. r.steady \ {i} = r.steady
    BY <1>2
  <2>2. QED
    BY <2>1 DEF Process
<1>3. /\ IdleProc \in Process /\ IdleProc.alone = FALSE /\ IdleProc.fresh = FALSE
      /\ IdleProc.steady = {}
  BY EmptyFacts DEF IdleProc, Process, Table
<1>4. QED
  BY <1>1, <1>2, <1>3

\* An Open begins beside whatever else runs.
LEMMA StartStep ==
  ASSUME IndexInv, NEW p \in Procs, Start(p)
  PROVE  IndexInv'
<1>1. PICK fresh \in BOOLEAN :
         proc' = [q \in Procs |->
                    IF q = p THEN [IdleProc EXCEPT !.pc = IF fresh THEN "discard" ELSE "attach",
                                     !.steady = Ids,
                                     !.alone = \A r \in Procs : ~Opening(r),
                                     !.fresh = fresh /\ \A r \in Procs : ~Opening(r)]
                    ELSE [proc[q] EXCEPT !.alone = FALSE, !.fresh = FALSE]]
  BY DEF Start
<1> DEFINE first == \A r \in Procs : ~Opening(r)
           new == [IdleProc EXCEPT !.pc = IF fresh THEN "discard" ELSE "attach",
                                   !.steady = Ids, !.alone = first, !.fresh = fresh /\ first]
           other(r) == [proc[r] EXCEPT !.alone = FALSE, !.fresh = FALSE]
<1>2. /\ UNCHANGED <<file, current, db>> /\ overlapped' = (overlapped \/ ~first)
      /\ proc[p] = IdleProc
  BY DEF Start
<1>3. first \in BOOLEAN /\ first = \A r \in Procs : ~Busy(proc[r])
  BY DEF Opening, Busy
<1> HIDE DEF first
<1>4. IdleProc \in Process
  BY EmptyFacts DEF IdleProc, Process, Table
<1>5. /\ new \in Process /\ new.pc = (IF fresh THEN "discard" ELSE "attach") /\ new.h = None
      /\ new.tx = None /\ new.steady = Ids /\ new.alone = first /\ new.fresh = (fresh /\ first)
  <2> DEFINE c == IF fresh THEN "discard" ELSE "attach"
             b == fresh /\ first
  <2>1. c \in {"discard", "attach"} /\ b \in BOOLEAN /\ first \in BOOLEAN
    BY <1>3
  <2>2. new = [IdleProc EXCEPT !.pc = c, !.steady = Ids, !.alone = first, !.fresh = b]
    OBVIOUS
  <2> HIDE DEF new, c, b
  <2>3. /\ new \in Process /\ new.pc = c /\ new.h = None
        /\ new.tx = None /\ new.steady = Ids /\ new.alone = first /\ new.fresh = b
    BY <2>1, <2>2, EmptyFacts DEF IdleProc, Process, Table
  <2>4. QED
    BY <2>3 DEF c, b
<1>6. ASSUME NEW r \in Procs
      PROVE  /\ other(r) \in Process /\ other(r).alone = FALSE /\ other(r).fresh = FALSE
             /\ other(r).pc = proc[r].pc /\ other(r).h = proc[r].h /\ other(r).tx = proc[r].tx
             /\ other(r).cached = proc[r].cached /\ other(r).todo = proc[r].todo
             /\ other(r).live = proc[r].live /\ other(r).got = proc[r].got
             /\ other(r).steady = proc[r].steady
  BY ProcFacts DEF Process
<1>7. ASSUME NEW r \in Procs, proc[r].pc = "idle" PROVE other(r) = IdleProc
  <2>1. proc[r] = IdleProc
    BY <1>7, ProcFacts DEF Local, Placed
  <2>2. QED
    BY <2>1, IdleAsIs
<1>8. proc' = [r \in Procs |-> IF r = p THEN new ELSE other(r)]
  BY <1>1 DEF first
<1> HIDE DEF new, other
<1>9. IndexTypeOK'
  BY <1>2, <1>3, <1>5, <1>6, <1>8 DEF IndexInv, IndexTypeOK
<1>10. Databases'
  <2>1. IdleProc.h = None
    BY DEF IdleProc
  <2>2. QED
    BY <1>2, <1>5, <1>6, <1>8, <2>1, SameDatabases
<1>11. ASSUME NEW r \in Procs PROVE Local(r, proc'[r], file', db'[proc'[r].h], overlapped')
  <2>1. CASE r = p
    <3>1. proc'[r] = new
      BY <1>8, <2>1
    <3>2. Placed(r, new) /\ Reading(file', new)
      BY <1>5, Distinct DEF Placed, Reading
    <3>3. QED
      BY <1>5, <3>1, <3>2 DEF Local
  <2>2. CASE r # p /\ proc[r].h = None
    <3>1. Local(r, proc[r], file, db[proc[r].h], overlapped)
      BY ProcFacts
    <3>2. Placed(r, other(r)) /\ Reading(file, other(r))
      BY <1>6, <1>7, <3>1 DEF Local, Placed, Reading
    <3>3. QED
      BY <1>2, <1>6, <1>8, <2>2, <3>1, <3>2 DEF Local
  <2>3. CASE r # p /\ proc[r].h # None
    <3>1. /\ Local(r, proc[r], file, db[proc[r].h], overlapped) /\ proc[r] \in Process
          /\ db[proc[r].h] \in Table /\ overlapped \in BOOLEAN /\ overlapped' \in BOOLEAN
      BY <1>9, <2>3, ProcFacts DEF IndexTypeOK, IndexInv
    <3>2. /\ other(r) \in Process /\ (overlapped => overlapped')
          /\ other(r).steady \subseteq proc[r].steady
          /\ \A i \in other(r).steady : file'[i] = file[i]
          /\ other(r).alone => proc[r].alone
          /\ other(r).alone /\ other(r).fresh => proc[r].fresh
          /\ other(r).pc = "idle" => other(r) = IdleProc
      BY <1>2, <1>6, <1>7
    <3>3. Local(r, other(r), file', db[proc[r].h], overlapped')
      <4> DEFINE s == other(r)
                 d == db[proc[r].h]
      <4>1. /\ s \in Process /\ s.pc = proc[r].pc /\ s.h = proc[r].h
            /\ s.cached = proc[r].cached /\ s.todo = proc[r].todo /\ s.live = proc[r].live
            /\ s.got = proc[r].got /\ s.tx = proc[r].tx
            /\ s.steady \subseteq proc[r].steady
            /\ \A i \in s.steady : file'[i] = file[i]
            /\ s.alone => proc[r].alone
            /\ s.alone /\ s.fresh => proc[r].fresh
            /\ s.pc = "idle" => s = IdleProc
        BY <1>6, <3>2
      <4>2. d \in Table /\ Local(r, proc[r], file, d, overlapped) /\ (overlapped => overlapped')
        BY <3>1, <3>2
      <4> HIDE DEF s, d
      <4>3. Local(r, s, file', d, overlapped')
        BY <3>1, <4>1, <4>2, LessKnown
      <4>4. QED
        BY <4>3 DEF s, d
    <3>4. QED
      BY <1>2, <1>6, <1>8, <2>3, <3>3
  <2>4. QED
    BY <2>1, <2>2, <2>3
<1>12. \A r \in Procs : proc'[r].alone /\ proc'[r].fresh /\ proc'[r].pc = "attach" => current' = None
  BY <1>5, <1>6, <1>8
<1>13. ASSUME NEW r \in Procs, NEW s \in Procs, r # s PROVE Apart(r, s)' /\ Following(r, s)'
  <2>1. Apart(r, s) /\ Following(r, s)
    BY <1>13 DEF IndexInv
  <2>2. CASE r = p
    BY <1>2, <1>3, <1>5, <1>6, <1>8, <1>13, <2>2 DEF Apart, Following, Busy
  <2>3. CASE s = p
    <3>1. proc'[r] = other(r) /\ proc'[s] = new
      BY <1>8, <1>13, <2>3
    <3>2. Busy(other(r)) <=> Busy(proc[r])
      BY <1>6 DEF Busy
    <3>3. Apart(r, s)'
      BY <1>2, <1>3, <1>6, <3>1, <3>2 DEF Apart
    <3>4. other(r).steady \subseteq Ids
      BY <1>6 DEF Process
    <3>5. Following(r, s)'
      BY <1>5, <3>1, <3>4 DEF Following
    <3>6. QED
      BY <3>3, <3>5
  <2>4. CASE r # p /\ s # p
    <3>1. proc'[r] = other(r) /\ proc'[s] = other(s)
      BY <1>8, <2>4
    <3>2. (Busy(other(r)) <=> Busy(proc[r])) /\ (Busy(other(s)) <=> Busy(proc[s]))
      BY <1>6 DEF Busy
    <3>3. Apart(r, s)'
      BY <1>2, <1>6, <2>1, <3>1, <3>2 DEF Apart
    <3>4. InHand(db[proc[r].h], other(s)) = InHand(db[proc[r].h], proc[s])
      BY <1>6 DEF InHand
    <3>5. Following(r, s)'
      BY <1>2, <1>6, <2>1, <3>1, <3>2, <3>4 DEF Following
    <3>6. QED
      BY <3>3, <3>5
  <2>5. QED
    BY <2>2, <2>3, <2>4
<1>14. QED
  BY <1>9, <1>10, <1>11, <1>12, <1>13 DEF IndexInv

\* An entry file changes under every Open.
LEMMA EditStep ==
  ASSUME IndexInv, NEW i \in Ids, Edit(i)
  PROVE  IndexInv'
<1> DEFINE seen(r) == [proc[r] EXCEPT !.steady = @ \ {i}]
<1>1. PICK c \in Contents \cup {None} : file' = [file EXCEPT ![i] = c]
  BY DEF Edit
<1>2. UNCHANGED <<current, db, overlapped>> /\ proc' = [r \in Procs |-> seen(r)]
  BY DEF Edit
<1>3. ASSUME NEW r \in Procs
      PROVE  /\ seen(r) \in Process /\ seen(r).alone = proc[r].alone /\ seen(r).fresh = proc[r].fresh
             /\ seen(r).pc = proc[r].pc /\ seen(r).h = proc[r].h /\ seen(r).tx = proc[r].tx
             /\ seen(r).cached = proc[r].cached /\ seen(r).todo = proc[r].todo
             /\ seen(r).live = proc[r].live /\ seen(r).got = proc[r].got
             /\ seen(r).steady = proc[r].steady \ {i} /\ seen(r).steady \subseteq Ids
  BY ProcFacts DEF Process
<1>4. ASSUME NEW r \in Procs, proc[r].pc = "idle" PROVE seen(r) = IdleProc
  <2>1. proc[r] = IdleProc
    BY <1>4, ProcFacts DEF Local, Placed
  <2>2. QED
    BY <2>1, IdleAsIs
<1> HIDE DEF seen
<1>5. file' \in [Ids -> Contents \cup {None}] /\ \A j \in Ids \ {i} : file'[j] = file[j]
  BY <1>1 DEF IndexInv, IndexTypeOK
<1>6. IndexTypeOK'
  BY <1>2, <1>3, <1>5 DEF IndexInv, IndexTypeOK
<1>7. Databases'
  BY <1>2, <1>3, SameDatabases
<1>8. ASSUME NEW r \in Procs PROVE Local(r, proc'[r], file', db'[proc'[r].h], overlapped')
  <2>1. /\ Local(r, proc[r], file, db[proc[r].h], overlapped) /\ proc[r] \in Process
        /\ overlapped \in BOOLEAN
    BY ProcFacts DEF IndexTypeOK, IndexInv
  <2>2. CASE proc[r].h = None
    <3>1. \A j \in seen(r).steady : file'[j] = file[j]
      BY <1>3, <1>5
    <3>2. Placed(r, seen(r)) /\ Reading(file', seen(r))
      BY <1>3, <1>4, <2>1, <3>1 DEF Local, Placed, Reading
    <3>3. QED
      BY <1>2, <1>3, <2>1, <2>2, <3>2 DEF Local
  <2>3. CASE proc[r].h # None
    <3>1. db[proc[r].h] \in Table
      BY <2>3, ProcFacts
    <3>2. /\ seen(r) \in Process /\ (overlapped => overlapped)
          /\ seen(r).steady \subseteq proc[r].steady
          /\ \A j \in seen(r).steady : file'[j] = file[j]
          /\ seen(r).alone => proc[r].alone
          /\ seen(r).alone /\ seen(r).fresh => proc[r].fresh
          /\ seen(r).pc = "idle" => seen(r) = IdleProc
      BY <1>3, <1>4, <1>5
    <3>3. Local(r, seen(r), file', db[proc[r].h], overlapped)
      BY <1>3, <2>1, <3>1, <3>2, LessKnown
    <3>4. QED
      BY <1>2, <1>3, <3>3
  <2>4. QED
    BY <2>2, <2>3
<1>9. \A r \in Procs : proc'[r].alone /\ proc'[r].fresh /\ proc'[r].pc = "attach" => current' = None
  BY <1>2, <1>3 DEF IndexInv
<1>10. ASSUME NEW r \in Procs, NEW s \in Procs, r # s PROVE Apart(r, s)' /\ Following(r, s)'
  <2>1. Apart(r, s) /\ Following(r, s)
    BY <1>10 DEF IndexInv
  <2>2. proc'[r] = seen(r) /\ proc'[s] = seen(s)
    BY <1>2
  <2>3. (Busy(seen(r)) <=> Busy(proc[r])) /\ (Busy(seen(s)) <=> Busy(proc[s]))
    BY <1>3 DEF Busy
  <2>4. Apart(r, s)'
    BY <1>2, <1>3, <2>1, <2>2, <2>3 DEF Apart
  <2>5. InHand(db[proc[r].h], seen(s)) = InHand(db[proc[r].h], proc[s])
    BY <1>3 DEF InHand
  <2>6. \A d : Right(file, d, proc[r].steady) => Right(file', d, seen(r).steady)
    BY <1>3, <1>5 DEF Right
  <2>7. Following(r, s)'
    BY <1>2, <1>3, <2>1, <2>2, <2>3, <2>5, <2>6 DEF Following
  <2>8. QED
    BY <2>4, <2>7
<1>11. QED
  BY <1>6, <1>7, <1>8, <1>9, <1>10 DEF IndexInv

\* The cache is removed under every Open.
LEMMA RemoveCacheStep ==
  ASSUME IndexInv, RemoveCache
  PROVE  IndexInv'
<1>1. current' = None /\ UNCHANGED <<file, proc, overlapped>> /\ Collect(db)
  BY DEF RemoveCache
<1>2. /\ db' \in [Gens \cup Procs -> Table]
      /\ \A x \in Gens \cup Procs : db'[x] = db[x] \/ db'[x] = Empty
      /\ \A x \in Gens \cup Procs : (\E r \in Procs : proc[r].h = x) => db'[x] = db[x]
      /\ \A x \in Gens \cup Procs : x # current' /\ (\A r \in Procs : proc'[r].h # x) => db'[x] = Empty
  <2>1. db \in [Gens \cup Procs -> Table]
    BY DEF IndexInv, IndexTypeOK
  <2>2. QED
    BY <1>1, <2>1, CollectFacts
<1>3. IndexTypeOK'
  BY <1>1, <1>2 DEF IndexInv, IndexTypeOK
<1>4. Databases'
  BY <1>1, <1>2, EmptyFacts DEF IndexInv, Databases
<1>5. ASSUME NEW r \in Procs PROVE proc[r].h # None => db'[proc[r].h] = db[proc[r].h]
  BY <1>2, ProcFacts
<1>6. ASSUME NEW r \in Procs PROVE Local(r, proc'[r], file', db'[proc'[r].h], overlapped')
  <2>1. Local(r, proc[r], file, db[proc[r].h], overlapped)
    BY ProcFacts
  <2>2. QED
    BY <1>1, <1>5, <2>1 DEF Local
<1>7. ASSUME NEW r \in Procs, NEW s \in Procs, r # s PROVE Apart(r, s)' /\ Following(r, s)'
  <2>1. Apart(r, s) /\ Following(r, s)
    BY <1>7 DEF IndexInv
  <2>2. QED
    BY <1>1, <1>5, <2>1 DEF Apart, Following
<1>8. QED
  BY <1>1, <1>3, <1>4, <1>6, <1>7 DEF IndexInv

-----------------------------------------------------------------------------
\* Init leaves a cache that is empty, whole, old or damaged.
LEMMA IndexInit == Init => IndexInv
<1> SUFFICES ASSUME Init PROVE IndexInv
  OBVIOUS
<1>0. PICK g \in Gens, s \in {"none", "ready", "old", "corrupt"} :
         \E f \in [Ids -> (Contents \ Unreadable) \cup {None}] :
           /\ s # "ready" => f = Empty.rows
           /\ current = IF s = "none" THEN None ELSE g
           /\ db = [x \in Gens \cup Procs |->
                      IF x = current
                        THEN [schema |-> s, rows |-> f,
                              edges |-> UNION {EdgeRows(i, f[i]) : i \in {j \in Ids : f[j] # None}}]
                        ELSE Empty]
  BY DEF Init
<1>1. PICK f \in [Ids -> (Contents \ Unreadable) \cup {None}] :
         /\ current = IF s = "none" THEN None ELSE g
         /\ db = [x \in Gens \cup Procs |->
                    IF x = current
                      THEN [schema |-> s, rows |-> f,
                            edges |-> UNION {EdgeRows(i, f[i]) : i \in {j \in Ids : f[j] # None}}]
                      ELSE Empty]
  BY <1>0
<1> DEFINE held == {j \in Ids : f[j] # None}
           edges == UNION {EdgeRows(i, f[i]) : i \in held}
           left == [schema |-> s, rows |-> f, edges |-> edges]
<1>2. \A i \in held : f[i] \in Contents
  OBVIOUS
<1>3. /\ edges \subseteq Ids \X Nat \X Contents
      /\ \A e \in edges : e[1] \in held /\ e \in EdgeRows(e[1], f[e[1]])
      /\ \A i \in held : EdgeRows(i, f[i]) \subseteq edges /\ \A e \in EdgeRows(i, f[i]) : e[1] = i
  <2>1. \A i \in held : /\ EdgeRows(i, f[i]) \subseteq Ids \X Nat \X Contents
                        /\ \A e \in EdgeRows(i, f[i]) : e[1] = i
    BY <1>2, EdgeRowFacts
  <2>2. QED
    BY <2>1
<1>4. \A i \in Ids : i \in held <=> f[i] # None
  OBVIOUS
<1> HIDE DEF held, edges
<1>5. left \in Table /\ left.rows = f /\ left.edges = edges
  BY <1>3 DEF Table, Schemas, Version
<1>6. db = [x \in Gens \cup Procs |-> IF x = current THEN left ELSE Empty]
  BY <1>1 DEF edges, held
<1> HIDE DEF left
<1>7. Linked(left)
  BY <1>3, <1>4, <1>5 DEF Linked
<1>8. Exact(left)
  <2>1. SUFFICES ASSUME NEW i \in Ids
                 PROVE {e \in edges : e[1] = i} = IF f[i] = None THEN {} ELSE EdgeRows(i, f[i])
    BY <1>5 DEF Exact
  <2>2. CASE f[i] = None
    BY <1>3, <1>4, <2>2
  <2>3. CASE f[i] # None
    BY <1>3, <1>4, <2>3
  <2>4. QED
    BY <2>2, <2>3
<1>9. /\ IdleProc \in Process /\ IdleProc.pc = "idle" /\ IdleProc.h = None /\ IdleProc.tx = None
      /\ IdleProc.alone = FALSE
  BY EmptyFacts DEF IdleProc, Process, Table
<1>10. proc = [p \in Procs |-> IdleProc] /\ overlapped = FALSE /\ file \in [Ids -> Contents \cup {None}]
  BY DEF Init
<1>11. current \in Gens \cup {None}
  BY <1>1
<1>12. IndexTypeOK
  BY <1>5, <1>6, <1>9, <1>10, <1>11, EmptyFacts DEF IndexTypeOK
<1>13. Databases
  BY <1>6, <1>7, <1>8, EmptyFacts DEF Databases
<1>14. ASSUME NEW p \in Procs PROVE Local(p, proc[p], file, db[proc[p].h], overlapped)
  BY <1>9, <1>10, Distinct DEF Local, Placed, Reading
<1>15. \A p, r \in Procs : Apart(p, r) /\ Following(p, r)
  BY <1>9, <1>10 DEF Apart, Following, Busy
<1>16. QED
  BY <1>9, <1>10, <1>12, <1>13, <1>14, <1>15 DEF IndexInv

\* Every step keeps the invariant.
LEMMA IndexStep == IndexInv /\ [Next]_vars => IndexInv'
<1> SUFFICES ASSUME IndexInv, [Next]_vars PROVE IndexInv'
  OBVIOUS
<1>1. CASE UNCHANGED vars
  BY <1>1 DEF vars, IndexInv, IndexTypeOK, Databases, Apart, Following
<1>2. ASSUME NEW p \in Procs, Start(p) PROVE IndexInv'
  BY <1>2, StartStep
<1>3. ASSUME NEW p \in Procs, Step(p) PROVE IndexInv'
  <2>1. CASE Discard(p)
    BY <2>1, DiscardStep
  <2>2. CASE Attach(p)
    BY <2>2, AttachStep
  <2>3. CASE Recreate(p) \/ CreateTables(p) \/ InsertVersion(p)
    BY <2>3, MakeStep
  <2>4. CASE CachedVersions(p)
    BY <2>4, CachedVersionsStep
  <2>5. CASE List(p)
    BY <2>5, ListStep
  <2>6. CASE ListFails(p)
    BY <2>6, ExitStep DEF ListFails
  <2>7. CASE GetEntry(p)
    BY <2>7, GetEntryStep
  <2>8. CASE WriteRow(p)
    BY <2>8, WriteRowStep
  <2>9. CASE Commit(p)
    BY <2>9, CommitStep
  <2>10. CASE BusyTimeout(p)
    BY <2>10, DegradeStep DEF BusyTimeout, Busy
  <2>11. QED
    BY <1>3, <2>1, <2>2, <2>3, <2>4, <2>5, <2>6, <2>7, <2>8, <2>9, <2>10 DEF Step
<1>4. ASSUME NEW p \in Procs, CacheFails(p) PROVE IndexInv'
  BY <1>4, DegradeStep DEF CacheFails, Opening, Busy
<1>5. ASSUME NEW p \in Procs, Exit(p) PROVE IndexInv'
  BY <1>5, ExitStep DEF Exit
<1>6. ASSUME NEW i \in Ids, Edit(i) PROVE IndexInv'
  BY <1>6, EditStep
<1>7. CASE RemoveCache
  BY <1>7, RemoveCacheStep
<1>8. QED
  BY <1>1, <1>2, <1>3, <1>4, <1>5, <1>6, <1>7 DEF Next

(* What holds at every step of every Open, whoever else runs, dies, edits  *)
(* an entry or removes the cache meanwhile.                                *)
THEOREM IndexInvariance == Spec => []IndexInv
BY IndexInit, IndexStep, PTL DEF Spec

(* A reader of the cache never finds an entry without the edges of its     *)
(* version, nor edges of an entry that has no row (index.go, sync): rows   *)
(* and edges change in one transaction, and putRow clears what it puts.    *)
THEOREM EdgesWithTheirRows == Spec => []NoEdgeLost
<1>1. IndexInv => NoEdgeLost
  BY DEF IndexInv, Databases, Linked, NoEdgeLost
<1>2. QED
  BY <1>1, IndexInvariance, PTL

(* No query runs against a row that does not match its file (index.go:     *)
(* Open): the tables agree with every entry file that did not change since *)
(* the Open began, under the three conditions that OpenReconciles names.   *)
THEOREM OpenLeavesAgreement == Spec => []OpenReconciles
<1>1. ASSUME IndexInv PROVE OpenReconciles
  <2>1. SUFFICES ASSUME NEW p \in Procs, proc[p].pc = "answer", NEW i \in proc[p].steady
                 PROVE /\ Trusts(proc[p], overlapped) => Agrees(db[proc[p].h], i)
                       /\ proc[p].alone => db[proc[p].h].rows[i] = Want(file[i])
    BY DEF OpenReconciles, OnDisk, Trusts, Want
  <2>2. proc[p].h # None /\ i \in Ids /\ proc[p].tx = None
    BY <1>1, <2>1, ProcFacts DEF Local, Placed, Process
  <2>3. Trusts(proc[p], overlapped) \/ proc[p].alone => db[proc[p].h].rows[i] = Want(file[i])
    BY <1>1, <2>1, <2>2, ProcFacts DEF Local, Working, Right
  <2>4. ASSUME Trusts(proc[p], overlapped) PROVE Agrees(db[proc[p].h], i)
    <3>1. {e \in db[proc[p].h].edges : e[1] = i} =
            IF db[proc[p].h].rows[i] = None THEN {} ELSE EdgeRows(i, db[proc[p].h].rows[i])
      BY <1>1, <2>2, <2>4, ProcFacts DEF Local, Exact
    <3>2. db[proc[p].h].rows[i] = Want(file[i])
      BY <2>3, <2>4
    <3>3. CASE file[i] \in Unreadable \cup {None}
      <4>1. Want(file[i]) = None
        BY <3>3 DEF Want
      <4>2. QED
        BY <3>1, <3>2, <3>3, <4>1 DEF Agrees
    <3>4. CASE file[i] \notin Unreadable \cup {None}
      <4>1. Want(file[i]) = file[i]
        BY <3>4 DEF Want
      <4>2. QED
        BY <3>1, <3>2, <3>4, <4>1 DEF Agrees
    <3>5. QED
      BY <3>3, <3>4
  <2>5. QED
    BY <2>3, <2>4
<1>2. QED
  BY <1>1, IndexInvariance, PTL

-----------------------------------------------------------------------------
(***************************************************************************)
(* The forms of the web view.                                              *)
(***************************************************************************)
Answers == {"nothing", "error", "index", "deck", "refused", "unchanged", "failed", "done"}
TabType == [shows : Answers, offer : CardIds \cup {NoCard}, at : {"idle", "reread", "write"},
            act : {"none", "confirm", "discard", "edit"}, read : Cards \cup {NoCard},
            text : Texts \cup {NoCard}, moved : BOOLEAN, raced : BOOLEAN]

WebTypeOK ==
    /\ ledgerFiles \in [CardIds -> Cards \cup {NoCard}]
    /\ tab \in [Tabs -> TabType]

\* What holds of a tab whatever becomes of the files.
Sound(x) ==
    /\ x.at # "idle" => x.offer # NoCard /\ x.read \in Cards /\ x.act # "none"
    /\ x.shows = "refused" => x.moved
    /\ x.at = "reread" => x.act = "edit"
    /\ x.at = "write" /\ x.act = "discard" => Awaiting(x.read)
    /\ x.act = "edit" => x.text \in Texts

\* A card that has not changed since it was dealt awaits a human, and what a
\* request has read is what the file holds unless that has changed.
Fits(x, files) ==
    /\ x.offer # NoCard /\ ~x.moved => files[x.offer] \in Cards /\ Awaiting(files[x.offer])
    /\ x.at # "idle" /\ ~x.moved => x.read = files[x.offer]
    /\ x.at = "write" /\ ~x.raced => x.read = files[x.offer]

WebInv == WebTypeOK /\ \A t \in Tabs : Sound(tab[t]) /\ Fits(tab[t], ledgerFiles)
-----------------------------------------------------------------------------
\* What the invariant says of one tab.
LEMMA TabFacts ==
  ASSUME WebInv, NEW t \in Tabs
  PROVE  /\ tab[t] \in TabType /\ Sound(tab[t]) /\ Fits(tab[t], ledgerFiles)
         /\ tab[t].offer # NoCard =>
              tab[t].offer \in CardIds /\ ledgerFiles[tab[t].offer] \in Cards \cup {NoCard}
<1>1. tab[t] \in TabType
  BY DEF WebInv, WebTypeOK
<1>2. tab[t].offer \in CardIds \cup {NoCard}
  BY <1>1 DEF TabType
<1>3. QED
  BY <1>1, <1>2 DEF WebInv, WebTypeOK

\* A step of one tab that leaves the files alone.
LEMMA ShowStep ==
  ASSUME WebInv, NEW t \in Tabs, NEW x \in TabType, Show(t, x), ledgerFiles' = ledgerFiles,
         Sound(x), Fits(x, ledgerFiles)
  PROVE  WebInv'
<1>1. tab \in [Tabs -> TabType] /\ tab' = [tab EXCEPT ![t] = x]
  BY DEF WebInv, WebTypeOK, Show
<1>2. tab'[t] = x /\ \A u \in Tabs \ {t} : tab'[u] = tab[u]
  BY <1>1
<1>3. WebTypeOK'
  BY <1>1 DEF WebInv, WebTypeOK
<1>4. ASSUME NEW u \in Tabs PROVE Sound(tab'[u]) /\ Fits(tab'[u], ledgerFiles)
  BY <1>2 DEF WebInv
<1>5. QED
  BY <1>3, <1>4 DEF WebInv

\* A tab that is marked, since its card changed.
LEMMA MarkedTab ==
  ASSUME NEW x \in TabType
  PROVE  LET y == [x EXCEPT !.moved = TRUE, !.raced = x.at # "idle"]
         IN  /\ y \in TabType /\ y.moved = TRUE /\ y.raced = (x.at # "idle")
             /\ y.shows = x.shows /\ y.offer = x.offer /\ y.at = x.at /\ y.act = x.act
             /\ y.read = x.read /\ y.text = x.text
BY DEF TabType

\* The entry under i changes: what was known of the tabs that look at another
\* one stays true, and the others are marked.
LEMMA ChangeStep ==
  ASSUME WebTypeOK, NEW i \in CardIds, NEW e \in Cards \cup {NoCard},
         NEW tabs \in [Tabs -> TabType],
         ledgerFiles' = [ledgerFiles EXCEPT ![i] = e], tab' = Marked(i, tabs),
         \A u \in Tabs : Sound(tabs[u]) /\ (tabs[u].offer # i => Fits(tabs[u], ledgerFiles))
  PROVE  WebInv'
<1> DEFINE marked(u) == [tabs[u] EXCEPT !.moved = TRUE, !.raced = tabs[u].at # "idle"]
<1>1. /\ ledgerFiles' \in [CardIds -> Cards \cup {NoCard}]
      /\ \A j \in CardIds \ {i} : ledgerFiles'[j] = ledgerFiles[j]
  BY DEF WebTypeOK
<1>2. tab' = [u \in Tabs |-> IF tabs[u].offer = i THEN marked(u) ELSE tabs[u]]
  BY DEF Marked
<1>3. ASSUME NEW u \in Tabs
      PROVE  /\ marked(u) \in TabType /\ marked(u).moved /\ marked(u).raced = (tabs[u].at # "idle")
             /\ marked(u).shows = tabs[u].shows /\ marked(u).offer = tabs[u].offer
             /\ marked(u).at = tabs[u].at /\ marked(u).act = tabs[u].act
             /\ marked(u).read = tabs[u].read /\ marked(u).text = tabs[u].text
  <2>1. tabs[u] \in TabType
    OBVIOUS
  <2>2. QED
    BY <2>1, MarkedTab
<1> HIDE DEF marked
<1>4. WebTypeOK'
  BY <1>1, <1>2, <1>3 DEF WebTypeOK
<1>5. ASSUME NEW u \in Tabs PROVE Sound(tab'[u]) /\ Fits(tab'[u], ledgerFiles')
  <2>1. tabs[u] \in TabType /\ Sound(tabs[u])
    OBVIOUS
  <2>2. CASE tabs[u].offer = i
    <3>1. tab'[u] = marked(u)
      BY <1>2, <2>2
    <3>2. Sound(marked(u))
      BY <1>3, <2>1 DEF Sound
    <3>3. Fits(marked(u), ledgerFiles')
      BY <1>3 DEF Fits
    <3>4. QED
      BY <3>1, <3>2, <3>3
  <2>3. CASE tabs[u].offer # i
    <3>1. tab'[u] = tabs[u] /\ Fits(tabs[u], ledgerFiles)
      BY <1>2, <2>3
    <3>2. tabs[u].offer \in CardIds \cup {NoCard}
      BY <2>1 DEF TabType
    <3>3. tabs[u].offer # NoCard => ledgerFiles'[tabs[u].offer] = ledgerFiles[tabs[u].offer]
      BY <1>1, <2>3, <3>2
    <3>4. tabs[u].at # "idle" => tabs[u].offer # NoCard
      BY <2>1 DEF Sound
    <3>5. Fits(tabs[u], ledgerFiles')
      BY <3>1, <3>3, <3>4 DEF Fits
    <3>6. QED
      BY <2>1, <3>1, <3>5
  <2>4. QED
    BY <2>2, <2>3
<1>6. QED
  BY <1>4, <1>5 DEF WebInv
-----------------------------------------------------------------------------
\* The page a tab shows instead.
LEMMA Answered ==
  ASSUME NEW old \in TabType, NEW shown \in Answers
  PROVE  LET x == [NewTab EXCEPT !.shows = shown, !.offer = old.offer, !.moved = old.moved]
         IN  /\ x \in TabType /\ x.shows = shown /\ x.offer = old.offer /\ x.moved = old.moved
             /\ x.at = "idle" /\ x.act = "none"
BY DEF NewTab, TabType

\* A request is answered.
LEMMA RespondStep ==
  ASSUME WebInv, NEW t \in Tabs, NEW shown \in Answers, Respond(t, shown), Reads,
         shown = "refused" => tab[t].moved
  PROVE  WebInv'
<1> DEFINE x == [NewTab EXCEPT !.shows = shown, !.offer = tab[t].offer, !.moved = tab[t].moved]
<1>1. tab[t] \in TabType /\ Fits(tab[t], ledgerFiles)
  BY TabFacts
<1>2. /\ x \in TabType /\ x.shows = shown /\ x.offer = tab[t].offer /\ x.moved = tab[t].moved
      /\ x.at = "idle" /\ x.act = "none"
  BY <1>1, Answered
<1>3. Show(t, x) /\ ledgerFiles' = ledgerFiles
  BY DEF Respond, Reads
<1> HIDE DEF x
<1>4. Sound(x) /\ Fits(x, ledgerFiles)
  BY <1>1, <1>2 DEF Sound, Fits
<1>5. QED
  BY <1>2, <1>3, <1>4, ShowStep

\* A page is rendered.
LEMMA PageStep == ASSUME WebInv, NEW t \in Tabs, index(t) \/ deck(t) PROVE WebInv'
<1> DEFINE awaiting == {i \in Stored : Awaiting(ledgerFiles[i])}
<1>1. BuildDistill # NoCard => BuildDistill \in awaiting
  <2>1. awaiting \in SUBSET Nat
    BY CardIdsAssumption DEF Stored
  <2>2. awaiting # {} => Min(awaiting) \in awaiting
    BY <2>1, MinIsIn
  <2>3. BuildDistill = IF awaiting # {} THEN Min(awaiting) ELSE NoCard
    BY DEF BuildDistill
  <2>4. QED
    BY <2>2, <2>3
<1>2. ASSUME NEW i \in awaiting PROVE i \in CardIds /\ ledgerFiles[i] \in Cards
  BY DEF Stored, WebInv, WebTypeOK
<1>3. CASE index(t)
  <2>1. PICK shown \in {"error", "index"} : Show(t, [NewTab EXCEPT !.shows = shown])
    BY <1>3 DEF index
  <2> DEFINE x == [NewTab EXCEPT !.shows = shown]
  <2>2. /\ x \in TabType /\ x.shows = shown /\ x.offer = NoCard /\ x.at = "idle"
        /\ x.act = "none"
    BY DEF NewTab, TabType, Answers
  <2>3. Show(t, x) /\ ledgerFiles' = ledgerFiles
    BY <1>3, <2>1 DEF index, Reads
  <2> HIDE DEF x
  <2>4. Sound(x) /\ Fits(x, ledgerFiles)
    BY <2>2 DEF Sound, Fits
  <2>5. QED
    BY <2>2, <2>3, <2>4, ShowStep
<1>4. CASE deck(t)
  <2> DEFINE top == BuildDistill
             x == [NewTab EXCEPT !.shows = "deck", !.offer = top]
  <2>1. Show(t, x) /\ ledgerFiles' = ledgerFiles
    BY <1>4 DEF deck, Reads
  <2>2. top \in CardIds \cup {NoCard}
        /\ (top # NoCard => ledgerFiles[top] \in Cards /\ Awaiting(ledgerFiles[top]))
    BY <1>1, <1>2
  <2> HIDE DEF top
  <2>3. /\ x \in TabType /\ x.shows = "deck" /\ x.offer = top /\ x.at = "idle"
        /\ x.act = "none"
    BY <2>2 DEF NewTab, TabType, Answers
  <2> HIDE DEF x
  <2>4. Sound(x) /\ Fits(x, ledgerFiles)
    BY <2>2, <2>3 DEF Sound, Fits
  <2>5. QED
    BY <2>1, <2>3, <2>4, ShowStep
<1>5. QED
  BY <1>3, <1>4
-----------------------------------------------------------------------------
\* The forms.
LEMMA OfferedCard ==
  ASSUME WebInv, NEW t \in Tabs, tab[t].offer # NoCard
  PROVE  /\ ledgerFiles[tab[t].offer] \in Cards \cup {NoCard}
         /\ ~tab[t].moved => /\ ledgerFiles[tab[t].offer] \in Cards
                             /\ Awaiting(ledgerFiles[tab[t].offer])
BY TabFacts DEF Fits

\* Confirm or discard is clicked.
LEMMA DistillActionStep ==
  ASSUME WebInv, NEW t \in Tabs, NEW act \in {"confirm", "discard"}, distillAction(t, act)
  PROVE  WebInv'
<1> DEFINE e == ledgerFiles[tab[t].offer]
           x == [tab[t] EXCEPT !.at = "write", !.act = act, !.read = e, !.raced = FALSE]
<1>1. /\ tab[t].offer # NoCard /\ tab[t].at = "idle" /\ Reads
      /\ ledgerFiles' = ledgerFiles /\ act # "edit"
  BY DEF distillAction, OnDeck, Reads
<1>2. CASE e = NoCard \/ ~Takes(e, act)
  <2>1. Respond(t, "refused")
    BY <1>2 DEF distillAction
  <2>2. tab[t].moved
    BY <1>1, <1>2, OfferedCard, DecksAssumption, TabFacts DEF Takes, Awaiting, TabType
  <2>3. QED
    BY <1>1, <2>1, <2>2, RespondStep DEF Answers
<1>3. CASE e # NoCard /\ Takes(e, act)
  <2>1. Show(t, x)
    BY <1>3 DEF distillAction
  <2>2. e \in Cards /\ Awaiting(e)
    BY <1>1, <1>3, OfferedCard DEF Takes, Awaiting
  <2>3. tab[t] \in TabType /\ Sound(tab[t]) /\ Fits(tab[t], ledgerFiles)
    BY TabFacts
  <2>4. e = ledgerFiles[tab[t].offer]
    OBVIOUS
  <2> HIDE DEF e
  <2>5. /\ x \in TabType /\ x.shows = tab[t].shows /\ x.offer = tab[t].offer
        /\ x.at = "write" /\ x.act = act /\ x.read = e /\ x.moved = tab[t].moved
        /\ x.text = tab[t].text
    BY <2>2, <2>3 DEF TabType
  <2> HIDE DEF x
  <2>6. Sound(x) /\ Fits(x, ledgerFiles)
    BY <1>1, <2>2, <2>3, <2>4, <2>5 DEF Sound, Fits
  <2>7. QED
    BY <1>1, <2>1, <2>5, <2>6, ShowStep
<1>4. QED
  BY <1>2, <1>3

\* An edit is submitted.
LEMMA DistillEditStep == ASSUME WebInv, NEW t \in Tabs, distillEdit(t) PROVE WebInv'
<1> DEFINE e == ledgerFiles[tab[t].offer]
<1>1. /\ tab[t].offer # NoCard /\ tab[t].at = "idle" /\ Reads
      /\ ledgerFiles' = ledgerFiles
  BY DEF distillEdit, OnDeck, Reads
<1>2. CASE e = NoCard \/ ~Takes(e, "edit")
  <2>1. Respond(t, "refused")
    BY <1>2 DEF distillEdit
  <2>2. tab[t].moved
    BY <1>1, <1>2, OfferedCard, DecksAssumption, TabFacts DEF Takes, Awaiting, TabType
  <2>3. QED
    BY <1>1, <2>1, <2>2, RespondStep DEF Answers
<1>3. CASE e # NoCard /\ Takes(e, "edit")
  <2>1. PICK text \in Texts :
           \/ Respond(t, "unchanged")
           \/ Show(t, [tab[t] EXCEPT !.at = "reread", !.act = "edit", !.read = e, !.text = text])
    BY <1>3 DEF distillEdit
  <2> DEFINE x == [tab[t] EXCEPT !.at = "reread", !.act = "edit", !.read = e, !.text = text]
  <2>2. CASE Respond(t, "unchanged")
    BY <1>1, <2>2, RespondStep DEF Answers
  <2>3. CASE Show(t, x)
    <3>1. e \in Cards /\ e = ledgerFiles[tab[t].offer]
      BY <1>1, <1>3, OfferedCard
    <3>2. tab[t] \in TabType /\ Sound(tab[t]) /\ Fits(tab[t], ledgerFiles)
      BY TabFacts
    <3> HIDE DEF e
    <3>3. /\ x \in TabType /\ x.shows = tab[t].shows /\ x.offer = tab[t].offer
          /\ x.at = "reread" /\ x.act = "edit" /\ x.read = e /\ x.moved = tab[t].moved
          /\ x.text = text
      BY <3>1, <3>2 DEF TabType
    <3> HIDE DEF x
    <3>4. Sound(x) /\ Fits(x, ledgerFiles)
      BY <1>1, <3>1, <3>2, <3>3 DEF Sound, Fits
    <3>5. QED
      BY <1>1, <2>3, <3>3, <3>4, ShowStep
  <2>4. QED
    BY <2>1, <2>2, <2>3
<1>4. QED
  BY <1>2, <1>3

\* The card of an edit is read again.
LEMMA RereadStep == ASSUME WebInv, NEW t \in Tabs, Reread(t) PROVE WebInv'
<1> DEFINE x == [tab[t] EXCEPT !.at = "write", !.raced = FALSE]
<1>1. tab[t].at = "reread" /\ Reads /\ ledgerFiles' = ledgerFiles
  BY DEF Reread, Reads
<1>2. tab[t] \in TabType /\ Sound(tab[t]) /\ Fits(tab[t], ledgerFiles)
  BY TabFacts
<1>3. CASE ledgerFiles[tab[t].offer] # tab[t].read
  <2>1. tab[t].moved
    BY <1>1, <1>2, <1>3 DEF Fits
  <2>2. QED
    BY <1>1, <1>3, <2>1, RespondStep DEF Reread, Answers
<1>4. CASE ledgerFiles[tab[t].offer] = tab[t].read
  <2>1. Show(t, x)
    BY <1>4 DEF Reread
  <2>2. /\ x \in TabType /\ x.shows = tab[t].shows /\ x.offer = tab[t].offer
        /\ x.at = "write" /\ x.act = tab[t].act /\ x.read = tab[t].read
        /\ x.moved = tab[t].moved /\ x.text = tab[t].text
    BY <1>2 DEF TabType
  <2> HIDE DEF x
  <2>3. Sound(x) /\ Fits(x, ledgerFiles)
    BY <1>1, <1>2, <1>4, <2>2 DEF Sound, Fits
  <2>4. QED
    BY <1>1, <2>1, <2>2, <2>3, ShowStep
<1>5. QED
  BY <1>3, <1>4

\* What a form writes, and the tab that shows so.
LEMMA StoreStep ==
  ASSUME WebInv, NEW t \in Tabs, NEW e \in Cards \cup {NoCard}, Store(t, e),
         tab[t].offer # NoCard
  PROVE  WebInv'
<1> DEFINE i == tab[t].offer
           x == [NewTab EXCEPT !.shows = "done", !.offer = i]
           tabs == [tab EXCEPT ![t] = x]
<1>1. i \in CardIds
  BY TabFacts
<1>2. ledgerFiles' = [ledgerFiles EXCEPT ![i] = e] /\ tab' = Marked(i, tabs)
  BY DEF Store
<1> HIDE DEF i
<1>3. /\ x \in TabType /\ x.shows = "done" /\ x.offer = i /\ x.at = "idle"
      /\ x.act = "none"
  BY <1>1 DEF NewTab, TabType, Answers
<1> HIDE DEF x
<1>4. Sound(x)
  BY <1>3 DEF Sound
<1>5. tab \in [Tabs -> TabType] /\ WebTypeOK
  BY DEF WebInv, WebTypeOK
<1>6. tabs \in [Tabs -> TabType] /\ \A u \in Tabs : tabs[u] = IF u = t THEN x ELSE tab[u]
  BY <1>3, <1>5
<1> HIDE DEF tabs
<1>7. \A u \in Tabs : Sound(tabs[u]) /\ (tabs[u].offer # i => Fits(tabs[u], ledgerFiles))
  BY <1>3, <1>4, <1>6 DEF WebInv
<1>8. QED
  BY <1>1, <1>2, <1>5, <1>6, <1>7, ChangeStep

\* What is known when the ledger is about to be written.
LEMMA WriteFacts ==
  ASSUME WebInv, NEW t \in Tabs, tab[t].at = "write"
  PROVE  /\ tab[t].offer \in CardIds /\ tab[t].offer # NoCard
         /\ tab[t].read \in Cards
         /\ [tab[t].read EXCEPT !.confirmed = TRUE] \in Cards
         /\ tab[t].act = "edit" => [tab[t].read EXCEPT !.body = tab[t].text] \in Cards
         /\ ~tab[t].raced => tab[t].read = ledgerFiles[tab[t].offer]
         /\ tab[t].act = "discard" => Awaiting(tab[t].read)
<1> DEFINE read == tab[t].read
           text == tab[t].text
<1>1. /\ tab[t].offer \in CardIds /\ tab[t].offer # NoCard /\ read \in Cards
      /\ tab[t].act = "edit" => text \in Texts
      /\ ~tab[t].raced => tab[t].read = ledgerFiles[tab[t].offer]
      /\ tab[t].act = "discard" => Awaiting(tab[t].read)
  BY TabFacts DEF Sound, Fits
<1> HIDE DEF read, text
<1>2. [read EXCEPT !.confirmed = TRUE] \in Cards
  BY <1>1 DEF Cards
<1>3. tab[t].act = "edit" => [read EXCEPT !.body = text] \in Cards
  BY <1>1 DEF Cards
<1>4. QED
  BY <1>1, <1>2, <1>3 DEF read, text

\* The ledger is written.
LEMMA WriteStep ==
  ASSUME WebInv, NEW t \in Tabs, ConfirmPut(t) \/ DiscardDelete(t) \/ EditPut(t)
  PROVE  WebInv'
<1>1. tab[t].at = "write"
  BY DEF ConfirmPut, DiscardDelete, EditPut
<1>2. CASE ConfirmPut(t)
  BY <1>1, <1>2, WriteFacts, StoreStep DEF ConfirmPut
<1>3. CASE EditPut(t)
  BY <1>1, <1>3, WriteFacts, StoreStep DEF EditPut
<1>4. CASE DiscardDelete(t)
  <2>1. CASE ledgerFiles[tab[t].offer] = NoCard
    <3>1. tab[t].moved
      BY <1>1, <2>1, WriteFacts, OfferedCard, DecksAssumption, TabFacts DEF TabType
    <3>2. Respond(t, "refused") /\ Reads
      BY <1>4, <2>1 DEF DiscardDelete
    <3>3. QED
      BY <3>1, <3>2, RespondStep DEF Answers
  <2>2. CASE ledgerFiles[tab[t].offer] # NoCard
    BY <1>1, <1>4, <2>2, WriteFacts, StoreStep DEF DiscardDelete
  <2>3. QED
    BY <2>1, <2>2
<1>5. QED
  BY <1>2, <1>3, <1>4

\* Another process changes the ledger.
LEMMA ElsewhereStep == ASSUME WebInv, NEW i \in CardIds, Elsewhere(i) PROVE WebInv'
<1>1. PICK e \in Cards \cup {NoCard} : ledgerFiles' = [ledgerFiles EXCEPT ![i] = e]
  BY DEF Elsewhere
<1>2. tab' = Marked(i, tab) /\ tab \in [Tabs -> TabType] /\ WebTypeOK
  BY DEF Elsewhere, WebInv, WebTypeOK
<1>3. \A u \in Tabs : Sound(tab[u]) /\ (tab[u].offer # i => Fits(tab[u], ledgerFiles))
  BY DEF WebInv
<1>4. QED
  BY <1>1, <1>2, <1>3, ChangeStep

\* No tab shows anything yet.
LEMMA WebInvInit == WebInit => WebInv
<1> SUFFICES ASSUME WebInit PROVE WebInv
  OBVIOUS
<1>1. /\ NewTab \in TabType /\ NewTab.offer = NoCard /\ NewTab.at = "idle"
      /\ NewTab.shows = "nothing" /\ NewTab.act = "none"
  BY DEF NewTab, TabType, Answers
<1>2. Sound(NewTab) /\ Fits(NewTab, ledgerFiles)
  BY <1>1 DEF Sound, Fits
<1>3. QED
  BY <1>1, <1>2, DecksAssumption DEF WebInit, WebInv, WebTypeOK

\* Every step keeps the invariant.
LEMMA WebInvStep == WebInv /\ [WebNext]_webVars => WebInv'
<1> SUFFICES ASSUME WebInv, [WebNext]_webVars PROVE WebInv'
  OBVIOUS
<1>1. ASSUME NEW t \in Tabs, index(t) \/ deck(t) PROVE WebInv'
  BY <1>1, PageStep
<1>2. ASSUME NEW t \in Tabs, NEW act \in {"confirm", "discard"}, distillAction(t, act)
      PROVE  WebInv'
  BY <1>2, DistillActionStep
<1>3. ASSUME NEW t \in Tabs, distillEdit(t) \/ Reread(t) PROVE WebInv'
  BY <1>3, DistillEditStep, RereadStep
<1>4. ASSUME NEW t \in Tabs, RequestFails(t) PROVE WebInv'
  BY <1>4, RespondStep DEF RequestFails, Answers
<1>5. ASSUME NEW t \in Tabs, ConfirmPut(t) \/ DiscardDelete(t) \/ EditPut(t) PROVE WebInv'
  BY <1>5, WriteStep
<1>6. ASSUME NEW i \in CardIds, Elsewhere(i) PROVE WebInv'
  BY <1>6, ElsewhereStep
<1>7. CASE OpenElsewhere \/ LoseCache \/ UNCHANGED webVars
  BY <1>7 DEF OpenElsewhere, LoseCache, webVars, WebInv, WebTypeOK
<1>8. QED
  BY <1>1, <1>2, <1>3, <1>4, <1>5, <1>6, <1>7 DEF WebNext

\* The inductive invariant: a card nobody has touched awaits a human, a request
\* holds what the file holds unless that changed under it, and a request to
\* discard has seen a capture that awaits a human.
THEOREM WebInvariance == WebSpec => []WebInv
<1>1. QED
  BY WebInvInit, WebInvStep, PTL DEF WebSpec
-----------------------------------------------------------------------------
\* Only the tab's own write makes a request that was about to write one that is done.
LEMMA OwnWrite ==
  ASSUME WebInv, WebNext, NEW t \in Tabs,
         tab[t].at = "write", tab'[t].at = "idle", tab'[t].shows = "done"
  PROVE  \/ ConfirmPut(t) \/ EditPut(t)
         \/ DiscardDelete(t) /\ ledgerFiles[tab[t].offer] # NoCard
<1>1. tab \in [Tabs -> TabType] /\ \A u \in Tabs : tab[u] \in TabType
  BY DEF WebInv, WebTypeOK
<1>2. ASSUME NEW u \in Tabs, NEW x, Show(u, x), u # t PROVE FALSE
  BY <1>1, <1>2 DEF Show
<1>3. ASSUME NEW i, NEW tabs, tab' = Marked(i, tabs), tabs[t] = tab[t] PROVE FALSE
  <2>1. tab'[t] = tab[t]
        \/ tab'[t] = [tab[t] EXCEPT !.moved = TRUE, !.raced = tab[t].at # "idle"]
    BY <1>3 DEF Marked
  <2>2. tab'[t].at = tab[t].at
    BY <1>1, <2>1, MarkedTab
  <2>3. QED
    BY <2>2
<1>4. ASSUME NEW u \in Tabs, NEW shown \in {"refused", "unchanged", "failed"}, Respond(u, shown)
      PROVE  FALSE
  <2> DEFINE x == [NewTab EXCEPT !.shows = shown, !.offer = tab[u].offer, !.moved = tab[u].moved]
  <2>1. x.shows = shown
    <3>1. tab[u] \in TabType /\ shown \in Answers
      BY <1>1 DEF Answers
    <3>2. QED
      BY <3>1, Answered
  <2>2. tab' = [tab EXCEPT ![u] = x]
    BY <1>4 DEF Respond, Show
  <2> HIDE DEF x
  <2>3. u = t => tab'[t] = x
    BY <1>1, <2>2
  <2>4. u # t => tab'[t] = tab[t]
    BY <1>1, <2>2
  <2>5. QED
    BY <2>1, <2>3, <2>4
<1>5. ASSUME NEW u \in Tabs, NEW e, Store(u, e), u # t PROVE FALSE
  <2> DEFINE tabs == [tab EXCEPT ![u] = [NewTab EXCEPT !.shows = "done", !.offer = tab[u].offer]]
  <2>1. tab' = Marked(tab[u].offer, tabs)
    BY <1>5 DEF Store
  <2>2. tabs[t] = tab[t]
    BY <1>1, <1>5
  <2> HIDE DEF tabs
  <2>3. QED
    BY <1>3, <2>1, <2>2
<1>6. ASSUME NEW u \in Tabs, index(u) \/ deck(u) PROVE FALSE
  <2>1. u # t
    BY <1>6 DEF index, deck
  <2>2. \E x : Show(u, x)
    BY <1>6 DEF index, deck
  <2>3. QED
    BY <1>2, <2>1, <2>2
<1>7. ASSUME NEW u \in Tabs, NEW act \in {"confirm", "discard"}, distillAction(u, act)
      PROVE  FALSE
  <2>1. u # t
    BY <1>7 DEF distillAction, OnDeck
  <2>2. Respond(u, "refused") \/ \E x : Show(u, x)
    BY <1>7 DEF distillAction
  <2>3. QED
    BY <1>2, <1>4, <2>1, <2>2
<1>8. ASSUME NEW u \in Tabs, distillEdit(u) \/ Reread(u) PROVE FALSE
  <2>1. u # t
    BY <1>8 DEF distillEdit, Reread, OnDeck
  <2>2. \E x : Show(u, x)
    BY <1>8 DEF distillEdit, Reread, Respond
  <2>3. QED
    BY <1>2, <2>1, <2>2
<1>9. ASSUME NEW u \in Tabs, RequestFails(u) PROVE FALSE
  BY <1>4, <1>9 DEF RequestFails
<1>10. ASSUME NEW u \in Tabs, ConfirmPut(u) \/ DiscardDelete(u) \/ EditPut(u), u # t
       PROVE  FALSE
  <2>1. Respond(u, "refused") \/ \E e : Store(u, e)
    BY <1>10 DEF ConfirmPut, DiscardDelete, EditPut
  <2>2. QED
    BY <1>4, <1>5, <1>10, <2>1
<1>11. ASSUME DiscardDelete(t), ledgerFiles[tab[t].offer] = NoCard PROVE FALSE
  BY <1>4, <1>11 DEF DiscardDelete
<1>12. ASSUME NEW i \in CardIds, Elsewhere(i) PROVE FALSE
  BY <1>3, <1>12 DEF Elsewhere
<1>13. ASSUME OpenElsewhere \/ LoseCache PROVE FALSE
  BY <1>13 DEF OpenElsewhere, LoseCache
<1>14. QED
  BY <1>6, <1>7, <1>8, <1>9, <1>10, <1>11, <1>12, <1>13 DEF WebNext

\* For any number of tabs and any changes under them, a form is refused only if
\* its entry has changed since the page was dealt, and a request changes the one
\* thing it was sent for, in the file as it is at that moment.
THEOREM OneThingAtATime == WebSpec => ActsAsClicked
<1> DEFINE Clicked(t) ==
             LET i == tab[t].offer
                 was == ledgerFiles[i]
                 writes == tab[t].at = "write" /\ tab'[t].at = "idle" /\ tab'[t].shows = "done"
             IN  /\ tab'[t].shows = "refused" => tab'[t].moved
                 /\ writes /\ ~tab[t].raced =>
                      CASE tab[t].act = "confirm" -> ledgerFiles'[i] = [was EXCEPT !.confirmed = TRUE]
                        [] tab[t].act = "edit" -> ledgerFiles'[i] = [was EXCEPT !.body = tab[t].text]
                        [] OTHER -> Awaiting(was)
           Acts == \A t \in Tabs : Clicked(t)
<1>1. WebInv /\ WebInv' /\ [WebNext]_webVars => [Acts]_webVars
  <2> SUFFICES ASSUME WebInv, WebInv', WebNext, NEW t \in Tabs PROVE Clicked(t)
    OBVIOUS
  <2>1. tab'[t].shows = "refused" => tab'[t].moved
    BY DEF WebInv, Sound
  <2>2. ASSUME tab[t].at = "write", tab'[t].at = "idle", tab'[t].shows = "done", ~tab[t].raced
        PROVE  CASE tab[t].act = "confirm" ->
                      ledgerFiles'[tab[t].offer] = [ledgerFiles[tab[t].offer] EXCEPT !.confirmed = TRUE]
                 [] tab[t].act = "edit" ->
                      ledgerFiles'[tab[t].offer] = [ledgerFiles[tab[t].offer] EXCEPT !.body = tab[t].text]
                 [] OTHER -> Awaiting(ledgerFiles[tab[t].offer])
    <3>1. /\ tab[t].offer \in CardIds /\ tab[t].read = ledgerFiles[tab[t].offer]
          /\ tab[t].act = "discard" => Awaiting(ledgerFiles[tab[t].offer])
          /\ ledgerFiles \in [CardIds -> Cards \cup {NoCard}]
      BY <2>2, WriteFacts DEF WebInv, WebTypeOK
    <3>2. CASE ConfirmPut(t)
      BY <3>1, <3>2 DEF ConfirmPut, Store
    <3>3. CASE EditPut(t)
      BY <3>1, <3>3 DEF EditPut, Store
    <3>4. CASE DiscardDelete(t)
      BY <3>1, <3>4 DEF DiscardDelete
    <3>5. QED
      BY <2>2, <3>2, <3>3, <3>4, OwnWrite
  <2>3. QED
    BY <2>1, <2>2
<1>2. QED
  BY <1>1, WebInvariance, PTL DEF WebSpec, ActsAsClicked
=============================================================================
