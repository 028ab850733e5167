----------------------------- MODULE IndexSync -----------------------------
(***************************************************************************)
(* internal/index: the derived cache in .dira/cache/index.db, opened and   *)
(* reconciled with the entry files by every command that reads, in         *)
(* processes that share nothing else, while the files change.  It covers   *)
(* open, openCache, create, recreate, discard and sync; the queries that   *)
(* follow read the tables this leaves.                                     *)
(*                                                                         *)
(* A content stands for the bytes of an entry file and for their hash.     *)
(* List is one step: sync treats each id on its own, so only the order of  *)
(* reading, hashing and writing one id matters.                            *)
(***************************************************************************)
EXTENDS Naturals, FiniteSets

CONSTANTS
    Procs,        \* dira processes
    Ids,          \* entry ids
    Contents,     \* what an entry file may hold
    Unreadable,   \* the contents that do not parse
    Arity,        \* Arity[c]: how many edges the entry in c has
    Gens,         \* database files that can exist at one time
    None          \* no file, no row, no database

ASSUME ContentsAssumption == Unreadable \subseteq Contents /\ Arity \in [Contents -> Nat]
ASSUME GensAssumption == Procs \cap Gens = {} /\ None \notin Procs \cup Gens \cup Contents
ASSUME NoneAssumption ==      \* nor is it the tables of a database
    None \notin [schema : {"none", "tables", "ready", "old", "corrupt"},
                rows : [Ids -> Contents \cup {None}], edges : SUBSET (Ids \X Nat \X Contents)]

VARIABLES
    file,        \* file[i]: the content of the entry file of i, or None
    current,     \* the database index.db names, or None
    db,          \* db[g]: a database file; db[p]: the in-memory database of p
    proc,        \* proc[p]: where p is in Open, and its local variables
    overlapped   \* history: two Opens ran at the same time

vars == <<file, current, db, proc, overlapped>>

EdgeRows(i, c) == {<<i, seq, c>> : seq \in 1..Arity[c]}

\* rows[i]: the version of the row of i.  An edge row says which content it is from.
Empty == [schema |-> "none", rows |-> [i \in Ids |-> None], edges |-> {}]

\* h: the database in use.  todo: listed entries yet to be read.  got: the one just
\* read.  tx: the transaction's view of the tables, once it has written.  History:
\* steady, the files that did not change since this Open began; alone, whether it has
\* had the cache to itself; fresh, whether such an Open is a reindex.
IdleProc == [pc |-> "idle", fresh |-> FALSE, h |-> None, cached |-> Empty.rows,
             todo |-> {}, live |-> {}, got |-> None, tx |-> None,
             steady |-> {}, alone |-> FALSE]

(* The cache: none yet, one an earlier command left, one that another      *)
(* build left or one that is damaged.                                      *)
Init ==
    /\ file \in [Ids -> Contents \cup {None}]
    /\ \E g \in Gens, s \in {"none", "ready", "old", "corrupt"} :
       \E f \in [Ids -> (Contents \ Unreadable) \cup {None}] :
         /\ s # "ready" => f = Empty.rows
         /\ current = IF s = "none" THEN None ELSE g
         /\ db = [x \in Gens \cup Procs |->
                    IF x = current
                      THEN [schema |-> s, rows |-> f,
                            edges |-> UNION {EdgeRows(i, f[i]) : i \in {j \in Ids : f[j] # None}}]
                      ELSE Empty]
    /\ proc = [p \in Procs |-> IdleProc]
    /\ overlapped = FALSE

Opening(p) == proc[p].pc \notin {"idle", "answer"}

OnDisk(p) == proc[p].h \notin Procs

(* SQLite: at most one connection to a database writes, from its first     *)
(* write statement until it commits; the others wait for it.               *)
Locked(p) == \E q \in Procs \ {p} : proc[q].h = proc[p].h /\ proc[q].tx # None

\* A database file nothing refers to any more is gone.
Collect(d) ==
    db' = [x \in Gens \cup Procs |->
             IF x = current' \/ \E p \in Procs : proc'[p].h = x THEN d[x] ELSE Empty]

Set(p, q) == proc' = [proc EXCEPT ![p] = q]

(* The cache would not take it: the same sync over a private database.     *)
Degrade(p) ==
    /\ Set(p, [proc[p] EXCEPT !.pc = "cached", !.h = p, !.cached = Empty.rows,
                              !.todo = {}, !.live = {}, !.got = None, !.tx = None,
                              !.alone = FALSE, !.fresh = FALSE])
    /\ UNCHANGED <<file, current, overlapped>>
    /\ Collect([db EXCEPT ![p] = [Empty EXCEPT !.schema = "ready"]])

-----------------------------------------------------------------------------
(* openCache                                                               *)

\* Open, or OpenFresh for dira reindex.
Start(p) ==
    /\ proc[p] = IdleProc
    /\ \E fresh \in BOOLEAN :
         proc' = [q \in Procs |->
                    IF q = p THEN [IdleProc EXCEPT !.pc = IF fresh THEN "discard" ELSE "attach",
                                     !.steady = Ids,
                                     !.alone = \A r \in Procs : ~Opening(r),
                                     !.fresh = fresh /\ \A r \in Procs : ~Opening(r)]
                    ELSE [proc[q] EXCEPT !.alone = FALSE, !.fresh = FALSE]]
    /\ overlapped' = (overlapped \/ \E q \in Procs : Opening(q))
    /\ UNCHANGED <<file, current, db>>

Discard(p) ==
    /\ proc[p].pc = "discard"
    /\ current' = None
    /\ Set(p, [proc[p] EXCEPT !.pc = "attach"])
    /\ Collect(db)
    /\ UNCHANGED <<file, overlapped>>

(* Opens the database, a new one if there is none, and reads its version.  *)
(* One that cannot be opened is discarded.                                 *)
Attach(p) ==
    /\ proc[p].pc = "attach"
    /\ IF current = None
         THEN \E g \in Gens :
                /\ \A q \in Procs : proc[q].h # g
                /\ current' = g
                /\ Set(p, [proc[p] EXCEPT !.pc = "create", !.h = g])
         ELSE /\ Set(p, CASE db[current].schema = "corrupt" -> [proc[p] EXCEPT !.pc = "discard"]
                          [] db[current].schema = "ready" -> [proc[p] EXCEPT !.pc = "cached", !.h = current]
                          [] db[current].schema = "old" -> [proc[p] EXCEPT !.pc = "recreate", !.h = current]
                          [] OTHER -> [proc[p] EXCEPT !.pc = "create", !.h = current])
              /\ UNCHANGED current
    /\ UNCHANGED <<file, db, overlapped>>

(* Whatever the tables are by now, they are dropped.                       *)
Recreate(p) ==
    /\ proc[p].pc = "recreate"
    /\ ~Locked(p)
    /\ db' = [db EXCEPT ![proc[p].h] = Empty]
    /\ Set(p, [proc[p] EXCEPT !.pc = "create"])
    /\ UNCHANGED <<file, current, overlapped>>

(* CREATE TABLE without IF NOT EXISTS, outside a transaction: a second     *)
(* creator fails, and a creator that dies before the next step leaves a    *)
(* database that every later creator fails on.                             *)
CreateTables(p) ==
    /\ proc[p].pc = "create"
    /\ IF db[proc[p].h].schema = "none"
         THEN /\ db' = [db EXCEPT ![proc[p].h].schema = "tables"]
              /\ Set(p, [proc[p] EXCEPT !.pc = "version"])
              /\ UNCHANGED <<file, current, overlapped>>
         ELSE Degrade(p)

InsertVersion(p) ==
    /\ proc[p].pc = "version"
    /\ IF db[proc[p].h].schema = "tables"
         THEN /\ db' = [db EXCEPT ![proc[p].h].schema = "ready"]
              /\ Set(p, [proc[p] EXCEPT !.pc = "cached"])
              /\ UNCHANGED <<file, current, overlapped>>
         ELSE Degrade(p)

-----------------------------------------------------------------------------
(* sync                                                                    *)

(* Read before the transaction, and not read again in it.                  *)
CachedVersions(p) ==
    /\ proc[p].pc = "cached"
    /\ IF db[proc[p].h].schema = "none" THEN Degrade(p)
         ELSE /\ Set(p, [proc[p] EXCEPT !.pc = "list", !.cached = db[proc[p].h].rows])
              /\ UNCHANGED <<file, current, db, overlapped>>

(* An entry whose row already carries the listed version is left alone.    *)
List(p) ==
    /\ proc[p].pc = "list"
    /\ LET listed == {i \in Ids : file[i] # None} IN
         Set(p, [proc[p] EXCEPT !.pc = "entries", !.live = listed,
                   !.todo = {i \in listed : file[i] # proc[p].cached[i]}])
    /\ UNCHANGED <<file, current, db, overlapped>>

\* The ledger itself cannot be read: Open fails.
ListFails(p) ==
    /\ proc[p].pc = "list"
    /\ Set(p, IdleProc)
    /\ UNCHANGED <<file, current, overlapped>>
    /\ Collect(db)

GetEntry(p) ==
    /\ proc[p].pc = "entries"
    /\ \E i \in proc[p].todo :
         Set(p, [proc[p] EXCEPT !.pc = "row", !.todo = @ \ {i}, !.got = <<i, file[i]>>])
    /\ UNCHANGED <<file, current, db, overlapped>>

\* The tables as the transaction sees them, and the tables without entry i.
Tables(p) == IF proc[p].tx = None THEN db[proc[p].h] ELSE proc[p].tx

NoEdgesOf(d, i) == [d EXCEPT !.edges = {e \in @ : e[1] # i}]
NoRowOf(d, i) == [NoEdgesOf(d, i) EXCEPT !.rows[i] = None]

\* Faulty variant: the edges an entry had are cleared after its new ones are put.
PutRowClearingLast(d, i, c, known) ==
    LET put == [d EXCEPT !.rows[i] = c, !.edges = @ \cup EdgeRows(i, c)] IN
    IF known THEN NoEdgesOf(put, i) ELSE put

(* The row gets the version of the bytes that were parsed.  The edges an   *)
(* entry had are cleared only if cachedVersions knew of it.                *)
PutRow(d, i, c, known) ==
    LET cleared == IF known THEN NoEdgesOf(d, i) ELSE d IN
    [cleared EXCEPT !.rows[i] = c, !.edges = @ \cup EdgeRows(i, c)]

\* Edges not cleared have the keys, src and seq, that new ones need.
Collides(d, i, c, known) == ~known /\ \E e \in d.edges : e[1] = i /\ e[2] \in 1..Arity[c]

WriteRow(p) ==
    /\ proc[p].pc = "row"
    /\ ~Locked(p)
    /\ LET i == proc[p].got[1]
           c == proc[p].got[2]
           known == proc[p].cached[i] # None
           parsed == c \notin Unreadable \cup {None}
           back == [proc[p] EXCEPT !.pc = "entries", !.got = None]
       IN IF Tables(p).schema = "none" \/ (parsed /\ Collides(Tables(p), i, c, known))
            THEN Degrade(p)
            ELSE /\ Set(p, IF parsed THEN [back EXCEPT !.tx = PutRow(Tables(p), i, c, known)]
                           ELSE [back EXCEPT !.tx = NoRowOf(Tables(p), i),
                                             !.live = IF c = None THEN @ \ {i} ELSE @])
                 /\ UNCHANGED <<file, current, db, overlapped>>

\* Faulty variant: rows of removed entries stay.
StaleNone(q) == {}

(* Rows of entries the ledger no longer has.                               *)
Stale(q) == {i \in Ids : q.cached[i] # None /\ i \notin q.live}

(* They go, and all of it is committed; what SQLite was given no statement *)
(* for needs no lock.                                                      *)
Commit(p) ==
    /\ proc[p].pc = "entries"
    /\ proc[p].todo = {}
    /\ LET stale == Stale(proc[p])
           d == [Tables(p) EXCEPT !.rows = [i \in Ids |-> IF i \in stale THEN None ELSE @[i]],
                                  !.edges = {e \in @ : e[1] \notin stale}]
       IN /\ stale # {} => ~Locked(p)
          /\ IF stale # {} /\ d.schema = "none" THEN Degrade(p)
             ELSE /\ db' = IF stale = {} /\ proc[p].tx = None THEN db
                           ELSE [db EXCEPT ![proc[p].h] = d]
                  /\ Set(p, [proc[p] EXCEPT !.pc = "answer", !.cached = Empty.rows,
                                            !.live = {}, !.tx = None])
                  /\ UNCHANGED <<file, current, overlapped>>

-----------------------------------------------------------------------------
\* Faulty variant: no busy timeout is set, and a writer is waited for.
BusyForever(p) == FALSE

\* The busy timeout has run out, waiting for a writer.
BusyTimeout(p) ==
    /\ proc[p].pc \in {"recreate", "create", "version", "row", "entries"}
    /\ Locked(p)
    /\ Degrade(p)

\* No permission, disk full, damaged: any use of the cache may fail.
CacheFails(p) ==
    /\ Opening(p) /\ OnDisk(p)
    /\ Degrade(p)

(* The command is over, or killed; SQLite rolls an open transaction back.  *)
Exit(p) ==
    /\ proc[p].pc # "idle"
    /\ Set(p, IdleProc)
    /\ UNCHANGED <<file, current, overlapped>>
    /\ Collect(db)

\* Somebody writes or removes an entry file.
Edit(i) ==
    /\ \E c \in Contents \cup {None} : c # file[i] /\ file' = [file EXCEPT ![i] = c]
    /\ proc' = [p \in Procs |-> [proc[p] EXCEPT !.steady = @ \ {i}]]
    /\ UNCHANGED <<current, db, overlapped>>

\* rm -r .dira/cache
RemoveCache ==
    /\ current # None
    /\ current' = None
    /\ UNCHANGED <<file, proc, overlapped>>
    /\ Collect(db)

Step(p) ==
    \/ Discard(p) \/ Attach(p) \/ Recreate(p) \/ CreateTables(p) \/ InsertVersion(p)
    \/ CachedVersions(p) \/ List(p) \/ ListFails(p) \/ GetEntry(p) \/ WriteRow(p) \/ Commit(p)
    \/ BusyTimeout(p)

Next ==
    \/ \E p \in Procs : Start(p) \/ Step(p) \/ CacheFails(p) \/ Exit(p)
    \/ \E i \in Ids : Edit(i)
    \/ RemoveCache

Spec == Init /\ [][Next]_vars

(* The scheduler runs a process that can run, and a wait for a writer ends *)
(* with the busy timeout at the latest.                                    *)
FairSpec == Spec /\ \A p \in Procs : WF_vars(Step(p))

-----------------------------------------------------------------------------
(* Properties.                                                             *)

\* d says of entry i what the file says, with its edges and no others.
Agrees(d, i) ==
    IF file[i] \in Unreadable \cup {None}
      THEN d.rows[i] = None /\ \A e \in d.edges : e[1] # i
      ELSE d.rows[i] = file[i] /\ {e \in d.edges : e[1] = i} = EdgeRows(i, file[i])

(* No query runs against a row that does not match its file                *)
(* (index.go:18-24): once Open has returned, the tables agree with every   *)
(* entry file that was not changed meanwhile; for an in-memory database in *)
(* any case, for the cache file as long as no two Opens overlapped.        *)
(* Whatever overlapping Opens, crashes and deletions did before, an Open   *)
(* that has the cache to itself leaves every version right, and a reindex  *)
(* every row and edge (reindex.go:16-23).                                  *)
OpenReconciles ==
    \A p \in Procs : proc[p].pc = "answer" => \A i \in proc[p].steady :
        /\ ~OnDisk(p) \/ ~overlapped \/ (proc[p].alone /\ proc[p].fresh) => Agrees(db[proc[p].h], i)
        /\ proc[p].alone =>
              db[proc[p].h].rows[i] = IF file[i] \in Unreadable THEN None ELSE file[i]

(* A reader of the cache never finds an entry without the edges of its     *)
(* version, nor edges of an entry that has no row, however Opens overlap   *)
(* and wherever a process dies.                                            *)
NoEdgeLost ==
    \A x \in Gens \cup Procs :
        /\ \A i \in Ids : db[x].rows[i] # None => EdgeRows(i, db[x].rows[i]) \subseteq db[x].edges
        /\ \A e \in db[x].edges : db[x].rows[e[1]] # None

(* An Open returns, however long another process holds the cache: it waits *)
(* no longer than the busy timeout.                                        *)
OpenReturns == \A p \in Procs : Opening(p) ~> ~Opening(p)

(* Claimed without a condition on who else runs: "several dira processes   *)
(* over the same cache are safe" (index.go:81-82) and "if the cache and    *)
(* the files ever disagree, the files win" (index.go:7-8).  What an        *)
(* overlap leaves behind must then be put right by the next Open.          *)
FilesWin ==
    \A p \in Procs : proc[p].pc = "answer" /\ proc[p].alone =>
        \A i \in proc[p].steady : Agrees(db[proc[p].h], i)
=============================================================================
