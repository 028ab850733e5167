----------------------------- MODULE LocalStore -----------------------------
(***************************************************************************)
(* ledger/local: ledger.Store over a directory, at the granularity of the  *)
(* system calls it makes.  A write goes to a temporary file first and is   *)
(* published by link (Create, exclusive) or rename (Put, replacing); a     *)
(* read holds an open file while the name it came from moves on.           *)
(*                                                                         *)
(* A file's content is a sequence of chunks, so that a reader can catch a  *)
(* file half written: v is stored as Chunks copies of v.                   *)
(***************************************************************************)
EXTENDS Naturals, Sequences, FiniteSets

CONSTANTS
    Procs,      \* processes using the ledger; nothing else coordinates them
    Ids,        \* entry ids
    Values,     \* entry contents
    Missing,    \* no file under this name
    Inodes,     \* file identities; reused once nothing refers to them
    Chunks      \* write calls that a whole file takes

ASSUME ChunksAssumption == Chunks \in Nat \ {0}
ASSUME InodesAssumption == Missing \notin Inodes \cup Values \cup Ids

VARIABLES
    dir,        \* dir[i]: the inode <i>.md names, or Missing
    data,       \* data[n]: the chunks written to inode n
    litter,     \* whether a .dira-*.tmp that no process owns lies in the directory
    proc        \* proc[p]: the operation p runs and its local variables

vars == <<dir, data, litter, proc>>

\* tmp: the inode .dira-*.tmp names.  fd: the inode being read.  buf: chunks
\* read.  names, infos: List's directory read, and its result.  steady: history,
\* the entries that were there without a break since the directory was read.
IdleProc == [op |-> "none", pc |-> "idle", id |-> Missing, val |-> Missing,
             tmp |-> Missing, fd |-> Missing, buf |-> <<>>, res |-> "none",
             got |-> Missing, names |-> {}, infos |-> {}, steady |-> {}]

Whole(v) == [c \in 1..Chunks |-> v]

Present == {i \in Ids : dir[i] # Missing}

InUse ==
    {dir[i] : i \in Present} \cup {proc[p].tmp : p \in Procs} \cup {proc[p].fd : p \in Procs}

Init ==
    /\ \E f \in [Ids -> Values \cup {Missing}], home \in [Ids -> Inodes] :
         /\ \A i, j \in Ids : home[i] = home[j] => i = j
         /\ dir = [i \in Ids |-> IF f[i] = Missing THEN Missing ELSE home[i]]
         /\ data = [n \in Inodes |->
                      IF \E i \in Present : dir[i] = n
                        THEN Whole(f[CHOOSE i \in Present : dir[i] = n]) ELSE <<>>]
    /\ litter = FALSE
    /\ proc = [p \in Procs |-> IdleProc]

(* An id that leaves the directory is no longer steady for anyone's List.  *)
Forget(q, i) == [q EXCEPT !.steady = @ \ {i}]

Set(p, q) == proc' = [proc EXCEPT ![p] = q]

(* The kernel frees a file when its last name and descriptor are gone.     *)
FreeUnused == data' = [n \in Inodes |-> IF n \in InUse' THEN data[n] ELSE <<>>]

At(p, o, c) == proc[p].op = o /\ proc[p].pc = c
Writing(p, c) == proc[p].op \in {"create", "put"} /\ proc[p].pc = c

\* With the outcome decided, the arguments do not matter any more.
Decided(q, c, r) == [q EXCEPT !.pc = c, !.res = r, !.id = Missing, !.val = Missing]
Done(q, r) == Decided(q, "return", r)

-----------------------------------------------------------------------------
(* Get: open, then read to the end.  The open file is what is read, even   *)
(* if its name has been given to another file since.                       *)

CallPoint(p) ==
    /\ proc[p] = IdleProc
    /\ \E o \in {"get", "create", "put", "delete"}, i \in Ids :
       \E v \in IF o \in {"create", "put"} THEN Values ELSE {Missing} :
         Set(p, [IdleProc EXCEPT !.op = o, !.pc = "start", !.id = i, !.val = v])
    /\ UNCHANGED <<dir, data, litter>>

Open(p) ==
    /\ At(p, "get", "start")
    /\ IF dir[proc[p].id] = Missing
         THEN Set(p, Done(proc[p], "ErrNotFound"))
         ELSE Set(p, [proc[p] EXCEPT !.pc = "read", !.fd = dir[proc[p].id], !.id = Missing])
    /\ UNCHANGED <<dir, data, litter>>

ReadChunk(p) ==
    /\ At(p, "get", "read")
    /\ Len(proc[p].buf) < Len(data[proc[p].fd])
    /\ Set(p, [proc[p] EXCEPT !.buf = Append(@, data[proc[p].fd][Len(@) + 1])])
    /\ UNCHANGED <<dir, data, litter>>

(* End of file.  A file that is not a whole entry does not decode.         *)
Decode(p) ==
    /\ At(p, "get", "read")
    /\ Len(proc[p].buf) = Len(data[proc[p].fd])
    /\ LET q == [proc[p] EXCEPT !.fd = Missing, !.buf = <<>>] IN
         IF \E v \in Values : proc[p].buf = Whole(v)
           THEN Set(p, [Done(q, "ok") EXCEPT !.got = proc[p].buf[1]])
           ELSE Set(p, Done(q, "malformed"))
    /\ UNCHANGED <<dir, litter>>
    /\ FreeUnused

-----------------------------------------------------------------------------
(* Create and Put share write(): they differ in the last step only.        *)

CreateTemp(p) ==
    /\ Writing(p, "start")
    /\ Inodes \ InUse # {}
    /\ LET n == CHOOSE n \in Inodes \ InUse : TRUE IN
         /\ data' = [data EXCEPT ![n] = <<>>]
         /\ Set(p, [proc[p] EXCEPT !.pc = "write", !.tmp = n])
    /\ UNCHANGED <<dir, litter>>

WriteChunk(p) ==
    /\ Writing(p, "write")
    /\ Len(data[proc[p].tmp]) < Chunks
    /\ data' = [data EXCEPT ![proc[p].tmp] = Append(@, proc[p].val)]
    /\ UNCHANGED <<dir, litter, proc>>

\* Faulty variant: published without waiting for the last of it to be written.
CloseEarly(p) ==
    /\ Writing(p, "write")
    /\ Set(p, [proc[p] EXCEPT !.pc = "publish"])
    /\ UNCHANGED <<dir, data, litter>>

CloseAndChmod(p) ==
    /\ Writing(p, "write")
    /\ Len(data[proc[p].tmp]) = Chunks
    /\ Set(p, [proc[p] EXCEPT !.pc = "publish"])
    /\ UNCHANGED <<dir, data, litter>>

\* Faulty variants: Create renames, as Put does; the temporary file is only
\* removed when the link was made.
LinkReplacing(p) ==
    /\ At(p, "create", "publish")
    /\ dir' = [dir EXCEPT ![proc[p].id] = proc[p].tmp]
    /\ Set(p, Decided(proc[p], "cleanup", "ok"))
    /\ UNCHANGED litter
    /\ FreeUnused

LinkLittering(p) ==
    /\ At(p, "create", "publish")
    /\ LET i == proc[p].id IN
         IF dir[i] = Missing
           THEN /\ dir' = [dir EXCEPT ![i] = proc[p].tmp]
                /\ Set(p, Decided(proc[p], "cleanup", "ok"))
           ELSE /\ Set(p, Done(proc[p], "ErrExists"))
                /\ UNCHANGED dir
    /\ UNCHANGED <<data, litter>>

(* os.Link fails rather than replaces: the one compare-and-swap there is.  *)
Link(p) ==
    /\ At(p, "create", "publish")
    /\ LET i == proc[p].id IN
         IF dir[i] = Missing
           THEN /\ dir' = [dir EXCEPT ![i] = proc[p].tmp]
                /\ Set(p, Decided(proc[p], "cleanup", "ok"))
           ELSE /\ Set(p, Decided(proc[p], "cleanup", "ErrExists"))
                /\ UNCHANGED dir
    /\ UNCHANGED <<data, litter>>

(* The temporary name goes with the rename; what the id named is dropped.  *)
Rename(p) ==
    /\ At(p, "put", "publish")
    /\ dir' = [dir EXCEPT ![proc[p].id] = proc[p].tmp]
    /\ Set(p, [Decided(proc[p], "cleanup", "ok") EXCEPT !.tmp = Missing])
    /\ UNCHANGED litter
    /\ FreeUnused

(* Any of CreateTemp, Write, Close, Chmod, Link and Rename may fail, with  *)
(* nothing published.                                                      *)
WriteFails(p) ==
    /\ proc[p].op \in {"create", "put"} /\ proc[p].pc \in {"start", "write", "publish"}
    /\ Set(p, Decided(proc[p], "cleanup", "error"))
    /\ UNCHANGED <<dir, data, litter>>

(* The deferred os.Remove(tmpName), on every way out.  Its error is        *)
(* discarded: a removal that fails leaves the name behind, for a Create    *)
(* beside the entry it linked, and the answer is what it was.              *)
CleanedUp(q) == [q EXCEPT !.pc = "return", !.tmp = Missing]

Cleanup(p) ==
    /\ Writing(p, "cleanup")
    /\ Set(p, CleanedUp(proc[p]))
    /\ UNCHANGED <<dir, litter>>
    /\ FreeUnused

CleanupFails(p) ==
    /\ Writing(p, "cleanup")
    /\ proc[p].tmp # Missing
    /\ Set(p, CleanedUp(proc[p]))
    /\ litter' = TRUE
    /\ UNCHANGED dir
    /\ FreeUnused

Remove(p) ==
    /\ At(p, "delete", "start")
    /\ LET i == proc[p].id IN
         IF dir[i] = Missing
           THEN Set(p, Done(proc[p], "ErrNotFound")) /\ UNCHANGED dir
           ELSE /\ dir' = [dir EXCEPT ![i] = Missing]
                /\ proc' = [q \in Procs |->
                              IF q = p THEN Done(proc[p], "ok") ELSE Forget(proc[q], i)]
    /\ UNCHANGED litter
    /\ FreeUnused

(* Reading, or removing, fails for another reason.                         *)
OtherFails(p) ==
    /\ \/ At(p, "get", "start") \/ At(p, "get", "read") \/ At(p, "delete", "start")
       \/ At(p, "list", "start") \/ At(p, "list", "hash")
    /\ Set(p, Done([proc[p] EXCEPT !.fd = Missing, !.buf = <<>>,
                                   !.names = {}, !.infos = {}, !.steady = {}], "error"))
    /\ UNCHANGED <<dir, litter>>
    /\ FreeUnused

-----------------------------------------------------------------------------
(* List: one directory read, then one file at a time; not a snapshot.      *)

CallList(p) ==
    /\ proc[p] = IdleProc
    /\ Set(p, [IdleProc EXCEPT !.op = "list", !.pc = "start"])
    /\ UNCHANGED <<dir, data, litter>>

(* Names that are not entry names, the temporary files, are skipped.       *)
ReadDir(p) ==
    /\ At(p, "list", "start")
    /\ Set(p, [proc[p] EXCEPT !.pc = "hash", !.names = Present, !.steady = Present])
    /\ UNCHANGED <<dir, data, litter>>

\* Faulty variant: the listing ends at the first file that has vanished.
HashUntilVanished(p) ==
    /\ At(p, "list", "hash")
    /\ \E i \in proc[p].names :
         Set(p, IF dir[i] = Missing THEN [proc[p] EXCEPT !.names = {}]
                ELSE [proc[p] EXCEPT !.names = @ \ {i},
                                     !.infos = @ \cup {<<i, data[dir[i]]>>}])
    /\ UNCHANGED <<dir, data, litter>>

(* The version is the hash of the content, here the content; a file that   *)
(* has been removed since the directory was read is left out.              *)
HashFile(p) ==
    /\ At(p, "list", "hash")
    /\ \E i \in proc[p].names :
         Set(p, [proc[p] EXCEPT
                   !.names = @ \ {i},
                   !.infos = IF dir[i] = Missing THEN @ ELSE @ \cup {<<i, data[dir[i]]>>}])
    /\ UNCHANGED <<dir, data, litter>>

ListReturns(p) ==
    /\ At(p, "list", "hash")
    /\ proc[p].names = {}
    /\ Set(p, Done(proc[p], "ok"))
    /\ UNCHANGED <<dir, data, litter>>

-----------------------------------------------------------------------------
Return(p) ==
    /\ proc[p].pc = "return"
    /\ litter' = (litter \/ proc[p].tmp # Missing)
    /\ Set(p, IdleProc)
    /\ UNCHANGED dir
    /\ FreeUnused

(* The process is killed; a temporary file it had stays behind.  The next  *)
(* process of the same name starts from nothing.                           *)
Crash(p) ==
    /\ proc[p].pc \notin {"idle", "return"}
    /\ litter' = (litter \/ proc[p].tmp # Missing)
    /\ Set(p, IdleProc)
    /\ UNCHANGED dir
    /\ FreeUnused

Step(p) ==
    \/ Open(p) \/ ReadChunk(p) \/ Decode(p)
    \/ CreateTemp(p) \/ WriteChunk(p) \/ CloseAndChmod(p) \/ Link(p) \/ Rename(p)
    \/ WriteFails(p) \/ Cleanup(p) \/ CleanupFails(p)
    \/ Remove(p) \/ OtherFails(p)
    \/ ReadDir(p) \/ HashFile(p) \/ ListReturns(p)
    \/ Return(p)

Next == \E p \in Procs : CallPoint(p) \/ CallList(p) \/ Step(p) \/ Crash(p)

Spec == Init /\ [][Next]_vars

-----------------------------------------------------------------------------
(* Properties.                                                             *)

(* "a concurrent reader sees either the old file or the new one and never  *)
(* a half-written one" (local.go:53-55), across crashes too: every entry   *)
(* file is whole, no Get fails to decode one, and no List hashes part of   *)
(* one.                                                                    *)
NeverHalfWritten ==
    /\ \A i \in Present : \E v \in Values : data[dir[i]] = Whole(v)
    /\ \A p \in Procs : proc[p].res # "malformed"
    /\ \A p \in Procs : \A f \in proc[p].infos : \E v \in Values : f[2] = Whole(v)

(* List tolerates files that vanish between its directory read and its     *)
(* reads of the files, and leaves out none that stayed (local.go:186-193). *)
ListMissesNothing ==
    \A p \in Procs :
        proc[p].op = "list" /\ proc[p].pc = "return" /\ proc[p].res = "ok" =>
            \A i \in proc[p].steady : \E f \in proc[p].infos : f[1] = i

(* "only a temporary file it then removes" (local.go:205-206): no way out  *)
(* of a write, with success or with any error, goes past the removal.  A   *)
(* temporary file is left by a process that was killed, or by one whose    *)
(* own removal failed at the end, and that changes nothing in its answer.  *)
Killed(p) == proc[p].pc # "return" /\ proc'[p] = IdleProc
TriedInVain(p) == Writing(p, "cleanup") /\ proc'[p] = CleanedUp(proc[p])

RemovalIsTried ==
    [][litter' # litter => \E p \in Procs : Killed(p) \/ TriedInVain(p)]_vars

(* What the directory holds, and what the caller of a point operation will *)
(* have of it: a file once opened will be read to its end.                 *)
IsWhole(s) == \E v \in Values : s = Whole(v)
EntryOf(s) == IF IsWhole(s) THEN s[1] ELSE Missing

Nobody == [op |-> "none", id |-> Missing, val |-> Missing, res |-> "none", got |-> Missing]

Seen(q, d) ==
    IF q.op \notin {"get", "create", "put", "delete"} THEN Nobody
    ELSE [op |-> q.op, id |-> q.id, val |-> q.val,
          res |-> IF q.op = "get" /\ q.pc = "read" THEN "ok" ELSE q.res,
          got |-> IF q.op = "get" /\ q.pc = "read" THEN EntryOf(d[q.fd]) ELSE q.got]

Stored == [i \in Ids |-> IF dir[i] = Missing THEN Missing ELSE EntryOf(data[dir[i]])]
Calls == [p \in Procs |-> Seen(proc[p], data)]

(* The contract of ledger.Store: link, rename, remove and open are the     *)
(* instants at which the operations take effect.                           *)
A == INSTANCE AtomicStore WITH store <- Stored, call <- Calls

ImplementsAtomicStore == A!Spec

=============================================================================
