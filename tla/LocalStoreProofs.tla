--------------------------- MODULE LocalStoreProofs ---------------------------
(***************************************************************************)
(* Proofs about LocalStore, for any number of processes, ids, contents,    *)
(* inodes and chunks: entry files are always whole, a listing misses       *)
(* nothing that stayed, no way out of a write goes past the removal of its *)
(* temporary file, and the point operations implement AtomicStore.         *)
(***************************************************************************)
EXTENDS LocalStore, TLAPS

(* What the variables range over.                                          *)
Operations == {"none", "get", "create", "put", "delete", "list"}
Places == {"idle", "start", "read", "write", "publish", "cleanup", "hash", "return"}
Results == {"none", "ok", "error", "ErrExists", "ErrNotFound", "malformed"}

Locals ==
    [op : Operations, pc : Places, id : Ids \cup {Missing}, val : Values \cup {Missing},
     tmp : Inodes \cup {Missing}, fd : Inodes \cup {Missing}, buf : Seq(Values),
     res : Results, got : Values \cup {Missing}, names : SUBSET Ids,
     infos : SUBSET (Ids \X Seq(Values)), steady : SUBSET Ids]

TypeOK ==
    /\ dir \in [Ids -> Inodes \cup {Missing}]
    /\ data \in [Inodes -> Seq(Values)]
    /\ litter \in BOOLEAN
    /\ proc \in [Procs -> Locals]

(* Where an operation can be.                                              *)
Course(q) ==
    /\ q.pc = "idle" <=> q.op = "none"
    /\ q.pc = "idle" => q = IdleProc
    /\ q.op = "get" => q.pc \in {"start", "read", "return"}
    /\ q.op \in {"create", "put"} => q.pc \in {"start", "write", "publish", "cleanup", "return"}
    /\ q.op = "delete" => q.pc \in {"start", "return"}
    /\ q.op = "list" => q.pc \in {"start", "hash", "return"}

(* What it holds there.                                                    *)
Held(q) ==
    /\ q.op # "list" /\ q.pc \in {"start", "write", "publish"} => q.id \in Ids
    /\ q.op \in {"create", "put"} /\ q.pc \in {"start", "write", "publish"} => q.val \in Values
    /\ q.pc \in {"start", "read", "write", "publish", "hash"} => q.res = "none" /\ q.got = Missing
    /\ q.pc \in {"read", "cleanup", "return"} \/ q.op = "list" => q.id = Missing /\ q.val = Missing
    /\ q.op \in {"get", "delete"} => q.val = Missing
    /\ q.op # "get" => q.got = Missing
    /\ q.res # "malformed"
    /\ q.pc = "read" <=> q.fd # Missing
    /\ q.pc # "read" => q.buf = <<>>
    /\ q.pc \in {"write", "publish"} => q.tmp # Missing
    /\ q.tmp # Missing => q.pc \in {"write", "publish", "cleanup"}

(* A reader has the beginning of a whole file.                             *)
Reads(q, d) ==
    q.pc = "read" =>
        \E v \in Values :
            d[q.fd] = Whole(v) /\ Len(q.buf) <= Chunks /\ \A k \in 1..Len(q.buf) : q.buf[k] = v

(* A writer's temporary file has the beginning, then all of its content.   *)
Writes(q, d) ==
    /\ q.pc = "write" => Len(d[q.tmp]) <= Chunks /\ \A k \in 1..Len(d[q.tmp]) : d[q.tmp][k] = q.val
    /\ q.pc = "publish" => d[q.tmp] = Whole(q.val)

(* A listing has accounted for every name that stayed, or has it to come.  *)
Lists(q, names) ==
    /\ \A f \in q.infos : IsWhole(f[2])
    /\ q.op = "list" /\ q.pc \in {"hash", "return"} =>
          \A i \in q.steady : i \in q.names \/ \E f \in q.infos : f[1] = i
    /\ q.pc = "hash" => q.steady \subseteq names
    /\ q.op = "list" /\ q.pc = "return" /\ q.res = "ok" => q.names = {}

Good(q, names, d) ==
    q \in Locals /\ Course(q) /\ Held(q) /\ Reads(q, d) /\ Writes(q, d) /\ Lists(q, names)

Published == \A i \in Present : IsWhole(data[dir[i]])

(* A temporary file that is still written belongs to its writer alone.     *)
Unpublished(p) == proc[p].pc \in {"write", "publish"}

Exclusive ==
    \A p \in Procs : Unpublished(p) =>
        /\ \A i \in Ids : dir[i] # proc[p].tmp
        /\ \A q \in Procs : proc[q].fd # proc[p].tmp
        /\ \A q \in Procs \ {p} : proc[q].tmp # proc[p].tmp

IInv ==
    /\ TypeOK
    /\ \A p \in Procs : Good(proc[p], Present, data)
    /\ Published
    /\ Exclusive

-----------------------------------------------------------------------------
(* Whole files.                                                            *)

LEMMA WholeFacts ==
  ASSUME NEW v \in Values
  PROVE  /\ Whole(v) \in Seq(Values) /\ Len(Whole(v)) = Chunks
         /\ \A c \in 1..Chunks : Whole(v)[c] = v
         /\ Whole(v)[1] = v
BY ChunksAssumption DEF Whole

LEMMA SameWhole ==
  ASSUME NEW s \in Seq(Values), NEW v \in Values, Len(s) = Chunks,
         \A k \in 1..Len(s) : s[k] = v
  PROVE  s = Whole(v)
BY ChunksAssumption DEF Whole

-----------------------------------------------------------------------------
(* A process between two operations, and one whose operation is decided.   *)

LEMMA IdleGood == ASSUME NEW S, NEW d PROVE Good(IdleProc, S, d)
<1>1. IdleProc \in Locals
  <2>1. <<>> \in Seq(Values)
    OBVIOUS
  <2>2. QED
    BY <2>1 DEF IdleProc, Locals, Operations, Places, Results
<1>2. Course(IdleProc)
  BY DEF Course, IdleProc
<1>3. Held(IdleProc)
  BY DEF Held, IdleProc
<1>4. Reads(IdleProc, d) /\ Writes(IdleProc, d) /\ Lists(IdleProc, S)
  BY DEF Reads, Writes, Lists, IdleProc
<1>5. QED
  BY <1>1, <1>2, <1>3, <1>4 DEF Good

LEMMA DecidedFields ==
  ASSUME NEW q \in Locals, NEW c \in Places, NEW r \in Results
  PROVE  LET z == Decided(q, c, r) IN
         /\ z \in Locals
         /\ z.op = q.op /\ z.pc = c /\ z.id = Missing /\ z.val = Missing
         /\ z.tmp = q.tmp /\ z.fd = q.fd /\ z.buf = q.buf /\ z.res = r /\ z.got = q.got
         /\ z.names = q.names /\ z.infos = q.infos /\ z.steady = q.steady
BY DEF Decided, Locals

LEMMA DoneFields ==
  ASSUME NEW q \in Locals, NEW r \in Results
  PROVE  LET z == Done(q, r) IN
         /\ z \in Locals
         /\ z.op = q.op /\ z.pc = "return" /\ z.id = Missing /\ z.val = Missing
         /\ z.tmp = q.tmp /\ z.fd = q.fd /\ z.buf = q.buf /\ z.res = r /\ z.got = q.got
         /\ z.names = q.names /\ z.infos = q.infos /\ z.steady = q.steady
BY DecidedFields DEF Done, Places

LEMMA InitInvariant == Init => IInv
<1> SUFFICES ASSUME Init PROVE IInv
  OBVIOUS
<1>1. PICK f \in [Ids -> Values \cup {Missing}], home \in [Ids -> Inodes] :
        /\ \A i, j \in Ids : home[i] = home[j] => i = j
        /\ dir = [i \in Ids |-> IF f[i] = Missing THEN Missing ELSE home[i]]
        /\ data = [n \in Inodes |->
                     IF \E i \in Present : dir[i] = n
                       THEN Whole(f[CHOOSE i \in Present : dir[i] = n]) ELSE <<>>]
  BY DEF Init
<1>2. litter = FALSE /\ proc = [p \in Procs |-> IdleProc]
  BY DEF Init
<1>3. dir \in [Ids -> Inodes \cup {Missing}] /\ \A i \in Ids : dir[i] # Missing <=> f[i] # Missing
  BY <1>1, InodesAssumption
<1>4. ASSUME NEW n \in Inodes, \E i \in Present : dir[i] = n
      PROVE  \E v \in Values : data[n] = Whole(v)
  <2>1. (CHOOSE i \in Present : dir[i] = n) \in Present
    BY <1>4
  <2>2. f[CHOOSE i \in Present : dir[i] = n] \in Values
    BY <1>3, <2>1 DEF Present
  <2>3. QED
    BY <1>1, <1>4, <2>2
<1>5. TypeOK
  <2>1. ASSUME NEW n \in Inodes PROVE data[n] \in Seq(Values)
    <3>1. CASE \E i \in Present : dir[i] = n
      BY <1>4, <3>1, WholeFacts
    <3>2. CASE ~ \E i \in Present : dir[i] = n
      BY <1>1, <3>2
    <3>3. QED
      BY <3>1, <3>2
  <2>2. data \in [Inodes -> Seq(Values)]
    BY <1>1, <2>1
  <2>3. IdleProc \in Locals
    BY IdleGood DEF Good
  <2>4. QED
    BY <1>2, <1>3, <2>2, <2>3 DEF TypeOK
<1>6. Published
  BY <1>3, <1>4 DEF Published, IsWhole, Present
<1>7. \A p \in Procs : proc[p] = IdleProc
  BY <1>2
<1>8. Exclusive
  BY <1>7 DEF Exclusive, Unpublished, IdleProc
<1>9. QED
  BY <1>5, <1>6, <1>7, <1>8, IdleGood DEF IInv
-----------------------------------------------------------------------------
(* What one process's step leaves as it was.                               *)

LEMMA SetFrame ==
  ASSUME TypeOK, NEW p \in Procs, NEW q \in Locals, Set(p, q)
  PROVE  /\ proc' \in [Procs -> Locals] /\ proc'[p] = q
         /\ \A r \in Procs \ {p} : proc'[r] = proc[r]
BY DEF TypeOK, Set

LEMMA FreeFrame ==
  ASSUME TypeOK, FreeUnused
  PROVE  /\ data' \in [Inodes -> Seq(Values)]
         /\ \A n \in Inodes : n \in InUse' => data'[n] = data[n]
<1>1. \A n \in Inodes : data'[n] = IF n \in InUse' THEN data[n] ELSE <<>>
  BY DEF FreeUnused
<1>2. ASSUME NEW n \in Inodes PROVE data'[n] \in Seq(Values)
  <2>1. data[n] \in Seq(Values) /\ <<>> \in Seq(Values)
    BY DEF TypeOK
  <2>2. data'[n] = data[n] \/ data'[n] = <<>>
    BY <1>1
  <2>3. QED
    BY <2>1, <2>2
<1>3. QED
  BY <1>1, <1>2 DEF FreeUnused

\* The files a process has open stay as they are.
Keeps(q) ==
    /\ q.fd # Missing => data'[q.fd] = data[q.fd]
    /\ q.tmp # Missing => data'[q.tmp] = data[q.tmp]

LEMMA StaysGood ==
  ASSUME NEW q, NEW S, NEW T, Good(q, S, data), S \subseteq T, Keeps(q)
  PROVE  Good(q, T, data')
<1>1. Reads(q, data')
  BY DEF Good, Held, Reads, Keeps
<1>2. Writes(q, data')
  BY DEF Good, Held, Writes, Keeps
<1>3. Lists(q, T)
  BY DEF Good, Lists
<1>4. QED
  BY <1>1, <1>2, <1>3 DEF Good

(* A step that publishes nothing, and creates and writes no file.          *)
LEMMA Unmoved ==
  ASSUME IInv, NEW p \in Procs, NEW q, Set(p, q), Good(q, Present, data),
         dir' = dir, litter' \in BOOLEAN, data' = data \/ FreeUnused,
         q.tmp \in {proc[p].tmp, Missing},
         q.fd \in {proc[p].fd, Missing} \cup {dir[i] : i \in Ids},
         q.pc \in {"write", "publish"} => Unpublished(p) /\ q.tmp = proc[p].tmp
  PROVE  IInv'
<1>1. q \in Locals /\ TypeOK
  BY DEF Good, IInv
<1>2. /\ proc' \in [Procs -> Locals] /\ proc'[p] = q
      /\ \A r \in Procs \ {p} : proc'[r] = proc[r]
  BY <1>1, SetFrame
<1>3. Present' = Present
  BY DEF Present
<1>4. /\ data' \in [Inodes -> Seq(Values)]
      /\ \A n \in Inodes : n \in InUse' => data'[n] = data[n]
  BY <1>1, FreeFrame DEF TypeOK
<1>5. /\ \A i \in Present : dir[i] \in Inodes /\ dir[i] \in InUse'
      /\ \A r \in Procs : proc'[r].tmp \in InUse' /\ proc'[r].fd \in InUse'
  BY <1>1, <1>3 DEF InUse, Present, TypeOK
<1>6. \A r \in Procs : Keeps(proc'[r])
  BY <1>2, <1>4, <1>5 DEF Keeps, Locals
<1>7. \A r \in Procs : Good(proc'[r], Present', data')
  <2>1. \A r \in Procs : Good(proc'[r], Present, data)
    BY <1>2 DEF IInv
  <2>2. QED
    BY <1>3, <1>6, <2>1, StaysGood
<1>8. Published'
  BY <1>3, <1>4, <1>5 DEF IInv, Published
<1>9. Exclusive'
  <2> SUFFICES ASSUME NEW a \in Procs, Unpublished(a)'
               PROVE  /\ \A i \in Ids : dir[i] # proc'[a].tmp
                      /\ \A r \in Procs : proc'[r].fd # proc'[a].tmp
                      /\ \A r \in Procs \ {a} : proc'[r].tmp # proc'[a].tmp
    BY DEF Exclusive
  <2>1. Unpublished(a) /\ proc'[a].tmp = proc[a].tmp
    BY <1>2 DEF Unpublished
  <2>2. proc[a].tmp # Missing
    BY <2>1 DEF IInv, Good, Held, Unpublished
  <2>3. /\ \A i \in Ids : dir[i] # proc[a].tmp
        /\ \A r \in Procs : proc[r].fd # proc[a].tmp
        /\ \A r \in Procs \ {a} : proc[r].tmp # proc[a].tmp
    BY <2>1 DEF IInv, Exclusive
  <2>4. QED
    BY <1>2, <2>1, <2>2, <2>3
<1>10. QED
  BY <1>1, <1>2, <1>4, <1>7, <1>8, <1>9 DEF IInv, TypeOK

-----------------------------------------------------------------------------
(* One lemma per action.                                                   *)

LEMMA CallStep ==
  ASSUME IInv, NEW p \in Procs, CallPoint(p) \/ CallList(p) PROVE IInv'
<1>1. CASE CallPoint(p)
  <2>1. PICK o \in {"get", "create", "put", "delete"}, i \in Ids :
          \E v \in IF o \in {"create", "put"} THEN Values ELSE {Missing} :
            Set(p, [IdleProc EXCEPT !.op = o, !.pc = "start", !.id = i, !.val = v])
    BY <1>1 DEF CallPoint
  <2>2. PICK v \in IF o \in {"create", "put"} THEN Values ELSE {Missing} :
          Set(p, [IdleProc EXCEPT !.op = o, !.pc = "start", !.id = i, !.val = v])
    BY <2>1
  <2> DEFINE q == [IdleProc EXCEPT !.op = o, !.pc = "start", !.id = i, !.val = v]
  <2>3. /\ q.op = o /\ q.pc = "start" /\ q.id = i /\ q.val = v /\ q.tmp = Missing
        /\ q.fd = Missing /\ q.buf = <<>> /\ q.res = "none" /\ q.got = Missing
        /\ q.names = {} /\ q.infos = {} /\ q.steady = {}
    BY DEF IdleProc
  <2>4. v \in Values \cup {Missing}
    OBVIOUS
  <2>5. q \in Locals
    BY <2>4, IdleGood DEF Good, Locals, Operations, Places, Results
  <2>6. Good(q, Present, data)
    BY <2>3, <2>5 DEF Good, Course, Held, Reads, Writes, Lists
  <2>7. UNCHANGED <<dir, data, litter>> /\ litter \in BOOLEAN
    BY <1>1 DEF CallPoint, IInv, TypeOK
  <2> HIDE DEF q
  <2>8. QED
    BY <2>2, <2>3, <2>6, <2>7, Unmoved DEF q
<1>2. CASE CallList(p)
  <2> DEFINE q == [IdleProc EXCEPT !.op = "list", !.pc = "start"]
  <2>1. /\ q.op = "list" /\ q.pc = "start" /\ q.id = Missing /\ q.val = Missing /\ q.tmp = Missing
        /\ q.fd = Missing /\ q.buf = <<>> /\ q.res = "none" /\ q.got = Missing
        /\ q.names = {} /\ q.infos = {} /\ q.steady = {}
    BY DEF IdleProc
  <2>2. q \in Locals
    BY IdleGood DEF Good, Locals, Operations, Places, Results
  <2>3. Good(q, Present, data)
    BY <2>1, <2>2 DEF Good, Course, Held, Reads, Writes, Lists
  <2>4. Set(p, q) /\ UNCHANGED <<dir, data, litter>>
    BY <1>2 DEF CallList
  <2>5. QED
    BY <2>1, <2>3, <2>4, Unmoved DEF IInv, TypeOK
<1>3. QED
  BY <1>1, <1>2

LEMMA OpenStep == ASSUME IInv, NEW p \in Procs, Open(p) PROVE IInv'
<1>1. /\ proc[p].op = "get" /\ proc[p].pc = "start" /\ UNCHANGED <<dir, data, litter>>
      /\ litter \in BOOLEAN
  BY DEF Open, At, IInv, TypeOK
<1>2. /\ Good(proc[p], Present, data) /\ proc[p].id \in Ids /\ proc[p].val = Missing
      /\ proc[p].res = "none" /\ proc[p].got = Missing /\ proc[p].fd = Missing
      /\ proc[p].tmp = Missing /\ proc[p].buf = <<>>
  BY <1>1 DEF IInv, Good, Held
<1>3. CASE dir[proc[p].id] = Missing
  <2> DEFINE q == Done(proc[p], "ErrNotFound")
  <2>1. /\ q \in Locals /\ q.op = "get" /\ q.pc = "return" /\ q.id = Missing /\ q.val = Missing
        /\ q.tmp = Missing /\ q.fd = Missing /\ q.buf = <<>> /\ q.res = "ErrNotFound"
        /\ q.got = Missing /\ q.infos = proc[p].infos
    BY <1>1, <1>2, DecidedFields DEF Good, Done, Places, Results
  <2>2. Good(q, Present, data)
    BY <1>2, <2>1 DEF Good, Course, Held, Reads, Writes, Lists
  <2>3. Set(p, q)
    BY <1>3 DEF Open
  <2>4. QED
    BY <1>1, <2>1, <2>2, <2>3, Unmoved
<1>4. CASE dir[proc[p].id] # Missing
  <2> DEFINE q == [proc[p] EXCEPT !.pc = "read", !.fd = dir[proc[p].id], !.id = Missing]
  <2>1. dir[proc[p].id] \in Inodes /\ proc[p].id \in Present
    BY <1>2, <1>4 DEF IInv, TypeOK, Present
  <2>2. /\ q \in Locals /\ q.op = "get" /\ q.pc = "read" /\ q.id = Missing /\ q.val = Missing
        /\ q.tmp = Missing /\ q.fd = dir[proc[p].id] /\ q.buf = <<>> /\ q.res = "none"
        /\ q.got = Missing /\ q.infos = proc[p].infos
    BY <1>1, <1>2, <2>1 DEF Good, Locals, Places
  <2>3. Reads(q, data)
    BY <2>1, <2>2, ChunksAssumption DEF Reads, IInv, Published, IsWhole
  <2>4. Good(q, Present, data)
    BY <1>2, <2>1, <2>2, <2>3, InodesAssumption DEF Good, Course, Held, Writes, Lists
  <2>5. Set(p, q)
    BY <1>4 DEF Open
  <2>6. QED
    BY <1>1, <1>2, <2>2, <2>4, <2>5, Unmoved
<1>5. QED
  BY <1>3, <1>4

LEMMA ReadChunkStep == ASSUME IInv, NEW p \in Procs, ReadChunk(p) PROVE IInv'
<1> DEFINE old == proc[p]
           next == data[old.fd][Len(old.buf) + 1]
           q == [old EXCEPT !.buf = Append(@, next)]
<1>1. /\ old.op = "get" /\ old.pc = "read" /\ UNCHANGED <<dir, data, litter>>
      /\ litter \in BOOLEAN /\ Len(old.buf) < Len(data[old.fd]) /\ Set(p, q)
  BY DEF ReadChunk, At, IInv, TypeOK
<1>2. Good(old, Present, data) /\ old \in Locals
  BY DEF IInv, Good
<1>3. PICK v \in Values :
        /\ data[old.fd] = Whole(v) /\ Len(old.buf) <= Chunks
        /\ \A k \in 1..Len(old.buf) : old.buf[k] = v
  BY <1>1, <1>2 DEF Good, Reads
<1>4. old.buf \in Seq(Values) /\ Len(old.buf) + 1 \in 1..Chunks /\ next = v
  <2>1. old.buf \in Seq(Values) /\ Len(old.buf) \in Nat
    BY <1>2 DEF Locals
  <2>2. Len(old.buf) < Chunks
    BY <1>1, <1>3, WholeFacts
  <2>3. Len(old.buf) + 1 \in 1..Chunks
    BY <2>1, <2>2, ChunksAssumption
  <2>4. next = v
    BY <1>3, <2>3, WholeFacts
  <2>5. QED
    BY <2>1, <2>3, <2>4
<1>5. /\ Append(old.buf, next) \in Seq(Values)
      /\ Len(Append(old.buf, next)) <= Chunks
      /\ \A k \in 1..Len(Append(old.buf, next)) : Append(old.buf, next)[k] = v
  BY <1>3, <1>4, ChunksAssumption
<1>6. /\ q \in Locals /\ q.op = old.op /\ q.pc = old.pc /\ q.id = old.id /\ q.val = old.val
      /\ q.tmp = old.tmp /\ q.fd = old.fd /\ q.buf = Append(old.buf, next) /\ q.res = old.res
      /\ q.got = old.got /\ q.names = old.names /\ q.infos = old.infos /\ q.steady = old.steady
  BY <1>2, <1>5 DEF Locals
<1>7. Reads(q, data)
  BY <1>3, <1>5, <1>6 DEF Reads
<1> HIDE DEF q
<1>8. Good(q, Present, data)
  BY <1>1, <1>2, <1>6, <1>7 DEF Good, Course, Held, Writes, Lists
<1>9. QED
  BY <1>1, <1>6, <1>8, Unmoved

LEMMA DecodeStep == ASSUME IInv, NEW p \in Procs, Decode(p) PROVE IInv'
<1> DEFINE old == proc[p]
           shut == [old EXCEPT !.fd = Missing, !.buf = <<>>]
           q == [Done(shut, "ok") EXCEPT !.got = old.buf[1]]
<1>1. /\ old.op = "get" /\ old.pc = "read" /\ UNCHANGED <<dir, litter>> /\ FreeUnused
      /\ litter \in BOOLEAN /\ Len(old.buf) = Len(data[old.fd])
  BY DEF Decode, At, IInv, TypeOK
<1>2. Good(old, Present, data) /\ old \in Locals
  BY DEF IInv, Good
<1>3. PICK v \in Values :
        /\ data[old.fd] = Whole(v) /\ Len(old.buf) <= Chunks
        /\ \A k \in 1..Len(old.buf) : old.buf[k] = v
  BY <1>1, <1>2 DEF Good, Reads
<1>4. old.buf = Whole(v) /\ old.buf[1] = v
  BY <1>1, <1>2, <1>3, WholeFacts, SameWhole DEF Locals
<1>5. Set(p, q)
  BY <1>4 DEF Decode
<1>6. /\ shut \in Locals /\ shut.op = old.op /\ shut.tmp = old.tmp /\ shut.fd = Missing
      /\ shut.buf = <<>> /\ shut.infos = old.infos
  <2>1. <<>> \in Seq(Values)
    OBVIOUS
  <2>2. QED
    BY <1>2, <2>1 DEF Locals
<1> HIDE DEF shut
<1> DEFINE z == Done(shut, "ok")
<1>7. /\ z \in Locals /\ z.op = "get" /\ z.pc = "return" /\ z.id = Missing /\ z.val = Missing
      /\ z.tmp = old.tmp /\ z.fd = Missing /\ z.buf = <<>> /\ z.res = "ok" /\ z.infos = old.infos
  BY <1>1, <1>6, DoneFields DEF Results
<1>8. /\ q \in Locals /\ q.op = "get" /\ q.pc = "return" /\ q.id = Missing /\ q.val = Missing
      /\ q.tmp = old.tmp /\ q.fd = Missing /\ q.buf = <<>> /\ q.res = "ok" /\ q.infos = old.infos
  BY <1>4, <1>7 DEF Locals
<1> HIDE DEF q
<1>9. Good(q, Present, data)
  BY <1>1, <1>2, <1>8 DEF Good, Course, Held, Reads, Writes, Lists
<1>10. QED
  BY <1>1, <1>5, <1>8, <1>9, Unmoved

LEMMA CloseAndChmodStep == ASSUME IInv, NEW p \in Procs, CloseAndChmod(p) PROVE IInv'
<1> DEFINE old == proc[p]
           q == [old EXCEPT !.pc = "publish"]
<1>1. /\ old.op \in {"create", "put"} /\ old.pc = "write" /\ UNCHANGED <<dir, data, litter>>
      /\ litter \in BOOLEAN /\ Len(data[old.tmp]) = Chunks /\ Set(p, q)
  BY DEF CloseAndChmod, Writing, IInv, TypeOK
<1>2. Good(old, Present, data) /\ old \in Locals
  BY DEF IInv, Good
<1>3. old.val \in Values /\ old.tmp # Missing /\ data[old.tmp] \in Seq(Values)
  BY <1>1, <1>2 DEF Good, Held, Locals, IInv, TypeOK
<1>4. data[old.tmp] = Whole(old.val)
  BY <1>1, <1>2, <1>3, SameWhole DEF Good, Writes
<1>5. /\ q \in Locals /\ q.op = old.op /\ q.pc = "publish" /\ q.id = old.id /\ q.val = old.val
      /\ q.tmp = old.tmp /\ q.fd = old.fd /\ q.buf = old.buf /\ q.res = old.res
      /\ q.got = old.got /\ q.infos = old.infos
  BY <1>2 DEF Locals, Places
<1> HIDE DEF q
<1>6. Good(q, Present, data)
  BY <1>1, <1>2, <1>4, <1>5 DEF Good, Course, Held, Reads, Writes, Lists
<1>7. QED
  BY <1>1, <1>5, <1>6, Unmoved DEF Unpublished

LEMMA WriteFailsStep == ASSUME IInv, NEW p \in Procs, WriteFails(p) PROVE IInv'
<1> DEFINE old == proc[p]
           q == Decided(old, "cleanup", "error")
<1>1. /\ old.op \in {"create", "put"} /\ old.pc \in {"start", "write", "publish"}
      /\ UNCHANGED <<dir, data, litter>> /\ litter \in BOOLEAN /\ Set(p, q)
  BY DEF WriteFails, IInv, TypeOK
<1>2. Good(old, Present, data) /\ old \in Locals
  BY DEF IInv, Good
<1>3. /\ q \in Locals /\ q.op = old.op /\ q.pc = "cleanup" /\ q.id = Missing /\ q.val = Missing
      /\ q.tmp = old.tmp /\ q.fd = old.fd /\ q.buf = old.buf /\ q.res = "error"
      /\ q.got = old.got /\ q.infos = old.infos
  BY <1>2, DecidedFields DEF Places, Results
<1> HIDE DEF q
<1>4. Good(q, Present, data)
  BY <1>1, <1>2, <1>3 DEF Good, Course, Held, Reads, Writes, Lists
<1>5. QED
  BY <1>1, <1>3, <1>4, Unmoved

LEMMA CleanupStep == ASSUME IInv, NEW p \in Procs, Cleanup(p) \/ CleanupFails(p) PROVE IInv'
<1> DEFINE old == proc[p]
           q == CleanedUp(old)
<1>1. /\ old.op \in {"create", "put"} /\ old.pc = "cleanup"
      /\ dir' = dir /\ FreeUnused /\ litter' \in BOOLEAN /\ Set(p, q)
  BY DEF Cleanup, CleanupFails, Writing, IInv, TypeOK
<1>2. Good(old, Present, data) /\ old \in Locals
  BY DEF IInv, Good
<1>3. /\ q \in Locals /\ q.op = old.op /\ q.pc = "return" /\ q.id = old.id /\ q.val = old.val
      /\ q.tmp = Missing /\ q.fd = old.fd /\ q.buf = old.buf /\ q.res = old.res
      /\ q.got = old.got /\ q.infos = old.infos
  BY <1>2 DEF CleanedUp, Locals, Places
<1> HIDE DEF q
<1>4. Good(q, Present, data)
  BY <1>1, <1>2, <1>3 DEF Good, Course, Held, Reads, Writes, Lists
<1>5. QED
  BY <1>1, <1>3, <1>4, Unmoved

LEMMA OtherFailsStep == ASSUME IInv, NEW p \in Procs, OtherFails(p) PROVE IInv'
<1> DEFINE old == proc[p]
           shut == [old EXCEPT !.fd = Missing, !.buf = <<>>,
                               !.names = {}, !.infos = {}, !.steady = {}]
           q == Done(shut, "error")
<1>1. /\ old.op \in {"get", "delete", "list"} /\ old.pc \in {"start", "read", "hash"}
      /\ UNCHANGED <<dir, litter>> /\ FreeUnused /\ litter \in BOOLEAN /\ Set(p, q)
  BY DEF OtherFails, At, IInv, TypeOK
<1>2. Good(old, Present, data) /\ old \in Locals
  BY DEF IInv, Good
<1>3. /\ shut \in Locals /\ shut.op = old.op /\ shut.tmp = old.tmp /\ shut.fd = Missing
      /\ shut.buf = <<>> /\ shut.infos = {} /\ shut.steady = {} /\ shut.got = old.got
  <2>1. <<>> \in Seq(Values)
    OBVIOUS
  <2>2. QED
    BY <1>2, <2>1 DEF Locals
<1> HIDE DEF shut
<1>4. /\ q \in Locals /\ q.op = old.op /\ q.pc = "return" /\ q.id = Missing /\ q.val = Missing
      /\ q.tmp = old.tmp /\ q.fd = Missing /\ q.buf = <<>> /\ q.res = "error" /\ q.got = old.got
      /\ q.infos = {} /\ q.steady = {}
  BY <1>3, DoneFields DEF Results
<1> HIDE DEF q
<1>5. Good(q, Present, data)
  BY <1>1, <1>2, <1>4 DEF Good, Course, Held, Reads, Writes, Lists
<1>6. QED
  BY <1>1, <1>4, <1>5, Unmoved

LEMMA ReadDirStep == ASSUME IInv, NEW p \in Procs, ReadDir(p) PROVE IInv'
<1> DEFINE old == proc[p]
           q == [old EXCEPT !.pc = "hash", !.names = Present, !.steady = Present]
<1>1. /\ old.op = "list" /\ old.pc = "start" /\ UNCHANGED <<dir, data, litter>>
      /\ litter \in BOOLEAN /\ Set(p, q)
  BY DEF ReadDir, At, IInv, TypeOK
<1>2. Good(old, Present, data) /\ old \in Locals
  BY DEF IInv, Good
<1>3. /\ q \in Locals /\ q.op = "list" /\ q.pc = "hash" /\ q.id = old.id /\ q.val = old.val
      /\ q.tmp = old.tmp /\ q.fd = old.fd /\ q.buf = old.buf /\ q.res = old.res
      /\ q.got = old.got /\ q.names = Present /\ q.infos = old.infos /\ q.steady = Present
  BY <1>1, <1>2 DEF Locals, Places, Present
<1> HIDE DEF q
<1>4. Good(q, Present, data)
  BY <1>1, <1>2, <1>3 DEF Good, Course, Held, Reads, Writes, Lists
<1>5. QED
  BY <1>1, <1>3, <1>4, Unmoved

LEMMA HashFileStep == ASSUME IInv, NEW p \in Procs, HashFile(p) PROVE IInv'
<1> DEFINE old == proc[p]
<1>1. /\ old.op = "list" /\ old.pc = "hash" /\ UNCHANGED <<dir, data, litter>>
      /\ litter \in BOOLEAN
  BY DEF HashFile, At, IInv, TypeOK
<1>2. Good(old, Present, data) /\ old \in Locals
  BY DEF IInv, Good
<1>3. PICK i \in old.names :
        Set(p, [old EXCEPT
                   !.names = @ \ {i},
                   !.infos = IF dir[i] = Missing THEN @ ELSE @ \cup {<<i, data[dir[i]]>>}])
  BY DEF HashFile
<1> DEFINE infos == IF dir[i] = Missing THEN old.infos ELSE old.infos \cup {<<i, data[dir[i]]>>}
           q == [old EXCEPT !.names = @ \ {i}, !.infos = infos]
<1>4. Set(p, q)
  BY <1>3
<1>5. i \in Ids
  BY <1>2 DEF Locals
<1>6. infos \in SUBSET (Ids \X Seq(Values)) /\ \A f \in infos : IsWhole(f[2])
  <2>1. CASE dir[i] = Missing
    BY <1>2, <2>1 DEF Good, Lists, Locals
  <2>2. CASE dir[i] # Missing
    <3>1. data[dir[i]] \in Seq(Values) /\ IsWhole(data[dir[i]])
      BY <1>5, <2>2 DEF IInv, TypeOK, Published, Present
    <3>2. \A f \in old.infos : IsWhole(f[2])
      BY <1>2 DEF Good, Lists
    <3>3. old.infos \in SUBSET (Ids \X Seq(Values))
      BY <1>2 DEF Locals
    <3>4. QED
      BY <1>5, <2>2, <3>1, <3>2, <3>3
  <2>3. QED
    BY <2>1, <2>2
<1>7. \A j \in old.steady : j \in old.names \ {i} \/ \E f \in infos : f[1] = j
  <2> SUFFICES ASSUME NEW j \in old.steady
               PROVE  j \in old.names \ {i} \/ \E f \in infos : f[1] = j
    OBVIOUS
  <2>1. dir[j] # Missing
    BY <1>1, <1>2 DEF Good, Lists, Present
  <2>2. CASE j = i
    <3>1. <<i, data[dir[i]]>> \in infos
      BY <2>1, <2>2
    <3>2. <<i, data[dir[i]]>>[1] = j
      BY <2>2
    <3>3. QED
      BY <3>1, <3>2
  <2>3. CASE j # i
    BY <1>1, <1>2, <2>3 DEF Good, Lists
  <2>4. QED
    BY <2>2, <2>3
<1> HIDE DEF infos
<1>8. /\ q \in Locals /\ q.op = "list" /\ q.pc = "hash" /\ q.id = old.id /\ q.val = old.val
      /\ q.tmp = old.tmp /\ q.fd = old.fd /\ q.buf = old.buf /\ q.res = old.res
      /\ q.got = old.got /\ q.names = old.names \ {i} /\ q.infos = infos /\ q.steady = old.steady
  BY <1>1, <1>2, <1>6 DEF Locals
<1> HIDE DEF q
<1>9. Good(q, Present, data)
  BY <1>1, <1>2, <1>6, <1>7, <1>8 DEF Good, Course, Held, Reads, Writes, Lists
<1>10. QED
  BY <1>1, <1>4, <1>8, <1>9, Unmoved

LEMMA ListReturnsStep == ASSUME IInv, NEW p \in Procs, ListReturns(p) PROVE IInv'
<1> DEFINE old == proc[p]
           q == Done(old, "ok")
<1>1. /\ old.op = "list" /\ old.pc = "hash" /\ old.names = {} /\ UNCHANGED <<dir, data, litter>>
      /\ litter \in BOOLEAN /\ Set(p, q)
  BY DEF ListReturns, At, IInv, TypeOK
<1>2. Good(old, Present, data) /\ old \in Locals
  BY DEF IInv, Good
<1>3. /\ q \in Locals /\ q.op = "list" /\ q.pc = "return" /\ q.id = Missing /\ q.val = Missing
      /\ q.tmp = old.tmp /\ q.fd = old.fd /\ q.buf = old.buf /\ q.res = "ok"
      /\ q.got = old.got /\ q.names = {} /\ q.infos = old.infos /\ q.steady = old.steady
  BY <1>1, <1>2, DoneFields DEF Results
<1> HIDE DEF q
<1>4. Good(q, Present, data)
  BY <1>1, <1>2, <1>3 DEF Good, Course, Held, Reads, Writes, Lists
<1>5. QED
  BY <1>1, <1>3, <1>4, Unmoved

LEMMA EndStep == ASSUME IInv, NEW p \in Procs, Return(p) \/ Crash(p) PROVE IInv'
<1>1. Set(p, IdleProc) /\ dir' = dir /\ FreeUnused /\ litter' \in BOOLEAN
  BY DEF Return, Crash, IInv, TypeOK
<1>2. IdleProc.tmp = Missing /\ IdleProc.fd = Missing /\ IdleProc.pc = "idle"
  BY DEF IdleProc
<1>3. QED
  BY <1>1, <1>2, IdleGood, Unmoved

(* The steps that create, write or publish a file.                         *)
LEMMA Moved ==
  ASSUME IInv, NEW p \in Procs, NEW q, Set(p, q), Good(q, Present', data'),
         dir' \in [Ids -> Inodes \cup {Missing}], data' \in [Inodes -> Seq(Values)],
         litter' \in BOOLEAN, Present \subseteq Present',
         \A r \in Procs \ {p} : Keeps(proc[r]),
         Published', Exclusive'
  PROVE  IInv'
<1>1. q \in Locals /\ TypeOK
  BY DEF Good, IInv
<1>2. /\ proc' \in [Procs -> Locals] /\ proc'[p] = q
      /\ \A r \in Procs \ {p} : proc'[r] = proc[r]
  BY <1>1, SetFrame
<1>3. \A r \in Procs \ {p} : Good(proc[r], Present', data')
  BY StaysGood DEF IInv
<1>4. \A r \in Procs : Good(proc'[r], Present', data')
  BY <1>2, <1>3
<1>5. QED
  BY <1>2, <1>4 DEF IInv, TypeOK

\* The inodes a process has are in use, and so are the ones that have a name.
LEMMA Used ==
  ASSUME IInv
  PROVE  /\ \A i \in Present : dir[i] \in Inodes /\ dir[i] \in InUse
         /\ \A r \in Procs : /\ proc[r].tmp \in InUse /\ proc[r].fd \in InUse
                             /\ proc[r].tmp \in Inodes \cup {Missing}
                             /\ proc[r].fd \in Inodes \cup {Missing}
BY DEF IInv, TypeOK, InUse, Present, Locals

LEMMA CreateTempStep == ASSUME IInv, NEW p \in Procs, CreateTemp(p) PROVE IInv'
<1> DEFINE old == proc[p]
           n == CHOOSE n \in Inodes \ InUse : TRUE
           q == [old EXCEPT !.pc = "write", !.tmp = n]
<1>1. /\ old.op \in {"create", "put"} /\ old.pc = "start" /\ UNCHANGED <<dir, litter>>
      /\ litter \in BOOLEAN /\ Set(p, q) /\ data' = [data EXCEPT ![n] = <<>>]
  BY DEF CreateTemp, Writing, IInv, TypeOK
<1>2. Good(old, Present, data) /\ old \in Locals /\ TypeOK
  BY DEF IInv, Good
<1>3. n \in Inodes /\ n \notin InUse
  BY DEF CreateTemp
<1> HIDE DEF n
<1>4. data' \in [Inodes -> Seq(Values)] /\ data'[n] = <<>>
      /\ \A m \in Inodes \ {n} : data'[m] = data[m]
  <2>1. <<>> \in Seq(Values)
    OBVIOUS
  <2>2. QED
    BY <1>1, <1>2, <1>3, <2>1 DEF TypeOK
<1>5. /\ q \in Locals /\ q.op = old.op /\ q.pc = "write" /\ q.id = old.id /\ q.val = old.val
      /\ q.tmp = n /\ q.fd = old.fd /\ q.buf = old.buf /\ q.res = old.res
      /\ q.got = old.got /\ q.infos = old.infos
  BY <1>2, <1>3 DEF Locals, Places
<1> HIDE DEF q
<1>6. Writes(q, data')
  BY <1>4, <1>5, ChunksAssumption DEF Writes
<1>7. Present' = Present
  BY <1>1 DEF Present
<1>8. Good(q, Present', data')
  BY <1>1, <1>2, <1>3, <1>5, <1>6, <1>7, InodesAssumption DEF Good, Course, Held, Reads, Lists
<1>9. \A r \in Procs \ {p} : Keeps(proc[r])
  BY <1>3, <1>4, Used DEF Keeps
<1>10. Published'
  BY <1>1, <1>3, <1>4, <1>7, Used DEF IInv, Published
<1>11. proc'[p] = q /\ \A r \in Procs \ {p} : proc'[r] = proc[r]
  BY <1>1, <1>2, <1>5, SetFrame
<1>12. Exclusive'
  <2> SUFFICES ASSUME NEW a \in Procs, Unpublished(a)'
               PROVE  /\ \A i \in Ids : dir[i] # proc'[a].tmp
                      /\ \A r \in Procs : proc'[r].fd # proc'[a].tmp
                      /\ \A r \in Procs \ {a} : proc'[r].tmp # proc'[a].tmp
    BY <1>1 DEF Exclusive
  <2>1. CASE a = p
    <3>1. \A i \in Ids : dir[i] # n
      BY <1>3, Used, InodesAssumption DEF Present
    <3>2. \A r \in Procs : proc'[r].fd # n /\ (r # p => proc'[r].tmp # n)
      BY <1>3, <1>5, <1>11, Used
    <3>3. QED
      BY <1>5, <1>11, <2>1, <3>1, <3>2
  <2>2. CASE a # p
    <3>1. Unpublished(a) /\ proc'[a] = proc[a] /\ proc[a].tmp # n
      BY <1>3, <1>11, <2>2, Used DEF Unpublished
    <3>2. QED
      BY <1>5, <1>11, <2>2, <3>1 DEF IInv, Exclusive
  <2>3. QED
    BY <2>1, <2>2
<1>13. dir' \in [Ids -> Inodes \cup {Missing}]
  BY <1>1, <1>2 DEF TypeOK
<1>14. QED
  BY <1>1, <1>4, <1>7, <1>8, <1>9, <1>10, <1>12, <1>13, Moved

LEMMA WriteChunkStep == ASSUME IInv, NEW p \in Procs, WriteChunk(p) PROVE IInv'
<1> DEFINE old == proc[p]
           n == old.tmp
<1>1. /\ old.op \in {"create", "put"} /\ old.pc = "write" /\ UNCHANGED <<dir, litter, proc>>
      /\ litter \in BOOLEAN /\ Len(data[n]) < Chunks
      /\ data' = [data EXCEPT ![n] = Append(@, old.val)]
  BY DEF WriteChunk, Writing, IInv, TypeOK
<1>2. Good(old, Present, data) /\ old \in Locals /\ TypeOK
  BY DEF IInv, Good
<1>3. n \in Inodes /\ old.val \in Values /\ data[n] \in Seq(Values)
  BY <1>1, <1>2 DEF Good, Held, Locals, TypeOK
<1>4. data' \in [Inodes -> Seq(Values)] /\ data'[n] = Append(data[n], old.val)
      /\ \A m \in Inodes \ {n} : data'[m] = data[m]
  BY <1>1, <1>2, <1>3 DEF TypeOK
<1>5. Writes(old, data')
  <2>1. \A k \in 1..Len(data[n]) : data[n][k] = old.val
    BY <1>1, <1>2 DEF Good, Writes
  <2>2. /\ Len(data'[n]) <= Chunks
        /\ \A k \in 1..Len(data'[n]) : data'[n][k] = old.val
    BY <1>1, <1>3, <1>4, <2>1, ChunksAssumption
  <2>3. QED
    BY <1>1, <2>2 DEF Writes
<1>6. Present' = Present
  BY <1>1 DEF Present
<1>7. Good(old, Present', data')
  BY <1>1, <1>2, <1>5, <1>6 DEF Good, Reads
<1>8. /\ \A i \in Ids : dir[i] # n
      /\ \A r \in Procs : proc[r].fd # n
      /\ \A r \in Procs \ {p} : proc[r].tmp # n
  BY <1>1 DEF IInv, Exclusive, Unpublished
<1>9. \A r \in Procs \ {p} : Keeps(proc[r])
  BY <1>4, <1>8, Used DEF Keeps
<1>10. Published'
  BY <1>1, <1>4, <1>6, <1>8, Used DEF IInv, Published, Present
<1>11. Exclusive'
  BY <1>1 DEF IInv, Exclusive, Unpublished
<1>12. Set(p, old)
  BY <1>1, <1>2 DEF Set, TypeOK
<1>13. dir' \in [Ids -> Inodes \cup {Missing}]
  BY <1>1, <1>2 DEF TypeOK
<1>14. QED
  BY <1>1, <1>4, <1>6, <1>7, <1>9, <1>10, <1>11, <1>12, <1>13, Moved

\* Publishing p's temporary file takes it from p and from nobody else.
LEMMA PublishedExclusive ==
  ASSUME IInv, NEW p \in Procs, proc[p].pc = "publish", NEW j \in Ids,
         dir' = [dir EXCEPT ![j] = proc[p].tmp],
         proc'[p].pc = "cleanup", proc'[p].fd = proc[p].fd,
         proc'[p].tmp \in {proc[p].tmp, Missing},
         \A r \in Procs \ {p} : proc'[r] = proc[r]
  PROVE  Exclusive'
<1> SUFFICES ASSUME NEW a \in Procs, Unpublished(a)'
             PROVE  /\ \A i \in Ids : dir'[i] # proc'[a].tmp
                    /\ \A r \in Procs : proc'[r].fd # proc'[a].tmp
                    /\ \A r \in Procs \ {a} : proc'[r].tmp # proc'[a].tmp
  BY DEF Exclusive
<1>1. a # p /\ Unpublished(a) /\ proc'[a] = proc[a]
  BY DEF Unpublished
<1>2. /\ \A i \in Ids : dir[i] # proc[a].tmp
      /\ \A r \in Procs : proc[r].fd # proc[a].tmp
      /\ \A r \in Procs \ {a} : proc[r].tmp # proc[a].tmp
  BY <1>1 DEF IInv, Exclusive
<1>3. proc[a].tmp # Missing
  BY <1>1 DEF IInv, Good, Held, Unpublished
<1>4. \A i \in Ids : dir'[i] = dir[i] \/ dir'[i] = proc[p].tmp
  BY DEF IInv, TypeOK
<1>5. QED
  BY <1>1, <1>2, <1>3, <1>4

LEMMA LinkStep == ASSUME IInv, NEW p \in Procs, Link(p) PROVE IInv'
<1> DEFINE old == proc[p]
           i == old.id
           q(r) == Decided(old, "cleanup", r)
<1>1. /\ old.op = "create" /\ old.pc = "publish" /\ UNCHANGED <<data, litter>>
      /\ litter \in BOOLEAN
  BY DEF Link, At, IInv, TypeOK
<1>2. Good(old, Present, data) /\ old \in Locals /\ TypeOK
  BY DEF IInv, Good
<1>3. old.tmp \in Inodes /\ i \in Ids /\ old.val \in Values /\ data[old.tmp] = Whole(old.val)
  BY <1>1, <1>2 DEF Good, Held, Writes, Locals
<1>4. ASSUME NEW r \in {"ok", "ErrExists"}
      PROVE  /\ q(r) \in Locals /\ q(r).op = old.op /\ q(r).pc = "cleanup" /\ q(r).id = Missing
             /\ q(r).val = Missing /\ q(r).tmp = old.tmp /\ q(r).fd = old.fd /\ q(r).buf = old.buf
             /\ q(r).res = r /\ q(r).got = old.got /\ q(r).infos = old.infos
  BY <1>2, DecidedFields DEF Places, Results
<1> HIDE DEF q
<1>5. ASSUME NEW r \in {"ok", "ErrExists"}, NEW S PROVE Good(q(r), S, data)
  BY <1>1, <1>2, <1>4 DEF Good, Course, Held, Reads, Writes, Lists
<1>6. CASE dir[i] = Missing
  <2>1. Set(p, q("ok")) /\ dir' = [dir EXCEPT ![i] = old.tmp]
    BY <1>6 DEF Link, q
  <2>2. proc'[p] = q("ok") /\ \A r \in Procs \ {p} : proc'[r] = proc[r]
    BY <1>2, <1>4, <2>1, SetFrame
  <2>3. dir' \in [Ids -> Inodes \cup {Missing}] /\ data' \in [Inodes -> Seq(Values)]
    BY <1>1, <1>2, <1>3, <2>1 DEF TypeOK
  <2>4. dir'[i] = old.tmp /\ \A j \in Ids \ {i} : dir'[j] = dir[j]
    BY <1>2, <1>3, <2>1 DEF TypeOK
  <2>5. Present \subseteq Present'
    BY <1>6, <2>4 DEF Present
  <2>6. Published'
    BY <1>1, <1>3, <2>4 DEF IInv, Published, IsWhole, Present
  <2>7. Exclusive'
    BY <1>1, <1>3, <1>4, <2>1, <2>2, PublishedExclusive
  <2>8. \A r \in Procs \ {p} : Keeps(proc[r])
    BY <1>1 DEF Keeps
  <2>9. Good(q("ok"), Present', data')
    BY <1>1, <1>5
  <2>10. QED
    BY <1>1, <2>1, <2>3, <2>5, <2>6, <2>7, <2>8, <2>9, Moved
<1>7. CASE dir[i] # Missing
  <2>1. Set(p, q("ErrExists")) /\ dir' = dir
    BY <1>7 DEF Link, q
  <2>2. Good(q("ErrExists"), Present, data)
    BY <1>5
  <2>3. QED
    BY <1>1, <1>4, <2>1, <2>2, Unmoved
<1>8. QED
  BY <1>6, <1>7

LEMMA RenameStep == ASSUME IInv, NEW p \in Procs, Rename(p) PROVE IInv'
<1> DEFINE old == proc[p]
           i == old.id
           decided == Decided(old, "cleanup", "ok")
           q == [decided EXCEPT !.tmp = Missing]
<1>1. /\ old.op = "put" /\ old.pc = "publish" /\ UNCHANGED litter /\ FreeUnused
      /\ litter \in BOOLEAN /\ Set(p, q) /\ dir' = [dir EXCEPT ![i] = old.tmp]
  BY DEF Rename, At, IInv, TypeOK
<1>2. Good(old, Present, data) /\ old \in Locals /\ TypeOK
  BY DEF IInv, Good
<1>3. old.tmp \in Inodes /\ i \in Ids /\ old.val \in Values /\ data[old.tmp] = Whole(old.val)
  BY <1>1, <1>2 DEF Good, Held, Writes, Locals
<1>4. /\ decided \in Locals /\ decided.op = old.op /\ decided.pc = "cleanup" /\ decided.id = Missing
      /\ decided.val = Missing /\ decided.fd = old.fd /\ decided.buf = old.buf
      /\ decided.res = "ok" /\ decided.got = old.got /\ decided.infos = old.infos
  BY <1>2, DecidedFields DEF Places, Results
<1> HIDE DEF decided
<1>5. /\ q \in Locals /\ q.op = old.op /\ q.pc = "cleanup" /\ q.id = Missing
      /\ q.val = Missing /\ q.tmp = Missing /\ q.fd = old.fd /\ q.buf = old.buf
      /\ q.res = "ok" /\ q.got = old.got /\ q.infos = old.infos
  BY <1>4 DEF Locals
<1> HIDE DEF q
<1>6. Good(q, Present', data')
  BY <1>1, <1>2, <1>5 DEF Good, Course, Held, Reads, Writes, Lists
<1>7. proc'[p] = q /\ \A r \in Procs \ {p} : proc'[r] = proc[r]
  BY <1>1, <1>2, <1>5, SetFrame
<1>8. dir' \in [Ids -> Inodes \cup {Missing}]
  BY <1>1, <1>2, <1>3 DEF TypeOK
<1>9. dir'[i] = old.tmp /\ \A j \in Ids \ {i} : dir'[j] = dir[j]
  BY <1>1, <1>2, <1>3 DEF TypeOK
<1>10. data' \in [Inodes -> Seq(Values)] /\ \A n \in Inodes : n \in InUse' => data'[n] = data[n]
  BY <1>1, <1>2, FreeFrame
<1>11. Present \subseteq Present'
  BY <1>3, <1>9, InodesAssumption DEF Present
<1>12. /\ \A j \in Present' : dir'[j] \in Inodes /\ dir'[j] \in InUse'
       /\ \A r \in Procs : proc'[r].tmp \in InUse' /\ proc'[r].fd \in InUse'
  BY <1>8 DEF InUse, Present
<1>13. \A r \in Procs \ {p} : Keeps(proc[r])
  BY <1>7, <1>10, <1>12, Used DEF Keeps
<1>14. Published'
  <2>1. \A j \in Present' : data'[dir'[j]] = data[dir'[j]]
    BY <1>10, <1>12
  <2>2. \A j \in Present' : IsWhole(data[dir'[j]])
    BY <1>3, <1>9 DEF IInv, Published, IsWhole, Present
  <2>3. QED
    BY <2>1, <2>2 DEF Published
<1>15. Exclusive'
  BY <1>1, <1>3, <1>5, <1>7, PublishedExclusive
<1>16. QED
  BY <1>1, <1>6, <1>8, <1>10, <1>11, <1>13, <1>14, <1>15, Moved

LEMMA RemoveStep == ASSUME IInv, NEW p \in Procs, Remove(p) PROVE IInv'
<1> DEFINE old == proc[p]
           i == old.id
           q(r) == Done(old, r)
<1>1. /\ old.op = "delete" /\ old.pc = "start" /\ UNCHANGED litter /\ FreeUnused
      /\ litter \in BOOLEAN
  BY DEF Remove, At, IInv, TypeOK
<1>2. Good(old, Present, data) /\ old \in Locals /\ TypeOK
  BY DEF IInv, Good
<1>3. old.tmp = Missing /\ i \in Ids
  BY <1>1, <1>2 DEF Good, Held
<1>4. ASSUME NEW r \in {"ok", "ErrNotFound"}
      PROVE  /\ q(r) \in Locals /\ q(r).op = old.op /\ q(r).pc = "return" /\ q(r).id = Missing
             /\ q(r).val = Missing /\ q(r).tmp = old.tmp /\ q(r).fd = old.fd /\ q(r).buf = old.buf
             /\ q(r).res = r /\ q(r).got = old.got /\ q(r).infos = old.infos
  BY <1>2, DoneFields DEF Results
<1> HIDE DEF q
<1>5. ASSUME NEW r \in {"ok", "ErrNotFound"}, NEW S, NEW d PROVE Good(q(r), S, d)
  BY <1>1, <1>2, <1>4 DEF Good, Course, Held, Reads, Writes, Lists
<1>6. CASE dir[i] = Missing
  <2>1. Set(p, q("ErrNotFound")) /\ dir' = dir
    BY <1>6 DEF Remove, q
  <2>2. Good(q("ErrNotFound"), Present, data)
    BY <1>5
  <2>3. QED
    BY <1>1, <1>3, <1>4, <2>1, <2>2, Unmoved
<1>7. CASE dir[i] # Missing
  <2>1. /\ dir' = [dir EXCEPT ![i] = Missing]
        /\ proc' = [r \in Procs |-> IF r = p THEN q("ok") ELSE Forget(proc[r], i)]
    BY <1>7 DEF Remove, q
  <2>2. ASSUME NEW r \in Procs \ {p}
        PROVE  LET z == Forget(proc[r], i) IN
               /\ z \in Locals /\ z.op = proc[r].op /\ z.pc = proc[r].pc /\ z.id = proc[r].id
               /\ z.val = proc[r].val /\ z.tmp = proc[r].tmp /\ z.fd = proc[r].fd
               /\ z.buf = proc[r].buf /\ z.res = proc[r].res /\ z.got = proc[r].got
               /\ z.names = proc[r].names /\ z.infos = proc[r].infos
               /\ z.steady = proc[r].steady \ {i}
               /\ proc[r].pc = "idle" => z = proc[r]
    <3>1. proc[r] \in Locals /\ Course(proc[r])
      BY DEF IInv, Good
    <3>2. proc[r].pc = "idle" => proc[r].steady = {}
      BY <3>1 DEF Course, IdleProc
    <3>3. Forget(proc[r], i) = [proc[r] EXCEPT !.steady = proc[r].steady \ {i}]
      BY DEF Forget
    <3>4. proc[r].steady = {} => Forget(proc[r], i) = proc[r]
      BY <3>1, <3>3 DEF Locals
    <3>5. proc[r].steady \ {i} \in SUBSET Ids
      BY <3>1 DEF Locals
    <3>6. QED
      BY <3>1, <3>2, <3>3, <3>4, <3>5 DEF Locals
  <2>3. /\ proc'[p] = q("ok") /\ \A r \in Procs \ {p} : proc'[r] = Forget(proc[r], i)
        /\ proc' \in [Procs -> Locals]
    BY <1>4, <2>1, <2>2
  <2>4. /\ dir' \in [Ids -> Inodes \cup {Missing}]
        /\ dir'[i] = Missing /\ \A j \in Ids \ {i} : dir'[j] = dir[j]
    BY <1>2, <1>3, <2>1 DEF TypeOK
  <2>5. Present' = Present \ {i}
    BY <1>3, <2>4 DEF Present
  <2>6. data' \in [Inodes -> Seq(Values)] /\ \A n \in Inodes : n \in InUse' => data'[n] = data[n]
    BY <1>1, <1>2, FreeFrame
  <2>7. /\ \A j \in Present' : dir'[j] \in Inodes /\ dir'[j] \in InUse' /\ dir'[j] = dir[j]
        /\ \A r \in Procs : proc'[r].tmp \in InUse' /\ proc'[r].fd \in InUse'
    BY <2>4, <2>5 DEF InUse, Present
  <2>8. ASSUME NEW r \in Procs \ {p} PROVE Good(proc'[r], Present', data')
    <3>1. Keeps(proc[r])
      BY <2>2, <2>3, <2>6, <2>7, Used DEF Keeps
    <3>2. Good(proc[r], Present, data') /\ proc'[r] = Forget(proc[r], i)
      BY <2>3, <3>1, StaysGood DEF IInv
    <3>3. Course(proc'[r]) /\ Held(proc'[r]) /\ proc'[r] \in Locals
      BY <2>2, <3>2 DEF Good, Course, Held
    <3>4. Reads(proc'[r], data') /\ Writes(proc'[r], data')
      BY <2>2, <3>2 DEF Good, Reads, Writes
    <3>5. Lists(proc'[r], Present')
      BY <2>2, <2>5, <3>2 DEF Good, Lists
    <3>6. QED
      BY <3>3, <3>4, <3>5 DEF Good
  <2>9. Published'
    BY <2>5, <2>6, <2>7 DEF IInv, Published
  <2>10. Exclusive'
    <3>1. \A r \in Procs : /\ Unpublished(r)' => Unpublished(r)
                           /\ proc'[r].tmp = proc[r].tmp /\ proc'[r].fd = proc[r].fd
      BY <1>4, <2>2, <2>3 DEF Unpublished
    <3>2. \A r \in Procs : Unpublished(r) => proc[r].tmp # Missing
      BY DEF IInv, Good, Held, Unpublished
    <3>3. QED
      BY <2>4, <3>1, <3>2 DEF IInv, Exclusive
  <2>11. Good(proc'[p], Present', data')
    BY <1>5, <2>3
  <2>12. QED
    BY <1>1, <2>3, <2>4, <2>6, <2>8, <2>9, <2>10, <2>11 DEF IInv, TypeOK
<1>8. QED
  BY <1>6, <1>7

LEMMA Stutter == ASSUME IInv, UNCHANGED vars PROVE IInv'
BY DEF IInv, vars, TypeOK, Published, Exclusive, Unpublished, Present

LEMMA StepInvariant == IInv /\ [Next]_vars => IInv'
<1>1. ASSUME IInv, NEW p \in Procs, CallPoint(p) \/ CallList(p) \/ Step(p) \/ Crash(p)
      PROVE  IInv'
  BY <1>1, CallStep, OpenStep, ReadChunkStep, DecodeStep, CreateTempStep, WriteChunkStep,
     CloseAndChmodStep, LinkStep, RenameStep, WriteFailsStep, CleanupStep, RemoveStep,
     OtherFailsStep, ReadDirStep, HashFileStep, ListReturnsStep, EndStep DEF Step
<1>2. QED
  BY <1>1, Stutter DEF Next

(* Every reachable state satisfies the inductive invariant IInv: each       *)
(* operation's locals describe what its system calls have done so far,      *)
(* names refer to whole files, and a temporary file belongs to its writer.  *)
THEOREM Invariance == Spec => []IInv
BY InitInvariant, StepInvariant, PTL DEF Spec
-----------------------------------------------------------------------------
(* What the invariant says of the properties.                              *)

(* For any number of processes, and whatever fails or is killed between    *)
(* two system calls: no entry file, no Get and no listing ever has part of *)
(* a file.                                                                 *)
THEOREM AlwaysWhole == Spec => []NeverHalfWritten
<1>1. IInv => NeverHalfWritten
  <2> SUFFICES ASSUME IInv PROVE NeverHalfWritten
    OBVIOUS
  <2>1. \A i \in Present : \E v \in Values : data[dir[i]] = Whole(v)
    BY DEF IInv, Published, IsWhole
  <2>2. \A p \in Procs : proc[p].res # "malformed"
    BY DEF IInv, Good, Held
  <2>3. \A p \in Procs : \A f \in proc[p].infos : \E v \in Values : f[2] = Whole(v)
    BY DEF IInv, Good, Lists, IsWhole
  <2>4. QED
    BY <2>1, <2>2, <2>3 DEF NeverHalfWritten
<1>2. QED
  BY <1>1, Invariance, PTL

(* A listing that succeeds has every entry that was there throughout,      *)
(* however many were created, replaced and deleted while it ran.           *)
THEOREM ListsWhatStayed == Spec => []ListMissesNothing
<1>1. IInv => ListMissesNothing
  <2> SUFFICES ASSUME IInv, NEW p \in Procs, proc[p].op = "list", proc[p].pc = "return",
                      proc[p].res = "ok", NEW i \in proc[p].steady
               PROVE  \E f \in proc[p].infos : f[1] = i
    BY DEF ListMissesNothing
  <2>1. Lists(proc[p], Present)
    BY DEF IInv, Good
  <2>2. QED
    BY <2>1 DEF Lists
<1>2. QED
  BY <1>1, Invariance, PTL

(* No way out of a write goes past the removal of its temporary file: what *)
(* is left is a killed process's, or its removal was tried and failed.     *)
THEOREM NoWayAroundRemoval == Spec => RemovalIsTried
<1> DEFINE Tried == litter' # litter => \E p \in Procs : Killed(p) \/ TriedInVain(p)
<1>1. IInv /\ [Next]_vars => [Tried]_vars
  <2> SUFFICES ASSUME IInv, Next PROVE Tried
    OBVIOUS
  <2>1. PICK p \in Procs : CallPoint(p) \/ CallList(p) \/ Step(p) \/ Crash(p)
    BY DEF Next
  <2>2. CASE Return(p)
    <3>1. proc[p].pc = "return" /\ Held(proc[p])
      BY <2>2 DEF Return, IInv, Good
    <3>2. proc[p].tmp = Missing
      BY <3>1 DEF Held
    <3>3. QED
      BY <2>2, <3>2 DEF Return, IInv, TypeOK
  <2>3. CASE Crash(p)
    <3>1. IdleProc \in Locals /\ proc \in [Procs -> Locals]
      BY IdleGood DEF Good, IInv, TypeOK
    <3>2. Killed(p)
      BY <2>3, <3>1 DEF Crash, Set, Killed
    <3>3. QED
      BY <3>2
  <2>4. CASE CleanupFails(p)
    <3>1. Writing(p, "cleanup") /\ Set(p, CleanedUp(proc[p])) /\ proc \in [Procs -> Locals]
      BY <2>4 DEF CleanupFails, IInv, TypeOK
    <3>2. TriedInVain(p)
      BY <3>1 DEF Set, TriedInVain
    <3>3. QED
      BY <3>2
  <2>5. CASE ~(Return(p) \/ Crash(p) \/ CleanupFails(p))
    <3>1. litter' = litter
      BY <2>1, <2>5 DEF Step, CallPoint, CallList, Open, ReadChunk, Decode, CreateTemp, WriteChunk,
         CloseAndChmod, Link, Rename, WriteFails, Cleanup, Remove, OtherFails, ReadDir, HashFile,
         ListReturns
    <3>2. QED
      BY <3>1
  <2>6. QED
    BY <2>2, <2>3, <2>4, <2>5
<1>2. QED
  BY <1>1, Invariance, PTL DEF Spec, RemovalIsTried

-----------------------------------------------------------------------------
(* LocalStore implements AtomicStore.                                      *)

(* A point operation that has been answered, as its caller will have it.   *)
Answered(o, r, g) == [op |-> o, id |-> Missing, val |-> Missing, res |-> r, got |-> g]

LEMMA EntryOfWhole == ASSUME NEW v \in Values PROVE EntryOf(Whole(v)) = v /\ v # Missing
BY WholeFacts, InodesAssumption DEF EntryOf, IsWhole

(* What another process's step, or one's own, leaves to be seen.           *)
LEMMA OthersSeen ==
  ASSUME NEW p \in Procs, proc \in [Procs -> Locals], proc' \in [Procs -> Locals],
         \A r \in Procs \ {p} :
            /\ proc'[r].op = proc[r].op /\ proc'[r].pc = proc[r].pc /\ proc'[r].id = proc[r].id
            /\ proc'[r].val = proc[r].val /\ proc'[r].res = proc[r].res
            /\ proc'[r].got = proc[r].got /\ proc'[r].fd = proc[r].fd
            /\ proc[r].pc = "read" => data'[proc[r].fd] = data[proc[r].fd]
  PROVE  Calls' = [Calls EXCEPT ![p] = Seen(proc'[p], data')]
<1>1. \A r \in Procs \ {p} : Seen(proc'[r], data') = Seen(proc[r], data)
  BY DEF Seen
<1>2. Calls' = [r \in Procs |-> Seen(proc'[r], data')] /\ Calls = [r \in Procs |-> Seen(proc[r], data)]
  BY DEF Calls
<1> HIDE DEF Calls
<1>3. QED
  BY <1>1, <1>2

LEMMA StoredKept ==
  ASSUME dir' = dir, \A i \in Present : data'[dir[i]] = data[dir[i]]
  PROVE  Stored' = Stored
<1>1. \A i \in Ids : (IF dir'[i] = Missing THEN Missing ELSE EntryOf(data'[dir'[i]]))
                        = IF dir[i] = Missing THEN Missing ELSE EntryOf(data[dir[i]])
  BY DEF Present
<1>2. QED
  BY <1>1 DEF Stored

(* The steps that publish and remove nothing: the entries stay, and only   *)
(* the process that moved can look different.                              *)
LEMMA Aside ==
  ASSUME IInv, IInv', NEW p \in Procs, NEW q \in Locals, Set(p, q), dir' = dir,
         data' = data \/ FreeUnused
  PROVE  Stored' = Stored /\ Calls' = [Calls EXCEPT ![p] = Seen(q, data')]
<1>1. TypeOK /\ proc \in [Procs -> Locals]
  BY DEF IInv, TypeOK
<1>2. proc' \in [Procs -> Locals] /\ proc'[p] = q /\ \A r \in Procs \ {p} : proc'[r] = proc[r]
  BY <1>1, SetFrame
<1>3. \A n \in Inodes : n \in InUse' => data'[n] = data[n]
  BY <1>1, FreeFrame
<1>4. \A i \in Present : dir[i] \in Inodes /\ dir[i] \in InUse'
  BY <1>1 DEF InUse, Present, TypeOK
<1>5. \A r \in Procs \ {p} : proc[r].pc = "read" => proc[r].fd \in Inodes /\ proc[r].fd \in InUse'
  BY <1>1, <1>2 DEF InUse, IInv, Good, Held, Locals
<1>6. \A r \in Procs \ {p} : proc[r].pc = "read" => data'[proc[r].fd] = data[proc[r].fd]
  BY <1>3, <1>5
<1>7. Stored' = Stored
  BY <1>3, <1>4, StoredKept
<1>8. QED
  BY <1>1, <1>2, <1>6, <1>7, OthersSeen

\* The actions of AtomicStore, on what is stored and seen.
Nothing == UNCHANGED <<Stored, Calls>>
Becomes(p, c) == Calls' = [Calls EXCEPT ![p] = c]
Waits(p, o) == Calls[p].op = o /\ Calls[p].res = "none"

Calling(p) ==
    /\ Calls[p] = Nobody
    /\ \E o \in {"get", "create", "put", "delete"}, i \in Ids :
       \E v \in IF o \in {"create", "put"} THEN Values ELSE {Missing} :
         Becomes(p, [op |-> o, id |-> i, val |-> v, res |-> "none", got |-> Missing])
    /\ Stored' = Stored
Getting(p) ==
    /\ Waits(p, "get")
    /\ IF Stored[Calls[p].id] = Missing
         THEN Becomes(p, Answered("get", "ErrNotFound", Missing))
         ELSE Becomes(p, Answered("get", "ok", Stored[Calls[p].id]))
    /\ Stored' = Stored
Creating(p) ==
    /\ Waits(p, "create")
    /\ IF Stored[Calls[p].id] # Missing
         THEN Becomes(p, Answered("create", "ErrExists", Missing)) /\ Stored' = Stored
         ELSE /\ Becomes(p, Answered("create", "ok", Missing))
              /\ Stored' = [Stored EXCEPT ![Calls[p].id] = Calls[p].val]
Putting(p) ==
    /\ Waits(p, "put")
    /\ Becomes(p, Answered("put", "ok", Missing))
    /\ Stored' = [Stored EXCEPT ![Calls[p].id] = Calls[p].val]
Deleting(p) ==
    /\ Waits(p, "delete")
    /\ IF Stored[Calls[p].id] = Missing
         THEN Becomes(p, Answered("delete", "ErrNotFound", Missing)) /\ Stored' = Stored
         ELSE /\ Becomes(p, Answered("delete", "ok", Missing))
              /\ Stored' = [Stored EXCEPT ![Calls[p].id] = Missing]
Failing(p) ==
    /\ Calls[p] # Nobody
    /\ Calls[p].res = "none" \/ Calls[p].op = "get"
    /\ Becomes(p, Answered(Calls[p].op, "error", Missing))
    /\ Stored' = Stored
Returning(p) ==
    /\ Calls[p] # Nobody
    /\ Becomes(p, Nobody)
    /\ Stored' = Stored

LEMMA Unseen ==
  ASSUME IInv, IInv', NEW p \in Procs, NEW q \in Locals, Set(p, q), dir' = dir,
         data' = data \/ FreeUnused, Seen(q, data') = Seen(proc[p], data)
  PROVE  Nothing
<1>1. Stored' = Stored /\ Calls' = [Calls EXCEPT ![p] = Seen(q, data')]
  BY Aside
<1>2. Calls[p] = Seen(q, data') /\ Calls = [r \in Procs |-> Calls[r]]
  BY DEF Calls
<1>3. QED
  BY <1>1, <1>2 DEF Nothing

(* Every step of a process is one of these, or is not seen.                *)
LEMMA SeenInvisible ==
  ASSUME IInv, IInv', NEW p \in Procs,
         CallList(p) \/ ReadChunk(p) \/ CreateTemp(p) \/ WriteChunk(p) \/ CloseAndChmod(p)
           \/ Cleanup(p) \/ CleanupFails(p) \/ ReadDir(p) \/ HashFile(p) \/ ListReturns(p)
  PROVE  Nothing
<1> DEFINE old == proc[p]
<1>0. /\ proc \in [Procs -> Locals] /\ old \in Locals /\ proc' \in [Procs -> Locals]
      /\ Good(old, Present, data) /\ TypeOK
  BY DEF IInv, TypeOK
<1>1. CASE CallList(p)
  <2>1. old = IdleProc /\ Set(p, [IdleProc EXCEPT !.op = "list", !.pc = "start"])
    BY <1>1 DEF CallList
  <2>2. [IdleProc EXCEPT !.op = "list", !.pc = "start"] \in Locals
    BY <1>0, <2>1, ZenonT(60) DEF Locals, Operations, Places
  <2>3. Seen([IdleProc EXCEPT !.op = "list", !.pc = "start"], data') = Seen(old, data)
    BY <2>1 DEF Seen, IdleProc
  <2>4. QED
    BY <1>1, <2>1, <2>2, <2>3, Unseen DEF CallList
<1>2. CASE ReadChunk(p)
  <2> DEFINE q == [old EXCEPT !.buf = Append(@, data[old.fd][Len(@) + 1])]
  <2>1. Set(p, q) /\ UNCHANGED <<dir, data>>
    BY <1>2 DEF ReadChunk
  <2>2. q = proc'[p]
    BY <1>0, <2>1 DEF Set
  <2>3. q \in Locals
    BY <1>0, <2>2
  <2>4. Seen(q, data') = Seen(old, data)
    BY <1>0, <2>1 DEF Seen, Locals
  <2>5. QED
    BY <2>1, <2>3, <2>4, Unseen
<1>3. CASE CloseAndChmod(p)
  <2> DEFINE q == [old EXCEPT !.pc = "publish"]
  <2>1. Set(p, q) /\ UNCHANGED <<dir, data>> /\ old.op \in {"create", "put"}
    BY <1>3 DEF CloseAndChmod, Writing
  <2>2. q \in Locals
    BY <1>0 DEF Locals, Places
  <2>3. Seen(q, data') = Seen(old, data)
    BY <1>0, <2>1 DEF Seen, Locals
  <2>4. QED
    BY <2>1, <2>2, <2>3, Unseen
<1>4. CASE Cleanup(p) \/ CleanupFails(p)
  <2> DEFINE q == CleanedUp(old)
  <2>1. Set(p, q) /\ dir' = dir /\ FreeUnused /\ old.op \in {"create", "put"}
    BY <1>4 DEF Cleanup, CleanupFails, Writing
  <2>2. q \in Locals
    BY <1>0 DEF CleanedUp, Locals, Places
  <2>3. Seen(q, data') = Seen(old, data)
    BY <1>0, <2>1 DEF CleanedUp, Seen, Locals
  <2>4. QED
    BY <2>1, <2>2, <2>3, Unseen
<1>5. CASE ReadDir(p) \/ HashFile(p) \/ ListReturns(p)
  <2>1. /\ old.op = "list" /\ UNCHANGED <<dir, data>> /\ \E q : Set(p, q)
    BY <1>5 DEF ReadDir, HashFile, ListReturns, At
  <2>2. Set(p, proc'[p]) /\ proc'[p] \in Locals
    BY <1>0, <2>1 DEF Set
  <2>3. proc'[p].op = "list"
    <3>1. CASE ReadDir(p)
      <4>1. Set(p, [old EXCEPT !.pc = "hash", !.names = Present, !.steady = Present])
        BY <3>1 DEF ReadDir
      <4>2. QED
        BY <1>0, <2>1, <4>1 DEF Set, Locals
    <3>3. CASE ListReturns(p)
      <4>1. Set(p, Done(old, "ok"))
        BY <3>3 DEF ListReturns
      <4>2. proc'[p] = Done(old, "ok")
        BY <1>0, <4>1 DEF Set
      <4>3. QED
        BY <1>0, <2>1, <4>2, DoneFields DEF Results
    <3>2. CASE HashFile(p)
      <4>1. PICK names, infos : Set(p, [old EXCEPT !.names = names, !.infos = infos])
        BY <3>2 DEF HashFile
      <4>2. QED
        BY <1>0, <2>1, <4>1 DEF Set, Locals
    <3>4. QED
      BY <1>5, <3>1, <3>2, <3>3
  <2>4. Seen(proc'[p], data') = Seen(old, data)
    BY <2>1, <2>3 DEF Seen
  <2>5. QED
    BY <2>1, <2>2, <2>4, Unseen
<1>6. CASE CreateTemp(p)
  <2> DEFINE n == CHOOSE n \in Inodes \ InUse : TRUE
             q == [old EXCEPT !.pc = "write", !.tmp = n]
  <2>1. /\ Set(p, q) /\ dir' = dir /\ data' = [data EXCEPT ![n] = <<>>]
        /\ old.op \in {"create", "put"} /\ n \in Inodes /\ n \notin InUse
    BY <1>6 DEF CreateTemp, Writing
  <2> HIDE DEF n
  <2>2. q \in Locals
    BY <1>0, <2>1 DEF Locals, Places
  <2>3. Seen(q, data') = Seen(old, data)
    BY <1>0, <2>1 DEF Seen, Locals
  <2> HIDE DEF q
  <2>4. \A m \in Inodes : m \in InUse => data'[m] = data[m]
    BY <1>0, <2>1 DEF TypeOK
  <2>5. Stored' = Stored
    BY <2>1, <2>4, Used, StoredKept
  <2>6. proc'[p] = q /\ \A r \in Procs \ {p} : proc'[r] = proc[r]
    BY <1>0, <2>1, <2>2, SetFrame
  <2>7. \A r \in Procs : proc[r].pc = "read" => data'[proc[r].fd] = data[proc[r].fd]
    BY <2>4, Used DEF IInv, Good, Held
  <2>8. Calls' = [Calls EXCEPT ![p] = Seen(q, data')]
    BY <1>0, <2>6, <2>7, OthersSeen
  <2>9. QED
    BY <2>3, <2>5, <2>8 DEF Nothing, Calls
<1>7. CASE WriteChunk(p)
  <2>1. /\ old.op \in {"create", "put"} /\ old.pc = "write" /\ UNCHANGED <<dir, proc>>
        /\ data' = [data EXCEPT ![old.tmp] = Append(@, old.val)]
    BY <1>7 DEF WriteChunk, Writing
  <2>2. /\ \A i \in Ids : dir[i] # old.tmp
        /\ \A r \in Procs : proc[r].fd # old.tmp
    BY <2>1 DEF IInv, Exclusive, Unpublished
  <2>3. \A m \in Inodes \ {old.tmp} : data'[m] = data[m]
    BY <1>0, <2>1 DEF TypeOK
  <2>4. Stored' = Stored
    BY <2>1, <2>2, <2>3, Used, StoredKept DEF Present
  <2>5. \A r \in Procs : proc[r].pc = "read" => data'[proc[r].fd] = data[proc[r].fd]
    BY <2>2, <2>3, Used DEF IInv, Good, Held
  <2>6. Calls' = [Calls EXCEPT ![p] = Seen(old, data')]
    BY <1>0, <2>1, <2>5, OthersSeen
  <2>7. Seen(old, data') = Seen(old, data)
    BY <2>1 DEF Seen
  <2>8. QED
    BY <2>4, <2>6, <2>7 DEF Nothing, Calls
<1>8. QED
  BY <1>1, <1>2, <1>3, <1>4, <1>5, <1>6, <1>7

LEMMA SeenDecode == ASSUME IInv, IInv', NEW p \in Procs, Decode(p) PROVE Nothing
<1> DEFINE old == proc[p]
           shut == [old EXCEPT !.fd = Missing, !.buf = <<>>]
           z == Done(shut, "ok")
           q == [z EXCEPT !.got = old.buf[1]]
<1>1. /\ old.op = "get" /\ old.pc = "read" /\ dir' = dir /\ FreeUnused
      /\ Len(old.buf) = Len(data[old.fd])
  BY DEF Decode, At
<1>2. Good(old, Present, data) /\ old \in Locals /\ old.id = Missing /\ old.val = Missing
  BY <1>1 DEF IInv, Good, Held
<1>3. PICK v \in Values :
        /\ data[old.fd] = Whole(v) /\ Len(old.buf) <= Chunks
        /\ \A k \in 1..Len(old.buf) : old.buf[k] = v
  BY <1>1, <1>2 DEF Good, Reads
<1>4. old.buf = Whole(v) /\ old.buf[1] = v
  BY <1>1, <1>2, <1>3, WholeFacts, SameWhole DEF Locals
<1>5. Set(p, q)
  BY <1>4 DEF Decode
<1>6. shut \in Locals /\ shut.op = old.op
  <2>1. <<>> \in Seq(Values)
    OBVIOUS
  <2>2. QED
    BY <1>2, <2>1 DEF Locals
<1> HIDE DEF shut
<1>7. /\ z \in Locals /\ z.op = "get" /\ z.pc = "return" /\ z.id = Missing /\ z.val = Missing
      /\ z.res = "ok"
  BY <1>1, <1>6, DoneFields DEF Results
<1> HIDE DEF z
<1>8. /\ q \in Locals /\ q.op = "get" /\ q.pc = "return" /\ q.id = Missing /\ q.val = Missing
      /\ q.res = "ok" /\ q.got = v
  BY <1>4, <1>7 DEF Locals
<1> HIDE DEF q
<1>9. EntryOf(data[old.fd]) = v
  BY <1>3, EntryOfWhole
<1>10. Seen(q, data') = Seen(old, data)
  BY <1>1, <1>2, <1>8, <1>9 DEF Seen
<1>11. QED
  BY <1>1, <1>5, <1>8, <1>10, Unseen

LEMMA SeenCall == ASSUME IInv, IInv', NEW p \in Procs, CallPoint(p) PROVE Calling(p)
<1>1. PICK o \in {"get", "create", "put", "delete"}, i \in Ids :
        \E v \in IF o \in {"create", "put"} THEN Values ELSE {Missing} :
          Set(p, [IdleProc EXCEPT !.op = o, !.pc = "start", !.id = i, !.val = v])
  BY DEF CallPoint
<1>2. PICK v \in IF o \in {"create", "put"} THEN Values ELSE {Missing} :
        Set(p, [IdleProc EXCEPT !.op = o, !.pc = "start", !.id = i, !.val = v])
  BY <1>1
<1> DEFINE q == [IdleProc EXCEPT !.op = o, !.pc = "start", !.id = i, !.val = v]
<1>3. proc' \in [Procs -> Locals] /\ proc \in [Procs -> Locals]
  BY DEF IInv, TypeOK
<1>4. q \in Locals
  BY <1>2, <1>3 DEF Set
<1>5. Seen(q, data') = [op |-> o, id |-> i, val |-> v, res |-> "none", got |-> Missing]
  BY DEF Seen, IdleProc
<1>6. proc[p] = IdleProc /\ UNCHANGED <<dir, data>>
  BY DEF CallPoint
<1> HIDE DEF q
<1>7. Stored' = Stored /\ Calls' = [Calls EXCEPT ![p] = Seen(q, data')]
  BY <1>2, <1>4, <1>6, Aside DEF q
<1>8. Calls[p] = Nobody
  BY <1>6 DEF Calls, Seen, IdleProc, Nobody
<1>9. QED
  BY <1>5, <1>7, <1>8 DEF Calling, Becomes

\* How a decided operation is seen.
LEMMA SeenDecided ==
  ASSUME NEW q \in Locals, NEW o \in {"get", "create", "put", "delete"}, NEW r, NEW d,
         q.op = o, q.pc # "read", q.id = Missing, q.val = Missing, q.res = r, q.got = Missing
  PROVE  Seen(q, d) = Answered(o, r, Missing)
BY DEF Seen, Answered

LEMMA SeenOpen == ASSUME IInv, IInv', NEW p \in Procs, Open(p) PROVE Getting(p)
<1> DEFINE old == proc[p]
           i == old.id
<1>1. old.op = "get" /\ old.pc = "start" /\ UNCHANGED <<dir, data>>
  BY DEF Open, At
<1>2. /\ old \in Locals /\ i \in Ids /\ old.val = Missing /\ old.res = "none"
      /\ old.got = Missing
  BY <1>1 DEF IInv, Good, Held
<1>3. Calls[p].op = "get" /\ Calls[p].res = "none" /\ Calls[p].id = i
  BY <1>1, <1>2 DEF Calls, Seen
<1>4. CASE dir[i] = Missing
  <2> DEFINE q == Done(old, "ErrNotFound")
  <2>1. Set(p, q)
    BY <1>4 DEF Open
  <2>2. /\ q \in Locals /\ q.op = "get" /\ q.pc = "return" /\ q.id = Missing /\ q.val = Missing
        /\ q.res = "ErrNotFound" /\ q.got = Missing
    BY <1>1, <1>2, DoneFields DEF Results
  <2> HIDE DEF q
  <2>3. Stored' = Stored /\ Calls' = [Calls EXCEPT ![p] = Seen(q, data')]
    BY <1>1, <2>1, <2>2, Aside
  <2>4. Seen(q, data') = Answered("get", "ErrNotFound", Missing)
    BY <2>2, SeenDecided
  <2>5. Stored[i] = Missing
    BY <1>2, <1>4 DEF Stored
  <2>6. QED
    BY <1>3, <2>3, <2>4, <2>5 DEF Getting, Waits, Becomes
<1>5. CASE dir[i] # Missing
  <2> DEFINE q == [old EXCEPT !.pc = "read", !.fd = dir[i], !.id = Missing]
  <2>1. Set(p, q)
    BY <1>5 DEF Open
  <2>2. proc'[p] = q /\ q \in Locals
    BY <2>1 DEF Set, IInv, TypeOK
  <2>3. /\ q.op = "get" /\ q.pc = "read" /\ q.id = Missing /\ q.val = Missing
        /\ q.fd = dir[i] /\ q.res = "none" /\ q.got = Missing
    BY <1>1, <1>2 DEF Locals
  <2> HIDE DEF q
  <2>4. Stored' = Stored /\ Calls' = [Calls EXCEPT ![p] = Seen(q, data')]
    BY <1>1, <2>1, <2>2, Aside
  <2>5. PICK v \in Values : data[dir[i]] = Whole(v)
    BY <1>2, <1>5 DEF IInv, Published, IsWhole, Present
  <2>6. Stored[i] = v /\ v # Missing
    BY <1>2, <1>5, <2>5, EntryOfWhole DEF Stored
  <2>7. EntryOf(data'[q.fd]) = v
    BY <1>1, <2>3, <2>5, EntryOfWhole
  <2>8. Seen(q, data') = Answered("get", "ok", v)
    BY <2>3, <2>7 DEF Seen, Answered
  <2>9. QED
    BY <1>3, <2>4, <2>6, <2>8 DEF Getting, Waits, Becomes
<1>6. QED
  BY <1>4, <1>5

LEMMA SeenFails ==
  ASSUME IInv, IInv', NEW p \in Procs, WriteFails(p) \/ OtherFails(p)
  PROVE  Failing(p) \/ Nothing
<1> DEFINE old == proc[p]
<1>0. old \in Locals /\ Held(old) /\ Course(old)
  BY DEF IInv, Good
<1>1. PICK q \in Locals :
        /\ Set(p, q) /\ dir' = dir /\ (data' = data \/ FreeUnused)
        /\ q.op = old.op /\ q.pc \in {"cleanup", "return"} /\ q.id = Missing
        /\ q.val = Missing /\ q.res = "error" /\ q.got = old.got
  <2>1. CASE WriteFails(p)
    <3>1. /\ Set(p, Decided(old, "cleanup", "error")) /\ UNCHANGED <<dir, data>>
      BY <2>1 DEF WriteFails
    <3>2. QED
      BY <1>0, <3>1, DecidedFields DEF Places, Results
  <2>2. CASE OtherFails(p)
    <3> DEFINE shut == [old EXCEPT !.fd = Missing, !.buf = <<>>,
                                   !.names = {}, !.infos = {}, !.steady = {}]
    <3>1. Set(p, Done(shut, "error")) /\ dir' = dir /\ FreeUnused
      BY <2>2 DEF OtherFails
    <3>2. shut \in Locals /\ shut.op = old.op /\ shut.got = old.got
      <4>1. <<>> \in Seq(Values)
        OBVIOUS
      <4>2. QED
        BY <1>0, <4>1 DEF Locals
    <3> HIDE DEF shut
    <3>3. QED
      BY <3>1, <3>2, DoneFields DEF Results
  <2>3. QED
    BY <2>1, <2>2
<1>2. Stored' = Stored /\ Calls' = [Calls EXCEPT ![p] = Seen(q, data')]
  BY <1>1, Aside
<1>3. old.op \in {"get", "create", "put", "delete", "list"} /\ old.got = Missing
      /\ (old.op # "get" => old.res = "none")
  BY <1>0 DEF WriteFails, OtherFails, At, Held
<1>4. CASE old.op = "list"
  <2>1. Seen(q, data') = Calls[p]
    BY <1>1, <1>4 DEF Calls, Seen
  <2>2. QED
    BY <1>2, <2>1 DEF Nothing, Calls
<1>5. CASE old.op # "list"
  <2>1. Seen(q, data') = Answered(old.op, "error", Missing)
    BY <1>1, <1>3, <1>5, SeenDecided
  <2>2. Calls[p].op = old.op /\ (old.op # "get" => Calls[p].res = "none") /\ old.op # "none"
    BY <1>3, <1>5 DEF Calls, Seen
  <2>3. Calls[p] # Nobody
    BY <2>2 DEF Nobody
  <2>4. QED
    BY <1>2, <2>1, <2>2, <2>3 DEF Failing, Becomes
<1>6. QED
  BY <1>4, <1>5

LEMMA SeenEnd ==
  ASSUME IInv, IInv', NEW p \in Procs, Return(p) \/ Crash(p)
  PROVE  Returning(p) \/ Nothing
<1>1. Set(p, IdleProc) /\ dir' = dir /\ FreeUnused /\ proc[p].pc # "idle"
  BY DEF Return, Crash
<1>2. IdleProc \in Locals /\ Seen(IdleProc, data') = Nobody
  BY IdleGood DEF Good, Seen, IdleProc, Nobody
<1>3. Stored' = Stored /\ Calls' = [Calls EXCEPT ![p] = Nobody]
  BY <1>1, <1>2, Aside
<1>4. CASE Calls[p] = Nobody
  BY <1>3, <1>4 DEF Nothing, Calls
<1>5. CASE Calls[p] # Nobody
  BY <1>3, <1>5 DEF Returning, Becomes
<1>6. QED
  BY <1>4, <1>5

\* What is stored when one name is given to another file, or taken away.
LEMMA StoredMoved ==
  ASSUME NEW i \in Ids, NEW n, NEW e,
         dir' = [dir EXCEPT ![i] = n], dir \in [Ids -> Inodes \cup {Missing}],
         e = IF n = Missing THEN Missing ELSE EntryOf(data'[n]),
         \A j \in Present : j # i => data'[dir[j]] = data[dir[j]]
  PROVE  Stored' = [Stored EXCEPT ![i] = e]
<1>1. \A j \in Ids : (IF dir'[j] = Missing THEN Missing ELSE EntryOf(data'[dir'[j]]))
                        = IF j = i THEN e
                          ELSE IF dir[j] = Missing THEN Missing ELSE EntryOf(data[dir[j]])
  BY DEF Present
<1>2. Stored' = [j \in Ids |-> IF j = i THEN e
                               ELSE IF dir[j] = Missing THEN Missing ELSE EntryOf(data[dir[j]])]
  BY <1>1 DEF Stored
<1>3. QED
  BY <1>2 DEF Stored

\* The entries found under other names, and the open files, are kept.
LEMMA OthersKept ==
  ASSUME IInv, IInv', NEW p \in Procs, NEW i \in Ids, NEW n \in Inodes \cup {Missing},
         dir' = [dir EXCEPT ![i] = n], data' = data \/ FreeUnused,
         \A r \in Procs \ {p} : proc'[r].fd = proc[r].fd
  PROVE  /\ \A j \in Present : j # i => data'[dir[j]] = data[dir[j]]
         /\ \A r \in Procs \ {p} : proc[r].pc = "read" => data'[proc[r].fd] = data[proc[r].fd]
         /\ n # Missing => data'[n] = data[n]
<1>1. TypeOK /\ \A r \in Procs : proc[r] \in Locals /\ Held(proc[r])
  BY DEF IInv, Good
<1>2. \A m \in Inodes : m \in InUse' => data'[m] = data[m]
  BY <1>1, FreeFrame
<1>3. \A j \in Present : j # i => dir[j] \in Inodes /\ dir[j] \in InUse'
  BY <1>1 DEF TypeOK, Present, InUse
<1>4. n # Missing => n \in Inodes /\ n \in InUse'
  BY <1>1 DEF TypeOK, Present, InUse
<1>5. \A r \in Procs \ {p} : proc[r].pc = "read" => proc[r].fd \in Inodes /\ proc[r].fd \in InUse'
  BY <1>1 DEF Held, Locals, InUse
<1>6. QED
  BY <1>2, <1>3, <1>4, <1>5

LEMMA SeenLink == ASSUME IInv, IInv', NEW p \in Procs, Link(p) PROVE Creating(p)
<1> DEFINE old == proc[p]
           i == old.id
           q(r) == Decided(old, "cleanup", r)
<1>1. old.op = "create" /\ old.pc = "publish" /\ data' = data
  BY DEF Link, At
<1>2. /\ old \in Locals /\ i \in Ids /\ old.val \in Values /\ old.res = "none"
      /\ old.got = Missing /\ old.tmp \in Inodes /\ data[old.tmp] = Whole(old.val)
  BY <1>1 DEF IInv, Good, Held, Writes, Locals
<1>3. /\ Calls[p].op = "create" /\ Calls[p].res = "none" /\ Calls[p].id = i
      /\ Calls[p].val = old.val
  BY <1>1, <1>2 DEF Calls, Seen
<1>4. ASSUME NEW r \in {"ok", "ErrExists"}
      PROVE  q(r) \in Locals /\ Seen(q(r), data') = Answered("create", r, Missing)
                /\ q(r).fd = old.fd
  <2>1. /\ q(r) \in Locals /\ q(r).op = "create" /\ q(r).pc = "cleanup" /\ q(r).id = Missing
        /\ q(r).val = Missing /\ q(r).res = r /\ q(r).got = Missing /\ q(r).fd = old.fd
    BY <1>1, <1>2, DecidedFields DEF Places, Results
  <2> HIDE DEF q
  <2>2. QED
    BY <2>1, SeenDecided
<1>5. CASE dir[i] = Missing
  <2>1. Set(p, q("ok")) /\ dir' = [dir EXCEPT ![i] = old.tmp]
    BY <1>5 DEF Link
  <2> HIDE DEF q
  <2>2. /\ proc' \in [Procs -> Locals] /\ proc'[p] = q("ok") /\ proc \in [Procs -> Locals]
        /\ \A r \in Procs \ {p} : proc'[r] = proc[r]
    BY <1>4, <2>1, SetFrame DEF IInv, TypeOK
  <2>3. Calls' = [Calls EXCEPT ![p] = Seen(q("ok"), data')]
    BY <1>1, <2>2, OthersSeen
  <2>4. EntryOf(data'[old.tmp]) = old.val /\ old.tmp # Missing
    BY <1>1, <1>2, EntryOfWhole, InodesAssumption
  <2>5. Stored' = [Stored EXCEPT ![i] = old.val]
    BY <1>1, <1>2, <2>1, <2>4, StoredMoved DEF IInv, TypeOK
  <2>6. Stored[i] = Missing
    BY <1>2, <1>5 DEF Stored
  <2>7. QED
    BY <1>3, <1>4, <2>3, <2>5, <2>6 DEF Creating, Waits, Becomes
<1>6. CASE dir[i] # Missing
  <2>1. Set(p, q("ErrExists")) /\ dir' = dir
    BY <1>6 DEF Link
  <2> HIDE DEF q
  <2>2. Stored' = Stored /\ Calls' = [Calls EXCEPT ![p] = Seen(q("ErrExists"), data')]
    BY <1>1, <1>4, <2>1, Aside
  <2>3. PICK v \in Values : data[dir[i]] = Whole(v)
    BY <1>2, <1>6 DEF IInv, Published, IsWhole, Present
  <2>4. Stored[i] # Missing
    BY <1>2, <1>6, <2>3, EntryOfWhole DEF Stored
  <2>5. QED
    BY <1>3, <1>4, <2>2, <2>4 DEF Creating, Waits, Becomes
<1>7. QED
  BY <1>5, <1>6

LEMMA SeenRename == ASSUME IInv, IInv', NEW p \in Procs, Rename(p) PROVE Putting(p)
<1> DEFINE old == proc[p]
           i == old.id
           z == Decided(old, "cleanup", "ok")
           q == [z EXCEPT !.tmp = Missing]
<1>1. /\ old.op = "put" /\ old.pc = "publish" /\ FreeUnused /\ Set(p, q)
      /\ dir' = [dir EXCEPT ![i] = old.tmp]
  BY DEF Rename, At
<1>2. /\ old \in Locals /\ i \in Ids /\ old.val \in Values /\ old.res = "none"
      /\ old.got = Missing /\ old.tmp \in Inodes /\ data[old.tmp] = Whole(old.val)
  BY <1>1 DEF IInv, Good, Held, Writes, Locals
<1>3. /\ Calls[p].op = "put" /\ Calls[p].res = "none" /\ Calls[p].id = i
      /\ Calls[p].val = old.val
  BY <1>1, <1>2 DEF Calls, Seen
<1>4. /\ z \in Locals /\ z.op = "put" /\ z.pc = "cleanup" /\ z.id = Missing
      /\ z.val = Missing /\ z.res = "ok" /\ z.got = Missing
  BY <1>1, <1>2, DecidedFields DEF Places, Results
<1> HIDE DEF z
<1>5. /\ q \in Locals /\ q.op = "put" /\ q.pc = "cleanup" /\ q.id = Missing
      /\ q.val = Missing /\ q.res = "ok" /\ q.got = Missing
  BY <1>4 DEF Locals
<1> HIDE DEF q
<1>6. Seen(q, data') = Answered("put", "ok", Missing)
  BY <1>5, SeenDecided
<1>7. /\ proc' \in [Procs -> Locals] /\ proc'[p] = q /\ proc \in [Procs -> Locals]
      /\ \A r \in Procs \ {p} : proc'[r] = proc[r]
  BY <1>1, <1>5, SetFrame DEF IInv, TypeOK
<1>8. /\ \A j \in Present : j # i => data'[dir[j]] = data[dir[j]]
      /\ \A r \in Procs \ {p} : proc[r].pc = "read" => data'[proc[r].fd] = data[proc[r].fd]
      /\ data'[old.tmp] = data[old.tmp]
  <2>1. old.tmp # Missing /\ old.tmp \in Inodes \cup {Missing}
    BY <1>2, InodesAssumption
  <2>2. \A r \in Procs \ {p} : proc'[r].fd = proc[r].fd
    BY <1>7
  <2> HIDE DEF old
  <2>3. QED
    BY <1>1, <1>2, <2>1, <2>2, OthersKept
<1>9. Calls' = [Calls EXCEPT ![p] = Seen(q, data')]
  BY <1>7, <1>8, OthersSeen
<1>10. EntryOf(data'[old.tmp]) = old.val /\ old.tmp # Missing
  BY <1>2, <1>8, EntryOfWhole, InodesAssumption
<1>11. dir \in [Ids -> Inodes \cup {Missing}]
  BY DEF IInv, TypeOK
<1>12. Stored' = [Stored EXCEPT ![i] = old.val]
  <2>1. old.val = IF old.tmp = Missing THEN Missing ELSE EntryOf(data'[old.tmp])
    BY <1>10
  <2>2. i \in Ids /\ dir' = [dir EXCEPT ![i] = old.tmp]
    BY <1>1, <1>2
  <2>3. \A j \in Present : j # i => data'[dir[j]] = data[dir[j]]
    BY <1>8
  <2>4. QED
    BY <1>11, <2>1, <2>2, <2>3, StoredMoved
<1>13. QED
  BY <1>3, <1>6, <1>9, <1>12 DEF Putting, Waits, Becomes

LEMMA SeenRemove == ASSUME IInv, IInv', NEW p \in Procs, Remove(p) PROVE Deleting(p)
<1> DEFINE old == proc[p]
           i == old.id
           q(r) == Done(old, r)
<1>1. old.op = "delete" /\ old.pc = "start" /\ FreeUnused
  BY DEF Remove, At
<1>2. /\ old \in Locals /\ i \in Ids /\ old.val = Missing /\ old.res = "none"
      /\ old.got = Missing
  BY <1>1 DEF IInv, Good, Held
<1>3. Calls[p].op = "delete" /\ Calls[p].res = "none" /\ Calls[p].id = i
  BY <1>1, <1>2 DEF Calls, Seen
<1>4. ASSUME NEW r \in {"ok", "ErrNotFound"}
      PROVE  q(r) \in Locals /\ Seen(q(r), data') = Answered("delete", r, Missing)
  <2>1. /\ q(r) \in Locals /\ q(r).op = "delete" /\ q(r).pc = "return" /\ q(r).id = Missing
        /\ q(r).val = Missing /\ q(r).res = r /\ q(r).got = Missing
    BY <1>1, <1>2, DoneFields DEF Results
  <2> HIDE DEF q
  <2>2. QED
    BY <2>1, SeenDecided
<1>5. CASE dir[i] = Missing
  <2>1. Set(p, q("ErrNotFound")) /\ dir' = dir
    BY <1>5 DEF Remove
  <2> HIDE DEF q
  <2>2. Stored' = Stored /\ Calls' = [Calls EXCEPT ![p] = Seen(q("ErrNotFound"), data')]
    BY <1>1, <1>4, <2>1, Aside
  <2>3. Stored[i] = Missing
    BY <1>2, <1>5 DEF Stored
  <2>4. QED
    BY <1>3, <1>4, <2>2, <2>3 DEF Deleting, Waits, Becomes
<1>6. CASE dir[i] # Missing
  <2>1. /\ dir' = [dir EXCEPT ![i] = Missing]
        /\ proc' = [r \in Procs |-> IF r = p THEN q("ok") ELSE Forget(proc[r], i)]
    BY <1>6 DEF Remove
  <2> HIDE DEF q
  <2>2. proc \in [Procs -> Locals] /\ proc' \in [Procs -> Locals] /\ proc'[p] = q("ok")
    BY <2>1 DEF IInv, TypeOK
  <2>3. ASSUME NEW r \in Procs \ {p}
        PROVE  /\ proc'[r].op = proc[r].op /\ proc'[r].pc = proc[r].pc
               /\ proc'[r].id = proc[r].id /\ proc'[r].val = proc[r].val
               /\ proc'[r].res = proc[r].res /\ proc'[r].got = proc[r].got
               /\ proc'[r].fd = proc[r].fd
    <3>1. proc'[r] = Forget(proc[r], i) /\ proc[r] \in Locals
      BY <2>1, <2>2
    <3>2. QED
      BY <3>1 DEF Forget, Locals
  <2>4. /\ \A j \in Present : j # i => data'[dir[j]] = data[dir[j]]
        /\ \A r \in Procs \ {p} : proc[r].pc = "read" => data'[proc[r].fd] = data[proc[r].fd]
    BY <1>1, <1>2, <2>1, <2>3, OthersKept
  <2>5. Calls' = [Calls EXCEPT ![p] = Seen(q("ok"), data')]
    BY <2>2, <2>3, <2>4, OthersSeen
  <2>6. Stored' = [Stored EXCEPT ![i] = Missing]
    <3>1. i \in Ids /\ dir' = [dir EXCEPT ![i] = Missing]
      BY <1>2, <2>1
    <3>2. dir \in [Ids -> Inodes \cup {Missing}]
      BY DEF IInv, TypeOK
    <3>3. Missing = IF Missing = Missing THEN Missing ELSE EntryOf(data'[Missing])
      OBVIOUS
    <3>4. \A j \in Present : j # i => data'[dir[j]] = data[dir[j]]
      BY <2>4
    <3> HIDE DEF i
    <3>5. QED
      BY <3>1, <3>2, <3>3, <3>4, StoredMoved
  <2>7. PICK v \in Values : data[dir[i]] = Whole(v)
    BY <1>2, <1>6 DEF IInv, Published, IsWhole, Present
  <2>8. Stored[i] # Missing
    BY <1>2, <1>6, <2>7, EntryOfWhole DEF Stored
  <2>9. QED
    BY <1>3, <1>4, <2>5, <2>6, <2>8 DEF Deleting, Waits, Becomes
<1>7. QED
  BY <1>5, <1>6

LEMMA RefineInit == Init => A!Init
<1> SUFFICES ASSUME Init PROVE A!Init
  OBVIOUS
<1>1. IInv
  BY InitInvariant
<1>2. Stored \in [Ids -> Values \cup {Missing}]
  <2>1. ASSUME NEW i \in Ids, dir[i] # Missing PROVE EntryOf(data[dir[i]]) \in Values
    <3>1. PICK v \in Values : data[dir[i]] = Whole(v)
      BY <1>1, <2>1 DEF IInv, Published, IsWhole, Present
    <3>2. QED
      BY <3>1, EntryOfWhole
  <2>2. QED
    BY <2>1 DEF Stored
<1>3. Calls = [p \in Procs |-> Nobody]
  BY DEF Init, Calls, Seen, IdleProc, Nobody
<1>4. QED
  BY <1>2, <1>3 DEF A!Init, A!Idle, Nobody

LEMMA RefineStep == IInv /\ IInv' /\ [Next]_vars => [A!Next]_A!vars
<1> SUFFICES ASSUME IInv, IInv', [Next]_vars PROVE A!Next \/ UNCHANGED A!vars
  OBVIOUS
<1>1. CASE UNCHANGED vars
  BY <1>1 DEF vars, A!vars, Stored, Calls
<1>2. CASE Next
  <2>1. \/ Nothing
        \/ \E p \in Procs : \/ Calling(p) \/ Getting(p) \/ Creating(p) \/ Putting(p)
                            \/ Deleting(p) \/ Failing(p) \/ Returning(p)
    BY <1>2, SeenInvisible, SeenDecode, SeenCall, SeenOpen, SeenFails, SeenEnd, SeenLink,
       SeenRename, SeenRemove DEF Next, Step
  <2>2. CASE Nothing
    BY <2>2 DEF Nothing, A!vars
  <2>3. ASSUME NEW p \in Procs, Calling(p) PROVE A!Call(p)
    BY <2>3 DEF Calling, Becomes, A!Call, A!Idle, Nobody
  <2>4. ASSUME NEW p \in Procs, Getting(p) PROVE A!Get(p)
    BY <2>4 DEF Getting, Becomes, Waits, Answered, A!Get, A!Pending, A!Answer, A!Idle, Nobody
  <2>5. ASSUME NEW p \in Procs, Creating(p) PROVE A!Create(p)
    BY <2>5 DEF Creating, Becomes, Waits, Answered, A!Create, A!Pending, A!Answer, A!Idle, Nobody
  <2>6. ASSUME NEW p \in Procs, Putting(p) PROVE A!Put(p)
    BY <2>6 DEF Putting, Becomes, Waits, Answered, A!Put, A!Pending, A!Answer, A!Idle, Nobody
  <2>7. ASSUME NEW p \in Procs, Deleting(p) PROVE A!Delete(p)
    BY <2>7 DEF Deleting, Becomes, Waits, Answered, A!Delete, A!Pending, A!Answer, A!Idle, Nobody
  <2>8. ASSUME NEW p \in Procs, Failing(p) PROVE A!Fail(p)
    BY <2>8 DEF Failing, Becomes, Answered, A!Fail, A!Answer, A!Idle, Nobody
  <2>9. ASSUME NEW p \in Procs, Returning(p) PROVE A!Return(p)
    BY <2>9 DEF Returning, Becomes, A!Return, A!Idle, Nobody
  <2>10. QED
    BY <2>1, <2>2, <2>3, <2>4, <2>5, <2>6, <2>7, <2>8, <2>9 DEF A!Next
<1>3. QED
  BY <1>1, <1>2

(* Seen from their callers, Get, Create, Put and Delete of a directory of  *)
(* files take effect at one instant, that of the open, link, rename and    *)
(* remove, or fail without an effect: the contract of ledger.Store.        *)
THEOREM Implements == Spec => ImplementsAtomicStore
<1>1. QED
  BY RefineInit, RefineStep, Invariance, PTL DEF Spec, ImplementsAtomicStore, A!Spec
===============================================================================
