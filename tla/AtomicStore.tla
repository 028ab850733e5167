----------------------------- MODULE AtomicStore ----------------------------
(***************************************************************************)
(* The contract of ledger.Store (ledger/store.go) for its point            *)
(* operations: each Get, Create, Put and Delete takes effect at one        *)
(* instant between its call and its return, or fails without an effect.    *)
(* Nothing is promised about which of several concurrent calls goes first. *)
(* List is not here: it is not atomic, and LocalStore says what it is.     *)
(***************************************************************************)
CONSTANTS
    Procs,     \* callers
    Ids,       \* entry ids
    Values,    \* entry contents
    Missing    \* no entry under this id

VARIABLES
    store,     \* store[i]: what is stored under id i
    call       \* call[p]: the operation p has under way, and how it stands

vars == <<store, call>>

Idle == [op |-> "none", id |-> Missing, val |-> Missing, res |-> "none", got |-> Missing]

Init ==
    /\ store \in [Ids -> Values \cup {Missing}]
    /\ call = [p \in Procs |-> Idle]

Call(p) ==
    /\ call[p] = Idle
    /\ \E o \in {"get", "create", "put", "delete"}, i \in Ids :
       \E v \in IF o \in {"create", "put"} THEN Values ELSE {Missing} :
         call' = [call EXCEPT ![p] = [op |-> o, id |-> i, val |-> v,
                                       res |-> "none", got |-> Missing]]
    /\ UNCHANGED store

Pending(p, o) == call[p].op = o /\ call[p].res = "none"

\* The arguments of a call that has been answered do not matter any more.
Answer(p, r, g) ==
    call' = [call EXCEPT ![p] = [Idle EXCEPT !.op = call[p].op, !.res = r, !.got = g]]

Get(p) ==
    /\ Pending(p, "get")
    /\ IF store[call[p].id] = Missing
         THEN Answer(p, "ErrNotFound", Missing)
         ELSE Answer(p, "ok", store[call[p].id])
    /\ UNCHANGED store

Create(p) ==
    /\ Pending(p, "create")
    /\ IF store[call[p].id] # Missing
         THEN Answer(p, "ErrExists", Missing) /\ UNCHANGED store
         ELSE /\ Answer(p, "ok", Missing)
              /\ store' = [store EXCEPT ![call[p].id] = call[p].val]

Put(p) ==
    /\ Pending(p, "put")
    /\ Answer(p, "ok", Missing)
    /\ store' = [store EXCEPT ![call[p].id] = call[p].val]

Delete(p) ==
    /\ Pending(p, "delete")
    /\ IF store[call[p].id] = Missing
         THEN Answer(p, "ErrNotFound", Missing) /\ UNCHANGED store
         ELSE /\ Answer(p, "ok", Missing)
              /\ store' = [store EXCEPT ![call[p].id] = Missing]

\* A Get may also fail after what it would have returned was decided.
Fail(p) ==
    /\ call[p] # Idle
    /\ call[p].res = "none" \/ call[p].op = "get"
    /\ Answer(p, "error", Missing)
    /\ UNCHANGED store

\* A call ends by returning, or because its process died before or after it
\* took effect; nobody hears of it then.
Return(p) ==
    /\ call[p] # Idle
    /\ call' = [call EXCEPT ![p] = Idle]
    /\ UNCHANGED store

Next ==
    \E p \in Procs :
        Call(p) \/ Get(p) \/ Create(p) \/ Put(p) \/ Delete(p) \/ Fail(p) \/ Return(p)

Spec == Init /\ [][Next]_vars
=============================================================================
