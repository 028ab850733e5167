---------------------------- MODULE StagingProofs ----------------------------
(***************************************************************************)
(* Theorems about Staging, for any number of hooks, any transcript, any    *)
(* bound of a run, and any number of kills, failures and discards.         *)
(***************************************************************************)
EXTENDS Staging, FiniteSetTheorems, WellFoundedInduction, TLAPS

\* The least element of a set of numbers is one of them.
Less == {ss \in Nat \X Nat : ss[1] < ss[2]}

LEMMA LessIsWellFounded == IsWellFoundedOn(Less, Nat)
BY NatLessThanWellFounded DEF OpToRel, Less

LEMMA MinIsIn ==
  ASSUME NEW S \in SUBSET Nat, S # {}
  PROVE  Min(S) \in S /\ \A y \in S : Min(S) <= y
<1>1. PICK x \in S : \A y \in S : ~(<<y, x>> \in Less)
  BY LessIsWellFounded, WFMin
<1>2. ASSUME NEW y \in S PROVE x <= y
  <2>1. <<y, x>> \in Nat \X Nat /\ <<y, x>>[1] = y /\ <<y, x>>[2] = x
    OBVIOUS
  <2>2. ~(y < x)
    BY <1>1, <2>1 DEF Less
  <2>3. QED
    BY <2>2
<1>3. QED
  BY <1>2 DEF Min

Positions == DOMAIN Transcript

Locals == [pc : {"idle", "list", "run"}, todo : SUBSET Ids, batch : SUBSET Positions,
           known : SUBSET Titles, staged : SUBSET Titles, dropped : Nat, unmet : SUBSET Positions]

TypeOK ==
    /\ entries \in [Ids -> Titles \cup {Missing}]
    /\ said \in 0..Len(Transcript)
    /\ hook \in [Hooks -> Locals]
    /\ blurred \in BOOLEAN

Carries(e, t) == \E i \in Ids : e[i] = t

\* The scan is part of a run; what was never in the ledger since the run started is
\* not taken for known, and as soon as it has left the batch it is counted.
Accounts(q, e) ==
    /\ q.todo # {} => q.pc = "run"
    /\ \A k \in q.unmet : Transcript[k] \notin q.known /\ ~Carries(e, Transcript[k])
    /\ Cardinality(q.unmet \ q.batch) <= q.dropped

\* The scan has the title of every entry, or will read it.
Scans(q, e) ==
    q.pc = "run" => \A i \in Ids : e[i] # Missing => i \in q.todo \/ e[i] \in q.known

Alone(p) == \A r \in Hooks : Active(r) => r = p

IInv ==
    /\ TypeOK
    /\ \A p \in Hooks : Accounts(hook[p], entries)
    /\ ~blurred => \A p \in Hooks : Scans(hook[p], entries) /\ (Active(p) => Alone(p))
    /\ NoSecondCopy
-----------------------------------------------------------------------------
LEMMA FirstIsInBatch ==
  ASSUME TypeOK, NEW p \in Hooks, hook[p].batch # {}
  PROVE  First(p) \in hook[p].batch /\ First(p) \in Positions /\ Title(p) \in Titles
<1>1. hook[p].batch \in SUBSET Positions /\ Positions \subseteq Nat
  BY TranscriptAssumption DEF TypeOK, Locals, Positions
<1>2. First(p) \in hook[p].batch
  BY <1>1, MinIsIn DEF First
<1>3. QED
  BY <1>1, <1>2 DEF Title, Titles, Positions

LEMMA NextIsListed ==
  ASSUME TypeOK, NEW p \in Hooks, hook[p].todo # {}
  PROVE  Min(hook[p].todo) \in hook[p].todo /\ Min(hook[p].todo) \in Ids
BY IdsAssumption, MinIsIn DEF TypeOK, Locals

LEMMA PositionsFinite == \A S \in SUBSET Positions : IsFiniteSet(S) /\ Cardinality(S) \in Nat
<1>1. IsFiniteSet(Positions)
  BY TranscriptAssumption, FS_Interval DEF Positions
<1>2. QED
  BY <1>1, FS_Subset, FS_CardinalityType

LEMMA IdleIsLocal == IdleHook \in Locals
BY DEF IdleHook, Locals

LEMMA IdleAccounts == \A e : Accounts(IdleHook, e)
BY FS_EmptySet DEF Accounts, IdleHook
-----------------------------------------------------------------------------
(* A step of one hook that leaves the ledger alone.                        *)
LEMMA HookStep ==
  ASSUME IInv, NEW p \in Hooks, NEW q \in Locals, Set(p, q), entries' = entries,
         said' = said, blurred' \in BOOLEAN, Accounts(q, entries),
         ~blurred' => /\ ~blurred
                      /\ Scans(q, entries)
                      /\ q.pc = "idle" \/ Alone(p)
  PROVE  IInv'
<1>1. hook' = [hook EXCEPT ![p] = q] /\ hook \in [Hooks -> Locals]
  BY DEF Set, IInv, TypeOK
<1>2. TypeOK'
  BY <1>1 DEF IInv, TypeOK
<1>3. hook'[p] = q /\ \A r \in Hooks \ {p} : hook'[r] = hook[r]
  BY <1>1
<1>4. \A r \in Hooks : Accounts(hook'[r], entries')
  BY <1>3 DEF IInv
<1>5. ASSUME ~blurred'
      PROVE  \A r \in Hooks : Scans(hook'[r], entries') /\ (Active(r)' => Alone(r)')
  BY <1>3, <1>5 DEF IInv, Active, Alone
<1>6. NoSecondCopy'
  BY DEF IInv, NoSecondCopy, Present
<1>7. QED
  BY <1>2, <1>4, <1>5, <1>6 DEF IInv

\* An end of any kind.
LEMMA EndStep ==
  ASSUME IInv, NEW p \in Hooks, Set(p, IdleHook), entries' = entries, said' = said,
         blurred' = blurred
  PROVE  IInv'
<1>1. IdleHook.pc = "idle"
  BY DEF IdleHook
<1>2. Scans(IdleHook, entries)
  BY <1>1 DEF Scans
<1>3. blurred' \in BOOLEAN
  BY DEF IInv, TypeOK
<1>4. QED
  BY <1>1, <1>2, <1>3, IdleIsLocal, IdleAccounts, HookStep

LEMMA StartStep ==
  ASSUME IInv, NEW p \in Hooks, NEW from \in 1..said, Start(p, from)
  PROVE  IInv'
<1> DEFINE turns == from..said
           new == {k \in turns : \A i \in Ids : entries[i] # Transcript[k]}
           q == [IdleHook EXCEPT !.pc = "list", !.batch = turns, !.unmet = new]
<1>1. turns \subseteq Positions /\ new \subseteq Positions
  BY TranscriptAssumption DEF IInv, TypeOK, Positions
<1>2. /\ q \in Locals /\ q.pc = "list" /\ q.batch = turns /\ q.known = {} /\ q.dropped = 0
      /\ q.unmet = new /\ q.todo = {}
  <2> HIDE DEF turns, new
  <2>1. QED
    BY <1>1 DEF IdleHook, Locals
<1>3. Set(p, q) /\ blurred' = (blurred \/ \E r \in Hooks : Active(r)) /\ entries' = entries /\ said' = said
  BY DEF Start
<1> HIDE DEF q
<1>4. q.unmet \ q.batch = {}
  BY <1>2
<1>5. Accounts(q, entries)
  <2>1. \A k \in q.unmet : Transcript[k] \notin q.known /\ ~Carries(entries, Transcript[k])
    BY <1>2 DEF Carries
  <2>2. Cardinality(q.unmet \ q.batch) <= q.dropped
    <3>1. Cardinality({}) = 0
      BY FS_EmptySet
    <3>2. q.dropped = 0
      BY <1>2
    <3>3. QED
      BY <1>4, <3>1, <3>2
  <2>3. QED
    BY <1>2, <2>1, <2>2 DEF Accounts
<1>6. Scans(q, entries)
  BY <1>2 DEF Scans
<1>7. ~blurred' => Alone(p)
  BY <1>3 DEF Alone
<1>8. blurred' \in BOOLEAN /\ (~blurred' => ~blurred)
  BY <1>3 DEF IInv, TypeOK
<1>9. QED
  BY <1>2, <1>3, <1>5, <1>6, <1>7, <1>8, HookStep

LEMMA ListStep == ASSUME IInv, NEW p \in Hooks, List(p) PROVE IInv'
<1> DEFINE q == [hook[p] EXCEPT !.pc = "run", !.todo = Present]
<1>1. hook[p] \in Locals /\ Active(p)
  BY DEF IInv, TypeOK, List, Active
<1>2. /\ q \in Locals /\ q.pc = "run" /\ q.todo = Present /\ q.batch = hook[p].batch /\ q.known = hook[p].known
      /\ q.unmet = hook[p].unmet /\ q.dropped = hook[p].dropped
  BY <1>1 DEF Locals, Present
<1>3. Set(p, q) /\ entries' = entries /\ said' = said /\ blurred' = blurred
  BY DEF List
<1> HIDE DEF q
<1>4. Accounts(q, entries)
  BY <1>2 DEF IInv, Accounts
<1>5. Scans(q, entries)
  BY <1>2 DEF Scans, Present
<1>6. blurred' \in BOOLEAN /\ (~blurred' => Alone(p))
  BY <1>1, <1>3 DEF IInv, TypeOK
<1>7. QED
  BY <1>2, <1>3, <1>4, <1>5, <1>6, HookStep

LEMMA ReadTitleStep == ASSUME IInv, NEW p \in Hooks, ReadTitle(p) PROVE IInv'
<1> DEFINE i == Min(hook[p].todo)
           q == [hook[p] EXCEPT !.todo = @ \ {i}, !.known = @ \cup ({entries[i]} \ {Missing})]
<1>1. hook[p] \in Locals /\ hook[p].pc = "run" /\ Active(p)
  BY DEF IInv, TypeOK, Active, ReadTitle, Accounts
<1>2. i \in Ids /\ entries[i] \in Titles \cup {Missing}
  BY NextIsListed DEF ReadTitle, IInv, TypeOK
<1>3. Set(p, q) /\ entries' = entries /\ said' = said /\ blurred' = blurred
  BY DEF ReadTitle
<1> HIDE DEF i
<1>4. /\ q \in Locals /\ q.pc = hook[p].pc /\ q.todo = hook[p].todo \ {i}
      /\ q.known = hook[p].known \cup ({entries[i]} \ {Missing})
      /\ q.batch = hook[p].batch /\ q.unmet = hook[p].unmet /\ q.dropped = hook[p].dropped
  BY <1>1, <1>2 DEF Locals
<1> HIDE DEF q
<1>5. Accounts(q, entries)
  BY <1>1, <1>2, <1>4 DEF IInv, Accounts, Carries
<1>6. Scans(hook[p], entries) => Scans(q, entries)
  BY <1>1, <1>4 DEF Scans
<1>7. blurred' \in BOOLEAN /\ (~blurred' => Scans(q, entries) /\ Alone(p))
  BY <1>1, <1>3, <1>6 DEF IInv, TypeOK
<1>8. QED
  BY <1>3, <1>4, <1>5, <1>7, HookStep

LEMMA ReadFailsStep == ASSUME IInv, NEW p \in Hooks, ReadFails(p) PROVE IInv'
<1> DEFINE i == Min(hook[p].todo)
           q == [hook[p] EXCEPT !.todo = @ \ {i}]
<1>1. hook[p] \in Locals
  BY DEF IInv, TypeOK
<1>2. Set(p, q) /\ entries' = entries /\ said' = said /\ blurred' = TRUE
  BY DEF ReadFails
<1> HIDE DEF i
<1>3. /\ q \in Locals /\ q.pc = hook[p].pc /\ q.todo \subseteq hook[p].todo
      /\ q.known = hook[p].known /\ q.batch = hook[p].batch
      /\ q.unmet = hook[p].unmet /\ q.dropped = hook[p].dropped
  BY <1>1 DEF Locals
<1> HIDE DEF q
<1>4. Accounts(q, entries)
  BY <1>3 DEF IInv, Accounts
<1>5. QED
  BY <1>2, <1>3, <1>4, HookStep

\* A candidate leaves the batch.  Either its title is known, and then it was in
\* the ledger, or it is counted.
LEMMA Passed ==
  ASSUME IInv, NEW p \in Hooks, Staging(p), NEW q \in Locals,
         q.pc = hook[p].pc, q.todo = hook[p].todo, q.known = hook[p].known,
         q.unmet = hook[p].unmet, q.batch = hook[p].batch \ {First(p)},
         \/ Title(p) \in hook[p].known /\ q.dropped = hook[p].dropped
         \/ q.dropped = hook[p].dropped + 1
  PROVE  Accounts(q, entries) /\ (Scans(hook[p], entries) => Scans(q, entries))
<1> DEFINE k == First(p)
           old == hook[p]
           counted == old.unmet \ old.batch
<1>1. old \in Locals /\ k \in old.batch /\ q.batch = old.batch \ {k}
  BY FirstIsInBatch DEF IInv, TypeOK, Staging
<1>2. Accounts(old, entries)
  BY DEF IInv
<1>3. IsFiniteSet(counted) /\ Cardinality(counted) \in Nat /\ old.dropped \in Nat
  BY <1>1, PositionsFinite DEF Locals
<1>4. Cardinality(counted) <= old.dropped
  BY <1>2 DEF Accounts
<1>5. CASE k \in old.unmet
  <2>1. q.dropped = old.dropped + 1
    BY <1>2, <1>5 DEF Accounts, Title
  <2>2. q.unmet \ q.batch = counted \cup {k} /\ k \notin counted
    BY <1>1, <1>5
  <2> HIDE DEF counted, k
  <2>3. Cardinality(counted \cup {k}) = Cardinality(counted) + 1
    BY <1>3, <2>2, FS_AddElement
  <2>4. Cardinality(q.unmet \ q.batch) <= q.dropped
    BY <1>3, <1>4, <2>1, <2>2, <2>3
  <2>5. QED
    BY <1>2, <2>4 DEF Accounts, Scans
<1>6. CASE k \notin old.unmet
  <2>1. q.unmet \ q.batch = counted
    BY <1>1, <1>6
  <2> HIDE DEF counted, k
  <2>2. Cardinality(q.unmet \ q.batch) <= q.dropped
    BY <1>3, <1>4, <2>1
  <2>3. QED
    BY <1>2, <2>2 DEF Accounts, Scans
<1>7. QED
  BY <1>5, <1>6

LEMMA DuplicateStep == ASSUME IInv, NEW p \in Hooks, Duplicate(p) PROVE IInv'
<1> DEFINE k == First(p)
           q == [hook[p] EXCEPT !.batch = @ \ {k}]
<1>1. hook[p] \in Locals
  BY DEF IInv, TypeOK
<1>2. Set(p, q) /\ Staging(p) /\ Title(p) \in hook[p].known
      /\ entries' = entries /\ said' = said /\ blurred' = blurred
  BY DEF Duplicate
<1>3. /\ q \in Locals /\ q.pc = hook[p].pc /\ q.todo = hook[p].todo /\ q.known = hook[p].known
      /\ q.unmet = hook[p].unmet /\ q.batch = hook[p].batch \ {k} /\ q.dropped = hook[p].dropped
  <2> HIDE DEF k
  <2>1. QED
    BY <1>1 DEF Locals
<1> HIDE DEF q
<1>4. Accounts(q, entries) /\ (Scans(hook[p], entries) => Scans(q, entries))
  BY <1>2, <1>3, Passed
<1>5. blurred' \in BOOLEAN /\ Active(p)
  BY <1>2 DEF IInv, TypeOK, Active, Staging
<1>6. QED
  BY <1>2, <1>3, <1>4, <1>5, HookStep DEF IInv

LEMMA DropStep == ASSUME IInv, NEW p \in Hooks, Drop(p) PROVE IInv'
<1> DEFINE k == First(p)
           n == hook[p].dropped + 1
           q == [hook[p] EXCEPT !.batch = @ \ {k}, !.dropped = n]
<1>1. hook[p] \in Locals /\ n \in Nat
  BY DEF IInv, TypeOK, Locals
<1>2. Set(p, q) /\ Staging(p) /\ entries' = entries /\ said' = said /\ blurred' = blurred
  BY DEF Drop
<1>3. /\ q \in Locals /\ q.pc = hook[p].pc /\ q.todo = hook[p].todo /\ q.known = hook[p].known
      /\ q.unmet = hook[p].unmet /\ q.batch = hook[p].batch \ {k} /\ q.dropped = n
  <2> HIDE DEF k, n
  <2>1. QED
    BY <1>1 DEF Locals
<1> HIDE DEF q
<1>4. Accounts(q, entries) /\ (Scans(hook[p], entries) => Scans(q, entries))
  BY <1>2, <1>3, Passed
<1>5. blurred' \in BOOLEAN /\ Active(p)
  BY <1>2 DEF IInv, TypeOK, Active, Staging
<1>6. QED
  BY <1>2, <1>3, <1>4, <1>5, HookStep DEF IInv

\* The title is new, so nothing in the ledger carries it, unless another hook is at
\* work; and it counts as met from now on.
LEMMA AddStep == ASSUME IInv, NEW p \in Hooks, Add(p) PROVE IInv'
<1> DEFINE k == First(p)
           t == Title(p)
           i == Min(Ids \ Present)
           q == [hook[p] EXCEPT !.batch = @ \ {k}, !.known = @ \cup {t}, !.staged = @ \cup {t}]
           Met(r) == [r EXCEPT !.unmet = {n \in @ : Transcript[n] # t}]
<1>1. /\ entries \in [Ids -> Titles \cup {Missing}] /\ hook \in [Hooks -> Locals]
      /\ said' = said /\ blurred' = blurred /\ blurred \in BOOLEAN /\ said \in 0..Len(Transcript)
  BY DEF IInv, TypeOK, Add
<1>2. k \in hook[p].batch /\ k \in Positions /\ t \in Titles /\ t = Transcript[k]
      /\ hook[p].pc = "run" /\ hook[p].todo = {} /\ t \notin hook[p].known
  BY FirstIsInBatch DEF IInv, Add, Staging, Title
<1>3. i \in Ids /\ entries[i] = Missing
  BY IdsAssumption, MinIsIn DEF Add, Present
<1>4. entries' = [entries EXCEPT ![i] = t]
  BY DEF Add, Store
<1>5. /\ hook' = [r \in Hooks |-> Met(IF r = p THEN q ELSE hook[r])]
      /\ hook'[p] = Met(q) /\ \A r \in Hooks \ {p} : hook'[r] = Met(hook[r])
  <2> DEFINE nx == [hook EXCEPT ![p].batch = @ \ {k}, ![p].known = @ \cup {t}, ![p].staged = @ \cup {t}]
  <2>1. hook' = [r \in Hooks |-> Met(nx[r])]
    BY DEF Add, Store
  <2> HIDE DEF k, t, Met
  <2>2. \A r \in Hooks : nx[r] = IF r = p THEN q ELSE hook[r]
    BY <1>1
  <2> HIDE DEF nx, q
  <2>3. hook' = [r \in Hooks |-> Met(IF r = p THEN q ELSE hook[r])]
    BY <2>1, <2>2
  <2>4. QED
    BY <2>3
<1>6. /\ q \in Locals /\ q.pc = "run" /\ q.todo = {} /\ q.batch = hook[p].batch \ {k}
      /\ q.known = hook[p].known \cup {t} /\ q.unmet = hook[p].unmet /\ q.dropped = hook[p].dropped
  <2> HIDE DEF k, t
  <2>1. QED
    BY <1>1, <1>2 DEF Locals
<1>7. ASSUME NEW r \in Locals
      PROVE  /\ Met(r) \in Locals /\ Met(r).pc = r.pc /\ Met(r).todo = r.todo /\ Met(r).batch = r.batch
             /\ Met(r).known = r.known /\ Met(r).dropped = r.dropped
             /\ Met(r).unmet = {n \in r.unmet : Transcript[n] # t}
  <2> HIDE DEF t
  <2>1. QED
    BY DEF Locals
<1> HIDE DEF k, t, i, q, Met
<1>8. TypeOK'
  <2>1. \A r \in Hooks : Met(IF r = p THEN q ELSE hook[r]) \in Locals
    BY <1>1, <1>6, <1>7
  <2>2. hook' \in [Hooks -> Locals]
    BY <1>5, <2>1
  <2>3. entries' \in [Ids -> Titles \cup {Missing}]
    BY <1>1, <1>2, <1>4
  <2>4. QED
    BY <1>1, <2>2, <2>3 DEF TypeOK
<1>9. ASSUME NEW r \in Hooks PROVE Accounts(hook'[r], entries')
  <2> DEFINE old == hook[r]
             new == hook'[r]
  <2>1. /\ old \in Locals /\ new \in Locals /\ new.dropped = old.dropped
        /\ new.todo = old.todo /\ new.pc = old.pc
        /\ new.unmet = {n \in old.unmet : Transcript[n] # t}
    BY <1>1, <1>2, <1>5, <1>6, <1>7, ZenonT(60)
  <2>2. new.known \subseteq old.known \cup {t} /\ new.unmet \ new.batch \subseteq old.unmet \ old.batch
    BY <1>1, <1>2, <1>5, <1>6, <1>7
  <2>3. Accounts(old, entries)
    BY DEF IInv
  <2> HIDE DEF new
  <2>4. ASSUME NEW n \in new.unmet
        PROVE  Transcript[n] \notin new.known /\ ~Carries(entries', Transcript[n])
    BY <1>1, <1>4, <2>1, <2>2, <2>3, <2>4 DEF Accounts, Carries
  <2>5. IsFiniteSet(old.unmet \ old.batch)
    BY <2>1, PositionsFinite DEF Locals
  <2>6. Cardinality(new.unmet \ new.batch) <= Cardinality(old.unmet \ old.batch)
    BY <2>2, <2>5, FS_Subset
  <2>7. Cardinality(new.unmet \ new.batch) \in Nat /\ Cardinality(old.unmet \ old.batch) \in Nat
        /\ old.dropped \in Nat
    BY <2>1, PositionsFinite DEF Locals
  <2>8. QED
    BY <2>1, <2>3, <2>4, <2>6, <2>7 DEF Accounts, new
<1>10. ASSUME ~blurred' PROVE \A j \in Present : entries[j] # t
  <2>1. Scans(hook[p], entries)
    BY <1>1, <1>10 DEF IInv
  <2>2. QED
    BY <1>2, <2>1 DEF Scans, Present
<1>11. ASSUME ~blurred', NEW r \in Hooks PROVE Scans(hook'[r], entries') /\ (Active(r)' => Alone(r)')
  <2>1. hook'[r].pc = hook[r].pc /\ \A m \in Hooks : hook'[m].pc = hook[m].pc
    BY <1>1, <1>2, <1>5, <1>6, <1>7
  <2>2. Active(p) /\ Alone(p)
    BY <1>1, <1>2, <1>11 DEF IInv, Active
  <2>3. Active(r)' => Alone(r)'
    BY <1>1, <1>11, <2>1 DEF IInv, Active, Alone
  <2>4. CASE r = p
    <3>1. hook'[p].todo = {} /\ hook'[p].known = hook[p].known \cup {t}
      BY <1>5, <1>6, <1>7
    <3>2. Scans(hook[p], entries)
      BY <1>1, <1>11 DEF IInv
    <3>3. QED
      BY <1>1, <1>2, <1>4, <2>3, <2>4, <3>1, <3>2 DEF Scans
  <2>5. CASE r # p
    BY <2>1, <2>2, <2>3, <2>5 DEF Alone, Active, Scans
  <2>6. QED
    BY <2>4, <2>5
<1>12. NoSecondCopy'
  BY <1>1, <1>3, <1>4, <1>10 DEF IInv, NoSecondCopy, Present
<1>13. QED
  BY <1>8, <1>9, <1>11, <1>12 DEF IInv

LEMMA DiscardStep == ASSUME IInv, Discard PROVE IInv'
<1>1. PICK i \in Present : entries' = [entries EXCEPT ![i] = Missing]
  BY DEF Discard
<1>2. said' = said /\ hook' = hook /\ blurred' = blurred /\ i \in Ids
  BY <1>1 DEF Discard, Present
<1>3. \A j \in Ids : entries'[j] = IF j = i THEN Missing ELSE entries[j]
  BY <1>1 DEF IInv, TypeOK
<1>4. TypeOK'
  BY <1>1, <1>2 DEF IInv, TypeOK
<1>5. \A n \in Positions : Transcript[n] # Missing
  BY MissingAssumption DEF Titles, Positions
<1>6. ASSUME NEW p \in Hooks PROVE Accounts(hook'[p], entries')
  <2>1. hook[p] \in Locals /\ Accounts(hook[p], entries)
    BY DEF IInv, TypeOK
  <2>2. QED
    BY <1>2, <1>3, <1>5, <2>1 DEF Accounts, Carries, Locals
<1>7. ASSUME ~blurred', NEW p \in Hooks PROVE Scans(hook'[p], entries') /\ (Active(p)' => Alone(p)')
  BY <1>2, <1>3, <1>7 DEF IInv, Scans, Active, Alone
<1>8. NoSecondCopy'
  BY <1>2, <1>3 DEF IInv, NoSecondCopy, Present
<1>9. QED
  BY <1>4, <1>6, <1>7, <1>8 DEF IInv

LEMMA SpeakStep == ASSUME IInv, Speak PROVE IInv'
<1>1. entries' = entries /\ hook' = hook /\ blurred' = blurred /\ said' \in 0..Len(Transcript)
  BY TranscriptAssumption DEF Speak, IInv, TypeOK
<1>2. QED
  BY <1>1 DEF IInv, TypeOK, NoSecondCopy, Present, Active, Alone

LEMMA StutterStep == ASSUME IInv, UNCHANGED vars PROVE IInv'
BY DEF vars, IInv, TypeOK, NoSecondCopy, Present, Active, Alone
-----------------------------------------------------------------------------
LEMMA InitInvariant == Init => IInv
<1> SUFFICES ASSUME Init PROVE IInv
  OBVIOUS
<1>1. TypeOK
  <2>1. Len(Transcript) \in Nat /\ 0 \in 0..Len(Transcript)
    BY TranscriptAssumption
  <2>2. QED
    BY <2>1, IdleIsLocal DEF Init, TypeOK
<1>2. \A p \in Hooks : hook[p] = IdleHook /\ hook[p].pc = "idle"
  BY DEF Init, IdleHook
<1>3. \A p \in Hooks : Accounts(hook[p], entries)
  BY <1>2, IdleAccounts
<1>4. QED
  BY <1>1, <1>2, <1>3 DEF IInv, Init, NoSecondCopy, Present, Scans, Active

LEMMA StepInvariant == IInv /\ [Next]_vars => IInv'
<1> SUFFICES ASSUME IInv, [Next]_vars PROVE IInv'
  OBVIOUS
<1>1. ASSUME NEW p \in Hooks, StartLastTurn(p) \/ StartWhole(p) PROVE IInv'
  <2>1. said \in Nat
    BY TranscriptAssumption DEF IInv, TypeOK
  <2>2. PICK from \in 1..said : Start(p, from)
    BY <1>1, <2>1 DEF StartLastTurn, StartWhole
  <2>3. QED
    BY <2>2, StartStep
<1>2. ASSUME NEW p \in Hooks, Step(p) PROVE IInv'
  <2>1. CASE ReadTitle(p)
    BY <2>1, ReadTitleStep
  <2>2. CASE Return(p)
    BY <2>2, EndStep DEF Return
  <2>3. QED
    BY <1>2, <2>1, <2>2, ListStep, DuplicateStep, DropStep, AddStep DEF Step
<1>3. ASSUME NEW p \in Hooks, ReadFails(p) \/ Fails(p) \/ Kill(p) PROVE IInv'
  <2>1. CASE Fails(p)
    BY <2>1, EndStep DEF Fails
  <2>2. CASE Kill(p)
    BY <2>2, EndStep DEF Kill
  <2>3. QED
    BY <1>3, <2>1, <2>2, ReadFailsStep
<1>4. QED
  BY <1>1, <1>2, <1>3, SpeakStep, DiscardStep, StutterStep DEF Next

(* Every reachable state satisfies the inductive invariant: what the hooks *)
(* under way take for known was in the ledger during their run.            *)
THEOREM Invariance == Spec => []IInv
BY InitInvariant, StepInvariant, PTL DEF Spec
-----------------------------------------------------------------------------
(* However often the transcript is read again, from any turn on, whatever  *)
(* was killed before and whatever a human has discarded: without an        *)
(* overlap of hooks or a read that failed, no two captures have one title. *)
THEOREM OneCapture == Spec => []NoSecondCopy
<1>1. IInv => NoSecondCopy
  BY DEF IInv
<1>2. QED
  BY <1>1, Invariance, PTL

(* A run that returns has counted each candidate that it neither staged    *)
(* nor found in the ledger, also while other hooks stage and captures go.  *)
THEOREM Counted == Spec => NothingLostQuietly
<1>1. ASSUME IInv, NEW p \in Hooks, Return(p)
      PROVE  Cardinality(hook[p].unmet) <= hook[p].dropped
  <2>1. Accounts(hook[p], entries) /\ hook[p].batch = {}
    BY <1>1 DEF IInv, Return
  <2>2. hook[p].unmet \ {} = hook[p].unmet
    OBVIOUS
  <2>3. QED
    BY <2>1, <2>2 DEF Accounts
<1>2. IInv => [\A p \in Hooks : Return(p) => Cardinality(hook[p].unmet) <= hook[p].dropped]_vars
  BY <1>1
<1>3. QED
  BY <1>2, Invariance, PTL DEF NothingLostQuietly
=============================================================================
