----------------------------- MODULE DistillProofs -----------------------------
(***************************************************************************)
(* Theorems about the loop of dira distill, for any ledger, any number of  *)
(* cards, keys and failures, and whatever others do to the ledger.         *)
(***************************************************************************)
EXTENDS Distill, TLAPS

Entry == [title : Titles, state : {"staged", "accepted"}, confirmed : BOOLEAN,
          body : Bodies \cup {NoBody}]
Act == [act : {"confirm", "discard", "edit"}, after : Entry \cup {Missing}]
Session == [pc : {"list", "read", "key", "editPut", "confirmEdit", "undoPut",
                  "done", "quit", "gaveUp", "failed"},
            todo : SUBSET Ids, cards : Seq(Ids \X Entry), position : Nat,
            draft : Entry \cup {Missing}, acts : Seq(Act), undoable : BOOLEAN, failures : Nat,
            touched : SUBSET Ids, raced : SUBSET Ids, halves : SUBSET Ids]

\* One act for every card that came before, and no card twice.
Shaped(l) ==
    /\ l.position = Len(l.acts) + 1 /\ l.position <= Len(l.cards) + 1
    /\ l.pc \in {"list", "read"} => l.acts = <<>>
    /\ l.pc = "list" => l.cards = <<>>
    /\ l.pc = "read" => \A k \in 1..Len(l.cards), i \in l.todo : l.cards[k][1] < i
    /\ l.pc \in {"key", "editPut", "confirmEdit", "undoPut"} => l.position <= Len(l.cards)
    /\ \A k \in 1..Len(l.cards) : \A j \in 1..(k - 1) : l.cards[j][1] < l.cards[k][1]
    /\ l.undoable \/ l.pc = "undoPut" => l.position > 1
    /\ l.pc \in {"editPut", "confirmEdit"} => l.draft \in Entry
    /\ \A k \in 1..Len(l.acts) : l.acts[k].act = "discard" => l.acts[k].after = Missing
    /\ l.pc = "undoPut" => l.acts[l.position - 1].act # "discard"

\* What the session says of the files, and what its second reads found there.
Told(l, f) ==
    /\ \A k \in 1..Len(l.acts) : l.cards[k][1] \notin l.touched => f[l.cards[k][1]] = l.acts[k].after
    /\ \A k \in l.position..Len(l.cards) :
          l.cards[k][1] \notin l.touched \cup l.halves => f[l.cards[k][1]] = l.cards[k][2]
    /\ l.pc = "editPut" /\ l.cards[l.position][1] \notin l.raced =>
          f[l.cards[l.position][1]] = l.cards[l.position][2]
    /\ l.pc = "undoPut" /\ l.cards[l.position - 1][1] \notin l.raced =>
          f[l.cards[l.position - 1][1]] = l.acts[l.position - 1].after

DistillInv ==
    /\ entries \in [Ids -> Entry \cup {Missing}]
    /\ loop \in Session
    /\ Shaped(loop)
    /\ Told(loop, entries)

-----------------------------------------------------------------------------
\* The card the loop shows, and the one before it.
LEMMA CardFacts ==
  ASSUME DistillInv, loop.pc \in {"key", "editPut", "confirmEdit", "undoPut"}
  PROVE  /\ loop.position \in 1..Len(loop.cards)
         /\ CardId \in Ids /\ CardEntry \in Entry
         /\ loop.position > 1 => PreviousId \in Ids /\ Previous[2] \in Entry
         /\ loop.position > 1 => PreviousAct = loop.acts[loop.position - 1] /\ PreviousAct \in Act
         /\ \A k \in 1..Len(loop.cards) : loop.cards[k][1] \in Ids /\ loop.cards[k][1] \in Nat
      /\ Len(loop.cards) \in Nat /\ Len(loop.acts) \in Nat
<1>1. /\ loop.position \in 1..Len(loop.cards) /\ loop.position = Len(loop.acts) + 1
      /\ loop.cards \in Seq(Ids \X Entry) /\ loop.acts \in Seq(Act)
  BY DEF DistillInv, Shaped, Session
<1>2. Card \in Ids \X Entry
  BY <1>1 DEF Card
<1>3. loop.position > 1 => Previous \in Ids \X Entry
  BY <1>1 DEF Previous
<1>4. loop.position > 1 => PreviousAct = loop.acts[loop.position - 1] /\ PreviousAct \in Act
  BY <1>1 DEF PreviousAct
<1>5. \A k \in 1..Len(loop.cards) : loop.cards[k] \in Ids \X Entry
  BY <1>1
<1>6. \A k \in 1..Len(loop.cards) : loop.cards[k][1] \in Ids /\ loop.cards[k][1] \in Nat
  BY <1>5, IdsAssumption
<1>7. QED
  BY <1>1, <1>2, <1>3, <1>4, <1>6 DEF CardId, CardEntry, PreviousId

\* No card comes up twice in the queue.
LEMMA OneCardEach ==
  ASSUME DistillInv, NEW j \in 1..Len(loop.cards), NEW k \in 1..Len(loop.cards), j # k
  PROVE  loop.cards[j][1] # loop.cards[k][1]
<1>1. /\ loop.cards \in Seq(Ids \X Entry) /\ Len(loop.cards) \in Nat
      /\ \A m \in 1..Len(loop.cards) : \A i \in 1..(m - 1) : loop.cards[i][1] < loop.cards[m][1]
  BY DEF DistillInv, Shaped, Session
<1>2. loop.cards[j] \in Ids \X Entry /\ loop.cards[k] \in Ids \X Entry
  BY <1>1
<1>3. loop.cards[j][1] \in Nat /\ loop.cards[k][1] \in Nat
  BY <1>2, IdsAssumption
<1>4. j \in 1..(k - 1) \/ k \in 1..(j - 1)
  BY <1>1
<1>5. loop.cards[j][1] < loop.cards[k][1] \/ loop.cards[k][1] < loop.cards[j][1]
  BY <1>1, <1>4
<1>6. QED
  BY <1>3, <1>5

\* What is added is an entry.
LEMMA NewEntries ==
  ASSUME NEW e \in Entry
  PROVE  /\ Confirmed(e) \in Entry
         /\ \A b \in Bodies : [e EXCEPT !.body = b] \in Entry
BY DEF Entry, Confirmed

\* The loop does something else, and the files stay.
LEMMA TurnStep ==
  ASSUME DistillInv, entries' = entries, NEW l \in Session, loop' = l, Shaped(l),
         l.cards = loop.cards, l.acts = loop.acts, l.touched = loop.touched, l.halves = loop.halves,
         l.pc = "editPut" /\ l.cards[l.position][1] \notin l.raced =>
            entries[l.cards[l.position][1]] = l.cards[l.position][2],
         l.pc = "undoPut" /\ l.cards[l.position - 1][1] \notin l.raced =>
            entries[l.cards[l.position - 1][1]] = l.acts[l.position - 1].after
  PROVE  DistillInv'
<1>1. l.position = loop.position
  BY DEF DistillInv, Shaped
<1>2. Told(l, entries)
  BY <1>1 DEF DistillInv, Told
<1>3. QED
  BY <1>2 DEF DistillInv

\* A capture is read into the queue, or passed over.
LEMMA ReadStep == ASSUME DistillInv, ReadQueue PROVE DistillInv'
<1>1. PICK i \in loop.todo :
         /\ \A j \in loop.todo : i <= j
         /\ \/ /\ i \in Present
               /\ loop' = [loop EXCEPT !.todo = @ \ {i}, !.touched = @ \ {i},
                                       !.cards = Append(@, <<i, entries[i]>>)]
            \/ loop' = [loop EXCEPT !.todo = @ \ {i}]
  BY DEF ReadQueue
<1>2. /\ loop \in Session /\ loop.pc = "read" /\ loop.acts = <<>> /\ loop.position = 1
      /\ i \in Ids /\ Shaped(loop) /\ Told(loop, entries) /\ entries' = entries
      /\ loop.cards \in Seq(Ids \X Entry) /\ entries[i] \in Entry \cup {Missing}
      /\ \A k \in 1..Len(loop.cards) : loop.cards[k][1] < i /\ loop.cards[k][1] \in Ids
  BY DEF DistillInv, Shaped, Session, ReadQueue
<1>3. CASE loop' = [loop EXCEPT !.todo = @ \ {i}]
  <2> DEFINE l == [loop EXCEPT !.todo = @ \ {i}]
  <2>1. /\ l \in Session /\ l.pc = "read" /\ l.todo = loop.todo \ {i} /\ l.cards = loop.cards
        /\ l.acts = loop.acts /\ l.position = loop.position /\ l.draft = loop.draft
        /\ l.undoable = loop.undoable /\ l.touched = loop.touched /\ l.halves = loop.halves
    BY <1>2 DEF Session
  <2> HIDE DEF l
  <2>2. Shaped(l)
    BY <1>2, <2>1 DEF Shaped
  <2>3. loop' = l
    BY <1>3 DEF l
  <2>4. QED
    BY <1>2, <2>1, <2>2, <2>3, TurnStep
<1>4. CASE /\ i \in Present
           /\ loop' = [loop EXCEPT !.todo = @ \ {i}, !.touched = @ \ {i},
                                   !.cards = Append(@, <<i, entries[i]>>)]
  <2> DEFINE c == <<i, entries[i]>>
             more == Append(loop.cards, c)
             l == [loop EXCEPT !.todo = @ \ {i}, !.touched = @ \ {i}, !.cards = more]
  <2>1. c \in Ids \X Entry /\ c[1] = i /\ c[2] = entries[i]
    BY <1>2, <1>4 DEF Present
  <2>2. loop' = l
    BY <1>4
  <2> HIDE DEF c
  <2>3. /\ more \in Seq(Ids \X Entry) /\ Len(more) = Len(loop.cards) + 1
        /\ more[Len(loop.cards) + 1] = c /\ Len(loop.cards) \in Nat
        /\ \A k \in 1..Len(loop.cards) : more[k] = loop.cards[k]
    BY <1>2, <2>1
  <2> HIDE DEF more
  <2>4. /\ l \in Session /\ l.pc = "read" /\ l.todo = loop.todo \ {i} /\ l.cards = more
        /\ l.acts = loop.acts /\ l.position = loop.position
        /\ l.undoable = loop.undoable /\ l.touched = loop.touched \ {i} /\ l.halves = loop.halves
    BY <1>2, <2>3 DEF Session
  <2> HIDE DEF l
  <2>5. Shaped(l)
    <3>1. \A k \in 1..Len(more), j \in l.todo : more[k][1] < j
      <4>1. \A j \in l.todo : i < j /\ j \in Nat
        BY <1>1, <1>2, <2>4, IdsAssumption DEF Session
      <4>2. \A k \in 1..Len(loop.cards) : loop.cards[k][1] < i /\ loop.cards[k][1] \in Nat
        BY <1>2, IdsAssumption
      <4>3. i \in Nat
        BY <1>2, IdsAssumption
      <4>4. ASSUME NEW k \in 1..Len(more), NEW j \in l.todo PROVE more[k][1] < j
        <5>1. CASE k = Len(loop.cards) + 1
          BY <2>1, <2>3, <4>1, <5>1
        <5>2. CASE k \in 1..Len(loop.cards)
          BY <2>3, <4>1, <4>2, <4>3, <5>2
        <5>3. QED
          BY <2>3, <5>1, <5>2
      <4>5. QED
        BY <4>4
    <3>2. \A k \in 1..Len(more) : \A j \in 1..(k - 1) : more[j][1] < more[k][1]
      BY <1>2, <2>1, <2>3, SMTT(40) DEF Shaped
    <3>3. QED
      BY <1>2, <2>3, <2>4, <3>1, <3>2 DEF Shaped
  <2>6. Told(l, entries)
    <3>1. Len(l.acts) = 0 /\ l.position = 1 /\ Len(l.cards) = Len(loop.cards) + 1
      BY <1>2, <2>3, <2>4
    <3>2. ASSUME NEW k \in 1..Len(more), more[k][1] \notin l.touched \cup l.halves
          PROVE  entries[more[k][1]] = more[k][2]
      <4>1. CASE k = Len(loop.cards) + 1
        BY <2>1, <2>3, <4>1
      <4>2. CASE k \in 1..Len(loop.cards)
        <5>1. loop.cards[k][1] # i
          BY <1>2, <4>2, IdsAssumption
        <5>2. QED
          BY <1>2, <2>3, <2>4, <3>2, <4>2, <5>1 DEF Told
      <4>3. QED
        BY <2>3, <4>1, <4>2
    <3>3. QED
      BY <2>4, <3>1, <3>2 DEF Told
  <2>7. QED
    BY <1>2, <2>2, <2>4, <2>5, <2>6 DEF DistillInv
<1>5. QED
  BY <1>1, <1>3, <1>4

\* A card is disposed of, and its file is what the act says.
LEMMA DisposedStep ==
  ASSUME DistillInv, loop.pc \in {"key", "confirmEdit"},
         NEW act \in {"confirm", "discard", "edit"}, NEW after \in Entry \cup {Missing},
         act = "discard" => after = Missing,
         entries' = [entries EXCEPT ![CardId] = after], Disposed(act, after)
  PROVE  DistillInv'
<1> DEFINE a == [act |-> act, after |-> after]
           more == Append(loop.acts, a)
           left == loop.halves \ {CardId}
           over == IF loop.position = Len(loop.cards) THEN "done" ELSE "key"
           l == [loop EXCEPT !.pc = over, !.position = @ + 1, !.draft = Missing,
                             !.acts = more, !.undoable = TRUE, !.failures = 0,
                             !.halves = left]
<1>1. /\ loop \in Session /\ Shaped(loop) /\ Told(loop, entries)
      /\ loop.cards \in Seq(Ids \X Entry) /\ loop.acts \in Seq(Act) /\ loop.position \in Nat
      /\ entries \in [Ids -> Entry \cup {Missing}]
      /\ loop.position \in 1..Len(loop.cards) /\ loop.position = Len(loop.acts) + 1
      /\ CardId \in Ids /\ CardId = loop.cards[loop.position][1]
      /\ \A k \in 1..Len(loop.cards) : loop.cards[k][1] \in Ids /\ loop.cards[k][1] \in Nat
      /\ Len(loop.cards) \in Nat /\ Len(loop.acts) \in Nat
  BY CardFacts DEF DistillInv, Session, Shaped, CardId, Card
<1>2. a \in Act /\ a.act = act /\ a.after = after
  BY DEF Act
<1>3. loop' = l
  BY DEF Disposed
<1>4. over \in {"done", "key"} /\ (over = "key" => loop.position + 1 <= Len(loop.cards))
  BY <1>1
<1> HIDE DEF a, over
<1>5. /\ more \in Seq(Act) /\ Len(more) = loop.position /\ more[loop.position] = a
      /\ \A k \in 1..(loop.position - 1) : more[k] = loop.acts[k]
  BY <1>1, <1>2
<1>0. left \in SUBSET Ids /\ left \subseteq loop.halves /\ \A i \in loop.halves : i \in left <=> i # CardId
  BY <1>1 DEF Session
<1> HIDE DEF more, left
<1>6. /\ l \in Session /\ l.pc = over /\ l.cards = loop.cards /\ l.position = loop.position + 1
      /\ l.acts = more /\ l.touched = loop.touched /\ l.halves = left
  <2>1. loop \in Session /\ loop.position + 1 \in Nat
    BY <1>1
  <2>2. QED
    BY <1>0, <1>4, <1>5, <2>1 DEF Session
<1> HIDE DEF l
<1>7. Shaped(l)
  <2>1. l.position = Len(l.acts) + 1 /\ l.position <= Len(l.cards) + 1
    BY <1>1, <1>2, <1>4, <1>5, <1>6
  <2>2. l.pc = "key" => l.position <= Len(l.cards)
    BY <1>1, <1>2, <1>4, <1>5, <1>6
  <2>3. \A k \in 1..Len(l.cards) : \A j \in 1..(k - 1) : l.cards[j][1] < l.cards[k][1]
    BY <1>1, <1>2, <1>4, <1>5, <1>6 DEF Shaped
  <2>4. ASSUME NEW k \in 1..Len(l.acts), l.acts[k].act = "discard" PROVE l.acts[k].after = Missing
    <3>1. CASE k = loop.position
      BY <1>2, <1>5, <1>6, <2>4, <3>1
    <3>2. CASE k # loop.position
      <4>1. k \in 1..Len(loop.acts) /\ k \in 1..(loop.position - 1)
        BY <1>1, <1>5, <1>6, <3>2
      <4>2. l.acts[k] = loop.acts[k]
        BY <1>5, <1>6, <4>1
      <4>3. loop.acts[k].act = "discard" => loop.acts[k].after = Missing
        BY <1>1, <4>1 DEF Shaped
      <4>4. QED
        BY <2>4, <4>2, <4>3
    <3>3. QED
      BY <3>1, <3>2
  <2>5. l.pc \in {"done", "key"} /\ (l.undoable => l.position > 1)
    BY <1>1, <1>2, <1>4, <1>5, <1>6
  <2>6. QED
    BY <2>1, <2>2, <2>3, <2>4, <2>5 DEF Shaped
<1>8. /\ entries' \in [Ids -> Entry \cup {Missing}] /\ entries'[CardId] = after
      /\ \A j \in Ids : j # CardId => entries'[j] = entries[j]
  BY <1>1
<1>9. ASSUME NEW k \in 1..Len(loop.cards), k # loop.position
      PROVE  loop.cards[k][1] \in Ids /\ loop.cards[k][1] # CardId
             /\ entries'[loop.cards[k][1]] = entries[loop.cards[k][1]]
  <2>1. loop.cards[k][1] # CardId
    BY <1>1, <1>9, OneCardEach
  <2>2. QED
    BY <1>1, <1>8, <2>1
<1>10. Told(l, entries')
  <2>1. ASSUME NEW k \in 1..Len(l.acts), l.cards[k][1] \notin l.touched
        PROVE  entries'[l.cards[k][1]] = l.acts[k].after
    <3>1. CASE k = loop.position
      BY <1>1, <1>2, <1>5, <1>6, <1>8, <3>1
    <3>2. CASE k < loop.position
      BY <1>1, <1>5, <1>6, <1>9, <2>1, <3>2, SMTT(40) DEF Told
    <3>3. QED
      BY <1>1, <1>5, <1>6, <3>1, <3>2
  <2>2. ASSUME NEW k \in l.position..Len(l.cards), l.cards[k][1] \notin l.touched \cup l.halves
        PROVE  entries'[l.cards[k][1]] = l.cards[k][2]
    <3>1. k \in loop.position..Len(loop.cards) /\ k # loop.position
      BY <1>1, <1>6, <2>2
    <3>2. loop.cards[k][1] \notin loop.touched \cup loop.halves
      BY <1>0, <1>1, <1>6, <1>9, <2>2, <3>1
    <3>3. entries[loop.cards[k][1]] = loop.cards[k][2]
      BY <1>1, <3>1, <3>2 DEF Told
    <3>4. QED
      BY <1>1, <1>6, <1>9, <3>1, <3>3
  <2>3. QED
    BY <1>4, <1>6, <2>1, <2>2 DEF Told
<1>11. QED
  BY <1>3, <1>6, <1>7, <1>8, <1>10 DEF DistillInv

\* The card before comes up again, and its file is what was read.
LEMMA UndoneStep ==
  ASSUME DistillInv, loop.pc \in {"key", "undoPut"}, loop.position > 1,
         entries' = [entries EXCEPT ![PreviousId] = Previous[2]], Undone
  PROVE  DistillInv'
<1> DEFINE less == SubSeq(loop.acts, 1, Len(loop.acts) - 1)
           l == [loop EXCEPT !.pc = "key", !.position = @ - 1, !.undoable = FALSE, !.acts = less]
           before == loop.position - 1
<1>1. /\ loop \in Session /\ Shaped(loop) /\ Told(loop, entries)
      /\ loop.cards \in Seq(Ids \X Entry) /\ loop.acts \in Seq(Act) /\ loop.position \in Nat
      /\ entries \in [Ids -> Entry \cup {Missing}]
      /\ loop.position \in 1..Len(loop.cards) /\ loop.position = Len(loop.acts) + 1
      /\ PreviousId \in Ids /\ PreviousId = loop.cards[before][1]
      /\ Previous[2] \in Entry /\ Previous[2] = loop.cards[before][2]
      /\ \A k \in 1..Len(loop.cards) : loop.cards[k][1] \in Ids /\ loop.cards[k][1] \in Nat
      /\ Len(loop.cards) \in Nat /\ Len(loop.acts) \in Nat
      /\ before \in Nat /\ before >= 1 /\ before = Len(loop.acts) /\ loop.position = before + 1
  BY CardFacts DEF DistillInv, Session, Shaped, PreviousId, Previous
<1>2. loop' = l /\ l = [loop EXCEPT !.pc = "key", !.position = before, !.undoable = FALSE, !.acts = less]
  BY DEF Undone
<1>3. /\ less \in Seq(Act) /\ Len(less) = before - 1
      /\ \A k \in 1..(before - 1) : less[k] = loop.acts[k]
  BY <1>1
<1> HIDE DEF less, before, l
<1>4. /\ l \in Session /\ l.pc = "key" /\ l.cards = loop.cards /\ l.position = before
      /\ l.acts = less /\ l.touched = loop.touched /\ l.halves = loop.halves /\ l.undoable = FALSE
  BY <1>1, <1>2, <1>3 DEF Session
<1>5. Shaped(l)
  <2>1. l.position = Len(l.acts) + 1 /\ l.position <= Len(l.cards) + 1
    BY <1>1, <1>3, <1>4
  <2>2. l.pc = "key" => l.position <= Len(l.cards)
    BY <1>1, <1>3, <1>4
  <2>3. \A k \in 1..Len(l.cards) : \A j \in 1..(k - 1) : l.cards[j][1] < l.cards[k][1]
    BY <1>1, <1>3, <1>4 DEF Shaped
  <2>4. \A k \in 1..Len(l.acts) : l.acts[k].act = "discard" => l.acts[k].after = Missing
    BY <1>1, <1>3, <1>4 DEF Shaped
  <2>5. l.pc \in {"done", "key"} /\ (l.undoable => l.position > 1)
    BY <1>1, <1>3, <1>4
  <2>6. QED
    BY <2>1, <2>2, <2>3, <2>4, <2>5 DEF Shaped
<1>6. /\ entries' \in [Ids -> Entry \cup {Missing}] /\ entries'[PreviousId] = Previous[2]
      /\ \A j \in Ids : j # PreviousId => entries'[j] = entries[j]
  BY <1>1
<1>7. ASSUME NEW k \in 1..Len(loop.cards), k # before
      PROVE  entries'[loop.cards[k][1]] = entries[loop.cards[k][1]]
  <2>1. loop.cards[k][1] # PreviousId
    BY <1>1, <1>7, OneCardEach
  <2>2. QED
    BY <1>1, <1>6, <2>1
<1>8. Told(l, entries')
  <2>1. ASSUME NEW k \in 1..Len(l.acts), l.cards[k][1] \notin l.touched
        PROVE  entries'[l.cards[k][1]] = l.acts[k].after
    BY <1>1, <1>3, <1>4, <1>7, <2>1, SMTT(40) DEF Told
  <2>2. ASSUME NEW k \in l.position..Len(l.cards), l.cards[k][1] \notin l.touched \cup l.halves
        PROVE  entries'[l.cards[k][1]] = l.cards[k][2]
    <3>1. CASE k = before
      BY <1>1, <1>4, <1>6, <3>1
    <3>2. CASE k # before
      BY <1>1, <1>4, <1>7, <2>2, <3>2 DEF Told
    <3>3. QED
      BY <3>1, <3>2
  <2>3. QED
    BY <1>4, <2>1, <2>2 DEF Told
<1>9. QED
  BY <1>2, <1>4, <1>5, <1>6, <1>8 DEF DistillInv

-----------------------------------------------------------------------------
\* A failure, and a refused or failed write: the card stays.
LEMMA FailedStep ==
  ASSUME DistillInv, loop.pc \in {"key", "editPut", "confirmEdit"}, Failed, entries' = entries
  PROVE  DistillInv'
<1> DEFINE next == IF loop.failures + 1 >= MaxFailures THEN "gaveUp" ELSE "key"
           l == [loop EXCEPT !.pc = next, !.draft = Missing, !.failures = @ + 1]
<1>1. loop \in Session /\ Shaped(loop) /\ loop.failures + 1 \in Nat
  BY DEF DistillInv, Session
<1>2. next \in {"gaveUp", "key"} /\ loop' = l
  BY DEF Failed
<1> HIDE DEF next
<1>3. /\ l \in Session /\ l.pc = next /\ l.todo = loop.todo /\ l.cards = loop.cards
      /\ l.acts = loop.acts /\ l.position = loop.position /\ l.undoable = loop.undoable
      /\ l.touched = loop.touched /\ l.halves = loop.halves
  BY <1>1, <1>2 DEF Session
<1> HIDE DEF l
<1>4. Shaped(l)
  BY <1>1, <1>2, <1>3 DEF Shaped
<1>5. QED
  BY <1>2, <1>3, <1>4, TurnStep

\* The loop goes from one place to another.
LEMMA MoveStep ==
  ASSUME DistillInv, entries' = entries,
         NEW pc \in {"read", "key", "undoPut", "done", "quit", "failed"},
         NEW todo \in SUBSET Ids, NEW raced \in SUBSET Ids,
         loop' = [loop EXCEPT !.pc = pc, !.todo = todo, !.raced = raced],
         pc = "read" => loop.pc = "list",
         pc \in {"key", "undoPut"} => loop.position <= Len(loop.cards),
         pc = "undoPut" => /\ loop.position > 1
                           /\ loop.acts[loop.position - 1].act # "discard"
                           /\ entries[loop.cards[loop.position - 1][1]] =
                                 loop.acts[loop.position - 1].after
  PROVE  DistillInv'
<1> DEFINE l == [loop EXCEPT !.pc = pc, !.todo = todo, !.raced = raced]
<1>1. loop \in Session /\ Shaped(loop) /\ loop' = l
  BY DEF DistillInv
<1>2. /\ l \in Session /\ l.pc = pc /\ l.todo = todo /\ l.cards = loop.cards
      /\ l.acts = loop.acts /\ l.position = loop.position /\ l.undoable = loop.undoable
      /\ l.touched = loop.touched /\ l.halves = loop.halves /\ l.raced = raced
  BY <1>1 DEF Session
<1> HIDE DEF l
<1>3. Shaped(l)
  <2>1. pc = "read" => loop.cards = <<>> /\ loop.acts = <<>> /\ Len(loop.cards) = 0
    BY <1>1 DEF Shaped
  <2>2. QED
    BY <1>1, <1>2, <2>1 DEF Shaped
<1>4. QED
  BY <1>1, <1>2, <1>3, TurnStep

\* The editor has returned, and the file is as the editor was given it.
LEMMA EditStep == ASSUME DistillInv, Edit PROVE DistillInv'
<1>1. PICK b \in Bodies :
         loop' = [loop EXCEPT !.pc = "editPut", !.draft = [CardEntry EXCEPT !.body = b], !.raced = {}]
  BY DEF Edit
<1> DEFINE d == [CardEntry EXCEPT !.body = b]
           l == [loop EXCEPT !.pc = "editPut", !.draft = d, !.raced = {}]
<1>2. /\ loop \in Session /\ Shaped(loop) /\ d \in Entry /\ loop.pc = "key"
      /\ entries[CardId] = CardEntry /\ entries' = entries /\ loop' = l
  BY <1>1, CardFacts, NewEntries DEF DistillInv, Edit
<1> HIDE DEF d
<1>3. /\ l \in Session /\ l.pc = "editPut" /\ l.todo = loop.todo /\ l.cards = loop.cards
      /\ l.acts = loop.acts /\ l.position = loop.position /\ l.undoable = loop.undoable
      /\ l.touched = loop.touched /\ l.halves = loop.halves /\ l.draft = d
  BY <1>2 DEF Session
<1> HIDE DEF l
<1>4. Shaped(l)
  BY <1>2, <1>3 DEF Shaped
<1>5. entries[loop.cards[loop.position][1]] = loop.cards[loop.position][2]
  BY <1>2 DEF CardId, CardEntry, Card
<1>6. QED
  BY <1>2, <1>3, <1>4, <1>5, TurnStep

\* The edited entry is stored, and not confirmed yet.
LEMMA EditPutStep == ASSUME DistillInv, EditPut PROVE DistillInv'
<1> DEFINE l == [loop EXCEPT !.pc = "confirmEdit", !.halves = @ \cup {CardId}]
<1>1. /\ loop \in Session /\ Shaped(loop) /\ Told(loop, entries) /\ loop.pc = "editPut"
      /\ loop.draft \in Entry /\ entries \in [Ids -> Entry \cup {Missing}]
      /\ entries' = [entries EXCEPT ![CardId] = loop.draft] /\ loop' = l
      /\ loop.position \in 1..Len(loop.cards) /\ loop.position = Len(loop.acts) + 1
      /\ CardId \in Ids /\ CardId = loop.cards[loop.position][1]
      /\ \A k \in 1..Len(loop.cards) : loop.cards[k][1] \in Ids
      /\ Len(loop.cards) \in Nat /\ Len(loop.acts) \in Nat
  BY CardFacts DEF DistillInv, Shaped, EditPut, CardId, Card, Session
<1>2. /\ l \in Session /\ l.pc = "confirmEdit" /\ l.todo = loop.todo /\ l.cards = loop.cards
      /\ l.acts = loop.acts /\ l.position = loop.position /\ l.undoable = loop.undoable
      /\ l.touched = loop.touched /\ l.halves = loop.halves \cup {CardId} /\ l.draft = loop.draft
  BY <1>1 DEF Session
<1> HIDE DEF l
<1>3. Shaped(l)
  BY <1>1, <1>2 DEF Shaped
<1>4. /\ entries' \in [Ids -> Entry \cup {Missing}]
      /\ \A j \in Ids : j # CardId => entries'[j] = entries[j]
  BY <1>1
<1>5. Told(l, entries')
  <2>1. ASSUME NEW k \in 1..Len(l.acts), l.cards[k][1] \notin l.touched
        PROVE  entries'[l.cards[k][1]] = l.acts[k].after
    <3>1. k \in 1..Len(loop.cards) /\ k # loop.position
      BY <1>1, <1>2
    <3>2. loop.cards[k][1] # CardId
      BY <1>1, <3>1, OneCardEach
    <3>3. QED
      BY <1>1, <1>2, <1>4, <2>1, <3>1, <3>2 DEF Told
  <2>2. ASSUME NEW k \in l.position..Len(l.cards), l.cards[k][1] \notin l.touched \cup l.halves
        PROVE  entries'[l.cards[k][1]] = l.cards[k][2]
    <3>1. k \in 1..Len(loop.cards) /\ loop.cards[k][1] # CardId
      BY <1>1, <1>2, <2>2
    <3>2. QED
      BY <1>1, <1>2, <1>4, <2>2, <3>1 DEF Told
  <2>3. QED
    BY <1>2, <2>1, <2>2 DEF Told
<1>6. QED
  BY <1>1, <1>2, <1>3, <1>4, <1>5 DEF DistillInv

\* Somebody else changes the file of entry i.
LEMMA TouchStep ==
  ASSUME DistillInv, NEW i \in Ids, NEW e \in Entry \cup {Missing},
         entries' = [entries EXCEPT ![i] = e], Touch(i)
  PROVE  DistillInv'
<1> DEFINE l == [loop EXCEPT !.touched = @ \cup {i}, !.raced = @ \cup {i}]
<1>1. /\ loop \in Session /\ Shaped(loop) /\ Told(loop, entries) /\ loop' = l
      /\ entries \in [Ids -> Entry \cup {Missing}]
  BY DEF DistillInv, Touch
<1>2. /\ l \in Session /\ l.pc = loop.pc /\ l.todo = loop.todo /\ l.cards = loop.cards
      /\ l.acts = loop.acts /\ l.position = loop.position /\ l.undoable = loop.undoable
      /\ l.touched = loop.touched \cup {i} /\ l.halves = loop.halves /\ l.draft = loop.draft
      /\ l.raced = loop.raced \cup {i}
  BY <1>1 DEF Session
<1> HIDE DEF l
<1>3. Shaped(l)
  BY <1>1, <1>2 DEF Shaped
<1>4. /\ entries' \in [Ids -> Entry \cup {Missing}]
      /\ \A j \in Ids : j # i => entries'[j] = entries[j]
  BY <1>1
<1>5. Told(l, entries')
  <2>1. /\ \A k \in 1..Len(loop.cards) : loop.cards[k] \in Ids \X Entry
        /\ Len(loop.cards) \in Nat /\ Len(loop.acts) \in Nat /\ loop.position \in Nat
    BY <1>1 DEF Session
  <2>2. /\ \A k \in 1..Len(loop.cards) : loop.cards[k][1] \in Ids
        /\ loop.position = Len(loop.acts) + 1 /\ loop.position <= Len(loop.cards) + 1
        /\ loop.pc \in {"editPut", "undoPut"} => loop.position <= Len(loop.cards)
        /\ loop.pc = "undoPut" => loop.position > 1
    BY <1>1, <2>1 DEF Shaped
  <2>3. ASSUME NEW k \in 1..Len(loop.cards), loop.cards[k][1] # i
        PROVE  entries'[loop.cards[k][1]] = entries[loop.cards[k][1]]
    BY <1>4, <2>2, <2>3
  <2>4. /\ \A k \in 1..Len(loop.acts) : k \in 1..Len(loop.cards)
        /\ \A k \in loop.position..Len(loop.cards) : k \in 1..Len(loop.cards)
        /\ loop.pc = "editPut" => loop.position \in 1..Len(loop.cards)
        /\ loop.pc = "undoPut" => loop.position - 1 \in 1..Len(loop.cards)
    BY <2>1, <2>2
  <2>5. QED
    BY <1>1, <1>2, <2>3, <2>4 DEF Told
<1>6. QED
  BY <1>1, <1>2, <1>3, <1>4, <1>5 DEF DistillInv

-----------------------------------------------------------------------------
\* No session has begun.
LEMMA DistillInit == Init => DistillInv
<1> SUFFICES ASSUME Init PROVE DistillInv
  OBVIOUS
<1>1. \A t \in Titles, s \in {"staged", "accepted"} : Decision(t, s) \in Entry
  BY DEF Decision, Entry
<1>2. entries \in [Ids -> Entry \cup {Missing}]
  BY <1>1 DEF Init
<1>3. /\ loop \in Session /\ loop.pc = "list" /\ loop.todo = {} /\ loop.cards = <<>>
      /\ loop.acts = <<>> /\ loop.position = 1 /\ loop.undoable = FALSE
  BY DEF Init, Session
<1>4. Shaped(loop)
  BY <1>3 DEF Shaped
<1>5. Told(loop, entries)
  BY <1>3 DEF Told
<1>6. QED
  BY <1>2, <1>3, <1>4, <1>5 DEF DistillInv

\* Each of the acts of the loop.
LEMMA DisposeStep == ASSUME DistillInv, Dispose PROVE DistillInv'
<1>1. CASE Confirm
  <2>1. loop.pc = "key" /\ Confirmed(CardEntry) \in Entry
    BY <1>1, CardFacts, NewEntries DEF Confirm
  <2>2. QED
    BY <1>1, <2>1, DisposedStep DEF Confirm
<1>2. CASE Discard
  BY <1>2, DisposedStep DEF Discard
<1>3. CASE DiscardNotFound
  BY <1>3, FailedStep DEF DiscardNotFound
<1>4. CASE Edit
  BY <1>4, EditStep
<1>5. CASE EditPut
  BY <1>5, EditPutStep
<1>6. CASE ConfirmEdited
  <2>1. loop.pc = "confirmEdit" /\ Confirmed(loop.draft) \in Entry
    BY <1>6, NewEntries DEF ConfirmEdited, DistillInv, Shaped
  <2>2. QED
    BY <1>6, <2>1, DisposedStep DEF ConfirmEdited
<1>7. CASE DispositionFails
  BY <1>7, FailedStep DEF DispositionFails
<1>8. QED
  BY <1>1, <1>2, <1>3, <1>4, <1>5, <1>6, <1>7 DEF Dispose

\* What u needs, it finds.
LEMMA UndoFacts ==
  ASSUME DistillInv, (loop.pc = "key" /\ loop.undoable) \/ loop.pc = "undoPut"
  PROVE  /\ loop.position > 1 /\ loop.position <= Len(loop.cards)
         /\ PreviousId = loop.cards[loop.position - 1][1] /\ PreviousId \in Ids
         /\ PreviousAct = loop.acts[loop.position - 1]
         /\ PreviousAct.act = "discard" => PreviousAct.after = Missing
         /\ loop.pc = "undoPut" => PreviousAct.act # "discard"
<1>1. /\ loop.position > 1 /\ loop.position <= Len(loop.cards) /\ loop.position \in Nat
      /\ loop.position = Len(loop.acts) + 1 /\ Len(loop.acts) \in Nat
      /\ \A k \in 1..Len(loop.acts) : loop.acts[k].act = "discard" => loop.acts[k].after = Missing
      /\ loop.pc = "undoPut" => loop.acts[loop.position - 1].act # "discard"
  BY DEF DistillInv, Shaped, Session
<1>2. loop.position - 1 \in 1..Len(loop.acts)
  BY <1>1
<1>3. PreviousId \in Ids /\ PreviousAct = loop.acts[loop.position - 1]
  BY <1>1, CardFacts
<1>4. QED
  BY <1>1, <1>2, <1>3 DEF PreviousId, Previous

\* Everything else the loop does.
LEMMA TurnsStep ==
  ASSUME DistillInv, ListQueue \/ ListFails \/ ShowFirst \/ UndoPutFails \/ Quit \/ UndoWrite
  PROVE  DistillInv'
<1>1. loop \in Session /\ Shaped(loop) /\ loop.todo \in SUBSET Ids /\ loop.raced \in SUBSET Ids
  BY DEF DistillInv, Session
<1>2. CASE ListQueue
  <2>1. Present \in SUBSET Ids /\ loop' = [loop EXCEPT !.pc = "read", !.todo = Present, !.raced = loop.raced]
    BY <1>1, <1>2 DEF ListQueue, Present, Session
  <2>2. QED
    BY <1>1, <1>2, <2>1, MoveStep DEF ListQueue
<1>3. CASE ListFails
  <2>1. loop' = [loop EXCEPT !.pc = "failed", !.todo = loop.todo, !.raced = loop.raced]
    BY <1>1, <1>3 DEF ListFails, Session
  <2>2. QED
    BY <1>1, <1>3, <2>1, MoveStep DEF ListFails
<1>4. CASE ShowFirst
  <2> DEFINE pc == IF loop.cards = <<>> THEN "done" ELSE "key"
  <2>1. loop' = [loop EXCEPT !.pc = pc, !.todo = loop.todo, !.raced = loop.raced]
    BY <1>1, <1>4 DEF ShowFirst, Session
  <2>2. pc \in {"done", "key"} /\ (pc = "key" => loop.position <= Len(loop.cards))
    <3>1. loop.position = 1 /\ loop.cards \in Seq(Ids \X Entry)
      BY <1>1, <1>4 DEF ShowFirst, Shaped, Session
    <3>2. QED
      BY <3>1
  <2> HIDE DEF pc
  <2>3. QED
    <3>1. entries' = entries /\ pc \in {"read", "key", "undoPut", "done", "quit", "failed"}
          /\ pc # "read" /\ pc # "undoPut"
      BY <1>4, <2>2 DEF ShowFirst
    <3>2. QED
      BY <1>1, <2>1, <2>2, <3>1, MoveStep
<1>5. CASE UndoPutFails
  <2>1. loop' = [loop EXCEPT !.pc = "key", !.todo = loop.todo, !.raced = loop.raced]
    BY <1>1, <1>5 DEF UndoPutFails, Session
  <2>2. loop.position <= Len(loop.cards)
    BY <1>1, <1>5 DEF UndoPutFails, Shaped
  <2>3. QED
    BY <1>1, <1>5, <2>1, <2>2, MoveStep DEF UndoPutFails
<1>6. CASE Quit
  <2>1. loop' = [loop EXCEPT !.pc = "quit", !.todo = loop.todo, !.raced = loop.raced]
    BY <1>1, <1>6 DEF Quit, Session
  <2>2. QED
    BY <1>1, <1>6, <2>1, MoveStep DEF Quit
<1>7. CASE UndoWrite
  <2>1. loop' = [loop EXCEPT !.pc = "undoPut", !.todo = loop.todo, !.raced = {}]
    BY <1>1, <1>7 DEF UndoWrite, Session
  <2>2. /\ loop.position > 1 /\ loop.position <= Len(loop.cards)
        /\ loop.acts[loop.position - 1].act # "discard"
        /\ entries[loop.cards[loop.position - 1][1]] = loop.acts[loop.position - 1].after
    BY <1>7, UndoFacts DEF UndoWrite
  <2>3. QED
    <3>1. entries' = entries /\ {} \in SUBSET Ids
      BY <1>7 DEF UndoWrite
    <3>2. QED
      BY <1>1, <2>1, <2>2, <3>1, MoveStep
<1>8. QED
  BY <1>2, <1>3, <1>4, <1>5, <1>6, <1>7

\* Somebody else adds, confirms or discards an entry.
LEMMA OthersStep == ASSUME DistillInv, NEW i \in Ids, OthersAdd(i) \/ OthersDispose(i) PROVE DistillInv'
<1>1. CASE OthersAdd(i)
  <2>1. PICK t \in Titles, s \in {"staged", "accepted"} :
           entries' = [entries EXCEPT ![i] = Decision(t, s)]
    BY <1>1 DEF OthersAdd
  <2>2. Decision(t, s) \in Entry
    BY DEF Decision, Entry
  <2>3. QED
    BY <1>1, <2>1, <2>2, TouchStep DEF OthersAdd
<1>2. CASE OthersDispose(i)
  <2>1. entries[i] \in Entry
    BY <1>2 DEF OthersDispose, DistillInv
  <2>2. PICK e \in Entry \cup {Missing} : entries' = [entries EXCEPT ![i] = e]
    <3>1. CASE entries' = [entries EXCEPT ![i] = Confirmed(@)]
      BY <2>1, <3>1, NewEntries
    <3>2. CASE entries' = [entries EXCEPT ![i] = Missing]
      BY <3>2
    <3>3. ASSUME NEW b \in Bodies, entries' = [entries EXCEPT ![i].body = b]
          PROVE  \E e \in Entry : entries' = [entries EXCEPT ![i] = e]
      BY <2>1, <3>3, NewEntries
    <3>4. QED
      BY <1>2, <3>1, <3>2, <3>3 DEF OthersDispose
  <2>3. QED
    BY <1>2, <2>2, TouchStep DEF OthersDispose
<1>3. QED
  BY <1>1, <1>2

\* Every step keeps the invariant.
LEMMA DistillStep == DistillInv /\ [Next]_vars => DistillInv'
<1> SUFFICES ASSUME DistillInv, [Next]_vars PROVE DistillInv'
  OBVIOUS
<1>1. CASE UNCHANGED vars
  BY <1>1 DEF vars, DistillInv
<1>2. CASE Dispose
  BY <1>2, DisposeStep
<1>3. CASE UndoDiscard
  <2>1. loop.position > 1
    BY <1>3, UndoFacts DEF UndoDiscard
  <2>2. QED
    BY <1>3, <2>1, UndoneStep DEF UndoDiscard
<1>4. CASE UndoPut
  <2>1. loop.position > 1
    BY <1>4, UndoFacts DEF UndoPut
  <2>2. QED
    BY <1>4, <2>1, UndoneStep DEF UndoPut
<1>5. CASE ReadQueue
  BY <1>5, ReadStep
<1>6. CASE ListQueue \/ ListFails \/ ShowFirst \/ UndoPutFails \/ Quit \/ UndoWrite
  BY <1>6, TurnsStep
<1>7. ASSUME NEW i \in Ids, OthersAdd(i) \/ OthersDispose(i) PROVE DistillInv'
  BY <1>7, OthersStep
<1>8. QED
  BY <1>1, <1>2, <1>3, <1>4, <1>5, <1>6, <1>7 DEF Next, Step, Undo

(* The shape of a session and what it says of the files, through every     *)
(* key, failure and change by others.                                      *)
THEOREM SessionInvariance == Spec => []DistillInv
BY DistillInit, DistillStep, PTL DEF Spec

(* "Dispositions are the acts that stand", and what is left is left as it  *)
(* was (tui.go: Loop.Run, undo): on both sides of the position the ledger  *)
(* is what the session says, unless others changed it.                     *)
THEOREM SaysWhatStands == Spec => []LedgerAsTold
<1>1. DistillInv => LedgerAsTold
  BY DEF DistillInv, Told, LedgerAsTold, ActsStand, RemainingUntouched
<1>2. QED
  BY <1>1, SessionInvariance, PTL

(* Neither EditBody nor undo writes over what it has not read, but for the *)
(* instant between its second read and its write.                          *)
THEOREM NothingReverted == Spec => NoSilentRevert
<1> DEFINE A == /\ EditPut => CardId \in loop.raced \/ entries[CardId] = CardEntry
                /\ Undone /\ entries' # entries =>
                     \/ entries[PreviousId] = PreviousAct.after
                     \/ PreviousAct.act # "discard" /\ PreviousId \in loop.raced
<1>1. DistillInv /\ [Next]_vars => [A]_vars
  <2> SUFFICES ASSUME DistillInv, Next PROVE A
    BY DEF vars
  <2>1. EditPut => CardId \in loop.raced \/ entries[CardId] = CardEntry
    BY DEF EditPut, DistillInv, Told, CardId, CardEntry, Card
  <2>2. ASSUME Undone, entries' # entries
        PROVE  \/ entries[PreviousId] = PreviousAct.after
               \/ PreviousAct.act # "discard" /\ PreviousId \in loop.raced
    <3>1. loop'.position = loop.position - 1 /\ loop.position \in Nat
      BY <2>2 DEF Undone, DistillInv, Session
    <3>2. CASE UndoDiscard
      BY <3>2, UndoFacts DEF UndoDiscard
    <3>3. CASE UndoPut
      BY <3>3, UndoFacts DEF UndoPut, DistillInv, Told
    <3>4. CASE Confirm \/ Discard \/ ConfirmEdited
      <4>1. loop'.position = loop.position + 1
        BY <3>4 DEF Confirm, Discard, ConfirmEdited, Disposed, DistillInv, Session
      <4>2. QED
        BY <3>1, <4>1
    <3>5. CASE EditPut
      <4>1. loop'.position = loop.position
        BY <3>5 DEF EditPut, DistillInv, Session
      <4>2. QED
        BY <3>1, <4>1
    <3>6. ASSUME NEW i \in Ids, OthersAdd(i) \/ OthersDispose(i) PROVE FALSE
      <4>1. loop'.position = loop.position
        BY <3>6 DEF OthersAdd, OthersDispose, Touch, DistillInv, Session
      <4>2. QED
        BY <3>1, <4>1
    <3>7. QED
      BY <2>2, <3>2, <3>3, <3>4, <3>5, <3>6
         DEF Next, Step, Undo, Dispose, ListQueue, ListFails, ReadQueue, ShowFirst,
             DiscardNotFound, Edit, DispositionFails, UndoPutFails, UndoWrite, Quit
  <2>3. QED
    BY <2>1, <2>2
<1>2. QED
  BY <1>1, SessionInvariance, PTL DEF Spec, NoSilentRevert
=============================================================================
