------------------------------- MODULE Distill -------------------------------
(***************************************************************************)
(* internal/distill: the keystroke loop of dira distill over the staged    *)
(* captures, while other processes use the same ledger.  The loop reads    *)
(* its queue once, and every write is made from the copy read then.        *)
(*                                                                         *)
(* Only decisions can be staged, so an id is its number.  Two entries are  *)
(* equal here exactly if their files are byte for byte the same, which is  *)
(* what Version and sameFile compare.  A key and the first store operation *)
(* it causes are one step: the loop looks at nothing in between.           *)
(***************************************************************************)
EXTENDS Naturals, Sequences, FiniteSets

CONSTANTS
    Ids,            \* the numbers of decision entries
    Titles,         \* what an entry is about
    Bodies,         \* what a human may write in the editor
    NoBody,         \* the body of a capture
    Missing,        \* no entry
    MaxFailures     \* maxDispositionFailures

ASSUME IdsAssumption == Ids \subseteq Nat /\ IsFiniteSet(Ids)
ASSUME MaxFailuresAssumption == MaxFailures \in Nat \ {0}

VARIABLES
    entries,    \* entries[i]: the decision stored under id i, or Missing
    loop        \* the session: where it is, and its local variables

vars == <<entries, loop>>

\* confirmed: confirmed_by is set.
Decision(t, s) == [title |-> t, state |-> s, confirmed |-> FALSE, body |-> NoBody]

\* todo: ids yet to be read; cards: <<id, entry>> as read; draft: what an edit under
\* way will write; acts: Result.Dispositions; undoable: last is set.  History:
\* touched, the ids others have changed since the loop read them; raced, since it read
\* them again; halves, those whose edit was stored and not confirmed.
Init ==
    /\ entries \in [Ids -> {Missing} \cup {Decision(t, "staged") : t \in Titles}
                                     \cup {Decision(t, "accepted") : t \in Titles}]
    /\ loop = [pc |-> "list", todo |-> {}, cards |-> <<>>, position |-> 1, draft |-> Missing,
               acts |-> <<>>, undoable |-> FALSE, failures |-> 0,
               touched |-> {}, raced |-> {}, halves |-> {}]

Present == {i \in Ids : entries[i] # Missing}

Card == loop.cards[loop.position]
CardId == Card[1]
CardEntry == Card[2]

\* The card that u would bring back, and what its disposition left behind.
Previous == loop.cards[loop.position - 1]
PreviousId == Previous[1]
PreviousAct == loop.acts[Len(loop.acts)]

(* A card: staged, and nobody has stood behind it yet.                     *)
Disposable(e) == e.state = "staged" /\ ~e.confirmed

Confirmed(e) == [e EXCEPT !.confirmed = TRUE]

-----------------------------------------------------------------------------
(* The queue: Staged, of which Awaiting.                                   *)

ListQueue ==
    /\ loop.pc = "list"
    /\ loop' = [loop EXCEPT !.pc = "read", !.todo = Present]
    /\ UNCHANGED entries

\* The ledger cannot be listed.
ListFails ==
    /\ loop.pc = "list"
    /\ loop' = [loop EXCEPT !.pc = "failed"]
    /\ UNCHANGED entries

(* In the order of the ids.  An entry that is gone or unreadable by now, or *)
(* is not a capture awaiting a human, is passed over.                      *)
ReadQueue ==
    /\ loop.pc = "read"
    /\ \E i \in loop.todo :
         /\ \A j \in loop.todo : i <= j
         /\ \/ /\ i \in Present /\ Disposable(entries[i])
               /\ loop' = [loop EXCEPT !.todo = @ \ {i}, !.touched = @ \ {i},
                                       !.cards = Append(@, <<i, entries[i]>>)]
            \/ loop' = [loop EXCEPT !.todo = @ \ {i}]
    /\ UNCHANGED entries

ShowFirst ==
    /\ loop.pc = "read"
    /\ loop.todo = {}
    /\ loop' = [loop EXCEPT !.pc = IF loop.cards = <<>> THEN "done" ELSE "key"]
    /\ UNCHANGED entries

-----------------------------------------------------------------------------
(* y, n and e.                                                             *)

(* The loop moves on; with the last card it is over.                       *)
Disposed(act, after) ==
    loop' = [loop EXCEPT !.pc = IF loop.position = Len(loop.cards) THEN "done" ELSE "key",
                         !.position = @ + 1, !.draft = Missing,
                         !.acts = Append(@, [act |-> act, after |-> after]), !.undoable = TRUE,
                         !.failures = 0,
                         !.halves = @ \ {CardId}]

\* Faulty variant: a failure is not counted.
FailedAgain ==
    loop' = [loop EXCEPT !.pc = "key", !.draft = Missing]

(* The card stays, up to the bound on attempts.                            *)
Failed ==
    loop' = [loop EXCEPT !.pc = IF loop.failures + 1 >= MaxFailures THEN "gaveUp" ELSE "key",
                         !.draft = Missing, !.failures = @ + 1]

\* Faulty variant: what was confirmed is not recorded as it was written.
ConfirmBare ==
    /\ loop.pc = "key"
    /\ Disposable(CardEntry)
    /\ entries' = [entries EXCEPT ![CardId] = Confirmed(CardEntry)]
    /\ Disposed("confirm", CardEntry)

(* Confirm: a Put of the copy, whatever the file holds by now.             *)
Confirm ==
    /\ loop.pc = "key"
    /\ Disposable(CardEntry)
    /\ entries' = [entries EXCEPT ![CardId] = Confirmed(CardEntry)]
    /\ Disposed("confirm", Confirmed(CardEntry))

(* Discard: a Delete of the id, whatever the file holds by now.            *)
Discard ==
    /\ loop.pc = "key"
    /\ Disposable(CardEntry)
    /\ entries[CardId] # Missing
    /\ entries' = [entries EXCEPT ![CardId] = Missing]
    /\ Disposed("discard", Missing)

DiscardNotFound ==
    /\ loop.pc = "key"
    /\ entries[CardId] = Missing
    /\ Failed
    /\ UNCHANGED entries

\* Faulty variant: the entry is not read again after the editor.
EditUnread ==
    /\ loop.pc = "key"
    /\ Disposable(CardEntry)
    /\ \E b \in Bodies \ {CardEntry.body} :
         loop' = [loop EXCEPT !.pc = "editPut", !.draft = [CardEntry EXCEPT !.body = b],
                              !.raced = {}]
    /\ UNCHANGED entries

(* The editor has returned another body, and the entry, read again, is the *)
(* one the editor was given.                                               *)
Edit ==
    /\ loop.pc = "key"
    /\ Disposable(CardEntry)
    /\ entries[CardId] = CardEntry
    /\ \E b \in Bodies \ {CardEntry.body} :
         loop' = [loop EXCEPT !.pc = "editPut", !.draft = [CardEntry EXCEPT !.body = b],
                              !.raced = {}]
    /\ UNCHANGED entries

(* EditBody's write.                                                       *)
EditPut ==
    /\ loop.pc = "editPut"
    /\ entries' = [entries EXCEPT ![CardId] = loop.draft]
    /\ loop' = [loop EXCEPT !.pc = "confirmEdit", !.halves = @ \cup {CardId}]

(* The second write of e: Confirm, of the entry as edited.                 *)
ConfirmEdited ==
    /\ loop.pc = "confirmEdit"
    /\ entries' = [entries EXCEPT ![CardId] = Confirmed(loop.draft)]
    /\ Disposed("edit", Confirmed(loop.draft))

(* Any operation of the store may fail; so may the editor, and it may come *)
(* back with nothing new.                                                  *)
DispositionFails ==
    /\ loop.pc \in {"key", "editPut", "confirmEdit"}
    /\ Failed
    /\ UNCHANGED entries

-----------------------------------------------------------------------------
(* u: one level.  A refused or failed undo leaves everything as it is.     *)

(* The card before comes up again; loop.failures is left as it is.         *)
Undone ==
    loop' = [loop EXCEPT !.pc = "key", !.position = @ - 1, !.undoable = FALSE,
                         !.acts = SubSeq(@, 1, Len(@) - 1)]

UndoDiscard ==
    /\ loop.pc = "key" /\ loop.undoable
    /\ PreviousAct.act = "discard"
    /\ entries[PreviousId] = Missing
    /\ entries' = [entries EXCEPT ![PreviousId] = Previous[2]]
    /\ Undone

(* Only what the loop wrote is taken back: the file is read again, and it  *)
(* is still what the disposition left.                                     *)
UndoWrite ==
    /\ loop.pc = "key" /\ loop.undoable
    /\ PreviousAct.act # "discard"
    /\ entries[PreviousId] = PreviousAct.after
    /\ loop' = [loop EXCEPT !.pc = "undoPut", !.raced = {}]
    /\ UNCHANGED entries

UndoPut ==
    /\ loop.pc = "undoPut"
    /\ entries' = [entries EXCEPT ![PreviousId] = Previous[2]]
    /\ Undone

UndoPutFails ==
    /\ loop.pc = "undoPut"
    /\ loop' = [loop EXCEPT !.pc = "key"]
    /\ UNCHANGED entries

(* q, or the end of the input.                                             *)
Quit ==
    /\ loop.pc = "key"
    /\ loop' = [loop EXCEPT !.pc = "quit"]
    /\ UNCHANGED entries

-----------------------------------------------------------------------------
(* Everyone else.  An add takes a number that is free, as Ledger has it.   *)

Touch(i) == loop' = [loop EXCEPT !.touched = @ \cup {i}, !.raced = @ \cup {i}]

\* dira sniff stages a capture, or dira log records a decision.
OthersAdd(i) ==
    /\ entries[i] = Missing
    /\ \E t \in Titles, s \in {"staged", "accepted"} :
         entries' = [entries EXCEPT ![i] = Decision(t, s)]
    /\ Touch(i)

\* Another session, or dira ui, disposes of a capture.
OthersDispose(i) ==
    /\ entries[i] # Missing
    /\ \/ /\ Disposable(entries[i])
          /\ entries' = [entries EXCEPT ![i] = Confirmed(@)]
       \/ /\ Disposable(entries[i])
          /\ entries' = [entries EXCEPT ![i] = Missing]
       \/ /\ entries[i].state = "staged"
          /\ \E b \in Bodies \ {entries[i].body} :
               entries' = [entries EXCEPT ![i].body = b]
    /\ Touch(i)

Dispose ==
    \/ Confirm \/ Discard \/ DiscardNotFound
    \/ Edit \/ EditPut \/ ConfirmEdited \/ DispositionFails

Undo == UndoDiscard \/ UndoWrite

Step ==
    \/ ListQueue \/ ListFails \/ ReadQueue \/ ShowFirst
    \/ Dispose \/ UndoPut \/ UndoPutFails

Next ==
    \/ Step \/ Undo \/ Quit
    \/ \E i \in Ids : OthersAdd(i) \/ OthersDispose(i)

Spec == Init /\ [][Next]_vars

(* A source of y, n and e that never runs dry, as in a script.             *)
FairSpec == Spec /\ WF_vars(Step)

-----------------------------------------------------------------------------
(* Properties.                                                             *)

(* "Dispositions are the acts that stand" (tui.go:166-168): the ledger     *)
(* holds what each of them wrote, unless somebody else changed the entry.  *)
ActsStand ==
    \A k \in 1..Len(loop.acts) :
        loop.cards[k][1] \notin loop.touched =>
            entries[loop.cards[k][1]] = loop.acts[k].after

(* "q leaves every remaining card staged and untouched" (tui.go:24), and   *)
(* undo restores "byte for byte" (tui.go:358): a card that is not disposed *)
(* of is as it was read, unless somebody else changed it, or its edit was  *)
(* stored and the confirmation of it failed.                               *)
RemainingUntouched ==
    \A k \in loop.position..Len(loop.cards) :
        loop.cards[k][1] \notin loop.touched \cup loop.halves =>
            entries[loop.cards[k][1]] = loop.cards[k][2]

\* The ledger is what the session says of it, on both sides of the position.
LedgerAsTold == ActsStand /\ RemainingUntouched

(* Neither an edit nor an undo silently reverts what somebody else wrote   *)
(* (edit.go:188-198, tui.go:380-396), but for a change in the instant      *)
(* between the loop's second read and its write.                           *)
NoSilentRevert ==
    [][/\ EditPut => CardId \in loop.raced \/ entries[CardId] = CardEntry
       /\ Undone /\ entries' # entries =>
            \/ entries[PreviousId] = PreviousAct.after
            \/ PreviousAct.act # "discard" /\ PreviousId \in loop.raced]_vars

(* The loop ends however often the store fails and whatever others do, as  *)
(* long as the keys are not undos for ever (tui.go:274-283).               *)
LoopEnds == <>[][~Undo]_vars => <>(loop.pc \in {"done", "quit", "gaveUp", "failed"})

============================================================================
