------------------------------- MODULE WebView -------------------------------
(***************************************************************************)
(* `dira ui` (cmd/dira/ui.go, internal/ui): a server over the index it     *)
(* opened when it started and over the entry files.  The page / lists the  *)
(* index, /distill is dealt from the files, and the forms of the deck's    *)
(* top card confirm, discard or edit an entry.  Requests of several tabs   *)
(* overlap, a tab keeps a page for as long as it likes, and other          *)
(* processes use the ledger and the cache meanwhile.                       *)
(*                                                                         *)
(* Ids are the numbers of decisions.  Two entries are equal here if their  *)
(* files are, which is what Version compares.  The pages read the ledger   *)
(* in one step; Distill has the reading of the queue entry by entry.       *)
(***************************************************************************)
EXTENDS Naturals, FiniteSets, FiniteSetsExt

CONSTANTS CardIds,      \* the numbers of decision entries
          Decks,        \* the ledgers a server is started on
          Texts,        \* the bodies an entry may have
          Tabs,         \* the browser's
          NoCard,       \* no entry, no row
          MaxElsewhere  \* bound on what other processes change

Cards == [state : {"staged", "accepted"}, confirmed : BOOLEAN, body : Texts]

ASSUME CardIdsAssumption == CardIds \subseteq Nat /\ IsFiniteSet(CardIds)
ASSUME DecksAssumption ==
    /\ NoCard \notin CardIds /\ NoCard \notin Cards
    /\ \A d \in Decks : d \in [CardIds -> Cards \cup {NoCard}]

VARIABLES ledgerFiles,  \* the entry under each id, or NoCard
          indexRows,    \* what the server's index answers from: id -> state
          shared,       \* that is the cache file other processes reconcile
          tab,          \* per tab: the page it shows and the request under way
          elsewhere     \* changes other processes have made

webVars == <<ledgerFiles, indexRows, shared, tab, elsewhere>>

Stored == {i \in CardIds : ledgerFiles[i] # NoCard}

\* shows: the page, or the answer to the last form.  offer: the card of the last
\* deck that has forms, or NoCard.  at: "idle", or what the request under way does
\* next; act, read, text: its locals.  History: moved and raced, that entry changed
\* since the deck was dealt, and since the request last read it.
NewTab == [shows |-> "nothing", offer |-> NoCard, at |-> "idle", act |-> "none",
           read |-> NoCard, text |-> NoCard, moved |-> FALSE, raced |-> FALSE]

Show(t, shown) == tab' = [tab EXCEPT ![t] = shown]
Reads == UNCHANGED <<ledgerFiles, indexRows, shared, elsewhere>>
-----------------------------------------------------------------------------
\* The pages.

\* What Open's reconcile leaves in the index.
Reconciled(files) == [i \in CardIds |-> IF files[i] = NoCard THEN NoCard ELSE files[i].state]

\* Select lists the index; every entry it lists is then read from its file,
\* for its edges.  The states on the page are the index's.
BuildIndex == [i \in CardIds |-> indexRows[i]]
index(t) ==
    /\ tab[t].at = "idle"
    /\ Show(t, [NewTab EXCEPT !.shows =
                   IF \E i \in CardIds : BuildIndex[i] # NoCard /\ ledgerFiles[i] = NoCard
                   THEN "error" ELSE "index"])
    /\ Reads

Awaiting(e) == e.state = "staged" /\ ~e.confirmed

\* Mutation: the top card takes input, whichever it is.
TopCard ==
    LET staged == {i \in Stored : ledgerFiles[i].state = "staged"}
        awaiting == {i \in staged : Awaiting(ledgerFiles[i])}
    IN  IF awaiting # {} THEN Min(awaiting) ELSE IF staged # {} THEN Min(staged) ELSE NoCard

\* Awaiting captures come before those pending extraction; the first card
\* takes input if it awaits a human.
BuildDistill ==
    LET awaiting == {i \in Stored : Awaiting(ledgerFiles[i])}
    IN  IF awaiting # {} THEN Min(awaiting) ELSE NoCard

deck(t) ==
    /\ tab[t].at = "idle"
    /\ Show(t, [NewTab EXCEPT !.shows = "deck", !.offer = BuildDistill])
    /\ Reads
-----------------------------------------------------------------------------
\* The forms.  Going back in the browser brings a page up again, so a form
\* can be sent more than once.
Respond(t, answer) == Show(t, [NewTab EXCEPT !.shows = answer, !.offer = tab[t].offer, !.moved = tab[t].moved])
OnDeck(t) == tab[t].at = "idle" /\ tab[t].offer # NoCard

\* Mutation: a captured entry is a card whoever has confirmed it.
AnyStaged(e, act) == e.state = "staged"

\* Confirm and Discard refuse what a human has stood behind; EditBody does not.
Takes(e, act) == e.state = "staged" /\ (act = "edit" \/ ~e.confirmed)

\* distillEntry reads the file afresh, whatever the page showed.
distillAction(t, act) ==
    LET e == ledgerFiles[tab[t].offer] IN
    /\ OnDeck(t) /\ act \in {"confirm", "discard"}
    /\ IF e = NoCard \/ ~Takes(e, act) THEN Respond(t, "refused")
       ELSE Show(t, [tab[t] EXCEPT !.at = "write", !.act = act, !.read = e, !.raced = FALSE])
    /\ Reads

\* The textarea's text, if it is a new one.
distillEdit(t) ==
    LET e == ledgerFiles[tab[t].offer] IN
    /\ OnDeck(t)
    /\ IF e = NoCard \/ ~Takes(e, "edit") THEN Respond(t, "refused")
       ELSE \E text \in Texts :
              IF text = e.body THEN Respond(t, "unchanged")
              ELSE Show(t, [tab[t] EXCEPT !.at = "reread", !.act = "edit", !.read = e, !.text = text])
    /\ Reads

\* EditBody reads the entry once more and compares versions.
Reread(t) ==
    /\ tab[t].at = "reread"
    /\ IF ledgerFiles[tab[t].offer] # tab[t].read THEN Respond(t, "refused")
       ELSE Show(t, [tab[t] EXCEPT !.at = "write", !.raced = FALSE])
    /\ Reads

\* Any operation of the store may fail.
RequestFails(t) ==
    /\ OnDeck(t) \/ tab[t].at \in {"reread", "write"}
    /\ Respond(t, "failed")
    /\ Reads

\* The entry under i changes, for every tab that looks at it.
Marked(i, tabs) ==
    [u \in Tabs |-> IF tabs[u].offer = i THEN [tabs[u] EXCEPT !.moved = TRUE, !.raced = tabs[u].at # "idle"] ELSE tabs[u]]
Store(t, e) ==
    /\ ledgerFiles' = [ledgerFiles EXCEPT ![tab[t].offer] = e]
    /\ tab' = Marked(tab[t].offer, [tab EXCEPT ![t] = [NewTab EXCEPT !.shows = "done", !.offer = tab[t].offer]])
    /\ UNCHANGED <<indexRows, shared, elsewhere>>

ConfirmPut(t) ==
    /\ tab[t].at = "write" /\ tab[t].act = "confirm"
    /\ Store(t, [tab[t].read EXCEPT !.confirmed = TRUE])

DiscardDelete(t) ==
    /\ tab[t].at = "write" /\ tab[t].act = "discard"
    /\ IF ledgerFiles[tab[t].offer] = NoCard THEN Respond(t, "refused") /\ Reads ELSE Store(t, NoCard)

EditPut(t) ==
    /\ tab[t].at = "write" /\ tab[t].act = "edit"
    /\ Store(t, [tab[t].read EXCEPT !.body = tab[t].text])
-----------------------------------------------------------------------------
\* Other processes.

\* A capture is staged under the lowest free number or a decision is logged;
\* an entry is confirmed, edited or accepted; a capture is discarded.
Elsewhere(i) ==
    /\ elsewhere < MaxElsewhere /\ elsewhere' = elsewhere + 1
    /\ \/ /\ i \notin Stored /\ \A j \in CardIds : j < i => j \in Stored
          /\ \E e \in {c \in Cards : ~c.confirmed} : ledgerFiles' = [ledgerFiles EXCEPT ![i] = e]
       \/ /\ i \in Stored
          /\ \E e \in Cards \ {ledgerFiles[i]} :
                /\ ledgerFiles[i].confirmed => e.confirmed
                /\ ledgerFiles[i].state = "accepted" => e.state = "accepted"
                /\ ledgerFiles' = [ledgerFiles EXCEPT ![i] = e]
       \/ /\ i \in Stored /\ Awaiting(ledgerFiles[i])
          /\ ledgerFiles' = [ledgerFiles EXCEPT ![i] = NoCard]
    /\ tab' = Marked(i, tab)
    /\ UNCHANGED <<indexRows, shared>>

\* Another command opens the index: it reconciles the file the server reads.
OpenElsewhere ==
    /\ shared
    /\ indexRows' = Reconciled(ledgerFiles)
    /\ UNCHANGED <<ledgerFiles, shared, tab, elsewhere>>

\* The cache is removed, by hand or because it is damaged: whoever opens the
\* index makes a new file, and the server keeps the one it has open.
LoseCache ==
    /\ shared /\ shared' = FALSE
    /\ UNCHANGED <<ledgerFiles, indexRows, tab, elsewhere>>

\* index.Open reconciles, into the cache or, failing that, into memory.
WebInit ==
    /\ ledgerFiles \in Decks
    /\ indexRows = Reconciled(ledgerFiles)
    /\ shared \in BOOLEAN
    /\ tab = [t \in Tabs |-> NewTab]
    /\ elsewhere = 0

WebNext ==
    \/ \E t \in Tabs :
          \/ index(t) \/ deck(t)
          \/ \E act \in {"confirm", "discard"} : distillAction(t, act)
          \/ distillEdit(t) \/ Reread(t) \/ RequestFails(t)
          \/ ConfirmPut(t) \/ DiscardDelete(t) \/ EditPut(t)
    \/ \E i \in CardIds : Elsewhere(i)
    \/ OpenElsewhere \/ LoseCache
WebSpec == WebInit /\ [][WebNext]_webVars
-----------------------------------------------------------------------------
\* Properties

\* A page may be old and its entry another one by now, and still: what a form
\* offers is refused only if the entry has changed since the page was dealt,
\* and a request changes the one thing it was sent for, in the file as it is:
\* nobody's other change is undone, and no capture a human has stood behind,
\* nor any record, is discarded.  The instant between a request's last read
\* and its write is the exception.
ActsAsClicked ==
    [][\A t \in Tabs :
         LET i == tab[t].offer
             was == ledgerFiles[i]
             writes == tab[t].at = "write" /\ tab'[t].at = "idle" /\ tab'[t].shows = "done"
         IN  /\ tab'[t].shows = "refused" => tab'[t].moved
             /\ writes /\ ~tab[t].raced =>
                  CASE tab[t].act = "confirm" -> ledgerFiles'[i] = [was EXCEPT !.confirmed = TRUE]
                    [] tab[t].act = "edit" -> ledgerFiles'[i] = [was EXCEPT !.body = tab[t].text]
                    [] OTHER -> Awaiting(was)]_webVars

\* "The ledger is files on disk that a hook rewrites mid session; a cached
\* decision page is a page arguing from a record that has moved"
\* (server.go:318-320): the index page says what the files say.
PageSaysWhatFilesSay ==
    [][\A t \in Tabs : index(t) =>
          tab'[t].shows = "index" /\ BuildIndex = Reconciled(ledgerFiles)]_webVars
=============================================================================
