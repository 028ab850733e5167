---------------------------- MODULE InstallHooks ----------------------------
(***************************************************************************)
(* `dira install-hooks` and its --uninstall (internal/installhooks and     *)
(* cmd/dira/install_hooks.go): the settings file of another program is     *)
(* read, edited by splicing spans of it, and written back, while that      *)
(* program and its operator write the file too.                            *)
(*                                                                         *)
(* A JSON object or array is the sequence of its tokens between the        *)
(* brackets: members, elements, commas and blanks.  A token is             *)
(* [key, kind, body]; the body of a container is again such a sequence.    *)
(***************************************************************************)
EXTENDS Naturals, Sequences, SequencesExt, FiniteSets, FiniteSetsExt

CONSTANTS Events,        \* the events dira registers, in the order of the example file
          Settings,      \* the contents the file may have before dira ever ran
          Runs,          \* the processes that run the command
          MaxEdits,      \* bound: how often anyone else changes the file
          Absent, Torn   \* no file; a file that is not JSON, a cut-off write

ASSUME EventsAssumption == Events \in Seq(STRING) /\ Events # <<>> /\ IsInjective(Events)

VARIABLES settings,  \* the file: Absent, Torn or the tokens of the root object
          proc,      \* what each process is about to do with what it read
          edits      \* how often anyone else has changed the file

hookVars == <<settings, proc, edits>>

-----------------------------------------------------------------------------
\* Tokens
Token(key, kind, body) == [key |-> key, kind |-> kind, body |-> body]
Comma == Token(",", "sep", <<>>)
Blank == Token(" ", "sep", <<>>)
Theirs == Token("theirs", "command", <<>>)       \* a command of the operator's
Dira == Token("dira", "command", <<>>)           \* one with dira's prefix for its event
Entry(commands) == Token("entry", "entry", commands)

Items(body) == {p \in DOMAIN body : body[p].kind # "sep"}

\* Of a member declared twice the last one counts.
Member(body, key) ==
    LET found == {p \in Items(body) : body[p].key = key}
    IN  IF found = {} THEN 0 ELSE Max(found)

\* The tokens at the positions of K, in their order.
Kept(body, K) ==
    LET upTo[k \in 0 .. Len(body)] ==
            IF k = 0 THEN <<>> ELSE IF k \in K THEN Append(upTo[k - 1], body[k]) ELSE upTo[k - 1]
    IN  upTo[Len(body)]

-----------------------------------------------------------------------------
\* Insert: every insertion is placed by the original text.  Into an empty
\* container the items go right after the bracket; otherwise each follows the
\* last item behind a comma.
Behind(items) == FlattenSeq([k \in 1 .. Len(items) |-> <<Comma, Blank, items[k]>>])

insertAll(body, items) ==
    IF Items(body) = {} THEN items \o body
    ELSE LET last == Max(Items(body))
         IN  SubSeq(body, 1, last) \o Behind(items) \o SubSeq(body, last + 1, Len(body))

\* Mutant: every run takes the separators behind it along.
SpansForward(body, P) ==
    LET kept == Items(body) \ P
    IN  IF P = {} THEN {}
        ELSE UNION {p .. (IF \E q \in Items(body) : q > p THEN Min({q \in Items(body) : q > p}) - 1
                          ELSE Max(P)) : p \in P}

\* Delete: a run of removed items takes the separators before it along, or,
\* where it is the first, those behind it; the last of them all, everything
\* from the bracket on.
removalSpans(body, P) ==
    LET kept == Items(body) \ P
        Before(p) == {q \in kept : q < p}
    IN  CASE P = {} -> {}
          [] P # {} /\ kept = {} -> 1 .. Max(P)
          [] OTHER -> UNION {IF Before(p) = {} THEN p .. Min(kept) - 1 ELSE Max(Before(p)) + 1 .. p : p \in P}

deleteAll(body, P) == Kept(body, DOMAIN body \ removalSpans(body, P))

-----------------------------------------------------------------------------
\* Whose an entry is.
AnyOwned(array) == \E p \in Items(array) : Dira \in ToSet(array[p].body)
WhollyOwned(entry) == entry.body # <<>> /\ ToSet(entry.body) = {Dira}

eventArray(e) == Token(e, "array", <<Entry(<<Dira>>)>>)
AllEvents == [k \in 1 .. Len(Events) |-> eventArray(Events[k])]

\* hooksValueText: one event to a line.
hooksMember ==
    Token("hooks", "object", <<Blank, Head(AllEvents)>> \o Behind(Tail(AllEvents)) \o <<Blank>>)
freshSettings == <<Blank, hooksMember, Blank>>

\* Scan refuses what is not an object with an object under "hooks"; install
\* also refuses an event of dira's that is not an array.
Scans(doc) == doc # Torn /\ (Member(doc, "hooks") = 0 \/ doc[Member(doc, "hooks")].kind = "object")
Hooks(doc) == doc[Member(doc, "hooks")].body
Shaped(doc) ==
    \A k \in DOMAIN Events : Member(doc, Events[k]) # 0 => doc[Member(doc, Events[k])].kind = "array"

\* The events the file has no member for.
NewEvents(hooks) == Kept(AllEvents, {k \in DOMAIN Events : Member(hooks, Events[k]) = 0})

\* Mutant: an event that is there already is left as it is.
OnlyNewEvents(doc) ==
    LET missing == NewEvents(Hooks(doc))
    IN  IF Member(doc, "hooks") = 0 THEN insertAll(doc, <<hooksMember>>)
        ELSE IF missing = <<>> THEN doc
             ELSE [doc EXCEPT ![Member(doc, "hooks")].body = insertAll(@, missing)]

\* The events that are there without a command of dira's, and with one.
IsEventsMember(hooks, p) == \E k \in DOMAIN Events : Member(hooks, Events[k]) = p
Lacking(hooks) == {p \in DOMAIN hooks : IsEventsMember(hooks, p) /\ ~AnyOwned(hooks[p].body)}
Filled(hooks) ==
    [p \in DOMAIN hooks |->
        IF p \in Lacking(hooks) THEN [hooks[p] EXCEPT !.body = insertAll(@, <<Entry(<<Dira>>)>>)]
        ELSE hooks[p]]
WithEvents(hooks) ==
    IF NewEvents(hooks) = <<>> THEN Filled(hooks) ELSE insertAll(Filled(hooks), NewEvents(hooks))

installEdits(doc) ==
    IF Member(doc, "hooks") = 0 THEN insertAll(doc, <<hooksMember>>)
    ELSE [doc EXCEPT ![Member(doc, "hooks")].body = WithEvents(@)]

\* Refused, UNCHANGED, or what to write.
Install(doc) ==
    CASE doc = Absent -> [outcome |-> "INSTALLED", data |-> freshSettings]
      [] doc # Absent /\ (~Scans(doc) \/ (Member(doc, "hooks") # 0 /\ ~Shaped(Hooks(doc)))) ->
            [outcome |-> "refused", data |-> Absent]
      [] OTHER -> IF installEdits(doc) = doc THEN [outcome |-> "UNCHANGED", data |-> doc]
                  ELSE [outcome |-> "INSTALLED", data |-> installEdits(doc)]

-----------------------------------------------------------------------------
\* Uninstall removes the entries that are wholly dira's; an event left with no
\* entry goes as a whole, and so does "hooks".
OwnedIn(array) == {p \in Items(array) : WhollyOwned(array[p])}
Touched(hooks) ==
    {p \in Items(hooks) : /\ IsEventsMember(hooks, p)
                          /\ hooks[p].kind = "array" /\ OwnedIn(hooks[p].body) # {}}
Emptied(hooks) == {p \in Touched(hooks) : OwnedIn(hooks[p].body) = Items(hooks[p].body)}
Pruned(hooks) ==
    [p \in DOMAIN hooks |->
        IF p \in Touched(hooks) \ Emptied(hooks) THEN [hooks[p] EXCEPT !.body = deleteAll(@, OwnedIn(@))]
        ELSE hooks[p]]

\* Mutant: an event with an entry of dira's goes as a whole.
WholeEvents(doc) ==
    LET touched == Touched(Hooks(doc))
    IN  CASE Member(doc, "hooks") = 0 \/ touched = {} -> doc
          [] Member(doc, "hooks") # 0 /\ touched # {} /\ touched = Items(Hooks(doc)) ->
                deleteAll(doc, {Member(doc, "hooks")})
          [] OTHER -> [doc EXCEPT ![Member(doc, "hooks")].body = deleteAll(@, touched)]

uninstallSpans(doc) ==
    LET touched == Touched(Hooks(doc))
        full    == Emptied(Hooks(doc))
    IN  CASE Member(doc, "hooks") = 0 \/ touched = {} -> doc
          [] Member(doc, "hooks") # 0 /\ touched # {} /\ full = Items(Hooks(doc)) ->
                deleteAll(doc, {Member(doc, "hooks")})
          [] OTHER -> [doc EXCEPT ![Member(doc, "hooks")].body = deleteAll(Pruned(@), full)]

Uninstall(doc) ==
    CASE doc = Absent -> [outcome |-> "UNCHANGED", data |-> Absent]
      [] doc # Absent /\ doc = freshSettings -> [outcome |-> "REMOVED", data |-> Absent]
      [] doc # Absent /\ ~Scans(doc) -> [outcome |-> "refused", data |-> Absent]
      [] OTHER -> IF uninstallSpans(doc) = doc THEN [outcome |-> "UNCHANGED", data |-> doc]
                  ELSE [outcome |-> "REMOVED", data |-> uninstallSpans(doc)]

-----------------------------------------------------------------------------
\* The command
Idle == [at |-> "idle"]

\* Read the file and decide; only a file that changes is written.
runInstallHooks(p) ==
    /\ proc[p] = Idle
    /\ \E undo \in BOOLEAN :
          LET r == IF undo THEN Uninstall(settings) ELSE Install(settings)
          IN  proc' = [proc EXCEPT ![p] =
                          [at |-> IF r.outcome \in {"INSTALLED", "REMOVED"} THEN "decided" ELSE "done",
                           undo |-> undo, outcome |-> r.outcome, data |-> r.data,
                           saw |-> settings]]
    /\ UNCHANGED <<settings, edits>>

\* os.WriteFile truncates and writes; a removal is one step.
Truncate(p) ==
    /\ proc[p].at = "decided" /\ proc[p].data # Absent
    /\ settings' = Torn
    /\ proc' = [proc EXCEPT ![p].at = "cut"]
    /\ UNCHANGED edits

WriteFile(p) ==
    /\ proc[p].at = "cut"
    /\ settings' = proc[p].data
    /\ proc' = [proc EXCEPT ![p].at = "done"]
    /\ UNCHANGED edits

Delete(p) ==
    /\ proc[p].at = "decided" /\ proc[p].data = Absent
    /\ settings' = Absent
    /\ proc' = [proc EXCEPT ![p].at = "done"]
    /\ UNCHANGED edits

\* The process ends, or is killed wherever it stands.
Exit(p) ==
    /\ proc[p] # Idle
    /\ proc' = [proc EXCEPT ![p] = Idle]
    /\ UNCHANGED <<settings, edits>>

-----------------------------------------------------------------------------
\* The operator, or the other program: adds a hook of its own to an event,
\* puts a command beside dira's in one entry, or replaces the file.
MaxEntries == 2
Edited(doc) ==
    LET hooks == Hooks(doc)
        At(p, array) == [doc EXCEPT ![Member(doc, "hooks")].body[p].body = array]
        arrays == {p \in Items(hooks) : hooks[p].kind = "array"}
    IN  IF doc \in {Absent, Torn} \/ ~Scans(doc) \/ Member(doc, "hooks") = 0 THEN {}
        ELSE {At(p, insertAll(hooks[p].body, <<Entry(<<Theirs>>)>>)) :
                p \in {q \in arrays : Cardinality(Items(hooks[q].body)) < MaxEntries}}
             \cup {At(p, <<Entry(<<Theirs, Dira>>)>>) :
                     p \in {q \in arrays : hooks[q].body = <<Entry(<<Dira>>)>>}}

OperatorEdits ==
    /\ edits < MaxEdits /\ edits' = edits + 1
    /\ settings' \in Edited(settings) \cup Settings
    /\ settings' # settings
    /\ UNCHANGED proc

HooksInit == settings \in Settings /\ edits = 0 /\ proc = [p \in Runs |-> Idle]

HooksNext ==
    \/ \E p \in Runs : runInstallHooks(p) \/ Truncate(p) \/ WriteFile(p) \/ Delete(p) \/ Exit(p)
    \/ OperatorEdits

-----------------------------------------------------------------------------
\* Properties

\* Between two items there is a comma, and a comma follows an item and precedes
\* one with no other comma between.
Commas(body) == {p \in DOMAIN body : body[p] = Comma}
Alternating(I, C) ==
    /\ \A p, q \in I : p < q => \E c \in C : p < c /\ c < q
    /\ \A c \in C : /\ \E p \in I : p < c /\ \A d \in C : d < c => d < p
                   /\ \E q \in I : c < q /\ \A d \in C : c < d => q < d
Alternates(body) == Alternating(Items(body), Commas(body))
WellFormed(doc) ==
    /\ Alternates(doc)
    /\ Member(doc, "hooks") # 0 =>
          Alternates(Hooks(doc)) /\ \A p \in Items(Hooks(doc)) : Alternates(Hooks(doc)[p].body)

Registered(doc) ==
    Member(doc, "hooks") # 0 /\ \A k \in DOMAIN Events :
        LET m == Member(Hooks(doc), Events[k]) IN m # 0 /\ AnyOwned(Hooks(doc)[m].body)

\* What a process reports it installed, or found installed, is in a document
\* that parses, with a command of dira's under every event.
InstalledMeansInForce ==
    \A p \in Runs :
        proc[p] # Idle /\ ~proc[p].undo /\ proc[p].outcome # "refused" =>
            WellFormed(proc[p].data) /\ Registered(proc[p].data)

\* What is not dira's: the members of the root, of "hooks", and each event's
\* entries that are not wholly dira's, in their order.
Foreign(array) == Kept(array, Items(array) \ OwnedIn(array))
ForeignEvents(hooks) ==
    Kept([p \in DOMAIN hooks |-> [hooks[p] EXCEPT !.body = Foreign(@)]],
         {p \in Items(hooks) : hooks[p].kind # "array" \/ Foreign(hooks[p].body) # <<>>})
IsHooks(member) == member.key = "hooks" /\ member.kind = "object"
NotDiras(doc) ==
    IF doc \in {Absent, Torn} THEN <<>>
    ELSE Kept([p \in DOMAIN doc |-> IF IsHooks(doc[p]) THEN [doc[p] EXCEPT !.body = ForeignEvents(@)]
                                    ELSE doc[p]],
              {p \in Items(doc) : IsHooks(doc[p]) => ForeignEvents(doc[p].body) # <<>>})

\* Merge, never clobber: what either command writes holds everything that is
\* not dira's of what it read, in the same order.
OthersSurvive ==
    \A p \in Runs :
        proc[p] # Idle /\ proc[p].outcome # "refused" => NotDiras(proc[p].data) = NotDiras(proc[p].saw)

\* Uninstall is the inverse of install, to the byte, on every file that holds
\* nothing of dira's and no empty container an install would fill, and takes
\* nothing of anybody else's out of any other.
Untouched(doc) ==
    /\ Member(doc, "hooks") # 0 =>
          /\ Items(Hooks(doc)) # {}
          /\ \A p \in Items(Hooks(doc)) :
                Hooks(doc)[p].kind = "array" => Items(Hooks(doc)[p].body) # {} /\ OwnedIn(Hooks(doc)[p].body) = {}
UninstallUndoes ==
    /\ OthersSurvive
    /\ settings # Torn /\ Install(settings).outcome = "INSTALLED"
       /\ (settings # Absent => Untouched(settings)) =>
           Uninstall(Install(settings).data).data = settings
-----------------------------------------------------------------------------
\* The form of a file, which the theorems suppose of what the commands find;
\* in the strict sense it also parses and has no "hooks" without a member.
IsSeq(body) == body \in Seq(Range(body))
IsToken(t) == t = Token(t.key, t.kind, t.body)
IsTokens(body) == IsSeq(body) /\ \A p \in DOMAIN body : IsToken(body[p])
IsEvent(strict, t) == IsTokens(t.body) /\ (strict => Alternates(t.body))
IsHooksBody(strict, body) ==
    /\ IsTokens(body) /\ \A q \in Items(body) : IsEvent(strict, body[q])
    /\ strict => Alternates(body) /\ Items(body) # {}
Sound(strict, doc) ==
    /\ IsTokens(doc) /\ (strict => Alternates(doc))
    /\ \A p \in Items(doc) : IsHooks(doc[p]) => IsHooksBody(strict, doc[p].body)
=============================================================================
