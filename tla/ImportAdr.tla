------------------------------ MODULE ImportAdr ------------------------------
(***************************************************************************)
(* `dira import DIR` (cmd/dira/import.go, internal/importadr): the ADR     *)
(* documents of a directory become staged decisions, one each, if they     *)
(* record why an alternative was rejected.  What has been imported is not  *)
(* recorded anywhere: each run reads it off the entries, whose excerpt     *)
(* names the document and the hash of its content.  Runs stop half way,    *)
(* are repeated, and may overlap; documents and entries change meanwhile.  *)
(***************************************************************************)
EXTENDS AdrExtract

CONSTANTS Importers,    \* the runs of the command
          Paths,        \* the names in the directory, naturals in their order
          Corpora,      \* the directories a run may find: a document for each name
          Drafting,     \* what a document may be rewritten to
          EntryIds,     \* dec-0001 and so on
          NoDocument, NoImport,
          MaxRewrites   \* bound: changes of the documents

\* A document's key is its path and the hash of its content.
Key(path, document) == [path |-> path, content |-> document]
Documents == (Drafting \cup UNION {{c[path] : path \in Paths} : c \in Corpora}) \ {NoDocument}
Keys == {Key(path, document) : path \in Paths, document \in Documents}

\* The alternatives of the entry: those with a reason.
Recorded(document) == {a \in Range(Extract(document)) : a.whyNot # {}}
ImportedEntries ==
    [key : Keys, alternatives : {Recorded(d) : d \in Documents}, staged : BOOLEAN]

ASSUME ImportAssumption ==
    /\ Paths \subseteq Nat /\ EntryIds \subseteq Nat
    /\ \A c \in Corpora : c = [path \in Paths |-> c[path]]
    /\ \A d \in Documents : IsDocument(d)
    /\ NoImport \notin ImportedEntries

VARIABLES corpus,       \* path -> document
          imports,      \* id -> [key, alternatives, staged]
          import,       \* where each run stands
          rewrites,
          overlapping   \* history: whether two runs were ever under way together

importVars == <<corpus, imports, import, rewrites, overlapping>>

Present == {id \in EntryIds : imports[id] # NoImport}
Imported == {imports[id].key : id \in Present}

NotBegun == [at |-> "idle", todo |-> {}, docs |-> {}, confirmed |-> FALSE, known |-> {},
             drafts |-> {}, gone |-> {}, outcome |-> "none"]
Importing == {p \in Importers : import[p].at \notin {"idle", "ended"}}
Become(p, run) == import' = [import EXCEPT ![p] = run]
Stop(p, outcome) == Become(p, [NotBegun EXCEPT !.at = "ended", !.outcome = outcome])
LedgerStays == UNCHANGED <<corpus, imports, rewrites, overlapping>>
-----------------------------------------------------------------------------
ImportInit ==
    /\ corpus \in Corpora
    /\ imports = [id \in EntryIds |-> NoImport]
    /\ import = [p \in Importers |-> NotBegun]
    /\ rewrites = 0 /\ overlapping = FALSE

\* The names are listed first and the files read one by one; a file that is
\* gone by then ends the run.
scanDirectory(p) ==
    /\ import[p].at = "idle"
    /\ Become(p, [NotBegun EXCEPT !.at = "scan", !.todo = {n \in Paths : corpus[n] # NoDocument}])
    /\ overlapping' = (overlapping \/ Importing # {})
    /\ UNCHANGED <<corpus, imports, rewrites>>

ScanDocument(p) ==
    LET path == Min(import[p].todo) IN
    /\ import[p].at = "scan" /\ import[p].todo # {}
    /\ IF corpus[path] = NoDocument THEN Stop(p, "error")
       ELSE Become(p, [import[p] EXCEPT !.todo = @ \ {path}, !.docs = @ \cup {Key(path, corpus[path])}])
    /\ LedgerStays

\* Without a document that carries a reason the run offers an index of the
\* titles instead, outside the ledger; otherwise it lists the entries, also
\* when nothing was confirmed.
readConfirmation(p) ==
    LET reasoned == {d \in import[p].docs : WithReason(d.content)} IN
    /\ import[p].at = "scan" /\ import[p].todo = {}
    /\ \E confirmed \in BOOLEAN :
          IF reasoned = {} THEN Stop(p, IF confirmed THEN "indexed" ELSE "declined")
          ELSE Become(p, [import[p] EXCEPT !.at = "list", !.docs = reasoned,
                                           !.confirmed = confirmed, !.todo = Present])
    /\ LedgerStays

\* Mutation: only what still awaits disposal counts as imported.
StagedOnly(p) ==
    LET id == Min(import[p].todo) IN
    /\ import[p].at = "list" /\ import[p].todo # {}
    /\ IF id \notin Present THEN Stop(p, "error")
       ELSE Become(p, [import[p] EXCEPT !.todo = @ \ {id},
                          !.known = IF imports[id].staged THEN @ \cup {imports[id].key} ELSE @])
    /\ LedgerStays

\* Every listed entry is read; one that was discarded meanwhile ends the run.
loadAlreadyImported(p) ==
    LET id == Min(import[p].todo) IN
    /\ import[p].at = "list" /\ import[p].todo # {}
    /\ IF id \notin Present THEN Stop(p, "error")
       ELSE Become(p, [import[p] EXCEPT !.todo = @ \ {id}, !.known = @ \cup {imports[id].key}])
    /\ LedgerStays

\* The drafts are all built before the first is written: one that does not
\* validate keeps the others out as well.
BuildImportDrafts(p) ==
    LET fresh == import[p].docs \ import[p].known IN
    /\ import[p].at = "list" /\ import[p].todo = {}
    /\ IF ~import[p].confirmed THEN Stop(p, "declined")
       ELSE IF \E d \in fresh : \E a \in Recorded(d.content) : a.option.long
         THEN Stop(p, "error")
       ELSE Become(p, [import[p] EXCEPT !.at = "add", !.drafts = fresh])
    /\ LedgerStays

NextDraft(p) == import[p].at = "add" /\ import[p].drafts # {}
\* In the order of their paths.
FirstDraft(p) ==
    CHOOSE d \in import[p].drafts : \A e \in import[p].drafts : d.path <= e.path
Drafted(p) == Become(p, [import[p] EXCEPT !.drafts = @ \ {FirstDraft(p)}])

\* ledger.Add gives the draft the lowest number that is free.
AddDraft(p) ==
    LET d == FirstDraft(p)
        free == EntryIds \ Present
    IN  /\ NextDraft(p) /\ free # {}
        /\ imports' = [imports EXCEPT ![Min(free)] =
                          [key |-> d, alternatives |-> Recorded(d.content), staged |-> TRUE]]
        /\ Drafted(p)
        /\ UNCHANGED <<corpus, rewrites, overlapping>>

\* Mutation: a draft that cannot be stored is passed over.
PassOver(p) == NextDraft(p) /\ Drafted(p) /\ LedgerStays

\* An add that fails ends the run; what was added stays.
AddFails(p) == NextDraft(p) /\ Stop(p, "error") /\ LedgerStays

Finish(p) ==
    /\ import[p].at = "add" /\ import[p].drafts = {}
    /\ Stop(p, "imported") /\ LedgerStays

KillImport(p) == p \in Importing /\ Stop(p, "killed") /\ LedgerStays

\* dira distill, at the same time: a capture is confirmed, or discarded.
ConfirmImport(id) ==
    /\ id \in Present /\ imports[id].staged
    /\ imports' = [imports EXCEPT ![id].staged = FALSE]
    /\ UNCHANGED <<corpus, import, rewrites, overlapping>>

DiscardImport(id) ==
    /\ id \in Present /\ imports[id].staged
    /\ imports' = [imports EXCEPT ![id] = NoImport]
    /\ import' = [p \in Importers |->
                    IF p \in Importing THEN [import[p] EXCEPT !.gone = @ \cup {imports[id].key}]
                    ELSE import[p]]
    /\ UNCHANGED <<corpus, rewrites, overlapping>>

\* The documents are edited, added and removed by their authors.
Rewrite(path) ==
    /\ rewrites < MaxRewrites /\ rewrites' = rewrites + 1
    /\ \E d \in (Drafting \cup {NoDocument}) \ {corpus[path]} : corpus' = [corpus EXCEPT ![path] = d]
    /\ UNCHANGED <<imports, import, overlapping>>

ImportNext ==
    \/ \E p \in Importers :
          \/ scanDirectory(p) \/ ScanDocument(p) \/ readConfirmation(p) \/ loadAlreadyImported(p)
          \/ BuildImportDrafts(p) \/ AddDraft(p) \/ AddFails(p) \/ Finish(p) \/ KillImport(p)
    \/ \E id \in EntryIds : ConfirmImport(id) \/ DiscardImport(id)
    \/ \E path \in Paths : Rewrite(path)

ImportSpec == ImportInit /\ [][ImportNext]_importVars
-----------------------------------------------------------------------------
(* Properties                                                              *)

\* A document is one entry and no more as long as its content stays the same,
\* however often the import is repeated and wherever the runs before it
\* stopped.  Runs that overlap are the exception: neither sees the other's.
ImportedOnce ==
    ~overlapping => \A i, j \in Present : imports[i].key = imports[j].key => i = j

\* A run that reports success leaves every reasoned document it scanned in
\* the ledger, by whichever run it was added; only what was discarded while
\* the run was under way may be missing.
SuccessMeansImported ==
    [][\A p \in Importers :
          import[p].at # "ended" /\ import'[p].outcome = "imported"
          => import[p].docs \subseteq Imported' \cup import[p].gone]_importVars

\* The entry of a document records what the document holds against its options
\* and nothing else: of each option no more than is written of it, the chosen
\* one only if the document itself lists it among the rejected, and every
\* option that something is written against.
RefusalsAsWritten ==
    \A id \in Present :
        LET document == imports[id].key.content
            recorded == imports[id].alternatives
        IN  /\ \A a \in recorded :
                  /\ a.whyNot \subseteq AllSaid(document, a.option)
                  /\ isChosen(document, a.option) => \E b \in Rejected(document) : b.label = a.option
            /\ \A c \in Weighed(document) \cup Described(document) \cup Rejected(document) :
                  SpokenAgainst(document, c.label) => \E a \in recorded : a.option = c.label
=============================================================================
