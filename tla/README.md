# A verification project for dira

dira keeps a project's decisions, intents, constraints, questions and notes as
Markdown files in git. Each command is a short-lived process, but for the local
web view. There is no lock and no database of record: commands that run at the
same time (a Stop hook of one session, a PreCompact hook of another, a human in a
terminal, the web view) share nothing but a directory. What can go wrong between
them goes wrong in the order in which their file operations interleave, and in
what a killed process leaves behind. Beside that there are algorithms whose
results nobody can check by eye: what a plan is checked against, what fits under
a ceiling, what an entry arises from. The modules here are about both.

Contents: the inventory, the modules and how they correspond to the code, the
runs, the bounds and the fairness, the proofs, the disagreements found, what is
not modelled, and the plan.

## 1. Inventory

| component | state | operations | hard behaviour | correct when |
|---|---|---|---|---|
| id allocation, `ledger/write.go` | the entry being added, the ids believed taken | `Add` | racing processes, failures of `Create`, deletions | no entry is ever replaced; the id reported is the id stored; lowest unused number; the search ends |
| store contract, `ledger/store.go` | entries by id | `Get`, `List`, `Create`, `Put`, `Delete` | concurrent callers | point operations are atomic |
| local store, `ledger/local/local.go` | a directory, temporary files | the same, over system calls | readers during writes, kills, vanishing files | nobody sees part of a file; no way out of a write goes past the removal of its temporary file |
| ledger creation, `ledger/local/init.go` | a staging directory with a fixed name | `dira init` | kill half way, two at once, clean-up cut off or refused | all of a new ledger or none |
| entry model, `ledger/entry.go`, codec | an entry | `Validate`, encode, decode | none (pure) | round trip; rules per kind and state |
| supersession, `cmd/dira/supersede.go` | copies of two entries | two writes: edge, then state | kill or refusal between them, overlap with other commands | a retired entry always had a replacement stored first; re-runs complete what was begun |
| amendment, `cmd/dira/log.go` | a copy of one entry | read, change, put | lost updates | the change is in the ledger, and nothing else changed |
| derived index, `internal/index` | `.dira/cache/index.db` and its tables | `Open`, `OpenFresh` (reindex), `sync` | overlapping processes, SQLite's one writer, damaged or half-created caches | no query runs against rows that do not match the files |
| distill loop, `internal/distill` | a queue read once, a position, one level of undo, a failure counter | `y` `n` `e` `u` `q` | stale copies, two-write edit, other sessions | what it says was done is done; what it did not touch is as it was |
| capture, `internal/sniff` | titles read from the ledger, a batch | `Stage` | overlapping hooks, kill in the middle of a batch, per-run bound | one capture per sentence; none lost |
| import, `internal/importadr` | documents scanned, a batch of drafts | `Extract`, `dira import` | four shapes of document told apart by nothing, kill in the middle of a batch, repeats | one entry per document; the reasons recorded are the document's |
| web view, `internal/ui` | an index opened once, pages in tabs | index and deck pages, confirm, discard, edit by POST | stale pages, an index nobody reconciles | a click does what the page said, or is refused |
| chain, `internal/chain` | ledgers opened on the walk | walk, resolve | rings, diamonds, parents that cannot be read | terminates; visits what is reachable |
| enforcement, `internal/enforcer` | the units of text enforced, their weights | `dira check` | half supersessions, writes between two of the files it reads, common words, unreadable or private parents | restated rejections are refused, retired ones redirected; nothing private printed |
| drift, `internal/drift` | none | `Classify` | parents going while it reads | a broken reference is told from one that is withheld |
| kazi join, `internal/status`, `internal/kazi` | a portfolio, a counter of calls | `dira map` | bound on calls, failing calls, files changing between stages | unknown is not reported as done; the ledger's half stands without the program |
| brief, `internal/brief` | tokens spent, pieces written | `dira brief` | the omission notice has to fit too | never over the ceiling; what is left out is not left out silently |
| why, `internal/why` | depths found so far | `dira why` | loops, entries that went after the reconciliation | the ancestry, whole, once, in order |
| hook installation, `internal/installhooks` | another program's settings file | install, uninstall | foreign content, edits meanwhile, truncated writes | idempotent; uninstall undoes install; nobody's content lost |
| skill installation, `internal/skill` | one document | `dira install-skill` | edited copies, cut-off writes | an edit is not overwritten unasked |
| command line, configuration, rendering | none | text | none | what the commands return is what is printed |

How they interact. Every command reaches the entries through `ledger.Store`,
which the local store implements. `dira log` without an id, `dira sniff` and
`dira import` call `ledger.Add`. `dira log <id>`, `dira supersede`, the distill
loop and the web view read an entry and `Put` all of it back, with no version
check. Commands that read (`brief`, `check`, `why`, `map`) first reconcile the
index with the files, then select ids from it and read the files, which may have
changed since; the web view reconciles once, when it starts. `brief`, `check` and
`drift` read the ledgers of declared parents; `map` runs kazi. Nothing calls back
and nothing waits for anything, except a SQLite writer for another, up to the
busy timeout.

The hazards that follow from this, each with its place in the code and the
properties that watch it, are listed in `PROJECT.json`.

## 2. Modules

    Ledger       <--refines--  Allocation    (AllocationProofs)
    AtomicStore  <--refines--  LocalStore    (LocalStoreProofs)
    Supersession                             (SupersessionProofs)
    Staging                                  (StagingProofs)
    IndexSync    WebView                     (ServerProofs)
    Distill                                  (DistillProofs)
    AdrExtract   <--extends--  ImportAdr     (CommandProofs)
    Matcher      <--extends--  Enforcement   (CommandProofs)
    InitLedger   SkillInstall                (CommandProofs)
    Brief        KaziJoin                    (CommandProofs)
    InstallHooks                             (HooksProofs)
    Drift        WhyChain                    (CommandProofs)

CommandProofs extends HooksProofs, which has the lemmas on numbers and lists that
the proofs about several commands cite.

A detailed module relies on the abstract one of the layer below: the one-step
`Create` of Allocation and the one-step `Get` and `Put` of Supersession, Distill
and WebView are what LocalStore shows the directory to provide (AtomicStore); the
one-step add of Staging and ImportAdr, and the others' adds in Distill, are what
Allocation shows `ledger.Add` to provide (Ledger). The reconciled index that
Brief, WhyChain, KaziJoin and Enforcement start from is what IndexSync is about.

An MC module holds the instance TLC checks. MCAllocation, MCLocalStore,
MCSupersession, MCIndexSync, MCDistill and MCStaging have one component each.
MCSeveralWrites joins Supersession and the import (MCImport), the commands that write
several entries one after the other; a behaviour of it is about one of the two.
MCServer joins IndexSync and WebView; a behaviour of it is about Opens, about the
forms or about the pages (`part`). MCCommands joins the modules of the other commands
beside the record, instantiated in MCInstallation, MCViews and MCEnforcement; a
behaviour of it is about one of them, and the others' variables stay at a fixed
value. Definitions marked "Faulty variant", "Mutant" or
"Mutation" are never used by a specification: a mutated check replaces the real
definition by one of them and expects a property to fail.

### The record and its commands

**Ledger, Allocation.** `ledger` maps an id in use to the writer whose entry it
holds; per writer, `pc`, `taken`, `attempts` and `id` are the local variables of
`Add`. `ListLedger` is the one `List`; `Propose` is the search for the lowest
number not in `taken`; `CreateWins`, `CreateLoses` and `CreateFails` are the three
outcomes of `Create`. `Delete` is anyone's removal of an entry. `removed` is
history. Ledger says the same without mechanism: an add appears at once under an
id nothing holds, together with its report, or fails and leaves nothing.

**AtomicStore, LocalStore.** `dir` maps an id to an inode, `data` an inode to the
chunks written so far, so a file can be seen half written; `proc` holds each
process's operation and its locals. One action per system call: open, read,
create-temp, write, close, link, rename, remove, readdir. `WriteFails` and
`OtherFails` are failures of them; `CleanupFails` is that of the deferred
`os.Remove`, whose error the code discards (`local.go:245`), so that a write which
returns can leave its temporary file too; `Crash` is a kill. An inode is reused
when no name and no descriptor refers to it. Under the refinement mapping
(`Stored`, `Calls`) a point operation takes effect at its open, link, rename or
remove. `List` is not atomic and is not in AtomicStore; what it does promise is
`ListMissesNothing`.

**Supersession.** An entry is its state, the targets of its supersedes edges and
whether it has alternatives. `GetWith` and `GetTarget` are the two reads,
`GetTarget` includes the checks, which are pure; `PutEdge` and `PutState` are the
two writes. `Valid` is the part of `Entry.Validate` a change of state can break.
`Log`, `LogGet` and `LogPut` are `dira log <id>` with a tag or an edge of another
type: it leaves the modelled fields as it read them, which is how it undoes
somebody else's write. Kills and failures come between any two operations, and a
process can run command after command, so re-runs are included. `overlapped`
records whether two commands on a common entry ever ran at once.

**IndexSync.** `file` is the directory of entries; `db` holds database files and
the in-memory databases of processes that fell back; `current` is the file the
name `index.db` refers to, so a process can go on using one that was unlinked.
`Attach` to `InsertVersion` is `openCache`; `CachedVersions` to `Commit` is `sync`,
with the transaction's own view in `tx`. SQLite is external and modelled from
its use: one writer at a time, from the first write to the commit; rollback
when the process ends. Reading and removing the cache's auxiliary files is part of
`Discard`; `countRows`, which only reports, is left out.

**Distill.** `loop` holds the variables of `Loop.Run`: the cards as read, the
position, the acts, whether there is something to undo, the failures. A key and
the first store operation it causes are one step; the second operation of `e` and
of `u` is a step of its own, so others can get in between. `OthersAdd` and
`OthersDispose` are the other processes. Ids are numbers, because only decisions
can be staged and a freed number is given out again.

**Staging.** `hook` holds the variables of `Stage`: the listed ids yet to be read,
the titles known, the positions of the candidates yet to be staged, what was
staged and dropped. A run reads the transcript from some turn on, or all of it.
`Discard` is the human's disposition of a capture. `dedupe` and the matcher are
taken to have produced distinct titles. The modelled store refuses nothing, so
the wrapper that lets Stage only create is not in the model.

**WebView.** `ledgerFiles` are the entries, `indexRows` what the server's index
answers from, `shared` whether that is the cache file others reconcile; `tab`
holds what each tab shows, the card its last deck offered, and the request it has
under way. `index` and the deck are one step each; a form is its first read, the
second read of an edit (`Reread`) and the write (`ConfirmPut`, `DiscardDelete`,
`EditPut`), so requests of two tabs overlap. `Elsewhere` is any other process's
change to an entry, `OpenElsewhere` its reconciliation of the shared cache,
`LoseCache` the removal of the cache file, after which the server alone uses the
database it still holds. `RequestFails` is a failure of any store operation.

### The commands beside the record

**InitLedger.** `target` and `staging` are `.dira` and `.dira.staging`: the run
whose config each holds and whose entry is under each id. A run asks, looks
whether `.dira` is there, makes the staging directory, writes `config.toml`,
creates each drafted entry exclusively, and renames. On a failure it removes the
staging directory, file by file. The error of that `os.RemoveAll` is discarded
(`init.go:66-70`): `RemoveAllFails` may end it at any file. So a kill and a removal
that fails both leave a staging directory, and the next run builds on what it finds.

**InstallHooks.** A settings file is a tree of token sequences, with its commas, so
that the edits are what they are in the code: insertions and deletions of spans
placed by the original text (`Insert`, `Delete`). A run reads, decides, truncates
and writes; another run or the operator can come in between, and a kill after the
truncation leaves a file that is no JSON (`Torn`). One shape the code cannot install
into, an empty `hooks` object, is kept out of the passing run and shown by
`install_empty_hooks`. `EventsAssumption` says of the registered events what
`Registrations` does: there is one, and no event twice. `Sound` is the form of a
file the theorems suppose; the instance asserts that the files of the runs have it
(`ShapesAssumption`).

**SkillInstall.** The document is what is shipped, an edit, nothing, or cut off. A
run compares, and then truncates and writes; `--force` is a choice of the run.

**Brief.** A text is its cost in tokens, chosen when it is read. `preamble`, `item`,
`endSections`, `fillChain` and `chainItem` offer one piece at a time, measured with
what is already there; `giveBack` takes pieces back until the notice of what was
omitted fits, recomputing the notice each time. An ancestor becomes a section when
its turn comes; `waiting` is the ancestors whose turn has not come, and stays as it
is when an intent is refused. The chain is not asked at all if a block of the
preamble or the line of an empty section did not fit; it is asked if an entry did not.

**Drift.** `parentsOf` is what each ledger declares, `readable` what can be opened.
`WalkParents` is the walk, a function of a ledger and of the path that led to it
(a ring is an error of the whole walk, so that the order in which the code
meets it does not matter), `Resolve` the resolution of a reference in what the walk found, `classifyOne` the classification
of one intent, which walks afresh. Parents are unmounted between two intents.

**WhyChain.** `Build` follows the code's walk over the derives_from ancestry: an
entry that is reached again deeper is walked again, and loops are recorded where
they close. `walk` is a function of the whole call: the entry, its depth, the path
and what the builder has, which `Follow` changes edge by edge. The cache was reconciled, and entries may be removed from the files
afterwards.

**KaziJoin.** The stages of `dira map` are steps: open, portfolio, entries, join,
derive, assemble. Each reads the rows or the files anew, and `Change` is another
process between them. kazi is external: any portfolio of a small set, or a reason why
there is none, and any answer to a further question.

**AdrExtract, ImportAdr.** A document is a sequence of sections with the headings'
phrases, bullets and parts. `Passages` lists what the two passes come upon, in
their order, each with what would keep it out, and `Extract` adds them one by one
with the code's test for "the same option". ImportAdr is the command:
scan, ask, list what is imported already, draft everything, then add one by one.
Runs are killed, repeated and overlap; captures are discarded, confirmed and
edited meanwhile; documents are rewritten.

**Matcher, Enforcement.** A text is a sequence of words with its punctuation;
Matcher parses it into a set of spans with a polarity (nothing depends on their
order), weighs terms by how many units have
them and scores a plan against a unit, in thousandths, with the code's two
thresholds. `Ln` is the logarithm as a table. Enforcement has the sets built on top of that (`enforcementSet`,
`retiredSet`, `superseders`, `unitsFor`, `Inherit`) as functions of what was read, and
the command as the steps in which it reads: `Open` reconciles the index,
`declaredParents` finds the parents, `readParent` reads the constraints of one,
`Select` takes the ids from the tables, `ReadEntry` reads one file, the newest entry
first (`Created`), and `runCheck` returns what is printed as text and as JSON, what
is said on stderr, and the exit code. `CheckFails` is the command's own error at any
of them. `Log`, `Link`, `Amend` and `ParentMoves` change the ledger and the parents by one
write, between two checks and between any two steps of one, so that half supersessions
are among the ledgers checked, and ledgers are checked that never were on disk as they
were read. Three abstractions are in this: what `readParent` reads of one parent is
read in one step; `Select` may find any rows beyond those the check's own
reconciliation left, as other commands reconcile the same tables; and entries are not
removed, since of what is modelled only a disposition in the distill loop or the web
view does that, and a file that is gone is an error of the check.

## 3. Runs

| run | instance | shows |
|---|---|---|
| `allocation` | 3 writers, 2 kinds, 2 attempts, any subset of {dec-2, note-1} to start with | adds never replace or lie, the number is the lowest unused, collisions are bounded by others' successes, adds end, Ledger is implemented |
| `local_store` | 2 processes, 2 ids, 2 contents, files of 2 chunks, 4 inodes | no half-written entry, lists miss nothing, litter is a kill's or a failed removal's, AtomicStore is implemented |
| `several_writes` | 2 processes, 3 decisions, staged or accepted, with or without alternatives; import: 2 runs, 5 corpora of 2 documents, 3 ids, 1 rewrite | a retired entry had a replacement first; the exit code says what was written; redirects end at a live entry; nothing is undone without overlap; of the import see below |
| `index_sync` | 2 processes, 1 entry, 3 contents (plain, with an edge, unreadable), 2 database files; web view: 2 tabs, 2 cards, 2 texts | an Open without a competitor leaves tables that agree with the files; one that has the cache to itself heals versions, a reindex everything; edges are never lost; the forms of a page do what was clicked or are refused |
| `index_progress` | the same with one content, no web view, no symmetry | every Open returns |
| `distill` | 2 ids, 2 titles, 1 new body, 3 failures | the acts reported stand and the rest is untouched; edits and undos do not silently revert others; failures end the loop |
| `staging` | 2 hooks, 2 candidates, 1 per run, 1 fault, 2 discards, 4 ids | one capture per sentence; nothing is lost without being counted; every candidate arrives |
| `commands` | one command per behaviour, see below | the properties in the table below |
| `supersede_rerun`, `index_stale_edges`, `web_stale_page`, `install_empty_hooks` | as the run of the same module | the disagreements of section 6 |

The properties of `commands`, and for `import` those of `several_writes`:

| command | property | says |
|---|---|---|
| `init` | `LedgerIsWhole` | the ledger that comes to be is one run's, whole, whatever killed runs left; nothing is left in staging but by a kill or a removal that failed |
| `install-hooks` | `InstalledMeansInForce` | what is reported as installed parses, with a command under every event |
| | `UninstallUndoes` | uninstall is the inverse of install, to the token; neither loses anything of anybody else's |
| `install-skill` | `EditsOutliveReinstalls` | no edit is lost without `--force`, but to a run that had found no file |
| `brief` | `UnderCeiling` | the document with its notice stays under the ceiling |
| | `OpenOmission` | the notice names exactly the sections taken up that lost entries, the ancestor the chain stopped at among them; of each section what was dropped is a tail |
| `drift` | `ClassifiedAsDeclared` | broken, withheld and oriented mean what the declarations say, taken as a relation |
| `why` | `ChainIsAncestry` | every ancestor once, loops reported, each at the length of the longest way to it |
| `map` | `LedgerHalfStands` | what the map says from the ledger alone holds however kazi answers |
| | `NeverGuessed` | an ambiguous goal is in an execution bucket only if kazi named it in this run; the bound on calls holds |
| `import` | `ImportedOnce` | one entry per document as it stands, however often and wherever runs stopped |
| | `SuccessMeansImported` | a successful run leaves every reasoned document it scanned in the ledger |
| | `RefusalsAsWritten` | an entry's alternatives are what the document holds against its options |
| `check` | `RestatedIsRefused` | proposing a rejected option again in its own words is refused with the decision cited |
| | `RetiredIsRedirected` | a plan that a superseded decision used to refuse draws a notice about it |
| | `NoticesAreTrue` | what a notice says about the replacement is so, though files change while they are read: the one it names is on record, one is named if it was on record when the check began, and what is said of its enforcement holds unless it was written to since |
| | `PrivateStaysByReference` | no text of a private entry or parent is printed |
| | `UnreadParentIsSaid` | a parent that was not read in full adds nothing and is named; the others are counted in full |

Why the bounds are enough. Allocation: with three writers a loser can lose again,
which is needed to exceed its attempts; a used 2 over a free 1 makes the lowest
number a gap. LocalStore: two chunks make a file visibly half written; the
operations concern one or two names, and interference on a name is between
two processes; four inodes are the two named plus one temporary file each, and
one that is being read keeps its inode from being reused. Supersession: three
entries make a second replacement and a chain of two; rings need two. IndexSync:
`sync` treats each id on its own, so one id carries every order of events; three
contents distinguish no edges, edges and no row. Distill: two cards are what
undo, the counter and the order of the queue need. Staging: one more candidate
than the bound makes a candidate wait for a later run; four ids leave room for
every copy two hooks and one fault can produce before the last title is in.
WebView: a form concerns one card, a second makes the deck move on; two tabs race
on one card, and one change from outside comes between any two steps. InitLedger:
three runs are one that is killed, one that is cut off in its clean-up and one
that succeeds; two entries make a half-written ledger and a half-removed one.
InstallHooks: two of the three events distinguish the first insertion from those
behind it; the six shapes are a file that is missing, empty, without hooks, with
the operator's hooks on one of the events, with an empty event, and one that is
refused; two runs and two edits of the operator come in every order. Brief:
ceilings below, within and above what the entries cost, and two costs, so that
giving one piece back may or may not suffice. Drift: three ledgers with up to two
declarations make a diamond, a ring, two names for one ledger and one name for
two. WhyChain: four entries make a long and a short way to one ancestor and loops
on and off the subject. KaziJoin: two candidates for one question make the bound
bite. ImportAdr: the five corpora have each shape of document, two documents that
name an option within another, one whose option is too long, and one without
reasons; three ids are one more than the documents, for a second copy. Enforcement:
three entries suffice for a decision, its replacement and a constraint that shares
words with both; the parent is public, personal, or torn and private; a supersession is
two writes, so two changes during a check (`MaxMoves`) put all of one between two reads, and in
`MCCreated` one decision is read first and the other last.

Named bounds: `MaxAttempts` (in the code 4096, here 2), `MaxFailures` (3, as in the
code), `MaxCandidates` (in the code 12, here 1), `MaxStatusCalls` (in the code 25,
here 1), and, for the model only, `MaxFaults`, `MaxDiscards`, `MaxEdits`,
`MaxElsewhere`, `MaxRewrites`, `MaxChanges`, `MaxMoves`, `MaxAncestors`, `MaxIntents`.

Deadlock is checked except in `allocation`, `distill`, `several_writes`, `commands` and
`install_empty_hooks`, where the processes do finish. Symmetry is used for safety
only, on sets the module never orders and never picks from; inodes are not
symmetric, since `CreateTemp` picks one.

## 4. Fairness

Nothing in the code waits for another process except a SQLite writer. So the
scheduler's promise to run what can run is enough: `WF` on a process's own steps
in Allocation, in IndexSync (where a wait ends with `BusyTimeout`) and in Staging.
In Distill `WF` on `Step` says that keys keep coming that are not undos, as from a
script; undo is excluded in the premise of `LoopEnds`, because a user who undoes
for ever against a failing store is not stopped by the counter, which only counts
dispositions. Staging also assumes that the transcript is read as a whole
again and again (`SF` on `StartWhole`): the PreCompact hook does so as long as the
session lasts. Kills and failures there are bounded by `MaxFaults`; with kills for
ever no candidate need arrive. The commands of `commands`, and the imports, end after a number of
steps that their input bounds; nothing is claimed of their progress.

## 5. Proofs

The proofs hold for every value of the constants and take nothing on trust
beyond the named assumptions.

**AllocationProofs**, from `WritersAssumption` (finitely many writers, `Prior` is
none of them), `NoIdAssumption`, `InitialIdsAssumption` (finitely many entries to
start with) and `MaxAttemptsAssumption` (at least one attempt). The inductive
invariant is

    IInv == TypeOK /\ Proposal /\ ReportsWhatItStored /\ LowestUnused /\ Knowledge /\ Account

The properties are not inductive, because whether `Create` may be tried for an id
depends on what the writer believes. `Proposal` says that a proposed id is the
lowest number absent from `taken`; `Knowledge` that `taken` holds only numbers
that were in use at some time, and all that were there from the start;
so a successful `Create` on the lowest free number takes the lowest unused one.
`Account` pays for each lost attempt with a distinct winner whose number the
loser has learned, which is why collisions are bounded by the successes of others.

| theorem | says |
|---|---|
| `TypeCorrect` | `TypeOK` |
| `Truthful` | `ReportsWhatItStored`: the id reported is the id stored; a failed add stored nothing |
| `Lowest` | `LowestUnused`: the number is the lowest that never was in use |
| `Collisions` | `CollisionBound`: no more collisions than other adds that won |
| `Frugal` | `FrugalNumbers`: the two together |
| `NoClobber` | `NeverClobbered`: no step replaces an entry |
| `Implements` | `ImplementsLedger`: the refinement, step by step |

**LocalStoreProofs**, from `ChunksAssumption` and `InodesAssumption`; processes, ids,
contents, inodes and chunks may be any number. The inductive invariant is

    IInv == TypeOK /\ (\A p \in Procs : Good(proc[p], Present, data)) /\ Published /\ Exclusive

`Good` has a part for each kind of operation: where it is on its course, which inode
it holds, that what it has read is a beginning of what that inode holds, that what it
has written is a beginning of what it was given, and that a listing has accounted for
every name that stayed. `Published` says that every name refers to a whole file;
`Exclusive` that a temporary file is its writer's alone until it is linked or
renamed. Without the last two the first is not inductive: another process could
write into what a reader has open. A reader keeps a whole file although its name
is gone because the kernel gives an inode out again only when nobody refers to
it. For the refinement, `Stored` reads the entries off directory and inodes, and
`Calls` what each caller has been told so far; every system call maps to one step of
AtomicStore or to a stutter.

| theorem | says |
|---|---|
| `AlwaysWhole` | `NeverHalfWritten`: no part of a file is ever an entry, an answer or a listed entry |
| `ListsWhatStayed` | `ListMissesNothing`: a listing has whatever was there throughout |
| `NoWayAroundRemoval` | `RemovalIsTried`: a temporary file outlives its write only if the writer was killed or its removal failed |
| `Implements` | `ImplementsAtomicStore`: point operations take effect at one instant |

**SupersessionProofs**, from `KindAssumption` (every id has one of the five kinds).
What a command does next is decided by copies in memory, so two invariants speak
about the copies. `IInv` contains `Known`, which holds whatever else runs: every edge
in a copy has been recorded, an edge was stored before `putState` is reached, a
command that may still refuse has not written. That is enough for the unconditional
properties. `Alone` speaks of the time before any two commands overlapped on
an entry: then no two active commands touch a common entry, and each copy agrees
with the ledger but for the edge about to be written (`Current`). A write of one
command therefore leaves the copies of the others current, and puts back at
least what was there. That a redirect ends in force is an invariant about paths of
any length; `Redirects` states it as a closure (every set of entries that holds the
replacements of the retired ones it contains), so that a step is compared
with the sets before and after it and no path is ever counted.

| theorem | says |
|---|---|
| `TypeCorrect` | `TypeOK`, validity of every stored entry included |
| `ReplacementFirst` | `EdgeFirst`: nothing is retired before an edge that replaces it was stored |
| `RefusalsWriteNothing` | `RefusalWritesNothing` |
| `NothingIsUndone` | `NothingUndone`: without overlap no retirement and no edge is lost |
| `BothSides` | `SuccessMeansBothSides`: without overlap, exit 0 means both sides |
| `ExitCodes` | `ExitCodeIsTrue`: the exit code says what was written |
| `RedirectsEndInForce` | `RedirectReachesLive`: however long the chain, it leads to an entry in force |

**StagingProofs**, from `IdsAssumption`, `TranscriptAssumption` and
`MissingAssumption`; hooks, ids, titles and bounds may be any number. The inductive
invariant is

    IInv == TypeOK /\ (\A p \in Hooks : Accounts(hook[p], entries))
            /\ (~blurred => \A p \in Hooks : Scans(hook[p], entries) /\ (Active(p) => Alone(p)))
            /\ NoSecondCopy

`Accounts` follows what a run may not lose: a sentence that has not been in the
ledger since the run started is not among the titles the run knows, and once it
has left the batch it has been counted. `Scans` is what makes a second copy
impossible: a title that is in the ledger is known or still to be read, so nothing
in it is in the batch by the time the batch is added. It needs `Alone`: another
hook's add after the scan would break it, and does (`blurred`).

| theorem | says |
|---|---|
| `OneCapture` | `NoSecondCopy`: one entry per sentence unless hooks overlap |
| `Counted` | `NothingLostQuietly`: what is left out is counted, overlap or not |

**DistillProofs**, from `IdsAssumption` and `MaxFailuresAssumption`. The session
speaks of a queue it read once, so the invariant is about both sides of the
position: `Shaped` says that there is one act for every card behind it and no card
twice, `Told` that each card behind it is on disk as its act says, and each card
ahead of it as it was read, but for the ids that others touched and those of which
only one of two writes succeeded. `raced` has to be in it: in the step between
the second read of an edit or an undo and its write, the file is what was read
unless somebody came in between. That the ids come in order is what makes a write
to one card leave the others' lines in `Told` alone.

| theorem | says |
|---|---|
| `SessionInvariance` | the inductive invariant |
| `SaysWhatStands` | `LedgerAsTold`: the acts that stand are in the ledger, the rest is as it was |
| `NothingReverted` | `NoSilentRevert`: an edit or an undo writes over what it has read, and nothing else |

**ServerProofs** is about the index and the web view.

The index, from `ContentsAssumption`, `GensAssumption` and `NoneAssumption` (no
database is the absence of one). `IndexInv` says of the databases that every row
has its edges and no edge lacks its row (`Linked`), and, while no process that
indexes overlapped another, that the edges are exactly those of the row (`Exact`);
of a database nobody refers to, that it is empty. `Local` is what a process knows
at each step of `Open`: what it has cached, listed and read agrees with its
transaction for the entries that stayed as they were (`steady`). `Apart` and `Following`
are about two processes at once: that a process which is answering keeps its rows
while the next `Open` runs. Rows alone would not be inductive: what `Commit`
publishes is what the transaction holds, which is why the transaction's own view
is in `Local`.

The web view, from `CardIdsAssumption` and `DecksAssumption`. `Sound` has what is
true of a tab whatever becomes of the files, `Fits` what ties an unmarked tab to
its file: a card nobody has touched awaits a human, a request has read what is there.

| theorem | says |
|---|---|
| `IndexInvariance` | the inductive invariant of the index |
| `EdgesWithTheirRows` | `NoEdgeLost`: no reader finds an entry without its edges, or edges of no entry |
| `OpenLeavesAgreement` | `OpenReconciles`: after an Open the tables agree with each file that did not change meanwhile |
| `OneThingAtATime` | `ActsAsClicked`: a request changes what it was sent for |

**CommandProofs** has a section for each of eight commands.

`dira init --interview`, from `InitLedgerAssumption` (at least one entry is drafted).
What a killed run, or a removal that failed, leaves under the staging name is still
there when the next run stages. `LedgerInv` shows why it does not get into a ledger: config.toml is
overwritten, `Create` is exclusive, so a run that reaches the rename has itself
written every entry of the script (`ScriptedBy`), and there is no place in the
directory for others.

`dira import adr`, from `ImportAssumption`. `ImportInv` has the shape of the invariant
of StagingProofs: `Accounts` says that the documents of a run are still drafts, in the
ledger, or were discarded meanwhile, whoever runs beside it; `Lists`, while no two
runs overlapped, that no draft is in the ledger. For these two theorems what Extract
makes of a document is a constant function, so they hold for any extractor.
`RefusalsAreWritten` opens it: `OneByOne` turns the fold into its steps, for any list
of passages (the function the fold chooses has to be shown to exist, by counting
up), and `ExtractSettles` is an invariant of them: what has been taken is of passages
read so far that are not about the chosen option, and every passage read is taken,
about the chosen option, or passed over for one of the same name. It assumes
of documents only that their sections, parts and bullets are lists (`IsDocument`).

`dira install-skill`, from nothing. `SkillInv` says that whoever is about to empty the
file was answered "INSTALLED" for what it had read there.

`dira map`, from `MapAssumption` (ledgers and index name known entries and goals).
`MapInv` follows three readings of the ledger, made at different stages: `Agree`
says that they differ only where something was changed, and `Founded` what a row
in an execution bucket rests on, the portfolio or an answer to a question of this
run. `LedgerHalfStands` then is a comparison of five definitions over readings
that agree.

`dira brief`, from `BriefAssumption` (costs and ceilings are positive). `Paid` says that
what is on the page and the footer cost no more than the ceiling, `Tallied` that
the tallies count what is on the page, `InOrder` and `FilledInTurn` that the last
piece is of the last section that has one. The last two are needed for
`giveBack`: it corrects the tally of the piece it takes away, and the notice it
makes room for is recomputed from the tallies. The cost of a page is a recursive
function; that it is a sum (`SumsExist`, `SumsAgree`) is shown by a least
counterexample, as no induction over data is to be had.

`dira check`, from `EnforcementAssumption` (entries are among those that may be written,
their texts are texts, the child's own namespace is nobody's name, ids and parents
are finitely many) and `LnAssumption` (the logarithm does not decrease; there is an
entry in its table for every number of documents). `CheckInv` has
a part for a check that is running and one for the last that has run. `Reading` relates
what has been read to what was there: an entry that was read is an earlier form of the
one on record (`Outlives`: edges are only added, a text does not change), an entry
that was there at the start and has been read has at least the edges it had then, and
every entry that was there is read or still to be read. `Judged` says the same of
the last check, and that its verdict is what the functions make of it (`Printed`). Only
together are they inductive: a write moves the record away from both, and
`WritesStep` shows that it moves it forward. For `RetiredDrawsANotice` it
is shown that the hits of an entry depend on its own units (`BestOfItsOwn`) and on
the words of the ledger, and that a change of state alone changes neither
(`TakenBack`); neither opens the matcher. `RestatedOptionsAreRefused` does: a text
that is not empty has finitely many terms and at least one (`ParsedTerms`), every word
weighs more than nothing (`WeightIsPositive`), so a bag of them has a mass that is
not 0 (`MassIsPositive`), a text matches a unit of itself with the full score
(`MatchesItself`), and among the finitely many hits of an entry there is a
best (`SomeBest`). The functions that `toSpan` and `mass` compute by recursion are shown
to exist, and to be what they are, by going up their arguments from 0 (`CountedUp`
is a least-element argument). `NoticesHold` rests on the same lemmas: `WhoReplaces` says whom
the notice names, `Enforced` and `NotEnforced` what follows for a replacement
that is still as it was read.

`dira drift`, from `DriftAssumption` (the ledgers are finitely many, and each declares a
list of names and paths). The invariant, `ChainInv`, says little; the theorem is about
what a walk finds. The walk calls itself with a longer path, so what is shown of all
calls is shown by counting the ledgers that are not on the path (`WalksExist`,
`WalksTell`): a walk that succeeds tells of every declaration above its ledger and of
nothing else, and there is no ring above it; a walk that fails has met one.
Reachability is stated without walks, as what every set that is closed under the
declarations contains, so that both directions are short (`ReachUnfolds`, `ReachEnds`).

`dira why`, from `WhyAssumption` (an entry has a list of edges, and the entries are finitely
many: there is no other assumption on the ledger, it may hold loops and references
to nothing). `walk` is counted up in the same way, and each call over its edges
(`EdgeByEdge`, `EntryMade`). What every edge keeps is `Book`:

    Book(path, built) ==
        /\ Measured(built.depth) /\ Upheld(path, built) /\ NoGaps(path, built.depth)
        /\ built.cycle # {} => Looped

A depth is the length of some way up (`Measured`); of what has been walked and is
not being walked, every parent has been found, and further up than itself
unless there is a loop (`Upheld`); and what was found at a depth has something found one
edge below it (`NoGaps`), unless an entry that is still being walked will lift it.
`Upheld` breaks while an entry is being walked again at a greater depth, which is
why it excepts the path, and so does `NoGaps` for what lies above it, which is
why that has its second half; `DescentBegins` and `DescentEnds` are the two moments. At the end the
path is the subject alone: no depth is left out, so the deepest is less than the
number of refs (`DepthsInhabited`), and a way up of as many edges as there are refs
exists exactly when a loop was recorded (`LoopsAreTold`).

| theorem | says |
|---|---|
| `WholeLedger` | `LedgerIsWhole`: a ledger is one run's, whole; staging is empty unless a run was killed or could not remove it |
| `OneEntryPerDocument` | `ImportedOnce`: one entry per content unless runs overlap |
| `SuccessIsComplete` | `SuccessMeansImported`: success leaves nothing out, overlap or not |
| `EditsAreKept` | `EditsOutliveReinstalls`: an edit is emptied only by `--force`, or if it came after the look |
| `TheLedgersHalf` | `LedgerHalfStands`: what kazi answers changes nothing of what the ledger says |
| `NothingIsGuessed` | `NeverGuessed`: several runs of a goal are no execution bucket without an answer |
| `NeverOverCeiling` | `UnderCeiling`: the page and its footer stay under the ceiling |
| `OmittedOpenly` | `OpenOmission`: what is left out of a section taken up is named, and left out from the back; where ancestors are not taken up, the one before them is named as cut |
| `PrivateStays` | `PrivateStaysByReference`: nothing private is printed, in either form |
| `ParentsAreSaid` | `UnreadParentIsSaid`: a parent is read in full, or named |
| `RetiredDrawsANotice` | `RetiredIsRedirected`: a superseded decision still answers the plans it refused |
| `RestatedOptionsAreRefused` | `RestatedIsRefused`: an option that was turned down is refused in its own words |
| `NoticesHold` | `NoticesAreTrue`: what a notice says of the replacement is so, whatever was written while the files were read |
| `RefusalsAreWritten` | `RefusalsAsWritten`: an import records what a document holds against its options, and no more |
| `DriftIsTrue` | `ClassifiedAsDeclared`: a reference is broken, withheld or oriented as the declarations have it |
| `AncestryIsTold` | `ChainIsAncestry`: every ancestor once, loops reported, each at the longest distance where there is no loop |

**HooksProofs**, from `EventsAssumption`. Both commands rewrite a tree of tokens by
position, so nearly all of the proof is about the operators: what is left of a list
when positions are taken out of it (`KeptInOrder`, by counting them up), where
insertions lie (`InsertionSplices`), that commas and items still alternate after
both (`InsertedTokens`, `SpansLeaveAlternating`), which entries are whose afterwards
(`InstallKeepsEvents`, `UninstallKeepsEvents`), and that taking out what was put in
gives back the list (`InsertionUndone`, `EventsUndone`). The invariant is small:

    HooksInv(strict) ==
        /\ settings = Absent \/ settings = Torn \/ Sound(strict, settings)
        /\ DOMAIN proc = Runs /\ \A p \in Runs : proc[p] = Idle \/ RunHolds(strict, proc[p])

The property speaks of what a process is about to write, but the next process
reads what this one wrote, after the operator edited it: so the form of the file has
to be in it, and has to be kept by both commands and by every edit
(`InstallIsInForce`, `SpansKeepSound`, `EditsKeepSound`).

`InstalledIsInForce` supposes `FilesSound(TRUE)`: what the commands may find, where
it can be read, parses and has no empty `hooks`. The last condition is needed:
without it the code is wrong (`install_empty_hooks`). `UninstallIsInverse` supposes less,
`FilesSound(FALSE)`: a file is a sequence of tokens, JSON or not, an empty
`hooks` among them; and `NoDocuments`, that no file and a torn one are not files that can be
read. Its second half needs no invariant of its own: `InstallUndone` holds of
every file that is sound in the weaker sense.

| theorem | says |
|---|---|
| `InstalledIsInForce` | `InstalledMeansInForce`: what is reported as installed parses and has every event |
| `UninstallIsInverse` | `UninstallUndoes`: others' entries survive both commands, and uninstall undoes install |

Left to TLC is liveness (`Termination`, `OpenReturns`, `LoopEnds`,
`EveryCandidateArrives`), which the provers cannot reach. No other property of a
passing run is without a theorem that states it.

## 6. Disagreements between the code and what it says

With a run that shows them:

1. `supersede_rerun`. Both half-states "are recoverable by re-running the
   identical command" (`supersede.go:59-62`). A staged decision without
   alternatives gets the edge and then fails validation on its state, every time.
2. `index_stale_edges`. "several dira processes over the same cache are safe"
   (`index.go:81-82`), "the files win" (`index.go:7-8`). `sync` clears the edges of
   an entry only if the versions read before its transaction knew it
   (`sync.go:146-150`). Two Opens that overlap on a new entry that changes in
   between leave edges of the old content, and a later Open sees the right version
   and does not look. `dira reindex` repairs it.
3. `web_stale_page`. A page is never cached because "a cached decision page is a page
   arguing from a record that has moved" (`server.go:318-320`). The server opens the
   index once, when it starts: its index page says what the ledger was when the
   index was last reconciled by anybody. After a discard, also one made in its own
   deck, the row remains, its entry cannot be read, and the page is an error.
4. `install_empty_hooks`. Into `"hooks": {}` the members for the three events are
   inserted without commas between them. The command reports INSTALLED and the file
   no longer parses.

Met while modelling, without a run of their own:

- "An entry is replaced once, and by one entry" (`supersede.go:318-319`). A run killed
  after its first write leaves the target in force, another entry can then
  supersede it, and two entries point to it.
- "is enforced in its place" (`render.go:229`) is said of every replacement that has
  a unit at all. The title of a rejected decision is one even if it is stop words
  only (`target.go`, `unitsFor`), and a reason is one where the option it belongs to is: neither
  need ever match a plan. `NoticesAreTrue` leaves such replacements out.
- "a keystroke aimed at a queue must not be able to reach" a record
  (`dispose.go:102-106`). The check is made on the copy read at the start. If the
  capture is discarded elsewhere and `dira log` gives its id to an accepted decision,
  `y` overwrites it and `n` deletes it.
- "Three tries per card", reset on "any move to another card" (`tui.go:280-283`). Undo
  moves to another card without a reset.
- What fillChain cuts "is named in the footer by that ancestor's namespace"
  (`brief/render.go:228-231`). It returns at the first intent that is refused, and the
  ancestors after that one are no sections yet: they are cut whole and are not named.
  One ancestor always is, the one it stopped at (`OpenOmission`). With two ancestors of
  one intent each, a ceiling that holds the notice and no intent is enough.
- The fill stops at the first entry that does not fit, as otherwise "the omission
  would no longer be a tail" (`brief/render.go:24-28`). The refusal of an entry ends the
  sections only (`break sections`, line 96): the chain is still asked (line 110), and a
  cheaper intent of an ancestor is shown where a dearer entry of the child is not.
- A notice's three forms are "three different truths", and that nothing replaced an
  entry is for "a state flipped to `superseded` with no `supersedes` edge pointing at
  it" (`enforcer/render.go:210-219`). A check reads the files one by one, the newest first
  (`check.go:301-311`, `query.go:99`). If a supersession falls between the file of the
  replacement and that of the entry it retires, the check prints that the ledger
  records nothing that replaced it, and the ledger records it. `NoticesAreTrue` asks
  for a name only where the edge was on record when the check began.
- A decision that was rejected is matched by its title too; once superseded it is
  reported by its alternatives only, "the units ... the entry had while it was
  enforced" (`target.go:125-127`).
- "all at once or not at all" (`init.go:21-22`): two overlapping runs share the staging
  directory and can rename a mixture of both.
- Drift takes a bare reference for no reference; the comment on it says that it is
  reported as undeclared (`drift.go:176-180`).
- `map` promises exit 0 "however kazi answered" (`map.go:138`). A realized_by target of
  no known form ends it with 1 if kazi answered, and is passed over if it did not.
- An edit in the web view is guarded like one in the terminal, where the body was read
  before the editor opened (`edit.go:188-198`). The server reads the entry when the
  form arrives, so a change made since the page was shown is overwritten.
- "every route here is a GET" (`server.go:26`); three take a POST.
- Import: the comment on reasons promises that upsides are given when an option has
  nothing else (`extract.go:479-480`), and the code gives none (`extract.go:514-518`).
- Import: two options are the same if one's words contain the other's, so a document
  with "redis" and "redis cluster" loses one of them, or the one that resembles
  the chosen option; a chosen option listed under "alternatives considered" is
  recorded as rejected; and one option of more than 200 characters stops the import of
  every document.

Exceptions built into properties, where the code makes no promise: a stored edit
whose confirmation failed (`LedgerAsTold`); a change in the instant between
a second read and the write (`NoSilentRevert`, `ActsAsClicked`); commands that
overlap on an entry (`NothingUndone`, `RedirectReachesLive`, `ExitCodeIsTrue`); a replacement recorded or written to while the check reads
(`NoticesAreTrue`); hooks that overlap, or a read that fails (`NoSecondCopy`); overlapping runs of `init`, and a staging directory that cannot be removed
(`LedgerIsWhole`); ancestors the chain did not get to (`OpenOmission`); overlapping
runs of `import` (`ImportedOnce`); a settings file with an empty `hooks`
object (kept out of `commands`); an option described under its own heading only, where
another passage passes for it (`RefusalsAsWritten`); a ring of parents, which makes the whole walk fail
(`ClassifiedAsDeclared`); entries changed while `map` runs (`LedgerHalfStands`).

## 7. Not modelled

Text processing: the codec, redaction, the hand-off, the patterns that find a
sentence worth capturing, the parsing of Markdown and the tokenizing of a plan
(the models start from sections, bullets and words), the layout of what is
printed. Configuration and dispatch. The terminal mode of the distill loop, the
listener and the page of one entry in the web view: no state that outlives a
call, or no property beyond their output. The matching of a term against titles in
index queries. Build tooling is not part of the program. Within modelled parts:
edge notes and their conflict in `AddEdge`; a supersedes edge written by `dira log`;
durability (no `fsync` is modelled: a kill is the process's, not the machine's).

## 8. Plan

Done: every component with state or an algorithm of its own has a module, and every
safety property the runs check is proved; what is left to TLC is at the end of section 5.

Next, to model: WebView over IndexSync's own database instead of its reconciled
rows; Staging and ImportAdr over Allocation rather than Ledger, to have collisions
inside a batch; a supersedes edge written by `dira log` in Supersession.
