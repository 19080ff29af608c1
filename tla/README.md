# Verification of kano-agent-backlog-skill

`kob` keeps the backlog of a product as Markdown files, one per work item, in a
Git checkout. Agents run it as many short-lived processes, often in several
worktrees of one repository at once, beside a web server that reads and writes the
same items. What they share is files, a few lock files and SQLite databases. This directory models
the parts of the C++ implementation (`src/src/cpp/code`) in which that sharing
is decided, model-checks them with TLC and proves properties of seven
of the eight with TLAPS.

Paths below are relative to `src/src/cpp/code/systems` unless they start with
another directory.

## 1. Inventory

| Component | State it keeps | Operations | What makes it hard |
|---|---|---|---|
| **Canonical store** `kano_backlog_core/frontmatter/private/canonical_store.cpp` | item files under `items/`; the write receipt `.cache/canonical-write-revision-v1` and its lock file | `write`, `remove_file`, `move_file`, `read`, `reset_write_revision`, `get_max_id_number` | a write truncates in place; the file changes before the receipt; the receipt lock is dropped by the OS when its holder dies |
| **Item creation and ID reservation** `kano_backlog_ops/workitem/private/workitem_ops.cpp` (`create_item`), `index/private/backlog_index.cpp` | tables `id_sequences`, `id_reservations`, `id_request_keys`, in the index of a checkout or in the Git common directory; a request lock; admission receipts | create with and without `--idempotency-key` | creators in several worktrees, a dozen steps between which a process may die, retries, files that move by Git |
| **Derived metadata index** `kano_backlog_ops/index/private/backlog_index.cpp` | SQLite rows of items and one snapshot row per product: status, epoch, generation, revisions, receipt fence | `index_item`, `remove_items`, `rebuild_metadata`/`refresh_index`, `query_metadata`, `doctor_metadata`, `get_index_status` | the snapshot is read outside the transaction that replaces it; files are hashed one after another; readers demote what they find stale |
| **Item lifecycle** `workitem_ops.cpp`, `kano_backlog_core/state`, `kano_backlog_core/validation` | state, parent, body sections and worklog in an item file | `update-state` with Ready gate and parent sync, `state transition`, `remap-parent`, `remap-id`, set-ready, decision write-back, `trash` | read-modify-write without a lock over two files (child and parent) |
| **Product registration** `kano_backlog_ops/product_registration` | journal and evidence per plan hash, a config block, a directory lock with a guard | plan, apply (also the recovery), verify, status | evidence and config are published apart; a retry must reconcile every crash point |
| **Product relocation** `kano_backlog_ops/product_relocation` | journal with status and stage, staged and retired roots, a directory lock | plan, apply, verify, status, rollback | a crash at any stage; rollback in the failure handler of `apply`, after its lock is gone; reclaiming the lock of a dead process |
| **Prefix migration** `kano_backlog_ops/prefix_migration` | journal of file operations with before/after hashes, backups, receipts | plan, apply, verify, status, rollback | a rewrite of many files without a lock, undone file by file when it fails |
| **Cross-product migration** `kano_backlog_ops/migration` | journal of file operations, backups and staged files, an alias map of old IDs; the index database is one of the files | plan, apply, verify, status, rollback | two products change together without a lock; the journal records a rollback only at its end; what is restored is a database that every command writes |
| **Relations** `kano_backlog_ops/relation` | a link list in the item that owns the relation | add, remove, list | duplicate and cycle checks scan all items before an unlocked write |
| **Topics and worksets** `kano_backlog_ops/topic`, `workset` | manifests, active-topic markers, workset metadata | create, add, switch, distill, refresh, promote, cleanup | shared markers without locks |
| **Change probe** `index/private/change_probe.cpp` | NTFS journal checkpoints | capture, verify | external change journal (Windows only) |
| **Web view** `kano_backlog_webview_core` | per-product read caches; one record per submitted review decision; review drafts | HTTP read model, refresh, review decisions, drafts | caches that go stale; a decision is a record, an item and the record again, written in place beside the item commands |
| Orchestration, integrity, doctor, views, templates, configuration, frontmatter, models, references, command line | none of their own, or files written once | initialisation, diagnostics, rendering, parsing | - |

How they interact. Every command that changes an item goes through the canonical
store (file, then receipt) and afterwards through the index (`index_item` or
`remove_items`), which compares the receipt with the snapshot. `create_item`
also uses the reservation tables, which live in the same SQLite schema as the
index but, between worktrees, in a database of their own. Queries read the
receipt, the files, the rows and the snapshot, in that order and not at once.
Git and editors change item files behind everybody's back.

What makes each correct:

- *creation*: one item and one answer per idempotency key for ever; no two
  items under one display ID; no file of one creator torn by another; an item
  that was finished does not come back.
- *index*: what is published as ready, and what a query validates, was the
  state of the canonical files at one moment; a product revision names one
  content; generations do not fall; a healthy snapshot is not demoted.
- *lifecycle*: the worklog explains the state; the gates hold for what is
  stored, not only for what was read; the parents form a forest; an active child
  has a started parent; history only grows, except where the code is known to lose it.
- *registration, relocation, migrations*: at every crash point either the old
  or the new layout can be restored; a rollback never destroys the only copy
  nor undoes the transaction of another process; a retried registration
  finishes the first or refuses.
- *web view*: a change of an item can be traced to a recorded decision, the record
  tells whether the item was changed, the policy judged what was in the file, and
  the reviewer sees the result.
- *relations, topics, worksets*: a relation is stored once and closes no cycle;
  no update is lost.

`PROJECT.json` lists these components with their status, and under `hazards`
every place in the code where one of them could go wrong in a way a unit test
would hardly reach.

## 2. Modules

| Module | Models | Uses |
|---|---|---|
| `CreateOnce` | abstract promise of keyed creation | - |
| `ItemCreate` | `create_item` between processes and worktrees | instance of `CreateOnce` |
| `ItemCreateProofs` | invariants, lemmas and theorems of `ItemCreate` | extends `ItemCreate`, `TLAPS` |
| `MetadataIndex` | receipt, rows and snapshot under mutators, readers, doctor | - |
| `MetadataIndexProofs` | invariant, lemmas and theorems of `MetadataIndex` | extends `MetadataIndex`, `TLAPS` |
| `ItemLifecycle` | commands that change existing items | - |
| `ItemLifecycleProofs` | invariant, lemmas and theorems of `ItemLifecycle` | extends `ItemLifecycle`, `TLAPS` |
| `ProductRelocation` | moving a product root: apply, rollback, the handler of apply | - |
| `ProductRelocationProofs` | type correctness and `SourceKept` | extends `ProductRelocation`, `TLAPS` |
| `ProductRegistration` | plan, apply and its recovery over one shared config | - |
| `ProductRegistrationProofs` | invariants, lemmas and theorems of `ProductRegistration` | extends `ProductRegistration`, `TLAPS` |
| `PrefixMigration` | apply and rollback of a new display prefix, without a lock | - |
| `PrefixMigrationProofs` | invariants, lemmas and theorems of `PrefixMigration` | extends `PrefixMigration`, `TLAPS` |
| `CrossProductMigration` | apply and rollback of a move to another product, without a lock | - |
| `CrossProductMigrationProofs` | invariants, lemmas and theorems of `CrossProductMigration` | extends `CrossProductMigration`, `TLAPS` |
| `ReviewDecisions` | decisions submitted in the web view, and the cache it shows items from | - |
| `ReviewDecisionsProofs` | invariants, lemmas and theorems of `ReviewDecisions` | extends `ReviewDecisions`, `TLAPS` |
| `MC...` | model values and definitions for the configurations | extends the above |

An operator named `X_Something` that stands before `X` is a plausible mistake in
`X`: `PROJECT.json` pairs each with the property that notices it. No
specification uses these operators.

### ItemCreate

One action is one access to something shared: a read of one checkout, one
SQLite transaction, one file operation. `pc[c]` says where process `c` is in
`create_item`; `call`, `slot` and `scan` are its local variables.

| State | Code |
|---|---|
| `items`, `torn` | item files that parse, and those truncated by a write in progress or abandoned |
| `receipts` | `write_duplicate_admission_receipt` |
| `seq`, `reserved`, `committed`, `requests` | `id_sequences`, `id_reservations`, its `committed_at`, `id_request_keys` |
| `lock` | `CreateRequestLock` |
| `answers`, `minted`, `excused` | history: results returned, uids generated, numbers an outside command placed over a claimed one |

The path of a keyed request is `AcquireLock`, `FindCreatedRequest` (first pass,
one root at a time), `Authorize`, `SeedSequence`, `EnsureSequenceAtLeast`,
`ReserveNextNumber` or `ReuseReservation`, for a reused reservation a second
pass and `ResolveReservation`, then `CheckCollision` (one root at a time),
`DecideCollision`, `BindRequestUid`, `OpenItemFile`, `FillItemFile`,
`CommitReservation`, `WriteDuplicateAdmissionReceipt`, `Finish`; a request whose
item exists goes to `Replay` instead. A request without a key starts at
`SeedSequence` and takes a second number once if it meets a collision. `Crash`
is possible before every step; it also stands for the throws that are not
modelled one by one (scan budget, parent identity checks, database errors).

`Shared` says which of two deployments is meant: worktrees of one repository,
which share a database in the Git common directory (`Db`, `Scope`), or a
checkout without Git, whose index database holds the tables. `Environment` says
which other commands run: a merge between worktrees, items that arrive from
another clone (with uids and perhaps numbers of their own, even the same key),
trash, `remap-id`, and an operator who removes a truncated file.

Abstractions. One prefix and one item type. A uid is a number; the clone's own
are positive and fresh, another clone's are negative. The payload is a model
value that two requests share or not. In `Shared` mode the local index also has a
sequence row, which nothing reads; it is left out. Parent checks, title and body
do not appear.

### MetadataIndex

`files` holds a version number per path, `Absent`, or `Torn`. `rows` holds the
version each row was read from. `snap` is the `metadata_snapshots` row, where
`content` stands for the digests `index_revision`, `content_revision` and
`item_count`: two states of the files have equal digests exactly when they are
equal. `receipt` has the current and previous stamp, operation, source and
content hash. `mem[w]` holds the locals of the operation worker `w` runs.

A mutation is `OpenSource`, `FillSource` (or `RemoveSource`), `StampReceipt`,
`ReadSnapshot`, `ReadBack`, `CheckReceipt`, `RecheckSource`, `Scan` (a file per
step), `FenceMutation`, `CommitMutation`. A rebuild is `RebuildReceipt` (or
`ResetWriteRevision`), `Scan`, `FenceRebuild`, `Scan` again, `ValidateRebuild`,
`ReadSnapshot`, `CommitRebuild`, followed by the doctor run of `refresh_index`. A
query is `ReadSnapshot`, `ReaderReceipt`, `Scan`, `Reread` (the rows, and the receipt
last), `FenceQuery`, then `ServeRows`, `CleanUp` or nothing. Doctor takes the inventory
first, rereads the receipt and judges the rows last (`Healthy`); it may end in
`InvalidateMetadata` and `WriteStale`, two statements. `Edit` is an editor or
Git; `Crash` may hit between any two steps and releases the receipt lock.

`seen`, `published`, `drift`, `served` and `forked` are history variables: file states
since an operation began, publications, files changed without a receipt, whether
a query has returned a row that its file, changed only with receipts, never
had during it, and whether a process has written the snapshot row on from a revision
that was no longer the stored one.

### ItemLifecycle

`file[i]` is what was last written to an item: state, parent, whether the Ready
sections are complete, and the worklog. A worklog line records the transition
and how it came about (`gated`, `forced`, `auto` by parent sync, `plain`,
`note`). `Rule` is the transition table of the state machine, `ActionFor` the
mapping from a requested state to an action, `AllowedParents` the type
hierarchy. A command reads its item in its first step and holds a copy
(`mem[w].copy`); the gate of the parent, the parent's copy for parent sync, each
ancestor visited by `remap-parent`, and each truncation and refill of a file are
later steps. `torn` are the files truncated and not refilled: what a reader finds in one
is `Worklog(i)`, nothing when its writer has died. `overtaken` is a history variable: the
items of which a process holds a copy that another has written since. `trash` writes its worklog line first and moves the file afterwards.
`FirstParent`, the parent each item was created under, has an allowed type
(`HierarchyAssumption`): `create_item` calls `validate_parent_relationship` too.

Left out: owner auto-assignment and intent diagnostics, which change fields no
property reads, and timestamps. `remap-id` appears only as interference in
`ItemCreate`.

### ProductRelocation

One reviewed plan moves a product to `products/<slug>`. `root[r]` is what a
directory of the transaction holds: the source, the destination, the stage (the
copy, later the oracle of the generated views) and the retired name. `config` is
the root the registry names and whether somebody changed the rest of it;
`journal` is `journal.json` (status, stage, `stage_owned`), `txn` the directory it
lies in with `config.before`; `lock` is the `apply.lock` directory: free, without
`owner.json` yet, owned, or left by a dead owner.

`apply` is `Look`, `Prepare`, `Lock` (`Reclaim` and a second try when the owner is
dead), `OwnLock`, `Admit`, `BeginTransaction`, `Record`, the staging (`MakeStage`,
`OwnStage`, `CopyStage`, `DisownStage`), `Vacate`, `Publish`, `Compare`, `Commit`,
`VerifyRoots`, `Index`, the oracle (the staging actions again, `DropOracle`),
`Retire`, `CompleteApply`, `Verify`, with a `Mark` of the journal between the
stages. An exception destroys the lock object first and then goes to `Recover`:
the rollback of the handler runs without the lock. `rollback` is `Load`, the lock,
and the common path `Guard`, `Restore`, `RenameBack`, `ReadConfig`,
`RevertConfig`, `JudgeTarget`, `RemoveTarget`, `Recreate`, `DisownRest`,
`RemoveStage`, `Conclude`. It works with the journal it loaded before the lock.

`Index` goes straight to its `Mark` when the plan rebuilds no view.

Left out: the ownership of the temporary output of the view writer, the export of
sequence tables, I/O failures of the journal, injected failures, the answer of a
rollback that was done before. `status` and `verify` only read.

### ProductRegistration

A plan is what its hash covers: the product, the bytes of the config, the revision
of the sources. `journal[pl]` is the published evidence of a plan, `guard` the OS
lock that a death releases, `dir` the lock directory with the pid of its owner,
which may die (`Dead`) and be given to somebody else (`Reused`). The first apply is
`Start`, `Prepare`, `TakeGuard`, `Claim`, `Admit`, `PublishEvidence`,
`MarkPublishing`, `Recheck`, `PublishConfig`, `Verify`, `Conclude`; its handler is
`Undo`, `Judge`, `Restore`, `Close`. A repeated apply (`Repeat`) of a plan whose
journal is not terminal is the recovery: `BeginRecovery`, `ReadConfig`, `Check`, then
the same publication or the same restore. `Edit` changes a source, `Drift` another
part of the config, by tools that know no lock.

Left out: I/O failures, the staging garbage of dead processes, the variants for
Windows. Collisions of selectors, prefixes and uids are blockers of a plan, and the
presence of the destination is part of its source revision. `Drift` never touches a
product block. `verify` and `status` only read.

### PrefixMigration

`file[q]` is what a path holds: its reviewed bytes, those bytes rewritten, either of
them edited by somebody else, a receipt, or nothing. `journal`, `backup` and
`stage` are the transaction directory. `apply` is `StartApply`, `CheckJournal`
(`Purge` of a transaction that was rolled back), `Snapshot`, `ReadContents`,
`StageFiles`, `CheckDrift`, then per file `Publish` with `Unlink` and `Rename`
(`write_file_atomic` removes the old file before it renames the new one into
place), `CheckWritten`, `Verify`; an exception goes to `Handler`. The journal is
written in the same two steps, `UnlinkJournal` and `RenameJournal`. A rollback,
confirmed or of the handler, records an attempt and then restores file by file
(`Restore`, `FinishRecovery`). There is no lock: every process runs all of this
beside the others, and `Edit` is an item command or an editor.

Abstractions. The files of the transaction directory are staged in one step, the
contents of the plan are read in one step, a validated load of the journal and
`remove_all` are one step each. Operations of one kind are published in any
order. Two receipts differ, as their timestamps do. A second edit of an edited file
adds nothing. A renamed file counts as rewritten even where only its name changes.
The temporary files of `write_file_atomic` are not kept. Left out: I/O and injected
failures, journals of schema v2, the rebuild of the index, the planner's blockers,
`verify` (but for its use by `apply`) and `status`.

### CrossProductMigration

`file[q]` is what a path of the plan holds: nothing, its bytes with the old IDs or
with the new ones, and which writes of other commands they contain. The paths are
the sources and targets of the moved items, the files that mention them, the alias
map and the index database. `journal`, `backup` and `stage` are the transaction.

`apply` is `StartApply`, `CheckJournal`, `Plan` (the hash of the reviewed plan, which
the index is not part of), `ReadContents`, `CopyIndex`, `Purge` of the backups of an
earlier apply, `Snapshot` with the journal `prepared` (a path that is not admitted stops
it with part of the backups and stages made), `CheckDrift`, then kind after
kind (`PublishRank`) `Publish` with `Unlink` and `Rename`, `CheckWritten`, the journal
`applied`, `Verify`. An exception goes to `Handler`, which undoes whatever journal it
finds. `StartRollback` and `Handler` share `Begin` (any drift stops everything),
`Restore` and `FinishRecovery`. `Edit` is any other command; it may write the index
with any item. `raced` collects the writes that no comparison could notice (`Unseen`),
and those whose only copy was a backup of a lost index.

Abstractions. A pass that only reads files, or writes only private ones, is one
step. Operations of one kind are published, and files restored, in any order.
`backlog_index_busy` is a throw of `CopyIndex`. The index exists when a migration is
planned. Left out: the planner's blockers, I/O
failures, `verify` (but for its use by `apply`) and `status`, which only read.

### ReviewDecisions

`item` is the item file: a version that counts its writes, its modification time, and
what it holds (frontmatter state, review and edit lines; torn while it is written).
`records` are the submitted records by name, `cache[s]` what server `s` remembers.

A submit is `StartSubmit`, `Scan` and `Parse` (`LoadProduct`: the newest modification
time, then the files), `Decide` (policy, and the name by `UniqueJsonPath`),
`OpenRecord`, `FillRecord`; if the policy accepted, `ReadItem`, `OpenItem`, `FillItem`
(`ApplyTransitionToMarkdown`) and the record once more; `Answer`, which erases the
cache of the product. A view is `StartView` (`ShouldLoad`) with or without a load, and
`Show`. A server takes one request at a time, as the single-threaded listener does.
Item commands copy and write the file in place (`CopyItem`, `OpenFile`, `FillFile`) or
move it away (`TrashItem`). `Tick` moves the clock of modification times and names.

Left out: review drafts, the other views, the start of agents after a decision, the
read of an item through the warm index, requests refused before they touch a file.

## 3. Runs

Fairness. Creation, index and lifecycle have none and only safety properties: a
command may be killed at any moment, it gives up after five seconds on the request
lock, nothing schedules or restarts it, and a key whose number was taken by an
arriving item refuses for ever. The code promises nothing "eventually", and no more
does the web view: a decision whose server dies is not taken up again. The four
transactions do: their journals ask the operator to repeat a command until they are
settled. There, a command that runs gets on (`WF Run(p)`: no step waits for another
process, a lock that is held is refused or reclaimed), and the operator repeats the
command the journal asks for: `WF Load(p)` and `WF StartRollback(p)`, the rollbacks
that stay possible while a journal is unsettled, and `SF Repeat(p)` for registration,
where other plans are applied in between. Deaths are bounded (`MaxCrashes`), which is
the fairness a recovery needs: somebody who is killed every time recovers nothing.

`CHECK_DEADLOCK FALSE` appears in every configuration because the bounds
(numbers, versions, worklog lines, applies) let all processes come to rest.

| Run | Question | Bounds |
|---|---|---|
| `ItemCreateWorktrees` | Do two worktrees keep `UniqueIds`, `OneItemPerKey`, `RetriesAgree`, `OneWriterPerNumber`, `CommittedNeverRewritten` under crash, retry, merge, trash and removal of torn files? | 2 roots, 2 processes, 1 key, keyless creates, 2 numbers, 1 crash |
| `ItemCreateCheckout` | In one checkout without Git, with a foreign item and `remap-id`: is `IInv` an invariant, and does the pipeline implement `CreateOnce`? | 1 root, 2 processes, 1 key, 2 numbers, 1 crash, 1 arrival |
| `IndexReader` | One mutator, one reader, one edit or crash: `TypeOK`, `CacheNeverOverrides`, `ValidatedWasCanonical`, `HealthyNotDemoted` | 2 files, 2 versions, generation 2; 1.8 million states |
| `IndexMutators` | A process that removes and rebuilds (with the doctor run of a rebuild) beside one that writes: `ReadyIsCanonical`, `RevisionNamesOneContent`, `PublishedWasCanonical` | 2 files, 2 versions, generation 2; 1.2 million states |
| `LifecycleRaces` | Two processes on a feature and its task, one of which may die: `LogExplainsState`, `GatesHold`, `ParentsAcyclic`, `WorklogAppendOnly` | 2 worklog lines per item before a command starts, 1 crash, the processes interchangeable; 2.2 million states |
| `LifecycleAlone` | One command at a time that may die: `ActiveChildHasStartedParent` | 3 lines, 1 crash; 1.3 million states |
| `Relocation` | An apply beside a confirmed rollback: `SourceKept`, `ResolvedRootComplete`, and `RecoverySettles` | 1 applier, 1 recoverer, 2 crashes, 1 drift, the source edited; 153,698 states |
| `Registration` | Two processes register two products: `LockIsHeld`, `EvidenceFirst`, `AppliedUnlessRival`, `AppliedIsTerminal`, `OthersKept`, and `InterruptedIsCompleted` | 3 attempts, 2 plans, 1 edit, drift, crash and reused pid each; 984,468 states |
| `Migration` | Applies and rollbacks one after another: `BytesRecoverable`, `StatusTellsFiles`, `EditsKept`, and `RecoverySettles` | 1 rewritten and 1 renamed file, the config, the receipt; 2 applies, 2 edits, 2 crashes; 167,628 states |
| `CrossProduct` | Applies and rollbacks one after another: `NothingLost`, `OldIdResolves`, `StatusTellsFiles`, and `RecoverySettles` | 1 item, 1 file that mentions it, alias map, index; 3 applies, 1 write by others, 2 crashes; 700,382 states |
| `CrossProductStatus` | see *Findings* | 1 apply, 1 crash |
| `Review` | One server beside one item command: `LineHasRecord`, `RecordsAreTrue`, `OwnDecisionIsShown`, `PolicySawTheFile` | 3 decisions, 2 requests, 1 edit, 2 clock values, 1 crash; 266,664 states |

Why the bounds suffice for the hazards in view. The races are between two
processes over one key, one number, one lock or one file: with two processes every
ordered pair of steps occurs. Two numbers are needed for a collision to be
retried, two files for a scan to see a state the files never had together, one
crash for a retry to meet every intermediate state, two versions for a row to
be older than its file. In creation a second crash repeats the recovery path of
the first from a state the first already reaches; in the transactions the recovery
is itself a sequence that may be cut, so a second crash is allowed there (in
registration a recovery is cut by the drift and the edit too, and three attempts are
a first recovery, one that is cut and the last one there is room for). One file of
each kind of operation (rewritten, renamed, config, receipt) is enough for a
migration, because operations never look at each other's files; the third apply of `CrossProduct`
is the one that meets what a failed second one left of the first. Two clock values let
a file change with and without a newer time, and two requests of one time and kind
compete for a name; `Review` also passes with two edits (2.7 million states) and with
three requests (1.7 million). Where the bounds
limit (three roots, a third process, many files), the theorems below do not.

What each property excuses, and why. `UniqueIds` excuses numbers an outside command
dropped on a claimed one, since `remap-id` and `git pull` consult no reservation.
`OneItemPerKey` is about items of this clone: the key of another clone's request is
answered by a refusal, or by a conflict that the marker checks detect, never by merging
the two. `ReadyIsCanonical`, `PublishedWasCanonical`, `ValidatedWasCanonical` and
`CacheNeverOverrides` excuse files changed without a receipt (`drift`): a query notices
such an edit by its content scan, but only the receipt can reveal one that was made and
undone meanwhile. `RevisionNamesOneContent` excuses nothing until a process has written
the snapshot row on from a revision that was no longer stored (`forked`), which the code
lets two processes do; a revision can be issued twice in no other way. `WorklogAppendOnly`
excuses the two ways in which the code loses lines: a writer that dies over the file it
truncated, and the write of an overtaken copy. `CommittedNeverRewritten` is about
reservations that were committed (*Observed*, below). `ActiveChildHasStartedParent` is about `update-state` with parent
sync, since `state transition` never touches a parent. `AppliedUnlessRival` excuses a
second plan of the same product (*Observed*, below). `NothingLost` excuses writes that
fall into a gap where no comparison is made, and those that were only in a lost index;
`StatusTellsFiles` of both migrations the time while files are restored.
`PolicySawTheFile` is about an item nobody else wrote since the request came in,
`OwnDecisionIsShown` about the server's own decisions.
`EditsKept` excuses an edit that falls between the comparison of its file and the write:
no lock closes that gap.

What the liveness properties excuse is what the code gives up on, and the modules
name it `Stuck`. A relocation: a changed config, an edited or partial root, a stage
without its receipt, an empty destination made again under a late stage, a lock
directory without `owner.json`. A migration: a journal lost in the gap of
`write_journal`, a file missing after a death between its removal and its renaming,
an edit that drifted from both recorded states. A registration: attempts that are
used up (1024 in the code), a lock whose pid somebody else keeps.

### Findings

One run ends in a violation of something the repository says of itself.

- `CrossProductStatus`. A rollback writes the journal only when every file is restored.
  One that dies between two files of an applied migration leaves a journal that says
  `applied`, and `status` answers as if nobody had touched the migration. The contract
  wants receipts from which an interrupted operation is recovered "without treating
  partial state as success" (references/cross-product-migration-contract.md:16). A
  second rollback does settle it (`RecoverySettles`); what is missing is the sign that
  one is needed.

Observed while modelling, without a run of their own.

- *Creation.* With "trash", "merge" and "arrive" in shared worktrees two items of a
  clone get one number: a creator reads floor 0, item #1 arrives in the other worktree,
  the creator reserves #1 and scans its own checkout, Git moves the item into it, the
  copy in the other worktree is trashed before that one is scanned. `UniqueIds` is
  proved for checkouts with databases of their own, for shared worktrees without
  "merge", and for shared worktrees without "arrive" and "remap". A creator dies after
  its canonical write and before the reservation is committed; its retry answers by
  `Replay`, which never commits. After the item is trashed a further retry writes it
  again, under the ID a caller was already told, although the error text of
  `create_item` (workitem_ops.cpp:1848) lets only a canonical item be recovered.
  `CommittedNeverRewritten` says what does hold.
- *Lifecycle.* SKILL.md:78 calls the worklog append-only, and the code does not keep it
  so. A write truncates the item in place (canonical_store.cpp:715): a command that dies
  before it has filled the file leaves it empty, worklog included, although the receipt
  beside it is written by renaming (line 227). And two commands on one item lose the
  lines of the faster one. `WorklogAppendOnly` says that these are the only cases; without
  either excuse TLC refutes it. Two commands can also put a parent back from Review or Done to
  InProgress, since parent sync starts it from a copy. Parent sync starts a parent that
  fails the Ready gate although nobody used `--force` (SKILL.md:122). A request for
  `Planned` is carried out as `Ready`.
- *Index.* With two mutators one product revision may name two contents, because
  the snapshot is read outside the committing transaction
  (docs/design/derived-metadata-index.md:36), and a query may return a row that its
  file never had (:5). With doctor beside a mutator `invalidate_metadata` may write
  back an older generation. The bare `OneContent` is violated in `IndexMutators`, which
  therefore checks it up to the fork; `CacheNeverOverrides` holds in `IndexReader` and not
  in general. One mutator is not enough either
  when an edit leaves no receipt: a rebuild scans the edit, the edit is taken back, a
  query finds rows, snapshot and files in agreement, and the rebuild commits before the
  query reads the rows it returns (backlog_index.cpp:2778). They are those of the edit,
  which the files did not have while the query ran. It takes two edits, so `IndexReader`
  with one does not meet it; `CacheNeverOverrides` excuses the edited file. With two
  edits the properties of the run hold in 11 million states.
- *Relocation.* An apply that the directory lock refuses runs its handler all the same
  and rolls back the running apply of the same plan, whose next journal entry writes
  `applying` over `rolled_back` (docs/product-root-relocation.md:195 calls a completed
  rollback terminal). `SourceKept` survives this, as its proof shows;
  `ResolvedRootComplete` does not, and is proved for one applier.
- *Registration.* The rollback of a recovery restores `config.before` whenever the
  config equals `config.after`, whoever published it: repeating an interrupted plan can
  unregister a product that a second plan of the same bytes has applied.
- *Prefix migration.* A rollback of a running migration reports `rolled_back` when the
  apply has compared a file and not yet written it; the apply then publishes the file,
  and the next apply removes the transaction, backups included, before it looks at the
  files. The original bytes are nowhere, so `BytesRecoverable`, `StatusTellsFiles` and
  `EditsKept` fail with two processes (references/product-prefix-migration-contract.md:118). The
  handler of an apply by another agent makes the journal one that no load accepts
  (`automatic_rollback_agent_mismatch`); a second apply overwrites the staged receipt
  of the first.
- *Cross-product migration.* The handler undoes a journal that is `rolled_back` already:
  an apply refused with `backlog_index_busy` restores the index from the old backup,
  and if it dies between the removal and the renaming of `backlog.db`, the next apply
  purges that backup, the last copy; `raced` excuses it. The same replay can turn a
  `rolled_back` journal into `recovery_required` for good. Any ordinary write of the
  index after an apply makes rollback refuse; a death between removal and renaming of a
  file makes it refuse for ever (`Stuck`). Nothing is compared between the drift check of
  a rollback and its writes. Target IDs are the next numbers of a scan and no creator's
  reservation is asked.
- *Web view.* docs/design/backboard-review-inbox-model.md:58 wants decisions kept
  append-only, but the record is rewritten in place, and a death in that rewrite leaves
  a line whose record cannot be read (`LineHasRecord` asks only that it exists). The
  whole file is written back after a state read earlier was judged: a write of a
  concurrent command is overwritten, and neither the canonical lock nor receipt nor
  index learn of the change. "Reopen" asks for Review from Done, which the state machine
  always refuses. The cache misses removed files and changes with the same or an older
  time. Two servers may take one record name, and `RecordsAreTrue` fails with two;
  `OwnDecisionIsShown` and `PolicySawTheFile` hold for any number.

## 4. Proofs

`ItemCreateProofs` proves, for any sets of roots, processes, keys and payloads
and any bounds, under the named assumptions of `ItemCreate` (distinct names,
`RootOf` a function, bounds natural, `Environment` a subset of the listed
commands):

- `TypeCorrect`: `Spec => []TypeOK`;
- `Inductive`: `Spec => []IInv`;
- `RetriesAlwaysAgree`: `Spec => []RetriesAgree`;
- `OneItemPerKeyAlways`: `Spec => []OneItemPerKey`;
- `OneWriterAlways`: `Spec => []OneWriterPerNumber`;
- `CommittedStaysWritten`: `Spec => CommittedNeverRewritten`;
- `UniqueIdsAlways`: `Spec => []UniqueIds`, assuming `Counted \/ ~Merges`;
- `Implements`: `Spec => ImplementsCreateOnce`.

`RetriesAgree` is not inductive: a creator may hold a uid that differs from the
one a competitor binds, and only the row in the database says who is right.
`IInv` therefore ties everything to the request row of a key.

    IInv == TypeOK /\ RowsInv /\ ClientInv /\ ItemsInv /\ AnswersInv

`RowsInv`: rows of one database have different numbers, none above the sequence,
and bound uids that were minted and differ. `ClientInv`: a process past its
reservation carries the number of the row of its key, past the binding its uid
as well, and what it found in a scan was checked against them. `ItemsInv`: an
item of this clone with a key is the one its row names. `AnswersInv`: so is
every answer. The request lock is not part of it: this argument does not need
mutual exclusion, because the row is written in one transaction and a bound uid
is never replaced. Each conjunct is a lemma per group of actions (`RowsStep`,
`ClientsStep`, `ItemsStep`, `AnswersStep`), preceded by lemmas that say which
actions touch what (`RowsTouched`, `ItemsTouched`, `AnswersTouched`).

`Implements` maps the identity of a key to its row once a uid is bound to it.
`BindRequestUid` is `Decide`, `Finish` and `Replay` are `Reply`, and every other
step is a stutter, crashes and interference included.

`OneWriterAlways` and `CommittedStaysWritten` rest on a second invariant, `HandInv`,
proved on top of `IInv` (`HandsApart`). Here the lock does matter: a keyed creator holds it from
the scan to its end, so the keyed numbers in hand are those of different rows and
differ by `RowsInv` (`LockHeld`). A number in hand is not above the sequence, and one
taken without a key is in no row and differs from every other such number
(`OwnNumber`, `Unlike`): whoever allocates next is above both. Until its own commit
the number of a creator is not committed (`Uncommitted`). `CombineHand` derives the
invariant of a step of one creator from how the database grew (`Grows`) and where
its number came from (`NumberFrom`); `ClientHand` has one step per action.

`UniqueIdsAlways` needs a third, `UniqueInv`: what `OneWriterPerNumber` says of numbers
in hand, of numbers in files. A `Rival` of a creator is another item under the number
it holds. Until the collision check is over, every rival is found already or in a
checkout that is still to be looked at (`RivalsFound`); afterwards there is none
(`NoRival`), since whoever else could write one would hold the same number. Git can move
a rival from a checkout not yet checked into one that was. Where it can (`Merges`), the
argument is that there never was a rival: every number in a file was counted by the
shared sequence (`FilesCounted`), which `Counted` provides: no "arrive" and no "remap"
in shared worktrees. Without `Counted` the property is false (*Observed*, above).

`MetadataIndexProofs` proves, for any files, processes and bounds and whatever
operations each process performs, under the named assumptions of `MetadataIndex`
(the lock's holder is a process or nobody, bounds natural):

- `TypeCorrect`: `Spec => []TypeOK`;
- `ReadyAlwaysCanonical`: `Spec => []ReadyIsCanonical`;
- `PublishedWasThere`: `Spec => PublishedWasCanonical`;
- `ValidatedWasThere`: `Spec => ValidatedWasCanonical`;
- `RevisionsName`: `Spec => []RevisionNamesOneContent`;

and under `OneMutator` (of any two processes one only queries), which the snapshot read
outside its transaction makes necessary for the last (*Observed*, above):

- `HealthyStays`: `Spec => HealthyNotDemoted`;
- `CacheNeverWins`: `Spec => []CacheNeverOverrides`.

A scan reads the files in turn while others write them, so what it has read need
not be what the files are. The invariant speaks of the one file that may differ:
`Touched` is the file of the process that holds the receipt lock and has not
stamped yet. As long as the receipt is the one the scan began under, what was
read of any other file is still there (`Fresh`), and there was a moment `f` of the
operation at which all that was read so far was in the files (`Moment`); when the
touched file itself is read, the present becomes that moment. A change of a second
file needs the lock, hence a stamp, hence a new receipt, and `Honest` says that no
step of any process does otherwise without `drift`. The fences after a scan then
carry it over to the commit (`Fenced`) and to the snapshot (`SnapshotOK`). The
second scan of a rebuild is not needed for this; it catches edits that leave no
receipt, which the two action properties excuse. That generations are counted on
from a snapshot read outside the transaction does no harm here.

It does to `RevisionNamesOneContent`, whose `ForkInv` needs no lock and no fence: as long
as nobody has written from a revision that was gone, every write of the row leaves its
revision alone, demotes it, or goes one generation on (`RevisionMove`), and no
publication is ahead of the row (`NamesInv`). What has to be shown of each process is
only that the row it will write on from has an epoch whenever it was ready (`EpochInv`).

The two theorems for one mutator are layers on that. `RevisionInv` says
that the snapshot a mutation goes on from is still the published one, but for a query
that demoted it (`BaseInv`), and that no publication is ahead of it (`SnapInv`). So the
row is left alone, demoted under its revision, or published under the next (`IndexMove`).
`DemotionInv` adds what a query holds against its snapshot (`QueryInv`): the current row
is the one it read or past it, and once it rejects that row, it has seen files that the
row does not describe, or the receipt has moved. A row that `Unpublished` finds equal to
the one read is not past it, hence the theorem. `ServingInv` adds that no snapshot read
before a pending mutation's receipt is fenced by it (`MutatorInv`): a query that decides
to serve knows that none is under way. One that begins later writes contents the query
has seen meanwhile (`Foreseen`), and a rebuild, whose receipt has not moved, writes what
the files are, but for the edited ones (`ServeInv`). For `HealthyNotDemoted` the
assumption serves the proof: TLC has found no counterexample in 14 million states with
two mutators.

`ItemLifecycleProofs` proves, for any items, types, processes, commands and
bounds, under the named assumptions of `ItemLifecycle` (distinct names, inputs
from the listed sets, lawful first parents):

- `LifecycleTypeCorrect`: `Spec => []TypeOK`;
- `ParentsAlwaysAcyclic`: `Spec => []ParentsAcyclic`;
- `LogsExplainStates`: `Spec => []LogExplainsState`;
- `GatesAlwaysHold`: `Spec => []GatesHold`;
- `WorklogsOnlyGrow`: `Spec => WorklogAppendOnly`;

and when one command runs at a time (`Alone`), wherever it dies:

- `ActiveChildrenHaveStartedParents`: `Spec => []ActiveChildHasStartedParent`, when
  states change through `update-state` with parent sync and no item gets another parent
  (`Synced`).

The walk up the chain that `remap-parent` makes cannot be the reason: two remaps
may each see an acyclic chain before either is written, and the slower write may
undo the faster. What survives is the type check: `LawfulInv` says that every
stored parent, and every parent in a copy on its way into a file, is of a type
`AllowedParents` permits for its child. `ParentInv` says that a command works on
a parent only when its copy has one. `LawfulIsAcyclic` gives the types places
such that a parent's is below its child's; a cycle would have members at ever
higher places. The theorem therefore depends on the table having no mutual
entries, which the mutant of `ParentsAcyclic` adds, and says nothing of files
whose parent or type was edited by hand. The step lemmas look at the process
that moves (`WorkerOK`) and the files (`FilesOK`); `Combine` says why that is
enough.

`LogsExplainStates` and `GatesAlwaysHold` rest on `SoundInv`: every file, and every copy
a command holds, is `Sound`. Its log leads from Proposed to its own state, line by line,
and the item is complete if it is Ready or any line of its log claims the gate. No lock
makes this so, but the shape of the writes: a command computes a copy from one sound
item and writes state, worklog and text together, so the file is sound again whatever it
held in between. What is lost are the lines of the command that was overwritten, which
these theorems do not exclude. That nothing else goes is `WorklogsOnlyGrow`: a copy that
has not been overtaken is one line longer than the file that it will replace
(`CopyInv`), and a file being written is truncated by the holder of the receipt lock,
which overtakes every other copy of it (`WriteInv`). For parent sync,
`FollowInv` compares the copy with that file: the parent is the same, a started item
stays started, and when the item becomes active its parent is started by the time its
file is opened, because `openParent` and `fillParent` come before `open`. A command that
dies between them leaves a started parent of an inactive child, which the property
allows. `transition` never touches a parent and `remap` may give a child one that has
not started: `Synced` leaves both out.

`ProductRelocationProofs` proves `TypeCorrect` (`Spec => []TypeOK`) and `SourceNeverLost`
(`Spec => []SourceKept`) for any appliers and recoverers, so also for two processes
inside the lock at once. `SourceKept` is inductive with `TypeOK`: only `Retire` and
`RenameBack` move the source, each needs its origin to exist and its target to be
absent or empty, and nothing removes a root but the destination and the stage. It also proves
`ResolvedRootAlwaysComplete` (`Spec => []ResolvedRootComplete`) for one applier and any
processes that roll back (`SingleApplier`); with two it is false (*Observed*, above).
`SoloInv` says who is where: nothing outside the lock is held, and no rollback begins
before there is a journal. `RootInv` adds that source and retired root are complete or
absent at all times, and per step what the config and the roots are: past `publish` the
destination is complete and stays until a rollback has turned the config back. That no
journal equals `NoJournal` is the named assumption `JournalAssumption` of the module.

`ProductRegistrationProofs` proves `TypeCorrect`, `MutualExclusion` (`LockIsHeld`),
`EvidenceIsFirst` (`EvidenceFirst`), `AppliedIsRegistered` (`AppliedUnlessRival`),
`AppliedStaysTerminal` (`AppliedIsTerminal`) and `OthersAreKept` (`OthersKept`) for
any processes, products and bounds. The invariant is

    IInv == Locked /\ NotApplied /\ BlocksKnown /\ EvidenceFirst
                   /\ EvidenceOfPlans /\ AppliedUnlessRival

`Locked` (types, and guard and directory of whoever is inside) makes the rest an
argument about one process at a time. `NotApplied` says that a process past the check of
the journal works on one that is not applied; `BlocksKnown` that nobody touches the
blocks between its look at the config and its change; `EvidenceOfPlans` that the blocks
of a reviewed config all have evidence, so that restoring an old config registers nobody
without it.

`PrefixMigrationProofs` proves `TypeCorrect` for any processes and, under the assumption
`Alone` (one process), `Invariance`, `NothingIsLost` (`Spec => []BytesRecoverable`),
`StatusIsTrue` (`Spec => []StatusTellsFiles`) and `EditsAreKept` (`Spec => EditsKept`)
for any files, edits and deaths. The assumption is needed: two processes refute all
three (*Observed*, above). The first two are not inductive, because a process holds
bytes and a journal that it is about to write. `IInv` is `TypeOK`, `BytesRecoverable`
and one fact per step: whenever a file differs from what it was before, the journal on
disk, or the one the process is about to write, says that files are moving and records
as `before` what the backups hold. `EditsAreKept` adds `KeptInv`: between the comparison
of a file and its removal, what is removed is an edit that came after the comparison, or
bytes the backup holds, or what a migration wrote; and a rename finds its path empty.

`CrossProductMigrationProofs` proves `TypeCorrect` for any processes and, when commands
follow one another (`Alone`), `Invariance`, `OldIdsResolve` (`OldIdResolves`),
`SettledIsTrue` (`StatusTellsFiles`) and `WritesAreKept` (`NothingLost`) for any
subtree, files, writes of others and deaths. `IInv` is `TypeOK`, `OldIdResolves`, what
the journal on disk says (`JournalInv`) and one fact per step of a process: no source
goes before all its successors have come (`PublishInv`, `MoveInv`, from the order of
`PublishRank`: what is still to do has no lower rank than what is written), a
restoration knows every source (`Lawful`), and a journal about to be written tells what
the files are (`SaveInv`). `WritesAreKept` rests on `LossInv`: every file that is there
carries the writes its backup carries, or they are excused (`BackupInv`); and whatever a
process is about to write in place of a file carries the writes of the file it read
(`HoldInv`).

`ReviewDecisionsProofs` proves `TypeCorrect`, `OwnDecisionsAreShown`
(`OwnDecisionIsShown`) and `PolicyIsAsked` (`PolicySawTheFile`) for any servers, item
commands, decisions, clock and bounds, and `LinesHaveRecords` and `RecordsStayTrue`
(`LineHasRecord`, `RecordsAreTrue`) for one server (`Alone`). What is shown is a matter
of versions (`AgesInv`: what a server remembers is not older than what it answered).
What the policy saw is `PolicyInv`: while the version is that of the request's
beginning, the state in the file is the judged one. The records need `RequestsInv`, what
a request has left behind at each of its steps, and that names are taken once.

Every invariant and every action property that a passing run checks is a theorem. Where
it has a hypothesis (`Alone`, `OneMutator`, `SingleApplier`, `Synced`, `Counted`), the
run's constants meet it. The liveness properties (`RecoverySettles` three times,
`InterruptedIsCompleted`) are out of the prover's reach and only model-checked. No module
has a recursive operator.

## 5. Not modelled

- The NTFS mode of the index (`change_probe.cpp`), the batch
  `index_materialized_items`, `get_index_status`, and the failure of a commit of
  the index after a successful write.
- Relations, topics, worksets: planned, below.
- What the modelled transactions leave out is named with each module in section 2.
- Parsing, rendering, configuration, templates, command line: text in, text
  out; a file parses or it does not.
- Of the web view the review drafts, the other pages and the read of an item through
  the warm index; pages are rendered from what the modelled cache holds.
- `references/schema.md` and the workflow documents describe parent sync with
  more rules than the code has; the module follows the code.

## 6. Plan

1. `Relations`: the cycle check against the writes of other commands.
2. `Topics` and worksets: markers without locks.
3. `RefResolver`: operators checked against a reference definition.
4. Extension of `MetadataIndex` by the change probe and `get_index_status`, and of
   `ReviewDecisions` by the review drafts.

Runs stay few: a new module gets one or two, and those that a stronger run
subsumes are merged with it.

Theorems to come: that a migration of either kind implements an abstract one that
replaces all files in one step or none, and the same of a relocation; the theorems of
the modules above.
