------------------------ MODULE CrossProductMigration ------------------------
(***************************************************************************)
(* Moving a subtree of items to another product: the apply and rollback      *)
(* commands of one reviewed plan.  Every file the plan touches is one        *)
(* operation of a journal, with its bytes before and after; the database of  *)
(* the index is one of them.  There is no lock.  An action is one access to  *)
(* what processes share; one pass over the files that only reads them, or    *)
(* only writes the private files of the transaction, is one access.          *)
(*                                                                         *)
(* An operator named X_Something stands before X as a plausible mistake in   *)
(* it; nothing uses it, and each is caught by one of the properties.         *)
(***************************************************************************)
EXTENDS Naturals

CONSTANTS
    Procs,                  \* processes that run apply or rollback
    Moved,                  \* items of the subtree and artifacts they own
    Mentions,               \* other files that mention one of them
    MaxApplies,             \* bound: apply commands
    MaxEdits, MaxCrashes    \* bounds: writes by other commands, deaths

ASSUME BoundsAssumption == MaxApplies \in Nat /\ MaxEdits \in Nat /\ MaxCrashes \in Nat

Source(m) == <<"source", m>>
Target(m) == <<"target", m>>
Sources == {Source(m) : m \in Moved}
Targets == {Target(m) : m \in Moved}
References == {<<"reference", f>> : f \in Mentions}
Alias == <<"alias", "map">>         \* leads from the old IDs to the new ones
Index == <<"index", "db">>          \* backlog.db, with rows and reservations of all products
Paths == Sources \cup Targets \cup References \cup {Alias, Index}

VARIABLES
    file,           \* what each path holds
    journal,        \* journal.json of the transaction
    backup, stage,  \* its private copies, by path of the operation
    pc, mem,        \* where each process is, and its locals
    undone,         \* history: files are restored and no journal tells of it yet
    raced,          \* history: writes that no comparison could notice or protect
    applies, edits, crashes

vars == <<file, journal, backup, stage, pc, mem, undone, raced, applies, edits, crashes>>
txn == <<journal, backup, stage>>
rest == <<undone, raced, applies, edits, crashes>>

\* With the old IDs or with the new ones, and which writes of others it contains.
Contents == [form: {"none", "old", "new"}, has: SUBSET (1..MaxEdits)]
NoFile == [form |-> "none", has |-> {}]
NoFiles == [q \in Paths |-> NoFile]
Untouched(form) == [form |-> form, has |-> {}]

Reviewed == [q \in Paths |-> IF q \in Targets \cup {Alias} THEN NoFile ELSE Untouched("old")]

\* What the operation on q leaves behind when the files were read as f:
\* replace_migration_ids of a moved or mentioning file, a copy of the index with
\* the rows of the moved items replaced, or nothing.
After(f) == [q \in Paths |->
    CASE q \in Sources -> NoFile
      [] q \in Targets -> [f[Source(q[2])] EXCEPT !.form = "new"]
      [] q = Alias     -> Untouched("new")
      [] OTHER         -> [f[q] EXCEPT !.form = "new"]]

Statuses == {"none", "prepared", "applied", "recovery_required", "rolled_back"}
Journal == [status: Statuses, before: [Paths -> Contents], after: [Paths -> Contents]]
NoJournal == [status |-> "none", before |-> NoFiles, after |-> NoFiles]
Unsettled == {"prepared", "recovery_required"}

Steps == {"idle", "check", "plan", "read", "copy", "purge", "snapshot", "drift", "publish",
          "verify", "handler", "restore", "unlink", "rename", "unlink journal", "rename journal"}

Memory == [journal: Journal, todo: SUBSET Paths, at: Paths, bytes: Contents, failed: BOOLEAN,
           automatic: BOOLEAN, next: Steps]
NoMemory == [journal |-> NoJournal, todo |-> {}, at |-> Index, bytes |-> NoFile,
             failed |-> FALSE, automatic |-> FALSE, next |-> "idle"]

PublishRank_RetireFirst(q) ==
    CASE q \in Sources -> 1 [] q \in Targets -> 2 [] q = Alias -> 3
      [] q \in References -> 4 [] OTHER -> 5

\* publish_kind, kind after kind, with the retirement of the sources in between.
PublishRank(q) ==
    CASE q \in Targets -> 1 [] q = Alias -> 2 [] q \in References -> 3
      [] q \in Sources -> 4 [] OTHER -> 5

Init ==
    /\ file = Reviewed /\ journal = NoJournal /\ backup = NoFiles /\ stage = NoFiles
    /\ pc = [p \in Procs |-> "idle"] /\ mem = [p \in Procs |-> NoMemory]
    /\ undone = FALSE /\ raced = {} /\ applies = 0 /\ edits = 0 /\ crashes = 0

Goto(p, step) == pc' = [pc EXCEPT ![p] = step]
Leave(p) == Goto(p, "idle") /\ mem' = [mem EXCEPT ![p] = NoMemory]
Throw(p) == Goto(p, "handler") /\ mem' = [mem EXCEPT ![p] = NoMemory]

-------------------------------------------------------------------------------
(* write_file_atomic removes the old file before it renames the new one. *)

WriteJournal(p, j, next) ==
    /\ Goto(p, "unlink journal")
    /\ mem' = [mem EXCEPT ![p].journal = j, ![p].next = next]

UnlinkJournal(p) ==
    /\ pc[p] = "unlink journal" /\ Goto(p, "rename journal")
    /\ journal' = NoJournal
    /\ UNCHANGED <<file, backup, stage, mem, rest>>

RenameJournal(p) ==
    /\ pc[p] = "rename journal"
    /\ journal' = mem[p].journal
    /\ undone' = (undone /\ mem[p].journal.status = "recovery_required")
    /\ IF mem[p].next = "idle" THEN Leave(p) ELSE Goto(p, mem[p].next) /\ UNCHANGED mem
    /\ UNCHANGED <<file, backup, stage, raced, applies, edits, crashes>>

\* q is to hold bytes; a file that is to go is only removed.
Write(p, q, bytes) ==
    /\ Goto(p, "unlink")
    /\ mem' = [mem EXCEPT ![p].at = q, ![p].bytes = bytes, ![p].next = pc[p]]

Unlink(p) ==
    /\ pc[p] = "unlink"
    /\ file' = [file EXCEPT ![mem[p].at] = NoFile]
    /\ IF mem[p].bytes # NoFile THEN Goto(p, "rename") /\ UNCHANGED mem
       ELSE Goto(p, mem[p].next) /\ mem' = [mem EXCEPT ![p].todo = @ \ {mem[p].at}]
    /\ UNCHANGED <<txn, rest>>

Rename(p) ==
    /\ pc[p] = "rename"
    /\ file' = [file EXCEPT ![mem[p].at] = mem[p].bytes]
    /\ Goto(p, mem[p].next) /\ mem' = [mem EXCEPT ![p].todo = @ \ {mem[p].at}]
    /\ UNCHANGED <<txn, rest>>

-------------------------------------------------------------------------------
(* apply *)

StartApply(p) ==
    /\ pc[p] = "idle"
    /\ applies < MaxApplies /\ applies' = applies + 1
    /\ Goto(p, "check")
    /\ UNCHANGED <<file, txn, mem, undone, raced, edits, crashes>>

\* An applied migration is verified and reported again; one that is not settled
\* is refused.
CheckJournal(p) ==
    /\ pc[p] = "check"
    /\ Goto(p, IF journal.status \in {"none", "rolled_back"} THEN "plan" ELSE "idle")
    /\ UNCHANGED <<file, txn, mem, rest>>

\* The hash of the plan covers every file but the index.
Plan(p) ==
    /\ pc[p] = "plan"
    /\ Goto(p, IF \A q \in Paths \ {Index} : file[q] = Reviewed[q] THEN "read" ELSE "idle")
    /\ UNCHANGED <<file, txn, mem, rest>>

\* The outputs are made from files read again.
ReadContents(p) ==
    /\ pc[p] = "read"
    /\ IF \E q \in Sources \cup References : file[q] = NoFile THEN Throw(p)
       ELSE Goto(p, "copy") /\ mem' = [mem EXCEPT ![p].journal.after = After(file)]
    /\ UNCHANGED <<file, txn, rest>>

\* Another process may have the database open: backlog_index_busy.
CopyIndex(p) ==
    /\ pc[p] = "copy"
    /\ \/ Throw(p)
       \/ /\ Goto(p, "purge")
          /\ mem' = [mem EXCEPT ![p].journal.after[Index] = After(file)[Index]]
    /\ UNCHANGED <<file, txn, rest>>

\* remove_all of the backups and staged files; the journal stays.  Nobody asks if
\* one of them is all that is left of the index.
Purge(p) ==
    /\ pc[p] = "purge" /\ Goto(p, "snapshot")
    /\ backup' = NoFiles /\ stage' = NoFiles
    /\ raced' = IF file[Index] = NoFile THEN raced \cup backup[Index].has ELSE raced
    /\ UNCHANGED <<file, journal, mem, undone, applies, edits, crashes>>

\* What is created must not be there yet; what is replaced or retired must.
Admits(q) ==
    CASE q \in Targets \cup {Alias}      -> file[q] = NoFile
      [] q \in Sources \cup References -> file[q] # NoFile
      [] OTHER                         -> TRUE

\* Operation after operation: the state before it is what the file holds now.  A
\* path that is not admitted or a copy that cannot be written stops it half-way,
\* and so may a death.
Snapshot(p) ==
    /\ pc[p] = "snapshot"
    /\ \/ /\ \A q \in Paths : Admits(q)
          /\ backup' = file /\ stage' = mem[p].journal.after
          /\ WriteJournal(p, [mem[p].journal EXCEPT !.status = "prepared", !.before = file],
                          "drift")
       \/ \E done \in SUBSET {q \in Paths : Admits(q)} :
          /\ backup' = [q \in Paths |-> IF q \in done THEN file[q] ELSE NoFile]
          /\ stage' = [q \in Paths |-> IF q \in done THEN mem[p].journal.after[q] ELSE NoFile]
          /\ Throw(p)
    /\ UNCHANGED <<file, journal, rest>>

CheckDrift(p) ==
    /\ pc[p] = "drift"
    /\ IF file = mem[p].journal.before
       THEN Goto(p, "publish") /\ mem' = [mem EXCEPT ![p].todo = Paths]
       ELSE Throw(p)
    /\ UNCHANGED <<file, txn, rest>>

\* Every file is compared once more.  A staged file that is gone cannot be read.
Publish(p) ==
    /\ pc[p] = "publish"
    /\ \E q \in mem[p].todo :
        /\ \A r \in mem[p].todo : PublishRank(q) <= PublishRank(r)
        /\ IF file[q] = mem[p].journal.before[q] /\ (q \in Sources \/ stage[q] # NoFile)
           THEN Write(p, q, IF q \in Sources THEN NoFile ELSE stage[q])
           ELSE Throw(p)
    /\ UNCHANGED <<file, txn, rest>>

CheckWritten(p) ==
    /\ pc[p] = "publish" /\ mem[p].todo = {}
    /\ IF file = mem[p].journal.after
       THEN WriteJournal(p, [mem[p].journal EXCEPT !.status = "applied"], "verify")
       ELSE Throw(p)
    /\ UNCHANGED <<file, txn, rest>>

\* verify, and the answer "applied".
Verify(p) ==
    /\ pc[p] = "verify"
    /\ IF journal.status = "applied" /\ file = journal.after THEN Leave(p) ELSE Throw(p)
    /\ UNCHANGED <<file, txn, rest>>

-------------------------------------------------------------------------------
(* restore_before_state: by the exception handler of apply, and by rollback. *)

Begin_Unchecked(p, automatic) ==
    /\ undone' = TRUE /\ Goto(p, "restore")
    /\ mem' = [mem EXCEPT ![p] = [NoMemory EXCEPT
           !.journal = journal, !.automatic = automatic, !.todo = Paths]]

Begin_ClosesAnyway(p, automatic) ==
    IF \A q \in Paths : file[q] \in {journal.before[q], journal.after[q]}
    THEN /\ undone' = TRUE /\ Goto(p, "restore")
         /\ mem' = [mem EXCEPT ![p] = [NoMemory EXCEPT
                !.journal = journal, !.automatic = automatic, !.todo = Paths]]
    ELSE UNCHANGED undone /\ WriteJournal(p, [journal EXCEPT !.status = "rolled_back"], "idle")

\* A file that is neither as before nor as after stops the whole recovery, before
\* anything is restored.
Begin(p, automatic) ==
    IF \A q \in Paths : file[q] \in {journal.before[q], journal.after[q]}
    THEN /\ undone' = TRUE /\ Goto(p, "restore")
         /\ mem' = [mem EXCEPT ![p] = [NoMemory EXCEPT
                !.journal = journal, !.automatic = automatic, !.todo = Paths]]
    ELSE /\ UNCHANGED undone
         /\ IF automatic
            THEN WriteJournal(p, [journal EXCEPT !.status = "recovery_required"], "idle")
            ELSE Leave(p)

\* Whatever journal is there is the one that is undone, a rolled back one too.
Handler(p) ==
    /\ pc[p] = "handler"
    /\ IF journal.status # "none" THEN Begin(p, TRUE) ELSE Leave(p) /\ UNCHANGED undone
    /\ UNCHANGED <<file, txn, raced, applies, edits, crashes>>

StartRollback_AppliedOnly(p) ==
    /\ pc[p] = "idle" /\ journal.status \in {"applied", "recovery_required"}
    /\ Begin(p, FALSE)
    /\ UNCHANGED <<file, txn, raced, applies, edits, crashes>>

StartRollback(p) ==
    /\ pc[p] = "idle" /\ journal.status \notin {"none", "rolled_back"}
    /\ Begin(p, FALSE)
    /\ UNCHANGED <<file, txn, raced, applies, edits, crashes>>

\* Every file is written again, also one that is as it was.  The order is that of
\* the paths, in which a source may come before or after its target: any order.
Restore(p) ==
    /\ pc[p] = "restore"
    /\ \E q \in mem[p].todo :
        LET before == mem[p].journal.before[q] IN
        IF before # NoFile /\ backup[q] # before
        THEN /\ mem' = [mem EXCEPT ![p].todo = @ \ {q}, ![p].failed = TRUE]
             /\ UNCHANGED pc
        ELSE Write(p, q, before)
    /\ UNCHANGED <<file, txn, rest>>

\* A rollback that failed leaves the journal as it is.
FinishRecovery(p) ==
    /\ pc[p] = "restore" /\ mem[p].todo = {}
    /\ IF ~mem[p].failed /\ file = mem[p].journal.before
       THEN WriteJournal(p, [mem[p].journal EXCEPT !.status = "rolled_back"], "idle")
       ELSE IF mem[p].automatic
       THEN WriteJournal(p, [mem[p].journal EXCEPT !.status = "recovery_required"], "idle")
       ELSE Leave(p)
    /\ UNCHANGED <<file, txn, rest>>

-------------------------------------------------------------------------------
(* What else happens. *)

\* No comparison of process p can notice a change of q that is made now.
Unseen(p, q) ==
    \/ pc[p] \in {"purge", "snapshot"} \/ (pc[p] = "copy" /\ q # Index)
    \/ pc[p] \in {"unlink", "rename"} /\ mem[p].at = q
    \/ (pc[p] = "restore" \/ mem[p].next = "restore") /\ q \in mem[p].todo

\* Another command changes a file in place; the index changes with any item.
Edit(q) ==
    /\ edits < MaxEdits /\ file[q] # NoFile /\ q # Alias
    /\ file' = [file EXCEPT ![q].has = @ \cup {edits + 1}]
    /\ edits' = edits + 1
    /\ raced' = IF \E p \in Procs : Unseen(p, q) THEN raced \cup {edits + 1} ELSE raced
    /\ UNCHANGED <<txn, pc, mem, undone, applies, crashes>>

Crash(p) ==
    /\ pc[p] # "idle" /\ crashes < MaxCrashes
    /\ crashes' = crashes + 1
    /\ Leave(p)
    /\ UNCHANGED <<file, txn, undone, raced, applies, edits>>

\* A command that was started goes on.
Run(p) ==
    \/ UnlinkJournal(p) \/ RenameJournal(p) \/ Unlink(p) \/ Rename(p)
    \/ CheckJournal(p) \/ Plan(p) \/ ReadContents(p) \/ CopyIndex(p) \/ Purge(p) \/ Snapshot(p)
    \/ CheckDrift(p) \/ Publish(p) \/ CheckWritten(p) \/ Verify(p)
    \/ Handler(p) \/ Restore(p) \/ FinishRecovery(p)

Next ==
    \/ \E p \in Procs : StartApply(p) \/ StartRollback(p) \/ Run(p) \/ Crash(p)
    \/ \E q \in Paths : Edit(q)

\* A running command gets on, and the operator repeats the rollback that an
\* unsettled journal asks for.
Spec ==
    /\ Init /\ [][Next]_vars
    /\ \A p \in Procs : WF_vars(Run(p)) /\ WF_vars(StartRollback(p))

-------------------------------------------------------------------------------
TypeOK ==
    /\ file \in [Paths -> Contents] /\ journal \in Journal
    /\ backup \in [Paths -> Contents] /\ stage \in [Paths -> Contents]
    /\ pc \in [Procs -> Steps] /\ mem \in [Procs -> Memory]
    /\ undone \in BOOLEAN /\ raced \subseteq 1..MaxEdits
    /\ applies \in 0..MaxApplies /\ edits \in 0..MaxEdits /\ crashes \in 0..MaxCrashes

\* No write of another command is lost, be it to an item that moves, a file that
\* mentions it or the index that all products share: it is in a file or in a
\* backup, unless no comparison could notice it, or the index was lost in a death
\* and the next apply removed its backup.
NothingLost ==
    \A n \in (1..edits) \ raced : \E q \in Paths : n \in file[q].has \cup backup[q].has

\* While nothing is being restored, an old ID leads to its item at every moment:
\* the item is at its old path, or at the new one and the alias map tells where.
OldIdResolves ==
    undone \/ \A m \in Moved :
        file[Source(m)] # NoFile \/ (file[Target(m)] # NoFile /\ file[Alias] # NoFile)

\* What the journal reports as settled is what the files are, up to writes made
\* since.
StatusIsTrue ==
    LET Holds(settled) == \A q \in Paths :
            file[q].form = settled[q].form /\ settled[q].has \subseteq file[q].has
    IN
    /\ journal.status = "applied" => Holds(journal.after)
    /\ journal.status = "rolled_back" => Holds(journal.before)

\* So it is, but while files are restored: a restoration is not recorded before it
\* is over.
StatusTellsFiles == undone \/ StatusIsTrue

Idle == \A p \in Procs : pc[p] = "idle"

\* What an interrupted command leaves half done is never reported as settled: the
\* code does not keep this, since a rollback writes the journal only at its end.
InterruptionShows == Idle => StatusIsTrue

\* What rollback refuses for ever: the journal was lost with a process that had
\* removed it, a file is neither as before nor as after, or a backup is gone.
Stuck ==
    /\ Idle
    /\ \/ journal.status = "none"
       \/ \E q \in Paths : \/ file[q] \notin {journal.before[q], journal.after[q]}
                           \/ journal.before[q] \notin {NoFile, backup[q]}

RecoverySettles ==
    journal.status \in Unsettled ~> journal.status \in {"applied", "rolled_back"} \/ Stuck
===============================================================================
