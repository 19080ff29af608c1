--------------------------- MODULE PrefixMigration ---------------------------
(***************************************************************************)
(* Giving a product a new display prefix: the apply and rollback commands of *)
(* one reviewed plan, which rewrites, renames and retires files one by one   *)
(* and keeps a journal, backups and staged outputs in a transaction          *)
(* directory.  There is no lock.  An action is one access to what processes  *)
(* share; the files of one directory that no reader tells apart are written  *)
(* together, and a validated load of the evidence is one access.             *)
(*                                                                         *)
(* An operator named X_Something stands before X as a plausible mistake in   *)
(* it; nothing uses it, and each is caught by one of the properties.         *)
(***************************************************************************)
EXTENDS Naturals

CONSTANTS
    Procs, Agents, AgentOf, \* processes and the --agent each was given
    InPlace,                \* files whose references are rewritten
    Sources, TargetOf,      \* files that are renamed, and their new paths
    Config, Receipt,        \* the shared registry and the migration receipt
    MaxApplies,             \* bound: apply commands
    MaxEdits, MaxCrashes    \* bounds: edits by other commands, deaths

Targets == {TargetOf[s] : s \in Sources}
Originals == InPlace \cup Sources \cup {Config}
Paths == Originals \cup Targets \cup {Receipt}
SourceOf(t) == CHOOSE s \in Sources : TargetOf[s] = t

ASSUME PathsAssumption ==
    /\ TargetOf \in [Sources -> Targets]
    /\ \A s1, s2 \in Sources : TargetOf[s1] = TargetOf[s2] => s1 = s2
    /\ InPlace \cap Sources = {} /\ Targets \cap (InPlace \cup Sources) = {}
    /\ Config \notin InPlace \cup Sources \cup Targets
    /\ Receipt \notin InPlace \cup Sources \cup Targets \cup {Config}
ASSUME BoundsAssumption ==
    /\ Agents # {} /\ AgentOf \in [Procs -> Agents]
    /\ MaxApplies \in Nat /\ MaxEdits \in Nat /\ MaxCrashes \in Nat

VARIABLES
    file,           \* what each path of the backlog holds
    journal,        \* journal.json of the transaction
    backup, stage,  \* its backup and staged bytes, by path of the operation
    pc, mem,        \* where each process is, and its locals
    raced,          \* history: files edited between a comparison and its write
    applies, edits, crashes

vars == <<file, journal, backup, stage, pc, mem, raced, applies, edits, crashes>>
txn == <<journal, backup, stage>>
rest == <<raced, applies, edits, crashes>>

\* "old": as reviewed; "edited": changed since, under the old prefix; "new",
\* "renewed": the rewritten forms of those two; "amended": changed afterwards;
\* "receipt": written by the apply of that number.
Kinds == {"none", "old", "edited", "new", "renewed", "amended", "receipt"}
Bytes == [kind: Kinds, by: 0..MaxApplies]
Plain(kind) == [kind |-> kind, by |-> 0]
NoFile == Plain("none")
ReceiptOf(n) == [kind |-> "receipt", by |-> n]
Rewritten(b) == IF b.kind = "old" THEN Plain("new") ELSE Plain("renewed")
Changed(b) == IF b.kind \in {"old", "edited"} THEN Plain("edited") ELSE Plain("amended")

Reviewed == [q \in Paths |-> IF q \in Originals THEN Plain("old") ELSE NoFile]
NoFiles == [q \in Paths |-> NoFile]

Statuses == {"none", "prepared", "applying", "applied", "recovery_required", "rolled_back"}
Attempts == {"none", "in_progress", "failed", "completed"}

\* The earlier entries of rollback_attempts[] are all failed; stranger says that
\* an automatic one was not by the agent of the apply.
Journal == [status: Statuses, apply: 0..MaxApplies, agent: Agents, before: [Paths -> Bytes],
            attempt: Attempts, stranger: BOOLEAN]
Unsettled == {"prepared", "applying", "recovery_required"}

\* What an operation of journal j leaves behind.
After(j) == [q \in Paths |->
    CASE q \in Sources -> NoFile
      [] q \in Targets -> Rewritten(j.before[SourceOf(q)])
      [] q = Receipt   -> ReceiptOf(j.apply)
      [] OTHER         -> Rewritten(j.before[q])]

\* No journal.json; the agent of this record means nothing.
NoJournal == [status |-> "none", apply |-> 0, agent |-> CHOOSE a \in Agents : TRUE,
              before |-> NoFiles, attempt |-> "none", stranger |-> FALSE]

Steps == {"idle", "check", "purge", "snapshot", "read", "stage", "drift", "publish", "verify",
          "handler", "restore", "unlink", "rename", "unlink journal", "rename journal"}

\* A process has operations to do and writes bytes to one path at a time; then
\* or after a write of the journal it goes to the next step.
Memory == [journal: Journal, todo: SUBSET Paths, at: Paths, bytes: Bytes, failed: BOOLEAN,
           next: Steps]
NoMemory == [journal |-> NoJournal, todo |-> {}, at |-> Receipt, bytes |-> NoFile,
             failed |-> FALSE, next |-> "idle"]

\* publish_kind, kind after kind, the retirement, and the receipt at the end; a
\* rollback goes back through the journal.  The order of the other operations
\* is that of the items in the plan: any order.
PublishRank(q) == CASE q \in Targets -> 1 [] q \in InPlace -> 2 [] q = Config -> 3
                    [] q \in Sources -> 4 [] OTHER -> 5
RestoreRank(q) == CASE q = Receipt -> 1 [] q = Config -> 2 [] OTHER -> 3

Init ==
    /\ file = Reviewed /\ journal = NoJournal /\ backup = NoFiles /\ stage = NoFiles
    /\ pc = [p \in Procs |-> "idle"] /\ mem = [p \in Procs |-> NoMemory]
    /\ raced = {} /\ applies = 0 /\ edits = 0 /\ crashes = 0

Goto(p, step) == pc' = [pc EXCEPT ![p] = step]
Leave(p) == Goto(p, "idle") /\ mem' = [mem EXCEPT ![p] = NoMemory]
Throw(p) == Goto(p, "handler") /\ mem' = [mem EXCEPT ![p] = NoMemory]

\* load_validated_journal: the config can be read, no automatic attempt has the
\* wrong agent, and both receipts are those the status of the journal calls for.
Valid(j) ==
    /\ file[Config] # NoFile /\ ~j.stranger
    /\ CASE j.status = "applied" -> file[Receipt] = ReceiptOf(j.apply)
         [] j.status = "rolled_back" -> file[Receipt] = NoFile
         [] OTHER -> file[Receipt] \in {NoFile, ReceiptOf(j.apply)}
    /\ j.status # "rolled_back" => stage[Receipt] = ReceiptOf(j.apply)

-------------------------------------------------------------------------------
(* Files: each is compared, removed if it exists, and written again. *)

\* write_file_atomic of the journal: the old one goes first.
WriteJournal(p, j, next) ==
    /\ Goto(p, "unlink journal")
    /\ mem' = [mem EXCEPT ![p].journal = j, ![p].next = next]

UnlinkJournal(p) ==
    /\ pc[p] = "unlink journal" /\ Goto(p, "rename journal")
    /\ journal' = NoJournal
    /\ UNCHANGED <<file, backup, stage, mem, rest>>

RenameJournal(p) ==
    /\ pc[p] = "rename journal"
    /\ journal' = mem[p].journal
    /\ IF mem[p].next = "idle" THEN Leave(p) ELSE Goto(p, mem[p].next) /\ UNCHANGED mem
    /\ UNCHANGED <<file, backup, stage, rest>>

\* The comparison is over, and bytes is what path q is to hold.
Write(p, q, bytes) ==
    /\ Goto(p, "unlink")
    /\ mem' = [mem EXCEPT ![p].at = q, ![p].bytes = bytes, ![p].next = pc[p]]

Unlink(p) ==
    /\ pc[p] = "unlink"
    /\ file' = [file EXCEPT ![mem[p].at] = NoFile]
    /\ IF mem[p].bytes # NoFile THEN Goto(p, "rename") /\ UNCHANGED mem
       ELSE Goto(p, mem[p].next) /\ mem' = [mem EXCEPT ![p].todo = @ \ {mem[p].at}]
    /\ UNCHANGED <<txn, rest>>

Rename(p) ==
    /\ pc[p] = "rename"
    /\ file' = [file EXCEPT ![mem[p].at] = mem[p].bytes]
    /\ Goto(p, mem[p].next) /\ mem' = [mem EXCEPT ![p].todo = @ \ {mem[p].at}]
    /\ UNCHANGED <<txn, rest>>

-------------------------------------------------------------------------------
(* apply *)

StartApply(p) ==
    /\ pc[p] = "idle" /\ file[Config] # NoFile
    /\ applies < MaxApplies /\ applies' = applies + 1
    /\ Goto(p, "check") /\ mem' = [mem EXCEPT ![p].journal.apply = applies + 1]
    /\ UNCHANGED <<file, txn, raced, edits, crashes>>

CheckJournal_PurgesAny(p) ==
    /\ pc[p] = "check"
    /\ Goto(p, CASE journal.status = "none" -> "snapshot"
                 [] journal.status = "applied" -> "idle"
                 [] OTHER -> "purge")
    /\ UNCHANGED <<file, txn, mem, rest>>

\* An applied migration is verified and reported again, without a write.
CheckJournal(p) ==
    /\ pc[p] = "check"
    /\ IF journal.status # "none" /\ ~Valid(journal) THEN Throw(p)
       ELSE /\ Goto(p, CASE journal.status = "none" -> "snapshot"
                         [] journal.status = "rolled_back" -> "purge"
                         [] OTHER -> "idle")
            /\ UNCHANGED mem
    /\ UNCHANGED <<file, txn, rest>>

\* remove_all of the transaction directory.
Purge(p) ==
    /\ pc[p] = "purge" /\ Goto(p, "snapshot")
    /\ journal' = NoJournal /\ backup' = NoFiles /\ stage' = NoFiles
    /\ UNCHANGED <<file, mem, rest>>

\* snapshot_revision: the hash of the plan is that of the reviewed one only when
\* every file is as it was then.
Snapshot(p) ==
    /\ pc[p] = "snapshot"
    /\ Goto(p, IF file = Reviewed THEN "read" ELSE "idle")
    /\ UNCHANGED <<file, txn, mem, rest>>

\* The rest of build_prepared reads the files again.  A file that is gone is an
\* exception; one already migrated changes the plan; an edited one does not.
ReadContents(p) ==
    /\ pc[p] = "read"
    /\ IF \E q \in Originals : file[q] = NoFile THEN Throw(p)
       ELSE IF \A q \in Paths : IF q \in Originals THEN file[q].kind \in {"old", "edited"}
                                ELSE file[q] = NoFile
       THEN /\ Goto(p, "stage")
            /\ mem' = [mem EXCEPT ![p].journal =
                   [@ EXCEPT !.status = "prepared", !.agent = AgentOf[p], !.before = file]]
       ELSE Leave(p)
    /\ UNCHANGED <<file, txn, rest>>

StageFiles(p) ==
    /\ pc[p] = "stage"
    /\ backup' = mem[p].journal.before /\ stage' = After(mem[p].journal)
    /\ WriteJournal(p, mem[p].journal, "drift")
    /\ UNCHANGED <<file, journal, rest>>

CheckDrift(p) ==
    /\ pc[p] = "drift"
    /\ IF file = mem[p].journal.before
       THEN /\ Goto(p, "unlink journal")
            /\ mem' = [mem EXCEPT ![p].journal.status = "applying", ![p].todo = Paths,
                                  ![p].next = "publish"]
       ELSE Throw(p)
    /\ UNCHANGED <<file, txn, rest>>

\* publish_kind and the retirement of sources; a staged file that was purged
\* cannot be read.
Publish(p) ==
    /\ pc[p] = "publish"
    /\ \E q \in mem[p].todo :
        /\ \A r \in mem[p].todo : PublishRank(q) <= PublishRank(r)
        /\ IF file[q] = mem[p].journal.before[q] /\ (q \in Sources \/ stage[q] # NoFile)
           THEN Write(p, q, IF q \in Sources THEN NoFile ELSE stage[q])
           ELSE Throw(p)
    /\ UNCHANGED <<file, txn, rest>>

CheckWritten(p) ==
    /\ pc[p] = "publish" /\ mem[p].todo = {}
    /\ IF file = After(mem[p].journal)
       THEN WriteJournal(p, [mem[p].journal EXCEPT !.status = "applied"], "verify")
       ELSE Throw(p)
    /\ UNCHANGED <<file, txn, rest>>

\* verify, and the answer "applied".
Verify(p) ==
    /\ pc[p] = "verify"
    /\ IF journal.status = "applied" /\ Valid(journal) /\ file = After(journal)
       THEN Leave(p) ELSE Throw(p)
    /\ UNCHANGED <<file, txn, rest>>

-------------------------------------------------------------------------------
(* Recovery: by the exception handler of apply, and by rollback. *)

\* append_rollback_attempt: one that was interrupted counts as failed.
Attempted(p, j, automatic) ==
    [j EXCEPT !.status = "recovery_required", !.attempt = "in_progress",
              !.stranger = @ \/ (automatic /\ j.agent # AgentOf[p])]

Recover(p, automatic) ==
    /\ Goto(p, "unlink journal")
    /\ mem' = [mem EXCEPT ![p] = [NoMemory EXCEPT
           !.journal = Attempted(p, journal, automatic),
           !.todo = Paths, !.next = "restore"]]

\* Whatever journal is there now is the one that is rolled back.
Handler(p) ==
    /\ pc[p] = "handler"
    /\ IF journal.status \notin {"none", "rolled_back"} /\ Valid(journal)
       THEN Recover(p, TRUE) ELSE Leave(p)
    /\ UNCHANGED <<file, txn, rest>>

StartRollback_OnceOnly(p) ==
    /\ pc[p] = "idle"
    /\ journal.status \notin {"none", "rolled_back"} /\ Valid(journal)
    /\ journal.attempt # "in_progress"
    /\ Recover(p, FALSE)
    /\ UNCHANGED <<file, txn, rest>>

StartRollback(p) ==
    /\ pc[p] = "idle"
    /\ journal.status \notin {"none", "rolled_back"} /\ Valid(journal)
    /\ Recover(p, FALSE)
    /\ UNCHANGED <<file, txn, rest>>

Restore_Unchecked(p) ==
    /\ pc[p] = "restore"
    /\ \E q \in mem[p].todo :
        /\ \A r \in mem[p].todo : RestoreRank(q) <= RestoreRank(r)
        /\ IF file[q] = mem[p].journal.before[q]
           THEN mem' = [mem EXCEPT ![p].todo = @ \ {q}] /\ UNCHANGED pc
           ELSE Write(p, q, mem[p].journal.before[q])
    /\ UNCHANGED <<file, txn, rest>>

\* restore_before_state: an operation that is undone is passed over, one that is
\* neither done nor undone is a failure, and so is one without its backup.
Restore(p) ==
    /\ pc[p] = "restore"
    /\ \E q \in mem[p].todo :
        LET before == mem[p].journal.before[q]
            after == After(mem[p].journal)[q]
            undone == file[q] = before
            drifted == ~undone /\ (file[q] # after \/ backup[q] # before)
        IN
        /\ \A r \in mem[p].todo : RestoreRank(q) <= RestoreRank(r)
        /\ IF undone \/ drifted
           THEN /\ mem' = [mem EXCEPT ![p].todo = @ \ {q}, ![p].failed = @ \/ drifted]
                /\ UNCHANGED pc
           ELSE Write(p, q, before)
    /\ UNCHANGED <<file, txn, rest>>

FinishRecovery_Always(p) ==
    /\ pc[p] = "restore" /\ mem[p].todo = {}
    /\ WriteJournal(p, [mem[p].journal EXCEPT !.status = "rolled_back", !.attempt = "completed"],
                    "idle")
    /\ UNCHANGED <<file, txn, rest>>

FinishRecovery(p) ==
    /\ pc[p] = "restore" /\ mem[p].todo = {}
    /\ WriteJournal(p, IF mem[p].failed
                       THEN [mem[p].journal EXCEPT !.attempt = "failed"]
                       ELSE [mem[p].journal EXCEPT !.status = "rolled_back",
                                                   !.attempt = "completed"],
                    "idle")
    /\ UNCHANGED <<file, txn, rest>>

-------------------------------------------------------------------------------
(* What else happens. *)

\* Another command or an editor changes a file in place.
Edit(q) ==
    /\ edits < MaxEdits /\ q # Receipt /\ file[q].kind \in {"old", "new", "renewed"}
    /\ file' = [file EXCEPT ![q] = Changed(@)]
    /\ edits' = edits + 1
    /\ raced' = IF \E p \in Procs : pc[p] \in {"unlink", "rename"} /\ mem[p].at = q
                THEN raced \cup {q} ELSE raced
    /\ UNCHANGED <<txn, pc, mem, applies, crashes>>

Crash(p) ==
    /\ pc[p] # "idle" /\ crashes < MaxCrashes
    /\ crashes' = crashes + 1
    /\ Leave(p)
    /\ UNCHANGED <<file, txn, raced, applies, edits>>

\* A command that was started goes on.
Run(p) ==
    \/ UnlinkJournal(p) \/ RenameJournal(p) \/ Unlink(p) \/ Rename(p)
    \/ CheckJournal(p) \/ Purge(p) \/ Snapshot(p) \/ ReadContents(p) \/ StageFiles(p)
    \/ CheckDrift(p) \/ Publish(p) \/ CheckWritten(p) \/ Verify(p)
    \/ Handler(p) \/ Restore(p) \/ FinishRecovery(p)

Next ==
    \/ \E p \in Procs : StartApply(p) \/ StartRollback(p) \/ Run(p) \/ Crash(p)
    \/ \E q \in Paths : Edit(q)

\* A running command gets on, and the operator repeats the rollback that an
\* unsettled journal asks for.
Spec ==
    /\ Init /\ [][Next]_vars
    /\ \A p \in Procs : WF_vars(Run(p)) /\ WF_vars(StartRollback(p))

-------------------------------------------------------------------------------
TypeOK ==
    /\ file \in [Paths -> Bytes] /\ journal \in Journal
    /\ backup \in [Paths -> Bytes] /\ stage \in [Paths -> Bytes]
    /\ pc \in [Procs -> Steps] /\ mem \in [Procs -> Memory]
    /\ raced \subseteq Paths
    /\ applies \in 0..MaxApplies /\ edits \in 0..MaxEdits /\ crashes \in 0..MaxCrashes

Idle == \A p \in Procs : pc[p] = "idle"
Unmigrated == {"old", "edited"}

\* The bytes a file had before the migration are in the file or in its backup.
\* This holds for commands that come one after another.
BytesRecoverable ==
    \A q \in Originals : file[q].kind \in Unmigrated \/ backup[q].kind \in Unmigrated

\* What the journal reports is what the files are, up to edits made since.
StatusTellsFiles ==
    \A q \in Paths :
        /\ journal.status \in {"prepared", "rolled_back"} =>
               file[q] = journal.before[q] \/ file[q].kind = "edited"
        /\ journal.status = "applied" =>
               file[q] = After(journal)[q] \/ file[q].kind = "amended"

\* No edit is overwritten unless it came between the comparison of its file and
\* the write, or the edited bytes are in the backup.
EditsKept ==
    [][\A q \in Paths :
          file[q].kind \in {"edited", "amended"} /\ file'[q].kind \notin {"edited", "amended"} =>
              q \in raced \/ backup[q] = file[q]]_vars

\* What no rollback of the tool can undo: the journal was lost with a process
\* that had removed it, or a file is neither as before nor as after.
Stuck ==
    /\ Idle
    /\ \/ journal.status = "none"
       \/ \E q \in Paths : file[q] \notin {journal.before[q], After(journal)[q]}

RecoverySettles ==
    journal.status \in Unsettled ~> journal.status \in {"applied", "rolled_back"} \/ Stuck
===============================================================================
