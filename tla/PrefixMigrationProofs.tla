------------------------ MODULE PrefixMigrationProofs ------------------------
(***************************************************************************)
(* Proofs about PrefixMigration: types for any processes, and for commands  *)
(* that run one at a time, with any deaths and edits, that no bytes of the   *)
(* product from before the migration are lost, that the journal tells what   *)
(* the files are, and that the edits of others are kept.                     *)
(***************************************************************************)
EXTENDS PrefixMigration, TLAPS

\* The parts of a state that one action may leave alone.
LocalsOK == pc' \in [Procs -> Steps] /\ mem' \in [Procs -> Memory]
FileOK == file' \in [Paths -> Bytes]
TxnOK == journal' \in Journal /\ backup' \in [Paths -> Bytes] /\ stage' \in [Paths -> Bytes]
RestOK == /\ raced' \subseteq Paths /\ applies' \in 0..MaxApplies
          /\ edits' \in 0..MaxEdits /\ crashes' \in 0..MaxCrashes

LEMMA KindsOK ==
    /\ NoFile \in Bytes /\ Reviewed \in [Paths -> Bytes] /\ NoFiles \in [Paths -> Bytes]
    /\ \A b \in Bytes : Rewritten(b) \in Bytes /\ Changed(b) \in Bytes
    /\ \A n \in 0..MaxApplies : ReceiptOf(n) \in Bytes
  <1>1. \A kind \in Kinds : Plain(kind) \in Bytes
    BY BoundsAssumption DEF Plain, Bytes
  <1>2. NoFile \in Bytes /\ Plain("old") \in Bytes
    BY <1>1 DEF NoFile, Kinds
  <1>3. Reviewed \in [Paths -> Bytes] /\ NoFiles \in [Paths -> Bytes]
    BY <1>2 DEF Reviewed, NoFiles
  <1>4. \A b \in Bytes : Rewritten(b) \in Bytes /\ Changed(b) \in Bytes
    BY <1>1 DEF Rewritten, Changed, Kinds
  <1>5. \A n \in 0..MaxApplies : ReceiptOf(n) \in Bytes
    BY DEF ReceiptOf, Bytes, Kinds
  <1> QED BY <1>2, <1>3, <1>4, <1>5

LEMMA EmptyOK == NoJournal \in Journal /\ NoMemory \in Memory
  <1>1. (CHOOSE a \in Agents : TRUE) \in Agents
    BY BoundsAssumption
  <1>2. NoJournal \in Journal
    BY <1>1, KindsOK, BoundsAssumption DEF NoJournal, Journal, Statuses, Attempts
  <1>3. Receipt \in Paths /\ {} \in SUBSET Paths
    BY DEF Paths
  <1> QED BY <1>2, <1>3, KindsOK DEF NoMemory, Memory, Steps

LEMMA AfterOK ==
    ASSUME NEW j \in Journal PROVE After(j) \in [Paths -> Bytes]
  <1>1. \A q \in Paths : j.before[q] \in Bytes /\ j.apply \in 0..MaxApplies
    BY DEF Journal
  <1>2. \A t \in Targets : SourceOf(t) \in Paths
    BY DEF Targets, SourceOf, Paths, Originals
  <1> SUFFICES ASSUME NEW q \in Paths
               PROVE  (CASE q \in Sources -> NoFile
                         [] q \in Targets -> Rewritten(j.before[SourceOf(q)])
                         [] q = Receipt   -> ReceiptOf(j.apply)
                         [] OTHER         -> Rewritten(j.before[q])) \in Bytes
    BY DEF After
  <1> QED BY <1>1, <1>2, KindsOK

LEMMA GotoOK ==
    ASSUME TypeOK, NEW p \in Procs, NEW step \in Steps, Goto(p, step)
    PROVE  pc' \in [Procs -> Steps]
  BY DEF TypeOK, Goto

LEMMA ForgetOK ==
    ASSUME TypeOK, NEW p \in Procs, Leave(p) \/ Throw(p) PROVE LocalsOK
  <1>1. {"idle", "handler"} \subseteq Steps
    BY DEF Steps
  <1>2. pc' \in [Procs -> Steps]
    BY <1>1, GotoOK DEF Leave, Throw
  <1>3. mem' \in [Procs -> Memory]
    BY EmptyOK DEF Leave, Throw, TypeOK
  <1> QED BY <1>2, <1>3 DEF LocalsOK

LEMMA LocalTypes ==
    ASSUME TypeOK, NEW p \in Procs
    PROVE  /\ mem[p] \in Memory /\ mem[p].journal \in Journal /\ mem[p].bytes \in Bytes
           /\ mem[p].next \in Steps /\ pc[p] \in Steps /\ mem[p].at \in Paths
           /\ mem[p].todo \subseteq Paths /\ mem[p].failed \in BOOLEAN
  BY DEF TypeOK, Memory

LEMMA WriteJournalOK ==
    ASSUME TypeOK, NEW p \in Procs, NEW j \in Journal, NEW next \in Steps,
           WriteJournal(p, j, next)
    PROVE  LocalsOK
  <1>1. pc' \in [Procs -> Steps]
    BY GotoOK DEF WriteJournal, Steps
  <1>2. mem' \in [Procs -> Memory]
    BY DEF WriteJournal, TypeOK, Memory
  <1> QED BY <1>1, <1>2 DEF LocalsOK

LEMMA WriteOK ==
    ASSUME TypeOK, NEW p \in Procs, NEW q \in Paths, NEW bytes \in Bytes, Write(p, q, bytes)
    PROVE  LocalsOK
  <1>1. pc' \in [Procs -> Steps]
    BY GotoOK DEF Write, Steps
  <1>2. [mem[p] EXCEPT !.at = q, !.bytes = bytes, !.next = pc[p]] \in Memory
    BY LocalTypes DEF Memory
  <1>3. mem' = [mem EXCEPT ![p] = [mem[p] EXCEPT !.at = q, !.bytes = bytes, !.next = pc[p]]]
    BY DEF Write, TypeOK
  <1>4. mem' \in [Procs -> Memory]
    BY <1>2, <1>3 DEF TypeOK
  <1> QED BY <1>1, <1>4 DEF LocalsOK

LEMMA RecoverOK ==
    ASSUME TypeOK, NEW p \in Procs, NEW automatic \in BOOLEAN, Recover(p, automatic)
    PROVE  LocalsOK
  <1>1. journal \in Journal
    BY DEF TypeOK
  <1>2. \A b \in BOOLEAN : [journal EXCEPT !.status = "recovery_required",
                                !.attempt = "in_progress", !.stranger = b] \in Journal
    BY <1>1 DEF Journal, Statuses, Attempts
  <1>3. (journal.stranger \/ (automatic /\ journal.agent # AgentOf[p])) \in BOOLEAN
    BY <1>1 DEF Journal
  <1>4. Attempted(p, journal, automatic) \in Journal
    BY <1>2, <1>3 DEF Attempted
  <1>5. [NoMemory EXCEPT !.journal = Attempted(p, journal, automatic), !.todo = Paths,
                         !.next = "restore"] \in Memory
    BY <1>4, EmptyOK DEF Memory, Steps
  <1>6. mem' \in [Procs -> Memory]
    BY <1>5 DEF Recover, TypeOK
  <1>7. pc' \in [Procs -> Steps]
    BY GotoOK DEF Recover, Steps
  <1> QED BY <1>6, <1>7 DEF LocalsOK

\* Every step of a running command keeps the types.
LEMMA RunTypes ==
    ASSUME TypeOK, NEW p \in Procs, Run(p) PROVE LocalsOK /\ FileOK /\ TxnOK /\ RestOK
  <1> USE DEF rest, txn
  <1>0. /\ file \in [Paths -> Bytes] /\ journal \in Journal /\ backup \in [Paths -> Bytes]
        /\ stage \in [Paths -> Bytes] /\ pc \in [Procs -> Steps] /\ mem \in [Procs -> Memory]
    BY DEF TypeOK
  <1>r. UNCHANGED rest => RestOK
    BY DEF RestOK, TypeOK
  <1>f. UNCHANGED file => FileOK
    BY <1>0 DEF FileOK
  <1>t. UNCHANGED txn => TxnOK
    BY <1>0 DEF TxnOK
  <1>l. ASSUME NEW step \in Steps, Goto(p, step), UNCHANGED mem PROVE LocalsOK
    BY <1>l, <1>0, GotoOK DEF LocalsOK
  <1>1. CASE UnlinkJournal(p)
    BY <1>1, <1>0, <1>r, <1>f, <1>l, EmptyOK DEF UnlinkJournal, TxnOK, Steps
  <1>2. CASE RenameJournal(p)
    BY <1>2, <1>0, <1>r, <1>f, <1>l, LocalTypes, ForgetOK DEF RenameJournal, TxnOK
  <1>3. CASE Unlink(p)
    <2>1. FileOK
      BY <1>3, <1>0, KindsOK DEF Unlink, FileOK
    <2>2. CASE mem[p].bytes # NoFile
      BY <2>1, <2>2, <1>3, <1>r, <1>t, <1>l DEF Unlink, Steps
    <2>3. CASE mem[p].bytes = NoFile
      <3>1. mem' \in [Procs -> Memory]
        BY <2>3, <1>3, <1>0 DEF Unlink, Memory
      <3>2. pc' \in [Procs -> Steps]
        BY <2>3, <1>3, LocalTypes, GotoOK DEF Unlink
      <3> QED BY <3>1, <3>2, <2>1, <1>3, <1>r, <1>t DEF Unlink, LocalsOK
    <2> QED BY <2>2, <2>3
  <1>4. CASE Rename(p)
    <2>1. FileOK
      BY <1>4, <1>0, LocalTypes DEF Rename, FileOK
    <2>2. mem' \in [Procs -> Memory]
      BY <1>4, <1>0 DEF Rename, Memory
    <2>3. pc' \in [Procs -> Steps]
      BY <1>4, LocalTypes, GotoOK DEF Rename
    <2> QED BY <2>1, <2>2, <2>3, <1>4, <1>r, <1>t DEF Rename, LocalsOK
  <1>5. CASE CheckJournal(p)
    <2>1. {"snapshot", "purge", "idle"} \subseteq Steps
      BY DEF Steps
    <2>2. LocalsOK
      BY <2>1, <1>5, <1>l, ForgetOK DEF CheckJournal
    <2> QED BY <2>2, <1>5, <1>r, <1>f, <1>t DEF CheckJournal
  <1>6. CASE Purge(p)
    BY <1>6, <1>r, <1>f, <1>l, KindsOK, EmptyOK DEF Purge, TxnOK, Steps
  <1>7. CASE Snapshot(p)
    <2>1. {"read", "idle"} \subseteq Steps
      BY DEF Steps
    <2> QED BY <2>1, <1>7, <1>r, <1>f, <1>t, <1>l DEF Snapshot
  <1>8. CASE ReadContents(p)
    <2>1. UNCHANGED <<file, txn, rest>>
      BY <1>8 DEF ReadContents
    <2>2. CASE Throw(p) \/ Leave(p)
      BY <2>1, <2>2, <1>r, <1>f, <1>t, ForgetOK
    <2>3. CASE /\ Goto(p, "stage")
               /\ mem' = [mem EXCEPT ![p].journal =
                   [@ EXCEPT !.status = "prepared", !.agent = AgentOf[p], !.before = file]]
      <3>1. AgentOf[p] \in Agents
        BY BoundsAssumption
      <3>2. [mem[p].journal EXCEPT !.status = "prepared", !.agent = AgentOf[p], !.before = file]
                \in Journal
        BY <3>1, <1>0, LocalTypes DEF Journal, Statuses
      <3>3. mem' \in [Procs -> Memory]
        BY <3>2, <2>3, <1>0 DEF Memory
      <3>4. pc' \in [Procs -> Steps]
        BY <2>3, GotoOK DEF Steps
      <3> QED BY <3>3, <3>4, <2>1, <1>r, <1>f, <1>t DEF LocalsOK
    <2> QED BY <2>2, <2>3, <1>8 DEF ReadContents
  <1>9. CASE StageFiles(p)
    <2>1. mem[p].journal \in Journal /\ mem[p].journal.before \in [Paths -> Bytes]
      BY LocalTypes DEF Journal
    <2>2. TxnOK
      BY <2>1, <1>9, <1>0, AfterOK DEF StageFiles, TxnOK
    <2>3. LocalsOK
      BY <2>1, <1>9, WriteJournalOK DEF StageFiles, Steps
    <2> QED BY <2>2, <2>3, <1>9, <1>r, <1>f DEF StageFiles
  <1>10. CASE CheckDrift(p)
    <2>1. UNCHANGED <<file, txn, rest>>
      BY <1>10 DEF CheckDrift
    <2>2. CASE Throw(p)
      BY <2>1, <2>2, <1>r, <1>f, <1>t, ForgetOK
    <2>3. CASE /\ Goto(p, "unlink journal")
               /\ mem' = [mem EXCEPT ![p].journal.status = "applying", ![p].todo = Paths,
                                     ![p].next = "publish"]
      <3>1. [mem[p].journal EXCEPT !.status = "applying"] \in Journal
        BY LocalTypes DEF Journal, Statuses
      <3> DEFINE j == [mem[p].journal EXCEPT !.status = "applying"]
      <3>2. mem' = [mem EXCEPT ![p] = [mem[p] EXCEPT !.journal = j, !.todo = Paths,
                                                     !.next = "publish"]]
        BY <2>3, <1>0
      <3> HIDE DEF j
      <3>3. "publish" \in Steps
        BY DEF Steps
      <3>4. [mem[p] EXCEPT !.journal = j, !.todo = Paths, !.next = "publish"] \in Memory
        BY <3>1, <3>3, LocalTypes DEF Memory, j
      <3>5. mem' \in [Procs -> Memory]
        BY <3>2, <3>4, <1>0
      <3>6. pc' \in [Procs -> Steps]
        BY <2>3, GotoOK DEF Steps
      <3> QED BY <3>5, <3>6, <2>1, <1>r, <1>f, <1>t DEF LocalsOK
    <2> QED BY <2>2, <2>3, <1>10 DEF CheckDrift
  <1>11. CASE Publish(p)
    <2>1. PICK q \in mem[p].todo :
            Write(p, q, IF q \in Sources THEN NoFile ELSE stage[q]) \/ Throw(p)
      BY <1>11 DEF Publish
    <2>2. q \in Paths
      BY LocalTypes
    <2>3. (IF q \in Sources THEN NoFile ELSE stage[q]) \in Bytes
      BY <2>2, <1>0, KindsOK
    <2> QED BY <2>1, <2>2, <2>3, <1>11, <1>r, <1>f, <1>t, WriteOK, ForgetOK DEF Publish
  <1>12. CASE CheckWritten(p)
    <2>1. [mem[p].journal EXCEPT !.status = "applied"] \in Journal
      BY LocalTypes DEF Journal, Statuses
    <2>2. "verify" \in Steps
      BY DEF Steps
    <2>3. LocalsOK
      BY <2>1, <2>2, <1>12, WriteJournalOK, ForgetOK DEF CheckWritten
    <2> QED BY <2>3, <1>12, <1>r, <1>f, <1>t DEF CheckWritten
  <1>13. CASE Verify(p)
    BY <1>13, <1>r, <1>f, <1>t, ForgetOK DEF Verify
  <1>14. CASE Handler(p)
    BY <1>14, <1>r, <1>f, <1>t, ForgetOK, RecoverOK DEF Handler
  <1>15. CASE Restore(p)
    <2>0. UNCHANGED <<file, txn, rest>>
      BY <1>15 DEF Restore
    <2>1. PICK q \in mem[p].todo :
            \/ /\ mem' = [mem EXCEPT ![p].todo = @ \ {q}, ![p].failed = @ \/
                    (~(file[q] = mem[p].journal.before[q]) /\
                     (file[q] # After(mem[p].journal)[q] \/ backup[q] # mem[p].journal.before[q]))]
               /\ UNCHANGED pc
            \/ Write(p, q, mem[p].journal.before[q])
      BY <1>15 DEF Restore
    <2>2. q \in Paths /\ mem[p].journal.before[q] \in Bytes
      BY LocalTypes DEF Journal
    <2>3. CASE Write(p, q, mem[p].journal.before[q])
      BY <2>0, <2>2, <2>3, <1>r, <1>f, <1>t, WriteOK
    <2>4. CASE /\ mem' = [mem EXCEPT ![p].todo = @ \ {q}, ![p].failed = @ \/
                    (~(file[q] = mem[p].journal.before[q]) /\
                     (file[q] # After(mem[p].journal)[q] \/ backup[q] # mem[p].journal.before[q]))]
               /\ UNCHANGED pc
      <3> DEFINE drifted == ~(file[q] = mem[p].journal.before[q]) /\
                     (file[q] # After(mem[p].journal)[q] \/ backup[q] # mem[p].journal.before[q])
      <3>1. mem' = [mem EXCEPT ![p].todo = @ \ {q}, ![p].failed = @ \/ drifted]
        BY <2>4
      <3>2. (mem[p].failed \/ drifted) \in BOOLEAN
        BY LocalTypes
      <3> HIDE DEF drifted
      <3>3. mem' \in [Procs -> Memory]
        BY <3>1, <3>2, <1>0 DEF Memory
      <3> QED BY <3>3, <2>0, <2>4, <1>0, <1>r, <1>f, <1>t DEF LocalsOK
    <2> QED BY <2>1, <2>3, <2>4
  <1>16. CASE FinishRecovery(p)
    <2>1. /\ [mem[p].journal EXCEPT !.attempt = "failed"] \in Journal
          /\ [mem[p].journal EXCEPT !.status = "rolled_back", !.attempt = "completed"] \in Journal
      BY LocalTypes DEF Journal, Statuses, Attempts
    <2>2. LocalsOK
      BY <2>1, <1>16, WriteJournalOK DEF FinishRecovery, Steps
    <2> QED BY <2>2, <1>16, <1>r, <1>f, <1>t DEF FinishRecovery
  <1> QED BY <1>1, <1>2, <1>3, <1>4, <1>5, <1>6, <1>7, <1>8, <1>9, <1>10, <1>11, <1>12,
             <1>13, <1>14, <1>15, <1>16 DEF Run

LEMMA TypeStep == ASSUME TypeOK, [Next]_vars PROVE TypeOK'
  <1> SUFFICES LocalsOK /\ FileOK /\ TxnOK /\ RestOK
    BY DEF TypeOK, LocalsOK, FileOK, TxnOK, RestOK
  <1> USE DEF rest, txn
  <1>0. /\ file \in [Paths -> Bytes] /\ journal \in Journal /\ backup \in [Paths -> Bytes]
        /\ stage \in [Paths -> Bytes] /\ pc \in [Procs -> Steps] /\ mem \in [Procs -> Memory]
        /\ raced \subseteq Paths /\ applies \in 0..MaxApplies
        /\ edits \in 0..MaxEdits /\ crashes \in 0..MaxCrashes
    BY DEF TypeOK
  <1>1. ASSUME NEW p \in Procs, StartApply(p) PROVE LocalsOK /\ FileOK /\ TxnOK /\ RestOK
    <2>1. applies + 1 \in 0..MaxApplies
      BY <1>1, <1>0, BoundsAssumption DEF StartApply
    <2>2. [mem[p].journal EXCEPT !.apply = applies + 1] \in Journal
      BY <2>1, LocalTypes DEF Journal
    <2>3. mem' \in [Procs -> Memory]
      BY <2>2, <1>1, <1>0 DEF StartApply, Memory
    <2>4. pc' \in [Procs -> Steps]
      BY <1>1, GotoOK DEF StartApply, Steps
    <2> QED BY <2>1, <2>3, <2>4, <1>0, <1>1
            DEF StartApply, LocalsOK, FileOK, TxnOK, RestOK
  <1>2. ASSUME NEW p \in Procs, StartRollback(p) PROVE LocalsOK /\ FileOK /\ TxnOK /\ RestOK
    BY <1>2, <1>0, RecoverOK DEF StartRollback, FileOK, TxnOK, RestOK
  <1>3. ASSUME NEW p \in Procs, Crash(p) PROVE LocalsOK /\ FileOK /\ TxnOK /\ RestOK
    BY <1>3, <1>0, ForgetOK, BoundsAssumption DEF Crash, FileOK, TxnOK, RestOK
  <1>4. ASSUME NEW q \in Paths, Edit(q) PROVE LocalsOK /\ FileOK /\ TxnOK /\ RestOK
    <2>1. Changed(file[q]) \in Bytes
      BY <1>0, KindsOK
    <2>2. FileOK
      BY <2>1, <1>4, <1>0 DEF Edit, FileOK
    <2>3. RestOK
      BY <1>4, <1>0, BoundsAssumption DEF Edit, RestOK
    <2> QED BY <2>2, <2>3, <1>4, <1>0 DEF Edit, LocalsOK, TxnOK
  <1>5. CASE UNCHANGED vars
    BY <1>5, <1>0 DEF vars, LocalsOK, FileOK, TxnOK, RestOK
  <1> QED BY <1>1, <1>2, <1>3, <1>4, <1>5, RunTypes DEF Next

\* Type correctness, which includes that the journal holds only statuses and
\* attempts its reader accepts.
THEOREM TypeCorrect == Spec => []TypeOK
  <1>1. Init => TypeOK
    BY KindsOK, EmptyOK, BoundsAssumption DEF Init, TypeOK, Steps
  <1> QED BY <1>1, TypeStep, PTL DEF Spec

-------------------------------------------------------------------------------
(* One command at a time.  While files move, the journal says so, and the      *)
(* backups are the bytes the journal gives as those before the migration.       *)

Alone == \A p, r \in Procs : p = r

Lawful(j) == \A q \in Paths : IF q \in Originals THEN j.before[q].kind \in Unmigrated
                               ELSE j.before[q] = NoFile
Undone(f, j, q) == f[q] = j.before[q] \/ f[q].kind = "edited"
Done(f, j, q) == f[q] = After(j)[q] \/ f[q].kind = "amended"
Told(f, j) ==
    \A q \in Paths : /\ j.status \in {"prepared", "rolled_back"} => Undone(f, j, q)
                     /\ j.status = "applied" => Done(f, j, q)

Moving == {"publish", "restore", "unlink", "rename"}
Saving == {"unlink journal", "rename journal"}
Held == Moving \cup Saving \cup {"drift"}
Undoing(p) == pc[p] = "restore" \/ (pc[p] \in Saving \cup {"unlink", "rename"} /\ mem[p].next = "restore")

JournalInv ==
    journal.status # "none" =>
        Lawful(journal) /\ backup = journal.before /\ Told(file, journal)

PhaseInv(p) ==
    LET m == mem[p]
        j == m.journal
    IN
    /\ pc[p] \in {"snapshot", "read", "stage"} => journal.status = "none"
    /\ pc[p] = "purge" => journal.status = "rolled_back"
    /\ pc[p] \in Moving => journal.status \in {"applying", "recovery_required"}
    /\ pc[p] = "stage" => Lawful(j) /\ Told(file, j)
    /\ pc[p] \in Held => Lawful(j) /\ backup = j.before
    /\ pc[p] \in {"unlink", "rename"} =>
           /\ m.next \in {"publish", "restore"} /\ m.at \in m.todo
           /\ m.next = "restore" => m.bytes = j.before[m.at]
    /\ pc[p] \in Saving =>
           /\ Told(file, j) /\ m.next \in {"drift", "publish", "verify", "restore", "idle"}
           /\ m.next = "publish" => j.status = "applying"
    /\ Undoing(p) =>
           /\ j.status = "recovery_required"
           /\ \A q \in Paths : q \in m.todo \/ m.failed \/ Undone(file, j, q)

StepInv(p) == JournalInv /\ PhaseInv(p) /\ BytesRecoverable
IInv == TypeOK /\ \A p \in Procs : StepInv(p)

LEMMA DoneKinds ==
    ASSUME NEW j \in Journal, NEW q \in Paths, q # Receipt
    PROVE  After(j)[q].kind \in {"none", "new", "renewed"}
  <1>1. \A b : Rewritten(b).kind \in {"new", "renewed"}
    BY DEF Rewritten, Plain
  <1>2. NoFile.kind = "none"
    BY DEF NoFile, Plain
  <1>3. After(j)[q] = NoFile \/ \E b : After(j)[q] = Rewritten(b)
    BY DEF After
  <1> QED BY <1>1, <1>2, <1>3

\* The bytes of before are not rewritten ones.
LEMMA LawfulKinds ==
    ASSUME NEW j \in Journal, Lawful(j), NEW q \in Paths
    PROVE  /\ j.before[q].kind \in {"old", "edited", "none"}
           /\ q \in Originals => j.before[q].kind \in Unmigrated
  BY DEF Lawful, Unmigrated, NoFile, Plain

\* An edit leaves what was told of the files true.
LEMMA EditTold ==
    ASSUME TypeOK, NEW r \in Paths, Edit(r), NEW j \in Journal, Lawful(j)
    PROVE  /\ \A q \in Paths : Undone(file, j, q) => Undone(file', j, q)
           /\ Told(file, j) => Told(file', j)
  <1>1. /\ file \in [Paths -> Bytes] /\ file' = [file EXCEPT ![r] = Changed(@)]
        /\ r # Receipt /\ file[r].kind \in {"old", "new", "renewed"}
    BY DEF TypeOK, Edit
  <1>2. ASSUME NEW q \in Paths, Undone(file, j, q) PROVE Undone(file', j, q)
    <2>1. CASE q # r
      BY <2>1, <1>1, <1>2 DEF Undone
    <2>2. CASE q = r
      <3>1. file[r].kind = "old"
        BY <2>2, <1>1, <1>2, LawfulKinds DEF Undone
      <3>2. file'[r].kind = "edited"
        BY <3>1, <1>1 DEF Changed, Plain
      <3> QED BY <3>2, <2>2 DEF Undone
    <2> QED BY <2>1, <2>2
  <1>3. ASSUME NEW q \in Paths, Done(file, j, q) PROVE Done(file', j, q)
    <2>1. CASE q # r
      BY <2>1, <1>1, <1>3 DEF Done
    <2>2. CASE q = r
      <3>1. file[r].kind \in {"new", "renewed"}
        BY <2>2, <1>1, <1>3, DoneKinds DEF Done
      <3>2. file'[r].kind = "amended"
        BY <3>1, <1>1 DEF Changed, Plain
      <3> QED BY <3>2, <2>2 DEF Done
    <2> QED BY <2>1, <2>2
  <1> QED BY <1>2, <1>3 DEF Told

LEMMA EditStep ==
    ASSUME TypeOK, NEW p \in Procs, StepInv(p), NEW r \in Paths, Edit(r)
    PROVE  StepInv(p)'
  <1>1. journal \in Journal /\ mem[p].journal \in Journal
    BY LocalTypes DEF TypeOK
  <1>2. UNCHANGED <<journal, backup, stage, pc, mem>>
    BY DEF Edit, txn
  <1>3. JournalInv'
    BY <1>1, <1>2, EditTold DEF StepInv, JournalInv
  <1>4. PhaseInv(p)'
    <2>1. pc[p] = "stage" => Lawful(mem[p].journal) /\ Told(file', mem[p].journal)
      BY <1>1, EditTold DEF StepInv, PhaseInv
    <2>2. pc[p] \in Saving => Told(file', mem[p].journal)
      BY <1>1, EditTold DEF StepInv, PhaseInv, Held
    <2>3. Undoing(p) => Lawful(mem[p].journal)
      BY DEF StepInv, PhaseInv, Undoing, Held, Moving, Saving
    <2>4. Undoing(p) => \A q \in Paths : q \in mem[p].todo \/ mem[p].failed
                                            \/ Undone(file', mem[p].journal, q)
      BY <2>3, <1>1, EditTold DEF StepInv, PhaseInv
    <2>5. Undoing(p)' = Undoing(p)
      BY <1>2 DEF Undoing
    <2> QED BY <2>1, <2>2, <2>4, <2>5, <1>2 DEF StepInv, PhaseInv
  <1>5. BytesRecoverable'
    <2> SUFFICES ASSUME NEW q \in Originals, file[q].kind \in Unmigrated
                 PROVE  file'[q].kind \in Unmigrated
      BY <1>2 DEF StepInv, BytesRecoverable
    <2>1. q \in Paths /\ file \in [Paths -> Bytes]
      BY DEF Paths, TypeOK
    <2>2. CASE q = r
      BY <2>1, <2>2 DEF Edit, Changed, Plain, Unmigrated
    <2>3. CASE q # r
      BY <2>1, <2>3 DEF Edit
    <2> QED BY <2>2, <2>3
  <1> QED BY <1>3, <1>4, <1>5 DEF StepInv

\* A command that begins, ends or dies has nothing to say of the files.
LEMMA AtRest ==
    ASSUME TypeOK, NEW p \in Procs, StepInv(p), UNCHANGED <<file, journal, backup>>,
           pc'[p] \in {"idle", "handler", "check", "verify"}
    PROVE  StepInv(p)'
  <1>1. JournalInv' /\ BytesRecoverable'
    BY DEF StepInv, JournalInv, BytesRecoverable
  <1>2. PhaseInv(p)'
    BY DEF PhaseInv, Undoing, Held, Moving, Saving
  <1> QED BY <1>1, <1>2 DEF StepInv

LEMMA ForgetStep ==
    ASSUME TypeOK, NEW p \in Procs, StepInv(p), UNCHANGED <<file, txn>>, Leave(p) \/ Throw(p)
    PROVE  StepInv(p)'
  <1>1. pc'[p] \in {"idle", "handler"}
    BY DEF TypeOK, Leave, Throw, Goto
  <1> QED BY <1>1, AtRest DEF txn

\* An action that keeps the files and the transaction has only the process to
\* answer for.
LEMMA LocalStep ==
    ASSUME NEW p \in Procs, StepInv(p), UNCHANGED <<file, txn>>, PhaseInv(p)'
    PROVE  StepInv(p)'
  BY DEF StepInv, JournalInv, BytesRecoverable, txn

LEMMA StartApplyStep ==
    ASSUME TypeOK, NEW p \in Procs, StepInv(p), StartApply(p) PROVE StepInv(p)'
  <1>1. pc'[p] = "check" /\ UNCHANGED <<file, journal, backup>>
    BY DEF StartApply, Goto, TypeOK, txn
  <1> QED BY <1>1, AtRest

LEMMA CheckJournalStep ==
    ASSUME TypeOK, NEW p \in Procs, StepInv(p), CheckJournal(p) PROVE StepInv(p)'
  <1>1. UNCHANGED <<file, txn>>
    BY DEF CheckJournal
  <1>2. CASE Throw(p)
    BY <1>1, <1>2, ForgetStep
  <1>3. CASE Goto(p, "snapshot") /\ journal.status = "none"
    <2>1. pc'[p] = "snapshot"
      BY <1>3 DEF Goto, TypeOK
    <2>2. PhaseInv(p)'
      BY <2>1, <1>3, <1>1 DEF PhaseInv, Undoing, Held, Moving, Saving, txn
    <2> QED BY <2>2, <1>1, LocalStep
  <1>4. CASE Goto(p, "purge") /\ journal.status = "rolled_back"
    <2>1. pc'[p] = "purge"
      BY <1>4 DEF Goto, TypeOK
    <2>2. PhaseInv(p)'
      BY <2>1, <1>4, <1>1 DEF PhaseInv, Undoing, Held, Moving, Saving, txn
    <2> QED BY <2>2, <1>1, LocalStep
  <1>5. CASE Goto(p, "idle")
    <2>1. pc'[p] = "idle"
      BY <1>5 DEF Goto, TypeOK
    <2> QED BY <2>1, <1>1, AtRest DEF txn
  <1> QED BY <1>2, <1>3, <1>4, <1>5 DEF CheckJournal

\* The backups may go: what a completed rollback left is the files from before.
LEMMA PurgeStep ==
    ASSUME TypeOK, NEW p \in Procs, StepInv(p), Purge(p) PROVE StepInv(p)'
  <1>1. /\ pc'[p] = "snapshot" /\ journal' = NoJournal /\ UNCHANGED file
        /\ journal.status = "rolled_back" /\ journal \in Journal
    BY DEF Purge, Goto, TypeOK, StepInv, PhaseInv
  <1>2. Lawful(journal) /\ Told(file, journal)
    BY <1>1 DEF StepInv, JournalInv
  <1>3. ASSUME NEW q \in Originals PROVE file[q].kind \in Unmigrated
    <2>1. q \in Paths
      BY DEF Paths
    <2>2. Undone(file, journal, q)
      BY <2>1, <1>1, <1>2 DEF Told
    <2> QED BY <2>1, <2>2, <1>1, <1>2, LawfulKinds DEF Undone, Unmigrated
  <1>4. BytesRecoverable'
    BY <1>1, <1>3 DEF BytesRecoverable
  <1>5. JournalInv' /\ PhaseInv(p)'
    BY <1>1 DEF JournalInv, PhaseInv, NoJournal, Undoing, Held, Moving, Saving
  <1> QED BY <1>4, <1>5 DEF StepInv

LEMMA SnapshotStep ==
    ASSUME TypeOK, NEW p \in Procs, StepInv(p), Snapshot(p) PROVE StepInv(p)'
  <1>1. UNCHANGED <<file, txn>> /\ pc[p] = "snapshot" /\ pc'[p] \in {"read", "idle"}
    BY DEF Snapshot, Goto, TypeOK
  <1>2. PhaseInv(p)'
    BY <1>1 DEF StepInv, PhaseInv, Undoing, Held, Moving, Saving, txn
  <1> QED BY <1>1, <1>2, LocalStep

LEMMA ReadContentsStep ==
    ASSUME TypeOK, NEW p \in Procs, StepInv(p), ReadContents(p) PROVE StepInv(p)'
  <1>1. UNCHANGED <<file, txn>> /\ pc[p] = "read"
    BY DEF ReadContents
  <1>2. CASE Throw(p) \/ Leave(p)
    BY <1>1, <1>2, ForgetStep
  <1>3. CASE /\ \A q \in Paths : IF q \in Originals THEN file[q].kind \in {"old", "edited"}
                                 ELSE file[q] = NoFile
             /\ Goto(p, "stage")
             /\ mem' = [mem EXCEPT ![p].journal =
                   [@ EXCEPT !.status = "prepared", !.agent = AgentOf[p], !.before = file]]
    <2> DEFINE j == mem'[p].journal
    <2>1. pc'[p] = "stage" /\ j = [mem[p].journal EXCEPT !.status = "prepared",
                                       !.agent = AgentOf[p], !.before = file]
      BY <1>3 DEF Goto, TypeOK
    <2>2. j.status = "prepared" /\ j.before = file
      BY <2>1, LocalTypes DEF Journal
    <2>3. Lawful(j)
      BY <2>2, <1>3 DEF Lawful, Unmigrated
    <2>4. Told(file, j)
      BY <2>2 DEF Told, Undone
    <2>5. PhaseInv(p)'
      BY <2>1, <2>3, <2>4, <1>1 DEF StepInv, PhaseInv, Undoing, Held, Moving, Saving, txn
    <2> QED BY <2>5, <1>1, LocalStep
  <1> QED BY <1>2, <1>3 DEF ReadContents

\* Staging writes the backups over those of an apply that died.
LEMMA StageFilesStep ==
    ASSUME TypeOK, NEW p \in Procs, StepInv(p), StageFiles(p) PROVE StepInv(p)'
  <1> DEFINE j == mem[p].journal
  <1>1. /\ pc[p] = "stage" /\ pc'[p] = "unlink journal" /\ mem'[p].journal = j
        /\ mem'[p].next = "drift" /\ backup' = j.before /\ UNCHANGED <<file, journal>>
    BY DEF StageFiles, WriteJournal, Goto, TypeOK, Memory
  <1>2. Lawful(j) /\ Told(file, j) /\ journal.status = "none" /\ j \in Journal
    BY <1>1, LocalTypes DEF StepInv, PhaseInv
  <1>3. BytesRecoverable'
    <2> SUFFICES ASSUME NEW q \in Originals PROVE backup'[q].kind \in Unmigrated
      BY DEF BytesRecoverable
    <2>1. q \in Paths
      BY DEF Paths
    <2> QED BY <2>1, <1>1, <1>2, LawfulKinds
  <1>4. JournalInv'
    BY <1>1, <1>2 DEF JournalInv
  <1>5. PhaseInv(p)'
    BY <1>1, <1>2 DEF PhaseInv, Undoing, Held, Moving, Saving
  <1> QED BY <1>3, <1>4, <1>5 DEF StepInv

LEMMA CheckDriftStep ==
    ASSUME TypeOK, NEW p \in Procs, StepInv(p), CheckDrift(p) PROVE StepInv(p)'
  <1>1. UNCHANGED <<file, txn>> /\ pc[p] = "drift"
    BY DEF CheckDrift
  <1>2. CASE Throw(p)
    BY <1>1, <1>2, ForgetStep
  <1>3. CASE /\ Goto(p, "unlink journal")
             /\ mem' = [mem EXCEPT ![p].journal.status = "applying", ![p].todo = Paths,
                                   ![p].next = "publish"]
    <2>1. /\ pc'[p] = "unlink journal" /\ mem'[p].next = "publish"
          /\ mem'[p].journal = [mem[p].journal EXCEPT !.status = "applying"]
      BY <1>3 DEF Goto, TypeOK, Memory
    <2>2. mem'[p].journal.status = "applying" /\ mem'[p].journal.before = mem[p].journal.before
      BY <2>1, LocalTypes DEF Journal
    <2>3. Lawful(mem[p].journal) /\ backup = mem[p].journal.before
      BY <1>1 DEF StepInv, PhaseInv, Held
    <2>4. Lawful(mem'[p].journal) /\ Told(file, mem'[p].journal)
      BY <2>2, <2>3 DEF Lawful, Told
    <2>5. PhaseInv(p)'
      BY <2>1, <2>2, <2>3, <2>4, <1>1 DEF PhaseInv, Undoing, Held, Moving, Saving, txn
    <2> QED BY <2>5, <1>1, LocalStep
  <1> QED BY <1>2, <1>3 DEF CheckDrift

LEMMA PublishStep ==
    ASSUME TypeOK, NEW p \in Procs, StepInv(p), Publish(p) PROVE StepInv(p)'
  <1>1. UNCHANGED <<file, txn>> /\ pc[p] = "publish"
    BY DEF Publish
  <1>2. CASE Throw(p)
    BY <1>1, <1>2, ForgetStep
  <1>3. ASSUME NEW q \in mem[p].todo, NEW bytes, Write(p, q, bytes) PROVE StepInv(p)'
    <2>1. /\ pc'[p] = "unlink" /\ mem'[p].next = "publish" /\ mem'[p].at = q
          /\ mem'[p].journal = mem[p].journal /\ mem'[p].todo = mem[p].todo
      BY <1>1, <1>3 DEF Write, Goto, TypeOK, Memory
    <2>2. PhaseInv(p)'
      BY <2>1, <1>1 DEF StepInv, PhaseInv, Undoing, Held, Moving, Saving, txn
    <2> QED BY <2>2, <1>1, LocalStep
  <1> QED BY <1>2, <1>3 DEF Publish

LEMMA CheckWrittenStep ==
    ASSUME TypeOK, NEW p \in Procs, StepInv(p), CheckWritten(p) PROVE StepInv(p)'
  <1>1. UNCHANGED <<file, txn>> /\ pc[p] = "publish"
    BY DEF CheckWritten
  <1>2. CASE Throw(p)
    BY <1>1, <1>2, ForgetStep
  <1>3. CASE /\ file = After(mem[p].journal)
             /\ WriteJournal(p, [mem[p].journal EXCEPT !.status = "applied"], "verify")
    <2>1. /\ pc'[p] = "unlink journal" /\ mem'[p].next = "verify"
          /\ mem'[p].journal = [mem[p].journal EXCEPT !.status = "applied"]
      BY <1>3 DEF WriteJournal, Goto, TypeOK, Memory
    <2>2. /\ mem'[p].journal.status = "applied" /\ mem'[p].journal.before = mem[p].journal.before
          /\ mem'[p].journal.apply = mem[p].journal.apply
      BY <2>1, LocalTypes DEF Journal
    <2>3. Lawful(mem[p].journal) /\ backup = mem[p].journal.before
      BY <1>1 DEF StepInv, PhaseInv, Held, Moving
    <2>4. After(mem'[p].journal) = After(mem[p].journal)
      BY <2>2 DEF After
    <2>5. Lawful(mem'[p].journal) /\ Told(file, mem'[p].journal)
      BY <2>2, <2>3, <2>4, <1>3 DEF Lawful, Told, Done
    <2>6. PhaseInv(p)'
      BY <2>1, <2>2, <2>3, <2>5, <1>1 DEF PhaseInv, Undoing, Held, Moving, Saving, txn
    <2> QED BY <2>6, <1>1, LocalStep
  <1> QED BY <1>2, <1>3 DEF CheckWritten

LEMMA VerifyStep ==
    ASSUME TypeOK, NEW p \in Procs, StepInv(p), Verify(p) PROVE StepInv(p)'
  BY ForgetStep DEF Verify

\* A rollback takes what it restores from the journal.
LEMMA RecoverStep ==
    ASSUME TypeOK, NEW p \in Procs, StepInv(p), NEW automatic \in BOOLEAN,
           journal.status \notin {"none", "rolled_back"}, Recover(p, automatic),
           UNCHANGED <<file, txn>>
    PROVE  StepInv(p)'
  <1> DEFINE j == Attempted(p, journal, automatic)
  <1>1. /\ pc'[p] = "unlink journal" /\ mem'[p].journal = j /\ mem'[p].todo = Paths
        /\ mem'[p].next = "restore"
    BY DEF Recover, Goto, TypeOK, NoMemory
  <1>2. j.status = "recovery_required" /\ j.before = journal.before
    BY DEF Attempted, TypeOK, Journal
  <1>3. Lawful(journal) /\ backup = journal.before
    BY DEF StepInv, JournalInv
  <1>4. Lawful(j) /\ Told(file, j)
    BY <1>2, <1>3 DEF Lawful, Told
  <1> HIDE DEF j
  <1>5. PhaseInv(p)'
    BY <1>1, <1>2, <1>3, <1>4 DEF PhaseInv, Undoing, Held, Moving, Saving, txn
  <1> QED BY <1>5, LocalStep

LEMMA HandlerStep ==
    ASSUME TypeOK, NEW p \in Procs, StepInv(p), Handler(p) PROVE StepInv(p)'
  BY RecoverStep, ForgetStep DEF Handler

LEMMA StartRollbackStep ==
    ASSUME TypeOK, NEW p \in Procs, StepInv(p), StartRollback(p) PROVE StepInv(p)'
  BY RecoverStep DEF StartRollback

LEMMA RestoreStep ==
    ASSUME TypeOK, NEW p \in Procs, StepInv(p), Restore(p) PROVE StepInv(p)'
  <1> DEFINE j == mem[p].journal
             drifted(q) == ~(file[q] = j.before[q]) /\ (file[q] # After(j)[q] \/ backup[q] # j.before[q])
  <1>1. UNCHANGED <<file, txn>> /\ pc[p] = "restore"
    BY DEF Restore
  <1>2. PICK q \in mem[p].todo :
          \/ /\ file[q] = j.before[q] \/ drifted(q)
             /\ mem' = [mem EXCEPT ![p].todo = @ \ {q}, ![p].failed = @ \/ drifted(q)]
             /\ UNCHANGED pc
          \/ Write(p, q, j.before[q])
    BY DEF Restore
  <1>3. \A r \in Paths : r \in mem[p].todo \/ mem[p].failed \/ Undone(file, j, r)
    BY <1>1 DEF StepInv, PhaseInv, Undoing
  <1>4. CASE Write(p, q, j.before[q])
    <2>1. /\ pc'[p] = "unlink" /\ mem'[p].next = "restore" /\ mem'[p].at = q
          /\ mem'[p].bytes = j.before[q] /\ mem'[p].journal = j
          /\ mem'[p].todo = mem[p].todo /\ mem'[p].failed = mem[p].failed
      BY <1>1, <1>4 DEF Write, Goto, TypeOK, Memory
    <2>2. PhaseInv(p)'
      BY <2>1, <1>1, <1>2, <1>3 DEF StepInv, PhaseInv, Undoing, Held, Moving, Saving, txn
    <2> QED BY <2>2, <1>1, LocalStep
  <1>5. CASE /\ file[q] = j.before[q] \/ drifted(q)
             /\ mem' = [mem EXCEPT ![p].todo = @ \ {q}, ![p].failed = @ \/ drifted(q)]
             /\ UNCHANGED pc
    <2> HIDE DEF drifted
    <2>1. /\ mem'[p].journal = j /\ mem'[p].todo = mem[p].todo \ {q}
          /\ mem'[p].failed = (mem[p].failed \/ drifted(q))
      BY <1>5 DEF TypeOK, Memory
    <2>2. \A r \in Paths : r \in mem'[p].todo \/ mem'[p].failed \/ Undone(file, j, r)
      BY <2>1, <1>3, <1>5 DEF Undone
    <2>3. PhaseInv(p)'
      BY <2>1, <2>2, <1>1, <1>5 DEF StepInv, PhaseInv, Undoing, Held, Moving, Saving, txn
    <2> QED BY <2>3, <1>1, LocalStep
  <1> QED BY <1>2, <1>4, <1>5

LEMMA FinishRecoveryStep ==
    ASSUME TypeOK, NEW p \in Procs, StepInv(p), FinishRecovery(p) PROVE StepInv(p)'
  <1> DEFINE j == mem[p].journal
             k == mem'[p].journal
  <1>1. /\ UNCHANGED <<file, txn>> /\ pc[p] = "restore" /\ mem[p].todo = {}
        /\ pc'[p] = "unlink journal" /\ mem'[p].next = "idle"
        /\ k = IF mem[p].failed THEN [j EXCEPT !.attempt = "failed"]
               ELSE [j EXCEPT !.status = "rolled_back", !.attempt = "completed"]
    BY DEF FinishRecovery, WriteJournal, Goto, TypeOK, Memory
  <1>2. Lawful(j) /\ backup = j.before /\ j \in Journal
    BY <1>1, LocalTypes DEF StepInv, PhaseInv, Held, Moving
  <1>3. k.before = j.before /\ k.apply = j.apply
    BY <1>1, <1>2 DEF Journal
  <1>4. \A q \in Paths : mem[p].failed \/ Undone(file, j, q)
    BY <1>1 DEF StepInv, PhaseInv, Undoing
  <1>5. Told(file, k)
    <2>1. CASE mem[p].failed
      <3>1. k.status = j.status
        BY <2>1, <1>1, <1>2 DEF Journal
      <3>2. j.status = "recovery_required"
        BY <1>1 DEF StepInv, PhaseInv, Undoing
      <3> QED BY <3>1, <3>2 DEF Told
    <2>2. CASE ~mem[p].failed
      <3>1. k.status = "rolled_back"
        BY <2>2, <1>1, <1>2 DEF Journal
      <3> QED BY <3>1, <2>2, <1>3, <1>4 DEF Told, Undone
    <2> QED BY <2>1, <2>2
  <1>6. Lawful(k)
    BY <1>2, <1>3 DEF Lawful
  <1>7. PhaseInv(p)'
    BY <1>1, <1>2, <1>3, <1>5, <1>6 DEF PhaseInv, Undoing, Held, Moving, Saving, txn
  <1> QED BY <1>1, <1>7, LocalStep

LEMMA UnlinkJournalStep ==
    ASSUME TypeOK, NEW p \in Procs, StepInv(p), UnlinkJournal(p) PROVE StepInv(p)'
  <1>1. /\ pc[p] = "unlink journal" /\ pc'[p] = "rename journal" /\ journal'.status = "none"
        /\ UNCHANGED <<file, backup, mem>>
    BY DEF UnlinkJournal, Goto, TypeOK, NoJournal
  <1>2. JournalInv' /\ BytesRecoverable'
    BY <1>1 DEF StepInv, JournalInv, BytesRecoverable
  <1>3. PhaseInv(p)'
    BY <1>1 DEF StepInv, PhaseInv, Undoing, Held, Moving, Saving
  <1> QED BY <1>2, <1>3 DEF StepInv

LEMMA RenameJournalStep ==
    ASSUME TypeOK, NEW p \in Procs, StepInv(p), RenameJournal(p) PROVE StepInv(p)'
  <1> DEFINE m == mem[p]
  <1>1. /\ pc[p] = "rename journal" /\ pc'[p] = m.next /\ journal' = m.journal
        /\ UNCHANGED <<file, backup>> /\ (m.next = "idle" \/ mem' = mem)
    BY DEF RenameJournal, Leave, Goto, TypeOK
  <1>2. Lawful(m.journal) /\ backup = m.journal.before /\ Told(file, m.journal)
    BY <1>1 DEF StepInv, PhaseInv, Held, Saving
  <1>3. JournalInv' /\ BytesRecoverable'
    BY <1>1, <1>2 DEF StepInv, JournalInv, BytesRecoverable
  <1>4. /\ m.next \in {"drift", "publish", "verify", "restore", "idle"}
        /\ m.next = "publish" => m.journal.status = "applying"
        /\ m.next = "restore" =>
              /\ m.journal.status = "recovery_required"
              /\ \A q \in Paths : q \in m.todo \/ m.failed \/ Undone(file, m.journal, q)
    BY <1>1 DEF StepInv, PhaseInv, Undoing, Saving
  <1>5. PhaseInv(p)'
    <2>1. CASE m.next \in {"idle", "verify"}
      BY <2>1, <1>1 DEF PhaseInv, Undoing, Held, Moving, Saving
    <2>2. CASE m.next \in {"drift", "publish", "restore"}
      BY <2>2, <1>1, <1>2, <1>4 DEF PhaseInv, Undoing, Held, Moving, Saving
    <2> QED BY <2>1, <2>2, <1>4
  <1> QED BY <1>3, <1>5 DEF StepInv

\* Both writes of a path: the bytes from before are in the backup meanwhile.
LEMMA MovingStep ==
    ASSUME TypeOK, NEW p \in Procs, StepInv(p), pc[p] \in {"unlink", "rename"}, UNCHANGED txn
    PROVE  JournalInv' /\ BytesRecoverable'
  <1>1. /\ Lawful(mem[p].journal) /\ backup = mem[p].journal.before
        /\ journal.status \in {"applying", "recovery_required"}
    BY DEF StepInv, PhaseInv, Held, Moving
  <1>2. ASSUME NEW q \in Originals PROVE backup[q].kind \in Unmigrated
    <2>1. q \in Paths /\ mem[p].journal \in Journal
      BY LocalTypes DEF Paths
    <2> QED BY <2>1, <1>1, LawfulKinds
  <1>3. BytesRecoverable'
    BY <1>2 DEF BytesRecoverable, txn
  <1>4. JournalInv'
    BY <1>1 DEF StepInv, JournalInv, Told, txn
  <1> QED BY <1>3, <1>4

LEMMA UnlinkStep ==
    ASSUME TypeOK, NEW p \in Procs, StepInv(p), Unlink(p) PROVE StepInv(p)'
  <1> DEFINE m == mem[p]
  <1>1. /\ pc[p] = "unlink" /\ UNCHANGED txn /\ file' = [file EXCEPT ![m.at] = NoFile]
        /\ file \in [Paths -> Bytes]
    BY DEF Unlink, TypeOK
  <1>2. /\ m.next \in {"publish", "restore"} /\ m.at \in m.todo
        /\ m.next = "restore" => m.bytes = m.journal.before[m.at]
        /\ m.next = "restore" => /\ m.journal.status = "recovery_required"
                                 /\ \A q \in Paths : q \in m.todo \/ m.failed
                                                        \/ Undone(file, m.journal, q)
        /\ Lawful(m.journal) /\ backup = m.journal.before
        /\ journal.status \in {"applying", "recovery_required"}
    BY <1>1 DEF StepInv, PhaseInv, Held, Moving, Undoing
  <1>3. JournalInv' /\ BytesRecoverable'
    BY <1>1, MovingStep
  <1>4. CASE m.bytes # NoFile
    <2>1. pc'[p] = "rename" /\ UNCHANGED mem
      BY <1>4 DEF Unlink, Goto, TypeOK
    <2>2. \A q \in Paths : q \in m.todo \/ file'[q] = file[q]
      BY <1>1, <1>2
    <2>3. PhaseInv(p)'
      BY <2>1, <2>2, <1>1, <1>2 DEF PhaseInv, Undoing, Held, Moving, Saving, txn, Undone
    <2> QED BY <2>3, <1>3 DEF StepInv
  <1>5. CASE m.bytes = NoFile
    <2>1. /\ pc'[p] = m.next /\ mem'[p].journal = m.journal /\ mem'[p].failed = m.failed
          /\ mem'[p].todo = m.todo \ {m.at} /\ mem'[p].next = m.next
      BY <1>5 DEF Unlink, Goto, TypeOK, Memory
    <2>2. m.next = "restore" => \A q \in Paths : q \in m.todo \ {m.at} \/ m.failed
                                                    \/ Undone(file', m.journal, q)
      <3>1. \A q \in Paths : file'[q] = IF q = m.at THEN NoFile ELSE file[q]
        BY <1>1
      <3> QED BY <3>1, <1>2, <1>5 DEF Undone
    <2>3. PhaseInv(p)'
      BY <2>1, <2>2, <1>1, <1>2 DEF PhaseInv, Undoing, Held, Moving, Saving, txn
    <2> QED BY <2>3, <1>3 DEF StepInv
  <1> QED BY <1>4, <1>5

LEMMA RenameStep ==
    ASSUME TypeOK, NEW p \in Procs, StepInv(p), Rename(p) PROVE StepInv(p)'
  <1> DEFINE m == mem[p]
  <1>1. /\ pc[p] = "rename" /\ UNCHANGED txn /\ file' = [file EXCEPT ![m.at] = m.bytes]
        /\ file \in [Paths -> Bytes]
    BY DEF Rename, TypeOK
  <1>2. /\ m.next \in {"publish", "restore"}
        /\ m.next = "restore" => /\ m.bytes = m.journal.before[m.at]
                                 /\ m.journal.status = "recovery_required"
                                 /\ \A q \in Paths : q \in m.todo \/ m.failed
                                                        \/ Undone(file, m.journal, q)
        /\ Lawful(m.journal) /\ backup = m.journal.before
        /\ journal.status \in {"applying", "recovery_required"}
    BY <1>1 DEF StepInv, PhaseInv, Held, Moving, Undoing
  <1>3. JournalInv' /\ BytesRecoverable'
    BY <1>1, MovingStep
  <1>4. /\ pc'[p] = m.next /\ mem'[p].journal = m.journal /\ mem'[p].failed = m.failed
        /\ mem'[p].todo = m.todo \ {m.at} /\ mem'[p].next = m.next
    BY DEF Rename, Goto, TypeOK, Memory
  <1>5. m.next = "restore" => \A q \in Paths : q \in m.todo \ {m.at} \/ m.failed
                                                  \/ Undone(file', m.journal, q)
    <2>1. \A q \in Paths : file'[q] = IF q = m.at THEN m.bytes ELSE file[q]
      BY <1>1
    <2> QED BY <2>1, <1>2 DEF Undone
  <1>6. PhaseInv(p)'
    BY <1>4, <1>5, <1>1, <1>2 DEF PhaseInv, Undoing, Held, Moving, Saving, txn
  <1> QED BY <1>6, <1>3 DEF StepInv

LEMMA CrashStep ==
    ASSUME TypeOK, NEW p \in Procs, StepInv(p), Crash(p) PROVE StepInv(p)'
  BY ForgetStep DEF Crash

LEMMA RunStep ==
    ASSUME TypeOK, NEW p \in Procs, StepInv(p), Run(p) PROVE StepInv(p)'
  BY UnlinkJournalStep, RenameJournalStep, UnlinkStep, RenameStep, CheckJournalStep, PurgeStep,
     SnapshotStep, ReadContentsStep, StageFilesStep, CheckDriftStep, PublishStep,
     CheckWrittenStep, VerifyStep, HandlerStep, RestoreStep, FinishRecoveryStep DEF Run

LEMMA InvStep ==
    ASSUME Alone, IInv, [Next]_vars PROVE IInv'
  <1>1. TypeOK /\ TypeOK'
    BY TypeStep DEF IInv
  <1>2. ASSUME NEW r \in Procs PROVE StepInv(r)'
    <2>1. StepInv(r)
      BY DEF IInv
    <2>2. ASSUME NEW p \in Procs, StartApply(p) \/ StartRollback(p) \/ Run(p) \/ Crash(p)
          PROVE  StepInv(r)'
      <3>1. p = r
        BY DEF Alone
      <3> QED BY <3>1, <2>1, <2>2, <1>1, StartApplyStep, StartRollbackStep, RunStep, CrashStep
    <2>3. ASSUME NEW q \in Paths, Edit(q) PROVE StepInv(r)'
      BY <2>1, <2>3, <1>1, EditStep
    <2>4. CASE UNCHANGED vars
      BY <2>1, <2>4 DEF vars, StepInv, JournalInv, PhaseInv, BytesRecoverable, Undoing
    <2> QED BY <2>2, <2>3, <2>4 DEF Next
  <1> QED BY <1>1, <1>2 DEF IInv

LEMMA InvInit == Init => IInv
  <1> SUFFICES ASSUME Init PROVE IInv
    OBVIOUS
  <1>1. TypeOK
    BY KindsOK, EmptyOK, BoundsAssumption DEF Init, TypeOK, Steps
  <1>2. ASSUME NEW p \in Procs PROVE StepInv(p)
    <2>1. JournalInv /\ PhaseInv(p)
      BY DEF Init, JournalInv, NoJournal, PhaseInv, Undoing, Held, Moving, Saving
    <2>2. BytesRecoverable
      BY DEF Init, BytesRecoverable, Reviewed, Plain, Unmigrated, Paths
    <2> QED BY <2>1, <2>2 DEF StepInv
  <1> QED BY <1>1, <1>2 DEF IInv

\* A single process: its commands come one after another and may die anywhere,
\* and other commands edit the files meanwhile.
THEOREM Invariance ==
    ASSUME Alone PROVE Spec => []IInv
  <1>1. Init => IInv
    BY InvInit
  <1>2. IInv /\ [Next]_vars => IInv'
    BY InvStep
  <1> QED BY <1>1, <1>2, PTL DEF Spec

\* No sequence of applies, rollbacks, deaths and edits loses the bytes a file had
\* before the migration.
THEOREM NothingIsLost ==
    ASSUME Alone, Procs # {} PROVE Spec => []BytesRecoverable
  <1>1. IInv => BytesRecoverable
    BY DEF IInv, StepInv
  <1> QED BY <1>1, Invariance, PTL

\* The journal reports "rolled_back" only when every file is as it was, and
\* "applied" only when every file is as planned, up to edits made since.
THEOREM StatusIsTrue ==
    ASSUME Alone, Procs # {} PROVE Spec => []StatusTellsFiles
  <1>1. IInv => StatusTellsFiles
    <2> SUFFICES ASSUME IInv, NEW q \in Paths
                 PROVE  /\ journal.status \in {"prepared", "rolled_back"} => Undone(file, journal, q)
                        /\ journal.status = "applied" => Done(file, journal, q)
      BY DEF StatusTellsFiles, Undone, Done
    <2> QED BY DEF IInv, StepInv, JournalInv, Told
  <1> QED BY <1>1, Invariance, PTL

-------------------------------------------------------------------------------
(* Edits.  Between the comparison of a file and its removal, what is removed is *)
(* an edit that raced, bytes the backup holds, or what a migration wrote.       *)

Mine == {"edited", "amended"}
KeptInv(p) ==
    /\ pc[p] = "unlink" =>
           mem[p].at \in raced \/ backup[mem[p].at] = file[mem[p].at]
                               \/ file[mem[p].at].kind \notin Mine
    /\ pc[p] = "rename" => file[mem[p].at] = NoFile

LEMMA NotMine == /\ NoFile.kind \notin Mine
                 /\ \A n : ReceiptOf(n).kind \notin Mine
                 /\ \A b : Rewritten(b).kind \notin Mine
  BY DEF NoFile, Plain, Mine, ReceiptOf, Rewritten

LEMMA AfterNotMine ==
    ASSUME NEW j, NEW q \in Paths PROVE After(j)[q].kind \notin Mine
  <1>1. \/ After(j)[q] = NoFile \/ After(j)[q] = ReceiptOf(j.apply)
        \/ \E b : After(j)[q] = Rewritten(b)
    BY DEF After
  <1> QED BY <1>1, NotMine

\* A step that neither writes nor is about to is no matter of KeptInv.
LEMMA ElsewhereKept ==
    ASSUME NEW p \in Procs, pc'[p] \notin {"unlink", "rename"} PROVE KeptInv(p)'
  BY DEF KeptInv

LEMMA PublishKept ==
    ASSUME TypeOK, NEW p \in Procs, StepInv(p), Publish(p) PROVE KeptInv(p)'
  <1> DEFINE j == mem[p].journal
  <1>1. UNCHANGED <<file, txn, raced>> /\ backup = j.before
    BY DEF Publish, StepInv, PhaseInv, Held, Moving, rest
  <1>2. CASE Throw(p)
    <2>1. pc'[p] = "handler"
      BY <1>2 DEF Throw, Goto, TypeOK
    <2> QED BY <2>1, ElsewhereKept
  <1>3. ASSUME NEW q \in mem[p].todo, NEW bytes, Write(p, q, bytes), file[q] = j.before[q]
        PROVE  KeptInv(p)'
    <2>1. pc'[p] = "unlink" /\ mem'[p].at = q
      BY <1>3 DEF Write, Goto, TypeOK, Memory
    <2> QED BY <2>1, <1>1, <1>3 DEF KeptInv, txn
  <1> QED BY <1>2, <1>3 DEF Publish

LEMMA RestoreKept ==
    ASSUME TypeOK, NEW p \in Procs, Restore(p) PROVE KeptInv(p)'
  <1> DEFINE j == mem[p].journal
             drifted(q) == ~(file[q] = j.before[q]) /\ (file[q] # After(j)[q] \/ backup[q] # j.before[q])
  <1>1. UNCHANGED <<file, txn>> /\ pc[p] = "restore"
    BY DEF Restore
  <1>2. PICK q \in mem[p].todo :
          \/ UNCHANGED pc
          \/ Write(p, q, j.before[q]) /\ file[q] = After(j)[q]
    BY DEF Restore
  <1>3. CASE UNCHANGED pc
    BY <1>1, <1>3, ElsewhereKept
  <1>4. CASE Write(p, q, j.before[q]) /\ file[q] = After(j)[q]
    <2>1. pc'[p] = "unlink" /\ mem'[p].at = q /\ q \in Paths
      BY <1>4, LocalTypes DEF Write, Goto, TypeOK, Memory
    <2>2. file'[q].kind \notin Mine
      BY <2>1, <1>1, <1>4, AfterNotMine
    <2> QED BY <2>1, <2>2 DEF KeptInv
  <1> QED BY <1>2, <1>3, <1>4

LEMMA UnlinkKept ==
    ASSUME TypeOK, NEW p \in Procs, StepInv(p), Unlink(p) PROVE KeptInv(p)'
  <1>1. /\ pc[p] = "unlink" /\ file' = [file EXCEPT ![mem[p].at] = NoFile]
        /\ mem[p].next \in {"publish", "restore"} /\ mem[p].at \in Paths
    BY LocalTypes DEF Unlink, StepInv, PhaseInv, TypeOK, Memory
  <1>2. CASE mem[p].bytes # NoFile
    <2>1. pc'[p] = "rename" /\ UNCHANGED mem
      BY <1>2 DEF Unlink, Goto, TypeOK
    <2> QED BY <2>1, <1>1 DEF KeptInv, TypeOK
  <1>3. CASE mem[p].bytes = NoFile
    <2>1. pc'[p] = mem[p].next
      BY <1>3 DEF Unlink, Goto, TypeOK
    <2> QED BY <2>1, <1>1, ElsewhereKept
  <1> QED BY <1>2, <1>3

LEMMA RunKept ==
    ASSUME TypeOK, NEW p \in Procs, StepInv(p), Run(p) PROVE KeptInv(p)'
  <1>1. CASE UnlinkJournal(p) \/ Purge(p) \/ StageFiles(p) \/ CheckJournal(p) \/ Snapshot(p)
             \/ ReadContents(p) \/ CheckDrift(p) \/ CheckWritten(p) \/ Verify(p)
             \/ Handler(p) \/ FinishRecovery(p)
    <2>1. pc'[p] \notin {"unlink", "rename"}
      BY <1>1 DEF TypeOK, UnlinkJournal, Purge, StageFiles, CheckJournal, Snapshot, ReadContents,
            CheckDrift, CheckWritten, Verify, Handler, FinishRecovery, WriteJournal, Recover,
            Throw, Leave, Goto
    <2> QED BY <2>1, ElsewhereKept
  <1>2. CASE RenameJournal(p) \/ Rename(p)
    <2>1. pc'[p] \in {"idle", mem[p].next}
      BY <1>2 DEF RenameJournal, Rename, Leave, Goto, TypeOK
    <2>2. mem[p].next \notin {"unlink", "rename"}
      BY <1>2 DEF RenameJournal, Rename, StepInv, PhaseInv, Saving
    <2> QED BY <2>1, <2>2, ElsewhereKept
  <1> QED BY <1>1, <1>2, PublishKept, RestoreKept, UnlinkKept DEF Run

\* An edit of the file that is about to be removed is in the history.
LEMMA EditKept ==
    ASSUME TypeOK, NEW p \in Procs, KeptInv(p), NEW r \in Paths, Edit(r) PROVE KeptInv(p)'
  <1>1. /\ UNCHANGED <<backup, pc, mem>> /\ file' = [file EXCEPT ![r] = Changed(@)]
        /\ file[r].kind \in {"old", "new", "renewed"} /\ file \in [Paths -> Bytes]
        /\ raced \subseteq raced'
    BY DEF Edit, txn, TypeOK
  <1>2. CASE mem[p].at = r /\ pc[p] \in {"unlink", "rename"}
    <2>1. pc[p] = "unlink"
      BY <1>1, <1>2 DEF KeptInv, NoFile, Plain
    <2>2. r \in raced'
      BY <1>2 DEF Edit
    <2> QED BY <2>1, <2>2, <1>1, <1>2 DEF KeptInv
  <1>3. CASE mem[p].at # r \/ pc[p] \notin {"unlink", "rename"}
    BY <1>1, <1>3 DEF KeptInv
  <1> QED BY <1>2, <1>3

LEMMA KeptStep ==
    ASSUME Alone, IInv, \A p \in Procs : KeptInv(p), [Next]_vars
    PROVE  (\A p \in Procs : KeptInv(p))'
  <1> SUFFICES ASSUME NEW r \in Procs PROVE KeptInv(r)'
    OBVIOUS
  <1>1. TypeOK /\ StepInv(r) /\ KeptInv(r)
    BY DEF IInv
  <1>2. ASSUME NEW p \in Procs, StartApply(p) \/ StartRollback(p) \/ Run(p) \/ Crash(p)
        PROVE  KeptInv(r)'
    <2>1. p = r
      BY DEF Alone
    <2>2. CASE StartApply(p) \/ StartRollback(p) \/ Crash(p)
      <3>1. pc'[r] \in {"check", "unlink journal", "idle"}
        BY <2>1, <2>2, <1>1 DEF StartApply, StartRollback, Crash, Recover, Leave, Goto, TypeOK
      <3> QED BY <3>1, ElsewhereKept
    <2> QED BY <2>1, <2>2, <1>1, <1>2, RunKept
  <1>3. ASSUME NEW q \in Paths, Edit(q) PROVE KeptInv(r)'
    BY <1>1, <1>3, EditKept
  <1>4. CASE UNCHANGED vars
    BY <1>1, <1>4 DEF vars, KeptInv
  <1> QED BY <1>2, <1>3, <1>4 DEF Next

\* Only the two writes of a path end an edit.
LEMMA OnlyWritesEndEdits ==
    ASSUME IInv, \A p \in Procs : KeptInv(p), [Next]_vars, NEW q \in Paths,
           file[q].kind \in Mine, file'[q].kind \notin Mine
    PROVE  q \in raced \/ backup[q] = file[q]
  <1>1. file \in [Paths -> Bytes] /\ file'[q] # file[q]
    BY DEF IInv, TypeOK
  <1>2. ASSUME NEW p \in Procs, Unlink(p) PROVE q \in raced \/ backup[q] = file[q]
    <2>1. mem[p].at = q /\ pc[p] = "unlink"
      BY <1>1, <1>2 DEF Unlink
    <2> QED BY <2>1 DEF KeptInv
  <1>3. ASSUME NEW p \in Procs, Rename(p) PROVE FALSE
    <2>1. mem[p].at = q /\ pc[p] = "rename"
      BY <1>1, <1>3 DEF Rename
    <2> QED BY <2>1, NotMine DEF KeptInv
  <1>4. ASSUME NEW p \in Procs, StartApply(p) \/ StartRollback(p) \/ Run(p) \/ Crash(p),
               ~Unlink(p), ~Rename(p)
        PROVE  FALSE
    <2>1. UNCHANGED file
      BY <1>4 DEF Run, StartApply, StartRollback, Crash, UnlinkJournal, RenameJournal, Purge,
            StageFiles, CheckJournal, Snapshot, ReadContents, CheckDrift, Publish, CheckWritten,
            Verify, Handler, Restore, FinishRecovery
    <2> QED BY <2>1, <1>1
  <1>5. ASSUME NEW r \in Paths, Edit(r) PROVE FALSE
    <2>1. file'[q] = Changed(file[q]) /\ q = r /\ file[r].kind \in {"old", "new", "renewed"}
      BY <1>1, <1>5 DEF Edit
    <2> QED BY <2>1 DEF Mine
  <1>6. CASE UNCHANGED vars
    BY <1>6, <1>1 DEF vars
  <1> QED BY <1>2, <1>3, <1>4, <1>5, <1>6 DEF Next

\* A command that runs alone removes no bytes written by anybody else, except
\* those that came after it had compared the file or that it has a copy of.
THEOREM EditsAreKept ==
    ASSUME Alone PROVE Spec => EditsKept
  <1> DEFINE Kept == \A p \in Procs : KeptInv(p)
  <1>1. Init => Kept
    BY DEF Init, KeptInv
  <1>2. IInv /\ Kept /\ [Next]_vars => Kept'
    BY KeptStep
  <1>3. IInv /\ Kept /\ [Next]_vars =>
            [\A q \in Paths :
                file[q].kind \in {"edited", "amended"} /\ file'[q].kind \notin {"edited", "amended"} =>
                    q \in raced \/ backup[q] = file[q]]_vars
    BY OnlyWritesEndEdits DEF Mine
  <1> QED BY <1>1, <1>2, <1>3, Invariance, PTL DEF Spec, EditsKept

===============================================================================
