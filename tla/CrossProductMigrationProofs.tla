--------------------- MODULE CrossProductMigrationProofs ---------------------
(***************************************************************************)
(* Proofs about CrossProductMigration: types for any processes, and, for     *)
(* commands that run one at a time with any deaths and edits, that an old ID *)
(* keeps leading to its item, that the journal tells what the files are, and *)
(* that no write of others that a comparison can notice is lost.             *)
(***************************************************************************)
EXTENDS CrossProductMigration, TLAPS

\* The parts of a state that one action may leave alone.
LocalsOK == pc' \in [Procs -> Steps] /\ mem' \in [Procs -> Memory]
FileOK == file' \in [Paths -> Contents]
TxnOK == /\ journal' \in Journal
         /\ backup' \in [Paths -> Contents] /\ stage' \in [Paths -> Contents]
RestOK == /\ undone' \in BOOLEAN /\ raced' \subseteq 1..MaxEdits /\ applies' \in 0..MaxApplies
          /\ edits' \in 0..MaxEdits /\ crashes' \in 0..MaxCrashes

LEMMA ContentsOK ==
    /\ NoFile \in Contents /\ NoFiles \in [Paths -> Contents] /\ Reviewed \in [Paths -> Contents]
    /\ \A c \in Contents : [c EXCEPT !.form = "new"] \in Contents
    /\ Untouched("new") \in Contents
  <1>1. NoFile \in Contents /\ Untouched("old") \in Contents /\ Untouched("new") \in Contents
    BY DEF NoFile, Untouched, Contents
  <1>2. Reviewed \in [Paths -> Contents] /\ NoFiles \in [Paths -> Contents]
    BY <1>1 DEF Reviewed, NoFiles
  <1>3. \A c \in Contents : [c EXCEPT !.form = "new"] \in Contents
    BY DEF Contents
  <1> QED BY <1>1, <1>2, <1>3

LEMMA EmptyOK == NoJournal \in Journal /\ NoMemory \in Memory
  <1>1. NoJournal \in Journal
    BY ContentsOK DEF NoJournal, Journal, Statuses
  <1>2. Index \in Paths /\ {} \in SUBSET Paths
    BY DEF Paths
  <1> QED BY <1>1, <1>2, ContentsOK DEF NoMemory, Memory, Steps

LEMMA AfterOK ==
    ASSUME NEW f \in [Paths -> Contents] PROVE After(f) \in [Paths -> Contents]
  <1> SUFFICES ASSUME NEW q \in Paths
               PROVE  (CASE q \in Sources -> NoFile
                         [] q \in Targets -> [f[Source(q[2])] EXCEPT !.form = "new"]
                         [] q = Alias     -> Untouched("new")
                         [] OTHER         -> [f[q] EXCEPT !.form = "new"]) \in Contents
    BY DEF After
  <1>1. ASSUME q \in Targets PROVE f[Source(q[2])] \in Contents
    <2>1. PICK m \in Moved : q = Target(m)
      BY <1>1 DEF Targets
    <2>2. q[2] = m /\ Source(m) \in Paths
      BY <2>1 DEF Target, Paths, Sources
    <2> QED BY <2>2
  <1>2. f[q] \in Contents
    OBVIOUS
  <1> QED BY <1>1, <1>2, ContentsOK

LEMMA GotoOK ==
    ASSUME TypeOK, NEW p \in Procs, NEW step \in Steps, Goto(p, step)
    PROVE  pc' \in [Procs -> Steps]
  BY DEF TypeOK, Goto

LEMMA ForgetOK ==
    ASSUME TypeOK, NEW p \in Procs, Leave(p) \/ Throw(p) PROVE LocalsOK
  <1>1. {"idle", "handler"} \subseteq Steps
    BY DEF Steps
  <1>2. pc' \in [Procs -> Steps]
    BY <1>1, GotoOK DEF Leave, Throw
  <1>3. mem' \in [Procs -> Memory]
    BY EmptyOK DEF Leave, Throw, TypeOK
  <1> QED BY <1>2, <1>3 DEF LocalsOK

LEMMA LocalTypes ==
    ASSUME TypeOK, NEW p \in Procs
    PROVE  /\ mem[p] \in Memory /\ mem[p].journal \in Journal /\ mem[p].bytes \in Contents
           /\ mem[p].next \in Steps /\ pc[p] \in Steps /\ mem[p].at \in Paths
           /\ mem[p].todo \subseteq Paths /\ mem[p].failed \in BOOLEAN
           /\ mem[p].automatic \in BOOLEAN
  BY DEF TypeOK, Memory

LEMMA WriteJournalOK ==
    ASSUME TypeOK, NEW p \in Procs, NEW j \in Journal, NEW next \in Steps,
           WriteJournal(p, j, next)
    PROVE  LocalsOK
  <1>1. pc' \in [Procs -> Steps]
    BY GotoOK DEF WriteJournal, Steps
  <1>2. mem' \in [Procs -> Memory]
    BY DEF WriteJournal, TypeOK, Memory
  <1> QED BY <1>1, <1>2 DEF LocalsOK

LEMMA WriteOK ==
    ASSUME TypeOK, NEW p \in Procs, NEW q \in Paths, NEW bytes \in Contents, Write(p, q, bytes)
    PROVE  LocalsOK
  <1>1. pc' \in [Procs -> Steps]
    BY GotoOK DEF Write, Steps
  <1>2. [mem[p] EXCEPT !.at = q, !.bytes = bytes, !.next = pc[p]] \in Memory
    BY LocalTypes DEF Memory
  <1>3. mem' = [mem EXCEPT ![p] = [mem[p] EXCEPT !.at = q, !.bytes = bytes, !.next = pc[p]]]
    BY DEF Write, TypeOK
  <1>4. mem' \in [Procs -> Memory]
    BY <1>2, <1>3 DEF TypeOK
  <1> QED BY <1>1, <1>4 DEF LocalsOK

LEMMA StatusOK ==
    ASSUME NEW j \in Journal, NEW s \in Statuses PROVE [j EXCEPT !.status = s] \in Journal
  BY DEF Journal

LEMMA BeginOK ==
    ASSUME TypeOK, NEW p \in Procs, NEW automatic \in BOOLEAN, Begin(p, automatic)
    PROVE  LocalsOK /\ undone' \in BOOLEAN
  <1> DEFINE legal == \A q \in Paths : file[q] \in {journal.before[q], journal.after[q]}
  <1>0. journal \in Journal
    BY DEF TypeOK
  <1>1. CASE legal
    <2>1. /\ undone' = TRUE /\ Goto(p, "restore")
          /\ mem' = [mem EXCEPT ![p] = [NoMemory EXCEPT
                 !.journal = journal, !.automatic = automatic, !.todo = Paths]]
      BY <1>1 DEF Begin
    <2>2. [NoMemory EXCEPT !.journal = journal, !.automatic = automatic, !.todo = Paths] \in Memory
      BY <1>0, EmptyOK DEF Memory
    <2>3. mem' \in [Procs -> Memory]
      BY <2>1, <2>2 DEF TypeOK
    <2>4. pc' \in [Procs -> Steps]
      BY <2>1, GotoOK DEF Steps
    <2> QED BY <2>1, <2>3, <2>4 DEF LocalsOK
  <1>2. CASE ~legal
    <2>1. UNCHANGED undone /\ IF automatic
            THEN WriteJournal(p, [journal EXCEPT !.status = "recovery_required"], "idle")
            ELSE Leave(p)
      BY <1>2 DEF Begin
    <2>2. [journal EXCEPT !.status = "recovery_required"] \in Journal /\ "idle" \in Steps
      BY <1>0, StatusOK DEF Statuses, Steps
    <2>3. undone' \in BOOLEAN
      BY <2>1 DEF TypeOK
    <2> QED BY <2>1, <2>2, <2>3, WriteJournalOK, ForgetOK
  <1> QED BY <1>1, <1>2

\* Every step of a running command keeps the types.
LEMMA RunTypes ==
    ASSUME TypeOK, NEW p \in Procs, Run(p) PROVE LocalsOK /\ FileOK /\ TxnOK /\ RestOK
  <1> USE DEF rest, txn
  <1>0. /\ file \in [Paths -> Contents] /\ journal \in Journal /\ backup \in [Paths -> Contents]
        /\ stage \in [Paths -> Contents] /\ pc \in [Procs -> Steps] /\ mem \in [Procs -> Memory]
    BY DEF TypeOK
  <1>r. UNCHANGED rest => RestOK
    BY DEF RestOK, TypeOK
  <1>f. UNCHANGED file => FileOK
    BY <1>0 DEF FileOK
  <1>t. UNCHANGED txn => TxnOK
    BY <1>0 DEF TxnOK
  <1>l. ASSUME NEW step \in Steps, Goto(p, step), UNCHANGED mem PROVE LocalsOK
    BY <1>l, <1>0, GotoOK DEF LocalsOK
  <1>s. Steps = {"idle", "check", "plan", "read", "copy", "purge", "snapshot", "drift", "publish",
                 "verify", "handler", "restore", "unlink", "rename", "unlink journal",
                 "rename journal"}
    BY DEF Steps
  <1>j. ASSUME NEW s \in Statuses PROVE [mem[p].journal EXCEPT !.status = s] \in Journal
    BY LocalTypes, StatusOK
  <1>1. CASE UnlinkJournal(p)
    BY <1>1, <1>0, <1>r, <1>f, <1>l, <1>s, EmptyOK DEF UnlinkJournal, TxnOK
  <1>2. CASE RenameJournal(p)
    <2>1. LocalsOK
      BY <1>2, <1>l, LocalTypes, ForgetOK DEF RenameJournal
    <2>2. RestOK
      BY <1>2 DEF RenameJournal, RestOK, TypeOK
    <2> QED BY <2>1, <2>2, <1>2, <1>0, <1>f, LocalTypes DEF RenameJournal, TxnOK
  <1>3. CASE Unlink(p)
    <2>1. FileOK
      BY <1>3, <1>0, ContentsOK DEF Unlink, FileOK
    <2>2. CASE mem[p].bytes # NoFile
      BY <2>1, <2>2, <1>3, <1>r, <1>t, <1>l, <1>s DEF Unlink
    <2>3. CASE mem[p].bytes = NoFile
      <3>1. mem' \in [Procs -> Memory]
        BY <2>3, <1>3, <1>0 DEF Unlink, Memory
      <3>2. pc' \in [Procs -> Steps]
        BY <2>3, <1>3, LocalTypes, GotoOK DEF Unlink
      <3> QED BY <3>1, <3>2, <2>1, <1>3, <1>r, <1>t DEF Unlink, LocalsOK
    <2> QED BY <2>2, <2>3
  <1>4. CASE Rename(p)
    <2>1. FileOK
      BY <1>4, <1>0, LocalTypes DEF Rename, FileOK
    <2>2. mem' \in [Procs -> Memory]
      BY <1>4, <1>0 DEF Rename, Memory
    <2>3. pc' \in [Procs -> Steps]
      BY <1>4, LocalTypes, GotoOK DEF Rename
    <2> QED BY <2>1, <2>2, <2>3, <1>4, <1>r, <1>t DEF Rename, LocalsOK
  <1>5. CASE CheckJournal(p)
    BY <1>5, <1>r, <1>f, <1>t, <1>l, <1>s DEF CheckJournal
  <1>6. CASE Plan(p)
    BY <1>6, <1>r, <1>f, <1>t, <1>l, <1>s DEF Plan
  <1>7. CASE ReadContents(p)
    <2>1. UNCHANGED <<file, txn, rest>>
      BY <1>7 DEF ReadContents
    <2>2. CASE Throw(p)
      BY <2>1, <2>2, <1>r, <1>f, <1>t, ForgetOK
    <2>3. CASE Goto(p, "copy") /\ mem' = [mem EXCEPT ![p].journal.after = After(file)]
      <3>1. [mem[p].journal EXCEPT !.after = After(file)] \in Journal
        BY <1>0, LocalTypes, AfterOK DEF Journal
      <3>2. mem' \in [Procs -> Memory]
        BY <3>1, <2>3, <1>0 DEF Memory
      <3>3. pc' \in [Procs -> Steps]
        BY <2>3, <1>s, GotoOK
      <3> QED BY <3>2, <3>3, <2>1, <1>r, <1>f, <1>t DEF LocalsOK
    <2> QED BY <2>2, <2>3, <1>7 DEF ReadContents
  <1>8. CASE CopyIndex(p)
    <2>1. UNCHANGED <<file, txn, rest>>
      BY <1>8 DEF CopyIndex
    <2>2. CASE Throw(p)
      BY <2>1, <2>2, <1>r, <1>f, <1>t, ForgetOK
    <2>3. CASE /\ Goto(p, "purge")
               /\ mem' = [mem EXCEPT ![p].journal.after[Index] = After(file)[Index]]
      <3>1. After(file)[Index] \in Contents
        BY <1>0, AfterOK DEF Paths
      <3>2. [mem[p].journal EXCEPT !.after[Index] = After(file)[Index]] \in Journal
        BY <3>1, LocalTypes DEF Journal
      <3>3. mem' \in [Procs -> Memory]
        BY <3>2, <2>3, <1>0 DEF Memory
      <3>4. pc' \in [Procs -> Steps]
        BY <2>3, <1>s, GotoOK
      <3> QED BY <3>3, <3>4, <2>1, <1>r, <1>f, <1>t DEF LocalsOK
    <2> QED BY <2>2, <2>3, <1>8 DEF CopyIndex
  <1>9. CASE Purge(p)
    <2>1. TxnOK
      BY <1>9, <1>0, ContentsOK DEF Purge, TxnOK
    <2>2. backup[Index].has \subseteq 1..MaxEdits
      BY <1>0 DEF Paths, Contents
    <2>3. raced' \subseteq 1..MaxEdits
      BY <2>2, <1>9 DEF Purge, TypeOK
    <2>4. RestOK
      BY <2>3, <1>9 DEF Purge, RestOK, TypeOK
    <2> QED BY <2>1, <2>4, <1>9, <1>f, <1>l, <1>s DEF Purge
  <1>10. CASE Snapshot(p)
    <2>1. UNCHANGED <<file, journal, rest>>
      BY <1>10 DEF Snapshot
    <2>2. ASSUME NEW done \in SUBSET Paths, Throw(p),
                 backup' = [q \in Paths |-> IF q \in done THEN file[q] ELSE NoFile],
                 stage' = [q \in Paths |->
                              IF q \in done THEN mem[p].journal.after[q] ELSE NoFile]
          PROVE  LocalsOK /\ FileOK /\ TxnOK /\ RestOK
      <3>1. mem[p].journal.after \in [Paths -> Contents] /\ NoFile \in Contents
        BY LocalTypes, EmptyOK DEF Journal, NoFile, Contents
      <3>2. TxnOK
        BY <3>1, <2>1, <2>2, <1>0 DEF TxnOK
      <3> QED BY <3>2, <2>1, <2>2, <1>r, <1>f, ForgetOK
    <2>3. CASE /\ backup' = file /\ stage' = mem[p].journal.after
               /\ WriteJournal(p, [mem[p].journal EXCEPT !.status = "prepared", !.before = file],
                               "drift")
      <3>1. mem[p].journal.after \in [Paths -> Contents]
        BY LocalTypes DEF Journal
      <3>2. [mem[p].journal EXCEPT !.status = "prepared", !.before = file] \in Journal
        BY <1>0, LocalTypes DEF Journal, Statuses
      <3>3. LocalsOK
        BY <3>2, <2>3, <1>s, WriteJournalOK
      <3>4. TxnOK
        BY <3>1, <2>1, <2>3, <1>0 DEF TxnOK
      <3> QED BY <3>3, <3>4, <2>1, <1>r, <1>f
    <2> QED BY <2>2, <2>3, <1>10 DEF Snapshot
  <1>11. CASE CheckDrift(p)
    <2>1. UNCHANGED <<file, txn, rest>>
      BY <1>11 DEF CheckDrift
    <2>2. CASE Throw(p)
      BY <2>1, <2>2, <1>r, <1>f, <1>t, ForgetOK
    <2>3. CASE Goto(p, "publish") /\ mem' = [mem EXCEPT ![p].todo = Paths]
      <3>1. mem' \in [Procs -> Memory]
        BY <2>3, <1>0 DEF Memory
      <3>2. pc' \in [Procs -> Steps]
        BY <2>3, <1>s, GotoOK
      <3> QED BY <3>1, <3>2, <2>1, <1>r, <1>f, <1>t DEF LocalsOK
    <2> QED BY <2>2, <2>3, <1>11 DEF CheckDrift
  <1>12. CASE Publish(p)
    <2>1. UNCHANGED <<file, txn, rest>>
      BY <1>12 DEF Publish
    <2>2. CASE Throw(p)
      BY <2>1, <2>2, <1>r, <1>f, <1>t, ForgetOK
    <2>3. CASE \E q \in mem[p].todo : Write(p, q, IF q \in Sources THEN NoFile ELSE stage[q])
      <3>1. PICK q \in mem[p].todo : Write(p, q, IF q \in Sources THEN NoFile ELSE stage[q])
        BY <2>3
      <3>2. q \in Paths /\ (IF q \in Sources THEN NoFile ELSE stage[q]) \in Contents
        BY <1>0, LocalTypes, ContentsOK
      <3>3. LocalsOK
        BY <3>1, <3>2, WriteOK
      <3> QED BY <3>3, <2>1, <1>r, <1>f, <1>t
    <2> QED BY <2>2, <2>3, <1>12 DEF Publish
  <1>13. CASE CheckWritten(p)
    <2>1. LocalsOK
      BY <1>13, <1>j, <1>s, WriteJournalOK, ForgetOK DEF CheckWritten, Statuses
    <2> QED BY <2>1, <1>13, <1>r, <1>f, <1>t DEF CheckWritten
  <1>14. CASE Verify(p)
    BY <1>14, <1>r, <1>f, <1>t, ForgetOK DEF Verify
  <1>15. CASE Handler(p)
    <2>1. LocalsOK /\ undone' \in BOOLEAN
      BY <1>15, BeginOK, ForgetOK DEF Handler, TypeOK
    <2>2. RestOK
      BY <2>1, <1>15 DEF Handler, RestOK, TypeOK
    <2> QED BY <2>1, <2>2, <1>15, <1>f, <1>t DEF Handler
  <1>16. CASE Restore(p)
    <2>1. UNCHANGED <<file, txn, rest>>
      BY <1>16 DEF Restore
    <2>2. PICK q \in mem[p].todo :
            \/ Write(p, q, mem[p].journal.before[q])
            \/ mem' = [mem EXCEPT ![p].todo = @ \ {q}, ![p].failed = TRUE] /\ UNCHANGED pc
      BY <1>16 DEF Restore
    <2>3. q \in Paths /\ mem[p].journal.before[q] \in Contents
      BY LocalTypes DEF Journal
    <2>4. CASE Write(p, q, mem[p].journal.before[q])
      BY <2>4, <2>3, <2>1, <1>r, <1>f, <1>t, WriteOK
    <2>5. CASE mem' = [mem EXCEPT ![p].todo = @ \ {q}, ![p].failed = TRUE] /\ UNCHANGED pc
      <3>1. mem' \in [Procs -> Memory]
        BY <2>5, <1>0 DEF Memory
      <3> QED BY <3>1, <2>5, <2>1, <1>0, <1>r, <1>f, <1>t DEF LocalsOK
    <2> QED BY <2>2, <2>4, <2>5
  <1>17. CASE FinishRecovery(p)
    <2>1. LocalsOK
      BY <1>17, <1>j, <1>s, WriteJournalOK, ForgetOK DEF FinishRecovery, Statuses
    <2> QED BY <2>1, <1>17, <1>r, <1>f, <1>t DEF FinishRecovery
  <1> QED BY <1>1, <1>2, <1>3, <1>4, <1>5, <1>6, <1>7, <1>8, <1>9, <1>10, <1>11, <1>12, <1>13,
             <1>14, <1>15, <1>16, <1>17 DEF Run

LEMMA TypeStep == ASSUME TypeOK, [Next]_vars PROVE TypeOK'
  <1> USE DEF txn
  <1>1. ASSUME LocalsOK, FileOK, TxnOK, RestOK PROVE TypeOK'
    BY <1>1 DEF TypeOK, LocalsOK, FileOK, TxnOK, RestOK
  <1>2. ASSUME NEW p \in Procs, StartApply(p) PROVE TypeOK'
    <2>1. LocalsOK
      BY <1>2, GotoOK DEF StartApply, LocalsOK, TypeOK, Steps
    <2> QED BY <2>1, <1>1, <1>2, BoundsAssumption DEF StartApply, FileOK, TxnOK, RestOK, TypeOK
  <1>3. ASSUME NEW p \in Procs, StartRollback(p) PROVE TypeOK'
    BY <1>1, <1>3, BeginOK DEF StartRollback, FileOK, TxnOK, RestOK, TypeOK
  <1>4. ASSUME NEW p \in Procs, Run(p) PROVE TypeOK'
    BY <1>1, <1>4, RunTypes
  <1>5. ASSUME NEW p \in Procs, Crash(p) PROVE TypeOK'
    BY <1>1, <1>5, ForgetOK, BoundsAssumption DEF Crash, FileOK, TxnOK, RestOK, TypeOK
  <1>6. ASSUME NEW q \in Paths, Edit(q) PROVE TypeOK'
    <2>1. edits + 1 \in 1..MaxEdits
      BY <1>6, BoundsAssumption DEF Edit, TypeOK
    <2>2. file[q] \in Contents
      BY DEF TypeOK
    <2>3. [file[q] EXCEPT !.has = @ \cup {edits + 1}] \in Contents
      BY <2>1, <2>2 DEF Contents
    <2>4. FileOK
      BY <2>3, <1>6 DEF Edit, FileOK, TypeOK
    <2>5. raced' \subseteq 1..MaxEdits
      BY <2>1, <1>6 DEF Edit, TypeOK
    <2>6. edits' \in 0..MaxEdits
      BY <2>1, <1>6 DEF Edit
    <2> QED BY <2>4, <2>5, <2>6, <1>6 DEF Edit, TypeOK, FileOK
  <1>7. CASE UNCHANGED vars
    BY <1>7 DEF vars, TypeOK
  <1> QED BY <1>2, <1>3, <1>4, <1>5, <1>6, <1>7 DEF Next

LEMMA InitTypes == ASSUME Init PROVE TypeOK
  <1>1. /\ file = Reviewed /\ journal = NoJournal /\ backup = NoFiles /\ stage = NoFiles
        /\ pc = [p \in Procs |-> "idle"] /\ mem = [p \in Procs |-> NoMemory]
        /\ undone = FALSE /\ raced = {} /\ applies = 0 /\ edits = 0 /\ crashes = 0
    BY DEF Init
  <1>2. pc \in [Procs -> Steps] /\ mem \in [Procs -> Memory]
    BY <1>1, EmptyOK DEF Steps
  <1>3. undone \in BOOLEAN /\ raced \subseteq 1..MaxEdits
    BY <1>1
  <1>4. applies \in 0..MaxApplies /\ edits \in 0..MaxEdits /\ crashes \in 0..MaxCrashes
    BY <1>1, BoundsAssumption
  <1>5. /\ file \in [Paths -> Contents] /\ journal \in Journal
        /\ backup \in [Paths -> Contents] /\ stage \in [Paths -> Contents]
    BY <1>1, ContentsOK, EmptyOK
  <1> QED BY <1>2, <1>3, <1>4, <1>5 DEF TypeOK

\* Whatever processes there are and however their accesses interleave, every
\* variable keeps its type.
THEOREM TypeCorrect == Spec => []TypeOK
  <1>1. Init => TypeOK
    BY InitTypes
  <1>2. TypeOK /\ [Next]_vars => TypeOK'
    BY TypeStep
  <1> QED BY <1>1, <1>2, PTL DEF Spec

-------------------------------------------------------------------------------
(* Commands that run one at a time. *)

Alone == \A p, r \in Procs : p = r

Successors == Targets \cup {Alias}
SourcesThere == \A q \in Sources : file[q] # NoFile
SuccessorsThere == \A q \in Successors : file[q] # NoFile

\* A journal is only written of sources that were there.
Lawful(j) == \A q \in Sources : j.before[q] # NoFile

Agrees(settled) == \A q \in Paths :
    file[q].form = settled[q].form /\ settled[q].has \subseteq file[q].has

Told(j) ==
    /\ j.status = "applied" => Agrees(j.after)
    /\ j.status = "rolled_back" => Agrees(j.before)

Moving(p) == pc[p] \in {"unlink", "rename"}
Saving(p) == pc[p] \in {"unlink journal", "rename journal"}
Publishing(p) == pc[p] = "publish" \/ (Moving(p) /\ mem[p].next = "publish")
Restoring(p) == pc[p] = "restore" \/ (Moving(p) /\ mem[p].next = "restore")

JournalInv ==
    /\ journal.status # "none" => Lawful(journal)
    /\ undone \/ Told(journal)

\* No source goes before all its successors have come.
PublishInv(p) ==
    /\ journal.status = "prepared" /\ Lawful(mem[p].journal)
    /\ \A q \in Successors : q \in mem[p].todo \/ file[q] # NoFile
    /\ SourcesThere \/ \A q \in Successors : q \notin mem[p].todo

MoveInv(p) ==
    /\ mem[p].next \in {"publish", "restore"}
    /\ pc[p] = "rename" => mem[p].bytes # NoFile
    /\ mem[p].next = "publish" =>
          /\ mem[p].at \in mem[p].todo
          /\ mem[p].at \in Sources => \A q \in Successors : q \notin mem[p].todo
          /\ mem[p].at \in Successors => mem[p].bytes # NoFile

SaveInv(p) ==
    /\ mem[p].next \in {"drift", "verify", "idle"}
    /\ mem[p].journal.status # "none" /\ Lawful(mem[p].journal) /\ Told(mem[p].journal)
    /\ mem[p].journal.status \in {"prepared", "rolled_back"} => SourcesThere
    /\ mem[p].journal.status = "applied" => SuccessorsThere
    /\ mem[p].next = "drift" => mem[p].journal.status = "prepared"

PhaseInv(p) ==
    /\ pc[p] = "drift" =>
          SourcesThere /\ journal.status = "prepared" /\ Lawful(mem[p].journal)
    /\ Publishing(p) => PublishInv(p)
    /\ Moving(p) => MoveInv(p)
    /\ Restoring(p) => undone /\ Lawful(mem[p].journal)
    /\ Saving(p) => SaveInv(p)

StepInv(p) == JournalInv /\ OldIdResolves /\ PhaseInv(p)

IInv == TypeOK /\ \A p \in Procs : StepInv(p)

LEMMA Disjoint ==
    /\ \A q \in Sources : q \notin Successors /\ q \in Paths
    /\ \A q \in Successors : q \in Paths /\ PublishRank(q) \in {1, 2}
    /\ \A q \in Sources : PublishRank(q) = 4
  <1>1. ASSUME NEW q \in Sources PROVE q \notin Targets /\ q # Alias /\ q \notin References
    <2>1. PICK m \in Moved : q = <<"source", m>>
      BY DEF Sources, Source
    <2>2. q[1] = "source"
      BY <2>1
    <2>3. \A r \in Targets \cup {Alias} \cup References : r[1] # "source"
      BY DEF Targets, Target, Alias, References
    <2> QED BY <2>2, <2>3
  <1>2. \A q \in Sources : q \in Paths /\ PublishRank(q) = 4
    BY <1>1 DEF Paths, PublishRank
  <1>3. \A q \in Successors : q \in Paths /\ PublishRank(q) \in {1, 2}
    <2>1. Alias \notin Targets
      BY DEF Alias, Targets, Target
    <2>2. ASSUME NEW q \in Targets PROVE q \notin References /\ q \notin Sources
      BY <1>1 DEF Targets, Target, References
    <2>3. Alias \notin References /\ Alias \notin Sources
      BY <1>1 DEF Alias, References
    <2> QED BY <2>1, <2>2, <2>3 DEF Successors, Paths, PublishRank
  <1> QED BY <1>1, <1>2, <1>3 DEF Successors

LEMMA Resolves == ASSUME SourcesThere \/ SuccessorsThere PROVE OldIdResolves
  BY DEF SourcesThere, SuccessorsThere, OldIdResolves, Sources, Targets, Successors

LEMMA ResolvesNext ==
    ASSUME SourcesThere' \/ SuccessorsThere' PROVE OldIdResolves'
  BY DEF SourcesThere, SuccessorsThere, OldIdResolves, Sources, Targets, Successors

\* A step in which nothing shared changes, to a place that promises nothing.
Quiet == {"idle", "check", "plan", "read", "copy", "purge", "snapshot", "verify", "handler"}

LEMMA QuietPhase ==
    ASSUME NEW p \in Procs, pc'[p] \in Quiet PROVE PhaseInv(p)'
  BY DEF PhaseInv, Publishing, Moving, Restoring, Saving, Quiet

LEMMA QuietStep ==
    ASSUME NEW p \in Procs, StepInv(p), pc'[p] \in Quiet, UNCHANGED <<file, journal, undone>>
    PROVE  StepInv(p)'
  <1>1. PhaseInv(p)'
    BY QuietPhase
  <1>2. JournalInv' /\ OldIdResolves'
    BY DEF StepInv, JournalInv, OldIdResolves, Lawful, Told, Agrees
  <1> QED BY <1>1, <1>2 DEF StepInv

\* A step in which only the locals change.
LEMMA LocalStep ==
    ASSUME NEW p \in Procs, StepInv(p), UNCHANGED <<file, journal, undone>>, PhaseInv(p)'
    PROVE  StepInv(p)'
  BY DEF StepInv, JournalInv, OldIdResolves, Lawful, Told, Agrees

LEMMA GotoPlace ==
    ASSUME TypeOK, NEW p \in Procs, NEW step, Goto(p, step) PROVE pc'[p] = step
  BY DEF TypeOK, Goto

LEMMA ForgetPlace ==
    ASSUME TypeOK, NEW p \in Procs, Leave(p) \/ Throw(p) PROVE pc'[p] \in Quiet
  BY DEF TypeOK, Goto, Leave, Throw, Quiet

LEMMA SavePlace ==
    ASSUME TypeOK, NEW p \in Procs, NEW j, NEW next, WriteJournal(p, j, next)
    PROVE  pc'[p] = "unlink journal" /\ mem'[p].journal = j /\ mem'[p].next = next
  BY DEF TypeOK, Memory, WriteJournal, Goto

LEMMA WritePlace ==
    ASSUME TypeOK, NEW p \in Procs, NEW q, NEW bytes, Write(p, q, bytes)
    PROVE  /\ pc'[p] = "unlink" /\ mem'[p].next = pc[p] /\ mem'[p].at = q
           /\ mem'[p].bytes = bytes /\ mem'[p].todo = mem[p].todo
           /\ mem'[p].journal = mem[p].journal
  <1>1. mem' = [mem EXCEPT ![p] = [mem[p] EXCEPT !.at = q, !.bytes = bytes, !.next = pc[p]]]
    BY DEF Write, TypeOK
  <1>2. mem'[p] = [mem[p] EXCEPT !.at = q, !.bytes = bytes, !.next = pc[p]]
    BY <1>1 DEF TypeOK
  <1>3. /\ mem'[p].next = pc[p] /\ mem'[p].at = q /\ mem'[p].bytes = bytes
        /\ mem'[p].todo = mem[p].todo /\ mem'[p].journal = mem[p].journal
    BY <1>2, LocalTypes DEF Memory
  <1>4. pc'[p] = "unlink"
    BY GotoPlace DEF Write
  <1> QED BY <1>3, <1>4

LEMMA SavePhase ==
    ASSUME NEW p \in Procs, pc'[p] = "unlink journal", SaveInv(p)' PROVE PhaseInv(p)'
  BY DEF PhaseInv, Publishing, Moving, Restoring, Saving

LEMMA SnapshotStep ==
    ASSUME TypeOK, NEW p \in Procs, StepInv(p), Snapshot(p) PROVE StepInv(p)'
  <1>1. UNCHANGED <<file, journal, undone>>
    BY DEF Snapshot, rest
  <1>2. CASE Throw(p)
    BY <1>1, <1>2, ForgetPlace, QuietStep
  <1>3. CASE /\ \A q \in Paths : Admits(q)
             /\ WriteJournal(p, [mem[p].journal EXCEPT !.status = "prepared", !.before = file],
                             "drift")
    <2> DEFINE j == [mem[p].journal EXCEPT !.status = "prepared", !.before = file]
    <2>1. WriteJournal(p, j, "drift")
      BY <1>3
    <2>2. j.status = "prepared" /\ j.before = file
      BY LocalTypes DEF Journal
    <2> HIDE DEF j
    <2>3. SourcesThere' /\ Lawful(j)
      BY <1>1, <1>3, <2>2, Disjoint DEF SourcesThere, Lawful, Admits, Successors
    <2>4. SaveInv(p)'
      BY <2>1, <2>2, <2>3, SavePlace DEF SaveInv, Told, Lawful
    <2> QED BY <2>4, <2>1, <1>1, SavePlace, SavePhase, LocalStep
  <1> QED BY <1>2, <1>3 DEF Snapshot

LEMMA CheckDriftStep ==
    ASSUME TypeOK, NEW p \in Procs, StepInv(p), CheckDrift(p) PROVE StepInv(p)'
  <1>1. UNCHANGED <<file, journal, undone>> /\ pc[p] = "drift"
    BY DEF CheckDrift, rest, txn
  <1>2. CASE Throw(p)
    BY <1>1, <1>2, ForgetPlace, QuietStep
  <1>3. CASE Goto(p, "publish") /\ mem' = [mem EXCEPT ![p].todo = Paths]
    <2>1. pc'[p] = "publish" /\ mem'[p].todo = Paths /\ mem'[p].journal = mem[p].journal
      BY <1>3 DEF Goto, TypeOK, Memory
    <2>2. SourcesThere /\ journal.status = "prepared" /\ Lawful(mem[p].journal)
      BY <1>1 DEF StepInv, PhaseInv
    <2>3. SourcesThere' /\ journal'.status = "prepared" /\ Lawful(mem'[p].journal)
      BY <2>1, <2>2, <1>1 DEF SourcesThere
    <2>4. PublishInv(p)'
      BY <2>1, <2>3, Disjoint DEF PublishInv
    <2>5. PhaseInv(p)'
      BY <2>1, <2>4 DEF PhaseInv, Publishing, Moving, Restoring, Saving
    <2> QED BY <2>5, <1>1, LocalStep
  <1> QED BY <1>2, <1>3 DEF CheckDrift

LEMMA PublishStep ==
    ASSUME TypeOK, NEW p \in Procs, StepInv(p), Publish(p) PROVE StepInv(p)'
  <1>1. UNCHANGED <<file, journal, undone>> /\ pc[p] = "publish"
    BY DEF Publish, rest, txn
  <1>2. CASE Throw(p)
    BY <1>1, <1>2, ForgetPlace, QuietStep
  <1>3. CASE ~Throw(p)
    <2> DEFINE bytes(q) == IF q \in Sources THEN NoFile ELSE stage[q]
    <2>1. PICK q \in mem[p].todo :
            /\ \A r \in mem[p].todo : PublishRank(q) <= PublishRank(r)
            /\ q \in Sources \/ stage[q] # NoFile
            /\ Write(p, q, bytes(q))
      BY <1>3 DEF Publish
    <2>2. PublishInv(p)
      BY <1>1 DEF StepInv, PhaseInv, Publishing
    <2>3. q \in Sources => \A r \in Successors : r \notin mem[p].todo
      <3> SUFFICES ASSUME q \in Sources, NEW r \in Successors, r \in mem[p].todo PROVE FALSE
        OBVIOUS
      <3>1. PublishRank(q) = 4 /\ PublishRank(r) \in {1, 2} /\ PublishRank(q) <= PublishRank(r)
        BY <2>1, Disjoint
      <3> QED BY <3>1
    <2>4. q \in Successors => bytes(q) # NoFile
      BY <2>1, Disjoint
    <2>5. /\ pc'[p] = "unlink" /\ mem'[p].next = "publish" /\ mem'[p].at = q
          /\ mem'[p].bytes = bytes(q) /\ mem'[p].todo = mem[p].todo
          /\ mem'[p].journal = mem[p].journal
      BY <2>1, <1>1, WritePlace
    <2> HIDE DEF bytes
    <2>6. MoveInv(p)'
      BY <2>1, <2>3, <2>4, <2>5 DEF MoveInv
    <2>7. PublishInv(p)'
      BY <2>2, <2>5, <1>1 DEF PublishInv, SourcesThere
    <2>8. PhaseInv(p)'
      BY <2>5, <2>6, <2>7 DEF PhaseInv, Publishing, Moving, Restoring, Saving
    <2> QED BY <2>8, <1>1, LocalStep
  <1> QED BY <1>2, <1>3

LEMMA CheckWrittenStep ==
    ASSUME TypeOK, NEW p \in Procs, StepInv(p), CheckWritten(p) PROVE StepInv(p)'
  <1> DEFINE j == [mem[p].journal EXCEPT !.status = "applied"]
  <1>1. UNCHANGED <<file, journal, undone>> /\ pc[p] = "publish" /\ mem[p].todo = {}
    BY DEF CheckWritten, rest, txn
  <1>2. CASE Throw(p)
    BY <1>1, <1>2, ForgetPlace, QuietStep
  <1>3. CASE file = mem[p].journal.after /\ WriteJournal(p, j, "verify")
    <2>1. j.status = "applied" /\ j.after = file /\ j.before = mem[p].journal.before
      BY <1>3, LocalTypes DEF Journal
    <2>2. /\ pc'[p] = "unlink journal" /\ mem'[p].journal = j /\ mem'[p].next = "verify"
      BY <1>3, SavePlace
    <2> HIDE DEF j
    <2>3. PublishInv(p)
      BY <1>1 DEF StepInv, PhaseInv, Publishing
    <2>4. SuccessorsThere' /\ Lawful(j)
      BY <2>1, <2>3, <1>1 DEF SuccessorsThere, PublishInv, Lawful
    <2>5. Told(mem[p].journal)'
      BY <2>1, <2>2, <1>1 DEF Told, Agrees
    <2>6. SaveInv(p)'
      BY <2>1, <2>2, <2>4, <2>5 DEF SaveInv
    <2> QED BY <2>2, <2>6, <1>1, SavePhase, LocalStep
  <1> QED BY <1>2, <1>3 DEF CheckWritten

LEMMA BeginStep ==
    ASSUME TypeOK, NEW p \in Procs, NEW automatic \in BOOLEAN, StepInv(p), Begin(p, automatic),
           journal.status # "none", UNCHANGED <<file, txn>>
    PROVE  StepInv(p)'
  <1> DEFINE legal == \A q \in Paths : file[q] \in {journal.before[q], journal.after[q]}
  <1>0. Lawful(journal) /\ journal \in Journal /\ UNCHANGED journal
    BY DEF StepInv, JournalInv, TypeOK, txn
  <1>1. CASE legal
    <2>1. undone' = TRUE /\ pc'[p] = "restore" /\ mem'[p].journal = journal
      BY <1>1 DEF Begin, Goto, TypeOK, NoMemory
    <2>2. PhaseInv(p)'
      BY <2>1, <1>0 DEF PhaseInv, Publishing, Moving, Restoring, Saving
    <2>3. JournalInv' /\ OldIdResolves'
      BY <2>1, <1>0 DEF JournalInv, OldIdResolves
    <2> QED BY <2>2, <2>3 DEF StepInv
  <1>2. CASE ~legal /\ automatic
    <2> DEFINE j == [journal EXCEPT !.status = "recovery_required"]
    <2>1. UNCHANGED undone /\ WriteJournal(p, j, "idle")
      BY <1>2 DEF Begin
    <2>2. j.status = "recovery_required" /\ j.before = journal.before
      BY <1>0 DEF Journal
    <2>3. pc'[p] = "unlink journal" /\ mem'[p].journal = j /\ mem'[p].next = "idle"
      BY <2>1, SavePlace
    <2> HIDE DEF j
    <2>4. SaveInv(p)'
      BY <2>2, <2>3, <1>0 DEF SaveInv, Told, Lawful
    <2> QED BY <2>1, <2>3, <2>4, <1>0, SavePhase, LocalStep
  <1>3. CASE ~legal /\ ~automatic
    BY <1>3, <1>0, ForgetPlace, QuietStep DEF Begin
  <1> QED BY <1>1, <1>2, <1>3

LEMMA HandlerStep ==
    ASSUME TypeOK, NEW p \in Procs, StepInv(p), Handler(p) PROVE StepInv(p)'
  <1>1. UNCHANGED <<file, txn>> /\ UNCHANGED journal
    BY DEF Handler, txn
  <1>2. CASE journal.status # "none"
    BY <1>1, <1>2, BeginStep DEF Handler
  <1>3. CASE journal.status = "none"
    BY <1>1, <1>3, ForgetPlace, QuietStep DEF Handler
  <1> QED BY <1>2, <1>3

LEMMA StartRollbackStep ==
    ASSUME TypeOK, NEW p \in Procs, StepInv(p), StartRollback(p) PROVE StepInv(p)'
  BY BeginStep DEF StartRollback

LEMMA RestoreStep ==
    ASSUME TypeOK, NEW p \in Procs, StepInv(p), Restore(p) PROVE StepInv(p)'
  <1>1. UNCHANGED <<file, journal, undone>> /\ pc[p] = "restore"
    BY DEF Restore, rest, txn
  <1>2. undone /\ Lawful(mem[p].journal)
    BY <1>1 DEF StepInv, PhaseInv, Restoring
  <1>3. PICK q \in mem[p].todo :
          \/ Write(p, q, mem[p].journal.before[q])
          \/ mem' = [mem EXCEPT ![p].todo = @ \ {q}, ![p].failed = TRUE] /\ UNCHANGED pc
    BY DEF Restore
  <1>4. CASE Write(p, q, mem[p].journal.before[q])
    <2>1. pc'[p] = "unlink" /\ mem'[p].next = "restore" /\ mem'[p].journal = mem[p].journal
      BY <1>4, <1>1, WritePlace
    <2>2. PhaseInv(p)'
      BY <2>1, <1>1, <1>2 DEF PhaseInv, Publishing, Moving, MoveInv, Restoring, Saving
    <2> QED BY <2>2, <1>1, LocalStep
  <1>5. CASE mem' = [mem EXCEPT ![p].todo = @ \ {q}, ![p].failed = TRUE] /\ UNCHANGED pc
    <2>1. mem'[p].journal = mem[p].journal /\ pc'[p] = "restore"
      BY <1>5, <1>1 DEF TypeOK, Memory
    <2>2. PhaseInv(p)'
      BY <2>1, <1>1, <1>2 DEF PhaseInv, Publishing, Moving, Restoring, Saving
    <2> QED BY <2>2, <1>1, LocalStep
  <1> QED BY <1>3, <1>4, <1>5

LEMMA FinishRecoveryStep ==
    ASSUME TypeOK, NEW p \in Procs, StepInv(p), FinishRecovery(p) PROVE StepInv(p)'
  <1> DEFINE j(s) == [mem[p].journal EXCEPT !.status = s]
  <1>1. UNCHANGED <<file, journal, undone>> /\ pc[p] = "restore"
    BY DEF FinishRecovery, rest, txn
  <1>2. Lawful(mem[p].journal)
    BY <1>1 DEF StepInv, PhaseInv, Restoring
  <1>3. \A s \in Statuses : j(s).status = s /\ j(s).before = mem[p].journal.before
    BY LocalTypes DEF Journal
  <1>4. CASE file = mem[p].journal.before /\ WriteJournal(p, j("rolled_back"), "idle")
    <2>1. pc'[p] = "unlink journal" /\ mem'[p].journal = j("rolled_back") /\ mem'[p].next = "idle"
      BY <1>4, SavePlace
    <2>2. j("rolled_back").status = "rolled_back" /\ j("rolled_back").before = file
      BY <1>3, <1>4 DEF Statuses
    <2> HIDE DEF j
    <2>3. SourcesThere' /\ Lawful(j("rolled_back"))
      BY <2>2, <1>1, <1>2, <1>4 DEF SourcesThere, Lawful
    <2>4. Told(mem[p].journal)'
      BY <2>1, <2>2, <1>1 DEF Told, Agrees
    <2>5. SaveInv(p)'
      BY <2>1, <2>2, <2>3, <2>4 DEF SaveInv
    <2> QED BY <2>1, <2>5, <1>1, SavePhase, LocalStep
  <1>5. CASE WriteJournal(p, j("recovery_required"), "idle")
    <2>1. /\ pc'[p] = "unlink journal" /\ mem'[p].journal = j("recovery_required")
          /\ mem'[p].next = "idle"
      BY <1>5, SavePlace
    <2>2. /\ j("recovery_required").status = "recovery_required"
          /\ j("recovery_required").before = mem[p].journal.before
      BY <1>3 DEF Statuses
    <2> HIDE DEF j
    <2>3. SaveInv(p)'
      BY <2>1, <2>2, <1>2 DEF SaveInv, Told, Lawful
    <2> QED BY <2>1, <2>3, <1>1, SavePhase, LocalStep
  <1>6. CASE Leave(p)
    BY <1>1, <1>6, ForgetPlace, QuietStep
  <1> QED BY <1>4, <1>5, <1>6 DEF FinishRecovery

LEMMA UnlinkJournalStep ==
    ASSUME TypeOK, NEW p \in Procs, StepInv(p), UnlinkJournal(p) PROVE StepInv(p)'
  <1>1. /\ pc[p] = "unlink journal" /\ pc'[p] = "rename journal" /\ journal'.status = "none"
        /\ UNCHANGED <<file, mem, undone>>
    BY DEF UnlinkJournal, Goto, TypeOK, NoJournal, rest
  <1>2. SaveInv(p)
    BY <1>1 DEF StepInv, PhaseInv, Saving
  <1>3. SaveInv(p)'
    BY <1>1, <1>2 DEF SaveInv, Told, Agrees, SourcesThere, SuccessorsThere
  <1>4. PhaseInv(p)'
    BY <1>1, <1>3 DEF PhaseInv, Publishing, Moving, Restoring, Saving
  <1>5. JournalInv' /\ OldIdResolves'
    BY <1>1 DEF StepInv, JournalInv, OldIdResolves, Told
  <1> QED BY <1>4, <1>5 DEF StepInv

LEMMA RenameJournalStep ==
    ASSUME TypeOK, NEW p \in Procs, StepInv(p), RenameJournal(p) PROVE StepInv(p)'
  <1> DEFINE m == mem[p]
  <1>1. /\ pc[p] = "rename journal" /\ pc'[p] = m.next /\ journal' = m.journal
        /\ UNCHANGED file /\ (m.next = "idle" \/ mem' = mem)
        /\ undone' = (undone /\ m.journal.status = "recovery_required")
    BY DEF RenameJournal, Leave, Goto, TypeOK
  <1>2. SaveInv(p) /\ m.journal.status \in Statuses
    BY <1>1, LocalTypes DEF StepInv, PhaseInv, Saving, Journal
  <1>3. JournalInv'
    BY <1>1, <1>2 DEF JournalInv, SaveInv, Told, Agrees
  <1>4. OldIdResolves'
    <2>1. CASE m.journal.status \in {"prepared", "rolled_back", "applied"}
      BY <2>1, <1>1, <1>2, ResolvesNext DEF SaveInv, SourcesThere, SuccessorsThere
    <2>2. CASE m.journal.status = "recovery_required"
      <3>1. undone' <=> undone
        BY <2>2, <1>1
      <3> QED BY <3>1, <1>1 DEF StepInv, OldIdResolves
    <2>3. CASE m.journal.status = "none"
      BY <2>3, <1>1, <1>2 DEF SaveInv
    <2> QED BY <2>1, <2>2, <2>3, <1>2 DEF Statuses
  <1>5. PhaseInv(p)'
    <2>1. CASE m.next \in {"idle", "verify"}
      BY <2>1, <1>1, QuietPhase DEF Quiet
    <2>2. CASE m.next = "drift"
      <3>1. mem' = mem /\ journal'.status = "prepared" /\ Lawful(mem[p].journal) /\ SourcesThere'
        BY <2>2, <1>1, <1>2 DEF SaveInv, SourcesThere
      <3> QED BY <3>1, <2>2, <1>1 DEF PhaseInv, Publishing, Moving, Restoring, Saving
    <2> QED BY <2>1, <2>2, <1>2 DEF SaveInv
  <1> QED BY <1>3, <1>4, <1>5 DEF StepInv

\* One write of the publication: no source goes before its successors have come.
LEMMA PublishedWrite ==
    ASSUME TypeOK, NEW p \in Procs, PublishInv(p), MoveInv(p), mem[p].next = "publish",
           NEW bytes, bytes # NoFile \/ (bytes = NoFile /\ mem[p].at \notin Successors)
                                     \/ mem'[p].todo = mem[p].todo,
           file' = [file EXCEPT ![mem[p].at] = bytes],
           mem'[p].journal = mem[p].journal, journal' = journal,
           mem'[p].todo \in {mem[p].todo, mem[p].todo \ {mem[p].at}}
    PROVE  PublishInv(p)' /\ OldIdResolves'
  <1> DEFINE q == mem[p].at
  <1>0. \A r \in Paths : file'[r] = IF r = q THEN bytes ELSE file[r]
    BY DEF TypeOK
  <1>1. \A r \in Successors : r \in mem'[p].todo \/ file'[r] # NoFile
    BY <1>0, Disjoint DEF PublishInv, MoveInv
  <1>2. SourcesThere' \/ \A r \in Successors : r \notin mem[p].todo
    <2>1. CASE q \in Sources
      BY <2>1 DEF MoveInv
    <2>2. CASE q \notin Sources
      BY <2>2, <1>0, Disjoint DEF PublishInv, SourcesThere
    <2> QED BY <2>1, <2>2
  <1>3. SourcesThere' \/ \A r \in Successors : r \notin mem'[p].todo
    BY <1>2
  <1>4. PublishInv(p)'
    BY <1>1, <1>3 DEF PublishInv
  <1>5. SourcesThere' \/ SuccessorsThere'
    BY <1>1, <1>3 DEF SuccessorsThere
  <1> QED BY <1>4, <1>5, ResolvesNext

\* What a write leaves of the journal's promise: publication has status
\* "prepared", and restoration is under way.
LEMMA WriteKeepsJournal ==
    ASSUME NEW p \in Procs, StepInv(p), Moving(p), UNCHANGED <<journal, undone>>
    PROVE  JournalInv'
  <1>1. CASE mem[p].next = "publish"
    BY <1>1 DEF StepInv, PhaseInv, Publishing, PublishInv, JournalInv, Lawful, Told
  <1>2. CASE mem[p].next = "restore"
    BY <1>2 DEF StepInv, PhaseInv, Restoring, JournalInv, Lawful
  <1> QED BY <1>1, <1>2 DEF StepInv, PhaseInv, MoveInv

LEMMA UnlinkStep ==
    ASSUME TypeOK, NEW p \in Procs, StepInv(p), Unlink(p) PROVE StepInv(p)'
  <1> DEFINE m == mem[p]
  <1>1. /\ pc[p] = "unlink" /\ UNCHANGED <<journal, undone>>
        /\ file' = [file EXCEPT ![m.at] = NoFile]
    BY DEF Unlink, txn, rest
  <1>2. MoveInv(p) /\ JournalInv'
    BY <1>1, WriteKeepsJournal DEF StepInv, PhaseInv, Moving
  <1>3. \/ /\ m.bytes # NoFile /\ pc'[p] = "rename" /\ UNCHANGED mem
        \/ /\ m.bytes = NoFile /\ pc'[p] = m.next /\ mem'[p].todo = m.todo \ {m.at}
           /\ mem'[p].journal = m.journal /\ mem'[p].next = m.next
    BY DEF Unlink, Goto, TypeOK, Memory
  <1>4. CASE m.next = "publish"
    <2>1. PublishInv(p)
      BY <1>1, <1>4 DEF StepInv, PhaseInv, Publishing, Moving
    <2>2. m.bytes = NoFile => m.at \notin Successors
      BY <1>2, <1>4 DEF MoveInv
    <2>3. PublishInv(p)' /\ OldIdResolves'
      BY <2>1, <2>2, <1>1, <1>2, <1>3, <1>4, PublishedWrite
    <2>4. CASE m.bytes # NoFile
      <3>1. pc'[p] = "rename" /\ mem' = mem
        BY <2>4, <1>3
      <3>2. MoveInv(p)'
        BY <3>1, <2>4, <1>2 DEF MoveInv
      <3>3. PhaseInv(p)'
        BY <3>1, <3>2, <2>3, <1>4 DEF PhaseInv, Publishing, Moving, Restoring, Saving
      <3> QED BY <3>3, <2>3, <1>2 DEF StepInv
    <2>5. CASE m.bytes = NoFile
      <3>1. pc'[p] = "publish"
        BY <2>5, <1>3, <1>4
      <3>2. PhaseInv(p)'
        BY <3>1, <2>3 DEF PhaseInv, Publishing, Moving, Restoring, Saving
      <3> QED BY <3>2, <2>3, <1>2 DEF StepInv
    <2> QED BY <2>4, <2>5
  <1>5. CASE m.next = "restore"
    <2>1. undone /\ Lawful(m.journal)
      BY <1>1, <1>5 DEF StepInv, PhaseInv, Restoring, Moving
    <2>2. /\ pc'[p] = "restore" \/ (pc'[p] = "rename" /\ mem'[p].bytes # NoFile)
          /\ mem'[p].next = "restore" /\ mem'[p].journal = m.journal
      BY <1>3, <1>5
    <2>3. PhaseInv(p)'
      BY <2>1, <2>2, <1>1 DEF PhaseInv, MoveInv, Publishing, Moving, Restoring, Saving
    <2>4. OldIdResolves'
      BY <2>1, <1>1 DEF OldIdResolves
    <2> QED BY <2>3, <2>4, <1>2 DEF StepInv
  <1> QED BY <1>4, <1>5, <1>2 DEF MoveInv

LEMMA RenameStep ==
    ASSUME TypeOK, NEW p \in Procs, StepInv(p), Rename(p) PROVE StepInv(p)'
  <1> DEFINE m == mem[p]
  <1>1. /\ pc[p] = "rename" /\ UNCHANGED <<journal, undone>>
        /\ file' = [file EXCEPT ![m.at] = m.bytes]
        /\ pc'[p] = m.next /\ mem'[p].todo = m.todo \ {m.at} /\ mem'[p].journal = m.journal
    BY DEF Rename, txn, rest, Goto, TypeOK, Memory
  <1>2. MoveInv(p) /\ JournalInv'
    BY <1>1, WriteKeepsJournal DEF StepInv, PhaseInv, Moving
  <1>3. CASE m.next = "publish"
    <2>1. PublishInv(p)
      BY <1>1, <1>3 DEF StepInv, PhaseInv, Publishing, Moving
    <2>2. PublishInv(p)' /\ OldIdResolves'
      <3>1. m.bytes # NoFile
        BY <1>1, <1>2 DEF MoveInv
      <3> QED BY <3>1, <2>1, <1>1, <1>2, <1>3, PublishedWrite
    <2>3. PhaseInv(p)'
      BY <2>2, <1>1, <1>3 DEF PhaseInv, Publishing, Moving, Restoring, Saving
    <2> QED BY <2>2, <2>3, <1>2 DEF StepInv
  <1>4. CASE m.next = "restore"
    <2>1. undone /\ Lawful(m.journal)
      BY <1>1, <1>4 DEF StepInv, PhaseInv, Restoring, Moving
    <2>2. PhaseInv(p)'
      BY <2>1, <1>1, <1>4 DEF PhaseInv, Publishing, Moving, Restoring, Saving
    <2>3. OldIdResolves'
      BY <2>1, <1>1 DEF OldIdResolves
    <2> QED BY <2>2, <2>3, <1>2 DEF StepInv
  <1> QED BY <1>3, <1>4, <1>2 DEF MoveInv

\* A write of another command keeps a file there and what it is, and only adds.
LEMMA EditStep ==
    ASSUME TypeOK, NEW p \in Procs, StepInv(p), NEW q \in Paths, Edit(q) PROVE StepInv(p)'
  <1>1. UNCHANGED <<journal, pc, mem, undone>> /\ file[q] # NoFile
    BY DEF Edit, txn
  <1>2. /\ file[q] \in Contents
        /\ \A r \in Paths : file'[r] = IF r = q THEN [file[q] EXCEPT !.has = @ \cup {edits + 1}]
                                                ELSE file[r]
    BY DEF Edit, TypeOK
  <1>3. \A r \in Paths : file'[r].form = file[r].form /\ file[r].has \subseteq file'[r].has
    BY <1>2 DEF Contents
  <1>4. \A r \in Paths : file[r] # NoFile => file'[r] # NoFile
    <2> SUFFICES ASSUME file'[q] = NoFile PROVE FALSE
      BY <1>1, <1>2
    <2>1. edits + 1 \in file'[q].has
      BY <1>2 DEF Contents
    <2> QED BY <2>1 DEF NoFile
  <1>5. \A j : Told(j) => Told(j)'
    BY <1>3 DEF Told, Agrees
  <1>6. (SourcesThere => SourcesThere') /\ (SuccessorsThere => SuccessorsThere')
    BY <1>4, Disjoint DEF SourcesThere, SuccessorsThere
  <1>7. JournalInv'
    BY <1>1, <1>5 DEF StepInv, JournalInv
  <1>8. OldIdResolves'
    <2>1. \A m \in Moved : {Source(m), Target(m), Alias} \subseteq Paths
      BY DEF Paths, Sources, Targets
    <2> QED BY <2>1, <1>1, <1>4 DEF StepInv, OldIdResolves
  <1>9. PhaseInv(p)'
    <2>1. PublishInv(p) => PublishInv(p)'
      BY <1>1, <1>4, <1>6, Disjoint DEF PublishInv
    <2>2. SaveInv(p) => SaveInv(p)'
      BY <1>1, <1>5, <1>6 DEF SaveInv
    <2>3. MoveInv(p) => MoveInv(p)'
      BY <1>1 DEF MoveInv
    <2> QED BY <2>1, <2>2, <2>3, <1>1, <1>6 DEF StepInv, PhaseInv, Publishing, Moving, Restoring, Saving
  <1> QED BY <1>7, <1>8, <1>9 DEF StepInv

\* The steps that touch nothing shared and go to a place that promises nothing,
\* and those that start a command.
LEMMA QuietSteps ==
    ASSUME TypeOK, NEW p \in Procs, StepInv(p),
           \/ StartApply(p) \/ Crash(p) \/ CheckJournal(p) \/ Plan(p) \/ ReadContents(p)
           \/ CopyIndex(p) \/ Purge(p) \/ Verify(p)
    PROVE  StepInv(p)'
  <1>1. UNCHANGED <<file, journal, undone>>
    BY DEF StartApply, Crash, CheckJournal, Plan, ReadContents, CopyIndex, Purge, Verify, txn, rest
  <1>2. \/ Leave(p) \/ Throw(p)
        \/ \E step \in {"idle", "check", "plan", "read", "copy", "purge", "snapshot"} : Goto(p, step)
    BY DEF StartApply, Crash, CheckJournal, Plan, ReadContents, CopyIndex, Purge, Verify
  <1>3. pc'[p] \in Quiet
    BY <1>2, GotoPlace, ForgetPlace DEF Quiet
  <1> QED BY <1>1, <1>3, QuietStep

LEMMA RunStep ==
    ASSUME TypeOK, NEW p \in Procs, StepInv(p), Run(p) PROVE StepInv(p)'
  BY QuietSteps, UnlinkJournalStep, RenameJournalStep, UnlinkStep, RenameStep, SnapshotStep,
     CheckDriftStep, PublishStep, CheckWrittenStep, HandlerStep, RestoreStep, FinishRecoveryStep
     DEF Run

LEMMA InvStep ==
    ASSUME Alone, IInv, [Next]_vars PROVE IInv'
  <1>1. TypeOK /\ TypeOK'
    BY TypeStep DEF IInv
  <1>2. ASSUME NEW r \in Procs PROVE StepInv(r)'
    <2>1. StepInv(r)
      BY DEF IInv
    <2>2. ASSUME NEW p \in Procs, StartApply(p) \/ StartRollback(p) \/ Run(p) \/ Crash(p)
          PROVE  StepInv(r)'
      <3>1. p = r
        BY DEF Alone
      <3> QED BY <3>1, <2>1, <2>2, <1>1, StartRollbackStep, RunStep, QuietSteps
    <2>3. ASSUME NEW q \in Paths, Edit(q) PROVE StepInv(r)'
      BY <2>1, <2>3, <1>1, EditStep
    <2>4. CASE UNCHANGED vars
      <3>1. UNCHANGED <<file, journal, pc, mem, undone>>
        BY <2>4 DEF vars
      <3>2. PhaseInv(r)'
        BY <3>1, <2>1 DEF StepInv, PhaseInv, Publishing, PublishInv, Moving, MoveInv, Restoring,
                          Saving, SaveInv, SourcesThere, SuccessorsThere, Told, Agrees
      <3> QED BY <3>1, <3>2, <2>1, LocalStep
    <2> QED BY <2>2, <2>3, <2>4 DEF Next
  <1> QED BY <1>1, <1>2 DEF IInv

LEMMA InvInit == ASSUME Init PROVE IInv
  <1>1. TypeOK
    BY InitTypes
  <1>2. ASSUME NEW p \in Procs PROVE StepInv(p)
    <2>1. pc[p] = "idle" /\ journal.status = "none" /\ file = Reviewed
      BY DEF Init, NoJournal
    <2>2. JournalInv /\ PhaseInv(p)
      BY <2>1 DEF JournalInv, Told, PhaseInv, Publishing, Moving, Restoring, Saving
    <2>3. OldIdResolves
      <3>1. \A q \in Sources : q \in Paths /\ q \notin Targets \cup {Alias}
        BY Disjoint DEF Successors
      <3>2. Untouched("old") # NoFile
        BY DEF Untouched, NoFile
      <3>3. SourcesThere
        BY <3>1, <3>2, <2>1 DEF Reviewed, SourcesThere
      <3> QED BY <3>3, Resolves
    <2> QED BY <2>2, <2>3 DEF StepInv
  <1> QED BY <1>1, <1>2 DEF IInv

\* A single process: its commands come one after another and may die anywhere,
\* and other commands write the files meanwhile.
THEOREM Invariance ==
    ASSUME Alone PROVE Spec => []IInv
  <1>1. Init => IInv
    BY InvInit
  <1>2. IInv /\ [Next]_vars => IInv'
    BY InvStep
  <1> QED BY <1>1, <1>2, PTL DEF Spec

\* While nothing is being restored, an old ID leads to its item at every moment
\* of an apply, whatever it is killed at.
THEOREM OldIdsResolve ==
    ASSUME Alone, Procs # {} PROVE Spec => []OldIdResolves
  <1>1. IInv => OldIdResolves
    BY DEF IInv, StepInv
  <1> QED BY <1>1, Invariance, PTL

\* The journal reports a migration as applied, or as rolled back, only when the
\* files are so, up to later writes and to a restoration under way.
THEOREM SettledIsTrue ==
    ASSUME Alone, Procs # {} PROVE Spec => []StatusTellsFiles
  <1>1. IInv => StatusTellsFiles
    BY DEF IInv, StepInv, JournalInv, Told, Agrees, StatusTellsFiles, StatusIsTrue
  <1> QED BY <1>1, Invariance, PTL

-------------------------------------------------------------------------------
(* Writes of others are not lost. *)

\* Where the operation on q has its content from.
Origin(q) == IF q \in Targets THEN Source(q[2]) ELSE q

TargetsAbsent == \A q \in Targets : file[q] = NoFile

\* The content after holds the writes of the content before, up to raced ones.
Carried(j) ==
    /\ \A q \in Paths : j.after[q].has \ raced \subseteq j.before[Origin(q)].has
    /\ \A q \in References \cup {Index} : j.before[q].has \ raced \subseteq j.after[q].has

\* A path that has both a file and a backup has the writes of the backup in the file.
BackupInv ==
    /\ \A q \in Successors : backup[q] = NoFile
    /\ \A q \in Paths : file[q] = NoFile \/ backup[q].has \ raced \subseteq file[q].has
    /\ Carried(journal)
    /\ journal.status \in {"prepared", "applied"} => backup = journal.before
    /\ journal.status = "none" \/ backup = journal.before \/ TargetsAbsent

Planning(p) == pc[p] \in {"plan", "read", "copy", "purge", "snapshot"}
Reading(p) == pc[p] \in {"copy", "purge", "snapshot"}

\* What was read is what is there, but for writes that no comparison can notice.
ReadInv(p) ==
    LET after == mem[p].journal.after IN
    /\ \A q \in Sources \cup References : file[q] # NoFile
    /\ \A q \in Paths : after[q].has \ raced \subseteq file[Origin(q)].has
    /\ \A q \in References : file[q].has \ raced \subseteq after[q].has
    /\ pc[p] # "copy" => file[Index].has \ raced \subseteq after[Index].has
    /\ pc[p] = "snapshot" => backup = NoFiles

\* The file that is about to be replaced is as it was compared.
SwapInv(p) ==
    LET at == mem[p].at  before == mem[p].journal.before[at] IN
    /\ at \in mem[p].todo /\ mem[p].next \in {"publish", "restore"}
    /\ pc[p] = "rename" => file[at] = NoFile
    /\ mem[p].next = "publish" =>
          /\ file[at].has \ raced \subseteq before.has
          /\ mem[p].bytes = IF at \in Sources THEN NoFile ELSE mem[p].journal.after[at]
    /\ mem[p].next = "restore" =>
          mem[p].bytes = before /\ (before = NoFile \/ backup[at] = before)

RecordInv(p) ==
    LET j == mem[p].journal IN
    /\ Carried(j) /\ j.status # "none" /\ mem[p].next \in {"drift", "verify", "idle"}
    /\ j.status \in {"prepared", "applied"} => backup = j.before
    /\ backup = j.before \/ TargetsAbsent
    /\ mem[p].next = "drift" => j.status = "prepared" /\ stage = j.after

HoldInv(p) ==
    /\ Planning(p) => journal.status \in {"none", "rolled_back"}
    /\ Planning(p) /\ pc[p] # "plan" => TargetsAbsent
    /\ Reading(p) => ReadInv(p)
    /\ pc[p] = "drift" \/ Publishing(p) =>
          mem[p].journal = journal /\ journal.status = "prepared" /\ stage = journal.after
    /\ Moving(p) => SwapInv(p)
    /\ Restoring(p) =>
          /\ mem[p].journal = journal /\ journal.status # "none"
          /\ \A q \in mem[p].todo :
                file[q].has \ raced \subseteq journal.before[q].has \cup journal.after[q].has
    /\ Saving(p) => RecordInv(p)

LossInv == NothingLost /\ BackupInv /\ \A p \in Procs : HoldInv(p)

HoldStep(p) == NothingLost /\ BackupInv /\ HoldInv(p)

\* Places that promise nothing here.
Calm == {"idle", "check", "verify", "handler"}

LEMMA KindsApart ==
    /\ \A q \in Targets : q \in Successors /\ q \in Paths /\ Origin(q) \in Sources
    /\ \A q \in Paths \ Targets : Origin(q) = q
    /\ \A q \in Sources : q \in Paths /\ q \notin Successors /\ q \notin Targets
    /\ \A q \in References \cup {Index} : q \in Paths /\ q \notin Sources /\ q \notin Successors
    /\ Successors \subseteq Paths /\ Targets \subseteq Successors
    /\ Paths = Sources \cup Successors \cup References \cup {Index}
    /\ Index \notin References
  <1>1. ASSUME NEW q \in Targets PROVE q[2] \in Moved
    BY DEF Targets, Target
  <1>2. \A q \in Targets : Origin(q) \in Sources
    BY <1>1 DEF Origin, Sources
  <1>3. \A q \in References \cup {Index} : q[1] \in {"reference", "index"}
    BY DEF References, Index
  <1>4. \A q \in Sources : q[1] = "source"
    BY DEF Sources, Source
  <1>5. \A q \in Successors : q[1] \in {"target", "alias"}
    BY DEF Successors, Targets, Target, Alias
  <1>6. \A q \in References : q[1] # Index[1]
    BY DEF References, Index
  <1> QED BY <1>2, <1>3, <1>4, <1>5, <1>6 DEF Paths, Successors, Origin

LEMMA CalmPhase == ASSUME NEW p \in Procs, pc'[p] \in Calm PROVE HoldInv(p)'
  BY DEF HoldInv, Planning, Reading, Publishing, Moving, Restoring, Saving, Calm

LEMMA SharedStays ==
    ASSUME NothingLost, BackupInv, UNCHANGED <<file, journal, backup, raced, edits>>
    PROVE  NothingLost' /\ BackupInv'
  BY DEF NothingLost, BackupInv, Carried, TargetsAbsent

LEMMA CalmStep ==
    ASSUME NEW p \in Procs, HoldStep(p), pc'[p] \in Calm,
           UNCHANGED <<file, journal, backup, raced, edits>>
    PROVE  HoldStep(p)'
  BY CalmPhase, SharedStays DEF HoldStep

LEMMA ForgetCalm ==
    ASSUME TypeOK, NEW p \in Procs, Leave(p) \/ Throw(p) PROVE pc'[p] \in Calm
  BY DEF TypeOK, Goto, Leave, Throw, Calm

LEMMA CalmSteps ==
    ASSUME TypeOK, NEW p \in Procs, HoldStep(p), StartApply(p) \/ Crash(p) \/ Verify(p)
    PROVE  HoldStep(p)'
  <1>1. UNCHANGED <<file, journal, backup, raced, edits>>
    BY DEF StartApply, Crash, Verify, txn, rest
  <1>2. pc'[p] \in Calm
    <2>1. Leave(p) \/ Throw(p) \/ Goto(p, "check")
      BY DEF StartApply, Crash, Verify
    <2> QED BY <2>1, ForgetCalm, GotoPlace DEF Calm
  <1> QED BY <1>1, <1>2, CalmStep

\* The place alone tells which part of HoldInv holds.
LEMMA PlanPhase ==
    ASSUME NEW p \in Procs, pc'[p] \in {"plan", "read"}, journal'.status \in {"none", "rolled_back"},
           pc'[p] = "read" => TargetsAbsent'
    PROVE  HoldInv(p)'
  BY DEF HoldInv, Planning, Reading, Publishing, Moving, Restoring, Saving

LEMMA ReadPhase ==
    ASSUME NEW p \in Procs, pc'[p] \in {"copy", "purge", "snapshot"},
           journal'.status \in {"none", "rolled_back"}, TargetsAbsent', ReadInv(p)'
    PROVE  HoldInv(p)'
  BY DEF HoldInv, Planning, Reading, Publishing, Moving, Restoring, Saving

LEMMA SavingPhase ==
    ASSUME NEW p \in Procs, pc'[p] \in {"unlink journal", "rename journal"}, RecordInv(p)'
    PROVE  HoldInv(p)'
  BY DEF HoldInv, Planning, Reading, Publishing, Moving, Restoring, Saving

LEMMA PublishPhase ==
    ASSUME NEW p \in Procs, pc'[p] \in {"drift", "publish"},
           mem'[p].journal = journal', journal'.status = "prepared", stage' = journal'.after
    PROVE  HoldInv(p)'
  BY DEF HoldInv, Planning, Reading, Publishing, Moving, Restoring, Saving

LEMMA CheckJournalHolds ==
    ASSUME TypeOK, NEW p \in Procs, HoldStep(p), CheckJournal(p) PROVE HoldStep(p)'
  <1>1. UNCHANGED <<file, journal, backup, raced, edits>>
    BY DEF CheckJournal, txn, rest
  <1>2. CASE journal.status \in {"none", "rolled_back"}
    <2>1. pc'[p] = "plan"
      BY <1>2, GotoPlace DEF CheckJournal
    <2> QED BY <2>1, <1>1, <1>2, PlanPhase, SharedStays DEF HoldStep
  <1>3. CASE journal.status \notin {"none", "rolled_back"}
    <2>1. pc'[p] = "idle"
      BY <1>3, GotoPlace DEF CheckJournal
    <2> QED BY <2>1, <1>1, CalmStep DEF Calm
  <1> QED BY <1>2, <1>3

LEMMA PlanHolds ==
    ASSUME TypeOK, NEW p \in Procs, HoldStep(p), Plan(p) PROVE HoldStep(p)'
  <1>1. UNCHANGED <<file, journal, backup, raced, edits>> /\ pc[p] = "plan"
    BY DEF Plan, txn, rest
  <1>2. CASE \A q \in Paths \ {Index} : file[q] = Reviewed[q]
    <2>1. pc'[p] = "read"
      BY <1>2, GotoPlace DEF Plan
    <2>2. \A q \in Targets : q \in Paths \ {Index} /\ Reviewed[q] = NoFile
      BY KindsApart DEF Reviewed
    <2>3. TargetsAbsent'
      BY <1>1, <1>2, <2>2 DEF TargetsAbsent
    <2>4. journal.status \in {"none", "rolled_back"}
      BY <1>1 DEF HoldStep, HoldInv, Planning
    <2> QED BY <2>1, <2>3, <2>4, <1>1, PlanPhase, SharedStays DEF HoldStep
  <1>3. CASE ~\A q \in Paths \ {Index} : file[q] = Reviewed[q]
    <2>1. pc'[p] = "idle"
      BY <1>3, GotoPlace DEF Plan
    <2> QED BY <2>1, <1>1, CalmStep DEF Calm
  <1> QED BY <1>2, <1>3

LEMMA AfterHas ==
    ASSUME TypeOK, NEW q \in Paths
    PROVE  /\ q \in Sources => After(file)[q].has = {}
           /\ q \in Targets => After(file)[q].has = file[Origin(q)].has
           /\ q = Alias => After(file)[q].has = {}
           /\ q \in References \cup {Index} => After(file)[q].has = file[q].has
  <1> USE KindsApart
  <1>1. q \in Sources => After(file)[q] = NoFile
    BY DEF After, Successors
  <1>2. q \in Targets => After(file)[q] = [file[Origin(q)] EXCEPT !.form = "new"]
    <2>1. Alias \notin Targets
      BY DEF Alias, Targets, Target
    <2> QED BY <2>1 DEF After, Origin, Successors
  <1>3. q = Alias => After(file)[q] = Untouched("new")
    <2>1. Alias \notin Targets /\ Alias \notin Sources
      BY DEF Alias, Targets, Target, Sources, Source
    <2> QED BY <2>1 DEF After
  <1>4. q \in References \cup {Index} => After(file)[q] = [file[q] EXCEPT !.form = "new"]
    BY DEF After, Successors
  <1>5. \A r \in Paths : file[r] \in Contents
    BY DEF TypeOK
  <1> QED BY <1>1, <1>2, <1>3, <1>4, <1>5 DEF NoFile, Untouched, Contents

LEMMA ReadContentsHolds ==
    ASSUME TypeOK, NEW p \in Procs, HoldStep(p), ReadContents(p) PROVE HoldStep(p)'
  <1>1. UNCHANGED <<file, journal, backup, raced, edits>> /\ pc[p] = "read"
    BY DEF ReadContents, txn, rest
  <1>2. CASE Throw(p)
    BY <1>1, <1>2, ForgetCalm, CalmStep
  <1>3. CASE ~Throw(p)
    <2>1. /\ \A q \in Sources \cup References : file[q] # NoFile
          /\ Goto(p, "copy") /\ mem' = [mem EXCEPT ![p].journal.after = After(file)]
      BY <1>3 DEF ReadContents
    <2>2. pc'[p] = "copy" /\ mem'[p].journal.after = After(file)
      <3>1. mem' = [mem EXCEPT ![p] = [mem[p] EXCEPT !.journal =
                       [mem[p].journal EXCEPT !.after = After(file)]]]
        BY <2>1
      <3>2. mem'[p].journal = [mem[p].journal EXCEPT !.after = After(file)]
        BY <3>1 DEF TypeOK, Memory
      <3>3. mem'[p].journal.after = After(file)
        BY <3>2, LocalTypes DEF Journal
      <3> QED BY <2>1, <3>3, GotoPlace
    <2>3. \A q \in Paths : After(file)[q].has \ raced \subseteq file[Origin(q)].has
      BY AfterHas, KindsApart DEF Successors
    <2>4. \A q \in References : file[q].has \ raced \subseteq After(file)[q].has
      BY AfterHas, KindsApart
    <2>5. ReadInv(p)'
      BY <2>1, <2>2, <2>3, <2>4, <1>1 DEF ReadInv
    <2>6. TargetsAbsent' /\ journal'.status \in {"none", "rolled_back"}
      BY <1>1 DEF HoldStep, HoldInv, Planning, TargetsAbsent
    <2> QED BY <2>2, <2>5, <2>6, <1>1, ReadPhase, SharedStays DEF HoldStep
  <1> QED BY <1>2, <1>3

LEMMA CopyIndexHolds ==
    ASSUME TypeOK, NEW p \in Procs, HoldStep(p), CopyIndex(p) PROVE HoldStep(p)'
  <1>1. UNCHANGED <<file, journal, backup, raced, edits>> /\ pc[p] = "copy"
    BY DEF CopyIndex, txn, rest
  <1>2. CASE Throw(p)
    BY <1>1, <1>2, ForgetCalm, CalmStep
  <1>3. CASE ~Throw(p)
    <2> DEFINE after == mem[p].journal.after
               new == [after EXCEPT ![Index] = After(file)[Index]]
    <2>1. Goto(p, "purge") /\ mem' = [mem EXCEPT ![p].journal.after[Index] = After(file)[Index]]
      BY <1>3 DEF CopyIndex
    <2>2. pc'[p] = "purge" /\ mem'[p].journal.after = new
      <3>1. mem' = [mem EXCEPT ![p] = [mem[p] EXCEPT !.journal =
                       [mem[p].journal EXCEPT !.after = new]]]
        BY <2>1
      <3>2. mem'[p].journal = [mem[p].journal EXCEPT !.after = new]
        BY <3>1 DEF TypeOK, Memory
      <3>3. mem'[p].journal.after = new
        BY <3>2, LocalTypes DEF Journal
      <3> QED BY <2>1, <3>3, GotoPlace
    <2>3. \A q \in Paths : new[q] = IF q = Index THEN After(file)[Index] ELSE after[q]
      BY LocalTypes DEF Journal
    <2> HIDE DEF new
    <2>4. After(file)[Index].has = file[Index].has /\ Origin(Index) = Index /\ Index \in Paths
      BY AfterHas, KindsApart
    <2>5. ReadInv(p)
      BY <1>1 DEF HoldStep, HoldInv, Reading
    <2>6. ReadInv(p)'
      BY <2>2, <2>3, <2>4, <2>5, <1>1, KindsApart DEF ReadInv
    <2>7. TargetsAbsent' /\ journal'.status \in {"none", "rolled_back"}
      BY <1>1 DEF HoldStep, HoldInv, Planning, TargetsAbsent
    <2> QED BY <2>2, <2>6, <2>7, <1>1, ReadPhase, SharedStays DEF HoldStep
  <1> QED BY <1>2, <1>3

\* The backups that go are all in the files; but for the index, whose loss is raced.
LEMMA PurgeHolds ==
    ASSUME TypeOK, NEW p \in Procs, HoldStep(p), Purge(p) PROVE HoldStep(p)'
  <1>1. /\ UNCHANGED <<file, journal, mem, edits>> /\ pc[p] = "purge" /\ backup' = NoFiles
        /\ raced' = IF file[Index] = NoFile THEN raced \cup backup[Index].has ELSE raced
    BY DEF Purge
  <1>2. pc'[p] = "snapshot"
    BY GotoPlace DEF Purge
  <1>3. ReadInv(p) /\ TargetsAbsent /\ journal.status \in {"none", "rolled_back"}
    BY <1>1 DEF HoldStep, HoldInv, Planning, Reading
  <1>4. raced \subseteq raced'
    BY <1>1
  <1>5. \A q \in Paths : NoFiles[q] = NoFile /\ NoFile.has = {}
    BY DEF NoFiles, NoFile
  <1>6. NothingLost'
    <2> SUFFICES ASSUME NEW n \in (1..edits) \ raced' PROVE \E q \in Paths : n \in file'[q].has
      BY <1>1 DEF NothingLost
    <2>1. PICK q \in Paths : n \in file[q].has \cup backup[q].has
      BY <1>4 DEF HoldStep, NothingLost
    <2>2. CASE n \in backup[q].has
      <3>1. q \notin Successors
        BY <2>2, <1>5 DEF HoldStep, BackupInv
      <3>2. file[q] # NoFile
        <4>1. q = Index => n \notin raced'
          OBVIOUS
        <4> QED BY <2>2, <3>1, <4>1, <1>1, <1>3, KindsApart DEF ReadInv
      <3>3. n \in file[q].has
        BY <2>2, <3>2, <1>4 DEF HoldStep, BackupInv
      <3> QED BY <3>3, <1>1
    <2> QED BY <2>1, <2>2, <1>1
  <1>7. BackupInv'
    <2>1. \A q \in Paths : backup'[q] = NoFile /\ backup'[q].has = {}
      BY <1>1, <1>5
    <2>2. Carried(journal)'
      BY <1>1, <1>4 DEF HoldStep, BackupInv, Carried
    <2> QED BY <2>1, <2>2, <1>1, <1>3, KindsApart DEF BackupInv, TargetsAbsent
  <1>8. ReadInv(p)'
    BY <1>1, <1>2, <1>3, <1>4 DEF ReadInv
  <1>9. HoldInv(p)'
    BY <1>1, <1>2, <1>3, <1>8, ReadPhase DEF TargetsAbsent
  <1> QED BY <1>6, <1>7, <1>9 DEF HoldStep

\* The backups are what the files hold.
LEMMA SnapshotHolds ==
    ASSUME TypeOK, NEW p \in Procs, HoldStep(p), Snapshot(p) PROVE HoldStep(p)'
  <1>1. UNCHANGED <<file, journal, raced, edits>> /\ pc[p] = "snapshot"
    BY DEF Snapshot, rest
  <1>2. ASSUME NEW done \in SUBSET {q \in Paths : Admits(q)}, Throw(p),
               backup' = [q \in Paths |-> IF q \in done THEN file[q] ELSE NoFile]
        PROVE  HoldStep(p)'
    <2>1. ReadInv(p) /\ TargetsAbsent /\ journal.status \in {"none", "rolled_back"}
      BY <1>1 DEF HoldStep, HoldInv, Planning, Reading
    <2>2. HoldInv(p)'
      BY <1>2, ForgetCalm, CalmPhase
    <2>3. NothingLost'
      <3>1. \A q \in Paths : backup[q].has = {}
        BY <2>1, <1>1 DEF ReadInv, NoFiles, NoFile
      <3> QED BY <3>1, <1>1 DEF HoldStep, NothingLost
    <2>4. BackupInv'
      <3>1. \A q \in Paths : backup'[q] \in {NoFile, file[q]} /\ NoFile.has = {}
        BY <1>2 DEF NoFile
      <3>2. \A q \in Successors : backup'[q] = NoFile
        BY <1>2, KindsApart DEF Admits, Successors
      <3>3. Carried(journal)'
        BY <1>1 DEF HoldStep, BackupInv, Carried
      <3> QED BY <3>1, <3>2, <3>3, <2>1, <1>1 DEF BackupInv, TargetsAbsent
    <2> QED BY <2>2, <2>3, <2>4 DEF HoldStep
  <1>3. CASE /\ \A q \in Paths : Admits(q)
             /\ backup' = file /\ stage' = mem[p].journal.after
             /\ WriteJournal(p, [mem[p].journal EXCEPT !.status = "prepared", !.before = file],
                             "drift")
    <2> DEFINE j == [mem[p].journal EXCEPT !.status = "prepared", !.before = file]
    <2>1. WriteJournal(p, j, "drift") /\ backup' = file /\ stage' = mem[p].journal.after
      BY <1>3
    <2>2. j.status = "prepared" /\ j.before = file /\ j.after = mem[p].journal.after
      BY LocalTypes DEF Journal
    <2> HIDE DEF j
    <2>3. ReadInv(p) /\ TargetsAbsent /\ journal.status \in {"none", "rolled_back"}
      BY <1>1 DEF HoldStep, HoldInv, Planning, Reading
    <2>4. \A q \in Successors : file[q] = NoFile
      BY <1>3, KindsApart DEF Successors, Admits
    <2>5. Carried(j)
      BY <1>1, <2>2, <2>3, KindsApart DEF ReadInv, Carried
    <2>6. pc'[p] = "unlink journal" /\ mem'[p].journal = j /\ mem'[p].next = "drift"
      BY <2>1, SavePlace
    <2>7. RecordInv(p)'
      BY <2>1, <2>2, <2>5, <2>6, <1>1 DEF RecordInv, Carried
    <2>8. HoldInv(p)'
      BY <2>6, <2>7, SavingPhase
    <2>9. NothingLost'
      <3>1. \A q \in Paths : backup[q].has = {}
        BY <2>3, <1>1 DEF ReadInv, NoFiles, NoFile
      <3> QED BY <3>1, <2>1, <1>1 DEF HoldStep, NothingLost
    <2>10. BackupInv'
      <3>1. Carried(journal)'
        BY <1>1 DEF HoldStep, BackupInv, Carried
      <3> QED BY <3>1, <2>1, <2>3, <2>4, <1>1 DEF BackupInv, TargetsAbsent
    <2> QED BY <2>8, <2>9, <2>10 DEF HoldStep
  <1> QED BY <1>2, <1>3 DEF Snapshot

LEMMA CheckDriftHolds ==
    ASSUME TypeOK, NEW p \in Procs, HoldStep(p), CheckDrift(p) PROVE HoldStep(p)'
  <1>1. UNCHANGED <<file, journal, backup, stage, raced, edits>> /\ pc[p] = "drift"
    BY DEF CheckDrift, txn, rest
  <1>2. CASE Throw(p)
    BY <1>1, <1>2, ForgetCalm, CalmStep
  <1>3. CASE Goto(p, "publish") /\ mem' = [mem EXCEPT ![p].todo = Paths]
    <2>1. pc'[p] = "publish" /\ mem'[p].journal = mem[p].journal
      BY <1>3 DEF Goto, TypeOK, Memory
    <2>2. mem[p].journal = journal /\ journal.status = "prepared" /\ stage = journal.after
      BY <1>1 DEF HoldStep, HoldInv
    <2> QED BY <2>1, <2>2, <1>1, PublishPhase, SharedStays DEF HoldStep
  <1> QED BY <1>2, <1>3 DEF CheckDrift

\* While a file is replaced.
LEMMA SwapPhase ==
    ASSUME NEW p \in Procs, pc'[p] \in {"unlink", "rename"}, SwapInv(p)',
           mem'[p].journal = journal', journal'.status # "none",
           mem'[p].next = "publish" => journal'.status = "prepared" /\ stage' = journal'.after,
           mem'[p].next = "restore" => \A q \in mem'[p].todo :
               file'[q].has \ raced' \subseteq journal'.before[q].has \cup journal'.after[q].has
    PROVE  HoldInv(p)'
  BY DEF HoldInv, Planning, Reading, Publishing, Moving, Restoring, Saving

LEMMA RestorePhase ==
    ASSUME NEW p \in Procs, pc'[p] = "restore",
           mem'[p].journal = journal', journal'.status # "none",
           \A q \in mem'[p].todo :
               file'[q].has \ raced' \subseteq journal'.before[q].has \cup journal'.after[q].has
    PROVE  HoldInv(p)'
  BY DEF HoldInv, Planning, Reading, Publishing, Moving, Restoring, Saving

LEMMA PublishHolds ==
    ASSUME TypeOK, NEW p \in Procs, HoldStep(p), Publish(p) PROVE HoldStep(p)'
  <1>1. UNCHANGED <<file, journal, backup, stage, raced, edits>> /\ pc[p] = "publish"
    BY DEF Publish, txn, rest
  <1>2. CASE Throw(p)
    BY <1>1, <1>2, ForgetCalm, CalmStep
  <1>3. CASE ~Throw(p)
    <2> DEFINE bytes(q) == IF q \in Sources THEN NoFile ELSE stage[q]
    <2>1. PICK q \in mem[p].todo :
            file[q] = mem[p].journal.before[q] /\ Write(p, q, bytes(q))
      BY <1>3 DEF Publish
    <2>2. mem[p].journal = journal /\ journal.status = "prepared" /\ stage = journal.after
      BY <1>1 DEF HoldStep, HoldInv, Publishing
    <2>3. /\ pc'[p] = "unlink" /\ mem'[p].next = "publish" /\ mem'[p].at = q
          /\ mem'[p].bytes = bytes(q) /\ mem'[p].todo = mem[p].todo
          /\ mem'[p].journal = mem[p].journal
      BY <2>1, <1>1, WritePlace
    <2>4. SwapInv(p)'
      BY <2>1, <2>2, <2>3, <1>1 DEF SwapInv
    <2>5. HoldInv(p)'
      BY <2>2, <2>3, <2>4, <1>1, SwapPhase
    <2> QED BY <2>5, <1>1, SharedStays DEF HoldStep
  <1> QED BY <1>2, <1>3

LEMMA CheckWrittenHolds ==
    ASSUME TypeOK, NEW p \in Procs, HoldStep(p), CheckWritten(p) PROVE HoldStep(p)'
  <1> DEFINE j == [mem[p].journal EXCEPT !.status = "applied"]
  <1>1. UNCHANGED <<file, journal, backup, stage, raced, edits>> /\ pc[p] = "publish"
    BY DEF CheckWritten, txn, rest
  <1>2. CASE Throw(p)
    BY <1>1, <1>2, ForgetCalm, CalmStep
  <1>3. CASE WriteJournal(p, j, "verify")
    <2>1. /\ j.status = "applied" /\ j.after = mem[p].journal.after
          /\ j.before = mem[p].journal.before
      BY LocalTypes DEF Journal
    <2>2. /\ pc'[p] = "unlink journal" /\ mem'[p].journal = j /\ mem'[p].next = "verify"
      BY <1>3, SavePlace
    <2> HIDE DEF j
    <2>3. mem[p].journal = journal /\ journal.status = "prepared" /\ BackupInv
      BY <1>1 DEF HoldStep, HoldInv, Publishing
    <2>4. RecordInv(p)'
      BY <2>1, <2>2, <2>3, <1>1 DEF RecordInv, BackupInv, Carried
    <2> QED BY <2>2, <2>4, <1>1, SavingPhase, SharedStays DEF HoldStep
  <1> QED BY <1>2, <1>3 DEF CheckWritten

\* The journal on disk again, with another status.
LEMMA StatusHolds ==
    ASSUME TypeOK, NEW p \in Procs, HoldStep(p), NEW s \in {"recovery_required", "rolled_back"},
           journal.status # "none", WriteJournal(p, [journal EXCEPT !.status = s], "idle"),
           UNCHANGED <<file, journal, backup, raced, edits>>
    PROVE  HoldStep(p)'
  <1> DEFINE j == [journal EXCEPT !.status = s]
  <1>1. j.status = s /\ j.after = journal.after /\ j.before = journal.before
    BY DEF TypeOK, Journal
  <1>2. pc'[p] = "unlink journal" /\ mem'[p].journal = j /\ mem'[p].next = "idle"
    BY SavePlace
  <1> HIDE DEF j
  <1>3. RecordInv(p)'
    BY <1>1, <1>2 DEF HoldStep, BackupInv, RecordInv, Carried, TargetsAbsent
  <1> QED BY <1>2, <1>3, SavingPhase, SharedStays DEF HoldStep

\* A restoration begins when every file is as before or as after.
LEMMA BeginHolds ==
    ASSUME TypeOK, NEW p \in Procs, HoldStep(p), NEW automatic \in BOOLEAN, Begin(p, automatic),
           journal.status # "none", UNCHANGED <<file, journal, backup, raced, edits>>
    PROVE  HoldStep(p)'
  <1>1. CASE \A q \in Paths : file[q] \in {journal.before[q], journal.after[q]}
    <2>1. /\ Goto(p, "restore")
          /\ mem' = [mem EXCEPT ![p] = [NoMemory EXCEPT
                 !.journal = journal, !.automatic = automatic, !.todo = Paths]]
      BY <1>1 DEF Begin
    <2>2. pc'[p] = "restore" /\ mem'[p].journal = journal /\ mem'[p].todo = Paths
      BY <2>1, EmptyOK, GotoPlace DEF TypeOK, Memory
    <2>3. \A q \in Paths : file[q].has \subseteq journal.before[q].has \cup journal.after[q].has
      BY <1>1
    <2>4. HoldInv(p)'
      BY <2>2, <2>3, RestorePhase
    <2> QED BY <2>4, SharedStays DEF HoldStep
  <1>2. CASE ~\A q \in Paths : file[q] \in {journal.before[q], journal.after[q]}
    <2>1. CASE Leave(p)
      BY <2>1, ForgetCalm, CalmStep
    <2>2. CASE WriteJournal(p, [journal EXCEPT !.status = "recovery_required"], "idle")
      BY <2>2, StatusHolds
    <2> QED BY <2>1, <2>2, <1>2 DEF Begin
  <1> QED BY <1>1, <1>2

LEMMA HandlerHolds ==
    ASSUME TypeOK, NEW p \in Procs, HoldStep(p), Handler(p) \/ StartRollback(p)
    PROVE  HoldStep(p)'
  <1>1. UNCHANGED <<file, journal, backup, raced, edits>>
    BY DEF Handler, StartRollback, txn
  <1>2. CASE Leave(p)
    BY <1>1, <1>2, ForgetCalm, CalmStep
  <1>3. CASE journal.status # "none" /\ (Begin(p, TRUE) \/ Begin(p, FALSE))
    BY <1>1, <1>3, BeginHolds
  <1> QED BY <1>2, <1>3 DEF Handler, StartRollback

LEMMA RestoreHolds ==
    ASSUME TypeOK, NEW p \in Procs, HoldStep(p), Restore(p) PROVE HoldStep(p)'
  <1>1. UNCHANGED <<file, journal, backup, stage, raced, edits>> /\ pc[p] = "restore"
    BY DEF Restore, txn, rest
  <1>2. /\ mem[p].journal = journal /\ journal.status # "none"
        /\ \A q \in mem[p].todo :
              file[q].has \ raced \subseteq journal.before[q].has \cup journal.after[q].has
    BY <1>1 DEF HoldStep, HoldInv, Restoring
  <1>3. PICK q \in mem[p].todo :
          \/ /\ mem' = [mem EXCEPT ![p].todo = @ \ {q}, ![p].failed = TRUE]
             /\ UNCHANGED pc
          \/ /\ mem[p].journal.before[q] = NoFile \/ backup[q] = mem[p].journal.before[q]
             /\ Write(p, q, mem[p].journal.before[q])
    BY DEF Restore
  <1>4. CASE mem' = [mem EXCEPT ![p].todo = @ \ {q}, ![p].failed = TRUE] /\ UNCHANGED pc
    <2>1. mem'[p].todo = mem[p].todo \ {q} /\ mem'[p].journal = mem[p].journal
      BY <1>4 DEF TypeOK, Memory
    <2>2. HoldInv(p)'
      BY <2>1, <1>1, <1>2, <1>4, RestorePhase
    <2> QED BY <2>2, <1>1, SharedStays DEF HoldStep
  <1>5. CASE /\ mem[p].journal.before[q] = NoFile \/ backup[q] = mem[p].journal.before[q]
             /\ Write(p, q, mem[p].journal.before[q])
    <2>1. /\ pc'[p] = "unlink" /\ mem'[p].next = "restore" /\ mem'[p].at = q
          /\ mem'[p].bytes = mem[p].journal.before[q] /\ mem'[p].todo = mem[p].todo
          /\ mem'[p].journal = mem[p].journal
      BY <1>1, <1>5, WritePlace
    <2>2. SwapInv(p)'
      BY <2>1, <1>1, <1>5 DEF SwapInv
    <2>3. HoldInv(p)'
      BY <2>1, <2>2, <1>1, <1>2, SwapPhase
    <2> QED BY <2>3, <1>1, SharedStays DEF HoldStep
  <1> QED BY <1>3, <1>4, <1>5

LEMMA FinishRecoveryHolds ==
    ASSUME TypeOK, NEW p \in Procs, HoldStep(p), FinishRecovery(p) PROVE HoldStep(p)'
  <1>1. UNCHANGED <<file, journal, backup, stage, raced, edits>> /\ pc[p] = "restore"
    BY DEF FinishRecovery, txn, rest
  <1>2. mem[p].journal = journal /\ journal.status # "none"
    BY <1>1 DEF HoldStep, HoldInv, Restoring
  <1>3. CASE Leave(p)
    BY <1>1, <1>3, ForgetCalm, CalmStep
  <1>4. CASE ~Leave(p)
    <2>1. \E s \in {"recovery_required", "rolled_back"} :
              WriteJournal(p, [mem[p].journal EXCEPT !.status = s], "idle")
      BY <1>4 DEF FinishRecovery
    <2> QED BY <2>1, <1>1, <1>2, StatusHolds
  <1> QED BY <1>3, <1>4

LEMMA UnlinkJournalHolds ==
    ASSUME TypeOK, NEW p \in Procs, HoldStep(p), UnlinkJournal(p) PROVE HoldStep(p)'
  <1>1. /\ pc[p] = "unlink journal" /\ pc'[p] = "rename journal" /\ journal' = NoJournal
        /\ UNCHANGED <<file, backup, stage, mem, raced, edits>>
    BY GotoPlace DEF UnlinkJournal, rest
  <1>2. RecordInv(p)
    BY <1>1 DEF HoldStep, HoldInv, Saving
  <1>3. HoldInv(p)'
    BY <1>1, <1>2, SavingPhase DEF RecordInv, Carried, TargetsAbsent
  <1>4. BackupInv'
    <2>1. NoJournal.status = "none"
      BY DEF NoJournal
    <2>2. \A q \in Paths : NoJournal.after[q].has = {} /\ NoJournal.before[q].has = {}
      BY DEF NoJournal, NoFiles, NoFile
    <2>3. Carried(journal)'
      BY <2>2, <1>1, KindsApart DEF Carried
    <2> QED BY <2>1, <2>3, <1>1 DEF HoldStep, BackupInv
  <1> QED BY <1>1, <1>3, <1>4 DEF HoldStep, NothingLost

LEMMA RenameJournalHolds ==
    ASSUME TypeOK, NEW p \in Procs, HoldStep(p), RenameJournal(p) PROVE HoldStep(p)'
  <1>1. /\ pc[p] = "rename journal" /\ pc'[p] = mem[p].next /\ journal' = mem[p].journal
        /\ UNCHANGED <<file, backup, stage, raced, edits>> /\ (mem[p].next = "idle" \/ mem' = mem)
    BY DEF RenameJournal, Leave, Goto, TypeOK
  <1>2. RecordInv(p)
    BY <1>1 DEF HoldStep, HoldInv, Saving
  <1>3. BackupInv'
    BY <1>1, <1>2 DEF HoldStep, BackupInv, RecordInv, Carried, TargetsAbsent
  <1>4. HoldInv(p)'
    <2>1. CASE mem[p].next = "drift"
      BY <2>1, <1>1, <1>2, PublishPhase DEF RecordInv
    <2>2. CASE mem[p].next \in {"verify", "idle"}
      BY <2>2, <1>1, CalmPhase DEF Calm
    <2> QED BY <2>1, <2>2, <1>2 DEF RecordInv
  <1> QED BY <1>1, <1>3, <1>4 DEF HoldStep, NothingLost

\* Replacing one file in two steps.
SwapFacts(p) ==
    /\ SwapInv(p) /\ mem[p].journal = journal /\ journal.status # "none"
    /\ mem[p].next = "publish" => journal.status = "prepared" /\ stage = journal.after
    /\ mem[p].next = "restore" => \A q \in mem[p].todo :
           file[q].has \ raced \subseteq journal.before[q].has \cup journal.after[q].has

LEMMA SwapKnown ==
    ASSUME NEW p \in Procs, HoldStep(p), Moving(p) PROVE SwapFacts(p)
  <1>1. SwapInv(p)
    BY DEF HoldStep, HoldInv
  <1>2. mem[p].next \in {"publish", "restore"}
    BY <1>1 DEF SwapInv
  <1> QED BY <1>1, <1>2 DEF HoldStep, HoldInv, Publishing, Restoring, SwapFacts

\* What the removed file held is in a backup.
LEMMA RemovedIsKept ==
    ASSUME TypeOK, NEW p \in Procs, HoldStep(p), pc[p] = "unlink",
           NEW n \in file[mem[p].at].has \ raced
    PROVE  \E q \in Paths : n \in backup[q].has
  <1> DEFINE at == mem[p].at
             before == journal.before
  <1>1. SwapFacts(p)
    BY SwapKnown DEF Moving
  <1>2. at \in Paths /\ SwapInv(p) /\ BackupInv
    BY <1>1, LocalTypes DEF SwapFacts, HoldStep
  <1>3. file[at].has # {} /\ NoFile.has = {}
    BY DEF NoFile
  <1>4. CASE mem[p].next = "publish"
    <2>1. backup = before /\ n \in before[at].has
      BY <1>1, <1>2, <1>4 DEF SwapFacts, SwapInv, BackupInv
    <2> QED BY <2>1, <1>2
  <1>5. CASE mem[p].next = "restore"
    <2>1. n \in before[at].has \cup journal.after[at].has
      BY <1>1, <1>2, <1>5 DEF SwapFacts, SwapInv
    <2>2. n \in before[at].has \cup before[Origin(at)].has
      BY <2>1, <1>2 DEF BackupInv, Carried
    <2>3. n \in before[at].has => backup[at] = before[at]
      BY <1>1, <1>2, <1>3, <1>5 DEF SwapFacts, SwapInv
    <2>4. CASE at \notin Targets
      BY <2>2, <2>3, <2>4, <1>2, KindsApart
    <2>5. CASE at \in Targets
      <3>1. backup = before
        BY <2>5, <1>1, <1>2, <1>3 DEF SwapFacts, BackupInv, TargetsAbsent
      <3> QED BY <3>1, <2>2, <2>5, <1>2, KindsApart
    <2> QED BY <2>4, <2>5
  <1> QED BY <1>2, <1>4, <1>5 DEF SwapInv

\* After one of the two steps at the file.
LEMMA SwapOthers ==
    ASSUME TypeOK, NEW p \in Procs, HoldStep(p), Moving(p), NEW bytes,
           file' = [file EXCEPT ![mem[p].at] = bytes],
           UNCHANGED <<journal, backup, stage, raced, edits>>,
           bytes = NoFile \/ (bytes = mem[p].bytes /\ mem[p].bytes # NoFile)
    PROVE  BackupInv'
  <1> DEFINE at == mem[p].at
  <1>1. SwapFacts(p) /\ BackupInv /\ SwapInv(p)
    BY SwapKnown DEF HoldStep, SwapFacts
  <1>2. at \in Paths /\ \A q \in Paths : file'[q] = IF q = at THEN bytes ELSE file[q]
    BY LocalTypes DEF TypeOK
  <1>3. \A q \in Successors : backup'[q] = NoFile
    BY <1>1 DEF BackupInv
  <1>4. \A q \in Paths : file'[q] = NoFile \/ backup'[q].has \ raced' \subseteq file'[q].has
    <2> SUFFICES ASSUME bytes # NoFile PROVE backup[at].has \ raced \subseteq bytes.has
      BY <1>1, <1>2 DEF BackupInv
    <2>1. CASE mem[p].next = "restore"
      BY <2>1, <1>1 DEF SwapInv, SwapFacts
    <2>2. CASE mem[p].next = "publish"
      <3>1. at \notin Sources /\ bytes = journal.after[at] /\ backup = journal.before
        BY <2>2, <1>1 DEF SwapInv, SwapFacts, BackupInv
      <3>2. CASE at \in Successors
        BY <3>2, <1>1 DEF BackupInv, NoFile
      <3>3. CASE at \in References \cup {Index}
        BY <3>1, <3>3, <1>1 DEF BackupInv, Carried
      <3> QED BY <3>1, <3>2, <3>3, <1>2, KindsApart
    <2> QED BY <2>1, <2>2, <1>1 DEF SwapInv
  <1>5. Carried(journal)'
    BY <1>1 DEF BackupInv, Carried
  <1>6. journal.status = "none" \/ backup = journal.before \/ TargetsAbsent'
    <2>1. CASE backup = journal.before
      BY <2>1
    <2>2. CASE backup # journal.before
      <3>1. TargetsAbsent /\ mem[p].next = "restore"
        BY <2>2, <1>1 DEF BackupInv, SwapFacts, SwapInv
      <3>2. at \in Targets => bytes = NoFile
        BY <3>1, <1>1, KindsApart DEF SwapInv, SwapFacts, BackupInv
      <3> QED BY <3>1, <3>2, <1>2, KindsApart DEF TargetsAbsent
    <2> QED BY <2>1, <2>2
  <1> QED BY <1>1, <1>3, <1>4, <1>5, <1>6 DEF BackupInv

LEMMA UnlinkHolds ==
    ASSUME TypeOK, NEW p \in Procs, HoldStep(p), Unlink(p) PROVE HoldStep(p)'
  <1> DEFINE m == mem[p]
  <1>1. /\ pc[p] = "unlink" /\ UNCHANGED <<journal, backup, stage, raced, edits>>
        /\ file' = [file EXCEPT ![m.at] = NoFile]
    BY DEF Unlink, txn, rest
  <1>2. \/ /\ m.bytes # NoFile /\ pc'[p] = "rename" /\ UNCHANGED mem
        \/ /\ m.bytes = NoFile /\ pc'[p] = m.next /\ mem'[p].todo = m.todo \ {m.at}
           /\ mem'[p].journal = m.journal
    BY DEF Unlink, Goto, TypeOK, Memory
  <1>3. m.at \in Paths /\ \A q \in Paths : file'[q] = IF q = m.at THEN NoFile ELSE file[q]
    BY <1>1, LocalTypes DEF TypeOK
  <1>4. Moving(p) /\ SwapFacts(p) /\ SwapInv(p) /\ NoFile.has = {} /\ m.todo \subseteq Paths
    BY <1>1, SwapKnown, LocalTypes DEF Moving, SwapFacts, NoFile
  <1>5. BackupInv'
    BY <1>1, <1>4, SwapOthers
  <1>6. NothingLost'
    <2> SUFFICES ASSUME NEW n \in (1..edits) \ raced
                 PROVE  \E q \in Paths : n \in file'[q].has \cup backup[q].has
      BY <1>1 DEF NothingLost
    <2>1. PICK q \in Paths : n \in file[q].has \cup backup[q].has
      BY DEF HoldStep, NothingLost
    <2>2. CASE q = m.at /\ n \in file[q].has
      BY <2>2, <1>1, RemovedIsKept
    <2>3. CASE q # m.at \/ n \notin file[q].has
      BY <2>1, <2>3, <1>3
    <2> QED BY <2>2, <2>3
  <1>7. \A q \in Paths : file'[q].has \subseteq file[q].has
    BY <1>3, <1>4
  <1>8. HoldInv(p)'
    <2>1. CASE m.bytes # NoFile
      <3>1. pc'[p] = "rename" /\ mem' = mem
        BY <2>1, <1>2
      <3>2. SwapInv(p)'
        BY <3>1, <1>1, <1>3, <1>4 DEF SwapInv
      <3> QED BY <3>1, <3>2, <1>1, <1>4, <1>7, SwapPhase DEF SwapFacts
    <2>2. CASE m.bytes = NoFile
      <3>1. pc'[p] = m.next /\ mem'[p].todo = m.todo \ {m.at} /\ mem'[p].journal = m.journal
        BY <2>2, <1>2
      <3>2. CASE m.next = "publish"
        BY <3>1, <3>2, <1>1, <1>4, PublishPhase DEF SwapFacts
      <3>3. CASE m.next = "restore"
        BY <3>1, <3>3, <1>1, <1>4, <1>7, RestorePhase DEF SwapFacts
      <3> QED BY <3>2, <3>3, <1>4 DEF SwapInv
    <2> QED BY <2>1, <2>2
  <1> QED BY <1>5, <1>6, <1>8 DEF HoldStep

LEMMA RenameHolds ==
    ASSUME TypeOK, NEW p \in Procs, HoldStep(p), MoveInv(p), Rename(p) PROVE HoldStep(p)'
  <1> DEFINE m == mem[p]
  <1>1. /\ pc[p] = "rename" /\ UNCHANGED <<journal, backup, stage, raced, edits>>
        /\ file' = [file EXCEPT ![m.at] = m.bytes]
        /\ pc'[p] = m.next /\ mem'[p].todo = m.todo \ {m.at} /\ mem'[p].journal = m.journal
    BY DEF Rename, txn, rest, Goto, TypeOK, Memory
  <1>2. m.at \in Paths /\ \A q \in Paths : file'[q] = IF q = m.at THEN m.bytes ELSE file[q]
    BY <1>1, LocalTypes DEF TypeOK
  <1>3. Moving(p) /\ SwapFacts(p) /\ SwapInv(p) /\ m.todo \subseteq Paths /\ m.bytes # NoFile
    BY <1>1, SwapKnown, LocalTypes DEF Moving, SwapFacts, MoveInv
  <1>4. file[m.at].has = {}
    BY <1>1, <1>3 DEF SwapInv, NoFile
  <1>5. BackupInv'
    BY <1>1, <1>3, SwapOthers
  <1>6. NothingLost'
    <2>1. \A q \in Paths : file[q].has \subseteq file'[q].has
      BY <1>2, <1>4
    <2> QED BY <2>1, <1>1 DEF HoldStep, NothingLost
  <1>7. \A q \in m.todo \ {m.at} : file'[q] = file[q]
    BY <1>2, <1>3
  <1>8. HoldInv(p)'
    <2>1. CASE m.next = "publish"
      BY <2>1, <1>1, <1>3, PublishPhase DEF SwapFacts
    <2>2. CASE m.next = "restore"
      BY <2>2, <1>1, <1>3, <1>7, RestorePhase DEF SwapFacts
    <2> QED BY <2>1, <2>2, <1>3 DEF SwapInv
  <1> QED BY <1>5, <1>6, <1>8 DEF HoldStep

\* A write of another command goes to a file that is there, and counts as raced when
\* no comparison can notice it.
LEMMA EditHolds ==
    ASSUME TypeOK, NEW p \in Procs, HoldStep(p), NEW e \in Paths, Edit(e) PROVE HoldStep(p)'
  <1>1. /\ UNCHANGED <<journal, backup, stage, pc, mem>> /\ file[e] # NoFile
        /\ edits' = edits + 1 /\ raced \subseteq raced'
        /\ Unseen(p, e) => raced' = raced \cup {edits + 1}
    BY DEF Edit, txn
  <1>2. \A q \in Paths : /\ q # e => file'[q] = file[q]
                         /\ file'[q].has = IF q = e THEN file[q].has \cup {edits + 1} ELSE file[q].has
    <2>1. file[e] \in Contents /\ file' = [file EXCEPT ![e] = [file[e] EXCEPT !.has = @ \cup {edits + 1}]]
      BY DEF Edit, TypeOK
    <2>2. [file[e] EXCEPT !.has = @ \cup {edits + 1}].has = file[e].has \cup {edits + 1}
      BY <2>1 DEF Contents
    <2> QED BY <2>1, <2>2 DEF TypeOK
  <1>3. file'[e] # NoFile /\ NoFile.has = {}
    <2>1. edits + 1 \in file'[e].has
      BY <1>2
    <2> QED BY <2>1 DEF NoFile
  <1>4. \A q \in Paths : file'[q] = NoFile <=> file[q] = NoFile
    BY <1>1, <1>2, <1>3
  <1>5. NothingLost'
    <2> SUFFICES ASSUME NEW n \in (1..edits') \ raced'
                 PROVE  \E q \in Paths : n \in file'[q].has \cup backup[q].has
      BY <1>1 DEF NothingLost
    <2>1. CASE n = edits + 1
      BY <2>1, <1>2
    <2>2. CASE n # edits + 1
      <3>1. n \in (1..edits) \ raced
        BY <2>2, <1>1 DEF TypeOK
      <3> QED BY <3>1, <1>2 DEF HoldStep, NothingLost
    <2> QED BY <2>1, <2>2
  <1>6. TargetsAbsent => TargetsAbsent'
    BY <1>4, KindsApart DEF TargetsAbsent
  <1>7. \A j : Carried(j) => /\ \A q \in Paths : j.after[q].has \ raced' \subseteq j.before[Origin(q)].has
                             /\ \A q \in References \cup {Index} :
                                   j.before[q].has \ raced' \subseteq j.after[q].has
    BY <1>1 DEF Carried
  <1>8. BackupInv'
    <2>1. Carried(journal)'
      BY <1>1, <1>7 DEF HoldStep, BackupInv, Carried
    <2>2. \A q \in Paths : file'[q] = NoFile \/ backup'[q].has \ raced' \subseteq file'[q].has
      BY <1>1, <1>2, <1>4 DEF HoldStep, BackupInv
    <2> QED BY <2>1, <2>2, <1>1, <1>6 DEF HoldStep, BackupInv
  <1>9. ASSUME Reading(p), ReadInv(p) PROVE ReadInv(p)'
    <2>1. \A q \in Paths : Origin(q) \in Paths
      BY KindsApart
    <2>2. \A q \in Paths : mem[p].journal.after[q].has \ raced' \subseteq file'[Origin(q)].has
      BY <1>1, <1>2, <1>9, <2>1 DEF ReadInv
    <2>3. pc[p] # "copy" \/ e # Index => Unseen(p, e)
      BY <1>9 DEF Reading, Unseen
    <2>4. ASSUME NEW q \in References
          PROVE  file'[q].has \ raced' \subseteq mem[p].journal.after[q].has
      <3>1. q \in Paths /\ q # Index /\ file[q].has \ raced \subseteq mem[p].journal.after[q].has
        BY <1>9, KindsApart DEF ReadInv
      <3>2. file'[q].has \ raced' \subseteq file[q].has \ raced
        BY <3>1, <1>1, <1>2, <2>3
      <3> QED BY <3>1, <3>2
    <2>5. pc[p] # "copy" => file'[Index].has \ raced' \subseteq mem[p].journal.after[Index].has
      <3>1. ASSUME pc[p] # "copy" PROVE file'[Index].has \ raced' \subseteq file[Index].has \ raced
        BY <3>1, <1>1, <1>2, <2>3, KindsApart
      <3> QED BY <3>1, <1>9 DEF ReadInv
    <2> QED BY <2>2, <2>4, <2>5, <1>1, <1>4, <1>9, KindsApart DEF ReadInv
  <1>10. ASSUME Moving(p), SwapInv(p) PROVE SwapInv(p)'
    <2>1. mem[p].at \in Paths /\ (e = mem[p].at => Unseen(p, e))
      BY <1>10, LocalTypes DEF Moving, Unseen
    <2>2. file'[mem[p].at].has \ raced' \subseteq file[mem[p].at].has \ raced
      BY <2>1, <1>1, <1>2
    <2> QED BY <2>1, <2>2, <1>1, <1>4, <1>10 DEF SwapInv
  <1>11. ASSUME Restoring(p), NEW q \in mem[p].todo
         PROVE  file'[q].has \ raced' \subseteq file[q].has \ raced
    <2>1. q \in Paths /\ (e = q => Unseen(p, e))
      BY <1>11, LocalTypes DEF Restoring, Moving, Unseen
    <2> QED BY <2>1, <1>1, <1>2
  <1>12. RecordInv(p) => RecordInv(p)'
    BY <1>1, <1>6, <1>7 DEF RecordInv, Carried
  <1>13. HoldInv(p)'
    BY <1>1, <1>6, <1>9, <1>10, <1>11, <1>12
       DEF HoldStep, HoldInv, Planning, Reading, Publishing, Moving, Restoring, Saving
  <1> QED BY <1>5, <1>8, <1>13 DEF HoldStep

LEMMA RunHolds ==
    ASSUME TypeOK, NEW p \in Procs, HoldStep(p), StepInv(p), Run(p) PROVE HoldStep(p)'
  <1>1. CASE Rename(p)
    <2>1. MoveInv(p)
      BY <1>1 DEF Rename, StepInv, PhaseInv, Moving
    <2> QED BY <1>1, <2>1, RenameHolds
  <1> QED BY <1>1, CalmSteps, CheckJournalHolds, PlanHolds, ReadContentsHolds, CopyIndexHolds,
             PurgeHolds, SnapshotHolds, CheckDriftHolds, PublishHolds, CheckWrittenHolds,
             HandlerHolds, RestoreHolds, FinishRecoveryHolds, UnlinkJournalHolds,
             RenameJournalHolds, UnlinkHolds DEF Run

LEMMA LossStep ==
    ASSUME Alone, IInv, LossInv, Procs # {}, [Next]_vars PROVE LossInv'
  <1>1. ASSUME NEW r \in Procs PROVE HoldStep(r)'
    <2>1. TypeOK /\ HoldStep(r) /\ StepInv(r)
      BY DEF LossInv, HoldStep, IInv
    <2>2. ASSUME NEW p \in Procs, StartApply(p) \/ StartRollback(p) \/ Run(p) \/ Crash(p)
          PROVE  HoldStep(r)'
      <3>1. p = r
        BY DEF Alone
      <3> QED BY <3>1, <2>1, <2>2, CalmSteps, HandlerHolds, RunHolds
    <2>3. ASSUME NEW q \in Paths, Edit(q) PROVE HoldStep(r)'
      BY <2>1, <2>3, EditHolds
    <2>4. CASE UNCHANGED vars
      <3>1. UNCHANGED <<file, journal, backup, stage, pc, mem, raced, edits>>
        BY <2>4 DEF vars
      <3>2. HoldInv(r)'
        BY <3>1, <2>1 DEF HoldStep, HoldInv, Planning, Reading, ReadInv, Publishing, Moving,
           SwapInv, Restoring, Saving, RecordInv, Carried, TargetsAbsent
      <3> QED BY <3>1, <3>2, <2>1, SharedStays DEF HoldStep
    <2> QED BY <2>2, <2>3, <2>4 DEF Next
  <1> QED BY <1>1 DEF LossInv, HoldStep

LEMMA LossInit == ASSUME Init PROVE LossInv
  <1>1. /\ file = Reviewed /\ journal = NoJournal /\ backup = NoFiles
        /\ raced = {} /\ edits = 0 /\ \A p \in Procs : pc[p] = "idle"
    BY DEF Init
  <1>2. \A q \in Paths : NoFiles[q] = NoFile /\ NoFile.has = {}
    BY DEF NoFiles, NoFile
  <1>3. NoJournal.status = "none" /\ NoJournal.before = NoFiles /\ NoJournal.after = NoFiles
    BY DEF NoJournal
  <1>4. BackupInv
    BY <1>1, <1>2, <1>3, KindsApart DEF BackupInv, Carried
  <1>5. NothingLost
    BY <1>1 DEF NothingLost
  <1>6. \A p \in Procs : HoldInv(p)
    BY <1>1 DEF HoldInv, Planning, Reading, Publishing, Moving, Restoring, Saving
  <1> QED BY <1>4, <1>5, <1>6 DEF LossInv

\* Commands one after another, dying anywhere, beside item commands that write the
\* same files: every write that a comparison can notice is in a file or in a backup.
THEOREM WritesAreKept ==
    ASSUME Alone, Procs # {} PROVE Spec => []NothingLost
  <1>1. LossInv => NothingLost
    BY DEF LossInv
  <1>2. IInv /\ LossInv /\ [Next]_vars => LossInv'
    BY LossStep
  <1> QED BY <1>1, <1>2, LossInit, Invariance, PTL DEF Spec

===============================================================================
