------------------------ MODULE ProductRelocationProofs ------------------------
(***************************************************************************)
(* Proofs about ProductRelocation, for any processes, any interleaving of    *)
(* apply and rollback, and any number of crashes, edits and config changes:  *)
(* types, and that the source is never lost.  And for one applier, that the  *)
(* root the config names is complete.                                        *)
(***************************************************************************)
EXTENDS ProductRelocation, TLAPS

\* The kinds of change an action makes, each within its type.
PcOK == pc' \in [Procs -> Steps]
RunOK == PcOK /\ mem' \in [Procs -> Memory] /\ lock' \in Procs \cup {Free, Bare, Stale}

FilesOK == /\ root' \in [Roots -> Contents] /\ txn' \in BOOLEAN
           /\ config' \in [root: {"source", "dest"}, drifted: BOOLEAN]
           /\ journal' \in Journal \cup {NoJournal}

LEMMA GotoOK ==
    ASSUME TypeOK, NEW p \in Procs, NEW step \in Steps, Goto(p, step) PROVE PcOK
  BY DEF TypeOK, Goto, PcOK

LEMMA JournalInMemory ==
    ASSUME TypeOK, NEW p \in Procs PROVE mem[p].journal \in Journal /\ mem[p].locked \in BOOLEAN
  BY DEF TypeOK, Memory

LEMMA StartedOK == Started \in Journal /\ NoMemory \in Memory
  BY DEF Started, Journal, Statuses, Stages, NoMemory, Memory

LEMMA StepNames ==
    /\ Applying \subseteq Steps /\ Undoing \subseteq Steps /\ Locking \subseteq Steps
    /\ {"idle", "look", "prepare", "recover", "load"} \subseteq Steps
  BY DEF Steps

LEMMA ForgetOK ==
    ASSUME TypeOK, NEW p \in Procs, mem' = [mem EXCEPT ![p] = NoMemory]
    PROVE  mem' \in [Procs -> Memory]
  BY StartedOK DEF TypeOK

LEMMA UnlockOK ==
    ASSUME TypeOK, NEW p \in Procs, lock' = IF mem[p].locked THEN Free ELSE lock
    PROVE  lock' \in Procs \cup {Free, Bare, Stale}
  BY DEF TypeOK

LEMMA ThrowOK ==
    ASSUME TypeOK, NEW p \in Procs, Throw(p) PROVE RunOK
  <1>1. PcOK
    BY GotoOK, StepNames DEF Throw
  <1>2. mem' \in [Procs -> Memory]
    BY ForgetOK DEF Throw
  <1>3. lock' \in Procs \cup {Free, Bare, Stale}
    BY UnlockOK DEF Throw
  <1> QED BY <1>1, <1>2, <1>3 DEF RunOK

LEMMA LeaveOK ==
    ASSUME TypeOK, NEW p \in Procs, Leave(p) PROVE RunOK
  <1>1. PcOK
    BY GotoOK, StepNames DEF Leave
  <1>2. mem' \in [Procs -> Memory]
    BY ForgetOK DEF Leave
  <1>3. lock' \in Procs \cup {Free, Bare, Stale}
    BY UnlockOK DEF Leave
  <1> QED BY <1>1, <1>2, <1>3 DEF RunOK

LEMMA SaveOK ==
    ASSUME TypeOK, NEW p \in Procs, NEW j \in Journal, Save(p, j)
    PROVE  mem' \in [Procs -> Memory] /\ journal' \in Journal \cup {NoJournal}
  BY DEF TypeOK, Save, Memory

LEMMA OwnOK ==
    ASSUME TypeOK, NEW p \in Procs, NEW owned \in BOOLEAN, Own(p, owned)
    PROVE  mem' \in [Procs -> Memory] /\ journal' \in Journal \cup {NoJournal}
  <1>1. [mem[p].journal EXCEPT !.owned = owned] \in Journal
    BY JournalInMemory DEF Journal
  <1> QED BY <1>1, SaveOK DEF Own

LEMMA PutOK ==
    ASSUME TypeOK, NEW r \in Roots, NEW content \in Contents, Put(r, content)
    PROVE  root' \in [Roots -> Contents]
  BY DEF TypeOK, Put

LEMMA MoveOK ==
    ASSUME TypeOK, NEW from \in Roots, NEW to \in Roots, Move(from, to)
    PROVE  root' \in [Roots -> Contents]
  <1>1. "absent" \in Contents /\ root[from] \in Contents
    BY DEF TypeOK, Contents
  <1> QED BY <1>1 DEF TypeOK, Move

LEMMA KeepsFiles == ASSUME TypeOK, UNCHANGED files PROVE FilesOK
  BY DEF TypeOK, files, FilesOK

LEMMA KeepsMemory ==
    ASSUME TypeOK, UNCHANGED mem PROVE mem' \in [Procs -> Memory]
  BY DEF TypeOK
LEMMA KeepsLock ==
    ASSUME TypeOK, UNCHANGED lock PROVE lock' \in Procs \cup {Free, Bare, Stale}
  BY DEF TypeOK

Command(p) == Look(p) \/ Load(p) \/ Run(p)

LEMMA Combine ==
    ASSUME TypeOK, UNCHANGED rest, RunOK, FilesOK PROVE TypeOK'
  BY DEF TypeOK, rest, RunOK, PcOK, FilesOK

LEMMA MarkNames ==
    \A x \in DOMAIN MarkOf : MarkOf[x][1] \in Stages /\ MarkOf[x][2] \in Applying
  BY DEF MarkOf, Stages, Applying

LEMMA RestageOK ==
    ASSUME NEW j \in Journal, NEW stage \in Stages
    PROVE  /\ [j EXCEPT !.stage = stage] \in Journal
           /\ [j EXCEPT !.status = "applying", !.stage = stage] \in Journal
           /\ [j EXCEPT !.status = "applied", !.stage = stage] \in Journal
           /\ [j EXCEPT !.status = "rolled_back", !.stage = stage] \in Journal
           /\ [j EXCEPT !.status = "recovery_required", !.stage = stage] \in Journal
  BY DEF Journal, Statuses

LEMMA StageNames == {"generated_rebuild", "complete", "rolled_back", "rollback_failed"} \subseteq Stages
  BY DEF Stages

LEMMA LoadedOK ==
    ASSUME TypeOK, NEW p \in Procs, NEW j \in Journal, mem' = [mem EXCEPT ![p].journal = j]
    PROVE  mem' \in [Procs -> Memory]
  BY DEF TypeOK, Memory

LEMMA LockedOK ==
    ASSUME TypeOK, NEW p \in Procs, mem' = [mem EXCEPT ![p].locked = TRUE]
    PROVE  mem' \in [Procs -> Memory]
  BY DEF TypeOK, Memory

\* Every action goes to a step there is.
LEMMA PcStep ==
    ASSUME TypeOK, NEW p \in Procs, Command(p) PROVE PcOK
  <1>1. CASE Look(p)
    BY <1>1, GotoOK, StepNames DEF Look, Step, Applying, Undoing, Locking
  <1>2. CASE Load(p)
    BY <1>2, GotoOK, StepNames DEF Load, Step, Applying, Undoing, Locking
  <1>3. CASE Reclaim(p)
    BY <1>3, GotoOK, StepNames DEF Reclaim, Step, Applying, Undoing, Locking
  <1>4. CASE OwnLock(p)
    BY <1>4, GotoOK, StepNames DEF OwnLock, Step, Applying, Undoing, Locking
  <1>5. CASE Prepare(p)
    BY <1>5, GotoOK, StepNames DEF Prepare, Step, Applying, Undoing, Locking
  <1>6. CASE BeginTransaction(p)
    BY <1>6, GotoOK, StepNames DEF BeginTransaction, Step, Applying, Undoing, Locking
  <1>7. CASE Record(p)
    BY <1>7, GotoOK, StepNames DEF Record, Step, Applying, Undoing, Locking
  <1>8. CASE OwnStage(p)
    BY <1>8, GotoOK, StepNames DEF OwnStage, Step, Applying, Undoing, Locking
  <1>9. CASE DisownStage(p)
    BY <1>9, GotoOK, StepNames DEF DisownStage, Step, Applying, Undoing, Locking
  <1>10. CASE Commit(p)
    BY <1>10, GotoOK, StepNames DEF Commit, Step, Applying, Undoing, Locking
  <1>11. CASE DropOracle(p)
    BY <1>11, GotoOK, StepNames DEF DropOracle, Step, Applying, Undoing, Locking
  <1>12. CASE CompleteApply(p)
    BY <1>12, GotoOK, StepNames DEF CompleteApply, Step, Applying, Undoing, Locking
  <1>13. CASE Recover(p)
    BY <1>13, GotoOK, StepNames DEF Recover, Step, Applying, Undoing, Locking
  <1>14. CASE Guard(p)
    BY <1>14, GotoOK, StepNames DEF Guard, Step, Applying, Undoing, Locking
  <1>15. CASE Restore(p)
    BY <1>15, GotoOK, StepNames DEF Restore, Step, Applying, Undoing, Locking
  <1>16. CASE RenameBack(p)
    BY <1>16, GotoOK, StepNames DEF RenameBack, Step, Applying, Undoing, Locking
  <1>17. CASE ReadConfig(p)
    BY <1>17, GotoOK, StepNames DEF ReadConfig, Step, Applying, Undoing, Locking
  <1>18. CASE RevertConfig(p)
    BY <1>18, GotoOK, StepNames DEF RevertConfig, Step, Applying, Undoing, Locking
  <1>19. CASE JudgeTarget(p)
    BY <1>19, GotoOK, StepNames DEF JudgeTarget, Step, Applying, Undoing, Locking
  <1>20. CASE RemoveTarget(p)
    BY <1>20, GotoOK, StepNames DEF RemoveTarget, Step, Applying, Undoing, Locking
  <1>21. CASE Recreate(p)
    BY <1>21, GotoOK, StepNames DEF Recreate, Step, Applying, Undoing, Locking
  <1>22. CASE DisownRest(p)
    BY <1>22, GotoOK, StepNames DEF DisownRest, Step, Applying, Undoing, Locking
  <1>23. CASE RemoveStage(p)
    BY <1>23, GotoOK, StepNames DEF RemoveStage, Step, Applying, Undoing, Locking
  <1>24. CASE Lock(p)
    BY <1>24, GotoOK, StepNames, ThrowOK DEF Lock, RunOK, Applying, Undoing, Locking
  <1>25. CASE Admit(p)
    BY <1>25, GotoOK, StepNames, ThrowOK DEF Admit, RunOK, Applying, Undoing, Locking
  <1>26. CASE Vacate(p)
    BY <1>26, GotoOK, StepNames, ThrowOK DEF Vacate, RunOK, Applying, Undoing, Locking
  <1>27. CASE Publish(p)
    BY <1>27, GotoOK, StepNames, ThrowOK DEF Publish, RunOK, Applying, Undoing, Locking
  <1>28. CASE Compare(p)
    BY <1>28, GotoOK, StepNames, ThrowOK DEF Compare, RunOK, Applying, Undoing, Locking
  <1>29. CASE VerifyRoots(p)
    BY <1>29, GotoOK, StepNames, ThrowOK DEF VerifyRoots, RunOK, Applying, Undoing, Locking
  <1>30. CASE Index(p)
    BY <1>30, GotoOK, StepNames, ThrowOK DEF Index, RunOK, Applying, Undoing, Locking
  <1>31. CASE Retire(p)
    BY <1>31, GotoOK, StepNames, ThrowOK DEF Retire, RunOK, Applying, Undoing, Locking
  <1>32. CASE MakeStage(p)
    BY <1>32, GotoOK, StepNames, ThrowOK DEF MakeStage, RunOK, Applying, Undoing, Locking, Abandon
  <1>33. CASE CopyStage(p)
    BY <1>33, GotoOK, StepNames, ThrowOK DEF CopyStage, RunOK, Applying, Undoing, Locking, Abandon
  <1>34. CASE Verify(p)
    BY <1>34, GotoOK, StepNames, ThrowOK, LeaveOK DEF Verify, RunOK, Applying, Undoing, Locking
  <1>35. CASE Conclude(p)
    BY <1>35, GotoOK, StepNames, LeaveOK DEF Conclude, RunOK, Applying, Undoing, Locking
  <1>36. CASE Mark(p)
    BY <1>36, GotoOK, StepNames, MarkNames DEF Mark
  <1> QED BY <1>1, <1>2, <1>3, <1>4, <1>5, <1>6, <1>7, <1>8, <1>9, <1>10, <1>11, <1>12, <1>13, <1>14, <1>15, <1>16, <1>17, <1>18, <1>19, <1>20, <1>21, <1>22, <1>23, <1>24, <1>25, <1>26, <1>27, <1>28, <1>29, <1>30, <1>31, <1>32, <1>33, <1>34, <1>35, <1>36 DEF Command, Run

\* The journal held in memory is a journal.
LEMMA MemStep ==
    ASSUME TypeOK, NEW p \in Procs, Command(p) PROVE mem' \in [Procs -> Memory]
  <1>1. CASE Look(p) \/ Reclaim(p) \/ Prepare(p) \/ BeginTransaction(p) \/ Commit(p) \/
           DropOracle(p) \/ Guard(p) \/ Restore(p) \/ RenameBack(p) \/
           ReadConfig(p) \/ RevertConfig(p) \/ JudgeTarget(p) \/
           RemoveTarget(p) \/ Recreate(p) \/ RemoveStage(p)
    BY <1>1, KeepsMemory DEF Look, Reclaim, Prepare, BeginTransaction, Commit, DropOracle, Guard, Restore,
       RenameBack, ReadConfig, RevertConfig, JudgeTarget, RemoveTarget,
       Recreate, RemoveStage, Step, Silent
  <1>2. CASE Lock(p) \/ Admit(p) \/ Vacate(p) \/ Publish(p) \/ Compare(p) \/
           VerifyRoots(p) \/ Retire(p)
    BY <1>2, KeepsMemory, ThrowOK DEF Lock, Admit, Vacate, Publish, Compare, VerifyRoots, Retire, Silent, RunOK
  <1>3. CASE MakeStage(p) \/ CopyStage(p)
    BY <1>3, KeepsMemory, ThrowOK DEF MakeStage, CopyStage, Silent, RunOK, Abandon
  <1>4. CASE Verify(p) \/ Conclude(p)
    BY <1>4, ThrowOK, LeaveOK DEF Verify, Conclude, RunOK
  <1>5. CASE OwnStage(p) \/ DisownStage(p) \/ DisownRest(p)
    BY <1>5, OwnOK, KeepsMemory DEF OwnStage, DisownStage, DisownRest, Step
  <1>6. CASE OwnLock(p)
    BY <1>6, LockedOK DEF OwnLock
  <1>7. CASE Load(p) \/ Recover(p)
    BY <1>7, LoadedOK, KeepsMemory DEF Load, Recover, TypeOK
  <1>8. CASE Record(p)
    BY <1>8, SaveOK, StartedOK DEF Record
  <1>9. CASE Index(p)
    BY <1>9, SaveOK, ThrowOK, JournalInMemory, RestageOK, StageNames DEF Index, RunOK
  <1>10. CASE CompleteApply(p)
    BY <1>10, SaveOK, JournalInMemory, RestageOK, StageNames DEF CompleteApply, Step
  <1>11. CASE Mark(p)
    BY <1>11, SaveOK, JournalInMemory, RestageOK, MarkNames DEF Mark
  <1> QED BY <1>1, <1>2, <1>3, <1>4, <1>5, <1>6, <1>7, <1>8, <1>9, <1>10, <1>11 DEF Command, Run

\* The lock is free, bare, stale, or a process has it.
LEMMA LockStep ==
    ASSUME TypeOK, NEW p \in Procs, Command(p) PROVE lock' \in Procs \cup {Free, Bare, Stale}
  <1>1. CASE Look(p) \/ Load(p) \/ Prepare(p) \/ BeginTransaction(p) \/ Record(p) \/
           Mark(p) \/ OwnStage(p) \/ DisownStage(p) \/ Commit(p) \/
           DropOracle(p) \/ CompleteApply(p) \/ Recover(p) \/ Guard(p) \/
           Restore(p) \/ RenameBack(p) \/ ReadConfig(p) \/ RevertConfig(p) \/
           JudgeTarget(p) \/ RemoveTarget(p) \/ Recreate(p) \/ DisownRest(p) \/
           RemoveStage(p)
    BY <1>1, KeepsLock DEF Look, Load, Prepare, BeginTransaction, Record, Mark, OwnStage, DisownStage,
       Commit, DropOracle, CompleteApply, Recover, Guard, Restore, RenameBack,
       ReadConfig, RevertConfig, JudgeTarget, RemoveTarget, Recreate,
       DisownRest, RemoveStage, Step, Silent, Own
  <1>2. CASE Lock(p) \/ Admit(p) \/ Vacate(p) \/ Publish(p) \/ Compare(p) \/
           VerifyRoots(p) \/ Retire(p) \/ Index(p)
    BY <1>2, KeepsLock, ThrowOK DEF Lock, Admit, Vacate, Publish, Compare, VerifyRoots, Retire, Index, Silent, RunOK
  <1>3. CASE MakeStage(p) \/ CopyStage(p)
    BY <1>3, KeepsLock, ThrowOK DEF MakeStage, CopyStage, Silent, RunOK, Abandon
  <1>4. CASE Verify(p) \/ Conclude(p)
    BY <1>4, ThrowOK, LeaveOK DEF Verify, Conclude, RunOK
  <1>5. CASE OwnLock(p)
    BY <1>5 DEF OwnLock
  <1>6. CASE Reclaim(p)
    BY <1>6 DEF Reclaim
  <1> QED BY <1>1, <1>2, <1>3, <1>4, <1>5, <1>6 DEF Command, Run

\* A directory is absent, empty, partial or complete.
LEMMA RootStep ==
    ASSUME TypeOK, NEW p \in Procs, Command(p) PROVE root' \in [Roots -> Contents]
  <1>1. CASE Look(p) \/ Load(p) \/ Lock(p) \/ Reclaim(p) \/ OwnLock(p) \/ Prepare(p) \/
           Admit(p) \/ BeginTransaction(p) \/ Record(p) \/ Mark(p) \/
           OwnStage(p) \/ DisownStage(p) \/ Compare(p) \/ Commit(p) \/
           VerifyRoots(p) \/ Index(p) \/ CompleteApply(p) \/ Verify(p) \/
           Recover(p) \/ Guard(p) \/ Restore(p) \/ ReadConfig(p) \/
           RevertConfig(p) \/ JudgeTarget(p) \/ DisownRest(p) \/ Conclude(p)
    BY <1>1 DEF Look, Load, Lock, Reclaim, OwnLock, Prepare, Admit, BeginTransaction, Record,
       Mark, OwnStage, DisownStage, Compare, Commit, VerifyRoots, Index,
       CompleteApply, Verify, Recover, Guard, Restore, ReadConfig, RevertConfig,
       JudgeTarget, DisownRest, Conclude, Step, files, TypeOK
  <1>2. CASE MakeStage(p)
    BY <1>2, PutOK DEF MakeStage, Roots, Contents, TypeOK
  <1>3. CASE CopyStage(p)
    BY <1>3, PutOK DEF CopyStage, Roots, Contents
  <1>4. CASE DropOracle(p) \/ RemoveStage(p)
    BY <1>4, PutOK DEF DropOracle, RemoveStage, Roots, Contents
  <1>5. CASE RemoveTarget(p)
    BY <1>5, PutOK DEF RemoveTarget, Roots, Contents
  <1>6. CASE Recreate(p) \/ Vacate(p)
    BY <1>6, PutOK DEF Recreate, Vacate, Step, Roots, Contents, TypeOK
  <1>7. CASE Publish(p) \/ Retire(p) \/ RenameBack(p)
    BY <1>7, MoveOK DEF Publish, Retire, RenameBack, Roots, TypeOK
  <1> QED BY <1>1, <1>2, <1>3, <1>4, <1>5, <1>6, <1>7 DEF Command, Run

\* The config names one of the two roots.
LEMMA ConfigStep ==
    ASSUME TypeOK, NEW p \in Procs, Command(p) PROVE /\ config' \in [root: {"source", "dest"}, drifted: BOOLEAN]
                                                         /\ txn' \in BOOLEAN
  <1>1. CASE Look(p) \/ Load(p) \/ Lock(p) \/ Reclaim(p) \/ OwnLock(p) \/ Prepare(p) \/
           Admit(p) \/ Record(p) \/ Mark(p) \/ MakeStage(p) \/ OwnStage(p) \/
           CopyStage(p) \/ DisownStage(p) \/ Vacate(p) \/ Publish(p) \/
           Compare(p) \/ VerifyRoots(p) \/ Index(p) \/ DropOracle(p) \/
           Retire(p) \/ CompleteApply(p) \/ Verify(p) \/ Recover(p) \/
           Guard(p) \/ Restore(p) \/ RenameBack(p) \/ ReadConfig(p) \/
           JudgeTarget(p) \/ RemoveTarget(p) \/ Recreate(p) \/ DisownRest(p) \/
           RemoveStage(p) \/ Conclude(p)
    BY <1>1 DEF Look, Load, Lock, Reclaim, OwnLock, Prepare, Admit, Record, Mark, MakeStage,
       OwnStage, CopyStage, DisownStage, Vacate, Publish, Compare, VerifyRoots,
       Index, DropOracle, Retire, CompleteApply, Verify, Recover, Guard,
       Restore, RenameBack, ReadConfig, JudgeTarget, RemoveTarget, Recreate,
       DisownRest, RemoveStage, Conclude, Step, files, TypeOK
  <1>2. CASE Commit(p)
    BY <1>2 DEF Commit, After, TypeOK
  <1>3. CASE RevertConfig(p)
    BY <1>3 DEF RevertConfig, Before, TypeOK
  <1>4. CASE BeginTransaction(p)
    BY <1>4 DEF BeginTransaction, Step, TypeOK
  <1> QED BY <1>1, <1>2, <1>3, <1>4 DEF Command, Run

\* What is written as the journal is one.
LEMMA JournalStep ==
    ASSUME TypeOK, NEW p \in Procs, Command(p) PROVE journal' \in Journal \cup {NoJournal}
  <1>1. CASE Look(p) \/ Load(p) \/ Lock(p) \/ Reclaim(p) \/ OwnLock(p) \/ Prepare(p) \/
           Admit(p) \/ BeginTransaction(p) \/ Vacate(p) \/ Publish(p) \/
           Compare(p) \/ Commit(p) \/ VerifyRoots(p) \/ DropOracle(p) \/
           Retire(p) \/ Verify(p) \/ Recover(p) \/ Restore(p) \/
           RenameBack(p) \/ ReadConfig(p) \/ RevertConfig(p) \/
           JudgeTarget(p) \/ RemoveTarget(p) \/ Recreate(p) \/ RemoveStage(p)
    BY <1>1 DEF Look, Load, Lock, Reclaim, OwnLock, Prepare, Admit, BeginTransaction, Vacate,
       Publish, Compare, Commit, VerifyRoots, DropOracle, Retire, Verify,
       Recover, Restore, RenameBack, ReadConfig, RevertConfig, JudgeTarget,
       RemoveTarget, Recreate, RemoveStage, Step, files, TypeOK
  <1>2. CASE OwnStage(p) \/ DisownStage(p) \/ DisownRest(p)
    BY <1>2, OwnOK DEF OwnStage, DisownStage, DisownRest, Step, TypeOK
  <1>3. CASE Record(p)
    BY <1>3, SaveOK, StartedOK DEF Record
  <1>4. CASE MakeStage(p) \/ CopyStage(p)
    BY <1>4, JournalInMemory DEF MakeStage, CopyStage, Abandon, TypeOK
  <1>5. CASE Guard(p)
    BY <1>5, JournalInMemory DEF Guard, TypeOK
  <1>6. CASE Index(p)
    BY <1>6, SaveOK, JournalInMemory, RestageOK, StageNames DEF Index, TypeOK
  <1>7. CASE CompleteApply(p)
    BY <1>7, SaveOK, JournalInMemory, RestageOK, StageNames DEF CompleteApply, Step
  <1>8. CASE Mark(p)
    BY <1>8, SaveOK, JournalInMemory, RestageOK, MarkNames DEF Mark
  <1>9. CASE Conclude(p)
    <2>1. CASE pc[p] = "fail"
      BY <1>9, <2>1, JournalInMemory, RestageOK, StageNames DEF Conclude
    <2>2. CASE pc[p] # "fail"
      BY <1>9, <2>2, JournalInMemory, RestageOK, StageNames DEF Conclude
    <2> QED BY <2>1, <2>2
  <1> QED BY <1>1, <1>2, <1>3, <1>4, <1>5, <1>6, <1>7, <1>8, <1>9 DEF Command, Run

\* No command edits, changes the config behind the product, or dies.
LEMMA RestStep ==
    ASSUME TypeOK, NEW p \in Procs, Command(p) PROVE UNCHANGED rest
  <1>1. CASE Look(p) \/ Load(p) \/ Lock(p) \/ Reclaim(p) \/ Prepare(p) \/ Admit(p) \/
           BeginTransaction(p) \/ Record(p) \/ Mark(p) \/ MakeStage(p) \/
           OwnStage(p) \/ CopyStage(p) \/ DisownStage(p) \/ Vacate(p) \/
           Publish(p) \/ Compare(p) \/ Commit(p) \/ VerifyRoots(p) \/
           Index(p) \/ DropOracle(p) \/ Retire(p) \/ CompleteApply(p) \/
           Verify(p) \/ Recover(p) \/ Guard(p) \/ Restore(p) \/ RenameBack(p) \/
           ReadConfig(p) \/ RevertConfig(p) \/ JudgeTarget(p) \/
           RemoveTarget(p) \/ Recreate(p) \/ DisownRest(p) \/ RemoveStage(p) \/
           Conclude(p)
    BY <1>1 DEF Look, Load, Lock, Reclaim, Prepare, Admit, BeginTransaction, Record, Mark,
       MakeStage, OwnStage, CopyStage, DisownStage, Vacate, Publish, Compare,
       Commit, VerifyRoots, Index, DropOracle, Retire, CompleteApply, Verify,
       Recover, Guard, Restore, RenameBack, ReadConfig, RevertConfig,
       JudgeTarget, RemoveTarget, Recreate, DisownRest, RemoveStage, Conclude, Step
  <1>2. CASE OwnLock(p)
    BY <1>2, Zenon DEF OwnLock, Step
  <1> QED BY <1>1, <1>2 DEF Command, Run

LEMMA CommandKeepsType ==
    ASSUME TypeOK, NEW p \in Procs, Command(p) PROVE TypeOK'
  <1>1. RunOK
    BY PcStep, MemStep, LockStep DEF RunOK
  <1>2. FilesOK
    BY RootStep, ConfigStep, JournalStep DEF FilesOK
  <1>3. UNCHANGED rest
    BY RestStep
  <1> QED BY <1>1, <1>2, <1>3, Combine

LEMMA EditKeepsType ==
    ASSUME TypeOK, NEW r \in Roots, Edit(r) PROVE TypeOK'
  <1>1. root' \in [Roots -> Contents]
    BY PutOK DEF Edit, Contents
  <1>2. latest' \in Complete
    BY DEF Edit, TypeOK, Complete
  <1> QED BY <1>1, <1>2 DEF Edit, TypeOK

LEMMA DriftKeepsType ==
    ASSUME TypeOK, Drift PROVE TypeOK'
  <1>1. config' \in [root: {"source", "dest"}, drifted: BOOLEAN]
    <2>1. config \in [root: {"source", "dest"}, drifted: BOOLEAN]
      BY DEF TypeOK
    <2>2. config' = [root |-> config.root, drifted |-> TRUE]
      BY <2>1 DEF Drift
    <2> QED BY <2>1, <2>2
  <1>2. drifts' \in Nat
    BY DEF TypeOK, Drift
  <1> QED BY <1>1, <1>2 DEF TypeOK, Drift

LEMMA CrashKeepsType ==
    ASSUME TypeOK, NEW p \in Procs, Crash(p) PROVE TypeOK'
  <1>1. pc' \in [Procs -> Steps]
    BY GotoOK, StepNames DEF Crash, PcOK
  <1>2. mem' \in [Procs -> Memory]
    BY ForgetOK DEF Crash
  <1>3. lock' \in Procs \cup {Free, Bare, Stale} /\ crashes' \in Nat
    BY DEF Crash, TypeOK
  <1> QED BY <1>1, <1>2, <1>3 DEF Crash, TypeOK, files

LEMMA InitType == Init => TypeOK
  <1> SUFFICES ASSUME Init PROVE TypeOK
    OBVIOUS
  <1>1. root \in [Roots -> Contents] /\ latest \in Complete
    BY DEF Init, Roots, Contents, Complete
  <1>2. pc \in [Procs -> Steps] /\ mem \in [Procs -> Memory]
    BY StepNames, StartedOK DEF Init
  <1>3. config \in [root: {"source", "dest"}, drifted: BOOLEAN]
    BY DEF Init, Before
  <1> QED BY <1>1, <1>2, <1>3 DEF Init, TypeOK

LEMMA NextKeepsType == TypeOK /\ [Next]_vars => TypeOK'
  <1> SUFFICES ASSUME TypeOK, [Next]_vars PROVE TypeOK'
    OBVIOUS
  <1>1. CASE \E p \in Procs : Command(p)
    BY <1>1, CommandKeepsType
  <1>2. CASE \E p \in Procs : Crash(p)
    BY <1>2, CrashKeepsType
  <1>3. CASE \E r \in Roots : Edit(r)
    BY <1>3, EditKeepsType
  <1>4. CASE Drift
    BY <1>4, DriftKeepsType
  <1>5. CASE UNCHANGED vars
    BY <1>5 DEF vars, TypeOK
  <1> QED BY <1>1, <1>2, <1>3, <1>4, <1>5 DEF Next, Command

\* Every variable stays in its type, with any processes and any number of crashes.
THEOREM TypeCorrect == Spec => []TypeOK
  BY InitType, NextKeepsType, PTL DEF Spec

-------------------------------------------------------------------------------
\* Among the commands, only the two renames of the source touch either place of it.
LEMMA RenamesOnly ==
    ASSUME TypeOK, NEW p \in Procs, Command(p), ~Retire(p), ~RenameBack(p)
    PROVE  root'["source"] = root["source"] /\ root'["retired"] = root["retired"]
  <1>1. CASE Look(p) \/ Load(p) \/ Lock(p) \/ Reclaim(p) \/ OwnLock(p) \/ Prepare(p) \/
           Admit(p) \/ BeginTransaction(p) \/ Record(p) \/ Mark(p) \/
           OwnStage(p) \/ DisownStage(p) \/ Compare(p) \/ Commit(p) \/
           VerifyRoots(p) \/ Index(p) \/ CompleteApply(p) \/ Verify(p) \/
           Recover(p) \/ Guard(p) \/ Restore(p) \/ ReadConfig(p) \/
           RevertConfig(p) \/ JudgeTarget(p) \/ DisownRest(p) \/ Conclude(p)
    BY <1>1 DEF Look, Load, Lock, Reclaim, OwnLock, Prepare, Admit, BeginTransaction, Record,
       Mark, OwnStage, DisownStage, Compare, Commit, VerifyRoots, Index,
       CompleteApply, Verify, Recover, Guard, Restore, ReadConfig, RevertConfig,
       JudgeTarget, DisownRest, Conclude, Step, files
  <1>2. CASE MakeStage(p) \/ CopyStage(p) \/ DropOracle(p) \/ RemoveStage(p)
    BY <1>2 DEF MakeStage, CopyStage, DropOracle, RemoveStage, Put, TypeOK, Roots
  <1>3. CASE Vacate(p) \/ RemoveTarget(p) \/ Recreate(p)
    BY <1>3 DEF Vacate, RemoveTarget, Recreate, Put, TypeOK, Roots
  <1>4. CASE Publish(p)
    BY <1>4 DEF Publish, Move, TypeOK, Roots
  <1> QED BY <1>1, <1>2, <1>3, <1>4 DEF Command, Run

\* A rename goes to a name that holds no file, and takes the source along.
LEMMA RenameKeepsSource ==
    ASSUME TypeOK, SourceKept, NEW p \in Procs, Retire(p) \/ RenameBack(p)
    PROVE  latest \in {root'["source"], root'["retired"]}
  <1>1. latest \notin {"absent", "empty"}
    BY DEF TypeOK, Complete
  <1>2. CASE UNCHANGED root
    BY <1>2 DEF SourceKept
  <1>3. CASE CanMove("source", "retired") /\ Move("source", "retired")
    BY <1>1, <1>3 DEF SourceKept, CanMove, Move, TypeOK, Roots
  <1>4. CASE CanMove("retired", "source") /\ Move("retired", "source")
    BY <1>1, <1>4 DEF SourceKept, CanMove, Move, TypeOK, Roots
  <1> QED BY <1>2, <1>3, <1>4 DEF Retire, RenameBack

LEMMA NextKeepsSource == TypeOK /\ SourceKept /\ [Next]_vars => SourceKept'
  <1> SUFFICES ASSUME TypeOK, SourceKept, [Next]_vars PROVE SourceKept'
    OBVIOUS
  <1>1. ASSUME NEW p \in Procs, Command(p) PROVE SourceKept'
    <2>1. latest' = latest
      BY <1>1, RestStep DEF rest
    <2>2. latest \in {root'["source"], root'["retired"]}
      BY <1>1, RenamesOnly, RenameKeepsSource DEF SourceKept
    <2> QED BY <2>1, <2>2 DEF SourceKept
  <1>2. CASE \E p \in Procs : Crash(p)
    BY <1>2 DEF Crash, files, SourceKept
  <1>3. ASSUME NEW r \in Roots, Edit(r) PROVE SourceKept'
    BY <1>3, BoundsAssumption DEF Edit, Put, SourceKept, TypeOK, Roots
  <1>4. CASE Drift
    BY <1>4 DEF Drift, SourceKept
  <1>5. CASE UNCHANGED vars
    BY <1>5 DEF vars, SourceKept
  <1> QED BY <1>1, <1>2, <1>3, <1>4, <1>5 DEF Next, Command

\* Two commands at once, stale locks removed twice, handlers that run without the
\* lock, crashes at any step: the source as last edited is never lost.
THEOREM SourceNeverLost == Spec => []SourceKept
  <1>1. Init => SourceKept
    BY DEF Init, SourceKept, Roots
  <1> QED BY <1>1, TypeCorrect, NextKeepsSource, PTL DEF Spec

-------------------------------------------------------------------------------
(* The root that the config names *)

\* One process applies the plan, any number roll it back.
SingleApplier == Appliers \cap Recoverers = {} /\ \A a, b \in Appliers : a = b

\* A rollback is a command, or the handler of the applier.
Placed(p) == p \in Recoverers => pc[p] \in {"idle"} \cup Locking \cup Undoing

\* Outside the scope of the lock object nothing is held.
Unlocked(p) == pc[p] \in {"idle", "prepare", "recover"} \cup Locking => ~mem[p].locked

\* Nothing is rolled back before there is a journal.
NothingToUndo(p) ==
    journal = NoJournal => pc[p] \notin Undoing /\ (p \in Recoverers => pc[p] = "idle")

\* There is none before the applier has written it.
NothingDone(p) ==
    p \in Appliers /\ pc[p] \in {"prepare", "admit", "begin", "record"} \cup Locking
        => journal = NoJournal

\* From admission to retirement the applier has the lock, and rollbacks are before it.
Excluded(p) ==
    p \in Appliers /\ pc[p] \in Applying =>
        /\ lock = p /\ mem[p].locked
        /\ \A q \in Recoverers : pc[q] \in {"idle", "lock"}

SoloOK(p) ==
    Placed(p) /\ Unlocked(p) /\ NothingToUndo(p) /\ NothingDone(p) /\ Excluded(p)
SoloInv == \A p \in Procs : SoloOK(p)

Staged == {"mark copied", "disown stage", "vacate", "publish"}
Published == {"mark published", "compare", "commit"}
Committed == {"mark committed", "verify target", "verify source", "mark verified", "index",
              "oracle", "own oracle", "render", "disown oracle", "drop oracle",
              "mark rebuilt", "retire"}
Reverted == {"judge target", "remove target", "finish removal"}
Restored == {"read config", "revert config"} \cup Reverted

\* What each step of a process relies on.
StepOK(p) ==
    /\ pc[p] \in Staged => root["stage"] = "planned"
    /\ pc[p] \in Published => root["dest"] \in Complete
    /\ pc[p] \in Committed => config.root = "dest"
    /\ pc[p] \in Restored => root["source"] \in Complete
    /\ pc[p] \in Reverted => config.root = "source"

\* A complete copy is at the named place, and the two places of the source hold all
\* of it or nothing.
RootInv ==
    /\ ResolvedRootComplete
    /\ {root["source"], root["retired"]} \subseteq Complete \cup {"absent"}
    /\ \A p \in Procs : StepOK(p)

\* What a command does to the other processes: nothing.
Frame(p) == \A q \in Procs \ {p} : pc'[q] = pc[q] /\ mem'[q] = mem[q]

LEMMA FrameStep ==
    ASSUME TypeOK, NEW p \in Procs, Command(p) PROVE Frame(p)
  <1> USE DEF Frame, TypeOK
  <1>1. CASE Look(p) \/ Load(p) \/ Prepare(p) \/ Recover(p) \/ Guard(p) \/ Restore(p)
             \/ ReadConfig(p) \/ JudgeTarget(p)
    BY <1>1 DEF Look, Load, Prepare, Recover, Guard, Restore, ReadConfig, JudgeTarget, Goto, Silent
  <1>2. CASE Reclaim(p) \/ OwnLock(p) \/ BeginTransaction(p) \/ Record(p) \/ Commit(p)
             \/ DropOracle(p) \/ CompleteApply(p) \/ RevertConfig(p) \/ Recreate(p)
             \/ RemoveStage(p)
    BY <1>2 DEF Reclaim, OwnLock, BeginTransaction, Record, Commit, DropOracle, CompleteApply,
       RevertConfig, Recreate, RemoveStage, Step, Goto, Silent, Save
  <1>3. CASE Lock(p) \/ Admit(p) \/ Vacate(p) \/ Publish(p) \/ Compare(p) \/ VerifyRoots(p)
    BY <1>3 DEF Lock, Admit, Vacate, Publish, Compare, VerifyRoots, Throw, Goto, Silent
  <1>4. CASE Retire(p) \/ Index(p) \/ Verify(p) \/ Conclude(p)
    BY <1>4 DEF Retire, Index, Verify, Conclude, Throw, Leave, Goto, Silent, Save
  <1>5. CASE Mark(p) \/ OwnStage(p) \/ DisownStage(p) \/ DisownRest(p)
    BY <1>5 DEF Mark, OwnStage, DisownStage, DisownRest, Goto, Silent, Own, Save
  <1>6. CASE MakeStage(p) \/ CopyStage(p)
    BY <1>6 DEF MakeStage, CopyStage, Abandon, Throw, Goto, Silent
  <1>7. CASE RenameBack(p) \/ RemoveTarget(p)
    BY <1>7 DEF RenameBack, RemoveTarget, Goto, Silent
  <1> QED BY <1>1, <1>2, <1>3, <1>4, <1>5, <1>6, <1>7 DEF Command, Run

\* A journal, once written, stays.
LEMMA JournalStays ==
    ASSUME TypeOK, NEW p \in Procs, Command(p), journal' = NoJournal
    PROVE  journal = NoJournal
  <1> SUFFICES journal' = journal \/ journal' \in Journal
    BY JournalAssumption
  <1>1. CASE Look(p) \/ Load(p) \/ Lock(p) \/ Reclaim(p) \/ OwnLock(p) \/ Prepare(p) \/
           Admit(p) \/ BeginTransaction(p) \/ Vacate(p) \/ Publish(p) \/
           Compare(p) \/ Commit(p) \/ VerifyRoots(p) \/ DropOracle(p) \/
           Retire(p) \/ Verify(p) \/ Recover(p) \/ Restore(p) \/
           RenameBack(p) \/ ReadConfig(p) \/ RevertConfig(p) \/
           JudgeTarget(p) \/ RemoveTarget(p) \/ Recreate(p) \/ RemoveStage(p)
    BY <1>1 DEF Look, Load, Lock, Reclaim, OwnLock, Prepare, Admit, BeginTransaction, Vacate,
       Publish, Compare, Commit, VerifyRoots, DropOracle, Retire, Verify,
       Recover, Restore, RenameBack, ReadConfig, RevertConfig, JudgeTarget,
       RemoveTarget, Recreate, RemoveStage, Step, files
  <1>2. \A stage \in Stages : /\ [mem[p].journal EXCEPT !.stage = stage] \in Journal
                              /\ [mem[p].journal EXCEPT !.status = "applying", !.stage = stage] \in Journal
                              /\ [mem[p].journal EXCEPT !.status = "applied", !.stage = stage] \in Journal
                              /\ [mem[p].journal EXCEPT !.status = "rolled_back", !.stage = stage] \in Journal
                              /\ [mem[p].journal EXCEPT !.status = "recovery_required", !.stage = stage] \in Journal
    BY JournalInMemory, RestageOK
  <1>3. \A owned \in BOOLEAN : [mem[p].journal EXCEPT !.owned = owned] \in Journal
    BY JournalInMemory DEF Journal
  <1>4. CASE OwnStage(p) \/ DisownStage(p) \/ DisownRest(p)
    BY <1>3, <1>4 DEF OwnStage, DisownStage, DisownRest, Step, Own, Save
  <1>5. CASE Record(p)
    BY <1>5, StartedOK DEF Record, Save
  <1>6. CASE MakeStage(p) \/ CopyStage(p)
    BY <1>6, JournalInMemory DEF MakeStage, CopyStage, Abandon
  <1>7. CASE Guard(p)
    BY <1>7, JournalInMemory DEF Guard
  <1>8. CASE Index(p)
    BY <1>2, <1>8, StageNames DEF Index, Save
  <1>9. CASE CompleteApply(p)
    BY <1>2, <1>9, StageNames DEF CompleteApply, Save
  <1>10. CASE Mark(p)
    BY <1>2, <1>10, MarkNames DEF Mark, Save
  <1>11. CASE Conclude(p)
    <2>1. CASE pc[p] = "fail"
      <3>1. journal' = [mem[p].journal EXCEPT !.status = "recovery_required", !.stage = "rollback_failed"]
        BY <1>11, <2>1 DEF Conclude
      <3> QED BY <1>2, <3>1, StageNames
    <2>2. CASE pc[p] # "fail"
      <3>1. journal' = [mem[p].journal EXCEPT !.status = "rolled_back", !.stage = "rolled_back"]
        BY <1>11, <2>2 DEF Conclude
      <3> QED BY <1>2, <3>1, StageNames
    <2> QED BY <2>1, <2>2
  <1> QED BY <1>1, <1>4, <1>5, <1>6, <1>7, <1>8, <1>9, <1>10, <1>11 DEF Command, Run

\* Where the steps inside the lock, of a rollback and of the lock begin.
LEMMA StepsBegin ==
    ASSUME NEW p \in Procs, Command(p)
    PROVE  /\ pc[p] \in {"idle", "lock"} => Look(p) \/ Load(p) \/ Lock(p)
           /\ pc[p] \in Applying =>
                \/ Admit(p) \/ BeginTransaction(p) \/ Record(p) \/ Mark(p) \/ MakeStage(p)
                \/ OwnStage(p) \/ CopyStage(p) \/ DisownStage(p) \/ Vacate(p) \/ Publish(p)
                \/ Compare(p) \/ Commit(p) \/ VerifyRoots(p) \/ Index(p) \/ DropOracle(p)
                \/ Retire(p) \/ CompleteApply(p) \/ Verify(p)
           /\ pc[p] \notin Applying =>
                \/ Look(p) \/ Load(p) \/ Lock(p) \/ Reclaim(p) \/ OwnLock(p) \/ Prepare(p)
                \/ Recover(p) \/ Guard(p) \/ Restore(p) \/ RenameBack(p) \/ ReadConfig(p)
                \/ RevertConfig(p) \/ JudgeTarget(p) \/ RemoveTarget(p) \/ Recreate(p)
                \/ DisownRest(p) \/ RemoveStage(p) \/ Conclude(p)
  <1>1. \/ Admit(p) \/ BeginTransaction(p) \/ Record(p) \/ Mark(p) \/ MakeStage(p)
        \/ OwnStage(p) \/ CopyStage(p) \/ DisownStage(p) \/ Vacate(p)
        => pc[p] \in Applying \ {"idle", "lock"}
    BY DEF Admit, BeginTransaction, Record, Mark, MarkOf, MakeStage, OwnStage, CopyStage,
       DisownStage, Vacate, Step, Applying
  <1>2. \/ Publish(p) \/ Compare(p) \/ Commit(p) \/ VerifyRoots(p) \/ Index(p) \/ DropOracle(p)
        \/ Retire(p) \/ CompleteApply(p) \/ Verify(p)
        => pc[p] \in Applying \ {"idle", "lock"}
    BY DEF Publish, Compare, Commit, VerifyRoots, Index, DropOracle, Retire, CompleteApply,
       Verify, Step, Applying
  <1>3. \/ Reclaim(p) \/ OwnLock(p) \/ Prepare(p) \/ Recover(p) \/ Guard(p) \/ Restore(p)
        \/ RenameBack(p) \/ ReadConfig(p) \/ RevertConfig(p)
        => pc[p] \notin Applying \cup {"idle", "lock"}
    BY DEF Reclaim, OwnLock, Prepare, Recover, Guard, Restore, RenameBack, ReadConfig,
       RevertConfig, Step, Applying
  <1>4. \/ JudgeTarget(p) \/ RemoveTarget(p) \/ Recreate(p) \/ DisownRest(p) \/ RemoveStage(p)
        \/ Conclude(p)
        => pc[p] \notin Applying \cup {"idle", "lock"}
    BY DEF JudgeTarget, RemoveTarget, Recreate, DisownRest, RemoveStage, Conclude, Step, Applying
  <1>5. Look(p) \/ Load(p) \/ Lock(p) => pc[p] \notin Applying
    BY DEF Look, Load, Lock, Applying
  <1> QED BY <1>1, <1>2, <1>3, <1>4, <1>5 DEF Command, Run

\* An exception takes a process out of everything.
LEMMA ThrowSolo ==
    ASSUME TypeOK, SingleApplier, NEW p \in Procs, Throw(p) PROVE SoloOK(p)'
  <1>1. pc'[p] = (IF p \in Appliers THEN "recover" ELSE "idle") /\ mem'[p] = NoMemory
    BY DEF Throw, Goto, TypeOK
  <1>2. ~NoMemory.locked
    BY DEF NoMemory
  <1> QED BY <1>1, <1>2 DEF SoloOK, Placed, Unlocked, NothingToUndo, NothingDone, Excluded,
             SingleApplier, Locking, Undoing, Applying

\* So does the end of the command.
LEMMA LeaveSolo ==
    ASSUME TypeOK, NEW p \in Procs, Leave(p) PROVE SoloOK(p)'
  <1>1. pc'[p] = "idle" /\ mem'[p] = NoMemory /\ ~NoMemory.locked
    BY DEF Leave, Goto, TypeOK, NoMemory
  <1> QED BY <1>1 DEF SoloOK, Placed, Unlocked, NothingToUndo, NothingDone, Excluded,
             Locking, Undoing, Applying

\* Inside the lock the applier goes on with it.
LEMMA ApplySolo ==
    ASSUME TypeOK, SingleApplier, SoloInv, NEW p \in Procs, Frame(p),
           pc[p] \in Applying, pc'[p] \in Applying, pc'[p] # "admit",
           pc'[p] \in {"begin", "record"} => journal' = NoJournal,
           lock' = lock, mem'[p].locked = mem[p].locked
    PROVE  SoloOK(p)'
  <1>1. p \in Appliers /\ p \notin Recoverers
    BY DEF SoloInv, SoloOK, Placed, SingleApplier, Applying, Locking, Undoing, Procs
  <1>2. Excluded(p)
    BY DEF SoloInv, SoloOK
  <1>3. Excluded(p)'
    BY <1>1, <1>2 DEF Excluded, Frame, Procs
  <1>4. pc'[p] \notin Locking \cup Undoing \cup {"idle", "prepare", "recover"}
    BY DEF Applying, Locking, Undoing
  <1> QED BY <1>1, <1>3, <1>4 DEF SoloOK, Placed, Unlocked, NothingToUndo, NothingDone

\* A rollback goes on with or without it.
LEMMA UndoSolo ==
    ASSUME NEW p \in Procs, pc'[p] \in Undoing, journal' # NoJournal PROVE SoloOK(p)'
  <1>1. pc'[p] \notin Applying \cup Locking \cup {"idle", "prepare", "recover", "admit", "begin", "record"}
    BY DEF Applying, Locking, Undoing
  <1> QED BY <1>1 DEF SoloOK, Placed, Unlocked, NothingToUndo, NothingDone, Excluded

\* The process that moves.
LEMMA MoverSolo ==
    ASSUME TypeOK, SingleApplier, SoloInv, NEW p \in Procs, Command(p)
    PROVE  SoloOK(p)'
  <1> USE DEF TypeOK
  <1>1. Frame(p) /\ (journal' = NoJournal => journal = NoJournal) /\ SoloOK(p)
    BY FrameStep, JournalStays DEF SoloInv
  <1>2. CASE Look(p)
    <2>1. /\ p \in Appliers /\ p \notin Recoverers /\ pc'[p] = "prepare" /\ pc[p] = "idle"
          /\ journal' = NoJournal /\ UNCHANGED mem
      BY <1>2 DEF Look, Goto, files, SingleApplier
    <2> QED BY <1>1, <2>1 DEF SoloOK, Placed, Unlocked, NothingToUndo, NothingDone, Excluded,
               Undoing, Applying
  <1>3. CASE Load(p)
    <2>1. /\ p \in Recoverers /\ p \notin Appliers /\ pc'[p] = "lock" /\ pc[p] = "idle"
          /\ journal' # NoJournal /\ mem'[p].locked = mem[p].locked
      BY <1>3 DEF Load, Goto, files, SingleApplier, Memory
    <2> QED BY <1>1, <2>1 DEF SoloOK, Placed, Unlocked, NothingToUndo, NothingDone, Excluded,
               Undoing, Applying, Locking
  <1>4. CASE Lock(p) \/ Reclaim(p) \/ Prepare(p)
    <2>1. CASE Throw(p)
      BY <2>1, ThrowSolo
    <2>2. CASE ~Throw(p)
      <3>1. /\ pc[p] \in Locking \cup {"prepare"} /\ UNCHANGED <<journal, mem>>
            /\ pc'[p] \in Locking \/ (pc[p] = "prepare" /\ pc'[p] = "idle")
        BY <1>4, <2>2 DEF Lock, Reclaim, Prepare, Step, Goto, Silent, files, Locking
      <3>2. pc[p] = "prepare" => p \notin Recoverers
        BY <1>1 DEF SoloOK, Placed, Locking, Undoing
      <3>3. /\ pc'[p] \notin Undoing \cup Applying
            /\ pc[p] # "idle" /\ pc[p] \in {"idle", "prepare", "recover"} \cup Locking
        BY <3>1 DEF Locking, Undoing, Applying
      <3>4. Placed(p)' /\ Unlocked(p)' /\ Excluded(p)'
        BY <1>1, <3>1, <3>3 DEF SoloOK, Placed, Unlocked, Excluded
      <3>5. NothingDone(p)'
        BY <1>1, <3>1, <3>3 DEF SoloOK, NothingDone, Locking
      <3>6. NothingToUndo(p)'
        BY <1>1, <3>1, <3>2, <3>3 DEF SoloOK, NothingToUndo
      <3> QED BY <3>4, <3>5, <3>6 DEF SoloOK
    <2> QED BY <2>1, <2>2
  <1>5. CASE OwnLock(p)
    <2>1. /\ pc[p] = "own lock" /\ pc'[p] = (IF p \in Appliers THEN "admit" ELSE "guard")
          /\ lock' = p /\ mem'[p].locked /\ journal' = journal
      BY <1>5 DEF OwnLock, Step, Goto, files, Memory
    <2>2. CASE p \in Appliers
      <3>1. journal = NoJournal
        BY <1>1, <2>1, <2>2 DEF SoloOK, NothingDone, Locking
      <3>2. \A q \in Recoverers : pc'[q] = "idle"
        BY <1>1, <2>2, <3>1 DEF SoloInv, SoloOK, NothingToUndo, Frame, Procs, SingleApplier
      <3> QED BY <2>1, <2>2, <3>1, <3>2 DEF SoloOK, Placed, Unlocked, NothingToUndo, NothingDone,
                 Excluded, Undoing, Applying, Locking, SingleApplier
    <2>3. CASE p \notin Appliers
      <3>1. p \in Recoverers
        BY <2>3 DEF Procs
      <3>2. journal # NoJournal
        BY <1>1, <2>1, <3>1 DEF SoloOK, NothingToUndo
      <3> QED BY <2>1, <2>3, <3>2, UndoSolo DEF Undoing
    <2> QED BY <2>2, <2>3
  <1>6. CASE Recover(p)
    <2>1. pc[p] = "recover" /\ UNCHANGED <<journal, lock>>
      BY <1>6 DEF Recover, files
    <2>2. CASE journal = NoJournal
      <3>1. pc'[p] = "idle" /\ UNCHANGED mem
        BY <1>6, <2>2 DEF Recover, Goto
      <3> QED BY <1>1, <2>1, <3>1 DEF SoloOK, Placed, Unlocked, NothingToUndo, NothingDone,
                 Excluded, Undoing, Applying, Locking
    <2>3. CASE journal # NoJournal
      BY <1>6, <2>1, <2>3, UndoSolo DEF Recover, Goto, Undoing
    <2> QED BY <2>2, <2>3
  <1>7. CASE pc[p] \in Applying
    <2>1. CASE Throw(p)
      BY <2>1, ThrowSolo
    <2>2. CASE Leave(p)
      BY <2>2, LeaveSolo
    <2>3. CASE ~Throw(p) /\ ~Leave(p)
      <3> SUFFICES /\ pc'[p] \in Applying /\ pc'[p] # "admit"
                   /\ pc'[p] \in {"begin", "record"} => journal' = NoJournal
                   /\ lock' = lock /\ mem'[p].locked = mem[p].locked
        BY <1>1, <1>7, ApplySolo
      <3>1. CASE Admit(p) \/ BeginTransaction(p)
        <4>1. p \in Appliers
          BY <1>1, <1>7 DEF SoloOK, Placed, Applying, Locking, Undoing, Procs
        <4>2. pc[p] \in {"admit", "begin"} => journal = NoJournal
          BY <1>1, <4>1 DEF SoloOK, NothingDone
        <4> QED BY <2>3, <3>1, <4>2
               DEF Admit, BeginTransaction, Step, Goto, Silent, files, Applying
      <3>2. CASE Record(p) \/ CompleteApply(p)
        <4>1. pc'[p] \in {"stage", "verify"} /\ lock' = lock
          BY <3>2 DEF Record, CompleteApply, Step, Goto
        <4>2. mem'[p].locked = mem[p].locked
          BY <3>2 DEF Record, CompleteApply, Save, Memory
        <4> QED BY <4>1, <4>2 DEF Applying
      <3>3. CASE Mark(p)
        <4>1. pc'[p] \in {MarkOf[x][2] : x \in DOMAIN MarkOf} /\ lock' = lock
              /\ mem'[p].locked = mem[p].locked
          BY <3>3 DEF Mark, Goto, Save, Memory
        <4> QED BY <4>1 DEF MarkOf, Applying
      <3>4. CASE MakeStage(p) \/ CopyStage(p)
        BY <2>3, <3>4 DEF MakeStage, CopyStage, Abandon, Goto, Silent, Applying
      <3>5. CASE OwnStage(p) \/ DisownStage(p)
        <4>1. pc'[p] \in {"copy", "render", "vacate", "drop oracle"} /\ lock' = lock
          BY <3>5 DEF OwnStage, DisownStage, Goto
        <4>2. mem'[p].locked = mem[p].locked
          BY <3>5 DEF OwnStage, DisownStage, Own, Save, Memory
        <4> QED BY <4>1, <4>2 DEF Applying
      <3>6. CASE Vacate(p) \/ Publish(p) \/ Compare(p) \/ VerifyRoots(p) \/ Retire(p)
        BY <2>3, <3>6 DEF Vacate, Publish, Compare, VerifyRoots, Retire, Goto, Silent, Applying
      <3>7. CASE Commit(p) \/ DropOracle(p)
        BY <3>7 DEF Commit, DropOracle, Step, Goto, Silent, Applying
      <3>8. CASE Index(p)
        BY <2>3, <3>8 DEF Index, Goto, Save, Applying, Memory
      <3>9. CASE Verify(p)
        BY <2>3, <3>9 DEF Verify
      <3> QED BY <1>7, <3>1, <3>2, <3>3, <3>4, <3>5, <3>6, <3>7, <3>8, <3>9, StepsBegin
    <2> QED BY <2>1, <2>2, <2>3
  <1>8. CASE pc[p] \in Undoing
    <2>1. journal' # NoJournal
      BY <1>1, <1>8 DEF SoloOK, NothingToUndo
    <2>2. ASSUME pc'[p] \in Undoing PROVE SoloOK(p)'
      BY <2>1, <2>2, UndoSolo
    <2>3. CASE Guard(p) \/ Restore(p) \/ RenameBack(p) \/ ReadConfig(p) \/ JudgeTarget(p)
      BY <2>2, <2>3 DEF Guard, Restore, RenameBack, ReadConfig, JudgeTarget, Goto, Undoing
    <2>4. CASE RevertConfig(p) \/ RemoveTarget(p) \/ Recreate(p) \/ DisownRest(p) \/ RemoveStage(p)
      BY <2>2, <2>4 DEF RevertConfig, RemoveTarget, Recreate, DisownRest, RemoveStage, Step,
         Goto, Undoing
    <2>5. CASE Conclude(p)
      BY <2>5, LeaveSolo DEF Conclude
    <2>6. ~(Look(p) \/ Load(p) \/ Lock(p) \/ Reclaim(p) \/ OwnLock(p) \/ Prepare(p) \/ Recover(p))
      BY <1>8 DEF Look, Load, Lock, Reclaim, OwnLock, Prepare, Recover, Step, Undoing
    <2>7. pc[p] \notin Applying
      BY <1>8 DEF Applying, Undoing
    <2> QED BY <2>3, <2>4, <2>5, <2>6, <2>7, StepsBegin
  <1>9. Guard(p) \/ Restore(p) \/ RenameBack(p) \/ ReadConfig(p) \/ RevertConfig(p)
        \/ JudgeTarget(p) \/ RemoveTarget(p) \/ Recreate(p) \/ DisownRest(p) \/ RemoveStage(p)
        \/ Conclude(p) => pc[p] \in Undoing
    BY DEF Guard, Restore, RenameBack, ReadConfig, RevertConfig, JudgeTarget, RemoveTarget,
       Recreate, DisownRest, RemoveStage, Conclude, Step, Undoing
  <1> QED BY <1>2, <1>3, <1>4, <1>5, <1>6, <1>7, <1>8, <1>9, StepsBegin

\* The processes that do not: a rollback cannot come to the applier in the lock.
LEMMA OthersSolo ==
    ASSUME TypeOK, SingleApplier, SoloInv, NEW p \in Procs, Command(p), NEW q \in Procs, q # p
    PROVE  SoloOK(q)'
  <1>1. /\ pc'[q] = pc[q] /\ mem'[q] = mem[q] /\ Frame(p)
        /\ journal' = NoJournal => journal = NoJournal
        /\ SoloOK(p) /\ SoloOK(q)
    BY FrameStep, JournalStays DEF Frame, SoloInv
  <1>2. Placed(q)' /\ Unlocked(q)' /\ NothingToUndo(q)'
    BY <1>1 DEF SoloOK, Placed, Unlocked, NothingToUndo
  <1>3. CASE q \notin Appliers
    BY <1>2, <1>3 DEF SoloOK, NothingDone, Excluded
  <1>4. CASE q \in Appliers
    <2>1. p \in Recoverers /\ p \notin Appliers
      BY <1>4 DEF SingleApplier, Procs
    <2>2. journal # NoJournal
      <3>1. ~Look(p)
        BY <2>1 DEF Look
      <3>2. Load(p) => journal # NoJournal
        BY DEF Load
      <3>3. Lock(p) => pc[p] # "idle"
        BY DEF Lock
      <3> QED BY <1>1, <2>1, <3>1, <3>2, <3>3, StepsBegin DEF SoloOK, NothingToUndo
    <2>3. NothingDone(q)'
      BY <1>1, <2>2 DEF SoloOK, NothingDone
    <2>4. ASSUME pc[q] \in Applying PROVE Excluded(q)'
      <3>1. lock = q /\ mem[q].locked /\ pc[p] \in {"idle", "lock"}
        BY <1>1, <1>4, <2>1, <2>4 DEF SoloOK, Excluded
      <3>2. ~mem[p].locked
        BY <1>1, <3>1 DEF SoloOK, Unlocked, Locking
      <3>3. CASE Load(p)
        <4>1. lock' = lock /\ pc'[p] = "lock"
          BY <3>3 DEF Load, Goto, TypeOK
        <4> QED BY <1>1, <1>4, <2>4, <3>1, <4>1 DEF SoloOK, Excluded, Frame, Procs
      <3>4. CASE Lock(p)
        <4>1. Throw(p)
          BY <3>1, <3>4, NamesAssumption DEF Lock
        <4>2. lock' = lock /\ pc'[p] = "idle"
          BY <2>1, <3>2, <4>1 DEF Throw, Goto, TypeOK
        <4> QED BY <1>1, <1>4, <2>4, <3>1, <4>2 DEF SoloOK, Excluded, Frame, Procs
      <3>5. ~Look(p)
        BY <2>1 DEF Look
      <3> QED BY <3>1, <3>3, <3>4, <3>5, StepsBegin
    <2> QED BY <1>1, <1>2, <2>3, <2>4 DEF SoloOK, Excluded
  <1> QED BY <1>3, <1>4

\* A process that dies leaves a stale lock, which is not free either.
LEMMA CrashSolo ==
    ASSUME TypeOK, SoloInv, NEW p \in Procs, Crash(p) PROVE SoloInv'
  <1>1. /\ pc'[p] = "idle" /\ mem'[p] = NoMemory /\ ~NoMemory.locked
        /\ Frame(p) /\ journal' = journal /\ lock' = IF lock = p THEN Stale ELSE lock
    BY DEF Crash, Goto, TypeOK, NoMemory, Frame, files
  <1>2. SoloOK(p)'
    BY <1>1 DEF SoloOK, Placed, Unlocked, NothingToUndo, NothingDone, Excluded, Locking,
       Undoing, Applying
  <1>3. ASSUME NEW q \in Procs, q # p PROVE SoloOK(q)'
    <2>1. pc'[q] = pc[q] /\ mem'[q] = mem[q] /\ SoloOK(q)
      BY <1>1, <1>3 DEF Frame, SoloInv
    <2>2. \A r \in Recoverers : pc[r] \in {"idle", "lock"} => pc'[r] \in {"idle", "lock"}
      BY <1>1 DEF Frame, Procs
    <2> QED BY <1>1, <1>3, <2>1, <2>2 DEF SoloOK, Placed, Unlocked, NothingToUndo, NothingDone,
               Excluded
  <1> QED BY <1>2, <1>3 DEF SoloInv

LEMMA NextKeepsSolo == SingleApplier /\ TypeOK /\ SoloInv /\ [Next]_vars => SoloInv'
  <1> SUFFICES ASSUME SingleApplier, TypeOK, SoloInv, [Next]_vars PROVE SoloInv'
    OBVIOUS
  <1>1. ASSUME NEW p \in Procs, Command(p) PROVE SoloInv'
    BY <1>1, MoverSolo, OthersSolo DEF SoloInv
  <1>2. CASE \E p \in Procs : Crash(p)
    BY <1>2, CrashSolo
  <1>3. CASE UNCHANGED <<journal, lock, pc, mem>>
    BY <1>3 DEF SoloInv, SoloOK, Placed, Unlocked, NothingToUndo, NothingDone, Excluded
  <1>4. CASE (\E r \in Roots : Edit(r)) \/ Drift
    BY <1>3, <1>4 DEF Edit, Drift
  <1>5. CASE UNCHANGED vars
    BY <1>3, <1>5 DEF vars
  <1> QED BY <1>1, <1>2, <1>4, <1>5 DEF Next, Command


\* The config is written by two actions.
LEMMA ConfigUntouched ==
    ASSUME NEW p \in Procs, Command(p), ~Commit(p), ~RevertConfig(p) PROVE config' = config
  <1>1. CASE Look(p) \/ Load(p) \/ Lock(p) \/ Reclaim(p) \/ OwnLock(p) \/ Prepare(p) \/
           Admit(p) \/ Compare(p) \/ VerifyRoots(p) \/ Verify(p) \/ Recover(p) \/
           Restore(p) \/ ReadConfig(p) \/ JudgeTarget(p)
    BY <1>1 DEF Look, Load, Lock, Reclaim, OwnLock, Prepare, Admit, Compare, VerifyRoots,
       Verify, Recover, Restore, ReadConfig, JudgeTarget, files
  <1>2. CASE BeginTransaction(p) \/ Record(p) \/ Mark(p) \/ MakeStage(p) \/ OwnStage(p) \/
           CopyStage(p) \/ DisownStage(p) \/ Vacate(p) \/ Publish(p) \/ Index(p)
    BY <1>2 DEF BeginTransaction, Record, Mark, MakeStage, OwnStage, CopyStage, DisownStage,
       Vacate, Publish, Index
  <1>3. CASE DropOracle(p) \/ Retire(p) \/ CompleteApply(p) \/ Guard(p) \/ RenameBack(p) \/
           RemoveTarget(p) \/ Recreate(p) \/ DisownRest(p) \/ RemoveStage(p) \/ Conclude(p)
    BY <1>3 DEF DropOracle, Retire, CompleteApply, Guard, RenameBack, RemoveTarget, Recreate,
       DisownRest, RemoveStage, Conclude
  <1> QED BY <1>1, <1>2, <1>3 DEF Command, Run

\* Four actions write the destination, five the stage.
LEMMA RootUntouched ==
    ASSUME TypeOK, NEW p \in Procs, Command(p)
    PROVE  /\ root'["dest"] # root["dest"] =>
                Vacate(p) \/ Publish(p) \/ RemoveTarget(p) \/ Recreate(p)
           /\ root'["stage"] # root["stage"] =>
                MakeStage(p) \/ CopyStage(p) \/ Publish(p) \/ DropOracle(p) \/ RemoveStage(p)
  <1>1. CASE Look(p) \/ Load(p) \/ Lock(p) \/ Reclaim(p) \/ OwnLock(p) \/ Prepare(p) \/
           Admit(p) \/ BeginTransaction(p) \/ Record(p) \/ Mark(p) \/
           OwnStage(p) \/ DisownStage(p) \/ Compare(p) \/ Commit(p) \/
           VerifyRoots(p) \/ Index(p) \/ CompleteApply(p) \/ Verify(p) \/
           Recover(p) \/ Guard(p) \/ Restore(p) \/ ReadConfig(p) \/
           RevertConfig(p) \/ JudgeTarget(p) \/ DisownRest(p) \/ Conclude(p)
    BY <1>1 DEF Look, Load, Lock, Reclaim, OwnLock, Prepare, Admit, BeginTransaction, Record,
       Mark, OwnStage, DisownStage, Compare, Commit, VerifyRoots, Index,
       CompleteApply, Verify, Recover, Guard, Restore, ReadConfig, RevertConfig,
       JudgeTarget, DisownRest, Conclude, Step, files
  <1>2. CASE MakeStage(p) \/ CopyStage(p) \/ DropOracle(p) \/ RemoveStage(p)
    BY <1>2 DEF MakeStage, CopyStage, DropOracle, RemoveStage, Put, TypeOK, Roots
  <1>3. CASE Vacate(p) \/ RemoveTarget(p) \/ Recreate(p)
    BY <1>3 DEF Vacate, RemoveTarget, Recreate, Put, TypeOK, Roots
  <1>4. CASE Retire(p) \/ RenameBack(p)
    BY <1>4 DEF Retire, RenameBack, Move, TypeOK, Roots
  <1>5. CASE Publish(p)
    BY <1>5
  <1> QED BY <1>1, <1>2, <1>3, <1>4, <1>5 DEF Command, Run

\* The source moves as a whole, to a name that holds no file.
LEMMA PlacesStep ==
    ASSUME TypeOK, RootInv, NEW p \in Procs, Command(p)
    PROVE  /\ {root'["source"], root'["retired"]} \subseteq Complete \cup {"absent"}
           /\ pc[p] \notin Applying /\ root["source"] \in Complete
                => root'["source"] \in Complete
  <1>1. {root["source"], root["retired"]} \subseteq Complete \cup {"absent"}
    BY DEF RootInv
  <1>2. CASE Retire(p)
    <2>1. pc[p] \in Applying
      BY <1>2 DEF Retire, Applying
    <2> QED BY <1>1, <1>2, <2>1 DEF Retire, Move, CanMove, Exists, TypeOK, Roots, Complete
  <1>3. CASE RenameBack(p)
    BY <1>1, <1>3 DEF RenameBack, Move, CanMove, Exists, TypeOK, Roots, Complete
  <1> QED BY <1>1, <1>2, <1>3, RenamesOnly

\* The root that the config names: nothing removes it, and the config goes to a
\* complete one.
LEMMA ResolvedStep ==
    ASSUME TypeOK, RootInv, NEW p \in Procs, Command(p) PROVE ResolvedRootComplete'
  <1> USE DEF ResolvedRootComplete
  <1>1. root[config.root] \in Complete /\ StepOK(p) /\ config.root \in {"source", "dest"}
    BY DEF RootInv, TypeOK
  <1>2. CASE Commit(p)
    <2>1. config' = After /\ root' = root /\ root["dest"] \in Complete
      BY <1>1, <1>2 DEF Commit, Step, StepOK, Published
    <2> QED BY <2>1 DEF After
  <1>3. CASE RevertConfig(p)
    <2>1. config' = Before /\ root' = root /\ root["source"] \in Complete
      BY <1>1, <1>3 DEF RevertConfig, Step, StepOK, Restored
    <2> QED BY <2>1 DEF Before
  <1>4. CASE ~Commit(p) /\ ~RevertConfig(p)
    <2>1. config' = config
      BY <1>4, ConfigUntouched
    <2>2. CASE config.root = "source"
      <3>1. ~Retire(p)
        BY <1>1, <2>2 DEF Retire, StepOK, Committed
      <3>2. RenameBack(p) => root'["source"] = root["source"]
        BY <1>1, <2>2 DEF RenameBack, CanMove, Complete
      <3> QED BY <1>1, <2>1, <2>2, <3>1, <3>2, RenamesOnly
    <2>3. CASE config.root = "dest"
      <3>1. root["dest"] \notin {"absent", "empty"} /\ root["dest"] \in Complete
        BY <1>1, <2>3 DEF Complete
      <3>2. Vacate(p) \/ Publish(p) => root'["dest"] = root["dest"]
        BY <3>1 DEF Vacate, Publish, CanMove
      <3>3. Recreate(p) => root'["dest"] = root["dest"]
        BY <3>1 DEF Recreate, Exists
      <3>4. ~RemoveTarget(p)
        BY <1>1, <2>3 DEF RemoveTarget, StepOK, Reverted
      <3> QED BY <2>1, <2>3, <3>1, <3>2, <3>3, <3>4, RootUntouched
    <2> QED BY <1>1, <2>2, <2>3
  <1> QED BY <1>2, <1>3, <1>4

\* Nothing is relied on outside of the steps that move the roots.
LEMMA FarSteps ==
    ASSUME NEW p \in Procs,
           pc'[p] \notin Staged \cup Published \cup Committed \cup Restored
    PROVE  StepOK(p)'
  BY DEF StepOK, Restored

Far == Steps \ (Staged \cup Published \cup Committed \cup Restored)

LEMMA FarNames ==
    /\ {"idle", "prepare", "recover", "guard", "restore", "rename back", "recreate",
        "disown rest", "remove stage", "conclude", "fail", "admit", "begin", "record",
        "stage", "own stage", "copy", "mark retired", "complete", "verify"} \subseteq Far
    /\ Locking \subseteq Far
  BY DEF Far, Staged, Published, Committed, Restored, Reverted, Steps, Applying, Undoing, Locking

LEMMA FarOK == ASSUME NEW p \in Procs, pc'[p] \in Far PROVE StepOK(p)'
  BY FarSteps DEF Far

LEMMA ThrowRelies == ASSUME TypeOK, NEW p \in Procs, Throw(p) \/ Leave(p) PROVE StepOK(p)'
  <1>1. pc'[p] \in {"recover", "idle"}
    BY DEF Throw, Leave, Goto, TypeOK
  <1> QED BY <1>1, FarNames, FarOK

\* The steps with the config at the destination.
LEMMA CommittedStep ==
    ASSUME TypeOK, RootInv, NEW p \in Procs, Command(p), pc[p] \in Committed,
           pc'[p] \in Committed, ~Commit(p), ~RevertConfig(p)
    PROVE  StepOK(p)'
  <1>1. config' = config /\ config.root = "dest"
    BY ConfigUntouched DEF RootInv, StepOK
  <1>2. pc'[p] \notin Staged \cup Published \cup Restored \cup Reverted
    BY DEF Staged, Published, Committed, Restored, Reverted
  <1> QED BY <1>1, <1>2 DEF StepOK

\* What the steps of an apply rely on when the process comes to them.
LEMMA ApplyRelies ==
    ASSUME TypeOK, RootInv, NEW p \in Procs, Command(p), pc[p] \in Applying
    PROVE  StepOK(p)'
  <1> USE DEF TypeOK
  <1>1. StepOK(p)
    BY DEF RootInv
  <1>2. CASE Throw(p) \/ Leave(p)
    BY <1>2, ThrowRelies
  <1>3. CASE ~Throw(p) /\ ~Leave(p)
    <2>1. CASE Admit(p) \/ BeginTransaction(p) \/ Record(p) \/ CompleteApply(p) \/ Retire(p)
      <3>1. pc'[p] \in {"begin", "record", "stage", "verify", "mark retired"}
        BY <1>3, <2>1 DEF Admit, BeginTransaction, Record, CompleteApply, Retire, Step, Goto
      <3> QED BY <3>1, FarNames, FarOK
    <2>2. CASE Mark(p)
      <3>1. /\ pc[p] \in DOMAIN MarkOf /\ pc'[p] = MarkOf[pc[p]][2]
            /\ UNCHANGED <<root, config>>
        BY <2>2 DEF Mark, Goto
      <3>2. pc[p] = "mark copied" => pc'[p] = "disown stage"
        BY <3>1 DEF MarkOf
      <3>3. pc[p] = "mark published" => pc'[p] = "compare"
        BY <3>1 DEF MarkOf
      <3>4. pc[p] \in {"mark committed", "mark verified", "mark rebuilt"}
            => pc'[p] \in {"verify target", "index", "retire"}
        BY <3>1 DEF MarkOf
      <3>5. pc[p] = "mark retired" => pc'[p] = "complete"
        BY <3>1 DEF MarkOf
      <3>6. pc[p] \in {"mark copied", "mark published", "mark committed", "mark verified",
                       "mark rebuilt", "mark retired"}
        BY <3>1 DEF MarkOf
      <3>7. CASE pc[p] = "mark retired"
        BY <3>5, <3>7, FarNames, FarOK
      <3>8. CASE pc[p] \in {"mark committed", "mark verified", "mark rebuilt"}
        BY <1>1, <3>1, <3>4, <3>8 DEF StepOK, Staged, Published, Committed, Restored, Reverted
      <3>9. CASE pc[p] = "mark copied"
        BY <1>1, <3>1, <3>2, <3>9 DEF StepOK, Staged, Published, Committed, Restored, Reverted
      <3>10. CASE pc[p] = "mark published"
        BY <1>1, <3>1, <3>3, <3>10 DEF StepOK, Staged, Published, Committed, Restored, Reverted
      <3> QED BY <3>6, <3>7, <3>8, <3>9, <3>10
    <2>3. CASE MakeStage(p)
      <3>1. \/ pc[p] = "stage" /\ pc'[p] = "own stage"
            \/ pc[p] = "oracle" /\ pc'[p] = "own oracle"
        BY <1>3, <2>3 DEF MakeStage, Abandon, Goto
      <3>2. ~Commit(p) /\ ~RevertConfig(p)
        BY <3>1 DEF Commit, RevertConfig, Step
      <3> QED BY <3>1, <3>2, FarNames, FarOK, CommittedStep DEF Committed
    <2>4. CASE OwnStage(p)
      <3>1. \/ pc[p] = "own stage" /\ pc'[p] = "copy"
            \/ pc[p] = "own oracle" /\ pc'[p] = "render"
        BY <2>4 DEF OwnStage, Goto
      <3>2. ~Commit(p) /\ ~RevertConfig(p)
        BY <3>1 DEF Commit, RevertConfig, Step
      <3> QED BY <3>1, <3>2, FarNames, FarOK, CommittedStep DEF Committed
    <2>5. CASE CopyStage(p)
      <3>1. /\ \/ pc[p] = "copy" /\ pc'[p] = "mark copied"
               \/ pc[p] = "render" /\ pc'[p] = "disown oracle"
            /\ root'["stage"] = "planned"
        BY <1>3, <2>5 DEF CopyStage, Abandon, Goto, Put, Roots
      <3>2. CASE pc[p] = "copy"
        BY <3>1, <3>2 DEF StepOK, Staged, Published, Committed, Restored, Reverted
      <3>3. CASE pc[p] = "render"
        <4>1. ~Commit(p) /\ ~RevertConfig(p)
          BY <3>3 DEF Commit, RevertConfig, Step
        <4> QED BY <3>1, <3>3, <4>1, CommittedStep DEF Committed
      <3> QED BY <3>1, <3>2, <3>3
    <2>6. CASE DisownStage(p)
      <3>1. /\ \/ pc[p] = "disown stage" /\ pc'[p] = "vacate"
               \/ pc[p] = "disown oracle" /\ pc'[p] = "drop oracle"
            /\ root' = root
        BY <2>6 DEF DisownStage, Goto
      <3>2. CASE pc[p] = "disown stage"
        BY <1>1, <3>1, <3>2 DEF StepOK, Staged, Published, Committed, Restored, Reverted
      <3>3. CASE pc[p] = "disown oracle"
        <4>1. ~Commit(p) /\ ~RevertConfig(p)
          BY <3>3 DEF Commit, RevertConfig, Step
        <4> QED BY <3>1, <3>3, <4>1, CommittedStep DEF Committed
      <3> QED BY <3>1, <3>2, <3>3
    <2>7. CASE Vacate(p)
      <3>1. /\ pc[p] = "vacate" /\ pc'[p] = "publish" /\ root'["stage"] = root["stage"]
        BY <1>3, <2>7 DEF Vacate, Goto, Put, Roots
      <3> QED BY <1>1, <3>1 DEF StepOK, Staged, Published, Committed, Restored, Reverted
    <2>8. CASE Publish(p)
      <3>1. /\ pc[p] = "publish" /\ pc'[p] = "mark published" /\ root'["dest"] = root["stage"]
        BY <1>3, <2>8 DEF Publish, Goto, Move, Roots
      <3>2. root["stage"] \in Complete
        BY <1>1, <3>1 DEF StepOK, Staged, Complete
      <3> QED BY <3>1, <3>2 DEF StepOK, Staged, Published, Committed, Restored, Reverted
    <2>9. CASE Compare(p)
      <3>1. /\ pc[p] = "compare" /\ pc'[p] = "commit" /\ root' = root
        BY <1>3, <2>9 DEF Compare, Goto, files
      <3> QED BY <1>1, <3>1 DEF StepOK, Staged, Published, Committed, Restored, Reverted
    <2>10. CASE Commit(p)
      <3>1. pc'[p] = "mark committed" /\ config'.root = "dest"
        BY <2>10 DEF Commit, Step, Goto, After
      <3> QED BY <3>1 DEF StepOK, Staged, Published, Committed, Restored, Reverted
    <2>11. CASE VerifyRoots(p) \/ Index(p) \/ DropOracle(p)
      <3>1. /\ pc[p] \in {"verify target", "verify source", "index", "drop oracle"}
            /\ pc'[p] \in {"verify source", "mark verified", "oracle", "mark rebuilt"}
        BY <1>3, <2>11 DEF VerifyRoots, Index, DropOracle, Step, Goto
      <3>2. ~Commit(p) /\ ~RevertConfig(p)
        BY <3>1 DEF Commit, RevertConfig, Step
      <3> QED BY <3>1, <3>2, CommittedStep DEF Committed
    <2>12. CASE Verify(p)
      BY <1>3, <2>12 DEF Verify
    <2> QED BY <2>1, <2>2, <2>3, <2>4, <2>5, <2>6, <2>7, <2>8, <2>9, <2>10, <2>11, <2>12,
               StepsBegin
  <1> QED BY <1>2, <1>3

\* What the steps of a rollback rely on: the source is back before the config is
\* read, and the config before the destination is judged.
LEMMA UndoRelies ==
    ASSUME TypeOK, RootInv, NEW p \in Procs, Command(p), pc[p] \notin Applying
    PROVE  StepOK(p)'
  <1> USE DEF TypeOK
  <1>1. StepOK(p) /\ {root["source"], root["retired"]} \subseteq Complete \cup {"absent"}
    BY DEF RootInv
  <1>2. CASE Throw(p) \/ Leave(p)
    BY <1>2, ThrowRelies
  <1>3. CASE ~Throw(p) /\ ~Leave(p)
    <2>1. CASE Look(p) \/ Load(p) \/ Lock(p) \/ Reclaim(p) \/ OwnLock(p) \/ Prepare(p)
               \/ Recover(p) \/ Guard(p)
      <3>1. pc'[p] \in {"idle", "prepare", "admit", "guard", "restore", "fail"} \cup Locking
        BY <1>3, <2>1 DEF Look, Load, Lock, Reclaim, OwnLock, Prepare, Recover, Guard, Step,
           Goto, Locking
      <3> QED BY <3>1, FarNames, FarOK
    <2>2. CASE Recreate(p) \/ DisownRest(p) \/ RemoveStage(p)
      <3>1. pc'[p] \in {"disown rest", "remove stage", "conclude"}
        BY <2>2 DEF Recreate, DisownRest, RemoveStage, Step, Goto
      <3> QED BY <3>1, FarNames, FarOK
    <2>3. CASE Restore(p)
      <3>1. root' = root /\ pc'[p] \in {"fail", "read config", "rename back"}
        BY <2>3 DEF Restore, Goto, files
      <3>2. CASE pc'[p] = "read config"
        <4>1. root["source"] \in Complete
          BY <2>3, <3>2 DEF Restore, Goto, AsPlanned, Complete
        <4> QED BY <3>1, <3>2, <4>1
               DEF StepOK, Staged, Published, Committed, Restored, Reverted
      <3> QED BY <3>1, <3>2, FarNames, FarOK
    <2>4. CASE RenameBack(p)
      <3>1. CASE pc'[p] = "read config"
        <4>1. root'["source"] \in Complete
          BY <1>1, <2>4, <3>1 DEF RenameBack, Goto, CanMove, Exists, Move, Roots
        <4> QED BY <3>1, <4>1
               DEF StepOK, Staged, Published, Committed, Restored, Reverted
      <3>2. pc'[p] \in {"read config", "fail"}
        BY <2>4 DEF RenameBack, Goto
      <3> QED BY <3>1, <3>2, FarNames, FarOK
    <2>5. CASE ReadConfig(p)
      <3>1. /\ root' = root /\ config' = config /\ pc[p] \in Restored
            /\ pc'[p] \in {"fail", "revert config", "judge target"}
        BY <2>5 DEF ReadConfig, Goto, files, Restored
      <3>2. ASSUME pc'[p] = "judge target" PROVE config.root = "source"
        <4>1. After # Before
          BY DEF After, Before
        <4>2. CASE config = After
          <5>1. pc'[p] = "revert config"
            BY <2>5, <4>1, <4>2 DEF ReadConfig, Goto
          <5> QED BY <3>2, <5>1
        <4>3. CASE config = Before
          BY <4>3 DEF Before
        <4>4. CASE config # After /\ config # Before
          <5>1. pc'[p] = "fail"
            BY <2>5, <4>4 DEF ReadConfig, Goto
          <5> QED BY <3>2, <5>1
        <4> QED BY <4>2, <4>3, <4>4
      <3> QED BY <1>1, <3>1, <3>2, FarNames, FarOK
             DEF StepOK, Staged, Published, Committed, Restored, Reverted
    <2>6. CASE RevertConfig(p)
      <3>1. /\ root' = root /\ config'.root = "source" /\ root["source"] \in Complete
            /\ pc'[p] = "judge target"
        BY <1>1, <2>6 DEF RevertConfig, Step, Goto, StepOK, Restored, Before
      <3> QED BY <3>1 DEF StepOK, Staged, Published, Committed, Restored, Reverted
    <2>7. CASE JudgeTarget(p)
      <3>1. /\ root' = root /\ config' = config
            /\ pc[p] \in Reverted /\ pc'[p] \in {"recreate", "remove target", "fail"}
        BY <2>7 DEF JudgeTarget, Goto, files, Reverted
      <3> QED BY <1>1, <3>1, FarNames, FarOK
             DEF StepOK, Staged, Published, Committed, Restored, Reverted
    <2>8. CASE RemoveTarget(p)
      <3>1. /\ root'["source"] = root["source"] /\ config' = config
            /\ pc[p] \in Reverted /\ pc'[p] \in {"finish removal", "recreate"}
        BY <2>8 DEF RemoveTarget, Goto, Put, Roots, Reverted
      <3> QED BY <1>1, <3>1, FarNames, FarOK
             DEF StepOK, Staged, Published, Committed, Restored, Reverted
    <2>9. CASE Conclude(p)
      BY <1>3, <2>9 DEF Conclude
    <2> QED BY <2>1, <2>2, <2>3, <2>4, <2>5, <2>6, <2>7, <2>8, <2>9, StepsBegin
  <1> QED BY <1>2, <1>3

\* A process that stays where it is keeps what it relies on: beside an apply nothing
\* moves, beside a rollback only rollbacks.
LEMMA OthersRely ==
    ASSUME TypeOK, SingleApplier, SoloInv, RootInv, NEW p \in Procs, Command(p),
           NEW q \in Procs, q # p
    PROVE  StepOK(q)'
  <1>1. /\ pc'[q] = pc[q] /\ StepOK(q) /\ SoloOK(p) /\ SoloOK(q)
    BY FrameStep DEF Frame, RootInv, SoloInv
  <1>2. CASE pc[q] \in Applying
    <2>1. q \in Appliers /\ p \in Recoverers
      BY <1>1, <1>2 DEF SoloOK, Placed, SingleApplier, Applying, Locking, Undoing, Procs
    <2>2. pc[p] \in {"idle", "lock"}
      BY <1>1, <1>2, <2>1 DEF SoloOK, Excluded
    <2>3. root' = root /\ config' = config
      BY <2>2, StepsBegin DEF Look, Load, Lock, files
    <2> QED BY <1>1, <2>3 DEF StepOK
  <1>3. CASE pc[q] \in Restored
    <2>1. pc[q] \in Undoing /\ pc[q] \notin {"idle", "lock"}
      BY <1>3 DEF Restored, Reverted, Undoing
    <2>2. pc[p] \notin Applying
      <3>1. SUFFICES ASSUME pc[p] \in Applying PROVE FALSE
        OBVIOUS
      <3>2. p \in Appliers /\ q \in Recoverers
        BY <1>1, <3>1 DEF SoloOK, Placed, SingleApplier, Applying, Locking, Undoing, Procs
      <3> QED BY <1>1, <2>1, <3>1, <3>2 DEF SoloOK, Excluded
    <2>3. root["source"] \in Complete /\ root'["source"] \in Complete
      BY <1>1, <1>3, <2>2, PlacesStep DEF StepOK
    <2>4. config' = config \/ config' = Before
      <3>1. ~Commit(p)
        BY <2>2 DEF Commit, Step, Applying
      <3>2. RevertConfig(p) => config' = Before
        BY DEF RevertConfig
      <3> QED BY <3>1, <3>2, ConfigUntouched
    <2>5. pc[q] \notin Staged \cup Published \cup Committed
      BY <1>3 DEF Staged, Published, Committed, Restored, Reverted
    <2> QED BY <1>1, <2>3, <2>4, <2>5 DEF StepOK, Before
  <1>4. CASE pc[q] \notin Applying \cup Restored
    <2>1. pc[q] \notin Staged \cup Published \cup Committed
      BY <1>4 DEF Applying, Staged, Published, Committed
    <2> QED BY <1>1, <1>4, <2>1, FarSteps
  <1> QED BY <1>2, <1>3, <1>4

LEMMA CommandKeepsRoot ==
    ASSUME TypeOK, SingleApplier, SoloInv, RootInv, NEW p \in Procs, Command(p)
    PROVE  RootInv'
  <1>1. ResolvedRootComplete'
    BY ResolvedStep
  <1>2. {root'["source"], root'["retired"]} \subseteq Complete \cup {"absent"}
    BY PlacesStep
  <1>3. \A q \in Procs : StepOK(q)'
    BY ApplyRelies, UndoRelies, OthersRely
  <1> QED BY <1>1, <1>2, <1>3 DEF RootInv

\* An item command writes into a complete root, and leaves it complete.
LEMMA EditKeepsRoot ==
    ASSUME TypeOK, RootInv, NEW r \in Roots, Edit(r) PROVE RootInv'
  <1>1. /\ r \in {"source", "dest"} /\ root' = [root EXCEPT ![r] = "edited"]
        /\ UNCHANGED <<config, pc>>
    BY BoundsAssumption DEF Edit, Put
  <1>2. /\ root'["stage"] = root["stage"] /\ root'["retired"] = root["retired"]
        /\ \A s \in {"source", "dest"} : root'[s] \in {root[s], "edited"}
    BY <1>1 DEF TypeOK, Roots
  <1>3. config.root \in {"source", "dest"}
    BY DEF TypeOK
  <1>4. ResolvedRootComplete'
    BY <1>1, <1>2, <1>3 DEF RootInv, ResolvedRootComplete, Complete
  <1>5. {root'["source"], root'["retired"]} \subseteq Complete \cup {"absent"}
    BY <1>2 DEF RootInv, Complete
  <1>6. ASSUME NEW q \in Procs PROVE StepOK(q)'
    BY <1>1, <1>2 DEF RootInv, StepOK, Complete
  <1> QED BY <1>4, <1>5, <1>6 DEF RootInv

LEMMA NextKeepsRoot ==
    SingleApplier /\ TypeOK /\ SoloInv /\ RootInv /\ [Next]_vars => RootInv'
  <1> SUFFICES ASSUME SingleApplier, TypeOK, SoloInv, RootInv, [Next]_vars PROVE RootInv'
    OBVIOUS
  <1>1. ASSUME NEW p \in Procs, Command(p) PROVE RootInv'
    BY <1>1, CommandKeepsRoot
  <1>2. ASSUME NEW p \in Procs, Crash(p) PROVE RootInv'
    <2>1. UNCHANGED <<root, config>> /\ pc' = [pc EXCEPT ![p] = "idle"]
      BY <1>2 DEF Crash, Goto, files
    <2>2. StepOK(p)'
      BY <2>1, FarNames, FarOK DEF TypeOK
    <2>3. ASSUME NEW q \in Procs, q # p PROVE StepOK(q)'
      BY <2>1, <2>3 DEF TypeOK, RootInv, StepOK
    <2> QED BY <2>1, <2>2, <2>3 DEF RootInv, ResolvedRootComplete
  <1>3. ASSUME NEW r \in Roots, Edit(r) PROVE RootInv'
    BY <1>3, EditKeepsRoot
  <1>4. CASE Drift
    <2>1. root' = root /\ pc' = pc /\ config'.root = config.root
      BY <1>4 DEF Drift, TypeOK
    <2> QED BY <2>1 DEF RootInv, StepOK, ResolvedRootComplete
  <1>5. CASE UNCHANGED vars
    BY <1>5 DEF vars, RootInv, StepOK, ResolvedRootComplete
  <1> QED BY <1>1, <1>2, <1>3, <1>4, <1>5 DEF Next, Command

LEMMA InitRoot == Init => SoloInv /\ RootInv
  <1> SUFFICES ASSUME Init PROVE SoloInv /\ RootInv
    OBVIOUS
  <1>1. \A p \in Procs : pc[p] = "idle" /\ mem[p] = NoMemory /\ ~NoMemory.locked
    BY DEF Init, NoMemory
  <1>2. journal = NoJournal
    BY DEF Init
  <1>3. SoloInv
    BY <1>1, <1>2 DEF SoloInv, SoloOK, Placed, Unlocked, NothingToUndo, NothingDone, Excluded,
       Applying, Undoing, Locking
  <1>4. config.root = "source" /\ root["source"] = "planned" /\ root["retired"] = "absent"
    BY DEF Init, Before, Roots
  <1>5. \A p \in Procs : StepOK(p)
    BY <1>1 DEF StepOK, Staged, Published, Committed, Restored, Reverted
  <1> QED BY <1>3, <1>4, <1>5 DEF RootInv, ResolvedRootComplete, Complete

\* One apply, any rollbacks beside and after it, crashes, edits and other tools: at
\* every moment the root that the config names for the product is complete.
THEOREM ResolvedRootAlwaysComplete ==
    ASSUME SingleApplier PROVE Spec => []ResolvedRootComplete
  <1>1. RootInv => ResolvedRootComplete
    BY DEF RootInv
  <1> QED BY <1>1, InitRoot, TypeCorrect, NextKeepsSolo, NextKeepsRoot, SingleApplier, PTL
         DEF Spec

===============================================================================
