--------------------------- MODULE ProductRelocation ---------------------------
(***************************************************************************)
(* Moving one registered product into products/<slug> of the shared backlog: *)
(* the apply and rollback commands of one reviewed plan, run by any number   *)
(* of processes that may die at any step.  An action is one access to what   *)
(* the processes share: a directory, the project config, the journal of the  *)
(* transaction or the directory lock.                                        *)
(*                                                                          *)
(* An operator named X_Something stands before X as a plausible mistake in  *)
(* it; nothing uses it, and each is caught by one of the properties.        *)
(***************************************************************************)
EXTENDS Naturals

CONSTANTS
    Appliers,       \* processes that run apply with the exact plan hash
    Recoverers,     \* processes that run the confirmed rollback
    Free, Bare,     \* apply.lock is absent; it has no owner.json yet
    Stale,          \* apply.lock names an owner that is dead
    NoJournal,      \* the transaction has no journal.json
    EditedRoots,    \* roots that item commands write to meanwhile
    MaxCrashes,     \* bound: processes that die
    MaxDrifts       \* bound: changes of the config by other tools

Procs == Appliers \cup Recoverers
Roots == {"source", "dest", "stage", "retired"}

\* "planned": every file of the manifest with its digest and no other file;
\* "edited": complete, but not as planned; "partial": a copy or removal underway.
Contents == {"absent", "empty", "partial", "planned", "edited"}
Complete == {"planned", "edited"}

ASSUME NamesAssumption ==
    /\ Free \notin Procs /\ Bare \notin Procs /\ Stale \notin Procs
    /\ Free # Bare /\ Free # Stale /\ Bare # Stale
ASSUME BoundsAssumption ==
    /\ EditedRoots \subseteq {"source", "dest"}
    /\ MaxCrashes \in Nat /\ MaxDrifts \in Nat

VARIABLES
    root,           \* what each directory of the transaction holds
    preexisted,     \* the plan found an empty destination
    config,         \* the product's root in the config; was the rest changed?
    txn,            \* the transaction directory exists (with config.before)
    journal,        \* journal.json
    lock,           \* apply.lock
    pc, mem,        \* where each process is, and the journal it holds in memory
    latest,         \* history: the source as its users last left it
    crashes, drifts

vars == <<root, preexisted, config, txn, journal, lock, pc, mem, latest, crashes, drifts>>
files == <<root, config, txn, journal>>
rest == <<preexisted, latest, crashes, drifts>>

Statuses == {"prepared", "applying", "applied", "rolled_back", "recovery_required"}
Stages == {"journal", "stage_verified", "target_published", "config_published",
           "canonical_verified", "generated_rebuild", "target_verified",
           "source_retired", "complete", "rolled_back", "rollback_failed"}
Journal == [status: Statuses, stage: Stages, owned: BOOLEAN]
ASSUME JournalAssumption == NoJournal \notin Journal
Started == [status |-> "prepared", stage |-> "journal", owned |-> FALSE]

Before == [root |-> "source", drifted |-> FALSE]
After == [root |-> "dest", drifted |-> FALSE]

Exists(r) == root[r] # "absent"

\* verify_manifest finds no failure.
AsPlanned(r) == root[r] = "planned"

\* What the plan hash is computed from is as it was when the plan was reviewed.
Reviewed ==
    /\ config = Before /\ AsPlanned("source")
    /\ root["dest"] = IF preexisted THEN "empty" ELSE "absent"

\* Steps inside the scope of the lock object, and those of a rollback.
Applying == {"admit", "begin", "record", "stage", "own stage", "copy", "mark copied",
             "disown stage", "vacate", "publish", "mark published", "compare", "commit",
             "mark committed", "verify target", "verify source", "mark verified", "index",
             "oracle", "own oracle", "render", "disown oracle", "drop oracle",
             "mark rebuilt", "retire", "mark retired", "complete", "verify"}
Undoing == {"guard", "restore", "rename back", "read config", "revert config", "judge target",
            "remove target", "finish removal", "recreate", "disown rest", "remove stage",
            "conclude", "fail"}
Locking == {"lock", "reclaim", "relock", "own lock"}
Steps == Applying \cup Undoing \cup Locking \cup {"idle", "look", "prepare", "recover", "load"}

\* A rollback begins with a lock for the command and without one for the
\* exception handler of apply, which runs after the lock object is destroyed.
Memory == [journal: Journal, locked: BOOLEAN]
NoMemory == [journal |-> Started, locked |-> FALSE]

Init ==
    /\ preexisted \in BOOLEAN
    /\ root = [r \in Roots |-> CASE r = "source" -> "planned"
                                 [] r = "dest" /\ preexisted -> "empty"
                                 [] OTHER -> "absent"]
    /\ config = Before /\ txn = FALSE /\ journal = NoJournal /\ lock = Free
    /\ pc = [p \in Procs |-> "idle"] /\ mem = [p \in Procs |-> NoMemory]
    /\ latest = "planned" /\ crashes = 0 /\ drifts = 0

Goto(p, step) == pc' = [pc EXCEPT ![p] = step]
Put(r, content) == root' = [root EXCEPT ![r] = content]

\* rename of a directory: it fails when the origin is gone or the target has
\* files, and replaces an empty target.
CanMove(from, to) == Exists(from) /\ root[to] \in {"absent", "empty"}
Move(from, to) == root' = [root EXCEPT ![to] = root[from], ![from] = "absent"]

\* The destructor removes owner.json and the directory, whoever owns them now.
Leave(p) ==
    /\ Goto(p, "idle") /\ mem' = [mem EXCEPT ![p] = NoMemory]
    /\ lock' = IF mem[p].locked THEN Free ELSE lock

\* An exception: apply leaves the scope of the lock and recovers; rollback ends.
Throw(p) ==
    /\ IF p \in Appliers
       THEN Goto(p, "recover") /\ mem' = [mem EXCEPT ![p] = NoMemory]
       ELSE Goto(p, "idle") /\ mem' = [mem EXCEPT ![p] = NoMemory]
    /\ lock' = IF mem[p].locked THEN Free ELSE lock

\* write_journal of the copy in memory.
Save(p, j) == journal' = j /\ mem' = [mem EXCEPT ![p].journal = j]
Own(p, owned) == Save(p, [mem[p].journal EXCEPT !.owned = owned])

Step(p, here, next) == pc[p] = here /\ Goto(p, next) /\ UNCHANGED rest
Silent == UNCHANGED <<lock, mem>>

-------------------------------------------------------------------------------
(* The directory lock *)

Lock_NoReclaim(p) ==
    /\ pc[p] \in {"lock", "relock"}
    /\ IF lock = Free THEN lock' = Bare /\ Goto(p, "own lock") /\ UNCHANGED mem ELSE Throw(p)
    /\ UNCHANGED <<files, rest>>

Lock(p) ==
    /\ pc[p] \in {"lock", "relock"}
    /\ CASE lock = Free -> lock' = Bare /\ Goto(p, "own lock") /\ UNCHANGED mem
         [] lock = Stale /\ pc[p] = "lock" -> Goto(p, "reclaim") /\ Silent
         [] OTHER -> Throw(p)
    /\ UNCHANGED <<files, rest>>

\* remove_all of a lock that was stale when its owner.json was read.
Reclaim(p) ==
    /\ Step(p, "reclaim", "relock") /\ lock' = Free /\ UNCHANGED <<files, mem>>

OwnLock(p) ==
    /\ Step(p, "own lock", IF p \in Appliers THEN "admit" ELSE "guard")
    /\ lock' = p /\ mem' = [mem EXCEPT ![p].locked = TRUE]
    /\ UNCHANGED files

-------------------------------------------------------------------------------
(* ProductRelocationOps::apply *)

\* A journal ends the command: it is verified, or its recovery is asked for.
Look(p) ==
    /\ p \in Appliers /\ pc[p] = "idle"
    /\ journal = NoJournal /\ Goto(p, "prepare")
    /\ UNCHANGED <<files, lock, mem, rest>>

\* The plan is computed again; any drift gives another hash.
Prepare(p) ==
    /\ pc[p] = "prepare"
    /\ Goto(p, IF Reviewed THEN "lock" ELSE "idle")
    /\ UNCHANGED <<files, lock, mem, rest>>

Admit(p) ==
    /\ pc[p] = "admit"
    /\ IF Exists("stage") \/ Exists("retired") \/ txn \/ config # Before
       THEN Throw(p)
       ELSE Goto(p, "begin") /\ Silent
    /\ UNCHANGED <<files, rest>>

\* create_directories(transaction) and config.before.
BeginTransaction(p) ==
    /\ Step(p, "begin", "record") /\ txn' = TRUE
    /\ Silent /\ UNCHANGED <<root, config, journal>>

Record(p) ==
    /\ Step(p, "record", "stage") /\ Save(p, Started)
    /\ UNCHANGED <<root, config, txn, lock>>

\* The journal is written with the name of the stage that was finished.
MarkOf == [x \in {"mark copied", "mark published", "mark committed", "mark verified",
                  "mark rebuilt", "mark retired"} |->
              CASE x = "mark copied" -> <<"stage_verified", "disown stage">>
                [] x = "mark published" -> <<"target_published", "compare">>
                [] x = "mark committed" -> <<"config_published", "verify target">>
                [] x = "mark verified" -> <<"canonical_verified", "index">>
                [] x = "mark rebuilt" -> <<"target_verified", "retire">>
                [] x = "mark retired" -> <<"source_retired", "complete">>]

Mark(p) ==
    /\ pc[p] \in DOMAIN MarkOf /\ Goto(p, MarkOf[pc[p]][2])
    /\ Save(p, [mem[p].journal EXCEPT !.status = "applying", !.stage = MarkOf[pc[p]][1]])
    /\ UNCHANGED <<root, config, txn, lock, rest>>

\* A failed rebuild of the views writes the journal before it goes on to throw.
Abandon(p) ==
    /\ Throw(p)
    /\ journal' = IF pc[p] \in {"oracle", "render"} THEN mem[p].journal ELSE journal

\* copy_manifest admits a new directory, records that it is owned, and copies
\* files whose digest is as planned.  The clean rebuild of the generated views
\* admits the same name again as its oracle, and copies the destination.
MakeStage(p) ==
    /\ pc[p] \in {"stage", "oracle"}
    /\ IF Exists("stage")
       THEN Abandon(p) /\ UNCHANGED root
       ELSE /\ Put("stage", "empty") /\ Silent /\ UNCHANGED journal
            /\ Goto(p, IF pc[p] = "stage" THEN "own stage" ELSE "own oracle")
    /\ UNCHANGED <<config, txn, rest>>

OwnStage(p) ==
    /\ pc[p] \in {"own stage", "own oracle"} /\ Own(p, TRUE)
    /\ Goto(p, IF pc[p] = "own stage" THEN "copy" ELSE "render")
    /\ UNCHANGED <<root, config, txn, lock, rest>>

CopyStage(p) ==
    /\ pc[p] \in {"copy", "render"}
    /\ IF AsPlanned(IF pc[p] = "copy" THEN "source" ELSE "dest") /\ Exists("stage")
       THEN /\ Put("stage", "planned") /\ Silent /\ UNCHANGED journal
            /\ Goto(p, IF pc[p] = "copy" THEN "mark copied" ELSE "disown oracle")
       ELSE Abandon(p) /\ Put("stage", IF Exists("stage") THEN "partial" ELSE "absent")
    /\ UNCHANGED <<config, txn, rest>>

\* The receipt is released before the name is given up, so that a directory made
\* by somebody else is never taken for the stage.
DisownStage(p) ==
    /\ pc[p] \in {"disown stage", "disown oracle"} /\ Own(p, FALSE)
    /\ Goto(p, IF pc[p] = "disown stage" THEN "vacate" ELSE "drop oracle")
    /\ UNCHANGED <<root, config, txn, lock, rest>>

\* publish_stage: an empty destination is removed, then the stage renamed.
Vacate(p) ==
    /\ pc[p] = "vacate"
    /\ IF root["dest"] \in {"absent", "empty"}
       THEN Put("dest", "absent") /\ Goto(p, "publish") /\ Silent
       ELSE Throw(p) /\ UNCHANGED root
    /\ UNCHANGED <<config, txn, journal, rest>>

Publish(p) ==
    /\ pc[p] = "publish"
    /\ IF CanMove("stage", "dest")
       THEN Move("stage", "dest") /\ Goto(p, "mark published") /\ Silent
       ELSE Throw(p) /\ UNCHANGED root
    /\ UNCHANGED <<config, txn, journal, rest>>

Compare(p) ==
    /\ pc[p] = "compare"
    /\ IF config = Before THEN Goto(p, "commit") /\ Silent ELSE Throw(p)
    /\ UNCHANGED <<files, rest>>

\* The whole config is replaced by the reviewed bytes.
Commit(p) ==
    /\ Step(p, "commit", "mark committed") /\ config' = After
    /\ Silent /\ UNCHANGED <<root, txn, journal>>

VerifyRoots(p) ==
    /\ pc[p] \in {"verify target", "verify source"}
    /\ IF pc[p] = "verify target"
       THEN IF AsPlanned("dest") THEN Goto(p, "verify source") /\ Silent ELSE Throw(p)
       ELSE IF AsPlanned("source") THEN Goto(p, "mark verified") /\ Silent ELSE Throw(p)
    /\ UNCHANGED <<files, rest>>

\* rebuild_target_index and the mark after it.  A plan without rebuilders needs no
\* oracle.
Index(p) ==
    /\ pc[p] = "index"
    /\ IF Exists("dest")
       THEN /\ Goto(p, "oracle") \/ Goto(p, "mark rebuilt")
            /\ UNCHANGED lock
            /\ Save(p, [mem[p].journal EXCEPT !.stage = "generated_rebuild"])
       ELSE Throw(p) /\ UNCHANGED journal
    /\ UNCHANGED <<root, config, txn, rest>>

DropOracle(p) ==
    /\ Step(p, "drop oracle", "mark rebuilt") /\ Put("stage", "absent")
    /\ Silent /\ UNCHANGED <<config, txn, journal>>

Retire_Removing(p) ==
    /\ pc[p] = "retire" /\ Put("source", "absent") /\ Goto(p, "mark retired") /\ Silent
    /\ UNCHANGED <<config, txn, journal, rest>>

Retire(p) ==
    /\ pc[p] = "retire"
    /\ IF CanMove("source", "retired")
       THEN Move("source", "retired") /\ Goto(p, "mark retired") /\ Silent
       ELSE Throw(p) /\ UNCHANGED root
    /\ UNCHANGED <<config, txn, journal, rest>>

CompleteApply(p) ==
    /\ Step(p, "complete", "verify")
    /\ Save(p, [mem[p].journal EXCEPT !.status = "applied", !.stage = "complete"])
    /\ UNCHANGED <<root, config, txn, lock>>

\* The postconditions, read one after another by ProductRelocationOps::verify.
Holds == /\ journal # NoJournal /\ config = After
         /\ root["source"] = "absent" /\ AsPlanned("dest") /\ AsPlanned("retired")

Verify(p) ==
    /\ pc[p] = "verify"
    /\ IF Holds /\ journal.status = "applied" THEN Leave(p) ELSE Throw(p)
    /\ UNCHANGED <<files, rest>>

-------------------------------------------------------------------------------
(* rollback_journal, from the command and from the handler of apply *)

\* The command reads the journal first and locks afterwards.
Load(p) ==
    /\ p \in Recoverers /\ pc[p] = "idle"
    /\ journal # NoJournal /\ journal.status # "rolled_back"
    /\ mem' = [mem EXCEPT ![p].journal = journal]
    /\ Goto(p, "lock") /\ UNCHANGED <<files, lock, rest>>

Recover(p) ==
    /\ pc[p] = "recover"
    /\ IF journal = NoJournal
       THEN Goto(p, "idle") /\ UNCHANGED mem
       ELSE Goto(p, "guard") /\ mem' = [mem EXCEPT ![p].journal = journal]
    /\ UNCHANGED <<files, lock, rest>>

Guard(p) ==
    /\ pc[p] = "guard"
    /\ IF Exists("stage") /\ ~mem[p].journal.owned
       THEN Goto(p, "fail") /\ UNCHANGED journal
       ELSE Goto(p, "restore") /\ journal' = mem[p].journal
    /\ UNCHANGED <<root, config, txn, lock, mem, rest>>

Restore(p) ==
    /\ pc[p] = "restore"
    /\ Goto(p, CASE Exists("source") /\ Exists("retired") -> "fail"
                 [] AsPlanned("source") -> "read config"
                 [] ~Exists("source") /\ AsPlanned("retired") -> "rename back"
                 [] OTHER -> "fail")
    /\ Silent /\ UNCHANGED <<files, rest>>

RenameBack(p) ==
    /\ pc[p] = "rename back"
    /\ IF CanMove("retired", "source")
       THEN Move("retired", "source") /\ Goto(p, "read config")
       ELSE Goto(p, "fail") /\ UNCHANGED root
    /\ Silent /\ UNCHANGED <<config, txn, journal, rest>>

ReadConfig_Late(p) ==
    /\ pc[p] = "read config"
    /\ Goto(p, IF config \in {Before, After} THEN "judge target" ELSE "fail")
    /\ Silent /\ UNCHANGED <<files, rest>>

ReadConfig(p) ==
    /\ pc[p] = "read config"
    /\ Goto(p, CASE config = After -> "revert config"
                 [] config = Before -> "judge target"
                 [] OTHER -> "fail")
    /\ Silent /\ UNCHANGED <<files, rest>>

RevertConfig(p) ==
    /\ Step(p, "revert config", "judge target") /\ config' = Before
    /\ Silent /\ UNCHANGED <<root, txn, journal>>

\* A destination that was empty from the start and never published is left alone.
Untouched(j) ==
    preexisted /\ root["dest"] = "empty" /\ j.stage \in {"journal", "stage_verified"}

JudgeTarget(p) ==
    /\ pc[p] = "judge target"
    /\ Goto(p, CASE ~Exists("dest") \/ Untouched(mem[p].journal) -> "recreate"
                 [] AsPlanned("dest") -> "remove target"
                 [] OTHER -> "fail")
    /\ Silent /\ UNCHANGED <<files, rest>>

\* remove_all takes a directory apart file by file.
RemoveTarget(p) ==
    /\ pc[p] \in {"remove target", "finish removal"}
    /\ IF pc[p] = "remove target" /\ Exists("dest")
       THEN Put("dest", "partial") /\ Goto(p, "finish removal")
       ELSE Put("dest", "absent") /\ Goto(p, "recreate")
    /\ Silent /\ UNCHANGED <<config, txn, journal, rest>>

Recreate(p) ==
    /\ Step(p, "recreate", "disown rest")
    /\ IF preexisted /\ ~Exists("dest") THEN Put("dest", "empty") ELSE UNCHANGED root
    /\ Silent /\ UNCHANGED <<config, txn, journal>>

DisownRest(p) ==
    /\ pc[p] = "disown rest"
    /\ IF Exists("stage")
       THEN Own(p, FALSE) /\ Goto(p, "remove stage")
       ELSE UNCHANGED <<journal, mem>> /\ Goto(p, "conclude")
    /\ UNCHANGED <<root, config, txn, lock, rest>>

RemoveStage(p) ==
    /\ Step(p, "remove stage", "conclude") /\ Put("stage", "absent")
    /\ Silent /\ UNCHANGED <<config, txn, journal>>

Conclude(p) ==
    /\ pc[p] \in {"conclude", "fail"}
    /\ journal' = [mem[p].journal EXCEPT
                     !.status = IF pc[p] = "fail" THEN "recovery_required" ELSE "rolled_back",
                     !.stage = IF pc[p] = "fail" THEN "rollback_failed" ELSE "rolled_back"]
    /\ Leave(p) /\ UNCHANGED <<root, config, txn, rest>>

-------------------------------------------------------------------------------
(* The environment *)

\* An item command writes into a root it resolved; a moved source is not edited.
Edit(r) ==
    /\ r \in EditedRoots /\ root[r] = "planned"
    /\ r = "dest" => config.root = "dest"
    /\ Put(r, "edited")
    /\ latest' = IF r = "source" THEN "edited" ELSE latest
    /\ UNCHANGED <<preexisted, config, txn, journal, lock, pc, mem, crashes, drifts>>

\* Another tool changes another part of the config.
Drift ==
    /\ drifts < MaxDrifts /\ drifts' = drifts + 1
    /\ config' = [config EXCEPT !.drifted = TRUE]
    /\ UNCHANGED <<root, preexisted, txn, journal, lock, pc, mem, latest, crashes>>

Crash(p) ==
    /\ pc[p] # "idle" /\ crashes < MaxCrashes /\ crashes' = crashes + 1
    /\ lock' = IF lock = p THEN Stale ELSE lock
    /\ Goto(p, "idle") /\ mem' = [mem EXCEPT ![p] = NoMemory]
    /\ UNCHANGED <<files, preexisted, latest, drifts>>

-------------------------------------------------------------------------------
Run(p) ==
    \/ Lock(p) \/ Reclaim(p) \/ OwnLock(p)
    \/ Prepare(p) \/ Admit(p) \/ BeginTransaction(p) \/ Record(p) \/ Mark(p)
    \/ MakeStage(p) \/ OwnStage(p) \/ CopyStage(p) \/ DisownStage(p)
    \/ Vacate(p) \/ Publish(p) \/ Compare(p) \/ Commit(p) \/ VerifyRoots(p) \/ Index(p)
    \/ DropOracle(p) \/ Retire(p) \/ CompleteApply(p) \/ Verify(p)
    \/ Recover(p) \/ Guard(p) \/ Restore(p) \/ RenameBack(p) \/ ReadConfig(p)
    \/ RevertConfig(p) \/ JudgeTarget(p) \/ RemoveTarget(p) \/ Recreate(p)
    \/ DisownRest(p) \/ RemoveStage(p) \/ Conclude(p)

Next ==
    \/ \E p \in Procs : Look(p) \/ Load(p) \/ Run(p) \/ Crash(p)
    \/ \E r \in Roots : Edit(r)
    \/ Drift

\* A command that runs gets on; the operator repeats a rollback while the journal
\* asks for it.
Fairness == \A p \in Procs : WF_vars(Run(p)) /\ WF_vars(Load(p))

Spec == Init /\ [][Next]_vars /\ Fairness

-------------------------------------------------------------------------------
(* Properties *)

\* Every variable stays in its type.
TypeOK ==
    /\ root \in [Roots -> Contents] /\ preexisted \in BOOLEAN
    /\ config \in [root: {"source", "dest"}, drifted: BOOLEAN]
    /\ txn \in BOOLEAN /\ journal \in Journal \cup {NoJournal}
    /\ lock \in Procs \cup {Free, Bare, Stale}
    /\ pc \in [Procs -> Steps] /\ mem \in [Procs -> Memory]
    /\ latest \in Complete /\ crashes \in Nat /\ drifts \in Nat

\* Whoever runs, fails or dies: the source with the last edit of its users is at
\* its place or under its retired name.
SourceKept == latest \in {root["source"], root["retired"]}

\* At every moment, also between two steps and after a crash, the root that the
\* config names for the product holds all of its items.
ResolvedRootComplete == root[config.root] \in Complete

\* What a rollback refuses to touch: a changed config, a root that is not as
\* planned, a stage without its receipt; and what a crash leaves that no command
\* removes: a lock without owner.json, a transaction without a journal.
Stuck == journal # NoJournal /\
    \/ config.drifted
    \/ root["dest"] \in {"partial", "edited"} \/ latest = "edited"
    \/ Exists("stage") /\ ~journal.owned
    \/ root["dest"] = "empty" /\ journal.stage \notin {"journal", "stage_verified"}
    \/ lock = Bare /\ \A p \in Procs : pc[p] # "own lock"

Settled == journal # NoJournal /\ journal.status \in {"applied", "rolled_back"}

\* A relocation that has a journal is completed or rolled back in the end, after
\* any number of crashes: the commands repeated, a dead owner's lock reclaimed.
RecoverySettles == (journal # NoJournal) ~> (Settled \/ []Stuck)
===============================================================================
