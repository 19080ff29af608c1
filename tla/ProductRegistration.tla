-------------------------- MODULE ProductRegistration --------------------------
(***************************************************************************)
(* Registering external product roots in the shared config: `apply` with the *)
(* exact hash of a reviewed plan, by any number of processes that may die at *)
(* any step and whose operators repeat the command, which is the only        *)
(* recovery there is.  An action is one access to what the processes share:  *)
(* the config, the external roots, the journal of a plan or the lock.        *)
(*                                                                          *)
(* An operator named X_Something stands before X as a plausible mistake in  *)
(* it; nothing uses it, and each is caught by one of the properties.        *)
(***************************************************************************)
EXTENDS Naturals, Sequences

CONSTANTS
    Procs, Products,
    Free,           \* the guard or the directory lock is not held
    Dead, Reused,   \* the lock names a process that died; its pid lives again
    NoPlan,         \* a process that runs no command
    MaxAttempts,    \* attempts that a journal has room for: 1024 in the code
    MaxPlans, MaxEdits, MaxDrifts, MaxCrashes, MaxReuses    \* bounds

ASSUME NamesAssumption ==
    /\ Free \notin Procs /\ Dead \notin Procs /\ Reused \notin Procs
    /\ Free # Dead /\ Free # Reused /\ Dead # Reused
ASSUME BoundsAssumption == MaxAttempts \in Nat /\ MaxAttempts > 1

\* The config as bytes: the product blocks in their order, and the rest.
Config == [blocks: Seq(Products), other: BOOLEAN]
Registered(c) == {c.blocks[i] : i \in 1..Len(c.blocks)}

\* What a plan hash stands for: the product, the bytes of the config, and the
\* revision of its source and of the registry (0: not looked at).
Plan == [product: Products, before: Config, sources: [Products -> Nat]]

\* append_product_block
After(pl) ==
    [blocks |-> Append(pl.before.blocks, pl.product), other |-> pl.before.other]

VARIABLES
    config,         \* .kano/backlog_config.toml
    source,         \* the revision of the external root of each product
    reviewed,       \* the plans that were printed and reviewed
    journal,        \* journal.json of each plan whose evidence is published
    guard,          \* the OS lock on the guard file: gone when its holder dies
    dir,            \* the lock directory: whom its owner file names
    pc, plan, retry,    \* step of each process, its plan, recovery or first apply
    plans, edits, drifts, crashes, reuses

vars == <<config, source, reviewed, journal, guard, dir, pc, plan, retry,
          plans, edits, drifts, crashes, reuses>>
locks == <<guard, dir>>
call == <<plan, retry>>
rest == <<source, reviewed, plans, edits, drifts, crashes, reuses>>

Statuses == {"prepared", "publishing", "recovery_required", "applied", "rolled_back", "failed"}
Journal == [status: Statuses, attempts: 1..MaxAttempts]

Started(pl) == pl \in DOMAIN journal
Has(pl, status) == Started(pl) /\ journal[pl].status = status
Exhausted(pl) == journal[pl].attempts = MaxAttempts

\* The steps inside the lock: of a first apply, of a recovery, and of both.
First == {"admit", "evidence", "mark", "recheck", "undo"}
Again == {"begin", "read", "check"}
Common == {"publish", "verify source", "verify config", "conclude",
           "judge", "restore", "roll back", "seal"}
Inside == First \cup Again \cup Common
Steps == Inside \cup {"idle", "prepare", "lock", "claim"}

Init ==
    /\ config = [blocks |-> <<>>, other |-> FALSE]
    /\ source = [q \in Products |-> 1]
    /\ reviewed = {} /\ journal = [pl \in {} |-> 0]
    /\ guard = Free /\ dir = Free
    /\ pc = [p \in Procs |-> "idle"] /\ plan = [p \in Procs |-> NoPlan]
    /\ retry = [p \in Procs |-> FALSE]
    /\ plans = 0 /\ edits = 0 /\ drifts = 0 /\ crashes = 0 /\ reuses = 0

-------------------------------------------------------------------------------
(* Plans *)

\* The source of the product and the items of every product of the registry.
Revisions(product, c) ==
    [q \in Products |-> IF q = product \/ q \in Registered(c) THEN source[q] ELSE 0]

\* build_prepared of the same request gives the same hash and no blocker.
Fresh(pl) ==
    /\ config = pl.before
    /\ pl.sources = Revisions(pl.product, pl.before)

Review(product) ==
    /\ plans < MaxPlans /\ plans' = plans + 1
    /\ product \notin Registered(config)
    /\ reviewed' = reviewed \cup {[product |-> product, before |-> config,
                                   sources |-> Revisions(product, config)]}
    /\ UNCHANGED <<config, source, journal, locks, pc, call, edits, drifts, crashes, reuses>>

-------------------------------------------------------------------------------
(* Steps *)

Goto(p, step) == pc' = [pc EXCEPT ![p] = step] /\ UNCHANGED <<locks, call>>

\* The command ends outside the lock, and inside it with the destructor.
Stop(p) ==
    /\ pc' = [pc EXCEPT ![p] = "idle"]
    /\ plan' = [plan EXCEPT ![p] = NoPlan] /\ retry' = [retry EXCEPT ![p] = FALSE]
End(p) == Stop(p) /\ UNCHANGED locks
Leave(p) == Stop(p) /\ guard' = Free /\ dir' = Free

\* A first apply recovers in its handler, with an attempt of its own; the attempt
\* of a recovery is begun already.
Throw(p) == Goto(p, IF retry[p] THEN "judge" ELSE "undo")

\* write_journal
Write(pl, j) == journal' = [x \in DOMAIN journal \cup {pl} |-> IF x = pl THEN j ELSE journal[x]]
Mark(pl, status) == Write(pl, [journal[pl] EXCEPT !.status = status])
Attempt(pl) ==
    Write(pl, [status |-> "recovery_required", attempts |-> journal[pl].attempts + 1])

-------------------------------------------------------------------------------
(* The lock: a file lock on the guard, and a directory that names its owner *)

TakeGuard_Unlocked(p) ==
    /\ pc[p] = "lock"
    /\ guard' = p /\ pc' = [pc EXCEPT ![p] = "claim"] /\ UNCHANGED <<dir, call>>
    /\ UNCHANGED <<config, journal, rest>>

\* LOCK_NB: nobody waits.
TakeGuard(p) ==
    /\ pc[p] = "lock"
    /\ IF guard = Free
       THEN guard' = p /\ pc' = [pc EXCEPT ![p] = "claim"] /\ UNCHANGED <<dir, call>>
       ELSE End(p)
    /\ UNCHANGED <<config, journal, rest>>

Claim_NoReclaim(p) ==
    /\ pc[p] = "claim"
    /\ IF dir = Free
       THEN /\ dir' = p /\ UNCHANGED <<guard, call>>
            /\ pc' = [pc EXCEPT ![p] = IF retry[p] THEN "begin" ELSE "admit"]
       ELSE Stop(p) /\ guard' = Free /\ UNCHANGED dir
    /\ UNCHANGED <<config, journal, rest>>

\* A lock whose owner is dead is moved away and removed, then the loop goes on; a
\* pid that is alive is never judged dead, also when it is somebody else's by now.
Claim(p) ==
    /\ pc[p] = "claim"
    /\ CASE dir = Free ->
              /\ dir' = p /\ UNCHANGED <<guard, call>>
              /\ pc' = [pc EXCEPT ![p] = IF retry[p] THEN "begin" ELSE "admit"]
         [] dir = Dead -> dir' = Free /\ UNCHANGED <<guard, pc, call>>
         [] OTHER -> Stop(p) /\ guard' = Free /\ UNCHANGED dir
    /\ UNCHANGED <<config, journal, rest>>

-------------------------------------------------------------------------------
(* The first apply of a plan *)

Start(p) ==
    /\ pc[p] = "idle"
    /\ \E pl \in reviewed \ DOMAIN journal : plan' = [plan EXCEPT ![p] = pl]
    /\ pc' = [pc EXCEPT ![p] = "prepare"]
    /\ UNCHANGED <<config, journal, locks, retry, rest>>

Prepare(p) ==
    /\ pc[p] = "prepare"
    /\ IF Fresh(plan[p]) THEN Goto(p, "lock") ELSE End(p)
    /\ UNCHANGED <<config, journal, rest>>

Admit_EvidenceLater(p) ==
    /\ pc[p] = "admit"
    /\ IF ~Started(plan[p]) /\ Fresh(plan[p]) THEN Goto(p, "publish") ELSE Leave(p)
    /\ UNCHANGED <<config, journal, rest>>

\* Somebody else may have begun this plan since, and the world is read again. (No
\* plan is begun between the two looks: that needs the lock.)
Admit(p) ==
    /\ pc[p] = "admit"
    /\ IF ~Started(plan[p]) /\ Fresh(plan[p]) THEN Goto(p, "evidence") ELSE Leave(p)
    /\ UNCHANGED <<config, journal, rest>>

\* The staged directory, complete with config.before, config.after, receipt and
\* journal, becomes the transaction by one rename.
PublishEvidence(p) ==
    /\ pc[p] = "evidence" /\ Goto(p, "mark")
    /\ Write(plan[p], [status |-> "prepared", attempts |-> 1])
    /\ UNCHANGED <<config, rest>>

MarkPublishing(p) ==
    /\ pc[p] = "mark" /\ Goto(p, "recheck")
    /\ Mark(plan[p], "publishing")
    /\ UNCHANGED <<config, rest>>

\* The config and then the whole plan once more, now with the evidence in place.
Recheck(p) ==
    /\ pc[p] = "recheck"
    /\ IF Fresh(plan[p]) THEN Goto(p, "publish") ELSE Throw(p)
    /\ UNCHANGED <<config, journal, rest>>

\* The handler begins a recovery of its own, the lock still held.
Undo(p) ==
    /\ pc[p] = "undo"
    /\ IF Exhausted(plan[p])
       THEN Leave(p) /\ UNCHANGED journal
       ELSE Goto(p, "judge") /\ Attempt(plan[p])
    /\ UNCHANGED <<config, rest>>

-------------------------------------------------------------------------------
(* The same command repeated: recovery *)

\* A journal that is applied, or failed on a config of a third kind, is answered
\* without the lock.
Unsettled(pl) == Started(pl) /\ journal[pl].status \notin {"applied", "failed"}

\* Operators give up a plan whose attempts are used up.
Repeat(p) ==
    /\ pc[p] = "idle"
    /\ \E pl \in DOMAIN journal :
           Unsettled(pl) /\ ~Exhausted(pl) /\ plan' = [plan EXCEPT ![p] = pl]
    /\ retry' = [retry EXCEPT ![p] = TRUE] /\ pc' = [pc EXCEPT ![p] = "lock"]
    /\ UNCHANGED <<config, journal, locks, rest>>

BeginRecovery_Trusting(p) ==
    /\ pc[p] = "begin"
    /\ IF Exhausted(plan[p])
       THEN Leave(p) /\ UNCHANGED journal
       ELSE Goto(p, "read") /\ Attempt(plan[p])
    /\ UNCHANGED <<config, rest>>

\* The journal is loaded again; "failed" is not looked at this time.
BeginRecovery(p) ==
    /\ pc[p] = "begin"
    /\ IF Has(plan[p], "applied") \/ Exhausted(plan[p])
       THEN Leave(p) /\ UNCHANGED journal
       ELSE Goto(p, "read") /\ Attempt(plan[p])
    /\ UNCHANGED <<config, rest>>

ReadConfig_TwoStates(p) ==
    /\ pc[p] = "read"
    /\ Goto(p, IF config = After(plan[p]) THEN "verify source" ELSE "check")
    /\ UNCHANGED <<config, journal, rest>>

ReadConfig(p) ==
    /\ pc[p] = "read"
    /\ Goto(p, CASE config = After(plan[p]) -> "verify source"
                 [] config = plan[p].before -> "check"
                 [] OTHER -> "seal")
    /\ UNCHANGED <<config, journal, rest>>

\* The source and the registry are as they were reviewed. The config is not read
\* again: the registry of config.before is scanned.
Check(p) ==
    /\ pc[p] = "check"
    /\ IF plan[p].sources = Revisions(plan[p].product, plan[p].before)
       THEN Goto(p, "publish")
       ELSE Leave(p)
    /\ UNCHANGED <<config, journal, rest>>

-------------------------------------------------------------------------------
(* Common to both *)

\* replace_file_atomic: the whole config becomes the reviewed bytes.
PublishConfig(p) ==
    /\ pc[p] = "publish" /\ Goto(p, "verify source")
    /\ config' = After(plan[p])
    /\ UNCHANGED <<journal, rest>>

\* registration_postcondition_failures
Verify(p) ==
    /\ pc[p] \in {"verify source", "verify config"}
    /\ IF pc[p] = "verify source"
       THEN IF plan[p].sources[plan[p].product] = source[plan[p].product]
            THEN Goto(p, "verify config") ELSE Throw(p)
       ELSE IF config = After(plan[p]) THEN Goto(p, "conclude") ELSE Throw(p)
    /\ UNCHANGED <<config, journal, rest>>

Conclude(p) ==
    /\ pc[p] = "conclude" /\ Leave(p) /\ Mark(plan[p], "applied")
    /\ UNCHANGED <<config, rest>>

Judge(p) ==
    /\ pc[p] = "judge"
    /\ Goto(p, CASE config = After(plan[p]) -> "restore"
                 [] config = plan[p].before -> "roll back"
                 [] OTHER -> "seal")
    /\ UNCHANGED <<config, journal, rest>>

Restore(p) ==
    /\ pc[p] = "restore" /\ Goto(p, "roll back")
    /\ config' = plan[p].before
    /\ UNCHANGED <<journal, rest>>

\* "rolled_back", or "failed" on a config of a third kind.
Close(p) ==
    /\ pc[p] \in {"roll back", "seal"} /\ Leave(p)
    /\ Mark(plan[p], IF pc[p] = "seal" THEN "failed" ELSE "rolled_back")
    /\ UNCHANGED <<config, rest>>

-------------------------------------------------------------------------------
(* The environment *)

\* Somebody writes items into an external root, registered or not.
Edit(product) ==
    /\ edits < MaxEdits /\ edits' = edits + 1
    /\ source' = [source EXCEPT ![product] = @ + 1]
    /\ UNCHANGED <<config, reviewed, journal, locks, pc, call, plans, drifts, crashes, reuses>>

\* Another tool, which does not know the lock, changes another part of the
\* config, or changes it back.
Drift ==
    /\ drifts < MaxDrifts /\ drifts' = drifts + 1
    /\ config' = [config EXCEPT !.other = ~@]
    /\ UNCHANGED <<source, reviewed, journal, locks, pc, call, plans, edits, crashes, reuses>>

Crash(p) ==
    /\ pc[p] # "idle" /\ crashes < MaxCrashes /\ crashes' = crashes + 1
    /\ Stop(p)
    /\ guard' = IF guard = p THEN Free ELSE guard
    /\ dir' = IF dir = p THEN Dead ELSE dir
    /\ UNCHANGED <<config, source, reviewed, journal, plans, edits, drifts, reuses>>

\* The pid of the dead owner is given to a new process, which ends some time.
Reuse ==
    /\ dir = Dead /\ reuses < MaxReuses /\ reuses' = reuses + 1 /\ dir' = Reused
    /\ UNCHANGED <<config, source, reviewed, journal, guard, pc, call, plans, edits, drifts, crashes>>

EndOfReuse ==
    /\ dir = Reused /\ dir' = Dead
    /\ UNCHANGED <<config, journal, guard, pc, call, rest>>

-------------------------------------------------------------------------------
Run(p) ==
    \/ Prepare(p) \/ TakeGuard(p) \/ Claim(p)
    \/ Admit(p) \/ PublishEvidence(p) \/ MarkPublishing(p) \/ Recheck(p)
    \/ BeginRecovery(p) \/ ReadConfig(p) \/ Check(p)
    \/ PublishConfig(p) \/ Verify(p) \/ Conclude(p)
    \/ Undo(p) \/ Judge(p) \/ Restore(p) \/ Close(p)

Next ==
    \/ \E product \in Products : Review(product) \/ Edit(product)
    \/ \E p \in Procs : Start(p) \/ Repeat(p) \/ Run(p) \/ Crash(p)
    \/ Drift \/ Reuse \/ EndOfReuse

\* A command that runs gets on, and the operators repeat the exact apply of a
\* plan that is not settled, whatever other plans they apply in between.
Fairness == \A p \in Procs : WF_vars(Run(p)) /\ SF_vars(Repeat(p))

Spec == Init /\ [][Next]_vars /\ Fairness

-------------------------------------------------------------------------------
(* Properties *)

\* Every variable stays in its type.
TypeOK ==
    /\ config \in Config /\ source \in [Products -> Nat]
    /\ reviewed \subseteq Plan
    /\ DOMAIN journal \subseteq reviewed /\ journal \in [DOMAIN journal -> Journal]
    /\ guard \in Procs \cup {Free} /\ dir \in Procs \cup {Free, Dead, Reused}
    /\ pc \in [Procs -> Steps]
    /\ plan \in [Procs -> Plan \cup {NoPlan}] /\ retry \in [Procs -> BOOLEAN]
    /\ plans \in Nat /\ edits \in Nat /\ drifts \in Nat /\ crashes \in Nat /\ reuses \in Nat

\* Whoever dies and whatever pids are given out again: one process at a time is
\* inside the lock, and the directory names it.
LockIsHeld == \A p \in Procs : pc[p] \in Inside => guard = p /\ dir = p

\* docs/product-root-relocation.md: the evidence is published before the config
\* is replaced. A product in the config has a transaction that can take it back.
EvidenceFirst ==
    \A product \in Registered(config) : \E pl \in DOMAIN journal : pl.product = product

\* "returns an already-applied terminal receipt": nothing reopens it.
AppliedIsTerminal ==
    [][\A pl \in DOMAIN journal :
         journal[pl].status = "applied" =>
             pl \in DOMAIN journal' /\ journal'[pl].status = "applied"]_vars

\* Several registrations of one config: none loses the block of another one. A
\* block goes only by the restore of a plan for that product.
OthersKept ==
    [][\A product \in Registered(config) \ Registered(config') :
         \E p \in Procs : pc[p] = "restore" /\ plan[p].product = product]_vars

Rivals(pl) == {x \in DOMAIN journal \ {pl} : x.product = pl.product}

\* A product whose registration is applied stays registered, unless a second plan
\* for the same product was begun too.
AppliedUnlessRival ==
    \A pl \in DOMAIN journal :
        journal[pl].status = "applied" /\ Rivals(pl) = {} => pl.product \in Registered(config)

\* The world of a plan: the config is its own, before or after, and the sources
\* are those that were reviewed.
Quiet(pl) ==
    /\ config \in {pl.before, After(pl)}
    /\ pl.sources = Revisions(pl.product, pl.before)

\* An interrupted registration is completed by repeating it, after any number of
\* crashes, when nothing it depends on has changed: unless the attempts are used
\* up, or the lock names a pid that somebody else has now.
InterruptedIsCompleted ==
    \/ []<>(\A pl \in DOMAIN journal : Unsettled(pl) /\ Quiet(pl) => Exhausted(pl))
    \/ <>[](dir = Reused)
===============================================================================
