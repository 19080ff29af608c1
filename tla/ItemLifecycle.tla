----------------------------- MODULE ItemLifecycle -----------------------------
(***************************************************************************)
(* What the item commands do to existing items of one product: update-state *)
(* with its Ready gate and parent sync, state transition, remap-parent,     *)
(* set-ready, decision write-back and trash.  Each command reads an item    *)
(* file, changes the item in memory and writes the whole file back.  No lock*)
(* is held from the read to the write, so commands of two processes         *)
(* interleave; only the write itself is serialized by the receipt lock.     *)
(*                                                                          *)
(* An operator named X_Something stands before X as a plausible mistake in  *)
(* it; nothing uses it, and each is caught by one of the properties.        *)
(***************************************************************************)
EXTENDS Integers, Sequences, FiniteSets

CONSTANTS
    Items,          \* item files of the product
    Workers,        \* processes that run a command
    None,           \* an item without a parent
    Nobody,         \* the receipt lock is free
    TypeOf,         \* the work-item type of each item
    FirstParent,    \* the parent each item was created under
    Commands,       \* the commands that are run
    Aims,           \* states that commands ask for
    Syncs,          \* parent sync on (TRUE), or off by --no-sync-parent
    MaxLog,         \* bound: worklog lines of an item
    MaxCrashes      \* bound: processes that die

Types == {"Initiative", "Epic", "Feature", "UserStory", "Task", "SubTask", "Bug", "Issue"}
States == {"New", "Proposed", "Planned", "Ready", "InProgress", "Review",
           "Done", "Blocked", "Dropped", "Duplicate"}

ASSUME NamesAssumption == Items # {} /\ None \notin Items /\ Nobody \notin Workers
ASSUME InputsAssumption ==
    /\ Commands \subseteq {"update", "transition", "remap", "note", "trash"}
    /\ Aims \subseteq States
    /\ Syncs \subseteq BOOLEAN
    /\ MaxLog \in Nat /\ MaxCrashes \in Nat

VARIABLES
    file,       \* what was last written to each item file
    present,    \* the files that exist under items/
    torn,       \* files truncated by a write that has not finished
    revLock,    \* holder of the canonical receipt lock
    pc, mem,    \* where each process is and what it holds
    overtaken,  \* items a process holds a copy of that another has written since
    crashes

vars == <<file, present, torn, revLock, pc, mem, overtaken, crashes>>

-------------------------------------------------------------------------------
(* The state machine and the Ready gate *)

\* Every transition of the table: the states an action leaves and the one it
\* enters.
Rule ==
    [propose   |-> [from |-> {"New"}, to |-> "Proposed"],
     ready     |-> [from |-> {"New", "Proposed"}, to |-> "Ready"],
     start     |-> [from |-> {"New", "Proposed", "Planned", "Ready", "Blocked"},
                    to |-> "InProgress"],
     reopen    |-> [from |-> {"Review"}, to |-> "InProgress"],
     review    |-> [from |-> {"InProgress"}, to |-> "Review"],
     done      |-> [from |-> {"Ready", "InProgress", "Review"}, to |-> "Done"],
     block     |-> [from |-> {"New", "Proposed", "Ready", "InProgress", "Review"},
                    to |-> "Blocked"],
     drop      |-> [from |-> {"New", "Proposed", "Ready", "InProgress", "Review",
                              "Blocked"}, to |-> "Dropped"],
     duplicate |-> [from |-> {"New", "Proposed", "Ready", "InProgress", "Review",
                              "Blocked"}, to |-> "Duplicate"]]
Actions == DOMAIN Rule

\* ItemState values below InProgress in the enumeration.
BeforeInProgress == {"New", "Proposed", "Planned", "Ready"}

\* "complete" is the verdict of Validator::is_ready on the body sections.
Line == [from: States, to: States, how: {"plain", "gated", "forced", "auto", "note"}]
Item == [state: States, parent: Items \cup {None}, complete: BOOLEAN, log: Seq(Line)]

\* StateMachine::transition. A reopen without agent or message throws before
\* anything is written, so only accountable ones are modelled.
Can_Ungated(item, action) == item.state \in Rule[action].from

Can(item, action) ==
    /\ item.state \in Rule[action].from
    /\ action = "ready" => item.complete

Moved_Unlogged(item, action, how) == [item EXCEPT !.state = Rule[action].to]

Moved(item, action, how) ==
    [item EXCEPT !.state = Rule[action].to,
                 !.log = Append(@, [from |-> item.state, to |-> Rule[action].to,
                                    how |-> how])]

\* StateMachine::record_worklog.
Noted_Overwriting(item) ==
    [item EXCEPT !.log = <<[from |-> item.state, to |-> item.state, how |-> "note"]>>]

Noted(item) ==
    [item EXCEPT !.log = Append(@, [from |-> item.state, to |-> item.state,
                                    how |-> "note"])]

\* update_state picks the action for a requested state; Planned falls through
\* to Ready.
ActionFor(old, new) ==
    CASE new = "Proposed"            -> "propose"
      [] new \in {"Planned", "Ready"} -> "ready"
      [] new = "InProgress"          -> IF old = "Review" THEN "reopen" ELSE "start"
      [] new = "Review"              -> "review"
      [] new = "Done"                -> "done"
      [] new = "Blocked"             -> "block"
      [] new = "Dropped"             -> "drop"
      [] new = "Duplicate"           -> "duplicate"

AllowedParents_Mutual ==
    [Initiative |-> {}, Epic |-> {"Initiative"}, Feature |-> {"Initiative", "Epic", "Task"},
     UserStory |-> {"Feature", "Epic"}, Task |-> {"UserStory", "Feature", "Epic"},
     SubTask |-> {"Task"},
     Bug |-> {"Task", "Feature", "Epic", "Initiative"},
     Issue |-> {"Task", "Feature", "Epic", "Initiative"}]

AllowedParents ==
    [Initiative |-> {}, Epic |-> {"Initiative"}, Feature |-> {"Initiative", "Epic"},
     UserStory |-> {"Feature", "Epic"}, Task |-> {"UserStory", "Feature", "Epic"},
     SubTask |-> {"Task"},
     Bug |-> {"Task", "Feature", "Epic", "Initiative"},
     Issue |-> {"Task", "Feature", "Epic", "Initiative"}]

\* is_allowed_parent_type: create_item checks it as remap_parent does.
Lawful(i, p) == p = None \/ TypeOf[p] \in AllowedParents[TypeOf[i]]

ASSUME HierarchyAssumption ==
    /\ TypeOf \in [Items -> Types]
    /\ FirstParent \in [Items -> Items \cup {None}]
    /\ \A i \in Items : Lawful(i, FirstParent[i])

-------------------------------------------------------------------------------
(* Processes *)

Memory == [op: {"update", "transition", "remap", "note", "trash"},
           item: Items, copy: Item, parentCopy: Item, aim: States, sync: BOOLEAN,
           cursor: Items, visited: SUBSET Items]

Steps == {"idle", "gate", "sync", "openParent", "fillParent", "walk",
          "open", "fill", "move"}

Blank == [state |-> "Proposed", parent |-> None, complete |-> FALSE, log |-> <<>>]

\* What an idle process holds does not matter.
NoMemory == [op |-> "note", item |-> CHOOSE i \in Items : TRUE, copy |-> Blank,
             parentCopy |-> Blank, aim |-> "New", sync |-> FALSE,
             cursor |-> CHOOSE i \in Items : TRUE, visited |-> {}]

\* Items as create_item leaves them, their body sections filled or not. (New is
\* only reachable by editing a file; its transitions are in the table.)
Init ==
    /\ \E ready \in SUBSET Items :
          file = [i \in Items |-> [Blank EXCEPT !.parent = FirstParent[i],
                                               !.complete = i \in ready]]
    /\ present = Items /\ torn = {} /\ revLock = Nobody
    /\ pc = [w \in Workers |-> "idle"]
    /\ mem = [w \in Workers |-> NoMemory]
    /\ overtaken = [w \in Workers |-> {}]
    /\ crashes = 0

Readable(i) == i \in present \ torn

Goto(w, step) == pc' = [pc EXCEPT ![w] = step]

\* The command returns or throws.
Leave(w) == Goto(w, "idle") /\ mem' = [mem EXCEPT ![w] = NoMemory]

\* A command whose checks on the item itself pass takes the item into memory;
\* one whose checks fail throws and leaves everything as it was.
Begin(w, op, i, copy, step) ==
    /\ pc[w] = "idle" /\ op \in Commands
    /\ Readable(i) /\ Len(file[i].log) < MaxLog
    /\ Goto(w, step)
    /\ mem' = [mem EXCEPT ![w] = [NoMemory EXCEPT !.op = op, !.item = i, !.copy = copy]]
    /\ UNCHANGED <<file, present, torn, revLock, crashes>>

-------------------------------------------------------------------------------
(* update_state *)

\* With a parent, sync resolves it whatever the new state is.
AfterGate(item, sync) == IF sync /\ item.parent # None THEN "sync" ELSE "open"

UpdateState(w, i, new, force, sync) ==
    LET item == file[i]
        action == ActionFor(item.state, new)
        gated == new = "InProgress" /\ ~force
        how == IF gated THEN "gated" ELSE IF new = "InProgress" THEN "forced" ELSE "plain"
    IN /\ new \notin {item.state, "New"}
       /\ Can(item, action)
       /\ gated => item.complete
       /\ new = "Duplicate" => \E j \in Items \ {i} : Readable(j)
       /\ pc[w] = "idle" /\ "update" \in Commands
       /\ Readable(i) /\ Len(item.log) < MaxLog
       /\ Goto(w, IF gated /\ item.parent # None THEN "gate" ELSE AfterGate(item, sync))
       /\ mem' = [mem EXCEPT ![w] = [NoMemory EXCEPT
                    !.op = "update", !.item = i, !.copy = Moved(item, action, how),
                    !.aim = new, !.sync = sync]]
       /\ UNCHANGED <<file, present, torn, revLock, crashes>>

\* The parent must resolve and satisfy the Ready gate too.
Passes(p) == Readable(p) /\ file[p].complete

ParentGate(w) ==
    /\ pc[w] = "gate"
    /\ LET p == mem[w].copy.parent IN
       IF Passes(p)
       THEN Goto(w, AfterGate(mem[w].copy, mem[w].sync)) /\ UNCHANGED mem
       ELSE Leave(w)
    /\ UNCHANGED <<file, present, torn, revLock, crashes>>

Starts_InProgress(aim, parent) == aim = "InProgress" /\ parent \in BeforeInProgress
Starts(aim, parent) ==
    aim \in {"InProgress", "Review", "Blocked"} /\ parent \in BeforeInProgress

\* An active child starts a parent that has not started, without its gate.
ParentSync(w) ==
    /\ pc[w] = "sync"
    /\ LET p == mem[w].copy.parent IN
       IF ~Readable(p)
       THEN Leave(w)
       ELSE IF Starts(mem[w].aim, file[p].state)
       THEN /\ Goto(w, "openParent")
            /\ mem' = [mem EXCEPT ![w].parentCopy = Moved(file[p], "start", "auto")]
       ELSE Goto(w, "open") /\ UNCHANGED mem
    /\ UNCHANGED <<file, present, torn, revLock, crashes>>

-------------------------------------------------------------------------------
(* The other commands *)

\* transition_state_action: the gate for start is the item's own; no parent.
Transition(w, i, action) ==
    /\ action # "duplicate" /\ Rule[action].to \in Aims
    /\ Can(file[i], action)
    /\ action = "start" => file[i].complete
    /\ Begin(w, "transition", i,
             Moved(file[i], action, IF action = "start" THEN "gated" ELSE "plain"), "open")

\* set-ready, which fills body sections, and the decision write-back.
Note(w, i, complete) ==
    /\ Begin(w, "note", i, Noted([file[i] EXCEPT !.complete = @ \/ complete]), "open")

\* trash_item writes the worklog line first and moves the file afterwards.
Trash(w, i) == Begin(w, "trash", i, Noted(file[i]), "open")

RemapParent(w, i, p) ==
    LET copy == [Noted(file[i]) EXCEPT !.parent = p] IN
    IF p = None
    THEN Begin(w, "remap", i, copy, "open")
    ELSE /\ pc[w] = "idle" /\ "remap" \in Commands
         /\ Readable(i) /\ Readable(p) /\ Len(file[i].log) < MaxLog
         /\ Lawful(i, p)
         /\ Goto(w, "walk")
         /\ mem' = [mem EXCEPT ![w] = [NoMemory EXCEPT
                       !.op = "remap", !.item = i, !.copy = copy, !.cursor = p]]
         /\ UNCHANGED <<file, present, torn, revLock, crashes>>

\* validate_parent_relationship follows the chain upwards, an item at a time.
ValidateParentChain(w) ==
    /\ pc[w] = "walk"
    /\ LET at == mem[w].cursor IN
       IF at = mem[w].item \/ at \in mem[w].visited \/ ~Readable(at)
       THEN Leave(w)
       ELSE IF file[at].parent = None
       THEN Goto(w, "open") /\ mem' = [mem EXCEPT ![w].cursor = NoMemory.cursor, ![w].visited = {}]
       ELSE /\ mem' = [mem EXCEPT ![w].cursor = file[at].parent, ![w].visited = @ \cup {at}]
            /\ UNCHANGED pc
    /\ UNCHANGED <<file, present, torn, revLock, crashes>>

-------------------------------------------------------------------------------
(* CanonicalStore::write and move_file *)

Target(w) ==
    IF pc[w] \in {"openParent", "fillParent"} THEN mem[w].copy.parent ELSE mem[w].item

\* The target is truncated in place, whether or not it still exists.
OpenFile(w) ==
    /\ pc[w] \in {"openParent", "open"} /\ revLock = Nobody
    /\ revLock' = w
    /\ torn' = torn \cup {Target(w)}
    /\ present' = present \cup {Target(w)}
    /\ Goto(w, IF pc[w] = "open" THEN "fill" ELSE "fillParent")
    /\ UNCHANGED <<file, mem, crashes>>

\* The copy that a command is writing.
Written(w) == IF pc[w] = "fill" THEN mem[w].copy ELSE mem[w].parentCopy

FillFile(w) ==
    /\ pc[w] \in {"fillParent", "fill"}
    /\ revLock' = Nobody
    /\ torn' = torn \ {Target(w)}
    /\ file' = [file EXCEPT ![Target(w)] = Written(w)]
    /\ IF pc[w] = "fillParent"
       THEN Goto(w, "open") /\ mem' = [mem EXCEPT ![w].parentCopy = Blank]
       ELSE IF mem[w].op = "trash" THEN Goto(w, "move") /\ UNCHANGED mem
       ELSE Leave(w)
    /\ UNCHANGED <<present, crashes>>

\* The file goes to the trash as it is, also when a dead writer left it truncated.
MoveFile(w) ==
    /\ pc[w] = "move" /\ revLock = Nobody
    /\ present' = present \ {mem[w].item}
    /\ Leave(w)
    /\ UNCHANGED <<file, torn, revLock, crashes>>

Crash(w) ==
    /\ pc[w] # "idle" /\ crashes < MaxCrashes
    /\ crashes' = crashes + 1
    /\ revLock' = IF revLock = w THEN Nobody ELSE revLock
    /\ Leave(w)
    /\ UNCHANGED <<file, present, torn>>

-------------------------------------------------------------------------------
Command(w) ==
    \E i \in Items :
        \/ \E new \in Aims, force \in BOOLEAN, sync \in Syncs :
              UpdateState(w, i, new, force, sync)
        \/ \E action \in Actions : Transition(w, i, action)
        \/ \E complete \in BOOLEAN : Note(w, i, complete)
        \/ \E p \in Items \cup {None} : RemapParent(w, i, p)
        \/ Trash(w, i)

WorkerStep(w) ==
    \/ Command(w)
    \/ ParentGate(w) \/ ParentSync(w) \/ ValidateParentChain(w)
    \/ OpenFile(w) \/ FillFile(w) \/ MoveFile(w) \/ Crash(w)

\* w has the file of i open for writing; w holds a copy of i that it will write.
Writing(w, i) == pc[w] \in {"fill", "fillParent"} /\ Target(w) = i
Holds(w, i) ==
    \/ pc[w] \in Steps \ {"idle", "move"} /\ mem[w].item = i
    \/ pc[w] \in {"openParent", "fillParent"} /\ mem[w].copy.parent = i

\* What the properties remember of a step: a write overtakes the copies that other
\* processes hold, until they are put away.
Witness ==
    overtaken' = [v \in Workers |-> {i \in Items :
        /\ Holds(v, i)'
        /\ \/ Holds(v, i) /\ i \in overtaken[v]
           \/ \E w \in Workers \ {v} : Writing(w, i)' /\ ~Writing(w, i)}]

Next ==
    /\ \E w \in Workers : WorkerStep(w)
    /\ Witness

Spec == Init /\ [][Next]_vars

-------------------------------------------------------------------------------
(* Properties *)

\* Every variable stays in its type.
TypeOK ==
    /\ file \in [Items -> Item]
    /\ present \subseteq Items /\ torn \subseteq Items
    /\ revLock \in Workers \cup {Nobody}
    /\ pc \in [Workers -> Steps] /\ mem \in [Workers -> Memory]
    /\ overtaken \in [Workers -> SUBSET Items]
    /\ crashes \in Nat

\* The worklog accounts for the state: its lines lead from Proposed, where every
\* item is created, each from where the last one ended, as a note that stays there
\* or along a transition of the table, to the state in the frontmatter, even when
\* commands overwrite each other's work.
LogExplainsState ==
    \A i \in Items :
        LET log == file[i].log IN
        /\ file[i].state = IF log = <<>> THEN "Proposed" ELSE log[Len(log)].to
        /\ \A n \in DOMAIN log :
            /\ log[n].from = IF n = 1 THEN "Proposed" ELSE log[n - 1].to
            /\ \/ log[n].how = "note" /\ log[n].to = log[n].from
               \/ \E a \in Actions : log[n].from \in Rule[a].from /\ log[n].to = Rule[a].to

\* No sequence of remaps, overwritten or not, closes a cycle of parents.
ParentsAcyclic ==
    ~\E cycle \in (SUBSET Items) \ {{}} :
        \A i \in cycle : \E j \in cycle : file[j].parent = i

\* The last change that the log tells of was made like this; notes are no changes.
CameBy(log, how) ==
    \E n \in DOMAIN log :
        log[n].how = how /\ \A k \in DOMAIN log : k > n => log[k].how = "note"

\* An item that is Ready, or in progress by a command that claims to have
\* validated the gate, has every section the gate demands, although another
\* command may have written the file in between.
GatesHold ==
    \A i \in Items :
        \/ file[i].complete
        \/ /\ file[i].state # "Ready"
           /\ file[i].state = "InProgress" => ~CameBy(file[i].log, "gated")

\* The worklog that readers of an item find, or will find when the write that
\* has truncated its file is over.  It is empty for good when the writer died.
Worklog(i) ==
    IF i \notin torn THEN file[i].log
    ELSE IF revLock \in Workers /\ Writing(revLock, i) THEN Written(revLock).log
    ELSE <<>>

\* SKILL.md: "Worklog is append-only; never rewrite history."  The code does not
\* keep this in two cases, and these are the only ones in which a line goes: the
\* process that has truncated the file dies, or the copy that is put into the file
\* has been overtaken by another write.
WorklogAppendOnly ==
    [][\A i \in Items :
        \/ /\ Len(Worklog(i)') >= Len(Worklog(i))
           /\ SubSeq(Worklog(i)', 1, Len(Worklog(i))) = Worklog(i)
        \/ \E w \in Workers : Writing(w, i) /\ pc'[w] = "idle" /\ i \in torn'
        \/ \E w \in Workers : Writing(w, i)' /\ ~Writing(w, i) /\ i \in overtaken[w]]_vars

\* While a child is in progress, in review or blocked by update-state with parent
\* sync, its parent has been started: the parent is written first, so no crash
\* leaves the child ahead.
ActiveChildHasStartedParent ==
    \A i \in Items :
        /\ file[i].parent # None
        /\ file[i].state \in {"InProgress", "Review", "Blocked"}
        /\ ~CameBy(file[i].log, "auto")
        => file[file[i].parent].state \notin BeforeInProgress

===============================================================================
