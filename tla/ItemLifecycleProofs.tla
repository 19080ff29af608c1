-------------------------- MODULE ItemLifecycleProofs --------------------------
(***************************************************************************)
(* Theorems of ItemLifecycle for any items, hierarchy, processes, commands  *)
(* and bounds: type correctness; that parents never form a cycle although   *)
(* remaps validate their chains without a lock; and that worklogs explain   *)
(* states and gates hold although writes of whole files overwrite others.   *)
(* That a worklog loses lines only to a writer that dies in its write or to *)
(* a copy that was overtaken.  And for commands that run one at a time: no  *)
(* active child has a parent that was not started.                          *)
(***************************************************************************)
EXTENDS ItemLifecycle, SequenceTheorems, TLAPS

\* Steps at which a command works with the parent of its item.
WithParent == {"gate", "sync", "openParent", "fillParent"}

\* TypeOK of what the commands keep; what the properties remember is no part of it.
Typed ==
    /\ file \in [Items -> Item]
    /\ present \subseteq Items /\ torn \subseteq Items
    /\ revLock \in Workers \cup {Nobody}
    /\ pc \in [Workers -> Steps] /\ mem \in [Workers -> Memory]
    /\ crashes \in Nat

ParentInv ==
    \A w \in Workers : pc[w] \in WithParent => mem[w].copy.parent # None

\* Stored parents are of an allowed type, and so are those of the copies that
\* are on their way into a file.
LawfulInv ==
    /\ \A i \in Items : Lawful(i, file[i].parent)
    /\ \A w \in Workers :
        /\ pc[w] # "idle" => Lawful(mem[w].item, mem[w].copy.parent)
        /\ pc[w] \in {"openParent", "fillParent"} =>
             Lawful(mem[w].copy.parent, mem[w].parentCopy.parent)

\* The inductive invariant. A chain that is validated may change before the
\* item is written; the order of types is what survives every interleaving.
IInv == Typed /\ ParentInv /\ LawfulInv

-------------------------------------------------------------------------------
(* Items and copies *)

\* Every action of the table leads to a state.
LEMMA RuleType == \A a \in Actions : Rule[a].to \in States
  BY DEF Actions, Rule, States

\* A transition of an item gives an item with the same parent.
LEMMA MovedType ==
  ASSUME NEW item \in Item, NEW a \in Actions,
         NEW how \in {"plain", "gated", "forced", "auto"}
  PROVE  Moved(item, a, how) \in Item /\ Moved(item, a, how).parent = item.parent
<1> DEFINE line == [from |-> item.state, to |-> Rule[a].to, how |-> how]
<1>1. line \in Line
  BY RuleType DEF Item, Line
<1>2. Append(item.log, line) \in Seq(Line)
  BY <1>1, AppendProperties DEF Item
<1> QED BY <1>2, RuleType DEF Item, Moved

\* So does a worklog line alone.
LEMMA NotedType ==
  ASSUME NEW item \in Item
  PROVE  Noted(item) \in Item /\ Noted(item).parent = item.parent
<1> DEFINE line == [from |-> item.state, to |-> item.state, how |-> "note"]
<1>1. line \in Line
  BY DEF Item, Line
<1>2. Append(item.log, line) \in Seq(Line)
  BY <1>1, AppendProperties DEF Item
<1> QED BY <1>2 DEF Item, Noted

\* What an idle process holds is in its type.
LEMMA BlankType == Blank \in Item /\ NoMemory \in Memory
<1>1. Blank \in Item
  BY EmptySeq DEF Blank, Item, States
<1>2. (CHOOSE i \in Items : TRUE) \in Items
  BY NamesAssumption
<1> QED BY <1>1, <1>2 DEF NoMemory, Memory, States

\* update_state asks the state machine for one of its actions.
LEMMA ActionForType ==
  \A old, new \in States : new # "New" => ActionFor(old, new) \in Actions
  BY DEF ActionFor, States, Actions, Rule

-------------------------------------------------------------------------------
(* The steps of a command *)

\* The part of the invariant that is about one process: it reads pc and mem only.
WorkerOK(w) ==
    /\ pc[w] \in Steps /\ mem[w] \in Memory
    /\ pc[w] \in WithParent => mem[w].copy.parent # None
    /\ pc[w] # "idle" => Lawful(mem[w].item, mem[w].copy.parent)
    /\ pc[w] \in {"openParent", "fillParent"} =>
         Lawful(mem[w].copy.parent, mem[w].parentCopy.parent)

\* The part that is about the files.
FilesOK ==
    /\ file \in [Items -> Item]
    /\ present \subseteq Items /\ torn \subseteq Items
    /\ revLock \in Workers \cup {Nobody}
    /\ crashes \in Nat
    /\ \A i \in Items : Lawful(i, file[i].parent)

\* A step of w touches no other process.
Apart(w) ==
    /\ pc' \in [Workers -> Steps] /\ mem' \in [Workers -> Memory]
    /\ \A v \in Workers : v # w => pc'[v] = pc[v] /\ mem'[v] = mem[v]

\* The invariant is the sum of the two parts.
LEMMA Parts ==
  IInv <=> /\ FilesOK
           /\ pc \in [Workers -> Steps] /\ mem \in [Workers -> Memory]
           /\ \A w \in Workers : WorkerOK(w)
  BY DEF IInv, Typed, ParentInv, LawfulInv, FilesOK, WorkerOK

\* So it is enough to look at the process that moves.
LEMMA Combine ==
  ASSUME IInv, NEW w \in Workers, Apart(w), WorkerOK(w)', FilesOK'
  PROVE  IInv'
<1>1. \A v \in Workers : WorkerOK(v)'
  <2> SUFFICES ASSUME NEW v \in Workers, v # w PROVE WorkerOK(v)'
    OBVIOUS
  <2>1. WorkerOK(v) /\ pc'[v] = pc[v] /\ mem'[v] = mem[v]
    BY Parts DEF Apart
  <2> QED BY <2>1 DEF WorkerOK
<1>2. pc' \in [Workers -> Steps] /\ mem' \in [Workers -> Memory]
  BY DEF Apart
<1> QED
  BY <1>1, <1>2 DEF IInv, Typed, ParentInv, LawfulInv, FilesOK, WorkerOK

\* Commands that end, or go on without touching a file.
LEMMA FilesKept ==
  ASSUME IInv, UNCHANGED <<file, present, torn, revLock>>, crashes' \in Nat
  PROVE  FilesOK'
  BY Parts DEF FilesOK

LEMMA LeaveOK ==
  ASSUME IInv, NEW w \in Workers, Leave(w)
  PROVE  Apart(w) /\ WorkerOK(w)'
<1>1. "idle" \in Steps /\ "idle" \notin WithParent
  BY DEF Steps, WithParent
<1>2. Apart(w) /\ pc'[w] = "idle" /\ mem'[w] = NoMemory
  BY <1>1, BlankType, Parts DEF Leave, Goto, Apart
<1> QED BY <1>1, <1>2, BlankType DEF WorkerOK

\* A step of w that changes no file: w goes on to s with m in memory.
LEMMA GoOK ==
  ASSUME IInv, NEW w \in Workers, NEW s \in Steps, NEW m \in Memory,
         pc' = [pc EXCEPT ![w] = s], mem' = [mem EXCEPT ![w] = m],
         UNCHANGED <<file, present, torn, revLock, crashes>>,
         s \in WithParent => m.copy.parent # None,
         s # "idle" => Lawful(m.item, m.copy.parent),
         s \in {"openParent", "fillParent"} => Lawful(m.copy.parent, m.parentCopy.parent)
  PROVE  IInv'
<1>1. Apart(w) /\ pc'[w] = s /\ mem'[w] = m
  BY Parts DEF Apart
<1>2. WorkerOK(w)'
  BY <1>1 DEF WorkerOK
<1>3. FilesOK'
  BY FilesKept, Parts DEF FilesOK
<1> QED BY <1>1, <1>2, <1>3, Combine

\* A step of w that keeps its memory.
LEMMA GotoOK ==
  ASSUME IInv, NEW w \in Workers, NEW s \in Steps, Goto(w, s),
         UNCHANGED <<mem, file, present, torn, revLock, crashes>>,
         pc[w] # "idle", s \notin {"openParent", "fillParent"},
         s \in WithParent => pc[w] \in WithParent
  PROVE  IInv'
<1>1. mem[w] \in Memory /\ WorkerOK(w) /\ mem' = [mem EXCEPT ![w] = mem[w]]
  BY Parts
<1> QED BY <1>1, GoOK DEF Goto, WorkerOK

\* A command that stops without a file changed.
LEMMA StopOK ==
  ASSUME IInv, NEW w \in Workers, Leave(w),
         UNCHANGED <<file, present, torn, revLock, crashes>>
  PROVE  IInv'
<1>1. FilesOK'
  BY FilesKept, Parts DEF FilesOK
<1> QED BY <1>1, LeaveOK, Combine

\* A command that takes item i into memory with a lawful parent.
LEMMA BeginOK ==
  ASSUME IInv, NEW w \in Workers, NEW op \in {"update", "transition", "remap", "note", "trash"},
         NEW i \in Items, NEW copy \in Item, Lawful(i, copy.parent),
         Begin(w, op, i, copy, "open")
  PROVE  IInv'
<1> DEFINE m == [NoMemory EXCEPT !.op = op, !.item = i, !.copy = copy]
<1>1. m \in Memory /\ m.item = i /\ m.copy = copy
  BY BlankType DEF Memory, NoMemory
<1> HIDE DEF m
<1>2. /\ pc' = [pc EXCEPT ![w] = "open"] /\ mem' = [mem EXCEPT ![w] = m]
      /\ UNCHANGED <<file, present, torn, revLock, crashes>>
  BY DEF Begin, Goto, m
<1>3. "open" \in Steps /\ "open" \notin WithParent
  BY DEF Steps, WithParent
<1> QED BY <1>1, <1>2, <1>3, GoOK

-------------------------------------------------------------------------------
(* Each action preserves the invariant *)

LEMMA UpdateStep ==
  ASSUME IInv, NEW w \in Workers, NEW i \in Items, NEW new \in Aims,
         NEW force \in BOOLEAN, NEW sync \in Syncs, UpdateState(w, i, new, force, sync)
  PROVE  IInv'
<1> DEFINE action == ActionFor(file[i].state, new)
           gated == new = "InProgress" /\ ~force
           how == IF gated THEN "gated" ELSE IF new = "InProgress" THEN "forced" ELSE "plain"
           copy == Moved(file[i], action, how)
           s == IF gated /\ file[i].parent # None THEN "gate" ELSE AfterGate(file[i], sync)
           m == [NoMemory EXCEPT !.op = "update", !.item = i, !.copy = copy,
                                 !.aim = new, !.sync = sync]
<1>1. file[i] \in Item /\ Lawful(i, file[i].parent)
  BY Parts DEF FilesOK
<1>2. new \in States /\ sync \in BOOLEAN /\ new # "New"
  BY InputsAssumption DEF UpdateState
<1>3. action \in Actions
  BY <1>1, <1>2, ActionForType DEF Item
<1>4. copy \in Item /\ copy.parent = file[i].parent
  BY <1>1, <1>3, MovedType
<1>5. /\ pc' = [pc EXCEPT ![w] = s] /\ mem' = [mem EXCEPT ![w] = m]
      /\ UNCHANGED <<file, present, torn, revLock, crashes>>
  BY DEF UpdateState, Goto
<1> HIDE DEF action, how, copy
<1>6. m \in Memory /\ m.item = i /\ m.copy = copy
  BY <1>2, <1>4, BlankType DEF Memory, NoMemory
<1>7. /\ s \in Steps /\ s \notin {"openParent", "fillParent"}
      /\ s \in WithParent => file[i].parent # None
  BY DEF Steps, AfterGate, WithParent
<1> HIDE DEF m, s
<1> QED BY <1>1, <1>4, <1>5, <1>6, <1>7, GoOK

LEMMA TransitionStep ==
  ASSUME IInv, NEW w \in Workers, NEW i \in Items, NEW a \in Actions, Transition(w, i, a)
  PROVE  IInv'
<1> DEFINE how == IF a = "start" THEN "gated" ELSE "plain"
<1>1. file[i] \in Item /\ Lawful(i, file[i].parent)
  BY Parts DEF FilesOK
<1>2. Moved(file[i], a, how) \in Item /\ Moved(file[i], a, how).parent = file[i].parent
  BY <1>1, MovedType
<1>3. Begin(w, "transition", i, Moved(file[i], a, how), "open")
  BY DEF Transition
<1> HIDE DEF how
<1> QED BY <1>1, <1>2, <1>3, BeginOK

LEMMA NoteStep ==
  ASSUME IInv, NEW w \in Workers, NEW i \in Items, NEW complete \in BOOLEAN,
         Note(w, i, complete)
  PROVE  IInv'
<1> DEFINE item == [file[i] EXCEPT !.complete = @ \/ complete]
<1>1. file[i] \in Item /\ Lawful(i, file[i].parent)
  BY Parts DEF FilesOK
<1>2. (file[i].complete \/ complete) \in BOOLEAN
  BY <1>1, Zenon DEF Item
<1>3. item \in Item /\ item.parent = file[i].parent
  BY <1>1, <1>2 DEF Item
<1>4. Begin(w, "note", i, Noted(item), "open")
  BY DEF Note
<1> HIDE DEF item
<1>5. Noted(item) \in Item /\ Noted(item).parent = file[i].parent
  BY <1>3, NotedType
<1> QED BY <1>1, <1>4, <1>5, BeginOK

LEMMA TrashStep ==
  ASSUME IInv, NEW w \in Workers, NEW i \in Items, Trash(w, i)
  PROVE  IInv'
<1>1. file[i] \in Item /\ Lawful(i, file[i].parent)
  BY Parts DEF FilesOK
<1>2. Noted(file[i]) \in Item /\ Noted(file[i]).parent = file[i].parent
  BY <1>1, NotedType
<1> QED BY <1>1, <1>2, BeginOK DEF Trash

\* A remap checks the type of the new parent at once, and walks its chain.
LEMMA RemapStep ==
  ASSUME IInv, NEW w \in Workers, NEW i \in Items, NEW p \in Items \cup {None},
         RemapParent(w, i, p)
  PROVE  IInv'
<1> DEFINE copy == [Noted(file[i]) EXCEPT !.parent = p]
           m == [NoMemory EXCEPT !.op = "remap", !.item = i, !.copy = copy, !.cursor = p]
<1>1. Noted(file[i]) \in Item
  BY NotedType, Parts DEF FilesOK
<1>2. copy \in Item /\ copy.parent = p
  BY <1>1 DEF Item
<1>3. Lawful(i, p)
  BY DEF RemapParent, Lawful
<1>4. CASE p = None
  <2>1. Begin(w, "remap", i, copy, "open")
    BY <1>4 DEF RemapParent
  <2> HIDE DEF copy
  <2> QED BY <1>2, <1>3, <2>1, BeginOK
<1>5. CASE p # None
  <2>1. /\ pc' = [pc EXCEPT ![w] = "walk"] /\ mem' = [mem EXCEPT ![w] = m]
        /\ UNCHANGED <<file, present, torn, revLock, crashes>>
    BY <1>5 DEF RemapParent, Goto
  <2> HIDE DEF copy
  <2>2. m \in Memory /\ m.item = i /\ m.copy = copy
    BY <1>2, <1>5, BlankType DEF Memory, NoMemory
  <2>3. "walk" \in Steps /\ "walk" \notin WithParent
    BY DEF Steps, WithParent
  <2> HIDE DEF m
  <2> QED BY <1>2, <1>3, <2>1, <2>2, <2>3, GoOK
<1> QED BY <1>4, <1>5

LEMMA GateStep ==
  ASSUME IInv, NEW w \in Workers, ParentGate(w)
  PROVE  IInv'
<1> DEFINE s == AfterGate(mem[w].copy, mem[w].sync)
<1>1. CASE Leave(w)
  BY <1>1, StopOK DEF ParentGate
<1>2. CASE Goto(w, s) /\ UNCHANGED mem
  <2>1. s \in Steps /\ s \notin {"openParent", "fillParent"}
    BY DEF AfterGate, Steps
  <2>2. pc[w] # "idle" /\ pc[w] \in WithParent
    BY DEF ParentGate, WithParent
  <2>3. UNCHANGED <<mem, file, present, torn, revLock, crashes>>
    BY <1>2 DEF ParentGate
  <2> HIDE DEF s
  <2> QED BY <1>2, <2>1, <2>2, <2>3, GotoOK
<1> QED BY <1>1, <1>2 DEF ParentGate

\* The copy of the parent keeps the parent's own parent.
LEMMA SyncStep ==
  ASSUME IInv, NEW w \in Workers, ParentSync(w)
  PROVE  IInv'
<1> DEFINE p == mem[w].copy.parent
           parentCopy == Moved(file[p], "start", "auto")
           m == [mem[w] EXCEPT !.parentCopy = parentCopy]
<1>1. CASE Leave(w)
  BY <1>1, StopOK DEF ParentSync
<1>2. CASE Goto(w, "open") /\ UNCHANGED mem
  <2>1. pc[w] # "idle" /\ "open" \in Steps /\ "open" \notin WithParent
    BY DEF ParentSync, WithParent, Steps
  <2>2. UNCHANGED <<mem, file, present, torn, revLock, crashes>>
    BY <1>2 DEF ParentSync
  <2>3. "open" \notin {"openParent", "fillParent"}
    OBVIOUS
  <2> QED BY <1>2, <2>1, <2>2, <2>3, GotoOK
<1>3. CASE Goto(w, "openParent") /\ mem' = [mem EXCEPT ![w].parentCopy = parentCopy]
  <2>1. mem[w] \in Memory /\ WorkerOK(w) /\ pc[w] = "sync"
    BY Parts DEF ParentSync
  <2>2. p # None /\ Lawful(mem[w].item, p)
    BY <2>1 DEF WorkerOK, WithParent
  <2>3. p \in Items
    BY <2>1, <2>2 DEF Memory, Item
  <2>4. file[p] \in Item /\ Lawful(p, file[p].parent)
    BY <2>3, Parts DEF FilesOK
  <2>5. "start" \in Actions
    BY DEF Actions, Rule
  <2>6. parentCopy \in Item /\ parentCopy.parent = file[p].parent
    BY <2>4, <2>5, MovedType
  <2>7. mem' = [mem EXCEPT ![w] = m]
    BY <1>3
  <2> HIDE DEF parentCopy
  <2>8. /\ m \in Memory /\ m.item = mem[w].item /\ m.copy = mem[w].copy
        /\ m.parentCopy = parentCopy
    BY <2>1, <2>6 DEF Memory
  <2>9. "openParent" \in Steps
    BY DEF Steps
  <2>10. pc' = [pc EXCEPT ![w] = "openParent"]
         /\ UNCHANGED <<file, present, torn, revLock, crashes>>
    BY <1>3 DEF ParentSync, Goto
  <2> HIDE DEF m
  <2> QED BY <2>2, <2>4, <2>6, <2>7, <2>8, <2>9, <2>10, GoOK
<1> QED BY <1>1, <1>2, <1>3 DEF ParentSync

\* The walk moves its cursor and nothing else.
LEMMA ChainStep ==
  ASSUME IInv, NEW w \in Workers, ValidateParentChain(w)
  PROVE  IInv'
<1> DEFINE at == mem[w].cursor
           m == [mem[w] EXCEPT !.cursor = file[at].parent, !.visited = @ \cup {at}]
<1>1. mem[w] \in Memory /\ WorkerOK(w) /\ pc[w] = "walk" /\ at \in Items
  BY Parts DEF ValidateParentChain, Memory
<1>2. "walk" \in Steps /\ "open" \in Steps /\ "walk" \notin WithParent /\ "open" \notin WithParent
  BY DEF Steps, WithParent
<1>3. UNCHANGED <<file, present, torn, revLock, crashes>>
  BY DEF ValidateParentChain
<1>4. CASE Leave(w)
  BY <1>3, <1>4, StopOK
<1>5. CASE /\ Goto(w, "open")
           /\ mem' = [mem EXCEPT ![w].cursor = NoMemory.cursor, ![w].visited = {}]
  <2> DEFINE n == [mem[w] EXCEPT !.cursor = NoMemory.cursor, !.visited = {}]
  <2>1. n \in Memory /\ n.item = mem[w].item /\ n.copy = mem[w].copy
    BY <1>1, BlankType DEF Memory
  <2>2. pc' = [pc EXCEPT ![w] = "open"] /\ mem' = [mem EXCEPT ![w] = n]
    BY <1>5, Parts DEF Goto
  <2>3. Lawful(mem[w].item, mem[w].copy.parent)
    BY <1>1 DEF WorkerOK
  <2> HIDE DEF n
  <2> QED BY <1>2, <1>3, <2>1, <2>2, <2>3, GoOK
<1>6. CASE /\ file[at].parent # None /\ UNCHANGED pc
           /\ mem' = [mem EXCEPT ![w].cursor = file[at].parent, ![w].visited = @ \cup {at}]
  <2>1. file[at] \in Item
    BY <1>1, Parts DEF FilesOK
  <2>2. m \in Memory /\ m.item = mem[w].item /\ m.copy = mem[w].copy
    BY <1>1, <1>6, <2>1 DEF Memory, Item
  <2>3. pc' = [pc EXCEPT ![w] = "walk"] /\ mem' = [mem EXCEPT ![w] = m]
    BY <1>1, <1>6, Parts
  <2>4. Lawful(mem[w].item, mem[w].copy.parent)
    BY <1>1 DEF WorkerOK
  <2> HIDE DEF m
  <2> QED BY <1>2, <1>3, <2>2, <2>3, <2>4, GoOK
<1> QED BY <1>4, <1>5, <1>6 DEF ValidateParentChain

\* The file of the target is truncated; what it held last is still in "file".
LEMMA OpenStep ==
  ASSUME IInv, NEW w \in Workers, OpenFile(w)
  PROVE  IInv'
<1> DEFINE s == IF pc[w] = "open" THEN "fill" ELSE "fillParent"
<1>1. mem[w] \in Memory /\ WorkerOK(w) /\ pc[w] \in {"openParent", "open"}
  BY Parts DEF OpenFile
<1>2. Target(w) \in Items
  BY <1>1 DEF Target, Memory, Item, WorkerOK, WithParent
<1>3. s \in Steps
  BY DEF Steps
<1>4. Apart(w) /\ pc'[w] = s /\ mem'[w] = mem[w]
  BY <1>3, Parts DEF OpenFile, Goto, Apart
<1>5. WorkerOK(w)'
  BY <1>1, <1>3, <1>4 DEF WorkerOK, WithParent
<1>6. FilesOK'
  BY <1>2, Parts DEF OpenFile, FilesOK
<1> QED BY <1>4, <1>5, <1>6, Combine

\* What is written has a lawful parent, whatever the file holds by now.
LEMMA FillStep ==
  ASSUME IInv, NEW w \in Workers, FillFile(w)
  PROVE  IInv'
<1> DEFINE written == Written(w)
<1>1. mem[w] \in Memory /\ WorkerOK(w) /\ pc[w] \in {"fillParent", "fill"}
  BY Parts DEF FillFile
<1>2. Target(w) \in Items
  BY <1>1 DEF Target, Memory, Item, WorkerOK, WithParent
<1>3. written \in Item /\ Lawful(Target(w), written.parent)
  BY <1>1 DEF Target, Written, Memory, WorkerOK
<1>4. file' = [file EXCEPT ![Target(w)] = written]
  BY DEF FillFile
<1> HIDE DEF written
<1>5. FilesOK'
  <2>1. file' \in [Items -> Item]
    BY <1>3, <1>4, Parts DEF FilesOK
  <2>2. \A i \in Items : Lawful(i, file'[i].parent)
    BY <1>3, <1>4, Parts DEF FilesOK
  <2>3. torn' \subseteq Items /\ present' \subseteq Items /\ crashes' \in Nat
    BY Parts DEF FillFile, FilesOK
  <2>4. revLock' \in Workers \cup {Nobody}
    BY DEF FillFile
  <2>5. \A i \in Items : Lawful(i, file[i].parent)'
    BY <2>2 DEF Lawful
  <2> QED BY <2>1, <2>2, <2>3, <2>4, <2>5 DEF FilesOK
<1>6. Apart(w) /\ WorkerOK(w)'
  <2>1. CASE Leave(w)
    BY <2>1, LeaveOK
  <2>2. CASE \/ Goto(w, "move") /\ UNCHANGED mem
             \/ Goto(w, "open") /\ mem' = [mem EXCEPT ![w].parentCopy = Blank]
    <3>1. {"open", "move"} \subseteq Steps /\ {"open", "move"} \cap WithParent = {}
      BY DEF Steps, WithParent
    <3>2. mem'[w] \in Memory /\ mem'[w].item = mem[w].item /\ mem'[w].copy = mem[w].copy
      BY <1>1, <2>2, Parts, BlankType DEF Memory
    <3>3. pc'[w] \in {"open", "move"} /\ Apart(w)
      BY <2>2, <3>1, <3>2, Parts DEF Goto, Apart
    <3> QED BY <1>1, <3>1, <3>2, <3>3 DEF WorkerOK
  <2> QED BY <2>1, <2>2 DEF FillFile
<1> QED BY <1>5, <1>6, Combine

LEMMA MoveStep ==
  ASSUME IInv, NEW w \in Workers, MoveFile(w)
  PROVE  IInv'
<1>1. Apart(w) /\ WorkerOK(w)'
  BY LeaveOK DEF MoveFile
<1>2. FilesOK'
  BY Parts DEF MoveFile, FilesOK
<1> QED BY <1>1, <1>2, Combine

LEMMA CrashStep ==
  ASSUME IInv, NEW w \in Workers, Crash(w)
  PROVE  IInv'
<1>1. Apart(w) /\ WorkerOK(w)'
  BY LeaveOK DEF Crash
<1>2. FilesOK'
  BY Parts DEF Crash, FilesOK
<1> QED BY <1>1, <1>2, Combine

-------------------------------------------------------------------------------
(* The theorems *)

\* Items are created under a parent of an allowed type.
LEMMA InitInv == Init => IInv
<1> SUFFICES ASSUME Init PROVE IInv
  OBVIOUS
<1>1. PICK ready \in SUBSET Items :
        file = [i \in Items |-> [Blank EXCEPT !.parent = FirstParent[i],
                                             !.complete = i \in ready]]
  BY DEF Init
<1>2. \A i \in Items : FirstParent[i] \in Items \cup {None} /\ Lawful(i, FirstParent[i])
  BY HierarchyAssumption
<1>3. \A i \in Items : file[i] \in Item /\ file[i].parent = FirstParent[i]
  <2> TAKE i \in Items
  <2>1. file[i] = [state |-> "Proposed", parent |-> FirstParent[i],
                   complete |-> i \in ready, log |-> <<>>]
    BY <1>1 DEF Blank
  <2>2. (i \in ready) \in BOOLEAN /\ <<>> \in Seq(Line) /\ "Proposed" \in States
    BY EmptySeq DEF States
  <2> QED BY <1>2, <2>1, <2>2 DEF Item
<1>4. FilesOK
  <2>1. file \in [Items -> Item]
    BY <1>1, <1>3
  <2> QED BY <1>2, <1>3, <2>1 DEF Init, FilesOK
<1>5. "idle" \in Steps /\ "idle" \notin WithParent
  BY DEF Steps, WithParent
<1>6. pc \in [Workers -> Steps] /\ mem \in [Workers -> Memory]
  BY <1>5, BlankType DEF Init
<1>7. \A w \in Workers : WorkerOK(w)
  BY <1>5, <1>6 DEF Init, WorkerOK
<1> QED BY <1>4, <1>6, <1>7, Parts

LEMMA NextInv == IInv /\ [Next]_vars => IInv'
<1> SUFFICES ASSUME IInv, [Next]_vars PROVE IInv'
  OBVIOUS
<1>1. CASE UNCHANGED vars
  BY <1>1 DEF vars, IInv, Typed, ParentInv, LawfulInv
<1>2. ASSUME NEW w \in Workers, Command(w) PROVE IInv'
  <2> PICK i \in Items :
        \/ \E new \in Aims, force \in BOOLEAN, sync \in Syncs :
              UpdateState(w, i, new, force, sync)
        \/ \E action \in Actions : Transition(w, i, action)
        \/ \E complete \in BOOLEAN : Note(w, i, complete)
        \/ \E p \in Items \cup {None} : RemapParent(w, i, p)
        \/ Trash(w, i)
    BY <1>2 DEF Command
  <2> QED BY UpdateStep, TransitionStep, NoteStep, RemapStep, TrashStep
<1>3. ASSUME NEW w \in Workers,
             \/ ParentGate(w) \/ ParentSync(w) \/ ValidateParentChain(w)
             \/ OpenFile(w) \/ FillFile(w) \/ MoveFile(w) \/ Crash(w)
      PROVE  IInv'
  BY <1>3, GateStep, SyncStep, ChainStep, OpenStep, FillStep, MoveStep, CrashStep
<1> QED BY <1>1, <1>2, <1>3 DEF Next, WorkerStep

\* IInv holds in every reachable state.
THEOREM LifecycleInvariant == Spec => []IInv
  BY InitInv, NextInv, PTL DEF Spec

\* Whatever the items, the processes and the commands are, every item file and
\* every copy a command holds is well formed.
THEOREM LifecycleTypeCorrect == Spec => []TypeOK
<1> DEFINE Remembered == overtaken \in [Workers -> SUBSET Items]
<1>1. Init => Remembered
  BY DEF Init
<1>2. Remembered /\ [Next]_vars => Remembered'
  <2>1. Witness => Remembered'
    BY DEF Witness
  <2>2. UNCHANGED vars /\ Remembered => Remembered'
    BY DEF vars
  <2> QED BY <2>1, <2>2 DEF Next
<1>3. IInv /\ Remembered => TypeOK
  BY DEF IInv, Typed, TypeOK
<1> HIDE DEF Remembered
<1> QED BY <1>1, <1>2, <1>3, LifecycleInvariant, PTL DEF Spec

\* The place of a type in the hierarchy.
Rank == [Initiative |-> 0, Epic |-> 1, Feature |-> 2, UserStory |-> 3, Task |-> 4,
         SubTask |-> 5, Bug |-> 5, Issue |-> 5]

\* A parent of an allowed type has a lower place.
LEMMA ParentRanksLower ==
  \A t \in Types : \A u \in AllowedParents[t] : u \in Types /\ Rank[u] < Rank[t]
  BY DEF Types, AllowedParents, Rank

\* Lawful parents form no cycle: each of its members would have a child in it with
\* a higher place than its own, and the places end with the leaves.
LEMMA LawfulIsAcyclic == IInv => ParentsAcyclic
<1> SUFFICES ASSUME IInv, NEW cycle \in SUBSET Items, cycle # {},
                    \A i \in cycle : \E j \in cycle : file[j].parent = i
             PROVE  FALSE
  BY DEF ParentsAcyclic
<1> DEFINE R(i) == Rank[TypeOf[i]]
<1>1. \A i \in cycle : R(i) \in 0..5
  BY HierarchyAssumption DEF Types, Rank
<1>2. \A i \in cycle : \E j \in cycle : R(i) < R(j)
  <2> TAKE i \in cycle
  <2>1. PICK j \in cycle : file[j].parent = i
    OBVIOUS
  <2>2. Lawful(j, i) /\ i # None
    BY <2>1, NamesAssumption DEF IInv, LawfulInv
  <2>3. TypeOf[j] \in Types /\ TypeOf[i] \in AllowedParents[TypeOf[j]]
    BY <2>2, HierarchyAssumption DEF Lawful
  <2> QED BY <2>3, ParentRanksLower
<1> HIDE DEF R
<1>3. ASSUME NEW n \in 0..5, \A i \in cycle : R(i) <= n
      PROVE  \A i \in cycle : R(i) <= n - 1
  <2> TAKE i \in cycle
  <2>1. PICK j \in cycle : R(i) < R(j)
    BY <1>2
  <2>2. R(i) \in Int /\ R(j) \in Int /\ R(j) <= n
    BY <1>1, <1>3
  <2> QED BY <2>1, <2>2
<1>4. \A i \in cycle : R(i) <= 5
  BY <1>1
<1>5. \A i \in cycle : R(i) <= 4
  BY <1>3, <1>4
<1>6. \A i \in cycle : R(i) <= 3
  BY <1>3, <1>5
<1>7. \A i \in cycle : R(i) <= 2
  BY <1>3, <1>6
<1>8. \A i \in cycle : R(i) <= 1
  BY <1>3, <1>7
<1>9. \A i \in cycle : R(i) <= 0
  BY <1>3, <1>8
<1>10. \A i \in cycle : R(i) <= -1
  BY <1>3, <1>9
<1> QED BY <1>1, <1>10

\* No interleaving of remaps, writes of stale copies and crashes ever closes a
\* cycle of parents, although no lock is held while a chain is validated.
THEOREM ParentsAlwaysAcyclic == Spec => []ParentsAcyclic
  BY LifecycleInvariant, LawfulIsAcyclic, PTL

-------------------------------------------------------------------------------
(* The worklog and the gates *)

\* Line n leads from where the last one ended, as a note or along the table.
Follows(log, n) ==
    /\ log[n].from = IF n = 1 THEN "Proposed" ELSE log[n - 1].to
    /\ \/ log[n].how = "note" /\ log[n].to = log[n].from
       \/ \E a \in Actions : log[n].from \in Rule[a].from /\ log[n].to = Rule[a].to

\* An item whose log accounts for its state, and whose sections are complete if it
\* is Ready or a line of its log claims the gate.
Sound(item) ==
    /\ item.state = IF item.log = <<>> THEN "Proposed" ELSE item.log[Len(item.log)].to
    /\ \A n \in DOMAIN item.log : Follows(item.log, n)
    /\ \/ item.complete
       \/ item.state # "Ready" /\ \A n \in DOMAIN item.log : item.log[n].how # "gated"

\* What a command computes is sound because what it read was, no matter what the
\* file holds when the copy is written.
SoundInv ==
    /\ \A i \in Items : Sound(file[i])
    /\ \A w \in Workers : Sound(mem[w].copy) /\ Sound(mem[w].parentCopy)

\* A new item is sound: nothing has happened to it.
LEMMA NewSound ==
  ASSUME NEW item, item.state = "Proposed", item.log = <<>> PROVE Sound(item)
<1>1. DOMAIN item.log = {} /\ item.state # "Ready"
  BY EmptySeq
<1> QED BY <1>1 DEF Sound

\* A line that starts where the item is keeps it sound.
LEMMA LineSound ==
  ASSUME NEW item \in Item, Sound(item), NEW line \in Line, NEW new \in Item,
         line.from = item.state,
         \/ line.how = "note" /\ line.to = line.from
         \/ \E a \in Actions : line.from \in Rule[a].from /\ line.to = Rule[a].to,
         new.state = line.to, new.log = Append(item.log, line),
         item.complete => new.complete,
         line.how = "gated" => new.complete,
         line.to = "Ready" /\ line.from # "Ready" => new.complete
  PROVE  Sound(new)
<1> DEFINE log == item.log
           last == Len(log) + 1
<1>1. log \in Seq(Line) /\ Len(log) \in Nat /\ DOMAIN log = 1..Len(log)
  BY LenProperties DEF Item
<1>2. /\ Len(new.log) = last /\ DOMAIN new.log = 1..last /\ new.log[last] = line
      /\ \A n \in 1..Len(log) : new.log[n] = log[n]
      /\ new.log # <<>>
  BY <1>1, AppendProperties
<1>3. log = <<>> <=> Len(log) = 0
  BY <1>1, EmptySeq, LenProperties
<1>4. \A n \in DOMAIN new.log : Follows(new.log, n)
  <2> TAKE n \in DOMAIN new.log
  <2>1. CASE n \in 1..Len(log)
    <3>1. Follows(log, n) /\ (n = 1 \/ n - 1 \in 1..Len(log))
      BY <1>1, <2>1 DEF Sound
    <3>2. new.log[n] = log[n] /\ (n # 1 => new.log[n - 1] = log[n - 1])
      BY <1>2, <2>1, <3>1
    <3> QED BY <3>1, <3>2 DEF Follows
  <2>2. CASE n = last
    <3>1. line.from = IF n = 1 THEN "Proposed" ELSE new.log[n - 1].to
      <4>1. n = 1 <=> log = <<>>
        BY <1>1, <1>3, <2>2
      <4>2. n # 1 => n - 1 = Len(log) /\ Len(log) \in 1..Len(log)
        BY <1>1, <2>2
      <4> QED BY <1>2, <4>1, <4>2 DEF Sound
    <3> QED BY <1>2, <2>2, <3>1 DEF Follows
  <2> QED BY <1>1, <1>2, <2>1, <2>2
<1>5. new.complete \/ (new.state # "Ready" /\ \A n \in DOMAIN new.log : new.log[n].how # "gated")
  <2> SUFFICES ASSUME ~new.complete
               PROVE  new.state # "Ready" /\ \A n \in DOMAIN new.log : new.log[n].how # "gated"
    OBVIOUS
  <2>1. item.state # "Ready" /\ \A n \in DOMAIN log : log[n].how # "gated"
    BY DEF Sound
  <2>2. new.state # "Ready" /\ line.how # "gated"
    BY <2>1
  <2> QED BY <1>1, <1>2, <2>1, <2>2
<1> QED BY <1>2, <1>4, <1>5 DEF Sound

\* A transition the state machine permits, gated only where the sections are there.
LEMMA MovedSound ==
  ASSUME NEW item \in Item, Sound(item), NEW a \in Actions,
         NEW how \in {"plain", "gated", "forced", "auto"},
         Can(item, a), how = "gated" => item.complete
  PROVE  Sound(Moved(item, a, how))
<1> DEFINE line == [from |-> item.state, to |-> Rule[a].to, how |-> how]
           new == Moved(item, a, how)
<1>1. line \in Line
  BY RuleType DEF Item, Line
<1>2. new \in Item
  BY MovedType
<1>3. new.state = line.to /\ new.log = Append(item.log, line) /\ new.complete = item.complete
  BY DEF Moved, Item
<1>4. line.to = "Ready" => a = "ready"
  BY DEF Actions, Rule
<1>5. line.from = item.state /\ line.from \in Rule[a].from /\ line.to = Rule[a].to
  BY DEF Can
<1>6. /\ line.how = "gated" => new.complete
      /\ line.to = "Ready" /\ line.from # "Ready" => new.complete
  BY <1>3, <1>4 DEF Can
<1> HIDE DEF line, new
<1>7. Sound(new)
  BY <1>1, <1>2, <1>3, <1>5, <1>6, LineSound
<1> QED BY <1>7 DEF new

\* A note on an item that has gained sections, or none.
LEMMA NotedSound ==
  ASSUME NEW item \in Item, Sound(item) PROVE Sound(Noted(item))
<1> DEFINE line == [from |-> item.state, to |-> item.state, how |-> "note"]
           new == Noted(item)
<1>1. line \in Line
  BY DEF Item, Line
<1>2. new \in Item
  BY NotedType
<1>3. new.state = line.to /\ new.log = Append(item.log, line) /\ new.complete = item.complete
  BY DEF Noted, Item
<1>4. line.from = item.state /\ line.how = "note" /\ line.to = line.from
  OBVIOUS
<1> HIDE DEF line, new
<1>5. Sound(new)
  BY <1>1, <1>2, <1>3, <1>4, LineSound
<1> QED BY <1>5 DEF new

\* A command that takes a sound copy of an item, and leaves the files alone.
LEMMA CommandSound ==
  ASSUME IInv, SoundInv, NEW w \in Workers, Command(w)
  PROVE  /\ file' = file /\ mem' = [mem EXCEPT ![w] = mem'[w]]
         /\ Sound(mem'[w].copy) /\ Sound(mem'[w].parentCopy)
<1>1. NoMemory \in Memory /\ NoMemory.parentCopy = Blank /\ Sound(Blank)
  BY BlankType DEF NoMemory, Sound, Blank
<1>2. mem \in [Workers -> Memory]
  BY Parts
<1>3. PICK i \in Items :
        \/ \E new \in Aims, force \in BOOLEAN, sync \in Syncs :
              UpdateState(w, i, new, force, sync)
        \/ \E action \in Actions : Transition(w, i, action)
        \/ \E complete \in BOOLEAN : Note(w, i, complete)
        \/ \E p \in Items \cup {None} : RemapParent(w, i, p)
        \/ Trash(w, i)
  BY DEF Command
<1>4. file[i] \in Item /\ Sound(file[i])
  BY Parts DEF FilesOK, SoundInv
<1>5. ASSUME NEW op, NEW copy, NEW step, Sound(copy), Begin(w, op, i, copy, step)
      PROVE  /\ file' = file /\ mem' = [mem EXCEPT ![w] = mem'[w]]
             /\ Sound(mem'[w].copy) /\ Sound(mem'[w].parentCopy)
  BY <1>1, <1>2, <1>5 DEF Begin, Memory
<1>6. ASSUME NEW new \in Aims, NEW force \in BOOLEAN, NEW sync \in Syncs,
             UpdateState(w, i, new, force, sync)
      PROVE  /\ file' = file /\ mem' = [mem EXCEPT ![w] = mem'[w]]
             /\ Sound(mem'[w].copy) /\ Sound(mem'[w].parentCopy)
  <2> DEFINE action == ActionFor(file[i].state, new)
             gated == new = "InProgress" /\ ~force
             how == IF gated THEN "gated" ELSE IF new = "InProgress" THEN "forced" ELSE "plain"
             copy == Moved(file[i], action, how)
  <2>1. new \in States /\ new # "New"
    BY <1>6, InputsAssumption DEF UpdateState
  <2>2. action \in Actions
    BY <1>4, <2>1, ActionForType DEF Item
  <2>3. Can(file[i], action) /\ (how = "gated" => file[i].complete)
    BY <1>6 DEF UpdateState
  <2>4. mem' = [mem EXCEPT ![w] = [NoMemory EXCEPT
                    !.op = "update", !.item = i, !.copy = copy,
                    !.aim = new, !.sync = sync]] /\ file' = file
    BY <1>6 DEF UpdateState
  <2>5. how \in {"plain", "gated", "forced", "auto"}
    OBVIOUS
  <2> HIDE DEF action, how
  <2>6. Sound(copy)
    BY <1>4, <2>2, <2>3, <2>5, MovedSound
  <2> HIDE DEF copy
  <2> QED BY <1>1, <1>2, <2>4, <2>6 DEF Memory
<1>7. ASSUME NEW a \in Actions, Transition(w, i, a)
      PROVE  /\ file' = file /\ mem' = [mem EXCEPT ![w] = mem'[w]]
             /\ Sound(mem'[w].copy) /\ Sound(mem'[w].parentCopy)
  <2> DEFINE how == IF a = "start" THEN "gated" ELSE "plain"
  <2>1. Can(file[i], a) /\ (how = "gated" => file[i].complete)
        /\ Begin(w, "transition", i, Moved(file[i], a, how), "open")
    BY <1>7 DEF Transition
  <2>2. how \in {"plain", "gated", "forced", "auto"}
    OBVIOUS
  <2> HIDE DEF how
  <2>3. Sound(Moved(file[i], a, how))
    BY <1>4, <2>1, <2>2, MovedSound
  <2> QED BY <1>5, <2>1, <2>3
<1>8. ASSUME NEW complete \in BOOLEAN, Note(w, i, complete)
      PROVE  /\ file' = file /\ mem' = [mem EXCEPT ![w] = mem'[w]]
             /\ Sound(mem'[w].copy) /\ Sound(mem'[w].parentCopy)
  <2> DEFINE item == [file[i] EXCEPT !.complete = @ \/ complete]
  <2>1. (file[i].complete \/ complete) \in BOOLEAN
    BY <1>4, Zenon DEF Item
  <2>2. item \in Item /\ item.state = file[i].state /\ item.log = file[i].log
        /\ item.complete = (file[i].complete \/ complete)
    BY <1>4, <2>1 DEF Item
  <2>3. Begin(w, "note", i, Noted(item), "open")
    BY <1>8 DEF Note
  <2> HIDE DEF item
  <2>4. file[i].complete => item.complete
    BY <2>2, Zenon
  <2>5. Sound(item)
    BY <1>4, <2>2, <2>4 DEF Sound
  <2> QED BY <1>5, <2>2, <2>3, <2>5, NotedSound
<1>9. ASSUME NEW p \in Items \cup {None}, RemapParent(w, i, p)
      PROVE  /\ file' = file /\ mem' = [mem EXCEPT ![w] = mem'[w]]
             /\ Sound(mem'[w].copy) /\ Sound(mem'[w].parentCopy)
  <2> DEFINE copy == [Noted(file[i]) EXCEPT !.parent = p]
  <2>1. Noted(file[i]) \in Item /\ Sound(Noted(file[i]))
    BY <1>4, NotedType, NotedSound
  <2>2. copy.state = Noted(file[i]).state /\ copy.log = Noted(file[i]).log
        /\ copy.complete = Noted(file[i]).complete
    BY <2>1 DEF Item
  <2>3. /\ file' = file
        /\ \/ Begin(w, "remap", i, copy, "open")
           \/ mem' = [mem EXCEPT ![w] = [NoMemory EXCEPT
                       !.op = "remap", !.item = i, !.copy = copy, !.cursor = p]]
    BY <1>9 DEF RemapParent, Begin
  <2> HIDE DEF copy
  <2>4. Sound(copy)
    BY <2>1, <2>2 DEF Sound
  <2> QED BY <1>1, <1>2, <1>5, <2>3, <2>4 DEF Memory
<1>10. CASE Trash(w, i)
  BY <1>4, <1>5, <1>10, NotedSound DEF Trash
<1> QED BY <1>3, <1>6, <1>7, <1>8, <1>9, <1>10

LEMMA SoundStep == IInv /\ SoundInv /\ [Next]_vars => SoundInv'
<1> SUFFICES ASSUME IInv, SoundInv, [Next]_vars PROVE SoundInv'
  OBVIOUS
<1>1. CASE UNCHANGED vars
  BY <1>1 DEF vars, SoundInv
<1>2. ASSUME NEW w \in Workers, file' = file, mem' = [mem EXCEPT ![w] = mem'[w]],
             Sound(mem'[w].copy), Sound(mem'[w].parentCopy)
      PROVE  SoundInv'
  <2>1. \A v \in Workers : mem'[v] = mem[v] \/ v = w
    BY <1>2, Parts
  <2> QED BY <1>2, <2>1 DEF SoundInv
<1>3. mem \in [Workers -> Memory] /\ Sound(Blank)
      /\ NoMemory.copy = Blank /\ NoMemory.parentCopy = Blank
  BY Parts DEF Sound, Blank, NoMemory
<1>4. ASSUME NEW w \in Workers, file' = file, UNCHANGED mem \/ Leave(w) PROVE SoundInv'
  <2>1. CASE UNCHANGED mem
    BY <1>4, <2>1 DEF SoundInv
  <2>2. CASE Leave(w)
    <3>1. mem'[w] = NoMemory /\ mem' = [mem EXCEPT ![w] = mem'[w]]
      BY <1>3, <2>2 DEF Leave
    <3> QED BY <1>2, <1>3, <1>4, <3>1
  <2> QED BY <1>4, <2>1, <2>2
<1>5. ASSUME NEW w \in Workers, ParentSync(w) PROVE SoundInv'
  <2> DEFINE p == mem[w].copy.parent
             parentCopy == Moved(file[p], "start", "auto")
  <2>1. CASE UNCHANGED mem \/ Leave(w)
    BY <1>4, <1>5, <2>1 DEF ParentSync
  <2>2. CASE /\ Starts(mem[w].aim, file[p].state)
             /\ mem' = [mem EXCEPT ![w].parentCopy = parentCopy]
    <3>1. mem[w] \in Memory /\ p \in Items /\ file' = file
      BY <1>5, Parts DEF ParentSync, WorkerOK, WithParent, Memory, Item
    <3>2. file[p] \in Item /\ Sound(file[p])
      BY <3>1, Parts DEF FilesOK, SoundInv
    <3>3. "start" \in Actions /\ Can(file[p], "start")
      BY <2>2 DEF Actions, Rule, Can, Starts, BeforeInProgress
    <3>4. Sound(parentCopy)
      BY <3>2, <3>3, MovedSound
    <3> HIDE DEF parentCopy
    <3>5. /\ mem'[w].copy = mem[w].copy /\ mem'[w].parentCopy = parentCopy
          /\ mem' = [mem EXCEPT ![w] = mem'[w]]
      BY <1>3, <2>2, <3>1 DEF Memory
    <3>6. Sound(mem[w].copy)
      BY DEF SoundInv
    <3> QED BY <1>2, <3>1, <3>4, <3>5, <3>6
  <2> QED BY <1>5, <2>1, <2>2 DEF ParentSync
<1>6. ASSUME NEW w \in Workers, ValidateParentChain(w) PROVE SoundInv'
  <2>1. CASE UNCHANGED mem \/ Leave(w)
    BY <1>4, <1>6, <2>1 DEF ValidateParentChain
  <2>2. CASE mem' = [mem EXCEPT ![w].cursor = file[mem[w].cursor].parent,
                                ![w].visited = @ \cup {mem[w].cursor}]
    <3>1. /\ mem'[w].copy = mem[w].copy /\ mem'[w].parentCopy = mem[w].parentCopy
          /\ mem' = [mem EXCEPT ![w] = mem'[w]]
      BY <1>3, <2>2 DEF Memory
    <3>2. file' = file /\ Sound(mem[w].copy) /\ Sound(mem[w].parentCopy)
      BY <1>6 DEF ValidateParentChain, SoundInv
    <3> QED BY <1>2, <3>1, <3>2
  <2>3. CASE mem' = [mem EXCEPT ![w].cursor = NoMemory.cursor, ![w].visited = {}]
    <3>1. /\ mem'[w].copy = mem[w].copy /\ mem'[w].parentCopy = mem[w].parentCopy
          /\ mem' = [mem EXCEPT ![w] = mem'[w]]
      BY <1>3, <2>3 DEF Memory
    <3>2. file' = file /\ Sound(mem[w].copy) /\ Sound(mem[w].parentCopy)
      BY <1>6 DEF ValidateParentChain, SoundInv
    <3> QED BY <1>2, <3>1, <3>2
  <2> QED BY <1>6, <2>1, <2>2, <2>3 DEF ValidateParentChain
<1>7. ASSUME NEW w \in Workers, FillFile(w) PROVE SoundInv'
  <2> DEFINE written == Written(w)
  <2>1. Sound(written)
    BY DEF SoundInv, Written
  <2>2. file' = [file EXCEPT ![Target(w)] = written]
    BY <1>7 DEF FillFile
  <2> HIDE DEF written
  <2>3. \A i \in Items : file'[i] = written \/ file'[i] = file[i]
    BY <2>2, Parts DEF FilesOK
  <2>4. \A i \in Items : Sound(file'[i])
    BY <2>1, <2>3 DEF SoundInv
  <2>5. \A v \in Workers :
          \/ mem'[v] = mem[v] \/ mem'[v] = NoMemory
          \/ mem'[v].copy = mem[v].copy /\ mem'[v].parentCopy = Blank
    BY <1>3, <1>7 DEF FillFile, Leave, Memory
  <2> QED BY <1>3, <2>4, <2>5 DEF SoundInv
<1>8. ASSUME NEW w \in Workers, ParentGate(w) \/ OpenFile(w) \/ MoveFile(w) \/ Crash(w)
      PROVE  SoundInv'
  <2>1. file' = file /\ (UNCHANGED mem \/ Leave(w))
    BY <1>8 DEF ParentGate, OpenFile, MoveFile, Crash
  <2> QED BY <1>4, <2>1
<1>9. ASSUME NEW w \in Workers, Command(w) PROVE SoundInv'
  BY <1>2, <1>9, CommandSound
<1> QED BY <1>1, <1>5, <1>6, <1>7, <1>8, <1>9 DEF Next, WorkerStep

\* IInv and SoundInv hold in every reachable state.
THEOREM WorklogInvariant == Spec => [](IInv /\ SoundInv)
<1>1. Init => SoundInv
  <2> SUFFICES ASSUME Init PROVE SoundInv
    OBVIOUS
  <2>1. PICK ready \in SUBSET Items :
          file = [i \in Items |-> [Blank EXCEPT !.parent = FirstParent[i],
                                               !.complete = i \in ready]]
    BY DEF Init
  <2>2. \A i \in Items : file[i].state = "Proposed" /\ file[i].log = <<>>
    BY <2>1 DEF Blank
  <2>3. \A i \in Items : Sound(file[i])
    BY <2>2, NewSound
  <2>4. \A w \in Workers : Sound(mem[w].copy) /\ Sound(mem[w].parentCopy)
    BY NewSound DEF Init, NoMemory, Blank
  <2> QED BY <2>3, <2>4 DEF SoundInv
<1> QED BY <1>1, InitInv, NextInv, SoundStep, PTL DEF Spec

\* However commands overwrite each other's work, the worklog of an item leads from
\* Proposed along the table of the state machine to the state in its frontmatter.
THEOREM LogsExplainStates == Spec => []LogExplainsState
<1>1. SoundInv => LogExplainsState
  BY DEF SoundInv, Sound, Follows, LogExplainsState
<1> QED BY <1>1, WorklogInvariant, PTL

\* An item without the sections of the Ready gate is neither Ready nor in progress
\* by a command that claims the gate, whatever was written between check and write.
THEOREM GatesAlwaysHold == Spec => []GatesHold
<1>1. SoundInv => GatesHold
  BY DEF SoundInv, Sound, GatesHold, CameBy
<1> QED BY <1>1, WorklogInvariant, PTL

-------------------------------------------------------------------------------
(* The worklog of any number of processes.  What one is about to write is a     *)
(* line longer than the file, unless another has written since it was read.     *)

\* Steps at which a command holds a copy that is still to be written, and those
\* at which it holds one of the parent as well.
Reading == Steps \ {"idle", "move"}
InHand == {"openParent", "fillParent"}

Extends(copy, item) == \E line \in Line : copy.log = Append(item.log, line)

CopyInv(w) ==
    /\ pc[w] \in Reading /\ mem[w].item \notin overtaken[w] =>
         Extends(mem[w].copy, file[mem[w].item])
    /\ pc[w] \in InHand /\ mem[w].copy.parent \notin overtaken[w] =>
         Extends(mem[w].parentCopy, file[mem[w].copy.parent])

\* A file that is being written is truncated, by the holder of the receipt lock,
\* and every other copy of it is overtaken.
WriteInv(w) ==
    \A i \in Items : Writing(w, i) =>
        /\ revLock = w /\ i \in torn
        /\ \A v \in Workers \ {w} : Holds(v, i) => i \in overtaken[v]

WorkInv == \A w \in Workers : CopyInv(w) /\ WriteInv(w)

LEMMA MovedExtends ==
  ASSUME NEW item \in Item, NEW a \in Actions, NEW how \in {"plain", "gated", "forced", "auto"}
  PROVE  Extends(Moved(item, a, how), item)
<1> DEFINE line == [from |-> item.state, to |-> Rule[a].to, how |-> how]
<1>1. line \in Line
  BY RuleType DEF Item, Line
<1>2. Moved(item, a, how).log = Append(item.log, line)
  BY DEF Moved, Item
<1> QED BY <1>1, <1>2 DEF Extends

LEMMA NotedExtends ==
  ASSUME NEW item \in Item PROVE Extends(Noted(item), item)
<1> DEFINE line == [from |-> item.state, to |-> item.state, how |-> "note"]
<1>1. line \in Line
  BY DEF Item, Line
<1>2. Noted(item).log = Append(item.log, line)
  BY DEF Noted, Item
<1> QED BY <1>1, <1>2 DEF Extends

\* A log with a line more begins with the log.
LEMMA ExtendsKeeps ==
  ASSUME NEW item \in Item, NEW copy, Extends(copy, item) \/ copy = item
  PROVE  /\ Len(copy.log) >= Len(item.log)
         /\ SubSeq(copy.log, 1, Len(item.log)) = item.log
<1> DEFINE log == item.log
<1>1. log \in Seq(Line) /\ Len(log) \in Nat
  BY LenProperties DEF Item
<1>2. /\ copy.log \in Seq(Line) /\ Len(copy.log) >= Len(log)
      /\ \A n \in 1..Len(log) : copy.log[n] = log[n]
  <2>1. CASE copy = item
    BY <1>1, <2>1
  <2>2. CASE Extends(copy, item)
    <3> PICK line \in Line : copy.log = Append(log, line)
      BY <2>2 DEF Extends
    <3> QED BY <1>1, AppendProperties
  <2> QED BY <2>1, <2>2
<1>3. \A n \in 1..Len(log) : copy.log[n] \in Line
  BY <1>1, <1>2, ElementOfSeq
<1> DEFINE part == SubSeq(copy.log, 1, Len(log))
<1>4. /\ part \in Seq(Line) /\ Len(part) = Len(log)
      /\ \A n \in 1..Len(log) : part[n] = copy.log[n]
  BY <1>1, <1>3, SubSeqProperties
<1> HIDE DEF part, log
<1>5. part = log
  BY <1>1, <1>2, <1>4, SeqEqual
<1> QED BY <1>2, <1>5 DEF part, log

\* What a command takes into memory when it starts.
LEMMA CommandTakes ==
  ASSUME IInv, NEW w \in Workers, Command(w)
  PROVE  /\ pc[w] = "idle" /\ UNCHANGED <<file, present, torn, revLock>>
         /\ pc'[w] \in {"gate", "sync", "walk", "open"}
         /\ mem'[w].item \in Items /\ Readable(mem'[w].item)
         /\ Extends(mem'[w].copy, file[mem'[w].item])
<1> DEFINE Takes(i) == /\ pc[w] = "idle" /\ UNCHANGED <<file, present, torn, revLock>>
                       /\ pc'[w] \in {"gate", "sync", "walk", "open"}
                       /\ mem'[w].item = i /\ Readable(i) /\ Extends(mem'[w].copy, file[i])
<1>1. PICK i \in Items :
        \/ \E new \in Aims, force \in BOOLEAN, sync \in Syncs :
              UpdateState(w, i, new, force, sync)
        \/ \E action \in Actions : Transition(w, i, action)
        \/ \E complete \in BOOLEAN : Note(w, i, complete)
        \/ \E p \in Items \cup {None} : RemapParent(w, i, p)
        \/ Trash(w, i)
  BY DEF Command
<1>2. /\ pc \in [Workers -> Steps] /\ mem \in [Workers -> Memory] /\ file[i] \in Item
  BY Parts DEF FilesOK
<1>3. ASSUME NEW op, NEW copy, Extends(copy, file[i]), Begin(w, op, i, copy, "open")
      PROVE  Takes(i)
  BY <1>2, <1>3 DEF Begin, Goto, NoMemory
<1>4. ASSUME NEW new \in Aims, NEW force \in BOOLEAN, NEW sync \in Syncs,
             UpdateState(w, i, new, force, sync)
      PROVE  Takes(i)
  <2> DEFINE action == ActionFor(file[i].state, new)
             gated == new = "InProgress" /\ ~force
             how == IF gated THEN "gated" ELSE IF new = "InProgress" THEN "forced" ELSE "plain"
             copy == Moved(file[i], action, how)
             s == IF gated /\ file[i].parent # None THEN "gate" ELSE AfterGate(file[i], sync)
  <2>1. new \in States /\ new # "New"
    BY <1>4, InputsAssumption DEF UpdateState
  <2>2. action \in Actions
    BY <1>2, <2>1, ActionForType DEF Item
  <2>3. mem' = [mem EXCEPT ![w] = [NoMemory EXCEPT
                    !.op = "update", !.item = i, !.copy = copy,
                    !.aim = new, !.sync = sync]]
        /\ pc' = [pc EXCEPT ![w] = s] /\ pc[w] = "idle" /\ Readable(i)
        /\ UNCHANGED <<file, present, torn, revLock>>
    BY <1>4 DEF UpdateState, Goto
  <2>4. s \in {"gate", "sync", "open"}
    BY DEF AfterGate
  <2>5. how \in {"plain", "gated", "forced", "auto"}
    OBVIOUS
  <2> HIDE DEF action, how
  <2>6. Extends(copy, file[i])
    BY <1>2, <2>2, <2>5, MovedExtends
  <2> HIDE DEF copy, s
  <2> QED BY <1>2, <2>3, <2>4, <2>6 DEF NoMemory
<1>5. ASSUME NEW a \in Actions, Transition(w, i, a) PROVE Takes(i)
  <2> DEFINE how == IF a = "start" THEN "gated" ELSE "plain"
  <2>1. Begin(w, "transition", i, Moved(file[i], a, how), "open")
    BY <1>5 DEF Transition
  <2>2. how \in {"plain", "gated", "forced", "auto"}
    OBVIOUS
  <2> HIDE DEF how
  <2> QED BY <1>2, <1>3, <2>1, <2>2, MovedExtends
<1>6. ASSUME NEW complete \in BOOLEAN, Note(w, i, complete) PROVE Takes(i)
  <2> DEFINE item == [file[i] EXCEPT !.complete = @ \/ complete]
  <2>1. (file[i].complete \/ complete) \in BOOLEAN
    BY <1>2, Zenon DEF Item
  <2>2. item \in Item /\ item.log = file[i].log
    BY <1>2, <2>1 DEF Item
  <2>3. Begin(w, "note", i, Noted(item), "open")
    BY <1>6 DEF Note
  <2> HIDE DEF item
  <2>4. Extends(Noted(item), file[i])
    BY <2>2, NotedExtends DEF Extends
  <2> QED BY <1>3, <2>3, <2>4
<1>7. ASSUME NEW p \in Items \cup {None}, RemapParent(w, i, p) PROVE Takes(i)
  <2> DEFINE copy == [Noted(file[i]) EXCEPT !.parent = p]
  <2>1. Noted(file[i]) \in Item
    BY <1>2, NotedType
  <2>2. copy.log = Noted(file[i]).log
    BY <2>1 DEF Item
  <2>3. /\ pc[w] = "idle" /\ Readable(i) /\ UNCHANGED <<file, present, torn, revLock>>
        /\ \/ Begin(w, "remap", i, copy, "open")
           \/ /\ pc' = [pc EXCEPT ![w] = "walk"]
              /\ mem' = [mem EXCEPT ![w] = [NoMemory EXCEPT
                       !.op = "remap", !.item = i, !.copy = copy, !.cursor = p]]
    BY <1>7 DEF RemapParent, Begin, Goto
  <2> HIDE DEF copy
  <2>4. Extends(copy, file[i])
    BY <1>2, <2>2, NotedExtends DEF Extends
  <2> QED BY <1>2, <1>3, <2>3, <2>4 DEF NoMemory
<1>8. ASSUME Trash(w, i) PROVE Takes(i)
  BY <1>2, <1>3, <1>8, NotedExtends DEF Trash
<1>9. Takes(i)
  BY <1>1, <1>4, <1>5, <1>6, <1>7, <1>8
<1> QED BY <1>9

\* The parent that is in hand is an item, and not the item itself.
LEMMA OtherItem ==
  ASSUME IInv, NEW w \in Workers, pc[w] \in WithParent
  PROVE  mem[w].copy.parent \in Items /\ mem[w].copy.parent # mem[w].item
<1> DEFINE m == mem[w]
<1>1. m \in Memory /\ WorkerOK(w)
  BY Parts
<1>2. m.item \in Items /\ m.copy.parent \in Items /\ Lawful(m.item, m.copy.parent)
  BY <1>1 DEF WorkerOK, Memory, Item, WithParent
<1>3. \A t \in Types : t \notin AllowedParents[t]
  BY DEF Types, AllowedParents
<1> QED BY <1>2, <1>3, NamesAssumption, HierarchyAssumption DEF Lawful

\* Both writes of a command, and what they put where.
LEMMA FillWrites ==
  ASSUME IInv, NEW w \in Workers, FillFile(w)
  PROVE  \/ /\ pc[w] = "fillParent" /\ pc'[w] = "open"
            /\ mem' = [mem EXCEPT ![w].parentCopy = Blank]
            /\ file' = [file EXCEPT ![mem[w].copy.parent] = mem[w].parentCopy]
         \/ /\ pc[w] = "fill" /\ pc'[w] \in {"idle", "move"}
            /\ file' = [file EXCEPT ![mem[w].item] = mem[w].copy]
  BY Parts DEF FillFile, Target, Written, Leave, Goto

\* A step of w moves no other process.
LEMMA OthersStay ==
  ASSUME IInv, NEW w \in Workers, WorkerStep(w)
  PROVE  \A v \in Workers \ {w} : pc'[v] = pc[v] /\ mem'[v] = mem[v]
<1>1. pc \in [Workers -> Steps] /\ mem \in [Workers -> Memory]
  BY Parts
<1>2. ASSUME NEW v \in Workers \ {w}, Command(w) PROVE pc'[v] = pc[v] /\ mem'[v] = mem[v]
  <2>1. ASSUME NEW op, NEW i, NEW copy, NEW step, Begin(w, op, i, copy, step)
        PROVE  pc'[v] = pc[v] /\ mem'[v] = mem[v]
    BY <1>1, <2>1 DEF Begin, Goto
  <2>2. ASSUME NEW i, NEW new, NEW force, NEW sync, UpdateState(w, i, new, force, sync)
        PROVE  pc'[v] = pc[v] /\ mem'[v] = mem[v]
    BY <1>1, <2>2 DEF UpdateState, Goto
  <2>3. ASSUME NEW i, NEW q, RemapParent(w, i, q) PROVE pc'[v] = pc[v] /\ mem'[v] = mem[v]
    BY <1>1, <2>1, <2>3 DEF RemapParent, Goto
  <2> QED BY <1>2, <2>1, <2>2, <2>3 DEF Command, Transition, Note, Trash
<1> QED
  BY <1>1, <1>2 DEF WorkerStep, ParentGate, ParentSync, ValidateParentChain, OpenFile,
                    FillFile, MoveFile, Crash, Leave, Goto

\* A copy stays overtaken while it is held, and a write that begins overtakes the
\* copies of all others.
LEMMA Remembered ==
  ASSUME NEW v \in Workers, NEW i \in Items, Witness, Holds(v, i)'
  PROVE  /\ Holds(v, i) /\ i \in overtaken[v] => i \in overtaken'[v]
         /\ \A w \in Workers \ {v} : Writing(w, i)' /\ ~Writing(w, i) => i \in overtaken'[v]
  BY DEF Witness

\* At most one process writes, and nobody holds a fresh copy of what it writes.
LEMMA WriteStep ==
  ASSUME IInv, WorkInv, NEW w \in Workers, WorkerStep(w), Witness
  PROVE  \A v \in Workers : WriteInv(v)'
<1>1. pc \in [Workers -> Steps] /\ mem \in [Workers -> Memory]
  BY Parts
<1>2. \A v \in Workers \ {w} :
        /\ pc'[v] = pc[v] /\ mem'[v] = mem[v]
        /\ \A i \in Items : (Writing(v, i)' <=> Writing(v, i)) /\ (Holds(v, i)' <=> Holds(v, i))
  <2> TAKE v \in Workers \ {w}
  <2>1. pc'[v] = pc[v] /\ mem'[v] = mem[v]
    BY OthersStay
  <2> QED BY <2>1 DEF Writing, Target, Holds
<1>3. \A i \in Items : Holds(w, i)' => pc'[w] # "idle"
  BY DEF Holds
\* What w writes after the step.
<1>4. WriteInv(w)'
  <2> SUFFICES ASSUME NEW i \in Items, Writing(w, i)'
               PROVE  /\ revLock' = w /\ i \in torn'
                      /\ \A v \in Workers \ {w} : Holds(v, i)' => i \in overtaken'[v]
    BY DEF WriteInv
  <2>1. OpenFile(w) /\ Target(w) = i
    <3>1. pc'[w] \in {"fill", "fillParent"}
      BY DEF Writing
    <3>2. ~Command(w)
      BY <3>1, CommandTakes
    <3>3. OpenFile(w)
      BY <1>1, <3>1, <3>2 DEF WorkerStep, ParentGate, ParentSync, ValidateParentChain,
                             FillFile, MoveFile, Crash, Leave, Goto, AfterGate
    <3>4. Target(w)' = Target(w)
      BY <1>1, <3>3 DEF OpenFile, Goto, Target
    <3> QED BY <3>3, <3>4 DEF Writing
  <2>2. ~Writing(w, i)
    BY <2>1 DEF OpenFile, Writing
  <2>3. ASSUME NEW v \in Workers \ {w}, Holds(v, i)' PROVE i \in overtaken'[v]
    BY <2>2, <2>3, Remembered
  <2> QED BY <2>1, <2>3 DEF OpenFile
\* What another writes meanwhile: the lock is not w's, and w cannot read the file.
<1>5. ASSUME NEW u \in Workers \ {w} PROVE WriteInv(u)'
  <2> SUFFICES ASSUME NEW i \in Items, Writing(u, i)
               PROVE  /\ revLock' = u /\ i \in torn'
                      /\ \A v \in Workers \ {u} : Holds(v, i)' => i \in overtaken'[v]
    BY <1>2 DEF WriteInv
  <2>1. /\ revLock = u /\ i \in torn
        /\ \A v \in Workers \ {u} : Holds(v, i) => i \in overtaken[v]
    BY DEF WorkInv, WriteInv
  <2>2. ~OpenFile(w) /\ ~FillFile(w) /\ ~MoveFile(w)
    <3>1. revLock \notin {Nobody, w}
      BY <2>1, NamesAssumption
    <3>2. ~FillFile(w)
      <4> SUFFICES ASSUME FillFile(w) PROVE FALSE
        OBVIOUS
      <4>1. Target(w) \in Items
        BY Parts DEF FillFile, Target, Memory, Item, WorkerOK, WithParent
      <4>2. Writing(w, Target(w))
        BY DEF FillFile, Writing
      <4> QED BY <3>1, <4>1, <4>2 DEF WorkInv, WriteInv
    <3> QED BY <3>1, <3>2 DEF OpenFile, MoveFile
  <2>3. UNCHANGED <<torn, revLock>>
    BY <2>1, <2>2, CommandTakes DEF WorkerStep, ParentGate, ParentSync, ValidateParentChain, Crash
  <2>4. ASSUME NEW v \in Workers \ {u, w}, Holds(v, i)' PROVE i \in overtaken'[v]
    <3>1. Holds(v, i)
      BY <1>2, <2>4
    <3> QED BY <2>1, <2>4, <3>1, Remembered
  <2>5. ASSUME Holds(w, i)' PROVE i \in overtaken'[w]
    <3>1. ~Command(w)
      <4> SUFFICES ASSUME Command(w) PROVE FALSE
        OBVIOUS
      <4>1. mem'[w].item # i /\ pc'[w] \notin InHand
        BY <2>1, CommandTakes DEF Readable, InHand
      <4> QED BY <2>5, <4>1 DEF Holds, InHand
    <3>2. pc'[w] # "idle"
      BY <1>3, <2>5
    <3>3. CASE ParentSync(w)
      <4>1. pc[w] = "sync" /\ mem[w].copy.parent # mem[w].item
        BY <3>3, OtherItem DEF ParentSync, WithParent
      <4>2. /\ mem'[w].item = mem[w].item /\ mem'[w].copy = mem[w].copy
            /\ pc'[w] = "openParent" \/ pc'[w] = "open"
            /\ pc'[w] = "openParent" => Readable(mem[w].copy.parent)
        BY <1>1, <3>2, <3>3 DEF ParentSync, Leave, Goto, Memory
      <4>3. i # mem[w].copy.parent
        BY <2>1, <2>5, <4>1, <4>2 DEF Holds, Readable
      <4>4. Holds(w, i)
        BY <2>5, <4>1, <4>2, <4>3 DEF Holds, Steps
      <4> QED BY <2>1, <2>5, <4>4, Remembered
    <3>4. CASE ParentGate(w) \/ ValidateParentChain(w)
      <4>1. /\ pc[w] \in {"gate", "walk"} /\ pc'[w] \notin InHand
            /\ mem'[w].item = mem[w].item
        BY <1>1, <3>2, <3>4 DEF ParentGate, ValidateParentChain, Leave, Goto, AfterGate, InHand, Memory
      <4>2. Holds(w, i)
        BY <2>5, <4>1 DEF Holds, Steps, InHand
      <4> QED BY <2>1, <2>5, <4>2, Remembered
    <3>5. ~Crash(w)
      BY <1>1, <3>2 DEF Crash, Leave, Goto
    <3> QED BY <2>2, <3>1, <3>3, <3>4, <3>5 DEF WorkerStep
  <2>6. \A v \in Workers \ {u} : Holds(v, i)' => i \in overtaken'[v]
    BY <2>4, <2>5
  <2> QED BY <2>1, <2>3, <2>6
<1> QED BY <1>4, <1>5

\* A write of w leaves every copy of the file that another holds overtaken.
LEMMA FillKnown ==
  ASSUME IInv, WorkInv, NEW w \in Workers, FillFile(w)
  PROVE  /\ Target(w) \in Items /\ Writing(w, Target(w)) /\ Target(w) \in torn /\ revLock = w
         /\ \A i \in Items : i # Target(w) => file'[i] = file[i]
         /\ file'[Target(w)] = Written(w)
         /\ \A v \in Workers \ {w} : Holds(v, Target(w)) => Target(w) \in overtaken[v]
<1>1. Target(w) \in Items
  BY Parts DEF FillFile, Target, Memory, Item, WorkerOK, WithParent
<1>2. Writing(w, Target(w))
  BY DEF FillFile, Writing
<1>3. /\ \A i \in Items : i # Target(w) => file'[i] = file[i]
      /\ file'[Target(w)] = Written(w)
  BY <1>1, Parts DEF FillFile, FilesOK
<1> QED BY <1>1, <1>2, <1>3 DEF WorkInv, WriteInv

LEMMA FilesWritten ==
  ASSUME IInv, NEW w \in Workers, WorkerStep(w), ~FillFile(w)
  PROVE  file' = file
  BY CommandTakes DEF WorkerStep, ParentGate, ParentSync, ValidateParentChain, OpenFile, MoveFile, Crash

\* A copy that nobody has overtaken is a line longer than the file.
LEMMA CopyStep ==
  ASSUME IInv, WorkInv, NEW w \in Workers, WorkerStep(w), Witness
  PROVE  \A v \in Workers : CopyInv(v)'
<1>1. /\ pc \in [Workers -> Steps] /\ mem \in [Workers -> Memory] /\ file \in [Items -> Item]
      /\ mem[w] \in Memory
  BY Parts DEF FilesOK
<1>2. ASSUME NEW v \in Workers \ {w} PROVE CopyInv(v)'
  <2>1. pc'[v] = pc[v] /\ mem'[v] = mem[v] /\ WorkerOK(v) /\ mem[v] \in Memory
    BY Parts, OthersStay
  <2>2. \A i \in Items : Holds(v, i) /\ i \notin overtaken'[v] => i \notin overtaken[v] /\ file'[i] = file[i]
    <3> SUFFICES ASSUME NEW i \in Items, Holds(v, i), i \notin overtaken'[v]
                 PROVE  i \notin overtaken[v] /\ file'[i] = file[i]
      OBVIOUS
    <3>1. Holds(v, i)'
      BY <2>1 DEF Holds
    <3>2. i \notin overtaken[v]
      BY <3>1, Remembered
    <3> QED BY <3>2, FillKnown, FilesWritten
  <2>3. /\ mem[v].item \in Items
        /\ pc[v] \in InHand => mem[v].copy.parent \in Items
    BY <2>1 DEF WorkerOK, Memory, Item, WithParent, InHand
  <2> QED BY <2>1, <2>2, <2>3 DEF CopyInv, Holds, Reading, Steps, InHand, WorkInv
<1>3. CopyInv(w)'
  <2>1. CASE Command(w)
    <3>1. pc'[w] \notin InHand
      BY <2>1, CommandTakes DEF InHand
    <3> QED BY <2>1, <3>1, CommandTakes DEF CopyInv
  <2>2. ASSUME pc'[w] \in {"idle", "move"} PROVE CopyInv(w)'
    BY <2>2 DEF CopyInv, Reading, Steps, InHand
  <2>3. CopyInv(w) /\ mem[w].item \in Items
    BY <1>1 DEF WorkInv, Memory
  <2>4. ASSUME UNCHANGED file, mem'[w].item = mem[w].item, mem'[w].copy = mem[w].copy,
               pc'[w] \in InHand => mem'[w].parentCopy = mem[w].parentCopy,
               pc[w] \in Reading, pc'[w] \in Reading, pc'[w] \in InHand => pc[w] \in InHand
        PROVE  CopyInv(w)'
    <3>1. pc[w] \in InHand => mem[w].copy.parent \in Items
      BY OtherItem DEF InHand, WithParent
    <3>2. \A i \in {mem[w].item} \cup (IF pc'[w] \in InHand THEN {mem[w].copy.parent} ELSE {}) :
            Holds(w, i) /\ Holds(w, i)' /\ i \in Items
      BY <2>3, <2>4, <3>1 DEF Holds, Reading, Steps, InHand
    <3>3. \A i \in {mem[w].item} \cup (IF pc'[w] \in InHand THEN {mem[w].copy.parent} ELSE {}) :
            i \notin overtaken'[w] => i \notin overtaken[w]
      BY <3>2, Remembered
    <3> QED BY <2>3, <2>4, <3>3 DEF CopyInv
  <2>5. CASE ParentGate(w)
    BY <1>1, <2>2, <2>4, <2>5 DEF ParentGate, Goto, Leave, AfterGate, Reading, Steps, InHand
  <2>6. CASE ParentSync(w)
    <3> DEFINE p == mem[w].copy.parent
    <3>1. pc[w] = "sync" /\ UNCHANGED file /\ p \in Items /\ p # mem[w].item
      BY <2>6, OtherItem DEF ParentSync, WithParent
    <3>2. CASE Leave(w)
      BY <1>1, <2>2, <3>2 DEF Goto, Leave
    <3>3. ASSUME pc'[w] \in {"open", "openParent"}, mem'[w].item = mem[w].item,
                 mem[w].item \notin overtaken'[w]
          PROVE  Extends(mem[w].copy, file[mem[w].item])
      <4>1. mem[w].item \notin overtaken[w]
        <5>1. Holds(w, mem[w].item) /\ Holds(w, mem[w].item)'
          BY <3>1, <3>3 DEF Holds, Steps
        <5> QED BY <2>3, <3>3, <5>1, Remembered
      <4> QED BY <2>3, <3>1, <4>1 DEF CopyInv, Reading, Steps
    <3>4. CASE Goto(w, "open") /\ UNCHANGED mem
      <4>1. pc'[w] = "open"
        BY <1>1, <3>4 DEF Goto
      <4> QED BY <3>1, <3>3, <3>4, <4>1 DEF CopyInv, Reading, Steps, InHand
    <3>5. CASE /\ Goto(w, "openParent")
               /\ mem' = [mem EXCEPT ![w].parentCopy = Moved(file[p], "start", "auto")]
      <4>1. /\ pc'[w] = "openParent" /\ mem'[w].copy = mem[w].copy
            /\ mem'[w].item = mem[w].item /\ mem'[w].parentCopy = Moved(file[p], "start", "auto")
        BY <1>1, <3>5 DEF Goto, Memory
      <4>2. "start" \in Actions
        BY DEF Actions, Rule
      <4>3. Extends(Moved(file[p], "start", "auto"), file[p])
        BY <1>1, <3>1, <4>2, MovedExtends
      <4> QED BY <3>1, <3>3, <4>1, <4>3 DEF CopyInv, Reading, Steps, InHand
    <3> QED BY <2>6, <3>2, <3>4, <3>5 DEF ParentSync
  <2>7. CASE ValidateParentChain(w)
    <3>1. CASE Leave(w)
      BY <1>1, <2>2, <3>1 DEF Goto, Leave
    <3>2. CASE /\ Goto(w, "open")
               /\ mem' = [mem EXCEPT ![w].cursor = NoMemory.cursor, ![w].visited = {}]
      <4>1. /\ pc[w] = "walk" /\ pc'[w] = "open" /\ UNCHANGED file /\ mem'[w].copy = mem[w].copy
            /\ mem'[w].item = mem[w].item
        BY <1>1, <2>7, <3>2 DEF ValidateParentChain, Goto, Memory
      <4> QED BY <2>4, <4>1 DEF Reading, Steps, InHand
    <3>3. CASE /\ UNCHANGED pc
               /\ mem' = [mem EXCEPT ![w].cursor = file[mem[w].cursor].parent,
                                     ![w].visited = @ \cup {mem[w].cursor}]
      <4>1. /\ pc[w] = "walk" /\ UNCHANGED file /\ mem'[w].copy = mem[w].copy
            /\ mem'[w].item = mem[w].item /\ mem'[w].parentCopy = mem[w].parentCopy
        BY <1>1, <2>7, <3>3 DEF ValidateParentChain, Memory
      <4> QED BY <2>4, <3>3, <4>1 DEF Reading, Steps, InHand
    <3> QED BY <2>7, <3>1, <3>2, <3>3 DEF ValidateParentChain
  <2>8. CASE OpenFile(w)
    BY <1>1, <2>4, <2>8 DEF OpenFile, Goto, Reading, Steps, InHand
  <2>9. CASE FillFile(w)
    <3>1. CASE pc'[w] \in {"idle", "move"}
      BY <2>2, <3>1
    <3>2. CASE /\ pc[w] = "fillParent" /\ pc'[w] = "open"
               /\ mem' = [mem EXCEPT ![w].parentCopy = Blank]
               /\ file' = [file EXCEPT ![mem[w].copy.parent] = mem[w].parentCopy]
      <4>1. mem[w].copy.parent # mem[w].item
        BY <3>2, OtherItem DEF WithParent
      <4>2. file'[mem[w].item] = file[mem[w].item]
        BY <1>1, <3>2, <4>1 DEF Memory
      <4>3. mem'[w].item = mem[w].item /\ mem'[w].copy = mem[w].copy
        BY <1>1, <3>2 DEF Memory
      <4>4. Holds(w, mem[w].item) /\ Holds(w, mem[w].item)'
        BY <3>2, <4>3 DEF Holds, Steps
      <4>5. mem[w].item \notin overtaken'[w] => mem[w].item \notin overtaken[w]
        BY <2>3, <4>3, <4>4, Remembered
      <4>6. pc[w] \in Reading /\ pc'[w] \notin InHand
        BY <3>2 DEF Reading, Steps, InHand
      <4> QED BY <2>3, <4>2, <4>3, <4>5, <4>6 DEF CopyInv
    <3> QED BY <2>9, <3>1, <3>2, FillWrites
  <2>10. CASE MoveFile(w) \/ Crash(w)
    BY <1>1, <2>2, <2>10 DEF MoveFile, Crash, Leave, Goto
  <2> QED BY <2>1, <2>5, <2>6, <2>7, <2>8, <2>9, <2>10 DEF WorkerStep
<1> QED BY <1>2, <1>3

LEMMA WorkStep == IInv /\ WorkInv /\ [Next]_vars => WorkInv'
<1>1. UNCHANGED vars /\ WorkInv => WorkInv'
  BY DEF vars, WorkInv, CopyInv, WriteInv, Writing, Target, Holds
<1>2. ASSUME IInv, WorkInv, NEW w \in Workers, WorkerStep(w), Witness PROVE WorkInv'
  BY <1>2, WriteStep, CopyStep DEF WorkInv
<1> QED BY <1>1, <1>2 DEF Next

\* A log begins with itself and with the empty log.
LEMMA LogPrefix ==
  ASSUME NEW log \in Seq(Line)
  PROVE  /\ Len(log) >= Len(log) /\ SubSeq(log, 1, Len(log)) = log
         /\ Len(log) >= Len(<<>>) /\ SubSeq(log, 1, Len(<<>>)) = <<>>
<1>1. Len(log) \in Nat /\ \A n \in 1..Len(log) : log[n] \in Line
  BY LenProperties, ElementOfSeq
<1> DEFINE part == SubSeq(log, 1, Len(log))
<1>2. part \in Seq(Line) /\ Len(part) = Len(log) /\ \A n \in 1..Len(log) : part[n] = log[n]
  BY <1>1, SubSeqProperties
<1> HIDE DEF part
<1>3. part = log
  BY <1>1, <1>2, SeqEqual
<1>4. Len(<<>>) = 0 /\ SubSeq(log, 1, 0) = <<>>
  BY EmptySeq, SubSeqProperties
<1> QED BY <1>1, <1>3, <1>4 DEF part

\* What a process writes, and hence the worklog of an item, is a log.
LEMMA WorklogType ==
  ASSUME IInv, NEW i \in Items
  PROVE  Worklog(i) \in Seq(Line)
<1>1. \A w \in Workers : Written(w) \in Item
  BY Parts DEF Written, Memory
<1>2. file[i] \in Item /\ <<>> \in Seq(Line)
  BY Parts, EmptySeq DEF FilesOK
<1> QED BY <1>1, <1>2 DEF Worklog, Item

\* The two ways in which lines go.
Dies(i) == \E w \in Workers : Writing(w, i) /\ pc'[w] = "idle" /\ i \in torn'
Overwrites(i) == \E w \in Workers : Writing(w, i)' /\ ~Writing(w, i) /\ i \in overtaken[w]

LEMMA LogsGrow ==
  ASSUME IInv, IInv', WorkInv, NEW w \in Workers, WorkerStep(w), Witness, NEW i \in Items
  PROVE  \/ /\ Len(Worklog(i)') >= Len(Worklog(i))
            /\ SubSeq(Worklog(i)', 1, Len(Worklog(i))) = Worklog(i)
         \/ Dies(i) \/ Overwrites(i)
<1> DEFINE Grows == /\ Len(Worklog(i)') >= Len(Worklog(i))
                    /\ SubSeq(Worklog(i)', 1, Len(Worklog(i))) = Worklog(i)
<1>1. /\ pc \in [Workers -> Steps] /\ mem \in [Workers -> Memory] /\ file \in [Items -> Item]
  BY Parts DEF FilesOK
<1>2. ASSUME Worklog(i)' = Worklog(i) \/ Worklog(i) = <<>> PROVE Grows
  <2>1. Worklog(i)' \in Seq(Line)
    <3>1. \A u \in Workers : Written(u)' \in Item
      BY DEF IInv, Typed, Written, Memory
    <3>2. file'[i] \in Item /\ <<>> \in Seq(Line)
      BY EmptySeq DEF IInv, Typed
    <3> QED BY <3>1, <3>2 DEF Worklog, Item
  <2>2. Worklog(i) \in Seq(Line)
    BY WorklogType
  <2> QED BY <1>2, <2>1, <2>2, LogPrefix
<1>3. CASE OpenFile(w) /\ Target(w) = i /\ i \notin torn
  <2>1. /\ Writing(w, i)' /\ ~Writing(w, i) /\ revLock' = w /\ i \in torn'
    BY <1>1, <1>3 DEF OpenFile, Goto, Writing, Target
  <2>2. Worklog(i)' = Written(w)'.log /\ Worklog(i) = file[i].log
    BY <1>3, <2>1 DEF Worklog
  <2>3. CASE i \in overtaken[w]
    BY <2>1, <2>3 DEF Overwrites
  <2>4. CASE i \notin overtaken[w]
    <3>1. CopyInv(w) /\ file[i] \in Item
      BY <1>1 DEF WorkInv
    <3>2. Written(w)' = IF pc[w] = "open" THEN mem[w].copy ELSE mem[w].parentCopy
      BY <1>1, <1>3 DEF Written, OpenFile, Goto
    <3>3. Extends(Written(w)', file[i])
      <4>1. CASE pc[w] = "open"
        <5>1. i = mem[w].item /\ pc[w] \in Reading
          BY <1>3, <4>1 DEF Target, Reading, Steps
        <5> QED BY <2>4, <3>1, <3>2, <4>1, <5>1 DEF CopyInv
      <4>2. CASE pc[w] = "openParent"
        <5>1. i = mem[w].copy.parent /\ pc[w] \in InHand
          BY <1>3, <4>2 DEF Target, InHand
        <5> QED BY <2>4, <3>1, <3>2, <4>2, <5>1 DEF CopyInv
      <4> QED BY <1>3, <4>1, <4>2 DEF OpenFile
    <3> HIDE DEF Grows
    <3>4. /\ Len(Written(w)'.log) >= Len(file[i].log)
          /\ SubSeq(Written(w)'.log, 1, Len(file[i].log)) = file[i].log
      BY <3>1, <3>3, ExtendsKeeps
    <3> QED BY <2>2, <3>4 DEF Grows
  <2> QED BY <2>3, <2>4
<1>4. CASE FillFile(w) /\ Target(w) = i
  <2>1. Writing(w, i) /\ revLock = w /\ i \in torn /\ file'[i] = Written(w)
    BY <1>4, FillKnown
  <2>2. i \notin torn'
    BY <1>4 DEF FillFile
  <2>3. Worklog(i)' = Worklog(i)
    BY <2>1, <2>2 DEF Worklog
  <2> QED BY <1>2, <2>3
<1>5. CASE ~(FillFile(w) /\ Target(w) = i) /\ i \notin torn /\ ~(OpenFile(w) /\ Target(w) = i)
  <2>1. i \notin torn'
    BY <1>5, CommandTakes DEF WorkerStep, ParentGate, ParentSync, ValidateParentChain, OpenFile,
                              FillFile, MoveFile, Crash
  <2>2. file'[i] = file[i]
    BY <1>5, FillKnown, FilesWritten
  <2> QED BY <1>2, <1>5, <2>1, <2>2 DEF Worklog
<1>6. CASE i \in torn /\ ~(FillFile(w) /\ Target(w) = i)
  <2>1. CASE ~(revLock \in Workers /\ Writing(revLock, i))
    BY <1>2, <1>6, <2>1 DEF Worklog
  <2>2. CASE revLock \in Workers /\ Writing(revLock, i)
    <3> DEFINE u == revLock
    <3>1. revLock # Nobody
      BY <2>2, NamesAssumption
    <3>2. ~OpenFile(w) /\ ~MoveFile(w)
      BY <3>1 DEF OpenFile, MoveFile
    <3>3. CASE u = w
      <4>1. pc[w] \in {"fill", "fillParent"} /\ Target(w) = i
        BY <2>2, <3>3 DEF Writing
      <4>2. Crash(w)
        BY <1>6, <3>2, <4>1, CommandTakes DEF WorkerStep, ParentGate, ParentSync, ValidateParentChain
      <4>3. pc'[w] = "idle" /\ i \in torn'
        BY <1>1, <1>6, <4>2 DEF Crash, Leave, Goto
      <4> QED BY <2>2, <3>3, <4>3 DEF Dies
    <3>4. CASE u # w
      <4>1. ~FillFile(w)
        BY <3>4, FillKnown
      <4>2. revLock' = u /\ i \in torn'
        BY <1>6, <3>2, <3>4, <4>1, CommandTakes DEF WorkerStep, ParentGate, ParentSync,
                                                    ValidateParentChain, Crash
      <4>3. pc'[u] = pc[u] /\ mem'[u] = mem[u]
        BY <2>2, <3>4, OthersStay
      <4>4. (Writing(u, i) <=> pc[u] \in {"fill", "fillParent"} /\ Target(u) = i)
        BY DEF Writing
      <4>5. Worklog(i) = Written(u).log
        BY <1>6, <2>2 DEF Worklog
      <4>6. Worklog(i)' = (IF pc[u] = "fill" THEN mem[u].copy ELSE mem[u].parentCopy).log
        BY <2>2, <4>2, <4>3 DEF Worklog, Writing, Target, Written
      <4> QED BY <1>2, <4>5, <4>6 DEF Written
    <3> QED BY <3>3, <3>4
  <2> QED BY <2>1, <2>2
<1> QED BY <1>3, <1>4, <1>5, <1>6

\* Of any number of processes, that may die anywhere: no line of a worklog is
\* changed or lost except where a process dies between truncating the file and
\* filling it, or writes a copy that another process's write has overtaken.
THEOREM WorklogsOnlyGrow == Spec => WorklogAppendOnly
<1>1. Init => WorkInv
  BY DEF Init, WorkInv, CopyInv, WriteInv, Writing, Reading, Steps, InHand
<1>2. IInv /\ IInv' /\ WorkInv /\ [Next]_vars =>
        [\A i \in Items :
            \/ /\ Len(Worklog(i)') >= Len(Worklog(i))
               /\ SubSeq(Worklog(i)', 1, Len(Worklog(i))) = Worklog(i)
            \/ \E w \in Workers : Writing(w, i) /\ pc'[w] = "idle" /\ i \in torn'
            \/ \E w \in Workers : Writing(w, i)' /\ ~Writing(w, i) /\ i \in overtaken[w]]_vars
  BY LogsGrow DEF Next, Dies, Overwrites
<1> QED BY <1>1, <1>2, LifecycleInvariant, NextInv, WorkStep, PTL DEF Spec, WorklogAppendOnly

-------------------------------------------------------------------------------
(* Parent sync, in one process at a time whose commands all sync: a parent that *)
(* has been started never goes back, and when the child is written it has been. *)

Alone == \A v, w \in Workers : v = w

Active == {"InProgress", "Review", "Blocked"}
Synced == /\ Commands \cap {"transition", "remap"} = {}
          /\ Syncs \subseteq {TRUE}

\* What a command is about to write, seen from the file it will replace: the
\* parent is the same, an item that has started stays so, and an item that becomes
\* active has a started parent by the time its file is opened.
FollowInv(w) ==
    LET m == mem[w]
        old == file[m.item]
        p == m.copy.parent
    IN
    pc[w] \in Reading =>
        /\ pc[w] # "walk"
        /\ p = old.parent
        /\ m.copy.state \in BeforeInProgress => old.state \in BeforeInProgress
        /\ \/ /\ m.op = "update" /\ m.sync
              /\ m.copy.state \in Active => m.aim \in Active
              /\ pc[w] \in {"open", "fill"} /\ p # None /\ m.copy.state \in Active =>
                     file[p].state \notin BeforeInProgress
           \/ /\ m.op # "update" /\ pc[w] \in {"open", "fill"}
              /\ m.copy.state = old.state
              /\ CameBy(old.log, "auto") => CameBy(m.copy.log, "auto")
        /\ pc[w] \in InHand =>
              m.parentCopy.state = "InProgress" /\ CameBy(m.parentCopy.log, "auto")

\* The last change of a log that ends with a change, and of one that ends with a
\* note.
LEMMA LastChange ==
  ASSUME NEW log \in Seq(Line), NEW line \in Line, NEW how
  PROVE  /\ line.how = how => CameBy(Append(log, line), how)
         /\ line.how = "note" /\ CameBy(log, how) => CameBy(Append(log, line), how)
<1> DEFINE new == Append(log, line)
           last == Len(log) + 1
<1>1. Len(log) \in Nat /\ DOMAIN log = 1..Len(log)
  BY LenProperties
<1>2. /\ DOMAIN new = 1..last /\ new[last] = line
      /\ \A n \in 1..Len(log) : new[n] = log[n]
  BY <1>1, AppendProperties, LenProperties
<1> HIDE DEF new
<1>3. ASSUME line.how = how PROVE CameBy(new, how)
  <2>1. last \in DOMAIN new /\ \A k \in DOMAIN new : ~(k > last)
    BY <1>1, <1>2
  <2> QED BY <1>2, <1>3, <2>1 DEF CameBy
<1>4. ASSUME line.how = "note", CameBy(log, how) PROVE CameBy(new, how)
  <2>1. PICK n \in DOMAIN log : log[n].how = how /\ \A k \in DOMAIN log : k > n => log[k].how = "note"
    BY <1>4 DEF CameBy
  <2>2. n \in DOMAIN new /\ new[n].how = how
    BY <1>1, <1>2, <2>1
  <2>3. \A k \in DOMAIN new : k \in DOMAIN log \/ k = last
    BY <1>1, <1>2
  <2>4. \A k \in DOMAIN new : k > n => new[k].how = "note"
    BY <1>1, <1>2, <1>4, <2>1, <2>3
  <2> QED BY <2>2, <2>4 DEF CameBy
<1> QED BY <1>3, <1>4 DEF new

\* No transition leads back to before the start, and only those that parent sync
\* is told of lead to an active state.
LEMMA Onwards ==
  /\ \A a \in Actions : Rule[a].to \in BeforeInProgress => Rule[a].from \subseteq BeforeInProgress
  /\ \A old, new \in States : new # "New" /\ Rule[ActionFor(old, new)].to \in Active => new \in Active
  BY DEF Actions, Rule, BeforeInProgress, ActionFor, States, Active

\* A command of those that sync, when it starts.
LEMMA CommandFollows ==
  ASSUME IInv, Synced, NEW w \in Workers, Command(w)
  PROVE  FollowInv(w)' /\ file' = file
<1>1. PICK i \in Items :
        \/ \E new \in Aims, force \in BOOLEAN, sync \in Syncs :
              UpdateState(w, i, new, force, sync)
        \/ \E action \in Actions : Transition(w, i, action)
        \/ \E complete \in BOOLEAN : Note(w, i, complete)
        \/ \E p \in Items \cup {None} : RemapParent(w, i, p)
        \/ Trash(w, i)
  BY DEF Command
<1>2. /\ pc \in [Workers -> Steps] /\ mem \in [Workers -> Memory] /\ file[i] \in Item
  BY Parts DEF FilesOK
<1>3. ASSUME NEW op \in {"note", "trash"}, NEW item \in Item, Begin(w, op, i, Noted(item), "open"),
             item.parent = file[i].parent, item.state = file[i].state, item.log = file[i].log
      PROVE  FollowInv(w)' /\ file' = file
  <2> DEFINE line == [from |-> item.state, to |-> item.state, how |-> "note"]
  <2>1. /\ file' = file /\ pc'[w] = "open" /\ mem'[w].item = i /\ mem'[w].copy = Noted(item)
        /\ mem'[w].op # "update"
    BY <1>2, <1>3 DEF Begin, Goto, NoMemory
  <2>2. line \in Line /\ line.how = "note"
    BY <1>3 DEF Item, Line
  <2>3. /\ Noted(item).state = file[i].state /\ Noted(item).parent = file[i].parent
        /\ Noted(item).log = Append(file[i].log, line)
    BY <1>3 DEF Noted, Item
  <2>4. file[i].log \in Seq(Line)
    BY <1>2 DEF Item
  <2> HIDE DEF line
  <2>5. CameBy(file[i].log, "auto") => CameBy(Noted(item).log, "auto")
    BY <2>2, <2>3, <2>4, LastChange
  <2> QED BY <2>1, <2>3, <2>5 DEF FollowInv, InHand
<1>4. ASSUME NEW new \in Aims, NEW force \in BOOLEAN, NEW sync \in Syncs,
             UpdateState(w, i, new, force, sync)
      PROVE  FollowInv(w)' /\ file' = file
  <2> DEFINE action == ActionFor(file[i].state, new)
             gated == new = "InProgress" /\ ~force
             how == IF gated THEN "gated" ELSE IF new = "InProgress" THEN "forced" ELSE "plain"
             copy == Moved(file[i], action, how)
             s == IF gated /\ file[i].parent # None THEN "gate" ELSE AfterGate(file[i], sync)
  <2>1. new \in States /\ new # "New" /\ sync = TRUE /\ file[i].state \in States
    BY <1>2, <1>4, InputsAssumption DEF UpdateState, Synced, Item
  <2>2. action \in Actions /\ Can(file[i], action)
    BY <1>4, <2>1, ActionForType DEF UpdateState
  <2>3. mem' = [mem EXCEPT ![w] = [NoMemory EXCEPT
                    !.op = "update", !.item = i, !.copy = copy,
                    !.aim = new, !.sync = sync]] /\ file' = file
        /\ pc' = [pc EXCEPT ![w] = s]
    BY <1>4 DEF UpdateState, Goto
  <2>4. s \in {"gate", "sync", "open"} /\ (s = "open" => file[i].parent = None)
    BY <2>1 DEF AfterGate
  <2>5. how \in {"plain", "gated", "forced", "auto"}
    OBVIOUS
  <2>6. copy.state = Rule[action].to /\ copy.parent = file[i].parent
    BY <1>2 DEF Moved, Item
  <2>7. /\ copy.state \in BeforeInProgress => file[i].state \in BeforeInProgress
        /\ copy.state \in Active => new \in Active
    BY <2>1, <2>2, <2>6, Onwards DEF Can
  <2> HIDE DEF action, how, copy, s
  <2>8. /\ pc'[w] = s /\ mem'[w].item = i /\ mem'[w].copy = copy /\ mem'[w].aim = new
        /\ mem'[w].sync /\ mem'[w].op = "update"
    BY <1>2, <2>1, <2>3 DEF NoMemory
  <2> QED BY <2>3, <2>4, <2>6, <2>7, <2>8 DEF FollowInv, InHand
<1>5. ASSUME NEW complete \in BOOLEAN, Note(w, i, complete) PROVE FollowInv(w)' /\ file' = file
  <2> DEFINE item == [file[i] EXCEPT !.complete = @ \/ complete]
  <2>1. (file[i].complete \/ complete) \in BOOLEAN
    BY <1>2, Zenon DEF Item
  <2>2. /\ item \in Item /\ item.log = file[i].log /\ item.parent = file[i].parent
        /\ item.state = file[i].state
    BY <1>2, <2>1 DEF Item
  <2>3. Begin(w, "note", i, Noted(item), "open")
    BY <1>5 DEF Note
  <2> HIDE DEF item
  <2> QED BY <1>3, <2>2, <2>3
<1>6. ASSUME Trash(w, i) PROVE FollowInv(w)' /\ file' = file
  BY <1>2, <1>3, <1>6 DEF Trash
<1>7. ASSUME NEW a \in Actions, Transition(w, i, a) PROVE FALSE
  BY <1>7 DEF Transition, Begin, Synced
<1>8. ASSUME NEW p \in Items \cup {None}, RemapParent(w, i, p) PROVE FALSE
  BY <1>8 DEF RemapParent, Begin, Synced
<1> QED BY <1>1, <1>4, <1>5, <1>6, <1>7, <1>8

LEMMA FollowStep ==
  ASSUME IInv, Alone, Synced, \A w \in Workers : FollowInv(w), [Next]_vars
  PROVE  (\A w \in Workers : FollowInv(w))'
<1> SUFFICES ASSUME NEW w \in Workers PROVE FollowInv(w)'
  OBVIOUS
<1>1. CASE UNCHANGED vars
  BY <1>1 DEF vars, FollowInv
<1>2. CASE Command(w)
  BY <1>2, CommandFollows
<1>3. ASSUME pc'[w] \in {"idle", "move"} PROVE FollowInv(w)'
  BY <1>3 DEF FollowInv, Reading, Steps
<1>4. pc \in [Workers -> Steps] /\ mem[w] \in Memory /\ mem \in [Workers -> Memory]
      /\ file \in [Items -> Item]
  BY Parts DEF FilesOK, Memory
<1>5. CASE ParentGate(w)
  <2>1. CASE Leave(w)
    BY <1>3, <1>4, <2>1 DEF Goto, Leave
  <2>2. CASE Goto(w, AfterGate(mem[w].copy, mem[w].sync)) /\ UNCHANGED mem
    <3>1. pc[w] = "gate" /\ UNCHANGED <<file, mem>> /\ mem[w].copy.parent # None
      BY <1>5, <2>2, OtherItem, NamesAssumption DEF ParentGate, WithParent
    <3>2. mem[w].sync
      BY <3>1 DEF FollowInv, Reading, Steps
    <3>3. pc'[w] = "sync"
      BY <1>4, <2>2, <3>1, <3>2 DEF Goto, AfterGate
    <3> QED BY <3>1, <3>3 DEF FollowInv, Reading, Steps, InHand
  <2> QED BY <1>5, <2>1, <2>2 DEF ParentGate
<1>6. CASE ParentSync(w)
  <2> DEFINE p == mem[w].copy.parent
  <2>1. pc[w] = "sync" /\ UNCHANGED file /\ p \in Items /\ p # None
    BY <1>6, OtherItem, NamesAssumption DEF ParentSync, WithParent
  <2>2. CASE Leave(w)
    BY <1>3, <1>4, <2>2 DEF Goto, Leave
  <2>3. CASE Goto(w, "open") /\ UNCHANGED mem /\ ~Starts(mem[w].aim, file[p].state)
    <3>1. pc'[w] = "open"
      BY <1>4, <2>3 DEF Goto
    <3>2. mem[w].aim \in Active => file[p].state \notin BeforeInProgress
      BY <2>3 DEF Starts, Active
    <3> QED BY <2>1, <2>3, <3>1, <3>2 DEF FollowInv, Reading, Steps, InHand
  <2>4. CASE /\ Goto(w, "openParent")
             /\ mem' = [mem EXCEPT ![w].parentCopy = Moved(file[p], "start", "auto")]
    <3> DEFINE parentCopy == Moved(file[p], "start", "auto")
               line == [from |-> file[p].state, to |-> "InProgress", how |-> "auto"]
    <3>1. pc'[w] = "openParent" /\ mem'[w] = [mem[w] EXCEPT !.parentCopy = parentCopy]
      BY <1>4, <2>4 DEF Goto
    <3>2. /\ mem'[w].copy = mem[w].copy /\ mem'[w].item = mem[w].item /\ mem'[w].op = mem[w].op
          /\ mem'[w].sync = mem[w].sync /\ mem'[w].aim = mem[w].aim
          /\ mem'[w].parentCopy = parentCopy
      BY <1>4, <3>1 DEF Memory
    <3>3. file[p] \in Item
      BY <1>4, <2>1
    <3>4. parentCopy.state = "InProgress" /\ parentCopy.log = Append(file[p].log, line)
      BY <3>3 DEF Moved, Item, Rule
    <3>5. file[p].log \in Seq(Line) /\ line \in Line /\ line.how = "auto"
      BY <3>3 DEF Item, Line, States
    <3> HIDE DEF line
    <3>6. CameBy(parentCopy.log, "auto")
      BY <3>4, <3>5, LastChange
    <3> HIDE DEF parentCopy
    <3> QED BY <2>1, <3>1, <3>2, <3>4, <3>6 DEF FollowInv, Reading, Steps, InHand
  <2> QED BY <1>6, <2>2, <2>3, <2>4 DEF ParentSync
<1>7. CASE ValidateParentChain(w)
  BY <1>7 DEF ValidateParentChain, FollowInv, Reading, Steps
<1>8. CASE OpenFile(w)
  <2>1. UNCHANGED <<file, mem>>
    BY <1>8 DEF OpenFile
  <2>2. \/ pc[w] = "open" /\ pc'[w] = "fill"
        \/ pc[w] = "openParent" /\ pc'[w] = "fillParent"
    BY <1>4, <1>8 DEF OpenFile, Goto
  <2> QED BY <2>1, <2>2 DEF FollowInv, Reading, Steps, InHand
<1>9. CASE FillFile(w)
  <2>1. CASE pc'[w] \in {"idle", "move"}
    BY <1>3, <2>1
  <2>2. CASE /\ pc[w] = "fillParent" /\ pc'[w] = "open"
             /\ mem' = [mem EXCEPT ![w].parentCopy = Blank]
             /\ file' = [file EXCEPT ![mem[w].copy.parent] = mem[w].parentCopy]
    <3>1. mem[w].copy.parent # mem[w].item /\ mem[w].copy.parent \in Items
      BY <2>2, OtherItem DEF WithParent
    <3>2. /\ file'[mem[w].item] = file[mem[w].item]
          /\ file'[mem[w].copy.parent] = mem[w].parentCopy
      BY <1>4, <2>2, <3>1 DEF Memory
    <3>3. mem[w].parentCopy.state \notin BeforeInProgress
      BY <2>2 DEF FollowInv, Reading, Steps, InHand, BeforeInProgress
    <3>4. /\ mem'[w].copy = mem[w].copy /\ mem'[w].item = mem[w].item /\ mem'[w].op = mem[w].op
          /\ mem'[w].sync = mem[w].sync /\ mem'[w].aim = mem[w].aim
      BY <1>4, <2>2 DEF Memory
    <3> QED BY <2>2, <3>2, <3>3, <3>4 DEF FollowInv, Reading, Steps, InHand
  <2> QED BY <1>9, <2>1, <2>2, FillWrites
<1>10. CASE MoveFile(w) \/ Crash(w)
  BY <1>3, <1>4, <1>10 DEF MoveFile, Crash, Leave, Goto
<1> QED
  BY <1>1, <1>2, <1>5, <1>6, <1>7, <1>8, <1>9, <1>10 DEF Next, WorkerStep, Alone

\* One item of the property.
Behind(i) ==
    /\ file[i].parent # None
    /\ file[i].state \in Active
    /\ ~CameBy(file[i].log, "auto")
    => file[file[i].parent].state \notin BeforeInProgress

LEMMA ActiveStep ==
  ASSUME IInv, Synced, \A w \in Workers : FollowInv(w), \A i \in Items : Behind(i), [Next]_vars
  PROVE  (\A i \in Items : Behind(i))'
<1>1. file \in [Items -> Item]
  BY Parts DEF FilesOK
<1>2. CASE file' = file
  BY <1>2 DEF Behind
<1>3. ASSUME NEW w \in Workers, FillFile(w), NEW i \in Items PROVE Behind(i)'
  <2> DEFINE m == mem[w]
             p == m.copy.parent
  <2>1. file[i] \in Item /\ (file[i].parent # None => file[i].parent \in Items)
    BY <1>1 DEF Item
  <2>2. CASE /\ pc[w] = "fillParent"
             /\ file' = [file EXCEPT ![p] = m.parentCopy]
    <3>1. /\ m.parentCopy.state = "InProgress" /\ CameBy(m.parentCopy.log, "auto")
          /\ p \in Items
      BY <2>2, OtherItem DEF FollowInv, Reading, Steps, InHand, WithParent
    <3>2. file'[p] = m.parentCopy /\ \A j \in Items : j # p => file'[j] = file[j]
      BY <1>1, <2>2, <3>1
    <3>3. CASE i = p
      BY <3>1, <3>2, <3>3 DEF Behind
    <3>4. CASE i # p
      BY <2>1, <3>1, <3>2, <3>4 DEF Behind, BeforeInProgress
    <3> QED BY <3>3, <3>4
  <2>3. CASE pc[w] = "fill" /\ file' = [file EXCEPT ![m.item] = m.copy]
    <3>1. m \in Memory /\ m.item \in Items /\ WorkerOK(w)
      BY Parts DEF Memory
    <3>2. file'[m.item] = m.copy /\ \A j \in Items : j # m.item => file'[j] = file[j]
      BY <1>1, <2>3, <3>1
    <3>3. /\ p = file[m.item].parent
          /\ m.copy.state \in BeforeInProgress => file[m.item].state \in BeforeInProgress
          /\ \/ p # None /\ m.copy.state \in Active => file[p].state \notin BeforeInProgress
             \/ /\ m.copy.state = file[m.item].state
                /\ CameBy(file[m.item].log, "auto") => CameBy(m.copy.log, "auto")
      BY <2>3 DEF FollowInv, Reading, Steps
    <3>4. CASE i = m.item
      <4>1. p # m.item
        <5>1. Lawful(m.item, p)
          BY <2>3, <3>1 DEF WorkerOK
        <5>2. \A t \in Types : t \notin AllowedParents[t]
          BY DEF Types, AllowedParents
        <5> QED BY <3>1, <5>1, <5>2, NamesAssumption, HierarchyAssumption DEF Lawful
      <4>2. p # None => file'[p] = file[p]
        BY <2>1, <3>2, <3>3, <3>4, <4>1
      <4> QED BY <3>2, <3>3, <3>4, <4>2 DEF Behind
    <3>5. CASE i # m.item
      <4>1. file'[i] = file[i]
        BY <3>2, <3>5
      <4>2. file[i].parent # None /\ file[file[i].parent].state \notin BeforeInProgress
              => file'[file[i].parent].state \notin BeforeInProgress
        BY <2>1, <3>2, <3>3
      <4> QED BY <4>1, <4>2 DEF Behind
    <3> QED BY <3>4, <3>5
  <2> QED BY <1>3, <2>2, <2>3, FillWrites
<1>4. ASSUME NEW w \in Workers, Command(w) PROVE file' = file
  BY <1>4, CommandFollows
<1>5. file' = file \/ \E w \in Workers : FillFile(w)
  BY <1>4 DEF Next, WorkerStep, vars, ParentGate, ParentSync, ValidateParentChain, OpenFile, MoveFile, Crash
<1> QED BY <1>2, <1>3, <1>5

\* While one command runs at a time, and state changes go through update-state with
\* parent sync, no active child has a parent that was not started, wherever a
\* command dies: the parent is written before the child.
THEOREM ActiveChildrenHaveStartedParents ==
  ASSUME Alone, Synced PROVE Spec => []ActiveChildHasStartedParent
<1> DEFINE Prepared == \A w \in Workers : FollowInv(w)
           Led == \A i \in Items : Behind(i)
<1>1. Init => Prepared /\ Led
  <2> SUFFICES ASSUME Init PROVE Prepared /\ Led
    OBVIOUS
  <2>1. PICK ready \in SUBSET Items :
          file = [i \in Items |-> [Blank EXCEPT !.parent = FirstParent[i],
                                               !.complete = i \in ready]]
    BY DEF Init
  <2>2. \A i \in Items : file[i].state = "Proposed"
    BY <2>1 DEF Blank
  <2> QED BY <2>2 DEF Init, FollowInv, Reading, Steps, Behind, Active
<1>2. IInv /\ Prepared /\ [Next]_vars => Prepared'
  BY FollowStep
<1>3. IInv /\ Prepared /\ Led /\ [Next]_vars => Led'
  BY ActiveStep
<1>4. Led => ActiveChildHasStartedParent
  BY DEF Behind, Active, ActiveChildHasStartedParent
<1> HIDE DEF Prepared, Led
<1> QED BY <1>1, <1>2, <1>3, <1>4, LifecycleInvariant, PTL DEF Spec

===============================================================================
