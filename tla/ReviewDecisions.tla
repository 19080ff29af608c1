--------------------------- MODULE ReviewDecisions ---------------------------
(***************************************************************************)
(* The decisions that a human submits in the web view about one item, and    *)
(* the cache the view shows it from.  A server handles one request at a      *)
(* time; item commands of other processes, and other servers, work on the    *)
(* same files.  An action is one access to a file; a file is written in      *)
(* place, in two accesses.  A request that lacks its confirmation or names   *)
(* an unknown decision is answered before it touches anything: none is here. *)
(*                                                                         *)
(* An operator named X_Something stands before X as a plausible mistake in   *)
(* it; nothing uses it, and each is caught by one of the properties.         *)
(***************************************************************************)
EXTENDS Integers

CONSTANTS
    Servers, Commands,      \* processes of the web view, and of item commands
    Decisions,              \* human decisions that are submitted
    MaxRequests, MaxEdits, MaxTime, MaxCrashes      \* bounds

\* ReviewActionsForLane: the state that a decision asks for.
Target == [mark_done |-> "Done", move_to_review |-> "Review", reopen_work |-> "InProgress",
           mark_blocked |-> "Blocked", drop |-> "Dropped", request_evidence |-> "none"]

ASSUME DecisionsAssumption == Decisions \subseteq DOMAIN Target
ASSUME BoundsAssumption == {MaxRequests, MaxEdits, MaxTime, MaxCrashes} \subseteq Nat

States == {"InProgress", "Review", "Done", "Blocked", "Dropped"}

\* The changes between these states that the state machine knows.
Legal == {<<"InProgress", "Review">>, <<"InProgress", "Done">>, <<"Review", "Done">>,
          <<"Review", "InProgress">>, <<"Blocked", "InProgress">>}
    \cup ({"InProgress", "Review"} \X {"Blocked"})
    \cup ({"InProgress", "Review", "Blocked"} \X {"Dropped"})

VARIABLES
    item,           \* the item file
    records,        \* the submitted records of the item, by path
    cache,          \* what each server remembers of the item
    pc, mem,        \* where each server is, and the locals of its request
    command,        \* the step and the copy of each item command
    now,            \* the clock: of modification times and record names
    wrote,          \* history: requests whose line was written into the item
    answered,       \* history: requests that were answered as submitted
    own,            \* history: the last version that each server wrote and answered
    requests, edits, crashes

vars == <<item, records, cache, pc, mem, command, now, wrote, answered, own,
          requests, edits, crashes>>
history == <<wrote, answered, own>>
counts == <<requests, edits, crashes>>

Requests == 1..MaxRequests
Lines == {"review"} \X Requests \cup {"edit"} \X (1..MaxEdits)

\* Frontmatter and worklog; a file that is cut short has lost its frontmatter.
Contents == [form: {"none", "broken", "item"}, state: States, lines: SUBSET Lines]
Gone == [form |-> "none", state |-> "InProgress", lines |-> {}]
Torn == [form |-> "broken", state |-> "InProgress", lines |-> {}]

Paths == (0..MaxTime) \X Decisions \X Requests
Record == [form: {"none", "torn", "written"}, request: 0..MaxRequests,
           policy: {"none", "accepted", "rejected"}, outcome: {"skipped", "blocked", "applied"}]
NoRecord == [form |-> "none", request |-> 0, policy |-> "none", outcome |-> "skipped"]

Cache == [known: BOOLEAN, mtime: 0..MaxTime, version: Nat, content: Contents]
Empty == [known |-> FALSE, mtime |-> 0, version |-> 0, content |-> Gone]

Steps == {"idle", "scan", "parse", "show", "decide", "open record", "fill record", "read item",
          "open item", "fill item", "answer"}

NoMemory == [request |-> 0, decision |-> "none", mtime |-> 0, at |-> <<>>, accepted |-> FALSE,
             applied |-> FALSE, copy |-> Gone, began |-> 0, wrote |-> 0]
Memory == [request: 0..MaxRequests, decision: Decisions \cup {"none"}, mtime: 0..MaxTime,
           at: Paths \cup {<<>>}, accepted: BOOLEAN, applied: BOOLEAN, copy: Contents,
           began: Nat, wrote: Nat]

Init ==
    /\ item = [version |-> 0, mtime |-> 0,
               content |-> [form |-> "item", state |-> "InProgress", lines |-> {}]]
    /\ records = [q \in Paths |-> NoRecord]
    /\ cache = [s \in Servers |-> Empty]
    /\ pc = [s \in Servers |-> "idle"] /\ mem = [s \in Servers |-> NoMemory]
    /\ command = [c \in Commands |-> [step |-> "idle", copy |-> Gone]]
    /\ now = 0 /\ wrote = {} /\ answered = {} /\ own = [s \in Servers |-> 0]
    /\ requests = 0 /\ edits = 0 /\ crashes = 0

Goto(s, step) == pc' = [pc EXCEPT ![s] = step]
Leave(s) == Goto(s, "idle") /\ mem' = [mem EXCEPT ![s] = NoMemory]

\* The item file holds these contents from now on.
Put(contents) == item' = [version |-> item.version + 1, mtime |-> now, content |-> contents]

-------------------------------------------------------------------------------
(* LoadProduct: the newest modification time, then the files. *)

Scan(s) ==
    /\ pc[s] = "scan" /\ Goto(s, "parse")
    /\ mem' = [mem EXCEPT ![s].mtime = item.mtime]
    /\ UNCHANGED <<item, records, cache, command, now, history, counts>>

Parse(s) ==
    /\ pc[s] = "parse"
    /\ cache' = [cache EXCEPT ![s] = [known |-> TRUE, mtime |-> mem[s].mtime,
                                      version |-> item.version, content |-> item.content]]
    /\ IF mem[s].request = 0 THEN Goto(s, "show") /\ UNCHANGED mem
       ELSE IF item.content.form = "item" THEN Goto(s, "decide") /\ UNCHANGED mem
       ELSE Leave(s)
    /\ UNCHANGED <<item, records, command, now, history, counts>>

\* ShouldLoad: a file that went, or whose time is not newer, is not noticed.
StartView(s) ==
    /\ pc[s] = "idle"
    /\ Goto(s, IF ~cache[s].known \/ item.mtime > cache[s].mtime THEN "scan" ELSE "show")
    /\ UNCHANGED <<item, records, cache, mem, command, now, history, counts>>

Show(s) ==
    /\ pc[s] = "show" /\ Leave(s)
    /\ UNCHANGED <<item, records, cache, command, now, history, counts>>

\* The refresh button, or another workspace and back.
Refresh(s) ==
    /\ pc[s] = "idle" /\ cache[s] # Empty
    /\ cache' = [cache EXCEPT ![s] = Empty]
    /\ UNCHANGED <<item, records, pc, mem, command, now, history, counts>>

-------------------------------------------------------------------------------
(* SubmitReviewDecision *)

Accepted(d) == [NoMemory EXCEPT !.request = requests + 1, !.decision = d, !.began = item.version]

StartSubmit_FromCache(s, d) ==
    /\ pc[s] = "idle" /\ requests < MaxRequests /\ requests' = requests + 1
    /\ Goto(s, IF ~cache[s].known \/ item.mtime > cache[s].mtime THEN "scan"
               ELSE IF cache[s].content.form = "item" THEN "decide" ELSE "idle")
    /\ mem' = [mem EXCEPT ![s] =
           IF cache[s].known /\ cache[s].content.form # "item" THEN NoMemory ELSE Accepted(d)]
    /\ UNCHANGED <<item, records, cache, command, now, history, edits, crashes>>

\* The item is always read again.
StartSubmit(s, d) ==
    /\ pc[s] = "idle" /\ requests < MaxRequests /\ requests' = requests + 1
    /\ Goto(s, "scan") /\ mem' = [mem EXCEPT ![s] = Accepted(d)]
    /\ UNCHANGED <<item, records, cache, command, now, history, edits, crashes>>

UniqueJsonPath_Unchecked(q, d) == q = <<now, d, 1>>

\* The name tells the time and the decision, and has a number where it is taken.
UniqueJsonPath(q, d) ==
    /\ q[1] = now /\ q[2] = d /\ records[q].form = "none"
    /\ \A k \in Requests : k < q[3] => records[<<now, d, k>>].form # "none"

Decide_ItemFirst(s) ==
    /\ pc[s] = "decide"
    /\ \E q \in Paths :
        LET accepted == <<cache[s].content.state, Target[mem[s].decision]>> \in Legal IN
        /\ UniqueJsonPath(q, mem[s].decision)
        /\ Goto(s, IF accepted THEN "read item" ELSE "open record")
        /\ mem' = [mem EXCEPT ![s].at = q, ![s].accepted = accepted]
    /\ UNCHANGED <<item, records, cache, command, now, history, counts>>

\* The policy judges the state that was parsed.
Decide(s) ==
    /\ pc[s] = "decide" /\ Goto(s, "open record")
    /\ \E q \in Paths :
        /\ UniqueJsonPath(q, mem[s].decision)
        /\ mem' = [mem EXCEPT ![s].at = q,
               ![s].accepted = <<cache[s].content.state, Target[mem[s].decision]>> \in Legal]
    /\ UNCHANGED <<item, records, cache, command, now, history, counts>>

\* The record is written before the item, and once more when the item is.
OpenRecord(s) ==
    /\ pc[s] = "open record" /\ Goto(s, "fill record")
    /\ records' = [records EXCEPT ![mem[s].at] =
           [NoRecord EXCEPT !.form = "torn", !.request = mem[s].request]]
    /\ UNCHANGED <<item, cache, mem, command, now, history, counts>>

RecordOf(m) ==
    [form |-> "written", request |-> m.request,
     policy |-> IF Target[m.decision] = "none" THEN "none"
                ELSE IF m.accepted THEN "accepted" ELSE "rejected",
     outcome |-> IF m.applied THEN "applied"
                 ELSE IF Target[m.decision] = "none" THEN "skipped" ELSE "blocked"]

AfterRecord(m) == IF m.accepted /\ ~m.applied THEN "read item" ELSE "answer"

FillRecord(s) ==
    /\ pc[s] = "fill record" /\ Goto(s, AfterRecord(mem[s]))
    /\ records' = [records EXCEPT ![mem[s].at] = RecordOf(mem[s])]
    /\ UNCHANGED <<item, cache, mem, command, now, history, counts>>

\* ApplyTransitionToMarkdown: the text as it is now, its state field replaced and a
\* line appended.  Without frontmatter only the line gets in.
Applied(contents, m) ==
    [contents EXCEPT
        !.state = IF contents.form = "item" THEN Target[m.decision] ELSE @,
        !.lines = @ \cup {<<"review", m.request>>}]

ReadItem(s) ==
    /\ pc[s] = "read item"
    /\ IF item.content.form = "none" THEN Leave(s)
       ELSE /\ Goto(s, "open item")
            /\ mem' = [mem EXCEPT ![s].copy = Applied(item.content, mem[s])]
    /\ UNCHANGED <<item, records, cache, command, now, history, counts>>

OpenItem(s) ==
    /\ pc[s] = "open item" /\ Goto(s, "fill item")
    /\ Put(Torn)
    /\ UNCHANGED <<records, cache, mem, command, now, history, counts>>

\* A file that was moved away meanwhile is filled where it is now.
FillItem(s) ==
    /\ pc[s] = "fill item" /\ Goto(s, "open record")
    /\ IF item.content.form = "none" THEN UNCHANGED item ELSE Put(mem[s].copy)
    /\ mem' = [mem EXCEPT ![s].applied = TRUE, ![s].wrote = item'.version]
    /\ wrote' = wrote \cup {mem[s].request}
    /\ UNCHANGED <<records, cache, command, now, answered, own, counts>>

Forget_Kept(s) == UNCHANGED cache

\* What the server remembers of the product goes when the item has changed.
Forget(s) == cache' = IF mem[s].applied THEN [cache EXCEPT ![s] = Empty] ELSE cache

Answer(s) ==
    /\ pc[s] = "answer" /\ Leave(s)
    /\ Forget(s)
    /\ answered' = answered \cup {mem[s].request}
    /\ own' = IF mem[s].applied THEN [own EXCEPT ![s] = mem[s].wrote] ELSE own
    /\ UNCHANGED <<item, records, command, now, wrote, counts>>

-------------------------------------------------------------------------------
(* Commands of other processes, which know no server: state changes, notes, and *)
(* moving the item to the trash. *)

CopyItem(c) ==
    /\ command[c].step = "idle" /\ edits < MaxEdits /\ edits' = edits + 1
    /\ item.content.form = "item"
    /\ \E t \in States :
        /\ t = item.content.state \/ <<item.content.state, t>> \in Legal
        /\ command' = [command EXCEPT ![c] = [step |-> "open", copy |->
               [item.content EXCEPT !.state = t, !.lines = @ \cup {<<"edit", edits + 1>>}]]]
    /\ UNCHANGED <<item, records, cache, pc, mem, now, history, requests, crashes>>

OpenFile(c) ==
    /\ command[c].step = "open"
    /\ command' = [command EXCEPT ![c].step = "fill"]
    /\ Put(Torn)
    /\ UNCHANGED <<records, cache, pc, mem, now, history, counts>>

FillFile(c) ==
    /\ command[c].step = "fill"
    /\ IF item.content.form = "none" THEN UNCHANGED item ELSE Put(command[c].copy)
    /\ command' = [command EXCEPT ![c] = [step |-> "idle", copy |-> Gone]]
    /\ UNCHANGED <<records, cache, pc, mem, now, history, counts>>

\* A moved file keeps its time, but not here.
TrashItem ==
    /\ edits < MaxEdits /\ edits' = edits + 1
    /\ item.content.form = "item"
    /\ item' = [item EXCEPT !.version = @ + 1, !.mtime = 0, !.content = Gone]
    /\ UNCHANGED <<records, cache, pc, mem, command, now, history, requests, crashes>>

-------------------------------------------------------------------------------
\* A server starts again with nothing; a command just ends.
CrashServer(s) ==
    /\ crashes < MaxCrashes /\ crashes' = crashes + 1
    /\ Leave(s)
    /\ cache' = [cache EXCEPT ![s] = Empty] /\ own' = [own EXCEPT ![s] = 0]
    /\ UNCHANGED <<item, records, command, now, wrote, answered, requests, edits>>

CrashCommand(c) ==
    /\ command[c].step # "idle" /\ crashes < MaxCrashes /\ crashes' = crashes + 1
    /\ command' = [command EXCEPT ![c] = [step |-> "idle", copy |-> Gone]]
    /\ UNCHANGED <<item, records, cache, pc, mem, now, history, requests, edits>>

Tick ==
    /\ now < MaxTime /\ now' = now + 1
    /\ UNCHANGED <<item, records, cache, pc, mem, command, history, counts>>

Serve(s) ==
    \/ Scan(s) \/ Parse(s) \/ StartView(s) \/ Show(s) \/ Refresh(s)
    \/ \E d \in Decisions : StartSubmit(s, d)
    \/ Decide(s) \/ OpenRecord(s) \/ FillRecord(s) \/ ReadItem(s) \/ OpenItem(s) \/ FillItem(s)
    \/ Answer(s) \/ CrashServer(s)

Next ==
    \/ \E s \in Servers : Serve(s)
    \/ \E c \in Commands : CopyItem(c) \/ OpenFile(c) \/ FillFile(c) \/ CrashCommand(c)
    \/ TrashItem \/ Tick

Spec == Init /\ [][Next]_vars

-------------------------------------------------------------------------------
TypeOK ==
    /\ item \in [version: Nat, mtime: 0..MaxTime, content: Contents]
    /\ records \in [Paths -> Record]
    /\ cache \in [Servers -> Cache] /\ pc \in [Servers -> Steps] /\ mem \in [Servers -> Memory]
    /\ command \in [Commands -> [step: {"idle", "open", "fill"}, copy: Contents]]
    /\ now \in 0..MaxTime /\ wrote \subseteq Requests /\ answered \subseteq Requests
    /\ own \in [Servers -> Nat]
    /\ requests \in 0..MaxRequests /\ edits \in 0..MaxEdits /\ crashes \in 0..MaxCrashes

\* A review line never gets into an item before its record is there, wherever the
\* server dies: who asked for the change can be found out, unless the record itself
\* was cut short.
LineHasRecord ==
    \A n \in wrote : \E q \in Paths : records[q].form # "none" /\ records[q].request = n

\* A decision that was answered as submitted keeps its record, and the record tells
\* whether the item was changed for it.  No record, answered or not, says "applied"
\* before the item is written, or tells of a refusal that changed the item.
RecordsAreTrue ==
    /\ \A n \in answered : \E q \in Paths :
        /\ records[q].form = "written" /\ records[q].request = n
        /\ records[q].outcome = "applied" <=> n \in wrote
    /\ \A q \in Paths : records[q].form = "written" =>
        /\ records[q].outcome = "applied" => records[q].request \in wrote
        /\ records[q].policy # "accepted" => records[q].request \notin wrote

\* "Backboard must not bypass transition validation": unless somebody else wrote the
\* item since the request came in, the state that a decision sets is one the state
\* machine allows after the state in the file.
PolicySawTheFile ==
    [][\A s \in Servers :
        pc[s] = "open item" /\ pc'[s] = "fill item" /\ item.version = mem[s].began
        => <<item.content.state, mem[s].copy.state>> \in Legal]_vars

\* A reviewer whose decision changed the item never sees an older item afterwards,
\* however coarse the modification times are.
OwnDecisionIsShown == \A s \in Servers : pc[s] = "show" => cache[s].version >= own[s]
===============================================================================
