------------------------- MODULE ReviewDecisionsProofs -------------------------
(***************************************************************************)
(* Proofs about ReviewDecisions: types, the age of what is shown, the state   *)
(* the policy judges, for any number of servers and commands; and, for one   *)
(* server, that lines have records and records are true.                     *)
(***************************************************************************)
EXTENDS ReviewDecisions, TLAPS

-------------------------------------------------------------------------------
(* Invariants *)

Recording == {"open record", "fill record"}
Writing == {"read item", "open item", "fill item"}
Judged == Recording \cup Writing \cup {"answer"}

\* What the steps of a request know of its locals.
StageOf(s) ==
    LET m == mem[s] IN
    /\ pc[s] \in {"idle", "show"} => m.request = 0
    /\ pc[s] \in {"scan", "parse"} => m.request = 0 \/ m.decision \in Decisions
    /\ pc[s] \in Judged \cup {"decide"} => m.request \in Requests /\ m.decision \in Decisions
    /\ pc[s] \in Judged => m.at \in Paths /\ (m.applied => m.accepted)
    /\ pc[s] \in Judged /\ m.accepted => Target[m.decision] \in States
    /\ pc[s] \in Writing => m.accepted
    /\ pc[s] \notin Recording \cup {"answer"} => ~m.applied

StageInv == \A s \in Servers : StageOf(s)

\* What a server remembers, has answered and works on is not newer than the item,
\* and what it remembers is not older than what it has answered.
AgesOf(s) ==
    /\ own[s] <= item.version /\ mem[s].wrote <= item.version /\ mem[s].began <= item.version
    /\ cache[s].known => cache[s].version >= own[s]
    /\ pc[s] = "show" => cache[s].known

AgesInv == \A s \in Servers : AgesOf(s)

\* As long as nobody has written the item since the request came in, it is in the
\* state that the policy has judged.
PolicyOf(s) ==
    item.version = mem[s].began =>
        /\ pc[s] = "decide" => item.content = cache[s].content /\ item.content.form = "item"
        /\ /\ pc[s] \in Recording \cup {"read item"}
           /\ mem[s].accepted /\ ~mem[s].applied
           => /\ item.content.form = "item"
              /\ <<item.content.state, Target[mem[s].decision]>> \in Legal
        /\ pc[s] = "open item" => <<item.content.state, mem[s].copy.state>> \in Legal

PolicyInv == \A s \in Servers : PolicyOf(s)

\* Requests are numbered as they come in.
Numbered ==
    /\ wrote \subseteq 1..requests /\ answered \subseteq 1..requests
    /\ \A s \in Servers : mem[s].request <= requests
    /\ \A q \in Paths : records[q].request <= requests

\* A name without a file has no request.
NamesInv == \A q \in Paths : records[q].form = "none" => records[q].request = 0

\* What a request has left behind, step by step.
RequestOf(s) ==
    LET m == mem[s]
        file == records[m.at]
    IN
    /\ pc[s] \in {"scan", "parse", "decide"} /\ m.request # 0 =>
          m.request \notin wrote \cup answered /\ \A q \in Paths : records[q].request # m.request
    /\ pc[s] \in Judged =>
          /\ m.request \notin answered /\ (m.applied <=> m.request \in wrote)
          /\ \A q \in Paths : records[q].request = m.request => q = m.at
    /\ pc[s] = "open record" =>
          IF m.applied THEN file.request = m.request ELSE file.form = "none"
    /\ pc[s] = "fill record" => file.form = "torn" /\ file.request = m.request
    /\ pc[s] \in Writing \cup {"answer"} =>
          /\ file.form = "written" /\ file.request = m.request
          /\ file.policy = "accepted" <=> m.accepted
          /\ file.outcome = "applied" <=> m.applied

RequestsInv == \A s \in Servers : RequestOf(s)

\* One process of the web view.
Alone == \A s, t \in Servers : s = t

IInv == TypeOK /\ StageInv /\ AgesInv /\ PolicyInv /\ Numbered /\ NamesInv /\ RequestsInv
            /\ LineHasRecord /\ RecordsAreTrue

-------------------------------------------------------------------------------
(* Types *)

LEMMA Small ==
    /\ MaxRequests \in Nat /\ MaxEdits \in Nat /\ MaxTime \in Nat /\ MaxCrashes \in Nat
    /\ Requests \subseteq 0..MaxRequests
  BY BoundsAssumption DEF Requests

LEMMA Positive == \A n \in Requests : n \in Nat /\ n # 0
  BY BoundsAssumption DEF Requests

LEMMA Numbers == \A n \in 0..MaxRequests : n = 0 \/ n \in Requests
  BY BoundsAssumption DEF Requests

LEMMA Blank ==
    /\ Gone \in Contents /\ Torn \in Contents /\ Empty \in Cache
    /\ NoMemory \in Memory /\ NoRecord \in Record
  <1>1. Gone \in Contents /\ Torn \in Contents
    BY DEF Gone, Torn, Contents, States
  <1>2. Empty \in Cache /\ NoMemory \in Memory /\ NoRecord \in Record
    BY <1>1, Small DEF Empty, Cache, NoMemory, Memory, NoRecord, Record
  <1> QED BY <1>1, <1>2

LEMMA Typed ==
    ASSUME TypeOK
    PROVE  /\ item.version \in Nat /\ item.mtime \in 0..MaxTime /\ item.content \in Contents
           /\ item.content.state \in States /\ item.content.lines \subseteq Lines
           /\ \A s \in Servers :
                 /\ pc[s] \in Steps /\ mem[s] \in Memory /\ cache[s] \in Cache
                 /\ own[s] \in Nat
  BY DEF TypeOK, Contents

\* A step that changes the place and the locals of one server.
LocalsOK == pc' \in [Servers -> Steps] /\ mem' \in [Servers -> Memory]

LEMMA LeaveOK ==
    ASSUME TypeOK, NEW s \in Servers, Leave(s) PROVE LocalsOK
  BY Blank DEF Leave, Goto, TypeOK, LocalsOK, Steps

LEMMA PutOK ==
    ASSUME TypeOK, NEW c \in Contents, Put(c)
    PROVE  item' \in [version: Nat, mtime: 0..MaxTime, content: Contents]
  BY Typed DEF Put, TypeOK

LEMMA TypeInit == Init => TypeOK
  BY Small, Blank DEF Init, TypeOK, Contents, States, Steps

LEMMA ViewTypes ==
    ASSUME TypeOK, NEW s \in Servers,
           Scan(s) \/ Parse(s) \/ StartView(s) \/ Show(s) \/ Refresh(s)
    PROVE  TypeOK'
  <1>1. CASE Scan(s)
    <2>1. [mem[s] EXCEPT !.mtime = item.mtime] \in Memory
      BY Typed DEF Memory
    <2>2. mem' = [mem EXCEPT ![s] = [mem[s] EXCEPT !.mtime = item.mtime]]
      BY <1>1 DEF Scan
    <2>3. mem' \in [Servers -> Memory]
      BY <2>1, <2>2 DEF TypeOK
    <2> QED BY <1>1, <2>3 DEF Scan, Goto, TypeOK, Steps, history, counts
  <1>2. CASE Parse(s)
    <2>1. [known |-> TRUE, mtime |-> mem[s].mtime, version |-> item.version,
           content |-> item.content] \in Cache
      BY Typed DEF Cache, Memory
    <2>2. cache' \in [Servers -> Cache]
      BY <1>2, <2>1 DEF Parse, TypeOK
    <2>3. LocalsOK
      BY <1>2, LeaveOK DEF Parse, Goto, TypeOK, LocalsOK, Steps
    <2> QED BY <1>2, <2>2, <2>3 DEF Parse, LocalsOK, TypeOK, history, counts
  <1>3. CASE StartView(s)
    BY <1>3 DEF StartView, Goto, TypeOK, Steps, history, counts
  <1>4. CASE Show(s)
    BY <1>4, LeaveOK DEF Show, LocalsOK, TypeOK, history, counts
  <1>5. CASE Refresh(s)
    BY <1>5, Blank DEF Refresh, TypeOK, history, counts
  <1> QED BY <1>1, <1>2, <1>3, <1>4, <1>5

LEMMA JudgeTypes ==
    ASSUME TypeOK, NEW s \in Servers, (\E d \in Decisions : StartSubmit(s, d)) \/ Decide(s)
    PROVE  TypeOK'
  <1>1. ASSUME NEW d \in Decisions, StartSubmit(s, d) PROVE TypeOK'
    <2>1. requests + 1 \in 0..MaxRequests
      BY <1>1, Small DEF StartSubmit, TypeOK
    <2>2. Accepted(d) \in Memory
      BY <2>1, Blank, Typed DEF Accepted, Memory, NoMemory
    <2>3. mem' \in [Servers -> Memory]
      BY <1>1, <2>2 DEF StartSubmit, TypeOK
    <2> QED BY <1>1, <2>1, <2>3 DEF StartSubmit, Goto, TypeOK, Steps, history
  <1>2. ASSUME Decide(s) PROVE TypeOK'
    <2>1. PICK q \in Paths : mem' = [mem EXCEPT ![s].at = q,
              ![s].accepted = <<cache[s].content.state, Target[mem[s].decision]>> \in Legal]
      BY <1>2 DEF Decide
    <2> DEFINE yes == <<cache[s].content.state, Target[mem[s].decision]>> \in Legal
    <2>2. yes \in BOOLEAN
      OBVIOUS
    <2>3. mem' = [mem EXCEPT ![s] = [mem[s] EXCEPT !.at = q, !.accepted = yes]]
      BY <2>1, Typed DEF TypeOK
    <2> HIDE DEF yes
    <2>5. [mem[s] EXCEPT !.at = q, !.accepted = yes] \in Memory
      BY <2>2, Typed DEF Memory
    <2>4. mem' \in [Servers -> Memory]
      BY <2>3, <2>5 DEF TypeOK
    <2> QED BY <1>2, <2>4 DEF Decide, Goto, TypeOK, Steps, history, counts
  <1> QED BY <1>1, <1>2

LEMMA RecordOfOK ==
    ASSUME TypeOK, NEW s \in Servers
    PROVE  RecordOf(mem[s]) \in Record
  BY Typed DEF RecordOf, Record, Memory

LEMMA RecordTypes ==
    ASSUME TypeOK, NEW s \in Servers, OpenRecord(s) \/ FillRecord(s)
    PROVE  TypeOK'
  <1>1. [NoRecord EXCEPT !.form = "torn", !.request = mem[s].request] \in Record
    BY Typed, Blank DEF Record, NoRecord, Memory
  <1>2. records' \in [Paths -> Record]
    BY <1>1, RecordOfOK DEF OpenRecord, FillRecord, TypeOK
  <1>3. pc' \in [Servers -> Steps]
    BY DEF OpenRecord, FillRecord, AfterRecord, Goto, TypeOK, Steps
  <1> QED BY <1>2, <1>3 DEF OpenRecord, FillRecord, TypeOK, history, counts
LEMMA LegalStates == \A a, b : <<a, b>> \in Legal => a \in States /\ b \in States
  BY DEF Legal, States

\* Nothing of another server changes.
LEMMA Others ==
    ASSUME TypeOK, NEW s \in Servers, Serve(s), NEW t \in Servers, t # s
    PROVE  pc'[t] = pc[t] /\ mem'[t] = mem[t] /\ cache'[t] = cache[t] /\ own'[t] = own[t]
  BY DEF TypeOK, Serve, Scan, Parse, StartView, Show, Refresh, StartSubmit, Decide, OpenRecord,
         FillRecord, ReadItem, OpenItem, FillItem, Forget, Answer, CrashServer, Leave, Goto,
         history, counts

LEMMA StageStep ==
    ASSUME TypeOK, NEW s \in Servers, StageOf(s), Serve(s)
    PROVE  StageOf(s)'
  <1> USE Typed DEF StageOf, Recording, Writing, Judged
  <1>1. CASE Leave(s)
    BY <1>1 DEF Leave, Goto, NoMemory, TypeOK
  <1>2. CASE Scan(s)
    BY <1>2 DEF Scan, Goto, TypeOK
  <1>3. CASE Parse(s)
    <2>1. mem[s].request = 0 \/ mem[s].request \in Requests
      BY Numbers DEF Memory
    <2>2. CASE ~Leave(s)
      <3>1. UNCHANGED mem /\ pc[s] = "parse" /\ pc'[s] = IF mem[s].request = 0 THEN "show" ELSE "decide"
        BY <1>3, <2>2 DEF Parse, Goto, TypeOK
      <3> QED BY <2>1, <3>1
    <2> QED BY <1>1, <2>2
  <1>4. CASE StartView(s)
    BY <1>4 DEF StartView, Goto, TypeOK
  <1>5. CASE Refresh(s)
    BY <1>5 DEF Refresh, TypeOK
  <1>6. ASSUME NEW d \in Decisions, StartSubmit(s, d) PROVE StageOf(s)'
    BY <1>6 DEF StartSubmit, Accepted, NoMemory, Goto, TypeOK
  <1>7. CASE Decide(s)
    <2> DEFINE yes == <<cache[s].content.state, Target[mem[s].decision]>> \in Legal
    <2>1. PICK q \in Paths : mem' = [mem EXCEPT ![s].at = q, ![s].accepted = yes]
      BY <1>7 DEF Decide
    <2>2. yes => Target[mem[s].decision] \in States
      BY LegalStates
    <2> HIDE DEF yes
    <2>3. /\ mem'[s].at = q /\ mem'[s].accepted = yes /\ mem'[s].applied = mem[s].applied
          /\ mem'[s].decision = mem[s].decision /\ mem'[s].request = mem[s].request
      BY <2>1 DEF TypeOK, Memory
    <2>4. pc[s] = "decide" /\ pc'[s] = "open record"
      BY <1>7 DEF Decide, Goto, TypeOK
    <2> QED BY <2>2, <2>3, <2>4
  <1>8. CASE OpenRecord(s)
    BY <1>8 DEF OpenRecord, Goto, TypeOK
  <1>9. CASE FillRecord(s)
    BY <1>9 DEF FillRecord, AfterRecord, Goto, TypeOK
  <1>10. CASE ReadItem(s)
    <2>1. CASE ~Leave(s)
      <3>1. pc[s] = "read item" /\ pc'[s] = "open item"
        BY <1>10, <2>1 DEF ReadItem, Goto, TypeOK
      <3>2. mem' = [mem EXCEPT ![s].copy = Applied(item.content, mem[s])]
        BY <1>10, <2>1 DEF ReadItem
      <3>3. /\ mem'[s].at = mem[s].at /\ mem'[s].accepted = mem[s].accepted
            /\ mem'[s].applied = mem[s].applied /\ mem'[s].decision = mem[s].decision
            /\ mem'[s].request = mem[s].request
        BY <3>2 DEF TypeOK, Memory
      <3> QED BY <3>1, <3>3
    <2> QED BY <1>1, <2>1
  <1>11. CASE OpenItem(s)
    BY <1>11 DEF OpenItem, Goto, TypeOK
  <1>12. CASE FillItem(s)
    <2> DEFINE v == item'.version
    <2>1. mem' = [mem EXCEPT ![s].applied = TRUE, ![s].wrote = v]
      BY <1>12 DEF FillItem
    <2> HIDE DEF v
    <2>2. /\ mem'[s].at = mem[s].at /\ mem'[s].accepted = mem[s].accepted
          /\ mem'[s].decision = mem[s].decision /\ mem'[s].request = mem[s].request
      BY <2>1 DEF TypeOK, Memory
    <2>3. pc[s] = "fill item" /\ pc'[s] = "open record"
      BY <1>12 DEF FillItem, Goto, TypeOK
    <2> QED BY <2>2, <2>3
  <1> QED BY <1>1, <1>2, <1>3, <1>4, <1>5, <1>6, <1>7, <1>8, <1>9, <1>10, <1>11, <1>12
          DEF Serve, Show, Answer, CrashServer

LEMMA WriteTypes ==
    ASSUME TypeOK, NEW s \in Servers, StageOf(s), ReadItem(s) \/ OpenItem(s) \/ FillItem(s)
    PROVE  TypeOK'
  <1>1. CASE ReadItem(s)
    <2>1. ASSUME item.content.form # "none" PROVE mem' \in [Servers -> Memory]
      <3> DEFINE copy == Applied(item.content, mem[s])
      <3>1. copy \in Contents
        <4>1. mem[s].accepted /\ pc[s] \in Judged /\ mem[s].request \in Requests
          BY <1>1 DEF ReadItem, StageOf, Judged, Writing
        <4>2. Target[mem[s].decision] \in States
          BY <4>1 DEF StageOf
        <4>3. <<"review", mem[s].request>> \in Lines
          BY <4>1 DEF Lines
        <4>4. IF item.content.form = "item" THEN Target[mem[s].decision] \in States
                                            ELSE item.content.state \in States
          BY <4>2, Typed
        <4> QED BY <4>3, <4>4, Typed DEF Applied, Contents
      <3>2. mem' = [mem EXCEPT ![s] = [mem[s] EXCEPT !.copy = copy]]
        BY <1>1, <2>1 DEF ReadItem
      <3> HIDE DEF copy
      <3>3. [mem[s] EXCEPT !.copy = copy] \in Memory
        BY <3>1, Typed DEF Memory
      <3> QED BY <3>2, <3>3 DEF TypeOK
    <2>2. LocalsOK
      BY <1>1, <2>1, LeaveOK DEF ReadItem, LocalsOK, Goto, TypeOK, Steps
    <2> QED BY <1>1, <2>2 DEF ReadItem, LocalsOK, TypeOK, history, counts
  <1>2. CASE OpenItem(s)
    BY <1>2, PutOK, Blank DEF OpenItem, Goto, TypeOK, Steps, history, counts
  <1>3. CASE FillItem(s)
    <2>1. mem[s].copy \in Contents /\ mem[s].request \in Requests
      BY <1>3, Typed DEF FillItem, Memory, StageOf, Judged, Writing
    <2>2. item' \in [version: Nat, mtime: 0..MaxTime, content: Contents]
      BY <1>3, <2>1, PutOK DEF FillItem, TypeOK
    <2>3. item'.version \in Nat
      BY <2>2
    <2>4. [mem[s] EXCEPT !.applied = TRUE, !.wrote = item'.version] \in Memory
      BY <2>3, Typed DEF Memory
    <2>5. mem' = [mem EXCEPT ![s] = [mem[s] EXCEPT !.applied = TRUE, !.wrote = item'.version]]
      BY <1>3 DEF FillItem, TypeOK
    <2>6. mem' \in [Servers -> Memory]
      BY <2>4, <2>5 DEF TypeOK
    <2>7. wrote' \subseteq Requests
      BY <1>3, <2>1 DEF FillItem, TypeOK
    <2> QED BY <1>3, <2>2, <2>6, <2>7 DEF FillItem, Goto, TypeOK, Steps, counts
  <1> QED BY <1>1, <1>2, <1>3

LEMMA EndTypes ==
    ASSUME TypeOK, NEW s \in Servers, StageOf(s), Answer(s) \/ CrashServer(s)
    PROVE  TypeOK'
  <1>1. LocalsOK
    BY LeaveOK DEF Answer, CrashServer
  <1>2. CASE Answer(s)
    <2>1. cache' \in [Servers -> Cache]
      BY <1>2, Blank DEF Answer, Forget, TypeOK
    <2>2. mem[s].request \in Requests /\ mem[s].wrote \in Nat
      BY <1>2, Typed DEF Answer, StageOf, Judged, Memory
    <2>3. own' \in [Servers -> Nat] /\ answered' \subseteq Requests
      BY <1>2, <2>2 DEF Answer, TypeOK
    <2> QED BY <1>1, <1>2, <2>1, <2>3 DEF Answer, LocalsOK, TypeOK, counts
  <1>3. CASE CrashServer(s)
    <2>1. cache' \in [Servers -> Cache] /\ own' \in [Servers -> Nat]
      BY <1>3, Blank DEF CrashServer, TypeOK
    <2>2. crashes' \in 0..MaxCrashes
      BY <1>3, Small DEF CrashServer, TypeOK
    <2> QED BY <1>1, <1>3, <2>1, <2>2 DEF CrashServer, LocalsOK, TypeOK
  <1> QED BY <1>2, <1>3

Outside == (\E c \in Commands : CopyItem(c) \/ OpenFile(c) \/ FillFile(c) \/ CrashCommand(c))
              \/ TrashItem \/ Tick

LEMMA OutsideTypes == ASSUME TypeOK, Outside PROVE TypeOK'
  <1> USE Typed, Small
  <1>1. ASSUME NEW c \in Commands, CopyItem(c) PROVE TypeOK'
    <2>1. PICK t \in States : command' = [command EXCEPT ![c] = [step |-> "open", copy |->
               [item.content EXCEPT !.state = t, !.lines = @ \cup {<<"edit", edits + 1>>}]]]
      BY <1>1 DEF CopyItem
    <2>2. edits + 1 \in 1..MaxEdits
      BY <1>1 DEF CopyItem, TypeOK
    <2>3. [item.content EXCEPT !.state = t, !.lines = @ \cup {<<"edit", edits + 1>>}] \in Contents
      <3>1. <<"edit", edits + 1>> \in Lines
        BY <2>2 DEF Lines
      <3> QED BY <3>1 DEF Contents
    <2>4. command' \in [Commands -> [step: {"idle", "open", "fill"}, copy: Contents]]
      BY <2>1, <2>3 DEF TypeOK
    <2> QED BY <1>1, <2>2, <2>4 DEF CopyItem, TypeOK, history
  <1>2. ASSUME NEW c \in Commands, OpenFile(c) PROVE TypeOK'
    BY <1>2, PutOK, Blank DEF OpenFile, TypeOK, history, counts
  <1>3. ASSUME NEW c \in Commands, FillFile(c) PROVE TypeOK'
    BY <1>3, PutOK, Blank DEF FillFile, TypeOK, history, counts
  <1>4. ASSUME NEW c \in Commands, CrashCommand(c) PROVE TypeOK'
    BY <1>4, Blank DEF CrashCommand, TypeOK, history
  <1>5. CASE TrashItem
    <2>1. item' \in [version: Nat, mtime: 0..MaxTime, content: Contents]
      <3>1. item' = [item EXCEPT !.version = @ + 1, !.mtime = 0, !.content = Gone]
        BY <1>5 DEF TrashItem
      <3>2. 0 \in 0..MaxTime
        OBVIOUS
      <3>3. item.version + 1 \in Nat
        OBVIOUS
      <3> QED BY <3>1, <3>2, <3>3, Blank DEF TypeOK
    <2> QED BY <1>5, <2>1 DEF TrashItem, TypeOK, history
  <1>6. CASE Tick
    BY <1>6 DEF Tick, TypeOK, history, counts
  <1> QED BY <1>1, <1>2, <1>3, <1>4, <1>5, <1>6 DEF Outside

LEMMA OutsideLocals == ASSUME Outside PROVE UNCHANGED <<records, cache, pc, mem, history>>
  BY DEF Outside, CopyItem, OpenFile, FillFile, CrashCommand, TrashItem, Tick

LEMMA Split == ASSUME Next PROVE Outside \/ \E s \in Servers : Serve(s)
  BY DEF Next, Outside

TypeInv == TypeOK /\ StageInv

LEMMA TypeStep == ASSUME TypeInv, [Next]_vars PROVE TypeInv'
  <1> USE DEF TypeInv
  <1>1. CASE UNCHANGED vars
    BY <1>1 DEF vars, history, counts, TypeOK, StageInv, StageOf
  <1>2. CASE Outside
    BY <1>2, OutsideTypes, OutsideLocals DEF StageInv, StageOf
  <1>3. ASSUME NEW s \in Servers, Serve(s) PROVE TypeInv'
    <2>1. TypeOK'
      BY <1>3, ViewTypes, JudgeTypes, RecordTypes, WriteTypes, EndTypes DEF Serve, StageInv
    <2>2. ASSUME NEW t \in Servers PROVE StageOf(t)'
      <3>1. CASE t = s
        BY <1>3, <3>1, StageStep DEF StageInv
      <3>2. CASE t # s
        BY <1>3, <3>2, Others DEF StageInv, StageOf
      <3> QED BY <3>1, <3>2
    <2> QED BY <2>1, <2>2 DEF StageInv
  <1> QED BY <1>1, <1>2, <1>3, Split

\* Every variable stays in its type: no decision without a target state ever gets to
\* the step that writes the item.
THEOREM TypeCorrect == Spec => []TypeOK
  <1>1. Init => TypeInv
    BY TypeInit DEF Init, TypeInv, StageInv, StageOf, NoMemory, Recording, Writing, Judged
  <1>2. TypeInv => TypeOK
    BY DEF TypeInv
  <1> QED BY <1>1, <1>2, TypeStep, PTL DEF Spec
-------------------------------------------------------------------------------
(* What is shown, and what the policy has seen *)

\* The item keeps its version only if it is not written.
LEMMA ItemGrows ==
    ASSUME TypeOK, Next
    PROVE  item' = item \/ item'.version = item.version + 1
  <1>1. ASSUME NEW c, Put(c) PROVE item'.version = item.version + 1
    BY <1>1 DEF Put
  <1>2. CASE TrashItem
    <2>1. item' = [item EXCEPT !.version = @ + 1, !.mtime = 0, !.content = Gone]
      BY <1>2 DEF TrashItem
    <2> QED BY <2>1 DEF TypeOK
  <1>3. ASSUME NEW s \in Servers, OpenItem(s) \/ FillItem(s)
        PROVE  item' = item \/ item'.version = item.version + 1
    BY <1>1, <1>3 DEF OpenItem, FillItem
  <1>4. ASSUME NEW s \in Servers, Serve(s), ~(OpenItem(s) \/ FillItem(s)) PROVE item' = item
    BY <1>4 DEF Serve, Scan, Parse, StartView, Show, Refresh, StartSubmit, Decide, OpenRecord,
       FillRecord, ReadItem, Answer, CrashServer
  <1>5. CASE Outside /\ ~TrashItem
    BY <1>1, <1>5 DEF Outside, CopyItem, OpenFile, FillFile, CrashCommand, Tick
  <1> QED BY <1>2, <1>3, <1>4, <1>5, Split

LEMMA NotOlder ==
    ASSUME TypeOK, Next
    PROVE  item'.version \in Nat /\ item'.version >= item.version
  BY ItemGrows, Typed

LEMMA Versions ==
    ASSUME TypeOK, NEW s \in Servers
    PROVE  /\ own[s] \in Nat /\ mem[s].wrote \in Nat /\ mem[s].began \in Nat
           /\ cache[s].version \in Nat
  BY Typed DEF Memory, Cache

LEMMA AgesStep ==
    ASSUME TypeOK, NEW s \in Servers, Serve(s), Next, AgesOf(s) PROVE AgesOf(s)'
  <1> USE Typed, Versions, NotOlder DEF AgesOf
  <1>1. CASE UNCHANGED <<cache, own>> /\ Leave(s)
    BY <1>1 DEF Leave, Goto, NoMemory, TypeOK
  <1>2. CASE Scan(s)
    BY <1>2 DEF Scan, Goto, TypeOK, Memory, history, counts
  <1>3. CASE Parse(s)
    <2>1. /\ own'[s] = own[s] /\ item' = item
          /\ cache'[s].known /\ cache'[s].version = item.version
      BY <1>3 DEF Parse, TypeOK, history, counts
    <2>2. mem'[s] \in {mem[s], NoMemory}
      BY <1>3 DEF Parse, Leave, TypeOK
    <2> QED BY <2>1, <2>2 DEF NoMemory
  <1>4. CASE StartView(s)
    BY <1>4 DEF StartView, Goto, TypeOK, history, counts
  <1>5. CASE Refresh(s)
    BY <1>5 DEF Refresh, Empty, TypeOK, history, counts
  <1>6. ASSUME NEW d \in Decisions, StartSubmit(s, d) PROVE AgesOf(s)'
    BY <1>6 DEF StartSubmit, Accepted, NoMemory, Goto, TypeOK, history
  <1>7. CASE Decide(s)
    <2>1. PICK q, yes : mem' = [mem EXCEPT ![s].at = q, ![s].accepted = yes]
      BY <1>7 DEF Decide
    <2>2. mem'[s].wrote = mem[s].wrote /\ mem'[s].began = mem[s].began
      BY <2>1 DEF TypeOK, Memory
    <2> QED BY <1>7, <2>2 DEF Decide, Goto, TypeOK, history, counts
  <1>8. CASE OpenRecord(s) \/ FillRecord(s)
    BY <1>8 DEF OpenRecord, FillRecord, AfterRecord, Goto, TypeOK, history, counts
  <1>9. CASE ReadItem(s) /\ ~Leave(s)
    <2>1. mem' = [mem EXCEPT ![s].copy = Applied(item.content, mem[s])]
      BY <1>9 DEF ReadItem
    <2>2. mem'[s].wrote = mem[s].wrote /\ mem'[s].began = mem[s].began
      BY <2>1 DEF TypeOK, Memory
    <2> QED BY <1>9, <2>2 DEF ReadItem, Goto, TypeOK, history, counts
  <1>10. CASE OpenItem(s)
    <2>1. pc'[s] # "show" /\ mem' = mem /\ cache' = cache /\ own' = own
      BY <1>10 DEF OpenItem, Goto, TypeOK, history, counts
    <2> QED BY <2>1
  <1>11. CASE FillItem(s)
    <2> DEFINE v == item'.version
    <2>1. mem' = [mem EXCEPT ![s].applied = TRUE, ![s].wrote = v]
      BY <1>11 DEF FillItem
    <2>2. v \in Nat
      OBVIOUS
    <2> HIDE DEF v
    <2>3. mem'[s].wrote = v /\ mem'[s].began = mem[s].began
      BY <2>1 DEF TypeOK, Memory
    <2>4. pc'[s] # "show" /\ cache' = cache /\ own' = own
      BY <1>11 DEF FillItem, Goto, TypeOK, counts
    <2> QED BY <2>3, <2>4 DEF v
  <1>12. CASE Answer(s)
    <2>1. pc'[s] # "show" /\ mem'[s] = NoMemory /\ item' = item
      BY <1>12 DEF Answer, Leave, Goto, TypeOK, counts
    <2>2. CASE mem[s].applied
      BY <1>12, <2>1, <2>2 DEF Answer, Forget, Empty, NoMemory, TypeOK
    <2>3. CASE ~mem[s].applied
      BY <1>12, <2>1, <2>3 DEF Answer, Forget, NoMemory, TypeOK
    <2> QED BY <2>2, <2>3
  <1>13. CASE CrashServer(s)
    BY <1>13 DEF CrashServer, Leave, Goto, NoMemory, Empty, TypeOK
  <1> QED BY <1>1, <1>2, <1>3, <1>4, <1>5, <1>6, <1>7, <1>8, <1>9, <1>10, <1>11, <1>12, <1>13
          DEF Serve, Show, ReadItem, history

LEMMA PolicyStep ==
    ASSUME TypeOK, NEW s \in Servers, Serve(s), Next, StageOf(s), AgesOf(s), PolicyOf(s)
    PROVE  PolicyOf(s)'
  <1> USE Typed DEF PolicyOf, Recording
  <1>1. CASE pc'[s] \in {"idle", "show", "scan", "parse", "answer", "fill item"}
    BY <1>1
  <1>2. CASE Parse(s) /\ pc'[s] = "decide"
    BY <1>2 DEF Parse, Leave, Goto, TypeOK
  <1>3. CASE Decide(s)
    <2> DEFINE yes == <<cache[s].content.state, Target[mem[s].decision]>> \in Legal
    <2>1. PICK q \in Paths : mem' = [mem EXCEPT ![s].at = q, ![s].accepted = yes]
      BY <1>3 DEF Decide
    <2>2. /\ mem'[s].accepted = yes /\ mem'[s].decision = mem[s].decision
          /\ mem'[s].began = mem[s].began
      <3> HIDE DEF yes
      <3> QED BY <2>1 DEF TypeOK, Memory
    <2>3. pc[s] = "decide" /\ pc'[s] = "open record" /\ item' = item
      BY <1>3 DEF Decide, Goto, TypeOK
    <2> QED BY <2>2, <2>3
  <1>4. CASE OpenRecord(s) \/ FillRecord(s)
    BY <1>4 DEF OpenRecord, FillRecord, AfterRecord, Goto, TypeOK
  <1>5. CASE ReadItem(s) /\ pc'[s] = "open item"
    <2>1. mem' = [mem EXCEPT ![s].copy = Applied(item.content, mem[s])] /\ item' = item
      BY <1>5 DEF ReadItem, Leave, Goto, TypeOK
    <2>2. mem'[s].copy = Applied(item.content, mem[s]) /\ mem'[s].began = mem[s].began
      BY <2>1 DEF TypeOK, Memory
    <2>3. pc[s] = "read item" /\ mem[s].accepted /\ ~mem[s].applied
      BY <1>5 DEF ReadItem, StageOf, Writing
    <2>4. item.content.form = "item" => Applied(item.content, mem[s]).state = Target[mem[s].decision]
      BY DEF Applied, Contents
    <2> QED BY <1>5, <2>1, <2>2, <2>3, <2>4
  <1>6. CASE Refresh(s)
    BY <1>6 DEF Refresh, TypeOK
  <1>7. CASE FillItem(s)
    <2>1. mem'[s].applied /\ pc'[s] = "open record"
      <3> DEFINE v == item'.version
      <3>1. mem' = [mem EXCEPT ![s].applied = TRUE, ![s].wrote = v]
        BY <1>7 DEF FillItem
      <3> HIDE DEF v
      <3>2. mem'[s].applied
        BY <3>1 DEF TypeOK, Memory
      <3> QED BY <1>7, <3>2 DEF FillItem, Goto, TypeOK
    <2> QED BY <2>1
  <1> QED BY <1>1, <1>2, <1>3, <1>4, <1>5, <1>6, <1>7
          DEF Serve, Scan, Parse, StartView, Show, StartSubmit, ReadItem, OpenItem, Answer,
              CrashServer, Leave, Goto, TypeOK

SeenInv == TypeInv /\ AgesInv /\ PolicyInv

LEMMA SeenInit == Init => SeenInv
  <1>1. Init => TypeInv
    BY TypeInit DEF Init, TypeInv, StageInv, StageOf, NoMemory, Recording, Writing, Judged
  <1>2. Init => AgesInv /\ PolicyInv
    BY DEF Init, AgesInv, AgesOf, PolicyInv, PolicyOf, NoMemory, Empty, Recording
  <1> QED BY <1>1, <1>2 DEF SeenInv

LEMMA SeenStep == ASSUME SeenInv, [Next]_vars PROVE SeenInv'
  <1>1. TypeInv /\ TypeInv' /\ TypeOK /\ TypeOK'
    BY TypeStep DEF SeenInv, TypeInv
  <1>2. ASSUME Next, NEW t \in Servers,
               pc'[t] = pc[t] /\ mem'[t] = mem[t] /\ cache'[t] = cache[t] /\ own'[t] = own[t]
        PROVE  AgesOf(t)' /\ PolicyOf(t)'
    <2>4. AgesOf(t) /\ PolicyOf(t)
      BY DEF SeenInv, AgesInv, PolicyInv
    <2>5. /\ own[t] \in Nat /\ mem[t].wrote \in Nat /\ mem[t].began \in Nat
          /\ item.version \in Nat /\ item'.version \in Nat /\ item'.version >= item.version
      BY <1>1, <1>2, NotOlder, Typed, Versions
    <2>1. AgesOf(t)'
      BY <1>2, <2>4, <2>5 DEF AgesOf
    <2>2. CASE item' = item
      BY <1>2, <2>1, <2>2, <2>4 DEF PolicyOf
    <2>3. CASE item'.version = item.version + 1
      <3>1. item'.version # mem[t].began
        BY <2>3, <2>4, <2>5 DEF AgesOf
      <3> QED BY <1>2, <2>1, <3>1 DEF PolicyOf
    <2> QED BY <1>1, <1>2, <2>1, <2>2, <2>3, ItemGrows
  <1>3. CASE UNCHANGED vars
    BY <1>1, <1>3 DEF vars, history, SeenInv, AgesInv, AgesOf, PolicyInv, PolicyOf
  <1>4. CASE Next /\ Outside
    BY <1>1, <1>2, <1>4, OutsideLocals DEF SeenInv, AgesInv, PolicyInv, history
  <1>5. ASSUME Next, NEW s \in Servers, Serve(s), NEW t \in Servers
        PROVE  AgesOf(t)' /\ PolicyOf(t)'
    <2>1. CASE t = s
      BY <1>1, <1>5, <2>1, AgesStep, PolicyStep
         DEF SeenInv, TypeInv, StageInv, AgesInv, PolicyInv
    <2>2. CASE t # s
      BY <1>1, <1>2, <1>5, <2>2, Others
    <2> QED BY <2>1, <2>2
  <1> QED BY <1>1, <1>3, <1>4, <1>5, Split DEF SeenInv, AgesInv, PolicyInv

\* A reviewer never sees an item older than the decision that was answered, with any
\* number of servers and commands on the same files.
THEOREM OwnDecisionsAreShown == Spec => []OwnDecisionIsShown
  <1>1. SeenInv => OwnDecisionIsShown
    BY DEF SeenInv, AgesInv, AgesOf, OwnDecisionIsShown
  <1> QED BY <1>1, SeenInit, SeenStep, PTL DEF Spec

\* The state that a decision sets is one the state machine allows, unless somebody
\* wrote the item since the request came in.
THEOREM PolicyIsAsked == Spec => PolicySawTheFile
  <1>1. ASSUME SeenInv, [Next]_vars
        PROVE  [\A s \in Servers :
                  pc[s] = "open item" /\ pc'[s] = "fill item" /\ item.version = mem[s].began
                  => <<item.content.state, mem[s].copy.state>> \in Legal]_vars
    BY <1>1 DEF SeenInv, PolicyInv, PolicyOf
  <1> QED BY <1>1, SeenInit, SeenStep, PTL DEF Spec, PolicySawTheFile
-------------------------------------------------------------------------------
(* Lines and records, with one server *)

RecordsInv == Numbered /\ NamesInv /\ LineHasRecord /\ RecordsAreTrue

LEMMA RequestTypes ==
    ASSUME TypeOK, Numbered, NEW s \in Servers
    PROVE  /\ requests \in Nat /\ mem[s].request \in 0..requests
           /\ \A q \in Paths : records[q] \in Record /\ records[q].request \in 0..requests
  <1>1. mem[s].request \in Nat
    BY Typed, Small DEF Memory
  <1>2. \A q \in Paths : records[q] \in Record /\ records[q].request \in Nat
    BY Small DEF TypeOK, Record
  <1> QED BY <1>1, <1>2, Small DEF TypeOK, Numbered

\* The steps between a request's record and its item touch no record.
LEMMA QuietStep ==
    ASSUME TypeOK, RecordsInv, Alone, NEW s \in Servers, StageOf(s), RequestOf(s),
           UNCHANGED <<records, wrote, answered>>, requests' \in Nat, requests' >= requests,
           mem'[s].request \in 0..requests', RequestOf(s)'
    PROVE  RecordsInv' /\ RequestsInv'
  <1>1. RequestsInv'
    BY DEF Alone, RequestsInv
  <1>2. Numbered'
    BY RequestTypes DEF RecordsInv, Numbered, Alone
  <1> QED BY <1>1, <1>2 DEF RecordsInv, NamesInv, LineHasRecord, RecordsAreTrue

LEMMA ReadingSteps ==
    ASSUME TypeOK, RecordsInv, Alone, NEW s \in Servers, StageOf(s), RequestOf(s),
           Scan(s) \/ Parse(s) \/ StartView(s) \/ Show(s) \/ Refresh(s) \/ CrashServer(s)
    PROVE  RecordsInv' /\ RequestsInv'
  <1>1. UNCHANGED <<records, wrote, answered, requests>>
    BY DEF Scan, Parse, StartView, Show, Refresh, CrashServer, history, counts
  <1>2. CASE Leave(s)
    <2>1. pc'[s] = "idle" /\ mem'[s].request = 0
      BY <1>2 DEF Leave, Goto, NoMemory, TypeOK
    <2>2. RequestOf(s)'
      BY <2>1 DEF RequestOf, Judged, Recording, Writing
    <2> QED BY <1>1, <2>1, <2>2, QuietStep, RequestTypes DEF RecordsInv
  <1>3. CASE ~Leave(s)
    <2>1. mem'[s].request = mem[s].request
      BY <1>3, Typed
         DEF Scan, Parse, StartView, Show, Refresh, CrashServer, TypeOK, Memory
    <2>2. \/ pc[s] \in {"scan", "parse"} /\ pc'[s] \in {"parse", "show", "decide"}
          \/ pc[s] = "idle" /\ pc'[s] \in {"idle", "scan", "show"}
      BY <1>3 DEF Scan, Parse, StartView, Show, Refresh, CrashServer, Goto, TypeOK
    <2>3. RequestOf(s)'
      BY <1>1, <2>1, <2>2 DEF RequestOf, StageOf, Judged, Recording, Writing
    <2> QED BY <1>1, <2>1, <2>3, QuietStep, RequestTypes DEF RecordsInv
  <1> QED BY <1>2, <1>3

LEMMA JudgingSteps ==
    ASSUME TypeOK, RecordsInv, Alone, NEW s \in Servers, StageOf(s), RequestOf(s),
           (\E d \in Decisions : StartSubmit(s, d)) \/ Decide(s)
    PROVE  RecordsInv' /\ RequestsInv'
  <1>1. CASE \E d \in Decisions : StartSubmit(s, d)
    <2>1. /\ pc'[s] = "scan" /\ mem'[s].request = requests + 1 /\ requests' = requests + 1
          /\ UNCHANGED <<records, wrote, answered>>
      BY <1>1 DEF StartSubmit, Accepted, NoMemory, Goto, TypeOK, history
    <2>2. /\ requests + 1 \notin wrote \cup answered
          /\ \A q \in Paths : records[q].request # requests + 1
      BY RequestTypes DEF RecordsInv, Numbered
    <2>3. RequestOf(s)'
      BY <2>1, <2>2 DEF RequestOf, Judged, Recording, Writing
    <2> QED BY <2>1, <2>3, QuietStep, RequestTypes DEF RecordsInv
  <1>2. CASE Decide(s)
    <2> DEFINE yes == <<cache[s].content.state, Target[mem[s].decision]>> \in Legal
    <2>1. PICK q \in Paths : /\ UniqueJsonPath(q, mem[s].decision)
                             /\ mem' = [mem EXCEPT ![s].at = q, ![s].accepted = yes]
      BY <1>2 DEF Decide
    <2> HIDE DEF yes
    <2>2. mem'[s].at = q /\ mem'[s].applied = mem[s].applied /\ mem'[s].request = mem[s].request
      BY <2>1 DEF TypeOK, Memory
    <2>3. /\ pc[s] = "decide" /\ pc'[s] = "open record" /\ records[q].form = "none"
          /\ UNCHANGED <<records, wrote, answered, requests>>
      BY <1>2, <2>1 DEF Decide, Goto, TypeOK, UniqueJsonPath, history, counts
    <2>4. mem[s].request # 0 /\ ~mem[s].applied
      BY <2>3, Positive DEF StageOf, Judged, Recording
    <2>5. RequestOf(s)'
      BY <2>2, <2>3, <2>4 DEF RequestOf, Judged, Recording, Writing
    <2>7. requests \in Nat /\ mem[s].request \in 0..requests
      BY RequestTypes DEF RecordsInv
    <2>8. requests' = requests /\ mem'[s].request = mem[s].request
      BY <2>2, <2>3
    <2>6. requests' \in Nat /\ requests' >= requests /\ mem'[s].request \in 0..requests'
      BY <2>7, <2>8
    <2> QED BY <2>3, <2>5, <2>6, QuietStep
  <1> QED BY <1>1, <1>2

LEMMA CopyingSteps ==
    ASSUME TypeOK, RecordsInv, Alone, NEW s \in Servers, StageOf(s), RequestOf(s),
           ReadItem(s) \/ OpenItem(s)
    PROVE  RecordsInv' /\ RequestsInv'
  <1>1. UNCHANGED <<records, wrote, answered, requests>>
    BY DEF ReadItem, OpenItem, history, counts
  <1>2. CASE Leave(s)
    <2>1. pc'[s] = "idle" /\ mem'[s].request = 0
      BY <1>2 DEF Leave, Goto, NoMemory, TypeOK
    <2>2. RequestOf(s)'
      BY <2>1 DEF RequestOf, Judged, Recording, Writing
    <2> QED BY <1>1, <2>1, <2>2, QuietStep, RequestTypes DEF RecordsInv
  <1>3. CASE ~Leave(s)
    <2>1. /\ pc[s] \in {"read item", "open item"} /\ pc'[s] \in {"open item", "fill item"}
          /\ mem' = mem \/ mem' = [mem EXCEPT ![s].copy = Applied(item.content, mem[s])]
      BY <1>3 DEF ReadItem, OpenItem, Goto, TypeOK
    <2>2. /\ mem'[s].at = mem[s].at /\ mem'[s].applied = mem[s].applied
          /\ mem'[s].request = mem[s].request /\ mem'[s].accepted = mem[s].accepted
      <3> DEFINE copy == Applied(item.content, mem[s])
      <3>1. CASE mem' = [mem EXCEPT ![s].copy = copy]
        <4> HIDE DEF copy
        <4> QED BY <3>1 DEF TypeOK, Memory
      <3> QED BY <2>1, <3>1
    <2>3. RequestOf(s)'
      BY <1>1, <2>1, <2>2 DEF RequestOf, Judged, Recording, Writing
    <2> QED BY <1>1, <2>2, <2>3, QuietStep, RequestTypes DEF RecordsInv
  <1> QED BY <1>2, <1>3

LEMMA OpenRecordStep ==
    ASSUME TypeOK, RecordsInv, Alone, NEW s \in Servers, StageOf(s), RequestOf(s), OpenRecord(s)
    PROVE  RecordsInv' /\ RequestsInv'
  <1> DEFINE m == mem[s]
  <1>1. /\ pc[s] = "open record" /\ pc'[s] = "fill record" /\ mem' = mem /\ m.at \in Paths
        /\ UNCHANGED <<wrote, answered, requests>>
    BY DEF OpenRecord, Goto, TypeOK, StageOf, Judged, Recording, history, counts
  <1>2. /\ records'[m.at].form = "torn" /\ records'[m.at].request = m.request
        /\ \A q \in Paths : q # m.at => records'[q] = records[q]
    BY <1>1 DEF OpenRecord, NoRecord, TypeOK
  <1>3. \/ m.applied /\ m.request \in wrote /\ records[m.at].request = m.request
        \/ ~m.applied /\ records[m.at].form = "none"
    BY <1>1 DEF RequestOf, Judged, Recording
  <1>4. m.request \notin answered
    BY <1>1 DEF RequestOf, Judged, Recording
  <1> HIDE DEF m
  <1>5. Numbered'
    BY <1>1, <1>2, RequestTypes DEF RecordsInv, Numbered, m
  <1>6. NamesInv'
    BY <1>2 DEF RecordsInv, NamesInv
  <1>7. ASSUME NEW n \in wrote
        PROVE  \E q \in Paths : records'[q].form # "none" /\ records'[q].request = n
    <2>1. PICK q \in Paths : records[q].form # "none" /\ records[q].request = n
      BY DEF RecordsInv, LineHasRecord
    <2>2. records'[q].form # "none" /\ records'[q].request = n
      BY <1>2, <1>3, <2>1
    <2> QED BY <2>2
  <1>8. ASSUME NEW n \in answered
        PROVE  \E q \in Paths : /\ records'[q].form = "written" /\ records'[q].request = n
                                /\ records'[q].outcome = "applied" <=> n \in wrote
    <2>1. PICK q \in Paths : /\ records[q].form = "written" /\ records[q].request = n
                             /\ records[q].outcome = "applied" <=> n \in wrote
      BY DEF RecordsInv, RecordsAreTrue
    <2>2. q # m.at
      BY <1>3, <1>4, <2>1
    <2> QED BY <1>2, <2>1, <2>2
  <1>10. ASSUME NEW q \in Paths, records'[q].form = "written"
         PROVE  /\ records'[q].outcome = "applied" => records'[q].request \in wrote
                /\ records'[q].policy # "accepted" => records'[q].request \notin wrote
    BY <1>2, <1>10 DEF RecordsInv, RecordsAreTrue
  <1>11. LineHasRecord' /\ RecordsAreTrue'
    BY <1>1, <1>7, <1>8, <1>10 DEF LineHasRecord, RecordsAreTrue
  <1>9. RequestOf(s)'
    BY <1>1, <1>2 DEF RequestOf, Judged, Recording, Writing, m
  <1> QED BY <1>5, <1>6, <1>9, <1>11 DEF RecordsInv, RequestsInv, Alone

LEMMA FillRecordStep ==
    ASSUME TypeOK, RecordsInv, Alone, NEW s \in Servers, StageOf(s), RequestOf(s), FillRecord(s)
    PROVE  RecordsInv' /\ RequestsInv'
  <1> DEFINE m == mem[s]
  <1>1. /\ pc[s] = "fill record" /\ mem' = mem /\ m.at \in Paths
        /\ pc'[s] = AfterRecord(m)
        /\ UNCHANGED <<wrote, answered, requests>>
    BY DEF FillRecord, Goto, TypeOK, StageOf, Judged, Recording, history, counts
  <1>2. /\ records'[m.at] = RecordOf(m)
        /\ \A q \in Paths : q # m.at => records'[q] = records[q]
    BY <1>1 DEF FillRecord, TypeOK
  <1>3. /\ records[m.at].form = "torn" /\ records[m.at].request = m.request
        /\ m.request \notin answered /\ (m.applied <=> m.request \in wrote)
        /\ (m.applied => m.accepted)
    BY <1>1 DEF RequestOf, StageOf, Judged, Recording
  <1>4. m.accepted => Target[m.decision] # "none"
    BY <1>1 DEF StageOf, Judged, Recording, States
  <1>5. /\ RecordOf(m).form = "written" /\ RecordOf(m).request = m.request
        /\ RecordOf(m).policy = "accepted" <=> m.accepted
        /\ RecordOf(m).outcome = "applied" <=> m.applied
    BY <1>4 DEF RecordOf
  <1>6. pc'[s] \in {"read item", "answer"}
    BY <1>1 DEF AfterRecord
  <1> HIDE DEF m
  <1>7. Numbered'
    BY <1>1, <1>2, <1>5, RequestTypes DEF RecordsInv, Numbered, m
  <1>8. NamesInv'
    BY <1>2, <1>5 DEF RecordsInv, NamesInv
  <1>9. ASSUME NEW n \in wrote
        PROVE  \E q \in Paths : records'[q].form # "none" /\ records'[q].request = n
    <2>1. PICK q \in Paths : records[q].form # "none" /\ records[q].request = n
      BY DEF RecordsInv, LineHasRecord
    <2>2. records'[q].form # "none" /\ records'[q].request = n
      BY <1>2, <1>3, <1>5, <2>1
    <2> QED BY <2>2
  <1>10. ASSUME NEW n \in answered
         PROVE  \E q \in Paths : /\ records'[q].form = "written" /\ records'[q].request = n
                                 /\ records'[q].outcome = "applied" <=> n \in wrote
    <2>1. PICK q \in Paths : /\ records[q].form = "written" /\ records[q].request = n
                             /\ records[q].outcome = "applied" <=> n \in wrote
      BY DEF RecordsInv, RecordsAreTrue
    <2>2. q # m.at
      BY <1>3, <2>1
    <2> QED BY <1>2, <2>1, <2>2
  <1>12. ASSUME NEW q \in Paths, records'[q].form = "written"
         PROVE  /\ records'[q].outcome = "applied" => records'[q].request \in wrote
                /\ records'[q].policy # "accepted" => records'[q].request \notin wrote
    <2>1. CASE q = m.at
      BY <1>2, <1>3, <1>5, <2>1
    <2>2. CASE q # m.at
      BY <1>2, <1>12, <2>2 DEF RecordsInv, RecordsAreTrue
    <2> QED BY <2>1, <2>2
  <1>13. LineHasRecord'
    BY <1>1, <1>9 DEF LineHasRecord
  <1>14. RecordsAreTrue'
    BY <1>1, <1>10, <1>12 DEF RecordsAreTrue
  <1>11. RequestOf(s)'
    BY <1>1, <1>2, <1>3, <1>5, <1>6 DEF RequestOf, Judged, Recording, Writing, m
  <1> QED BY <1>7, <1>8, <1>11, <1>13, <1>14 DEF RecordsInv, RequestsInv, Alone

LEMMA FillItemStep ==
    ASSUME TypeOK, RecordsInv, Alone, NEW s \in Servers, StageOf(s), RequestOf(s), FillItem(s)
    PROVE  RecordsInv' /\ RequestsInv'
  <1> DEFINE m == mem[s]
             v == item'.version
  <1>1. /\ pc[s] = "fill item" /\ pc'[s] = "open record" /\ wrote' = wrote \cup {m.request}
        /\ mem' = [mem EXCEPT ![s].applied = TRUE, ![s].wrote = v]
        /\ UNCHANGED <<records, answered, requests>>
    BY DEF FillItem, Goto, TypeOK, counts
  <1> HIDE DEF v
  <1>2. /\ mem'[s].at = m.at /\ mem'[s].applied /\ mem'[s].request = m.request
        /\ mem'[s].accepted = m.accepted
    BY <1>1 DEF TypeOK, Memory
  <1>3. /\ m.accepted /\ m.at \in Paths /\ m.request \in Requests /\ m.request \notin answered
        /\ records[m.at].form = "written" /\ records[m.at].request = m.request
        /\ records[m.at].policy = "accepted"
        /\ \A q \in Paths : records[q].request = m.request => q = m.at
    BY <1>1 DEF RequestOf, StageOf, Judged, Writing
  <1>4. m.request \in 1..requests
    BY <1>3, RequestTypes DEF RecordsInv, Requests
  <1> HIDE DEF m
  <1>5. Numbered'
    BY <1>1, <1>2, <1>4, RequestTypes DEF RecordsInv, Numbered, Alone, m
  <1>6. NamesInv' /\ LineHasRecord'
    BY <1>1, <1>3 DEF RecordsInv, NamesInv, LineHasRecord
  <1>8. ASSUME NEW n \in answered
        PROVE  \E q \in Paths : /\ records[q].form = "written" /\ records[q].request = n
                                /\ records[q].outcome = "applied" <=> n \in wrote'
    <2>1. n # m.request
      BY <1>3
    <2>2. n \in wrote' <=> n \in wrote
      BY <1>1, <2>1
    <2> QED BY <2>2 DEF RecordsInv, RecordsAreTrue
  <1>9. ASSUME NEW q \in Paths, records[q].form = "written"
        PROVE  /\ records[q].outcome = "applied" => records[q].request \in wrote'
               /\ records[q].policy # "accepted" => records[q].request \notin wrote'
    BY <1>1, <1>3, <1>9 DEF RecordsInv, RecordsAreTrue
  <1>10. RecordsAreTrue'
    BY <1>1, <1>8, <1>9 DEF RecordsAreTrue
  <1>11. mem'[s].request \notin answered' /\ mem'[s].request \in wrote'
    <2>1. mem'[s].request = m.request
      BY <1>2
    <2>2. answered' = answered /\ wrote' = wrote \cup {m.request}
      BY <1>1
    <2>3. m.request \notin answered
      BY <1>3
    <2> QED BY <2>1, <2>2, <2>3
  <1>12. \A q \in Paths : records'[q].request = mem'[s].request => q = mem'[s].at
    BY <1>1, <1>2, <1>3
  <1>13. records'[mem'[s].at].request = mem'[s].request
    BY <1>1, <1>2, <1>3
  <1>7. RequestOf(s)'
    <2>1. pc'[s] = "open record"
      BY <1>1
    <2>2. mem'[s].applied
      BY <1>2
    <2> QED BY <2>1, <2>2, <1>11, <1>12, <1>13, Zenon DEF RequestOf, Judged, Recording, Writing
  <1> QED BY <1>5, <1>6, <1>7, <1>10 DEF RecordsInv, RequestsInv, Alone

LEMMA AnswerStep ==
    ASSUME TypeOK, RecordsInv, Alone, NEW s \in Servers, StageOf(s), RequestOf(s), Answer(s)
    PROVE  RecordsInv' /\ RequestsInv'
  <1> DEFINE m == mem[s]
  <1>1. /\ pc[s] = "answer" /\ pc'[s] = "idle" /\ mem'[s].request = 0
        /\ answered' = answered \cup {m.request}
        /\ UNCHANGED <<records, wrote, requests>>
    BY DEF Answer, Leave, Goto, NoMemory, TypeOK, counts
  <1>2. /\ m.at \in Paths /\ m.request \in Requests
        /\ records[m.at].form = "written" /\ records[m.at].request = m.request
        /\ records[m.at].outcome = "applied" <=> m.request \in wrote
    BY <1>1 DEF RequestOf, StageOf, Judged
  <1>3. m.request \in 1..requests
    BY <1>2, RequestTypes DEF RecordsInv, Requests
  <1> HIDE DEF m
  <1>7. wrote' \subseteq 1..requests' /\ answered' \subseteq 1..requests'
    BY <1>1, <1>3 DEF RecordsInv, Numbered
  <1>8. mem'[s].request <= requests'
    BY <1>1, RequestTypes DEF RecordsInv
  <1>4. Numbered'
    BY <1>1, <1>7, <1>8 DEF RecordsInv, Numbered, Alone
  <1>5. NamesInv' /\ LineHasRecord' /\ RecordsAreTrue'
    BY <1>1, <1>2 DEF RecordsInv, NamesInv, LineHasRecord, RecordsAreTrue
  <1>6. RequestOf(s)'
    BY <1>1 DEF RequestOf, Judged, Recording, Writing
  <1> QED BY <1>4, <1>5, <1>6 DEF RecordsInv, RequestsInv, Alone

LEMMA IInvInit == Init => IInv
  <1>1. Init => SeenInv
    BY SeenInit
  <1>2. Init => RecordsInv /\ RequestsInv
    BY Small DEF Init, RecordsInv, Numbered, NamesInv, LineHasRecord, RecordsAreTrue, RequestsInv,
       RequestOf, NoRecord, NoMemory, Judged, Recording, Writing
  <1> QED BY <1>1, <1>2 DEF SeenInv, TypeInv, RecordsInv, IInv

LEMMA IInvStep == ASSUME Alone, IInv, [Next]_vars PROVE IInv'
  <1>1. SeenInv /\ SeenInv' /\ RecordsInv /\ RequestsInv /\ TypeOK
    BY SeenStep DEF IInv, SeenInv, TypeInv, RecordsInv
  <1>2. CASE UNCHANGED vars \/ Outside
    <2>1. UNCHANGED <<records, pc, mem, wrote, answered>>
      BY <1>2, OutsideLocals DEF vars, history
    <2>2. requests' = requests
      BY <1>2 DEF vars, counts, Outside, CopyItem, OpenFile, FillFile, CrashCommand, TrashItem, Tick
    <2>3. RequestsInv'
      BY <1>1, <2>1 DEF RequestsInv, RequestOf
    <2>4. Numbered' /\ NamesInv' /\ LineHasRecord' /\ RecordsAreTrue'
      BY <1>1, <2>1, <2>2 DEF RecordsInv, Numbered, NamesInv, LineHasRecord, RecordsAreTrue
    <2> QED BY <1>1, <2>3, <2>4 DEF SeenInv, TypeInv, IInv
  <1>3. ASSUME NEW s \in Servers, Serve(s) PROVE IInv'
    <2>1. StageOf(s) /\ RequestOf(s)
      BY <1>1 DEF SeenInv, TypeInv, StageInv, RequestsInv
    <2>2. RecordsInv' /\ RequestsInv'
      BY <1>1, <1>3, <2>1, ReadingSteps, JudgingSteps, CopyingSteps, OpenRecordStep,
         FillRecordStep, FillItemStep, AnswerStep DEF Serve
    <2> QED BY <1>1, <2>2 DEF RecordsInv, SeenInv, TypeInv, IInv
  <1> QED BY <1>2, <1>3, Split

\* Everything above is an invariant when one process serves the web view.
THEOREM Invariance == ASSUME Alone PROVE Spec => []IInv
  BY IInvInit, IInvStep, PTL DEF Spec

\* Whoever asked for a change of an item has a record, wherever the server dies.
THEOREM LinesHaveRecords == ASSUME Alone PROVE Spec => []LineHasRecord
  <1>1. IInv => LineHasRecord
    BY DEF IInv
  <1> QED BY <1>1, Invariance, PTL

\* A record tells what was done to the item, for any number of requests, of commands
\* beside them and of deaths.
THEOREM RecordsStayTrue == ASSUME Alone PROVE Spec => []RecordsAreTrue
  <1>1. IInv => RecordsAreTrue
    BY DEF IInv
  <1> QED BY <1>1, Invariance, PTL
===============================================================================
