-------------------------- MODULE MetadataIndexProofs --------------------------
(***************************************************************************)
(* Theorems of MetadataIndex for any files, processes, operations and       *)
(* bounds: type correctness; that a ready snapshot under the current        *)
(* receipt describes the files; that what is published, or validated by a   *)
(* query, was the state of all files at one moment although the files are   *)
(* read in turn; and that a revision names one content until a process has  *)
(* written the snapshot row on from a revision that was not its own.  And   *)
(* for one process that changes items or the index, with any number of      *)
(* queries beside it: a healthy snapshot is not demoted, and a query        *)
(* returns what the files had.                                              *)
(***************************************************************************)
EXTENDS MetadataIndex, TLAPS

\* The file that the holder of the receipt lock has changed, or will change,
\* without having stamped the receipt.
Touched == {s \in Sources : \E w \in Workers : revLock = w /\ s \in mem[w].source}

\* The files w has still to read in its (first) scan.
Unread(w) == IF pc[w] = "scan" THEN mem[w].todo ELSE {}

\* w works with a scan that it began under the receipt mem[w].stamp.
Follows(w) ==
    \/ pc[w] = "scan" /\ mem[w].op # "doctor"
    \/ pc[w] \in {"rescan", "snapshot", "commit"} /\ mem[w].op = "rebuild"
    \/ pc[w] = "commit" /\ mem[w].op \in {"write", "delete"} /\ mem[w].valid
    \/ pc[w] = "fence" /\ mem[w].op = "query"

Unmoved(w) == receipt.current = mem[w].stamp.current

\* As long as the receipt has not moved, what w has read is still in the files.
Fresh(w) ==
    Follows(w) /\ Unmoved(w) =>
        \A s \in Sources \ Unread(w) :
            mem[w].first[s] = files[s] \/ s \in drift \/ s \in Touched

\* f is what w has read so far, and what the files are but for the touched one.
Fits(w, f) ==
    \A s \in Sources : /\ s \notin Unread(w) => mem[w].first[s] = f[s]
                       /\ f[s] = files[s] \/ s \in Touched

\* And it was in the files at one moment.
Moment(w) ==
    Follows(w) /\ Unmoved(w) /\ drift = {} => \E f \in seen[w] : Fits(w, f)

\* A mutation that has passed its fence keeps what it has proved.
Fenced(w) ==
    /\ \/ pc[w] \in {"rescan", "snapshot", "commit"} /\ mem[w].op = "rebuild"
       \/ pc[w] = "commit" /\ mem[w].op \in {"write", "delete"} /\ mem[w].valid
    /\ drift = {}
    => mem[w].first \in seen[w]

\* What w holds; a rebuild and a commit hold no content that does not parse.
Held(w) ==
    /\ mem[w].row \in Nat
    /\ mem[w].op = "rebuild" => mem[w].first \in [Sources -> Nat]
    /\ mem[w].stamp.current <= stamps /\ mem[w].before.cwr <= stamps
    /\ mem[w].op \in {"write", "delete"} /\ pc[w] # "commit" => ~mem[w].valid
    /\ pc[w] = "fence" /\ mem[w].op = "query" /\ mem[w].valid =>
         mem[w].before.content = mem[w].first
    /\ pc[w] \in {"readback", "recheck"} => mem[w].op \in {"write", "delete"}
    /\ pc[w] # "idle" => files \in seen[w]

\* The lock of the receipt is held from the change of a file to the stamp.
Locked(w) ==
    /\ revLock = w <=> pc[w] \in {"fill", "stamp"}
    /\ pc[w] \in {"fill", "stamp"} =>
         /\ mem[w].op \in {"write", "delete"}
         /\ \E s \in Sources : mem[w].source = {s}

WorkerOK(w) == Held(w) /\ Locked(w) /\ Fresh(w) /\ Moment(w) /\ Fenced(w)

\* A ready snapshot under the current receipt describes the files.
SnapshotOK ==
    /\ receipt.current <= stamps /\ snap.cwr <= stamps
    /\ snap.status = "ready" /\ snap.cwr = receipt.current =>
         \A s \in Sources : rows[s] = files[s] \/ s \in drift \/ s \in Touched

IInv == TypeOK /\ SnapshotOK /\ \A w \in Workers : WorkerOK(w)

-------------------------------------------------------------------------------
(* Types *)

\* The types of what all processes share.
Typed ==
    /\ files \in Files /\ rows \in [Sources -> Nat]
    /\ receipt \in Receipt
    /\ revLock \in Workers \cup {Nobody}
    /\ snap \in Snapshot
    /\ drift \subseteq Sources /\ served \in BOOLEAN
    /\ versions \in Nat /\ stamps \in Nat /\ epochs \in Nat /\ mishaps \in Nat

\* A step of w touches no other process.
Apart(w) ==
    /\ pc' \in [Workers -> Steps] /\ mem' \in [Workers -> Memory]
    /\ \A v \in Workers : v # w => pc'[v] = pc[v] /\ mem'[v] = mem[v]

\* Initial values are in their types.
LEMMA BlankType ==
  /\ NoFiles \in Files /\ NoFiles \in [Sources -> Nat]
  /\ NoReceipt \in Receipt /\ NoSnapshot \in Snapshot /\ NoMemory \in Memory
<1>1. NoFiles \in Files /\ NoFiles \in [Sources -> Nat]
  BY DEF NoFiles, Files, Contents, Absent
<1>2. NoReceipt \in Receipt
  BY DEF NoReceipt, Receipt, NoStamp, Absent
<1>3. NoSnapshot \in Snapshot
  BY <1>1 DEF NoSnapshot, Snapshot, NoStamp
<1>4. NoMemory \in Memory
  BY <1>1, <1>2, <1>3 DEF NoMemory, Memory, Operations, Contents, Absent
<1> QED BY <1>1, <1>2, <1>3, <1>4

\* What the invariant says of the parts.
LEMMA Parts ==
  IInv <=> /\ Typed /\ SnapshotOK
           /\ pc \in [Workers -> Steps] /\ mem \in [Workers -> Memory]
           /\ \A w \in Workers : seen[w] \subseteq Files
           /\ \A p \in published : p.content \in Files
           /\ forked \in BOOLEAN
           /\ \A w \in Workers : WorkerOK(w)
  BY DEF IInv, TypeOK, Typed

\* The witnesses of a step are in their types, and remember its files.
LEMMA Witnessed ==
  ASSUME IInv, Typed', Witness
  PROVE  /\ \A w \in Workers : seen'[w] \subseteq Files
         /\ \A p \in published' : p.content \in Files
         /\ forked' \in BOOLEAN
         /\ \A w \in Workers : pc'[w] # "idle" =>
              seen[w] \subseteq seen'[w] /\ {files, files'} \subseteq seen'[w]
<1>1. \A w \in Workers :
        seen'[w] = IF pc'[w] = "idle" THEN {} ELSE seen[w] \cup {files, files'}
  BY DEF Witness
<1>2. files \in Files /\ files' \in Files /\ snap'.content \in Files
  BY Parts DEF Typed, Snapshot
<1>3. \A p \in published' : p.content \in Files
  <2> SUFFICES ASSUME NEW p \in published' PROVE p.content \in Files
    OBVIOUS
  <2>1. p \in published \/ p = [epoch |-> snap'.epoch, content |-> snap'.content,
                                generation |-> snap'.generation]
    BY DEF Witness
  <2> QED BY <1>2, <2>1, Parts
<1>4. forked' \in BOOLEAN
  BY DEF Witness
<1> QED BY <1>1, <1>2, <1>3, <1>4, Parts

-------------------------------------------------------------------------------
(* What a step of another process may do to a scan *)

\* Files change only where the receipt will say so, or drift does.
Honest ==
    /\ drift \subseteq drift' /\ stamps <= stamps'
    /\ \/ receipt'.current > stamps
       \/ /\ receipt'.current = receipt.current
          /\ \A s \in Sources :
               /\ files'[s] = files[s] \/ s \in Touched' \/ s \in drift'
               /\ s \in Touched => s \in Touched' \cup drift'

\* Then whatever the others have found out stays true.
LEMMA OthersOK ==
  ASSUME IInv, Typed', Witness, Honest, NEW v \in Workers,
         pc'[v] = pc[v], mem'[v] = mem[v], (revLock' = v) <=> (revLock = v)
  PROVE  WorkerOK(v)'
<1>1. /\ WorkerOK(v) /\ mem[v] \in Memory /\ stamps \in Nat /\ stamps' \in Nat
      /\ receipt.current \in Nat /\ receipt'.current \in Nat
      /\ mem[v].stamp.current \in Nat /\ mem[v].before.cwr \in Nat
  BY Parts DEF Typed, Memory, Receipt, Snapshot
<1>2. pc'[v] # "idle" => seen[v] \subseteq seen'[v] /\ files' \in seen'[v]
  BY Witnessed
<1>3. Held(v)'
  BY <1>1, <1>2 DEF WorkerOK, Held, Honest
<1>4. Locked(v)'
  BY <1>1 DEF WorkerOK, Locked
<1>5. /\ Follows(v)' <=> Follows(v)
      /\ Unread(v)' = Unread(v)
      /\ Follows(v) => pc[v] # "idle"
  BY DEF Follows, Unread
<1>6. Unmoved(v)' =>
        /\ Unmoved(v)
        /\ \A s \in Sources :
             /\ files'[s] = files[s] \/ s \in Touched' \/ s \in drift'
             /\ s \in Touched => s \in Touched' \cup drift'
  BY <1>1 DEF Unmoved, Honest, WorkerOK, Held
<1>7. Fresh(v)'
  BY <1>1, <1>5, <1>6 DEF WorkerOK, Fresh, Honest
<1>8. Moment(v)'
  <2> SUFFICES ASSUME Follows(v)', Unmoved(v)', drift' = {}
               PROVE  \E f \in seen'[v] : Fits(v, f)'
    BY DEF Moment
  <2>1. PICK f \in seen[v] : Fits(v, f)
    BY <1>1, <1>5, <1>6 DEF WorkerOK, Moment, Honest
  <2>2. Fits(v, f)'
    BY <1>5, <1>6, <2>1 DEF Fits
  <2> QED BY <1>2, <1>5, <2>1, <2>2
<1>9. Fenced(v)'
  BY <1>1, <1>2 DEF WorkerOK, Fenced, Honest
<1> QED BY <1>3, <1>4, <1>7, <1>8, <1>9 DEF WorkerOK

\* The snapshot, unless it is written, stays true as well.
LEMMA SnapshotKept ==
  ASSUME IInv, Typed', Honest, receipt'.current <= stamps', snap'.cwr <= stamps',
         snap'.status = "ready" => UNCHANGED index
  PROVE  SnapshotOK'
<1>1. SnapshotOK /\ stamps \in Nat /\ stamps' \in Nat /\ snap.cwr \in Nat
      /\ receipt.current \in Nat /\ receipt'.current \in Nat
  BY Parts DEF Typed, Receipt, Snapshot
<1>2. CASE receipt'.current > stamps
  BY <1>1, <1>2 DEF SnapshotOK, index
<1>3. CASE receipt'.current = receipt.current
  <2>1. ~(receipt'.current > stamps)
    BY <1>1, <1>3 DEF SnapshotOK
  <2>2. \A s \in Sources :
          /\ files'[s] = files[s] \/ s \in Touched' \/ s \in drift'
          /\ s \in Touched => s \in Touched' \cup drift'
    BY <2>1 DEF Honest
  <2> QED BY <1>1, <1>3, <2>2 DEF SnapshotOK, Honest, index
<1> QED BY <1>2, <1>3 DEF Honest

\* So a step is good when it is honest and its own process is in order.
LEMMA Combine ==
  ASSUME IInv, Typed', Witness, Honest, SnapshotOK', NEW w \in Workers, Apart(w),
         WorkerOK(w)', \A v \in Workers : v # w => ((revLock' = v) <=> (revLock = v))
  PROVE  IInv'
<1>1. \A v \in Workers : WorkerOK(v)'
  <2> SUFFICES ASSUME NEW v \in Workers, v # w PROVE WorkerOK(v)'
    OBVIOUS
  <2> QED BY OthersOK DEF Apart
<1>2. /\ \A v \in Workers : seen'[v] \subseteq Files
      /\ \A p \in published' : p.content \in Files
      /\ forked' \in BOOLEAN
  BY Witnessed
<1>3. pc' \in [Workers -> Steps] /\ mem' \in [Workers -> Memory]
  BY DEF Apart
<1> QED BY <1>1, <1>2, <1>3 DEF IInv, TypeOK, Typed

-------------------------------------------------------------------------------
(* Steps that leave the files, the receipt and its lock alone *)

\* w goes on to s with m in memory; the files are nobody's business.
Moves(w, s, m) ==
    /\ pc[w] \notin {"fill", "stamp"} /\ s \in Steps \ {"fill", "stamp"}
    /\ m \in Memory
    /\ pc' = [pc EXCEPT ![w] = s] /\ mem' = [mem EXCEPT ![w] = m]
    /\ UNCHANGED <<store, drift, versions, stamps, mishaps>>

\* Such a step is honest and leaves locks and other processes as they were.
LEMMA MovesApart ==
  ASSUME IInv, NEW w \in Workers, NEW s, NEW m, Moves(w, s, m)
  PROVE  /\ Apart(w) /\ pc'[w] = s /\ mem'[w] = m
         /\ Touched' = Touched /\ Honest /\ Locked(w)'
         /\ \A v \in Workers : (revLock' = v) <=> (revLock = v)
<1>1. Apart(w) /\ pc'[w] = s /\ mem'[w] = m /\ UNCHANGED <<store, drift, stamps>>
  BY Parts DEF Moves, Apart
<1>2. revLock # w /\ revLock' = revLock
  BY <1>1, Parts DEF Moves, store, WorkerOK, Locked
<1>3. Touched' = Touched
  BY <1>1, <1>2 DEF Touched, Apart
<1>4. Honest
  BY <1>1, <1>3, Parts DEF Honest, store, Typed
<1>5. Locked(w)'
  BY <1>1, <1>2 DEF Locked, Moves
<1> QED BY <1>1, <1>2, <1>3, <1>4, <1>5

\* Where the index is left alone too, only w is to be looked at.
LEMMA Aside ==
  ASSUME IInv, Witness, NEW w \in Workers, NEW s, NEW m, Moves(w, s, m),
         UNCHANGED <<index, epochs>>, served' \in BOOLEAN,
         Held(w)', Fresh(w)', Moment(w)', Fenced(w)'
  PROVE  IInv'
<1>1. Apart(w) /\ Honest /\ Locked(w)'
      /\ \A v \in Workers : (revLock' = v) <=> (revLock = v)
  BY MovesApart
<1>2. Typed'
  BY Parts DEF Moves, Typed, store, index
<1>3. SnapshotOK'
  BY <1>1, <1>2, SnapshotKept, Parts DEF SnapshotOK, Moves, store, index
<1> QED BY <1>1, <1>2, <1>3, Combine DEF WorkerOK

\* A process that is not working with a scan has little to keep.
LEMMA AsideUnbound ==
  ASSUME IInv, Witness, NEW w \in Workers, NEW s, NEW m, Moves(w, s, m),
         UNCHANGED <<index, epochs>>, served' \in BOOLEAN,
         Held(w)', ~Follows(w)'
  PROVE  IInv'
<1>1. Fresh(w)' /\ Moment(w)'
  BY DEF Fresh, Moment
<1>2. Fenced(w)'
  BY DEF Fenced, Follows
<1> QED BY <1>1, <1>2, Aside

\* A process that is done keeps nothing.
LEMMA DoneHolds ==
  ASSUME IInv, NEW w \in Workers, Done(w), stamps' \in Nat
  PROVE  /\ Apart(w) /\ pc'[w] = "idle" /\ mem'[w] = NoMemory
         /\ pc' = [pc EXCEPT ![w] = "idle"] /\ mem' = [mem EXCEPT ![w] = NoMemory]
         /\ Held(w)' /\ ~Follows(w)' /\ Fresh(w)' /\ Moment(w)' /\ Fenced(w)'
<1>1. Apart(w) /\ pc'[w] = "idle" /\ mem'[w] = NoMemory
      /\ pc' = [pc EXCEPT ![w] = "idle"] /\ mem' = [mem EXCEPT ![w] = NoMemory]
  BY Parts, BlankType DEF Done, Goto, Apart, Steps
<1>2. Held(w)'
  BY <1>1 DEF Held, NoMemory, NoReceipt, NoSnapshot, NoStamp, Absent
<1>3. ~Follows(w)'
  BY <1>1 DEF Follows
<1> QED BY <1>1, <1>2, <1>3 DEF Fresh, Moment, Fenced, Follows

\* Neither does it disturb anything, when only its own state goes.
LEMMA AsideDone ==
  ASSUME IInv, Witness, NEW w \in Workers, Done(w), pc[w] \notin {"fill", "stamp"},
         UNCHANGED <<store, index, drift, counts>>, served' \in BOOLEAN
  PROVE  IInv'
<1>1. stamps' \in Nat /\ UNCHANGED epochs
  BY Parts DEF Typed, counts
<1>2. Moves(w, "idle", NoMemory)
  BY <1>1, DoneHolds, BlankType DEF Moves, Steps, counts
<1> QED BY <1>1, <1>2, DoneHolds, AsideUnbound

\* What a reading does: w goes on to another step, with what it has read in memory.
LEMMA GoesOn ==
  ASSUME IInv, NEW w \in Workers, NEW s \in Steps \ {"fill", "stamp"}, NEW m \in Memory,
         pc[w] \notin {"fill", "stamp"},
         pc' = [pc EXCEPT ![w] = s], mem' = [mem EXCEPT ![w] = m],
         UNCHANGED <<store, index, ghosts, counts>>
  PROVE  /\ Moves(w, s, m) /\ pc'[w] = s /\ mem'[w] = m
         /\ UNCHANGED <<index, epochs, stamps, files, receipt, drift>> /\ served' \in BOOLEAN
         /\ mem[w] \in Memory /\ Held(w) /\ Touched' = Touched
         /\ receipt.current <= stamps /\ snap.cwr <= stamps
<1>1. Moves(w, s, m) /\ UNCHANGED <<index, epochs, stamps, files, receipt, drift>>
      /\ served' = served
  BY DEF Moves, store, ghosts, counts
<1>2. pc'[w] = s /\ mem'[w] = m /\ Touched' = Touched
  BY <1>1, MovesApart
<1> QED BY <1>1, <1>2, Parts DEF Typed, WorkerOK, SnapshotOK

\* While its files and the receipt stand still, what w has read still fits.
LEMMA StillFits ==
  ASSUME IInv, Witness, NEW w \in Workers, NEW s, NEW m, Moves(w, s, m), s # "idle",
         Follows(w), Unread(w)' = Unread(w),
         m.first = mem[w].first, m.stamp = mem[w].stamp
  PROVE  Fresh(w)' /\ Moment(w)'
<1>1. /\ WorkerOK(w) /\ mem'[w] = m /\ pc'[w] = s /\ Touched' = Touched
      /\ UNCHANGED <<files, receipt, drift>>
  BY MovesApart, Parts DEF Moves, store
<1>2. seen[w] \subseteq seen'[w]
  BY <1>1 DEF Witness
<1>3. Fresh(w)'
  BY <1>1 DEF WorkerOK, Fresh, Unmoved
<1>4. Moment(w)'
  BY <1>1, <1>2 DEF WorkerOK, Moment, Unmoved, Fits
<1> QED BY <1>3, <1>4

\* A scan that begins has read nothing.
LEMMA BeginsScan ==
  ASSUME Witness, NEW w \in Workers, pc'[w] # "idle", Unread(w)' = Sources
  PROVE  Fresh(w)' /\ Moment(w)'
<1>1. files' \in seen'[w]
  BY DEF Witness
<1>2. Fresh(w)'
  BY DEF Fresh
<1>3. \A t \in Sources : /\ t \notin Unread(w)' => mem'[w].first[t] = files'[t]
                         /\ files'[t] = files'[t] \/ t \in Touched'
  OBVIOUS
<1>4. Moment(w)'
  BY <1>1, <1>3 DEF Moment, Fits
<1> QED BY <1>2, <1>4

\* A scan that is complete, under a receipt that has not moved, was in the files.
LEMMA ScanWasThere ==
  ASSUME IInv, NEW w \in Workers, Follows(w), Unread(w) = {}, Unmoved(w), drift = {}
  PROVE  mem[w].first \in seen[w]
<1>1. PICK f \in seen[w] : Fits(w, f)
  BY Parts DEF WorkerOK, Moment
<1>2. f \in Files /\ mem[w].first \in Files
  BY <1>1, Parts DEF Memory
<1>3. f = mem[w].first
  BY <1>1, <1>2 DEF Fits, Files
<1> QED BY <1>1, <1>3

-------------------------------------------------------------------------------
(* Steps of readers, and of writers between their writes *)

\* A step that remembers is seen by its own process.
LEMMA SeesFiles ==
  ASSUME Witness, NEW w \in Workers, pc'[w] # "idle"
  PROVE  files \in seen'[w] /\ files' \in seen'[w] /\ seen[w] \subseteq seen'[w]
  BY DEF Witness

\* Rebuild, query and doctor begin with nothing read.
LEMMA StartOK ==
  ASSUME IInv, Witness, NEW w \in Workers, UNCHANGED <<store, index, ghosts, counts>>,
         \/ Start(w, "rebuild", {}, "receipt")
         \/ Start(w, "query", {}, "snapshot")
         \/ Start(w, "doctor", {}, "scan")
  PROVE  IInv'
<1>1. PICK op \in Operations, s \in Steps :
        /\ Start(w, op, {}, s)
        /\ op \in {"rebuild", "query", "doctor"} /\ s \in {"receipt", "snapshot", "scan"}
        /\ s = "scan" => op = "doctor"
        /\ s = "snapshot" => op = "query"
  BY DEF Operations, Steps
<1> DEFINE m == [NoMemory EXCEPT !.op = op, !.source = {}]
<1>2. m \in Memory
  BY BlankType DEF Memory
<1>3. /\ Moves(w, s, m) /\ pc'[w] = s /\ mem'[w] = m /\ stamps' \in Nat
      /\ UNCHANGED <<index, epochs>> /\ served' \in BOOLEAN
  BY <1>1, <1>2, GoesOn, Parts DEF Start, Goto, Typed, counts
<1>4. Held(w)'
  BY <1>1, <1>3, SeesFiles, BlankType
     DEF Held, NoMemory, NoReceipt, NoSnapshot, NoStamp, Absent
<1>5. ~Follows(w)'
  BY <1>1, <1>3 DEF Follows, NoMemory
<1> QED BY <1>3, <1>4, <1>5, AsideUnbound

\* The snapshot is read; a rebuild keeps its scan.
LEMMA ReadSnapshotOK ==
  ASSUME IInv, Witness, NEW w \in Workers, ReadSnapshot(w)
  PROVE  IInv'
<1> DEFINE s == CASE mem[w].op = "write"   -> "readback"
                  [] mem[w].op = "delete"  -> IF Ready(snap) THEN "receipt" ELSE "commit"
                  [] mem[w].op = "rebuild" -> "commit"
                  [] OTHER                 -> "receipt"
           m == [mem[w] EXCEPT !.before = snap]
<1>1. s \in Steps \ {"fill", "stamp"} /\ m \in Memory /\ pc[w] = "snapshot"
  BY Parts DEF ReadSnapshot, Steps, Typed, Memory
<1>2. pc' = [pc EXCEPT ![w] = s] /\ mem' = [mem EXCEPT ![w] = m]
  BY Parts DEF ReadSnapshot, Goto
<1> HIDE DEF s, m
<1>3. /\ Moves(w, s, m) /\ pc'[w] = s /\ mem'[w] = m
      /\ UNCHANGED <<index, epochs, stamps, files, receipt, drift>> /\ served' \in BOOLEAN
      /\ mem[w] \in Memory /\ Held(w) /\ snap.cwr <= stamps
  BY <1>1, <1>2, GoesOn DEF ReadSnapshot
<1>4. /\ m.row = mem[w].row /\ m.op = mem[w].op /\ m.first = mem[w].first
      /\ m.stamp = mem[w].stamp /\ m.valid = mem[w].valid /\ m.before = snap
  BY <1>3 DEF m, Memory
<1>5. s \in {"readback", "receipt", "commit"}
  BY DEF s
<1>6. Held(w)'
  <2>1. s = "readback" => m.op = "write"
    BY <1>4 DEF s
  <2> QED BY <1>1, <1>3, <1>4, <1>5, <2>1, SeesFiles DEF Held
<1>7. CASE mem[w].op = "rebuild"
  <2>1. s = "commit" /\ Follows(w) /\ Unread(w) = {} /\ Unread(w)' = {}
    BY <1>1, <1>3, <1>7 DEF s, Follows, Unread
  <2>2. Fresh(w)' /\ Moment(w)'
    BY <1>3, <1>4, <2>1, StillFits
  <2>3. Fenced(w)'
    BY <1>1, <1>3, <1>4, <1>5, <1>7, SeesFiles, Parts DEF WorkerOK, Fenced
  <2> QED BY <1>3, <1>6, <2>2, <2>3, Aside
<1>8. CASE mem[w].op # "rebuild"
  <2>1. ~Follows(w)'
    BY <1>1, <1>3, <1>4, <1>5, <1>8 DEF Follows, Held
  <2> QED BY <1>3, <1>6, <2>1, AsideUnbound
<1> QED BY <1>7, <1>8

\* A process that gives up.
LEMMA FailOK ==
  ASSUME IInv, Witness, NEW w \in Workers, Fail(w), pc[w] \notin {"fill", "stamp", "commit"},
         UNCHANGED <<store, index, ghosts, counts>>
  PROVE  IInv'
<1>1. CASE Done(w)
  BY <1>1, AsideDone, Parts DEF ghosts, Typed
<1>2. CASE Goto(w, "invalidate") /\ UNCHANGED mem
  <2>1. /\ mem[w] \in Memory /\ mem' = [mem EXCEPT ![w] = mem[w]]
        /\ pc' = [pc EXCEPT ![w] = "invalidate"] /\ "invalidate" \in Steps \ {"fill", "stamp"}
    BY <1>2, Parts DEF Goto, Steps
  <2>2. /\ Moves(w, "invalidate", mem[w]) /\ pc'[w] = "invalidate" /\ mem'[w] = mem[w]
        /\ UNCHANGED <<index, epochs, stamps, files>> /\ served' \in BOOLEAN /\ Held(w)
    BY <2>1, GoesOn
  <2>3. Held(w)'
    BY <2>2, SeesFiles DEF Held
  <2> QED BY <2>2, <2>3, AsideUnbound DEF Follows
<1> QED BY <1>1, <1>2 DEF Fail

\* index_item reads the source back, which is a content that parses.
LEMMA ReadBackOK ==
  ASSUME IInv, Witness, NEW w \in Workers, NEW t \in Sources, ReadBack(w, t)
  PROVE  IInv'
<1>1. pc[w] = "readback" /\ UNCHANGED <<store, index, ghosts, counts>>
  BY DEF ReadBack
<1>2. CASE Fail(w)
  BY <1>1, <1>2, FailOK
<1>3. CASE /\ files[t] \notin {Absent, Torn}
           /\ mem' = [mem EXCEPT ![w].row = files[t]]
           /\ Goto(w, IF Ready(mem[w].before) THEN "receipt" ELSE "commit")
  <2> DEFINE s == IF Ready(mem[w].before) THEN "receipt" ELSE "commit"
             m == [mem[w] EXCEPT !.row = files[t]]
  <2>1. files[t] \in Nat /\ mem[w] \in Memory
    BY <1>3, Parts DEF Typed, Files, Contents, Absent, Torn
  <2>2. s \in Steps \ {"fill", "stamp"} /\ files[t] \in Nat /\ m \in Memory
    BY <2>1 DEF Steps, Memory, Contents
  <2>3. pc' = [pc EXCEPT ![w] = s] /\ mem' = [mem EXCEPT ![w] = m]
    BY <1>3, Parts DEF Goto
  <2>4. /\ Moves(w, s, m) /\ pc'[w] = s /\ mem'[w] = m
        /\ UNCHANGED <<index, epochs, stamps, files>> /\ served' \in BOOLEAN
        /\ mem[w] \in Memory /\ Held(w)
    BY <1>1, <2>2, <2>3, GoesOn
  <2>5. /\ m.row \in Nat /\ m.op = mem[w].op /\ m.first = mem[w].first
        /\ m.stamp = mem[w].stamp /\ m.valid = mem[w].valid /\ m.before = mem[w].before
    BY <2>2, <2>4 DEF Memory
  <2>6. s \in {"receipt", "commit"}
    OBVIOUS
  <2> HIDE DEF s, m
  <2>7. Held(w)'
    BY <1>1, <2>4, <2>5, <2>6, SeesFiles DEF Held
  <2>8. ~Follows(w)'
    BY <1>1, <2>4, <2>5, <2>6 DEF Follows, Held
  <2> QED BY <2>4, <2>7, <2>8, AsideUnbound
<1> QED BY <1>2, <1>3 DEF ReadBack

\* The receipt that is compared becomes the stamp of the scan to come.
LEMMA CheckReceiptOK ==
  ASSUME IInv, Witness, NEW w \in Workers, CheckReceipt(w)
  PROVE  IInv'
<1>1. /\ pc[w] = "receipt" /\ mem[w].op \in {"write", "delete"}
      /\ UNCHANGED <<store, index, ghosts, counts>>
  BY DEF CheckReceipt
<1>2. CASE Fail(w)
  BY <1>1, <1>2, FailOK
<1>3. CASE /\ mem' = [mem EXCEPT ![w].stamp = receipt]
           /\ Goto(w, IF ReceiptMatches(w) THEN "recheck" ELSE "commit")
  <2> DEFINE s == IF ReceiptMatches(w) THEN "recheck" ELSE "commit"
             m == [mem[w] EXCEPT !.stamp = receipt]
  <2>1. /\ s \in Steps \ {"fill", "stamp"} /\ s \in {"recheck", "commit"}
        /\ m \in Memory /\ mem[w] \in Memory
    BY Parts DEF Steps, Typed, Memory
  <2>2. pc' = [pc EXCEPT ![w] = s] /\ mem' = [mem EXCEPT ![w] = m]
    BY <1>3, Parts DEF Goto
  <2>3. /\ m.row = mem[w].row /\ m.op = mem[w].op /\ m.first = mem[w].first
        /\ m.stamp = receipt /\ m.valid = mem[w].valid /\ m.before = mem[w].before
    BY <2>1 DEF Memory
  <2> HIDE DEF s, m
  <2>4. /\ Moves(w, s, m) /\ pc'[w] = s /\ mem'[w] = m
        /\ UNCHANGED <<index, epochs, stamps, files>> /\ served' \in BOOLEAN
        /\ Held(w) /\ receipt.current <= stamps
    BY <1>1, <2>1, <2>2, GoesOn
  <2>5. Held(w)'
    BY <1>1, <2>1, <2>3, <2>4, SeesFiles DEF Held
  <2>6. ~Follows(w)'
    BY <1>1, <2>1, <2>3, <2>4 DEF Follows, Held
  <2> QED BY <2>4, <2>5, <2>6, AsideUnbound
<1> QED BY <1>2, <1>3 DEF CheckReceipt

\* The scan of a mutation begins.
LEMMA RecheckOK ==
  ASSUME IInv, Witness, NEW w \in Workers, NEW t \in Sources, RecheckSource(w, t)
  PROVE  IInv'
<1>1. /\ pc[w] = "recheck" /\ UNCHANGED <<store, index, ghosts, counts>>
      /\ mem[w] \in Memory /\ mem[w].op \in {"write", "delete"} /\ Held(w)
  BY Parts DEF RecheckSource, WorkerOK, Held
<1>2. CASE Fail(w)
  BY <1>1, <1>2, FailOK
<1>3. CASE Goto(w, "commit") /\ UNCHANGED mem
  <2>1. /\ pc' = [pc EXCEPT ![w] = "commit"] /\ mem' = [mem EXCEPT ![w] = mem[w]]
        /\ "commit" \in Steps \ {"fill", "stamp"}
    BY <1>3, Parts DEF Goto, Steps
  <2>2. /\ Moves(w, "commit", mem[w]) /\ pc'[w] = "commit" /\ mem'[w] = mem[w]
        /\ UNCHANGED <<index, epochs, stamps, files>> /\ served' \in BOOLEAN
    BY <1>1, <2>1, GoesOn
  <2>3. Held(w)' /\ ~Follows(w)'
    BY <1>1, <2>2, SeesFiles DEF Held, Follows
  <2> QED BY <2>2, <2>3, AsideUnbound
<1>4. CASE Rescan(w, "scan")
  <2> DEFINE m == [mem[w] EXCEPT !.todo = Sources]
  <2>1. /\ pc' = [pc EXCEPT ![w] = "scan"] /\ mem' = [mem EXCEPT ![w] = m]
        /\ "scan" \in Steps \ {"fill", "stamp"} /\ m \in Memory
    BY <1>1, <1>4, Parts DEF Rescan, Goto, Steps, Memory
  <2>2. /\ m.row = mem[w].row /\ m.op = mem[w].op /\ m.first = mem[w].first
        /\ m.stamp = mem[w].stamp /\ m.valid = mem[w].valid /\ m.before = mem[w].before
        /\ m.todo = Sources
    BY <1>1 DEF Memory
  <2> HIDE DEF m
  <2>3. /\ Moves(w, "scan", m) /\ pc'[w] = "scan" /\ mem'[w] = m
        /\ UNCHANGED <<index, epochs, stamps, files>> /\ served' \in BOOLEAN
    BY <1>1, <2>1, GoesOn
  <2>4. Held(w)' /\ Fenced(w)'
    BY <1>1, <2>2, <2>3, SeesFiles DEF Held, Fenced
  <2>5. Fresh(w)' /\ Moment(w)'
    BY <2>2, <2>3, BeginsScan DEF Unread
  <2> QED BY <2>3, <2>4, <2>5, Aside
<1> QED BY <1>2, <1>3, <1>4 DEF RecheckSource

\* One file is read: it fits the moment of the others, or else what is touched is
\* this file, and the others are still as they were read.
LEMMA ReadsOne ==
  ASSUME IInv, Witness, NEW w \in Workers, NEW t \in Sources, NEW m,
         Moves(w, "scan", m), pc[w] = "scan", Follows(w),
         m.first = [mem[w].first EXCEPT ![t] = files[t]],
         m.stamp = mem[w].stamp, m.todo = mem[w].todo \ {t}, m.op = mem[w].op
  PROVE  Fresh(w)' /\ Moment(w)'
<1>1. /\ WorkerOK(w) /\ mem'[w] = m /\ pc'[w] = "scan" /\ Touched' = Touched
      /\ UNCHANGED <<files, receipt, drift>> /\ mem[w].first \in Files
  BY MovesApart, Parts DEF Moves, store, Memory
<1>2. /\ files \in seen'[w] /\ seen[w] \subseteq seen'[w]
  BY <1>1 DEF Witness
<1>3. /\ m.first[t] = files[t]
      /\ \A u \in Sources : u # t => m.first[u] = mem[w].first[u]
  BY <1>1 DEF Files
<1>4. \A u \in Sources : u \notin Unread(w)' => u = t \/ u \notin Unread(w)
  BY <1>1 DEF Unread
<1>5. Fresh(w)'
  BY <1>1, <1>3, <1>4 DEF WorkerOK, Fresh, Unmoved
<1>6. Moment(w)'
  <2> SUFFICES ASSUME Unmoved(w)', drift' = {}
               PROVE  \E f \in seen'[w] : Fits(w, f)'
    BY DEF Moment
  <2>1. Unmoved(w) /\ drift = {}
    BY <1>1 DEF Unmoved
  <2>2. PICK f \in seen[w] : Fits(w, f)
    BY <1>1, <2>1 DEF WorkerOK, Moment
  <2>3. CASE t \notin Touched
    <3>1. Fits(w, f)'
      BY <1>1, <1>3, <1>4, <2>2, <2>3 DEF Fits
    <3> QED BY <1>2, <2>2, <3>1
  <2>4. CASE t \in Touched
    <3>1. \A u \in Touched : u = t
      BY <2>4, Parts DEF Touched, WorkerOK, Locked
    <3>2. \A u \in Sources : /\ u \notin Unread(w)' => m.first[u] = files'[u]
                             /\ files'[u] = files'[u] \/ u \in Touched'
      BY <1>1, <1>3, <1>4, <2>2, <3>1 DEF Fits
    <3>3. files' \in seen'[w]
      BY <1>1, <1>2
    <3> QED BY <1>1, <3>2, <3>3 DEF Fits
  <2> QED BY <2>3, <2>4
<1> QED BY <1>5, <1>6

\* One file of the first or of the second scan is read.
LEMMA ScanOK ==
  ASSUME IInv, Witness, NEW w \in Workers, NEW t \in Sources, Scan(w, t)
  PROVE  IInv'
<1>1. /\ pc[w] \in {"scan", "rescan"} /\ UNCHANGED <<store, index, ghosts, counts>>
      /\ mem[w] \in Memory /\ WorkerOK(w) /\ Held(w) /\ files \in Files
  BY Parts DEF Scan, WorkerOK, Typed
<1>2. CASE Done(w)
  BY <1>1, <1>2, AsideDone, Parts DEF ghosts, Typed
<1>3. CASE /\ ~(mem[w].op = "rebuild" /\ files[t] = Torn) /\ UNCHANGED pc
           /\ pc[w] = "scan"
           /\ mem' = [mem EXCEPT ![w].todo = @ \ {t}, ![w].first[t] = files[t]]
  <2> DEFINE m == [mem[w] EXCEPT !.todo = @ \ {t}, !.first[t] = files[t]]
  <2>1. files[t] \in Contents /\ mem[w].first \in Files
    BY <1>1 DEF Files, Memory
  <2>2. /\ m \in Memory
        /\ m.row = mem[w].row /\ m.op = mem[w].op /\ m.stamp = mem[w].stamp
        /\ m.first = [mem[w].first EXCEPT ![t] = files[t]]
        /\ m.valid = mem[w].valid /\ m.before = mem[w].before /\ m.todo = mem[w].todo \ {t}
    BY <1>1, <2>1 DEF Memory, Files
  <2>3. /\ pc' = [pc EXCEPT ![w] = "scan"] /\ mem' = [mem EXCEPT ![w] = m]
        /\ "scan" \in Steps \ {"fill", "stamp"} /\ pc[w] = "scan"
    BY <1>3, Parts DEF Steps
  <2> HIDE DEF m
  <2>4. /\ Moves(w, "scan", m) /\ pc'[w] = "scan" /\ mem'[w] = m
        /\ UNCHANGED <<index, epochs, stamps, files>> /\ served' \in BOOLEAN
    BY <1>1, <2>2, <2>3, GoesOn
  <2>5. m.op = "rebuild" => m.first \in [Sources -> Nat]
    BY <1>1, <1>3, <2>1, <2>2 DEF Held, Contents, Torn
  <2>6. Held(w)' /\ Fenced(w)'
    BY <1>1, <1>3, <2>2, <2>4, <2>5, SeesFiles DEF Held, Fenced
  <2>7. CASE mem[w].op = "doctor"
    BY <2>2, <2>4, <2>6, <2>7, AsideUnbound DEF Follows
  <2>8. CASE mem[w].op # "doctor"
    <3>1. Fresh(w)' /\ Moment(w)'
      BY <1>3, <2>2, <2>4, <2>8, ReadsOne DEF Follows
    <3> QED BY <2>4, <2>6, <3>1, Aside
  <2> QED BY <2>7, <2>8
<1>4. CASE /\ UNCHANGED pc /\ pc[w] = "rescan"
           /\ mem' = [mem EXCEPT ![w].todo = @ \ {t}, ![w].second[t] = files[t]]
  <2> DEFINE m == [mem[w] EXCEPT !.todo = @ \ {t}, !.second[t] = files[t]]
  <2>1. files[t] \in Contents
    BY <1>1 DEF Files
  <2>2. /\ m \in Memory
        /\ m.row = mem[w].row /\ m.op = mem[w].op /\ m.stamp = mem[w].stamp
        /\ m.first = mem[w].first /\ m.valid = mem[w].valid /\ m.before = mem[w].before
    BY <1>1, <2>1 DEF Memory, Files
  <2>3. /\ pc' = [pc EXCEPT ![w] = "rescan"] /\ mem' = [mem EXCEPT ![w] = m]
        /\ "rescan" \in Steps \ {"fill", "stamp"} /\ pc[w] = "rescan"
    BY <1>4, Parts DEF Steps
  <2> HIDE DEF m
  <2>4. /\ Moves(w, "rescan", m) /\ pc'[w] = "rescan" /\ mem'[w] = m
        /\ UNCHANGED <<index, epochs, stamps, files, drift>> /\ served' \in BOOLEAN
    BY <1>1, <2>2, <2>3, GoesOn
  <2>5. Held(w)' /\ Fenced(w)'
    BY <1>1, <1>4, <2>2, <2>4, SeesFiles DEF Held, Fenced, WorkerOK
  <2>6. CASE mem[w].op # "rebuild"
    BY <2>2, <2>4, <2>5, <2>6, AsideUnbound DEF Follows
  <2>7. CASE mem[w].op = "rebuild"
    <3>1. Fresh(w)' /\ Moment(w)'
      BY <1>4, <2>2, <2>4, <2>7, StillFits DEF Follows, Unread
    <3> QED BY <2>4, <2>5, <3>1, Aside
  <2> QED BY <2>6, <2>7
<1> QED BY <1>1, <1>2, <1>3, <1>4 DEF Scan

\* The fence of a mutation turns a scan that fits into one that was there.
LEMMA FenceMutationOK ==
  ASSUME IInv, Witness, NEW w \in Workers, FenceMutation(w)
  PROVE  IInv'
<1> DEFINE m == [mem[w] EXCEPT !.valid = receipt.current = mem[w].stamp.current]
<1>1. /\ pc[w] = "scan" /\ mem[w].todo = {} /\ mem[w].op \in {"write", "delete"}
      /\ UNCHANGED <<store, index, ghosts, counts>>
      /\ mem[w] \in Memory /\ Held(w) /\ m \in Memory
  BY Parts DEF FenceMutation, WorkerOK, Memory
<1>2. /\ m.row = mem[w].row /\ m.op = mem[w].op /\ m.first = mem[w].first
      /\ m.stamp = mem[w].stamp /\ m.before = mem[w].before
      /\ m.valid <=> Unmoved(w)
  BY <1>1 DEF Memory, Unmoved
<1>3. /\ pc' = [pc EXCEPT ![w] = "commit"] /\ mem' = [mem EXCEPT ![w] = m]
      /\ "commit" \in Steps \ {"fill", "stamp"}
  BY Parts DEF FenceMutation, Goto, Steps
<1> HIDE DEF m
<1>4. /\ Moves(w, "commit", m) /\ pc'[w] = "commit" /\ mem'[w] = m
      /\ UNCHANGED <<index, epochs, stamps, files, drift>> /\ served' \in BOOLEAN
  BY <1>1, <1>3, GoesOn
<1>5. Held(w)'
  BY <1>1, <1>2, <1>4, SeesFiles DEF Held
<1>6. Follows(w) /\ Unread(w) = {} /\ Unread(w)' = {}
  BY <1>1, <1>4 DEF Follows, Unread
<1>7. Fresh(w)' /\ Moment(w)'
  BY <1>2, <1>4, <1>6, StillFits
<1>8. Fenced(w)'
  BY <1>1, <1>2, <1>4, <1>6, ScanWasThere, SeesFiles DEF Fenced
<1> QED BY <1>4, <1>5, <1>7, <1>8, Aside

\* A process that goes on without a scan, with nothing but its snapshot changed.
LEMMA TurnsAside ==
  ASSUME IInv, Witness, NEW w \in Workers, NEW s \in {"invalidate", "demote", "reset",
         "cleanup", "serve"}, NEW m \in Memory, pc[w] \notin {"fill", "stamp"},
         pc' = [pc EXCEPT ![w] = s], mem' = [mem EXCEPT ![w] = m],
         m = mem[w] \/ m = [mem[w] EXCEPT !.before = snap],
         mem[w].op \notin {"write", "delete"} \/ pc[w] # "commit",
         UNCHANGED <<store, index, ghosts, counts>>
  PROVE  IInv'
<1>1. s \in Steps \ {"fill", "stamp"}
  BY DEF Steps
<1>2. /\ Moves(w, s, m) /\ pc'[w] = s /\ mem'[w] = m
      /\ UNCHANGED <<index, epochs, stamps, files>> /\ served' \in BOOLEAN
      /\ mem[w] \in Memory /\ Held(w) /\ snap.cwr <= stamps
  BY <1>1, GoesOn
<1>3. /\ m.row = mem[w].row /\ m.op = mem[w].op /\ m.first = mem[w].first
      /\ m.stamp = mem[w].stamp /\ m.valid = mem[w].valid
      /\ m.before = mem[w].before \/ m.before = snap
  BY <1>2 DEF Memory
<1>4. Held(w)'
  BY <1>2, <1>3, SeesFiles DEF Held
<1>5. ~Follows(w)'
  BY <1>2 DEF Follows
<1> QED BY <1>2, <1>4, <1>5, AsideUnbound

\* invalidate_metadata reads the snapshot.
LEMMA InvalidateOK ==
  ASSUME IInv, Witness, NEW w \in Workers, InvalidateMetadata(w)
  PROVE  IInv'
<1>1. /\ pc[w] = "invalidate" /\ UNCHANGED <<store, index, ghosts, counts>>
  BY DEF InvalidateMetadata
<1>2. CASE Done(w)
  BY <1>1, <1>2, AsideDone, Parts DEF ghosts, Typed
<1>3. CASE Goto(w, "demote") /\ mem' = [mem EXCEPT ![w].before = snap]
  <2> DEFINE m == [mem[w] EXCEPT !.before = snap]
  <2>1. /\ m \in Memory /\ pc' = [pc EXCEPT ![w] = "demote"]
        /\ mem' = [mem EXCEPT ![w] = m]
    BY <1>3, Parts DEF Goto, Typed, Memory
  <2> QED BY <1>1, <2>1, TurnsAside
<1> QED BY <1>2, <1>3 DEF InvalidateMetadata

\* A scan that begins under the receipt that was just read.
LEMMA StampsScan ==
  ASSUME IInv, Witness, NEW w \in Workers, NEW s \in {"scan", "rescan"},
         mem[w].op \in {"rebuild", "query", "doctor"},
         mem[w].op = "rebuild" => s = "scan",
         pc[w] = "receipt", pc' = [pc EXCEPT ![w] = s],
         mem' = [mem EXCEPT ![w].stamp = receipt, ![w].todo = Sources],
         UNCHANGED <<store, index, ghosts, counts>>
  PROVE  IInv'
<1> DEFINE m == [mem[w] EXCEPT !.stamp = receipt, !.todo = Sources]
<1>1. /\ m \in Memory /\ mem[w] \in Memory /\ mem' = [mem EXCEPT ![w] = m]
  BY Parts DEF Typed, Memory
<1>2. /\ m.row = mem[w].row /\ m.op = mem[w].op /\ m.first = mem[w].first
      /\ m.stamp = receipt /\ m.valid = mem[w].valid /\ m.before = mem[w].before
      /\ m.todo = Sources
  BY <1>1 DEF Memory
<1> HIDE DEF m
<1>3. /\ Moves(w, s, m) /\ pc'[w] = s /\ mem'[w] = m
      /\ UNCHANGED <<index, epochs, stamps, files>> /\ served' \in BOOLEAN
      /\ Held(w) /\ receipt.current <= stamps
  <2>1. Moves(w, s, m)
    BY <1>1 DEF Moves, ghosts, counts, Steps
  <2>2. pc'[w] = s /\ mem'[w] = m
    BY <2>1, MovesApart
  <2>3. UNCHANGED <<index, epochs, stamps, files>> /\ served' \in BOOLEAN
    BY Parts DEF ghosts, counts, store, Typed
  <2>4. Held(w) /\ receipt.current <= stamps
    BY Parts DEF WorkerOK, SnapshotOK
  <2> QED BY <2>1, <2>2, <2>3, <2>4
<1>4. Held(w)' /\ Fenced(w)'
  BY <1>2, <1>3, SeesFiles DEF Held, Fenced
<1>5. CASE s = "scan"
  <2>1. Fresh(w)' /\ Moment(w)'
    BY <1>2, <1>3, <1>5, BeginsScan DEF Unread
  <2> QED BY <1>3, <1>4, <2>1, Aside
<1>6. CASE s = "rescan"
  BY <1>2, <1>3, <1>4, <1>6, AsideUnbound DEF Follows
<1> QED BY <1>5, <1>6

\* A rebuild reads the receipt before it scans.
LEMMA RebuildReceiptOK ==
  ASSUME IInv, Witness, NEW w \in Workers, RebuildReceipt(w)
  PROVE  IInv'
<1>1. /\ pc[w] = "receipt" /\ mem[w].op = "rebuild" /\ mem[w] \in Memory
      /\ UNCHANGED <<store, index, ghosts, counts>>
  BY Parts DEF RebuildReceipt
<1>2. CASE Goto(w, "reset") /\ UNCHANGED mem
  <2>1. pc' = [pc EXCEPT ![w] = "reset"] /\ mem' = [mem EXCEPT ![w] = mem[w]]
    BY <1>2, Parts DEF Goto
  <2> QED BY <1>1, <2>1, TurnsAside
<1>3. CASE /\ Goto(w, "scan")
           /\ mem' = [mem EXCEPT ![w].stamp = receipt, ![w].todo = Sources]
  BY <1>1, <1>3, StampsScan DEF Goto
<1> QED BY <1>2, <1>3 DEF RebuildReceipt

\* Query and doctor read the receipt before they scan.
LEMMA ReaderReceiptOK ==
  ASSUME IInv, Witness, NEW w \in Workers, ReaderReceipt(w)
  PROVE  IInv'
<1>1. /\ pc[w] = "receipt" /\ mem[w].op \in {"query", "doctor"}
      /\ UNCHANGED <<store, index, ghosts, counts>>
  BY DEF ReaderReceipt
<1>2. CASE Done(w)
  BY <1>1, <1>2, AsideDone, Parts DEF ghosts, Typed
<1>3. CASE /\ Goto(w, IF mem[w].op = "query" THEN "scan" ELSE "rescan")
           /\ mem' = [mem EXCEPT ![w].stamp = receipt, ![w].todo = Sources]
  <2>1. CASE mem[w].op = "query"
    BY <1>1, <1>3, <2>1, StampsScan DEF Goto
  <2>2. CASE mem[w].op = "doctor"
    BY <1>1, <1>3, <2>2, StampsScan DEF Goto
  <2> QED BY <1>1, <2>1, <2>2
<1> QED BY <1>2, <1>3 DEF ReaderReceipt

\* A rebuild whose scan is complete goes on with it.
LEMMA KeepsScan ==
  ASSUME IInv, Witness, NEW w \in Workers, NEW s \in {"rescan", "snapshot"},
         NEW m \in Memory, mem[w].op = "rebuild", pc[w] \in {"scan", "rescan"},
         pc[w] = "scan" => mem[w].todo = {} /\ Unmoved(w),
         pc' = [pc EXCEPT ![w] = s], mem' = [mem EXCEPT ![w] = m],
         m = mem[w] \/ m = [mem[w] EXCEPT !.todo = Sources],
         UNCHANGED <<store, index, ghosts, counts>>
  PROVE  IInv'
<1>1. s \in Steps \ {"fill", "stamp"}
  BY DEF Steps
<1>2. /\ Moves(w, s, m) /\ pc'[w] = s /\ mem'[w] = m
      /\ UNCHANGED <<index, epochs, stamps, files, drift>> /\ served' \in BOOLEAN
      /\ mem[w] \in Memory /\ Held(w)
  BY <1>1, GoesOn
<1>3. /\ m.row = mem[w].row /\ m.op = mem[w].op /\ m.first = mem[w].first
      /\ m.stamp = mem[w].stamp /\ m.valid = mem[w].valid /\ m.before = mem[w].before
  BY <1>2 DEF Memory
<1>4. Held(w)'
  BY <1>2, <1>3, SeesFiles DEF Held
<1>5. Follows(w) /\ Unread(w) = {} /\ Unread(w)' = {}
  BY <1>2 DEF Follows, Unread
<1>6. Fresh(w)' /\ Moment(w)'
  BY <1>2, <1>3, <1>5, StillFits
<1>7. drift = {} => mem[w].first \in seen[w]
  BY <1>5, ScanWasThere, Parts DEF WorkerOK, Fenced
<1>8. Fenced(w)'
  BY <1>2, <1>3, <1>7, SeesFiles DEF Fenced
<1> QED BY <1>2, <1>4, <1>6, <1>8, Aside

\* The receipt is compared after the first scan of a rebuild.
LEMMA FenceRebuildOK ==
  ASSUME IInv, Witness, NEW w \in Workers, FenceRebuild(w)
  PROVE  IInv'
<1>1. /\ pc[w] = "scan" /\ mem[w].todo = {} /\ mem[w].op = "rebuild"
      /\ UNCHANGED <<store, index, ghosts, counts>>
  BY DEF FenceRebuild
<1>2. CASE Done(w)
  BY <1>1, <1>2, AsideDone, Parts DEF ghosts, Typed
<1>3. CASE Unmoved(w) /\ Rescan(w, "rescan")
  <2> DEFINE m == [mem[w] EXCEPT !.todo = Sources]
  <2>1. /\ m \in Memory /\ pc' = [pc EXCEPT ![w] = "rescan"]
        /\ mem' = [mem EXCEPT ![w] = m]
    BY <1>3, Parts DEF Rescan, Goto, Memory
  <2> QED BY <1>1, <1>3, <2>1, KeepsScan
<1> QED BY <1>2, <1>3 DEF FenceRebuild, Unmoved

\* The second scan is compared, and the receipt once more.
LEMMA ValidateRebuildOK ==
  ASSUME IInv, Witness, NEW w \in Workers, ValidateRebuild(w)
  PROVE  IInv'
<1>1. /\ pc[w] = "rescan" /\ mem[w].op = "rebuild" /\ mem[w] \in Memory
      /\ UNCHANGED <<store, index, ghosts, counts>>
  BY Parts DEF ValidateRebuild
<1>2. CASE Done(w)
  BY <1>1, <1>2, AsideDone, Parts DEF ghosts, Typed
<1>3. CASE Goto(w, "snapshot") /\ UNCHANGED mem
  <2>1. pc' = [pc EXCEPT ![w] = "snapshot"] /\ mem' = [mem EXCEPT ![w] = mem[w]]
    BY <1>3, Parts DEF Goto
  <2> QED BY <1>1, <2>1, KeepsScan
<1> QED BY <1>2, <1>3 DEF ValidateRebuild

\* doctor goes on to the snapshot with its inventory.
LEMMA InventoryOK ==
  ASSUME IInv, Witness, NEW w \in Workers, DoctorInventory(w)
  PROVE  IInv'
<1>1. /\ mem[w] \in Memory /\ mem[w].op = "doctor" /\ pc[w] = "scan"
      /\ pc' = [pc EXCEPT ![w] = "snapshot"] /\ mem' = [mem EXCEPT ![w] = mem[w]]
      /\ "snapshot" \in Steps \ {"fill", "stamp"}
      /\ UNCHANGED <<store, index, ghosts, counts>>
  BY Parts DEF DoctorInventory, Goto, Steps
<1>2. /\ Moves(w, "snapshot", mem[w]) /\ pc'[w] = "snapshot" /\ mem'[w] = mem[w]
      /\ UNCHANGED <<index, epochs, stamps, files>> /\ served' \in BOOLEAN
      /\ Held(w)
  BY <1>1, GoesOn
<1>3. Held(w)' /\ ~Follows(w)'
  BY <1>1, <1>2, SeesFiles DEF Held, Follows
<1> QED BY <1>2, <1>3, AsideUnbound

\* What agrees with the rows that a query reads is what it has scanned.
LEMMA RereadOK ==
  ASSUME IInv, Witness, NEW w \in Workers, Reread(w)
  PROVE  IInv'
<1> DEFINE found == IF mem[w].op = "query" THEN Agreement(w)
                                          ELSE receipt.current = mem[w].stamp.current
           m == [mem[w] EXCEPT !.valid = found]
<1>1. /\ pc[w] = (IF mem[w].op = "query" THEN "scan" ELSE "rescan")
      /\ mem[w].todo = {} /\ mem[w].op \in {"query", "doctor"} /\ mem[w] \in Memory
      /\ pc[w] \notin {"fill", "stamp"}
      /\ UNCHANGED <<store, index, ghosts, counts>>
  BY Parts DEF Reread
<1>2. found \in BOOLEAN
  BY DEF Agreement
<1>3. /\ m \in Memory
      /\ m.row = mem[w].row /\ m.op = mem[w].op /\ m.first = mem[w].first
      /\ m.stamp = mem[w].stamp /\ m.before = mem[w].before
      /\ m.op = "query" => m.valid = Agreement(w)
  BY <1>1, <1>2 DEF Memory
<1>4. /\ pc' = [pc EXCEPT ![w] = "fence"] /\ mem' = [mem EXCEPT ![w] = m]
      /\ "fence" \in Steps \ {"fill", "stamp"}
  BY Parts DEF Reread, Goto, Steps
<1> HIDE DEF m
<1>5. /\ Moves(w, "fence", m) /\ pc'[w] = "fence" /\ mem'[w] = m
      /\ UNCHANGED <<index, epochs, stamps, files>> /\ served' \in BOOLEAN
      /\ Held(w)
  BY <1>1, <1>3, <1>4, GoesOn
<1>6. Held(w)'
  <2>1. m.op = "query" /\ m.valid => m.before.content = m.first
    BY <1>3 DEF Agreement
  <2> QED BY <1>1, <1>3, <1>5, <2>1, SeesFiles DEF Held
<1>7. Fenced(w)'
  BY <1>1, <1>3, <1>5 DEF Fenced
<1>8. CASE mem[w].op = "query"
  <2>1. Follows(w) /\ Unread(w) = {} /\ Unread(w)' = {}
    BY <1>1, <1>5, <1>8 DEF Follows, Unread
  <2>2. Fresh(w)' /\ Moment(w)'
    BY <1>3, <1>5, <2>1, StillFits
  <2> QED BY <1>5, <1>6, <1>7, <2>2, Aside
<1>9. CASE mem[w].op = "doctor"
  BY <1>3, <1>5, <1>6, <1>9, AsideUnbound DEF Follows
<1> QED BY <1>1, <1>8, <1>9

\* The verdict of a query.
LEMMA FenceQueryOK ==
  ASSUME IInv, Witness, NEW w \in Workers, FenceQuery(w)
  PROVE  IInv'
<1>1. /\ pc[w] = "fence" /\ mem[w].op = "query" /\ mem[w] \in Memory
      /\ UNCHANGED <<store, index, ghosts, counts>>
  BY Parts DEF FenceQuery
<1>2. CASE Done(w)
  BY <1>1, <1>2, AsideDone, Parts DEF ghosts, Typed
<1>3. ASSUME NEW s \in {"serve", "cleanup"}, Goto(w, s), UNCHANGED mem PROVE IInv'
  <2>1. pc' = [pc EXCEPT ![w] = s] /\ mem' = [mem EXCEPT ![w] = mem[w]]
    BY <1>3, Parts DEF Goto
  <2> QED BY <1>1, <2>1, TurnsAside
<1> QED BY <1>2, <1>3 DEF FenceQuery

\* The verdict of doctor.
LEMMA FenceDoctorOK ==
  ASSUME IInv, Witness, NEW w \in Workers, FenceDoctor(w)
  PROVE  IInv'
<1>1. /\ pc[w] = "fence" /\ mem[w].op = "doctor" /\ mem[w] \in Memory
      /\ UNCHANGED <<store, index, ghosts, counts>>
  BY Parts DEF FenceDoctor
<1>2. CASE Done(w)
  BY <1>1, <1>2, AsideDone, Parts DEF ghosts, Typed
<1>3. CASE Goto(w, "invalidate") /\ UNCHANGED mem
  <2>1. pc' = [pc EXCEPT ![w] = "invalidate"] /\ mem' = [mem EXCEPT ![w] = mem[w]]
    BY <1>3, Parts DEF Goto
  <2> QED BY <1>1, <2>1, TurnsAside
<1> QED BY <1>2, <1>3 DEF FenceDoctor

\* The rows are served, and the query is over.
LEMMA ServeOK ==
  ASSUME IInv, Witness, NEW w \in Workers, ServeRows(w)
  PROVE  IInv'
<1>1. /\ pc[w] = "serve" /\ Done(w) /\ UNCHANGED <<store, index, drift, counts>>
      /\ served' \in BOOLEAN
  BY Parts DEF ServeRows, Typed
<1> QED BY <1>1, AsideDone

-------------------------------------------------------------------------------
(* Steps that write the index *)

\* A commit or a demotion: the process is done with its scan, or with nothing.
LEMMA WritesIndex ==
  ASSUME IInv, Witness, NEW w \in Workers, NEW s, NEW m, Moves(w, s, m),
         Typed', Held(w)', ~Follows(w)', snap'.cwr <= stamps,
         snap'.status = "ready" /\ snap'.cwr = receipt.current =>
            \A t \in Sources : rows'[t] = files[t] \/ t \in drift \/ t \in Touched
  PROVE  IInv'
<1>1. Apart(w) /\ Honest /\ Locked(w)' /\ Touched' = Touched
      /\ (\A v \in Workers : (revLock' = v) <=> (revLock = v))
      /\ UNCHANGED <<files, receipt, drift, stamps>>
  BY MovesApart DEF Moves, store
<1>2. Fresh(w)' /\ Moment(w)' /\ Fenced(w)'
  BY DEF Fresh, Moment, Fenced, Follows
<1>3. SnapshotOK'
  BY <1>1, Parts DEF SnapshotOK
<1> QED BY <1>1, <1>2, <1>3, Combine DEF WorkerOK

\* The last step of an operation that wrote the index.
LEMMA DoneMoves ==
  ASSUME IInv, NEW w \in Workers, Done(w), pc[w] \notin {"fill", "stamp"},
         UNCHANGED <<store, drift, versions, stamps, mishaps>>
  PROVE  Moves(w, "idle", NoMemory) /\ Held(w)' /\ ~Follows(w)'
<1>1. stamps' \in Nat
  BY Parts DEF Typed
<1> QED BY <1>1, DoneHolds, BlankType DEF Moves, Steps

\* What a fenced commit writes is what it has scanned.
LEMMA CommitMutationOK ==
  ASSUME IInv, Witness, NEW w \in Workers, CommitMutation(w)
  PROVE  IInv'
<1> DEFINE m == mem[w]
           row == IF m.op = "write" THEN m.row ELSE Absent
           ready == Complete(m, rows')
<1>1. /\ pc[w] = "commit" /\ m.op \in {"write", "delete"} /\ Done(w)
      /\ UNCHANGED <<store, ghosts, counts>> /\ m \in Memory /\ WorkerOK(w) /\ Held(w)
  BY Parts DEF CommitMutation, WorkerOK
<1>2. /\ rows' = [s \in Sources |-> IF s \in m.source THEN row ELSE rows[s]]
      /\ snap' = [status |-> IF ready THEN "ready" ELSE "incomplete",
                  epoch |-> m.before.epoch,
                  generation |-> NextGeneration(m.before, ready),
                  content |-> rows', cwr |-> FencedBy(m, ready)]
  BY DEF CommitMutation
<1> HIDE DEF m
<1>3. /\ rows' \in [Sources -> Nat] /\ rows' \in Files
  <2>1. row \in Nat /\ rows \in [Sources -> Nat]
    BY <1>1, Parts DEF Held, Absent, Typed, m
  <2> QED BY <1>2, <2>1 DEF Files, Contents
<1>4. /\ m.before \in Snapshot /\ m.before.cwr \in Nat /\ m.stamp.current \in Nat
      /\ m.before.cwr <= stamps /\ m.stamp.current <= stamps
  BY <1>1 DEF Memory, Receipt, Snapshot, Held, m
<1>5. snap' \in Snapshot /\ snap'.cwr <= stamps
  BY <1>2, <1>3, <1>4 DEF Snapshot, NextGeneration, FencedBy
<1>6. Typed'
  BY <1>1, <1>3, <1>5, Parts DEF Typed, store, ghosts, counts
<1>7. snap'.status = "ready" /\ snap'.cwr = receipt.current =>
        \A t \in Sources : rows'[t] = files[t] \/ t \in drift \/ t \in Touched
  <2> SUFFICES ASSUME snap'.status = "ready", snap'.cwr = receipt.current
               PROVE  \A t \in Sources : rows'[t] = files[t] \/ t \in drift \/ t \in Touched
    OBVIOUS
  <2>1. ready
    BY <1>2
  <2>2. m.valid /\ rows' = m.first /\ m.stamp.current = receipt.current
    BY <1>2, <2>1 DEF Complete, FencedBy
  <2>3. Follows(w) /\ Unmoved(w) /\ Unread(w) = {}
    BY <1>1, <2>2 DEF Follows, Unmoved, Unread, m
  <2> QED BY <1>1, <2>2, <2>3 DEF WorkerOK, Fresh, m
<1>8. Moves(w, "idle", NoMemory) /\ Held(w)' /\ ~Follows(w)'
  BY <1>1, DoneMoves DEF ghosts, counts
<1> QED BY <1>5, <1>6, <1>7, <1>8, WritesIndex

\* A rebuild writes what it scanned first, and goes on as doctor.
LEMMA CommitRebuildOK ==
  ASSUME IInv, Witness, NEW w \in Workers, CommitRebuild(w)
  PROVE  IInv'
<1> DEFINE b == mem[w].before
           m == [NoMemory EXCEPT !.op = "doctor", !.todo = Sources]
<1>1. /\ pc[w] = "commit" /\ mem[w].op = "rebuild" /\ mem[w] \in Memory
      /\ UNCHANGED <<store, ghosts, versions, stamps, mishaps>>
      /\ WorkerOK(w) /\ Held(w)
  BY Parts DEF CommitRebuild, WorkerOK
<1>2. /\ rows' = mem[w].first
      /\ epochs' = IF b.epoch = 0 THEN epochs + 1 ELSE epochs
      /\ snap' = [status |-> "ready",
                  epoch |-> IF b.epoch = 0 THEN epochs' ELSE b.epoch,
                  generation |-> NextGeneration(b, TRUE),
                  content |-> rows', cwr |-> FencedBy(mem[w], TRUE)]
  BY DEF CommitRebuild
<1>3. rows' \in [Sources -> Nat] /\ rows' \in Files
  BY <1>1, <1>2 DEF Held, Memory
<1>4. /\ b \in Snapshot /\ mem[w].stamp.current \in Nat
      /\ mem[w].stamp.current <= stamps /\ epochs \in Nat
  BY <1>1, Parts DEF Memory, Receipt, Held, Typed
<1>5. epochs' \in Nat /\ snap' \in Snapshot /\ snap'.cwr = mem[w].stamp.current
  BY <1>2, <1>3, <1>4 DEF Snapshot, NextGeneration, FencedBy
<1>6. Typed'
  BY <1>1, <1>3, <1>5, Parts DEF Typed, store, ghosts
<1>7. snap'.cwr = receipt.current =>
        \A t \in Sources : rows'[t] = files[t] \/ t \in drift \/ t \in Touched
  BY <1>1, <1>2, <1>5 DEF WorkerOK, Fresh, Follows, Unmoved, Unread
<1>8. /\ m \in Memory /\ m.row = Absent /\ m.op = "doctor" /\ m.stamp = NoReceipt
      /\ m.before = NoSnapshot
  BY BlankType DEF Memory, NoMemory, Operations
<1>9. /\ pc' = [pc EXCEPT ![w] = "scan"] /\ mem' = [mem EXCEPT ![w] = m]
      /\ "scan" \in Steps \ {"fill", "stamp"}
  BY DEF CommitRebuild, Goto, Steps
<1> HIDE DEF m, b
<1>10. Moves(w, "scan", m)
  BY <1>1, <1>8, <1>9 DEF Moves, ghosts
<1>11. pc'[w] = "scan" /\ mem'[w] = m
  BY <1>10, MovesApart
<1>12. Held(w)' /\ ~Follows(w)'
  BY <1>8, <1>11, <1>6, SeesFiles
     DEF Held, Follows, NoReceipt, NoSnapshot, NoStamp, Absent, Typed
<1> QED BY <1>4, <1>5, <1>6, <1>7, <1>10, <1>12, WritesIndex

\* invalidate_metadata writes back a snapshot it read, but as stale.
LEMMA WriteStaleOK ==
  ASSUME IInv, Witness, NEW w \in Workers, WriteStale(w)
  PROVE  IInv'
<1>1. /\ pc[w] = "demote" /\ Done(w) /\ UNCHANGED <<store, rows, ghosts, counts>>
      /\ snap' = [mem[w].before EXCEPT !.status = "stale"]
      /\ mem[w].before \in Snapshot /\ mem[w].before.cwr <= stamps
  BY Parts DEF WriteStale, WorkerOK, Held, Memory
<1>2. snap' \in Snapshot /\ snap'.status = "stale" /\ snap'.cwr <= stamps
  BY <1>1 DEF Snapshot
<1>3. Typed'
  BY <1>1, <1>2, Parts DEF Typed, store, ghosts, counts
<1>4. Moves(w, "idle", NoMemory) /\ Held(w)' /\ ~Follows(w)'
  BY <1>1, DoneMoves DEF ghosts, counts
<1> QED BY <1>2, <1>3, <1>4, WritesIndex

\* A query demotes the snapshot it read, or leaves it alone.
LEMMA CleanUpOK ==
  ASSUME IInv, Witness, NEW w \in Workers, CleanUp(w)
  PROVE  IInv'
<1>1. /\ pc[w] = "cleanup" /\ Done(w) /\ UNCHANGED <<store, rows, ghosts, counts>>
      /\ snap' = snap \/ snap' = [snap EXCEPT !.status = "stale"]
      /\ snap \in Snapshot /\ SnapshotOK
  BY Parts DEF CleanUp, Typed
<1>2. /\ snap' \in Snapshot /\ snap'.cwr <= stamps
      /\ snap'.status = "ready" => snap' = snap
  BY <1>1 DEF Snapshot, SnapshotOK
<1>3. Typed'
  BY <1>1, <1>2, Parts DEF Typed, store, ghosts, counts
<1>4. Moves(w, "idle", NoMemory) /\ Held(w)' /\ ~Follows(w)'
  BY <1>1, DoneMoves DEF ghosts, counts
<1> QED BY <1>1, <1>2, <1>3, <1>4, WritesIndex DEF SnapshotOK

-------------------------------------------------------------------------------
(* Steps that change files, the receipt or its lock *)

\* A process that works with no scan is in order with what it holds.
LEMMA Unbound ==
  ASSUME NEW w \in Workers, Held(w)', Locked(w)', ~Follows(w)'
  PROVE  WorkerOK(w)'
  BY DEF WorkerOK, Fresh, Moment, Fenced, Follows

\* A writer takes the lock and changes the file it will stamp.
LEMMA TakesLock ==
  ASSUME IInv, Witness, NEW w \in Workers, NEW t \in Sources, NEW op \in {"write", "delete"},
         NEW s \in {"fill", "stamp"}, NEW content \in Contents,
         Start(w, op, {t}, s), revLock = Nobody, revLock' = w, SetFile(t, content),
         UNCHANGED <<receipt, index, ghosts, counts>>
  PROVE  IInv'
<1> DEFINE m == [NoMemory EXCEPT !.op = op, !.source = {t}]
<1>1. /\ m \in Memory /\ m.op = op /\ m.source = {t} /\ m.row = Absent
      /\ m.stamp = NoReceipt /\ m.before = NoSnapshot /\ ~m.valid
  BY BlankType DEF Memory, NoMemory, Operations
<1>2. pc' = [pc EXCEPT ![w] = s] /\ mem' = [mem EXCEPT ![w] = m]
  BY Parts DEF Start, Goto
<1> HIDE DEF m
<1>3. Apart(w) /\ pc'[w] = s /\ mem'[w] = m
  BY <1>1, <1>2, Parts DEF Apart, Steps
<1>4. /\ files' \in Files /\ \A u \in Sources : u # t => files'[u] = files[u]
      /\ UNCHANGED <<receipt, rows, snap, drift, served, versions, stamps, epochs, mishaps>>
  BY Parts DEF SetFile, Files, Typed, index, ghosts, counts
<1>5. Typed'
  BY <1>4, Parts DEF Typed
<1>6. Touched = {} /\ Touched' = {t}
  BY <1>1, <1>3, WorkersAssumption DEF Touched
<1>7. Honest
  BY <1>4, <1>6, Parts DEF Honest, Typed
<1>8. SnapshotOK'
  BY <1>4, <1>5, <1>7, SnapshotKept, Parts DEF SnapshotOK, index
<1>9. Held(w)'
  BY <1>1, <1>3, <1>5, SeesFiles DEF Held, NoReceipt, NoSnapshot, NoStamp, Absent, Typed
<1>10. Locked(w)' /\ ~Follows(w)'
  BY <1>1, <1>3 DEF Locked, Follows
<1>11. \A v \in Workers : v # w => ((revLock' = v) <=> (revLock = v))
  BY WorkersAssumption
<1> QED BY <1>3, <1>5, <1>7, <1>8, <1>9, <1>10, <1>11, Unbound, Combine

\* write_materialized truncates its target.
LEMMA OpenOK ==
  ASSUME IInv, Witness, NEW w \in Workers, NEW t \in Sources, OpenSource(w, t)
  PROVE  IInv'
<1>1. Torn \in Contents
  BY DEF Contents
<1> QED BY <1>1, TakesLock DEF OpenSource

\* remove_file and move_file take it away.
LEMMA RemoveOK ==
  ASSUME IInv, Witness, NEW w \in Workers, NEW t \in Sources, RemoveSource(w, t)
  PROVE  IInv'
<1>1. Absent \in Contents
  BY DEF Contents, Absent
<1> QED BY <1>1, TakesLock DEF RemoveSource

\* The content of the touched file changes once more.
LEMMA FillOK ==
  ASSUME IInv, Witness, NEW w \in Workers, NEW t \in Sources, FillSource(w, t)
  PROVE  IInv'
<1> DEFINE m == [mem[w] EXCEPT !.row = versions']
<1>1. /\ pc[w] = "fill" /\ t \in mem[w].source /\ mem[w] \in Memory /\ WorkerOK(w)
      /\ versions' \in Nat
      /\ UNCHANGED <<receipt, revLock, rows, snap, drift, served, stamps, epochs, mishaps>>
  BY Parts DEF FillSource, Typed, index, ghosts
<1>2. revLock = w /\ mem[w].source = {t} /\ Held(w)
  BY <1>1 DEF WorkerOK, Locked
<1>3. /\ m \in Memory /\ m.row = versions' /\ m.op = mem[w].op /\ m.source = {t}
      /\ m.first = mem[w].first /\ m.stamp = mem[w].stamp /\ m.valid = mem[w].valid
      /\ m.before = mem[w].before
  BY <1>1, <1>2 DEF Memory, Contents
<1>4. pc' = [pc EXCEPT ![w] = "stamp"] /\ mem' = [mem EXCEPT ![w] = m]
  BY Parts DEF FillSource, Goto
<1> HIDE DEF m
<1>5. Apart(w) /\ pc'[w] = "stamp" /\ mem'[w] = m
  BY <1>3, <1>4, Parts DEF Apart, Steps
<1>6. files' \in Files /\ \A u \in Sources : u # t => files'[u] = files[u]
  BY <1>1, Parts DEF FillSource, SetFile, Files, Typed, Contents
<1>7. Typed'
  BY <1>1, <1>6, Parts DEF Typed
<1>8. Touched = {t} /\ Touched' = {t}
  BY <1>1, <1>2, <1>3, <1>5 DEF Touched
<1>9. Honest
  BY <1>1, <1>6, <1>8, Parts DEF Honest, Typed
<1>10. SnapshotOK'
  BY <1>1, <1>7, <1>9, SnapshotKept, Parts DEF SnapshotOK, index
<1>11. Held(w)'
  BY <1>1, <1>2, <1>3, <1>5, SeesFiles DEF Held
<1>12. Locked(w)' /\ ~Follows(w)'
  BY <1>1, <1>2, <1>3, <1>5 DEF Locked, Follows, WorkerOK
<1> QED BY <1>1, <1>5, <1>7, <1>9, <1>10, <1>11, <1>12, Unbound, Combine

\* A new receipt ends every scan that was begun under the old one.
LEMMA StampOK ==
  ASSUME IInv, Witness, NEW w \in Workers, StampReceipt(w)
  PROVE  IInv'
<1>1. /\ pc[w] = "stamp" /\ mem[w] \in Memory /\ Held(w) /\ Locked(w)
      /\ stamps \in Nat /\ stamps' = stamps + 1 /\ receipt \in Receipt
      /\ revLock' = Nobody
      /\ UNCHANGED <<files, mem, rows, snap, drift, served, versions, epochs, mishaps>>
  BY Parts DEF StampReceipt, WorkerOK, Typed, index, ghosts
<1>2. revLock = w /\ mem[w].op \in {"write", "delete"}
  BY <1>1 DEF Locked
<1>3. receipt' \in Receipt /\ receipt'.current = stamps'
  <2>1. receipt' = [current |-> stamps', previous |-> receipt.current,
                    operation |-> mem[w].op, source |-> mem[w].source,
                    content |-> mem[w].row]
    BY DEF StampReceipt
  <2> QED BY <1>1, <1>2, <2>1 DEF Receipt, Memory, Held
<1>4. Apart(w) /\ pc'[w] = "snapshot" /\ mem'[w] = mem[w]
  BY <1>1, Parts DEF StampReceipt, Goto, Apart, Steps
<1>5. Typed'
  BY <1>1, <1>3, Parts DEF Typed
<1>6. Honest
  BY <1>1, <1>3 DEF Honest
<1>7. SnapshotOK'
  <2>1. snap'.cwr <= stamps' /\ receipt'.current <= stamps' /\ UNCHANGED index
    BY <1>1, <1>3, Parts DEF SnapshotOK, Typed, Snapshot, index
  <2> QED BY <1>5, <1>6, <2>1, SnapshotKept
<1>8. Held(w)'
  BY <1>1, <1>2, <1>4, SeesFiles DEF Held, Memory, Receipt, Snapshot
<1>9. Locked(w)' /\ ~Follows(w)'
  BY <1>1, <1>2, <1>4, WorkersAssumption DEF Locked, Follows
<1>10. \A v \in Workers : v # w => ((revLock' = v) <=> (revLock = v))
  BY <1>1, <1>2, WorkersAssumption
<1> QED BY <1>4, <1>5, <1>6, <1>7, <1>8, <1>9, <1>10, Unbound, Combine

\* So does a reset; the scan of this rebuild begins under it.
LEMMA ResetOK ==
  ASSUME IInv, Witness, NEW w \in Workers, ResetWriteRevision(w)
  PROVE  IInv'
<1> DEFINE m == [mem[w] EXCEPT !.stamp = receipt', !.todo = Sources]
<1>1. /\ pc[w] = "reset" /\ mem[w] \in Memory /\ Held(w) /\ Locked(w)
      /\ stamps \in Nat /\ stamps' = stamps + 1
      /\ receipt' = [NoReceipt EXCEPT !.current = stamps']
      /\ UNCHANGED <<files, revLock, rows, snap, drift, served, versions, epochs, mishaps>>
  BY Parts DEF ResetWriteRevision, WorkerOK, Typed, index, ghosts
<1>2. receipt' \in Receipt /\ receipt'.current = stamps'
  BY <1>1, BlankType DEF Receipt
<1>3. /\ m \in Memory /\ m.row = mem[w].row /\ m.op = mem[w].op
      /\ m.first = mem[w].first /\ m.stamp = receipt' /\ m.valid = mem[w].valid
      /\ m.before = mem[w].before /\ m.todo = Sources
  BY <1>1, <1>2 DEF Memory
<1>4. pc' = [pc EXCEPT ![w] = "scan"] /\ mem' = [mem EXCEPT ![w] = m]
  BY Parts DEF ResetWriteRevision, Goto
<1> HIDE DEF m
<1>5. Apart(w) /\ pc'[w] = "scan" /\ mem'[w] = m
  BY <1>3, <1>4, Parts DEF Apart, Steps
<1>6. Typed'
  BY <1>1, <1>2, Parts DEF Typed
<1>7. Honest
  BY <1>1, <1>2 DEF Honest
<1>8. SnapshotOK'
  <2>1. snap'.cwr <= stamps' /\ receipt'.current <= stamps' /\ UNCHANGED index
    BY <1>1, <1>2, Parts DEF SnapshotOK, Typed, Snapshot, index
  <2> QED BY <1>6, <1>7, <2>1, SnapshotKept
<1>9. Held(w)'
  BY <1>1, <1>2, <1>3, <1>5, SeesFiles DEF Held, Memory, Receipt, Snapshot
<1>10. Locked(w)' /\ Fenced(w)'
  BY <1>1, <1>3, <1>5 DEF Locked, Fenced
<1>11. Fresh(w)' /\ Moment(w)'
  BY <1>3, <1>5, BeginsScan DEF Unread
<1> QED BY <1>1, <1>5, <1>6, <1>7, <1>8, <1>9, <1>10, <1>11, Combine DEF WorkerOK

\* A dead writer leaves its file changed without a receipt, which drift records.
LEMMA CrashOK ==
  ASSUME IInv, Witness, NEW w \in Workers, Crash(w)
  PROVE  IInv'
<1>1. /\ Done(w) /\ mem[w] \in Memory /\ Locked(w)
      /\ UNCHANGED <<files, receipt, rows, snap, served, versions, stamps, epochs>>
      /\ mishaps' = mishaps + 1
      /\ revLock' = IF revLock = w THEN Nobody ELSE revLock
      /\ drift' = IF revLock = w THEN drift \cup mem[w].source ELSE drift
  BY Parts DEF Crash, WorkerOK, Locked, index
<1>2. Typed' /\ drift \subseteq drift'
  BY <1>1, Parts DEF Typed, Memory
<1>3. Apart(w) /\ pc'[w] = "idle" /\ Held(w)' /\ ~Follows(w)'
  BY <1>1, <1>2, DoneHolds DEF Typed
<1>4. \A s \in Sources : s \in Touched => s \in Touched' \cup drift'
  BY <1>1, <1>3 DEF Touched, Apart
<1>5. Honest
  BY <1>1, <1>2, <1>4, Parts DEF Honest, Typed
<1>6. SnapshotOK'
  BY <1>1, <1>2, <1>5, SnapshotKept, Parts DEF SnapshotOK, index
<1>7. Locked(w)'
  BY <1>1, <1>3, WorkersAssumption DEF Locked
<1>8. \A v \in Workers : v # w => ((revLock' = v) <=> (revLock = v))
  BY <1>1, WorkersAssumption
<1> QED BY <1>2, <1>3, <1>5, <1>6, <1>7, <1>8, Unbound, Combine

\* So does an edit that bypasses the program.
LEMMA EditOK ==
  ASSUME IInv, Witness, NEW t \in Sources, Edit(t)
  PROVE  IInv'
<1>1. /\ mishaps' = mishaps + 1 /\ drift' = drift \cup {t}
      /\ UNCHANGED <<receipt, revLock, rows, snap, pc, mem, served, stamps, epochs>>
  BY DEF Edit, index
<1>2. /\ files' \in Files /\ versions' \in Nat
      /\ \A u \in Sources : u # t => files'[u] = files[u]
  BY Parts DEF Edit, SetFile, Files, Typed, Contents, Absent
<1>3. Typed'
  BY <1>1, <1>2, Parts DEF Typed
<1>4. Touched' = Touched
  BY <1>1 DEF Touched
<1>5. Honest
  BY <1>1, <1>2, <1>4, Parts DEF Honest, Typed
<1>6. SnapshotOK'
  BY <1>1, <1>3, <1>5, SnapshotKept, Parts DEF SnapshotOK, index
<1>7. \A v \in Workers : WorkerOK(v)'
  BY <1>1, <1>3, <1>5, OthersOK
<1>8. /\ \A v \in Workers : seen'[v] \subseteq Files
      /\ \A p \in published' : p.content \in Files
      /\ forked' \in BOOLEAN
  BY <1>3, Witnessed
<1> QED BY <1>1, <1>3, <1>6, <1>7, <1>8, Parts DEF IInv, TypeOK, Typed

-------------------------------------------------------------------------------
(* Theorems *)

\* The initial states satisfy the invariant.
LEMMA InitOK == Init => IInv
<1> SUFFICES ASSUME Init PROVE IInv
  OBVIOUS
<1>1. /\ pc = [w \in Workers |-> "idle"] /\ mem = [w \in Workers |-> NoMemory]
      /\ seen = [w \in Workers |-> {}] /\ revLock = Nobody
      /\ drift = {} /\ served = FALSE /\ forked = FALSE /\ mishaps = 0
  BY DEF Init
<1>2. /\ pc \in [Workers -> Steps] /\ mem \in [Workers -> Memory]
      /\ \A w \in Workers : seen[w] \subseteq Files
  BY <1>1, BlankType DEF Steps
<1>3. stamps \in Nat => \A w \in Workers : WorkerOK(w)
  BY <1>1, WorkersAssumption
     DEF WorkerOK, Held, Locked, Fresh, Moment, Fenced, Follows, NoMemory, NoReceipt,
         NoSnapshot, NoStamp, Absent
<1>4. CASE /\ files = NoFiles /\ receipt = NoReceipt
           /\ rows = NoFiles /\ snap = NoSnapshot
           /\ published = {} /\ versions = 0 /\ stamps = 0 /\ epochs = 0
  <2>1. Typed
    BY <1>1, <1>4, BlankType DEF Typed
  <2>2. SnapshotOK
    BY <1>4 DEF SnapshotOK, NoSnapshot, NoReceipt, NoStamp
  <2> QED BY <1>1, <1>2, <1>3, <1>4, <2>1, <2>2, Parts DEF Typed
<1>5. ASSUME NEW s \in Sources,
             /\ files = [NoFiles EXCEPT ![s] = 1] /\ rows = files
             /\ receipt = [current |-> 1, previous |-> NoStamp, operation |-> "write",
                           source |-> {s}, content |-> 1]
             /\ snap = [status |-> "ready", epoch |-> 1, generation |-> 1,
                        content |-> files, cwr |-> 1]
             /\ published = {[epoch |-> 1, generation |-> 1, content |-> files]}
             /\ versions = 1 /\ stamps = 1 /\ epochs = 1
      PROVE  IInv
  <2>1. files \in Files /\ rows \in [Sources -> Nat]
    BY <1>5, BlankType DEF Files, Contents
  <2>2. receipt \in Receipt /\ snap \in Snapshot
    BY <1>5, <2>1 DEF Receipt, Snapshot, NoStamp
  <2>3. Typed
    BY <1>1, <1>5, <2>1, <2>2 DEF Typed
  <2>4. SnapshotOK
    BY <1>5 DEF SnapshotOK
  <2>5. \A p \in published : p.content \in Files
    <3>1. published = {[epoch |-> 1, generation |-> 1, content |-> files]}
      BY <1>5
    <3> HIDE <1>5
    <3> QED BY <2>1, <3>1
  <2> QED BY <1>1, <1>2, <1>3, <2>3, <2>4, <2>5, Parts DEF Typed
<1> QED BY <1>4, <1>5 DEF Init

\* Every step preserves it.
LEMMA StepOK == IInv /\ [Next]_vars => IInv'
<1> SUFFICES ASSUME IInv, [Next]_vars PROVE IInv'
  OBVIOUS
<1>1. CASE UNCHANGED vars
  BY <1>1 DEF vars, store, index, ghosts, counts, IInv, TypeOK, SnapshotOK, WorkerOK,
              Held, Locked, Fresh, Moment, Fenced, Follows, Unmoved, Unread, Fits, Touched
<1>2. ASSUME Witness, NEW w \in Workers, WorkerStep(w) PROVE IInv'
  <2>1. CASE \E t \in Sources : OpenSource(w, t) \/ FillSource(w, t) \/ RemoveSource(w, t)
    BY <1>2, <2>1, OpenOK, FillOK, RemoveOK
  <2>2. CASE \E t \in Sources : ReadBack(w, t) \/ RecheckSource(w, t) \/ Scan(w, t)
    BY <1>2, <2>2, ReadBackOK, RecheckOK, ScanOK
  <2>3. CASE StampReceipt(w) \/ ReadSnapshot(w) \/ CheckReceipt(w)
    BY <1>2, <2>3, StampOK, ReadSnapshotOK, CheckReceiptOK
  <2>4. CASE FenceMutation(w) \/ CommitMutation(w) \/ InvalidateMetadata(w) \/ WriteStale(w)
    BY <1>2, <2>4, FenceMutationOK, CommitMutationOK, InvalidateOK, WriteStaleOK
  <2>5. CASE StartRebuild(w) \/ StartQuery(w) \/ StartDoctor(w)
    BY <1>2, <2>5, StartOK DEF StartRebuild, StartQuery, StartDoctor
  <2>6. CASE RebuildReceipt(w) \/ ResetWriteRevision(w) \/ FenceRebuild(w)
    BY <1>2, <2>6, RebuildReceiptOK, ResetOK, FenceRebuildOK
  <2>7. CASE ValidateRebuild(w) \/ CommitRebuild(w) \/ ReaderReceipt(w)
    BY <1>2, <2>7, ValidateRebuildOK, CommitRebuildOK, ReaderReceiptOK
  <2>8. CASE DoctorInventory(w) \/ Reread(w) \/ FenceQuery(w)
    BY <1>2, <2>8, InventoryOK, RereadOK, FenceQueryOK
  <2>9. CASE CleanUp(w) \/ ServeRows(w) \/ FenceDoctor(w)
    BY <1>2, <2>9, CleanUpOK, ServeOK, FenceDoctorOK
  <2> QED
    BY <1>2, <2>1, <2>2, <2>3, <2>4, <2>5, <2>6, <2>7, <2>8, <2>9 DEF WorkerStep
<1> QED BY <1>1, <1>2, CrashOK, EditOK DEF Next

\* The inductive invariant holds in every reachable state.
THEOREM Invariance == Spec => []IInv
<1> QED BY InitOK, StepOK, PTL DEF Spec

\* Every variable stays in its type: the files, the receipt, the rows and the
\* snapshot of the index, and what each process holds of them.
THEOREM TypeCorrect == Spec => []TypeOK
<1>1. IInv => TypeOK
  BY DEF IInv
<1> QED BY <1>1, Invariance, PTL

\* A ready snapshot whose fence is the current receipt has the rows of the files,
\* but for what was changed without a receipt and what is being written.
THEOREM ReadyAlwaysCanonical == Spec => []ReadyIsCanonical
<1>1. IInv => ReadyIsCanonical
  BY WorkersAssumption DEF IInv, SnapshotOK, ReadyIsCanonical, Touched
<1> QED BY <1>1, Invariance, PTL

\* No process but w moves its own step, so a step away from w's fence or commit is
\* an action of w.
LEMMA OwnStep ==
  ASSUME IInv, Next, NEW w \in Workers, pc'[w] # pc[w]
  PROVE  WorkerStep(w) \/ Crash(w)
<1>1. pc \in [Workers -> Steps]
  BY Parts
<1>2. CASE \E t \in Sources : Edit(t)
  BY <1>2 DEF Edit
<1>3. ASSUME NEW v \in Workers, WorkerStep(v) \/ Crash(v) PROVE v = w
  <2>1. \E s : pc' = [pc EXCEPT ![v] = s] \/ pc' = pc
    BY <1>3 DEF WorkerStep, Crash, Done, Goto, Start, Rescan, Fail, OpenSource, FillSource,
         RemoveSource, StampReceipt, ReadSnapshot, ReadBack, RecheckSource, Scan,
         CheckReceipt, FenceMutation, CommitMutation, InvalidateMetadata, WriteStale,
         StartRebuild, RebuildReceipt, ResetWriteRevision, FenceRebuild, ValidateRebuild,
         CommitRebuild, StartQuery, StartDoctor, ReaderReceipt, DoctorInventory, Reread,
         FenceQuery, CleanUp, ServeRows, FenceDoctor
  <2> QED BY <1>1, <2>1
<1> QED BY <1>2, <1>3 DEF Next

\* What is published as ready was in the files at one moment, by the fence of its
\* scan, as long as every change of a file leaves a receipt.
THEOREM PublishedWasThere == Spec => PublishedWasCanonical
<1> DEFINE Was == \A w \in Workers :
             /\ pc[w] = "commit" /\ pc'[w] # "commit"
             /\ snap'.status = "ready" /\ snap' # snap /\ drift = {}
             => rows' \in seen[w]
<1>1. IInv /\ [Next]_vars => [Was]_vars
  <2> SUFFICES ASSUME IInv, Next, NEW w \in Workers,
                      pc[w] = "commit", pc'[w] # "commit",
                      snap'.status = "ready", snap' # snap, drift = {}
               PROVE  rows' \in seen[w]
    OBVIOUS
  <2>1. WorkerStep(w) \/ Crash(w)
    BY OwnStep
  <2>2. CommitMutation(w) \/ CommitRebuild(w)
    BY <2>1 DEF WorkerStep, Crash, Start, OpenSource, FillSource, index,
         RemoveSource, StampReceipt, ReadSnapshot, ReadBack, RecheckSource, Scan,
         CheckReceipt, FenceMutation, InvalidateMetadata, WriteStale,
         StartRebuild, RebuildReceipt, ResetWriteRevision, FenceRebuild, ValidateRebuild,
         StartQuery, StartDoctor, ReaderReceipt, DoctorInventory, Reread,
         FenceQuery, CleanUp, ServeRows, FenceDoctor
  <2>3. Fenced(w)
    BY Parts DEF WorkerOK
  <2>4. CASE CommitMutation(w)
    <3>1. Complete(mem[w], rows') /\ mem[w].op \in {"write", "delete"}
      BY <2>4 DEF CommitMutation
    <3> QED BY <2>3, <3>1 DEF Complete, Fenced
  <2>5. CASE CommitRebuild(w)
    BY <2>3, <2>5 DEF CommitRebuild, Fenced
  <2> QED BY <2>2, <2>4, <2>5
<1> QED BY <1>1, Invariance, PTL DEF Spec, PublishedWasCanonical

\* What a query validates before it serves rows was in the files at one moment of
\* the query, as long as every change of a file leaves a receipt.
THEOREM ValidatedWasThere == Spec => ValidatedWasCanonical
<1> DEFINE Was == \A w \in Workers :
             pc[w] = "fence" /\ pc'[w] = "serve" /\ drift = {}
             => mem[w].before.content \in seen[w]
<1>1. IInv /\ [Next]_vars => [Was]_vars
  <2> SUFFICES ASSUME IInv, Next, NEW w \in Workers,
                      pc[w] = "fence", pc'[w] = "serve", drift = {}
               PROVE  mem[w].before.content \in seen[w]
    OBVIOUS
  <2>1. WorkerStep(w) \/ Crash(w)
    BY OwnStep
  <2>2. pc \in [Workers -> Steps]
    BY Parts
  <2>3. FenceQuery(w) \/ FenceDoctor(w) \/ Crash(w)
    BY <2>1 DEF WorkerStep, Crash, Start, OpenSource, FillSource,
         RemoveSource, StampReceipt, ReadSnapshot, ReadBack, RecheckSource, Scan,
         CheckReceipt, FenceMutation, CommitMutation, InvalidateMetadata, WriteStale,
         StartRebuild, RebuildReceipt, ResetWriteRevision, FenceRebuild, ValidateRebuild,
         CommitRebuild, StartQuery, StartDoctor, ReaderReceipt, DoctorInventory, Reread,
         CleanUp, ServeRows
  <2>4. Current(w) /\ mem[w].op = "query"
    BY <2>2, <2>3 DEF FenceQuery, FenceDoctor, Crash, Done, Goto
  <2>5. mem[w].valid /\ Unmoved(w)
    BY <2>4 DEF Current, Unmoved
  <2>6. Follows(w) /\ Unread(w) = {}
    BY <2>4 DEF Follows, Unread
  <2>7. mem[w].before.content = mem[w].first
    BY <2>4, <2>5, Parts DEF WorkerOK, Held
  <2> QED BY <2>5, <2>6, <2>7, ScanWasThere
<1> QED BY <1>1, Invariance, PTL DEF Spec, ValidatedWasCanonical

-------------------------------------------------------------------------------
(* Who is where: mutations, rebuilds, queries and doctors *)

Reader(w) == May[w] \subseteq {"query"}
QuerySteps == {"idle", "snapshot", "receipt", "scan", "fence", "serve", "cleanup"}

\* A write or delete.
Changing(w) == mem[w].op \in {"write", "delete"}

\* Who is where: a query does nothing else, and only a query serves or cleans up.
\* Only a rebuild resets the receipt, only a write fills its file, and a write or a
\* delete is about one file.
RoleInv(w) ==
    /\ Reader(w) => mem[w].op = "query"
    /\ mem[w].op = "query" => pc[w] \in QuerySteps
    /\ pc[w] \in {"serve", "cleanup"} => mem[w].op = "query"
    /\ pc[w] = "reset" => mem[w].op = "rebuild"
    /\ pc[w] = "fill" => mem[w].op = "write"
    /\ Changing(w) => \E s \in Sources : mem[w].source = {s}

\* The step of a process is its own.
LEMMA OthersStand ==
  ASSUME IInv, NEW w \in Workers, WorkerStep(w) \/ Crash(w), NEW v \in Workers, v # w
  PROVE  pc'[v] = pc[v] /\ mem'[v] = mem[v]
<1>1. pc \in [Workers -> Steps] /\ mem \in [Workers -> Memory]
  BY Parts
<1>2. \E s : pc' = [pc EXCEPT ![w] = s] \/ pc' = pc
  BY DEF WorkerStep, Crash, Done, Goto, Start, Rescan, Fail, OpenSource, FillSource,
       RemoveSource, StampReceipt, ReadSnapshot, ReadBack, RecheckSource, Scan,
       CheckReceipt, FenceMutation, CommitMutation, InvalidateMetadata, WriteStale,
       StartRebuild, RebuildReceipt, ResetWriteRevision, FenceRebuild, ValidateRebuild,
       CommitRebuild, StartQuery, StartDoctor, ReaderReceipt, DoctorInventory, Reread,
       FenceQuery, CleanUp, ServeRows, FenceDoctor
<1>3. mem'[v] = mem[v]
  <2>1. CASE \E t \in Sources : \/ OpenSource(w, t) \/ FillSource(w, t) \/ RemoveSource(w, t)
                                \/ ReadBack(w, t) \/ RecheckSource(w, t) \/ Scan(w, t)
    BY <1>1, <2>1 DEF OpenSource, FillSource, RemoveSource, ReadBack, RecheckSource, Scan,
         Start, Done, Rescan, Fail
  <2>2. CASE \/ StampReceipt(w) \/ ReadSnapshot(w) \/ CheckReceipt(w) \/ FenceMutation(w)
             \/ CommitMutation(w) \/ InvalidateMetadata(w) \/ WriteStale(w)
    BY <1>1, <2>2 DEF StampReceipt, ReadSnapshot, CheckReceipt, FenceMutation,
         CommitMutation, InvalidateMetadata, WriteStale, Done, Fail
  <2>3. CASE \/ StartRebuild(w) \/ RebuildReceipt(w) \/ ResetWriteRevision(w)
             \/ FenceRebuild(w) \/ ValidateRebuild(w) \/ CommitRebuild(w)
    BY <1>1, <2>3 DEF StartRebuild, RebuildReceipt, ResetWriteRevision, FenceRebuild,
         ValidateRebuild, CommitRebuild, Start, Done, Rescan
  <2>4. CASE \/ StartQuery(w) \/ StartDoctor(w) \/ ReaderReceipt(w) \/ DoctorInventory(w)
             \/ Reread(w) \/ FenceQuery(w) \/ CleanUp(w) \/ ServeRows(w)
             \/ FenceDoctor(w) \/ Crash(w)
    BY <1>1, <2>4 DEF StartQuery, StartDoctor, ReaderReceipt, DoctorInventory, Reread,
         FenceQuery, CleanUp, ServeRows, FenceDoctor, Crash, Start, Done
  <2> QED BY <2>1, <2>2, <2>3, <2>4 DEF WorkerStep
<1> QED BY <1>1, <1>2, <1>3

\* What a query does, from its beginning to its end.
QueryStep(w) ==
    \/ StartQuery(w) \/ ReadSnapshot(w) \/ ReaderReceipt(w)
    \/ \E s \in Sources : Scan(w, s)
    \/ Reread(w) \/ FenceQuery(w) \/ CleanUp(w) \/ ServeRows(w)

\* A process that works as a query takes the steps of a query.
LEMMA QueriesQuery ==
  ASSUME NEW w \in Workers, RoleInv(w), mem[w].op = "query", WorkerStep(w)
  PROVE  \/ QueryStep(w)
         \/ \E s \in Sources : OpenSource(w, s) \/ RemoveSource(w, s)
         \/ StartRebuild(w) \/ StartDoctor(w)
<1>1. pc[w] \in QuerySteps
  BY DEF RoleInv
<1>2. /\ ~StampReceipt(w) /\ ~CheckReceipt(w) /\ ~FenceMutation(w) /\ ~CommitMutation(w)
      /\ ~InvalidateMetadata(w) /\ ~WriteStale(w) /\ ~RebuildReceipt(w)
      /\ ~ResetWriteRevision(w) /\ ~FenceRebuild(w) /\ ~ValidateRebuild(w)
      /\ ~CommitRebuild(w) /\ ~DoctorInventory(w) /\ ~FenceDoctor(w)
  BY <1>1 DEF QuerySteps, StampReceipt, CheckReceipt, FenceMutation, CommitMutation,
       InvalidateMetadata, WriteStale, RebuildReceipt, ResetWriteRevision, FenceRebuild,
       ValidateRebuild, CommitRebuild, DoctorInventory, FenceDoctor
<1>3. \A s \in Sources : ~FillSource(w, s) /\ ~ReadBack(w, s) /\ ~RecheckSource(w, s)
  BY <1>1 DEF QuerySteps, FillSource, ReadBack, RecheckSource
<1> QED BY <1>2, <1>3 DEF WorkerStep, QueryStep

\* So a reader leaves the files, the receipt and the rows alone, and a snapshot that
\* it demotes keeps its revision and its fence.
LEMMA ReadersRead ==
  ASSUME IInv, NEW w \in Workers, RoleInv(w), Reader(w), WorkerStep(w) \/ Crash(w)
  PROVE  /\ UNCHANGED <<files, receipt, revLock, rows, drift, stamps>>
         /\ snap' = snap \/ snap' = [snap EXCEPT !.status = "stale"]
         /\ WorkerStep(w) => QueryStep(w)
<1>1. mem[w].op = "query" /\ pc[w] \in QuerySteps
  BY DEF RoleInv
<1>2. ASSUME WorkerStep(w) PROVE QueryStep(w)
  <2>1. /\ ~StartRebuild(w) /\ ~StartDoctor(w)
        /\ \A s \in Sources : ~OpenSource(w, s) /\ ~RemoveSource(w, s)
    BY DEF Reader, StartRebuild, StartDoctor, OpenSource, RemoveSource, Start
  <2> QED BY <1>1, <1>2, <2>1, QueriesQuery
<1>3. CASE QueryStep(w)
  <2>1. UNCHANGED <<files, receipt, revLock, rows, drift, stamps>>
    BY <1>3 DEF QueryStep, StartQuery, ReadSnapshot, ReaderReceipt, Scan, Reread,
         FenceQuery, CleanUp, ServeRows, store, index, ghosts, counts
  <2>2. snap' = snap \/ snap' = [snap EXCEPT !.status = "stale"]
    BY <1>3 DEF QueryStep, StartQuery, ReadSnapshot, ReaderReceipt, Scan, Reread,
         FenceQuery, CleanUp, ServeRows, index
  <2> QED BY <1>2, <2>1, <2>2
<1>4. CASE Crash(w)
  <2>1. revLock # w
    BY <1>1, Parts DEF WorkerOK, Locked, QuerySteps
  <2> QED BY <1>1, <1>2, <1>4, <2>1 DEF Crash, index, QuerySteps
<1> QED BY <1>2, <1>3, <1>4

\* Nobody leaves its role.
LEMMA RoleOK ==
  ASSUME IInv, NEW w \in Workers, RoleInv(w), WorkerStep(w) \/ Crash(w)
  PROVE  RoleInv(w)'
<1>1. pc \in [Workers -> Steps] /\ mem \in [Workers -> Memory]
  BY Parts
<1>2. ASSUME Done(w) PROVE RoleInv(w)'
  BY <1>1, <1>2 DEF Done, Goto, NoMemory, RoleInv, Changing, QuerySteps
<1>3. ASSUME NEW op, NEW t, NEW s, Start(w, op, t, s),
             op = "query" => s = "snapshot", s \notin {"serve", "cleanup", "reset"},
             s = "fill" => op = "write",
             op \in {"write", "delete"} => \E x \in Sources : t = {x}
      PROVE  RoleInv(w)'
  BY <1>1, <1>3 DEF Start, Goto, NoMemory, RoleInv, Changing, QuerySteps, Reader
<1>4. ASSUME NEW s, pc' = [pc EXCEPT ![w] = s], mem'[w].op = mem[w].op,
             mem'[w].source = mem[w].source,
             s \notin {"serve", "cleanup", "reset", "fill"}, mem[w].op = "query" => s \in QuerySteps
      PROVE  RoleInv(w)'
  BY <1>1, <1>4 DEF RoleInv, Changing
<1>5. CASE \E t \in Sources : OpenSource(w, t) \/ RemoveSource(w, t)
  <2>1. \E t \in Sources : Start(w, "write", {t}, "fill") \/ Start(w, "delete", {t}, "stamp")
    BY <1>5 DEF OpenSource, RemoveSource
  <2> QED BY <1>3, <2>1
<1>6. CASE \E t \in Sources : FillSource(w, t)
  BY <1>1, <1>2, <1>4, <1>6 DEF FillSource, Goto, RoleInv, Changing, QuerySteps, Memory
<1>7. CASE \E t \in Sources : ReadBack(w, t)
  BY <1>1, <1>2, <1>4, <1>7 DEF ReadBack, Fail, Goto, RoleInv, Changing, QuerySteps, Memory
<1>8. CASE \E t \in Sources : RecheckSource(w, t)
  BY <1>1, <1>2, <1>4, <1>8
     DEF RecheckSource, Fail, Rescan, Goto, RoleInv, Changing, QuerySteps, Memory
<1>9. CASE \E t \in Sources : Scan(w, t)
  BY <1>1, <1>2, <1>9 DEF Scan, RoleInv, Changing, Memory
<1>10. CASE StartRebuild(w) \/ StartQuery(w) \/ StartDoctor(w)
  BY <1>3, <1>10 DEF StartRebuild, StartQuery, StartDoctor
<1>11. CASE StampReceipt(w)
  BY <1>1, <1>2, <1>4, <1>11 DEF StampReceipt, Goto, RoleInv, Changing, QuerySteps, Memory
<1>12. CASE ReadSnapshot(w)
  BY <1>1, <1>2, <1>4, <1>12 DEF ReadSnapshot, Goto, RoleInv, Changing, QuerySteps, Memory
<1>13. CASE CheckReceipt(w)
  BY <1>1, <1>2, <1>4, <1>13 DEF CheckReceipt, Fail, Goto, RoleInv, Changing, QuerySteps, Memory
<1>14. CASE FenceMutation(w)
  BY <1>1, <1>2, <1>4, <1>14 DEF FenceMutation, Goto, RoleInv, Changing, QuerySteps, Memory
<1>15. CASE InvalidateMetadata(w)
  BY <1>1, <1>2, <1>4, <1>15 DEF InvalidateMetadata, Goto, RoleInv, Changing, QuerySteps, Memory
<1>16. CASE RebuildReceipt(w)
  BY <1>1, <1>2, <1>4, <1>16 DEF RebuildReceipt, Goto, RoleInv, Changing, QuerySteps, Memory
<1>17. CASE ResetWriteRevision(w)
  BY <1>1, <1>2, <1>4, <1>17 DEF ResetWriteRevision, Goto, RoleInv, Changing, QuerySteps, Memory
<1>18. CASE FenceRebuild(w)
  BY <1>1, <1>2, <1>4, <1>18 DEF FenceRebuild, Rescan, Goto, RoleInv, Changing, QuerySteps, Memory
<1>19. CASE ValidateRebuild(w)
  BY <1>1, <1>2, <1>4, <1>19 DEF ValidateRebuild, Goto, RoleInv, Changing, QuerySteps, Memory
<1>20. CASE CommitRebuild(w)
  BY <1>1, <1>2, <1>4, <1>20
     DEF CommitRebuild, NoMemory, Goto, RoleInv, Changing, QuerySteps, Memory
<1>21. CASE ReaderReceipt(w)
  BY <1>1, <1>2, <1>4, <1>21 DEF ReaderReceipt, Goto, RoleInv, Changing, QuerySteps, Memory
<1>22. CASE DoctorInventory(w)
  BY <1>1, <1>2, <1>4, <1>22 DEF DoctorInventory, Goto, RoleInv, Changing, QuerySteps, Memory
<1>23. CASE Reread(w)
  BY <1>1, <1>2, <1>4, <1>23 DEF Reread, Goto, RoleInv, Changing, QuerySteps, Memory
<1>24. CASE FenceQuery(w)
  BY <1>1, <1>2, <1>4, <1>24 DEF FenceQuery, Goto, RoleInv, Changing, QuerySteps, Memory
<1>25. CASE FenceDoctor(w)
  BY <1>1, <1>2, <1>4, <1>25 DEF FenceDoctor, Goto, RoleInv, Changing, QuerySteps, Memory
<1>26. CASE CommitMutation(w) \/ WriteStale(w) \/ CleanUp(w) \/ ServeRows(w) \/ Crash(w)
  BY <1>2, <1>26 DEF CommitMutation, WriteStale, CleanUp, ServeRows, Crash
<1> QED
  BY <1>5, <1>6, <1>7, <1>8, <1>9, <1>10, <1>11, <1>12, <1>13, <1>14, <1>15, <1>16,
         <1>17, <1>18, <1>19, <1>20, <1>21, <1>22, <1>23, <1>24, <1>25, <1>26 DEF WorkerStep

-------------------------------------------------------------------------------
(* Revisions: the snapshot a mutation goes on from is still the published one *)

\* w will write the snapshot row from the one it holds.
Based(w) ==
    \/ pc[w] \in {"readback", "recheck", "commit", "demote"}
    \/ pc[w] \in {"receipt", "scan"} /\ Changing(w)

\* w may still publish that row as ready.
MayPublish(w) ==
    /\ Changing(w)
    /\ \/ pc[w] \in {"receipt", "recheck", "scan"}
       \/ pc[w] = "readback" /\ mem[w].before.status = "ready"
       \/ pc[w] = "commit" /\ mem[w].valid

\* Then its revision is of an epoch.
EpochInv(w) == MayPublish(w) => mem[w].before.epoch # 0

ReadyHasEpoch == snap.status = "ready" => snap.epoch # 0

\* And the row is as it was, where no other process writes it, but for a query that
\* demoted it.
BaseInv(w) ==
    Based(w) => /\ mem[w].before.epoch = snap.epoch
                /\ mem[w].before.generation = snap.generation
                /\ mem[w].before.content = snap.content

\* No publication is ahead of the snapshot row, and a ready row is the last one.
NamesInv ==
    /\ \A p \in published : /\ p.generation \in Nat /\ p.generation <= snap.generation
                            /\ p.epoch = snap.epoch
    /\ snap.epoch = 0 => published = {}
    /\ snap.status = "ready" =>
          /\ snap.epoch # 0
          /\ \A p \in published : p.generation = snap.generation => p.content = snap.content
    /\ OneContent

SnapInv == NamesInv /\ snap.content = rows

\* What may happen to the revision: nothing; the row is demoted, or rewritten as
\* incomplete, under it; or the row is published under the next one.
RevisionMove ==
    \/ snap' = snap
    \/ /\ snap'.status # "ready"
       /\ snap'.epoch = snap.epoch /\ snap'.generation = snap.generation
    \/ /\ snap'.status = "ready"
       /\ snap'.epoch # 0 /\ snap.epoch \in {0, snap'.epoch}
       /\ snap'.generation = snap.generation + 1

\* What may happen to the snapshot row: nothing; it is demoted, or rewritten as
\* incomplete, under its revision; or it is published under the next one.
IndexMove ==
    \/ UNCHANGED index
    \/ /\ snap'.status # "ready" /\ snap'.content = rows'
       /\ snap'.epoch = snap.epoch /\ snap'.generation = snap.generation
    \/ /\ snap'.status = "ready" /\ snap'.content = rows'
       /\ snap'.epoch # 0 /\ snap.epoch \in {0, snap'.epoch}
       /\ snap'.generation = snap.generation + 1

\* Any move keeps one content to a revision.
LEMMA MoveKeepsRevisions ==
  ASSUME IInv, NamesInv, RevisionMove, Witness
  PROVE  NamesInv'
<1> DEFINE new == [epoch |-> snap'.epoch, content |-> snap'.content,
                   generation |-> snap'.generation]
<1>1. snap \in Snapshot /\ snap.generation \in Nat
  BY Parts DEF Typed, Snapshot
<1>2. published' = IF snap'.status = "ready" THEN published \cup {new} ELSE published
  BY DEF Witness
<1>3. CASE snap' = snap
  <2>1. \A p \in published' : p \in published \/ (p = new /\ snap.status = "ready")
    BY <1>2, <1>3
  <2> QED BY <1>1, <1>2, <1>3, <2>1 DEF NamesInv, OneContent
<1>4. CASE /\ snap'.status # "ready"
           /\ snap'.epoch = snap.epoch /\ snap'.generation = snap.generation
  BY <1>1, <1>2, <1>4 DEF NamesInv, OneContent
<1>5. CASE /\ snap'.status = "ready"
           /\ snap'.epoch # 0 /\ snap.epoch \in {0, snap'.epoch}
           /\ snap'.generation = snap.generation + 1
  <2>1. \A p \in published : /\ p.generation \in Nat /\ p.generation < snap'.generation
                             /\ p.epoch = snap'.epoch
    BY <1>1, <1>5 DEF NamesInv
  <2>2. \A p \in published' : p \in published \/ p = new
    BY <1>2
  <2>3. new.epoch = snap'.epoch /\ new.generation = snap'.generation
        /\ new.content = snap'.content /\ snap'.generation \in Nat
    BY <1>1, <1>5
  <2> HIDE DEF new
  <2>4. OneContent'
    BY <2>1, <2>2, <2>3 DEF NamesInv, OneContent
  <2> QED BY <1>5, <2>1, <2>2, <2>3, <2>4 DEF NamesInv
<1> QED BY <1>3, <1>4, <1>5 DEF RevisionMove

\* A process that stands keeps its base, when the row keeps its revision.
LEMMA BaseKept ==
  ASSUME NEW v \in Workers, BaseInv(v), pc'[v] = pc[v], mem'[v] = mem[v],
         Based(v) => /\ snap'.epoch = snap.epoch /\ snap'.generation = snap.generation
                     /\ snap'.content = snap.content
  PROVE  BaseInv(v)'
  BY DEF BaseInv, Based, Changing

\* Only four steps write the index.
LEMMA IndexStands ==
  ASSUME NEW w \in Workers, WorkerStep(w) \/ Crash(w),
         ~CommitMutation(w), ~CommitRebuild(w), ~WriteStale(w), ~CleanUp(w)
  PROVE  UNCHANGED index
  BY DEF WorkerStep, Crash, Start, OpenSource, FillSource, RemoveSource,
       StampReceipt, ReadSnapshot, ReadBack, RecheckSource, Scan, CheckReceipt,
       FenceMutation, InvalidateMetadata, StartRebuild, RebuildReceipt,
       ResetWriteRevision, FenceRebuild, ValidateRebuild, StartQuery, StartDoctor,
       ReaderReceipt, DoctorInventory, Reread, FenceQuery, ServeRows, FenceDoctor

\* What writes the row moves its revision on, where w still holds that revision.
LEMMA RevisionMoves ==
  ASSUME IInv, NEW w \in Workers, EpochInv(w), WorkerStep(w) \/ Crash(w),
         /\ snap' # snap /\ pc[w] \in {"commit", "demote"} /\ pc'[w] # pc[w]
         => Abreast(w)
  PROVE  RevisionMove
<1>1. /\ snap \in Snapshot /\ mem[w] \in Memory /\ mem[w].before \in Snapshot
      /\ epochs \in Nat /\ pc \in [Workers -> Steps]
  BY Parts DEF Typed, Memory
<1>2. CASE CommitMutation(w) /\ snap' # snap
  <2> DEFINE ready == Complete(mem[w], rows')
             new == [status |-> IF ready THEN "ready" ELSE "incomplete",
                     epoch |-> mem[w].before.epoch,
                     generation |-> NextGeneration(mem[w].before, ready),
                     content |-> rows', cwr |-> FencedBy(mem[w], ready)]
  <2>1. pc[w] = "commit" /\ pc'[w] # pc[w] /\ Changing(w) /\ snap' = new
    BY <1>1, <1>2 DEF CommitMutation, Changing, Done, Goto
  <2>2. Abreast(w)
    BY <1>2, <2>1
  <2>3. ready => snap.epoch # 0
    BY <2>1, <2>2 DEF EpochInv, MayPublish, Complete, Abreast
  <2>4. /\ snap'.status = IF ready THEN "ready" ELSE "incomplete"
        /\ snap'.epoch = snap.epoch
        /\ snap'.generation = snap.generation + (IF ready THEN 1 ELSE 0)
    BY <2>1, <2>2 DEF NextGeneration, Abreast
  <2> HIDE DEF ready, new
  <2> QED BY <1>1, <2>3, <2>4 DEF RevisionMove, Snapshot
<1>3. CASE CommitRebuild(w) /\ snap' # snap
  <2>1. Abreast(w)
    BY <1>1, <1>3 DEF CommitRebuild, Goto
  <2>2. /\ snap'.status = "ready"
        /\ snap'.epoch = IF snap.epoch = 0 THEN epochs + 1 ELSE snap.epoch
        /\ snap'.generation = snap.generation + 1
    BY <1>3, <2>1 DEF CommitRebuild, NextGeneration, Abreast
  <2> QED BY <1>1, <2>2 DEF RevisionMove, Snapshot
<1>4. CASE WriteStale(w) /\ snap' # snap
  <2>1. Abreast(w)
    BY <1>1, <1>4 DEF WriteStale, Done, Goto
  <2> QED BY <1>1, <1>4, <2>1 DEF WriteStale, RevisionMove, Snapshot, Abreast
<1>5. CASE CleanUp(w)
  BY <1>1, <1>5 DEF CleanUp, RevisionMove, Snapshot
<1> QED BY <1>2, <1>3, <1>4, <1>5, IndexStands DEF RevisionMove, index

\* A published row is of an epoch, whoever writes it.
LEMMA ReadyEpochOK ==
  ASSUME IInv, ReadyHasEpoch, NEW w \in Workers, EpochInv(w), WorkerStep(w) \/ Crash(w)
  PROVE  ReadyHasEpoch'
<1>1. /\ snap \in Snapshot /\ mem[w] \in Memory /\ mem[w].before \in Snapshot
      /\ epochs \in Nat
  BY Parts DEF Typed, Memory
<1>2. CASE CommitMutation(w)
  <2>1. /\ pc[w] = "commit" /\ Changing(w) /\ snap'.epoch = mem[w].before.epoch
        /\ snap'.status = IF Complete(mem[w], rows') THEN "ready" ELSE "incomplete"
    BY <1>2 DEF CommitMutation, Changing
  <2>2. Complete(mem[w], rows') => mem[w].valid
    BY DEF Complete
  <2> QED BY <2>1, <2>2 DEF EpochInv, MayPublish, ReadyHasEpoch
<1>3. CASE CommitRebuild(w)
  <2>1. snap'.epoch = IF mem[w].before.epoch = 0 THEN epochs + 1 ELSE mem[w].before.epoch
    BY <1>3 DEF CommitRebuild
  <2> QED BY <1>1, <2>1 DEF ReadyHasEpoch
<1>4. CASE WriteStale(w) \/ CleanUp(w)
  BY <1>1, <1>4 DEF WriteStale, CleanUp, ReadyHasEpoch, Snapshot
<1> QED BY <1>2, <1>3, <1>4, IndexStands DEF ReadyHasEpoch, index

\* What writes the index moves it on, where nobody else has since w read it.
LEMMA MovesOn ==
  ASSUME IInv, SnapInv, NEW w \in Workers, BaseInv(w), EpochInv(w),
         WorkerStep(w) \/ Crash(w)
  PROVE  IndexMove
<1>1. /\ snap \in Snapshot /\ mem[w] \in Memory /\ mem[w].before \in Snapshot
      /\ snap.content = rows
  BY Parts DEF Typed, Memory, SnapInv
<1>2. RevisionMove
  BY RevisionMoves DEF BaseInv, Based, Abreast
<1>3. CASE CommitMutation(w) \/ CommitRebuild(w)
  <2>1. snap'.content = rows'
    <3> DEFINE ready == Complete(mem[w], rows')
               new == [status |-> IF ready THEN "ready" ELSE "incomplete",
                       epoch |-> mem[w].before.epoch,
                       generation |-> NextGeneration(mem[w].before, ready),
                       content |-> rows', cwr |-> FencedBy(mem[w], ready)]
    <3>1. CASE CommitMutation(w)
      <4>1. snap' = new
        BY <3>1 DEF CommitMutation
      <4> QED BY <4>1
    <3>2. CASE CommitRebuild(w)
      BY <3>2 DEF CommitRebuild
    <3> QED BY <1>3, <3>1, <3>2
  <2> QED BY <1>1, <1>2, <2>1 DEF RevisionMove, IndexMove, index
<1>4. CASE WriteStale(w)
  <2>1. snap'.content = rows' /\ UNCHANGED rows
    BY <1>1, <1>4 DEF WriteStale, BaseInv, Based, Snapshot
  <2> QED BY <1>2, <2>1 DEF RevisionMove, IndexMove, index
<1>5. CASE CleanUp(w)
  <2>1. snap'.content = rows' /\ UNCHANGED rows
    BY <1>1, <1>5 DEF CleanUp, Snapshot
  <2> QED BY <1>2, <2>1 DEF RevisionMove, IndexMove, index
<1> QED BY <1>3, <1>4, <1>5, IndexStands DEF IndexMove

\* A process that takes a step has its base in order.
LEMMA BaseOK ==
  ASSUME IInv, ReadyHasEpoch, NEW w \in Workers, EpochInv(w), RoleInv(w),
         WorkerStep(w) \/ Crash(w)
  PROVE  EpochInv(w)' /\ (BaseInv(w) => BaseInv(w)')
<1> DEFINE Goal == EpochInv(w)' /\ (BaseInv(w) => BaseInv(w)')
<1>1. /\ pc \in [Workers -> Steps] /\ mem \in [Workers -> Memory]
      /\ mem[w] \in Memory /\ mem[w].before \in Snapshot /\ snap \in Snapshot /\ Held(w)
  BY Parts DEF Memory, Typed, WorkerOK
<1>2. ASSUME Done(w) PROVE Goal
  BY <1>1, <1>2 DEF Done, Goto, NoMemory, EpochInv, BaseInv, Based, MayPublish, Changing
<1>3. ASSUME NEW op, NEW t, NEW s, Start(w, op, t, s), s \in {"fill", "stamp", "snapshot"} \/
             (op \in {"rebuild", "doctor"} /\ s \in {"receipt", "scan"})
      PROVE  Goal
  <2>1. pc'[w] = s /\ mem'[w].op = op
    BY <1>1, <1>3 DEF Start, Goto, NoMemory
  <2> QED BY <1>3, <2>1 DEF EpochInv, BaseInv, Based, MayPublish, Changing
<1>4. ASSUME UNCHANGED snap, NEW s, NEW m, pc' = [pc EXCEPT ![w] = s],
             mem' = [mem EXCEPT ![w] = m], m.op = mem[w].op,
             \/ s \in {"stamp", "snapshot", "rescan", "fence", "invalidate", "serve", "cleanup",
                       "reset"}
             \/ s \in {"receipt", "scan"} /\ ~Changing(w)
             \/ m.before = mem[w].before /\ Based(w) /\ s # "readback"
                /\ ((s # "commit" \/ m.valid) /\ s # "demote" => MayPublish(w))
      PROVE  Goal
  <2>1. pc'[w] = s /\ mem'[w] = m
    BY <1>1, <1>4
  <2> QED BY <1>4, <2>1 DEF EpochInv, BaseInv, Based, MayPublish, Changing
<1>5. CASE \E t \in Sources : OpenSource(w, t) \/ RemoveSource(w, t)
  BY <1>1, <1>2, <1>3, <1>4, <1>5 DEF OpenSource, RemoveSource
<1>6. CASE StartRebuild(w) \/ StartQuery(w) \/ StartDoctor(w)
  BY <1>1, <1>2, <1>3, <1>4, <1>6 DEF StartRebuild, StartQuery, StartDoctor
<1>7. CASE \E t \in Sources : FillSource(w, t)
  BY <1>1, <1>2, <1>3, <1>4, <1>7
     DEF FillSource, Goto, Memory, index, Based, MayPublish, Changing
<1>8. CASE \E t \in Sources : ReadBack(w, t)
  BY <1>1, <1>2, <1>3, <1>4, <1>8
     DEF ReadBack, Goto, Fail, Held, Ready, Memory, index, Based, MayPublish, Changing
<1>9. CASE \E t \in Sources : RecheckSource(w, t)
  BY <1>1, <1>2, <1>3, <1>4, <1>9
     DEF RecheckSource, Goto, Fail, Rescan, Held, Memory, index, Based, MayPublish, Changing
<1>10. CASE \E t \in Sources : Scan(w, t)
  BY <1>1, <1>2, <1>3, <1>4, <1>10
     DEF Scan, Goto, Held, Memory, index, Based, MayPublish, Changing
<1>11. CASE StampReceipt(w)
  BY <1>1, <1>2, <1>3, <1>4, <1>11
     DEF StampReceipt, Goto, Memory, index, Based, MayPublish, Changing
<1>12. CASE ReadSnapshot(w)
  BY <1>1, <1>2, <1>3, <1>4, <1>12
     DEF ReadSnapshot, Goto, Held, Ready, ReadyHasEpoch, EpochInv, BaseInv, Memory,
         index, Based, MayPublish, Changing
<1>13. CASE CheckReceipt(w)
  BY <1>1, <1>2, <1>3, <1>4, <1>13
     DEF CheckReceipt, Goto, Fail, Held, Memory, index, Based, MayPublish, Changing
<1>14. CASE FenceMutation(w)
  BY <1>1, <1>2, <1>3, <1>4, <1>14
     DEF FenceMutation, Goto, Memory, index, Based, MayPublish, Changing
<1>15. CASE InvalidateMetadata(w)
  BY <1>1, <1>2, <1>3, <1>4, <1>15
     DEF InvalidateMetadata, Goto, EpochInv, BaseInv, Memory, index, Based, MayPublish,
         Changing
<1>16. CASE RebuildReceipt(w)
  BY <1>1, <1>2, <1>3, <1>4, <1>16
     DEF RebuildReceipt, Goto, Memory, index, Based, MayPublish, Changing
<1>17. CASE ResetWriteRevision(w)
  BY <1>1, <1>2, <1>3, <1>4, <1>17
     DEF ResetWriteRevision, RoleInv, Goto, Memory, index, Based, MayPublish, Changing
<1>18. CASE FenceRebuild(w)
  BY <1>1, <1>2, <1>3, <1>4, <1>18
     DEF FenceRebuild, Goto, Rescan, Memory, index, Based, MayPublish, Changing
<1>19. CASE ValidateRebuild(w)
  BY <1>1, <1>2, <1>3, <1>4, <1>19
     DEF ValidateRebuild, Goto, Memory, index, Based, MayPublish, Changing
<1>20. CASE CommitRebuild(w)
  BY <1>1, <1>2, <1>3, <1>4, <1>20
     DEF CommitRebuild, Goto, NoMemory, EpochInv, BaseInv, Memory, index, Based, MayPublish,
         Changing
<1>21. CASE ReaderReceipt(w)
  BY <1>1, <1>2, <1>3, <1>4, <1>21
     DEF ReaderReceipt, Goto, Memory, index, Based, MayPublish, Changing
<1>22. CASE DoctorInventory(w)
  BY <1>1, <1>2, <1>3, <1>4, <1>22
     DEF DoctorInventory, Goto, Memory, index, Based, MayPublish, Changing
<1>23. CASE Reread(w)
  BY <1>1, <1>2, <1>3, <1>4, <1>23
     DEF Reread, Goto, Memory, index, Based, MayPublish, Changing
<1>24. CASE FenceQuery(w)
  BY <1>1, <1>2, <1>3, <1>4, <1>24
     DEF FenceQuery, Goto, Memory, index, Based, MayPublish, Changing
<1>25. CASE FenceDoctor(w)
  BY <1>1, <1>2, <1>3, <1>4, <1>25
     DEF FenceDoctor, Goto, Memory, index, Based, MayPublish, Changing
<1>26. CASE CommitMutation(w) \/ WriteStale(w) \/ CleanUp(w) \/ ServeRows(w) \/ Crash(w)
  BY <1>1, <1>2, <1>3, <1>4, <1>26
     DEF CommitMutation, WriteStale, CleanUp, ServeRows, Crash
<1> QED
  BY <1>5, <1>6, <1>7, <1>8, <1>9, <1>10, <1>11, <1>12, <1>13, <1>14, <1>15, <1>16,
     <1>17, <1>18, <1>19, <1>20, <1>21, <1>22, <1>23, <1>24, <1>25, <1>26 DEF WorkerStep

\* The names are right as long as nobody has written the row on from a revision that
\* was not its own.
ForkInv ==
    /\ IInv /\ ReadyHasEpoch
    /\ forked \/ NamesInv
    /\ \A w \in Workers : RoleInv(w) /\ EpochInv(w)

\* Every step keeps that, whatever the other processes do.
LEMMA ForkStep == ForkInv /\ Next => ForkInv'
<1> SUFFICES ASSUME ForkInv, Next PROVE ForkInv'
  OBVIOUS
<1>1. /\ IInv /\ ReadyHasEpoch /\ Witness
      /\ forked \/ NamesInv
      /\ \A w \in Workers : RoleInv(w) /\ EpochInv(w)
  BY DEF ForkInv, Next
<1>2. IInv'
  BY <1>1, StepOK
<1>3. ASSUME ~forked' => RevisionMove PROVE forked' \/ NamesInv'
  <2>1. forked => forked'
    BY <1>1 DEF Witness
  <2> QED BY <1>1, <1>3, <2>1, MoveKeepsRevisions
<1>4. CASE \E t \in Sources : Edit(t)
  <2>1. UNCHANGED <<snap, pc, mem>>
    BY <1>4 DEF Edit, index
  <2>2. ReadyHasEpoch' /\ \A w \in Workers : RoleInv(w)' /\ EpochInv(w)'
    BY <1>1, <2>1 DEF ReadyHasEpoch, RoleInv, EpochInv, MayPublish, Changing
  <2>3. RevisionMove
    BY <2>1 DEF RevisionMove
  <2> QED BY <1>2, <1>3, <2>2, <2>3 DEF ForkInv
<1>5. ASSUME NEW w \in Workers, WorkerStep(w) \/ Crash(w) PROVE ForkInv'
  <2>1. ASSUME ~forked' PROVE RevisionMove
    <3>1. /\ snap' # snap /\ pc[w] \in {"commit", "demote"} /\ pc'[w] # pc[w]
          => Abreast(w)
      BY <1>1, <2>1 DEF Witness
    <3> QED BY <1>1, <1>5, <3>1, RevisionMoves
  <2>2. ReadyHasEpoch' /\ RoleInv(w)' /\ EpochInv(w)'
    BY <1>1, <1>5, ReadyEpochOK, RoleOK, BaseOK
  <2>3. ASSUME NEW v \in Workers, v # w PROVE RoleInv(v)' /\ EpochInv(v)'
    <3>1. pc'[v] = pc[v] /\ mem'[v] = mem[v]
      BY <1>1, <1>5, <2>3, OthersStand
    <3> QED BY <1>1, <3>1 DEF RoleInv, EpochInv, MayPublish, Changing
  <2> QED BY <1>2, <1>3, <2>1, <2>2, <2>3 DEF ForkInv
<1> QED BY <1>4, <1>5 DEF Next

-------------------------------------------------------------------------------
(* One process that changes anything, and any number of queries beside it *)

OneMutator == \A v, w \in Workers : v = w \/ Reader(v) \/ Reader(w)

\* Then the row is written on from its own revision every time.
RevisionInv ==
    /\ IInv /\ SnapInv
    /\ \A w \in Workers : RoleInv(w) /\ EpochInv(w) /\ BaseInv(w)

\* An unready row needs no epoch, and a ready one has it by its names.
LEMMA RevisionReady == SnapInv => ReadyHasEpoch
  BY DEF SnapInv, NamesInv, ReadyHasEpoch

\* It holds of a product that was never indexed, and of one with an item.
LEMMA RevisionInit == Init => RevisionInv
<1> SUFFICES ASSUME Init PROVE RevisionInv
  OBVIOUS
<1>1. \A w \in Workers : pc[w] = "idle" /\ mem[w] = NoMemory
  BY DEF Init
<1>2. \A w \in Workers : RoleInv(w) /\ EpochInv(w) /\ BaseInv(w)
  BY <1>1 DEF RoleInv, EpochInv, BaseInv, Based, MayPublish, Changing, QuerySteps, NoMemory
<1>3. ASSUME snap.content = rows, snap.epoch = 0, snap.status = "missing", published = {}
      PROVE  SnapInv
  BY <1>3 DEF SnapInv, NamesInv, OneContent
<1>4. ASSUME snap.content = rows, snap.epoch = 1, snap.generation = 1, NEW p,
             published = {p}, p.epoch = 1, p.generation = 1, p.content = rows
      PROVE  SnapInv
  <2>1. \A q \in published : q = p
    BY <1>4
  <2>2. snap.epoch # 0
    BY <1>4
  <2> QED BY <1>4, <2>1, <2>2 DEF SnapInv, NamesInv, OneContent
<1>5. SnapInv
  <2>1. CASE rows = NoFiles /\ snap = NoSnapshot /\ published = {}
    BY <1>3, <2>1 DEF NoSnapshot
  <2>2. CASE \E s \in Sources :
               /\ rows = files
               /\ snap = [status |-> "ready", epoch |-> 1, generation |-> 1,
                          content |-> files, cwr |-> 1]
               /\ published = {[epoch |-> 1, generation |-> 1, content |-> files]}
    <3> DEFINE p == [epoch |-> 1, generation |-> 1, content |-> files]
    <3>1. /\ snap.content = rows /\ snap.epoch = 1 /\ snap.generation = 1
          /\ published = {p} /\ p.epoch = 1 /\ p.generation = 1 /\ p.content = rows
      BY <2>2
    <3> HIDE DEF p
    <3> QED BY <1>4, <3>1
  <2> QED BY <2>1, <2>2 DEF Init
<1> QED BY <1>2, <1>5, InitOK DEF RevisionInv

\* Every step keeps it and moves the index on, with one mutator at a time.
LEMMA RevisionStep ==
  ASSUME OneMutator, RevisionInv, Next
  PROVE  RevisionInv' /\ IndexMove
<1>1. /\ IInv /\ SnapInv /\ NamesInv /\ ReadyHasEpoch /\ Witness
      /\ \A w \in Workers : RoleInv(w) /\ EpochInv(w) /\ BaseInv(w)
  BY RevisionReady DEF RevisionInv, SnapInv, Next
<1>2. IInv'
  BY <1>1, StepOK
<1>0. ASSUME IndexMove PROVE SnapInv'
  <2>1. RevisionMove /\ snap'.content = rows'
    BY <1>1, <1>0 DEF IndexMove, RevisionMove, SnapInv, index
  <2> QED BY <1>1, <2>1, MoveKeepsRevisions DEF SnapInv
<1>3. CASE \E t \in Sources : Edit(t)
  <2>1. UNCHANGED <<index, snap, pc, mem>>
    BY <1>3 DEF Edit, index
  <2>2. IndexMove /\ SnapInv'
    BY <1>0, <2>1 DEF IndexMove
  <2>3. \A w \in Workers : RoleInv(w)' /\ EpochInv(w)' /\ BaseInv(w)'
    BY <1>1, <2>1 DEF RoleInv, EpochInv, BaseInv, Based, MayPublish, Changing
  <2> QED BY <1>2, <2>2, <2>3 DEF RevisionInv
<1>4. ASSUME NEW w \in Workers, WorkerStep(w) \/ Crash(w)
      PROVE  RevisionInv' /\ IndexMove
  <2>1. IndexMove /\ SnapInv'
    BY <1>0, <1>1, <1>4, MovesOn
  <2>2. RoleInv(w)' /\ EpochInv(w)' /\ BaseInv(w)'
    BY <1>1, <1>4, RoleOK, BaseOK
  <2>3. ASSUME NEW v \in Workers, v # w
        PROVE  RoleInv(v)' /\ EpochInv(v)' /\ BaseInv(v)'
    <3>1. pc'[v] = pc[v] /\ mem'[v] = mem[v]
      BY <1>1, <1>4, <2>3, OthersStand
    <3>2. RoleInv(v)' /\ EpochInv(v)'
      BY <1>1, <3>1 DEF RoleInv, EpochInv, MayPublish, Changing
    <3>3. CASE Reader(v)
      <4>1. ~Based(v)
        BY <1>1, <3>3 DEF RoleInv, Based, Changing, QuerySteps
      <4> QED BY <1>1, <3>1, <3>2, <4>1, BaseKept
    <3>4. CASE Reader(w)
      <4>1. /\ snap'.epoch = snap.epoch /\ snap'.generation = snap.generation
            /\ snap'.content = snap.content
        BY <1>1, <1>4, <3>4, ReadersRead, Parts DEF Typed, Snapshot
      <4> QED BY <1>1, <3>1, <3>2, <4>1, BaseKept
    <3> QED BY <2>3, <3>3, <3>4 DEF OneMutator
  <2> QED BY <1>2, <2>1, <2>2, <2>3 DEF RevisionInv
<1> QED BY <1>3, <1>4 DEF Next

LEMMA RevisionStand == RevisionInv /\ UNCHANGED vars => RevisionInv'
<1> SUFFICES ASSUME RevisionInv, UNCHANGED vars PROVE RevisionInv'
  OBVIOUS
<1>1. IInv'
  BY StepOK DEF RevisionInv
<1>2. UNCHANGED <<snap, rows, pc, mem, published>>
  BY DEF vars, index
<1>3. SnapInv'
  BY <1>2 DEF RevisionInv, SnapInv, NamesInv, OneContent
<1>4. \A w \in Workers : RoleInv(w)' /\ EpochInv(w)' /\ BaseInv(w)'
  BY <1>2 DEF RevisionInv, RoleInv, EpochInv, BaseInv, Based, MayPublish, Changing
<1> QED BY <1>1, <1>3, <1>4 DEF RevisionInv

\* A revision is issued for a second content only after a process has written the
\* snapshot row on from a revision that was not the row's own, which the code lets a
\* process do that read the row before another wrote it.  For any number of mutating
\* commands, rebuilds, queries and doctors, wherever they die.
THEOREM RevisionsName == Spec => []RevisionNamesOneContent
<1>1. Init => ForkInv
  BY RevisionInit, RevisionReady DEF RevisionInv, SnapInv, ForkInv
<1>2. ForkInv /\ UNCHANGED vars => ForkInv'
  <2> SUFFICES ASSUME ForkInv, UNCHANGED vars PROVE ForkInv'
    OBVIOUS
  <2>1. IInv'
    BY StepOK DEF ForkInv
  <2>2. UNCHANGED <<snap, pc, mem, published, forked>>
    BY DEF vars, index
  <2> QED BY <2>1, <2>2 DEF ForkInv, ReadyHasEpoch, NamesInv, OneContent, RoleInv,
                            EpochInv, MayPublish, Changing
<1>3. ForkInv => RevisionNamesOneContent
  BY DEF ForkInv, NamesInv, RevisionNamesOneContent
<1> QED BY <1>1, <1>2, <1>3, ForkStep, PTL DEF Spec

-------------------------------------------------------------------------------
(* Queries: what one holds against the snapshot that it read *)

\* The snapshot row has gone on from the one w read, under that revision or past it.
Past(w) ==
    \/ snap.generation > mem[w].before.generation
    \/ snap.generation = mem[w].before.generation /\ snap.status # "ready"

\* The files were seen in a state that this row does not describe.
Other(w) == \E f \in seen[w] : f # mem[w].before.content

\* A content the file of s had since w began.
Had(w, s, c) == \E f \in seen[w] : f[s] = c

QueryInv(w) ==
    mem[w].op = "query" =>
        /\ pc[w] \in {"receipt", "scan", "fence", "cleanup"} => snap = mem[w].before \/ Past(w)
        /\ pc[w] \in {"scan", "fence", "cleanup"} => mem[w].before.status = "ready"
        /\ pc[w] \in {"scan", "fence"} =>
              \/ receipt.current = mem[w].stamp.current
              \/ receipt.current > mem[w].before.cwr
        /\ pc[w] = "scan" => \A s \in Sources \ mem[w].todo : Had(w, s, mem[w].first[s])
        /\ pc[w] = "fence" /\ ~mem[w].valid => Other(w) \/ Past(w)
        /\ pc[w] = "cleanup" => receipt.current # mem[w].before.cwr \/ Other(w) \/ Past(w)

\* A receipt is newer than every receipt before it.
LEMMA NewReceipt ==
  ASSUME IInv, Next
  PROVE  receipt' = receipt \/ receipt'.current = stamps + 1
<1>1. CASE \E t \in Sources : Edit(t)
  BY <1>1 DEF Edit
<1>2. ASSUME NEW w \in Workers, StampReceipt(w) \/ ResetWriteRevision(w)
      PROVE  receipt'.current = stamps + 1
  BY <1>2 DEF StampReceipt, ResetWriteRevision, NoReceipt
<1>3. ASSUME NEW w \in Workers, WorkerStep(w) \/ Crash(w),
             ~StampReceipt(w), ~ResetWriteRevision(w)
      PROVE  receipt' = receipt
  BY <1>3 DEF WorkerStep, Crash, Start, OpenSource, FillSource, RemoveSource,
       ReadSnapshot, ReadBack, RecheckSource, Scan, CheckReceipt, FenceMutation,
       CommitMutation, InvalidateMetadata, WriteStale, StartRebuild, RebuildReceipt,
       FenceRebuild, ValidateRebuild, CommitRebuild, StartQuery, StartDoctor,
       ReaderReceipt, DoctorInventory, Reread, FenceQuery, CleanUp, ServeRows,
       FenceDoctor, store
<1> QED BY <1>1, <1>2, <1>3 DEF Next

\* The row stays behind w, or past what w read.
LEMMA PastKept ==
  ASSUME IInv, IndexMove, NEW v \in Workers, mem'[v] = mem[v]
  PROVE  /\ snap = mem[v].before \/ Past(v) => (snap = mem[v].before \/ Past(v))'
         /\ Past(v) => Past(v)'
<1>1. /\ snap \in Snapshot /\ snap.generation \in Nat
      /\ mem[v].before \in Snapshot /\ mem[v].before.generation \in Nat
  BY Parts DEF Typed, Memory, Snapshot
<1> QED BY <1>1 DEF Past, IndexMove, index

\* The steps of others leave a query where it was.
LEMMA QueryKept ==
  ASSUME IInv, IndexMove, Next, NEW v \in Workers, QueryInv(v),
         pc'[v] = pc[v], mem'[v] = mem[v]
  PROVE  QueryInv(v)'
<1> SUFFICES ASSUME mem[v].op = "query", pc[v] # "idle" PROVE QueryInv(v)'
  BY DEF QueryInv
<1>1. seen[v] \subseteq seen'[v]
  BY SeesFiles DEF Next
<1>2. Other(v) => Other(v)'
  BY <1>1 DEF Other
<1>3. \A s, c : Had(v, s, c) => Had(v, s, c)'
  BY <1>1 DEF Had
<1>4. /\ receipt' = receipt \/ receipt'.current > mem[v].before.cwr
      /\ mem[v].before.cwr \in Nat
  <2>1. mem[v] \in Memory /\ Held(v) /\ stamps \in Nat
    BY Parts DEF Typed, WorkerOK
  <2>2. mem[v].before.cwr \in Nat /\ mem[v].before.cwr <= stamps
    BY <2>1 DEF Memory, Snapshot, Held
  <2> QED BY <2>1, <2>2, NewReceipt
<1>5. receipt'.current # mem[v].before.cwr \/ receipt' = receipt
  BY <1>4
<1> QED BY <1>2, <1>3, <1>4, <1>5, PastKept DEF QueryInv

\* A process becomes a query where it ends, or begins one.
LEMMA BecomesQuery ==
  ASSUME IInv, NEW w \in Workers, WorkerStep(w) \/ Crash(w), mem'[w].op = "query"
  PROVE  mem[w].op = "query" \/ pc'[w] \in {"idle", "snapshot"}
<1>1. /\ pc \in [Workers -> Steps] /\ mem \in [Workers -> Memory] /\ mem[w] \in Memory
  BY Parts
<1>2. ASSUME Done(w) PROVE pc'[w] = "idle"
  BY <1>1, <1>2 DEF Done, Goto
<1>3. ASSUME NEW op, NEW t, NEW s, Start(w, op, t, s) PROVE mem'[w].op = op /\ pc'[w] = s
  BY <1>1, <1>3 DEF Start, Goto, NoMemory
<1>4. CASE \E t \in Sources : OpenSource(w, t) \/ RemoveSource(w, t)
  BY <1>3, <1>4 DEF OpenSource, RemoveSource
<1>5. CASE StartRebuild(w) \/ StartQuery(w) \/ StartDoctor(w)
  BY <1>3, <1>5 DEF StartRebuild, StartQuery, StartDoctor
<1>6. CASE \E t \in Sources : FillSource(w, t) \/ ReadBack(w, t)
  BY <1>1, <1>2, <1>6 DEF FillSource, ReadBack, Fail, Memory
<1>7. CASE \E t \in Sources : RecheckSource(w, t) \/ Scan(w, t)
  BY <1>1, <1>2, <1>7 DEF RecheckSource, Scan, Fail, Rescan, Memory
<1>8. CASE StampReceipt(w) \/ ReadSnapshot(w) \/ CheckReceipt(w) \/ FenceMutation(w)
  BY <1>1, <1>2, <1>8 DEF StampReceipt, ReadSnapshot, CheckReceipt, FenceMutation, Fail, Memory
<1>9. CASE CommitMutation(w) \/ InvalidateMetadata(w) \/ WriteStale(w)
  BY <1>1, <1>2, <1>9 DEF CommitMutation, InvalidateMetadata, WriteStale, Memory
<1>10. CASE RebuildReceipt(w) \/ ResetWriteRevision(w) \/ FenceRebuild(w)
  BY <1>1, <1>2, <1>10 DEF RebuildReceipt, ResetWriteRevision, FenceRebuild, Rescan, Memory
<1>11. CASE ValidateRebuild(w) \/ CommitRebuild(w)
  BY <1>1, <1>2, <1>11 DEF ValidateRebuild, CommitRebuild, NoMemory
<1>12. CASE ReaderReceipt(w) \/ DoctorInventory(w) \/ Reread(w)
  BY <1>1, <1>2, <1>12 DEF ReaderReceipt, DoctorInventory, Reread, Memory
<1>13. CASE FenceQuery(w) \/ CleanUp(w) \/ ServeRows(w) \/ FenceDoctor(w) \/ Crash(w)
  BY <1>1, <1>2, <1>13 DEF FenceQuery, CleanUp, ServeRows, FenceDoctor, Crash
<1> QED
  BY <1>4, <1>5, <1>6, <1>7, <1>8, <1>9, <1>10, <1>11, <1>12, <1>13 DEF WorkerStep

\* A query learns what it needs: that the rows it rejects are not those of files it
\* saw, or that the receipt it saw is not the one the snapshot was fenced by.
LEMMA QueryLearns ==
  ASSUME RevisionInv, Witness, NEW w \in Workers, QueryInv(w),
         WorkerStep(w) \/ Crash(w)
  PROVE  QueryInv(w)'
<1>1. /\ pc \in [Workers -> Steps] /\ mem \in [Workers -> Memory] /\ mem[w] \in Memory
      /\ mem[w].before \in Snapshot /\ mem[w].first \in Files
      /\ mem[w].before.content \in Files /\ snap \in Snapshot
      /\ IInv /\ SnapInv /\ RoleInv(w) /\ snap.content = rows
  BY Parts DEF RevisionInv, Memory, Snapshot, Typed, SnapInv
<1>2. CASE pc'[w] \in {"idle", "snapshot"}
  BY <1>2 DEF QueryInv
<1> SUFFICES ASSUME pc'[w] \notin {"idle", "snapshot"}, mem'[w].op = "query"
             PROVE  QueryInv(w)'
  BY <1>2 DEF QueryInv
<1>3. mem[w].op = "query"
  BY <1>1, BecomesQuery
<1>4. ~Done(w) /\ ~Crash(w)
  BY <1>1 DEF Done, Goto, Crash
<1>5. \A op, t, s : Start(w, op, t, s) => op = "query" /\ s = pc'[w]
  BY <1>1 DEF Start, Goto, NoMemory
<1>6. /\ ~StartRebuild(w) /\ ~StartDoctor(w) /\ ~StartQuery(w)
      /\ \A s \in Sources : ~OpenSource(w, s) /\ ~RemoveSource(w, s)
  BY <1>5 DEF StartRebuild, StartDoctor, StartQuery, OpenSource, RemoveSource
<1>7. QueryStep(w) /\ ~CleanUp(w) /\ ~ServeRows(w)
  BY <1>1, <1>3, <1>4, <1>6, QueriesQuery DEF CleanUp, ServeRows
<1>8. seen[w] \subseteq seen'[w] /\ files \in seen'[w]
  BY SeesFiles
<1>9. CASE ReadSnapshot(w)
  <2>1. pc'[w] = "receipt" /\ mem'[w].before = snap /\ snap' = snap
    BY <1>1, <1>3, <1>9 DEF ReadSnapshot, Goto, Memory, index
  <2> QED BY <2>1 DEF QueryInv
<1>10. CASE ReaderReceipt(w)
  <2>1. /\ pc[w] = "receipt" /\ pc'[w] = "scan" /\ mem[w].before.status = "ready"
        /\ mem'[w].before = mem[w].before /\ mem'[w].stamp = receipt
        /\ mem'[w].todo = Sources /\ UNCHANGED <<snap, receipt>>
    BY <1>1, <1>3, <1>4, <1>10 DEF ReaderReceipt, Goto, Memory, Ready, store, index
  <2> QED BY <1>3, <2>1 DEF QueryInv, Past
<1>11. CASE \E t \in Sources : Scan(w, t)
  <2>1. PICK t \in Sources : Scan(w, t)
    BY <1>11
  <2>2. /\ pc[w] = "scan" /\ pc'[w] = "scan" /\ mem'[w].before = mem[w].before
        /\ mem'[w].stamp = mem[w].stamp /\ mem'[w].todo = mem[w].todo \ {t}
        /\ mem'[w].first = [mem[w].first EXCEPT ![t] = files[t]]
        /\ UNCHANGED <<snap, receipt>>
    BY <1>1, <1>3, <1>4, <2>1 DEF Scan, Memory, RoleInv, QuerySteps, store, index
  <2>3. ASSUME NEW s \in Sources \ mem'[w].todo
             PROVE  \E f \in seen'[w] : f[s] = mem'[w].first[s]
    <3>1. CASE s = t
      BY <1>1, <1>8, <2>2, <3>1 DEF Files
    <3>2. CASE s # t
      BY <1>1, <1>3, <1>8, <2>2, <3>2 DEF Had, QueryInv, Files
    <3> QED BY <3>1, <3>2
  <2> QED BY <1>3, <2>2, <2>3 DEF QueryInv, Past, Had
<1>12. CASE Reread(w)
  <2>1. /\ pc[w] = "scan" /\ pc'[w] = "fence" /\ mem'[w].before = mem[w].before
        /\ mem'[w].stamp = mem[w].stamp /\ mem[w].todo = {}
        /\ mem'[w].valid = Agreement(w) /\ UNCHANGED <<snap, receipt>>
    BY <1>1, <1>3, <1>12 DEF Reread, Goto, Memory, store, index
  <2>2. ASSUME ~Agreement(w), ~Past(w) PROVE Other(w)'
    <3>1. rows = mem[w].before.content
      BY <1>1, <1>3, <2>1, <2>2 DEF QueryInv
    <3>2. mem[w].first # mem[w].before.content
      BY <1>3, <2>2, <3>1 DEF Agreement
    <3>3. PICK s \in Sources : mem[w].first[s] # mem[w].before.content[s]
      BY <1>1, <3>2 DEF Files
    <3>4. PICK f \in seen[w] : f[s] = mem[w].first[s]
      BY <1>3, <2>1 DEF QueryInv, Had
    <3> QED BY <1>8, <2>1, <3>3, <3>4 DEF Other
  <2> QED BY <1>3, <2>1, <2>2 DEF QueryInv, Past
<1>13. CASE FenceQuery(w)
  <2>1. /\ pc[w] = "fence" /\ mem' = mem /\ UNCHANGED <<snap, receipt>>
        /\ \/ pc'[w] = "serve"
           \/ pc'[w] = "cleanup" /\ ~Current(w)
    BY <1>1, <1>4, <1>13 DEF FenceQuery, Goto, store, index
  <2>2. Other(w) => Other(w)'
    BY <1>8, <2>1 DEF Other
  <2>3. /\ receipt.current \in Nat /\ mem[w].before.cwr \in Nat
        /\ ~(receipt.current > mem[w].before.cwr /\ receipt.current = mem[w].before.cwr)
    BY <1>1, Parts DEF Typed, Receipt, Snapshot
  <2>4. CASE pc'[w] = "cleanup"
    BY <1>3, <2>1, <2>2, <2>3, <2>4 DEF QueryInv, Past, Current
  <2> QED BY <2>1, <2>4 DEF QueryInv
<1> QED BY <1>6, <1>7, <1>9, <1>10, <1>11, <1>12, <1>13 DEF QueryStep

\* The invariant of the queries.
DemotionInv == RevisionInv /\ \A w \in Workers : QueryInv(w)

LEMMA DemotionInit == Init => DemotionInv
<1>1. Init => \A w \in Workers : QueryInv(w)
  BY DEF Init, QueryInv
<1> QED BY <1>1, RevisionInit DEF DemotionInv

LEMMA DemotionStep ==
  ASSUME OneMutator, DemotionInv, Next
  PROVE  DemotionInv'
<1>1. /\ RevisionInv /\ IInv /\ Witness /\ \A w \in Workers : QueryInv(w)
      /\ RevisionInv' /\ IndexMove
  BY RevisionStep DEF DemotionInv, RevisionInv, Next
<1>2. CASE \E t \in Sources : Edit(t)
  <2>1. pc' = pc /\ mem' = mem
    BY <1>2 DEF Edit
  <2> QED BY <1>1, <2>1, QueryKept DEF DemotionInv
<1>3. ASSUME NEW w \in Workers, WorkerStep(w) \/ Crash(w) PROVE DemotionInv'
  <2>1. QueryInv(w)'
    BY <1>1, <1>3, QueryLearns
  <2>2. ASSUME NEW v \in Workers, v # w PROVE QueryInv(v)'
    BY <1>1, <1>3, <2>2, OthersStand, QueryKept
  <2> QED BY <1>1, <2>1, <2>2 DEF DemotionInv
<1> QED BY <1>2, <1>3 DEF Next

LEMMA DemotionStand == DemotionInv /\ UNCHANGED vars => DemotionInv'
<1> SUFFICES ASSUME DemotionInv, UNCHANGED vars PROVE DemotionInv'
  OBVIOUS
<1>1. UNCHANGED <<snap, receipt, pc, mem, seen>>
  BY DEF vars, index, store
<1>2. \A w \in Workers : QueryInv(w)'
  BY <1>1 DEF DemotionInv, QueryInv, Past, Other, Had
<1> QED BY <1>2, RevisionStand DEF DemotionInv

LEMMA DemotionAlways ==
  ASSUME OneMutator
  PROVE  Spec => []DemotionInv
<1>1. DemotionInv /\ [Next]_vars => DemotionInv'
  BY DemotionStep, DemotionStand
<1> QED BY <1>1, DemotionInit, PTL DEF Spec

\* A query demotes no snapshot that nothing has superseded, as long as one process
\* at a time changes items or the index: what it rejects it has seen to be wrong.
THEOREM HealthyStays ==
  ASSUME OneMutator
  PROVE  Spec => HealthyNotDemoted
<1> DEFINE Kept == \A w \in Workers :
             pc[w] = "cleanup" /\ pc'[w] # "cleanup" /\ snap' # snap =>
                 \/ receipt.current # snap.cwr
                 \/ \E f \in seen[w] : f # snap.content
<1>1. DemotionInv /\ [Next]_vars => [Kept]_vars
  <2> SUFFICES ASSUME DemotionInv, Next, NEW w \in Workers,
                      pc[w] = "cleanup", pc'[w] # "cleanup", snap' # snap
               PROVE  receipt.current # snap.cwr \/ \E f \in seen[w] : f # snap.content
    OBVIOUS
  <2>1. IInv /\ RoleInv(w) /\ QueryInv(w) /\ mem[w].op = "query"
    BY DEF DemotionInv, RevisionInv, RoleInv
  <2>2. WorkerStep(w) \/ Crash(w)
    BY <2>1, OwnStep
  <2>3. WorkerStep(w)
    BY <2>2 DEF Crash, index
  <2>4. CleanUp(w)
    BY <2>1, <2>3, QueriesQuery
       DEF QueryStep, OpenSource, RemoveSource, StartRebuild, StartDoctor, StartQuery, Start,
           ReadSnapshot, ReaderReceipt, Scan, Reread, FenceQuery, ServeRows
  <2>5. snap = mem[w].before
    BY <2>4 DEF CleanUp, Unpublished
  <2>6. ~Past(w)
    <3>1. snap.generation \in Nat /\ snap.status = "ready"
      BY <2>1, <2>5, Parts DEF Typed, Snapshot, QueryInv
    <3> QED BY <2>5, <3>1 DEF Past
  <2> QED BY <2>1, <2>5, <2>6 DEF QueryInv, Other
<1> QED BY <1>1, DemotionAlways, PTL DEF Spec, HealthyNotDemoted

-------------------------------------------------------------------------------
(* Rows a query returns: what the mutation beside it does to them meanwhile *)

\* w has changed its file, with a receipt, and not written its row yet.
Pending(w) ==
    Changing(w) /\ pc[w] \in {"snapshot", "readback", "receipt", "recheck", "scan", "commit"}

\* No snapshot that was read before w's receipt is fenced by it; nobody moves the
\* receipt while w scans for a rebuild; and a removed file stays away.
MutatorInv(w) ==
    /\ Pending(w) =>
          /\ snap.cwr < receipt.current
          /\ \A v \in Workers \ {w} : mem[v].before.cwr < receipt.current
    /\ mem[w].op = "rebuild" /\ pc[w] \in {"scan", "rescan", "snapshot", "commit"} =>
          receipt.current = mem[w].stamp.current
    /\ mem[w].op = "delete" /\ pc[w] = "stamp" =>
          \A s \in mem[w].source \ drift : files[s] = Absent

\* Only two steps move the receipt.
LEMMA ReceiptStands ==
  ASSUME NEW w \in Workers, WorkerStep(w) \/ Crash(w),
         ~StampReceipt(w), ~ResetWriteRevision(w)
  PROVE  receipt' = receipt
  BY DEF WorkerStep, Crash, Start, OpenSource, FillSource, RemoveSource,
       ReadSnapshot, ReadBack, RecheckSource, Scan, CheckReceipt, FenceMutation,
       CommitMutation, InvalidateMetadata, WriteStale, StartRebuild, RebuildReceipt,
       FenceRebuild, ValidateRebuild, CommitRebuild, StartQuery, StartDoctor,
       ReaderReceipt, DoctorInventory, Reread, FenceQuery, CleanUp, ServeRows,
       FenceDoctor, store

\* A mutation becomes pending when it stamps its receipt, and only then.
LEMMA MutatorOK ==
  ASSUME IInv, NEW w \in Workers, RoleInv(w), MutatorInv(w), WorkerStep(w) \/ Crash(w)
  PROVE  MutatorInv(w)'
<1>1. /\ pc \in [Workers -> Steps] /\ mem \in [Workers -> Memory] /\ mem[w] \in Memory
  BY Parts
<1>2. ASSUME Done(w) PROVE MutatorInv(w)'
  BY <1>1, <1>2 DEF Done, Goto, NoMemory, MutatorInv, Pending, Changing
<1>3. ASSUME NEW op, NEW t, NEW s, Start(w, op, t, s), s \in {"fill", "stamp", "receipt"} \/
             op \notin {"write", "delete", "rebuild"},
             op = "delete" /\ s = "stamp" => \A x \in t : files'[x] = Absent,
             op \in {"write", "delete"} => s # "receipt"
      PROVE  MutatorInv(w)'
  <2>1. pc'[w] = s /\ mem'[w].op = op /\ mem'[w].source = t
    BY <1>1, <1>3 DEF Start, Goto, NoMemory
  <2> QED BY <1>3, <2>1 DEF MutatorInv, Pending, Changing
<1>4. ASSUME UNCHANGED <<snap, receipt>>, NEW s, NEW m, pc' = [pc EXCEPT ![w] = s],
             mem' = [mem EXCEPT ![w] = m], s # "stamp", m.op = mem[w].op,
             Changing(w) => Pending(w) \/ s \in {"idle", "invalidate", "demote"},
             m.op = "rebuild" /\ s \in {"scan", "rescan", "snapshot", "commit"} =>
                receipt.current = m.stamp.current
      PROVE  MutatorInv(w)'
  <2>1. pc'[w] = s /\ mem'[w] = m /\ \A v \in Workers \ {w} : mem'[v] = mem[v]
    BY <1>1, <1>4
  <2>2. Pending(w)' => Pending(w)
    BY <1>4, <2>1 DEF Pending, Changing
  <2> QED BY <1>4, <2>1, <2>2 DEF MutatorInv
<1>5. CASE StampReceipt(w)
  <2>1. /\ receipt'.current = stamps + 1 /\ snap' = snap /\ mem' = mem
        /\ pc'[w] = "snapshot" /\ pc[w] = "stamp"
    BY <1>1, <1>5 DEF StampReceipt, Goto, index
  <2>2. /\ snap.cwr <= stamps /\ stamps \in Nat /\ snap.cwr \in Nat
        /\ \A v \in Workers : mem[v].before.cwr <= stamps /\ mem[v].before.cwr \in Nat
    BY <1>1, Parts DEF SnapshotOK, WorkerOK, Held, Typed, Snapshot, Memory
  <2>3. mem[w].op # "rebuild"
    BY <2>1, Parts DEF WorkerOK, Locked
  <2> QED BY <2>1, <2>2, <2>3 DEF MutatorInv
<1>6. CASE ResetWriteRevision(w)
  <2>1. pc'[w] = "scan" /\ mem'[w].op = "rebuild" /\ mem'[w].stamp = receipt'
    BY <1>1, <1>6 DEF ResetWriteRevision, Goto, Memory, RoleInv
  <2> QED BY <2>1 DEF MutatorInv, Pending, Changing
<1>7. CASE \E t \in Sources : FillSource(w, t)
  <2>1. pc'[w] = "stamp" /\ mem'[w].op = "write"
    BY <1>1, <1>7 DEF FillSource, Goto, RoleInv
  <2> QED BY <2>1 DEF MutatorInv, Pending, Changing
<1>8. CASE CommitRebuild(w)
  <2>1. mem'[w].op = "doctor"
    BY <1>1, <1>8 DEF CommitRebuild, NoMemory
  <2> QED BY <2>1 DEF MutatorInv, Pending, Changing
<1>9. CASE \E t \in Sources : OpenSource(w, t)
  <2>1. PICK t \in Sources : Start(w, "write", {t}, "fill")
    BY <1>9 DEF OpenSource
  <2> QED BY <1>3, <2>1
<1>10. CASE \E t \in Sources : RemoveSource(w, t)
  <2>1. PICK t \in Sources : Start(w, "delete", {t}, "stamp") /\ SetFile(t, Absent)
    BY <1>10 DEF RemoveSource
  <2>2. \A x \in {t} : files'[x] = Absent
    BY <2>1, Parts DEF SetFile, Typed, Files
  <2> QED BY <1>3, <2>1, <2>2
<1>11. CASE StartRebuild(w) \/ StartQuery(w) \/ StartDoctor(w)
  BY <1>1, <1>2, <1>3, <1>4, <1>11
     DEF StartRebuild, StartQuery, StartDoctor
<1>12. CASE \E t \in Sources : ReadBack(w, t)
  <2>1. pc[w] = "readback" /\ UNCHANGED <<snap, receipt>>
    BY <1>12 DEF ReadBack, index, store
  <2>2. Changing(w) => Pending(w)
    BY <2>1 DEF Pending
  <2>3. CASE Fail(w)
    BY <1>1, <1>2, <1>4, <2>1, <2>2, <2>3, Parts
       DEF Fail, Goto, Changing, WorkerOK, Held
  <2>4. CASE ~Fail(w)
    BY <1>1, <1>4, <1>12, <2>1, <2>2, <2>4, Parts
       DEF ReadBack, Goto, Memory, Changing, WorkerOK, Held
  <2> QED BY <2>3, <2>4
<1>13. CASE \E t \in Sources : RecheckSource(w, t)
  <2>1. /\ pc[w] = "recheck" /\ UNCHANGED <<snap, receipt>>
        /\ mem[w].op \in {"write", "delete"}
    BY <1>13, Parts DEF RecheckSource, index, store, WorkerOK, Held
  <2>2. Pending(w)
    BY <2>1 DEF Pending, Changing
  <2>3. CASE Fail(w)
    BY <1>1, <1>2, <1>4, <2>1, <2>2, <2>3 DEF Fail, Goto
  <2>4. CASE ~Fail(w)
    <3>1. (Goto(w, "commit") /\ UNCHANGED mem) \/ Rescan(w, "scan")
      BY <1>13, <2>4 DEF RecheckSource
    <3> QED BY <1>1, <1>4, <2>1, <2>2, <3>1 DEF Goto, Rescan, Memory
  <2> QED BY <2>3, <2>4
<1>14. CASE \E t \in Sources : Scan(w, t)
  BY <1>1, <1>2, <1>3, <1>4, <1>14
     DEF Scan, Goto, MutatorInv, Memory, index, store, Pending, Changing
<1>15. CASE ReadSnapshot(w)
  BY <1>1, <1>2, <1>3, <1>4, <1>15
     DEF ReadSnapshot, Goto, MutatorInv, Memory, index, store, Pending, Changing
<1>16. CASE CheckReceipt(w)
  BY <1>1, <1>2, <1>3, <1>4, <1>16
     DEF CheckReceipt, Goto, Fail, Memory, index, store, Pending, Changing
<1>17. CASE FenceMutation(w)
  BY <1>1, <1>2, <1>3, <1>4, <1>17
     DEF FenceMutation, Goto, Memory, index, store, Pending, Changing
<1>18. CASE InvalidateMetadata(w)
  BY <1>1, <1>2, <1>3, <1>4, <1>18
     DEF InvalidateMetadata, Goto, Memory, index, store, Pending, Changing
<1>19. CASE RebuildReceipt(w)
  BY <1>1, <1>2, <1>3, <1>4, <1>19
     DEF RebuildReceipt, Goto, Memory, index, store, Pending, Changing
<1>20. CASE FenceRebuild(w)
  BY <1>1, <1>2, <1>3, <1>4, <1>20
     DEF FenceRebuild, Goto, Rescan, Memory, index, store, Pending, Changing
<1>21. CASE ValidateRebuild(w)
  BY <1>1, <1>2, <1>3, <1>4, <1>21
     DEF ValidateRebuild, Goto, MutatorInv, Memory, index, store, Pending, Changing
<1>22. CASE ReaderReceipt(w)
  BY <1>1, <1>2, <1>3, <1>4, <1>22
     DEF ReaderReceipt, Goto, Memory, index, store, Pending, Changing
<1>23. CASE DoctorInventory(w)
  BY <1>1, <1>2, <1>3, <1>4, <1>23
     DEF DoctorInventory, Goto, Memory, index, store, Pending, Changing
<1>24. CASE Reread(w)
  BY <1>1, <1>2, <1>3, <1>4, <1>24
     DEF Reread, Goto, Memory, index, store, Pending, Changing
<1>25. CASE FenceQuery(w)
  BY <1>1, <1>2, <1>3, <1>4, <1>25
     DEF FenceQuery, Goto, RoleInv, Memory, index, store, Pending, Changing
<1>26. CASE FenceDoctor(w)
  BY <1>1, <1>2, <1>3, <1>4, <1>26
     DEF FenceDoctor, Goto, Memory, index, store, Pending, Changing
<1>27. CASE CommitMutation(w) \/ WriteStale(w) \/ CleanUp(w) \/ ServeRows(w) \/ Crash(w)
  BY <1>1, <1>2, <1>3, <1>4, <1>27
     DEF CommitMutation, WriteStale, CleanUp, ServeRows, Crash
<1> QED
  BY <1>5, <1>6, <1>7, <1>8, <1>9, <1>10, <1>11, <1>12, <1>13, <1>14, <1>15, <1>16,
     <1>17, <1>18, <1>19, <1>20, <1>21, <1>22, <1>23, <1>24, <1>25, <1>26, <1>27 DEF WorkerStep

\* A query has found its rows good, and nothing says otherwise yet.
Serving(w) ==
    \/ pc[w] = "serve"
    \/ pc[w] = "fence" /\ mem[w].op = "query" /\ Current(w)

\* Where a write has read back the row that it will write.
Late == {"receipt", "recheck", "scan", "commit"}

\* The rows a pending mutation v will write are those of files that w has seen.
Foreseen(w, v) ==
    \A s \in mem[v].source \ drift :
        /\ mem[v].op = "write" /\ pc[v] \in Late =>
              Had(w, s, mem[v].row)
        /\ mem[v].op = "delete" /\ Pending(v) => Had(w, s, Absent)

\* So while a query serves, every row is a content its file had meanwhile.
ServeInv(w) ==
    /\ Serving(w) => \A s \in Sources \ drift : Had(w, s, rows[s])
    /\ pc[w] = "serve" => \A v \in Workers : Foreseen(w, v)

\* Nobody forgets what it has seen before it is done.
LEMMA HadKept ==
  ASSUME Witness, NEW w \in Workers, pc'[w] # "idle"
  PROVE  /\ \A s, c : (\E f \in seen[w] : f[s] = c) => \E f \in seen'[w] : f[s] = c
         /\ \A s : \E f \in seen'[w] : f[s] = files[s]
  BY SeesFiles

\* A verdict stands as long as the receipt does.
LEMMA StillServing ==
  ASSUME IInv, Next, NEW w \in Workers, pc'[w] = pc[w], mem'[w] = mem[w], Serving(w)'
  PROVE  Serving(w) /\ (pc[w] = "fence" => receipt'.current = receipt.current)
<1>1. CASE pc[w] = "serve"
  BY <1>1 DEF Serving
<1>2. CASE pc[w] # "serve"
  <2>1. /\ pc[w] = "fence" /\ mem[w].op = "query" /\ mem[w].valid
        /\ mem[w].stamp.current = mem[w].before.cwr
        /\ receipt'.current = mem[w].stamp.current
    BY <1>2 DEF Serving, Current
  <2>2. mem[w].stamp.current <= stamps /\ mem[w].stamp.current \in Nat /\ stamps \in Nat
    BY Parts DEF WorkerOK, Held, Typed, Memory, Receipt
  <2>3. receipt' = receipt
    BY <2>1, <2>2, NewReceipt
  <2> QED BY <2>1, <2>3 DEF Serving, Current
<1> QED BY <1>1, <1>2

\* Readers and edits change no row.
LEMMA ServeUnmoved ==
  ASSUME IInv, Next, NEW w \in Workers, ServeInv(w), pc'[w] = pc[w], mem'[w] = mem[w],
         rows' = rows, drift \subseteq drift',
         \A v \in Workers : \/ mem'[v].op = "query"
                            \/ pc'[v] = pc[v] /\ mem'[v] = mem[v]
  PROVE  ServeInv(w)'
<1> SUFFICES ASSUME Serving(w)' PROVE ServeInv(w)'
  BY DEF ServeInv, Serving
<1>1. Serving(w) /\ pc'[w] # "idle"
  BY StillServing DEF Serving
<1>2. \A s, c : Had(w, s, c) => \E f \in seen'[w] : f[s] = c
  BY <1>1, HadKept DEF Had, Next
<1>3. \A s \in Sources \ drift' : \E f \in seen'[w] : f[s] = rows'[s]
  BY <1>1, <1>2 DEF ServeInv
<1>4. ASSUME pc[w] = "serve", NEW v \in Workers PROVE Foreseen(w, v)'
  <2>1. CASE mem'[v].op = "query"
    BY <2>1 DEF Foreseen
  <2>2. CASE pc'[v] = pc[v] /\ mem'[v] = mem[v]
    <3>1. Foreseen(w, v)
      BY <1>4 DEF ServeInv
    <3>2. Pending(v)' <=> Pending(v)
      BY <2>2 DEF Pending, Changing
    <3>3. ASSUME NEW s \in mem'[v].source \ drift'
          PROVE  /\ mem'[v].op = "write" /\ pc'[v] \in Late
                      => Had(w, s, mem[v].row)'
                 /\ mem'[v].op = "delete" /\ Pending(v)' => Had(w, s, Absent)'
      <4>1. s \in mem[v].source \ drift
        BY <2>2, <3>3
      <4>2. /\ mem[v].op = "write" /\ pc[v] \in Late
                 => Had(w, s, mem[v].row)
            /\ mem[v].op = "delete" /\ Pending(v) => Had(w, s, Absent)
        BY <3>1, <4>1 DEF Foreseen
      <4> QED BY <1>2, <2>2, <3>2, <4>2 DEF Had
    <3> QED BY <2>2, <3>3 DEF Foreseen
  <2> QED BY <2>1, <2>2
<1> QED BY <1>3, <1>4 DEF ServeInv, Had

\* How a mutation comes by that row, and when a removal is pending.
Handed(v) ==
    /\ drift' = drift
    /\ mem'[v].op = "write" /\ pc'[v] \in Late =>
         /\ mem[v].op = "write" /\ mem'[v].source = mem[v].source
         /\ \/ pc[v] \in Late /\ mem'[v].row = mem[v].row
            \/ \E s \in Sources : mem[v].source = {s} /\ mem'[v].row = files[s]
    /\ mem'[v].op = "delete" /\ Pending(v)' =>
         /\ mem[v].op = "delete" /\ mem'[v].source = mem[v].source
         /\ Pending(v) \/ (pc[v] = "stamp" /\ files' = files)

\* It reads the row back, or keeps it.
LEMMA MutationGoesOn ==
  ASSUME IInv, NEW v \in Workers, RoleInv(v), WorkerStep(v)
  PROVE  Handed(v)
<1>1. /\ pc \in [Workers -> Steps] /\ mem \in [Workers -> Memory] /\ mem[v] \in Memory
  BY Parts
<1>2. ASSUME drift' = drift,
             \/ mem'[v].op \notin {"write", "delete"}
             \/ pc'[v] \in {"idle", "fill", "stamp", "invalidate", "demote"}
      PROVE  Handed(v)
  BY <1>2 DEF Handed, Pending, Changing, Late
<1>3. ASSUME Done(v), drift' = drift PROVE Handed(v)
  BY <1>1, <1>2, <1>3 DEF Done, Goto
<1>4. ASSUME drift' = drift, NEW s, NEW m, pc' = [pc EXCEPT ![v] = s],
             mem' = [mem EXCEPT ![v] = m], m.op = mem[v].op, m.source = mem[v].source,
             Changing(v) /\ s \in Late =>
                \/ pc[v] \in Late /\ m.row = mem[v].row
                \/ m.op = "delete" /\ Pending(v)
                \/ \E t \in Sources : mem[v].source = {t} /\ m.row = files[t],
             Changing(v) => Pending(v) \/ (pc[v] = "stamp" /\ files' = files)
                              \/ s \in {"stamp", "invalidate", "demote"}
      PROVE  Handed(v)
  <2>1. pc'[v] = s /\ mem'[v] = m
    BY <1>1, <1>4
  <2> QED BY <1>4, <2>1 DEF Handed, Pending, Changing, Late
<1>5. CASE \E t \in Sources : OpenSource(v, t) \/ RemoveSource(v, t)
  <2>1. pc'[v] \in {"fill", "stamp"} /\ drift' = drift
    BY <1>1, <1>5 DEF OpenSource, RemoveSource, Start, Goto, ghosts
  <2> QED BY <1>2, <2>1
<1>6. CASE StartRebuild(v) \/ StartQuery(v) \/ StartDoctor(v)
  <2>1. mem'[v].op \in {"rebuild", "query", "doctor"} /\ drift' = drift
    BY <1>1, <1>6 DEF StartRebuild, StartQuery, StartDoctor, Start, NoMemory, ghosts
  <2> QED BY <1>2, <2>1
<1>7. CASE CommitRebuild(v)
  <2>1. mem'[v].op = "doctor" /\ drift' = drift
    BY <1>1, <1>7 DEF CommitRebuild, NoMemory, ghosts
  <2> QED BY <1>2, <2>1
<1>8. CASE \E t \in Sources : ReadBack(v, t)
  <2>1. PICK t \in Sources : ReadBack(v, t)
    BY <1>8
  <2>2. /\ pc[v] = "readback" /\ drift' = drift /\ Changing(v) /\ t \in mem[v].source
    BY <2>1, Parts DEF ReadBack, ghosts, WorkerOK, Held, Changing
  <2>3. mem[v].source = {t}
    BY <2>2 DEF RoleInv
  <2>4. CASE Fail(v)
    <3>1. Done(v) \/ pc'[v] = "invalidate"
      BY <1>1, <2>4 DEF Fail, Goto
    <3> QED BY <1>2, <1>3, <2>2, <3>1
  <2>5. CASE ~Fail(v)
    <3>1. /\ mem'[v].row = files[t] /\ mem'[v].op = mem[v].op
          /\ mem'[v].source = mem[v].source
      BY <1>1, <2>1, <2>5 DEF ReadBack, Memory
    <3> QED BY <2>2, <2>3, <3>1 DEF Handed, Pending, Changing, Late
  <2> QED BY <2>4, <2>5
<1>9. CASE \E t \in Sources : RecheckSource(v, t)
  <2>1. pc[v] = "recheck" /\ drift' = drift
    BY <1>9 DEF RecheckSource, ghosts
  <2>2. CASE Fail(v)
    <3>1. Done(v) \/ pc'[v] = "invalidate"
      BY <1>1, <2>2 DEF Fail, Goto
    <3> QED BY <1>2, <1>3, <2>1, <3>1
  <2>3. CASE ~Fail(v)
    <3>1. (Goto(v, "commit") /\ UNCHANGED mem) \/ Rescan(v, "scan")
      BY <1>9, <2>3 DEF RecheckSource
    <3> QED BY <1>1, <1>4, <2>1, <3>1 DEF Goto, Rescan, Memory, Pending, Changing, Late
  <2> QED BY <2>2, <2>3
<1>10. CASE CheckReceipt(v)
  <2>1. pc[v] = "receipt" /\ drift' = drift
    BY <1>10 DEF CheckReceipt, ghosts
  <2>2. CASE Fail(v)
    <3>1. Done(v) \/ pc'[v] = "invalidate"
      BY <1>1, <2>2 DEF Fail, Goto
    <3> QED BY <1>2, <1>3, <2>1, <3>1
  <2>3. CASE ~Fail(v)
    BY <1>1, <1>4, <1>10, <2>1, <2>3 DEF CheckReceipt, Goto, Memory, Pending, Changing, Late
  <2> QED BY <2>2, <2>3
<1>11. CASE \E t \in Sources : FillSource(v, t)
  BY <1>1, <1>2, <1>3, <1>4, <1>11
     DEF FillSource, RoleInv, Goto, ghosts, Memory, Pending, Changing, Late
<1>12. CASE \E t \in Sources : Scan(v, t)
  <2>1. pc[v] \in {"scan", "rescan"} /\ drift' = drift
    BY <1>12 DEF Scan, ghosts
  <2>2. CASE Done(v)
    BY <1>3, <2>1, <2>2
  <2>3. CASE ~Done(v)
    <3>1. /\ pc' = pc /\ mem'[v].op = mem[v].op /\ mem'[v].source = mem[v].source
          /\ mem'[v].row = mem[v].row
      BY <1>1, <1>12, <2>3 DEF Scan, Memory
    <3> QED BY <2>1, <3>1 DEF Handed, Pending, Changing, Late
  <2> QED BY <2>2, <2>3
<1>13. CASE StampReceipt(v)
  BY <1>1, <1>2, <1>3, <1>4, <1>13
     DEF StampReceipt, store, Goto, ghosts, Memory, Pending, Changing, Late
<1>14. CASE ReadSnapshot(v)
  BY <1>1, <1>2, <1>3, <1>4, <1>14
     DEF ReadSnapshot, Goto, ghosts, Memory, Pending, Changing, Late
<1>15. CASE FenceMutation(v)
  BY <1>1, <1>2, <1>3, <1>4, <1>15
     DEF FenceMutation, Goto, ghosts, Memory, Pending, Changing, Late
<1>16. CASE InvalidateMetadata(v)
  BY <1>1, <1>2, <1>3, <1>4, <1>16
     DEF InvalidateMetadata, Goto, ghosts, Memory, Pending, Changing, Late
<1>17. CASE RebuildReceipt(v)
  BY <1>1, <1>2, <1>3, <1>4, <1>17
     DEF RebuildReceipt, Goto, ghosts, Memory, Pending, Changing, Late
<1>18. CASE ResetWriteRevision(v)
  BY <1>1, <1>2, <1>3, <1>4, <1>18
     DEF ResetWriteRevision, RoleInv, Goto, ghosts, Memory, Pending, Changing, Late
<1>19. CASE FenceRebuild(v)
  BY <1>1, <1>2, <1>3, <1>4, <1>19
     DEF FenceRebuild, Rescan, Goto, ghosts, Memory, Pending, Changing, Late
<1>20. CASE ValidateRebuild(v)
  BY <1>1, <1>2, <1>3, <1>4, <1>20
     DEF ValidateRebuild, Goto, ghosts, Memory, Pending, Changing, Late
<1>21. CASE ReaderReceipt(v)
  BY <1>1, <1>2, <1>3, <1>4, <1>21
     DEF ReaderReceipt, Goto, ghosts, Memory, Pending, Changing, Late
<1>22. CASE DoctorInventory(v)
  BY <1>1, <1>2, <1>3, <1>4, <1>22
     DEF DoctorInventory, Goto, ghosts, Memory, Pending, Changing, Late
<1>23. CASE Reread(v)
  BY <1>1, <1>2, <1>3, <1>4, <1>23
     DEF Reread, Goto, ghosts, Memory, Pending, Changing, Late
<1>24. CASE FenceQuery(v)
  BY <1>1, <1>2, <1>3, <1>4, <1>24
     DEF FenceQuery, Goto, ghosts, Memory, Pending, Changing, Late
<1>25. CASE FenceDoctor(v)
  BY <1>1, <1>2, <1>3, <1>4, <1>25
     DEF FenceDoctor, Goto, ghosts, Memory, Pending, Changing, Late
<1>26. CASE CommitMutation(v) \/ WriteStale(v) \/ CleanUp(v) \/ ServeRows(v)
  BY <1>3, <1>26 DEF CommitMutation, WriteStale, CleanUp, ServeRows, ghosts
<1> QED
  BY <1>5, <1>6, <1>7, <1>8, <1>9, <1>10, <1>11, <1>12, <1>13, <1>14, <1>15, <1>16,
     <1>17, <1>18, <1>19, <1>20, <1>21, <1>22, <1>23, <1>24, <1>25, <1>26 DEF WorkerStep

\* Only commits write rows.
LEMMA RowsStand ==
  ASSUME NEW v \in Workers, WorkerStep(v) \/ Crash(v),
         ~CommitMutation(v), ~CommitRebuild(v)
  PROVE  rows' = rows
  BY IndexStands DEF index, WriteStale, CleanUp

\* What a commit writes while w serves, w has seen.
LEMMA ServeBeside ==
  ASSUME IInv, Next, NEW v \in Workers, WorkerStep(v), RoleInv(v), MutatorInv(v),
         NEW w \in Workers \ {v}, ServeInv(w),
         pc'[w] = pc[w], mem'[w] = mem[w],
         \A u \in Workers \ {v} : mem[u].op = "query" /\ mem'[u] = mem[u]
  PROVE  ServeInv(w)'
<1> SUFFICES ASSUME Serving(w)' PROVE ServeInv(w)'
  BY DEF ServeInv, Serving
<1>1. /\ Serving(w) /\ pc'[w] # "idle" /\ pc[w] # "idle" /\ Handed(v)
      /\ pc[w] = "fence" => receipt'.current = receipt.current
  BY StillServing, MutationGoesOn DEF Serving
<1>2. /\ \A s, c : Had(w, s, c) => \E f \in seen'[w] : f[s] = c
      /\ \A s : \E f \in seen'[w] : f[s] = files[s]
  BY <1>1, HadKept DEF Had, Next
<1>3. drift' = drift
  BY <1>1 DEF Handed
<1>4. ASSUME NEW s \in Sources \ drift PROVE \E f \in seen'[w] : f[s] = rows'[s]
  <2>1. Had(w, s, rows[s])
    BY <1>1 DEF ServeInv
  <2>2. CASE CommitMutation(v)
    <3>1. /\ pc[v] = "commit" /\ Changing(v) /\ Pending(v) /\ receipt' = receipt
          /\ rows'[s] = IF s \in mem[v].source
                        THEN IF mem[v].op = "write" THEN mem[v].row ELSE Absent
                        ELSE rows[s]
      BY <2>2 DEF CommitMutation, Pending, Changing, store
    <3>2. pc[w] = "serve"
      <4> SUFFICES ASSUME pc[w] # "serve" PROVE FALSE
        OBVIOUS
      <4>1. receipt.current = mem[w].before.cwr
        BY <1>1 DEF Serving, Current
      <4>2. mem[w].before.cwr < receipt.current /\ receipt.current \in Nat
        BY <3>1, Parts DEF MutatorInv, Typed, Receipt
      <4> QED BY <4>1, <4>2
    <3>3. Foreseen(w, v)
      BY <3>2 DEF ServeInv
    <3>4. s \in mem[v].source => Had(w, s, rows'[s])
      BY <3>1, <3>3 DEF Foreseen, Late, Changing
    <3> QED BY <1>2, <2>1, <3>1, <3>4
  <2>3. CASE CommitRebuild(v)
    <3>1. pc[v] = "commit" /\ mem[v].op = "rebuild" /\ rows' = mem[v].first
      BY <2>3 DEF CommitRebuild
    <3>2. Follows(v) /\ Unmoved(v) /\ Unread(v) = {}
      BY <3>1 DEF Follows, Unmoved, Unread, MutatorInv
    <3>3. s \notin Touched
      <4> SUFFICES ASSUME NEW u \in Workers, revLock = u PROVE FALSE
        BY DEF Touched
      <4>1. pc[u] \in {"fill", "stamp"} /\ mem[u].op \in {"write", "delete"}
        BY Parts DEF WorkerOK, Locked
      <4> QED BY <3>1, <4>1
    <3>4. rows'[s] = files[s]
      BY <3>1, <3>2, <3>3, Parts DEF WorkerOK, Fresh
    <3> QED BY <1>2, <3>4
  <2> QED BY <1>2, <2>1, <2>2, <2>3, RowsStand
<1>5. ASSUME pc[w] = "serve", NEW u \in Workers PROVE Foreseen(w, u)'
  <2>1. CASE u # v
    BY <2>1 DEF Foreseen
  <2>2. CASE u = v
    <3>1. Foreseen(w, v)
      BY <1>5 DEF ServeInv
    <3>2. ASSUME NEW s \in mem'[v].source \ drift, mem'[v].op = "write", pc'[v] \in Late
          PROVE  \E f \in seen'[w] : f[s] = mem'[v].row
      BY <1>1, <1>2, <3>1, <3>2 DEF Handed, Foreseen
    <3>3. ASSUME NEW s \in mem'[v].source \ drift, mem'[v].op = "delete", Pending(v)'
          PROVE  \E f \in seen'[w] : f[s] = Absent
      <4>1. /\ mem[v].op = "delete" /\ s \in mem[v].source \ drift
            /\ Pending(v) \/ pc[v] = "stamp"
        BY <1>1, <3>3 DEF Handed
      <4>2. CASE Pending(v)
        BY <1>2, <3>1, <4>1, <4>2 DEF Foreseen
      <4>3. CASE pc[v] = "stamp"
        BY <1>2, <4>1, <4>3 DEF MutatorInv
      <4> QED BY <4>1, <4>2, <4>3
    <3> QED BY <1>3, <2>2, <3>2, <3>3 DEF Foreseen, Had
  <2> QED BY <2>1, <2>2
<1> QED BY <1>3, <1>4, <1>5 DEF ServeInv, Had

\* A query serves what it has validated: every row was read in the files, and no
\* mutation that would change one is under way.
LEMMA ServeBegins ==
  ASSUME RevisionInv, Witness, NEW w \in Workers, QueryInv(w), ServeInv(w),
         WorkerStep(w) \/ Crash(w),
         \A v \in Workers \ {w} : /\ MutatorInv(v)
                                  /\ pc'[v] = pc[v] /\ mem'[v] = mem[v]
  PROVE  ServeInv(w)'
<1>1. /\ pc \in [Workers -> Steps] /\ mem \in [Workers -> Memory] /\ mem[w] \in Memory
      /\ mem[w].before \in Snapshot /\ mem[w].first \in Files /\ RoleInv(w) /\ RoleInv(w)'
      /\ receipt.current \in Nat /\ IInv
  BY Parts, RoleOK DEF RevisionInv, Memory, Typed, Receipt
<1> SUFFICES ASSUME Serving(w)' PROVE ServeInv(w)'
  BY DEF ServeInv, Serving
<1>2. pc'[w] \in {"serve", "fence"} /\ mem'[w].op = "query"
  BY <1>1 DEF Serving, RoleInv
<1>3. mem[w].op = "query"
  BY <1>1, <1>2, BecomesQuery
<1>4. ~Done(w) /\ ~Crash(w)
  BY <1>1, <1>2 DEF Done, Goto, Crash
<1>5. \A op, t, s : Start(w, op, t, s) => s = pc'[w]
  BY <1>1 DEF Start, Goto
<1>6. /\ ~StartRebuild(w) /\ ~StartDoctor(w) /\ ~StartQuery(w)
      /\ \A s \in Sources : ~OpenSource(w, s) /\ ~RemoveSource(w, s)
  BY <1>2, <1>5 DEF StartRebuild, StartDoctor, StartQuery, OpenSource, RemoveSource
<1>7. \A s \in Sources : ~Scan(w, s)
  BY <1>1, <1>2, <1>3, <1>4 DEF Scan, RoleInv, QuerySteps
<1>8. Reread(w) \/ FenceQuery(w)
  BY <1>1, <1>2, <1>3, <1>4, <1>6, <1>7, QueriesQuery
     DEF QueryStep, ReadSnapshot, ReaderReceipt, CleanUp, ServeRows, Goto
<1>9. \A s, c : Had(w, s, c) => \E f \in seen'[w] : f[s] = c
  BY <1>2, HadKept DEF Had
<1>10. CASE Reread(w)
  <2>1. /\ pc[w] = "scan" /\ pc'[w] = "fence" /\ mem[w].todo = {}
        /\ mem'[w].valid = Agreement(w) /\ UNCHANGED <<rows, drift>>
    BY <1>1, <1>3, <1>10 DEF Reread, Goto, Memory, index, ghosts
  <2>2. rows = mem[w].first
    BY <2>1 DEF Serving, Current, Agreement
  <2>3. \A s \in Sources : Had(w, s, rows[s])
    BY <1>3, <2>1, <2>2 DEF QueryInv
  <2>4. \A s \in Sources : \E f \in seen'[w] : f[s] = rows[s]
    BY <1>9, <2>3
  <2> QED BY <2>1, <2>4 DEF ServeInv, Had
<1>11. CASE FenceQuery(w)
  <2>1. pc[w] = "fence" /\ pc'[w] = "serve" /\ Current(w) /\ UNCHANGED <<rows, drift, mem>>
    BY <1>1, <1>2, <1>4, <1>11 DEF FenceQuery, Goto, index, ghosts
  <2> QED
    <3>1. receipt.current = mem[w].before.cwr
      BY <2>1 DEF Current
    <3>2. ASSUME NEW v \in Workers PROVE mem'[v].op = "query" \/ ~Pending(v)'
      <4>1. CASE v = w
        BY <1>2, <4>1
      <4>2. CASE v # w
        <5>1. ~Pending(v)
          BY <1>1, <3>1, <4>2 DEF MutatorInv
        <5> QED BY <4>2, <5>1 DEF Pending, Changing
      <4> QED BY <4>1, <4>2
    <3>3. \A v \in Workers : Foreseen(w, v)'
      BY <3>2 DEF Foreseen, Pending, Changing, Late
    <3>4. \A s \in Sources \ drift : Had(w, s, rows[s])
      BY <1>3, <2>1 DEF ServeInv, Serving
    <3>5. \A s \in Sources \ drift : \E f \in seen'[w] : f[s] = rows[s]
      BY <1>9, <3>4
    <3> QED BY <3>3, <3>5, <2>1 DEF ServeInv, Had
<1> QED BY <1>8, <1>10, <1>11

\* What a reader holds of the snapshot is none, the one it held, or the current one.
LEMMA ReaderHolds ==
  ASSUME IInv, NEW w \in Workers, RoleInv(w), Reader(w), WorkerStep(w) \/ Crash(w)
  PROVE  mem'[w].before \in {NoSnapshot, mem[w].before, snap}
<1>1. mem \in [Workers -> Memory] /\ mem[w] \in Memory
  BY Parts
<1>2. ASSUME Done(w) PROVE mem'[w].before = NoSnapshot
  BY <1>1, <1>2 DEF Done, NoMemory
<1>3. QueryStep(w) \/ Crash(w)
  BY ReadersRead
<1>4. CASE StartQuery(w)
  BY <1>1, <1>4 DEF StartQuery, Start, NoMemory
<1>5. CASE ReadSnapshot(w)
  BY <1>1, <1>5 DEF ReadSnapshot, Memory
<1>6. CASE ReaderReceipt(w) \/ Reread(w) \/ FenceQuery(w)
  BY <1>1, <1>2, <1>6 DEF ReaderReceipt, Reread, FenceQuery, Memory
<1>7. CASE \E s \in Sources : Scan(w, s)
  BY <1>1, <1>2, <1>7 DEF Scan, Memory
<1>8. CASE CleanUp(w) \/ ServeRows(w) \/ Crash(w)
  BY <1>2, <1>8 DEF CleanUp, ServeRows, Crash
<1> QED BY <1>3, <1>4, <1>5, <1>6, <1>7, <1>8 DEF QueryStep

\* So a reader's step disturbs no mutation.
LEMMA MutatorKept ==
  ASSUME IInv, NEW w \in Workers, RoleInv(w), Reader(w), WorkerStep(w) \/ Crash(w),
         NEW v \in Workers \ {w}, MutatorInv(v)
  PROVE  MutatorInv(v)'
<1>1. /\ UNCHANGED <<files, receipt, drift>> /\ snap'.cwr = snap.cwr
      /\ mem'[v] = mem[v] /\ pc'[v] = pc[v]
      /\ snap.cwr \in Nat /\ receipt.current \in Nat
  BY ReadersRead, OthersStand, Parts DEF Typed, Snapshot, Receipt
<1>2. ASSUME Pending(v), NEW u \in Workers \ {v} PROVE mem'[u].before.cwr < receipt.current
  <2>1. snap.cwr < receipt.current /\ mem[u].before.cwr < receipt.current
    BY <1>2 DEF MutatorInv
  <2>2. NoSnapshot.cwr = 0 /\ 0 < receipt.current
    BY <1>1, <2>1 DEF NoSnapshot, NoStamp
  <2>3. CASE u = w
    BY <2>1, <2>2, <2>3, ReaderHolds
  <2>4. CASE u # w
    BY <2>1, <2>4, OthersStand
  <2> QED BY <2>3, <2>4
<1>3. Pending(v)' <=> Pending(v)
  BY <1>1 DEF Pending, Changing
<1> QED BY <1>1, <1>2, <1>3 DEF MutatorInv

\* The invariant of serving.
ServingInv == DemotionInv /\ ~served /\ \A w \in Workers : MutatorInv(w) /\ ServeInv(w)

LEMMA ServingInit == Init => ServingInv
<1> SUFFICES ASSUME Init PROVE ServingInv
  OBVIOUS
<1>1. ~served /\ \A w \in Workers : pc[w] = "idle" /\ mem[w].op = "query"
  BY DEF Init, NoMemory
<1>2. \A w \in Workers : MutatorInv(w) /\ ServeInv(w)
  BY <1>1 DEF MutatorInv, ServeInv, Serving, Pending, Changing
<1> QED BY <1>1, <1>2, DemotionInit DEF ServingInv

\* An edit past the program is left out of account for its file.
LEMMA ServingEdited ==
  ASSUME ServingInv, Next, NEW t \in Sources, Edit(t)
  PROVE  ~served' /\ \A w \in Workers : MutatorInv(w)' /\ ServeInv(w)'
<1>1. /\ UNCHANGED <<receipt, rows, snap, pc, mem, served>> /\ drift' = drift \cup {t}
      /\ \A s \in Sources \ {t} : files'[s] = files[s]
      /\ IInv /\ ~served /\ \A w \in Workers : MutatorInv(w) /\ ServeInv(w)
  BY Parts DEF Edit, SetFile, index, ServingInv, DemotionInv, RevisionInv, Typed, Files
<1>2. ASSUME NEW w \in Workers PROVE MutatorInv(w)'
  <2>1. MutatorInv(w) /\ (Pending(w)' <=> Pending(w)) /\ mem[w].source \subseteq Sources
    BY <1>1, Parts DEF Pending, Changing, Memory
  <2> QED BY <1>1, <2>1 DEF MutatorInv
<1>3. \A w \in Workers : ServeInv(w)'
  BY <1>1, ServeUnmoved
<1> QED BY <1>1, <1>2, <1>3

\* What is returned, was seen.
LEMMA NeverServed ==
  ASSUME ServingInv, Next, NEW w \in Workers, WorkerStep(w) \/ Crash(w)
  PROVE  ~served'
<1>1. CASE ServeRows(w)
  <2>1. \A s \in Sources \ drift : \E f \in seen[w] : f[s] = rows[s]
    BY <1>1 DEF ServeRows, ServingInv, ServeInv, Serving, Had
  <2> QED BY <1>1, <2>1 DEF ServeRows, ServingInv
<1>2. CASE ~ServeRows(w)
  <2>1. served' = served
    BY <1>2 DEF WorkerStep, Crash, Start, OpenSource, FillSource, RemoveSource, StampReceipt,
         ReadSnapshot, ReadBack, RecheckSource, Scan, CheckReceipt, FenceMutation,
         CommitMutation, InvalidateMetadata, WriteStale, StartRebuild, RebuildReceipt,
         ResetWriteRevision, FenceRebuild, ValidateRebuild, CommitRebuild, StartQuery,
         StartDoctor, ReaderReceipt, DoctorInventory, Reread, FenceQuery, CleanUp,
         FenceDoctor, ghosts
  <2> QED BY <2>1 DEF ServingInv
<1> QED BY <1>1, <1>2

LEMMA ServingStep ==
  ASSUME OneMutator, ServingInv, Next
  PROVE  ServingInv'
<1>1. /\ RevisionInv /\ IInv /\ Witness /\ DemotionInv'
      /\ \A w \in Workers : /\ RoleInv(w) /\ RoleInv(w)' /\ QueryInv(w)
                            /\ MutatorInv(w) /\ ServeInv(w)
  BY DemotionStep DEF ServingInv, DemotionInv, RevisionInv, Next
<1>2. ASSUME NEW w \in Workers, WorkerStep(w) \/ Crash(w)
      PROVE  ~served' /\ \A v \in Workers : MutatorInv(v)' /\ ServeInv(v)'
  <2>1. \A v \in Workers \ {w} : pc'[v] = pc[v] /\ mem'[v] = mem[v]
    BY <1>1, <1>2, OthersStand
  <2>2. ~served'
    BY <1>2, NeverServed
  <2>3. MutatorInv(w)' /\ ServeInv(w)'
    BY <1>1, <1>2, <2>1, MutatorOK, ServeBegins
  <2>4. ASSUME NEW v \in Workers \ {w} PROVE MutatorInv(v)' /\ ServeInv(v)'
    <3>1. CASE Reader(w)
      <4>1. MutatorInv(v)'
        BY <1>1, <1>2, <3>1, MutatorKept
      <4>2. UNCHANGED <<rows, drift>> /\ mem'[w].op = "query"
        BY <1>1, <1>2, <3>1, ReadersRead DEF RoleInv
      <4> QED BY <1>1, <2>1, <4>1, <4>2, ServeUnmoved
    <3>2. CASE ~Reader(w)
      <4>1. \A u \in Workers \ {w} : Reader(u) /\ mem[u].op = "query"
        BY <1>1, <3>2 DEF OneMutator, RoleInv
      <4>2. MutatorInv(v)'
        BY <2>1, <4>1 DEF MutatorInv, Pending, Changing
      <4>3. CASE WorkerStep(w)
        BY <1>1, <2>1, <4>1, <4>2, <4>3, ServeBeside
      <4>4. CASE Crash(w)
        <5>1. rows' = rows /\ drift \subseteq drift'
          BY <4>4 DEF Crash, index
        <5>2. mem'[w].op = "query"
          BY <1>1, <4>4, Parts DEF Crash, Done, NoMemory
        <5> QED BY <1>1, <2>1, <4>2, <5>1, <5>2, ServeUnmoved
      <4> QED BY <1>2, <4>3, <4>4
    <3> QED BY <3>1, <3>2
  <2> QED BY <2>2, <2>3, <2>4
<1> QED BY <1>1, <1>2, ServingEdited DEF Next, ServingInv

LEMMA ServingStand == ServingInv /\ UNCHANGED vars => ServingInv'
<1> SUFFICES ASSUME ServingInv, UNCHANGED vars PROVE ServingInv'
  OBVIOUS
<1>1. UNCHANGED <<files, receipt, snap, rows, pc, mem, seen, drift, served>>
  BY DEF vars, store, index, ghosts
<1>2. \A w \in Workers : MutatorInv(w)' /\ ServeInv(w)'
  BY <1>1 DEF ServingInv, MutatorInv, Pending, Changing, ServeInv, Serving, Current,
              Foreseen, Had
<1> QED BY <1>1, <1>2, DemotionStand DEF ServingInv

\* A query returns, for every item whose changes left receipts, a content that its
\* file had while the query ran, as long as one process at a time changes items or
\* the index: the rows were validated against the files, and a mutation that the
\* validation did not know of writes what the files then had.
THEOREM CacheNeverWins ==
  ASSUME OneMutator
  PROVE  Spec => []CacheNeverOverrides
<1>1. ServingInv /\ [Next]_vars => ServingInv'
  BY ServingStep, ServingStand
<1>2. ServingInv => CacheNeverOverrides
  BY DEF ServingInv, CacheNeverOverrides
<1> QED BY <1>1, <1>2, ServingInit, PTL DEF Spec

===============================================================================
