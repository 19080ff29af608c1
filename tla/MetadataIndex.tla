----------------------------- MODULE MetadataIndex -----------------------------
(***************************************************************************)
(* The derived metadata index of one product on a platform without a change *)
(* journal ("portable" readiness): canonical item files, the lock-serialized*)
(* write receipt beside them, and the SQLite projection with its snapshot   *)
(* row.  Mutating commands write a file, stamp the receipt and then update  *)
(* their row (index_item, remove_items); `index refresh` rebuilds all rows; *)
(* queries validate the snapshot before they use rows; doctor checks and    *)
(* may invalidate.  Each runs in a process of its own: only the receipt     *)
(* lock and single SQLite statements or transactions are atomic.            *)
(*                                                                          *)
(* An operator named X_Something stands before X as a plausible mistake in  *)
(* it; nothing uses it, and each is caught by one of the properties.        *)
(***************************************************************************)
EXTENDS Integers, FiniteSets

CONSTANTS
    Sources,        \* canonical item paths
    Workers,        \* processes
    Nobody,         \* the receipt lock is free
    May,            \* the operations each worker performs
    MaxVersions,    \* bound: contents written over all files
    MaxGenerations, \* bound: generations at which a rebuild still starts
    MaxMishaps      \* bound: workers that die and edits that bypass the program

Operations == {"write", "delete", "rebuild", "query", "doctor"}

ASSUME WorkersAssumption ==
    /\ Nobody \notin Workers
    /\ May \in [Workers -> SUBSET Operations]
ASSUME BoundsAssumption ==
    /\ MaxVersions \in Nat
    /\ MaxGenerations \in Nat
    /\ MaxMishaps \in Nat

VARIABLES
    files,      \* content of every canonical file
    receipt,    \* .cache/canonical-write-revision-v1
    revLock,    \* holder of its lock file
    rows,       \* items table: the content each row was read from
    snap,       \* the metadata_snapshots row
    pc, mem,    \* where each worker is and what it holds
    seen,       \* file states since each worker's operation began
    published,  \* every ready publication: revision and content
    drift,      \* files changed without a receipt
    served,     \* TRUE once a query has returned a row that its file, changed only
                \* with receipts, never had while the query ran
    forked,     \* TRUE once the snapshot row was written on from a revision other
                \* than the one it then had
    versions, stamps, epochs, mishaps

store   == <<files, receipt, revLock>>
index   == <<rows, snap>>
ghosts  == <<drift, served>>
counts  == <<versions, stamps, epochs, mishaps>>
vars    == <<store, index, pc, mem, ghosts, seen, published, forked, counts>>

-------------------------------------------------------------------------------
(* Values *)

Absent == 0
Torn   == -1        \* truncated, not yet refilled: it does not parse

Contents == Nat \cup {Torn}
Files    == [Sources -> Contents]
NoFiles  == [s \in Sources |-> Absent]

NoStamp == 0
Receipt == [current: Nat, previous: Nat, operation: {"write", "delete", "reset"},
            source: SUBSET Sources, content: Nat]
NoReceipt == [current |-> NoStamp, previous |-> NoStamp, operation |-> "reset",
              source |-> {}, content |-> Absent]

\* index_revision, content_revision and item_count are digests of the rows a
\* snapshot was written with: "content" stands for the three of them.
Snapshot == [status: {"missing", "ready", "incomplete", "stale"},
             epoch: Nat, generation: Nat, content: Files, cwr: Nat]
NoSnapshot == [status |-> "missing", epoch |-> 0, generation |-> 0,
               content |-> NoFiles, cwr |-> NoStamp]

Ready(s) == s.status = "ready" /\ s.generation > 0

Memory == [op: Operations, source: SUBSET Sources, before: Snapshot, row: Contents,
           stamp: Receipt, first: Files, second: Files, todo: SUBSET Sources,
           valid: BOOLEAN]
NoMemory == [op |-> "query", source |-> {}, before |-> NoSnapshot, row |-> Absent,
             stamp |-> NoReceipt, first |-> NoFiles, second |-> NoFiles,
             todo |-> {}, valid |-> FALSE]

Steps == {"idle", "fill", "stamp", "snapshot", "readback", "receipt", "recheck",
          "scan", "fence", "commit", "reset", "rescan",
          "cleanup", "serve", "invalidate", "demote"}

\* A product that was never indexed, or one item written and then indexed.
Init ==
    /\ revLock = Nobody
    /\ pc = [w \in Workers |-> "idle"]
    /\ mem = [w \in Workers |-> NoMemory]
    /\ seen = [w \in Workers |-> {}]
    /\ drift = {} /\ served = FALSE /\ forked = FALSE /\ mishaps = 0
    /\ \/ /\ files = NoFiles /\ receipt = NoReceipt
          /\ rows = NoFiles /\ snap = NoSnapshot
          /\ published = {} /\ versions = 0 /\ stamps = 0 /\ epochs = 0
       \/ \E s \in Sources :
            /\ files = [NoFiles EXCEPT ![s] = 1] /\ rows = files
            /\ receipt = [current |-> 1, previous |-> NoStamp, operation |-> "write",
                          source |-> {s}, content |-> 1]
            /\ snap = [status |-> "ready", epoch |-> 1, generation |-> 1,
                       content |-> files, cwr |-> 1]
            /\ published = {[epoch |-> 1, generation |-> 1, content |-> files]}
            /\ versions = 1 /\ stamps = 1 /\ epochs = 1

Goto(w, step) == pc' = [pc EXCEPT ![w] = step]

\* The operation returns or throws.
Done(w) ==
    /\ Goto(w, "idle")
    /\ mem' = [mem EXCEPT ![w] = NoMemory]

SetFile(s, content) == files' = [files EXCEPT ![s] = content]

Start(w, op, source, step) ==
    /\ pc[w] = "idle" /\ op \in May[w]
    /\ Goto(w, step)
    /\ mem' = [mem EXCEPT ![w] = [NoMemory EXCEPT !.op = op, !.source = source]]

Rescan(w, step) ==
    /\ Goto(w, step)
    /\ mem' = [mem EXCEPT ![w].todo = Sources]

-------------------------------------------------------------------------------
(* CanonicalStore: file first, receipt second, both under the receipt lock *)

\* write_materialized opens the target with trunc.
OpenSource(w, s) ==
    /\ Start(w, "write", {s}, "fill")
    /\ revLock = Nobody /\ versions < MaxVersions
    /\ revLock' = w
    /\ SetFile(s, Torn)
    /\ UNCHANGED <<receipt, index, ghosts, counts>>

FillSource(w, s) ==
    /\ pc[w] = "fill" /\ s \in mem[w].source
    /\ versions' = versions + 1
    /\ SetFile(s, versions')
    /\ Goto(w, "stamp")
    /\ mem' = [mem EXCEPT ![w].row = versions']
    /\ UNCHANGED <<receipt, revLock, index, ghosts, stamps, epochs, mishaps>>

\* remove_file and move_file (trash).
RemoveSource(w, s) ==
    /\ Start(w, "delete", {s}, "stamp")
    /\ revLock = Nobody /\ files[s] # Absent
    /\ revLock' = w
    /\ SetFile(s, Absent)
    /\ UNCHANGED <<receipt, index, ghosts, counts>>

\* write_canonical_write_revision replaces the receipt by a rename.
StampReceipt(w) ==
    /\ pc[w] = "stamp"
    /\ stamps' = stamps + 1
    /\ receipt' = [current |-> stamps', previous |-> receipt.current,
                   operation |-> mem[w].op, source |-> mem[w].source,
                   content |-> mem[w].row]
    /\ revLock' = Nobody
    /\ Goto(w, "snapshot")
    /\ UNCHANGED <<files, index, mem, ghosts, versions, epochs, mishaps>>

-------------------------------------------------------------------------------
(* index_item and remove_items *)

\* The snapshot row is read before, and outside, the committing transaction.
ReadSnapshot(w) ==
    /\ pc[w] = "snapshot"
    /\ mem' = [mem EXCEPT ![w].before = snap]
    /\ Goto(w, CASE mem[w].op = "write"   -> "readback"
                 [] mem[w].op = "delete"  -> IF Ready(snap) THEN "receipt" ELSE "commit"
                 [] mem[w].op = "rebuild" -> "commit"
                 [] OTHER                 -> "receipt")
    /\ UNCHANGED <<store, index, ghosts, counts>>

\* index_item gives up: the snapshot it found ready is invalidated.
Fail(w) ==
    IF Ready(mem[w].before) THEN Goto(w, "invalidate") /\ UNCHANGED mem ELSE Done(w)

ReadBack(w, s) ==
    /\ pc[w] = "readback" /\ s \in mem[w].source
    /\ IF files[s] \in {Absent, Torn}
       THEN Fail(w)
       ELSE /\ mem' = [mem EXCEPT ![w].row = files[s]]
            /\ Goto(w, IF Ready(mem[w].before) THEN "receipt" ELSE "commit")
    /\ UNCHANGED <<store, index, ghosts, counts>>

\* write_receipt_matches and delete_receipt_matches, and the contiguity test.
ReceiptMatches(w) ==
    /\ receipt.previous = mem[w].before.cwr
    /\ receipt.operation = mem[w].op
    /\ receipt.source = mem[w].source
    /\ IF mem[w].op = "write" THEN receipt.content = mem[w].row
                              ELSE \A s \in mem[w].source : rows[s] # Absent

CheckReceipt(w) ==
    /\ pc[w] = "receipt" /\ mem[w].op \in {"write", "delete"}
    /\ IF mem[w].op = "write" /\ receipt.current \in {NoStamp, mem[w].before.cwr}
       THEN Fail(w)
       ELSE /\ mem' = [mem EXCEPT ![w].stamp = receipt]
            /\ Goto(w, IF ReceiptMatches(w) THEN "recheck" ELSE "commit")
    /\ UNCHANGED <<store, index, ghosts, counts>>

\* The source is hashed again (write) or must be gone (delete).
RecheckSource(w, s) ==
    /\ pc[w] = "recheck" /\ s \in mem[w].source
    /\ IF mem[w].op = "write" /\ files[s] # mem[w].row
       THEN Fail(w)
       ELSE IF mem[w].op = "delete" /\ files[s] # Absent
            THEN Goto(w, "commit") /\ UNCHANGED mem
            ELSE Rescan(w, "scan")
    /\ UNCHANGED <<store, index, ghosts, counts>>

\* canonical_inventory and canonical_content_revision visit the files in turn.
Scan(w, s) ==
    /\ pc[w] \in {"scan", "rescan"} /\ s \in mem[w].todo
    /\ IF mem[w].op = "rebuild" /\ files[s] = Torn
       THEN Done(w)
       ELSE /\ mem' = IF pc[w] = "scan"
                      THEN [mem EXCEPT ![w].todo = @ \ {s}, ![w].first[s] = files[s]]
                      ELSE [mem EXCEPT ![w].todo = @ \ {s}, ![w].second[s] = files[s]]
            /\ UNCHANGED pc
    /\ UNCHANGED <<store, index, ghosts, counts>>

\* The receipt must not have moved while the files were scanned.
FenceMutation(w) ==
    /\ pc[w] = "scan" /\ mem[w].todo = {} /\ mem[w].op \in {"write", "delete"}
    /\ mem' = [mem EXCEPT ![w].valid = receipt.current = mem[w].stamp.current]
    /\ Goto(w, "commit")
    /\ UNCHANGED <<store, index, ghosts, counts>>

NextGeneration_TakenBack(before, ready) ==
    before.generation + (IF ready THEN 1 ELSE -1)
NextGeneration_Kept(before, ready) == before.generation
NextGeneration(before, ready) == before.generation + (IF ready THEN 1 ELSE 0)

\* The receipt a snapshot describes the files up to.
FencedBy_Current(m, ready) == IF ready THEN receipt.current ELSE m.before.cwr
FencedBy(m, ready) == IF ready THEN m.stamp.current ELSE m.before.cwr

\* The rows, this mutation's included, are those of the files that were scanned.
Complete_Fenced(m, new) == m.valid
Complete(m, new) == m.valid /\ new = m.first

\* One transaction: the row and the snapshot, with the generation counted on
\* from the snapshot that was read before it.
CommitMutation(w) ==
    /\ pc[w] = "commit" /\ mem[w].op \in {"write", "delete"}
    /\ LET m == mem[w]
           row == IF m.op = "write" THEN m.row ELSE Absent
           ready == Complete(m, rows')
       IN /\ rows' = [s \in Sources |-> IF s \in m.source THEN row ELSE rows[s]]
          /\ snap' = [status |-> IF ready THEN "ready" ELSE "incomplete",
                      epoch |-> m.before.epoch,
                      generation |-> NextGeneration(m.before, ready),
                      content |-> rows',
                      cwr |-> FencedBy(m, ready)]
    /\ Done(w)
    /\ UNCHANGED <<store, ghosts, counts>>

\* invalidate_metadata reads the snapshot row and writes it back as stale, in
\* two statements without a transaction.
InvalidateMetadata(w) ==
    /\ pc[w] = "invalidate"
    /\ IF snap.status = "missing"
       THEN Done(w)
       ELSE Goto(w, "demote") /\ mem' = [mem EXCEPT ![w].before = snap]
    /\ UNCHANGED <<store, index, ghosts, counts>>

WriteStale(w) ==
    /\ pc[w] = "demote"
    /\ snap' = [mem[w].before EXCEPT !.status = "stale"]
    /\ Done(w)
    /\ UNCHANGED <<store, rows, ghosts, counts>>

-------------------------------------------------------------------------------
(* rebuild_metadata, followed by the doctor run of refresh_index *)

StartRebuild(w) ==
    /\ Start(w, "rebuild", {}, "receipt")
    /\ snap.generation < MaxGenerations
    /\ UNCHANGED <<store, index, ghosts, counts>>

RebuildReceipt(w) ==
    /\ pc[w] = "receipt" /\ mem[w].op = "rebuild"
    /\ IF receipt = NoReceipt
       THEN Goto(w, "reset") /\ UNCHANGED mem
       ELSE /\ Goto(w, "scan")
            /\ mem' = [mem EXCEPT ![w].stamp = receipt, ![w].todo = Sources]
    /\ UNCHANGED <<store, index, ghosts, counts>>

ResetWriteRevision(w) ==
    /\ pc[w] = "reset" /\ revLock = Nobody
    /\ stamps' = stamps + 1
    /\ receipt' = [NoReceipt EXCEPT !.current = stamps']
    /\ Goto(w, "scan")
    /\ mem' = [mem EXCEPT ![w].stamp = receipt', ![w].todo = Sources]
    /\ UNCHANGED <<files, revLock, index, ghosts, versions, epochs, mishaps>>

\* Receipt fence, a second scan, comparison, and the receipt once more.
FenceRebuild(w) ==
    /\ pc[w] = "scan" /\ mem[w].todo = {} /\ mem[w].op = "rebuild"
    /\ IF receipt.current # mem[w].stamp.current THEN Done(w) ELSE Rescan(w, "rescan")
    /\ UNCHANGED <<store, index, ghosts, counts>>

ValidateRebuild(w) ==
    /\ pc[w] = "rescan" /\ mem[w].todo = {} /\ mem[w].op = "rebuild"
    /\ IF \/ mem[w].second # mem[w].first
          \/ receipt.current # mem[w].stamp.current
       THEN Done(w)
       ELSE Goto(w, "snapshot") /\ UNCHANGED mem
    /\ UNCHANGED <<store, index, ghosts, counts>>

CommitRebuild(w) ==
    /\ pc[w] = "commit" /\ mem[w].op = "rebuild"
    /\ rows' = mem[w].first
    /\ epochs' = IF mem[w].before.epoch = 0 THEN epochs + 1 ELSE epochs
    /\ snap' = [status |-> "ready",
                epoch |-> IF mem[w].before.epoch = 0 THEN epochs' ELSE mem[w].before.epoch,
                generation |-> NextGeneration(mem[w].before, TRUE),
                content |-> rows', cwr |-> FencedBy(mem[w], TRUE)]
    /\ Goto(w, "scan")
    /\ mem' = [mem EXCEPT ![w] = [NoMemory EXCEPT !.op = "doctor", !.todo = Sources]]
    /\ UNCHANGED <<store, ghosts, versions, stamps, mishaps>>

-------------------------------------------------------------------------------
(* query_metadata and doctor_metadata *)

StartQuery(w) ==
    /\ Start(w, "query", {}, "snapshot")
    /\ UNCHANGED <<store, index, ghosts, counts>>

\* doctor_metadata takes the inventory first.
StartDoctor(w) ==
    /\ Start(w, "doctor", {}, "scan")
    /\ UNCHANGED <<store, index, ghosts, counts>>

ReaderReceipt(w) ==
    /\ pc[w] = "receipt" /\ mem[w].op \in {"query", "doctor"}
    /\ IF ~Ready(mem[w].before)
       THEN Done(w)
       ELSE /\ Goto(w, IF mem[w].op = "query" THEN "scan" ELSE "rescan")
            /\ mem' = [mem EXCEPT ![w].stamp = receipt, ![w].todo = Sources]
    /\ UNCHANGED <<store, index, ghosts, counts>>

DoctorInventory(w) ==
    /\ pc[w] = "scan" /\ mem[w].todo = {} /\ mem[w].op = "doctor"
    /\ Goto(w, "snapshot")
    /\ UNCHANGED <<store, index, mem, ghosts, counts>>

Agreement_OfRows(w) == rows = mem[w].before.content
Agreement(w) ==
    /\ rows = mem[w].before.content
    /\ rows = mem[w].first
    /\ mem[w].op = "doctor" => rows = mem[w].second

\* In statements of their own, a query reads the rows next and the receipt last, a
\* doctor the receipt next and the rows last.
Reread(w) ==
    /\ mem[w].op \in {"query", "doctor"} /\ mem[w].todo = {}
    /\ pc[w] = (IF mem[w].op = "query" THEN "scan" ELSE "rescan")
    /\ mem' = [mem EXCEPT ![w].valid =
                   IF mem[w].op = "query" THEN Agreement(w)
                                          ELSE receipt.current = mem[w].stamp.current]
    /\ Goto(w, "fence")
    /\ UNCHANGED <<store, index, ghosts, counts>>

\* A query's verdict on the snapshot.
Current(w) ==
    /\ mem[w].valid
    /\ mem[w].stamp.current = mem[w].before.cwr
    /\ receipt.current = mem[w].stamp.current

\* The mutation whose receipt was seen has not published yet: leave it alone.
PublicationPending(w) ==
    /\ mem[w].stamp.current # mem[w].before.cwr
    /\ mem[w].stamp.previous = mem[w].before.cwr

FenceQuery(w) ==
    /\ pc[w] = "fence" /\ mem[w].op = "query"
    /\ \/ Current(w) /\ Goto(w, "serve") /\ UNCHANGED mem
       \/ ~Current(w) /\ PublicationPending(w) /\ Done(w)
       \/ ~Current(w) /\ ~PublicationPending(w) /\ Goto(w, "cleanup") /\ UNCHANGED mem
    /\ UNCHANGED <<store, index, ghosts, counts>>

\* invalidate_stale_query_snapshot: BEGIN IMMEDIATE, reread, compare, demote.
Unpublished_Assumed(w) == snap.status # "missing"
Unpublished(w) == snap = mem[w].before

CleanUp(w) ==
    /\ pc[w] = "cleanup"
    /\ snap' = IF Unpublished(w) THEN [snap EXCEPT !.status = "stale"] ELSE snap
    /\ Done(w)
    /\ UNCHANGED <<store, rows, ghosts, counts>>

\* read_index_rows: the rows that are returned are read last.
ServeRows(w) ==
    /\ pc[w] = "serve"
    /\ served' = (served \/ \E s \in Sources \ drift : \A f \in seen[w] : f[s] # rows[s])
    /\ Done(w)
    /\ UNCHANGED <<store, index, drift, counts>>

Healthy(w) ==
    /\ mem[w].stamp.current = mem[w].before.cwr
    /\ mem[w].valid
    /\ Agreement(w)

FenceDoctor(w) ==
    /\ pc[w] = "fence" /\ mem[w].op = "doctor"
    /\ IF Healthy(w) THEN Done(w) ELSE Goto(w, "invalidate") /\ UNCHANGED mem
    /\ UNCHANGED <<store, index, ghosts, counts>>

-------------------------------------------------------------------------------
(* Deaths, and edits that bypass the program (an editor, git) *)

\* The operating system releases the lock of a dead process.
Crash(w) ==
    /\ pc[w] # "idle" /\ mishaps < MaxMishaps
    /\ mishaps' = mishaps + 1
    /\ revLock' = IF revLock = w THEN Nobody ELSE revLock
    /\ drift' = IF pc[w] \in {"fill", "stamp"} THEN drift \cup mem[w].source ELSE drift
    /\ Done(w)
    /\ UNCHANGED <<files, receipt, index, served, versions, stamps, epochs>>

Edit(s) ==
    /\ mishaps < MaxMishaps
    /\ mishaps' = mishaps + 1
    /\ \/ SetFile(s, versions + 1) /\ versions' = versions + 1
       \/ files[s] # Absent /\ SetFile(s, Absent) /\ UNCHANGED versions
    /\ drift' = drift \cup {s}
    /\ UNCHANGED <<receipt, revLock, index, pc, mem, served, stamps, epochs>>

-------------------------------------------------------------------------------
WorkerStep(w) ==
    \/ \E s \in Sources : OpenSource(w, s) \/ FillSource(w, s) \/ RemoveSource(w, s)
    \/ StampReceipt(w) \/ ReadSnapshot(w)
    \/ \E s \in Sources : ReadBack(w, s) \/ RecheckSource(w, s) \/ Scan(w, s)
    \/ CheckReceipt(w) \/ FenceMutation(w) \/ CommitMutation(w)
    \/ InvalidateMetadata(w) \/ WriteStale(w)
    \/ StartRebuild(w) \/ RebuildReceipt(w) \/ ResetWriteRevision(w)
    \/ FenceRebuild(w) \/ ValidateRebuild(w) \/ CommitRebuild(w)
    \/ StartQuery(w) \/ StartDoctor(w) \/ ReaderReceipt(w) \/ DoctorInventory(w)
    \/ Reread(w) \/ FenceQuery(w) \/ CleanUp(w) \/ ServeRows(w) \/ FenceDoctor(w)

\* w holds the revision that the snapshot row has.
Abreast(w) ==
    /\ mem[w].before.epoch = snap.epoch
    /\ mem[w].before.generation = snap.generation

\* What the properties remember of a step.
Witness ==
    /\ seen' = [w \in Workers |-> IF pc'[w] = "idle" THEN {} ELSE seen[w] \cup {files, files'}]
    /\ published' = IF snap'.status = "ready"
                    THEN published \cup {[epoch |-> snap'.epoch, content |-> snap'.content,
                                         generation |-> snap'.generation]}
                    ELSE published
    /\ forked' = (forked \/ \E w \in Workers :
                      /\ pc[w] \in {"commit", "demote"} /\ pc'[w] # pc[w]
                      /\ snap' # snap /\ ~Abreast(w))

Next ==
    /\ \/ \E w \in Workers : WorkerStep(w) \/ Crash(w)
       \/ \E s \in Sources : Edit(s)
    /\ Witness

Spec == Init /\ [][Next]_vars

-------------------------------------------------------------------------------
(* Properties *)

\* Every variable stays in its type.
TypeOK ==
    /\ files \in Files /\ rows \in [Sources -> Nat]
    /\ receipt \in Receipt
    /\ revLock \in Workers \cup {Nobody}
    /\ snap \in Snapshot
    /\ pc \in [Workers -> Steps] /\ mem \in [Workers -> Memory]
    /\ \A w \in Workers : seen[w] \subseteq Files
    /\ \A p \in published : p.content \in Files
    /\ drift \subseteq Sources /\ {served, forked} \subseteq BOOLEAN
    /\ {versions, stamps, epochs, mishaps} \subseteq Nat

\* "A cache row never overrides canonical content": a query that used the index
\* returned, for every item whose changes left receipts, a content that its file
\* had while the query ran.
CacheNeverOverrides == ~served

\* Between writes, a ready snapshot whose fence is the current receipt has
\* rows equal to the files, wherever every change of a file left a receipt.
ReadyIsCanonical ==
    snap.status = "ready" /\ snap.cwr = receipt.current =>
        \A s \in Sources : rows[s] = files[s] \/ s \in drift \/ revLock # Nobody

\* A product_revision token names one content for ever, and a caller may pass it
\* back as --requested-revision: it is issued for a second content only after some
\* process has written the snapshot row on from a revision that was not, or was no
\* longer, the row's own.  However many processes write.
OneContent ==
    \A p, q \in published :
        p.epoch = q.epoch /\ p.generation = q.generation => p.content = q.content

RevisionNamesOneContent == forked \/ OneContent

\* What is published as ready was the state of the canonical files at one
\* moment while the publishing operation ran, however the scan interleaved, as
\* long as every change of a file leaves a receipt.
PublishedWasCanonical ==
    [][\A w \in Workers :
        /\ pc[w] = "commit" /\ pc'[w] # "commit"
        /\ snap'.status = "ready" /\ snap' # snap /\ drift = {}
        => rows' \in seen[w]]_vars

\* When a query decides to use the index, the content it validated was the state
\* of the files at one moment of the query, although they were read in turn, as
\* long as every change of a file leaves a receipt.
ValidatedWasCanonical ==
    [][\A w \in Workers :
        pc[w] = "fence" /\ pc'[w] = "serve" /\ drift = {}
        => mem[w].before.content \in seen[w]]_vars

\* A query never demotes a snapshot that nothing has superseded: the receipt has
\* moved past its fence, or the files were seen in a state it does not describe.
HealthyNotDemoted ==
    [][\A w \in Workers :
        pc[w] = "cleanup" /\ pc'[w] # "cleanup" /\ snap' # snap =>
            \/ receipt.current # snap.cwr
            \/ \E f \in seen[w] : f # snap.content]_vars
===============================================================================
