------------------------------ MODULE ItemCreate ------------------------------
(***************************************************************************)
(* WorkitemOps::create_item over the checkouts ("roots") of one product,    *)
(* for one prefix and one item type: the request lock, the scan of the      *)
(* canonical files for a request marker, the durable reservation database   *)
(* (sequence, reservations, request keys), the collision check, the         *)
(* canonical write and the retry of a request whose creator died.           *)
(*                                                                          *)
(* Every read of a checkout, every database transaction and every file      *)
(* write is a step of its own; a client can die, or throw, between any two. *)
(* Around the creators other commands and git change the same files.        *)
(*                                                                          *)
(* An operator named X_Something stands before X as a plausible mistake in  *)
(* it; nothing uses it, and each is caught by one of the properties.        *)
(***************************************************************************)
EXTENDS Integers, FiniteSets

CONSTANTS
    Roots,          \* registered checkouts of the product
    Clients,        \* processes that run `kob workitem create`
    Keys,           \* idempotency keys
    Payloads,       \* normalized request payloads
    NoKey,          \* a create without --idempotency-key
    NoPayload,      \* the payload column of an absent request row
    Nobody,         \* the request lock is free
    Common,         \* the reservation database in the Git common dir
    Shared,         \* TRUE: the roots are worktrees of one Git repository
    RootOf,         \* the checkout a client works in
    MaxNumber,      \* bound: display-ID numbers that are allocated
    MaxCrashes,     \* bound: clients that die or throw
    MaxArrivals,    \* bound: items that come from other clones
    Environment     \* which other commands interfere

ASSUME NamesAreDistinct ==
    /\ NoKey \notin Keys
    /\ NoPayload \notin Payloads
    /\ Nobody \notin Clients
    /\ Common \notin Roots
ASSUME RootOfAssumption == RootOf \in [Clients -> Roots]
ASSUME BoundsAssumption ==
    /\ MaxNumber \in Nat
    /\ MaxCrashes \in Nat
    /\ MaxArrivals \in Nat
ASSUME ModeAssumption ==
    /\ Shared \in BOOLEAN
    /\ Environment \subseteq {"merge", "arrive", "trash", "remap", "discard"}

VARIABLES
    items,      \* canonical item files that parse
    torn,       \* item files truncated by a write that has not finished
    receipts,   \* duplicate-admission receipts, one per root and display ID
    seq,        \* id_sequences row of each database, NoRow when absent
    reserved,   \* id_reservations: numbers of each database
    committed,  \* id_reservations with committed_at set
    requests,   \* id_request_keys: the row of each database and key
    lock,       \* holder of each request lock file
    pc,         \* where each client is in create_item
    call,       \* the request each client carries
    slot,       \* the number and uid it works with
    scan,       \* its progress through the registered roots
    answers,    \* results returned to callers of keyed requests
    minted,     \* count of uids generated by creators of this clone
    excused,    \* numbers an outside command placed over a claimed one
    crashes,    \* clients that died so far
    arrivals    \* items that came from other clones so far

files    == <<items, torn, receipts>>
database == <<seq, reserved, committed, requests>>
clients  == <<pc, call, slot, scan>>
history  == <<answers, minted, excused, crashes, arrivals>>
vars     == <<files, database, lock, clients, history>>

-------------------------------------------------------------------------------
(* Types and small helpers *)

Databases == Roots \cup {Common}

\* The reservation database a checkout uses: the one in the Git common dir,
\* or the index database of the checkout itself.
Db(r) == IF Shared THEN Common ELSE r

\* request_roots: every registered worktree, or the checkout alone.
Scope(r) == IF Shared THEN Roots ELSE {r}

NoRow == -1
Unbound == 0

Item    == [root: Roots, number: Nat, uid: Int, key: Keys \cup {NoKey},
            payload: Payloads \cup {NoPayload}]
Receipt == [root: Roots, number: Nat, uid: Int, key: Keys \cup {NoKey}]
Row     == [number: Nat, payload: Payloads \cup {NoPayload}, uid: Nat]
Call    == [key: Keys \cup {NoKey}, payload: Payloads \cup {NoPayload}]
Slot    == [number: Nat, uid: Nat, floor: Nat \cup {NoRow}, committed: BOOLEAN,
            attempt: {0, 1}]
Scan    == [todo: SUBSET Roots, found: SUBSET Item, hit: BOOLEAN]
AnswerRecord == [db: Databases, key: Keys, payload: Payloads \cup {NoPayload},
                 number: Nat, uid: Int]

NoEntry == [number |-> 0, payload |-> NoPayload, uid |-> Unbound]

Steps == {"idle", "lock", "scan", "authorize", "seed", "ensure", "reserve",
          "rescan", "resolve", "collide", "decide", "bind", "open", "fill",
          "commit", "receipt", "finish", "replay"}

NoSlot == [number |-> 0, uid |-> Unbound, floor |-> NoRow,
           committed |-> FALSE, attempt |-> 0]
NoScan == [todo |-> {}, found |-> {}, hit |-> FALSE]

Keyed(c) == call[c].key # NoKey
MyDb(c)  == Db(RootOf[c])
MyRow(c) == requests[MyDb(c)][call[c].key]

MaxOf_Latest(a, b) == b
MaxOf(a, b) == IF a > b THEN a ELSE b

\* get_max_id_number reads file names, so it sees torn files too.
NumbersIn(R) == {f.number : f \in {g \in items \cup torn : g.root \in R}}
MaxNumberIn(R) ==
    LET top == {n \in NumbersIn(R) : \A m \in NumbersIn(R) : m <= n}
    IN IF top = {} THEN 0 ELSE CHOOSE n \in top : TRUE

Advance_Stuck(n) == IF n = NoRow THEN 1 ELSE n
Advance(n) == IF n = NoRow THEN 1 ELSE n + 1

Active == {c \in Clients : pc[c] # "idle"}

Goto(c, step) == pc' = [pc EXCEPT ![c] = step]

\* create_item leaves: its stack is gone and the OS frees the request lock.
Leave(c) ==
    /\ Goto(c, "idle")
    /\ lock' = [d \in Databases |-> IF lock[d] = c THEN Nobody ELSE lock[d]]
    /\ call' = [call EXCEPT ![c] = [key |-> NoKey, payload |-> NoPayload]]
    /\ slot' = [slot EXCEPT ![c] = NoSlot]
    /\ scan' = [scan EXCEPT ![c] = NoScan]

\* A throw: nothing is written on the way out.
Refuse(c) == Leave(c) /\ UNCHANGED <<files, database, history>>

Answer(c, number, uid) ==
    answers' = IF Keyed(c)
               THEN answers \cup {[db |-> MyDb(c), key |-> call[c].key,
                                   payload |-> call[c].payload,
                                   number |-> number, uid |-> uid]}
               ELSE answers

Visit(c, step) ==
    /\ Goto(c, step)
    /\ scan' = [scan EXCEPT ![c] = [NoScan EXCEPT !.todo = Scope(RootOf[c])]]

Init ==
    /\ items = {} /\ torn = {} /\ receipts = {}
    /\ seq = [d \in Databases |-> NoRow]
    /\ reserved = [d \in Databases |-> {}]
    /\ committed = [d \in Databases |-> {}]
    /\ requests = [d \in Databases |-> [k \in Keys |-> NoEntry]]
    /\ lock = [d \in Databases |-> Nobody]
    /\ pc = [c \in Clients |-> "idle"]
    /\ call = [c \in Clients |-> [key |-> NoKey, payload |-> NoPayload]]
    /\ slot = [c \in Clients |-> NoSlot]
    /\ scan = [c \in Clients |-> NoScan]
    /\ answers = {} /\ minted = 0 /\ excused = {}
    /\ crashes = 0 /\ arrivals = 0

-------------------------------------------------------------------------------
(* Admission: the call, the request lock, the scan for a request marker *)

\* A number is still left for every client that may allocate one.
NumbersLeft == \A d \in Databases : seq[d] + Cardinality(Active) < MaxNumber

Begin(c, k, p) ==
    /\ pc[c] = "idle"
    /\ \/ k # NoKey /\ requests[MyDb(c)][k] # NoEntry
       \/ NumbersLeft
    /\ Goto(c, IF k = NoKey THEN "seed" ELSE "lock")
    /\ call' = [call EXCEPT ![c] = [key |-> k, payload |-> p]]
    /\ UNCHANGED <<files, database, lock, slot, scan, history>>

AcquireLock(c) ==
    /\ pc[c] = "lock"
    /\ lock[MyDb(c)] = Nobody
    /\ lock' = [lock EXCEPT ![MyDb(c)] = c]
    /\ Visit(c, "scan")
    /\ UNCHANGED <<files, database, call, slot, history>>

LockTimeout(c) ==
    /\ pc[c] = "lock"
    /\ lock[MyDb(c)] # Nobody
    /\ Refuse(c)

Markers(c, r) == {i \in items : i.root = r /\ i.key = call[c].key}

\* The identity checks find_created_request makes on the markers of one root;
\* the second pass also knows the reserved number and, once bound, the uid.
MarkerConflict(c, r) ==
    \/ \E f \in torn : f.root = r
    \/ \E i \in Markers(c, r) :
        \/ i.payload # call[c].payload
        \/ pc[c] = "rescan" /\ i.number # slot[c].number
        \/ pc[c] = "rescan" /\ slot[c].uid # Unbound /\ i.uid # slot[c].uid
        \/ \E j \in Markers(c, r) \cup scan[c].found :
            i.number # j.number \/ i.uid # j.uid

FindCreatedRequest(c, r) ==
    /\ pc[c] \in {"scan", "rescan"}
    /\ r \in scan[c].todo
    /\ IF MarkerConflict(c, r)
       THEN Refuse(c)
       ELSE /\ scan' = [scan EXCEPT
                 ![c].todo = @ \ {r},
                 ![c].found = IF Markers(c, r) # {} /\ (@ = {} \/ r = RootOf[c])
                              THEN Markers(c, r) ELSE @]
            /\ UNCHANGED <<files, database, lock, pc, call, slot, history>>

\* A marker needs the reservation it was created under.
Authority_ByUid(c) ==
    /\ MyRow(c) # NoEntry
    /\ MyRow(c).payload = call[c].payload
    /\ MyRow(c).uid # Unbound
    /\ \A i \in scan[c].found : i.uid = MyRow(c).uid

Authority(c) ==
    /\ MyRow(c) # NoEntry
    /\ MyRow(c).payload = call[c].payload
    /\ MyRow(c).uid # Unbound
    /\ \A i \in scan[c].found : i.number = MyRow(c).number /\ i.uid = MyRow(c).uid

\* First pass over.
Authorize(c) ==
    /\ pc[c] = "scan" /\ scan[c].todo = {}
    /\ IF scan[c].found = {}
       THEN Goto(c, "seed") /\ UNCHANGED <<lock, call, slot, scan>>
       ELSE IF Authority(c)
       THEN Goto(c, "replay") /\ UNCHANGED <<lock, call, slot, scan>>
       ELSE Leave(c)
    /\ UNCHANGED <<files, database, history>>

-------------------------------------------------------------------------------
(* Allocation: sequence floors, the reservation, the second marker pass *)

\* The canonical maximum is read first and stored in a later transaction.
SeedSequence(c) ==
    /\ pc[c] = "seed"
    /\ Goto(c, IF Shared \/ seq[MyDb(c)] = NoRow THEN "ensure" ELSE "reserve")
    /\ slot' = [slot EXCEPT ![c].floor = MaxNumberIn(Scope(RootOf[c]))]
    /\ UNCHANGED <<files, database, lock, call, scan, history>>

EnsureSequenceAtLeast(c) ==
    /\ pc[c] = "ensure"
    /\ Goto(c, "reserve")
    /\ seq' = [seq EXCEPT ![MyDb(c)] = MaxOf(@, slot[c].floor)]
    /\ UNCHANGED <<files, reserved, committed, requests, lock, call, slot, scan,
                   history>>

IsCommitted_Ignored(d, n) == FALSE
IsCommitted(d, n) == n \in committed[d]

\* reserve_next_number_for_request when the key already has a row.
ReuseReservation(c) ==
    /\ pc[c] = "reserve" /\ Keyed(c)
    /\ MyRow(c) # NoEntry
    /\ IF MyRow(c).payload # call[c].payload
       THEN Leave(c)
       ELSE /\ slot' = [slot EXCEPT ![c] =
                 [@ EXCEPT !.number = MyRow(c).number,
                           !.uid = MyRow(c).uid,
                           !.committed = IsCommitted(MyDb(c), MyRow(c).number)]]
            /\ Visit(c, "rescan")
            /\ UNCHANGED <<lock, call>>
    /\ UNCHANGED <<files, database, history>>

NeedsNumber_Always(c) == TRUE
NeedsNumber(c) == Keyed(c) => MyRow(c) = NoEntry

\* A fresh number: the sequence advances and, except for the index's own
\* get_next_number, a reservation row (and the request row) is recorded with it.
ReserveNextNumber(c) ==
    /\ pc[c] = "reserve"
    /\ NeedsNumber(c)
    /\ LET d == MyDb(c)
           n == Advance(seq[d])
       IN /\ seq' = [seq EXCEPT ![d] = n]
          /\ reserved' = IF Shared \/ Keyed(c)
                         THEN [reserved EXCEPT ![d] = @ \cup {n}] ELSE reserved
          /\ requests' = IF Keyed(c)
                         THEN [requests EXCEPT ![d][call[c].key] =
                                 [number |-> n, payload |-> call[c].payload,
                                  uid |-> Unbound]]
                         ELSE requests
          /\ slot' = [slot EXCEPT ![c].number = n]
    /\ Visit(c, "collide")
    /\ UNCHANGED <<files, committed, lock, call, history>>

\* Second pass over: replay, refuse to recreate a committed item, or go on
\* with the reservation of a creator that died.
ResolveReservation(c) ==
    /\ pc[c] = "rescan" /\ scan[c].todo = {}
    /\ IF scan[c].found # {}
       THEN IF slot[c].uid = Unbound
            THEN Leave(c)
            ELSE Goto(c, "replay") /\ UNCHANGED <<lock, call, slot, scan>>
       ELSE IF slot[c].committed
            THEN Leave(c)
            ELSE Visit(c, "collide") /\ UNCHANGED <<lock, call, slot>>
    /\ UNCHANGED <<files, database, history>>

CheckCollision(c, r) ==
    /\ pc[c] = "collide"
    /\ r \in scan[c].todo
    /\ scan' = [scan EXCEPT
          ![c].todo = @ \ {r},
          ![c].hit = @ \/ \E i \in items : i.root = r /\ i.number = slot[c].number]
    /\ UNCHANGED <<files, database, lock, pc, call, slot, history>>

\* A create without a key raises the sequence once and allocates again.
Collides(c) ==
    \/ scan[c].hit
    \/ \E f \in torn : f.root = RootOf[c] /\ f.number = slot[c].number

DecideCollision(c) ==
    /\ pc[c] = "collide" /\ scan[c].todo = {}
    /\ \/ /\ ~Collides(c)
          /\ Goto(c, IF Keyed(c) THEN "bind" ELSE "open")
          /\ UNCHANGED <<lock, call, slot, scan>>
       \/ /\ Collides(c) /\ ~Keyed(c) /\ slot[c].attempt = 0
          /\ Goto(c, "ensure")
          /\ slot' = [slot EXCEPT ![c].attempt = 1,
                                  ![c].floor = MaxNumberIn({RootOf[c]})]
          /\ UNCHANGED <<lock, call, scan>>
       \/ /\ Collides(c) /\ (Keyed(c) \/ slot[c].attempt = 1)
          /\ Leave(c)
    /\ UNCHANGED <<files, database, history>>

-------------------------------------------------------------------------------
(* Publication: uid binding, canonical write, commit, receipt, readback *)

\* bind_request_uid keeps a uid that an earlier attempt recorded.
BoundUid_Afresh(c) == minted + 1
BoundUid(c) == IF MyRow(c).uid # Unbound THEN MyRow(c).uid ELSE minted + 1

BindRequestUid(c) ==
    /\ pc[c] = "bind" /\ Keyed(c)
    /\ LET uid == BoundUid(c)
       IN /\ requests' = [requests EXCEPT ![MyDb(c)][call[c].key].uid = uid]
          /\ slot' = [slot EXCEPT ![c].uid = uid]
          /\ minted' = MaxOf(minted, uid)
    /\ Goto(c, "open")
    /\ UNCHANGED <<files, seq, reserved, committed, lock, call, scan, answers,
                   excused, crashes, arrivals>>

\* write_materialized truncates the target in place, then fills it.
OpenItemFile(c) ==
    /\ pc[c] = "open"
    /\ torn' = torn \cup {[root |-> RootOf[c], number |-> slot[c].number]}
    /\ IF Keyed(c) THEN UNCHANGED <<slot, minted>>
       ELSE /\ minted' = minted + 1
            /\ slot' = [slot EXCEPT ![c].uid = minted + 1]
    /\ Goto(c, "fill")
    /\ UNCHANGED <<items, receipts, database, lock, call, scan, answers, excused,
                   crashes, arrivals>>

FillItemFile(c) ==
    /\ pc[c] = "fill"
    /\ torn' = torn \ {[root |-> RootOf[c], number |-> slot[c].number]}
    /\ items' = items \cup
         {[root |-> RootOf[c], number |-> slot[c].number, uid |-> slot[c].uid,
           key |-> call[c].key, payload |-> call[c].payload]}
    /\ Goto(c, "commit")
    /\ UNCHANGED <<receipts, database, lock, call, slot, scan, history>>

CommitReservation(c) ==
    /\ pc[c] = "commit"
    /\ committed' = IF Shared \/ Keyed(c)
                    THEN [committed EXCEPT ![MyDb(c)] =
                            @ \cup ({slot[c].number} \cap reserved[MyDb(c)])]
                    ELSE committed
    /\ Goto(c, "receipt")
    /\ UNCHANGED <<files, seq, reserved, requests, lock, call, slot, scan, history>>

WriteReceipt(r, n, u, k) ==
    receipts' = {q \in receipts : q.root # r \/ q.number # n} \cup
                {[root |-> r, number |-> n, uid |-> u, key |-> k]}

WriteDuplicateAdmissionReceipt(c) ==
    /\ pc[c] = "receipt"
    /\ WriteReceipt(RootOf[c], slot[c].number, slot[c].uid, call[c].key)
    /\ Goto(c, "finish")
    /\ UNCHANGED <<items, torn, database, lock, call, slot, scan, history>>

\* index_item and the final readback both need the item where it was written.
Finish(c) ==
    /\ pc[c] = "finish"
    /\ IF \E i \in items : /\ i.root = RootOf[c]
                           /\ i.number = slot[c].number
                           /\ i.uid = slot[c].uid
       THEN Answer(c, slot[c].number, slot[c].uid)
       ELSE UNCHANGED answers
    /\ Leave(c)
    /\ UNCHANGED <<files, database, minted, excused, crashes, arrivals>>

\* replay_result: the receipt is completed in the own checkout only, must name
\* this request, and the item must still read back.
Replay(c, i) ==
    /\ pc[c] = "replay"
    /\ i \in scan[c].found
    /\ LET present == {q \in receipts : q.root = i.root /\ q.number = i.number}
       IN IF present = {} /\ i.root = RootOf[c]
          THEN WriteReceipt(i.root, i.number, i.uid, call[c].key)
          ELSE UNCHANGED receipts
    /\ IF /\ \E q \in receipts' : /\ q.root = i.root /\ q.number = i.number
                                  /\ q.uid = i.uid /\ q.key = call[c].key
          /\ \E j \in items : j.root = i.root /\ j.number = i.number /\ j.uid = i.uid
       THEN Answer(c, i.number, i.uid)
       ELSE UNCHANGED answers
    /\ Leave(c)
    /\ UNCHANGED <<items, torn, database, minted, excused, crashes, arrivals>>

\* The process is killed, or throws on a check that is not modelled (scan
\* budget, parent identity, database error): whatever it wrote stays.
Crash(c) ==
    /\ pc[c] # "idle"
    /\ crashes < MaxCrashes
    /\ crashes' = crashes + 1
    /\ Leave(c)
    /\ UNCHANGED <<files, database, answers, minted, excused, arrivals>>

-------------------------------------------------------------------------------
(* Other commands and git, on the same files *)

\* Some client has this number in hand, or a file already carries it.
Claimed(n) ==
    \/ n \in NumbersIn(Roots)
    \/ \E c \in Active : slot[c].number = n

\* git brings an item of one worktree to another, its receipt with it or not.
Merge(i, r) ==
    /\ "merge" \in Environment /\ Shared
    /\ i \in items /\ r # i.root
    /\ ~\E j \in items : j.root = r /\ j.number = i.number
    /\ items' = items \cup {[i EXCEPT !.root = r]}
    /\ \/ WriteReceipt(r, i.number, i.uid, i.key)
       \/ UNCHANGED receipts
    /\ UNCHANGED <<torn, database, lock, clients, history>>

\* git brings an item that another clone, with a database of its own, created.
Arrive(r, n, k, p) ==
    /\ "arrive" \in Environment
    /\ arrivals < MaxArrivals
    /\ arrivals' = arrivals + 1
    /\ items' = items \cup {[root |-> r, number |-> n, uid |-> -(arrivals + 1),
                             key |-> k, payload |-> p]}
    /\ excused' = IF Claimed(n) THEN excused \cup {n} ELSE excused
    /\ UNCHANGED <<torn, receipts, database, lock, clients, answers, minted, crashes>>

\* trash_item moves the file out of items/; its receipt stays.
Trash(i) ==
    /\ "trash" \in Environment
    /\ i \in items
    /\ items' = items \ {i}
    /\ UNCHANGED <<torn, receipts, database, lock, clients, history>>

\* remap_id checks only its own checkout and consults no reservation.
Remap(i, n) ==
    /\ "remap" \in Environment
    /\ i \in items /\ n # i.number
    /\ ~\E j \in items : j.root = i.root /\ j.number = n
    /\ items' = (items \ {i}) \cup {[i EXCEPT !.number = n]}
    /\ excused' = IF Claimed(n) THEN excused \cup {n} ELSE excused
    /\ UNCHANGED <<torn, receipts, database, lock, clients, answers, minted,
                   crashes, arrivals>>

\* An operator deletes an item file that a dead writer left unreadable.
DiscardTorn(f) ==
    /\ "discard" \in Environment
    /\ f \in torn
    /\ ~\E c \in Clients : /\ pc[c] = "fill"
                           /\ RootOf[c] = f.root /\ slot[c].number = f.number
    /\ torn' = torn \ {f}
    /\ UNCHANGED <<items, receipts, database, lock, clients, history>>

-------------------------------------------------------------------------------
ClientStep(c) ==
    \/ AcquireLock(c) \/ LockTimeout(c)
    \/ \E r \in Roots : FindCreatedRequest(c, r) \/ CheckCollision(c, r)
    \/ Authorize(c) \/ SeedSequence(c) \/ EnsureSequenceAtLeast(c)
    \/ ReuseReservation(c) \/ ReserveNextNumber(c) \/ ResolveReservation(c)
    \/ DecideCollision(c) \/ BindRequestUid(c)
    \/ OpenItemFile(c) \/ FillItemFile(c) \/ CommitReservation(c)
    \/ WriteDuplicateAdmissionReceipt(c) \/ Finish(c)
    \/ \E i \in scan[c].found : Replay(c, i)

Others ==
    \/ \E i \in items, r \in Roots : Merge(i, r)
    \/ \E r \in Roots, n \in 1..MaxNumber, k \in Keys \cup {NoKey}, p \in Payloads :
          Arrive(r, n, k, p)
    \/ \E i \in items : Trash(i)
    \/ \E i \in items, n \in 1..MaxNumber : Remap(i, n)
    \/ \E f \in torn : DiscardTorn(f)

Next ==
    \/ \E c \in Clients, k \in Keys \cup {NoKey}, p \in Payloads : Begin(c, k, p)
    \/ \E c \in Clients : ClientStep(c) \/ Crash(c)
    \/ Others

Spec == Init /\ [][Next]_vars

-------------------------------------------------------------------------------
(* Properties *)

FilesType ==
    /\ items \subseteq Item
    /\ torn \subseteq [root: Roots, number: Nat]
    /\ receipts \subseteq Receipt

DatabaseType ==
    /\ seq \in [Databases -> Nat \cup {NoRow}]
    /\ reserved \in [Databases -> SUBSET Nat]
    /\ committed \in [Databases -> SUBSET Nat]
    /\ requests \in [Databases -> [Keys -> Row]]

ClientsType ==
    /\ lock \in [Databases -> Clients \cup {Nobody}]
    /\ pc \in [Clients -> Steps]
    /\ call \in [Clients -> Call]
    /\ slot \in [Clients -> Slot]
    /\ scan \in [Clients -> Scan]

HistoryType ==
    /\ answers \subseteq AnswerRecord
    /\ minted \in Nat /\ crashes \in Nat /\ arrivals \in Nat
    /\ excused \subseteq Nat

\* Every variable stays in its type.
TypeOK == FilesType /\ DatabaseType /\ ClientsType /\ HistoryType

\* The create pipeline never puts a second item under a display ID: two files
\* with one number and different uids are the work of an outside command that
\* dropped its file onto a number in use.
UniqueIds ==
    \A i, j \in items :
        /\ Db(i.root) = Db(j.root)
        /\ i.number = j.number
        /\ i.number \notin excused
        => i.uid = j.uid

\* However often a keyed request is retried, by whichever process, in whichever
\* worktree, after whatever crash, at most one item exists for its key.
OneItemPerKey ==
    \A i, j \in items :
        /\ Db(i.root) = Db(j.root)
        /\ i.key = j.key /\ i.key # NoKey
        /\ i.uid > 0 /\ j.uid > 0
        => i.uid = j.uid /\ i.payload = j.payload

\* SKILL.md: the same key returns the original ID and UID, a changed request
\* fails closed. All answers ever given for a key are the same answer.
RetriesAgree ==
    \A a, b \in answers : a.db = b.db /\ a.key = b.key => a = b

\* No two creators ever have the same display ID on its way into a file: the
\* truncating write of one can not tear the file of another.
OneWriterPerNumber ==
    \A c, e \in Clients :
        /\ c # e /\ MyDb(c) = MyDb(e)
        /\ {pc[c], pc[e]} \subseteq {"bind", "open", "fill"}
        => slot[c].number # slot[e].number

\* Once a reservation is committed no creator writes that item again, so an
\* item that was trashed after its commit does not come back by a retry.
CommittedNeverRewritten ==
    [][\A f \in torn' \ torn : f.number \notin committed[Db(f.root)]]_vars

-------------------------------------------------------------------------------
(* Refinement: the request row, once a uid is bound to it, is the identity *)

Identity(d, k) ==
    IF requests[d][k].uid = Unbound THEN NoEntry ELSE requests[d][k]

Replies ==
    {[scope |-> a.db, key |-> a.key,
      id |-> [number |-> a.number, payload |-> a.payload, uid |-> a.uid]] :
        a \in answers}

Once == INSTANCE CreateOnce WITH
            Scopes <- Databases, Identities <- Row, None <- NoEntry,
            identity <- [d \in Databases |-> [k \in Keys |-> Identity(d, k)]],
            replies <- Replies

\* The pipeline, its retries, crashes and interferences implement CreateOnce.
ImplementsCreateOnce == Once!Spec
===============================================================================
