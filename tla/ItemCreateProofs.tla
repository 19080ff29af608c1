--------------------------- MODULE ItemCreateProofs ---------------------------
(***************************************************************************)
(* Theorems of ItemCreate for any set of checkouts, creators, keys and      *)
(* bounds.  The inductive invariant IInv ties the four places a request key *)
(* is known in (its row, the creator at work, the item, the answer) to one  *)
(* identity; the properties and the refinement follow from it.  Two more,   *)
(* on top of it, keep numbers apart: in hand, and in the files.             *)
(***************************************************************************)
EXTENDS ItemCreate, TLAPS

\* Steps at which a client works with a number taken for its request.
HasNumber == {"rescan", "collide", "bind", "open", "fill", "commit", "receipt",
              "finish"}
\* Steps after bind_request_uid.
HasUid == {"open", "fill", "commit", "receipt", "finish"}
\* Steps only a keyed request reaches.
KeyedOnly == {"lock", "scan", "rescan", "bind", "replay"}

\* Request rows: allocated numbers lie below the sequence, uids below the mint,
\* and no two keys of a database share either.
RowsInv ==
    \A d \in Databases, k \in Keys :
        /\ requests[d][k].uid # Unbound => requests[d][k].uid <= minted
        /\ requests[d][k] # NoEntry =>
             /\ requests[d][k].number > 0
             /\ requests[d][k].number <= seq[d]
             /\ requests[d][k].payload \in Payloads
        /\ requests[d][k].uid # Unbound => requests[d][k] # NoEntry
        /\ \A e \in Keys \ {k} :
             /\ requests[d][k] # NoEntry /\ requests[d][e] # NoEntry
                => requests[d][k].number # requests[d][e].number
             /\ requests[d][k].uid # Unbound
                => requests[d][k].uid # requests[d][e].uid

\* A client in the pipeline agrees with the row of its key.
ClientOK(c) ==
    /\ pc[c] # "idle" => call[c].payload \in Payloads
    /\ pc[c] \in KeyedOnly => Keyed(c)
    /\ Keyed(c) /\ pc[c] \in HasNumber =>
         /\ MyRow(c) # NoEntry
         /\ slot[c].number = MyRow(c).number
         /\ MyRow(c).payload = call[c].payload
    /\ pc[c] = "rescan" =>
         /\ slot[c].uid # Unbound => slot[c].uid = MyRow(c).uid
         /\ \A i \in scan[c].found :
              /\ i.number = slot[c].number
              /\ slot[c].uid # Unbound => i.uid = slot[c].uid
    /\ Keyed(c) /\ pc[c] \in HasUid =>
         slot[c].uid # Unbound /\ slot[c].uid = MyRow(c).uid
    /\ pc[c] = "replay" =>
         /\ MyRow(c) # NoEntry /\ MyRow(c).uid # Unbound
         /\ MyRow(c).payload = call[c].payload
         /\ \A i \in scan[c].found :
              i.number = MyRow(c).number /\ i.uid = MyRow(c).uid

ClientInv == \A c \in Clients : ClientOK(c)

\* Canonical items that carry a key of this clone carry the uid bound to it.
ItemsInv ==
    \A i \in items : i.key # NoKey /\ i.uid > 0 =>
        /\ requests[Db(i.root)][i.key].uid = i.uid
        /\ requests[Db(i.root)][i.key].payload = i.payload

\* Every answer is the row of its key.
AnswersInv ==
    \A a \in answers :
        /\ a.uid # Unbound
        /\ requests[a.db][a.key] =
             [number |-> a.number, payload |-> a.payload, uid |-> a.uid]

\* The inductive invariant: in every reachable state the row of a key decides what
\* its creator, its item and its answers say.
IInv == TypeOK /\ RowsInv /\ ClientInv /\ ItemsInv /\ AnswersInv

-------------------------------------------------------------------------------
(* Type correctness *)

\* A checkout uses a known database and scans known checkouts.
LEMMA DbType == \A r \in Roots : Db(r) \in Databases /\ Scope(r) \subseteq Roots
  BY DEF Db, Scope, Databases

\* The largest number found in the file names of some checkouts is a number.
LEMMA MaxType ==
  ASSUME TypeOK, NEW R \in SUBSET Roots
  PROVE  MaxNumberIn(R) \in Nat
<1>1. NumbersIn(R) \subseteq Nat
  BY DEF TypeOK, FilesType, NumbersIn, Item
<1> QED BY <1>1 DEF MaxNumberIn

\* A creator that leaves create_item keeps the types of the client variables.
LEMMA LeaveType ==
  ASSUME ClientsType, NEW c \in Clients, Leave(c)
  PROVE  ClientsType'
<1>1. NoSlot \in Slot /\ NoScan \in Scan /\ "idle" \in Steps
  BY DEF NoSlot, Slot, Unbound, NoScan, Scan, Steps
<1>2. [key |-> NoKey, payload |-> NoPayload] \in Call
  BY DEF Call
<1> QED BY <1>1, <1>2 DEF ClientsType, Leave, Goto

\* So does one that starts a pass over its registered checkouts.
LEMMA VisitType ==
  ASSUME ClientsType, NEW c \in Clients, NEW step \in Steps, Visit(c, step)
  PROVE  pc' \in [Clients -> Steps] /\ scan' \in [Clients -> Scan]
<1>1. [NoScan EXCEPT !.todo = Scope(RootOf[c])] \in Scan
  BY RootOfAssumption, DbType DEF NoScan, Scan
<1> QED BY <1>1 DEF ClientsType, Visit, Goto

\* A creator that throws keeps every type.
LEMMA RefuseType ==
  ASSUME TypeOK, NEW c \in Clients, Refuse(c)
  PROVE  TypeOK'
  BY LeaveType DEF TypeOK, Refuse, FilesType, DatabaseType, HistoryType, files,
     database, history

\* Replacing a duplicate-admission receipt keeps the set of receipts typed.
LEMMA ReceiptType ==
  ASSUME FilesType, NEW r \in Roots, NEW n \in Nat, NEW u \in Int,
         NEW k \in Keys \cup {NoKey}, WriteReceipt(r, n, u, k)
  PROVE  receipts' \subseteq Receipt
  BY DEF FilesType, WriteReceipt, Receipt

\* Answering a caller keeps the history typed.
LEMMA AnswerType ==
  ASSUME TypeOK, NEW c \in Clients,
         NEW n \in Nat, NEW u \in Int, Answer(c, n, u)
  PROVE  answers' \subseteq AnswerRecord
<1>1. MyDb(c) \in Databases
  BY RootOfAssumption, DbType DEF MyDb
<1>2. call[c] \in Call
  BY DEF TypeOK, ClientsType
<1> QED BY <1>1, <1>2 DEF TypeOK, HistoryType, Answer, AnswerRecord, Call, Keyed

\* The request row of a keyed creator is a row of the database.
LEMMA RowType ==
  ASSUME TypeOK, NEW c \in Clients, Keyed(c)
  PROVE  MyRow(c) \in Row
  BY RootOfAssumption, DbType DEF TypeOK, DatabaseType, ClientsType, Call, Keyed,
     MyRow, MyDb

\* The initial state is typed.
LEMMA TypeInit == Init => TypeOK
  BY DEF Init, TypeOK, FilesType, DatabaseType, ClientsType, HistoryType, NoEntry,
     NoRow, NoSlot, NoScan, Unbound, Row, Steps, Call, Slot, Scan

\* Every step keeps every type.
LEMMA TypeNext == TypeOK /\ [Next]_vars => TypeOK'
<1> SUFFICES ASSUME TypeOK, [Next]_vars PROVE TypeOK'
  OBVIOUS
<1> USE RootOfAssumption, DbType
<1>0. CASE UNCHANGED vars
  BY <1>0 DEF TypeOK, FilesType, DatabaseType, ClientsType, HistoryType, vars,
     files, database, clients, history
<1>1. ASSUME NEW c \in Clients, NEW k \in Keys \cup {NoKey}, NEW p \in Payloads, Begin(c, k, p) PROVE TypeOK'
  <2>1. FilesType'
    BY <1>1 DEF TypeOK, FilesType, Begin, files
  <2>2. DatabaseType'
    BY <1>1 DEF TypeOK, DatabaseType, Begin, database
  <2>3. ClientsType'
    BY <1>1 DEF TypeOK, ClientsType, Begin, clients, Goto, Steps, Call
  <2>4. HistoryType'
    BY <1>1 DEF TypeOK, HistoryType, Begin, history
  <2> QED BY <2>1, <2>2, <2>3, <2>4 DEF TypeOK
<1>2. ASSUME NEW c \in Clients, AcquireLock(c) PROVE TypeOK'
  <2>1. FilesType'
    BY <1>2 DEF TypeOK, FilesType, AcquireLock, files
  <2>2. DatabaseType'
    BY <1>2 DEF TypeOK, DatabaseType, AcquireLock, database
  <2>3. ClientsType'
    BY <1>2, VisitType DEF TypeOK, ClientsType, AcquireLock, clients, Steps, MyDb
  <2>4. HistoryType'
    BY <1>2 DEF TypeOK, HistoryType, AcquireLock, history
  <2> QED BY <2>1, <2>2, <2>3, <2>4 DEF TypeOK
<1>3. ASSUME NEW c \in Clients, LockTimeout(c) PROVE TypeOK'
  BY <1>3, RefuseType DEF LockTimeout
<1>4. ASSUME NEW c \in Clients, NEW r \in Roots, FindCreatedRequest(c, r) PROVE TypeOK'
  <2>1. CASE MarkerConflict(c, r)
    BY <1>4, <2>1, RefuseType DEF FindCreatedRequest
  <2>2. CASE ~MarkerConflict(c, r)
    <3>1. scan' \in [Clients -> Scan]
      BY <1>4, <2>2 DEF TypeOK, FilesType, ClientsType, FindCreatedRequest, Scan, Markers
    <3> QED BY <1>4, <2>2, <3>1 DEF FindCreatedRequest, TypeOK, FilesType, DatabaseType,
           ClientsType, HistoryType, files, database, history
  <2> QED BY <2>1, <2>2
<1>5. ASSUME NEW c \in Clients, Authorize(c) PROVE TypeOK'
  <2>1. FilesType'
    BY <1>5 DEF TypeOK, FilesType, Authorize, Authority, files
  <2>2. DatabaseType'
    BY <1>5 DEF TypeOK, DatabaseType, Authorize, Authority, database
  <2>3. ClientsType'
    BY <1>5, LeaveType DEF TypeOK, ClientsType, Authorize, Authority, clients, Goto, Steps
  <2>4. HistoryType'
    BY <1>5 DEF TypeOK, HistoryType, Authorize, Authority, history
  <2> QED BY <2>1, <2>2, <2>3, <2>4 DEF TypeOK
<1>6. ASSUME NEW c \in Clients, SeedSequence(c) PROVE TypeOK'
  <2>1. MaxNumberIn(Scope(RootOf[c])) \in Nat
    BY MaxType
  <2>2. ClientsType'
    BY <1>6, <2>1 DEF TypeOK, ClientsType, SeedSequence, Goto, Steps, Slot
  <2> QED BY <1>6, <2>2 DEF SeedSequence, TypeOK, FilesType, DatabaseType, HistoryType,
         files, database, history
<1>7. ASSUME NEW c \in Clients, EnsureSequenceAtLeast(c) PROVE TypeOK'
  <2>1. FilesType'
    BY <1>7 DEF TypeOK, FilesType, EnsureSequenceAtLeast, files
  <2>2. DatabaseType'
    BY <1>7 DEF TypeOK, DatabaseType, EnsureSequenceAtLeast, database, ClientsType, Slot, MaxOf, NoRow, MyDb
  <2>3. ClientsType'
    BY <1>7 DEF TypeOK, ClientsType, EnsureSequenceAtLeast, clients, Goto, Steps
  <2>4. HistoryType'
    BY <1>7 DEF TypeOK, HistoryType, EnsureSequenceAtLeast, history
  <2> QED BY <2>1, <2>2, <2>3, <2>4 DEF TypeOK
<1>8. ASSUME NEW c \in Clients, ReuseReservation(c) PROVE TypeOK'
  <2>1. CASE MyRow(c).payload # call[c].payload
    BY <1>8, <2>1, LeaveType DEF ReuseReservation, IsCommitted, TypeOK, FilesType, DatabaseType,
       HistoryType, files, database, history
  <2>2. CASE MyRow(c).payload = call[c].payload
    <3>1. MyRow(c) \in Row
      BY <1>8, RowType DEF ReuseReservation, IsCommitted
    <3>2. slot' \in [Clients -> Slot]
      <4> DEFINE row == MyRow(c)
                 done == row.number \in committed[MyDb(c)]
      <4>1. row.number \in Nat /\ row.uid \in Nat /\ done \in BOOLEAN
        BY <3>1 DEF Row
      <4>2. slot' = [slot EXCEPT ![c] = [@ EXCEPT !.number = row.number, !.uid = row.uid,
                                                  !.committed = done]]
        BY <1>8, <2>2 DEF ReuseReservation, IsCommitted
      <4> HIDE DEF row, done
      <4>3. [slot[c] EXCEPT !.number = row.number, !.uid = row.uid, !.committed = done] \in Slot
        BY <4>1 DEF TypeOK, ClientsType, Slot
      <4> QED BY <4>2, <4>3 DEF TypeOK, ClientsType
    <3>3. pc' \in [Clients -> Steps] /\ scan' \in [Clients -> Scan]
      BY <1>8, <2>2, VisitType DEF ReuseReservation, IsCommitted, TypeOK, Steps
    <3> QED BY <1>8, <2>2, <3>2, <3>3 DEF ReuseReservation, IsCommitted, TypeOK, FilesType, DatabaseType,
           ClientsType, HistoryType, files, database, history
  <2> QED BY <2>1, <2>2
<1>9. ASSUME NEW c \in Clients, ReserveNextNumber(c) PROVE TypeOK'
  <2>0. MyDb(c) \in Databases /\ Advance(seq[MyDb(c)]) \in Nat
    BY DEF MyDb, TypeOK, DatabaseType, Advance, NoRow
  <2>1. seq' \in [Databases -> Nat \cup {NoRow}] /\ reserved' \in [Databases -> SUBSET Nat]
    BY <1>9, <2>0 DEF ReserveNextNumber, NeedsNumber, TypeOK, DatabaseType
  <2>2. requests' \in [Databases -> [Keys -> Row]]
    BY <1>9, <2>0 DEF ReserveNextNumber, NeedsNumber, TypeOK, DatabaseType, ClientsType, Call, Row, Unbound
  <2>3. slot' \in [Clients -> Slot]
    BY <1>9, <2>0 DEF ReserveNextNumber, NeedsNumber, TypeOK, ClientsType, Slot
  <2>4. pc' \in [Clients -> Steps] /\ scan' \in [Clients -> Scan]
    BY <1>9, VisitType DEF ReserveNextNumber, NeedsNumber, TypeOK, Steps
  <2> QED BY <1>9, <2>1, <2>2, <2>3, <2>4 DEF ReserveNextNumber, NeedsNumber, TypeOK, FilesType, DatabaseType,
         ClientsType, HistoryType, files, history
<1>10. ASSUME NEW c \in Clients, ResolveReservation(c) PROVE TypeOK'
  <2>1. FilesType'
    BY <1>10 DEF TypeOK, FilesType, ResolveReservation, files
  <2>2. DatabaseType'
    BY <1>10 DEF TypeOK, DatabaseType, ResolveReservation, database
  <2>3. ClientsType'
    BY <1>10, LeaveType, VisitType DEF TypeOK, ClientsType, ResolveReservation, clients, Goto, Steps
  <2>4. HistoryType'
    BY <1>10 DEF TypeOK, HistoryType, ResolveReservation, history
  <2> QED BY <2>1, <2>2, <2>3, <2>4 DEF TypeOK
<1>11. ASSUME NEW c \in Clients, NEW r \in Roots, CheckCollision(c, r) PROVE TypeOK'
  <2>1. scan' \in [Clients -> Scan]
    BY <1>11 DEF TypeOK, ClientsType, CheckCollision, Scan
  <2> QED BY <1>11, <2>1 DEF CheckCollision, TypeOK, FilesType, DatabaseType,
         ClientsType, HistoryType, files, database, history
<1>12. ASSUME NEW c \in Clients, DecideCollision(c) PROVE TypeOK'
  <2>0. MaxNumberIn({RootOf[c]}) \in Nat
    BY MaxType
  <2>1. ClientsType'
    <3>1. CASE Leave(c)
      BY <3>1, LeaveType DEF TypeOK
    <3>2. CASE /\ Goto(c, IF Keyed(c) THEN "bind" ELSE "open")
               /\ UNCHANGED <<lock, call, slot, scan>>
      BY <3>2 DEF TypeOK, ClientsType, Goto, Steps
    <3>3. CASE /\ Goto(c, "ensure")
               /\ slot' = [slot EXCEPT ![c].attempt = 1,
                                       ![c].floor = MaxNumberIn({RootOf[c]})]
               /\ UNCHANGED <<lock, call, scan>>
      BY <2>0, <3>3 DEF TypeOK, ClientsType, Goto, Steps, Slot
    <3> QED BY <1>12, <3>1, <3>2, <3>3 DEF DecideCollision
  <2> QED BY <1>12, <2>1 DEF DecideCollision, TypeOK, FilesType, DatabaseType, HistoryType,
         files, database, history
<1>13. ASSUME NEW c \in Clients, BindRequestUid(c) PROVE TypeOK'
  <2> DEFINE uid == IF MyRow(c).uid # Unbound THEN MyRow(c).uid ELSE minted + 1
  <2>0. MyDb(c) \in Databases /\ call[c].key \in Keys /\ uid \in Nat
    BY <1>13, RowType DEF BindRequestUid, BoundUid, MyDb, TypeOK, ClientsType, Call, Keyed, Row, HistoryType
  <2> HIDE DEF uid
  <2>1. /\ requests' = [requests EXCEPT ![MyDb(c)][call[c].key].uid = uid]
        /\ slot' = [slot EXCEPT ![c].uid = uid]
        /\ minted' = MaxOf(minted, uid)
    BY <1>13 DEF BindRequestUid, BoundUid, uid
  <2>2. requests' \in [Databases -> [Keys -> Row]]
    <3>1. requests[MyDb(c)][call[c].key] \in Row
      BY <2>0 DEF TypeOK, DatabaseType
    <3>2. [requests[MyDb(c)][call[c].key] EXCEPT !.uid = uid] \in Row
      BY <2>0, <3>1 DEF Row
    <3> QED BY <2>0, <2>1, <3>2 DEF TypeOK, DatabaseType
  <2>3. slot' \in [Clients -> Slot]
    BY <2>0, <2>1 DEF TypeOK, ClientsType, Slot
  <2>4. minted' \in Nat
    BY <2>0, <2>1 DEF TypeOK, HistoryType, MaxOf
  <2> QED BY <1>13, <2>2, <2>3, <2>4 DEF BindRequestUid, BoundUid, TypeOK, FilesType, DatabaseType,
         ClientsType, HistoryType, Goto, Steps, files
<1>14. ASSUME NEW c \in Clients, OpenItemFile(c) PROVE TypeOK'
  <2>1. slot' \in [Clients -> Slot] /\ minted' \in Nat
    BY <1>14 DEF OpenItemFile, TypeOK, ClientsType, HistoryType, Slot
  <2>2. torn' \subseteq [root: Roots, number: Nat]
    BY <1>14 DEF OpenItemFile, TypeOK, FilesType, ClientsType, Slot
  <2> QED BY <1>14, <2>1, <2>2 DEF OpenItemFile, TypeOK, FilesType, DatabaseType,
         ClientsType, HistoryType, Goto, Steps, database
<1>15. ASSUME NEW c \in Clients, FillItemFile(c) PROVE TypeOK'
  <2>1. [root |-> RootOf[c], number |-> slot[c].number, uid |-> slot[c].uid,
         key |-> call[c].key, payload |-> call[c].payload] \in Item
    BY DEF TypeOK, ClientsType, Slot, Call, Item
  <2>2. FilesType'
    BY <1>15, <2>1 DEF FillItemFile, TypeOK, FilesType
  <2> QED BY <1>15, <2>2 DEF FillItemFile, TypeOK, DatabaseType, ClientsType, HistoryType,
         Goto, Steps, database, history
<1>16. ASSUME NEW c \in Clients, CommitReservation(c) PROVE TypeOK'
  <2>1. FilesType'
    BY <1>16 DEF TypeOK, FilesType, CommitReservation, files
  <2>2. DatabaseType'
    BY <1>16 DEF TypeOK, DatabaseType, CommitReservation, database, MyDb
  <2>3. ClientsType'
    BY <1>16 DEF TypeOK, ClientsType, CommitReservation, clients, Goto, Steps
  <2>4. HistoryType'
    BY <1>16 DEF TypeOK, HistoryType, CommitReservation, history
  <2> QED BY <2>1, <2>2, <2>3, <2>4 DEF TypeOK
<1>17. ASSUME NEW c \in Clients, WriteDuplicateAdmissionReceipt(c) PROVE TypeOK'
  <2>1. /\ slot[c].number \in Nat /\ slot[c].uid \in Int
        /\ call[c].key \in Keys \cup {NoKey} /\ RootOf[c] \in Roots
    BY DEF TypeOK, ClientsType, Slot, Call
  <2>2. receipts' \subseteq Receipt
    BY <1>17, <2>1, ReceiptType DEF WriteDuplicateAdmissionReceipt, TypeOK
  <2> QED BY <1>17, <2>2 DEF WriteDuplicateAdmissionReceipt, TypeOK, FilesType, DatabaseType,
         ClientsType, HistoryType, Goto, Steps, database, history
<1>18. ASSUME NEW c \in Clients, Finish(c) PROVE TypeOK'
  <2>1. FilesType'
    BY <1>18 DEF TypeOK, FilesType, Finish, files
  <2>2. DatabaseType'
    BY <1>18 DEF TypeOK, DatabaseType, Finish, database
  <2>3. ClientsType'
    BY <1>18, LeaveType DEF TypeOK, ClientsType, Finish, clients
  <2>4. HistoryType'
    BY <1>18, AnswerType DEF TypeOK, HistoryType, Finish, history, ClientsType, Slot
  <2> QED BY <2>1, <2>2, <2>3, <2>4 DEF TypeOK
<1>19. ASSUME NEW c \in Clients, NEW i \in scan[c].found, Replay(c, i) PROVE TypeOK'
  <2>1. i \in Item
    BY DEF TypeOK, ClientsType, Scan
  <2>2. FilesType'
    BY <1>19, <2>1, ReceiptType DEF TypeOK, FilesType, ClientsType, Call, Replay, Item
  <2>3. HistoryType'
    BY <1>19, <2>1, AnswerType DEF TypeOK, HistoryType, Replay, Item
  <2> QED BY <1>19, <2>2, <2>3, LeaveType DEF Replay, TypeOK, DatabaseType, database
<1>20. ASSUME NEW c \in Clients, Crash(c) PROVE TypeOK'
  <2>1. FilesType'
    BY <1>20 DEF TypeOK, FilesType, Crash, files
  <2>2. DatabaseType'
    BY <1>20 DEF TypeOK, DatabaseType, Crash, database
  <2>3. ClientsType'
    BY <1>20, LeaveType DEF TypeOK, ClientsType, Crash, clients
  <2>4. HistoryType'
    BY <1>20 DEF TypeOK, HistoryType, Crash, history
  <2> QED BY <2>1, <2>2, <2>3, <2>4 DEF TypeOK
<1>21. ASSUME NEW i \in items, NEW r \in Roots, Merge(i, r) PROVE TypeOK'
  <2>1. i \in Item
    BY DEF TypeOK, FilesType
  <2>2. FilesType'
    BY <1>21, <2>1, ReceiptType DEF TypeOK, FilesType, Merge, Item
  <2> QED BY <1>21, <2>2 DEF Merge, TypeOK, DatabaseType, ClientsType, HistoryType,
         database, clients, history
<1>22. ASSUME NEW r \in Roots, NEW m \in 1..MaxNumber, NEW k \in Keys \cup {NoKey},
            NEW p \in Payloads, Arrive(r, m, k, p)
     PROVE TypeOK'
  BY <1>22, BoundsAssumption DEF Arrive, TypeOK, FilesType, DatabaseType, ClientsType, HistoryType,
     database, clients, Item
<1>23. ASSUME NEW i \in items, Trash(i) PROVE TypeOK'
  BY <1>23 DEF Trash, TypeOK, FilesType, DatabaseType, ClientsType, HistoryType,
     database, clients, history
<1>24. ASSUME NEW i \in items, NEW m \in 1..MaxNumber, Remap(i, m) PROVE TypeOK'
  <2>1. [i EXCEPT !.number = m] \in Item /\ m \in Nat
    BY BoundsAssumption DEF TypeOK, FilesType, Item
  <2> QED BY <1>24, <2>1 DEF Remap, TypeOK, FilesType, DatabaseType, ClientsType, HistoryType,
         database, clients
<1>25. ASSUME NEW f \in torn, DiscardTorn(f) PROVE TypeOK'
  BY <1>25 DEF DiscardTorn, TypeOK, FilesType, DatabaseType, ClientsType, HistoryType,
     database, clients, history
<1> QED
  BY <1>0, <1>1, <1>2, <1>3, <1>4, <1>5, <1>6, <1>7, <1>8, <1>9, <1>10, <1>11, <1>12, <1>13,
     <1>14, <1>15, <1>16, <1>17, <1>18, <1>19, <1>20, <1>21, <1>22, <1>23, <1>24, <1>25
     DEF Next, ClientStep, Others

\* Every variable stays in its type, for all roots, clients, keys and bounds.
THEOREM TypeCorrect == Spec => []TypeOK
<1>1. Init => TypeOK
  BY TypeInit
<1>2. TypeOK /\ [Next]_vars => TypeOK'
  BY TypeNext
<1> QED BY <1>1, <1>2, PTL DEF Spec

-------------------------------------------------------------------------------
(* The request rows *)

\* A row, once recorded, keeps its number and payload, and its uid once bound.
RowsKeep ==
    \A d \in Databases, k \in Keys : requests[d][k] # NoEntry =>
        /\ requests'[d][k] # NoEntry
        /\ requests'[d][k].number = requests[d][k].number
        /\ requests'[d][k].payload = requests[d][k].payload
        /\ requests[d][k].uid # Unbound => requests'[d][k].uid = requests[d][k].uid

\* The steps that touch what the row invariants talk about.
LEMMA RowsTouched ==
  ASSUME Next
  PROVE  \/ UNCHANGED <<seq, requests, minted>>
         \/ \E c \in Clients : \/ EnsureSequenceAtLeast(c) \/ ReserveNextNumber(c)
                               \/ BindRequestUid(c) \/ OpenItemFile(c)
<1> DEFINE Still == UNCHANGED <<seq, requests, minted>>
<1>1. ASSUME NEW c \in Clients, NEW k \in Keys \cup {NoKey}, NEW p \in Payloads, Begin(c, k, p)
      PROVE Still
  BY <1>1 DEF Begin, database, history
<1>2. ASSUME NEW c \in Clients, NEW r \in Roots,
             FindCreatedRequest(c, r) \/ CheckCollision(c, r)
      PROVE Still
  BY <1>2 DEF FindCreatedRequest, CheckCollision, Refuse, database, history
<1>3. ASSUME NEW c \in Clients,
             \/ AcquireLock(c) \/ LockTimeout(c) \/ Authorize(c) \/ SeedSequence(c)
             \/ ReuseReservation(c) \/ ResolveReservation(c) \/ DecideCollision(c)
      PROVE Still
  BY <1>3 DEF AcquireLock, LockTimeout, Refuse, Authorize, Authority, SeedSequence, ReuseReservation, IsCommitted,
     ResolveReservation, DecideCollision, database, history
<1>4. ASSUME NEW c \in Clients,
             \/ FillItemFile(c) \/ CommitReservation(c) \/ WriteDuplicateAdmissionReceipt(c)
             \/ Finish(c) \/ Crash(c)
      PROVE Still
  BY <1>4 DEF FillItemFile, CommitReservation, WriteDuplicateAdmissionReceipt, Finish,
     Crash, database, history
<1>5. ASSUME NEW c \in Clients, NEW i \in scan[c].found, Replay(c, i)
      PROVE Still
  BY <1>5 DEF Replay, database
<1>6. ASSUME Others PROVE Still
  BY <1>6 DEF Others, Merge, Arrive, Trash, Remap, DiscardTorn, database, history
<1> QED
  BY <1>1, <1>2, <1>3, <1>4, <1>5, <1>6 DEF Next, ClientStep

\* Every step keeps the request rows inductive: numbers below the sequence,
\* no number or uid shared by two keys, and what is bound stays bound.
LEMMA RowsStep ==
  ASSUME TypeOK, RowsInv, ClientInv, Next
  PROVE  RowsInv' /\ RowsKeep
<1> USE RootOfAssumption, DbType DEF TypeOK
<1>1. CASE UNCHANGED <<seq, requests, minted>>
  BY <1>1 DEF RowsInv, RowsKeep
<1>2. ASSUME NEW c \in Clients, EnsureSequenceAtLeast(c)
      PROVE RowsInv' /\ RowsKeep
  <2>1. \A d \in Databases : seq'[d] \in Int /\ seq[d] \in Int /\ seq[d] <= seq'[d]
    BY <1>2 DEF EnsureSequenceAtLeast, DatabaseType, ClientsType, Slot, MaxOf, NoRow
  <2>2. UNCHANGED <<requests, minted>>
    BY <1>2 DEF EnsureSequenceAtLeast, history
  <2> QED BY <2>1, <2>2 DEF RowsInv, RowsKeep, DatabaseType, Row
<1>3. ASSUME NEW c \in Clients, ReserveNextNumber(c)
      PROVE RowsInv' /\ RowsKeep
  <2> DEFINE d == MyDb(c)
             n == Advance(seq[d])
  <2>1. d \in Databases /\ n \in Nat /\ n > 0 /\ seq[d] < n /\ seq[d] \in Int
    BY DEF MyDb, DatabaseType, Advance, NoRow
  <2>2. seq' = [seq EXCEPT ![d] = n] /\ minted' = minted
    BY <1>3 DEF ReserveNextNumber, NeedsNumber, history
  <2>3. CASE ~Keyed(c)
    <3>1. requests' = requests
      BY <1>3, <2>3 DEF ReserveNextNumber, NeedsNumber
    <3>2. \A x \in Databases : seq'[x] \in Int /\ seq[x] \in Int /\ seq[x] <= seq'[x]
      BY <2>1, <2>2 DEF DatabaseType, NoRow
    <3> QED BY <2>2, <3>1, <3>2 DEF RowsInv, RowsKeep, DatabaseType, Row
  <2>4. CASE Keyed(c)
    <3> DEFINE k == call[c].key
               row == [number |-> n, payload |-> call[c].payload, uid |-> Unbound]
    <3>1. k \in Keys /\ call[c].payload \in Payloads
      BY <1>3, <2>4 DEF ReserveNextNumber, NeedsNumber, ClientsType, Call, Keyed, ClientInv, ClientOK
    <3>2. requests' = [requests EXCEPT ![d][k] = row]
      BY <1>3, <2>4 DEF ReserveNextNumber, NeedsNumber
    <3>3. requests[d][k] = NoEntry
      BY <1>3, <2>4 DEF ReserveNextNumber, NeedsNumber, MyRow
    <3>4. row # NoEntry /\ row.uid = Unbound /\ row.number = n /\ row.payload \in Payloads
      BY <2>1, <3>1 DEF NoEntry
    <3> HIDE DEF d, n, k, row
    <3>5. \A x \in Databases, y \in Keys :
             requests'[x][y] = IF x = d /\ y = k THEN row ELSE requests[x][y]
      BY <2>1, <3>1, <3>2 DEF DatabaseType
    <3>6. \A x \in Databases : seq'[x] = IF x = d THEN n ELSE seq[x]
      BY <2>1, <2>2 DEF DatabaseType
    <3>7. \A x \in Databases, y \in Keys :
             /\ requests[x][y].number \in Nat /\ requests[x][y].uid \in Nat /\ seq[x] \in Int
      BY DEF DatabaseType, Row, NoRow
    <3>8. RowsKeep
      BY <3>3, <3>5 DEF RowsKeep
    <3>9. RowsInv'
      BY <2>1, <2>2, <3>3, <3>4, <3>5, <3>6, <3>7 DEF RowsInv, HistoryType
    <3> QED BY <3>8, <3>9
  <2> QED BY <2>3, <2>4
<1>4. ASSUME NEW c \in Clients, BindRequestUid(c)
      PROVE RowsInv' /\ RowsKeep
  <2> DEFINE d == MyDb(c)
             k == call[c].key
             uid == IF MyRow(c).uid # Unbound THEN MyRow(c).uid ELSE minted + 1
  <2>1. d \in Databases /\ k \in Keys /\ MyRow(c) \in Row
    BY <1>4, RowType DEF BindRequestUid, BoundUid, MyDb, ClientsType, Call, Keyed
  <2>2. MyRow(c) = requests[d][k] /\ MyRow(c) # NoEntry
    BY <1>4 DEF BindRequestUid, BoundUid, MyRow, ClientInv, ClientOK, HasNumber
  <2>3. /\ requests' = [requests EXCEPT ![d][k].uid = uid]
        /\ minted' = MaxOf(minted, uid)
        /\ seq' = seq
    BY <1>4 DEF BindRequestUid, BoundUid
  <2>4. /\ uid \in Nat /\ uid # Unbound /\ uid <= minted' /\ minted <= minted' /\ minted' \in Nat
        /\ requests[d][k].uid # Unbound => uid = requests[d][k].uid
        /\ requests[d][k].uid = Unbound => uid > minted
    BY <2>1, <2>2, <2>3 DEF MaxOf, HistoryType, Row, Unbound
  <2> HIDE DEF d, k, uid
  <2>5. \A x \in Databases, y \in Keys :
           IF x = d /\ y = k
           THEN /\ requests'[x][y].number = requests[x][y].number
                /\ requests'[x][y].payload = requests[x][y].payload
                /\ requests'[x][y].uid = uid
           ELSE requests'[x][y] = requests[x][y]
    BY <2>1, <2>3 DEF DatabaseType, Row
  <2>6. \A x \in Databases, y \in Keys :
           /\ requests[x][y].number \in Nat /\ requests[x][y].uid \in Nat /\ seq[x] \in Int
    BY DEF DatabaseType, Row, NoRow
  <2>7. requests'[d][k] # NoEntry
    BY <2>1, <2>4, <2>5 DEF NoEntry
  <2>8. RowsKeep
    BY <2>4, <2>5, <2>7 DEF RowsKeep
  <2>9. RowsInv'
    BY <2>1, <2>2, <2>3, <2>4, <2>5, <2>6, <2>7 DEF RowsInv, HistoryType
  <2> QED BY <2>8, <2>9
<1>5. ASSUME NEW c \in Clients, OpenItemFile(c)
      PROVE RowsInv' /\ RowsKeep
  <2>1. seq' = seq /\ requests' = requests /\ minted' \in Nat /\ minted <= minted'
    BY <1>5 DEF OpenItemFile, database, HistoryType
  <2> QED BY <2>1 DEF RowsInv, RowsKeep, HistoryType, DatabaseType, Row
<1> QED BY <1>1, <1>2, <1>3, <1>4, <1>5, RowsTouched

-------------------------------------------------------------------------------
(* Clients agree with their rows *)

\* What ClientOK says of a client survives as long as its own state does.
LEMMA ClientStable ==
  ASSUME TypeOK, RowsKeep, NEW e \in Clients, ClientOK(e),
         pc'[e] = pc[e], call'[e] = call[e], slot'[e] = slot[e], scan'[e] = scan[e]
  PROVE  ClientOK(e)'
<1>1. MyDb(e)' = MyDb(e) /\ MyDb(e) \in Databases /\ call[e] \in Call
  BY RootOfAssumption, DbType DEF MyDb, TypeOK, ClientsType
<1>2. CASE ~Keyed(e)
  BY <1>2 DEF ClientOK, Keyed, KeyedOnly
<1>3. CASE Keyed(e)
  <2>1. Keyed(e)' /\ call[e].key \in Keys
    BY <1>1, <1>3 DEF Keyed, Call
  <2>2. MyRow(e) # NoEntry =>
          /\ MyRow(e)' # NoEntry
          /\ MyRow(e)'.number = MyRow(e).number
          /\ MyRow(e)'.payload = MyRow(e).payload
          /\ MyRow(e).uid # Unbound => MyRow(e)'.uid = MyRow(e).uid
    BY <1>1, <2>1 DEF RowsKeep, MyRow
  <2> QED BY <1>3, <2>1, <2>2 DEF ClientOK, HasNumber, HasUid
<1> QED BY <1>2, <1>3

\* A client that is idle agrees with any rows.
LEMMA LeaveOK ==
  ASSUME TypeOK, NEW c \in Clients, Leave(c)
  PROVE  /\ ClientOK(c)'
         /\ \A e \in Clients \ {c} : /\ pc'[e] = pc[e] /\ call'[e] = call[e]
                                     /\ slot'[e] = slot[e] /\ scan'[e] = scan[e]
<1>1. pc'[c] = "idle"
  BY DEF TypeOK, ClientsType, Leave, Goto
<1> QED BY <1>1 DEF TypeOK, ClientsType, Leave, Goto, ClientOK, KeyedOnly, HasNumber, HasUid

\* A step of c leaves the other clients where they are.
Apart(c) == \A e \in Clients \ {c} : /\ pc'[e] = pc[e] /\ call'[e] = call[e]
                                     /\ slot'[e] = slot[e] /\ scan'[e] = scan[e]

\* If one client moves and agrees with the rows afterwards, all clients do.
LEMMA Combine ==
  ASSUME TypeOK, RowsKeep, ClientInv, NEW c \in Clients, ClientOK(c)', Apart(c)
  PROVE  ClientInv'
<1>1. \A e \in Clients \ {c} : ClientOK(e)'
  BY ClientStable DEF ClientInv, Apart
<1> QED BY <1>1 DEF ClientInv

\* Every step leaves every client in agreement with its request row.
LEMMA ClientsStep ==
  ASSUME TypeOK, RowsInv, ClientInv, RowsKeep, Next
  PROVE  ClientInv'
<1> USE RootOfAssumption, DbType
<1>1. ASSUME NEW c \in Clients, Leave(c) PROVE ClientInv'
  BY <1>1, LeaveOK, Combine DEF Apart
<1>2. ASSUME UNCHANGED clients PROVE ClientInv'
  BY <1>2, ClientStable DEF ClientInv, clients
<1>3. ASSUME NEW c \in Clients, NEW k \in Keys \cup {NoKey}, NEW p \in Payloads, Begin(c, k, p)
      PROVE ClientInv'
  <2>1. /\ pc'[c] = IF k = NoKey THEN "seed" ELSE "lock"
        /\ call'[c] = [key |-> k, payload |-> p]
    BY <1>3 DEF Begin, Goto, TypeOK, ClientsType
  <2>2. Apart(c)
    BY <1>3 DEF Begin, Goto, TypeOK, ClientsType, Apart
  <2>3. ClientOK(c)'
    BY <2>1 DEF ClientOK, KeyedOnly, HasNumber, HasUid, Keyed
  <2> QED BY <2>2, <2>3, Combine
<1>4. ASSUME NEW c \in Clients, AcquireLock(c) PROVE ClientInv'
  <2>1. pc'[c] = "scan" /\ call'[c] = call[c] /\ Keyed(c) /\ call[c].payload \in Payloads
    BY <1>4 DEF AcquireLock, Visit, Goto, TypeOK, ClientsType, ClientInv, ClientOK, KeyedOnly
  <2>2. Apart(c)
    BY <1>4 DEF AcquireLock, Visit, Goto, TypeOK, ClientsType, Apart
  <2>3. ClientOK(c)'
    BY <2>1 DEF ClientOK, KeyedOnly, HasNumber, HasUid, Keyed
  <2> QED BY <2>2, <2>3, Combine
<1>5. ASSUME NEW c \in Clients, LockTimeout(c) PROVE ClientInv'
  BY <1>1, <1>5 DEF LockTimeout, Refuse
<1>6. ASSUME NEW c \in Clients, NEW r \in Roots, FindCreatedRequest(c, r) PROVE ClientInv'
  <2>1. CASE MarkerConflict(c, r)
    BY <1>1, <1>6, <2>1 DEF FindCreatedRequest, Refuse
  <2>2. CASE ~MarkerConflict(c, r)
    <3>1. UNCHANGED <<requests, pc, call, slot>>
      BY <1>6, <2>2 DEF FindCreatedRequest, database
    <3>2. /\ scan'[c].found = IF Markers(c, r) # {} /\ (scan[c].found = {} \/ r = RootOf[c])
                              THEN Markers(c, r) ELSE scan[c].found
          /\ \A e \in Clients \ {c} : scan'[e] = scan[e]
      BY <1>6, <2>2 DEF FindCreatedRequest, TypeOK, ClientsType, Scan
    <3>3. pc[c] = "rescan" => \A i \in Markers(c, r) :
             /\ i.number = slot[c].number
             /\ slot[c].uid # Unbound => i.uid = slot[c].uid
      BY <2>2 DEF MarkerConflict
    <3>4. pc[c] = "rescan" => \A i \in scan'[c].found :
             /\ i.number = slot[c].number
             /\ slot[c].uid # Unbound => i.uid = slot[c].uid
      BY <3>2, <3>3 DEF ClientInv, ClientOK
    <3>5. pc[c] \in {"scan", "rescan"}
      BY <1>6 DEF FindCreatedRequest
    <3>6. ClientOK(c)'
      BY <3>1, <3>4, <3>5 DEF ClientInv, ClientOK, Keyed, MyRow, MyDb
    <3> QED BY <3>1, <3>2, <3>6, Combine DEF Apart
  <2> QED BY <2>1, <2>2
<1>7. ASSUME NEW c \in Clients, Authorize(c) PROVE ClientInv'
  <2>1. CASE Leave(c)
    BY <1>1, <2>1
  <2>2. CASE Goto(c, "seed") /\ UNCHANGED <<lock, call, slot, scan>>
    <3>1. pc'[c] = "seed" /\ Apart(c)
      BY <2>2 DEF Goto, TypeOK, ClientsType, Apart
    <3>2. ClientOK(c)'
      BY <1>7, <2>2, <3>1 DEF Authorize, Authority, ClientInv, ClientOK, KeyedOnly, HasNumber, HasUid, Keyed
    <3> QED BY <3>1, <3>2, Combine
  <2>3. CASE /\ Goto(c, "replay") /\ UNCHANGED <<lock, call, slot, scan>>
             /\ MyRow(c) # NoEntry
             /\ MyRow(c).payload = call[c].payload
             /\ MyRow(c).uid # Unbound
             /\ \A i \in scan[c].found : i.number = MyRow(c).number /\ i.uid = MyRow(c).uid
    <3>1. pc'[c] = "replay" /\ Apart(c)
      BY <2>3 DEF Goto, TypeOK, ClientsType, Apart
    <3>2. requests' = requests /\ Keyed(c)
      BY <1>7 DEF Authorize, Authority, database, ClientInv, ClientOK, KeyedOnly
    <3>3. ClientOK(c)'
      BY <1>7, <2>3, <3>1, <3>2 DEF Authorize, Authority, ClientInv, ClientOK, KeyedOnly, HasNumber,
         HasUid, Keyed, MyRow, MyDb
    <3> QED BY <3>1, <3>3, Combine
  <2> QED BY <1>7, <2>1, <2>2, <2>3 DEF Authorize, Authority
<1>8. ASSUME NEW c \in Clients, SeedSequence(c) \/ EnsureSequenceAtLeast(c) PROVE ClientInv'
  <2>1. /\ pc[c] \in {"seed", "ensure"} /\ pc'[c] \in {"ensure", "reserve"}
        /\ call' = call /\ Apart(c)
    BY <1>8 DEF SeedSequence, EnsureSequenceAtLeast, Goto, TypeOK, ClientsType, Apart
  <2>2. ClientOK(c)'
    BY <2>1 DEF ClientInv, ClientOK, KeyedOnly, HasNumber, HasUid, Keyed
  <2> QED BY <2>1, <2>2, Combine
<1>9. ASSUME NEW c \in Clients, ReuseReservation(c) PROVE ClientInv'
  <2>1. CASE MyRow(c).payload # call[c].payload
    BY <1>1, <1>9, <2>1 DEF ReuseReservation, IsCommitted
  <2>2. CASE MyRow(c).payload = call[c].payload
    <3>1. /\ pc'[c] = "rescan" /\ scan'[c].found = {} /\ call' = call /\ requests' = requests
          /\ Apart(c)
      BY <1>9, <2>2 DEF ReuseReservation, IsCommitted, Visit, Goto, TypeOK, ClientsType, Apart, NoScan,
         database
    <3>2. slot[c] \in Slot /\ slot'[c].number = MyRow(c).number /\ slot'[c].uid = MyRow(c).uid
      BY <1>9, <2>2 DEF ReuseReservation, IsCommitted, TypeOK, ClientsType, Slot
    <3>3. ClientOK(c)'
      BY <1>9, <2>2, <3>1, <3>2 DEF ReuseReservation, IsCommitted, ClientInv, ClientOK, KeyedOnly,
         HasNumber, HasUid, Keyed, MyRow, MyDb
    <3> QED BY <3>1, <3>3, Combine
  <2> QED BY <2>1, <2>2
<1>10. ASSUME NEW c \in Clients, ReserveNextNumber(c) PROVE ClientInv'
  <2>1. pc'[c] = "collide" /\ call' = call /\ Apart(c)
    BY <1>10 DEF ReserveNextNumber, NeedsNumber, Visit, Goto, TypeOK, ClientsType, Apart
  <2>2. slot'[c].number = Advance(seq[MyDb(c)]) /\ call[c].payload \in Payloads
    BY <1>10 DEF ReserveNextNumber, NeedsNumber, TypeOK, ClientsType, Slot, ClientInv, ClientOK
  <2>3. Keyed(c) => MyRow(c)' = [number |-> Advance(seq[MyDb(c)]),
                                 payload |-> call[c].payload, uid |-> Unbound]
    BY <1>10, <2>1 DEF ReserveNextNumber, NeedsNumber, TypeOK, ClientsType, DatabaseType, Call, Keyed,
       MyRow, MyDb
  <2>4. ClientOK(c)'
    BY <2>1, <2>2, <2>3, NamesAreDistinct DEF ClientOK, KeyedOnly, HasNumber, HasUid, Keyed,
       NoEntry
  <2> QED BY <2>1, <2>4, Combine
<1>11. ASSUME NEW c \in Clients, ResolveReservation(c) PROVE ClientInv'
  <2>1. CASE Leave(c)
    BY <1>1, <2>1
  <2>2. CASE /\ Goto(c, "replay") /\ UNCHANGED <<lock, call, slot, scan>>
             /\ slot[c].uid # Unbound
    <3>1. pc'[c] = "replay" /\ pc[c] = "rescan" /\ requests' = requests /\ Apart(c)
      BY <1>11, <2>2 DEF ResolveReservation, Goto, TypeOK, ClientsType, Apart, database
    <3>2. ClientOK(c)'
      BY <2>2, <3>1 DEF ClientInv, ClientOK, KeyedOnly, HasNumber, HasUid, Keyed, MyRow, MyDb
    <3> QED BY <3>1, <3>2, Combine
  <2>3. CASE Visit(c, "collide") /\ UNCHANGED <<lock, call, slot>>
    <3>1. pc'[c] = "collide" /\ pc[c] = "rescan" /\ requests' = requests /\ Apart(c)
      BY <1>11, <2>3 DEF ResolveReservation, Visit, Goto, TypeOK, ClientsType, Apart, database
    <3>2. ClientOK(c)'
      BY <2>3, <3>1 DEF ClientInv, ClientOK, KeyedOnly, HasNumber, HasUid, Keyed, MyRow, MyDb
    <3> QED BY <3>1, <3>2, Combine
  <2> QED BY <1>11, <2>1, <2>2, <2>3 DEF ResolveReservation
<1>12. ASSUME NEW c \in Clients, NEW r \in Roots, CheckCollision(c, r) PROVE ClientInv'
  <2>1. UNCHANGED <<requests, pc, call, slot>> /\ pc[c] = "collide" /\ Apart(c)
    BY <1>12 DEF CheckCollision, TypeOK, ClientsType, Apart, database
  <2>2. ClientOK(c)'
    BY <2>1 DEF ClientInv, ClientOK, Keyed, MyRow, MyDb
  <2> QED BY <2>1, <2>2, Combine
<1>13. ASSUME NEW c \in Clients, DecideCollision(c) PROVE ClientInv'
  <2>1. CASE Leave(c)
    BY <1>1, <2>1
  <2>2. CASE /\ Goto(c, IF Keyed(c) THEN "bind" ELSE "open")
             /\ UNCHANGED <<lock, call, slot, scan>>
    <3>1. /\ pc'[c] = IF Keyed(c) THEN "bind" ELSE "open"
          /\ pc[c] = "collide" /\ requests' = requests /\ Apart(c)
      BY <1>13, <2>2 DEF DecideCollision, Goto, TypeOK, ClientsType, Apart, database
    <3>2. ClientOK(c)'
      BY <2>2, <3>1 DEF ClientInv, ClientOK, KeyedOnly, HasNumber, HasUid, Keyed, MyRow, MyDb
    <3> QED BY <3>1, <3>2, Combine
  <2>3. CASE /\ ~Keyed(c)
             /\ Goto(c, "ensure")
             /\ slot' = [slot EXCEPT ![c].attempt = 1,
                                     ![c].floor = MaxNumberIn({RootOf[c]})]
             /\ UNCHANGED <<lock, call, scan>>
    <3>1. pc'[c] = "ensure" /\ pc[c] = "collide" /\ Apart(c)
      BY <1>13, <2>3 DEF DecideCollision, Goto, TypeOK, ClientsType, Apart
    <3>2. ClientOK(c)'
      BY <2>3, <3>1 DEF ClientInv, ClientOK, KeyedOnly, HasNumber, HasUid, Keyed
    <3> QED BY <3>1, <3>2, Combine
  <2> QED BY <1>13, <2>1, <2>2, <2>3 DEF DecideCollision
<1>14. ASSUME NEW c \in Clients, BindRequestUid(c) PROVE ClientInv'
  <2> DEFINE uid == IF MyRow(c).uid # Unbound THEN MyRow(c).uid ELSE minted + 1
  <2>1. /\ pc[c] = "bind" /\ pc'[c] = "open" /\ call' = call /\ scan' = scan /\ Apart(c)
        /\ slot'[c].number = slot[c].number /\ slot'[c].uid = uid
    BY <1>14 DEF BindRequestUid, BoundUid, Goto, TypeOK, ClientsType, Slot, Apart
  <2>2. MyDb(c) \in Databases /\ call[c].key \in Keys /\ MyRow(c) \in Row
    BY <1>14, RowType DEF BindRequestUid, BoundUid, MyDb, TypeOK, ClientsType, Call, Keyed
  <2>3. uid \in Nat /\ uid # Unbound
    BY <2>2 DEF Row, TypeOK, HistoryType, Unbound
  <2>4. requests' = [requests EXCEPT ![MyDb(c)][call[c].key].uid = uid]
    BY <1>14 DEF BindRequestUid, BoundUid
  <2> HIDE DEF uid
  <2>5. /\ requests'[MyDb(c)][call[c].key].uid = uid
        /\ requests'[MyDb(c)][call[c].key].number = requests[MyDb(c)][call[c].key].number
        /\ requests'[MyDb(c)][call[c].key].payload = requests[MyDb(c)][call[c].key].payload
    BY <2>2, <2>4 DEF TypeOK, DatabaseType, Row
  <2>6. /\ MyRow(c)' # NoEntry /\ MyRow(c)'.uid = uid
        /\ MyRow(c)'.number = MyRow(c).number
        /\ MyRow(c)'.payload = MyRow(c).payload
    BY <2>1, <2>3, <2>5 DEF MyRow, MyDb, NoEntry
  <2>7. /\ Keyed(c) /\ call[c].payload \in Payloads
        /\ slot[c].number = MyRow(c).number
        /\ MyRow(c).payload = call[c].payload
    BY <2>1 DEF ClientInv, ClientOK, KeyedOnly, HasNumber
  <2>8. /\ pc'[c] \notin KeyedOnly /\ pc'[c] \notin {"idle", "rescan", "replay"}
    BY <2>1 DEF KeyedOnly
  <2>9. ClientOK(c)'
    BY <2>1, <2>3, <2>6, <2>7, <2>8 DEF ClientOK
  <2> QED BY <2>1, <2>9, Combine
<1>15. ASSUME NEW c \in Clients, OpenItemFile(c) PROVE ClientInv'
  <2>1. /\ pc[c] = "open" /\ pc'[c] = "fill" /\ call' = call /\ scan' = scan /\ Apart(c)
        /\ requests' = requests /\ (Keyed(c) => slot' = slot)
    BY <1>15 DEF OpenItemFile, Goto, TypeOK, ClientsType, Apart, database
  <2>2. ClientOK(c)'
    BY <2>1 DEF ClientInv, ClientOK, KeyedOnly, HasNumber, HasUid, Keyed, MyRow, MyDb
  <2> QED BY <2>1, <2>2, Combine
<1>16. ASSUME NEW c \in Clients,
              FillItemFile(c) \/ CommitReservation(c) \/ WriteDuplicateAdmissionReceipt(c)
       PROVE ClientInv'
  <2>1. /\ pc[c] \in {"fill", "commit", "receipt"} /\ pc'[c] \in {"commit", "receipt", "finish"}
        /\ UNCHANGED <<call, slot, scan, requests>> /\ Apart(c)
    BY <1>16 DEF FillItemFile, CommitReservation, WriteDuplicateAdmissionReceipt, Goto, TypeOK,
       ClientsType, Apart, database
  <2>2. ClientOK(c)'
    BY <2>1 DEF ClientInv, ClientOK, KeyedOnly, HasNumber, HasUid, Keyed, MyRow, MyDb
  <2> QED BY <2>1, <2>2, Combine
<1>17. ASSUME NEW c \in Clients, Finish(c) \/ Crash(c) PROVE ClientInv'
  BY <1>1, <1>17 DEF Finish, Crash
<1>18. ASSUME NEW c \in Clients, NEW i \in scan[c].found, Replay(c, i) PROVE ClientInv'
  BY <1>1, <1>18 DEF Replay
<1>19. ASSUME Others PROVE ClientInv'
  BY <1>2, <1>19 DEF Others, Merge, Arrive, Trash, Remap, DiscardTorn
<1> QED
  BY <1>3, <1>4, <1>5, <1>6, <1>7, <1>8, <1>9, <1>10, <1>11, <1>12, <1>13, <1>14, <1>15,
     <1>16, <1>17, <1>18, <1>19 DEF Next, ClientStep

-------------------------------------------------------------------------------
(* Items and answers *)

\* Few steps change the canonical items.
LEMMA ItemsTouched ==
  ASSUME Next
  PROVE  \/ items' \subseteq items
         \/ \E c \in Clients : FillItemFile(c)
         \/ \E i \in items, r \in Roots : Merge(i, r)
         \/ \E r \in Roots, n \in 1..MaxNumber, k \in Keys \cup {NoKey}, p \in Payloads :
               Arrive(r, n, k, p)
         \/ \E i \in items, n \in 1..MaxNumber : Remap(i, n)
<1>1. ASSUME NEW c \in Clients, NEW k \in Keys \cup {NoKey}, NEW p \in Payloads, Begin(c, k, p)
      PROVE items' = items
  BY <1>1 DEF Begin, files
<1>2. ASSUME NEW c \in Clients, NEW r \in Roots, FindCreatedRequest(c, r) \/ CheckCollision(c, r)
      PROVE items' = items
  BY <1>2 DEF FindCreatedRequest, CheckCollision, Refuse, files
<1>3. ASSUME NEW c \in Clients, ClientStep(c), ~FillItemFile(c) PROVE items' = items
  BY <1>2, <1>3 DEF ClientStep, AcquireLock, LockTimeout, Refuse, Authorize, Authority, SeedSequence,
     EnsureSequenceAtLeast, ReuseReservation, IsCommitted, ReserveNextNumber, NeedsNumber, ResolveReservation,
     DecideCollision, BindRequestUid, BoundUid, OpenItemFile, CommitReservation,
     WriteDuplicateAdmissionReceipt, Finish, Replay, files
<1>4. ASSUME NEW c \in Clients, Crash(c) PROVE items' = items
  BY <1>4 DEF Crash, files
<1>5. ASSUME Others PROVE \/ items' \subseteq items
                          \/ \E i \in items, r \in Roots : Merge(i, r)
                          \/ \E r \in Roots, n \in 1..MaxNumber, k \in Keys \cup {NoKey},
                                p \in Payloads : Arrive(r, n, k, p)
                          \/ \E i \in items, n \in 1..MaxNumber : Remap(i, n)
  BY <1>5 DEF Others, Trash, DiscardTorn
<1> QED BY <1>1, <1>3, <1>4, <1>5 DEF Next

\* An item whose key is bound stays the item of its row: rows only grow.
LEMMA ItemKept ==
  ASSUME TypeOK, RowsInv, RowsKeep, NEW r \in Roots, NEW k \in Keys, NEW u \in Nat, NEW p,
         u > 0, requests[Db(r)][k].uid = u, requests[Db(r)][k].payload = p
  PROVE  requests'[Db(r)][k].uid = u /\ requests'[Db(r)][k].payload = p
<1>1. Db(r) \in Databases
  BY DbType
<1>2. requests[Db(r)][k] # NoEntry
  BY <1>1 DEF RowsInv, Unbound
<1> QED BY <1>1, <1>2 DEF RowsKeep, Unbound

\* Every step leaves every keyed item of this clone bound by its row.
LEMMA ItemsStep ==
  ASSUME TypeOK, RowsInv, RowsKeep, ClientInv, ItemsInv, Next
  PROVE  ItemsInv'
<1> USE RootOfAssumption, DbType
<1> DEFINE Bound(i) == i.key # NoKey /\ i.uid > 0 =>
             /\ requests'[Db(i.root)][i.key].uid = i.uid
             /\ requests'[Db(i.root)][i.key].payload = i.payload
<1>1. ASSUME NEW i \in items PROVE Bound(i)
  <2>1. i \in Item
    BY DEF TypeOK, FilesType
  <2>2. CASE i.key # NoKey /\ i.uid > 0
    <3>1. i.key \in Keys /\ i.uid \in Nat /\ i.root \in Roots
      BY <2>1, <2>2 DEF Item
    <3>2. requests[Db(i.root)][i.key].uid = i.uid
          /\ requests[Db(i.root)][i.key].payload = i.payload
      BY <2>2 DEF ItemsInv
    <3> QED BY <3>1, <3>2, <2>2, ItemKept
  <2> QED BY <2>2
<1>2. ASSUME \A i \in items' : Bound(i) PROVE ItemsInv'
  BY <1>2 DEF ItemsInv, Db
<1>3. CASE items' \subseteq items
  BY <1>1, <1>2, <1>3
<1>4. ASSUME NEW c \in Clients, FillItemFile(c) PROVE ItemsInv'
  <2> DEFINE new == [root |-> RootOf[c], number |-> slot[c].number, uid |-> slot[c].uid,
                     key |-> call[c].key, payload |-> call[c].payload]
  <2>1. items' = items \cup {new} /\ requests' = requests /\ pc[c] = "fill"
    BY <1>4 DEF FillItemFile, database
  <2>2. Keyed(c) => slot[c].uid = MyRow(c).uid /\ MyRow(c).payload = call[c].payload
    BY <2>1 DEF ClientInv, ClientOK, HasUid, HasNumber
  <2>3. Bound(new)
    BY <2>1, <2>2 DEF Keyed, MyRow, MyDb
  <2> HIDE DEF new
  <2> QED BY <1>1, <1>2, <2>1, <2>3
<1>5. ASSUME NEW j \in items, NEW r \in Roots, Merge(j, r) PROVE ItemsInv'
  <2> DEFINE new == [j EXCEPT !.root = r]
  <2>1. items' = items \cup {new} /\ Shared
    BY <1>5 DEF Merge
  <2>2. j \in Item /\ Db(r) = Db(j.root)
    BY <2>1 DEF TypeOK, FilesType, Db
  <2>3. new.root = r /\ new.key = j.key /\ new.uid = j.uid /\ new.payload = j.payload
    BY <2>2 DEF Item
  <2> HIDE DEF new
  <2>4. Bound(new)
    BY <1>1, <2>2, <2>3
  <2> QED BY <1>1, <1>2, <2>1, <2>4
<1>6. ASSUME NEW r \in Roots, NEW n \in 1..MaxNumber, NEW k \in Keys \cup {NoKey},
             NEW p \in Payloads, Arrive(r, n, k, p)
      PROVE ItemsInv'
  <2> DEFINE new == [root |-> r, number |-> n, uid |-> -(arrivals + 1), key |-> k,
                     payload |-> p]
  <2>1. items' = items \cup {new}
    BY <1>6 DEF Arrive
  <2>2. arrivals \in Nat
    BY DEF TypeOK, HistoryType
  <2>3. ~(new.uid > 0)
    BY <2>2
  <2> HIDE DEF new
  <2> QED BY <1>1, <1>2, <2>1, <2>3
<1>7. ASSUME NEW j \in items, NEW n \in 1..MaxNumber, Remap(j, n) PROVE ItemsInv'
  <2> DEFINE new == [j EXCEPT !.number = n]
  <2>1. items' = (items \ {j}) \cup {new}
    BY <1>7 DEF Remap
  <2>2. j \in Item
    BY DEF TypeOK, FilesType
  <2>3. new.root = j.root /\ new.key = j.key /\ new.uid = j.uid /\ new.payload = j.payload
    BY <2>2 DEF Item
  <2> HIDE DEF new
  <2>4. Bound(new)
    BY <1>1, <2>3
  <2> QED BY <1>1, <1>2, <2>1, <2>4
<1> QED BY <1>3, <1>4, <1>5, <1>6, <1>7, ItemsTouched

\* Only Finish and Replay answer.
LEMMA AnswersTouched ==
  ASSUME Next
  PROVE  \/ answers' = answers
         \/ \E c \in Clients : Finish(c) \/ \E i \in scan[c].found : Replay(c, i)
<1>1. ASSUME NEW c \in Clients, NEW k \in Keys \cup {NoKey}, NEW p \in Payloads, Begin(c, k, p)
      PROVE answers' = answers
  BY <1>1 DEF Begin, history
<1>2. ASSUME NEW c \in Clients, NEW r \in Roots, FindCreatedRequest(c, r) \/ CheckCollision(c, r)
      PROVE answers' = answers
  BY <1>2 DEF FindCreatedRequest, CheckCollision, Refuse, history
<1>3. ASSUME NEW c \in Clients, ClientStep(c), ~Finish(c),
             ~\E i \in scan[c].found : Replay(c, i)
      PROVE answers' = answers
  BY <1>2, <1>3 DEF ClientStep, AcquireLock, LockTimeout, Refuse, Authorize, Authority, SeedSequence,
     EnsureSequenceAtLeast, ReuseReservation, IsCommitted, ReserveNextNumber, NeedsNumber, ResolveReservation,
     DecideCollision, BindRequestUid, BoundUid, OpenItemFile, FillItemFile, CommitReservation,
     WriteDuplicateAdmissionReceipt, history
<1>4. ASSUME NEW c \in Clients, Crash(c) PROVE answers' = answers
  BY <1>4 DEF Crash
<1>5. ASSUME Others PROVE answers' = answers
  BY <1>5 DEF Others, Merge, Arrive, Trash, Remap, DiscardTorn, history
<1> QED BY <1>1, <1>3, <1>4, <1>5 DEF Next

\* A new answer is the row its client was working under.
LEMMA NewAnswer ==
  ASSUME TypeOK, ClientInv, Next, NEW a \in answers' \ answers
  PROVE  /\ a.db \in Databases /\ a.key \in Keys /\ a.uid # Unbound
         /\ requests' = requests
         /\ requests[a.db][a.key] =
              [number |-> a.number, payload |-> a.payload, uid |-> a.uid]
<1> USE RootOfAssumption, DbType
<1>1. ASSUME NEW c \in Clients, Keyed(c), NEW n, NEW u, Answer(c, n, u),
             requests' = requests,
             MyRow(c).number = n, MyRow(c).payload = call[c].payload,
             MyRow(c).uid = u, u # Unbound
      PROVE  /\ a.db \in Databases /\ a.key \in Keys /\ a.uid # Unbound
             /\ requests[a.db][a.key] =
                  [number |-> a.number, payload |-> a.payload, uid |-> a.uid]
  <2>1. a = [db |-> MyDb(c), key |-> call[c].key, payload |-> call[c].payload,
             number |-> n, uid |-> u]
    BY <1>1 DEF Answer
  <2>2. MyDb(c) \in Databases /\ call[c].key \in Keys
    BY <1>1 DEF MyDb, Keyed, TypeOK, ClientsType, Call
  <2>3. MyRow(c) \in Row
    BY <1>1, RowType
  <2>4. MyRow(c) = [number |-> n, payload |-> call[c].payload, uid |-> u]
    BY <1>1, <2>3 DEF Row
  <2> QED BY <1>1, <2>1, <2>2, <2>4 DEF MyRow
<1>2. ASSUME NEW c \in Clients, Finish(c)
      PROVE  /\ a.db \in Databases /\ a.key \in Keys /\ a.uid # Unbound
             /\ requests' = requests
             /\ requests[a.db][a.key] =
                  [number |-> a.number, payload |-> a.payload, uid |-> a.uid]
  <2>1. Answer(c, slot[c].number, slot[c].uid) /\ requests' = requests /\ pc[c] = "finish"
    BY <1>2 DEF Finish, database
  <2>2. Keyed(c)
    BY <2>1 DEF Answer
  <2>3. /\ MyRow(c).number = slot[c].number /\ MyRow(c).payload = call[c].payload
        /\ MyRow(c).uid = slot[c].uid /\ slot[c].uid # Unbound
    BY <2>1, <2>2 DEF ClientInv, ClientOK, HasUid, HasNumber
  <2> QED BY <1>1, <2>1, <2>2, <2>3
<1>3. ASSUME NEW c \in Clients, NEW i \in scan[c].found, Replay(c, i)
      PROVE  /\ a.db \in Databases /\ a.key \in Keys /\ a.uid # Unbound
             /\ requests' = requests
             /\ requests[a.db][a.key] =
                  [number |-> a.number, payload |-> a.payload, uid |-> a.uid]
  <2>1. Answer(c, i.number, i.uid) /\ requests' = requests /\ pc[c] = "replay"
    BY <1>3 DEF Replay, database
  <2>2. Keyed(c)
    BY <2>1 DEF Answer
  <2>3. /\ MyRow(c).number = i.number /\ MyRow(c).payload = call[c].payload
        /\ MyRow(c).uid = i.uid /\ i.uid # Unbound
    BY <2>1 DEF ClientInv, ClientOK
  <2> QED BY <1>1, <2>1, <2>2, <2>3
<1> QED BY <1>2, <1>3, AnswersTouched

\* Every step leaves every answer bound by its row.
LEMMA AnswersStep ==
  ASSUME TypeOK, RowsInv, RowsKeep, ClientInv, AnswersInv, Next, TypeOK'
  PROVE  AnswersInv'
<1>1. ASSUME NEW a \in answers
      PROVE  a.uid # Unbound /\ requests'[a.db][a.key] =
               [number |-> a.number, payload |-> a.payload, uid |-> a.uid]
  <2>1. a.db \in Databases /\ a.key \in Keys
    BY DEF TypeOK, HistoryType, AnswerRecord
  <2>2. a.uid # Unbound /\ requests[a.db][a.key] =
          [number |-> a.number, payload |-> a.payload, uid |-> a.uid]
    BY DEF AnswersInv
  <2>3. requests[a.db][a.key] # NoEntry
    BY <2>2 DEF NoEntry
  <2>4. /\ requests'[a.db][a.key].number = a.number
        /\ requests'[a.db][a.key].payload = a.payload
        /\ requests'[a.db][a.key].uid = a.uid
    BY <2>1, <2>2, <2>3 DEF RowsKeep
  <2>5. requests'[a.db][a.key] \in Row
    BY <2>1 DEF TypeOK, DatabaseType, Row
  <2> QED BY <2>2, <2>4, <2>5 DEF Row
<1> QED BY <1>1, NewAnswer DEF AnswersInv

-------------------------------------------------------------------------------
(* The theorems *)

\* The initial state satisfies the inductive invariant.
LEMMA IInvInit == Init => IInv
<1> SUFFICES ASSUME Init PROVE IInv
  OBVIOUS
<1>1. \A d \in Databases, k \in Keys : requests[d][k] = NoEntry
  BY DEF Init
<1>2. RowsInv
  BY <1>1 DEF RowsInv, NoEntry, Unbound
<1>3. ClientInv
  BY DEF Init, ClientInv, ClientOK, KeyedOnly, HasNumber, HasUid
<1>4. ItemsInv /\ AnswersInv
  BY DEF Init, ItemsInv, AnswersInv
<1> QED BY <1>2, <1>3, <1>4, TypeInit DEF IInv

\* Every step preserves the inductive invariant.
LEMMA IInvNext == IInv /\ [Next]_vars => IInv'
<1> SUFFICES ASSUME IInv, [Next]_vars PROVE IInv'
  OBVIOUS
<1>1. TypeOK'
  BY TypeNext DEF IInv
<1>2. CASE UNCHANGED vars
  <2>1. UNCHANGED <<items, requests, seq, minted, pc, call, slot, scan, answers>>
    BY <1>2 DEF vars, files, database, clients, history
  <2>2. RowsInv' /\ ItemsInv' /\ AnswersInv'
    BY <2>1 DEF IInv, RowsInv, ItemsInv, AnswersInv, Db
  <2>3. ClientInv'
    BY <2>1 DEF IInv, ClientInv, ClientOK, Keyed, MyRow, MyDb, Db
  <2> QED BY <1>1, <2>2, <2>3 DEF IInv
<1>3. CASE Next
  <2>1. RowsInv' /\ RowsKeep
    BY <1>3, RowsStep DEF IInv
  <2>2. ClientInv' /\ ItemsInv' /\ AnswersInv'
    BY <1>1, <1>3, <2>1, ClientsStep, ItemsStep, AnswersStep DEF IInv
  <2> QED BY <1>1, <2>1, <2>2 DEF IInv
<1> QED BY <1>2, <1>3

\* The inductive invariant holds in every reachable state, whatever the number
\* of checkouts, creators, keys, crashes and interfering commands.
THEOREM Inductive == Spec => []IInv
  BY IInvInit, IInvNext, PTL DEF Spec

\* All the answers create_item ever gives for an idempotency key are one answer.
THEOREM RetriesAlwaysAgree == Spec => []RetriesAgree
<1>1. IInv => RetriesAgree
  <2> SUFFICES ASSUME IInv, NEW a \in answers, NEW b \in answers, a.db = b.db, a.key = b.key
               PROVE a = b
    BY DEF RetriesAgree
  <2>1. a \in AnswerRecord /\ b \in AnswerRecord
    BY DEF IInv, TypeOK, HistoryType
  <2>2. /\ requests[a.db][a.key] =
             [number |-> a.number, payload |-> a.payload, uid |-> a.uid]
        /\ requests[a.db][a.key] =
             [number |-> b.number, payload |-> b.payload, uid |-> b.uid]
    BY DEF IInv, AnswersInv
  <2>3. a.number = b.number /\ a.payload = b.payload /\ a.uid = b.uid
    BY <2>2
  <2> QED BY <2>1, <2>3 DEF AnswerRecord
<1> QED BY <1>1, Inductive, PTL

\* Among the items this clone created, one key names one item: a retry can never
\* leave a second one behind, in the same worktree or in another.
THEOREM OneItemPerKeyAlways == Spec => []OneItemPerKey
<1>1. IInv => OneItemPerKey
  BY DEF IInv, ItemsInv, OneItemPerKey
<1> QED BY <1>1, Inductive, PTL

-------------------------------------------------------------------------------
(* Refinement of CreateOnce *)

\* The map of bound identities, as CreateOnce sees it.
Bindings == [d \in Databases |-> [k \in Keys |-> Identity(d, k)]]

\* Only two kinds of step change the abstract state.
LEMMA AbstractTouched ==
  ASSUME Next
  PROVE  \/ UNCHANGED <<requests, answers>>
         \/ \E c \in Clients : ReserveNextNumber(c) \/ BindRequestUid(c)
         \/ \E c \in Clients : Finish(c) \/ \E i \in scan[c].found : Replay(c, i)
<1>1. ASSUME NEW c \in Clients, EnsureSequenceAtLeast(c) \/ OpenItemFile(c)
      PROVE  requests' = requests
  BY <1>1 DEF EnsureSequenceAtLeast, OpenItemFile, database
<1> QED BY <1>1, RowsTouched, AnswersTouched

\* A reservation alone decides nothing: its row is not bound yet.
LEMMA ReserveStutters ==
  ASSUME IInv, NEW c \in Clients, ReserveNextNumber(c)
  PROVE  Bindings' = Bindings /\ answers' = answers
<1>1. CASE ~Keyed(c)
  BY <1>1 DEF ReserveNextNumber, NeedsNumber, Bindings, Identity, history
<1>2. CASE Keyed(c)
  <2> DEFINE new == [number |-> Advance(seq[MyDb(c)]), payload |-> call[c].payload,
                     uid |-> Unbound]
  <2>1. requests' = [requests EXCEPT ![MyDb(c)][call[c].key] = new]
    BY <1>2 DEF ReserveNextNumber, NeedsNumber
  <2>2. MyRow(c) = NoEntry /\ answers' = answers
    BY <1>2 DEF ReserveNextNumber, NeedsNumber, history
  <2>3. MyDb(c) \in Databases /\ call[c].key \in Keys
    BY <1>2, RootOfAssumption, DbType DEF MyDb, Keyed, IInv, TypeOK, ClientsType, Call
  <2>4. new.uid = Unbound
    OBVIOUS
  <2> HIDE DEF new
  <2>5. /\ requests'[MyDb(c)][call[c].key] = new
        /\ \A d \in Databases, k \in Keys :
             d # MyDb(c) \/ k # call[c].key => requests'[d][k] = requests[d][k]
    BY <2>1, <2>3 DEF IInv, TypeOK, DatabaseType
  <2>6. requests[MyDb(c)][call[c].key].uid = Unbound
    BY <2>2 DEF MyRow, NoEntry
  <2>7. \A d \in Databases, k \in Keys : Identity(d, k)' = Identity(d, k)
    BY <2>4, <2>5, <2>6 DEF Identity
  <2> QED BY <2>2, <2>7 DEF Bindings
<1> QED BY <1>1, <1>2

\* Binding a uid decides the identity, once, and fresh.
LEMMA BindDecides ==
  ASSUME IInv, IInv', NEW c \in Clients, BindRequestUid(c)
  PROVE  \/ Bindings' = Bindings /\ answers' = answers
         \/ Once!Decide(MyDb(c), call[c].key)
<1> DEFINE uid == IF MyRow(c).uid # Unbound THEN MyRow(c).uid ELSE minted + 1
           d == MyDb(c)
           k == call[c].key
<1>1. /\ requests' = [requests EXCEPT ![MyDb(c)][call[c].key].uid = uid]
      /\ answers' = answers
  BY DEF BindRequestUid, BoundUid
<1>2. d \in Databases /\ k \in Keys /\ MyRow(c) \in Row
  BY RootOfAssumption, DbType, RowType
     DEF MyDb, Keyed, IInv, TypeOK, ClientsType, Call, BindRequestUid, BoundUid
<1>3. uid # Unbound
  BY <1>2 DEF Row, IInv, TypeOK, HistoryType, Unbound
<1>4. MyRow(c) = requests[d][k]
  BY DEF MyRow
<1>5. \A e \in Databases, x \in Keys :
        e # d \/ x # k => requests'[e][x] = requests[e][x]
  BY <1>1, <1>2 DEF IInv, TypeOK, DatabaseType
<1>6. CASE MyRow(c).uid # Unbound
  <2>1. uid = requests[d][k].uid
    BY <1>6, <1>4
  <2> HIDE DEF uid
  <2>2. requests'[d][k] = [requests[d][k] EXCEPT !.uid = uid]
    BY <1>1, <1>2 DEF IInv, TypeOK, DatabaseType
  <2>3. requests'[d][k] = requests[d][k]
    BY <1>2, <1>4, <2>1, <2>2 DEF Row
  <2>4. \A e \in Databases, x \in Keys : Identity(e, x)' = Identity(e, x)
    BY <1>5, <2>3 DEF Identity
  <2> QED BY <1>1, <2>4 DEF Bindings
<1>7. CASE MyRow(c).uid = Unbound
  <2> HIDE DEF uid, d, k
  <2>1. requests'[d][k].uid # Unbound /\ requests'[d][k] \in Row
    <3>1. requests'[d][k] = [requests[d][k] EXCEPT !.uid = uid]
      BY <1>1, <1>2 DEF IInv, TypeOK, DatabaseType, d, k
    <3>2. requests'[d][k].uid = uid
      BY <1>2, <1>4, <3>1 DEF Row
    <3> QED BY <1>2, <1>3, <3>2 DEF IInv, TypeOK, DatabaseType
  <2>2. Bindings[d][k] = NoEntry /\ Bindings'[d][k] = requests'[d][k]
    BY <1>2, <1>4, <1>7, <2>1 DEF Bindings, Identity
  <2>3. Bindings' = [Bindings EXCEPT ![d][k] = Bindings'[d][k]]
    <3>1. \A e \in Databases, x \in Keys :
            e # d \/ x # k => Bindings'[e][x] = Bindings[e][x]
      BY <1>5 DEF Bindings, Identity
    <3>2. /\ Bindings \in [Databases -> [Keys -> Row]]
          /\ Bindings' \in [Databases -> [Keys -> Row]]
      <4>1. NoEntry \in Row
        BY DEF NoEntry, Row, Unbound
      <4> QED BY <4>1 DEF Bindings, Identity, IInv, TypeOK, DatabaseType
    <3> QED BY <1>2, <3>1, <3>2
  <2>4. \A x \in Keys : Bindings[d][x] # NoEntry =>
          /\ Bindings[d][x].number # requests'[d][k].number
          /\ Bindings[d][x].uid # requests'[d][k].uid
    <3> SUFFICES ASSUME NEW x \in Keys, Bindings[d][x] # NoEntry
                 PROVE  /\ Bindings[d][x].number # requests'[d][k].number
                        /\ Bindings[d][x].uid # requests'[d][k].uid
      OBVIOUS
    <3>1. x # k
      BY <2>2
    <3>2. Bindings[d][x] = requests[d][x] /\ requests'[d][x] = requests[d][x]
      BY <1>2, <1>5, <3>1 DEF Bindings, Identity
    <3>3. requests'[d][x] # NoEntry /\ requests'[d][k] # NoEntry
      BY <2>1, <3>2 DEF NoEntry
    <3>4. RowsInv'
      BY DEF IInv
    <3>5. /\ requests'[d][k].number # requests'[d][x].number
          /\ requests'[d][k].uid # requests'[d][x].uid
      BY <1>2, <2>1, <3>1, <3>3, <3>4 DEF RowsInv
    <3> QED BY <3>2, <3>5
  <2>5. Once!Decide(d, k)
    BY <1>1, <2>1, <2>2, <2>3, <2>4 DEF Once!Decide, Once!Fresh, Bindings, Replies
  <2> QED BY <2>5 DEF d, k
<1> QED BY <1>6, <1>7

\* An answer is a reply with the decided identity.
LEMMA AnswerReplies ==
  ASSUME IInv, Next,
         \E c \in Clients : Finish(c) \/ \E i \in scan[c].found : Replay(c, i)
  PROVE  \/ Bindings' = Bindings /\ answers' = answers
         \/ \E d \in Databases, k \in Keys : Once!Reply(d, k)
<1>1. requests' = requests
  BY DEF Finish, Replay, database
<1>2. Bindings' = Bindings
  BY <1>1 DEF Bindings, Identity
<1>3. ASSUME answers' # answers PROVE \E a : answers' = answers \cup {a}
  BY <1>3 DEF Finish, Replay, Answer
<1>4. CASE answers' # answers
  <2>1. PICK a : answers' = answers \cup {a} /\ a \notin answers
    BY <1>3, <1>4
  <2>2. /\ a.db \in Databases /\ a.key \in Keys /\ a.uid # Unbound
        /\ requests[a.db][a.key] =
             [number |-> a.number, payload |-> a.payload, uid |-> a.uid]
    BY <2>1, NewAnswer DEF IInv
  <2>3. Bindings[a.db][a.key] =
          [number |-> a.number, payload |-> a.payload, uid |-> a.uid]
        /\ Bindings[a.db][a.key] # NoEntry
    BY <2>2 DEF Bindings, Identity, NoEntry
  <2>4. Replies' = Replies \cup {[scope |-> a.db, key |-> a.key,
                                 id |-> Bindings[a.db][a.key]]}
    BY <2>1, <2>3 DEF Replies
  <2>5. Once!Reply(a.db, a.key)
    BY <1>2, <2>3, <2>4 DEF Once!Reply, Bindings
  <2> QED BY <2>2, <2>5
<1> QED BY <1>2, <1>4

\* Every other step leaves the abstract state alone.
LEMMA Stutter ==
  ASSUME Bindings' = Bindings, answers' = answers
  PROVE  UNCHANGED Once!vars
  BY DEF Bindings, Once!vars, Replies

\* create_item, with its locks, scans, retries and crashes, implements
\* CreateOnce: one identity per key, for good, and every reply carries it.
THEOREM Implements == Spec => ImplementsCreateOnce
<1>1. Init => Once!Init
  BY DEF Init, Once!Init, Identity, NoEntry, Replies, Unbound
<1>2. IInv /\ IInv' /\ [Next]_vars => [Once!Next]_(Once!vars)
  <2> SUFFICES ASSUME IInv, IInv', [Next]_vars
               PROVE  Once!Next \/ UNCHANGED Once!vars
    OBVIOUS
  <2>1. CASE UNCHANGED vars
    <3>1. UNCHANGED <<requests, answers>>
      BY <2>1 DEF vars, database, history
    <3> QED BY <3>1, Stutter DEF Bindings, Identity
  <2>2. CASE Next
    <3>1. CASE UNCHANGED <<requests, answers>>
      BY <3>1, Stutter DEF Bindings, Identity
    <3>2. ASSUME NEW c \in Clients, ReserveNextNumber(c)
          PROVE  Once!Next \/ UNCHANGED Once!vars
      BY <3>2, ReserveStutters, Stutter
    <3>3. ASSUME NEW c \in Clients, BindRequestUid(c)
          PROVE  Once!Next \/ UNCHANGED Once!vars
      <4>1. MyDb(c) \in Databases /\ call[c].key \in Keys
        BY <3>3, RootOfAssumption, DbType
           DEF MyDb, Keyed, IInv, TypeOK, ClientsType, Call, BindRequestUid, BoundUid
      <4> QED BY <3>3, <4>1, BindDecides, Stutter DEF Once!Next
    <3>4. CASE \E c \in Clients : Finish(c) \/ \E i \in scan[c].found : Replay(c, i)
      BY <2>2, <3>4, AnswerReplies, Stutter DEF Once!Next
    <3> QED BY <2>2, <3>1, <3>2, <3>3, <3>4, AbstractTouched
  <2> QED BY <2>1, <2>2
<1> QED BY <1>1, <1>2, Inductive, PTL DEF Spec, ImplementsCreateOnce, Once!Spec

-------------------------------------------------------------------------------
(* The numbers that creators have in hand *)

\* A keyed creator holds the request lock from the scan to its end.
LockHeld(c) == Keyed(c) /\ pc[c] \notin {"idle", "lock"} => lock[MyDb(c)] = c

\* A number in hand was counted by the sequence; without a key it is in no row.
OwnNumber(c) ==
    pc[c] \in HasNumber =>
        /\ slot[c].number \in Nat /\ slot[c].number <= seq[MyDb(c)]
        /\ ~Keyed(c) => \A k \in Keys : requests[MyDb(c)][k] # NoEntry =>
             requests[MyDb(c)][k].number # slot[c].number

\* Until its own commit the number of a creator is not a committed one.
Uncommitted(c) ==
    \/ pc[c] \in {"collide", "bind", "open", "fill"}
    \/ pc[c] = "rescan" /\ ~slot[c].committed
    => slot[c].number \notin committed[MyDb(c)]

\* Creators without a key never share a number.
Unlike(c, e) ==
    /\ c # e /\ MyDb(c) = MyDb(e)
    /\ pc[c] \in HasNumber /\ pc[e] \in HasNumber
    /\ ~Keyed(c) /\ ~Keyed(e)
    => slot[c].number # slot[e].number

\* What is committed was counted.
CommittedCounted == \A d \in Databases : \A n \in committed[d] : n <= seq[d]

HandInv ==
    /\ \A c \in Clients : LockHeld(c) /\ OwnNumber(c) /\ Uncommitted(c)
    /\ \A c, e \in Clients : Unlike(c, e)
    /\ CommittedCounted

\* No two creators of one database have the same number in hand: two of them
\* with a key would both hold the lock.
LEMMA NumbersDiffer ==
  ASSUME IInv, HandInv, NEW c \in Clients, NEW e \in Clients, c # e,
         MyDb(c) = MyDb(e), pc[c] \in HasNumber, pc[e] \in HasNumber
  PROVE  slot[c].number # slot[e].number
<1>1. \A x \in Clients : pc[x] \in HasNumber => pc[x] \notin {"idle", "lock"}
  BY DEF HasNumber
<1>2. CASE Keyed(c) /\ Keyed(e)
  BY <1>1, <1>2 DEF HandInv, LockHeld
<1>3. CASE ~Keyed(c) /\ ~Keyed(e)
  BY <1>3 DEF HandInv, Unlike
<1>4. ASSUME NEW x \in Clients, NEW y \in Clients, MyDb(x) = MyDb(y), Keyed(x), ~Keyed(y),
             pc[x] \in HasNumber, pc[y] \in HasNumber
      PROVE  slot[x].number # slot[y].number
  <2>1. call[x].key \in Keys
    BY <1>4 DEF IInv, TypeOK, ClientsType, Call, Keyed
  <2>2. MyRow(x) # NoEntry /\ slot[x].number = MyRow(x).number
    BY <1>4 DEF IInv, ClientInv, ClientOK
  <2> QED BY <1>4, <2>1, <2>2 DEF HandInv, OwnNumber, MyRow
<1> QED BY <1>2, <1>3, <1>4

\* What the others may see of a step of c: sequences rise, new rows have new
\* numbers, locks stay with their holders, and a commit is of the number of c.
Grows(c) ==
    /\ \A d \in Databases : seq[d] <= seq'[d]
    /\ \A d \in Databases, k \in Keys : requests'[d][k] # NoEntry =>
         \/ requests'[d][k].number > seq[d]
         \/ requests[d][k] # NoEntry /\ requests'[d][k].number = requests[d][k].number
    /\ \A d \in Databases, e \in Clients \ {c} : lock[d] = e => lock'[d] = e
    /\ \A d \in Databases : \A n \in committed'[d] :
         n \in committed[d] \/ (pc[c] \in HasNumber /\ d = MyDb(c) /\ n = slot[c].number)

\* Sequences are integers, and databases do not change.
LEMMA DbFacts ==
  ASSUME TypeOK
  PROVE  /\ \A c \in Clients : MyDb(c) \in Databases /\ MyDb(c)' = MyDb(c)
         /\ \A d \in Databases : seq[d] \in Int
         /\ \A d \in Databases, k \in Keys : requests[d][k].number \in Nat
         /\ \A c \in Clients : slot[c].number \in Nat
<1>1. \A c \in Clients : MyDb(c) \in Databases /\ MyDb(c)' = MyDb(c)
  BY RootOfAssumption, DbType DEF MyDb
<1>2. \A d \in Databases : seq[d] \in Int
  BY DEF TypeOK, DatabaseType, NoRow
<1>3. \A d \in Databases, k \in Keys : requests[d][k].number \in Nat
  BY DEF TypeOK, DatabaseType, Row
<1>4. \A c \in Clients : slot[c].number \in Nat
  BY DEF TypeOK, ClientsType, Slot
<1> QED BY <1>1, <1>2, <1>3, <1>4

\* Then what they have in hand stays theirs.
LEMMA OthersKeep ==
  ASSUME IInv, IInv', HandInv, NEW c \in Clients, Apart(c), Grows(c),
         NEW e \in Clients, e # c
  PROVE  LockHeld(e)' /\ OwnNumber(e)' /\ Uncommitted(e)'
<1>1. /\ pc'[e] = pc[e] /\ call'[e] = call[e] /\ slot'[e] = slot[e]
      /\ MyDb(e) \in Databases /\ MyDb(e)' = MyDb(e)
      /\ LockHeld(e) /\ OwnNumber(e) /\ Uncommitted(e)
  BY DbFacts DEF Apart, HandInv, IInv
<1>2. LockHeld(e)'
  BY <1>1 DEF LockHeld, Keyed, Grows
<1>3. /\ seq[MyDb(e)] \in Int /\ seq'[MyDb(e)] \in Int /\ slot[e].number \in Nat
      /\ \A k \in Keys : requests'[MyDb(e)][k].number \in Nat
  <2>1. /\ \A d \in Databases : seq'[d] \in Int
        /\ \A d \in Databases, k \in Keys : requests'[d][k].number \in Nat
    BY DbFacts DEF IInv, TypeOK, DatabaseType, NoRow, Row
  <2> QED BY <1>1, <2>1, DbFacts DEF IInv
<1>4. OwnNumber(e)'
  BY <1>1, <1>3 DEF OwnNumber, Keyed, Grows
<1>5. Uncommitted(e)'
  <2> SUFFICES ASSUME \/ pc[e] \in {"collide", "bind", "open", "fill"}
                      \/ pc[e] = "rescan" /\ ~slot[e].committed
               PROVE  slot[e].number \notin committed'[MyDb(e)]
    BY <1>1 DEF Uncommitted
  <2>1. pc[e] \in HasNumber /\ slot[e].number \notin committed[MyDb(e)]
    BY <1>1 DEF HasNumber, Uncommitted
  <2>2. pc[c] \in HasNumber /\ MyDb(e) = MyDb(c) => slot[e].number # slot[c].number
    BY <2>1, NumbersDiffer
  <2> QED BY <1>1, <2>1, <2>2 DEF Grows
<1> QED BY <1>2, <1>4, <1>5

\* Where the number of c comes from, if it has one without a key.
NumberFrom(c) ==
    pc'[c] \in HasNumber /\ ~Keyed(c)' =>
        \/ pc[c] \in HasNumber /\ ~Keyed(c) /\ slot'[c].number = slot[c].number
        \/ slot'[c].number > seq[MyDb(c)]

\* So it is enough to look at the creator that moves.
LEMMA CombineHand ==
  ASSUME IInv, IInv', HandInv, NEW c \in Clients, Apart(c), Grows(c), NumberFrom(c),
         LockHeld(c)', OwnNumber(c)', Uncommitted(c)'
  PROVE  HandInv'
<1>1. \A e \in Clients : LockHeld(e)' /\ OwnNumber(e)' /\ Uncommitted(e)'
  BY OthersKeep
<1>2. /\ \A x \in Clients : MyDb(x) \in Databases /\ MyDb(x)' = MyDb(x)
      /\ \A d \in Databases : seq[d] \in Int /\ seq'[d] \in Int
      /\ \A x \in Clients : slot[x].number \in Nat /\ slot'[x].number \in Nat
  <2>1. /\ \A d \in Databases : seq'[d] \in Int
        /\ \A x \in Clients : slot'[x].number \in Nat
    BY DEF IInv, TypeOK, DatabaseType, ClientsType, NoRow, Slot
  <2> QED BY <2>1, DbFacts DEF IInv
<1>3. ASSUME NEW e \in Clients, e # c, MyDb(e) = MyDb(c), pc'[c] \in HasNumber,
             pc[e] \in HasNumber, ~Keyed(c)', ~Keyed(e)
      PROVE  slot'[c].number # slot[e].number
  <2>1. CASE pc[c] \in HasNumber /\ ~Keyed(c) /\ slot'[c].number = slot[c].number
    BY <1>3, <2>1 DEF HandInv, Unlike
  <2>2. CASE slot'[c].number > seq[MyDb(c)]
    <3>1. slot[e].number <= seq[MyDb(c)]
      BY <1>3 DEF HandInv, OwnNumber
    <3> QED BY <1>2, <2>2, <3>1
  <2> QED BY <1>3, <2>1, <2>2 DEF NumberFrom
<1>4. \A e \in Clients \ {c} : /\ pc'[e] = pc[e] /\ slot'[e] = slot[e]
                               /\ Keyed(e)' <=> Keyed(e)
  BY DEF Apart, Keyed
<1>5. \A x, y \in Clients : Unlike(x, y)'
  <2> SUFFICES ASSUME NEW x \in Clients, NEW y \in Clients, x # y, MyDb(x) = MyDb(y),
                      pc'[x] \in HasNumber, pc'[y] \in HasNumber, ~Keyed(x)', ~Keyed(y)'
               PROVE  slot'[x].number # slot'[y].number
    BY <1>2 DEF Unlike
  <2>1. CASE x = c
    BY <1>3, <1>4, <2>1
  <2>2. CASE y = c
    BY <1>3, <1>4, <2>2
  <2>3. CASE x # c /\ y # c
    BY <1>4, <2>3 DEF HandInv, Unlike
  <2> QED BY <2>1, <2>2, <2>3
<1>6. CommittedCounted'
  <2> SUFFICES ASSUME NEW d \in Databases, NEW n \in committed'[d] PROVE n <= seq'[d]
    BY DEF CommittedCounted
  <2>1. n \in Nat
    BY DEF IInv, TypeOK, DatabaseType
  <2>2. n <= seq[d]
    BY DEF HandInv, CommittedCounted, OwnNumber, Grows
  <2> QED BY <1>2, <2>1, <2>2 DEF Grows
<1> QED BY <1>1, <1>5, <1>6 DEF HandInv

\* A creator that leaves has nothing in hand.
LEMMA LeavesHand ==
  ASSUME IInv, IInv', HandInv, NEW c \in Clients, Leave(c), UNCHANGED database
  PROVE  HandInv'
<1>1. Apart(c) /\ pc'[c] = "idle"
  BY LeaveOK DEF Apart, IInv, TypeOK, ClientsType, Leave, Goto
<1>2. \A d \in Databases, e \in Clients \ {c} : lock[d] = e => lock'[d] = e
  BY DEF Leave
<1>3. Grows(c)
  BY <1>2, DbFacts DEF Grows, database, IInv
<1>4. NumberFrom(c) /\ LockHeld(c)' /\ OwnNumber(c)' /\ Uncommitted(c)'
  BY <1>1 DEF NumberFrom, LockHeld, OwnNumber, Uncommitted, HasNumber
<1> QED BY <1>1, <1>3, <1>4, CombineHand

\* A creator that goes on with the number it has, or with none.
LEMMA GoesOnHand ==
  ASSUME IInv, IInv', HandInv, NEW c \in Clients, Apart(c), UNCHANGED <<database, lock>>,
         call'[c] = call[c], pc[c] \notin {"idle", "lock"},
         pc'[c] \in HasNumber => pc[c] \in HasNumber /\ slot'[c].number = slot[c].number,
         Uncommitted(c)'
  PROVE  HandInv'
<1>1. /\ UNCHANGED <<seq, requests, committed, lock>> /\ MyDb(c)' = MyDb(c)
      /\ LockHeld(c) /\ OwnNumber(c)
  BY DbFacts DEF database, HandInv, IInv
<1>2. Grows(c)
  BY <1>1, DbFacts DEF Grows, IInv
<1>3. NumberFrom(c) /\ LockHeld(c)' /\ OwnNumber(c)'
  BY <1>1 DEF NumberFrom, LockHeld, OwnNumber, Keyed
<1> QED BY <1>2, <1>3, CombineHand

\* Every step of a creator keeps what is in hand.
LEMMA ClientHand ==
  ASSUME IInv, IInv', HandInv, NEW c \in Clients, ClientStep(c)
  PROVE  HandInv'
<1> USE DbFacts DEF IInv
<1>1. /\ MyDb(c) \in Databases /\ MyDb(c)' = MyDb(c)
      /\ pc \in [Clients -> Steps] /\ call \in [Clients -> Call]
      /\ slot \in [Clients -> Slot] /\ scan \in [Clients -> Scan]
      /\ LockHeld(c) /\ OwnNumber(c) /\ Uncommitted(c) /\ ClientOK(c)
  BY DEF TypeOK, ClientsType, HandInv, ClientInv
<1>2. CASE AcquireLock(c)
  <2>1. /\ Apart(c) /\ pc'[c] = "scan" /\ lock'[MyDb(c)] = c /\ UNCHANGED database
    BY <1>1, <1>2 DEF AcquireLock, Visit, Goto, Apart, TypeOK, ClientsType
  <2>2. \A d \in Databases, e \in Clients \ {c} : lock[d] = e => lock'[d] = e
    BY <1>2, NamesAreDistinct DEF AcquireLock, TypeOK, ClientsType
  <2>3. Grows(c)
    BY <2>1, <2>2 DEF Grows, database
  <2>4. NumberFrom(c) /\ LockHeld(c)' /\ OwnNumber(c)' /\ Uncommitted(c)'
    BY <1>1, <2>1 DEF NumberFrom, LockHeld, OwnNumber, Uncommitted, HasNumber
  <2> QED BY <2>1, <2>3, <2>4, CombineHand
<1>3. CASE LockTimeout(c)
  BY <1>3, LeavesHand DEF LockTimeout, Refuse
<1>4. ASSUME NEW r \in Roots, FindCreatedRequest(c, r) PROVE HandInv'
  <2>1. CASE MarkerConflict(c, r)
    BY <1>4, <2>1, LeavesHand DEF FindCreatedRequest, Refuse
  <2>2. CASE ~MarkerConflict(c, r)
    <3>1. Apart(c) /\ pc[c] \in {"scan", "rescan"} /\ UNCHANGED <<database, lock, pc, call, slot>>
      BY <1>1, <1>4, <2>2 DEF FindCreatedRequest, Apart
    <3>2. Uncommitted(c)'
      BY <1>1, <3>1 DEF Uncommitted, database
    <3> QED BY <3>1, <3>2, GoesOnHand
  <2> QED BY <2>1, <2>2
<1>5. ASSUME NEW r \in Roots, CheckCollision(c, r) PROVE HandInv'
  <2>1. Apart(c) /\ pc[c] = "collide" /\ UNCHANGED <<database, lock, pc, call, slot>>
    BY <1>1, <1>5 DEF CheckCollision, Apart
  <2>2. Uncommitted(c)'
    BY <1>1, <2>1 DEF Uncommitted, database
  <2> QED BY <2>1, <2>2, GoesOnHand
<1>6. CASE Authorize(c)
  <2>1. pc[c] = "scan" /\ UNCHANGED database
    BY <1>6 DEF Authorize
  <2>2. CASE Leave(c)
    BY <2>1, <2>2, LeavesHand
  <2>3. CASE ~Leave(c)
    <3>1. Apart(c) /\ pc'[c] \in {"seed", "replay"} /\ UNCHANGED <<lock, call>>
      BY <1>1, <1>6, <2>3 DEF Authorize, Goto, Apart
    <3>2. Uncommitted(c)'
      BY <3>1 DEF Uncommitted
    <3> QED BY <2>1, <3>1, <3>2, GoesOnHand DEF HasNumber
  <2> QED BY <2>2, <2>3
<1>7. CASE SeedSequence(c)
  <2>1. /\ Apart(c) /\ pc[c] = "seed" /\ pc'[c] \in {"ensure", "reserve"}
        /\ UNCHANGED <<database, lock, call>>
    BY <1>1, <1>7 DEF SeedSequence, Goto, Apart
  <2>2. Uncommitted(c)'
    BY <2>1 DEF Uncommitted
  <2> QED BY <2>1, <2>2, GoesOnHand DEF HasNumber
<1>8. CASE EnsureSequenceAtLeast(c)
  <2>1. /\ Apart(c) /\ pc[c] = "ensure" /\ pc'[c] = "reserve"
        /\ UNCHANGED <<requests, committed, lock, call, slot>>
    BY <1>1, <1>8 DEF EnsureSequenceAtLeast, Goto, Apart
  <2>2. \A d \in Databases : seq[d] <= seq'[d]
    <3>1. slot[c].floor \in Int /\ seq \in [Databases -> Nat \cup {NoRow}]
      BY <1>1 DEF Slot, NoRow, TypeOK, DatabaseType
    <3> QED BY <1>1, <1>8, <3>1 DEF EnsureSequenceAtLeast, MaxOf, NoRow
  <2>3. Grows(c)
    BY <2>1, <2>2 DEF Grows
  <2>4. NumberFrom(c) /\ LockHeld(c)' /\ OwnNumber(c)' /\ Uncommitted(c)'
    BY <1>1, <2>1 DEF NumberFrom, LockHeld, OwnNumber, Uncommitted, HasNumber, Keyed
  <2> QED BY <2>1, <2>3, <2>4, CombineHand
<1>9. CASE ReuseReservation(c)
  <2>1. pc[c] = "reserve" /\ Keyed(c) /\ MyRow(c) # NoEntry /\ UNCHANGED database
    BY <1>9 DEF ReuseReservation
  <2>2. CASE Leave(c)
    BY <2>1, <2>2, LeavesHand
  <2>3. CASE ~Leave(c)
    <3>1. /\ slot' = [slot EXCEPT ![c] =
                 [@ EXCEPT !.number = MyRow(c).number, !.uid = MyRow(c).uid,
                           !.committed = IsCommitted(MyDb(c), MyRow(c).number)]]
          /\ Visit(c, "rescan") /\ UNCHANGED <<lock, call>>
      BY <1>9, <2>3 DEF ReuseReservation
    <3>2. /\ Apart(c) /\ pc'[c] = "rescan" /\ slot'[c].number = MyRow(c).number
          /\ slot'[c].committed = IsCommitted(MyDb(c), MyRow(c).number)
      BY <1>1, <3>1 DEF Visit, Goto, Apart, Slot
    <3>3. /\ Grows(c) /\ NumberFrom(c) /\ LockHeld(c)'
      BY <1>1, <2>1, <3>1, <3>2 DEF Grows, database, NumberFrom, LockHeld, Keyed
    <3>4. call[c].key \in Keys
      BY <1>1, <2>1 DEF Keyed, Call
    <3>5. OwnNumber(c)'
      BY <1>1, <2>1, <3>1, <3>2, <3>4 DEF OwnNumber, RowsInv, MyRow, database, Keyed
    <3>6. Uncommitted(c)'
      BY <1>1, <2>1, <3>2 DEF Uncommitted, IsCommitted, database
    <3> QED BY <3>2, <3>3, <3>5, <3>6, CombineHand
  <2> QED BY <2>2, <2>3
<1>10. CASE ReserveNextNumber(c)
  <2> DEFINE n == Advance(seq[MyDb(c)])
  <2>1. /\ seq' = [seq EXCEPT ![MyDb(c)] = n] /\ UNCHANGED <<committed, lock, call>>
        /\ slot' = [slot EXCEPT ![c].number = n] /\ Visit(c, "collide")
        /\ requests' = IF Keyed(c)
                       THEN [requests EXCEPT ![MyDb(c)][call[c].key] =
                               [number |-> n, payload |-> call[c].payload, uid |-> Unbound]]
                       ELSE requests
        /\ pc[c] = "reserve"
    BY <1>10 DEF ReserveNextNumber
  <2>2. n \in Nat /\ n > seq[MyDb(c)]
    BY <1>1 DEF Advance, TypeOK, DatabaseType, NoRow
  <2> HIDE DEF n
  <2>3. /\ Apart(c) /\ pc'[c] = "collide" /\ slot'[c].number = n
    BY <1>1, <2>1 DEF Visit, Goto, Apart, Slot
  <2>4. /\ \A d \in Databases : seq[d] <= seq'[d]
        /\ seq'[MyDb(c)] = n
    BY <1>1, <2>1, <2>2 DEF TypeOK, DatabaseType
  <2>5. \A d \in Databases, k \in Keys :
          \/ requests'[d][k] = requests[d][k]
          \/ d = MyDb(c) /\ Keyed(c) /\ k = call[c].key /\ requests'[d][k].number = n
    BY <1>1, <2>1 DEF TypeOK, DatabaseType
  <2>6. Grows(c) /\ NumberFrom(c) /\ LockHeld(c)'
    BY <1>1, <2>1, <2>2, <2>3, <2>4, <2>5 DEF Grows, NumberFrom, LockHeld, Keyed
  <2>7. OwnNumber(c)'
    <3>1. ~Keyed(c) => requests' = requests
      BY <2>1
    <3>2. \A k \in Keys : requests[MyDb(c)][k] # NoEntry =>
            requests[MyDb(c)][k].number <= seq[MyDb(c)]
      BY <1>1 DEF RowsInv
    <3>3. \A k \in Keys : requests[MyDb(c)][k] # NoEntry => requests[MyDb(c)][k].number # n
      BY <1>1, <2>2, <3>2
    <3> QED BY <1>1, <2>1, <2>2, <2>3, <2>4, <3>1, <3>3 DEF OwnNumber, Keyed
  <2>8. Uncommitted(c)'
    <3>1. n \notin committed[MyDb(c)]
      BY <1>1, <2>2 DEF HandInv, CommittedCounted
    <3> QED BY <1>1, <2>1, <2>3, <3>1 DEF Uncommitted
  <2> QED BY <2>3, <2>6, <2>7, <2>8, CombineHand
<1>11. CASE ResolveReservation(c)
  <2>1. pc[c] = "rescan" /\ UNCHANGED database
    BY <1>11 DEF ResolveReservation
  <2>2. CASE Leave(c)
    BY <2>1, <2>2, LeavesHand
  <2>3. CASE ~Leave(c)
    <3>1. CASE Goto(c, "replay") /\ UNCHANGED <<lock, call, slot, scan>>
      <4>1. Apart(c) /\ UNCHANGED <<lock, call, slot>> /\ pc'[c] = "replay"
        BY <1>1, <3>1 DEF Goto, Apart
      <4>2. Uncommitted(c)'
        BY <4>1 DEF Uncommitted
      <4> QED BY <2>1, <4>1, <4>2, GoesOnHand DEF HasNumber
    <3>2. CASE ~slot[c].committed /\ Visit(c, "collide") /\ UNCHANGED <<lock, call, slot>>
      <4>1. Apart(c) /\ UNCHANGED <<lock, call, slot>> /\ pc'[c] = "collide"
        BY <1>1, <3>2 DEF Visit, Goto, Apart
      <4>2. Uncommitted(c)'
        BY <1>1, <2>1, <3>2, <4>1 DEF Uncommitted, database
      <4> QED BY <2>1, <4>1, <4>2, GoesOnHand DEF HasNumber
    <3> QED BY <1>11, <2>3, <3>1, <3>2 DEF ResolveReservation
  <2> QED BY <2>2, <2>3
<1>12. CASE DecideCollision(c)
  <2>1. pc[c] = "collide" /\ UNCHANGED database
    BY <1>12 DEF DecideCollision
  <2>2. CASE Leave(c)
    BY <2>1, <2>2, LeavesHand
  <2>3. CASE /\ Goto(c, IF Keyed(c) THEN "bind" ELSE "open")
             /\ UNCHANGED <<lock, call, slot, scan>>
    <3>1. Apart(c) /\ pc'[c] \in {"bind", "open"}
      BY <1>1, <2>3 DEF Goto, Apart
    <3>2. Uncommitted(c)'
      BY <1>1, <2>1, <2>3, <3>1 DEF Uncommitted, database
    <3> QED BY <2>1, <2>3, <3>1, <3>2, GoesOnHand DEF HasNumber
  <2>4. CASE /\ Goto(c, "ensure")
             /\ slot' = [slot EXCEPT ![c].attempt = 1, ![c].floor = MaxNumberIn({RootOf[c]})]
             /\ UNCHANGED <<lock, call, scan>>
    <3>1. Apart(c) /\ pc'[c] = "ensure"
      BY <1>1, <2>4 DEF Goto, Apart
    <3>2. Uncommitted(c)'
      BY <3>1 DEF Uncommitted
    <3> QED BY <2>1, <2>4, <3>1, <3>2, GoesOnHand DEF HasNumber
  <2> QED BY <1>12, <2>2, <2>3, <2>4 DEF DecideCollision
<1>13. CASE BindRequestUid(c)
  <2>1. /\ Apart(c) /\ pc[c] = "bind" /\ pc'[c] = "open" /\ Keyed(c)
        /\ UNCHANGED <<seq, committed, lock, call>>
    BY <1>1, <1>13 DEF BindRequestUid, Goto, Apart
  <2>2. slot'[c].number = slot[c].number
    BY <1>1, <1>13 DEF BindRequestUid, Slot
  <2>3. \A d \in Databases, k \in Keys :
          \/ requests'[d][k] = requests[d][k]
          \/ requests[d][k] # NoEntry /\ requests'[d][k].number = requests[d][k].number
    <3>1. call[c].key \in Keys /\ MyRow(c) # NoEntry
      BY <1>1, <2>1 DEF Keyed, Call, ClientOK, HasNumber
    <3>2. requests' = [requests EXCEPT ![MyDb(c)][call[c].key].uid = BoundUid(c)]
      BY <1>13 DEF BindRequestUid
    <3> QED BY <1>1, <3>1, <3>2 DEF TypeOK, DatabaseType, Row, MyRow
  <2>4. Grows(c) /\ NumberFrom(c) /\ LockHeld(c)'
    BY <1>1, <2>1, <2>3 DEF Grows, NumberFrom, LockHeld, Keyed
  <2>5. OwnNumber(c)' /\ Uncommitted(c)'
    BY <1>1, <2>1, <2>2 DEF OwnNumber, Uncommitted, HasNumber, Keyed
  <2> QED BY <2>1, <2>4, <2>5, CombineHand
<1>14. CASE OpenItemFile(c) \/ FillItemFile(c) \/ WriteDuplicateAdmissionReceipt(c)
  <2>1. /\ Apart(c) /\ UNCHANGED <<database, lock, call>>
        /\ \/ pc[c] = "open" /\ pc'[c] = "fill"
           \/ pc[c] = "fill" /\ pc'[c] = "commit"
           \/ pc[c] = "receipt" /\ pc'[c] = "finish"
    BY <1>1, <1>14 DEF OpenItemFile, FillItemFile, WriteDuplicateAdmissionReceipt, Goto, Apart
  <2>2. slot'[c].number = slot[c].number
    BY <1>1, <1>14 DEF OpenItemFile, FillItemFile, WriteDuplicateAdmissionReceipt, Slot
  <2>3. Uncommitted(c)'
    BY <1>1, <2>1, <2>2 DEF Uncommitted, database
  <2> QED BY <2>1, <2>2, <2>3, GoesOnHand DEF HasNumber
<1>15. CASE CommitReservation(c)
  <2>1. /\ Apart(c) /\ pc[c] = "commit" /\ pc'[c] = "receipt"
        /\ UNCHANGED <<seq, requests, lock, call, slot>>
    BY <1>1, <1>15 DEF CommitReservation, Goto, Apart
  <2>2. \A d \in Databases : \A n \in committed'[d] :
          n \in committed[d] \/ (d = MyDb(c) /\ n = slot[c].number)
    BY <1>1, <1>15 DEF CommitReservation, TypeOK, DatabaseType
  <2>3. Grows(c) /\ NumberFrom(c) /\ LockHeld(c)'
    BY <1>1, <2>1, <2>2 DEF Grows, NumberFrom, LockHeld, Keyed, HasNumber
  <2>4. OwnNumber(c)' /\ Uncommitted(c)'
    BY <1>1, <2>1 DEF OwnNumber, Uncommitted, HasNumber, Keyed
  <2> QED BY <2>1, <2>3, <2>4, CombineHand
<1>16. CASE Finish(c) \/ \E i \in scan[c].found : Replay(c, i)
  BY <1>16, LeavesHand DEF Finish, Replay
<1> QED
  BY <1>2, <1>3, <1>4, <1>5, <1>6, <1>7, <1>8, <1>9, <1>10, <1>11, <1>12, <1>13,
     <1>14, <1>15, <1>16 DEF ClientStep

\* So does every step of the system.
LEMMA HandStep == IInv /\ IInv' /\ HandInv /\ [Next]_vars => HandInv'
<1> SUFFICES ASSUME IInv, IInv', HandInv, [Next]_vars PROVE HandInv'
  OBVIOUS
<1>1. ASSUME UNCHANGED <<database, lock, clients>> PROVE HandInv'
  BY <1>1 DEF database, clients, HandInv, LockHeld, OwnNumber, Uncommitted, Unlike,
              CommittedCounted, Keyed, MyDb, Db
<1>2. CASE UNCHANGED vars
  BY <1>1, <1>2 DEF vars
<1>3. CASE Others
  BY <1>1, <1>3 DEF Others, Merge, Arrive, Trash, Remap, DiscardTorn
<1>4. ASSUME NEW c \in Clients, Crash(c) PROVE HandInv'
  BY <1>4, LeavesHand DEF Crash
<1>5. ASSUME NEW c \in Clients, NEW k \in Keys \cup {NoKey}, NEW p \in Payloads, Begin(c, k, p)
      PROVE  HandInv'
  <2>1. /\ Apart(c) /\ UNCHANGED <<database, lock>>
        /\ (k = NoKey /\ pc'[c] = "seed") \/ pc'[c] = "lock"
        /\ call'[c] = [key |-> k, payload |-> p]
    BY <1>5 DEF Begin, Goto, Apart, IInv, TypeOK, ClientsType
  <2>2. Grows(c)
    BY <2>1, DbFacts DEF Grows, database, IInv
  <2>3. NumberFrom(c) /\ LockHeld(c)' /\ OwnNumber(c)' /\ Uncommitted(c)'
    BY <2>1 DEF NumberFrom, LockHeld, OwnNumber, Uncommitted, HasNumber, Keyed
  <2> QED BY <2>1, <2>2, <2>3, CombineHand
<1>6. ASSUME NEW c \in Clients, ClientStep(c) PROVE HandInv'
  BY <1>6, ClientHand
<1> QED BY <1>2, <1>3, <1>4, <1>5, <1>6 DEF Next

\* What creators have in hand is their own in every reachable state.
THEOREM HandsApart == Spec => [](IInv /\ HandInv)
<1>1. Init => HandInv
  BY DEF Init, HandInv, LockHeld, OwnNumber, Uncommitted, Unlike, HasNumber,
         CommittedCounted
<1> QED BY <1>1, HandStep, Inductive, PTL DEF Spec

\* No two creators of one reservation database ever have the same display ID on its
\* way into a file, however many of them, crashes, retries and interferences.
THEOREM OneWriterAlways == Spec => []OneWriterPerNumber
<1>1. IInv /\ HandInv => OneWriterPerNumber
  BY NumbersDiffer DEF OneWriterPerNumber, HasNumber
<1> QED BY <1>1, HandsApart, PTL

\* Only the opening of an item file tears one.
LEMMA TornTouched ==
  ASSUME Next
  PROVE  torn' \subseteq torn \/ \E c \in Clients : OpenItemFile(c)
<1>1. ASSUME NEW c \in Clients, NEW k \in Keys \cup {NoKey}, NEW p \in Payloads, Begin(c, k, p)
      PROVE torn' = torn
  BY <1>1 DEF Begin, files
<1>2. ASSUME NEW c \in Clients, NEW r \in Roots, FindCreatedRequest(c, r) \/ CheckCollision(c, r)
      PROVE torn' = torn
  BY <1>2 DEF FindCreatedRequest, CheckCollision, Refuse, files
<1>3. ASSUME NEW c \in Clients, FillItemFile(c) PROVE torn' \subseteq torn
  BY <1>3 DEF FillItemFile
<1>4. ASSUME NEW c \in Clients, ClientStep(c), ~FillItemFile(c), ~OpenItemFile(c)
      PROVE torn' = torn
  BY <1>2, <1>4 DEF ClientStep, AcquireLock, LockTimeout, Refuse, Authorize, Authority, SeedSequence,
     EnsureSequenceAtLeast, ReuseReservation, IsCommitted, ReserveNextNumber, NeedsNumber,
     ResolveReservation, DecideCollision, BindRequestUid, BoundUid, CommitReservation,
     WriteDuplicateAdmissionReceipt, Finish, Replay, files
<1>5. ASSUME NEW c \in Clients, Crash(c) PROVE torn' = torn
  BY <1>5 DEF Crash, files
<1>6. ASSUME Others PROVE torn' \subseteq torn
  BY <1>6 DEF Others, Merge, Arrive, Trash, Remap, DiscardTorn
<1> QED BY <1>1, <1>3, <1>4, <1>5, <1>6 DEF Next

\* A creator never truncates the file of a number whose reservation is committed, so
\* an item that was trashed after its commit does not come back by a retry.
THEOREM CommittedStaysWritten == Spec => CommittedNeverRewritten
<1> DEFINE Kept == \A f \in torn' \ torn : f.number \notin committed[Db(f.root)]
<1>1. IInv /\ HandInv /\ [Next]_vars => [Kept]_vars
  <2> SUFFICES ASSUME HandInv, Next, NEW f \in torn' \ torn
               PROVE  f.number \notin committed[Db(f.root)]
    OBVIOUS
  <2>1. PICK c \in Clients : OpenItemFile(c)
    BY TornTouched
  <2>2. f = [root |-> RootOf[c], number |-> slot[c].number] /\ pc[c] = "open"
    BY <2>1 DEF OpenItemFile
  <2>3. slot[c].number \notin committed[MyDb(c)]
    BY <2>2 DEF HandInv, Uncommitted
  <2> QED BY <2>2, <2>3 DEF MyDb
<1> HIDE DEF Kept
<1>2. Spec => [][Kept]_vars
  BY <1>1, HandsApart, PTL DEF Spec
<1> QED BY <1>2 DEF Kept, CommittedNeverRewritten


-------------------------------------------------------------------------------
(* One item per display ID *)

\* git carries items from one worktree to another, behind the back of a creator
\* that looks at them one after the other.
Merges == Shared /\ "merge" \in Environment

\* No number comes to a worktree but from the sequence.
Counted == Environment \cap {"arrive", "remap"} = {}

\* An item that has the number a creator holds, and is not its own.
Rival(c, j) ==
    /\ Db(j.root) = MyDb(c)
    /\ j.number = slot[c].number /\ j.number \notin excused
    /\ ~(Keyed(c) /\ MyRow(c).uid # Unbound /\ j.uid = MyRow(c).uid)

\* The collision check finds every rival: it has, or has the checkout before it.
RivalsFound(c) ==
    pc[c] = "collide" => \A j \in items : Rival(c, j) =>
        /\ ~Merges
        /\ scan[c].hit \/ j.root \in scan[c].todo

\* Past it there is none.
NoRival(c) ==
    pc[c] \in {"bind", "open", "fill"} => \A j \in items : ~Rival(c, j)

\* Where items move between checkouts, each number in a file was counted by the
\* sequence, and the number of a request row is in files of that request alone.
FilesCounted ==
    Merges => \A j \in items :
        /\ j.number <= seq[Db(j.root)]
        /\ \A k \in Keys :
             LET row == requests[Db(j.root)][k]
             IN row # NoEntry /\ row.number = j.number => row.uid # Unbound /\ row.uid = j.uid

UniqueInv ==
    /\ UniqueIds
    /\ \A c \in Clients : RivalsFound(c) /\ NoRival(c)
    /\ FilesCounted

\* Sequences rise, and a new request row has a number above its sequence.
Grown ==
    /\ \A d \in Databases : seq[d] <= seq'[d]
    /\ \A d \in Databases, k \in Keys :
          requests[d][k] = NoEntry /\ requests'[d][k] # NoEntry =>
              requests'[d][k].number > seq[d]

\* Every step is like that.
LEMMA AlwaysGrown ==
  ASSUME IInv, Next
  PROVE  Grown
<1>1. /\ \A d \in Databases : seq[d] \in Int /\ seq[d] <= seq[d]
      /\ \A c \in Clients : MyDb(c) \in Databases
  BY DbFacts DEF IInv
<1>2. CASE UNCHANGED <<seq, requests, minted>>
  BY <1>1, <1>2 DEF Grown
<1>3. ASSUME NEW c \in Clients, EnsureSequenceAtLeast(c) PROVE Grown
  <2>1. /\ requests' = requests
        /\ seq' = [seq EXCEPT ![MyDb(c)] = MaxOf(seq[MyDb(c)], slot[c].floor)]
    BY <1>3 DEF EnsureSequenceAtLeast
  <2>2. slot[c].floor \in Int
    BY DEF IInv, TypeOK, ClientsType, Slot, NoRow
  <2>3. \A d \in Databases : seq[d] <= seq'[d]
    BY <1>1, <2>1, <2>2 DEF MaxOf, IInv, TypeOK, DatabaseType
  <2> QED BY <2>1, <2>3 DEF Grown
<1>4. ASSUME NEW c \in Clients, ReserveNextNumber(c) PROVE Grown
  <2> DEFINE n == Advance(seq[MyDb(c)])
  <2>1. /\ seq' = [seq EXCEPT ![MyDb(c)] = n]
        /\ requests' = IF Keyed(c)
                       THEN [requests EXCEPT ![MyDb(c)][call[c].key] =
                               [number |-> n, payload |-> call[c].payload, uid |-> Unbound]]
                       ELSE requests
    BY <1>4 DEF ReserveNextNumber
  <2>2. n \in Int /\ n > seq[MyDb(c)]
    BY <1>1 DEF Advance, NoRow, IInv, TypeOK, DatabaseType
  <2> HIDE DEF n
  <2>3. \A d \in Databases : seq[d] <= seq'[d]
    BY <1>1, <2>1, <2>2 DEF IInv, TypeOK, DatabaseType
  <2>4. \A d \in Databases, k \in Keys :
          \/ requests'[d][k] = requests[d][k]
          \/ d = MyDb(c) /\ requests'[d][k].number = n
    BY <1>1, <2>1 DEF IInv, TypeOK, DatabaseType
  <2> QED BY <2>2, <2>3, <2>4 DEF Grown
<1>5. ASSUME NEW c \in Clients, BindRequestUid(c) PROVE Grown
  <2>1. /\ seq' = seq /\ Keyed(c) /\ pc[c] = "bind"
        /\ requests' = [requests EXCEPT ![MyDb(c)][call[c].key].uid = BoundUid(c)]
    BY <1>5 DEF BindRequestUid
  <2>2. MyRow(c) # NoEntry
    BY <2>1 DEF IInv, ClientInv, ClientOK, HasNumber
  <2>3. \A d \in Databases, k \in Keys :
          requests'[d][k] = requests[d][k] \/ requests[d][k] # NoEntry
    BY <1>1, <2>1, <2>2 DEF IInv, TypeOK, DatabaseType, MyRow
  <2> QED BY <1>1, <2>1, <2>3 DEF Grown
<1>6. ASSUME NEW c \in Clients, OpenItemFile(c) PROVE Grown
  BY <1>1, <1>6 DEF OpenItemFile, database, Grown
<1> QED BY <1>2, <1>3, <1>4, <1>5, <1>6, RowsTouched

\* A step that leaves a creator its number makes no rival of an item it knew.
LEMMA RivalKept ==
  ASSUME IInv, RowsKeep, NEW c \in Clients, pc[c] \in HasNumber, call'[c] = call[c],
         slot'[c].number = slot[c].number, excused \subseteq excused', NEW j, Rival(c, j)'
  PROVE  Rival(c, j)
<1>1. MyDb(c)' = MyDb(c) /\ MyDb(c) \in Databases /\ Db(j.root)' = Db(j.root)
  BY DbFacts DEF IInv, Db
<1>2. CASE ~Keyed(c)
  BY <1>1, <1>2 DEF Rival, Keyed
<1>3. CASE Keyed(c)
  <2>1. call[c].key \in Keys /\ MyRow(c) # NoEntry /\ Keyed(c)'
    BY <1>3 DEF IInv, TypeOK, ClientsType, Call, Keyed, ClientInv, ClientOK
  <2>2. MyRow(c).uid # Unbound => MyRow(c)'.uid = MyRow(c).uid
    BY <1>1, <2>1 DEF RowsKeep, MyRow
  <2> QED BY <1>1, <1>3, <2>1, <2>2 DEF Rival
<1> QED BY <1>2, <1>3

\* A creator that stands still gets no rival from a step that adds no item.
LEMMA StaysUnrivaled ==
  ASSUME IInv, RowsKeep, UniqueInv, NEW e \in Clients, pc'[e] = pc[e], call'[e] = call[e],
         slot'[e] = slot[e], scan'[e] = scan[e], items' \subseteq items,
         excused \subseteq excused'
  PROVE  RivalsFound(e)' /\ NoRival(e)'
<1>1. pc[e] \in {"collide", "bind", "open", "fill"} =>
        \A j \in items' : Rival(e, j)' => Rival(e, j)
  BY RivalKept DEF HasNumber
<1>2. RivalsFound(e) /\ NoRival(e)
  BY DEF UniqueInv
<1> QED BY <1>1, <1>2 DEF RivalsFound, NoRival, Merges

\* Nor does it put a number of a file into a new row.
LEMMA StaysCounted ==
  ASSUME IInv, IInv', RowsKeep, Grown, FilesCounted, items' \subseteq items
  PROVE  FilesCounted'
<1> SUFFICES ASSUME Merges, NEW j \in items'
             PROVE  /\ j.number <= seq'[Db(j.root)]
                    /\ \A k \in Keys :
                         /\ requests'[Db(j.root)][k] # NoEntry
                         /\ requests'[Db(j.root)][k].number = j.number
                         => /\ requests'[Db(j.root)][k].uid # Unbound
                            /\ requests'[Db(j.root)][k].uid = j.uid
  BY DEF FilesCounted, Merges, Db
<1> DEFINE d == Db(j.root)
<1>1. j \in items /\ j.root \in Roots /\ j.number \in Nat
  BY DEF IInv, TypeOK, FilesType, Item
<1>2. d \in Databases /\ seq[d] \in Int /\ seq'[d] \in Int
  BY <1>1, DbType DEF IInv, TypeOK, DatabaseType, NoRow
<1>3. /\ j.number <= seq[d]
      /\ \A k \in Keys : requests[d][k] # NoEntry /\ requests[d][k].number = j.number =>
             requests[d][k].uid # Unbound /\ requests[d][k].uid = j.uid
  BY <1>1 DEF FilesCounted
<1> HIDE DEF d
<1>4. j.number <= seq'[d]
  BY <1>1, <1>2, <1>3 DEF Grown
<1>5. ASSUME NEW k \in Keys, requests'[d][k] # NoEntry, requests'[d][k].number = j.number
      PROVE  requests'[d][k].uid # Unbound /\ requests'[d][k].uid = j.uid
  <2>1. requests[d][k] # NoEntry
    <3>1. CASE requests[d][k] = NoEntry
      BY <1>1, <1>2, <1>3, <1>5, <3>1 DEF Grown
    <3> QED BY <3>1
  <2>2. requests[d][k].number = j.number
    BY <1>2, <1>5, <2>1 DEF RowsKeep
  <2> QED BY <1>2, <1>3, <2>1, <2>2 DEF RowsKeep
<1> QED BY <1>4, <1>5 DEF d

\* If no item is added it is enough to look at the creator that moves.
LEMMA CombineUnique ==
  ASSUME IInv, IInv', RowsKeep, Grown, UniqueInv, items' \subseteq items,
         excused' = excused, NEW c \in Clients, Apart(c), RivalsFound(c)', NoRival(c)'
  PROVE  UniqueInv'
<1>1. \A e \in Clients \ {c} : RivalsFound(e)' /\ NoRival(e)'
  BY StaysUnrivaled DEF Apart
<1>2. UniqueIds'
  BY DEF UniqueInv, UniqueIds, Db
<1>3. FilesCounted'
  BY StaysCounted DEF UniqueInv
<1> QED BY <1>1, <1>2, <1>3 DEF UniqueInv

\* The steps at which a creator holds a number it has not written.
InHand == {"collide", "bind", "open", "fill"}

\* What the steps of a creator leave alone, and which of them lead on with a number.
LEMMA CreatorSteps ==
  ASSUME TypeOK, NEW c \in Clients, ClientStep(c), ~FillItemFile(c)
  PROVE  /\ Apart(c) /\ items' = items /\ excused' = excused
         /\ pc'[c] \in InHand =>
              \/ \E r \in Roots : CheckCollision(c, r)
              \/ ReserveNextNumber(c) \/ ResolveReservation(c) \/ DecideCollision(c)
              \/ BindRequestUid(c) \/ OpenItemFile(c)
<1> DEFINE Quiet == Apart(c) /\ items' = items /\ excused' = excused
<1> USE DEF TypeOK, ClientsType
<1>1. ASSUME Leave(c) PROVE Apart(c) /\ pc'[c] \notin InHand
  BY <1>1 DEF Leave, Goto, Apart, InHand
<1>2. ASSUME Refuse(c) PROVE Quiet /\ pc'[c] \notin InHand
  BY <1>1, <1>2 DEF Refuse, files, history
<1>3. ASSUME AcquireLock(c) \/ LockTimeout(c) PROVE Quiet /\ pc'[c] \notin InHand
  BY <1>2, <1>3 DEF AcquireLock, LockTimeout, Visit, Goto, Apart, InHand, files, history
<1>4. ASSUME NEW r \in Roots, FindCreatedRequest(c, r) PROVE Quiet /\ pc'[c] \notin InHand
  BY <1>2, <1>4 DEF FindCreatedRequest, Apart, InHand, files, history
<1>5. ASSUME NEW r \in Roots, CheckCollision(c, r) PROVE Quiet
  BY <1>5 DEF CheckCollision, Apart, files, history
<1>6. ASSUME Authorize(c) PROVE Quiet /\ pc'[c] \notin InHand
  <2>1. items' = items /\ excused' = excused
    BY <1>6 DEF Authorize, files, history
  <2>2. CASE Leave(c)
    BY <1>1, <2>1, <2>2
  <2>3. CASE ~Leave(c)
    BY <1>6, <2>1, <2>3 DEF Authorize, Goto, Apart, InHand
  <2> QED BY <2>2, <2>3
<1>7. ASSUME SeedSequence(c) \/ EnsureSequenceAtLeast(c) PROVE Quiet /\ pc'[c] \notin InHand
  BY <1>7 DEF SeedSequence, EnsureSequenceAtLeast, Goto, Apart, InHand, files, history
<1>8. ASSUME ReuseReservation(c) PROVE Quiet /\ pc'[c] \notin InHand
  <2>1. items' = items /\ excused' = excused
    BY <1>8 DEF ReuseReservation, files, history
  <2>2. CASE Leave(c)
    BY <1>1, <2>1, <2>2
  <2>3. CASE ~Leave(c)
    <3>1. \E s \in {slot'[c]} : slot' = [slot EXCEPT ![c] = s]
      BY <1>8, <2>3 DEF ReuseReservation
    <3> QED BY <1>8, <2>1, <2>3, <3>1 DEF ReuseReservation, Visit, Goto, Apart, InHand
  <2> QED BY <2>2, <2>3
<1>9. ASSUME ReserveNextNumber(c) PROVE Quiet
  BY <1>9 DEF ReserveNextNumber, Visit, Goto, Apart, files, history
<1>10. ASSUME ResolveReservation(c) PROVE Quiet
  <2>1. items' = items /\ excused' = excused
    BY <1>10 DEF ResolveReservation, files, history
  <2>2. CASE Leave(c)
    BY <1>1, <2>1, <2>2
  <2>3. CASE ~Leave(c)
    BY <1>10, <2>1, <2>3 DEF ResolveReservation, Visit, Goto, Apart
  <2> QED BY <2>2, <2>3
<1>11. ASSUME DecideCollision(c) PROVE Quiet
  <2>1. items' = items /\ excused' = excused
    BY <1>11 DEF DecideCollision, files, history
  <2>2. CASE Leave(c)
    BY <1>1, <2>1, <2>2
  <2>3. CASE ~Leave(c)
    BY <1>11, <2>1, <2>3 DEF DecideCollision, Goto, Apart
  <2> QED BY <2>2, <2>3
<1>12. ASSUME BindRequestUid(c) \/ OpenItemFile(c) PROVE Quiet
  BY <1>12 DEF BindRequestUid, OpenItemFile, Goto, Apart, files
<1>13. ASSUME CommitReservation(c) \/ WriteDuplicateAdmissionReceipt(c)
       PROVE  Quiet /\ pc'[c] \notin InHand
  BY <1>13 DEF CommitReservation, WriteDuplicateAdmissionReceipt, Goto, Apart, InHand, files,
     history
<1>14. ASSUME Finish(c) PROVE Quiet /\ pc'[c] \notin InHand
  BY <1>1, <1>14 DEF Finish, files
<1>15. ASSUME NEW i \in scan[c].found, Replay(c, i) PROVE Quiet /\ pc'[c] \notin InHand
  <2>1. Leave(c) /\ items' = items /\ excused' = excused
    BY <1>15 DEF Replay
  <2> QED BY <1>1, <2>1
<1> HIDE DEF Quiet
<1> QED
  BY <1>3, <1>4, <1>5, <1>6, <1>7, <1>8, <1>9, <1>10, <1>11, <1>12, <1>13, <1>14,
     <1>15
     DEF ClientStep, Quiet

\* A creator looks at every checkout of its database.
LEMMA ScopeCovers ==
  ASSUME NEW r \in Roots, NEW q \in Roots, Db(q) = Db(r)
  PROVE  q \in Scope(r)
  BY DEF Db, Scope

\* A creator that starts the collision check has all rivals before it.
LEMMA CheckBegins ==
  ASSUME IInv, NEW c \in Clients, Visit(c, "collide"), items' = items,
         \A j \in items : Rival(c, j)' => ~Merges
  PROVE  RivalsFound(c)' /\ NoRival(c)'
<1>1. pc'[c] = "collide" /\ scan'[c].todo = Scope(RootOf[c])
  BY DEF Visit, Goto, IInv, TypeOK, ClientsType, NoScan
<1>2. \A j \in items : Rival(c, j)' => j.root \in Scope(RootOf[c])
  <2> SUFFICES ASSUME NEW j \in items, Rival(c, j)' PROVE j.root \in Scope(RootOf[c])
    OBVIOUS
  <2>1. j.root \in Roots /\ RootOf[c] \in Roots
    BY RootOfAssumption DEF IInv, TypeOK, FilesType, Item
  <2>2. Db(j.root) = Db(RootOf[c])
    BY DEF Rival, MyDb, Db
  <2> QED BY <2>1, <2>2, ScopeCovers
<1> QED BY <1>1, <1>2 DEF RivalsFound, NoRival, Merges

\* A step of a creator other than the write of its file.
LEMMA CreatorUnique ==
  ASSUME IInv, IInv', HandInv, UniqueInv, Next, NEW c \in Clients, ClientStep(c),
         ~FillItemFile(c)
  PROVE  UniqueInv'
<1>1. /\ Apart(c) /\ items' = items /\ excused' = excused
      /\ pc'[c] \in InHand =>
              \/ \E r \in Roots : CheckCollision(c, r)
              \/ ReserveNextNumber(c) \/ ResolveReservation(c) \/ DecideCollision(c)
              \/ BindRequestUid(c) \/ OpenItemFile(c)
  BY CreatorSteps DEF IInv
<1>2. RowsKeep /\ Grown
  BY RowsStep, AlwaysGrown DEF IInv
<1>3. RivalsFound(c) /\ NoRival(c)
  BY DEF UniqueInv
<1>4. ASSUME RivalsFound(c)' /\ NoRival(c)' PROVE UniqueInv'
  BY <1>1, <1>2, <1>4, CombineUnique
<1>5. CASE pc'[c] \notin InHand
  BY <1>4, <1>5 DEF InHand, RivalsFound, NoRival
<1>6. ASSUME NEW r \in Roots, CheckCollision(c, r) PROVE UniqueInv'
  <2> DEFINE hit == scan[c].hit \/ \E i \in items : i.root = r /\ i.number = slot[c].number
  <2>3. /\ pc[c] = "collide" /\ UNCHANGED <<pc, call, slot, excused, requests>>
        /\ scan' = [scan EXCEPT ![c].todo = scan[c].todo \ {r}, ![c].hit = hit]
    BY <1>6 DEF CheckCollision, history, database
  <2>4. /\ scan[c].hit => hit
        /\ \A i \in items : i.root = r /\ i.number = slot[c].number => hit
    OBVIOUS
  <2> HIDE DEF hit
  <2>1. scan'[c].todo = scan[c].todo \ {r} /\ scan'[c].hit = hit
    BY <2>3 DEF IInv, TypeOK, ClientsType, Scan
  <2>2. \A j \in items : Rival(c, j)' => Rival(c, j) /\ j.number = slot[c].number
    BY <2>3 DEF Rival, MyRow, MyDb, Keyed, Db
  <2> QED BY <1>1, <1>3, <1>4, <2>1, <2>2, <2>3, <2>4 DEF RivalsFound, NoRival, Merges
<1>7. CASE ReserveNextNumber(c)
  <2> DEFINE n == Advance(seq[MyDb(c)])
  <2>1. Visit(c, "collide") /\ slot'[c].number = n
    BY <1>7 DEF ReserveNextNumber, IInv, TypeOK, ClientsType, Slot
  <2>2. n > seq[MyDb(c)] /\ seq[MyDb(c)] \in Int /\ n \in Int /\ MyDb(c)' = MyDb(c)
    BY DbFacts DEF Advance, NoRow, IInv, TypeOK, DatabaseType
  <2> HIDE DEF n
  <2>3. ASSUME NEW j \in items, Rival(c, j)', Merges PROVE FALSE
    <3>1. Db(j.root) = MyDb(c) /\ j.number = n
      BY <2>1, <2>2, <2>3 DEF Rival, Db
    <3>2. j.number <= seq[MyDb(c)]
      BY <2>3, <3>1 DEF UniqueInv, FilesCounted
    <3> QED BY <2>2, <3>1, <3>2
  <2> QED BY <1>1, <1>4, <2>1, <2>3, CheckBegins
<1>8. CASE ResolveReservation(c) /\ pc'[c] \in InHand
  <2>1. /\ pc[c] = "rescan" /\ Visit(c, "collide")
        /\ UNCHANGED <<call, slot, requests, excused>>
    BY <1>8 DEF ResolveReservation, Leave, Goto, InHand, IInv, TypeOK, ClientsType,
       database, history
  <2>2. Keyed(c) /\ MyRow(c) # NoEntry /\ slot[c].number = MyRow(c).number
    BY <2>1 DEF IInv, ClientInv, ClientOK, KeyedOnly, HasNumber
  <2>3. call[c].key \in Keys
    BY <2>2 DEF IInv, TypeOK, ClientsType, Call, Keyed
  <2>4. ASSUME NEW j \in items, Rival(c, j)', Merges PROVE FALSE
    <3>1. Rival(c, j)
      BY <2>1, <2>4 DEF Rival, MyRow, MyDb, Keyed, Db
    <3>2. MyRow(c).uid # Unbound /\ MyRow(c).uid = j.uid
      BY <2>2, <2>3, <2>4, <3>1 DEF UniqueInv, FilesCounted, Rival, MyRow
    <3> QED BY <2>2, <3>1, <3>2 DEF Rival
  <2> QED BY <1>1, <1>4, <2>1, <2>4, CheckBegins
<1>9. CASE DecideCollision(c) /\ pc'[c] \in InHand
  <2>1. /\ pc[c] = "collide" /\ scan[c].todo = {} /\ ~scan[c].hit
        /\ pc'[c] \in {"bind", "open"} /\ UNCHANGED <<call, slot, requests, excused>>
    BY <1>9 DEF DecideCollision, Collides, Leave, Goto, InHand, IInv, TypeOK, ClientsType,
       database, history
  <2>2. \A j \in items : Rival(c, j)' => Rival(c, j)
    BY <2>1 DEF Rival, MyRow, MyDb, Keyed, Db
  <2> QED BY <1>1, <1>3, <1>4, <2>1, <2>2 DEF RivalsFound, NoRival
<1>10. CASE BindRequestUid(c) \/ OpenItemFile(c)
  <2>1. /\ pc[c] \in {"bind", "open"} /\ pc'[c] \in {"open", "fill"} /\ call' = call
        /\ slot'[c].number = slot[c].number
    BY <1>10 DEF BindRequestUid, OpenItemFile, Goto, IInv, TypeOK, ClientsType, Slot
  <2>2. \A j \in items : Rival(c, j)' => Rival(c, j)
    BY <1>1, <1>2, <2>1, RivalKept DEF HasNumber
  <2> QED BY <1>1, <1>3, <1>4, <2>1, <2>2 DEF RivalsFound, NoRival
<1> QED BY <1>1, <1>5, <1>6, <1>7, <1>8, <1>9, <1>10

\* The write of the file of a creator: its number is its own.
LEMMA FillUnique ==
  ASSUME IInv, HandInv, UniqueInv, NEW c \in Clients, FillItemFile(c)
  PROVE  UniqueInv'
<1> DEFINE new == [root |-> RootOf[c], number |-> slot[c].number, uid |-> slot[c].uid,
                   key |-> call[c].key, payload |-> call[c].payload]
<1>1. /\ items' = items \cup {new} /\ pc[c] = "fill" /\ Apart(c) /\ pc'[c] = "commit"
      /\ UNCHANGED <<seq, requests, call, slot, scan, excused>>
  BY DEF FillItemFile, Goto, Apart, IInv, TypeOK, ClientsType, database, history
<1>2. /\ new.root = RootOf[c] /\ Db(new.root) = MyDb(c)
      /\ new.number = slot[c].number /\ new.uid = slot[c].uid
  BY DEF MyDb
<1> HIDE DEF new
<1>3. Keyed(c) => /\ call[c].key \in Keys /\ MyRow(c) # NoEntry
                  /\ slot[c].number = MyRow(c).number
                  /\ slot[c].uid # Unbound /\ slot[c].uid = MyRow(c).uid
  BY <1>1 DEF IInv, ClientInv, ClientOK, HasNumber, HasUid, TypeOK, ClientsType, Call, Keyed
<1>4. UniqueIds'
  <2>1. ASSUME NEW j \in items, Db(j.root) = MyDb(c), j.number = slot[c].number,
               j.number \notin excused
        PROVE  j.uid = slot[c].uid
    BY <1>1, <1>3, <2>1 DEF UniqueInv, NoRival, Rival
  <2>2. \A i, j \in items : Db(i.root) = Db(j.root) /\ i.number = j.number
                            /\ i.number \notin excused => i.uid = j.uid
    BY DEF UniqueInv, UniqueIds
  <2> QED BY <1>1, <1>2, <2>1, <2>2 DEF UniqueIds, Db
<1>5. \A e \in Clients : RivalsFound(e)' /\ NoRival(e)'
  <2> SUFFICES ASSUME NEW e \in Clients, pc'[e] \in InHand
               PROVE  RivalsFound(e)' /\ NoRival(e)'
    BY DEF RivalsFound, NoRival, InHand
  <2>1. e # c /\ pc'[e] = pc[e]
    BY <1>1 DEF Apart, InHand
  <2>2. \A j : Rival(e, j)' <=> Rival(e, j)
    BY <1>1 DEF Rival, MyRow, MyDb, Keyed, Db
  <2>3. ~Rival(e, new)
    <3>1. MyDb(e) = MyDb(c) => slot[c].number # slot[e].number
      BY <1>1, <2>1, NumbersDiffer DEF HasNumber, InHand
    <3> QED BY <1>2, <3>1 DEF Rival
  <2>4. RivalsFound(e) /\ NoRival(e)
    BY DEF UniqueInv
  <2> QED BY <1>1, <2>1, <2>2, <2>3, <2>4 DEF RivalsFound, NoRival, Merges
<1>6. FilesCounted'
  <2>1. new.number <= seq[MyDb(c)]
    BY <1>1, <1>2 DEF HandInv, OwnNumber, HasNumber
  <2>2. ASSUME NEW k \in Keys, requests[MyDb(c)][k] # NoEntry,
               requests[MyDb(c)][k].number = new.number
        PROVE  requests[MyDb(c)][k].uid # Unbound /\ requests[MyDb(c)][k].uid = new.uid
    <3>1. Keyed(c)
      BY <1>1, <1>2, <2>2 DEF HandInv, OwnNumber, HasNumber
    <3>2. MyDb(c) \in Databases
      BY DbFacts DEF IInv
    <3>3. k = call[c].key
      BY <1>2, <1>3, <2>2, <3>1, <3>2 DEF IInv, RowsInv, MyRow
    <3> QED BY <1>2, <1>3, <3>1, <3>3 DEF MyRow
  <2>3. FilesCounted
    BY DEF UniqueInv
  <2> QED BY <1>1, <1>2, <2>1, <2>2, <2>3 DEF FilesCounted, Merges, Db
<1> QED BY <1>4, <1>5, <1>6 DEF UniqueInv

\* An item that git brings from another worktree: under these rules it is in
\* nobody's way there either.
LEMMA MergeUnique ==
  ASSUME IInv, UniqueInv, NEW i \in items, NEW r \in Roots, Merge(i, r)
  PROVE  UniqueInv'
<1> DEFINE new == [i EXCEPT !.root = r]
<1>1. /\ items' = items \cup {new} /\ Merges
      /\ UNCHANGED <<seq, requests, pc, call, slot, scan, excused>>
  BY DEF Merge, Merges, database, clients, history
<1>2. /\ new.root = r /\ Db(new.root) = Db(i.root)
      /\ new.number = i.number /\ new.uid = i.uid
  <2>1. i \in Item
    BY DEF IInv, TypeOK, FilesType
  <2> QED BY <1>1, <2>1 DEF Item, Db, Merges
<1> HIDE DEF new
<1>3. \A e \in Clients : \A j : Rival(e, j)' <=> Rival(e, j)
  BY <1>1 DEF Rival, MyRow, MyDb, Keyed, Db
<1>4. \A e \in Clients : Rival(e, new) <=> Rival(e, i)
  BY <1>2 DEF Rival
<1>5. UniqueIds'
  BY <1>1, <1>2 DEF UniqueInv, UniqueIds, Db
<1>6. \A e \in Clients : RivalsFound(e)' /\ NoRival(e)'
  <2> SUFFICES ASSUME NEW e \in Clients PROVE RivalsFound(e)' /\ NoRival(e)'
    OBVIOUS
  <2>1. pc[e] \in InHand => \A j \in items : ~Rival(e, j)
    BY <1>1 DEF UniqueInv, RivalsFound, NoRival, InHand
  <2> QED BY <1>1, <1>3, <1>4, <2>1 DEF RivalsFound, NoRival, InHand
<1>7. FilesCounted'
  BY <1>1, <1>2 DEF UniqueInv, FilesCounted, Db
<1> QED BY <1>5, <1>6, <1>7 DEF UniqueInv

\* An item dropped on a number: the number was free, or is excused from now on.
LEMMA DropUnique ==
  ASSUME IInv, UniqueInv, ~Merges, NEW new \in Item, NEW old, old \subseteq items,
         items' = old \cup {new}, UNCHANGED <<database, clients>>,
         excused' = IF Claimed(new.number) THEN excused \cup {new.number} ELSE excused
  PROVE  UniqueInv'
<1>1. UNCHANGED <<seq, requests, pc, call, slot, scan>>
  BY DEF database, clients
<1>2. excused \subseteq excused'
  OBVIOUS
<1>3. new.number \notin excused' =>
        /\ \A j \in items : j.number # new.number
        /\ \A e \in Clients : pc[e] # "idle" => slot[e].number # new.number
  BY DEF Claimed, NumbersIn, Active, IInv, TypeOK, FilesType, Item
<1>4. \A e \in Clients : \A j : Rival(e, j)' => Rival(e, j)
  BY <1>1, <1>2 DEF Rival, MyRow, MyDb, Keyed, Db
<1>5. UniqueIds'
  BY <1>2, <1>3 DEF UniqueInv, UniqueIds, Db
<1>6. \A e \in Clients : RivalsFound(e)' /\ NoRival(e)'
  <2> SUFFICES ASSUME NEW e \in Clients, pc[e] \in InHand
               PROVE  RivalsFound(e)' /\ NoRival(e)'
    BY <1>1 DEF RivalsFound, NoRival, InHand
  <2>1. ~Rival(e, new)'
    BY <1>1, <1>3 DEF Rival, InHand
  <2> QED BY <1>1, <1>4, <2>1 DEF UniqueInv, RivalsFound, NoRival, Merges
<1>7. FilesCounted'
  BY DEF FilesCounted, Merges
<1> QED BY <1>5, <1>6, <1>7 DEF UniqueInv

\* Every step keeps display IDs unique, unless items that the sequence did not count
\* can be moved from one worktree to another behind a creator that looks for them.
LEMMA UniqueStep ==
  ASSUME Counted \/ ~Merges, IInv, IInv', HandInv, UniqueInv, [Next]_vars
  PROVE  UniqueInv'
<1>1. ASSUME UNCHANGED <<database, clients, excused>>, items' \subseteq items
      PROVE  UniqueInv'
  <2>1. UNCHANGED <<seq, requests, pc, call, slot, scan, excused>>
    BY <1>1 DEF database, clients
  <2>2. \A e \in Clients : \A j : Rival(e, j)' <=> Rival(e, j)
    BY <2>1 DEF Rival, MyRow, MyDb, Keyed, Db
  <2> QED BY <1>1, <2>1, <2>2
         DEF UniqueInv, UniqueIds, RivalsFound, NoRival, FilesCounted, Merges, Db
<1>2. CASE UNCHANGED vars
  BY <1>1, <1>2 DEF vars, files, history
<1>3. ASSUME Next, NEW c \in Clients, Apart(c), pc'[c] \notin InHand,
             UNCHANGED <<items, excused>>
      PROVE  UniqueInv'
  <2>1. RivalsFound(c)' /\ NoRival(c)'
    BY <1>3 DEF RivalsFound, NoRival, InHand
  <2> QED BY <1>3, <2>1, RowsStep, AlwaysGrown, CombineUnique DEF IInv
<1>4. ASSUME Next, NEW c \in Clients, NEW k \in Keys \cup {NoKey}, NEW p \in Payloads,
             Begin(c, k, p)
      PROVE  UniqueInv'
  BY <1>3, <1>4 DEF Begin, Goto, Apart, InHand, files, history, IInv, TypeOK, ClientsType
<1>5. ASSUME Next, NEW c \in Clients, Crash(c) PROVE UniqueInv'
  BY <1>3, <1>5 DEF Crash, Leave, Goto, Apart, InHand, files, IInv, TypeOK, ClientsType
<1>6. ASSUME Next, NEW c \in Clients, ClientStep(c) PROVE UniqueInv'
  BY <1>6, CreatorUnique, FillUnique
<1>7. ASSUME NEW i \in items, NEW r \in Roots, Merge(i, r) PROVE UniqueInv'
  BY <1>7, MergeUnique
<1>8. ASSUME NEW r \in Roots, NEW n \in 1..MaxNumber, NEW k \in Keys \cup {NoKey},
             NEW p \in Payloads, Arrive(r, n, k, p)
      PROVE  UniqueInv'
  <2> DEFINE new == [root |-> r, number |-> n, uid |-> -(arrivals + 1), key |-> k,
                     payload |-> p]
  <2>1. new \in Item /\ new.number = n
    BY BoundsAssumption DEF Item, IInv, TypeOK, HistoryType
  <2>2. /\ items' = items \cup {new} /\ UNCHANGED <<database, clients>>
        /\ excused' = IF Claimed(n) THEN excused \cup {n} ELSE excused
        /\ ~Merges
    BY <1>8 DEF Arrive, Counted
  <2> HIDE DEF new
  <2> QED BY <2>1, <2>2, DropUnique
<1>9. ASSUME NEW i \in items, NEW n \in 1..MaxNumber, Remap(i, n) PROVE UniqueInv'
  <2> DEFINE new == [i EXCEPT !.number = n]
  <2>1. new \in Item /\ new.number = n
    BY BoundsAssumption DEF Item, IInv, TypeOK, FilesType
  <2>2. /\ items' = (items \ {i}) \cup {new} /\ UNCHANGED <<database, clients>>
        /\ excused' = IF Claimed(n) THEN excused \cup {n} ELSE excused
        /\ ~Merges
    BY <1>9 DEF Remap, Counted
  <2> HIDE DEF new
  <2> QED BY <2>1, <2>2, DropUnique
<1>10. ASSUME \/ \E i \in items : Trash(i)
              \/ \E f \in torn : DiscardTorn(f)
       PROVE  UniqueInv'
  BY <1>1, <1>10 DEF Trash, DiscardTorn, history
<1> QED BY <1>2, <1>4, <1>5, <1>6, <1>7, <1>8, <1>9, <1>10 DEF Next, Others

\* No two items of this clone ever get one display ID from the create pipeline, for
\* any number of creators, checkouts, crashes and commands around them: in worktrees
\* as long as every number there was counted by the shared sequence, elsewhere
\* whatever arrives.
THEOREM UniqueIdsAlways ==
  ASSUME Counted \/ ~Merges
  PROVE  Spec => []UniqueIds
<1>1. Init => UniqueInv
  BY DEF Init, UniqueInv, UniqueIds, RivalsFound, NoRival, FilesCounted
<1>2. IInv /\ IInv' /\ HandInv /\ UniqueInv /\ [Next]_vars => UniqueInv'
  BY UniqueStep
<1>3. UniqueInv => UniqueIds
  BY DEF UniqueInv
<1> QED BY <1>1, <1>2, <1>3, HandsApart, PTL DEF Spec

===============================================================================
