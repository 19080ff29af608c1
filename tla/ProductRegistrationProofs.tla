------------------------ MODULE ProductRegistrationProofs ------------------------
(***************************************************************************)
(* Proofs about ProductRegistration, for every set of processes and products *)
(* and any number of plans, edits, drifts, crashes and reused pids.          *)
(***************************************************************************)
EXTENDS ProductRegistration, TLAPS

USE NamesAssumption, BoundsAssumption

(* The inductive invariant.  Each part names what the next ones rest on. *)

\* The guard is held from its acquisition on, the directory inside the lock.
HeldBy(p) ==
    /\ pc[p] \in Inside \cup {"claim"} => guard = p
    /\ pc[p] \in Inside => dir = p
Held == \A p \in Procs : HeldBy(p)

\* The steps between which the evidence of the plan is there.
Begun == {"mark", "recheck", "undo"} \cup Again \cup Common

\* A command runs a reviewed plan; which of them have evidence, and that the plan
\* whose evidence is about to be published has none.
PlanKnown(p) ==
    /\ pc[p] # "idle" => plan[p] \in reviewed
    /\ pc[p] \in Begun => plan[p] \in DOMAIN journal
    /\ pc[p] \in {"prepare", "lock", "claim"} /\ retry[p] => plan[p] \in DOMAIN journal
    /\ pc[p] = "evidence" => plan[p] \notin DOMAIN journal
    /\ pc[p] \in {"idle", "prepare"} => ~retry[p]
PlansKnown == \A p \in Procs : PlanKnown(p)

\* What a process works at inside the lock is not applied yet.
NotAppliedBy(p) == pc[p] \in Begun \ {"begin"} => journal[plan[p]].status # "applied"
NotApplied == \A p \in Procs : NotAppliedBy(p)

\* Nobody else touches the blocks between the look at the config and its change.
BlocksKnownBy(p) ==
    /\ pc[p] \in {"check", "publish"} => config.blocks = plan[p].before.blocks
    /\ pc[p] \in {"conclude", "restore"} => config.blocks = After(plan[p]).blocks
BlocksKnown == \A p \in Procs : BlocksKnownBy(p)

\* Every product of the config that a plan was made for has evidence.
EvidenceOfPlans ==
    \A pl \in reviewed : \A product \in Registered(pl.before) :
        \E x \in DOMAIN journal : x.product = product

Locked == TypeOK /\ Held /\ PlansKnown
IInv == Locked /\ NotApplied /\ BlocksKnown /\ EvidenceFirst /\ EvidenceOfPlans
             /\ AppliedUnlessRival

-------------------------------------------------------------------------------
(* The data *)

\* After(pl) appends the block of the product to the config of the plan.
LEMMA AfterFacts ==
    ASSUME NEW pl \in Plan
    PROVE  /\ pl.before \in Config /\ After(pl) \in Config /\ pl.product \in Products
           /\ Registered(After(pl)) = Registered(pl.before) \cup {pl.product}
<1>1. pl.before \in Config /\ pl.product \in Products
  BY DEF Plan
<1>2. After(pl) = [blocks |-> Append(pl.before.blocks, pl.product), other |-> pl.before.other]
  BY DEF After
<1>3. After(pl) \in Config
  BY <1>1, <1>2 DEF Config
<1>4. Registered(After(pl)) = Registered(pl.before) \cup {pl.product}
  <2> DEFINE s == pl.before.blocks
  <2>1. s \in Seq(Products) /\ Len(s) \in Nat
    BY <1>1 DEF Config
  <2>2. /\ Len(Append(s, pl.product)) = Len(s) + 1
        /\ \A i \in 1..Len(s) : Append(s, pl.product)[i] = s[i]
        /\ Append(s, pl.product)[Len(s) + 1] = pl.product
    BY <2>1, <1>1
  <2>3. ASSUME NEW x PROVE (\E i \in 1..Len(s) + 1 : Append(s, pl.product)[i] = x)
                     <=> x = pl.product \/ \E i \in 1..Len(s) : s[i] = x
    <3>1. ASSUME NEW i \in 1..Len(s) + 1, Append(s, pl.product)[i] = x
          PROVE  x = pl.product \/ \E k \in 1..Len(s) : s[k] = x
      <4>1. CASE i = Len(s) + 1
        BY <4>1, <3>1, <2>2
      <4>2. CASE i # Len(s) + 1
        <5>1. i \in 1..Len(s)
          BY <4>2, <2>1
        <5> QED BY <5>1, <3>1, <2>2
      <4> QED BY <4>1, <4>2
    <3>2. CASE x = pl.product
      <4>1. Len(s) + 1 \in 1..Len(s) + 1
        BY <2>1
      <4> QED BY <3>2, <4>1, <2>2
    <3>3. ASSUME NEW k \in 1..Len(s), s[k] = x
          PROVE  \E i \in 1..Len(s) + 1 : Append(s, pl.product)[i] = x
      <4>1. k \in 1..Len(s) + 1
        BY <2>1
      <4> QED BY <3>3, <4>1, <2>2
    <3> QED BY <3>1, <3>2, <3>3
  <2> QED BY <1>2, <2>2, <2>3 DEF Registered
<1> QED BY <1>1, <1>3, <1>4

\* What a write of a journal leaves.
LEMMA WriteFacts ==
    ASSUME NEW pl, NEW j, Write(pl, j)
    PROVE  /\ DOMAIN journal' = DOMAIN journal \cup {pl}
           /\ journal'[pl] = j
           /\ \A x \in DOMAIN journal : x # pl => journal'[x] = journal[x]
           /\ journal' = [x \in DOMAIN journal' |-> journal'[x]]
BY DEF Write

\* What a new attempt leaves.
LEMMA AttemptFacts ==
    ASSUME NEW pl, Attempt(pl)
    PROVE  DOMAIN journal' = DOMAIN journal \cup {pl} /\ journal'[pl].status = "recovery_required"
<1>1. /\ DOMAIN journal' = DOMAIN journal \cup {pl}
      /\ journal'[pl] = [status |-> "recovery_required", attempts |-> journal[pl].attempts + 1]
  BY DEF Attempt, Write
<1> QED BY <1>1

\* A write of a journal of a reviewed plan keeps the type.
LEMMA WriteType ==
    ASSUME TypeOK, NEW pl \in reviewed, NEW j \in Journal, Write(pl, j), reviewed' = reviewed
    PROVE  DOMAIN journal' \subseteq reviewed' /\ journal' \in [DOMAIN journal' -> Journal]
<1> DEFINE D == DOMAIN journal
<1>1. /\ DOMAIN journal' = D \cup {pl} /\ journal'[pl] = j
      /\ \A x \in D : x # pl => journal'[x] = journal[x]
  BY WriteFacts
<1>0. journal' = [x \in DOMAIN journal' |-> journal'[x]]
  BY WriteFacts
<1>2. \A x \in D : journal[x] \in Journal
  BY DEF TypeOK
<1>3. \A x \in DOMAIN journal' : journal'[x] \in Journal
  BY <1>1, <1>2
<1>4. D \subseteq reviewed
  BY DEF TypeOK
<1>5. DOMAIN journal' \subseteq reviewed'
  BY <1>1, <1>4
<1>6. journal' \in [DOMAIN journal' -> Journal]
  BY <1>0, <1>3
<1> QED BY <1>5, <1>6

-------------------------------------------------------------------------------
(* One step per action *)

\* The types.
LEMMA TypeStep ==
    ASSUME TypeOK, PlansKnown, [Next]_vars
    PROVE  TypeOK'
<1>1. CASE UNCHANGED vars
  BY <1>1 DEF TypeOK, Steps, Inside, First, Again, Common, vars, locks, call, rest
<1>2. ASSUME NEW q \in Products, Review(q) PROVE TypeOK'
  <2>1. Revisions(q, config) \in [Products -> Nat]
    BY DEF TypeOK, Revisions
  <2>2. [product |-> q, before |-> config, sources |-> Revisions(q, config)] \in Plan
    BY <2>1 DEF TypeOK, Plan
  <2> QED BY <2>2, <1>2 DEF TypeOK, Review, locks, call
<1>3. ASSUME NEW q \in Products, Edit(q) PROVE TypeOK'
  <2>1. source' \in [Products -> Nat] /\ edits' \in Nat
    BY <1>3 DEF TypeOK, Edit
  <2> QED BY <2>1, <1>3 DEF TypeOK, Edit, locks, call
<1>4. ASSUME NEW p \in Procs, Start(p) PROVE TypeOK'
  <2>1. \E pl \in Plan : plan' = [plan EXCEPT ![p] = pl]
    BY <1>4 DEF Start, TypeOK
  <2> QED BY <2>1, <1>4 DEF TypeOK, Steps, Inside, First, Again, Common, Start, Goto, Stop, End, Leave, Throw, locks, call, rest
<1>5. ASSUME NEW p \in Procs, Repeat(p) PROVE TypeOK'
  <2>1. \E pl \in Plan : plan' = [plan EXCEPT ![p] = pl]
    BY <1>5 DEF Repeat, TypeOK
  <2> QED BY <2>1, <1>5 DEF TypeOK, Steps, Inside, First, Again, Common, Repeat, Goto, Stop, End, Leave, Throw, locks, call, rest
<1>6. ASSUME NEW p \in Procs, Crash(p) PROVE TypeOK'
  <2>1. guard' \in Procs \cup {Free} /\ dir' \in Procs \cup {Free, Dead, Reused}
    BY <1>6 DEF TypeOK, Crash
  <2>2. pc' \in [Procs -> Steps]
    BY <1>6 DEF TypeOK, Crash, Stop, Steps
  <2>3. plan' \in [Procs -> Plan \cup {NoPlan}] /\ retry' \in [Procs -> BOOLEAN]
    BY <1>6 DEF TypeOK, Crash, Stop
  <2>4. crashes' \in Nat
    BY <1>6 DEF TypeOK, Crash
  <2> QED BY <2>1, <2>2, <2>3, <2>4, <1>6 DEF TypeOK, Crash
<1>7. ASSUME NEW p \in Procs, Prepare(p) PROVE TypeOK'
  BY <1>7 DEF TypeOK, Steps, Inside, First, Again, Common, Prepare, Goto, Stop, End, Leave, Throw, Mark, Attempt, locks, call, rest
<1>8. ASSUME NEW p \in Procs, TakeGuard(p) PROVE TypeOK'
  BY <1>8 DEF TypeOK, Steps, Inside, First, Again, Common, TakeGuard, Goto, Stop, End, Leave, Throw, Mark, Attempt, locks, call, rest
<1>9. ASSUME NEW p \in Procs, Claim(p) PROVE TypeOK'
  BY <1>9 DEF TypeOK, Steps, Inside, First, Again, Common, Claim, Goto, Stop, End, Leave, Throw, Mark, Attempt, locks, call, rest
<1>10. ASSUME NEW p \in Procs, Admit(p) PROVE TypeOK'
  BY <1>10 DEF TypeOK, Steps, Inside, First, Again, Common, Admit, Goto, Stop, End, Leave, Throw, Mark, Attempt, locks, call, rest
<1>11. ASSUME NEW p \in Procs, PublishEvidence(p) PROVE TypeOK'
  <2>1. plan[p] \in reviewed /\ [status |-> "prepared", attempts |-> 1] \in Journal
    BY <1>11 DEF TypeOK, PlansKnown, PlanKnown, PublishEvidence, Journal, Statuses
  <2>2. DOMAIN journal' \subseteq reviewed' /\ journal' \in [DOMAIN journal' -> Journal]
    BY <2>1, <1>11, WriteType DEF PublishEvidence, rest
  <2> QED BY <2>2, <1>11 DEF TypeOK, Steps, Inside, First, Again, Common, PublishEvidence, Goto, Stop, End, Leave, Throw, locks, call, rest
<1>12. ASSUME NEW p \in Procs, MarkPublishing(p) PROVE TypeOK'
  <2>1. plan[p] \in reviewed /\ plan[p] \in DOMAIN journal /\ journal[plan[p]] \in Journal
    BY <1>12 DEF TypeOK, PlansKnown, PlanKnown, MarkPublishing, Begun, Again, Common
  <2>2. CASE journal' = journal
    BY <2>2, <1>12 DEF TypeOK, Steps, Inside, First, Again, Common, MarkPublishing, Goto, Stop, End, Leave, Throw, locks, call, rest
  <2>3. CASE Write(plan[p], [journal[plan[p]] EXCEPT !.status = "publishing"])
    <3>1. [journal[plan[p]] EXCEPT !.status = "publishing"] \in Journal
      BY <2>1, <2>3, <1>12 DEF Journal, Statuses, MarkPublishing, Exhausted
    <3>2. DOMAIN journal' \subseteq reviewed' /\ journal' \in [DOMAIN journal' -> Journal]
      BY <2>1, <2>3, <3>1, <1>12, WriteType DEF MarkPublishing, rest
    <3> QED BY <3>2, <1>12 DEF TypeOK, Steps, Inside, First, Again, Common, MarkPublishing, Goto, Stop, End, Leave, Throw, locks, call, rest
  <2> QED BY <2>2, <2>3, <1>12 DEF MarkPublishing, Mark, Attempt
<1>13. ASSUME NEW p \in Procs, Recheck(p) PROVE TypeOK'
  BY <1>13 DEF TypeOK, Steps, Inside, First, Again, Common, Recheck, Goto, Stop, End, Leave, Throw, Mark, Attempt, locks, call, rest
<1>14. ASSUME NEW p \in Procs, BeginRecovery(p) PROVE TypeOK'
  <2>1. plan[p] \in reviewed /\ plan[p] \in DOMAIN journal /\ journal[plan[p]] \in Journal
    BY <1>14 DEF TypeOK, PlansKnown, PlanKnown, BeginRecovery, Begun, Again, Common
  <2>2. CASE journal' = journal
    BY <2>2, <1>14 DEF TypeOK, Steps, Inside, First, Again, Common, BeginRecovery, Goto, Stop, End, Leave, Throw, locks, call, rest
  <2>3. CASE ~Exhausted(plan[p]) /\ Write(plan[p], [status |-> "recovery_required", attempts |-> journal[plan[p]].attempts + 1])
    <3>1. [status |-> "recovery_required", attempts |-> journal[plan[p]].attempts + 1] \in Journal
      BY <2>1, <2>3, <1>14 DEF Journal, Statuses, BeginRecovery, Exhausted
    <3>2. DOMAIN journal' \subseteq reviewed' /\ journal' \in [DOMAIN journal' -> Journal]
      BY <2>1, <2>3, <3>1, <1>14, WriteType DEF BeginRecovery, rest
    <3> QED BY <3>2, <1>14 DEF TypeOK, Steps, Inside, First, Again, Common, BeginRecovery, Goto, Stop, End, Leave, Throw, locks, call, rest
  <2> QED BY <2>2, <2>3, <1>14 DEF BeginRecovery, Mark, Attempt
<1>15. ASSUME NEW p \in Procs, ReadConfig(p) PROVE TypeOK'
  BY <1>15 DEF TypeOK, Steps, Inside, First, Again, Common, ReadConfig, Goto, Stop, End, Leave, Throw, Mark, Attempt, locks, call, rest
<1>16. ASSUME NEW p \in Procs, Check(p) PROVE TypeOK'
  BY <1>16 DEF TypeOK, Steps, Inside, First, Again, Common, Check, Goto, Stop, End, Leave, Throw, Mark, Attempt, locks, call, rest
<1>17. ASSUME NEW p \in Procs, PublishConfig(p) PROVE TypeOK'
  <2>1. plan[p] \in Plan
    BY <1>17 DEF TypeOK, PlansKnown, PlanKnown, PublishConfig
  <2>2. config' \in Config
    BY <2>1, <1>17, AfterFacts DEF PublishConfig
  <2> QED BY <2>2, <1>17 DEF TypeOK, Steps, Inside, First, Again, Common, PublishConfig, Goto, Stop, End, Leave, Throw, locks, call, rest
<1>18. ASSUME NEW p \in Procs, Verify(p) PROVE TypeOK'
  BY <1>18 DEF TypeOK, Steps, Inside, First, Again, Common, Verify, Goto, Stop, End, Leave, Throw, Mark, Attempt, locks, call, rest
<1>19. ASSUME NEW p \in Procs, Conclude(p) PROVE TypeOK'
  <2>1. plan[p] \in reviewed /\ plan[p] \in DOMAIN journal /\ journal[plan[p]] \in Journal
    BY <1>19 DEF TypeOK, PlansKnown, PlanKnown, Conclude, Begun, Again, Common
  <2>2. CASE journal' = journal
    BY <2>2, <1>19 DEF TypeOK, Steps, Inside, First, Again, Common, Conclude, Goto, Stop, End, Leave, Throw, locks, call, rest
  <2>3. CASE Write(plan[p], [journal[plan[p]] EXCEPT !.status = "applied"])
    <3>1. [journal[plan[p]] EXCEPT !.status = "applied"] \in Journal
      BY <2>1, <2>3, <1>19 DEF Journal, Statuses, Conclude, Exhausted
    <3>2. DOMAIN journal' \subseteq reviewed' /\ journal' \in [DOMAIN journal' -> Journal]
      BY <2>1, <2>3, <3>1, <1>19, WriteType DEF Conclude, rest
    <3> QED BY <3>2, <1>19 DEF TypeOK, Steps, Inside, First, Again, Common, Conclude, Goto, Stop, End, Leave, Throw, locks, call, rest
  <2> QED BY <2>2, <2>3, <1>19 DEF Conclude, Mark, Attempt
<1>20. ASSUME NEW p \in Procs, Undo(p) PROVE TypeOK'
  <2>1. plan[p] \in reviewed /\ plan[p] \in DOMAIN journal /\ journal[plan[p]] \in Journal
    BY <1>20 DEF TypeOK, PlansKnown, PlanKnown, Undo, Begun, Again, Common
  <2>2. CASE journal' = journal
    BY <2>2, <1>20 DEF TypeOK, Steps, Inside, First, Again, Common, Undo, Goto, Stop, End, Leave, Throw, locks, call, rest
  <2>3. CASE ~Exhausted(plan[p]) /\ Write(plan[p], [status |-> "recovery_required", attempts |-> journal[plan[p]].attempts + 1])
    <3>1. [status |-> "recovery_required", attempts |-> journal[plan[p]].attempts + 1] \in Journal
      BY <2>1, <2>3, <1>20 DEF Journal, Statuses, Undo, Exhausted
    <3>2. DOMAIN journal' \subseteq reviewed' /\ journal' \in [DOMAIN journal' -> Journal]
      BY <2>1, <2>3, <3>1, <1>20, WriteType DEF Undo, rest
    <3> QED BY <3>2, <1>20 DEF TypeOK, Steps, Inside, First, Again, Common, Undo, Goto, Stop, End, Leave, Throw, locks, call, rest
  <2> QED BY <2>2, <2>3, <1>20 DEF Undo, Mark, Attempt
<1>21. ASSUME NEW p \in Procs, Judge(p) PROVE TypeOK'
  BY <1>21 DEF TypeOK, Steps, Inside, First, Again, Common, Judge, Goto, Stop, End, Leave, Throw, Mark, Attempt, locks, call, rest
<1>22. ASSUME NEW p \in Procs, Restore(p) PROVE TypeOK'
  <2>1. plan[p] \in Plan
    BY <1>22 DEF TypeOK, PlansKnown, PlanKnown, Restore
  <2>2. config' \in Config
    BY <2>1, <1>22, AfterFacts DEF Restore
  <2> QED BY <2>2, <1>22 DEF TypeOK, Steps, Inside, First, Again, Common, Restore, Goto, Stop, End, Leave, Throw, locks, call, rest
<1>23. ASSUME NEW p \in Procs, Close(p) PROVE TypeOK'
  <2>1. plan[p] \in reviewed /\ plan[p] \in DOMAIN journal /\ journal[plan[p]] \in Journal
    BY <1>23 DEF TypeOK, PlansKnown, PlanKnown, Close, Begun, Again, Common
  <2>2. CASE journal' = journal
    BY <2>2, <1>23 DEF TypeOK, Steps, Inside, First, Again, Common, Close, Goto, Stop, End, Leave, Throw, locks, call, rest
  <2>3. CASE Write(plan[p], [journal[plan[p]] EXCEPT !.status = IF pc[p] = "seal" THEN "failed" ELSE "rolled_back"])
    <3>1. [journal[plan[p]] EXCEPT !.status = IF pc[p] = "seal" THEN "failed" ELSE "rolled_back"] \in Journal
      BY <2>1, <2>3, <1>23 DEF Journal, Statuses, Close, Exhausted
    <3>2. DOMAIN journal' \subseteq reviewed' /\ journal' \in [DOMAIN journal' -> Journal]
      BY <2>1, <2>3, <3>1, <1>23, WriteType DEF Close, rest
    <3> QED BY <3>2, <1>23 DEF TypeOK, Steps, Inside, First, Again, Common, Close, Goto, Stop, End, Leave, Throw, locks, call, rest
  <2> QED BY <2>2, <2>3, <1>23 DEF Close, Mark, Attempt
<1>24. CASE Drift
  <2>1. config' = [blocks |-> config.blocks, other |-> ~config.other]
    BY <1>24 DEF TypeOK, Config, Drift
  <2>2. config' \in Config
    BY <2>1 DEF TypeOK, Config
  <2> QED BY <2>2, <1>24 DEF TypeOK, Drift, locks, call
<1>25. CASE Reuse
  <2>1. dir' \in Procs \cup {Free, Dead, Reused} /\ reuses' \in Nat
    BY <1>25 DEF TypeOK, Reuse
  <2> QED BY <2>1, <1>25 DEF TypeOK, Reuse, call
<1>26. CASE EndOfReuse
  BY <1>26 DEF TypeOK, Steps, Inside, First, Again, Common, EndOfReuse, locks, call, rest
<1> QED BY <1>1, <1>2, <1>3, <1>4, <1>5, <1>6, <1>7, <1>8, <1>9, <1>10, <1>11, <1>12, <1>13, <1>14, <1>15, <1>16, <1>17, <1>18, <1>19, <1>20, <1>21, <1>22, <1>23, <1>24, <1>25, <1>26 DEF Next, Run

\* The steps of a process, and those of the environment (Env below).
Act(p) == Start(p) \/ Repeat(p) \/ Run(p) \/ Crash(p)

\* A step of a process moves no other one.
LEMMA Others ==
    ASSUME TypeOK, NEW p \in Procs, NEW r \in Procs, r # p, Act(p)
    PROVE  pc'[r] = pc[r] /\ plan'[r] = plan[r] /\ retry'[r] = retry[r]
<1>1. CASE Start(p)
  BY <1>1 DEF TypeOK, Start, Goto, Stop, End, Leave, Throw, locks, call, rest
<1>2. CASE Repeat(p)
  BY <1>2 DEF TypeOK, Repeat, Goto, Stop, End, Leave, Throw, locks, call, rest
<1>3. CASE Crash(p)
  BY <1>3 DEF TypeOK, Crash, Goto, Stop, End, Leave, Throw, locks, call, rest
<1>4. CASE Prepare(p)
  BY <1>4 DEF TypeOK, Prepare, Goto, Stop, End, Leave, Throw, locks, call, rest
<1>5. CASE TakeGuard(p)
  BY <1>5 DEF TypeOK, TakeGuard, Goto, Stop, End, Leave, Throw, locks, call, rest
<1>6. CASE Claim(p)
  BY <1>6 DEF TypeOK, Claim, Goto, Stop, End, Leave, Throw, locks, call, rest
<1>7. CASE Admit(p)
  BY <1>7 DEF TypeOK, Admit, Goto, Stop, End, Leave, Throw, locks, call, rest
<1>8. CASE PublishEvidence(p)
  BY <1>8 DEF TypeOK, PublishEvidence, Goto, Stop, End, Leave, Throw, locks, call, rest
<1>9. CASE MarkPublishing(p)
  BY <1>9 DEF TypeOK, MarkPublishing, Goto, Stop, End, Leave, Throw, locks, call, rest
<1>10. CASE Recheck(p)
  BY <1>10 DEF TypeOK, Recheck, Goto, Stop, End, Leave, Throw, locks, call, rest
<1>11. CASE BeginRecovery(p)
  BY <1>11 DEF TypeOK, BeginRecovery, Goto, Stop, End, Leave, Throw, locks, call, rest
<1>12. CASE ReadConfig(p)
  BY <1>12 DEF TypeOK, ReadConfig, Goto, Stop, End, Leave, Throw, locks, call, rest
<1>13. CASE Check(p)
  BY <1>13 DEF TypeOK, Check, Goto, Stop, End, Leave, Throw, locks, call, rest
<1>14. CASE PublishConfig(p)
  BY <1>14 DEF TypeOK, PublishConfig, Goto, Stop, End, Leave, Throw, locks, call, rest
<1>15. CASE Verify(p)
  BY <1>15 DEF TypeOK, Verify, Goto, Stop, End, Leave, Throw, locks, call, rest
<1>16. CASE Conclude(p)
  BY <1>16 DEF TypeOK, Conclude, Goto, Stop, End, Leave, Throw, locks, call, rest
<1>17. CASE Undo(p)
  BY <1>17 DEF TypeOK, Undo, Goto, Stop, End, Leave, Throw, locks, call, rest
<1>18. CASE Judge(p)
  BY <1>18 DEF TypeOK, Judge, Goto, Stop, End, Leave, Throw, locks, call, rest
<1>19. CASE Restore(p)
  BY <1>19 DEF TypeOK, Restore, Goto, Stop, End, Leave, Throw, locks, call, rest
<1>20. CASE Close(p)
  BY <1>20 DEF TypeOK, Close, Goto, Stop, End, Leave, Throw, locks, call, rest
<1> QED BY <1>1, <1>2, <1>3, <1>4, <1>5, <1>6, <1>7, <1>8, <1>9, <1>10, <1>11, <1>12, <1>13, <1>14, <1>15, <1>16, <1>17, <1>18, <1>19, <1>20 DEF Act, Run

\* What a step of a process may change, and only inside the lock.
LEMMA SharedFrame ==
    ASSUME TypeOK, NEW p \in Procs, Act(p)
    PROVE  /\ reviewed' = reviewed
           /\ DOMAIN journal \subseteq DOMAIN journal'
           /\ \A x \in DOMAIN journal : x # plan[p] => journal'[x] = journal[x]
           /\ pc[p] \notin Inside => config' = config /\ journal' = journal
<1>1. CASE Start(p)
  BY <1>1 DEF Write, Mark, Attempt, Inside, First, Again, Common, Start, Goto, Stop, End, Leave, Throw, locks, call, rest
<1>2. CASE Repeat(p)
  BY <1>2 DEF Write, Mark, Attempt, Inside, First, Again, Common, Repeat, Goto, Stop, End, Leave, Throw, locks, call, rest
<1>3. CASE Crash(p)
  BY <1>3 DEF Write, Mark, Attempt, Inside, First, Again, Common, Crash, Goto, Stop, End, Leave, Throw, locks, call, rest
<1>4. CASE Prepare(p)
  <2>1. CASE Fresh(plan[p])
    BY <2>1, <1>4 DEF Prepare, Goto, End, Stop, Leave, Attempt, Write, Inside, First, Again, Common, rest
  <2>2. CASE ~(Fresh(plan[p]))
    BY <2>2, <1>4 DEF Prepare, Goto, End, Stop, Leave, Attempt, Write, Inside, First, Again, Common, rest
  <2> QED BY <2>1, <2>2
<1>5. CASE TakeGuard(p)
  <2>1. CASE guard = Free
    BY <2>1, <1>5 DEF TakeGuard, Goto, End, Stop, Leave, Attempt, Write, Inside, First, Again, Common, rest
  <2>2. CASE ~(guard = Free)
    BY <2>2, <1>5 DEF TakeGuard, Goto, End, Stop, Leave, Attempt, Write, Inside, First, Again, Common, rest
  <2> QED BY <2>1, <2>2
<1>6. CASE Claim(p)
  BY <1>6 DEF Write, Mark, Attempt, Inside, First, Again, Common, Claim, Goto, Stop, End, Leave, Throw, locks, call, rest
<1>7. CASE Admit(p)
  BY <1>7 DEF Write, Mark, Attempt, Inside, First, Again, Common, Admit, Goto, Stop, End, Leave, Throw, locks, call, rest
<1>8. CASE PublishEvidence(p)
  BY <1>8 DEF Write, Mark, Attempt, Inside, First, Again, Common, PublishEvidence, Goto, Stop, End, Leave, Throw, locks, call, rest
<1>9. CASE MarkPublishing(p)
  BY <1>9 DEF Write, Mark, Attempt, Inside, First, Again, Common, MarkPublishing, Goto, Stop, End, Leave, Throw, locks, call, rest
<1>10. CASE Recheck(p)
  BY <1>10 DEF Write, Mark, Attempt, Inside, First, Again, Common, Recheck, Goto, Stop, End, Leave, Throw, locks, call, rest
<1>11. CASE BeginRecovery(p)
  <2>1. CASE Has(plan[p], "applied") \/ Exhausted(plan[p])
    BY <2>1, <1>11 DEF BeginRecovery, Goto, End, Stop, Leave, Attempt, Write, Inside, First, Again, Common, rest
  <2>2. CASE ~(Has(plan[p], "applied") \/ Exhausted(plan[p]))
    BY <2>2, <1>11 DEF BeginRecovery, Goto, End, Stop, Leave, Attempt, Write, Inside, First, Again, Common, rest
  <2> QED BY <2>1, <2>2
<1>12. CASE ReadConfig(p)
  BY <1>12 DEF Write, Mark, Attempt, Inside, First, Again, Common, ReadConfig, Goto, Stop, End, Leave, Throw, locks, call, rest
<1>13. CASE Check(p)
  BY <1>13 DEF Write, Mark, Attempt, Inside, First, Again, Common, Check, Goto, Stop, End, Leave, Throw, locks, call, rest
<1>14. CASE PublishConfig(p)
  BY <1>14 DEF Write, Mark, Attempt, Inside, First, Again, Common, PublishConfig, Goto, Stop, End, Leave, Throw, locks, call, rest
<1>15. CASE Verify(p)
  BY <1>15 DEF Write, Mark, Attempt, Inside, First, Again, Common, Verify, Goto, Stop, End, Leave, Throw, locks, call, rest
<1>16. CASE Conclude(p)
  BY <1>16 DEF Write, Mark, Attempt, Inside, First, Again, Common, Conclude, Goto, Stop, End, Leave, Throw, locks, call, rest
<1>17. CASE Undo(p)
  BY <1>17 DEF Write, Mark, Attempt, Inside, First, Again, Common, Undo, Goto, Stop, End, Leave, Throw, locks, call, rest
<1>18. CASE Judge(p)
  BY <1>18 DEF Write, Mark, Attempt, Inside, First, Again, Common, Judge, Goto, Stop, End, Leave, Throw, locks, call, rest
<1>19. CASE Restore(p)
  BY <1>19 DEF Write, Mark, Attempt, Inside, First, Again, Common, Restore, Goto, Stop, End, Leave, Throw, locks, call, rest
<1>20. CASE Close(p)
  BY <1>20 DEF Write, Mark, Attempt, Inside, First, Again, Common, Close, Goto, Stop, End, Leave, Throw, locks, call, rest
<1> QED BY <1>1, <1>2, <1>3, <1>4, <1>5, <1>6, <1>7, <1>8, <1>9, <1>10, <1>11, <1>12, <1>13, <1>14, <1>15, <1>16, <1>17, <1>18, <1>19, <1>20 DEF Act, Run

\* The lock of another process stays with it.
LEMMA HeldOthers ==
    ASSUME TypeOK, Held, NEW p \in Procs, NEW r \in Procs, r # p, Act(p)
    PROVE  HeldBy(r)'
<1>1. CASE Start(p)
  BY <1>1 DEF TypeOK, Held, HeldBy, Inside, First, Again, Common, Start, Goto, Stop, End, Leave, Throw, locks, call, rest
<1>2. CASE Repeat(p)
  BY <1>2 DEF TypeOK, Held, HeldBy, Inside, First, Again, Common, Repeat, Goto, Stop, End, Leave, Throw, locks, call, rest
<1>3. CASE Crash(p)
  BY <1>3 DEF TypeOK, Held, HeldBy, Inside, First, Again, Common, Crash, Goto, Stop, End, Leave, Throw, locks, call, rest
<1>4. CASE Prepare(p)
  BY <1>4 DEF TypeOK, Held, HeldBy, Inside, First, Again, Common, Prepare, Goto, Stop, End, Leave, Throw, locks, call, rest
<1>5. CASE TakeGuard(p)
  BY <1>5 DEF TypeOK, Held, HeldBy, Inside, First, Again, Common, TakeGuard, Goto, Stop, End, Leave, Throw, locks, call, rest
<1>6. CASE Claim(p)
  BY <1>6 DEF TypeOK, Held, HeldBy, Inside, First, Again, Common, Claim, Goto, Stop, End, Leave, Throw, locks, call, rest
<1>7. CASE Admit(p)
  BY <1>7 DEF TypeOK, Held, HeldBy, Inside, First, Again, Common, Admit, Goto, Stop, End, Leave, Throw, locks, call, rest
<1>8. CASE PublishEvidence(p)
  BY <1>8 DEF TypeOK, Held, HeldBy, Inside, First, Again, Common, PublishEvidence, Goto, Stop, End, Leave, Throw, locks, call, rest
<1>9. CASE MarkPublishing(p)
  BY <1>9 DEF TypeOK, Held, HeldBy, Inside, First, Again, Common, MarkPublishing, Goto, Stop, End, Leave, Throw, locks, call, rest
<1>10. CASE Recheck(p)
  BY <1>10 DEF TypeOK, Held, HeldBy, Inside, First, Again, Common, Recheck, Goto, Stop, End, Leave, Throw, locks, call, rest
<1>11. CASE BeginRecovery(p)
  BY <1>11 DEF TypeOK, Held, HeldBy, Inside, First, Again, Common, BeginRecovery, Goto, Stop, End, Leave, Throw, locks, call, rest
<1>12. CASE ReadConfig(p)
  BY <1>12 DEF TypeOK, Held, HeldBy, Inside, First, Again, Common, ReadConfig, Goto, Stop, End, Leave, Throw, locks, call, rest
<1>13. CASE Check(p)
  BY <1>13 DEF TypeOK, Held, HeldBy, Inside, First, Again, Common, Check, Goto, Stop, End, Leave, Throw, locks, call, rest
<1>14. CASE PublishConfig(p)
  BY <1>14 DEF TypeOK, Held, HeldBy, Inside, First, Again, Common, PublishConfig, Goto, Stop, End, Leave, Throw, locks, call, rest
<1>15. CASE Verify(p)
  BY <1>15 DEF TypeOK, Held, HeldBy, Inside, First, Again, Common, Verify, Goto, Stop, End, Leave, Throw, locks, call, rest
<1>16. CASE Conclude(p)
  BY <1>16 DEF TypeOK, Held, HeldBy, Inside, First, Again, Common, Conclude, Goto, Stop, End, Leave, Throw, locks, call, rest
<1>17. CASE Undo(p)
  BY <1>17 DEF TypeOK, Held, HeldBy, Inside, First, Again, Common, Undo, Goto, Stop, End, Leave, Throw, locks, call, rest
<1>18. CASE Judge(p)
  BY <1>18 DEF TypeOK, Held, HeldBy, Inside, First, Again, Common, Judge, Goto, Stop, End, Leave, Throw, locks, call, rest
<1>19. CASE Restore(p)
  BY <1>19 DEF TypeOK, Held, HeldBy, Inside, First, Again, Common, Restore, Goto, Stop, End, Leave, Throw, locks, call, rest
<1>20. CASE Close(p)
  BY <1>20 DEF TypeOK, Held, HeldBy, Inside, First, Again, Common, Close, Goto, Stop, End, Leave, Throw, locks, call, rest
<1> QED BY <1>1, <1>2, <1>3, <1>4, <1>5, <1>6, <1>7, <1>8, <1>9, <1>10, <1>11, <1>12, <1>13, <1>14, <1>15, <1>16, <1>17, <1>18, <1>19, <1>20 DEF Act, Run

\* A process inside the lock holds it.
LEMMA HeldOwn ==
    ASSUME TypeOK, Held, NEW p \in Procs, Act(p)
    PROVE  HeldBy(p)'
<1>1. CASE Start(p)
  BY <1>1 DEF TypeOK, Held, HeldBy, Inside, First, Again, Common, Start, Goto, Stop, End, Leave, Throw, locks, call, rest
<1>2. CASE Repeat(p)
  BY <1>2 DEF TypeOK, Held, HeldBy, Inside, First, Again, Common, Repeat, Goto, Stop, End, Leave, Throw, locks, call, rest
<1>3. CASE Crash(p)
  BY <1>3 DEF TypeOK, Held, HeldBy, Inside, First, Again, Common, Crash, Goto, Stop, End, Leave, Throw, locks, call, rest
<1>4. CASE Prepare(p)
  BY <1>4 DEF TypeOK, Held, HeldBy, Inside, First, Again, Common, Prepare, Goto, Stop, End, Leave, Throw, locks, call, rest
<1>5. CASE TakeGuard(p)
  BY <1>5 DEF TypeOK, Held, HeldBy, Inside, First, Again, Common, TakeGuard, Goto, Stop, End, Leave, Throw, locks, call, rest
<1>6. CASE Claim(p)
  BY <1>6 DEF TypeOK, Held, HeldBy, Inside, First, Again, Common, Claim, Goto, Stop, End, Leave, Throw, locks, call, rest
<1>7. CASE Admit(p)
  BY <1>7 DEF TypeOK, Held, HeldBy, Inside, First, Again, Common, Admit, Goto, Stop, End, Leave, Throw, locks, call, rest
<1>8. CASE PublishEvidence(p)
  BY <1>8 DEF TypeOK, Held, HeldBy, Inside, First, Again, Common, PublishEvidence, Goto, Stop, End, Leave, Throw, locks, call, rest
<1>9. CASE MarkPublishing(p)
  BY <1>9 DEF TypeOK, Held, HeldBy, Inside, First, Again, Common, MarkPublishing, Goto, Stop, End, Leave, Throw, locks, call, rest
<1>10. CASE Recheck(p)
  BY <1>10 DEF TypeOK, Held, HeldBy, Inside, First, Again, Common, Recheck, Goto, Stop, End, Leave, Throw, locks, call, rest
<1>11. CASE BeginRecovery(p)
  BY <1>11 DEF TypeOK, Held, HeldBy, Inside, First, Again, Common, BeginRecovery, Goto, Stop, End, Leave, Throw, locks, call, rest
<1>12. CASE ReadConfig(p)
  BY <1>12 DEF TypeOK, Held, HeldBy, Inside, First, Again, Common, ReadConfig, Goto, Stop, End, Leave, Throw, locks, call, rest
<1>13. CASE Check(p)
  BY <1>13 DEF TypeOK, Held, HeldBy, Inside, First, Again, Common, Check, Goto, Stop, End, Leave, Throw, locks, call, rest
<1>14. CASE PublishConfig(p)
  BY <1>14 DEF TypeOK, Held, HeldBy, Inside, First, Again, Common, PublishConfig, Goto, Stop, End, Leave, Throw, locks, call, rest
<1>15. CASE Verify(p)
  BY <1>15 DEF TypeOK, Held, HeldBy, Inside, First, Again, Common, Verify, Goto, Stop, End, Leave, Throw, locks, call, rest
<1>16. CASE Conclude(p)
  BY <1>16 DEF TypeOK, Held, HeldBy, Inside, First, Again, Common, Conclude, Goto, Stop, End, Leave, Throw, locks, call, rest
<1>17. CASE Undo(p)
  BY <1>17 DEF TypeOK, Held, HeldBy, Inside, First, Again, Common, Undo, Goto, Stop, End, Leave, Throw, locks, call, rest
<1>18. CASE Judge(p)
  BY <1>18 DEF TypeOK, Held, HeldBy, Inside, First, Again, Common, Judge, Goto, Stop, End, Leave, Throw, locks, call, rest
<1>19. CASE Restore(p)
  BY <1>19 DEF TypeOK, Held, HeldBy, Inside, First, Again, Common, Restore, Goto, Stop, End, Leave, Throw, locks, call, rest
<1>20. CASE Close(p)
  BY <1>20 DEF TypeOK, Held, HeldBy, Inside, First, Again, Common, Close, Goto, Stop, End, Leave, Throw, locks, call, rest
<1> QED BY <1>1, <1>2, <1>3, <1>4, <1>5, <1>6, <1>7, <1>8, <1>9, <1>10, <1>11, <1>12, <1>13, <1>14, <1>15, <1>16, <1>17, <1>18, <1>19, <1>20 DEF Act, Run

\* The evidence of the plan that a process works at.
LEMMA PlanOwn ==
    ASSUME TypeOK, PlansKnown, NEW p \in Procs, Act(p)
    PROVE  PlanKnown(p)'
<1>1. CASE Start(p)
  BY <1>1 DEF TypeOK, PlansKnown, PlanKnown, Begun, Again, Common, Write, Mark, Attempt, Started, Start, Goto, Stop, End, Leave, Throw, locks, call, rest
<1>2. CASE Repeat(p)
  BY <1>2 DEF TypeOK, PlansKnown, PlanKnown, Begun, Again, Common, Write, Mark, Attempt, Started, Repeat, Goto, Stop, End, Leave, Throw, locks, call, rest
<1>3. CASE Crash(p)
  BY <1>3 DEF TypeOK, PlansKnown, PlanKnown, Begun, Again, Common, Write, Mark, Attempt, Started, Crash, Goto, Stop, End, Leave, Throw, locks, call, rest
<1>4. CASE Prepare(p)
  BY <1>4 DEF TypeOK, PlansKnown, PlanKnown, Begun, Again, Common, Write, Mark, Attempt, Started, Prepare, Goto, Stop, End, Leave, Throw, locks, call, rest
<1>5. CASE TakeGuard(p)
  BY <1>5 DEF TypeOK, PlansKnown, PlanKnown, Begun, Again, Common, Write, Mark, Attempt, Started, TakeGuard, Goto, Stop, End, Leave, Throw, locks, call, rest
<1>6. CASE Claim(p)
  BY <1>6 DEF TypeOK, PlansKnown, PlanKnown, Begun, Again, Common, Write, Mark, Attempt, Started, Claim, Goto, Stop, End, Leave, Throw, locks, call, rest
<1>7. CASE Admit(p)
  BY <1>7 DEF TypeOK, PlansKnown, PlanKnown, Begun, Again, Common, Write, Mark, Attempt, Started, Admit, Goto, Stop, End, Leave, Throw, locks, call, rest
<1>8. CASE PublishEvidence(p)
  BY <1>8 DEF TypeOK, PlansKnown, PlanKnown, Begun, Again, Common, Write, Mark, Attempt, Started, PublishEvidence, Goto, Stop, End, Leave, Throw, locks, call, rest
<1>9. CASE MarkPublishing(p)
  BY <1>9 DEF TypeOK, PlansKnown, PlanKnown, Begun, Again, Common, Write, Mark, Attempt, Started, MarkPublishing, Goto, Stop, End, Leave, Throw, locks, call, rest
<1>10. CASE Recheck(p)
  BY <1>10 DEF TypeOK, PlansKnown, PlanKnown, Begun, Again, Common, Write, Mark, Attempt, Started, Recheck, Goto, Stop, End, Leave, Throw, locks, call, rest
<1>11. CASE BeginRecovery(p)
  <2>1. CASE Has(plan[p], "applied") \/ Exhausted(plan[p])
    BY <2>1, <1>11 DEF TypeOK, PlansKnown, PlanKnown, Begun, Again, Common, BeginRecovery, Goto, Stop, Leave, locks, call, rest
  <2>2. CASE ~(Has(plan[p], "applied") \/ Exhausted(plan[p]))
    <3>1. /\ pc[p] = "begin" /\ Attempt(plan[p])
          /\ pc' = [pc EXCEPT ![p] = "read"]
          /\ plan' = plan /\ retry' = retry /\ reviewed' = reviewed
      BY <2>2, <1>11 DEF BeginRecovery, Goto, call, rest
    <3>2. DOMAIN journal' = DOMAIN journal \cup {plan[p]}
      BY <3>1, AttemptFacts
    <3>3. journal'[plan[p]].status = "recovery_required"
      BY <3>1, AttemptFacts
    <3> QED BY <3>1, <3>2, <3>3 DEF TypeOK, PlansKnown, PlanKnown, Begun, Again, Common
  <2> QED BY <2>1, <2>2
<1>12. CASE ReadConfig(p)
  BY <1>12 DEF TypeOK, PlansKnown, PlanKnown, Begun, Again, Common, Write, Mark, Attempt, Started, ReadConfig, Goto, Stop, End, Leave, Throw, locks, call, rest
<1>13. CASE Check(p)
  BY <1>13 DEF TypeOK, PlansKnown, PlanKnown, Begun, Again, Common, Write, Mark, Attempt, Started, Check, Goto, Stop, End, Leave, Throw, locks, call, rest
<1>14. CASE PublishConfig(p)
  BY <1>14 DEF TypeOK, PlansKnown, PlanKnown, Begun, Again, Common, Write, Mark, Attempt, Started, PublishConfig, Goto, Stop, End, Leave, Throw, locks, call, rest
<1>15. CASE Verify(p)
  BY <1>15 DEF TypeOK, PlansKnown, PlanKnown, Begun, Again, Common, Write, Mark, Attempt, Started, Verify, Goto, Stop, End, Leave, Throw, locks, call, rest
<1>16. CASE Conclude(p)
  BY <1>16 DEF TypeOK, PlansKnown, PlanKnown, Begun, Again, Common, Write, Mark, Attempt, Started, Conclude, Goto, Stop, End, Leave, Throw, locks, call, rest
<1>17. CASE Undo(p)
  <2>1. CASE Exhausted(plan[p])
    BY <2>1, <1>17 DEF TypeOK, PlansKnown, PlanKnown, Begun, Again, Common, Undo, Goto, Stop, Leave, locks, call, rest
  <2>2. CASE ~(Exhausted(plan[p]))
    <3>1. /\ pc[p] = "undo" /\ Attempt(plan[p])
          /\ pc' = [pc EXCEPT ![p] = "judge"]
          /\ plan' = plan /\ retry' = retry /\ reviewed' = reviewed
      BY <2>2, <1>17 DEF Undo, Goto, call, rest
    <3>2. DOMAIN journal' = DOMAIN journal \cup {plan[p]}
      BY <3>1, AttemptFacts
    <3>3. journal'[plan[p]].status = "recovery_required"
      BY <3>1, AttemptFacts
    <3> QED BY <3>1, <3>2, <3>3 DEF TypeOK, PlansKnown, PlanKnown, Begun, Again, Common
  <2> QED BY <2>1, <2>2
<1>18. CASE Judge(p)
  BY <1>18 DEF TypeOK, PlansKnown, PlanKnown, Begun, Again, Common, Write, Mark, Attempt, Started, Judge, Goto, Stop, End, Leave, Throw, locks, call, rest
<1>19. CASE Restore(p)
  BY <1>19 DEF TypeOK, PlansKnown, PlanKnown, Begun, Again, Common, Write, Mark, Attempt, Started, Restore, Goto, Stop, End, Leave, Throw, locks, call, rest
<1>20. CASE Close(p)
  BY <1>20 DEF TypeOK, PlansKnown, PlanKnown, Begun, Again, Common, Write, Mark, Attempt, Started, Close, Goto, Stop, End, Leave, Throw, locks, call, rest
<1> QED BY <1>1, <1>2, <1>3, <1>4, <1>5, <1>6, <1>7, <1>8, <1>9, <1>10, <1>11, <1>12, <1>13, <1>14, <1>15, <1>16, <1>17, <1>18, <1>19, <1>20 DEF Act, Run

\* A recovery does not begin on an applied journal.
LEMMA NotAppliedOwn ==
    ASSUME TypeOK, PlansKnown, NotApplied, NEW p \in Procs, Act(p)
    PROVE  NotAppliedBy(p)'
<1>1. CASE Start(p)
  BY <1>1 DEF TypeOK, PlansKnown, PlanKnown, NotApplied, NotAppliedBy, Begun, Again, Common, Write, Mark, Attempt, Started, Has, Start, Goto, Stop, End, Leave, Throw, locks, call, rest
<1>2. CASE Repeat(p)
  BY <1>2 DEF TypeOK, PlansKnown, PlanKnown, NotApplied, NotAppliedBy, Begun, Again, Common, Write, Mark, Attempt, Started, Has, Repeat, Goto, Stop, End, Leave, Throw, locks, call, rest
<1>3. CASE Crash(p)
  BY <1>3 DEF TypeOK, PlansKnown, PlanKnown, NotApplied, NotAppliedBy, Begun, Again, Common, Write, Mark, Attempt, Started, Has, Crash, Goto, Stop, End, Leave, Throw, locks, call, rest
<1>4. CASE Prepare(p)
  BY <1>4 DEF TypeOK, PlansKnown, PlanKnown, NotApplied, NotAppliedBy, Begun, Again, Common, Write, Mark, Attempt, Started, Has, Prepare, Goto, Stop, End, Leave, Throw, locks, call, rest
<1>5. CASE TakeGuard(p)
  BY <1>5 DEF TypeOK, PlansKnown, PlanKnown, NotApplied, NotAppliedBy, Begun, Again, Common, Write, Mark, Attempt, Started, Has, TakeGuard, Goto, Stop, End, Leave, Throw, locks, call, rest
<1>6. CASE Claim(p)
  BY <1>6 DEF TypeOK, PlansKnown, PlanKnown, NotApplied, NotAppliedBy, Begun, Again, Common, Write, Mark, Attempt, Started, Has, Claim, Goto, Stop, End, Leave, Throw, locks, call, rest
<1>7. CASE Admit(p)
  BY <1>7 DEF TypeOK, PlansKnown, PlanKnown, NotApplied, NotAppliedBy, Begun, Again, Common, Write, Mark, Attempt, Started, Has, Admit, Goto, Stop, End, Leave, Throw, locks, call, rest
<1>8. CASE PublishEvidence(p)
  BY <1>8 DEF TypeOK, PlansKnown, PlanKnown, NotApplied, NotAppliedBy, Begun, Again, Common, Write, Mark, Attempt, Started, Has, PublishEvidence, Goto, Stop, End, Leave, Throw, locks, call, rest
<1>9. CASE MarkPublishing(p)
  <2>1. plan[p] \in DOMAIN journal /\ journal[plan[p]] \in Journal
    BY <1>9 DEF TypeOK, PlansKnown, PlanKnown, Begun, MarkPublishing
  <2>2. journal'[plan[p]] = [journal[plan[p]] EXCEPT !.status = "publishing"]
    BY <1>9 DEF MarkPublishing, Mark, Write
  <2>3. journal'[plan[p]].status = "publishing"
    BY <2>1, <2>2 DEF Journal
  <2> QED BY <2>3, <1>9 DEF MarkPublishing, Goto, call, NotAppliedBy
<1>10. CASE Recheck(p)
  BY <1>10 DEF TypeOK, PlansKnown, PlanKnown, NotApplied, NotAppliedBy, Begun, Again, Common, Write, Mark, Attempt, Started, Has, Recheck, Goto, Stop, End, Leave, Throw, locks, call, rest
<1>11. CASE BeginRecovery(p)
  <2>1. CASE Has(plan[p], "applied") \/ Exhausted(plan[p])
    BY <2>1, <1>11 DEF TypeOK, PlansKnown, PlanKnown, NotAppliedBy, Begun, Again, Common, BeginRecovery, Goto, Stop, Leave, locks, call, rest
  <2>2. CASE ~(Has(plan[p], "applied") \/ Exhausted(plan[p]))
    <3>1. /\ pc[p] = "begin" /\ Attempt(plan[p])
          /\ pc' = [pc EXCEPT ![p] = "read"]
          /\ plan' = plan /\ retry' = retry /\ reviewed' = reviewed
      BY <2>2, <1>11 DEF BeginRecovery, Goto, call, rest
    <3>2. DOMAIN journal' = DOMAIN journal \cup {plan[p]}
      BY <3>1, AttemptFacts
    <3>3. journal'[plan[p]].status = "recovery_required"
      BY <3>1, AttemptFacts
    <3> QED BY <3>1, <3>2, <3>3 DEF TypeOK, PlansKnown, PlanKnown, NotAppliedBy, Begun, Again, Common
  <2> QED BY <2>1, <2>2
<1>12. CASE ReadConfig(p)
  BY <1>12 DEF TypeOK, PlansKnown, PlanKnown, NotApplied, NotAppliedBy, Begun, Again, Common, Write, Mark, Attempt, Started, Has, ReadConfig, Goto, Stop, End, Leave, Throw, locks, call, rest
<1>13. CASE Check(p)
  BY <1>13 DEF TypeOK, PlansKnown, PlanKnown, NotApplied, NotAppliedBy, Begun, Again, Common, Write, Mark, Attempt, Started, Has, Check, Goto, Stop, End, Leave, Throw, locks, call, rest
<1>14. CASE PublishConfig(p)
  BY <1>14 DEF TypeOK, PlansKnown, PlanKnown, NotApplied, NotAppliedBy, Begun, Again, Common, Write, Mark, Attempt, Started, Has, PublishConfig, Goto, Stop, End, Leave, Throw, locks, call, rest
<1>15. CASE Verify(p)
  BY <1>15 DEF TypeOK, PlansKnown, PlanKnown, NotApplied, NotAppliedBy, Begun, Again, Common, Write, Mark, Attempt, Started, Has, Verify, Goto, Stop, End, Leave, Throw, locks, call, rest
<1>16. CASE Conclude(p)
  BY <1>16 DEF TypeOK, PlansKnown, PlanKnown, NotApplied, NotAppliedBy, Begun, Again, Common, Write, Mark, Attempt, Started, Has, Conclude, Goto, Stop, End, Leave, Throw, locks, call, rest
<1>17. CASE Undo(p)
  <2>1. CASE Exhausted(plan[p])
    BY <2>1, <1>17 DEF TypeOK, PlansKnown, PlanKnown, NotAppliedBy, Begun, Again, Common, Undo, Goto, Stop, Leave, locks, call, rest
  <2>2. CASE ~(Exhausted(plan[p]))
    <3>1. /\ pc[p] = "undo" /\ Attempt(plan[p])
          /\ pc' = [pc EXCEPT ![p] = "judge"]
          /\ plan' = plan /\ retry' = retry /\ reviewed' = reviewed
      BY <2>2, <1>17 DEF Undo, Goto, call, rest
    <3>2. DOMAIN journal' = DOMAIN journal \cup {plan[p]}
      BY <3>1, AttemptFacts
    <3>3. journal'[plan[p]].status = "recovery_required"
      BY <3>1, AttemptFacts
    <3> QED BY <3>1, <3>2, <3>3 DEF TypeOK, PlansKnown, PlanKnown, NotAppliedBy, Begun, Again, Common
  <2> QED BY <2>1, <2>2
<1>18. CASE Judge(p)
  BY <1>18 DEF TypeOK, PlansKnown, PlanKnown, NotApplied, NotAppliedBy, Begun, Again, Common, Write, Mark, Attempt, Started, Has, Judge, Goto, Stop, End, Leave, Throw, locks, call, rest
<1>19. CASE Restore(p)
  BY <1>19 DEF TypeOK, PlansKnown, PlanKnown, NotApplied, NotAppliedBy, Begun, Again, Common, Write, Mark, Attempt, Started, Has, Restore, Goto, Stop, End, Leave, Throw, locks, call, rest
<1>20. CASE Close(p)
  BY <1>20 DEF TypeOK, PlansKnown, PlanKnown, NotApplied, NotAppliedBy, Begun, Again, Common, Write, Mark, Attempt, Started, Has, Close, Goto, Stop, End, Leave, Throw, locks, call, rest
<1> QED BY <1>1, <1>2, <1>3, <1>4, <1>5, <1>6, <1>7, <1>8, <1>9, <1>10, <1>11, <1>12, <1>13, <1>14, <1>15, <1>16, <1>17, <1>18, <1>19, <1>20 DEF Act, Run

\* What a process saw of the blocks is still so when it acts on it.
LEMMA BlocksOwn ==
    ASSUME TypeOK, PlansKnown, BlocksKnown, NEW p \in Procs, Act(p)
    PROVE  BlocksKnownBy(p)'
<1>1. CASE Start(p)
  BY <1>1 DEF TypeOK, BlocksKnown, BlocksKnownBy, Fresh, Start, Goto, Stop, End, Leave, Throw, locks, call, rest
<1>2. CASE Repeat(p)
  BY <1>2 DEF TypeOK, BlocksKnown, BlocksKnownBy, Fresh, Repeat, Goto, Stop, End, Leave, Throw, locks, call, rest
<1>3. CASE Crash(p)
  BY <1>3 DEF TypeOK, BlocksKnown, BlocksKnownBy, Fresh, Crash, Goto, Stop, End, Leave, Throw, locks, call, rest
<1>4. CASE Prepare(p)
  BY <1>4 DEF TypeOK, BlocksKnown, BlocksKnownBy, Fresh, Prepare, Goto, Stop, End, Leave, Throw, locks, call, rest
<1>5. CASE TakeGuard(p)
  BY <1>5 DEF TypeOK, BlocksKnown, BlocksKnownBy, Fresh, TakeGuard, Goto, Stop, End, Leave, Throw, locks, call, rest
<1>6. CASE Claim(p)
  BY <1>6 DEF TypeOK, BlocksKnown, BlocksKnownBy, Fresh, Claim, Goto, Stop, End, Leave, Throw, locks, call, rest
<1>7. CASE Admit(p)
  BY <1>7 DEF TypeOK, BlocksKnown, BlocksKnownBy, Fresh, Admit, Goto, Stop, End, Leave, Throw, locks, call, rest
<1>8. CASE PublishEvidence(p)
  BY <1>8 DEF TypeOK, BlocksKnown, BlocksKnownBy, Fresh, PublishEvidence, Goto, Stop, End, Leave, Throw, locks, call, rest
<1>9. CASE MarkPublishing(p)
  BY <1>9 DEF TypeOK, BlocksKnown, BlocksKnownBy, Fresh, MarkPublishing, Goto, Stop, End, Leave, Throw, locks, call, rest
<1>10. CASE Recheck(p)
  BY <1>10 DEF TypeOK, BlocksKnown, BlocksKnownBy, Fresh, Recheck, Goto, Stop, End, Leave, Throw, locks, call, rest
<1>11. CASE BeginRecovery(p)
  BY <1>11 DEF TypeOK, BlocksKnown, BlocksKnownBy, Fresh, BeginRecovery, Goto, Stop, End, Leave, Throw, locks, call, rest
<1>12. CASE ReadConfig(p)
  BY <1>12 DEF TypeOK, BlocksKnown, BlocksKnownBy, Fresh, ReadConfig, Goto, Stop, End, Leave, Throw, locks, call, rest
<1>13. CASE Check(p)
  BY <1>13 DEF TypeOK, BlocksKnown, BlocksKnownBy, Fresh, Check, Goto, Stop, End, Leave, Throw, locks, call, rest
<1>14. CASE PublishConfig(p)
  BY <1>14 DEF TypeOK, BlocksKnown, BlocksKnownBy, Fresh, PublishConfig, Goto, Stop, End, Leave, Throw, locks, call, rest
<1>15. CASE Verify(p)
  BY <1>15 DEF TypeOK, BlocksKnown, BlocksKnownBy, Fresh, Verify, Goto, Stop, End, Leave, Throw, locks, call, rest
<1>16. CASE Conclude(p)
  BY <1>16 DEF TypeOK, BlocksKnown, BlocksKnownBy, Fresh, Conclude, Goto, Stop, End, Leave, Throw, locks, call, rest
<1>17. CASE Undo(p)
  BY <1>17 DEF TypeOK, BlocksKnown, BlocksKnownBy, Fresh, Undo, Goto, Stop, End, Leave, Throw, locks, call, rest
<1>18. CASE Judge(p)
  BY <1>18 DEF TypeOK, BlocksKnown, BlocksKnownBy, Fresh, Judge, Goto, Stop, End, Leave, Throw, locks, call, rest
<1>19. CASE Restore(p)
  BY <1>19 DEF TypeOK, BlocksKnown, BlocksKnownBy, Fresh, Restore, Goto, Stop, End, Leave, Throw, locks, call, rest
<1>20. CASE Close(p)
  BY <1>20 DEF TypeOK, BlocksKnown, BlocksKnownBy, Fresh, Close, Goto, Stop, End, Leave, Throw, locks, call, rest
<1> QED BY <1>1, <1>2, <1>3, <1>4, <1>5, <1>6, <1>7, <1>8, <1>9, <1>10, <1>11, <1>12, <1>13, <1>14, <1>15, <1>16, <1>17, <1>18, <1>19, <1>20 DEF Act, Run

\* Who replaces the config.
LEMMA ConfigFrame ==
    ASSUME NEW p \in Procs, Act(p)
    PROVE  \/ config' = config
           \/ pc[p] = "publish" /\ config' = After(plan[p])
           \/ pc[p] = "restore" /\ config' = plan[p].before
<1>1. CASE Start(p)
  BY <1>1 DEF Mark, Start, Goto, Stop, End, Leave, Throw, locks, call, rest
<1>2. CASE Repeat(p)
  BY <1>2 DEF Mark, Repeat, Goto, Stop, End, Leave, Throw, locks, call, rest
<1>3. CASE Crash(p)
  BY <1>3 DEF Mark, Crash, Goto, Stop, End, Leave, Throw, locks, call, rest
<1>4. CASE Prepare(p)
  BY <1>4 DEF Mark, Prepare, Goto, Stop, End, Leave, Throw, locks, call, rest
<1>5. CASE TakeGuard(p)
  BY <1>5 DEF Mark, TakeGuard, Goto, Stop, End, Leave, Throw, locks, call, rest
<1>6. CASE Claim(p)
  BY <1>6 DEF Mark, Claim, Goto, Stop, End, Leave, Throw, locks, call, rest
<1>7. CASE Admit(p)
  BY <1>7 DEF Mark, Admit, Goto, Stop, End, Leave, Throw, locks, call, rest
<1>8. CASE PublishEvidence(p)
  BY <1>8 DEF Mark, PublishEvidence, Goto, Stop, End, Leave, Throw, locks, call, rest
<1>9. CASE MarkPublishing(p)
  BY <1>9 DEF Mark, MarkPublishing, Goto, Stop, End, Leave, Throw, locks, call, rest
<1>10. CASE Recheck(p)
  BY <1>10 DEF Mark, Recheck, Goto, Stop, End, Leave, Throw, locks, call, rest
<1>11. CASE BeginRecovery(p)
  BY <1>11 DEF Mark, BeginRecovery, Goto, Stop, End, Leave, Throw, locks, call, rest
<1>12. CASE ReadConfig(p)
  BY <1>12 DEF Mark, ReadConfig, Goto, Stop, End, Leave, Throw, locks, call, rest
<1>13. CASE Check(p)
  BY <1>13 DEF Mark, Check, Goto, Stop, End, Leave, Throw, locks, call, rest
<1>14. CASE PublishConfig(p)
  BY <1>14 DEF Mark, PublishConfig, Goto, Stop, End, Leave, Throw, locks, call, rest
<1>15. CASE Verify(p)
  BY <1>15 DEF Mark, Verify, Goto, Stop, End, Leave, Throw, locks, call, rest
<1>16. CASE Conclude(p)
  BY <1>16 DEF Mark, Conclude, Goto, Stop, End, Leave, Throw, locks, call, rest
<1>17. CASE Undo(p)
  BY <1>17 DEF Mark, Undo, Goto, Stop, End, Leave, Throw, locks, call, rest
<1>18. CASE Judge(p)
  BY <1>18 DEF Mark, Judge, Goto, Stop, End, Leave, Throw, locks, call, rest
<1>19. CASE Restore(p)
  BY <1>19 DEF Mark, Restore, Goto, Stop, End, Leave, Throw, locks, call, rest
<1>20. CASE Close(p)
  BY <1>20 DEF Mark, Close, Goto, Stop, End, Leave, Throw, locks, call, rest
<1> QED BY <1>1, <1>2, <1>3, <1>4, <1>5, <1>6, <1>7, <1>8, <1>9, <1>10, <1>11, <1>12, <1>13, <1>14, <1>15, <1>16, <1>17, <1>18, <1>19, <1>20 DEF Act, Run

\* Which journals are applied after a step.
LEMMA AppliedFrame ==
    ASSUME TypeOK, PlansKnown, NEW p \in Procs, Act(p), NEW x \in DOMAIN journal', journal'[x].status = "applied"
    PROVE  \/ x \in DOMAIN journal /\ journal[x].status = "applied"
           \/ pc[p] = "conclude" /\ x = plan[p] /\ config' = config
<1>1. CASE Start(p)
  BY <1>1 DEF Write, Start, Goto, Stop, End, Leave, Throw, locks, call, rest
<1>2. CASE Repeat(p)
  BY <1>2 DEF Write, Repeat, Goto, Stop, End, Leave, Throw, locks, call, rest
<1>3. CASE Crash(p)
  BY <1>3 DEF Write, Crash, Goto, Stop, End, Leave, Throw, locks, call, rest
<1>4. CASE Prepare(p)
  BY <1>4 DEF Write, Prepare, Goto, Stop, End, Leave, Throw, locks, call, rest
<1>5. CASE TakeGuard(p)
  BY <1>5 DEF Write, TakeGuard, Goto, Stop, End, Leave, Throw, locks, call, rest
<1>6. CASE Claim(p)
  BY <1>6 DEF Write, Claim, Goto, Stop, End, Leave, Throw, locks, call, rest
<1>7. CASE Admit(p)
  BY <1>7 DEF Write, Admit, Goto, Stop, End, Leave, Throw, locks, call, rest
<1>8. CASE PublishEvidence(p)
  BY <1>8 DEF Write, PublishEvidence, Goto, Stop, End, Leave, Throw, locks, call, rest
<1>9. CASE MarkPublishing(p)
  <2>1. DOMAIN journal' = DOMAIN journal \cup {plan[p]} /\ plan[p] \in DOMAIN journal
    BY <1>9 DEF MarkPublishing, Mark, Write, PlansKnown, PlanKnown, Begun, Common
  <2>2. CASE x # plan[p]
    BY <2>1, <2>2, <1>9 DEF MarkPublishing, Mark, Write
  <2>3. CASE x = plan[p]
    <3>1. journal[plan[p]] \in Journal
      BY <2>1 DEF TypeOK
    <3>2. journal'[plan[p]] = [journal[plan[p]] EXCEPT !.status = "publishing"]
      BY <1>9 DEF MarkPublishing, Mark, Write
    <3>3. journal'[plan[p]].status = "publishing"
      BY <3>1, <3>2 DEF Journal
    <3> QED BY <2>3, <3>3, <1>9 DEF MarkPublishing
  <2> QED BY <2>2, <2>3
<1>10. CASE Recheck(p)
  BY <1>10 DEF Write, Recheck, Goto, Stop, End, Leave, Throw, locks, call, rest
<1>11. CASE BeginRecovery(p)
  <2>1. Attempt(plan[p]) \/ journal' = journal
    BY <1>11 DEF BeginRecovery, Leave
  <2>2. ASSUME Attempt(plan[p]), x = plan[p] PROVE FALSE
    BY <2>2, AttemptFacts
  <2>3. ASSUME Attempt(plan[p]), x # plan[p] PROVE x \in DOMAIN journal /\ journal'[x] = journal[x]
    BY <2>3 DEF Attempt, Write
  <2> QED BY <2>1, <2>2, <2>3
<1>12. CASE ReadConfig(p)
  BY <1>12 DEF Write, ReadConfig, Goto, Stop, End, Leave, Throw, locks, call, rest
<1>13. CASE Check(p)
  BY <1>13 DEF Write, Check, Goto, Stop, End, Leave, Throw, locks, call, rest
<1>14. CASE PublishConfig(p)
  BY <1>14 DEF Write, PublishConfig, Goto, Stop, End, Leave, Throw, locks, call, rest
<1>15. CASE Verify(p)
  BY <1>15 DEF Write, Verify, Goto, Stop, End, Leave, Throw, locks, call, rest
<1>16. CASE Conclude(p)
  BY <1>16 DEF Conclude, Mark, Write
<1>17. CASE Undo(p)
  <2>1. Attempt(plan[p]) \/ journal' = journal
    BY <1>17 DEF Undo, Leave
  <2>2. ASSUME Attempt(plan[p]), x = plan[p] PROVE FALSE
    BY <2>2, AttemptFacts
  <2>3. ASSUME Attempt(plan[p]), x # plan[p] PROVE x \in DOMAIN journal /\ journal'[x] = journal[x]
    BY <2>3 DEF Attempt, Write
  <2> QED BY <2>1, <2>2, <2>3
<1>18. CASE Judge(p)
  BY <1>18 DEF Write, Judge, Goto, Stop, End, Leave, Throw, locks, call, rest
<1>19. CASE Restore(p)
  BY <1>19 DEF Write, Restore, Goto, Stop, End, Leave, Throw, locks, call, rest
<1>20. CASE Close(p)
  <2>1. DOMAIN journal' = DOMAIN journal \cup {plan[p]} /\ plan[p] \in DOMAIN journal
    BY <1>20 DEF Close, Mark, Write, PlansKnown, PlanKnown, Begun, Common
  <2>2. CASE x # plan[p]
    BY <2>1, <2>2, <1>20 DEF Close, Mark, Write
  <2>3. CASE x = plan[p]
    <3>1. journal[plan[p]] \in Journal
      BY <2>1 DEF TypeOK
    <3>2. journal'[plan[p]] = [journal[plan[p]] EXCEPT !.status = (IF pc[p] = "seal" THEN "failed" ELSE "rolled_back")]
      BY <1>20 DEF Close, Mark, Write
    <3>3. journal'[plan[p]].status = (IF pc[p] = "seal" THEN "failed" ELSE "rolled_back")
      BY <3>1, <3>2 DEF Journal
    <3> QED BY <2>3, <3>3, <1>20 DEF Close
  <2> QED BY <2>2, <2>3
<1> QED BY <1>1, <1>2, <1>3, <1>4, <1>5, <1>6, <1>7, <1>8, <1>9, <1>10, <1>11, <1>12, <1>13, <1>14, <1>15, <1>16, <1>17, <1>18, <1>19, <1>20 DEF Act, Run

Env == \/ \E product \in Products : Review(product) \/ Edit(product)
       \/ Drift \/ Reuse \/ EndOfReuse \/ UNCHANGED vars

\* What the environment leaves alone.
LEMMA EnvFrame ==
    ASSUME TypeOK, Env
    PROVE  /\ pc' = pc /\ plan' = plan /\ retry' = retry /\ guard' = guard /\ journal' = journal
           /\ config'.blocks = config.blocks /\ reviewed \subseteq reviewed'
           /\ dir' = dir \/ dir \in {Dead, Reused}
<1>1. CASE Drift
  <2>1. config'.blocks = config.blocks
    BY <1>1 DEF Drift, TypeOK, Config
  <2> QED BY <2>1, <1>1 DEF Drift, locks, call
<1>2. CASE UNCHANGED vars
  BY <1>2 DEF vars, locks, call, rest
<1>3. CASE Reuse \/ EndOfReuse
  BY <1>3 DEF Reuse, EndOfReuse, call, rest
<1>4. ASSUME NEW q \in Products, Review(q) \/ Edit(q)
      PROVE  /\ pc' = pc /\ plan' = plan /\ retry' = retry /\ guard' = guard /\ journal' = journal
             /\ config' = config /\ reviewed \subseteq reviewed' /\ dir' = dir
  BY <1>4 DEF Review, Edit, locks, call
<1> QED BY <1>1, <1>2, <1>3, <1>4 DEF Env

\* A step is one of the environment or one of a process.
LEMMA NextCases ==
    ASSUME [Next]_vars
    PROVE  Env \/ \E p \in Procs : Act(p)
BY DEF Next, Env, Act

\* Only one process is inside the lock.
LEMMA Exclusion ==
    ASSUME Held, NEW p \in Procs, NEW r \in Procs, pc[p] \in Inside, pc[r] \in Inside
    PROVE  p = r
BY DEF Held, HeldBy

-------------------------------------------------------------------------------
(* Every step preserves the invariant *)

\* The lock.
LEMMA HeldStep ==
    ASSUME TypeOK, Held, [Next]_vars
    PROVE  Held'
<1>1. CASE Env
  <2> SUFFICES ASSUME NEW r \in Procs PROVE HeldBy(r)'
    BY DEF Held
  <2>1. HeldBy(r)
    BY DEF Held
  <2>2. pc' = pc /\ guard' = guard /\ (dir' = dir \/ dir \in {Dead, Reused})
    BY <1>1, EnvFrame
  <2> QED BY <2>1, <2>2 DEF HeldBy
<1>2. ASSUME NEW p \in Procs, Act(p) PROVE Held'
  <2>1. HeldBy(p)'
    BY <1>2, HeldOwn
  <2>2. \A r \in Procs : r # p => HeldBy(r)'
    BY <1>2, HeldOthers
  <2> QED BY <2>1, <2>2 DEF Held
<1> QED BY <1>1, <1>2, NextCases

\* The plans at work and their evidence.
LEMMA PlansStep ==
    ASSUME TypeOK, Held, PlansKnown, [Next]_vars
    PROVE  PlansKnown'
<1>1. CASE Env
  <2> SUFFICES ASSUME NEW r \in Procs PROVE PlanKnown(r)'
    BY DEF PlansKnown
  <2>1. PlanKnown(r)
    BY DEF PlansKnown
  <2>2. pc' = pc /\ plan' = plan /\ retry' = retry /\ journal' = journal /\ reviewed \subseteq reviewed'
    BY <1>1, EnvFrame
  <2> QED BY <2>1, <2>2 DEF PlanKnown
<1>2. ASSUME NEW p \in Procs, Act(p) PROVE PlansKnown'
  <2>1. PlanKnown(p)'
    BY <1>2, PlanOwn
  <2>2. ASSUME NEW r \in Procs, r # p PROVE PlanKnown(r)'
    <3>1. PlanKnown(r) /\ pc'[r] = pc[r] /\ plan'[r] = plan[r] /\ retry'[r] = retry[r]
      BY <1>2, <2>2, Others DEF PlansKnown
    <3>2. reviewed' = reviewed /\ DOMAIN journal \subseteq DOMAIN journal'
      BY <1>2, SharedFrame
    <3>3. pc[r] = "evidence" => journal' = journal
      BY <1>2, <2>2, SharedFrame, Exclusion DEF Inside, First
    <3> QED BY <3>1, <3>2, <3>3 DEF PlanKnown
  <2> QED BY <2>1, <2>2 DEF PlansKnown
<1> QED BY <1>1, <1>2, NextCases

\* What is worked at is not applied.
LEMMA NotAppliedStep ==
    ASSUME Locked, NotApplied, [Next]_vars
    PROVE  NotApplied'
<1> USE DEF Locked
<1>1. CASE Env
  BY <1>1, EnvFrame DEF NotApplied, NotAppliedBy
<1>2. ASSUME NEW p \in Procs, Act(p) PROVE NotApplied'
  <2>1. NotAppliedBy(p)'
    BY <1>2, NotAppliedOwn
  <2>2. ASSUME NEW r \in Procs, r # p PROVE NotAppliedBy(r)'
    <3>1. NotAppliedBy(r) /\ pc'[r] = pc[r] /\ plan'[r] = plan[r]
      BY <1>2, <2>2, Others DEF NotApplied
    <3>2. pc[r] \in Begun => journal' = journal
      BY <1>2, <2>2, SharedFrame, Exclusion DEF Begun, Inside, First
    <3> QED BY <3>1, <3>2 DEF NotAppliedBy
  <2> QED BY <2>1, <2>2 DEF NotApplied
<1> QED BY <1>1, <1>2, NextCases

\* What was seen of the blocks.
LEMMA BlocksStep ==
    ASSUME Locked, BlocksKnown, [Next]_vars
    PROVE  BlocksKnown'
<1> USE DEF Locked
<1>1. CASE Env
  BY <1>1, EnvFrame DEF BlocksKnown, BlocksKnownBy
<1>2. ASSUME NEW p \in Procs, Act(p) PROVE BlocksKnown'
  <2>1. BlocksKnownBy(p)'
    BY <1>2, BlocksOwn
  <2>2. ASSUME NEW r \in Procs, r # p PROVE BlocksKnownBy(r)'
    <3>1. BlocksKnownBy(r) /\ pc'[r] = pc[r] /\ plan'[r] = plan[r]
      BY <1>2, <2>2, Others DEF BlocksKnown
    <3>2. pc[r] \in Inside => config' = config
      BY <1>2, <2>2, SharedFrame, Exclusion
    <3> QED BY <3>1, <3>2 DEF BlocksKnownBy, Inside, Again, Common
  <2> QED BY <2>1, <2>2 DEF BlocksKnown
<1> QED BY <1>1, <1>2, NextCases

\* Configs with the same blocks register the same products.
LEMMA SameBlocks ==
    ASSUME NEW c, NEW d, c.blocks = d.blocks
    PROVE  Registered(c) = Registered(d)
BY DEF Registered

\* What a replacement of the config registers, and what was registered before it.
LEMMA Replacement ==
    ASSUME Locked, BlocksKnown, NEW p \in Procs, Act(p), config' # config
    PROVE  LET pl == plan[p] IN
           /\ pl \in DOMAIN journal /\ pl \in reviewed /\ pl \in Plan
           /\ pc[p] \in Begun \ {"begin"}
           /\ \/ /\ Registered(config') = Registered(pl.before) \cup {pl.product}
                 /\ Registered(config) = Registered(pl.before)
              \/ /\ Registered(config') = Registered(pl.before) /\ pc[p] = "restore"
                 /\ Registered(config) = Registered(pl.before) \cup {pl.product}
<1> DEFINE pl == plan[p]
<1>1. \/ pc[p] = "publish" /\ config' = After(pl)
      \/ pc[p] = "restore" /\ config' = pl.before
  BY ConfigFrame
<1>2. pl \in DOMAIN journal /\ pl \in reviewed /\ pl \in Plan /\ pc[p] \in Begun \ {"begin"}
  BY <1>1 DEF Locked, TypeOK, PlansKnown, PlanKnown, Begun, Common
<1>3. Registered(After(pl)) = Registered(pl.before) \cup {pl.product}
  BY <1>2, AfterFacts
<1>4. CASE pc[p] = "publish" /\ config' = After(pl)
  <2>1. config.blocks = pl.before.blocks
    BY <1>4 DEF BlocksKnown, BlocksKnownBy
  <2>2. Registered(config) = Registered(pl.before)
    BY <2>1, SameBlocks
  <2> QED BY <1>2, <1>3, <1>4, <2>2
<1>5. CASE pc[p] = "restore" /\ config' = pl.before
  <2>1. config.blocks = After(pl).blocks
    BY <1>5 DEF BlocksKnown, BlocksKnownBy
  <2>2. Registered(config) = Registered(After(pl))
    BY <2>1, SameBlocks
  <2> QED BY <1>2, <1>3, <1>5, <2>2
<1> QED BY <1>1, <1>4, <1>5

\* What is published was reviewed, and has evidence by then.
LEMMA EvidenceStep ==
    ASSUME IInv, [Next]_vars
    PROVE  EvidenceFirst' /\ EvidenceOfPlans'
<1> USE DEF IInv
<1>1. CASE Env
  <2>1. journal' = journal /\ config'.blocks = config.blocks
    BY <1>1, EnvFrame DEF Locked
  <2>2. Registered(config') = Registered(config)
    BY <2>1, SameBlocks
  <2>3. EvidenceFirst'
    BY <2>1, <2>2 DEF EvidenceFirst
  <2>4. ASSUME NEW pl \in reviewed', NEW product \in Registered(pl.before)
        PROVE  \E x \in DOMAIN journal : x.product = product
    <3>1. CASE pl \in reviewed
      BY <3>1, <2>4 DEF EvidenceOfPlans
    <3>2. CASE pl \notin reviewed
      <4>1. PICK q \in Products : Review(q)
        BY <3>2, <2>4, <1>1 DEF Env, Edit, Drift, Reuse, EndOfReuse, vars, rest
      <4>2. pl.before = config
        BY <4>1, <3>2 DEF Review
      <4> QED BY <4>2, <2>4 DEF EvidenceFirst
    <3> QED BY <3>1, <3>2
  <2> QED BY <2>1, <2>3, <2>4 DEF EvidenceOfPlans
<1>2. ASSUME NEW p \in Procs, Act(p) PROVE EvidenceFirst' /\ EvidenceOfPlans'
  <2>1. reviewed' = reviewed /\ DOMAIN journal \subseteq DOMAIN journal'
    BY <1>2, SharedFrame DEF Locked
  <2>2. EvidenceOfPlans'
    BY <2>1 DEF EvidenceOfPlans
  <2>3. ASSUME NEW product \in Registered(config') PROVE \E x \in DOMAIN journal' : x.product = product
    <3>1. CASE config' = config
      BY <3>1, <2>1, <2>3 DEF EvidenceFirst
    <3>2. CASE config' # config
      <4>1. /\ plan[p] \in DOMAIN journal /\ plan[p] \in reviewed
            /\ product = plan[p].product \/ product \in Registered(plan[p].before)
        BY <3>2, <2>3, <1>2, Replacement
      <4> QED BY <4>1, <2>1 DEF EvidenceOfPlans
    <3> QED BY <3>1, <3>2
  <2> QED BY <2>2, <2>3 DEF EvidenceFirst
<1> QED BY <1>1, <1>2, NextCases DEF Locked

\* Nobody else can take back what is applied.
LEMMA RivalStep ==
    ASSUME IInv, [Next]_vars
    PROVE  AppliedUnlessRival'
<1> USE DEF IInv
<1>1. CASE Env
  <2>1. journal' = journal /\ config'.blocks = config.blocks
    BY <1>1, EnvFrame DEF Locked
  <2>2. Registered(config') = Registered(config)
    BY <2>1, SameBlocks
  <2> QED BY <2>1, <2>2 DEF AppliedUnlessRival, Rivals
<1>2. ASSUME NEW p \in Procs, Act(p) PROVE AppliedUnlessRival'
  <2> SUFFICES ASSUME NEW pl \in DOMAIN journal', journal'[pl].status = "applied", Rivals(pl)' = {}
               PROVE  pl.product \in Registered(config')
    BY DEF AppliedUnlessRival
  <2>1. DOMAIN journal \subseteq DOMAIN journal'
    BY <1>2, SharedFrame DEF Locked
  <2>2. Rivals(pl) = {}
    BY <2>1 DEF Rivals
  <2>3. CASE pl \in DOMAIN journal /\ journal[pl].status = "applied"
    <3>1. pl.product \in Registered(config)
      BY <2>2, <2>3 DEF AppliedUnlessRival
    <3>2. CASE config' = config
      BY <3>1, <3>2
    <3>3. CASE config' # config
      <4>1. plan[p] \in DOMAIN journal /\ journal[plan[p]].status # "applied"
        BY <3>3, <1>2, Replacement DEF NotApplied, NotAppliedBy
      <4>2. plan[p].product # pl.product
        BY <4>1, <2>2, <2>3 DEF Rivals
      <4> QED BY <4>2, <3>1, <3>3, <1>2, Replacement
    <3> QED BY <3>2, <3>3
  <2>4. CASE pc[p] = "conclude" /\ pl = plan[p] /\ config' = config
    <3>1. pl \in Plan
      BY <2>4 DEF Locked, TypeOK, PlansKnown, PlanKnown
    <3>2. config.blocks = After(pl).blocks
      BY <2>4 DEF BlocksKnown, BlocksKnownBy
    <3>3. Registered(config) = Registered(After(pl))
      BY <3>2, SameBlocks
    <3> QED BY <3>1, <3>3, <2>4, AfterFacts
  <2> QED BY <1>2, <2>3, <2>4, AppliedFrame DEF Locked
<1> QED BY <1>1, <1>2, NextCases DEF Locked

\* The invariant holds at first.
LEMMA IInvInit ==
    ASSUME Init
    PROVE  IInv
<1>1. config = [blocks |-> <<>>, other |-> FALSE] /\ config \in Config
  BY DEF Init, Config
<1>2. TypeOK
  BY <1>1 DEF Init, TypeOK, Steps
<1>3. Registered(config) = {}
  BY <1>1 DEF Registered
<1>4. DOMAIN journal = {} /\ reviewed = {}
  BY DEF Init
<1>5. Held /\ NotApplied /\ BlocksKnown
  BY DEF Init, Held, HeldBy, NotApplied, NotAppliedBy, BlocksKnown, BlocksKnownBy, Begun,
         Inside, First, Again, Common
<1>6. PlansKnown
  BY DEF Init, PlansKnown, PlanKnown, Begun, Again, Common
<1> QED BY <1>2, <1>3, <1>4, <1>5, <1>6
        DEF IInv, Locked, EvidenceFirst, EvidenceOfPlans, AppliedUnlessRival

\* And after every step.
LEMMA IInvStep ==
    ASSUME IInv, [Next]_vars
    PROVE  IInv'
<1>1. TypeOK' /\ Held' /\ PlansKnown'
  BY TypeStep, HeldStep, PlansStep DEF IInv, Locked
<1>2. NotApplied' /\ BlocksKnown'
  BY NotAppliedStep, BlocksStep DEF IInv
<1> QED BY <1>1, <1>2, EvidenceStep, RivalStep DEF IInv, Locked

-------------------------------------------------------------------------------
(* The theorems *)

\* The invariant is an invariant.
THEOREM Invariance == Spec => []IInv
<1>1. Init => IInv
  BY IInvInit
<1>2. IInv /\ [Next]_vars => IInv'
  BY IInvStep
<1> QED BY <1>1, <1>2, PTL DEF Spec

\* Every variable of a registration keeps its type.
THEOREM TypeCorrect == Spec => []TypeOK
<1>1. IInv => TypeOK
  BY DEF IInv, Locked
<1> QED BY <1>1, Invariance, PTL

\* However many processes run and die and whatever pids are given out again, one
\* process at a time is inside DirectoryLock, and the directory names it.
THEOREM MutualExclusion == Spec => []LockIsHeld
<1>1. IInv => LockIsHeld
  BY DEF IInv, Locked, Held, HeldBy, LockIsHeld
<1> QED BY <1>1, Invariance, PTL

\* A product never stands in the config before a transaction that could take it
\* back is published.
THEOREM EvidenceIsFirst == Spec => []EvidenceFirst
<1>1. IInv => EvidenceFirst
  BY DEF IInv
<1> QED BY <1>1, Invariance, PTL

\* An applied product stays registered as long as it has no rival plan.
THEOREM AppliedIsRegistered == Spec => []AppliedUnlessRival
<1>1. IInv => AppliedUnlessRival
  BY DEF IInv
<1> QED BY <1>1, Invariance, PTL

\* No step writes over the journal of an applied plan.
LEMMA AppliedStep ==
    ASSUME IInv, [Next]_vars, NEW x \in DOMAIN journal, journal[x].status = "applied"
    PROVE  x \in DOMAIN journal' /\ journal'[x].status = "applied"
<1> USE DEF IInv
<1>1. CASE Env
  BY <1>1, EnvFrame DEF Locked
<1>2. ASSUME NEW p \in Procs, Act(p)
      PROVE  x \in DOMAIN journal' /\ journal'[x].status = "applied"
  <2>1. /\ DOMAIN journal \subseteq DOMAIN journal'
        /\ x # plan[p] => journal'[x] = journal[x]
        /\ pc[p] \notin Inside => journal' = journal
    BY <1>2, SharedFrame DEF Locked
  <2>2. CASE x # plan[p] \/ pc[p] \notin Inside
    BY <2>1, <2>2
  <2>3. CASE x = plan[p] /\ pc[p] \in Inside
    <3>1. pc[p] \in {"admit", "evidence", "begin"}
      BY <2>3 DEF NotApplied, NotAppliedBy, Begun, Inside, First, Again, Common
    <3>2. pc[p] # "evidence"
      BY <2>3 DEF Locked, PlansKnown, PlanKnown
    <3>3. journal' = journal
      <4>1. Admit(p) \/ BeginRecovery(p) \/ Crash(p)
        BY <3>1, <3>2, <1>2 DEF Act, Run, Start, Repeat, Prepare, TakeGuard, Claim,
           PublishEvidence, MarkPublishing, Recheck, ReadConfig, Check, PublishConfig,
           Verify, Conclude, Undo, Judge, Restore, Close
      <4>2. Has(plan[p], "applied")
        BY <2>3 DEF Has, Started
      <4> QED BY <4>1, <4>2 DEF Admit, BeginRecovery, Crash
    <3> QED BY <3>3, <2>1
  <2> QED BY <2>2, <2>3
<1> QED BY <1>1, <1>2, NextCases DEF Locked

\* What is applied is terminal, for every number of operators and repetitions.
THEOREM AppliedStaysTerminal == Spec => AppliedIsTerminal
<1>1. IInv /\ [Next]_vars =>
        [\A pl \in DOMAIN journal :
           journal[pl].status = "applied" =>
               pl \in DOMAIN journal' /\ journal'[pl].status = "applied"]_vars
  BY AppliedStep
<1> QED BY <1>1, Invariance, PTL DEF Spec, AppliedIsTerminal

\* A step that takes a product out of the config is the restore of a plan for it.
LEMMA OthersStep ==
    ASSUME IInv, [Next]_vars, NEW product \in Registered(config) \ Registered(config')
    PROVE  \E p \in Procs : pc[p] = "restore" /\ plan[p].product = product
<1> USE DEF IInv
<1>1. CASE Env
  <2>1. config'.blocks = config.blocks
    BY <1>1, EnvFrame DEF Locked
  <2> QED BY <2>1, SameBlocks
<1>2. ASSUME NEW p \in Procs, Act(p)
      PROVE  pc[p] = "restore" /\ plan[p].product = product
  <2>1. config' # config
    OBVIOUS
  <2> QED BY <2>1, <1>2, Replacement
<1> QED BY <1>1, <1>2, NextCases DEF Locked

\* No registration loses the product of another one.
THEOREM OthersAreKept == Spec => OthersKept
<1>1. IInv /\ [Next]_vars =>
        [\A product \in Registered(config) \ Registered(config') :
           \E p \in Procs : pc[p] = "restore" /\ plan[p].product = product]_vars
  BY OthersStep
<1> QED BY <1>1, Invariance, PTL DEF Spec, OthersKept
===============================================================================
