------------------------------ MODULE CreateOnce ------------------------------
(***************************************************************************)
(* What `kob workitem create --idempotency-key` promises its callers: a key *)
(* is given one identity (display number, uid, request payload), for good,  *)
(* that no other key of the same scope shares, and every reply ever made    *)
(* for the key carries that identity.                                       *)
(***************************************************************************)
CONSTANTS Scopes,       \* independent reservation databases
          Keys,         \* idempotency keys
          Identities,   \* records with a number, a uid and a payload
          None          \* no identity decided yet

VARIABLES identity,     \* the identity decided for each scope and key
          replies       \* every reply given so far

vars == <<identity, replies>>

Init ==
    /\ identity = [s \in Scopes |-> [k \in Keys |-> None]]
    /\ replies = {}

Fresh(s, id) ==
    \A k \in Keys : identity[s][k] # None =>
        /\ identity[s][k].number # id.number
        /\ identity[s][k].uid # id.uid

Decide(s, k) ==
    /\ identity[s][k] = None
    /\ identity'[s][k] \in Identities
    /\ Fresh(s, identity'[s][k])
    /\ identity' = [identity EXCEPT ![s][k] = identity'[s][k]]
    /\ UNCHANGED replies

Reply(s, k) ==
    /\ identity[s][k] # None
    /\ replies' = replies \cup {[scope |-> s, key |-> k, id |-> identity[s][k]]}
    /\ UNCHANGED identity

Next == \E s \in Scopes, k \in Keys : Decide(s, k) \/ Reply(s, k)

Spec == Init /\ [][Next]_vars
===============================================================================
