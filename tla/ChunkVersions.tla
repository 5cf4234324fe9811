---------------------------- MODULE ChunkVersions ----------------------------
(***************************************************************************)
(* What the callers of the chunk scheduler rely on: each accepted request  *)
(* opens a version newer than any before it, a version settles as Ready or *)
(* Failed under its own number, and only a Ready one can be reopened.      *)
(***************************************************************************)
EXTENDS Naturals

CONSTANT Keys

VARIABLES
    issued,     \* the newest version number handed out
    version,    \* chunk -> the number of its current version, 0 without a record
    status      \* chunk -> what is known of that version

vars == <<issued, version, status>>

Statuses == {"Absent", "Pending", "Ready", "Failed", "Cancelled"}

Init ==
    /\ issued = 0
    /\ version = [k \in Keys |-> 0]
    /\ status = [k \in Keys |-> "Absent"]

\* A version number may be spent on a request that is then refused.
Spend ==
    /\ issued' = issued + 1
    /\ UNCHANGED <<version, status>>

Open(k, s) ==
    /\ issued' = issued + 1
    /\ version' = [version EXCEPT ![k] = issued + 1]
    /\ status' = [status EXCEPT ![k] = s]

Request(k) == Open(k, "Pending")

Cancel(k) ==
    /\ status[k] # "Absent"
    /\ Open(k, "Cancelled")

Reopen(k) ==
    /\ status[k] = "Ready"
    /\ status' = [status EXCEPT ![k] = "Pending"]
    /\ UNCHANGED <<issued, version>>

Settle(k) ==
    /\ status[k] = "Pending"
    /\ \E s \in {"Ready", "Failed"} : status' = [status EXCEPT ![k] = s]
    /\ UNCHANGED <<issued, version>>

Forget(k) ==
    /\ status[k] # "Absent"
    /\ version' = [version EXCEPT ![k] = 0]
    /\ status' = [status EXCEPT ![k] = "Absent"]
    /\ UNCHANGED issued

Next ==
    \/ Spend
    \/ \E k \in Keys : Request(k) \/ Cancel(k) \/ Reopen(k) \/ Settle(k) \/ Forget(k)

Spec ==
    /\ Init /\ [][Next]_vars
    /\ \A k \in Keys : WF_vars(Settle(k))
=============================================================================
