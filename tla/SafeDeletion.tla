---------------------------- MODULE SafeDeletion ----------------------------
(***************************************************************************)
(* What the deletion barrier promises, without event loops, locks,         *)
(* connections or rechecks: of the turns and requests of a tenant one is   *)
(* inside at a time, a deletion or a restore is one atomic step of a       *)
(* request that is inside, a turn is let in only for a tenant that is not  *)
(* deleted and writes only while it is inside.                             *)
(* Module TenantBarrier implements this specification.                     *)
(***************************************************************************)
CONSTANTS Tenants, Turns, Requests, Restores, TenantOf

VARIABLES
    deleted,  \* the tenants that are deleted
    inside,   \* who is at work for a tenant
    output    \* what a turn has written: nothing, something to deliver, or
              \* something a deletion has dropped

guardVars == <<deleted, inside, output>>

Init ==
    /\ deleted = [n \in Tenants |-> FALSE]
    /\ inside = [n \in Tenants |-> {}]
    /\ output = [t \in Turns |-> "none"]

Enter(a) ==
    /\ inside[TenantOf[a]] = {}
    /\ a \in Turns => ~ deleted[TenantOf[a]]
    /\ inside' = [inside EXCEPT ![TenantOf[a]] = {a}]
    /\ UNCHANGED <<deleted, output>>

\* One leaves, or all those whose process has died.
Leave(S) ==
    /\ inside' = [n \in Tenants |-> inside[n] \ S]
    /\ UNCHANGED <<deleted, output>>

Write(t) ==
    /\ t \in inside[TenantOf[t]]
    /\ output' = [output EXCEPT ![t] = "pending"]
    /\ UNCHANGED <<deleted, inside>>

\* The flag is set and what waits for delivery goes, in one step.
Delete(r) ==
    /\ inside[TenantOf[r]] = {r} /\ r \notin Restores
    /\ deleted' = [deleted EXCEPT ![TenantOf[r]] = TRUE]
    /\ output' = [t \in Turns |-> IF TenantOf[t] = TenantOf[r] /\ output[t] = "pending"
                                  THEN "dropped" ELSE output[t]]
    /\ UNCHANGED inside

\* Nothing that was dropped comes back.
Restore(r) ==
    /\ inside[TenantOf[r]] = {r} /\ r \in Restores
    /\ deleted' = [deleted EXCEPT ![TenantOf[r]] = FALSE]
    /\ UNCHANGED <<inside, output>>

Next ==
    \/ \E a \in Turns \cup Requests : Enter(a)
    \/ \E S \in SUBSET (Turns \cup Requests) : Leave(S)
    \/ \E t \in Turns : Write(t)
    \/ \E r \in Requests : Delete(r) \/ Restore(r)

Spec == Init /\ [][Next]_guardVars
=============================================================================
