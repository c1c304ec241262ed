---------------------------- MODULE TenantBarrier ----------------------------
(***************************************************************************)
(* Soft deletion of a tenant against the turns that are in flight for it   *)
(* (services/tenant_lifecycle.py, services/tenant_lock.py and the turn     *)
(* wrappers of telegram_inbound.py and max_inbound.py).                    *)
(*                                                                         *)
(* A turn runs under two locks: the asyncio lock of its tenant, one per    *)
(* event loop, and inside it the barrier, a session-scoped PostgreSQL      *)
(* advisory lock on a connection of its own.  soft_delete_tenant and       *)
(* restore_tenant take the barrier too, each again on its own connection,  *)
(* so the barrier is never reentrant.  pg_advisory_lock is a synchronous   *)
(* call: while it waits, nothing else runs on the caller's event loop.     *)
(*                                                                         *)
(* The drained artefacts (outbox rows, jobs, inbound events) are stood for *)
(* by one outbox row per turn.                                             *)
(***************************************************************************)
EXTENDS Naturals

CONSTANTS Tenants,
          Loops,     \* event loops, one per process
          Turns,     \* inbound updates, each processed by one turn
          Requests,  \* calls of soft_delete_tenant and restore_tenant
          TenantOf,  \* the tenant of a turn or of a request
          LoopOf,    \* the loop that runs a turn or an admin request
          Restores,  \* the requests that restore; the others delete
          SelfOf,    \* the turn whose delete_my_account makes a request,
                     \* or Nobody: the admin route makes it
          MaxCrashes,\* bound on process restarts
          Nobody

Actors == Turns \cup Requests

ASSUME BarrierAssumption ==
    /\ Turns \cap Requests = {}
    /\ TenantOf \in [Actors -> Tenants]
    /\ LoopOf \in [Actors -> Loops]
    /\ Restores \subseteq Requests
    /\ SelfOf \in [Requests -> Turns \cup {Nobody}]
    /\ \A r \in Requests : SelfOf[r] # Nobody => /\ TenantOf[r] = TenantOf[SelfOf[r]]
                                                /\ LoopOf[r] = LoopOf[SelfOf[r]]
    /\ Nobody \notin Actors
    /\ MaxCrashes \in Nat

VARIABLES
    deleted,     \* tenants.deleted_at is set
    barrier,     \* who holds the advisory lock of a tenant
    tenantLock,  \* who holds the asyncio lock of a tenant in a loop
    pc,          \* where a turn or a request is
    output,      \* the outbox row a turn has committed
    crashes

vars == <<deleted, barrier, tenantLock, pc, output, crashes>>

AdminRequests == {r \in Requests : SelfOf[r] = Nobody}

\* The actor is inside a synchronous call of its event loop.
Synchronous(a) ==
    \/ a \in Turns /\ pc[a] \in {"acquiring", "rechecking"}
    \/ a \in AdminRequests /\ pc[a] \in {"acquiring", "holding", "applied"}

\* The event loop is free to run the actor.
Scheduled(a) ==
    \A b \in Actors \ {a} : LoopOf[b] = LoopOf[a] => ~ Synchronous(b)

Release(a) == barrier' = [barrier EXCEPT ![TenantOf[a]] = Nobody]

LeaveTenantLock(t) ==
    tenantLock' = [tenantLock EXCEPT ![LoopOf[t]][TenantOf[t]] = Nobody]

Goto(a, place) == pc' = [pc EXCEPT ![a] = place]

-----------------------------------------------------------------------------
Init ==
    /\ deleted = [n \in Tenants |-> FALSE]
    /\ barrier = [n \in Tenants |-> Nobody]
    /\ tenantLock = [l \in Loops |-> [n \in Tenants |-> Nobody]]
    /\ pc = [a \in Actors |-> "new"]
    /\ output = [t \in Turns |-> "none"]
    /\ crashes = 0

-----------------------------------------------------------------------------
(***************************************************************************)
(* A turn                                                                  *)
(***************************************************************************)
\* The ingress gate of handle_telegram_update and handle_max_update.
Gate(t) ==
    /\ pc[t] = "new"
    /\ Scheduled(t)
    /\ Goto(t, IF deleted[TenantOf[t]] THEN "rejected" ELSE "gated")
    /\ UNCHANGED <<deleted, barrier, tenantLock, output, crashes>>

\* `async with tenant_lock', then pg_advisory_lock without an await between.
EnterTenantLock(t) ==
    /\ pc[t] = "gated"
    /\ Scheduled(t)
    /\ tenantLock[LoopOf[t]][TenantOf[t]] = Nobody
    /\ tenantLock' = [tenantLock EXCEPT ![LoopOf[t]][TenantOf[t]] = t]
    /\ Goto(t, "acquiring")
    /\ UNCHANGED <<deleted, barrier, output, crashes>>

\* Mutant: the turn does not take the barrier.
TurnAcquireNothing(t) ==
    /\ pc[t] = "acquiring"
    /\ Goto(t, "rechecking")
    /\ UNCHANGED <<deleted, barrier, tenantLock, output, crashes>>

TurnAcquire(t) ==
    /\ pc[t] = "acquiring"
    /\ barrier[TenantOf[t]] = Nobody
    /\ barrier' = [barrier EXCEPT ![TenantOf[t]] = t]
    /\ Goto(t, "rechecking")
    /\ UNCHANGED <<deleted, tenantLock, output, crashes>>

\* Mutant: the activity of the tenant is not read again under the barrier.
RecheckNothing(t) ==
    /\ pc[t] = "rechecking"
    /\ Goto(t, "working")
    /\ UNCHANGED <<deleted, barrier, tenantLock, output, crashes>>

\* is_tenant_active under the barrier: the turn of a deleted tenant is
\* marked ignored and leaves.
Recheck(t) ==
    /\ pc[t] = "rechecking"
    /\ IF deleted[TenantOf[t]]
         THEN /\ Goto(t, "ignored")
              /\ Release(t)
              /\ LeaveTenantLock(t)
         ELSE /\ Goto(t, "working")
              /\ UNCHANGED <<barrier, tenantLock>>
    /\ UNCHANGED <<deleted, output, crashes>>

\* A commit of the turn's session; a turn commits any number of times.
Commit(t) ==
    /\ pc[t] = "working"
    /\ Scheduled(t)
    /\ output' = [output EXCEPT ![t] = "pending"]
    /\ UNCHANGED <<deleted, barrier, tenantLock, pc, crashes>>

\* Mutant: the barrier is not released when the turn ends.
FinishHolding(t) ==
    /\ pc[t] = "working"
    /\ Scheduled(t)
    /\ Goto(t, "done")
    /\ LeaveTenantLock(t)
    /\ UNCHANGED <<deleted, barrier, output, crashes>>

\* The end of the turn, by return or by exception: the finally clause.
Finish(t) ==
    /\ pc[t] = "working"
    /\ Scheduled(t)
    /\ Goto(t, "done")
    /\ Release(t)
    /\ LeaveTenantLock(t)
    /\ UNCHANGED <<deleted, output, crashes>>

-----------------------------------------------------------------------------
(***************************************************************************)
(* soft_delete_tenant and restore_tenant                                   *)
(***************************************************************************)
\* The admin route, an `async def' that calls the function directly.
AdminCall(r) ==
    /\ pc[r] = "new"
    /\ r \in AdminRequests
    /\ Scheduled(r)
    /\ Goto(r, "acquiring")
    /\ UNCHANGED <<deleted, barrier, tenantLock, output, crashes>>

\* delete_my_account after the user's `yes': the tool runs in a worker thread
\* and its turn waits for it, holding the barrier.
SelfCall(r) ==
    /\ pc[r] = "new"
    /\ SelfOf[r] # Nobody
    /\ pc[SelfOf[r]] = "working"
    /\ pc' = [pc EXCEPT ![r] = "acquiring", ![SelfOf[r]] = "calling"]
    /\ UNCHANGED <<deleted, barrier, tenantLock, output, crashes>>

RequestAcquire(r) ==
    /\ pc[r] = "acquiring"
    /\ barrier[TenantOf[r]] = Nobody
    /\ barrier' = [barrier EXCEPT ![TenantOf[r]] = r]
    /\ Goto(r, "holding")
    /\ UNCHANGED <<deleted, tenantLock, output, crashes>>

Drained(n) ==
    [t \in Turns |-> IF TenantOf[t] = n /\ output[t] = "pending" THEN "dropped"
                                                                  ELSE output[t]]

\* Flag, drain and audit row in one commit under the barrier; a tenant that
\* is deleted already is left as it is.
SoftDelete(r) ==
    /\ pc[r] = "holding"
    /\ r \notin Restores
    /\ deleted' = [deleted EXCEPT ![TenantOf[r]] = TRUE]
    /\ output' = IF deleted[TenantOf[r]] THEN output ELSE Drained(TenantOf[r])
    /\ Goto(r, "applied")
    /\ UNCHANGED <<barrier, tenantLock, crashes>>

Restore(r) ==
    /\ pc[r] = "holding"
    /\ r \in Restores
    /\ deleted' = [deleted EXCEPT ![TenantOf[r]] = FALSE]
    /\ Goto(r, "applied")
    /\ UNCHANGED <<barrier, tenantLock, output, crashes>>

\* The audit row of a real change is not written: roll back and raise.
AuditFails(r) ==
    /\ pc[r] = "holding"
    /\ deleted[TenantOf[r]] = (r \in Restores)
    /\ Goto(r, "applied")
    /\ UNCHANGED <<deleted, barrier, tenantLock, output, crashes>>

\* Mutant: a request returns without pg_advisory_unlock or close.
UnlockNothing(r) ==
    /\ pc[r] = "applied"
    /\ Goto(r, "done")
    /\ UNCHANGED <<deleted, barrier, tenantLock, output, crashes>>

\* The finally clause of tenant_advisory_lock, then the return to the caller.
Unlock(r) ==
    /\ pc[r] = "applied"
    /\ Release(r)
    /\ pc' = [a \in Actors |-> IF a = r THEN "done"
                               ELSE IF a = SelfOf[r] THEN "working" ELSE pc[a]]
    /\ UNCHANGED <<deleted, tenantLock, output, crashes>>

-----------------------------------------------------------------------------
\* The actors that live in the process of a loop.
Inside(l) ==
    {a \in Actors : /\ LoopOf[a] = l
                    /\ pc[a] \notin {"new", "done", "ignored", "rejected", "lost"}}

\* The process of a loop dies and is started again.  Its connections close
\* and release their locks.  A turn that came through message_jobs is
\* claimed again (fate "gated"); any other turn or request is lost.
Crash(l, fate) ==
    /\ crashes < MaxCrashes
    /\ crashes' = crashes + 1
    /\ pc' = [a \in Actors |-> IF a \notin Inside(l) THEN pc[a]
                               ELSE IF a \in Turns THEN fate ELSE "lost"]
    /\ barrier' = [n \in Tenants |-> IF barrier[n] \in Inside(l) THEN Nobody ELSE barrier[n]]
    /\ tenantLock' = [tenantLock EXCEPT ![l] = [n \in Tenants |-> Nobody]]
    /\ UNCHANGED <<deleted, output>>

-----------------------------------------------------------------------------
Turn(t) ==
    \/ Gate(t)
    \/ EnterTenantLock(t)
    \/ TurnAcquire(t)
    \/ Recheck(t)
    \/ Commit(t)
    \/ Finish(t)

Request(r) ==
    \/ AdminCall(r)
    \/ SelfCall(r)
    \/ RequestAcquire(r)
    \/ SoftDelete(r)
    \/ Restore(r)
    \/ AuditFails(r)
    \/ Unlock(r)

Next ==
    \/ \E t \in Turns : Turn(t)
    \/ \E r \in Requests : Request(r)
    \/ \E l \in Loops, fate \in {"gated", "lost"} : Crash(l, fate)

Spec == Init /\ [][Next]_vars

\* Turns end (every model and network call of a turn has a timeout and the
\* passes are bounded), and PostgreSQL grants a free advisory lock.
Fairness ==
    /\ \A t \in Turns : /\ WF_vars(EnterTenantLock(t))
                        /\ WF_vars(TurnAcquire(t))
                        /\ WF_vars(Recheck(t))
                        /\ WF_vars(Finish(t))
    /\ \A r \in Requests : /\ WF_vars(RequestAcquire(r))
                           /\ WF_vars(SoftDelete(r) \/ Restore(r))
                           /\ WF_vars(Unlock(r))

FairSpec == Spec /\ Fairness

-----------------------------------------------------------------------------
(***************************************************************************)
(* Properties                                                              *)
(***************************************************************************)
TurnPlaces == {"new", "gated", "acquiring", "rechecking", "working", "calling",
               "done", "ignored", "rejected", "lost"}
RequestPlaces == {"new", "acquiring", "holding", "applied", "done", "lost"}

TurnHolds == {"rechecking", "working", "calling"}
RequestHolds == {"holding", "applied"}

\* Type invariant.
TypeOK ==
    /\ deleted \in [Tenants -> BOOLEAN]
    /\ barrier \in [Tenants -> Actors \cup {Nobody}]
    /\ tenantLock \in [Loops -> [Tenants -> Turns \cup {Nobody}]]
    /\ pc \in [Actors -> TurnPlaces \cup RequestPlaces]
    /\ \A t \in Turns : pc[t] \in TurnPlaces
    /\ \A r \in Requests : pc[r] \in RequestPlaces
    /\ output \in [Turns -> {"none", "pending", "dropped"}]
    /\ crashes \in 0 .. MaxCrashes

\* Whoever is past the barrier holds it: so a deletion and a turn, or two
\* turns of two processes, are never inside for the same tenant.
HoldersHold ==
    /\ \A t \in Turns : pc[t] \in TurnHolds => barrier[TenantOf[t]] = t
    /\ \A r \in Requests : pc[r] \in RequestHolds => barrier[TenantOf[r]] = r

\* The promise of soft_delete_tenant's docstring: what an in-flight turn
\* writes is never committed after the deletion, so no output of any turn is
\* left pending for a deleted tenant, to be delivered now or after a restore.
NothingPendingOnceDeleted ==
    \A t \in Turns : deleted[TenantOf[t]] => output[t] # "pending"

\* A request that waits for the barrier gets through and returns: the
\* deletion waits for the turn in flight, then drains.
RequestsReturn ==
    \A r \in Requests : pc[r] = "acquiring" ~> pc[r] = "done"

\* What keeps an actor from its next step: the holder of the advisory or
\* asyncio lock it waits for, the call its tool made, or a synchronous call
\* that occupies its event loop.
WaitsFor(a, b) ==
    \/ pc[a] = "acquiring" /\ barrier[TenantOf[a]] = b
    \/ pc[a] = "gated" /\ tenantLock[LoopOf[a]][TenantOf[a]] = b
    \/ pc[a] = "calling" /\ b \in Requests /\ SelfOf[b] = a /\ pc[b] \notin {"new", "done"}
    \/ pc[a] \in {"gated", "working"} /\ a # b /\ LoopOf[a] = LoopOf[b] /\ Synchronous(b)

\* The actor is in a circular wait, or waits for one: a self-deletion and its
\* turn, or an event loop blocked in pg_advisory_lock that would have to run
\* the lock's holder.
Stuck(a) ==
    \E S \in SUBSET Actors :
        a \in S /\ \A b \in S : \E c \in S : WaitsFor(b, c)

\* A circular wait is all that can keep a request waiting for ever: through
\* turns, other requests and restarts, it returns or dies with its process.
\* No lock is left behind by an exit, an error, an early return or a crash.
RequestsServed ==
    \A r \in Requests : pc[r] = "acquiring" ~> pc[r] \in {"done", "lost"} \/ Stuck(r)

\* The same of a turn let in by the ingress gate.
TurnsEnd ==
    \A t \in Turns : pc[t] = "gated" ~> pc[t] \in {"done", "ignored", "lost"} \/ Stuck(t)

-----------------------------------------------------------------------------
\* Who is at work for a tenant: a turn from its recheck to its end, a request
\* from its lock to its unlock.
AtWork == {"working", "calling"} \cup RequestHolds

Admitted == [n \in Tenants |-> {a \in Actors : TenantOf[a] = n /\ pc[a] \in AtWork}]

Guard == INSTANCE SafeDeletion WITH inside <- Admitted

\* Two kinds of lock, the recheck, process restarts and requests made inside a
\* turn come to what the docstring of soft_delete_tenant says in one sentence:
\* deletions and turns of a tenant are atomic to one another.
ImplementsSafeDeletion == Guard!Spec
=============================================================================
