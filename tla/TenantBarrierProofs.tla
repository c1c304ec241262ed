------------------------- MODULE TenantBarrierProofs -------------------------
(***************************************************************************)
(* What the barrier guarantees for any number of tenants, processes, turns *)
(* and requests, crashes included.                                         *)
(***************************************************************************)
EXTENDS TenantBarrier, TLAPS

\* A turn that passed the recheck works for a tenant that is not deleted.
WorkersActive ==
    \A t \in Turns : pc[t] \in {"working", "calling"} => deleted[TenantOf[t]] = FALSE

\* The turn of a self-deletion under way waits for its tool.
SelfWaits ==
    \A r \in Requests :
        SelfOf[r] # Nobody /\ pc[r] \in {"acquiring", "holding", "applied"}
            => pc[SelfOf[r]] = "calling"

Inv ==
    /\ TypeOK
    /\ HoldersHold
    /\ WorkersActive
    /\ SelfWaits
    /\ NothingPendingOnceDeleted

\* A self-deletion does not get past the barrier its own turn holds.
SelfDeletionKeptOut ==
    \A r \in Requests : SelfOf[r] # Nobody => pc[r] \notin RequestHolds

\* The turn of a self-deletion holds the barrier the self-deletion waits for.
LEMMA KeptOut == Inv => SelfDeletionKeptOut
BY BarrierAssumption DEF Inv, TypeOK, HoldersHold, SelfWaits, SelfDeletionKeptOut,
   TurnHolds, RequestHolds, Actors

\* Nobody is inside, and no output exists.
LEMMA InitInv == Init => Inv
BY BarrierAssumption
   DEF Init, Inv, TypeOK, HoldersHold, WorkersActive, SelfWaits,
       NothingPendingOnceDeleted, TurnPlaces, RequestPlaces, TurnHolds, RequestHolds,
       Actors

\* Every action keeps the types.
LEMMA TypeStep == TypeOK /\ [Next]_vars => TypeOK'
<1> SUFFICES ASSUME TypeOK, [Next]_vars PROVE TypeOK'
  OBVIOUS
<1> USE BarrierAssumption DEF TypeOK, TurnPlaces, RequestPlaces, Actors
<1>1. ASSUME NEW t \in Turns, Turn(t) PROVE TypeOK'
  <2>1. CASE Gate(t)
    BY <2>1 DEF Gate, Goto
  <2>2. CASE EnterTenantLock(t)
    BY <2>2 DEF EnterTenantLock, Goto
  <2>3. CASE TurnAcquire(t)
    BY <2>3 DEF TurnAcquire, Goto
  <2>4. CASE Recheck(t)
    <3>1. CASE deleted[TenantOf[t]]
      <4>1. /\ Goto(t, "ignored")
            /\ Release(t)
            /\ LeaveTenantLock(t)
            /\ UNCHANGED <<deleted, output, crashes>>
            /\ pc[t] = "rechecking"
        BY <2>4, <3>1, Zenon DEF Recheck
      <4> QED
        BY <4>1 DEF Goto, Release, LeaveTenantLock
    <3>2. CASE ~ deleted[TenantOf[t]]
      <4>1. /\ Goto(t, "working")
            /\ UNCHANGED <<deleted, barrier, tenantLock, output, crashes>>
            /\ pc[t] = "rechecking"
        BY <2>4, <3>2, Zenon DEF Recheck
      <4>2. deleted[TenantOf[t]] = FALSE
        BY <3>2
      <4> QED
        BY <4>1, <4>2 DEF Goto
    <3> QED
      BY <3>1, <3>2, Zenon
  <2>5. CASE Commit(t)
    BY <2>5 DEF Commit
  <2>6. CASE Finish(t)
    BY <2>6 DEF Finish, Goto, Release, LeaveTenantLock
  <2> QED
    BY <1>1, <2>1, <2>2, <2>3, <2>4, <2>5, <2>6 DEF Turn
<1>2. ASSUME NEW r \in Requests, Request(r) PROVE TypeOK'
  <2>1. CASE AdminCall(r)
    BY <2>1 DEF AdminCall, Goto
  <2>5. CASE SelfCall(r)
    <3>1. /\ SelfOf[r] \in Turns
          /\ SelfOf[r] # r
      BY <2>5 DEF SelfCall
    <3>2. \A a \in Actors : pc'[a] = IF a = SelfOf[r] THEN "calling"
                                    ELSE IF a = r THEN "acquiring" ELSE pc[a]
      BY <2>5, <3>1 DEF SelfCall
    <3>3. pc' \in [Actors -> TurnPlaces \cup RequestPlaces]
      BY <2>5, <3>1 DEF SelfCall
    <3> QED
      BY <2>5, <3>1, <3>2, <3>3 DEF SelfCall
  <2>6. CASE RequestAcquire(r)
    BY <2>6 DEF RequestAcquire, Goto
  <2>2. CASE SoftDelete(r)
    BY <2>2 DEF SoftDelete, Goto, Drained
  <2>3. CASE Restore(r) \/ AuditFails(r)
    BY <2>3 DEF Restore, AuditFails, Goto
  <2>4. CASE Unlock(r)
    BY <2>4 DEF Unlock, Release
  <2> QED
    BY <1>2, <2>1, <2>2, <2>3, <2>4, <2>5, <2>6 DEF Request
<1>3. ASSUME NEW l \in Loops, NEW fate \in {"gated", "lost"}, Crash(l, fate) PROVE TypeOK'
  BY <1>3 DEF Crash, Inside
<1>4. CASE UNCHANGED vars
  BY <1>4 DEF vars
<1> QED
  BY <1>1, <1>2, <1>3, <1>4 DEF Next

\* The barrier is taken when free, given up when left, and lost with its process.
LEMMA InvStep == Inv /\ [Next]_vars => Inv'
<1> SUFFICES ASSUME Inv, [Next]_vars PROVE Inv'
  OBVIOUS
<1>0. TypeOK'
  BY TypeStep DEF Inv
<1>k. SelfDeletionKeptOut
  BY KeptOut
<1> USE BarrierAssumption DEF Actors, TurnHolds, RequestHolds
<1>1. ASSUME NEW t \in Turns, Turn(t) PROVE Inv'
  <2> USE DEF Inv, TypeOK, HoldersHold, WorkersActive, SelfWaits, NothingPendingOnceDeleted
  <2>1. CASE Gate(t)
    BY <1>0, <2>1 DEF Gate, Goto
  <2>2. CASE EnterTenantLock(t)
    BY <1>0, <2>2 DEF EnterTenantLock, Goto
  <2>3. CASE TurnAcquire(t)
    BY <1>0, <2>3 DEF TurnAcquire, Goto
  <2>4. CASE Recheck(t)
    <3>1. CASE deleted[TenantOf[t]]
      <4>1. /\ Goto(t, "ignored")
            /\ Release(t)
            /\ LeaveTenantLock(t)
            /\ UNCHANGED <<deleted, output, crashes>>
            /\ pc[t] = "rechecking"
        BY <2>4, <3>1, Zenon DEF Recheck
      <4> QED
        BY <1>0, <4>1 DEF Goto, Release, LeaveTenantLock
    <3>2. CASE ~ deleted[TenantOf[t]]
      <4>1. /\ Goto(t, "working")
            /\ UNCHANGED <<deleted, barrier, tenantLock, output, crashes>>
            /\ pc[t] = "rechecking"
        BY <2>4, <3>2, Zenon DEF Recheck
      <4>2. deleted[TenantOf[t]] = FALSE
        BY <3>2
      <4> QED
        BY <1>0, <4>1, <4>2 DEF Goto
    <3> QED
      BY <3>1, <3>2, Zenon
  <2>5. CASE Commit(t)
    BY <1>0, <2>5 DEF Commit
  <2>6. CASE Finish(t)
    BY <1>0, <2>6 DEF Finish, Goto, Release, LeaveTenantLock
  <2> QED
    BY <1>1, <2>1, <2>2, <2>3, <2>4, <2>5, <2>6 DEF Turn
<1>2. ASSUME NEW r \in Requests, Request(r) PROVE Inv'
  <2> USE DEF Inv, TypeOK, HoldersHold, WorkersActive, SelfWaits, NothingPendingOnceDeleted
  <2>1. CASE AdminCall(r)
    BY <1>0, <2>1 DEF AdminCall, AdminRequests, Goto
  <2>2. CASE SelfCall(r)
    <3>1. /\ SelfOf[r] \in Turns
          /\ SelfOf[r] # r
      BY <2>2 DEF SelfCall
    <3>2. \A a \in Actors : pc'[a] = IF a = SelfOf[r] THEN "calling"
                                    ELSE IF a = r THEN "acquiring" ELSE pc[a]
      BY <2>2, <3>1 DEF SelfCall
    <3>3. HoldersHold'
      BY <2>2, <3>1, <3>2 DEF SelfCall
    <3>4. WorkersActive' /\ NothingPendingOnceDeleted'
      BY <2>2, <3>1, <3>2 DEF SelfCall
    <3>5. SelfWaits'
      BY <2>2, <3>1, <3>2 DEF SelfCall
    <3> QED
      BY <1>0, <3>3, <3>4, <3>5
  <2>3. CASE RequestAcquire(r)
    BY <1>0, <2>3 DEF RequestAcquire, Goto
  <2>4. CASE SoftDelete(r)
    BY <1>0, <2>4 DEF SoftDelete, Goto, Drained
  <2>5. CASE Restore(r)
    BY <1>0, <2>5 DEF Restore, Goto
  <2>6. CASE AuditFails(r)
    BY <1>0, <2>6 DEF AuditFails, Goto
  <2>7. CASE Unlock(r)
    BY <1>0, <1>k, <2>7 DEF Unlock, Release, SelfDeletionKeptOut
  <2> QED
    BY <1>2, <2>1, <2>2, <2>3, <2>4, <2>5, <2>6, <2>7 DEF Request
<1>3. ASSUME NEW l \in Loops, NEW fate \in {"gated", "lost"}, Crash(l, fate) PROVE Inv'
  BY <1>0, <1>3 DEF Crash, Inside, Inv, TypeOK, HoldersHold, WorkersActive, SelfWaits,
                    NothingPendingOnceDeleted
<1>4. CASE UNCHANGED vars
  BY <1>0, <1>4 DEF vars, Inv, TypeOK, HoldersHold, WorkersActive, SelfWaits,
                    NothingPendingOnceDeleted
<1> QED
  BY <1>1, <1>2, <1>3, <1>4 DEF Next

\* The parts together are inductive.
LEMMA Invariance == Spec => []Inv
BY InitInv, InvStep, PTL DEF Spec

\* The barrier excludes: whoever is past tenant_advisory_lock holds it.
THEOREM BarrierExcludes == Spec => []HoldersHold
<1>1. Inv => HoldersHold
  BY DEF Inv
<1> QED
  BY <1>1, Invariance, PTL

\* soft_delete_tenant's promise: a deleted tenant has no output pending, in
\* whatever order turns, deletions, restores and crashes come.
THEOREM DeletionIsFinal == Spec => []NothingPendingOnceDeleted
<1>1. Inv => NothingPendingOnceDeleted
  BY DEF Inv
<1> QED
  BY <1>1, Invariance, PTL

\* delete_my_account never deletes: its soft_delete_tenant never gets past
\* tenant_advisory_lock, because the turn that waits for it holds the lock.
THEOREM SelfDeletionNeverLands == Spec => []SelfDeletionKeptOut
BY KeptOut, Invariance, PTL

-----------------------------------------------------------------------------
(***************************************************************************)
(* Refinement                                                              *)
(***************************************************************************)
\* Who is at work for a tenant holds its barrier, so there is at most one.
LEMMA AtWorkHolds ==
    ASSUME Inv, NEW a \in Actors, pc[a] \in AtWork
    PROVE  barrier[TenantOf[a]] = a /\ Admitted[TenantOf[a]] = {a} /\ TenantOf[a] \in Tenants
<1> USE DEF AtWork, RequestHolds
<1>1. ASSUME NEW b \in Actors, pc[b] \in AtWork PROVE barrier[TenantOf[b]] = b
  <2>1. CASE b \in Turns
    BY <1>1, <2>1 DEF Inv, TypeOK, HoldersHold, TurnPlaces, TurnHolds
  <2>2. CASE b \in Requests
    BY <1>1, <2>2 DEF Inv, TypeOK, HoldersHold, RequestPlaces
  <2> QED BY <2>1, <2>2 DEF Actors
<1>2. TenantOf[a] \in Tenants
  BY BarrierAssumption
<1> QED BY <1>1, <1>2 DEF Admitted

\* A free barrier has nobody at work behind it.
LEMMA FreeIsEmpty ==
    ASSUME Inv, NEW n \in Tenants, \A a \in Actors : barrier[n] = a => pc[a] \notin AtWork
    PROVE  Admitted[n] = {}
  BY AtWorkHolds DEF Admitted

\* A step of the guard, or none.
Guarded == Guard!Next \/ UNCHANGED <<deleted, Admitted, output>>

LEMMA AdmittedStays ==
    ASSUME \A a \in Actors : pc'[a] \in AtWork <=> pc[a] \in AtWork
    PROVE  Admitted' = Admitted
  BY DEF Admitted

\* One actor comes in.
LEMMA GuardEnter ==
    ASSUME Inv, NEW a \in Actors, Admitted[TenantOf[a]] = {}, a \in Turns => ~ deleted[TenantOf[a]],
           pc' = [pc EXCEPT ![a] = pc'[a]], pc'[a] \in AtWork, UNCHANGED <<deleted, output>>
    PROVE  Guarded
<1>1. TenantOf[a] \in Tenants /\ pc \in [Actors -> TurnPlaces \cup RequestPlaces]
  BY BarrierAssumption DEF Inv, TypeOK
<1>2. ASSUME NEW b \in Actors, b # a PROVE pc'[b] = pc[b]
  BY <1>1, <1>2
<1>3. Admitted'[TenantOf[a]] = {a}
  BY <1>1, <1>2 DEF Admitted
<1>4. ASSUME NEW n \in Tenants, n # TenantOf[a] PROVE Admitted'[n] = Admitted[n]
  BY <1>2, <1>4 DEF Admitted
<1>5. Admitted' = [Admitted EXCEPT ![TenantOf[a]] = {a}]
  BY <1>1, <1>3, <1>4 DEF Admitted
<1>6. Guard!Enter(a)
  BY <1>5 DEF Guard!Enter
<1> QED BY <1>6 DEF Guarded, Guard!Next, Actors

\* Some leave, and nobody comes in.
LEMMA GuardLeave ==
    ASSUME NEW S \in SUBSET Actors,
           \A a \in Actors : pc'[a] \in AtWork <=> pc[a] \in AtWork /\ a \notin S,
           UNCHANGED <<deleted, output>>
    PROVE  Guarded
<1>1. Admitted' = [n \in Tenants |-> Admitted[n] \ S]
  BY DEF Admitted
<1>2. Guard!Leave(S)
  BY <1>1 DEF Guard!Leave
<1> QED BY <1>2 DEF Guarded, Guard!Next, Actors

LEMMA GuardTurn == ASSUME Inv, NEW t \in Turns, Turn(t) PROVE Guarded
<1> USE DEF AtWork, RequestHolds
<1>1. t \in Actors /\ pc \in [Actors -> TurnPlaces \cup RequestPlaces] /\ TenantOf[t] \in Tenants
  BY BarrierAssumption DEF Actors, Inv, TypeOK
<1>2. ASSUME NEW place, Goto(t, place), place \notin AtWork, pc[t] \notin AtWork, UNCHANGED <<deleted, output>>
      PROVE  Guarded
  <2>1. \A a \in Actors : pc'[a] \in AtWork <=> pc[a] \in AtWork
    BY <1>1, <1>2 DEF Goto
  <2> QED BY <1>2, <2>1, AdmittedStays DEF Guarded
<1>3. CASE Gate(t) \/ EnterTenantLock(t) \/ TurnAcquire(t)
  BY <1>2, <1>3 DEF Gate, EnterTenantLock, TurnAcquire
<1>4. CASE Recheck(t)
  <2>1. CASE deleted[TenantOf[t]]
    BY <1>2, <1>4, <2>1 DEF Recheck
  <2>2. CASE ~ deleted[TenantOf[t]]
    <3>1. barrier[TenantOf[t]] = t /\ pc[t] = "rechecking"
      BY <1>4 DEF Recheck, Inv, HoldersHold, TurnHolds
    <3>2. Admitted[TenantOf[t]] = {}
      BY <1>1, <3>1, FreeIsEmpty
    <3>3. pc' = [pc EXCEPT ![t] = "working"] /\ UNCHANGED <<deleted, output>>
      BY <1>4, <2>2 DEF Recheck, Goto
    <3>4. pc'[t] = "working"
      BY <1>1, <3>3
    <3> QED BY <1>1, <2>2, <3>2, <3>3, <3>4, GuardEnter
  <2> QED BY <2>1, <2>2
<1>5. CASE Commit(t)
  <2>1. pc[t] = "working" /\ UNCHANGED <<pc, deleted>> /\ output' = [output EXCEPT ![t] = "pending"]
    BY <1>5 DEF Commit
  <2>2. t \in Admitted[TenantOf[t]] /\ Admitted' = Admitted
    BY <1>1, <2>1 DEF Admitted
  <2>3. Guard!Write(t)
    BY <2>1, <2>2 DEF Guard!Write
  <2> QED BY <2>3 DEF Guarded, Guard!Next
<1>6. CASE Finish(t)
  <2>1. pc' = [pc EXCEPT ![t] = "done"] /\ UNCHANGED <<deleted, output>>
    BY <1>6 DEF Finish, Goto
  <2>2. \A a \in Actors : pc'[a] \in AtWork <=> pc[a] \in AtWork /\ a \notin {t}
    BY <1>1, <2>1
  <2> QED BY <1>1, <2>1, <2>2, GuardLeave
<1> QED BY <1>3, <1>4, <1>5, <1>6 DEF Turn

LEMMA GuardRequest == ASSUME Inv, NEW r \in Requests, Request(r) PROVE Guarded
<1> USE DEF AtWork, RequestHolds
<1>1. /\ r \in Actors /\ r \notin Turns /\ pc \in [Actors -> TurnPlaces \cup RequestPlaces]
      /\ TenantOf[r] \in Tenants
  BY BarrierAssumption DEF Actors, Inv, TypeOK
<1>2. CASE AdminCall(r)
  <2>1. \A a \in Actors : pc'[a] \in AtWork <=> pc[a] \in AtWork
    BY <1>1, <1>2 DEF AdminCall, Goto
  <2> QED BY <1>2, <2>1, AdmittedStays DEF Guarded, AdminCall
<1>3. CASE SelfCall(r)
  <2>1. SelfOf[r] \in Actors /\ SelfOf[r] # r
    BY <1>1, <1>3, BarrierAssumption DEF SelfCall, Actors
  <2>2. /\ pc[r] = "new" /\ pc[SelfOf[r]] = "working"
        /\ pc' = [pc EXCEPT ![r] = "acquiring", ![SelfOf[r]] = "calling"]
    BY <1>3 DEF SelfCall
  <2>3. \A a \in Actors : pc'[a] \in AtWork <=> pc[a] \in AtWork
    BY <1>1, <2>1, <2>2
  <2> QED BY <1>3, <2>3, AdmittedStays DEF Guarded, SelfCall
<1>4. CASE RequestAcquire(r)
  <2>1. Admitted[TenantOf[r]] = {}
    <3>1. \A a \in Actors : barrier[TenantOf[r]] # a
      BY <1>4, BarrierAssumption DEF RequestAcquire
    <3> QED BY <1>1, <3>1, FreeIsEmpty
  <2>2. pc' = [pc EXCEPT ![r] = "holding"] /\ UNCHANGED <<deleted, output>>
    BY <1>4 DEF RequestAcquire, Goto
  <2>3. pc'[r] = "holding"
    BY <1>1, <2>2
  <2> QED BY <1>1, <2>1, <2>2, <2>3, GuardEnter
<1>5. ASSUME pc[r] = "holding", Goto(r, "applied")
      PROVE  Admitted' = Admitted /\ Admitted[TenantOf[r]] = {r}
  <2>1. \A a \in Actors : pc'[a] \in AtWork <=> pc[a] \in AtWork
    BY <1>1, <1>5 DEF Goto
  <2> QED BY <1>1, <1>5, <2>1, AdmittedStays, AtWorkHolds
<1>6. CASE SoftDelete(r)
  <2>1. Admitted' = Admitted /\ Admitted[TenantOf[r]] = {r}
    BY <1>5, <1>6 DEF SoftDelete
  <2>2. output' = Drained(TenantOf[r])
    <3>1. CASE deleted[TenantOf[r]]
      <4>1. output' = output /\ output \in [Turns -> {"none", "pending", "dropped"}]
        BY <1>6, <3>1 DEF SoftDelete, Inv, TypeOK
      <4>2. \A t \in Turns : TenantOf[t] = TenantOf[r] => output[t] # "pending"
        BY <3>1 DEF Inv, NothingPendingOnceDeleted
      <4> QED BY <4>1, <4>2 DEF Drained
    <3>2. CASE ~ deleted[TenantOf[r]]
      BY <1>6, <3>2 DEF SoftDelete
    <3> QED BY <3>1, <3>2
  <2>3. Guard!Delete(r)
    BY <1>6, <2>1, <2>2 DEF SoftDelete, Drained, Guard!Delete
  <2> QED BY <2>3 DEF Guarded, Guard!Next
<1>7. CASE Restore(r)
  <2>1. Admitted' = Admitted /\ Admitted[TenantOf[r]] = {r}
    BY <1>5, <1>7 DEF Restore
  <2>2. Guard!Restore(r)
    BY <1>7, <2>1 DEF Restore, Guard!Restore
  <2> QED BY <2>2 DEF Guarded, Guard!Next
<1>8. CASE AuditFails(r)
  BY <1>5, <1>8 DEF AuditFails, Guarded
<1>9. CASE Unlock(r)
  <2>1. /\ pc[r] = "applied" /\ UNCHANGED <<deleted, output>>
        /\ pc' = [a \in Actors |-> IF a = r THEN "done" ELSE IF a = SelfOf[r] THEN "working" ELSE pc[a]]
    BY <1>9 DEF Unlock
  <2>2. SelfOf[r] \in Actors => pc[SelfOf[r]] = "calling"
    BY <2>1, BarrierAssumption DEF Inv, SelfWaits
  <2>3. \A a \in Actors : pc'[a] \in AtWork <=> pc[a] \in AtWork /\ a \notin {r}
    BY <1>1, <2>1, <2>2
  <2> QED BY <1>1, <2>1, <2>3, GuardLeave
<1> QED BY <1>2, <1>3, <1>4, <1>6, <1>7, <1>8, <1>9 DEF Request

LEMMA GuardCrash ==
    ASSUME Inv, NEW l \in Loops, NEW fate \in {"gated", "lost"}, Crash(l, fate)
    PROVE  Guarded
<1>1. /\ Inside(l) \in SUBSET Actors /\ UNCHANGED <<deleted, output>>
      /\ pc' = [a \in Actors |-> IF a \notin Inside(l) THEN pc[a]
                                ELSE IF a \in Turns THEN fate ELSE "lost"]
  BY DEF Crash, Inside
<1>2. \A a \in Actors : pc'[a] \in AtWork <=> pc[a] \in AtWork /\ a \notin Inside(l)
  BY <1>1 DEF AtWork, RequestHolds
<1> QED BY <1>1, <1>2, GuardLeave

\* Whatever locks, loops and crashes do, deletions, restores and turns of a
\* tenant are atomic to one another: the barrier implements the guard.
THEOREM Refinement == Spec => ImplementsSafeDeletion
<1>1. Init => Guard!Init
  <2>1. Init => Admitted = [n \in Tenants |-> {}]
    BY DEF Init, Admitted, AtWork, RequestHolds
  <2> QED BY <2>1 DEF Init, Guard!Init
<1>2. Inv /\ [Next]_vars => [Guard!Next]_<<deleted, Admitted, output>>
  <2> SUFFICES ASSUME Inv, [Next]_vars PROVE Guarded
    BY DEF Guarded
  <2>1. CASE UNCHANGED vars
    BY <2>1 DEF vars, Guarded, Admitted
  <2> QED BY <2>1, GuardTurn, GuardRequest, GuardCrash DEF Next
<1> QED BY <1>1, <1>2, Invariance, PTL DEF Spec, ImplementsSafeDeletion, Guard!Spec, Guard!guardVars
=============================================================================
