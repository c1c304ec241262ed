------------------------- MODULE MessageQueueProofs -------------------------
(***************************************************************************)
(* Proofs about MessageQueue for any sets of jobs, threads, enqueuers and  *)
(* dispatchers.  Fencing, settlement and, but for leases renewed after they *)
(* ran out, the per-thread exclusion of message_jobs.py hold whatever the  *)
(* enqueuers do; the order of claims is proved for one sequential enqueuer. *)
(***************************************************************************)
EXTENDS MessageQueue, TLAPS

\* A dispatcher that works on a job has one, and only then does it beat.
HoldsWhatItRuns ==
    \A d \in Dispatchers : /\ pc[d] \in Busy => held[d] \in Jobs
                           /\ beating[d] => pc[d] \in Busy

FenceInv == TypeOK /\ HoldsWhatItRuns /\ TokensAreUnique

-----------------------------------------------------------------------------
\* Every process of the initial state is idle and no row exists.
LEMMA FenceInit == Init => FenceInv
  BY QueueAssumption DEF Init, FenceInv, TypeOK, HoldsWhatItRuns, TokensAreUnique, PC, Busy

\* The columns and locals keep their types in every step of the code.
LEMMA TypeStep == FenceInv /\ [Next]_vars => TypeOK'
<1> SUFFICES ASSUME FenceInv, [Next]_vars PROVE TypeOK'
  OBVIOUS
<1> USE QueueAssumption DEF FenceInv, TypeOK, HoldsWhatItRuns, PC, Busy, Open, Terminal,
        rowVars, enqVars, dispVars, claimVars
<1>1. ASSUME NEW e \in Enqueuers, Enqueue(e) PROVE TypeOK'
  BY <1>1 DEF Enqueue, EnqueueBegin, EnqueueCommit, EnqueueAbort
<1>2. ASSUME NEW d \in Dispatchers, ClaimBegin(d) PROVE TypeOK'
  BY <1>2 DEF ClaimBegin
<1>3. ASSUME NEW d \in Dispatchers, NEW j \in Jobs, Claim(d, j) PROVE TypeOK'
  BY <1>3 DEF Claim
<1>4. ASSUME NEW d \in Dispatchers, ClaimNone(d) PROVE TypeOK'
  BY <1>4 DEF ClaimNone
<1>12. ASSUME NEW d \in Dispatchers, ClaimSnapshot(d) PROVE TypeOK'
  BY <1>12 DEF ClaimSnapshot
<1>13. ASSUME NEW d \in Dispatchers, NEW j \in Jobs, PassOver(d, j) PROVE TypeOK'
  BY <1>13 DEF PassOver
<1>14. ASSUME NEW n \in Tenants, Drain(n) PROVE TypeOK'
  BY <1>14 DEF Drain
<1>5. ASSUME NEW d \in Dispatchers, Heartbeat(d) PROVE TypeOK'
  <2>1. CASE Owns(d)
    BY <1>5, <2>1 DEF Heartbeat
  <2>2. CASE ~ Owns(d)
    BY <1>5, <2>2 DEF Heartbeat
  <2> QED BY <2>1, <2>2
<1>6. ASSUME NEW d \in Dispatchers, DispatchOk(d) \/ DispatchFail(d) PROVE TypeOK'
  BY <1>6 DEF DispatchOk, DispatchFail
<1>7. ASSUME NEW d \in Dispatchers, MarkDone(d) \/ MarkDoneError(d) PROVE TypeOK'
  <2>1. LandDone(d) \/ UNCHANGED <<status, lease>>
    BY <1>7 DEF MarkDone, MarkDoneError
  <2>2. status' \in [Jobs -> {"absent"} \cup Open \cup Terminal]
    BY <2>1 DEF LandDone
  <2>3. lease' \in [Jobs -> {"none", "active", "expired"}]
    BY <2>1 DEF LandDone
  <2> QED
    <3>1. CASE MarkDone(d)
      BY <3>1, <2>2, <2>3 DEF MarkDone, Finish
    <3>2. CASE MarkDoneError(d)
      BY <3>2, <2>2, <2>3 DEF MarkDoneError
    <3> QED
      BY <1>7, <3>1, <3>2
<1>8. ASSUME NEW d \in Dispatchers, MarkFailed(d) \/ MarkFailedError(d) PROVE TypeOK'
  <2>1. LandFailed(d) \/ UNCHANGED <<status, lease>>
    BY <1>8 DEF MarkFailed, MarkFailedError
  <2>2. status' \in [Jobs -> {"absent"} \cup Open \cup Terminal]
    BY <2>1 DEF LandFailed
  <2>3. lease' \in [Jobs -> {"none", "active", "expired"}]
    BY <2>1 DEF LandFailed
  <2> QED
    <3>1. CASE MarkFailed(d)
      BY <3>1, <2>2, <2>3 DEF MarkFailed, Finish
    <3>2. CASE MarkFailedError(d)
      BY <3>2, <2>2, <2>3 DEF MarkFailedError, Finish
    <3> QED
      BY <1>8, <3>1, <3>2
<1>9. ASSUME NEW d \in Dispatchers, Crash(d) PROVE TypeOK'
  BY <1>9 DEF Crash
<1>10. ASSUME NEW j \in Jobs, LeaseLapse(j) PROVE TypeOK'
  BY <1>10 DEF LeaseLapse
<1>11. CASE UNCHANGED vars
  BY <1>11 DEF vars
<1> QED
  BY <1>1, <1>2, <1>3, <1>4, <1>5, <1>6, <1>7, <1>8, <1>9, <1>10, <1>11, <1>12, <1>13, <1>14
     DEF Next, Dispatch

\* A claim hands out a fresh token; no other step issues one.
LEMMA FenceStep == FenceInv /\ [Next]_vars => (HoldsWhatItRuns /\ TokensAreUnique)'
<1> SUFFICES ASSUME FenceInv, [Next]_vars PROVE (HoldsWhatItRuns /\ TokensAreUnique)'
  OBVIOUS
<1> DEFINE Goal == (HoldsWhatItRuns /\ TokensAreUnique)'
<1> USE QueueAssumption DEF FenceInv, TypeOK, HoldsWhatItRuns, TokensAreUnique, PC, Busy,
        rowVars, enqVars, dispVars, claimVars
<1>1. ASSUME NEW e \in Enqueuers, Enqueue(e) PROVE Goal
  BY <1>1 DEF Enqueue, EnqueueBegin, EnqueueCommit, EnqueueAbort
<1>2. ASSUME NEW d \in Dispatchers, ClaimBegin(d) PROVE Goal
  BY <1>2 DEF ClaimBegin
<1>3. ASSUME NEW d \in Dispatchers, NEW j \in Jobs, Claim(d, j) PROVE Goal
  <2>1. HoldsWhatItRuns'
    BY <1>3 DEF Claim
  <2>2. ASSUME NEW c \in Dispatchers, pc'[c] \in Busy PROVE token'[c] <= attempt'[held'[c]]
    BY <1>3, <2>2 DEF Claim
  <2>3. ASSUME NEW c \in Dispatchers, c # d, pc[c] \in Busy, held[c] = j
        PROVE  token'[c] < token'[d]
    BY <1>3, <2>3 DEF Claim
  <2>4. ASSUME NEW b \in Dispatchers, NEW c \in Dispatchers, b # c,
               pc'[b] \in Busy, pc'[c] \in Busy, held'[b] = held'[c]
        PROVE  token'[b] # token'[c]
    BY <1>3, <2>3, <2>4 DEF Claim
  <2> QED
    BY <2>1, <2>2, <2>4
<1>4. ASSUME NEW d \in Dispatchers, ClaimNone(d) PROVE Goal
  BY <1>4 DEF ClaimNone
<1>12. ASSUME NEW d \in Dispatchers, ClaimSnapshot(d) PROVE Goal
  BY <1>12 DEF ClaimSnapshot
<1>13. ASSUME NEW d \in Dispatchers, NEW j \in Jobs, PassOver(d, j) PROVE Goal
  BY <1>13 DEF PassOver
<1>14. ASSUME NEW n \in Tenants, Drain(n) PROVE Goal
  BY <1>14 DEF Drain
<1>5. ASSUME NEW d \in Dispatchers, Heartbeat(d) PROVE Goal
  BY <1>5 DEF Heartbeat
<1>6. ASSUME NEW d \in Dispatchers, DispatchOk(d) \/ DispatchFail(d) PROVE Goal
  BY <1>6 DEF DispatchOk, DispatchFail
<1>7. ASSUME NEW d \in Dispatchers, MarkDone(d) \/ MarkDoneError(d) PROVE Goal
  <2>1. CASE MarkDone(d)
    BY <2>1 DEF MarkDone, Finish
  <2>2. CASE MarkDoneError(d)
    BY <2>2 DEF MarkDoneError
  <2> QED BY <1>7, <2>1, <2>2
<1>8. ASSUME NEW d \in Dispatchers, MarkFailed(d) \/ MarkFailedError(d) PROVE Goal
  <2>1. /\ Finish(d) /\ UNCHANGED attempt
        /\ \A c \in Dispatchers : c # d => UNCHANGED <<pc[c], held[c], token[c], beating[c]>>
        /\ pc'[d] \notin Busy /\ ~ beating'[d]
    BY <1>8 DEF MarkFailed, MarkFailedError, Finish
  <2> QED BY <2>1
<1>9. ASSUME NEW d \in Dispatchers, Crash(d) PROVE Goal
  BY <1>9 DEF Crash
<1>10. ASSUME NEW j \in Jobs, LeaseLapse(j) PROVE Goal
  BY <1>10 DEF LeaseLapse
<1>11. CASE UNCHANGED vars
  BY <1>11 DEF vars
<1> QED
  BY <1>1, <1>2, <1>3, <1>4, <1>5, <1>6, <1>7, <1>8, <1>9, <1>10, <1>11, <1>12, <1>13, <1>14
     DEF Next, Dispatch

\* The queue keeps its types and its fencing invariant in every behaviour.
THEOREM Fencing == Spec => [](TypeOK /\ TokensAreUnique)
<1>1. FenceInv /\ [Next]_vars => FenceInv'
  BY TypeStep, FenceStep DEF FenceInv
<1> QED
  BY FenceInit, <1>1, PTL DEF Spec, FenceInv

\* Type correctness of the queue and its dispatchers.
THEOREM Typing == Spec => []TypeOK
  BY Fencing, PTL

\* No step takes a row out of done or dead_letter: a claim only takes open
\* rows, and every mark is conditional on status = 'processing'.
LEMMA SettledStep ==
    FenceInv /\ [Next]_vars => \A j \in Jobs : status[j] \in Terminal => status'[j] = status[j]
<1> SUFFICES ASSUME FenceInv, [Next]_vars, NEW j \in Jobs, status[j] \in Terminal
             PROVE  status'[j] = status[j]
  OBVIOUS
<1> USE QueueAssumption DEF FenceInv, TypeOK, HoldsWhatItRuns, Busy, Terminal, rowVars
<1>1. ASSUME NEW e \in Enqueuers, Enqueue(e) PROVE status'[j] = status[j]
  BY <1>1 DEF Enqueue, EnqueueBegin, EnqueueCommit, EnqueueAbort
<1>2. ASSUME NEW d \in Dispatchers, NEW k \in Jobs, Claim(d, k) PROVE status'[j] = status[j]
  BY <1>2 DEF Claim, Free
<1>3. ASSUME NEW d \in Dispatchers, MarkDone(d) \/ MarkDoneError(d)
      PROVE  status'[j] = status[j]
  <2>1. LandDone(d) \/ UNCHANGED <<status, lease>>
    BY <1>3 DEF MarkDone, MarkDoneError
  <2> QED
    BY <2>1 DEF LandDone, Owns
<1>4. ASSUME NEW d \in Dispatchers, MarkFailed(d) \/ MarkFailedError(d)
      PROVE  status'[j] = status[j]
  <2>1. LandFailed(d) \/ UNCHANGED <<status, lease>>
    BY <1>4 DEF MarkFailed, MarkFailedError
  <2> QED
    BY <2>1 DEF LandFailed, Owns
<1>5. ASSUME NEW d \in Dispatchers,
             \/ ClaimBegin(d) \/ ClaimSnapshot(d) \/ (\E k \in Jobs : PassOver(d, k))
             \/ ClaimNone(d) \/ Heartbeat(d)
             \/ DispatchOk(d) \/ DispatchFail(d) \/ Crash(d)
      PROVE  status'[j] = status[j]
  BY <1>5 DEF ClaimBegin, ClaimSnapshot, PassOver, ClaimNone, Heartbeat,
              DispatchOk, DispatchFail, Crash
<1>6. ASSUME NEW k \in Jobs, LeaseLapse(k) PROVE status'[j] = status[j]
  BY <1>6 DEF LeaseLapse
<1>7. ASSUME NEW n \in Tenants, Drain(n) PROVE status'[j] = status[j]
  BY <1>7 DEF Drain, Open
<1>8. CASE UNCHANGED vars
  BY <1>8 DEF vars
<1> QED
  BY <1>1, <1>2, <1>3, <1>4, <1>5, <1>6, <1>7, <1>8 DEF Next, Dispatch

\* A settled job stays settled, whatever late marks and stale claims arrive,
\* the settlement by the tenant's deletion included.
THEOREM Settlement == Spec => SettledForGood
<1>1. FenceInv /\ [Next]_vars => FenceInv'
  BY TypeStep, FenceStep DEF FenceInv
<1> QED
  BY FenceInit, <1>1, SettledStep, PTL DEF Spec, SettledForGood

-----------------------------------------------------------------------------
(***************************************************************************)
(* What a claim in progress may rely on.                                   *)
(***************************************************************************)
\* A processing row has a lease, and one that was read as lapsed and not
\* renewed since is still run out.
Leased ==
    \A j \in Jobs : status[j] = "processing" =>
        /\ lease[j] # "none"
        /\ \A d \in Dispatchers : j \in lapsed[d] => lease[j] = "expired"

\* The advisory lock serialises the claims.
OneSelecting ==
    \A c, d \in Dispatchers : pc[c] = "selecting" /\ pc[d] = "selecting" => c = d

\* A row of a candidate's thread that is being processed again, though the
\* snapshot did not see it so, was revived by a heartbeat.
Overtaken ==
    \A d \in Dispatchers, j, k \in Jobs :
        /\ pc[d] = "selecting"
        /\ j \in cand[d]
        /\ j # k
        /\ SameThread(j, k)
        /\ status[k] = "processing"
        /\ k \notin lapsed[d]
        => k \in revived

ClaimInv == FenceInv /\ Leased /\ OneSelecting /\ Overtaken /\ OneActivePerThread

\* The steps of a dispatcher after its claim, and those that end a claim
\* without one.
After(d) ==
    \/ ClaimNone(d)
    \/ DispatchOk(d) \/ DispatchFail(d)
    \/ MarkDone(d) \/ MarkDoneError(d)
    \/ MarkFailed(d) \/ MarkFailedError(d)
    \/ Crash(d)

\* Those steps make no row processing, renew no lease and start no claim.
LEMMA AfterStep ==
    ASSUME FenceInv, NEW d \in Dispatchers, After(d)
    PROVE  /\ UNCHANGED <<enqueuedAt, attempt, enqVars, revived>>
           /\ \A j \in Jobs : \/ UNCHANGED <<status[j], lease[j]>>
                              \/ /\ status[j] = "processing"
                                 /\ status'[j] \in {"pending"} \cup Terminal
           /\ \A c \in Dispatchers : c # d => UNCHANGED <<pc[c], lapsed[c], cand[c]>>
           /\ pc'[d] \notin {"selecting", "claiming"}
           /\ lapsed'[d] \subseteq lapsed[d]
<1> DEFINE Goal == /\ UNCHANGED <<enqueuedAt, attempt, enqVars, revived>>
                   /\ \A j \in Jobs : \/ UNCHANGED <<status[j], lease[j]>>
                                      \/ /\ status[j] = "processing"
                                         /\ status'[j] \in {"pending"} \cup Terminal
                   /\ \A c \in Dispatchers : c # d => UNCHANGED <<pc[c], lapsed[c], cand[c]>>
                   /\ pc'[d] \notin {"selecting", "claiming"}
                   /\ lapsed'[d] \subseteq lapsed[d]
<1> USE DEF FenceInv, TypeOK, rowVars, claimVars
<1>1. ASSUME MarkDone(d) \/ MarkDoneError(d) PROVE Goal
  <2>1. \A j \in Jobs : \/ UNCHANGED <<status[j], lease[j]>>
                        \/ status[j] = "processing" /\ status'[j] \in {"pending"} \cup Terminal
    <3>1. LandDone(d) \/ UNCHANGED <<status, lease>>
      BY <1>1 DEF MarkDone, MarkDoneError
    <3> QED BY <3>1 DEF LandDone, Owns, Terminal
  <2> QED BY <1>1, <2>1 DEF MarkDone, MarkDoneError, Finish
<1>2. ASSUME MarkFailed(d) \/ MarkFailedError(d) PROVE Goal
  <2>1. \A j \in Jobs : \/ UNCHANGED <<status[j], lease[j]>>
                        \/ status[j] = "processing" /\ status'[j] \in {"pending"} \cup Terminal
    <3>1. LandFailed(d) \/ UNCHANGED <<status, lease>>
      BY <1>2 DEF MarkFailed, MarkFailedError
    <3> QED BY <3>1 DEF LandFailed, Owns, Terminal
  <2> QED BY <1>2, <2>1 DEF MarkFailed, MarkFailedError, Finish
<1>3. ASSUME ClaimNone(d) \/ DispatchOk(d) \/ DispatchFail(d) \/ Crash(d) PROVE Goal
  BY <1>3 DEF ClaimNone, DispatchOk, DispatchFail, Crash
<1> QED BY <1>1, <1>2, <1>3 DEF After

\* Every step of the queue, the steps after a claim taken together.
LEMMA Steps ==
    ASSUME [Next]_vars
    PROVE  \/ \E e \in Enqueuers : Enqueue(e)
           \/ \E d \in Dispatchers : \/ ClaimBegin(d) \/ ClaimSnapshot(d) \/ Heartbeat(d)
                                     \/ \E j \in Jobs : Claim(d, j) \/ PassOver(d, j)
                                     \/ After(d)
           \/ \E j \in Jobs : LeaseLapse(j)
           \/ \E n \in Tenants : Drain(n)
           \/ UNCHANGED vars
  BY DEF Next, Dispatch, After

\* A renewal takes the row out of every list of lapsed leases.
LEMMA LeasedStep == ASSUME FenceInv, Leased, [Next]_vars PROVE Leased'
<1> USE DEF FenceInv, TypeOK, rowVars, enqVars, dispVars, claimVars, Leased
<1>1. ASSUME NEW e \in Enqueuers, Enqueue(e) PROVE Leased'
  BY <1>1 DEF Enqueue, EnqueueBegin, EnqueueCommit, EnqueueAbort
<1>2. ASSUME NEW d \in Dispatchers, ClaimBegin(d) \/ ClaimSnapshot(d) PROVE Leased'
  BY <1>2 DEF ClaimBegin, ClaimSnapshot
<1>3. ASSUME NEW d \in Dispatchers, NEW j \in Jobs, Claim(d, j) PROVE Leased'
  BY <1>3 DEF Claim
<1>4. ASSUME NEW d \in Dispatchers, NEW j \in Jobs, PassOver(d, j) PROVE Leased'
  BY <1>4 DEF PassOver
<1>5. ASSUME NEW d \in Dispatchers, Heartbeat(d) PROVE Leased'
  BY <1>5 DEF Heartbeat
<1>6. ASSUME NEW d \in Dispatchers, After(d) PROVE Leased'
  BY <1>6, AfterStep DEF Terminal
<1>7. ASSUME NEW j \in Jobs, LeaseLapse(j) PROVE Leased'
  BY <1>7 DEF LeaseLapse
<1>8. ASSUME NEW n \in Tenants, Drain(n) PROVE Leased'
  BY <1>8 DEF Drain
<1>9. CASE UNCHANGED vars
  BY <1>9 DEF vars
<1> QED BY Steps, <1>1, <1>2, <1>3, <1>4, <1>5, <1>6, <1>7, <1>8, <1>9

\* The lock has one holder, and while it is held only a heartbeat can make a
\* row busy that the snapshot saw free.
LEMMA SelectStep == ASSUME ClaimInv, [Next]_vars PROVE OneSelecting' /\ Overtaken'
<1> DEFINE Goal == OneSelecting' /\ Overtaken'
<1> USE DEF ClaimInv, FenceInv, TypeOK, OneSelecting, Overtaken, SameThread,
            rowVars, enqVars, dispVars, claimVars
<1>1. ASSUME NEW e \in Enqueuers, Enqueue(e) PROVE Goal
  BY <1>1 DEF Enqueue, EnqueueBegin, EnqueueCommit, EnqueueAbort
<1>2. ASSUME NEW d \in Dispatchers, ClaimBegin(d) PROVE Goal
  BY <1>2 DEF ClaimBegin
<1>3. ASSUME NEW d \in Dispatchers, ClaimSnapshot(d) PROVE Goal
  <2>1. OneSelecting'
    BY <1>3 DEF ClaimSnapshot
  <2>2. ASSUME NEW c \in Dispatchers, NEW j \in Jobs, NEW k \in Jobs,
               pc'[c] = "selecting", j \in cand'[c], j # k, SameThread(j, k),
               status'[k] = "processing", k \notin lapsed'[c]
        PROVE  FALSE
    <3>1. c = d /\ Claimable(d, j)
      BY <1>3, <2>2 DEF ClaimSnapshot
    <3> QED BY <1>3, <2>2, <3>1 DEF ClaimSnapshot, Claimable, LeaseExpired
  <2> QED BY <2>1, <2>2
<1>4. ASSUME NEW d \in Dispatchers, NEW j \in Jobs, Claim(d, j) PROVE Goal
  <2>1. \A c \in Dispatchers : pc'[c] # "selecting"
    BY <1>4 DEF Claim
  <2> QED BY <2>1
<1>5. ASSUME NEW d \in Dispatchers, NEW j \in Jobs, PassOver(d, j) PROVE Goal
  BY <1>5 DEF PassOver
<1>6. ASSUME NEW d \in Dispatchers, Heartbeat(d) PROVE Goal
  <2>1. UNCHANGED <<pc, cand, status>>
    BY <1>6 DEF Heartbeat
  <2>2. ASSUME NEW c \in Dispatchers, NEW k \in Jobs,
               status[k] = "processing", k \in lapsed[c], k \notin lapsed'[c]
        PROVE  k \in revived'
    <3>1. k = held[d] /\ lease[k] = "expired"
      BY <1>6, <2>2 DEF Heartbeat, Leased
    <3> QED BY <1>6, <2>2, <3>1 DEF Heartbeat
  <2>3. \A k \in Jobs : k \in revived => k \in revived'
    BY <1>6 DEF Heartbeat
  <2> QED BY <2>1, <2>2, <2>3
<1>7. ASSUME NEW d \in Dispatchers, After(d) PROVE Goal
  <2> HIDE DEF rowVars, enqVars
  <2> QED BY <1>7, AfterStep DEF Terminal
<1>8. ASSUME NEW j \in Jobs, LeaseLapse(j) PROVE Goal
  BY <1>8 DEF LeaseLapse
<1>9. ASSUME NEW n \in Tenants, Drain(n) PROVE Goal
  BY <1>9 DEF Drain
<1>10. CASE UNCHANGED vars
  BY <1>10 DEF vars
<1> QED BY Steps, <1>1, <1>2, <1>3, <1>4, <1>5, <1>6, <1>7, <1>8, <1>9, <1>10

\* A lease becomes active in a claim, whose candidate's thread was free but
\* for revived rows, or in a heartbeat, which revives it.
LEMMA ActiveStep == ASSUME ClaimInv, [Next]_vars PROVE OneActivePerThread'
<1> USE DEF ClaimInv, FenceInv, TypeOK, OneActivePerThread, SameThread,
            rowVars, enqVars, dispVars, claimVars
<1>1. ASSUME NEW e \in Enqueuers, Enqueue(e) PROVE OneActivePerThread'
  BY <1>1 DEF Enqueue, EnqueueBegin, EnqueueCommit, EnqueueAbort
<1>2. ASSUME NEW d \in Dispatchers, ClaimBegin(d) \/ ClaimSnapshot(d)
      PROVE  OneActivePerThread'
  BY <1>2 DEF ClaimBegin, ClaimSnapshot
<1>3. ASSUME NEW d \in Dispatchers, NEW j \in Jobs, Claim(d, j) PROVE OneActivePerThread'
  <2>1. \A k \in Jobs : /\ k # j /\ SameThread(j, k)
                        /\ status[k] = "processing" /\ lease[k] = "active"
                        => k \in revived
    <3>1. pc[d] = "selecting" /\ j \in cand[d]
      BY <1>3 DEF Claim, Oldest
    <3>2. \A k \in Jobs : status[k] = "processing" /\ lease[k] = "active" => k \notin lapsed[d]
      BY DEF Leased
    <3> QED BY <3>1, <3>2 DEF Overtaken
  <2>2. /\ revived' = revived
        /\ \A k \in Jobs : k # j => UNCHANGED <<status[k], lease[k]>>
    BY <1>3 DEF Claim
  <2> QED BY <2>1, <2>2
<1>4. ASSUME NEW d \in Dispatchers, NEW j \in Jobs, PassOver(d, j) PROVE OneActivePerThread'
  BY <1>4 DEF PassOver
<1>5. ASSUME NEW d \in Dispatchers, Heartbeat(d) PROVE OneActivePerThread'
  <2>1. /\ UNCHANGED status
        /\ \A k \in Jobs : k \in revived => k \in revived'
        /\ \A k \in Jobs : /\ status[k] = "processing" /\ lease'[k] = "active"
                           /\ k \notin revived'
                           => lease[k] = "active"
    BY <1>5 DEF Heartbeat, Leased, Owns
  <2> QED BY <2>1
<1>6. ASSUME NEW d \in Dispatchers, After(d) PROVE OneActivePerThread'
  <2> HIDE DEF rowVars, enqVars
  <2> QED BY <1>6, AfterStep DEF Terminal
<1>7. ASSUME NEW j \in Jobs, LeaseLapse(j) PROVE OneActivePerThread'
  BY <1>7 DEF LeaseLapse
<1>8. ASSUME NEW n \in Tenants, Drain(n) PROVE OneActivePerThread'
  BY <1>8 DEF Drain
<1>9. CASE UNCHANGED vars
  BY <1>9 DEF vars
<1> QED BY Steps, <1>1, <1>2, <1>3, <1>4, <1>5, <1>6, <1>7, <1>8, <1>9

LEMMA ClaimInit == Init => ClaimInv
<1>1. Init => Leased /\ OneSelecting /\ Overtaken /\ OneActivePerThread
  BY DEF Init, Leased, OneSelecting, Overtaken, OneActivePerThread
<1> QED BY <1>1, FenceInit DEF ClaimInv

LEMMA ClaimStep == ASSUME ClaimInv, [Next]_vars PROVE ClaimInv'
<1>1. FenceInv'
  BY TypeStep, FenceStep DEF ClaimInv, FenceInv
<1> QED BY <1>1, LeasedStep, SelectStep, ActiveStep DEF ClaimInv

\* message_jobs.py's "only one job per thread_id may be processing with an
\* active lease", for every number of jobs, threads, enqueuers and dispatchers,
\* with claims that work on a snapshot: what can break it is a heartbeat that
\* renews a lease after it ran out, and nothing else.
THEOREM ThreadExclusion == Spec => []OneActivePerThread
<1>1. ClaimInv /\ [Next]_vars => ClaimInv'
  BY ClaimStep
<1>2. ClaimInv => OneActivePerThread
  BY DEF ClaimInv
<1> QED
  BY ClaimInit, <1>1, <1>2, PTL DEF Spec

-----------------------------------------------------------------------------
(***************************************************************************)
(* The order of claims, with one sequential enqueuer: rows become visible  *)
(* in enqueued_at order, so none appears behind a claim's snapshot.        *)
(***************************************************************************)
OneEnqueuer == \A e, f \in Enqueuers : e = f

\* Timestamps come from the past, and the one in flight is the newest.
Stamped ==
    /\ \A j \in Jobs : status[j] # "absent" => enqueuedAt[j] < clock
    /\ \A e \in Enqueuers : enqJob[e] # NoJob => enqAt[e] < clock
    /\ \A e \in Enqueuers, j \in Jobs :
          enqJob[e] # NoJob /\ status[j] # "absent" => enqueuedAt[j] < enqAt[e]

\* The older open rows of a candidate's thread are candidates too, but for
\* those that were passed over because a heartbeat revived them.
OlderFirst ==
    \A d \in Dispatchers, j \in Jobs :
        pc[d] = "selecting" /\ j \in cand[d] =>
            /\ status[j] # "absent"
            /\ \A k \in Jobs : /\ SameThread(j, k)
                               /\ enqueuedAt[k] < enqueuedAt[j]
                               /\ status[k] \in Open
                               => k \in cand[d] \/ k \in revived

OrderInv == ClaimInv /\ Stamped /\ OlderFirst

\* An insert by the only enqueuer is newer than every visible row.
LEMMA EnqueueKeepsOrder ==
    ASSUME OneEnqueuer, OrderInv, NEW e \in Enqueuers, Enqueue(e)
    PROVE  Stamped' /\ OlderFirst'
<1> USE QueueAssumption DEF OrderInv, ClaimInv, FenceInv, TypeOK, rowVars, dispVars
<1>1. ASSUME NEW j \in Jobs, EnqueueBegin(e, j) PROVE Stamped' /\ OlderFirst'
  <2>1. Stamped'
    BY <1>1 DEF EnqueueBegin, Stamped, OneEnqueuer
  <2> QED
    BY <1>1, <2>1 DEF EnqueueBegin, OlderFirst, SameThread
<1>2. CASE EnqueueCommit(e)
  <2>1. enqJob[e] \in Jobs /\ \A f \in Enqueuers : enqJob'[f] = NoJob
    BY <1>2 DEF EnqueueCommit, OneEnqueuer
  <2>2. Stamped'
    BY <1>2, <2>1 DEF EnqueueCommit, Stamped
  <2>3. OlderFirst'
    BY <1>2, <2>1 DEF EnqueueCommit, Stamped, OlderFirst, SameThread
  <2> QED BY <2>2, <2>3
<1>3. CASE EnqueueAbort(e)
  BY <1>3 DEF EnqueueAbort, Stamped, OlderFirst, SameThread
<1> QED BY <1>1, <1>2, <1>3 DEF Enqueue

\* The steps after the insert create no row and move no timestamp.
LEMMA StampedKept ==
    ASSUME Stamped, UNCHANGED <<enqueuedAt, enqVars>>,
           \A j \in Jobs : status'[j] # "absent" => status[j] # "absent"
    PROVE  Stamped'
  BY DEF Stamped, enqVars

\* A claim's candidates keep the order when no row is opened and none revived
\* is forgotten.
LEMMA OrderKept ==
    ASSUME OlderFirst, UNCHANGED enqueuedAt, \A j \in Jobs : j \in revived => j \in revived',
           \A j \in Jobs : status'[j] \in Open => status[j] \in Open,
           \A j \in Jobs : status[j] # "absent" => status'[j] # "absent",
           \A d \in Dispatchers : pc'[d] = "selecting" => UNCHANGED <<pc[d], cand[d]>>
    PROVE  OlderFirst'
  BY DEF OlderFirst, SameThread

LEMMA OrderStep == ASSUME OneEnqueuer, OrderInv, [Next]_vars PROVE Stamped' /\ OlderFirst'
<1> DEFINE Goal == Stamped' /\ OlderFirst'
<1> USE DEF OrderInv, ClaimInv, FenceInv, TypeOK
<1>1. ASSUME NEW e \in Enqueuers, Enqueue(e) PROVE Goal
  BY <1>1, EnqueueKeepsOrder
<1>2. ASSUME NEW d \in Dispatchers, ClaimBegin(d) PROVE Goal
  BY <1>2, StampedKept, OrderKept DEF ClaimBegin, rowVars
<1>3. ASSUME NEW d \in Dispatchers, ClaimSnapshot(d) PROVE Goal
  <2>1. UNCHANGED <<status, enqueuedAt, enqVars, revived, lapsed>>
    BY <1>3 DEF ClaimSnapshot, rowVars
  <2>2. ASSUME NEW j \in Jobs, Claimable(d, j)
        PROVE  /\ status[j] # "absent"
               /\ \A k \in Jobs : SameThread(j, k) /\ status[k] \in Open => Claimable(d, k)
    BY <2>2 DEF Claimable, Free, Open, SameThread
  <2>3. OlderFirst'
    <3> SUFFICES ASSUME NEW c \in Dispatchers, NEW j \in Jobs,
                        pc'[c] = "selecting", j \in cand'[c]
                 PROVE  /\ status[j] # "absent"
                        /\ \A k \in Jobs : SameThread(j, k) /\ status[k] \in Open => k \in cand'[c]
      BY <2>1 DEF OlderFirst, SameThread
    <3>1. c = d /\ cand'[c] = {i \in Jobs : Claimable(d, i)}
      BY <1>3 DEF ClaimSnapshot
    <3> QED BY <2>2, <3>1
  <2> QED BY <2>1, <2>3, StampedKept
<1>4. ASSUME NEW d \in Dispatchers, NEW j \in Jobs, Claim(d, j) PROVE Goal
  <2>1. /\ UNCHANGED <<enqueuedAt, enqVars, revived>>
        /\ \A k \in Jobs : status'[k] # "absent" => status[k] # "absent"
        /\ \A c \in Dispatchers : pc'[c] # "selecting"
    BY <1>4 DEF Claim, Free, OneSelecting
  <2> QED BY <2>1, StampedKept DEF OlderFirst
<1>5. ASSUME NEW d \in Dispatchers, NEW i \in Jobs, PassOver(d, i) PROVE Goal
  <2>1. UNCHANGED <<status, enqueuedAt, enqVars, revived, lapsed, pc>>
    BY <1>5 DEF PassOver, rowVars
  <2>2. cand' = [cand EXCEPT ![d] = @ \ {i}] /\ pc[d] = "selecting" /\ i \in cand[d]
    BY <1>5 DEF PassOver, Oldest
  <2>3. ASSUME NEW j \in Jobs, j \in cand[d], j # i, SameThread(j, i), status[i] \in Open
        PROVE  i \in revived
    BY <1>5, <2>2, <2>3 DEF PassOver, Free, Open, Overtaken, LeaseExpired
  <2>4. OlderFirst'
    <3> SUFFICES ASSUME NEW c \in Dispatchers, NEW j \in Jobs, pc[c] = "selecting", j \in cand'[c]
                 PROVE  /\ status[j] # "absent"
                        /\ \A k \in Jobs : /\ SameThread(j, k)
                                           /\ enqueuedAt[k] < enqueuedAt[j]
                                           /\ status[k] \in Open
                                           => k \in cand'[c] \/ k \in revived
      BY <2>1 DEF OlderFirst, SameThread
    <3>1. j \in cand[c] /\ (c = d => j # i)
      BY <2>2
    <3> QED BY <2>2, <2>3, <3>1 DEF OlderFirst
  <2> QED BY <2>1, <2>4, StampedKept
<1>6. ASSUME NEW d \in Dispatchers, Heartbeat(d) PROVE Goal
  <2>1. /\ UNCHANGED <<status, enqueuedAt, enqVars, pc, cand>>
        /\ \A j \in Jobs : j \in revived => j \in revived'
    BY <1>6 DEF Heartbeat
  <2> QED BY <2>1, StampedKept, OrderKept
<1>7. ASSUME NEW d \in Dispatchers, After(d) PROVE Goal
  <2>1. /\ UNCHANGED <<enqueuedAt, enqVars, revived>>
        /\ \A j \in Jobs : status'[j] \in Open => status[j] \in Open
        /\ \A j \in Jobs : status[j] # "absent" <=> status'[j] # "absent"
        /\ \A c \in Dispatchers : pc'[c] = "selecting" => UNCHANGED <<pc[c], cand[c]>>
    BY <1>7, AfterStep DEF Terminal, Open
  <2> QED BY <2>1, StampedKept, OrderKept
<1>8. ASSUME NEW j \in Jobs, LeaseLapse(j) PROVE Goal
  BY <1>8, StampedKept, OrderKept DEF LeaseLapse, dispVars
<1>9. ASSUME NEW n \in Tenants, Drain(n) PROVE Goal
  <2>1. /\ UNCHANGED <<enqueuedAt, enqVars, revived, pc, cand>>
        /\ \A j \in Jobs : status'[j] \in Open => status[j] \in Open
        /\ \A j \in Jobs : status[j] # "absent" <=> status'[j] # "absent"
    BY <1>9 DEF Drain, dispVars, Open
  <2> QED BY <2>1, StampedKept, OrderKept
<1>10. CASE UNCHANGED vars
  BY <1>10, StampedKept, OrderKept DEF vars, rowVars, dispVars
<1> QED BY Steps, <1>1, <1>2, <1>3, <1>4, <1>5, <1>6, <1>7, <1>8, <1>9, <1>10

\* The attempt number only moves in a claim.
LEMMA OnlyClaimsCount ==
    ASSUME FenceInv, [Next]_vars, NEW j \in Jobs, attempt'[j] # attempt[j]
    PROVE  \E d \in Dispatchers : Claim(d, j)
<1> USE DEF FenceInv, TypeOK, rowVars
<1>1. ASSUME NEW e \in Enqueuers, Enqueue(e) PROVE attempt' = attempt
  BY <1>1 DEF Enqueue, EnqueueBegin, EnqueueCommit, EnqueueAbort
<1>2. ASSUME NEW d \in Dispatchers, NEW k \in Jobs, Claim(d, k), k # j PROVE FALSE
  BY <1>2 DEF Claim
<1>3. ASSUME NEW d \in Dispatchers, \/ ClaimBegin(d) \/ ClaimSnapshot(d) \/ Heartbeat(d)
                                    \/ (\E k \in Jobs : PassOver(d, k))
                                    \/ After(d)
      PROVE  attempt' = attempt
  BY <1>3, AfterStep DEF ClaimBegin, ClaimSnapshot, Heartbeat, PassOver
<1>4. ASSUME NEW k \in Jobs, LeaseLapse(k) PROVE attempt' = attempt
  BY <1>4 DEF LeaseLapse
<1>5. ASSUME NEW n \in Tenants, Drain(n) PROVE attempt' = attempt
  BY <1>5 DEF Drain
<1>6. CASE UNCHANGED vars
  BY <1>6 DEF vars
<1> QED BY Steps, <1>1, <1>2, <1>3, <1>4, <1>5, <1>6

\* Claims are in enqueued_at order within a thread when one enqueuer feeds the
\* queue; a claim overtakes a revived row at most.
THEOREM ThreadOrder == ASSUME OneEnqueuer PROVE Spec => ClaimsInOrder
<1>1. Init => OrderInv
  <2>1. Init => Stamped /\ OlderFirst
    BY DEF Init, Stamped, OlderFirst
  <2> QED BY <2>1, ClaimInit DEF OrderInv
<1>2. OrderInv /\ [Next]_vars => OrderInv'
  BY ClaimStep, OrderStep DEF OrderInv
<1>3. OrderInv /\ [Next]_vars =>
          \A j, k \in Jobs :
              /\ attempt'[j] # attempt[j]
              /\ SameThread(j, k)
              /\ enqueuedAt[k] < enqueuedAt[j]
              /\ k \notin revived
              => status[k] \notin Open
  <2> SUFFICES ASSUME OrderInv, [Next]_vars, NEW j \in Jobs, NEW k \in Jobs,
                      attempt'[j] # attempt[j], SameThread(j, k),
                      enqueuedAt[k] < enqueuedAt[j], k \notin revived, status[k] \in Open
               PROVE  FALSE
    OBVIOUS
  <2>1. PICK d \in Dispatchers : Claim(d, j)
    BY OnlyClaimsCount DEF OrderInv, ClaimInv
  <2>2. pc[d] = "selecting" /\ j \in cand[d] /\ ~ (k \in cand[d])
    BY <2>1 DEF Claim, Oldest, OrderInv, ClaimInv, FenceInv, TypeOK
  <2> QED BY <2>2 DEF OrderInv, OlderFirst
<1> QED
  BY <1>1, <1>2, <1>3, PTL DEF Spec, ClaimsInOrder

-----------------------------------------------------------------------------
\* A dispatcher owns at most the job it holds, and a job has at most one owner.
LEMMA OwnerFacts ==
    ASSUME FenceInv, NEW j \in Jobs, NEW d \in Dispatchers
    PROVE  /\ d \in Owner[j] <=> /\ pc[d] \in Busy /\ held[d] = j
                                 /\ status[j] = "processing" /\ token[d] = attempt[j]
           /\ d \in Owner[j] => Owner[j] = {d}
<1>1. d \in Owner[j] <=> /\ pc[d] \in Busy /\ held[d] = j
                         /\ status[j] = "processing" /\ token[d] = attempt[j]
  BY DEF Owner
<1>2. ASSUME d \in Owner[j], NEW c \in Owner[j] PROVE c = d
  BY <1>1, <1>2 DEF Owner, FenceInv, TokensAreUnique
<1> QED BY <1>1, <1>2 DEF Owner

\* A step that leaves every job's row, and what every dispatcher owns, as they
\* were is a stutter of the abstract queue.
LEMMA OwnerKept ==
    ASSUME FenceInv, FenceInv', UNCHANGED <<status, attempt>>,
           \A d \in Dispatchers : \/ UNCHANGED <<pc[d], held[d], token[d]>>
                                  \/ /\ pc[d] \in Busy /\ pc'[d] \in Busy
                                     /\ UNCHANGED <<held[d], token[d]>>
                                  \/ pc[d] \notin Busy /\ pc'[d] \notin Busy
    PROVE  UNCHANGED <<status, Owner, attempt>>
  BY DEF Owner

\* A dispatcher stops working on its job without a word to the row: the
\* abstract owner loses it, or there was nothing to lose.
LEMMA OwnerStops ==
    ASSUME FenceInv, FenceInv', UNCHANGED <<status, attempt>>, NEW d \in Dispatchers,
           pc'[d] \notin Busy,
           \A c \in Dispatchers : c # d => UNCHANGED <<pc[c], held[c], token[c]>>
    PROVE  [Lifecycle!Next]_<<status, Owner, attempt>>
<1>1. CASE \A j \in Jobs : d \notin Owner[j]
  <2>1. Owner' = Owner
    BY <1>1 DEF Owner
  <2> QED BY <2>1
<1>2. ASSUME NEW j \in Jobs, d \in Owner[j] PROVE Lifecycle!Lose(d, j)
  <2>1. Owner[j] = {d}
    BY <1>2, OwnerFacts
  <2>2. Owner' = [Owner EXCEPT ![j] = {}]
    <3>1. \A k \in Jobs : Owner'[k] = IF k = j THEN {} ELSE Owner[k]
      BY <1>2, <2>1 DEF Owner
    <3> QED BY <3>1 DEF Owner
  <2> QED BY <2>1, <2>2 DEF Lifecycle!Lose
<1> QED BY <1>1, <1>2 DEF Lifecycle!Next

\* The owner lands an outcome that the abstract queue allows.
LEMMA OwnerReports ==
    ASSUME FenceInv, FenceInv', NEW d \in Dispatchers, pc[d] \in Busy, Owns(d),
           NEW st, status' = [status EXCEPT ![held[d]] = st], st # "processing", UNCHANGED attempt,
           \/ st = "done"
           \/ token[d] < MAX_ATTEMPTS /\ st = "pending"
           \/ ~ (token[d] < MAX_ATTEMPTS) /\ st = "dead_letter",
           \A c \in Dispatchers : c # d => UNCHANGED <<pc[c], held[c], token[c]>>,
           pc'[d] \in Busy => held'[d] = held[d]
    PROVE  Lifecycle!Next
<1> PICK j \in Jobs : j = held[d]
  BY DEF FenceInv, HoldsWhatItRuns
<1>1. /\ status[j] = "processing" /\ attempt[j] = token[d] /\ attempt[j] \in Nat
      /\ status' = [status EXCEPT ![j] = st]
  BY DEF Owns, FenceInv, TypeOK
<1>2. Owner[j] = {d}
  BY <1>1, OwnerFacts
<1>3. status'[j] = st /\ \A k \in Jobs : k # j => status'[k] = status[k]
  BY <1>1 DEF FenceInv, TypeOK
<1>4. \A k \in Jobs : Owner'[k] = IF k = j THEN {} ELSE Owner[k]
  <2>1. Owner'[j] = {}
    BY <1>1, <1>3 DEF Owner
  <2>2. ASSUME NEW k \in Jobs, k # j PROVE Owner'[k] = Owner[k]
    BY <1>3, <2>2 DEF Owner
  <2> QED BY <2>1, <2>2
<1>5. Owner' = [Owner EXCEPT ![j] = {}]
  <2>1. Owner = [k \in Jobs |-> Owner[k]] /\ Owner' = [k \in Jobs |-> Owner'[k]]
    BY DEF Owner
  <2> QED BY <1>4, <2>1
<1>6. Lifecycle!Report(d, j)
  <2>1. \/ status' = [status EXCEPT ![j] = "done"]
        \/ attempt[j] < MAX_ATTEMPTS /\ status' = [status EXCEPT ![j] = "pending"]
        \/ attempt[j] >= MAX_ATTEMPTS /\ status' = [status EXCEPT ![j] = "dead_letter"]
    <3>1. ~ (token[d] < MAX_ATTEMPTS) => attempt[j] >= MAX_ATTEMPTS
      BY <1>1, QueueAssumption
    <3>2. CASE st = "done"
      BY <1>1, <3>2
    <3>3. CASE token[d] < MAX_ATTEMPTS /\ st = "pending"
      BY <1>1, <3>3
    <3>4. CASE ~ (token[d] < MAX_ATTEMPTS) /\ st = "dead_letter"
      BY <1>1, <3>1, <3>4
    <3> QED BY <3>2, <3>3, <3>4
  <2> QED BY <1>1, <1>2, <1>5, <2>1 DEF Lifecycle!Report
<1> QED BY <1>1, <1>6 DEF Lifecycle!Next

\* A claim gives the job to the claiming dispatcher alone: every older
\* snapshot of the row has a smaller attempt number.
LEMMA OwnerClaims ==
    ASSUME FenceInv, FenceInv', NEW d \in Dispatchers, NEW j \in Jobs, Claim(d, j)
    PROVE  Lifecycle!Take(d, j)
<1>1. /\ pc[d] = "selecting" /\ status[j] \in {"pending", "processing"}
      /\ status' = [status EXCEPT ![j] = "processing"]
      /\ attempt' = [attempt EXCEPT ![j] = @ + 1]
  BY DEF Claim, Free
<1>2. /\ status'[j] = "processing" /\ attempt'[j] = attempt[j] + 1 /\ attempt[j] \in Nat
      /\ \A k \in Jobs : k # j => status'[k] = status[k] /\ attempt'[k] = attempt[k]
  BY <1>1 DEF FenceInv, TypeOK
<1>3. /\ pc'[d] = "dispatching" /\ held'[d] = j /\ token'[d] = attempt'[j]
      /\ \A c \in Dispatchers : c # d => UNCHANGED <<pc[c], held[c], token[c]>>
  BY DEF Claim, FenceInv, TypeOK
<1>4. \A k \in Jobs : d \notin Owner[k]
  BY <1>1 DEF Owner, Busy
<1>5. Owner'[j] = {d}
  <2>1. d \in Owner'[j]
    BY <1>2, <1>3 DEF Owner, Busy
  <2>2. ASSUME NEW c \in Dispatchers, c # d PROVE c \notin Owner'[j]
    <3>1. pc[c] \in Busy /\ held[c] = j => token[c] <= attempt[j] /\ token[c] \in Nat
      BY DEF FenceInv, TokensAreUnique, TypeOK
    <3> QED BY <1>2, <1>3, <2>2, <3>1 DEF Owner
  <2> QED BY <2>1, <2>2 DEF Owner
<1>6. ASSUME NEW k \in Jobs, k # j PROVE Owner'[k] = Owner[k]
  BY <1>1, <1>2, <1>3, <1>6 DEF Owner, Busy
<1>7. Owner' = [Owner EXCEPT ![j] = {d}]
  BY <1>5, <1>6 DEF Owner
<1> QED BY <1>1, <1>4, <1>7 DEF Lifecycle!Take

\* The deletion of a tenant closes its open jobs; whoever works on one of them
\* does not own it any more.
LEMMA OwnerDrained ==
    ASSUME FenceInv, FenceInv', NEW n \in Tenants, Drain(n)
    PROVE  Lifecycle!CloseAll(n)
<1> DEFINE groupOf == [j \in Jobs |-> TenantOf[ThreadOf[j]]]
<1>1. /\ UNCHANGED <<attempt, pc, held, token>>
      /\ \A j \in Jobs : groupOf[j] = n => status'[j] # "processing"
      /\ \A j \in Jobs : groupOf[j] # n => status'[j] = status[j]
  BY DEF Drain, dispVars, Open
<1>2. \A j \in Jobs : Owner'[j] = IF groupOf[j] = n THEN {} ELSE Owner[j]
  BY <1>1 DEF Owner
<1>3. Owner' = [j \in Jobs |-> IF groupOf[j] = n THEN {} ELSE Owner[j]]
  <2>1. Owner' = [j \in Jobs |-> Owner'[j]]
    BY DEF Owner
  <2> QED BY <1>2, <2>1
<1>4. status' = [j \in Jobs |-> IF groupOf[j] = n /\ status[j] \in {"pending", "processing"}
                                THEN "done" ELSE status[j]]
  BY DEF Drain, Open
<1> QED BY <1>1, <1>3, <1>4 DEF Lifecycle!CloseAll

\* Every step of the queue is a step of the abstract queue or leaves its
\* state alone.
LEMMA LifecycleStep ==
    ASSUME FenceInv, FenceInv', [Next]_vars
    PROVE  [Lifecycle!Next]_<<status, Owner, attempt>>
<1> DEFINE Goal == [Lifecycle!Next]_<<status, Owner, attempt>>
<1> USE DEF rowVars, enqVars, dispVars, claimVars
<1>1. ASSUME NEW e \in Enqueuers, Enqueue(e) PROVE Goal
  <2>1. UNCHANGED <<attempt, pc, held, token>>
    BY <1>1 DEF Enqueue, EnqueueBegin, EnqueueCommit, EnqueueAbort
  <2>2. CASE UNCHANGED status
    BY <2>1, <2>2, OwnerKept
  <2>3. CASE status' # status
    <3>1. PICK j \in Jobs : status[j] = "absent" /\ status' = [status EXCEPT ![j] = "pending"]
      BY <1>1, <2>3 DEF Enqueue, EnqueueBegin, EnqueueCommit, EnqueueAbort, FenceInv, TypeOK
    <3>2. Owner' = Owner
      BY <2>1, <3>1 DEF Owner, FenceInv, TypeOK
    <3>3. Lifecycle!Submit(j)
      BY <2>1, <3>1, <3>2 DEF Lifecycle!Submit
    <3> QED BY <3>3 DEF Lifecycle!Next
  <2> QED BY <2>2, <2>3
<1>2. ASSUME NEW d \in Dispatchers, NEW j \in Jobs, Claim(d, j) PROVE Goal
  BY <1>2, OwnerClaims DEF Lifecycle!Next
<1>3. ASSUME NEW d \in Dispatchers,
             \/ ClaimBegin(d) \/ ClaimSnapshot(d) \/ (\E k \in Jobs : PassOver(d, k))
             \/ ClaimNone(d) \/ Heartbeat(d)
             \/ DispatchOk(d) \/ DispatchFail(d)
      PROVE  Goal
  <2>1. UNCHANGED <<status, attempt>>
    BY <1>3 DEF ClaimBegin, ClaimSnapshot, PassOver, ClaimNone, Heartbeat, DispatchOk, DispatchFail
  <2>2. \A c \in Dispatchers : \/ UNCHANGED <<pc[c], held[c], token[c]>>
                               \/ /\ pc[c] \in Busy /\ pc'[c] \in Busy
                                  /\ UNCHANGED <<held[c], token[c]>>
                               \/ pc[c] \notin Busy /\ pc'[c] \notin Busy
    BY <1>3 DEF ClaimBegin, ClaimSnapshot, PassOver, ClaimNone, Heartbeat, DispatchOk, DispatchFail,
                Busy, FenceInv, TypeOK
  <2> QED BY <2>1, <2>2, OwnerKept
<1>4. ASSUME NEW d \in Dispatchers, MarkFailedError(d) \/ Crash(d) PROVE Goal
  <2>1. /\ UNCHANGED <<status, attempt>> /\ pc'[d] \notin Busy
        /\ \A c \in Dispatchers : c # d => UNCHANGED <<pc[c], held[c], token[c]>>
    BY <1>4 DEF MarkFailedError, Crash, Finish, Busy, FenceInv, TypeOK
  <2> QED BY <2>1, OwnerStops
<1>5. ASSUME NEW d \in Dispatchers, MarkDone(d) \/ MarkFailed(d) PROVE Goal
  <2>1. /\ pc[d] \in Busy /\ UNCHANGED attempt /\ pc'[d] \notin Busy
        /\ \A c \in Dispatchers : c # d => UNCHANGED <<pc[c], held[c], token[c]>>
    BY <1>5 DEF MarkDone, MarkFailed, Finish, Busy, FenceInv, TypeOK
  <2>2. CASE ~ Owns(d)
    <3>1. UNCHANGED status
      BY <1>5, <2>2 DEF MarkDone, MarkFailed, LandDone, LandFailed
    <3> QED BY <2>1, <3>1, OwnerStops
  <2>3. CASE Owns(d)
    <3>1. PICK st : /\ status' = [status EXCEPT ![held[d]] = st]
                    /\ \/ st = "done"
                       \/ token[d] < MAX_ATTEMPTS /\ st = "pending"
                       \/ ~ (token[d] < MAX_ATTEMPTS) /\ st = "dead_letter"
      BY <1>5, <2>3 DEF MarkDone, MarkFailed, LandDone, LandFailed
    <3>2. st # "processing"
      BY <3>1
    <3> QED BY <2>1, <2>3, <3>1, <3>2, OwnerReports
  <2> QED BY <2>2, <2>3
<1>6. ASSUME NEW d \in Dispatchers, MarkDoneError(d) PROVE Goal
  <2>1. /\ pc[d] \in Busy /\ pc'[d] \in Busy /\ UNCHANGED <<attempt, held, token>>
        /\ \A c \in Dispatchers : c # d => UNCHANGED pc[c]
    BY <1>6 DEF MarkDoneError, Busy, FenceInv, TypeOK
  <2>2. CASE UNCHANGED status
    BY <2>1, <2>2, OwnerKept
  <2>3. CASE status' # status
    <3>1. Owns(d) /\ status' = [status EXCEPT ![held[d]] = "done"]
      BY <1>6, <2>3 DEF MarkDoneError, LandDone
    <3> QED BY <2>1, <3>1, OwnerReports
  <2> QED BY <2>2, <2>3
<1>7. ASSUME NEW j \in Jobs, LeaseLapse(j) PROVE Goal
  BY <1>7, OwnerKept DEF LeaseLapse
<1>8. ASSUME NEW n \in Tenants, Drain(n) PROVE Goal
  BY <1>8, OwnerDrained DEF Lifecycle!Next
<1>9. CASE UNCHANGED vars
  BY <1>9, OwnerKept DEF vars
<1> QED
  BY <1>1, <1>2, <1>3, <1>4, <1>5, <1>6, <1>7, <1>8, <1>9 DEF Next, Dispatch

\* The queue implements the abstract queue: for any number of enqueuers and
\* dispatchers, crashes, lapsed leases and failed UPDATEs, a job has one owner
\* at a time, and its outcome is its owner's or the tenant's deletion's.
THEOREM Refinement == Spec => ImplementsLifecycle
<1>1. Init => Lifecycle!Init
  <2>1. Init => Owner = [j \in Jobs |-> {}]
    BY DEF Init, Owner, Busy
  <2> QED BY <2>1 DEF Init, Lifecycle!Init
<1>2. FenceInv /\ FenceInv' /\ [Next]_vars => [Lifecycle!Next]_<<status, Owner, attempt>>
  BY LifecycleStep
<1>3. FenceInv /\ [Next]_vars => FenceInv'
  BY TypeStep, FenceStep DEF FenceInv
<1> QED
  BY <1>1, <1>2, <1>3, FenceInit, PTL
     DEF Spec, ImplementsLifecycle, Lifecycle!Spec, Lifecycle!jobVars
=============================================================================
