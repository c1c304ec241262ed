--------------------------- MODULE MCMessageQueue ---------------------------
(***************************************************************************)
(* A finite instance of MessageQueue.  What the environment does to the    *)
(* queue (a process dies, a transaction fails, a lease lapses under a live *)
(* consumer, the tenant is deleted) happens at most MaxFaults times; that  *)
(* bounds attempt and the enqueuers' clock.  The lapse of a lease that     *)
(* nobody renews is not a fault: it is the failover path, and time brings  *)
(* it about.                                                               *)
(***************************************************************************)
EXTENDS MessageQueue, TLC

CONSTANTS j1, j2, t1,   \* two jobs of one thread
          n1,           \* its tenant
          MaxFaults

VARIABLE faults

MCThreadOf == (j1 :> t1) @@ (j2 :> t1)
MCTenantOf == t1 :> n1

mcVars == <<vars, faults>>

Renewed(j) == \E d \in Dispatchers : beating[d] /\ held[d] = j /\ Owns(d)

Fault ==
    /\ faults < MaxFaults
    /\ faults' = faults + 1
    /\ \/ \E e \in Enqueuers : EnqueueAbort(e)
       \/ \E d \in Dispatchers : Crash(d) \/ MarkDoneError(d) \/ MarkFailedError(d)
       \/ \E j \in Jobs : Renewed(j) /\ LeaseLapse(j)
       \/ \E n \in Tenants : Drain(n) /\ status' # status

EnqueueStep(e) == UNCHANGED faults /\ ((\E j \in Jobs : EnqueueBegin(e, j)) \/ EnqueueCommit(e))

Failover(j) == UNCHANGED faults /\ ~ Renewed(j) /\ LeaseLapse(j)

DispatchStep(d) ==
    /\ UNCHANGED faults
    /\ \/ ClaimBegin(d)
       \/ ClaimSnapshot(d)
       \/ \E j \in Jobs : Claim(d, j) \/ PassOver(d, j)
       \/ ClaimNone(d)
       \/ DispatchOk(d)
       \/ DispatchFail(d)
       \/ MarkDone(d)
       \/ MarkFailed(d)

HeartbeatStep(d) == UNCHANGED faults /\ Heartbeat(d)

MCNext ==
    \/ \E e \in Enqueuers : EnqueueStep(e)
    \/ \E d \in Dispatchers : DispatchStep(d) \/ HeartbeatStep(d)
    \/ \E j \in Jobs : Failover(j)
    \/ Fault

MCInit == Init /\ faults = 0

MCSpec == MCInit /\ [][MCNext]_mcVars

\* The job runner's loop never stops (systemd restarts it), an enqueuer's
\* transaction ends, and an orphaned lease runs out.
Fairness ==
    /\ \A e \in Enqueuers : WF_mcVars(EnqueueStep(e))
    /\ \A d \in Dispatchers : WF_mcVars(DispatchStep(d))
    /\ \A j \in Jobs : WF_mcVars(Failover(j))

MCFairSpec == MCSpec /\ Fairness

\* No message is stranded: a job that was enqueued is eventually done or dead
\* letter, whatever finite number of crashes, failed transactions and lapsed
\* leases it meets on the way.
EveryJobSettles == \A j \in Jobs : status[j] = "pending" ~> status[j] \in Terminal
=============================================================================
