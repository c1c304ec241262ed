--------------------------- MODULE MCOutboxDelivery ---------------------------
(***************************************************************************)
(* A finite instance of OutboxDelivery.  Failed attempts, deferrals,       *)
(* crashes, stalls, leases that lapse before their worker comes to the row *)
(* and the tenant's deletion happen at most MaxFaults times in all; that   *)
(* bounds tokens and copies.  The lapse of an orphaned lease is no fault.  *)
(***************************************************************************)
EXTENDS OutboxDelivery

CONSTANT MaxFaults
VARIABLE faults

mcVars == <<vars, faults>>

Awaited(r) == \E w \in Workers : r \in batch[w] /\ claim[r] = tok[w]

Fault ==
    /\ faults < MaxFaults
    /\ faults' = faults + 1
    /\ \/ \E w \in Workers : Attempt(w) \/ Crash(w)
       \/ \E r \in Rows : Stall(r) \/ (Awaited(r) /\ LeaseLapse(r))
       \/ DeleteTenant

EnqueueStep(r) == UNCHANGED faults /\ \E visible \in BOOLEAN : Enqueue(r, visible)
TimeStep(r) == UNCHANGED faults /\ ((~ Awaited(r) /\ LeaseLapse(r)) \/ FallDue(r))

\* The edit of an acknowledgement that is gone has to fail.
WorkStep(w) == UNCHANGED faults /\ (Work(w) \/ (Edits(w) /\ ack[cur[w]] = "gone" /\ EditFails(w, FALSE)))

MCInit == Init /\ faults = 0

MCNext ==
    \/ \E r \in Rows : EnqueueStep(r) \/ TimeStep(r)
    \/ \E w \in Workers : WorkStep(w)
    \/ Fault

MCSpec == MCInit /\ [][MCNext]_mcVars

\* The workers' loop goes on (systemd restarts it), leases run out and quiet
\* hours end.
Fairness ==
    /\ \A w \in Workers : WF_mcVars(WorkStep(w))
    /\ \A r \in Rows : WF_mcVars(TimeStep(r))

MCFairSpec == MCSpec /\ Fairness

\* No row is stranded: once enqueued it is sent, failed, muted or dropped,
\* whatever finite number of failures it meets.
EveryRowSettles == \A r \in Rows : status[r] = "pending" ~> status[r] \in Settled
=============================================================================
