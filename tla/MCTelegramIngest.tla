--------------------------- MODULE MCTelegramIngest ---------------------------
(***************************************************************************)
(* Model checking of TelegramIngest: a few updates, a bounded number of    *)
(* exceptions and crashes.                                                 *)
(***************************************************************************)
EXTENDS TelegramIngest

CONSTANTS LastId,      \* the user writes updates 0 .. LastId to each bot
          MaxFaults

VARIABLE faults

mcVars == <<vars, faults>>

MCIds == 0 .. LastId

MCInit == Init /\ faults = 0

FaultStep ==
    /\ faults < MaxFaults
    /\ faults' = faults + 1
    /\ Fail

WriteStep(b) == UNCHANGED faults /\ UserWrites(b)
PollStep(b) == UNCHANGED faults /\ Poll(b)
WorkStep(b) == UNCHANGED faults /\ Work(b)
ConsumeStep(u) == UNCHANGED faults /\ Consume(u)

MCNext ==
    \/ \E b \in Bots : WriteStep(b) \/ PollStep(b) \/ WorkStep(b)
    \/ \E u \in Ids : ConsumeStep(u)
    \/ FaultStep

MCSpec == MCInit /\ [][MCNext]_mcVars

\* The pollers' loops, the spawned tasks and the job runner go on: systemd
\* restarts their processes, and the event loop and the lock are fair.
Fairness ==
    /\ \A b \in Bots : WF_mcVars(PollStep(b)) /\ WF_mcVars(WorkStep(b))
    /\ \A u \in Ids : WF_mcVars(ConsumeStep(u))

MCFairSpec == MCSpec /\ Fairness

\* What the user writes is ingested: after finitely many exceptions and
\* crashes the poller gets past every update.
EveryUpdateIngested == \A b \in Bots, u \in Ids : sent[b] > u ~> offset[b] > u

\* A job is settled, however often its turn fails or is skipped.
EveryJobSettles == \A u \in Ids : jobStatus[u] = "pending" ~> jobStatus[u] \in {"done", "dead_letter"}
=============================================================================
