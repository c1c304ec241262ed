------------------------------ MODULE MCReminders ------------------------------
(***************************************************************************)
(* A finite instance of Reminders: time ends at MaxTime, and failed or     *)
(* crashed transactions, deletions, and commands of the user after the     *)
(* first number at most MaxFaults and MaxCommands.                         *)
(***************************************************************************)
EXTENDS Reminders

CONSTANTS MaxTime, MaxFaults, MaxCommands
VARIABLES faults, commands

mcVars == <<vars, faults, commands>>

Fault ==
    /\ faults < MaxFaults
    /\ faults' = faults + 1
    /\ UNCHANGED commands
    /\ \/ \E w \in Workers : FireFails(w) \/ Crash(w)
       \/ \E a \in {Turn, App} : Abort(a)
       \/ Delete

Command ==
    /\ commands < MaxCommands
    /\ commands' = commands + 1
    /\ UNCHANGED faults
    /\ UserStep

Progress == UNCHANGED <<faults, commands>>

TickStep == Progress /\ now < MaxTime /\ Tick
WorkStep(w) == Progress /\ WorkerStep(w)
CommitStep(a) == Progress /\ Commit(a)
RestoreStep == Progress /\ Restore

MCInit == Init /\ faults = 0 /\ commands = 0

MCNext ==
    \/ Fault
    \/ Command
    \/ TickStep
    \/ RestoreStep
    \/ \E w \in Workers : WorkStep(w)
    \/ \E a \in {Turn, App} : CommitStep(a)

MCSpec == MCInit /\ [][MCNext]_mcVars

\* The job runner ticks for ever, requests end, and time passes.
Fairness ==
    /\ WF_mcVars(TickStep)
    /\ \A w \in Workers : WF_mcVars(WorkStep(w))
    /\ \A a \in {Turn, App} : WF_mcVars(CommitStep(a))

MCFairSpec == MCSpec /\ Fairness

\* A reminder whose time has come is dealt with at last (rung, or dropped as
\* late), unless the user changes it or the tenant is deleted.
EveryReminderFires ==
    \A r \in Reminders : Due(row[r], now) ~> ~ Due(row[r], now) \/ deletedAt # None
=============================================================================
