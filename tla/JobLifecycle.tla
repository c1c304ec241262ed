---------------------------- MODULE JobLifecycle ----------------------------
(***************************************************************************)
(* What the message queue promises, without leases, clocks, heartbeats or  *)
(* SQL: a job is submitted once, belongs to at most one worker at a time,  *)
(* its outcome is decided by the worker it belongs to, unless all the open *)
(* jobs of its group are closed at once, a settled job stays settled, and  *)
(* a job is given up only once its tries are used up.                      *)
(* Module MessageQueue implements this specification.                      *)
(***************************************************************************)
EXTENDS Naturals

CONSTANTS Jobs, Workers, MaxTries,
          Groups, GroupOf   \* jobs that may be closed together

VARIABLES state, owner, tries

jobVars == <<state, owner, tries>>

Init ==
    /\ state = [j \in Jobs |-> "absent"]
    /\ owner = [j \in Jobs |-> {}]
    /\ tries = [j \in Jobs |-> 0]

Submit(j) ==
    /\ state[j] = "absent"
    /\ state' = [state EXCEPT ![j] = "pending"]
    /\ UNCHANGED <<owner, tries>>

\* A job that waits, or whose worker is not trusted any more, gets an owner
\* who has no other job.
Take(w, j) ==
    /\ state[j] \in {"pending", "processing"}
    /\ \A k \in Jobs : w \notin owner[k]
    /\ state' = [state EXCEPT ![j] = "processing"]
    /\ owner' = [owner EXCEPT ![j] = {w}]
    /\ tries' = [tries EXCEPT ![j] = @ + 1]

\* A worker dies or gives up; its job is nobody's.
Lose(w, j) ==
    /\ owner[j] = {w}
    /\ owner' = [owner EXCEPT ![j] = {}]
    /\ UNCHANGED <<state, tries>>

\* The owner reports an outcome, which ends its ownership.
Report(w, j) ==
    /\ state[j] = "processing" /\ owner[j] = {w}
    /\ \/ state' = [state EXCEPT ![j] = "done"]
       \/ tries[j] < MaxTries /\ state' = [state EXCEPT ![j] = "pending"]
       \/ tries[j] >= MaxTries /\ state' = [state EXCEPT ![j] = "dead_letter"]
    /\ owner' = [owner EXCEPT ![j] = {}]
    /\ UNCHANGED tries

\* The open jobs of a group are closed, those being worked on included; their
\* workers own nothing any more.
CloseAll(g) ==
    /\ state' = [j \in Jobs |-> IF GroupOf[j] = g /\ state[j] \in {"pending", "processing"}
                                  THEN "done" ELSE state[j]]
    /\ owner' = [j \in Jobs |-> IF GroupOf[j] = g THEN {} ELSE owner[j]]
    /\ UNCHANGED tries

Next ==
    \/ \E j \in Jobs : \/ Submit(j)
                       \/ \E w \in Workers : Take(w, j) \/ Lose(w, j) \/ Report(w, j)
    \/ \E g \in Groups : CloseAll(g)

Spec == Init /\ [][Next]_jobVars
=============================================================================
