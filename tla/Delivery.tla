------------------------------ MODULE Delivery ------------------------------
(***************************************************************************)
(* What the outbox promises, without tokens, leases, batches, deadlines or *)
(* acknowledgements: one worker is on a row at a time, an appearance of    *)
(* the row is recorded before the next worker begins or is counted as      *)
(* excused, and what was sent, failed or muted is final; a row dropped     *)
(* while a worker is on it may still get that worker's outcome.  None of   *)
(* it is promised once a worker has been held up past its lease.           *)
(* Module OutboxDelivery implements this specification.                    *)
(***************************************************************************)
EXTENDS Naturals

CONSTANTS Rows, Workers

VARIABLES
    outcome,  \* absent, pending, or how the row was settled
    on,       \* who is on the row
    owed,     \* the row has appeared and its worker has yet to record it
    shown,    \* how often the recipient sees it
    excused,  \* appearances that a failure kept from being recorded
    late      \* a worker has been held up past its lease

deliveryVars == <<outcome, on, owed, shown, excused, late>>

Init ==
    /\ outcome = [r \in Rows |-> "absent"]
    /\ on = [r \in Rows |-> {}]
    /\ owed = [r \in Rows |-> FALSE]
    /\ shown = [r \in Rows |-> 0]
    /\ excused = [r \in Rows |-> 0]
    /\ late = FALSE

\* The recipient may have the text before the row exists.
Submit(r) ==
    /\ outcome[r] = "absent"
    /\ outcome' = [outcome EXCEPT ![r] = "pending"]
    /\ \/ UNCHANGED <<shown, excused>>
       \/ /\ shown' = [shown EXCEPT ![r] = @ + 1]
          /\ excused' = [excused EXCEPT ![r] = @ + 1]
    /\ UNCHANGED <<on, owed, late>>

Begin(w, r) ==
    /\ outcome[r] = "pending" /\ on[r] = {}
    /\ on' = [on EXCEPT ![r] = {w}]
    /\ UNCHANGED <<outcome, owed, shown, excused, late>>

\* The row appears, or what shows already is known to be it.
Deliver(r) ==
    /\ on[r] # {} /\ ~ owed[r]
    /\ owed' = [owed EXCEPT ![r] = TRUE]
    /\ \/ shown' = [shown EXCEPT ![r] = @ + 1]
       \/ shown[r] > 0 /\ UNCHANGED shown
    /\ UNCHANGED <<outcome, on, excused, late>>

\* It appears and its worker is told that it did not.
Slip(r) ==
    /\ on[r] # {} /\ ~ owed[r]
    /\ shown' \in {shown, [shown EXCEPT ![r] = @ + 1]}
    /\ excused' = [excused EXCEPT ![r] = @ + 1]
    /\ UNCHANGED <<outcome, on, owed, late>>

\* A second appearance is taken back.
Withdraw(r) ==
    /\ owed[r] /\ shown[r] > 1
    /\ shown' = [shown EXCEPT ![r] = @ - 1]
    /\ UNCHANGED <<outcome, on, owed, excused, late>>

Ends(r) ==
    /\ on[r] # {}
    /\ on' = [on EXCEPT ![r] = {}]
    /\ owed' = [owed EXCEPT ![r] = FALSE]
    /\ UNCHANGED late

\* The worker on a row decides its outcome; a drain does not stop it.
Undecided(r) == outcome[r] \in {"pending", "dropped"}

Record(r) ==
    /\ Ends(r) /\ owed[r] /\ Undecided(r)
    /\ outcome' = [outcome EXCEPT ![r] = "sent"]
    /\ UNCHANGED <<shown, excused>>

\* The worker gives up, dies or runs out of time, with or without a trace of
\* what it did in front of the recipient.
GiveUp(r) ==
    /\ Ends(r)
    /\ \/ ~ owed[r] /\ UNCHANGED <<shown, excused>>
       \/ owed[r] /\ UNCHANGED shown /\ excused' = [excused EXCEPT ![r] = @ + 1]
       \/ /\ ~ owed[r]
          /\ shown' = [shown EXCEPT ![r] = @ + 1]
          /\ excused' = [excused EXCEPT ![r] = @ + 1]
    /\ UNCHANGED outcome

\* The row needs no delivery, or cannot have one.
Settle(r) ==
    /\ Ends(r) /\ ~ owed[r] /\ Undecided(r)
    /\ \/ \E o \in {"failed", "muted", "dropped"} : outcome' = [outcome EXCEPT ![r] = o]
       \/ shown[r] > 0 /\ outcome' = [outcome EXCEPT ![r] = "sent"]
    /\ UNCHANGED <<shown, excused>>

Drain ==
    /\ outcome' = [r \in Rows |-> IF outcome[r] = "pending" THEN "dropped" ELSE outcome[r]]
    /\ UNCHANGED <<on, owed, shown, excused, late>>

HeldUp == late' = TRUE /\ (late \/ UNCHANGED <<outcome, on, owed, shown, excused>>)

Next ==
    \/ \E r \in Rows : \/ Submit(r) \/ \E w \in Workers : Begin(w, r)
                       \/ Deliver(r) \/ Slip(r) \/ Withdraw(r)
                       \/ Record(r) \/ GiveUp(r) \/ Settle(r)
    \/ Drain
    \/ HeldUp

Spec == Init /\ [][Next]_deliveryVars
=============================================================================
