---------------------------- MODULE OutboxDelivery ----------------------------
(***************************************************************************)
(* Delivery of outbox rows to Telegram and MAX (workers/outbox_delivery.py)*)
(* by workers that share nothing but the table outbox_messages.            *)
(*                                                                         *)
(* A tick claims a batch under one fresh claim_token, then takes its rows  *)
(* one by one: a conditional UPDATE confirms the claim and renews the      *)
(* lease, the row is sent under a deadline shorter than the lease, and the *)
(* outcome is written by primary key alone.  A row stays 'pending' while   *)
(* it is claimed.                                                          *)
(*                                                                         *)
(* The rows are those of one tenant, numbered by created_at.  What the     *)
(* recipient sees is part of the state: `copies' of a row as messages, and *)
(* the acknowledgement message that MAX turns edit into the answer.  The   *)
(* verdict of decide_delivery (module DeliveryPolicy) is any of its values *)
(* here.                                                                   *)
(***************************************************************************)
EXTENDS Naturals, FiniteSets

CONSTANTS Rows,     \* outbox rows, as their place in created_at order
          Workers,
          Limit,    \* batch size
          AckEdit,  \* MAX rows with _ack_edit_message_id
          Hooked,   \* rows whose feature has a delivery hook
          NoRow

ASSUME OutboxAssumption ==
    /\ Rows \subseteq Nat
    /\ AckEdit \subseteq Rows
    /\ Hooked \subseteq Rows
    /\ NoRow \notin Rows
    /\ Limit \in Nat \ {0}

VARIABLES
    status,    \* outbox_messages.status; "absent": not enqueued yet
    claim,     \* claim_token, 0 when NULL
    lease,     \* lease_expires_at against the clock
    due,       \* scheduled_at is NULL or past
    deleted,   \* the tenant is soft-deleted
    pc,        \* where a worker is in process_pending_messages
    tok,       \* its claim token
    batch,     \* the claimed rows it has not come to
    cur,       \* the row it is on, or NoRow
    nextTok,   \* source of fresh tokens (uuid4)
    copies,    \* messages of a row the recipient has received
    ack,       \* the acknowledgement message of an AckEdit row
    unnoted,   \* deliveries that took effect and that no one recorded
    stalled    \* a worker was held up past its lease, deadline or not

rowVars == <<status, claim, lease, due>>
workerVars == <<pc, tok, batch, cur, nextTok>>
seenVars == <<copies, ack, unnoted>>
vars == <<rowVars, deleted, workerVars, seenVars, stalled>>

Settled == {"sent", "failed", "muted", "dropped"}

\* The worker is between the per-row fence and the end of the row.
OnRow == {"row", "ready", "fallback", "after", "delivered", "undelivered", "broken"}

-----------------------------------------------------------------------------
Init ==
    /\ status = [r \in Rows |-> "absent"]
    /\ claim = [r \in Rows |-> 0]
    /\ lease = [r \in Rows |-> "none"]
    /\ due \in [Rows -> BOOLEAN]
    /\ deleted = FALSE
    /\ pc = [w \in Workers |-> "idle"]
    /\ tok = [w \in Workers |-> 0]
    /\ batch = [w \in Workers |-> {}]
    /\ cur = [w \in Workers |-> NoRow]
    /\ nextTok = 1
    /\ copies = [r \in Rows |-> 0]
    /\ ack = [r \in Rows |-> IF r \in AckEdit THEN "shown" ELSE "gone"]
    /\ unnoted = [r \in Rows |-> 0]
    /\ stalled = FALSE

\* A turn or a producer commits the row.  The final text may be visible in
\* the acknowledgement already (_ack_final_already_visible): a delivery that
\* no worker made.
Enqueue(r, visible) ==
    /\ status[r] = "absent"
    /\ visible => r \in AckEdit
    /\ status' = [status EXCEPT ![r] = "pending"]
    /\ IF visible
         THEN /\ ack' = [ack EXCEPT ![r] = "final"]
              /\ unnoted' = [unnoted EXCEPT ![r] = @ + 1]
         ELSE UNCHANGED <<ack, unnoted>>
    /\ UNCHANGED <<claim, lease, due, deleted, workerVars, copies, stalled>>

-----------------------------------------------------------------------------
(***************************************************************************)
(* The claim                                                               *)
(***************************************************************************)
\* Mutant: the lease is not tested, a claimed row can be claimed again.
ClaimableAnyLease(r) == status[r] = "pending" /\ due[r]

\* Mutant: only unclaimed rows, so the rows of a dead worker are stranded.
ClaimableUnclaimed(r) == status[r] = "pending" /\ due[r] /\ claim[r] = 0

Claimable(r) ==
    /\ status[r] = "pending"
    /\ due[r]
    /\ claim[r] = 0 \/ lease[r] # "active"

\* _claim_batch: the oldest claimable rows, up to the limit, in one UPDATE
\* with FOR UPDATE SKIP LOCKED.
ClaimBatch(w, B) ==
    /\ pc[w] = "idle"
    /\ B # {}
    /\ \A r \in B : Claimable(r)
    /\ \A q \in Rows \ B : Claimable(q) => /\ Cardinality(B) = Limit
                                          /\ \A r \in B : r < q
    /\ Cardinality(B) <= Limit
    /\ claim' = [r \in Rows |-> IF r \in B THEN nextTok ELSE claim[r]]
    /\ lease' = [r \in Rows |-> IF r \in B THEN "active" ELSE lease[r]]
    /\ tok' = [tok EXCEPT ![w] = nextTok]
    /\ batch' = [batch EXCEPT ![w] = B]
    /\ nextTok' = nextTok + 1
    /\ pc' = [pc EXCEPT ![w] = "batch"]
    /\ UNCHANGED <<status, due, deleted, cur, seenVars, stalled>>

-----------------------------------------------------------------------------
(***************************************************************************)
(* One row of the batch                                                    *)
(***************************************************************************)
\* Mutant: the fence tests the status and not the token.
OwnedAnyToken(w, r) == status[r] = "pending"

Owned(w, r) == claim[r] = tok[w] /\ status[r] = "pending"

\* _reclaim_row: confirm the claim and renew the lease, or skip the row.
Take(w, r) ==
    /\ pc[w] = "batch"
    /\ r \in batch[w]
    /\ \A q \in batch[w] : r <= q
    /\ batch' = [batch EXCEPT ![w] = @ \ {r}]
    /\ IF Owned(w, r)
         THEN /\ lease' = [lease EXCEPT ![r] = "active"]
              /\ pc' = [pc EXCEPT ![w] = "row"]
              /\ cur' = [cur EXCEPT ![w] = r]
         ELSE UNCHANGED <<lease, pc, cur>>
    /\ UNCHANGED <<status, claim, due, deleted, tok, nextTok, seenVars, stalled>>

EndTick(w) ==
    /\ pc[w] = "batch"
    /\ batch[w] = {}
    /\ pc' = [pc EXCEPT ![w] = "idle"]
    /\ tok' = [tok EXCEPT ![w] = 0]
    /\ UNCHANGED <<rowVars, deleted, batch, cur, nextTok, seenVars, stalled>>

\* On to the next row of the batch.
NextRow(w) ==
    /\ pc' = [pc EXCEPT ![w] = "batch"]
    /\ cur' = [cur EXCEPT ![w] = NoRow]
    /\ UNCHANGED <<tok, batch, nextTok>>

Settle(w, s) == status' = [status EXCEPT ![cur[w]] = s]

ReleaseClaim(w) ==
    /\ claim' = [claim EXCEPT ![cur[w]] = 0]
    /\ lease' = [lease EXCEPT ![cur[w]] = "none"]

\* The row is loaded once, and the tenant's activity right after it; a deletion
\* sets both in one commit, so that these two reads are one step.

\* The row was settled meanwhile (the drain of a deletion).
SkipSettled(w) ==
    /\ pc[w] = "row"
    /\ status[cur[w]] # "pending"
    /\ NextRow(w)
    /\ UNCHANGED <<rowVars, deleted, seenVars, stalled>>

\* The row of a tenant that was deleted before it was enqueued.
DropDeleted(w) ==
    /\ pc[w] = "row"
    /\ status[cur[w]] = "pending"
    /\ deleted
    /\ Settle(w, "dropped")
    /\ NextRow(w)
    /\ UNCHANGED <<claim, lease, due, deleted, seenVars, stalled>>

ReadRow(w) ==
    /\ pc[w] = "row"
    /\ status[cur[w]] = "pending"
    /\ ~ deleted
    /\ pc' = [pc EXCEPT ![w] = "ready"]
    /\ UNCHANGED <<rowVars, deleted, tok, batch, cur, nextTok, seenVars, stalled>>

\* The rest of _process_one and _send_now up to the send goes by what was read.
\* A muted row is settled, one without a client, a recipient or a readable
\* payload fails, one whose text is in the acknowledgement already is sent as
\* it stands; each is committed by primary key, over a drain that came in
\* between.
\* Mutant: a row that cannot be routed is marked sent.
DropBrokenAsSent(w) ==
    /\ pc[w] = "ready"
    /\ Settle(w, "muted") \/ Settle(w, "sent")
    /\ NextRow(w)
    /\ UNCHANGED <<claim, lease, due, deleted, seenVars, stalled>>

DropRow(w) ==
    /\ pc[w] = "ready"
    /\ \/ Settle(w, "muted")
       \/ Settle(w, "failed")
       \/ ack[cur[w]] = "final" /\ Settle(w, "sent")
    /\ NextRow(w)
    /\ UNCHANGED <<claim, lease, due, deleted, seenVars, stalled>>

\* Quiet hours: scheduled_at and the claim columns are written, the status is
\* not.
DeferRow(w) ==
    /\ pc[w] = "ready"
    /\ due' = [due EXCEPT ![cur[w]] = FALSE]
    /\ ReleaseClaim(w)
    /\ NextRow(w)
    /\ UNCHANGED <<status, deleted, seenVars, stalled>>

-----------------------------------------------------------------------------
(***************************************************************************)
(* The send                                                                *)
(***************************************************************************)
Sends(w) == pc[w] = "fallback" \/ (pc[w] = "ready" /\ cur[w] \notin AckEdit)
Edits(w) == pc[w] = "ready" /\ cur[w] \in AckEdit

Received(w) == copies' = [copies EXCEPT ![cur[w]] = @ + 1]
Unnoted(w) == unnoted' = [unnoted EXCEPT ![cur[w]] = @ + 1]

Goto(w, place) ==
    /\ pc' = [pc EXCEPT ![w] = place]
    /\ UNCHANGED <<tok, batch, cur, nextTok>>

\* edit_message succeeds at the first or the second attempt.
EditOk(w) ==
    /\ Edits(w)
    /\ ack[cur[w]] # "gone"
    /\ ack' = [ack EXCEPT ![cur[w]] = "final"]
    /\ Goto(w, "delivered")
    /\ UNCHANGED <<rowVars, deleted, copies, unnoted, stalled>>

\* Both attempts raise.  An edit may have been applied all the same.
EditFails(w, applied) ==
    /\ Edits(w)
    /\ applied => ack[cur[w]] # "gone"
    /\ IF applied
         THEN /\ ack' = [ack EXCEPT ![cur[w]] = "final"]
              /\ Unnoted(w)
         ELSE UNCHANGED <<ack, unnoted>>
    /\ Goto(w, "fallback")
    /\ UNCHANGED <<rowVars, deleted, copies, stalled>>

SendOk(w) ==
    /\ Sends(w)
    /\ Received(w)
    /\ Goto(w, IF cur[w] \in Hooked \cup AckEdit THEN "after" ELSE "delivered")
    /\ UNCHANGED <<rowVars, deleted, ack, unnoted, stalled>>

\* TelegramDeliveryError, MaxDeliveryError or the timeout of _send_bounded;
\* after a timeout the message may have been received.
SendFails(w, received) ==
    /\ Sends(w)
    /\ IF received THEN Received(w) /\ Unnoted(w) ELSE UNCHANGED <<copies, unnoted>>
    /\ Goto(w, "undelivered")
    /\ UNCHANGED <<rowVars, deleted, ack, stalled>>

\* Any other exception of the client.
SendBreaks(w) ==
    /\ Sends(w)
    /\ Goto(w, "broken")
    /\ UNCHANGED <<rowVars, deleted, seenVars, stalled>>

\* The delivery hook returns or raises; delete_message of the replaced
\* acknowledgement succeeds or not.
AfterSend(w, removed) ==
    /\ pc[w] = "after"
    /\ removed => cur[w] \in AckEdit
    /\ ack' = IF removed THEN [ack EXCEPT ![cur[w]] = "gone"] ELSE ack
    /\ Goto(w, "delivered")
    /\ UNCHANGED <<rowVars, deleted, copies, unnoted, stalled>>

-----------------------------------------------------------------------------
(***************************************************************************)
(* The outcome, written by primary key                                     *)
(***************************************************************************)
CommitSent(w) ==
    /\ pc[w] = "delivered"
    /\ Settle(w, "sent")
    /\ ReleaseClaim(w)
    /\ NextRow(w)
    /\ UNCHANGED <<due, deleted, seenVars, stalled>>

\* `row.status = "pending"' assigns the loaded value, so that the UPDATE sets
\* the claim columns only and a drained row stays dropped.
CommitUndelivered(w) ==
    /\ pc[w] = "undelivered"
    /\ ReleaseClaim(w)
    /\ NextRow(w)
    /\ UNCHANGED <<status, due, deleted, seenVars, stalled>>

CommitFailed(w) ==
    /\ pc[w] = "broken"
    /\ Settle(w, "failed")
    /\ NextRow(w)
    /\ UNCHANGED <<claim, lease, due, deleted, seenVars, stalled>>

\* The transaction fails: rolled back, logged, the claim left to lapse.
CommitError(w) ==
    /\ pc[w] \in {"row", "ready", "delivered", "undelivered", "broken"}
    /\ IF pc[w] = "delivered" THEN Unnoted(w) ELSE UNCHANGED unnoted
    /\ NextRow(w)
    /\ UNCHANGED <<rowVars, deleted, copies, ack, stalled>>

\* OUTBOX_ROW_DEADLINE_SECONDS pass while a send, a hook or a clean-up is
\* awaited.  _release_claim_by_id gives up the claim if it is still ours.
Deadline(w, received) ==
    /\ pc[w] \in {"ready", "fallback", "after"}
    /\ received => Sends(w)
    /\ IF received THEN Received(w) ELSE UNCHANGED copies
    /\ IF received \/ pc[w] = "after" THEN Unnoted(w) ELSE UNCHANGED unnoted
    /\ IF Owned(w, cur[w]) THEN ReleaseClaim(w) ELSE UNCHANGED <<claim, lease>>
    /\ NextRow(w)
    /\ UNCHANGED <<status, due, deleted, ack, stalled>>

-----------------------------------------------------------------------------
(***************************************************************************)
(* The environment                                                         *)
(***************************************************************************)
\* The worker's process dies; what it had sent stays unrecorded.
Crash(w) ==
    /\ pc[w] # "idle"
    /\ IF pc[w] \in {"after", "delivered"} THEN Unnoted(w) ELSE UNCHANGED unnoted
    /\ pc' = [pc EXCEPT ![w] = "idle"]
    /\ tok' = [tok EXCEPT ![w] = 0]
    /\ batch' = [batch EXCEPT ![w] = {}]
    /\ cur' = [cur EXCEPT ![w] = NoRow]
    /\ UNCHANGED <<rowVars, deleted, nextTok, copies, ack, stalled>>

Delivering(w, r) == pc[w] \in OnRow /\ cur[w] = r

\* A lease runs out.  The deadline of a row is shorter than its lease, so
\* not while the row's owner is on it.
LeaseLapse(r) ==
    /\ lease[r] = "active"
    /\ ~ \E w \in Workers : Delivering(w, r)
    /\ lease' = [lease EXCEPT ![r] = "expired"]
    /\ UNCHANGED <<status, claim, due, deleted, workerVars, seenVars, stalled>>

\* A worker is held up past its lease all the same: wait_for cannot fire
\* while a synchronous call blocks its event loop.
Stall(r) ==
    /\ lease[r] = "active"
    /\ \E w \in Workers : Delivering(w, r)
    /\ lease' = [lease EXCEPT ![r] = "expired"]
    /\ stalled' = TRUE
    /\ UNCHANGED <<status, claim, due, deleted, workerVars, seenVars>>

\* The end of the recipient's quiet hours.
FallDue(r) ==
    /\ ~ due[r]
    /\ due' = [due EXCEPT ![r] = TRUE]
    /\ UNCHANGED <<status, claim, lease, deleted, workerVars, seenVars, stalled>>

\* soft_delete_tenant: flag and drain in one transaction.
DeleteTenant ==
    /\ ~ deleted
    /\ deleted' = TRUE
    /\ status' = [r \in Rows |-> IF status[r] = "pending" THEN "dropped" ELSE status[r]]
    /\ UNCHANGED <<claim, lease, due, workerVars, seenVars, stalled>>

-----------------------------------------------------------------------------
Attempt(w) ==
    \/ \E applied \in BOOLEAN : EditFails(w, applied)
    \/ \E received \in BOOLEAN : SendFails(w, received) \/ Deadline(w, received)
    \/ CommitError(w)
    \/ DeferRow(w)

Work(w) ==
    \/ \E B \in SUBSET Rows : ClaimBatch(w, B)
    \/ \E r \in Rows : Take(w, r)
    \/ EndTick(w)
    \/ SkipSettled(w)
    \/ DropDeleted(w)
    \/ ReadRow(w)
    \/ DropRow(w)
    \/ EditOk(w)
    \/ SendOk(w)
    \/ SendBreaks(w)
    \/ \E removed \in BOOLEAN : AfterSend(w, removed)
    \/ CommitSent(w)
    \/ CommitUndelivered(w)
    \/ CommitFailed(w)

Next ==
    \/ \E r \in Rows : (\E visible \in BOOLEAN : Enqueue(r, visible)) \/ FallDue(r)
    \/ \E r \in Rows : LeaseLapse(r) \/ Stall(r)
    \/ \E w \in Workers : Work(w) \/ Attempt(w) \/ Crash(w)
    \/ DeleteTenant

Spec == Init /\ [][Next]_vars

-----------------------------------------------------------------------------
(***************************************************************************)
(* Properties                                                              *)
(***************************************************************************)
\* Type invariant.
TypeOK ==
    /\ status \in [Rows -> {"absent", "pending"} \cup Settled]
    /\ claim \in [Rows -> Nat]
    /\ lease \in [Rows -> {"none", "active", "expired"}]
    /\ due \in [Rows -> BOOLEAN]
    /\ deleted \in BOOLEAN
    /\ pc \in [Workers -> {"idle", "batch"} \cup OnRow]
    /\ tok \in [Workers -> Nat]
    /\ batch \in [Workers -> SUBSET Rows]
    /\ cur \in [Workers -> Rows \cup {NoRow}]
    /\ nextTok \in Nat \ {0}
    /\ copies \in [Rows -> Nat]
    /\ ack \in [Rows -> {"shown", "final", "gone"}]
    /\ unnoted \in [Rows -> Nat]
    /\ stalled \in BOOLEAN

\* The claim of outbox_delivery.py's header: while a worker is on a row its
\* lease is valid and no other worker is on it, as long as none is held up
\* past its deadline.
ExclusiveDelivery ==
    ~ stalled => \A w, v \in Workers, r \in Rows :
                    Delivering(w, r) /\ Delivering(v, r) => w = v

\* What the recipient sees of a row.
Shown(r) == copies[r] + (IF ack[r] = "final" THEN 1 ELSE 0)

\* At-least-once, and no more often than failures explain: every appearance
\* of a row beyond the first goes back to a delivery that took effect without
\* being recorded (a crash, a timeout, a failed commit, a lost reply).
DuplicatesExplained == ~ stalled => \A r \in Rows : Shown(r) <= unnoted[r] + 1

\* The status does not lie (the incident of 2026-05-05 in _send_now_max): a
\* row is marked sent only when the recipient has its text.
SentIsTrue == \A r \in Rows : status[r] = "sent" => Shown(r) > 0

\* No worker rewrites the outcome of a row that was sent, failed or muted.  (A
\* dropped one may be overwritten: by the worker that had read the row before
\* the drain.)
OutcomeIsFinal ==
    [][\A r \in Rows : ~ stalled /\ status[r] \in Settled \ {"dropped"}
                        => status'[r] = status[r]]_vars

-----------------------------------------------------------------------------
OnIt == [r \in Rows |-> {w \in Workers : Delivering(w, r)}]

\* Its worker knows that the row has been delivered.
Owed == [r \in Rows |-> \E w \in Workers : Delivering(w, r) /\ pc[w] \in {"after", "delivered"}]

Appearances == [r \in Rows |-> Shown(r)]

Outbox == INSTANCE Delivery WITH outcome <- status, on <- OnIt, owed <- Owed,
                                 shown <- Appearances, excused <- unnoted, late <- stalled

\* Tokens, leases, the per-row fence and the deadline come to this: rows are
\* delivered one worker at a time, and what a failure leaves unrecorded is all
\* that a recipient may see twice.
ImplementsDelivery == Outbox!Spec
=============================================================================
