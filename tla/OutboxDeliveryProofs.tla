------------------------- MODULE OutboxDeliveryProofs -------------------------
(***************************************************************************)
(* What the claim token, the lease and the per-row fence guarantee for any *)
(* number of rows and workers, whatever crashes, failures and lapses come, *)
(* and that this amounts to what module Delivery promises.                 *)
(***************************************************************************)
EXTENDS OutboxDelivery, TLAPS

\* Tokens are fresh, and no two live ticks have the same.
Tokens ==
    /\ \A r \in Rows : claim[r] < nextTok
    /\ \A w \in Workers : tok[w] < nextTok
    /\ \A w \in Workers : pc[w] # "idle" => tok[w] # 0
    /\ \A w, v \in Workers : w # v /\ tok[w] # 0 => tok[w] # tok[v]

OnARow == \A w \in Workers : pc[w] \in OnRow => cur[w] \in Rows

\* A worker that is not held up owns its row under an active lease, and nothing
\* but a drain has settled the row.
Owners ==
    ~ stalled => \A w \in Workers : pc[w] \in OnRow =>
                    /\ claim[cur[w]] = tok[w]
                    /\ lease[cur[w]] = "active"
                    /\ status[cur[w]] \in {"pending", "dropped"}

Past == {"after", "delivered"}

\* Until its send succeeds, what a worker's row shows has been accounted for;
\* and so has what an unsettled row shows that no worker has just delivered.
Accounted ==
    ~ stalled =>
        /\ \A w \in Workers : pc[w] \in OnRow \ Past => Shown(cur[w]) <= unnoted[cur[w]]
        /\ \A r \in Rows :
              /\ status[r] \in {"absent", "pending"}
              /\ \A w \in Workers : pc[w] \in Past => cur[w] # r
              => Shown(r) <= unnoted[r]
        /\ \A r \in Rows : Shown(r) <= unnoted[r] + 1

\* What a worker is about to record has happened.
Witnessed ==
    \A w \in Workers : /\ pc[w] = "after" => copies[cur[w]] > 0
                       /\ pc[w] = "delivered" => Shown(cur[w]) > 0

Inv ==
    /\ TypeOK
    /\ Tokens
    /\ OnARow
    /\ Owners
    /\ Accounted
    /\ Witnessed
    /\ SentIsTrue

\* No row exists and no worker has a token.
LEMMA InitInv == Init => Inv
<1> SUFFICES ASSUME Init PROVE Inv
  OBVIOUS
<1> USE OutboxAssumption DEF Init
<1>1. TypeOK
  <2>1. ack \in [Rows -> {"shown", "final", "gone"}]
    OBVIOUS
  <2>2. deleted \in BOOLEAN /\ stalled \in BOOLEAN
    OBVIOUS
  <2>3. due \in [Rows -> BOOLEAN]
    OBVIOUS
  <2> QED
    BY <2>1, <2>2, <2>3 DEF TypeOK, OnRow, Settled
<1>2. Tokens /\ OnARow /\ Owners
  BY DEF Tokens, OnARow, Owners, OnRow
<1>3. Accounted
  <2>1. \A r \in Rows : Shown(r) = 0
    BY DEF Shown
  <2> QED
    BY <2>1 DEF Accounted, OnRow
<1>4. Witnessed /\ SentIsTrue
  BY DEF Witnessed, SentIsTrue
<1> QED
  BY <1>1, <1>2, <1>3, <1>4 DEF Inv

\* Two owners of one row would have the same token.
LEMMA Exclusion == Inv => ExclusiveDelivery
BY DEF Inv, TypeOK, Tokens, OnARow, Owners, ExclusiveDelivery, Delivering, OnRow

\* Columns and locals keep their types, and a worker on a row has one.
LEMMA TypeStep == TypeOK /\ OnARow /\ [Next]_vars => TypeOK' /\ OnARow'
<1> SUFFICES ASSUME TypeOK, OnARow, [Next]_vars PROVE TypeOK' /\ OnARow'
  OBVIOUS
<1> USE OutboxAssumption DEF TypeOK, OnARow, OnRow, Settled
<1>1. ASSUME NEW r \in Rows, NEW visible \in BOOLEAN, Enqueue(r, visible)
      PROVE TypeOK' /\ OnARow'
  <2>1. CASE visible
    BY <1>1, <2>1 DEF Enqueue, workerVars
  <2>2. CASE ~ visible
    BY <1>1, <2>2 DEF Enqueue, workerVars
  <2> QED
    BY <2>1, <2>2
<1>2. ASSUME NEW r \in Rows, FallDue(r) \/ LeaseLapse(r) \/ Stall(r)
      PROVE TypeOK' /\ OnARow'
  <2>1. CASE FallDue(r)
    BY <2>1 DEF FallDue, workerVars, seenVars
  <2>2. CASE LeaseLapse(r)
    BY <2>2 DEF LeaseLapse, workerVars, seenVars
  <2>3. CASE Stall(r)
    BY <2>3 DEF Stall, workerVars, seenVars
  <2> QED
    BY <1>2, <2>1, <2>2, <2>3
<1>3. CASE DeleteTenant
  BY <1>3 DEF DeleteTenant, workerVars, seenVars
<1>4. ASSUME NEW w \in Workers, Work(w) PROVE TypeOK' /\ OnARow'
  <2>1. ASSUME NEW B \in SUBSET Rows, ClaimBatch(w, B) PROVE TypeOK' /\ OnARow'
    BY <2>1 DEF ClaimBatch, seenVars
  <2>2. ASSUME NEW r \in Rows, Take(w, r) PROVE TypeOK' /\ OnARow'
    BY <2>2 DEF Take, seenVars
  <2>3. CASE EndTick(w) \/ SkipSettled(w)
    BY <2>3 DEF EndTick, SkipSettled, NextRow, rowVars, seenVars
  <2>4. CASE DropRow(w) \/ DropDeleted(w)
    BY <2>4 DEF DropRow, DropDeleted, Settle, NextRow, seenVars
  <2>5. CASE ReadRow(w)
    BY <2>5 DEF ReadRow, rowVars, seenVars
  <2>6. CASE EditOk(w)
    BY <2>6 DEF EditOk, Edits, Goto, rowVars
  <2>7. CASE SendOk(w)
    <3>1. Goto(w, "after") \/ Goto(w, "delivered")
      BY <2>7 DEF SendOk
    <3>2. /\ cur[w] \in Rows
          /\ copies' = [copies EXCEPT ![cur[w]] = @ + 1]
          /\ UNCHANGED <<status, claim, lease, due, deleted, ack, unnoted, stalled>>
      BY <2>7 DEF SendOk, Sends, Received, rowVars
    <3>3. /\ pc' \in [Workers -> {"idle", "batch"} \cup OnRow]
          /\ UNCHANGED <<tok, batch, cur, nextTok>>
          /\ \A v \in Workers \ {w} : pc'[v] = pc[v]
      BY <3>1 DEF Goto
    <3>4. TypeOK'
      <4>0. /\ copies \in [Rows -> Nat]
            /\ cur[w] \in Rows
            /\ copies' = [copies EXCEPT ![cur[w]] = copies[cur[w]] + 1]
        BY <3>2, Zenon
      <4>1. copies[cur[w]] + 1 \in Nat
        <5>1. copies[cur[w]] \in Nat
          BY <4>0, Zenon
        <5> QED
          BY ONLY <5>1
      <4>2. copies' \in [Rows -> Nat]
        BY <4>0, <4>1, Zenon
      <4> QED
        BY <3>2, <3>3, <4>2
    <3>5. OnARow'
      BY <3>2, <3>3
    <3> QED
      BY <3>4, <3>5
  <2>8. CASE SendBreaks(w)
    BY <2>8 DEF SendBreaks, Sends, Goto, rowVars, seenVars
  <2>9. ASSUME NEW removed \in BOOLEAN, AfterSend(w, removed) PROVE TypeOK' /\ OnARow'
    BY <2>9 DEF AfterSend, Goto, rowVars
  <2>10. CASE CommitSent(w) \/ CommitUndelivered(w) \/ CommitFailed(w)
    BY <2>10 DEF CommitSent, CommitUndelivered, CommitFailed, Settle, ReleaseClaim,
                 NextRow, seenVars
  <2> QED
    BY <1>4, <2>1, <2>2, <2>3, <2>4, <2>5, <2>6, <2>7, <2>8, <2>9, <2>10 DEF Work
<1>5. ASSUME NEW w \in Workers, Attempt(w) PROVE TypeOK' /\ OnARow'
  <2>1. ASSUME NEW applied \in BOOLEAN, EditFails(w, applied) PROVE TypeOK' /\ OnARow'
    BY <2>1 DEF EditFails, Edits, Unnoted, Goto, rowVars
  <2>2. ASSUME NEW received \in BOOLEAN, SendFails(w, received) PROVE TypeOK' /\ OnARow'
    BY <2>2 DEF SendFails, Sends, Received, Unnoted, Goto, rowVars
  <2>3. ASSUME NEW received \in BOOLEAN, Deadline(w, received) PROVE TypeOK' /\ OnARow'
    BY <2>3 DEF Deadline, Received, Unnoted, ReleaseClaim, NextRow
  <2>4. CASE CommitError(w)
    BY <2>4 DEF CommitError, Unnoted, NextRow, rowVars
  <2>5. CASE DeferRow(w)
    BY <2>5 DEF DeferRow, ReleaseClaim, NextRow, seenVars
  <2> QED
    BY <1>5, <2>1, <2>2, <2>3, <2>4, <2>5 DEF Attempt
<1>6. ASSUME NEW w \in Workers, Crash(w) PROVE TypeOK' /\ OnARow'
  BY <1>6 DEF Crash, Unnoted, rowVars
<1>7. CASE UNCHANGED vars
  BY <1>7 DEF vars, rowVars, workerVars, seenVars
<1> QED
  BY <1>1, <1>2, <1>3, <1>4, <1>5, <1>6, <1>7 DEF Next

\* A claim, the per-row fence and a release leave tokens fresh and owners their
\* rows (_claim_batch, _reclaim_row, _release_claim).
LEMMA OwnerStep == Inv /\ [Next]_vars => Tokens' /\ Owners'
<1> SUFFICES ASSUME Inv, [Next]_vars PROVE Tokens' /\ Owners'
  OBVIOUS
<1>0. TypeOK' /\ OnARow'
  BY TypeStep DEF Inv
<1>e. ExclusiveDelivery
  BY Exclusion
<1> USE OutboxAssumption DEF Inv, TypeOK, OnARow, Tokens, Owners, OnRow, Settled
<1>1. ASSUME NEW r \in Rows, NEW visible \in BOOLEAN, Enqueue(r, visible) PROVE Tokens' /\ Owners'
  BY <1>0, <1>1 DEF Enqueue, workerVars
<1>2. ASSUME NEW r \in Rows, FallDue(r) PROVE Tokens' /\ Owners'
  BY <1>0, <1>2 DEF FallDue, workerVars, seenVars
<1>3. ASSUME NEW r \in Rows, LeaseLapse(r) PROVE Tokens' /\ Owners'
  BY <1>0, <1>3 DEF LeaseLapse, Delivering, workerVars, seenVars
<1>4. ASSUME NEW r \in Rows, Stall(r) PROVE Tokens' /\ Owners'
  BY <1>0, <1>4 DEF Stall, workerVars, seenVars
<1>5. CASE DeleteTenant
  BY <1>0, <1>5 DEF DeleteTenant, workerVars, seenVars
<1>6. ASSUME NEW w \in Workers, Work(w) PROVE Tokens' /\ Owners'
  <2>1. ASSUME NEW B \in SUBSET Rows, ClaimBatch(w, B) PROVE Tokens' /\ Owners'
    <3>1. Tokens'
      BY <1>0, <2>1 DEF ClaimBatch
    <3>2. ASSUME ~ stalled, NEW v \in Workers, pc[v] \in OnRow PROVE cur[v] \notin B
      <4>1. /\ claim[cur[v]] # 0
            /\ lease[cur[v]] = "active"
        BY <3>2
      <4>2. ~ Claimable(cur[v])
        BY <4>1 DEF Claimable
      <4> QED
        BY <2>1, <4>2 DEF ClaimBatch
    <3>3. Owners'
      BY <1>0, <2>1, <3>2 DEF ClaimBatch
    <3> QED
      BY <3>1, <3>3
  <2>2. ASSUME NEW r \in Rows, Take(w, r) PROVE Tokens' /\ Owners'
    <3>1. CASE Owned(w, r)
      <4>1. /\ pc[w] = "batch"
            /\ lease' = [lease EXCEPT ![r] = "active"]
            /\ pc' = [pc EXCEPT ![w] = "row"]
            /\ cur' = [cur EXCEPT ![w] = r]
            /\ UNCHANGED <<status, claim, tok, nextTok, stalled>>
            /\ claim[r] = tok[w]
            /\ status[r] = "pending"
        BY <2>2, <3>1 DEF Take, Owned
      <4> QED
        BY <1>0, <4>1
    <3>2. CASE ~ Owned(w, r)
      BY <1>0, <2>2, <3>2 DEF Take
    <3> QED
      BY <3>1, <3>2
  <2>3. CASE EndTick(w)
    BY <1>0, <1>e, <2>3 DEF EndTick, rowVars, seenVars, ExclusiveDelivery, Delivering
  <2>4. CASE SkipSettled(w)
    BY <1>0, <1>e, <2>4 DEF SkipSettled, NextRow, rowVars, seenVars, ExclusiveDelivery, Delivering
  <2>5. CASE DropRow(w) \/ DropDeleted(w)
    <3>1. \E s \in Settled : status' = [status EXCEPT ![cur[w]] = s]
      BY <2>5, Zenon DEF DropRow, DropDeleted, Settle
    <3>2. /\ pc[w] \in {"row", "ready"}
          /\ pc' = [pc EXCEPT ![w] = "batch"]
          /\ cur' = [cur EXCEPT ![w] = NoRow]
          /\ UNCHANGED <<claim, lease, tok, nextTok, stalled>>
      BY <2>5 DEF DropRow, DropDeleted, NextRow
    <3>3. Tokens'
      BY <1>0, <3>2
    <3>4. Owners'
      BY <1>0, <1>e, <3>1, <3>2 DEF ExclusiveDelivery, Delivering
    <3> QED
      BY <3>3, <3>4
  <2>6. CASE ReadRow(w)
    BY <1>0, <1>e, <2>6 DEF ReadRow, rowVars, seenVars, ExclusiveDelivery, Delivering
  <2>7. CASE EditOk(w)
    BY <1>0, <1>e, <2>7 DEF EditOk, Edits, Goto, rowVars, ExclusiveDelivery, Delivering
  <2>8. CASE SendOk(w)
    BY <1>0, <1>e, <2>8 DEF SendOk, Sends, Received, Goto, rowVars, ExclusiveDelivery, Delivering
  <2>9. CASE SendBreaks(w)
    BY <1>0, <1>e, <2>9 DEF SendBreaks, Sends, Goto, rowVars, seenVars, ExclusiveDelivery, Delivering
  <2>10. ASSUME NEW removed \in BOOLEAN, AfterSend(w, removed) PROVE Tokens' /\ Owners'
    BY <1>0, <1>e, <2>10 DEF AfterSend, Goto, rowVars, ExclusiveDelivery, Delivering
  <2>11. CASE CommitSent(w)
    BY <1>0, <1>e, <2>11 DEF CommitSent, Settle, ReleaseClaim, NextRow, seenVars, ExclusiveDelivery, Delivering
  <2>12. CASE CommitUndelivered(w)
    BY <1>0, <1>e, <2>12 DEF CommitUndelivered, ReleaseClaim, NextRow, seenVars, ExclusiveDelivery, Delivering
  <2>13. CASE CommitFailed(w)
    BY <1>0, <1>e, <2>13 DEF CommitFailed, Settle, NextRow, seenVars, ExclusiveDelivery, Delivering
  <2> QED
    BY <1>6, <2>1, <2>2, <2>3, <2>4, <2>5, <2>6, <2>7, <2>8, <2>9, <2>10, <2>11, <2>12, <2>13 DEF Work
<1>7. ASSUME NEW w \in Workers, Attempt(w) PROVE Tokens' /\ Owners'
  <2>1. ASSUME NEW applied \in BOOLEAN, EditFails(w, applied) PROVE Tokens' /\ Owners'
    BY <1>0, <1>e, <2>1 DEF EditFails, Edits, Unnoted, Goto, rowVars, ExclusiveDelivery, Delivering
  <2>2. ASSUME NEW received \in BOOLEAN, SendFails(w, received) PROVE Tokens' /\ Owners'
    BY <1>0, <1>e, <2>2 DEF SendFails, Sends, Received, Unnoted, Goto, rowVars, ExclusiveDelivery, Delivering
  <2>3. ASSUME NEW received \in BOOLEAN, Deadline(w, received) PROVE Tokens' /\ Owners'
    <3>1. /\ pc[w] \in OnRow
          /\ pc' = [pc EXCEPT ![w] = "batch"]
          /\ UNCHANGED <<status, tok, nextTok, stalled>>
          /\ cur' = [cur EXCEPT ![w] = NoRow]
      BY <2>3 DEF Deadline, NextRow
    <3>2. \/ UNCHANGED <<claim, lease>>
          \/ /\ claim' = [claim EXCEPT ![cur[w]] = 0]
             /\ lease' = [lease EXCEPT ![cur[w]] = "none"]
      BY <2>3 DEF Deadline, ReleaseClaim
    <3>3. Tokens'
      BY <1>0, <3>1, <3>2
    <3>4. ASSUME ~ stalled, NEW v \in Workers, pc'[v] \in OnRow
          PROVE v # w /\ pc[v] \in OnRow /\ cur[v] # cur[w] /\ cur'[v] = cur[v]
      BY <1>e, <3>1, <3>4 DEF ExclusiveDelivery, Delivering
    <3>5. ASSUME ~ stalled', NEW v \in Workers, pc'[v] \in OnRow
          PROVE claim'[cur'[v]] = tok'[v] /\ lease'[cur'[v]] = "active" /\ status'[cur'[v]] \in {"pending", "dropped"}
      <4>1. /\ v # w
            /\ cur'[v] = cur[v]
            /\ cur[v] \in Rows
            /\ cur[v] # cur[w]
            /\ claim[cur[v]] = tok[v]
            /\ lease[cur[v]] = "active"
            /\ status[cur[v]] \in {"pending", "dropped"}
        BY <3>1, <3>4, <3>5
      <4>2. claim'[cur[v]] = claim[cur[v]] /\ lease'[cur[v]] = lease[cur[v]]
        BY <3>2, <4>1
      <4> QED
        BY <3>1, <4>1, <4>2
    <3>6. Owners'
      BY <3>5
    <3> QED
      BY <3>3, <3>6
  <2>4. CASE CommitError(w)
    BY <1>0, <1>e, <2>4 DEF CommitError, Unnoted, NextRow, rowVars, ExclusiveDelivery, Delivering
  <2>5. CASE DeferRow(w)
    BY <1>0, <1>e, <2>5 DEF DeferRow, ReleaseClaim, NextRow, seenVars, ExclusiveDelivery, Delivering
  <2> QED
    BY <1>7, <2>1, <2>2, <2>3, <2>4, <2>5 DEF Attempt
<1>8. ASSUME NEW w \in Workers, Crash(w) PROVE Tokens' /\ Owners'
  BY <1>0, <1>8 DEF Crash, Unnoted, rowVars
<1>9. CASE UNCHANGED vars
  BY <1>0, <1>9 DEF vars, rowVars, workerVars, seenVars
<1> QED
  BY <1>1, <1>2, <1>3, <1>4, <1>5, <1>6, <1>7, <1>8, <1>9 DEF Next

\* An outcome is recorded after what it records.
LEMMA SeenStep == Inv /\ [Next]_vars => Witnessed' /\ SentIsTrue'
<1> SUFFICES ASSUME Inv, [Next]_vars PROVE Witnessed' /\ SentIsTrue'
  OBVIOUS
<1>0. TypeOK' /\ OnARow'
  BY TypeStep DEF Inv
<1>e. ExclusiveDelivery
  BY Exclusion
<1> USE DEF Inv, TypeOK, OnARow, Witnessed, SentIsTrue, Shown, OnRow, Settled
<1>1. ASSUME NEW r \in Rows, NEW visible \in BOOLEAN, Enqueue(r, visible) PROVE Witnessed' /\ SentIsTrue'
  BY <1>0, <1>1 DEF Enqueue, workerVars
<1>2. ASSUME NEW r \in Rows, FallDue(r) PROVE Witnessed' /\ SentIsTrue'
  BY <1>0, <1>2 DEF FallDue, workerVars, seenVars
<1>3. ASSUME NEW r \in Rows, LeaseLapse(r) PROVE Witnessed' /\ SentIsTrue'
  BY <1>0, <1>3 DEF LeaseLapse, workerVars, seenVars
<1>4. ASSUME NEW r \in Rows, Stall(r) PROVE Witnessed' /\ SentIsTrue'
  BY <1>0, <1>4 DEF Stall, workerVars, seenVars
<1>5. CASE DeleteTenant
  BY <1>0, <1>5 DEF DeleteTenant, workerVars, seenVars
<1>6. ASSUME NEW w \in Workers, Work(w) PROVE Witnessed' /\ SentIsTrue'
  <2>1. ASSUME NEW B \in SUBSET Rows, ClaimBatch(w, B) PROVE Witnessed' /\ SentIsTrue'
    BY <1>0, <1>e, <2>1 DEF ClaimBatch, seenVars
  <2>2. ASSUME NEW r \in Rows, Take(w, r) PROVE Witnessed' /\ SentIsTrue'
    BY <1>0, <1>e, <2>2 DEF Take, Owned, seenVars
  <2>3. CASE EndTick(w)
    BY <1>0, <1>e, <2>3 DEF EndTick, rowVars, seenVars
  <2>4. CASE SkipSettled(w)
    BY <1>0, <1>e, <2>4 DEF SkipSettled, NextRow, rowVars, seenVars
  <2>5. CASE DropRow(w) \/ DropDeleted(w)
    BY <1>0, <1>e, <2>5 DEF DropRow, DropDeleted, Settle, NextRow, seenVars
  <2>6. CASE ReadRow(w)
    BY <1>0, <1>e, <2>6 DEF ReadRow, rowVars, seenVars
  <2>7. CASE EditOk(w)
    BY <1>0, <1>e, <2>7 DEF EditOk, Edits, Goto, rowVars
  <2>8. CASE SendOk(w)
    BY <1>0, <1>e, <2>8 DEF SendOk, Sends, Received, Goto, rowVars
  <2>9. CASE SendBreaks(w)
    BY <1>0, <1>e, <2>9 DEF SendBreaks, Sends, Goto, rowVars, seenVars
  <2>10. ASSUME NEW removed \in BOOLEAN, AfterSend(w, removed) PROVE Witnessed' /\ SentIsTrue'
    BY <1>0, <1>e, <2>10 DEF AfterSend, Goto, rowVars
  <2>11. CASE CommitSent(w)
    BY <1>0, <1>e, <2>11 DEF CommitSent, Settle, ReleaseClaim, NextRow, seenVars
  <2>12. CASE CommitUndelivered(w)
    BY <1>0, <1>e, <2>12 DEF CommitUndelivered, ReleaseClaim, NextRow, seenVars
  <2>13. CASE CommitFailed(w)
    BY <1>0, <1>e, <2>13 DEF CommitFailed, Settle, NextRow, seenVars
  <2> QED
    BY <1>6, <2>1, <2>2, <2>3, <2>4, <2>5, <2>6, <2>7, <2>8, <2>9, <2>10, <2>11, <2>12, <2>13 DEF Work
<1>7. ASSUME NEW w \in Workers, Attempt(w) PROVE Witnessed' /\ SentIsTrue'
  <2>1. ASSUME NEW applied \in BOOLEAN, EditFails(w, applied) PROVE Witnessed' /\ SentIsTrue'
    BY <1>0, <1>e, <2>1 DEF EditFails, Edits, Unnoted, Goto, rowVars
  <2>2. ASSUME NEW received \in BOOLEAN, SendFails(w, received) PROVE Witnessed' /\ SentIsTrue'
    BY <1>0, <1>e, <2>2 DEF SendFails, Sends, Received, Unnoted, Goto, rowVars
  <2>3. ASSUME NEW received \in BOOLEAN, Deadline(w, received) PROVE Witnessed' /\ SentIsTrue'
    BY <1>0, <1>e, <2>3 DEF Deadline, Sends, Received, Unnoted, NextRow
  <2>4. CASE CommitError(w)
    BY <1>0, <1>e, <2>4 DEF CommitError, Unnoted, NextRow, rowVars
  <2>5. CASE DeferRow(w)
    BY <1>0, <1>e, <2>5 DEF DeferRow, ReleaseClaim, NextRow, seenVars
  <2> QED
    BY <1>7, <2>1, <2>2, <2>3, <2>4, <2>5 DEF Attempt
<1>8. ASSUME NEW w \in Workers, Crash(w) PROVE Witnessed' /\ SentIsTrue'
  BY <1>0, <1>8 DEF Crash, Unnoted, rowVars
<1>9. CASE UNCHANGED vars
  BY <1>0, <1>9 DEF vars, rowVars, workerVars, seenVars
<1> QED
  BY <1>1, <1>2, <1>3, <1>4, <1>5, <1>6, <1>7, <1>8, <1>9 DEF Next

\* A delivery that takes effect unrecorded is counted where it happens.
LEMMA AccountStep == Inv /\ [Next]_vars => Accounted'
<1> SUFFICES ASSUME Inv, [Next]_vars PROVE Accounted'
  OBVIOUS
<1>0. TypeOK' /\ OnARow'
  BY TypeStep DEF Inv
<1>e. ExclusiveDelivery
  BY Exclusion
<1> USE DEF Inv, TypeOK, OnARow, Accounted, Owners, Shown, Past, OnRow, Settled
<1>1. ASSUME NEW r \in Rows, NEW visible \in BOOLEAN, Enqueue(r, visible) PROVE Accounted'
  BY <1>0, <1>1 DEF Enqueue, workerVars
<1>2. ASSUME NEW r \in Rows, FallDue(r) PROVE Accounted'
  BY <1>0, <1>2 DEF FallDue, workerVars, seenVars
<1>3. ASSUME NEW r \in Rows, LeaseLapse(r) PROVE Accounted'
  BY <1>0, <1>3 DEF LeaseLapse, workerVars, seenVars
<1>4. ASSUME NEW r \in Rows, Stall(r) PROVE Accounted'
  BY <1>0, <1>4 DEF Stall, workerVars, seenVars
<1>5. CASE DeleteTenant
  BY <1>0, <1>5 DEF DeleteTenant, workerVars, seenVars
<1>6. ASSUME NEW w \in Workers, Work(w) PROVE Accounted'
  <2>1. ASSUME NEW B \in SUBSET Rows, ClaimBatch(w, B) PROVE Accounted'
    BY <1>0, <1>e, <2>1 DEF ClaimBatch, seenVars, ExclusiveDelivery, Delivering
  <2>2. ASSUME NEW r \in Rows, Take(w, r) PROVE Accounted'
    <3>1. CASE Owned(w, r)
      <4>1. /\ pc[w] = "batch"
            /\ pc' = [pc EXCEPT ![w] = "row"]
            /\ cur' = [cur EXCEPT ![w] = r]
            /\ UNCHANGED <<status, copies, ack, unnoted, stalled>>
            /\ claim[r] = tok[w]
            /\ status[r] = "pending"
        BY <2>2, <3>1 DEF Take, Owned, seenVars
      <4>2. ASSUME ~ stalled, NEW v \in Workers, pc[v] \in Past PROVE cur[v] # r
        BY <4>1, <4>2 DEF Tokens
      <4> QED
        BY <1>0, <4>1, <4>2
    <3>2. CASE ~ Owned(w, r)
      BY <1>0, <2>2, <3>2 DEF Take, seenVars
    <3> QED
      BY <3>1, <3>2
  <2>3. CASE EndTick(w)
    BY <1>0, <1>e, <2>3 DEF EndTick, rowVars, seenVars, ExclusiveDelivery, Delivering
  <2>4. CASE SkipSettled(w)
    BY <1>0, <1>e, <2>4 DEF SkipSettled, NextRow, rowVars, seenVars, ExclusiveDelivery, Delivering
  <2>5. CASE DropRow(w) \/ DropDeleted(w)
    BY <1>0, <1>e, <2>5 DEF DropRow, DropDeleted, Settle, NextRow, seenVars, ExclusiveDelivery, Delivering
  <2>6. CASE ReadRow(w)
    BY <1>0, <1>e, <2>6 DEF ReadRow, rowVars, seenVars, ExclusiveDelivery, Delivering
  <2>7. CASE EditOk(w)
    BY <1>0, <1>e, <2>7 DEF EditOk, Edits, Goto, rowVars, ExclusiveDelivery, Delivering
  <2>8. CASE SendOk(w)
    BY <1>0, <1>e, <2>8 DEF SendOk, Sends, Received, Goto, rowVars, ExclusiveDelivery, Delivering
  <2>9. CASE SendBreaks(w)
    BY <1>0, <1>e, <2>9 DEF SendBreaks, Sends, Goto, rowVars, seenVars, ExclusiveDelivery, Delivering
  <2>10. ASSUME NEW removed \in BOOLEAN, AfterSend(w, removed) PROVE Accounted'
    BY <1>0, <1>e, <2>10 DEF AfterSend, Goto, rowVars, ExclusiveDelivery, Delivering
  <2>11. CASE CommitSent(w)
    BY <1>0, <1>e, <2>11 DEF CommitSent, Settle, ReleaseClaim, NextRow, seenVars, ExclusiveDelivery, Delivering
  <2>12. CASE CommitUndelivered(w)
    BY <1>0, <1>e, <2>12 DEF CommitUndelivered, ReleaseClaim, NextRow, seenVars, ExclusiveDelivery, Delivering
  <2>13. CASE CommitFailed(w)
    BY <1>0, <1>e, <2>13 DEF CommitFailed, Settle, NextRow, seenVars, ExclusiveDelivery, Delivering
  <2> QED
    BY <1>6, <2>1, <2>2, <2>3, <2>4, <2>5, <2>6, <2>7, <2>8, <2>9, <2>10, <2>11, <2>12, <2>13 DEF Work
<1>7. ASSUME NEW w \in Workers, Attempt(w) PROVE Accounted'
  <2>1. ASSUME NEW applied \in BOOLEAN, EditFails(w, applied) PROVE Accounted'
    BY <1>0, <1>e, <2>1 DEF EditFails, Edits, Unnoted, Goto, rowVars, ExclusiveDelivery, Delivering
  <2>2. ASSUME NEW received \in BOOLEAN, SendFails(w, received) PROVE Accounted'
    BY <1>0, <1>e, <2>2 DEF SendFails, Sends, Received, Unnoted, Goto, rowVars, ExclusiveDelivery, Delivering
  <2>3. ASSUME NEW received \in BOOLEAN, Deadline(w, received) PROVE Accounted'
    <3>1. CASE received
      BY <1>0, <1>e, <2>3, <3>1 DEF Deadline, Sends, Received, Unnoted, NextRow,
                                    ExclusiveDelivery, Delivering
    <3>2. CASE ~ received /\ pc[w] = "after"
      BY <1>0, <1>e, <2>3, <3>2 DEF Deadline, Unnoted, NextRow, ExclusiveDelivery, Delivering
    <3>3. CASE ~ received /\ pc[w] # "after"
      BY <1>0, <1>e, <2>3, <3>3 DEF Deadline, NextRow, ExclusiveDelivery, Delivering
    <3> QED
      BY <3>1, <3>2, <3>3
  <2>4. CASE CommitError(w)
    BY <1>0, <1>e, <2>4 DEF CommitError, Unnoted, NextRow, rowVars, ExclusiveDelivery, Delivering
  <2>5. CASE DeferRow(w)
    BY <1>0, <1>e, <2>5 DEF DeferRow, ReleaseClaim, NextRow, seenVars, ExclusiveDelivery, Delivering
  <2> QED
    BY <1>7, <2>1, <2>2, <2>3, <2>4, <2>5 DEF Attempt
<1>8. ASSUME NEW w \in Workers, Crash(w) PROVE Accounted'
  <2>1. CASE pc[w] \in Past
    BY <1>0, <1>e, <1>8, <2>1 DEF Crash, Unnoted, rowVars, ExclusiveDelivery, Delivering
  <2>2. CASE pc[w] \notin Past
    BY <1>0, <1>e, <1>8, <2>2 DEF Crash, rowVars, ExclusiveDelivery, Delivering
  <2> QED
    BY <2>1, <2>2
<1>9. CASE UNCHANGED vars
  BY <1>0, <1>9 DEF vars, rowVars, workerVars, seenVars
<1> QED
  BY <1>1, <1>2, <1>3, <1>4, <1>5, <1>6, <1>7, <1>8, <1>9 DEF Next

\* The parts together are inductive.
LEMMA Invariance == Spec => []Inv
<1>1. Inv /\ [Next]_vars => Inv'
  BY TypeStep, OwnerStep, SeenStep, AccountStep DEF Inv
<1> QED
  BY InitInv, <1>1, PTL DEF Spec

\* Claim token, lease and per-row fence exclude: two workers are on one row
\* only after one of them was held up past its lease.
THEOREM Exclusive == Spec => []ExclusiveDelivery
BY Invariance, Exclusion, PTL

\* Every appearance of a row beyond the first is explained by a delivery that
\* took effect without being recorded.
THEOREM AtLeastOnceExplained == Spec => []DuplicatesExplained
<1>1. Inv => DuplicatesExplained
  BY DEF Inv, Accounted, DuplicatesExplained
<1> QED
  BY Invariance, <1>1, PTL

\* A row marked sent is in front of the recipient.
THEOREM StatusIsTrue == Spec => []SentIsTrue
<1>1. Inv => SentIsTrue
  BY DEF Inv
<1> QED
  BY Invariance, <1>1, PTL

\* No worker rewrites what was sent, failed or muted, as long as none was held up
\* past its lease: only a drain settles a row under the worker that is on it.
THEOREM OutcomeStays == Spec => OutcomeIsFinal
<1>1. ASSUME Inv, Next, NEW r \in Rows, status[r] \in Settled \ {"dropped"}, ~ stalled
      PROVE  status'[r] = status[r]
  <2> USE <1>1 DEF Inv, TypeOK, OnARow, Settled
  <2>1. CASE DeleteTenant
    BY <2>1 DEF DeleteTenant
  <2>2. CASE \E q \in Rows : (\E visible \in BOOLEAN : Enqueue(q, visible)) \/ FallDue(q)
                             \/ LeaseLapse(q) \/ Stall(q)
    BY <2>2 DEF Enqueue, FallDue, LeaseLapse, Stall
  <2>3. ASSUME NEW w \in Workers, Work(w) PROVE status'[r] = status[r]
    <3>1. CASE DropDeleted(w) \/ DropRow(w) \/ CommitFailed(w) \/ CommitSent(w)
      <4>1. pc[w] \in OnRow /\ \E s \in Settled : status' = [status EXCEPT ![cur[w]] = s]
        BY <3>1, Zenon DEF DropDeleted, DropRow, CommitFailed, CommitSent, Settle, OnRow
      <4>2. cur[w] # r
        BY <4>1 DEF Owners
      <4> QED BY <4>1, <4>2
    <3>2. DropDeleted(w) \/ DropRow(w) \/ CommitFailed(w) \/ CommitSent(w) \/ UNCHANGED status
      BY <2>3 DEF Work, ClaimBatch, Take, EndTick, SkipSettled, ReadRow, EditOk, SendOk,
                  SendBreaks, AfterSend, CommitUndelivered, rowVars
    <3> QED BY <3>1, <3>2
  <2>4. ASSUME NEW w \in Workers, Attempt(w) \/ Crash(w) PROVE status'[r] = status[r]
    BY <2>4 DEF Attempt, EditFails, SendFails, Deadline, CommitError, DeferRow, Crash, rowVars
  <2> QED
    BY <2>1, <2>2, <2>3, <2>4 DEF Next
<1>2. Inv /\ [Next]_vars
        => [\A r \in Rows : ~ stalled /\ status[r] \in Settled \ {"dropped"}
                              => status'[r] = status[r]]_vars
  BY <1>1
<1> QED
  BY Invariance, <1>2, PTL DEF Spec, OutcomeIsFinal

-----------------------------------------------------------------------------
(***************************************************************************)
(* The refinement of Delivery                                              *)
(***************************************************************************)
Mapped == <<status, OnIt, Owed, Appearances, unnoted, stalled>>

\* As long as nobody was held up a worker is alone on its row, and what is owed
\* about the row is its own affair.
LEMMA Alone ==
    ASSUME Inv, ~ stalled, NEW w \in Workers, pc[w] \in OnRow
    PROVE  /\ cur[w] \in Rows
           /\ OnIt[cur[w]] = {w}
           /\ Owed[cur[w]] <=> pc[w] \in Past
           /\ \A v \in Workers \ {w} : ~ Delivering(v, cur[w])
<1>1. cur[w] \in Rows /\ Delivering(w, cur[w])
  BY DEF Inv, OnARow, Delivering
<1>2. \A v \in Workers \ {w} : ~ Delivering(v, cur[w])
  BY <1>1, Exclusion DEF ExclusiveDelivery
<1>3. OnIt[cur[w]] = {w}
  BY <1>1, <1>2 DEF OnIt
<1>4. Owed[cur[w]] <=> pc[w] \in Past
  BY <1>1, <1>2 DEF Owed, Past
<1> QED BY <1>1, <1>2, <1>3, <1>4

LEMMA NobodyMoves ==
    ASSUME UNCHANGED <<pc, cur>>
    PROVE  OnIt' = OnIt /\ Owed' = Owed
BY DEF OnIt, Owed, Delivering

\* A worker that is on no row before and after is on no row's account.
LEMMA Aside ==
    ASSUME TypeOK, NEW w \in Workers, pc[w] \notin OnRow, NEW l, l \notin OnRow,
           pc' = [pc EXCEPT ![w] = l], \A v \in Workers \ {w} : cur'[v] = cur[v]
    PROVE  OnIt' = OnIt /\ Owed' = Owed
<1>1. \A v \in Workers, r \in Rows : Delivering(v, r)' <=> Delivering(v, r)
  BY DEF Delivering, TypeOK
<1>2. \A v \in Workers, r \in Rows : Delivering(v, r) => pc'[v] = pc[v]
  BY DEF Delivering, TypeOK
<1> QED BY <1>1, <1>2 DEF OnIt, Owed

LEMMA Leaves ==
    ASSUME Inv, ~ stalled, NEW w \in Workers, pc[w] \in OnRow, NEW l, l \notin OnRow,
           pc' = [pc EXCEPT ![w] = l], cur' = [cur EXCEPT ![w] = NoRow]
    PROVE  /\ OnIt' = [OnIt EXCEPT ![cur[w]] = {}]
           /\ Owed' = [Owed EXCEPT ![cur[w]] = FALSE]
<1>0. pc \in [Workers -> {"idle", "batch"} \cup OnRow] /\ cur \in [Workers -> Rows \cup {NoRow}]
  BY DEF Inv, TypeOK
<1>1. /\ cur[w] \in Rows
      /\ \A v \in Workers \ {w} : ~ Delivering(v, cur[w])
  BY Alone
<1>2. \A v \in Workers, r \in Rows : Delivering(v, r)' <=> Delivering(v, r) /\ r # cur[w]
  BY <1>0, <1>1 DEF Delivering
<1>3. \A v \in Workers, r \in Rows : Delivering(v, r) /\ r # cur[w] => pc'[v] = pc[v]
  BY <1>0 DEF Delivering
<1>4. \A r \in Rows : {v \in Workers : Delivering(v, r)'}
                          = IF r = cur[w] THEN {} ELSE {v \in Workers : Delivering(v, r)}
  BY <1>2
<1>5. OnIt' = [OnIt EXCEPT ![cur[w]] = {}]
  BY <1>1, <1>4 DEF OnIt
<1>6. \A r \in Rows : (\E v \in Workers : Delivering(v, r)' /\ pc'[v] \in Past)
                          <=> r # cur[w] /\ \E v \in Workers : Delivering(v, r) /\ pc[v] \in Past
  BY <1>2, <1>3
<1>7. Owed' = [Owed EXCEPT ![cur[w]] = FALSE]
  BY <1>1, <1>6 DEF Owed, Past
<1> QED BY <1>5, <1>7

LEMMA Stays ==
    ASSUME Inv, ~ stalled, NEW w \in Workers, pc[w] \in OnRow, NEW l \in OnRow,
           pc' = [pc EXCEPT ![w] = l], UNCHANGED cur
    PROVE  /\ OnIt' = OnIt
           /\ l \in Past => Owed' = [Owed EXCEPT ![cur[w]] = TRUE]
           /\ (l \in Past <=> pc[w] \in Past) => Owed' = Owed
<1>0. pc \in [Workers -> {"idle", "batch"} \cup OnRow]
  BY DEF Inv, TypeOK
<1>1. /\ cur[w] \in Rows /\ Delivering(w, cur[w])
      /\ \A v \in Workers \ {w} : ~ Delivering(v, cur[w])
  BY Alone DEF Delivering
<1>2. \A v \in Workers, r \in Rows : Delivering(v, r)' <=> Delivering(v, r)
  BY <1>0 DEF Delivering
<1>3. \A v \in Workers \ {w} : pc'[v] = pc[v]
  BY <1>0
<1>4. OnIt' = OnIt
  BY <1>2 DEF OnIt
<1>5. pc'[w] = l
  BY <1>0
<1>6. \A r \in Rows : (\E v \in Workers : Delivering(v, r)' /\ pc'[v] \in Past)
                          <=> IF r = cur[w] THEN l \in Past
                              ELSE \E v \in Workers : Delivering(v, r) /\ pc[v] \in Past
  <2> SUFFICES ASSUME NEW r \in Rows
               PROVE (\E v \in Workers : Delivering(v, r)' /\ pc'[v] \in Past)
                          <=> IF r = cur[w] THEN l \in Past
                              ELSE \E v \in Workers : Delivering(v, r) /\ pc[v] \in Past
    OBVIOUS
  <2>1. CASE r = cur[w]
    BY <1>1, <1>2, <1>5, <2>1
  <2>2. CASE r # cur[w]
    <3>1. ~ Delivering(w, r)
      BY <2>2 DEF Delivering
    <3> QED BY <1>2, <1>3, <2>2, <3>1
  <2> QED BY <2>1, <2>2
<1>7. ASSUME l \in Past PROVE Owed' = [Owed EXCEPT ![cur[w]] = TRUE]
  <2>1. \A r \in Rows : (\E v \in Workers : Delivering(v, r)' /\ pc'[v] \in Past)
                           <=> r = cur[w] \/ \E v \in Workers : Delivering(v, r) /\ pc[v] \in Past
    BY <1>6, <1>7
  <2> QED BY <1>1, <2>1 DEF Owed, Past
<1>8. ASSUME l \in Past <=> pc[w] \in Past PROVE Owed' = Owed
  <2>1. \A r \in Rows : (\E v \in Workers : Delivering(v, r)' /\ pc'[v] \in Past)
                           <=> \E v \in Workers : Delivering(v, r) /\ pc[v] \in Past
    <3> SUFFICES ASSUME NEW r \in Rows
                 PROVE (\E v \in Workers : Delivering(v, r)' /\ pc'[v] \in Past)
                           <=> \E v \in Workers : Delivering(v, r) /\ pc[v] \in Past
      OBVIOUS
    <3>1. CASE r = cur[w]
      BY <1>1, <1>6, <1>8, <3>1
    <3>2. CASE r # cur[w]
      BY <1>6, <3>2
    <3> QED BY <3>1, <3>2
  <2> QED BY <2>1 DEF Owed, Past
<1> QED BY <1>4, <1>7, <1>8

LEMMA SameSeen ==
    ASSUME UNCHANGED <<copies, ack>> PROVE Appearances' = Appearances
BY DEF Appearances, Shown

LEMMA OneMore ==
    ASSUME TypeOK, NEW r \in Rows, copies' = [copies EXCEPT ![r] = @ + 1], UNCHANGED ack
    PROVE  Appearances' = [Appearances EXCEPT ![r] = @ + 1]
<1>1. \A q \in Rows : copies[q] \in Nat /\ copies'[q] = IF q = r THEN copies[q] + 1 ELSE copies[q]
  BY DEF TypeOK
<1>2. \A q \in Rows : Shown(q)' = IF q = r THEN Shown(q) + 1 ELSE Shown(q)
  BY <1>1 DEF Shown
<1> QED BY <1>2 DEF Appearances

\* An edit that takes effect shows the text, if it did not show already.
LEMMA Edited ==
    ASSUME TypeOK, NEW r \in Rows, ack' = [ack EXCEPT ![r] = "final"], UNCHANGED copies
    PROVE  \/ Appearances' = [Appearances EXCEPT ![r] = @ + 1]
           \/ Appearances' = Appearances /\ Appearances[r] > 0 /\ ack[r] = "final"
<1>1. \A q \in Rows : copies[q] \in Nat /\ ack'[q] = IF q = r THEN "final" ELSE ack[q]
  BY DEF TypeOK
<1>2. CASE ack[r] = "final"
  <2>1. \A q \in Rows : Shown(q)' = Shown(q)
    BY <1>1, <1>2 DEF Shown
  <2>2. Shown(r) > 0
    BY <1>1, <1>2 DEF Shown
  <2> QED BY <1>2, <2>1, <2>2 DEF Appearances
<1>3. CASE ack[r] # "final"
  <2>1. \A q \in Rows : Shown(q)' = IF q = r THEN Shown(q) + 1 ELSE Shown(q)
    BY <1>1, <1>3 DEF Shown
  <2> QED BY <2>1 DEF Appearances
<1> QED BY <1>2, <1>3

LEMMA Removed ==
    ASSUME TypeOK, NEW r \in Rows, copies[r] > 0,
           ack' = [ack EXCEPT ![r] = "gone"], UNCHANGED copies
    PROVE  \/ Appearances' = [Appearances EXCEPT ![r] = @ - 1] /\ Appearances[r] > 1
           \/ Appearances' = Appearances
<1>1. \A q \in Rows : copies[q] \in Nat /\ ack'[q] = IF q = r THEN "gone" ELSE ack[q]
  BY DEF TypeOK
<1>2. CASE ack[r] # "final"
  <2>1. \A q \in Rows : Shown(q)' = Shown(q)
    BY <1>1, <1>2 DEF Shown
  <2> QED BY <2>1 DEF Appearances
<1>3. CASE ack[r] = "final"
  <2>1. \A q \in Rows : Shown(q)' = IF q = r THEN Shown(q) - 1 ELSE Shown(q)
    BY <1>1, <1>3 DEF Shown
  <2>2. Shown(r) > 1
    BY <1>1, <1>3 DEF Shown
  <2> QED BY <2>1, <2>2 DEF Appearances
<1> QED BY <1>2, <1>3

\* Before a row is enqueued no worker is on it and no acknowledgement shows it.
Unborn ==
    \A r \in Rows : status[r] = "absent" =>
        ack[r] # "final" /\ \A w \in Workers : ~ Delivering(w, r)

LEMMA UnbornStep == Inv /\ Unborn /\ [Next]_vars => Unborn'
<1> SUFFICES ASSUME Inv, Unborn, [Next]_vars, NEW r \in Rows, status'[r] = "absent"
             PROVE  ack'[r] # "final" /\ \A v \in Workers : ~ Delivering(v, r)'
  BY DEF Unborn
<1> DEFINE Goal == ack'[r] # "final" /\ \A v \in Workers : ~ Delivering(v, r)'
<1>0. /\ TypeOK
      /\ status[r] = "absent" => ack[r] # "final" /\ \A v \in Workers : ~ Delivering(v, r)
  BY DEF Inv, Unborn
<1> USE DEF TypeOK, Delivering, OnRow
<1>1. ASSUME NEW q \in Rows, NEW visible \in BOOLEAN, Enqueue(q, visible) PROVE Goal
  BY <1>0, <1>1 DEF Enqueue, workerVars
<1>2. ASSUME NEW q \in Rows, FallDue(q) \/ LeaseLapse(q) \/ Stall(q) PROVE Goal
  BY <1>0, <1>2 DEF FallDue, LeaseLapse, Stall, workerVars, seenVars
<1>3. ASSUME DeleteTenant PROVE Goal
  BY <1>0, <1>3 DEF DeleteTenant, workerVars, seenVars
<1>4. ASSUME NEW w \in Workers, Work(w) PROVE Goal
  <2>1. ASSUME NEW B \in SUBSET Rows, ClaimBatch(w, B) PROVE Goal
    BY <1>0, <2>1 DEF ClaimBatch, seenVars
  <2>2. ASSUME NEW q \in Rows, Take(w, q) PROVE Goal
    BY <1>0, <2>2 DEF Take, Owned, seenVars
  <2>3. ASSUME EndTick(w) \/ SkipSettled(w) \/ ReadRow(w) PROVE Goal
    BY <1>0, <2>3 DEF EndTick, SkipSettled, ReadRow, NextRow, rowVars, seenVars
  <2>4. ASSUME DropRow(w) \/ DropDeleted(w) PROVE Goal
    BY <1>0, <2>4 DEF DropRow, DropDeleted, Settle, NextRow, seenVars
  <2>5. ASSUME EditOk(w) PROVE Goal
    BY <1>0, <2>5 DEF EditOk, Edits, Goto, rowVars
  <2>6. ASSUME SendOk(w) PROVE Goal
    BY <1>0, <2>6 DEF SendOk, Sends, Goto, rowVars
  <2>7. ASSUME SendBreaks(w) PROVE Goal
    BY <1>0, <2>7 DEF SendBreaks, Sends, Goto, rowVars, seenVars
  <2>8. ASSUME NEW removed \in BOOLEAN, AfterSend(w, removed) PROVE Goal
    BY <1>0, <2>8 DEF AfterSend, Goto, rowVars
  <2>9. ASSUME CommitSent(w) \/ CommitUndelivered(w) \/ CommitFailed(w) PROVE Goal
    BY <1>0, <2>9 DEF CommitSent, CommitUndelivered, CommitFailed, Settle, ReleaseClaim, NextRow, seenVars
  <2> QED BY <1>4, <2>1, <2>2, <2>3, <2>4, <2>5, <2>6, <2>7, <2>8, <2>9 DEF Work
<1>5. ASSUME NEW w \in Workers, Attempt(w) PROVE Goal
  <2>1. ASSUME NEW applied \in BOOLEAN, EditFails(w, applied) PROVE Goal
    BY <1>0, <2>1 DEF EditFails, Edits, Goto, rowVars
  <2>2. ASSUME NEW received \in BOOLEAN, SendFails(w, received) PROVE Goal
    BY <1>0, <2>2 DEF SendFails, Sends, Goto, rowVars
  <2>3. ASSUME NEW received \in BOOLEAN, Deadline(w, received) PROVE Goal
    BY <1>0, <2>3 DEF Deadline, NextRow
  <2>4. ASSUME CommitError(w) \/ DeferRow(w) PROVE Goal
    BY <1>0, <2>4 DEF CommitError, DeferRow, ReleaseClaim, NextRow, rowVars, seenVars
  <2> QED BY <1>5, <2>1, <2>2, <2>3, <2>4 DEF Attempt
<1>6. ASSUME NEW w \in Workers, Crash(w) PROVE Goal
  BY <1>0, <1>6 DEF Crash, rowVars
<1>7. ASSUME UNCHANGED vars PROVE Goal
  BY <1>0, <1>7 DEF vars, rowVars, workerVars, seenVars
<1> QED
  BY <1>1, <1>2, <1>3, <1>4, <1>5, <1>6, <1>7 DEF Next

\* Delivery with what the outbox maps it to.
Advances == Outbox!Next \/ UNCHANGED Mapped

LEMMA InitMapped == Init => Outbox!Init
<1> SUFFICES ASSUME Init PROVE Outbox!Init
  OBVIOUS
<1>1. \A w \in Workers, r \in Rows : ~ Delivering(w, r)
  BY DEF Init, Delivering, OnRow
<1>2. OnIt = [r \in Rows |-> {}] /\ Owed = [r \in Rows |-> FALSE]
  BY <1>1 DEF OnIt, Owed
<1>3. \A r \in Rows : Shown(r) = 0
  BY OutboxAssumption DEF Init, Shown
<1> QED BY <1>2, <1>3 DEF Init, Outbox!Init, Appearances

\* Nothing ends a hold-up, and everything is allowed after one.
LEMMA WhileHeldUp == Inv /\ [Next]_vars /\ stalled => Advances
<1> SUFFICES ASSUME Inv, [Next]_vars, stalled PROVE Advances
  OBVIOUS
<1>0. stalled = TRUE
  BY DEF Inv, TypeOK
<1>1. ASSUME NEW w \in Workers, Work(w) PROVE stalled' = stalled
  BY <1>1 DEF Work, ClaimBatch, Take, EndTick, SkipSettled, DropDeleted, ReadRow, DropRow, EditOk, SendOk,
              SendBreaks, AfterSend, CommitSent, CommitUndelivered, CommitFailed
<1>2. ASSUME NEW w \in Workers, Attempt(w) PROVE stalled' = stalled
  BY <1>2 DEF Attempt, EditFails, SendFails, Deadline, CommitError, DeferRow
<1>3. ASSUME NEW w \in Workers, Crash(w) PROVE stalled' = stalled
  BY <1>3 DEF Crash
<1>4. stalled' = stalled \/ stalled' = TRUE
  BY <1>1, <1>2, <1>3 DEF Next, Stall, LeaseLapse, Enqueue, FallDue, DeleteTenant, vars
<1>5. Outbox!HeldUp
  BY <1>0, <1>4 DEF Outbox!HeldUp
<1> QED BY <1>5 DEF Outbox!Next, Advances

\* The outbox table and its clock.
LEMMA TableSteps ==
    ASSUME Inv, Unborn, ~ stalled, NEW r \in Rows,
           (\E visible \in BOOLEAN : Enqueue(r, visible)) \/ FallDue(r) \/ LeaseLapse(r) \/ Stall(r)
    PROVE  Advances
<1> USE DEF Advances, Mapped, Outbox!Next
<1>0. TypeOK
  BY DEF Inv
<1>1. ASSUME NEW visible \in BOOLEAN, Enqueue(r, visible) PROVE Advances
  <2>1. UNCHANGED <<OnIt, Owed>>
    BY NobodyMoves, <1>1 DEF Enqueue, workerVars
  <2>2. Outbox!Submit(r)
    <3>1. CASE visible
      <4>1. ack' = [ack EXCEPT ![r] = "final"] /\ UNCHANGED copies
        BY <1>1, <3>1 DEF Enqueue
      <4>2. CASE Appearances' = [Appearances EXCEPT ![r] = @ + 1]
        BY <1>1, <3>1, <2>1, <4>2 DEF Enqueue, Outbox!Submit
      <4>3. ack[r] # "final"
        BY <1>1 DEF Enqueue, Unborn
      <4> QED BY <4>1, <4>2, <4>3, Edited, <1>0
    <3>2. CASE ~ visible
      BY <1>1, <3>2, <2>1, SameSeen DEF Enqueue, Outbox!Submit
    <3> QED BY <3>1, <3>2
  <2> QED BY <2>2
<1>2. CASE FallDue(r)
  BY <1>2, NobodyMoves, SameSeen DEF FallDue, workerVars, seenVars
<1>3. CASE LeaseLapse(r)
  BY <1>3, NobodyMoves, SameSeen DEF LeaseLapse, workerVars, seenVars
<1>4. CASE Stall(r)
  <2>1. Outbox!HeldUp
    BY <1>4, NobodyMoves, SameSeen DEF Stall, workerVars, seenVars, Outbox!HeldUp
  <2> QED BY <2>1
<1> QED BY <1>1, <1>2, <1>3, <1>4

\* Claims and skipped rows change nothing; a confirmed claim begins a delivery,
\* and nobody else is on the row since nobody else has its token.
LEMMA ClaimSteps ==
    ASSUME Inv, ~ stalled, NEW w \in Workers,
           \/ \E B \in SUBSET Rows : ClaimBatch(w, B)
           \/ \E r \in Rows : Take(w, r)
           \/ EndTick(w)
    PROVE  Advances
<1> USE DEF Advances, Mapped
<1>0. /\ TypeOK /\ \A v \in Workers, q \in Rows : Delivering(v, q) => claim[q] = tok[v]
      /\ pc[w] # "idle" => \A v \in Workers \ {w} : tok[v] # tok[w]
  BY DEF Inv, Owners, Delivering, Tokens
<1>1. ASSUME NEW B \in SUBSET Rows, ClaimBatch(w, B) PROVE Advances
  <2>1. UNCHANGED <<OnIt, Owed>>
    BY <1>0, <1>1, Aside DEF ClaimBatch, OnRow
  <2> QED BY <1>1, <2>1, SameSeen DEF ClaimBatch, seenVars
<1>2. ASSUME NEW r \in Rows, Take(w, r) PROVE Advances
  <2>1. CASE ~ Owned(w, r)
    BY <1>2, <2>1, NobodyMoves, SameSeen DEF Take, seenVars
  <2>2. CASE Owned(w, r)
    <3>1. /\ pc \in [Workers -> {"idle", "batch"} \cup OnRow]
          /\ cur \in [Workers -> Rows \cup {NoRow}]
          /\ pc[w] = "batch" /\ pc' = [pc EXCEPT ![w] = "row"] /\ cur' = [cur EXCEPT ![w] = r]
          /\ claim[r] = tok[w] /\ status[r] = "pending"
          /\ UNCHANGED <<status, copies, ack, unnoted, stalled>>
      BY <1>0, <1>2, <2>2 DEF TypeOK, Take, Owned, seenVars
    <3>2. \A v \in Workers : ~ Delivering(v, r)
      BY <1>0, <3>1 DEF Delivering, OnRow
    <3>3. \A v \in Workers, q \in Rows : Delivering(v, q)' <=> Delivering(v, q) \/ (v = w /\ q = r)
      BY <3>1 DEF Delivering, OnRow
    <3>4. \A v \in Workers, q \in Rows : Delivering(v, q) => pc'[v] = pc[v]
      BY <3>1 DEF Delivering, OnRow
    <3>5. OnIt' = [OnIt EXCEPT ![r] = {w}] /\ OnIt[r] = {}
      <4>1. \A q \in Rows : {v \in Workers : Delivering(v, q)'}
                              = IF q = r THEN {w} ELSE {v \in Workers : Delivering(v, q)}
        BY <3>2, <3>3
      <4> QED BY <3>2, <4>1 DEF OnIt
    <3>6. \A q \in Rows : (\E v \in Workers : Delivering(v, q)' /\ pc'[v] \in Past)
                            <=> \E v \in Workers : Delivering(v, q) /\ pc[v] \in Past
      <4>1. pc'[w] \notin Past
        BY <3>1 DEF Past
      <4> QED BY <3>3, <3>4, <4>1
    <3>7. Owed' = Owed
      BY <3>6 DEF Owed, Past
    <3>8. Outbox!Begin(w, r)
      BY <3>1, <3>5, <3>7, SameSeen DEF Outbox!Begin
    <3> QED BY <3>8 DEF Outbox!Next
  <2> QED BY <2>1, <2>2
<1>3. CASE EndTick(w)
  <2>1. UNCHANGED <<OnIt, Owed>>
    BY <1>0, <1>3, Aside DEF EndTick, OnRow
  <2> QED BY <1>3, <2>1, SameSeen DEF EndTick, rowVars, seenVars
<1> QED BY <1>1, <1>2, <1>3

\* Whatever ends a delivery that its worker does not record.
LEMMA EndsUnrecorded ==
    ASSUME Inv, ~ stalled, NEW w \in Workers, pc[w] \in OnRow, NEW l, l \notin OnRow,
           pc' = [pc EXCEPT ![w] = l], cur' = [cur EXCEPT ![w] = NoRow],
           UNCHANGED <<status, ack, stalled>>,
           \/ pc[w] \notin Past /\ UNCHANGED <<copies, unnoted>>
           \/ pc[w] \in Past /\ UNCHANGED copies /\ unnoted' = [unnoted EXCEPT ![cur[w]] = @ + 1]
           \/ /\ pc[w] \notin Past
              /\ copies' = [copies EXCEPT ![cur[w]] = @ + 1]
              /\ unnoted' = [unnoted EXCEPT ![cur[w]] = @ + 1]
    PROVE  Advances
<1>1. /\ cur[w] \in Rows
      /\ OnIt[cur[w]] # {}
      /\ Owed[cur[w]] <=> pc[w] \in Past
  BY Alone
<1>2. Outbox!Ends(cur[w])
  BY <1>1, Leaves DEF Outbox!Ends
<1>3. UNCHANGED copies => Appearances' = Appearances
  BY SameSeen
<1>4. copies' = [copies EXCEPT ![cur[w]] = @ + 1]
        => Appearances' = [Appearances EXCEPT ![cur[w]] = @ + 1]
  BY <1>1, OneMore DEF Inv
<1>5. Outbox!GiveUp(cur[w])
  BY <1>1, <1>2, <1>3, <1>4 DEF Outbox!GiveUp
<1> QED BY <1>1, <1>5 DEF Advances, Outbox!Next

\* The outcome a worker writes is the outcome of what it did.
LEMMA EndsRecorded ==
    ASSUME Inv, ~ stalled, NEW w \in Workers,
           DropDeleted(w) \/ DropRow(w) \/ CommitSent(w) \/ CommitFailed(w)
    PROVE  Advances
<1> USE DEF NextRow, OnRow
<1>1. /\ cur[w] \in Rows
      /\ OnIt[cur[w]] # {}
      /\ Owed[cur[w]] <=> pc[w] \in Past
  BY Alone DEF DropDeleted, DropRow, CommitSent, CommitFailed
<1>2. Outbox!Ends(cur[w]) /\ Appearances' = Appearances /\ UNCHANGED unnoted
  BY <1>1, Leaves, SameSeen
     DEF Outbox!Ends, DropDeleted, DropRow, CommitSent, CommitFailed, seenVars
<1>3. Outbox!Undecided(cur[w])
  BY DEF Inv, Owners, DropDeleted, DropRow, CommitSent, CommitFailed, Outbox!Undecided
<1>4. CASE CommitSent(w)
  <2>1. Outbox!Record(cur[w])
    BY <1>1, <1>2, <1>3, <1>4 DEF CommitSent, Settle, Past, Outbox!Record
  <2> QED BY <1>1, <2>1 DEF Advances, Outbox!Next
<1>5. CASE DropDeleted(w) \/ DropRow(w) \/ CommitFailed(w)
  <2>1. ack[cur[w]] = "final" => Appearances[cur[w]] > 0
    BY <1>1 DEF Inv, TypeOK, Appearances, Shown
  <2>2. ~ Owed[cur[w]]
    BY <1>1, <1>5 DEF DropDeleted, DropRow, CommitFailed, Past
  <2>3. \/ \E o \in {"muted", "dropped", "failed"} : status' = [status EXCEPT ![cur[w]] = o]
        \/ ack[cur[w]] = "final" /\ status' = [status EXCEPT ![cur[w]] = "sent"]
    BY <1>5 DEF DropDeleted, DropRow, CommitFailed, Settle
  <2>4. Outbox!Settle(cur[w])
    BY <1>2, <1>3, <2>1, <2>2, <2>3 DEF Outbox!Settle
  <2> QED BY <1>1, <2>4 DEF Advances, Outbox!Next
<1> QED BY <1>4, <1>5

\* An edit or a send that its worker sees succeed.
LEMMA SendsKnown ==
    ASSUME Inv, ~ stalled, NEW w \in Workers, EditOk(w) \/ SendOk(w)
    PROVE  Advances
<1> USE DEF Goto, OnRow, Past
<1>0. TypeOK
  BY DEF Inv
<1>1. /\ cur[w] \in Rows
      /\ OnIt[cur[w]] # {}
      /\ ~ Owed[cur[w]]
  BY Alone DEF EditOk, SendOk, Edits, Sends
<1>2. OnIt' = OnIt /\ Owed' = [Owed EXCEPT ![cur[w]] = TRUE]
  BY Stays DEF EditOk, SendOk, Edits, Sends
<1>3. \/ Appearances' = [Appearances EXCEPT ![cur[w]] = @ + 1]
      \/ Appearances' = Appearances /\ Appearances[cur[w]] > 0
  <2>1. CASE EditOk(w)
    BY <1>0, <1>1, <2>1, Edited DEF EditOk
  <2>2. CASE SendOk(w)
    BY <1>0, <1>1, <2>2, OneMore DEF SendOk, Received
  <2> QED BY <2>1, <2>2
<1>4. Outbox!Deliver(cur[w])
  BY <1>1, <1>2, <1>3 DEF Outbox!Deliver, EditOk, SendOk, rowVars
<1> QED BY <1>1, <1>4 DEF Advances, Outbox!Next

\* A send or an edit that its worker sees fail, whether it took effect or not.
LEMMA SendsUnknown ==
    ASSUME Inv, ~ stalled, NEW w \in Workers,
           \/ \E applied \in BOOLEAN : EditFails(w, applied)
           \/ \E received \in BOOLEAN : SendFails(w, received)
           \/ SendBreaks(w)
           \/ ReadRow(w)
    PROVE  Advances
<1> USE DEF Goto, OnRow, Past
<1>0. TypeOK
  BY DEF Inv
<1>1. /\ cur[w] \in Rows
      /\ OnIt[cur[w]] # {}
      /\ ~ Owed[cur[w]]
  BY Alone DEF EditFails, SendFails, SendBreaks, ReadRow, Edits, Sends
<1>2. OnIt' = OnIt /\ Owed' = Owed
  BY Stays DEF EditFails, SendFails, SendBreaks, ReadRow, Edits, Sends
<1>3. ASSUME NEW applied \in BOOLEAN, EditFails(w, applied) PROVE Advances
  <2>1. CASE ~ applied
    BY <1>2, <1>3, <2>1, SameSeen DEF EditFails, rowVars, Advances, Mapped
  <2>2. CASE applied
    <3>1. Appearances' \in {Appearances, [Appearances EXCEPT ![cur[w]] = @ + 1]}
      BY <1>0, <1>1, <1>3, <2>2, Edited DEF EditFails
    <3>2. Outbox!Slip(cur[w])
      BY <1>1, <1>2, <1>3, <2>2, <3>1 DEF EditFails, Unnoted, rowVars, Outbox!Slip
    <3> QED BY <1>1, <3>2 DEF Advances, Outbox!Next
  <2> QED BY <2>1, <2>2
<1>4. ASSUME NEW received \in BOOLEAN, SendFails(w, received) PROVE Advances
  <2>1. CASE ~ received
    BY <1>2, <1>4, <2>1, SameSeen DEF SendFails, rowVars, Advances, Mapped
  <2>2. CASE received
    <3>1. Appearances' = [Appearances EXCEPT ![cur[w]] = @ + 1]
      BY <1>0, <1>1, <1>4, <2>2, OneMore DEF SendFails, Received
    <3>2. Outbox!Slip(cur[w])
      BY <1>1, <1>2, <1>4, <2>2, <3>1 DEF SendFails, Unnoted, rowVars, Outbox!Slip
    <3> QED BY <1>1, <3>2 DEF Advances, Outbox!Next
  <2> QED BY <2>1, <2>2
<1>5. CASE SendBreaks(w)
  BY <1>2, <1>5, SameSeen DEF SendBreaks, rowVars, seenVars, Advances, Mapped
<1>6. CASE ReadRow(w)
  BY <1>2, <1>6, SameSeen DEF ReadRow, rowVars, seenVars, Advances, Mapped
<1> QED BY <1>3, <1>4, <1>5, <1>6

\* A second appearance may be taken back, never the only one.
LEMMA CleanUp ==
    ASSUME Inv, ~ stalled, NEW w \in Workers, NEW removed \in BOOLEAN, AfterSend(w, removed)
    PROVE  Advances
<1> USE DEF Goto, OnRow, Past
<1>0. TypeOK /\ copies[cur[w]] > 0
  BY DEF Inv, Witnessed, AfterSend
<1>1. /\ cur[w] \in Rows
      /\ Owed[cur[w]]
  BY Alone DEF AfterSend
<1>2. OnIt' = OnIt /\ Owed' = Owed
  BY Stays DEF AfterSend
<1>3. CASE ~ removed
  BY <1>2, <1>3, SameSeen DEF AfterSend, rowVars, Advances, Mapped
<1>4. CASE removed
  <2>1. \/ Appearances' = [Appearances EXCEPT ![cur[w]] = @ - 1] /\ Appearances[cur[w]] > 1
        \/ Appearances' = Appearances
    BY <1>0, <1>1, <1>4, Removed DEF AfterSend
  <2>2. CASE Appearances' = Appearances
    BY <1>2, <2>2 DEF AfterSend, rowVars, Advances, Mapped
  <2>3. CASE Appearances' = [Appearances EXCEPT ![cur[w]] = @ - 1] /\ Appearances[cur[w]] > 1
    <3>1. Outbox!Withdraw(cur[w])
      BY <1>1, <1>2, <2>3 DEF AfterSend, rowVars, Outbox!Withdraw
    <3> QED BY <1>1, <3>1 DEF Advances, Outbox!Next
  <2> QED BY <2>1, <2>2, <2>3
<1> QED BY <1>3, <1>4

\* A row skipped, put off or given up.
LEMMA GivenUp ==
    ASSUME Inv, ~ stalled, NEW w \in Workers,
           \/ SkipSettled(w) \/ DeferRow(w) \/ CommitUndelivered(w) \/ CommitError(w)
           \/ \E received \in BOOLEAN : Deadline(w, received)
           \/ Crash(w)
    PROVE  Advances
<1> USE DEF OnRow, Past
<1>1. CASE SkipSettled(w) \/ DeferRow(w) \/ CommitUndelivered(w)
  BY <1>1, EndsUnrecorded DEF SkipSettled, DeferRow, CommitUndelivered, NextRow, rowVars, seenVars
<1>2. CASE CommitError(w)
  BY <1>2, EndsUnrecorded DEF CommitError, Unnoted, NextRow, rowVars
<1>3. ASSUME NEW received \in BOOLEAN, Deadline(w, received) PROVE Advances
  BY <1>3, EndsUnrecorded DEF Deadline, Sends, Received, Unnoted, NextRow
<1>4. CASE Crash(w)
  <2>1. CASE pc[w] \in OnRow
    BY <1>4, <2>1, EndsUnrecorded DEF Crash, Unnoted, rowVars
  <2>2. CASE pc[w] \notin OnRow
    <3>1. TypeOK /\ "idle" \notin OnRow /\ \A v \in Workers \ {w} : cur'[v] = cur[v]
      BY <1>4 DEF Crash, Inv, TypeOK
    <3>2. UNCHANGED <<OnIt, Owed>>
      BY <1>4, <2>2, <3>1, Aside DEF Crash
    <3> QED BY <1>4, <2>2, <3>2, SameSeen DEF Crash, rowVars, Advances, Mapped
  <2> QED BY <2>1, <2>2
<1> QED BY <1>1, <1>2, <1>3, <1>4

\* What the outbox does is what Delivery promises: tokens, leases, the per-row
\* fence and the deadline make deliveries of a row exclusive, and leave
\* unrecorded only what is counted.
THEOREM Refinement == Spec => ImplementsDelivery
<1>1. Inv /\ Unborn /\ [Next]_vars => [Outbox!Next]_Mapped
  <2> SUFFICES ASSUME Inv, Unborn, [Next]_vars, ~ stalled PROVE Advances
    BY WhileHeldUp DEF Advances
  <2>1. CASE UNCHANGED vars
    BY <2>1, NobodyMoves, SameSeen DEF vars, rowVars, workerVars, seenVars, Advances, Mapped
  <2>2. ASSUME NEW w \in Workers, Work(w) PROVE Advances
    BY <2>2, ClaimSteps, EndsRecorded, SendsKnown, SendsUnknown, CleanUp, GivenUp DEF Work
  <2>3. ASSUME NEW w \in Workers, Attempt(w) PROVE Advances
    BY <2>3, SendsUnknown, GivenUp DEF Attempt
  <2>4. ASSUME NEW w \in Workers, Crash(w) PROVE Advances
    BY <2>4, GivenUp
  <2>5. ASSUME NEW r \in Rows,
               \/ \E visible \in BOOLEAN : Enqueue(r, visible)
               \/ FallDue(r) \/ LeaseLapse(r) \/ Stall(r)
        PROVE  Advances
    BY <2>5, TableSteps
  <2>6. CASE DeleteTenant
    BY <2>6, NobodyMoves, SameSeen
       DEF DeleteTenant, workerVars, seenVars, Advances, Mapped, Outbox!Drain, Outbox!Next
  <2> QED BY <2>1, <2>2, <2>3, <2>4, <2>5, <2>6 DEF Next
<1>2. Init => Unborn
  BY OutboxAssumption DEF Init, Unborn, Delivering, OnRow
<1>3. Spec => []Unborn
  BY <1>2, UnbornStep, Invariance, PTL DEF Spec
<1> QED
  BY <1>1, <1>3, InitMapped, Invariance, PTL
     DEF Spec, ImplementsDelivery, Outbox!Spec, Outbox!deliveryVars, Mapped
==============================================================================
