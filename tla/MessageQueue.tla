---------------------------- MODULE MessageQueue ----------------------------
(***************************************************************************)
(* The per-thread FIFO queue of inbound messages: the table message_jobs   *)
(* (db/models/message_jobs.py), its primitives (workers/message_queue.py)  *)
(* and the consumer that drives them (workers/message_dispatcher.py).      *)
(*                                                                         *)
(* Rows are identified by their dedup key (channel, external_update_id).   *)
(* Every consumer writes the same worker_id, "job_runner", so the only     *)
(* fencing token that tells two consumers apart is the attempt number.     *)
(*                                                                         *)
(* Wall-clock time is abstracted to what the code compares: enqueued_at is *)
(* a place in the order in which the enqueuers read their clock, and a     *)
(* lease is active until it lapses.  A lease may lapse under a consumer    *)
(* that is alive: the heartbeat is best effort and shares the event loop   *)
(* with the turn.                                                          *)
(***************************************************************************)
EXTENDS Naturals

CONSTANTS Jobs,         \* dedup keys (channel, external_update_id)
          Threads,      \* FIFO buckets, message_jobs.thread_id
          ThreadOf,     \* the bucket of each job, derive_thread_key
          Tenants,      \* the owners of the threads
          TenantOf,     \* the tenant of each thread
          Enqueuers,    \* processes that call enqueue_message
          Dispatchers,  \* processes that run process_pending
          MAX_ATTEMPTS, \* failed attempts before dead_letter
          NoJob         \* no job: not enqueuing, not holding one

ASSUME QueueAssumption ==
    /\ ThreadOf \in [Jobs -> Threads]
    /\ TenantOf \in [Threads -> Tenants]
    /\ MAX_ATTEMPTS \in Nat \ {0}
    /\ NoJob \notin Jobs

VARIABLES
    status,      \* message_jobs.status; "absent": no row
    enqueuedAt,  \* message_jobs.enqueued_at
    attempt,     \* message_jobs.attempt
    lease,       \* message_jobs.lease_expires_at against the clock
    clock,       \* the next reading of the enqueuers' clock
    enqJob,      \* the key an enqueuer is inserting, or NoJob
    enqAt,       \* the timestamp it read
    pc,          \* where a dispatcher is in process_pending
    held,        \* its job snapshot's id, or NoJob
    token,       \* its job snapshot's attempt
    lapsed,      \* the leases that had expired when it read its clock, and
                 \* were not renewed since
    cand,        \* the candidates left of its claim's statement snapshot
    beating,     \* its heartbeat task is running
    revived      \* history: jobs of which a heartbeat renewed a lease that
                 \* had already run out

rowVars == <<status, enqueuedAt, attempt, lease>>
enqVars == <<clock, enqJob, enqAt>>
dispVars == <<pc, held, token, lapsed, cand, beating>>
claimVars == <<lapsed, cand, revived>>
vars == <<rowVars, enqVars, dispVars, revived>>

Terminal == {"done", "dead_letter"}
Open == {"pending", "processing"}

SameThread(j, k) == ThreadOf[j] = ThreadOf[k]

-----------------------------------------------------------------------------
Init ==
    /\ status = [j \in Jobs |-> "absent"]
    /\ enqueuedAt = [j \in Jobs |-> 0]
    /\ attempt = [j \in Jobs |-> 0]
    /\ lease = [j \in Jobs |-> "none"]
    /\ clock = 1
    /\ enqJob = [e \in Enqueuers |-> NoJob]
    /\ enqAt = [e \in Enqueuers |-> 0]
    /\ pc = [d \in Dispatchers |-> "idle"]
    /\ held = [d \in Dispatchers |-> NoJob]
    /\ token = [d \in Dispatchers |-> 0]
    /\ lapsed = [d \in Dispatchers |-> {}]
    /\ cand = [d \in Dispatchers |-> {}]
    /\ beating = [d \in Dispatchers |-> FALSE]
    /\ revived = {}

(***************************************************************************)
(* enqueue_message: read the clock, look for the key, insert; the row is   *)
(* visible only when the caller's transaction commits.                     *)
(***************************************************************************)
EnqueueBegin(e, j) ==
    /\ enqJob[e] = NoJob
    /\ status[j] = "absent"         \* otherwise DuplicateMessageJob: an ack
    /\ enqJob' = [enqJob EXCEPT ![e] = j]
    /\ enqAt' = [enqAt EXCEPT ![e] = clock]
    /\ clock' = clock + 1
    /\ UNCHANGED <<rowVars, dispVars, revived>>

\* The insert commits, unless another enqueuer's row for the key came first:
\* then UNIQUE rejects it and handle_telegram_update finds the row and acks.
EnqueueCommit(e) ==
    LET j == enqJob[e] IN
    /\ j # NoJob
    /\ IF status[j] = "absent"
         THEN /\ status' = [status EXCEPT ![j] = "pending"]
              /\ enqueuedAt' = [enqueuedAt EXCEPT ![j] = enqAt[e]]
         ELSE UNCHANGED <<status, enqueuedAt>>
    /\ enqJob' = [enqJob EXCEPT ![e] = NoJob]
    /\ UNCHANGED <<attempt, lease, clock, enqAt, dispVars, revived>>

\* The enqueuer dies, or the transaction fails, before the commit.
EnqueueAbort(e) ==
    /\ enqJob[e] # NoJob
    /\ enqJob' = [enqJob EXCEPT ![e] = NoJob]
    /\ UNCHANGED <<rowVars, clock, enqAt, dispVars, revived>>

-----------------------------------------------------------------------------
(***************************************************************************)
(* claim_next_job, in the steps READ COMMITTED gives it.  `when' is read   *)
(* before the transaction starts.  The transaction takes the advisory lock *)
(* that serialises claims, and holds it to its end.  Its UPDATE evaluates  *)
(* the subquery, the NOT EXISTS of rule 2 included, on the statement's     *)
(* snapshot; FOR UPDATE then goes through the rows found, oldest first,    *)
(* locks each and, when it changed meanwhile, tests the current version    *)
(* again, but that row's own columns only.  Heartbeats, marks and inserts  *)
(* take no advisory lock and commit in between.                            *)
(***************************************************************************)
ClaimBegin(d) ==
    /\ pc[d] = "idle"
    /\ pc' = [pc EXCEPT ![d] = "claiming"]
    /\ lapsed' = [lapsed EXCEPT ![d] = {j \in Jobs : lease[j] = "expired"}]
    /\ UNCHANGED <<rowVars, enqVars, held, token, cand, beating, revived>>

LeaseExpired(d, j) == j \in lapsed[d]

\* Rule 1, the condition on the row's own columns.
Free(d, j) ==
    \/ status[j] = "pending"
    \/ status[j] = "processing" /\ LeaseExpired(d, j)

\* Mutant: the lease check of rule 2 is dropped from the claim's subquery.
ClaimableAnyThread(d, j) == Free(d, j)

\* Mutant: only pending rows are candidates, there is no failover.
ClaimableNoFailover(d, j) ==
    /\ status[j] = "pending"
    /\ ~ \E k \in Jobs \ {j} : /\ SameThread(j, k)
                               /\ status[k] = "processing"
                               /\ ~ LeaseExpired(d, k)

Claimable(d, j) ==
    /\ Free(d, j)
    /\ ~ \E k \in Jobs \ {j} : /\ SameThread(j, k)
                               /\ status[k] = "processing"
                               /\ ~ LeaseExpired(d, k)

\* The lock is granted and the UPDATE takes its snapshot.
ClaimSnapshot(d) ==
    /\ pc[d] = "claiming"
    /\ \A c \in Dispatchers : pc[c] # "selecting"
    /\ pc' = [pc EXCEPT ![d] = "selecting"]
    /\ cand' = [cand EXCEPT ![d] = {j \in Jobs : Claimable(d, j)}]
    /\ UNCHANGED <<rowVars, enqVars, held, token, lapsed, beating, revived>>

\* Mutant: no ORDER BY enqueued_at.
OldestAny(d, j) == j \in cand[d]

Oldest(d, j) == j \in cand[d] /\ \A k \in cand[d] : enqueuedAt[j] <= enqueuedAt[k]

\* Mutant: a failover claim keeps the attempt number.
ClaimSameAttempt(d, j) ==
    /\ pc[d] = "selecting"
    /\ Oldest(d, j)
    /\ Free(d, j)
    /\ status' = [status EXCEPT ![j] = "processing"]
    /\ attempt' = [attempt EXCEPT ![j] = IF status[j] = "pending" THEN @ + 1 ELSE @]
    /\ lease' = [lease EXCEPT ![j] = "active"]
    /\ lapsed' = [c \in Dispatchers |-> IF c = d THEN {} ELSE lapsed[c] \ {j}]
    /\ pc' = [pc EXCEPT ![d] = "dispatching"]
    /\ held' = [held EXCEPT ![d] = j]
    /\ token' = [token EXCEPT ![d] = attempt'[j]]
    /\ cand' = [cand EXCEPT ![d] = {}]
    /\ beating' = [beating EXCEPT ![d] = TRUE]
    /\ UNCHANGED <<enqueuedAt, enqVars, revived>>

Claim(d, j) ==
    /\ pc[d] = "selecting"
    /\ Oldest(d, j)
    /\ Free(d, j)
    /\ status' = [status EXCEPT ![j] = "processing"]
    /\ attempt' = [attempt EXCEPT ![j] = @ + 1]
    /\ lease' = [lease EXCEPT ![j] = "active"]
    /\ lapsed' = [c \in Dispatchers |-> IF c = d THEN {} ELSE lapsed[c] \ {j}]
    /\ pc' = [pc EXCEPT ![d] = "dispatching"]
    /\ held' = [held EXCEPT ![d] = j]
    /\ token' = [token EXCEPT ![d] = attempt'[j]]
    /\ cand' = [cand EXCEPT ![d] = {}]
    /\ beating' = [beating EXCEPT ![d] = TRUE]
    /\ UNCHANGED <<enqueuedAt, enqVars, revived>>

\* The row changed since the snapshot and is not free any more: LIMIT 1 goes on
\* to the next candidate, whose NOT EXISTS is not evaluated again.
PassOver(d, j) ==
    /\ pc[d] = "selecting"
    /\ Oldest(d, j)
    /\ ~ Free(d, j)
    /\ cand' = [cand EXCEPT ![d] = @ \ {j}]
    /\ UNCHANGED <<rowVars, enqVars, pc, held, token, lapsed, beating, revived>>

ClaimNone(d) ==
    /\ pc[d] = "selecting"
    /\ cand[d] = {}
    /\ pc' = [pc EXCEPT ![d] = "idle"]
    /\ lapsed' = [lapsed EXCEPT ![d] = {}]
    /\ UNCHANGED <<rowVars, enqVars, held, token, cand, beating, revived>>

-----------------------------------------------------------------------------
(***************************************************************************)
(* The conditional UPDATEs: id, worker_id, attempt and status = processing.*)
(***************************************************************************)
\* Mutant: the UPDATEs do not test status = 'processing'.
OwnsAnyStatus(d) == attempt[held[d]] = token[d]

\* Mutant: the UPDATEs do not test the attempt.
OwnsAnyAttempt(d) == status[held[d]] = "processing"

Owns(d) == status[held[d]] = "processing" /\ attempt[held[d]] = token[d]

\* _heartbeat_loop: extend_lease, whose new lease ends later than any clock
\* reading taken so far, or stop beating when the row was taken over.
Heartbeat(d) ==
    /\ beating[d]
    /\ IF Owns(d)
         THEN /\ lease' = [lease EXCEPT ![held[d]] = "active"]
              /\ lapsed' = [c \in Dispatchers |-> lapsed[c] \ {held[d]}]
              /\ revived' = IF lease[held[d]] = "expired" THEN revived \cup {held[d]}
                                                         ELSE revived
              /\ UNCHANGED beating
         ELSE /\ beating' = [beating EXCEPT ![d] = FALSE]
              /\ UNCHANGED <<lease, lapsed, revived>>
    /\ UNCHANGED <<status, enqueuedAt, attempt, enqVars, pc, held, token, cand>>

\* 300 s pass without a heartbeat.
LeaseLapse(j) ==
    /\ lease[j] = "active"
    /\ lease' = [lease EXCEPT ![j] = "expired"]
    /\ UNCHANGED <<status, enqueuedAt, attempt, enqVars, dispVars, revived>>

\* _dispatch returns.
DispatchOk(d) ==
    /\ pc[d] = "dispatching"
    /\ pc' = [pc EXCEPT ![d] = "succeeded"]
    /\ UNCHANGED <<rowVars, enqVars, held, token, claimVars, beating>>

\* _dispatch raises: the turn crashed or left the inbound unprocessed.
DispatchFail(d) ==
    /\ pc[d] = "dispatching"
    /\ pc' = [pc EXCEPT ![d] = "failed"]
    /\ UNCHANGED <<rowVars, enqVars, held, token, claimVars, beating>>

\* The finally clause: cancel the heartbeat and go on to the next job.
Finish(d) ==
    /\ pc' = [pc EXCEPT ![d] = "idle"]
    /\ held' = [held EXCEPT ![d] = NoJob]
    /\ token' = [token EXCEPT ![d] = 0]
    /\ beating' = [beating EXCEPT ![d] = FALSE]
    /\ UNCHANGED <<claimVars, enqVars>>

LandDone(d) ==
    IF Owns(d)
      THEN /\ status' = [status EXCEPT ![held[d]] = "done"]
           /\ lease' = [lease EXCEPT ![held[d]] = "none"]
      ELSE UNCHANGED <<status, lease>>

LandFailed(d) ==
    IF Owns(d)
      THEN /\ status' = [status EXCEPT ![held[d]] =
                            IF token[d] < MAX_ATTEMPTS THEN "pending"
                                                       ELSE "dead_letter"]
           /\ lease' = [lease EXCEPT ![held[d]] = "none"]
      ELSE UNCHANGED <<status, lease>>

MarkDone(d) ==
    /\ pc[d] = "succeeded"
    /\ LandDone(d)
    /\ Finish(d)
    /\ UNCHANGED <<enqueuedAt, attempt>>

\* The mark_done transaction raises, committed or not: the except clause
\* around it then reports the job failed.
MarkDoneError(d) ==
    /\ pc[d] = "succeeded"
    /\ LandDone(d) \/ UNCHANGED <<status, lease>>
    /\ pc' = [pc EXCEPT ![d] = "failed"]
    /\ UNCHANGED <<enqueuedAt, attempt, enqVars, held, token, claimVars, beating>>

MarkFailed(d) ==
    /\ pc[d] = "failed"
    /\ LandFailed(d)
    /\ Finish(d)
    /\ UNCHANGED <<enqueuedAt, attempt>>

\* mark_failed itself raises before its commit; that is swallowed and the
\* lease left to lapse.  (Raised after the commit, it is MarkFailed.)
MarkFailedError(d) ==
    /\ pc[d] = "failed"
    /\ Finish(d)
    /\ UNCHANGED rowVars

\* soft_delete_tenant drains the tenant's jobs in one UPDATE of its own,
\* without worker, attempt or lease in its WHERE.
Drain(n) ==
    /\ status' = [j \in Jobs |-> IF TenantOf[ThreadOf[j]] = n /\ status[j] \in Open
                                   THEN "done" ELSE status[j]]
    /\ UNCHANGED <<enqueuedAt, attempt, lease, enqVars, dispVars, revived>>

\* The process dies and is started again by systemd; its transaction, and the
\* advisory lock with it, is rolled back.
Crash(d) ==
    /\ pc[d] # "idle"
    /\ pc' = [pc EXCEPT ![d] = "idle"]
    /\ held' = [held EXCEPT ![d] = NoJob]
    /\ token' = [token EXCEPT ![d] = 0]
    /\ lapsed' = [lapsed EXCEPT ![d] = {}]
    /\ cand' = [cand EXCEPT ![d] = {}]
    /\ beating' = [beating EXCEPT ![d] = FALSE]
    /\ UNCHANGED <<rowVars, enqVars, revived>>

-----------------------------------------------------------------------------
Enqueue(e) == (\E j \in Jobs : EnqueueBegin(e, j)) \/ EnqueueCommit(e) \/ EnqueueAbort(e)

Dispatch(d) ==
    \/ ClaimBegin(d)
    \/ ClaimSnapshot(d)
    \/ \E j \in Jobs : Claim(d, j) \/ PassOver(d, j)
    \/ ClaimNone(d)
    \/ Heartbeat(d)
    \/ DispatchOk(d)
    \/ DispatchFail(d)
    \/ MarkDone(d)
    \/ MarkDoneError(d)
    \/ MarkFailed(d)
    \/ MarkFailedError(d)
    \/ Crash(d)

Next ==
    \/ \E e \in Enqueuers : Enqueue(e)
    \/ \E d \in Dispatchers : Dispatch(d)
    \/ \E j \in Jobs : LeaseLapse(j)
    \/ \E n \in Tenants : Drain(n)

Spec == Init /\ [][Next]_vars

-----------------------------------------------------------------------------
(***************************************************************************)
(* Properties                                                              *)
(***************************************************************************)
PC == {"idle", "claiming", "selecting", "dispatching", "succeeded", "failed"}
Busy == {"dispatching", "succeeded", "failed"}

\* Type invariant: the columns and locals keep the values the schema's CHECK
\* constraints and process_pending allow.
TypeOK ==
    /\ status \in [Jobs -> {"absent"} \cup Open \cup Terminal]
    /\ enqueuedAt \in [Jobs -> Nat]
    /\ attempt \in [Jobs -> Nat]
    /\ lease \in [Jobs -> {"none", "active", "expired"}]
    /\ clock \in Nat
    /\ enqJob \in [Enqueuers -> Jobs \cup {NoJob}]
    /\ enqAt \in [Enqueuers -> Nat]
    /\ pc \in [Dispatchers -> PC]
    /\ held \in [Dispatchers -> Jobs \cup {NoJob}]
    /\ token \in [Dispatchers -> Nat]
    /\ lapsed \in [Dispatchers -> SUBSET Jobs]
    /\ cand \in [Dispatchers -> SUBSET Jobs]
    /\ beating \in [Dispatchers -> BOOLEAN]
    /\ revived \subseteq Jobs

\* Fencing: two dispatchers may run the same job, the one that lost its lease
\* and the one that took over, but never under the same attempt token, and no
\* token is ahead of its row.  So at most one of them can land an outcome.
TokensAreUnique ==
    /\ \A d \in Dispatchers : pc[d] \in Busy => token[d] <= attempt[held[d]]
    /\ \A d, c \in Dispatchers :
          /\ d # c
          /\ pc[d] \in Busy
          /\ pc[c] \in Busy
          /\ held[d] = held[c]
          => token[d] # token[c]

\* A settled job stays settled: neither a claim working from a stale snapshot
\* nor a late mark of a consumer that lost its lease, or whose job was drained
\* under it, reopens or rewrites it (the races of the comments in
\* claim_next_job).
SettledForGood ==
    [][\A j \in Jobs : status[j] \in Terminal => status'[j] = status[j]]_vars

\* FIFO at the moment of a claim: every row of the thread that is visible and
\* was enqueued earlier has been settled.  The one row a claim may overtake is
\* one whose lease had run out and was renewed by its late consumer: renewed
\* between the claim's snapshot and its row lock, it is passed over and the
\* thread's next row is taken.
ClaimsInOrder ==
    [][\A j, k \in Jobs :
          /\ attempt'[j] # attempt[j]
          /\ SameThread(j, k)
          /\ enqueuedAt[k] < enqueuedAt[j]
          /\ k \notin revived
          => status[k] \notin Open]_vars

\* The FIFO invariant message_jobs.py states, at most one job of a thread is
\* processing under an active lease: it can only be lost to a heartbeat that
\* renews a lease after it ran out, never to claims, marks, inserts, drains or
\* crashes, in whatever order they come.
OneActivePerThread ==
    \A j, k \in Jobs \ revived :
        /\ j # k
        /\ SameThread(j, k)
        /\ status[j] = "processing" /\ lease[j] = "active"
        => ~ (status[k] = "processing" /\ lease[k] = "active")

-----------------------------------------------------------------------------
(***************************************************************************)
(* The abstract queue.  A job belongs to the dispatcher whose snapshot has *)
(* the row's attempt number; one that lost its lease goes on running, but  *)
(* the job is no longer his.                                               *)
(***************************************************************************)
Owner == [j \in Jobs |-> {d \in Dispatchers : /\ pc[d] \in Busy
                                               /\ held[d] = j
                                               /\ status[j] = "processing"
                                               /\ token[d] = attempt[j]}]

Lifecycle == INSTANCE JobLifecycle
               WITH Workers <- Dispatchers, MaxTries <- MAX_ATTEMPTS,
                    Groups <- Tenants, GroupOf <- [j \in Jobs |-> TenantOf[ThreadOf[j]]],
                    state <- status, owner <- Owner, tries <- attempt

\* The queue keeps the abstract queue's promises: a job has one owner at a
\* time, and whatever a consumer that lost its lease, crashed halfway or saw
\* its own UPDATE fail still does to the row, only the owner decides, or the
\* deletion of the tenant.
ImplementsLifecycle == Lifecycle!Spec
=============================================================================
