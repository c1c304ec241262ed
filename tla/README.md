# Verification of Sreda

Sreda is a family assistant that lives in two messengers, Telegram and MAX. This
directory holds TLA+ modules that model the parts of it whose correctness depends
on the order of events: rows that several processes claim, locks that span two
systems, messages that are delivered twice, processes that are restarted between
two commits. TLC checks the modules on small instances, and TLAPS proves the main
invariants for every size. Paths below are relative to the repository, and
`sreda/` stands for `src/sreda/`.

Contents: 1 the system, 2 the modules, 3 the runs, 4 the proofs, 5 where the
code and its documents disagree, 6 what is not modelled, 7 the plan.

## 1. The system

### 1.1 Processes

| process | runs | restarted by |
|---|---|---|
| Telegram long poller, one per bot (`workers/telegram_long_poll.py`) | `getUpdates`, durable ingest, turns of tenants without the queue (as tasks of its event loop) | systemd |
| web server (`main.py`) | Telegram and MAX webhooks, MAX turns, the admin pages, the mini app | systemd |
| job runner (`workers/job_runner.py`) | one tick after another: outbox delivery, reminder worker, queue dispatcher, onboarding, retention | systemd |
| PostgreSQL | rows, row locks, advisory locks | outside the models |

All state that survives a restart is in PostgreSQL. Two job runners overlap during
a deployment, and every worker is written for that.

### 1.2 Components

| component | state | operations | hard because | what makes it correct |
|---|---|---|---|---|
| message queue (`workers/message_queue.py`, table `message_jobs`) | `status`, `enqueued_at`, `attempt`, `lease_expires_at` | `enqueue_message`, `claim_next_job`, `extend_lease`, `mark_done`, `mark_failed` | leases lapse under live consumers; the clock is read before the lock is granted; a claim's snapshot is older than its row lock | one active job per thread, in order, but where a heartbeat renews a lease that had run out; a late outcome never lands; every job ends |
| queue dispatcher (`workers/message_dispatcher.py`) | the job in hand, its heartbeat task | `process_pending`, `_dispatch_telegram` | success is read back from another row; the mark may fail | a finished turn is recorded as one |
| tenant lifecycle (`services/tenant_lifecycle.py`, `services/tenant_lock.py`) | `tenants.deleted_at`, advisory lock, asyncio locks | `soft_delete_tenant`, `restore_tenant`, the wrapper of a turn | three kinds of lock in two systems; synchronous waits on an event loop | a deletion and a turn of a tenant never overlap, so no output of a turn stays pending for a deleted tenant (a row that is being sent when the deletion commits is still sent); requests and turns end, circular waits apart |
| outbox (`workers/outbox_delivery.py`, table `outbox_messages`) | `status`, `claim_token`, `lease_expires_at`, `scheduled_at` | `_claim_batch`, `_reclaim_row`, `_process_one`, `_send_now`, `_send_now_max` | a send takes effect outside the transaction that records it; the outcome is written by primary key, from a status read earlier | one worker per row; "sent" means received; duplicates only where a failure explains them |
| reminders (`services/housewife_reminders.py`, `workers/housewife_reminder_worker.py`) | `family_reminders` | `schedule`, `update`, `cancel`, `due_now`, `mark_fired`, `acknowledge`, `snooze` | four kinds of writer, of which two lock the row | what the user was told will ring rings, once it is due, and not after "done" |
| delivery policy (`runtime/delivery_policy.py`) | quiet hours and priorities | `decide_delivery` | windows over midnight, overlapping windows, settings that change while a row waits | silence in quiet hours, no waiting outside them |
| Telegram ingest (`workers/telegram_long_poll.py`, `services/telegram_inbound.py`, `services/inbound_messages.py`) | `poller_offsets`, `inbound_messages.processing_status`, tasks in memory | `_fetch_updates`, `handle_telegram_update`, `_save_offset`, `_process_approved_turn` | two commits, one remote acknowledgement, and a task that dies with its process | nothing acknowledged is lost; nothing is answered twice; turns in order |
| model guard (`services/llm_bulkhead.py`, `services/llm.py`, `runtime/llm_caller.py`) | permits, breaker per provider, worker threads, stream buffers | `invoke_with_per_call_timeout`, `ainvoke_with_streaming_timeout`, `allow`, `record_*`, the fallback | threads outlive the calls that started them; late answers of calls that were admitted before the breaker changed | threads stay bounded, the probe has one owner, a late outcome does nothing, every call returns |
| ReAct turn (`runtime/react_loop.py`, `runtime/react_checkpoint_saver.py`, `services/idempotent_ops.py`) | checkpoint of the thread, `tool_operation_results`, crash counter | `handle_turn`, pause, answer, tap, resume, expire, redirect, recover | a node is run again from its first call after every answer; pauses outlive the process | a call that stores its result mutates once at most; a destructive one only on a yes to its own live question |
| planner recovery (`runtime/planner/`) | executions, step ledger | scan, probe, settle | an execution that is only slow looks dead | not yet modelled |
| usage ledger (`services/usage_ledger.py`) | counters per period | consume, refund | periods end between the two | not yet modelled |

The complete list, with everything that is left out and why, is under
`components` in `PROJECT.json`; the places at which the code is exposed, with the
properties that watch them, are under `hazards`.

### 1.3 How they interact

```
Telegram --getUpdates--> poller --row--> inbound_messages --job--> message_jobs
                            \--task--> turn <--dispatch-- queue dispatcher
MAX -----webhook--------------------> turn
turn (asyncio lock, then advisory lock of the tenant)
   |-- model calls ---> guard (bulkhead, breaker) ---> provider threads
   |-- tool calls ----> operation results, pause in the checkpoint ---> question
   |-- replies, acknowledgements ---> outbox_messages --> delivery worker --> user
   |-- reminder tools, buttons -----> family_reminders --> reminder worker --^
admin page, delete_my_account ------> soft_delete_tenant (the same advisory lock)
```

The modules meet at rows, and each module leaves open what another decides.
`TelegramIngest` assumes that a job has one consumer at a time and that turns of a
tenant exclude one another; the first is `TokensAreUnique` and `OneActivePerThread`
of `MessageQueue`, the second `HoldersHold` of `TenantBarrier`, on which `ReactTurn`
relies too: the messages of a thread come one at a time. A provider that hangs holds
a turn no longer than its deadlines (`EveryCallReturns` of `LlmGuard`), which is
what the fairness of a turn in `TenantBarrier` and `TelegramIngest` stands on.
`OutboxDelivery` sends, mutes or defers a row as it likes; when it does which is
`DeliveryPolicy`. `Reminders` ends with a row in the outbox, where `OutboxDelivery`
begins.

## 2. The modules

Each of the eight components has a module, an `MC` module with the bounds and, where
it needs them, the fairness of its instances, and a `Proofs` module. Five of them
implement an abstract specification, in a module of its own: `JobLifecycle`
(implemented by `MessageQueue`), `SafeDeletion` (`TenantBarrier`), `Delivery`
(`OutboxDelivery`), `CircuitBreaker` (`LlmGuard`) and `Confirmation` (`ReactTurn`).
Definitions whose comment begins with "Mutant" are faulty variants of the definition
that follows; nothing refers to them, they exist to show that the properties can
fail. `map` in `PROJECT.json` names the lines every definition stands for.

Conventions. A transaction that nothing can interrupt is one action. A value that
the code reads before a wait and uses after it is a variable of its own, set in the
earlier action (the queue's `lapsed` and `cand`, the outbox worker's `tok` and
`batch`, and its place "ready", where it has read a pending row; the reminder
worker's `todo` and `clock`, the transaction's `seen`). Every call to a messenger
may succeed, fail without effect, or fail after taking effect. A crash removes what
its process has in memory and leaves the rows.

**MessageQueue.** One row per dedup key. Time is reduced to what the SQL compares:
`enqueuedAt` is a place in the order of clock readings, a lease is `none`, `active`
or `expired`. `EnqueueBegin`/`EnqueueCommit` are the two ends of `enqueue_message`,
between which the row is stamped and not visible. `claim_next_job` is several steps,
as READ COMMITTED makes it: `ClaimBegin` reads the clock, by which leases are
judged; `ClaimSnapshot` gets the advisory lock and evaluates the subquery with its
NOT EXISTS (`Claimable`) for the statement's snapshot; then the rows found are
locked one after the other, oldest first, and a row that has changed is tested again
by its own columns only (`Free`): `Claim` takes it, `PassOver` goes on to the next,
whose NOT EXISTS is not evaluated again, and `ClaimNone` finds none left.
Heartbeats, marks, inserts and the drain take no advisory lock and commit in
between. `Drain` is the second writer of the table: `soft_delete_tenant` sets the
open jobs of its tenant to done, with no fence. `revived` remembers the jobs of
which a heartbeat renewed a lease that had run out, and no action reads it. `Owns`
is the WHERE clause of the three conditional UPDATEs; all consumers have the same
`worker_id`, so the attempt number is what fences. `MarkDoneError` and
`MarkFailedError` are the two `except` branches of `process_pending`.

**JobLifecycle.** What the queue promises, without leases, clocks or SQL: a job is
submitted once, has at most one owner, gets its outcome from that owner or is
closed with all the jobs of its tenant (`CloseAll`), stays settled, and is given up
only after its last try. The refinement mapping of
`MessageQueue` says who the owner is (`Owner`): the dispatcher at work on the row
under the row's attempt number, so that a consumer whose job was taken over has
lost it (`Lose`) although it goes on and will still try to report.

**TenantBarrier.** Turns and requests of several event loops. `Scheduled(a)` says
that no other actor of the loop is inside a synchronous call: this is how
`pg_advisory_lock`, which is called without an executor, holds up everything else
in its process. `EnterTenantLock`, `TurnAcquire`, `Recheck`, `Commit` and `Finish`
are the stages of `_process_approved_turn_locked`; `SelfCall` is the tool
`delete_my_account` inside a turn. `WaitsFor` is the graph of who waits for whom,
locks and blocked loops together, and `Stuck` says that an actor is in a cycle of
it or waits for one. The drained tables are stood for by one output
per turn.

**SafeDeletion.** What the barrier promises, without loops, locks, connections or
rechecks: one turn or request of a tenant is inside at a time, a deletion with its
drain is one step of a request inside, a turn is let in only while the tenant is
not deleted and writes only while inside. The mapping (`Admitted`) counts a turn
as inside once its recheck has passed, not from the moment it holds the lock:
between the two it may find the tenant deleted and leave, which the abstract
specification does not show.

**OutboxDelivery.** Rows with claim token, lease and due flag; workers that claim a
batch, pass the per-row fence, read the row (`ReadRow`, or `SkipSettled` when it is
not pending any more), drop it if its tenant is gone (`DropDeleted`), and then drop,
defer, edit or send it; between the read and the commit of the outcome a drain may
come, which nothing tests again. `copies` and `ack` are what the
recipient sees; `unnoted` counts the deliveries that took effect without being
recorded, and `stalled` remembers that a worker was held up past its lease. Both
are ghosts that no action reads.

**Delivery.** What the outbox promises, without tokens, leases, batches, deadlines
or acknowledgements: one worker at a time is on a row; what it shows the recipient
is owed a record; a worker that ends without one leaves an appearance that is
counted (`excused`), and so is one it does not know of; an outcome sent, failed or
muted is final, while a drained row may still get the outcome of the worker that is
on it. After a worker has been held up past its lease nothing is promised
(`HeldUp`). The mapping takes who is on a row from `pc` and `cur`, what is owed from
the two places between a send and its commit, and the appearances from messages
and acknowledgement together, so that an edit and a fallback message count alike.

**Reminders.** One tenant's rows and their writers. A transaction (`tx`) holds the
row as it was read and as it will be written. Workers and buttons lock the row;
`update()` and the two `cancel()` paths do not, and their commit sets the columns
they changed (`Flush`, the unit of work of the ORM). `told`, `answered` and
`missed` are ghosts: what the user was last told, what was dealt with, what came
due during a deletion.

**DeliveryPolicy.** One row and one user in local time, a day and an hour. `Claim`
is the beginning of a tick, whose time decides the row later (`tickAt`).

**TelegramIngest.** One user, several bots. `confirmed` is the offset Telegram was
last asked with, and it forgets what is below. `Persist`, `Ignore`,
`DispatchInline`, `EnqueueMessage` and `FallBack` are the commits of
`handle_telegram_update` in order; `SaveOffset` is the one after them. `EndTurn`
ends `processed` or leaves the row at `processing_started`, as a turn that was
skipped or had failed does. `SettleJob`, `CloseJob` and `FailJob` are what
`_dispatch_telegram` makes of the status it reads back.

**LlmGuard.** Calls, each with a route of providers (primary, then fallback); a
try of one provider is a leg with a worker thread. `pc` is a call's place in its
wrapper, `attempt` its unresolved `_BreakerAttempt`, `permits` the threads whose
done-callback has not run. A deadline may come at any moment of a wait and a
thread may run for ever. A thread's last two steps, its result and its
done-callback, are two actions, because the caller can see the first before the
second has run. `Delegate` is the re-invoke of a stream that brought no usable
message (`_skip_breaker`), `Cancel` the cancellation of the awaiting task, which
leaves the blocking wrapper to go on in its `to_thread` worker. The switch
`llm_reliability_guard_enabled` is on, and a provider's own `TimeoutError` is taken
for the deadline, as it is since Python 3.11.

**CircuitBreaker.** A breaker without generations, threads or wrappers: it has the
set of calls it will count (`trusted`) and the call that probes (`probing`). A
closed breaker counts the time-outs in a row of the calls it admitted since it
closed; opening it ends the trust in all of them; an open one waits for its probe.
The mapping derives both sets from `attempt`, `gen` and `probe` (`Trusted`,
`Probing`), so that the comparison of generations in `_is_current_closed_gen`
appears as membership, and a late outcome as a step that changes nothing.

**ReactTurn.** One thread of conversation. `run` is the execution of the graph
inside `handle_turn`: the node, the call it has come to, and how many answers
`interrupt()` has handed out (`idx`), first those of earlier executions (`given`),
then the one it was resumed with (`fed`). After each answer the whole node runs
again from its first call; `Committed` and the early returns (`Returns`) are what
keeps it from repeating itself, for the tools that store a result (`Recorded`). The
others, the wrapped ones and the plain writes, mutate again in every execution that
comes to them: a wrapped call gets its old yes by position and invokes its inner
tool, `clear_bought_shopping` say, on the data of that moment. `MaxWrites` bounds
how often. `ckpt` is the checkpoint the thread is read from,
with its question and the answers kept beside it; it is written while the next
node already runs (`Save`), so a crash may go back one node. The identifiers of
tool calls are taken to be unique, as the provider makes them, and the first
checkpoint of a fresh turn is written at once. An operation id is claimed by one
turn at a time, the barrier being above. `_is_yes` accepts what merely begins with
"yes" (`yesish`) and `classify_confirm_reply` does not: the model has both.
`granted`, `blind` and `left` are ghosts: which questions were answered yes while
they were live, which messages were resumed by a text without any question (a
fault fell between the model's message and the question), and which pauses
expired or were put aside.

**Confirmation.** What the turn promises, without checkpoints, positions, replays
or buttons: at most one question is open, a yes to it is a grant, and a call that
needs one is carried out on its own grant only (or in a message that went on
without a question, `blind`), not after its message was put aside, and once at most
if it stores its result (`once`); of the others it does not promise that a yes is
good for one time. A
question is open in `ReactTurn` (`Answerable`) when the graph is at rest at a
live confirmation pause, so that a crash that brings an earlier checkpoint back
asks the same question again.

## 3. The runs

| run | configuration | distinct states | properties |
|---|---|---|---|
| `queue` | `MessageQueue.cfg` | 172,248 | `TokensAreUnique`, `OneActivePerThread`, `SettledForGood`, `ClaimsInOrder`, `EveryJobSettles`, `ImplementsLifecycle` |
| `barrier` | `TenantBarrier.cfg` | 51,895 | `HoldersHold`, `NothingPendingOnceDeleted`, `RequestsServed`, `TurnsEnd`, `ImplementsSafeDeletion` |
| `barrier_self_delete` | `TenantBarrierSelfDelete.cfg` | violated | `RequestsReturn` |
| `outbox` | `OutboxDelivery.cfg` | 587,041 | `ExclusiveDelivery`, `DuplicatesExplained`, `SentIsTrue`, `ImplementsDelivery`, `EveryRowSettles` |
| `reminders` | `Reminders.cfg` | 852,335 | `KeptPromise`, `RingsWhenDue`, `FiredIsOver`, `MissedStaysSilent`, `DoneStaysQuiet`, `EveryReminderFires` |
| `reminder_lost_edit` | `RemindersHidden.cfg` | violated | `NoHiddenTrigger` |
| `policy` | `DeliveryPolicy.cfg` | 215,412 | `HeldOnlyWhileQuiet`, `NotDisturbed` |
| `ingest` | `TelegramIngest.cfg` | 278,201 | `ConfirmedIsDurable`, `AnsweredOnce`, `OneRoute`, `TurnsInOrder`, `EveryUpdateIngested`, `EveryJobSettles` |
| `ingest_two_bots` | `TelegramIngestTwoBots.cfg` | violated | `NoneStranded` |
| `llm` | `LlmGuard.cfg` | 288,515 | `ThreadsBounded`, `ProbeIsOwned`, `LateOutcomesIgnored`, `EveryCallReturns`, `PermitsComeBack`, `ImplementsBreaker` |
| `react` | `ReactTurn.cfg` | 1,135,484 | `AppliedOnce`, `OnlyWhenGranted`, `LeftIsLeft`, `ImplementsConfirmation` |
| `react_chain` | `ReactTurnChain.cfg` | violated | `OnlyWhenGranted` |

Run one with `tlc -config MessageQueue.cfg MCMessageQueue` in this directory. For
every property of a passing run `mutants` in `PROJECT.json` names a plausible
mistake in the code under which TLC finds it violated. Every module of a component
has a type invariant, `TypeOK`; the proofs establish each of them for all
constants (a theorem `Typing`, or a part of the module's inductive invariant), so
no run repeats it.

### 3.1 Bounds, and why they are enough

* `queue`: two jobs of one thread, one enqueuer, two dispatchers, two attempts,
  two faults: a crash, a failing transaction, a lapse under a live consumer, a
  deletion of the tenant. The races of the comments in `claim_next_job` take two
  consumers and two rows, and the revival between snapshot and row lock one fault.
  A second thread or tenant adds no interaction, since all conditions are within a
  thread. One enqueuer is the deployment (one bot, sequential handling of its
  updates); with two `ClaimsInOrder` fails, see section 5.
* `barrier`: two tenants, the two event loops of the deployment (the job runner's,
  and the web server's, on which MAX turns and the admin's requests run), turns on
  two channels, an admin deletion, a self-deletion, a restore, one crash. Two turns
  of one tenant on different loops need the advisory lock, and two of different
  tenants on one loop show the wait of the one on the other. Both circular waits of
  section 5 are reached in this instance.
* `outbox`: two rows, one of which edits an acknowledgement in MAX and one of
  which has a follow-up step after its send, two workers, batches of two, two faults of
  any kind. A duplicate needs one unrecorded effect, and its repetition a second.
* `reminders`: one reminder, two workers, a turn and the mini app, one channel,
  time from 0 to 3, two occurrences a period of 2 apart, two fires one unit
  apart, a late-fire grace of 1, three commands, chat edits among them, and one
  fault. All interactions are on one row; a second channel adds a second source
  of the same taps.
* `policy`: a day of three hours, a week of two days, all pairs of daily windows
  before, any single window after a command. Three hours hold windows within a
  day, over midnight, empty ones, touching and overlapping ones. The arithmetic is
  by comparison only and the proof covers 24 hours and 7 days.
* `ingest`: two updates of one bot, whose tenant's queue is on for one update and
  off for another, two faults, two attempts per job. A redelivery takes one fault,
  its loss a second; the order of turns takes two tasks.
* `llm`: three calls of one provider: one streams, one is awaited and blocks, one is
  a plain blocking call of the ReAct loop. Two permits, a breaker that opens after
  two time-outs, a buffer of one and at most two chunks, so that a worker can be
  stuck on a full buffer. The awaited call's route has two legs, a model and a
  fallback of the same provider, so that a failed leg goes on to a second attempt
  with a thread of the first still alive. Two permits and three calls make the pool
  full while a probe is out.
* `react`: two messages of the model over two kinds of batch, neither issued twice
  (`MCDistinct`, a constraint on the states): a wrapped deletion before a deletion
  of something that may be gone, whose question makes the node run the wrapped call
  again, and a keyed edit and a plain one before a question. Two messages let a
  button of the first meet the pause of the second. A call without a stored result
  mutates twice at most (`MaxWrites`), which is one repetition. Nothing that asks
  follows a guarded call of its message, the one constellation that fails; it is
  left to `react_chain`.

`CHECK_DEADLOCK FALSE` appears where the instance may stop: all rows settled and no
faults left, time at its bound, all turns ended. The queue's and the policy's
instances never stop, and deadlock is checked there.

### 3.2 Fairness, and why the code justifies it

* Dispatchers, delivery workers, reminder workers and pollers are loops that
  systemd restarts; weak fairness is on the step of the worker as a whole, never on
  a favourable outcome: whether a turn or a send succeeds stays open. Where a
  property needs success in the end, it is because failures are bounded
  (`MaxFaults`), and each such property says "whatever finite number".
* A lease that nobody renews runs out, quiet hours end, time passes: weak fairness
  on the clock.
* In `TenantBarrier`, weak fairness on each stage of a turn: model and network
  calls have timeouts and the passes of a turn are bounded. No fairness is assumed
  of crashes, of new requests, or of a lock granted out of order; PostgreSQL
  grants a free advisory lock.
* Heartbeats have no fairness: they are best effort in the code.
* In `LlmGuard`, wrappers go on, deadlines come and started threads execute; none
  on providers, which may be silent for ever, or on cancellations.
* `ReactTurn` states safety only: that a user answers is nobody's obligation.

### 3.3 What the properties say

* Queue. `TokensAreUnique`: two dispatchers may have the same job, the one that
  lost its lease and the one that took over, but never under the same token, and
  no token is ahead of its row. `SettledForGood`: neither a claim from a stale
  clock nor a late mark, of a consumer whose job was drained under it among them,
  reopens a job. `ClaimsInOrder`: what is older in the thread is settled when a row
  is claimed, unless its lease had run out and was renewed. `OneActivePerThread` is
  the invariant the header of `db/models/message_jobs.py` states, with the same
  exception: both say that a revived lease is the only way to lose what the header
  promises, over the steps of a claim, stale clocks, inserts and drains.
  `EveryJobSettles` is about finitely many crashes; a job that kills every worker
  it meets is outside it (section 5). `ImplementsLifecycle` is the refinement of
  section 2: whatever the dispatchers do, a job has one owner.
* Barrier. `HoldersHold`: whoever is past the barrier holds it. `RequestsServed`
  and `TurnsEnd`: through turns, other requests and restarts, a request returns or
  dies with its process, and an admitted turn ends, unless it is `Stuck`. The
  property does not say that circular waits do not happen, two of them do (section
  5); it says that nothing else holds anybody up: no lock is left behind by an exit,
  an error, an early return or a crash.
  `NothingPendingOnceDeleted`: no output is pending for a deleted tenant; a turn
  admitted before the deletion is caught by the recheck, and one already past it
  makes the deletion wait. `ImplementsSafeDeletion` says the same of the whole:
  deletions, restores and turns of a tenant are atomic to one another, in the order
  in which they are let in.
* Outbox. `ExclusiveDelivery`, as long as nobody is held up past the deadline (the
  code's own premise). `DuplicatesExplained`: appearances beyond the first are no
  more than the deliveries that took effect unrecorded. `SentIsTrue`: sent means
  seen, which on 2026-05-05 it did not (comment in `_send_now_max`).
  `ImplementsDelivery` ties the three together step by step: the next worker begins
  only when the last one has recorded, given up or died, an outcome is written only
  for what happened, and none is rewritten but a drained one (`OutcomeIsFinal`, which
  it implies and which is proved on its own as well).
* Reminders. `KeptPromise`: a reminder said to ring at *t* is armed for *t* until
  *t* was dealt with, and one said to be done is not armed (for the reminders no
  chat edit has touched; for the others see section 5). `FiredIsOver`: a fired
  reminder has no trigger left, on the same condition. `RingsWhenDue`: a stale
  scan never rings the next occurrence. `MissedStaysSilent`: nothing that came due
  during a deletion rings after the restore.
* Policy. `HeldOnlyWhileQuiet`: every hour a row waits is in a window it was
  deferred by. `NotDisturbed` is stated with the hours of a window counted round
  the face of the clock, a definition independent of `_in_window`.
* Ingest. `ConfirmedIsDurable`: what Telegram may forget has a row. `AnsweredOnce`:
  the turn of an update that did not become a job ends processed at most once.
  `OneRoute`: a message is a job or a task, never both, however the enqueue failed,
  provided its COMMIT has taken effect or not by the time the fallback looks for the
  row (`telegram_inbound.py:1328`). One that the server still has under way after
  the connection broke, and that lands after the look, is left out: the code has no
  answer to it.
  `TurnsInOrder`: the tasks of a poller begin in the order the user wrote in.
* Model guard. `ThreadsBounded`: threads alive, hung ones included, are no more than
  `max_concurrent`, and the counter is what threads, pending done-callbacks and
  wrappers about to submit hold between them, so no permit leaks or returns twice.
  `ProbeIsOwned`: a half-open breaker waits for exactly one call that has yet to
  report. `LateOutcomesIgnored`: a breaker moves only on the report of a call of
  its present generation. `ImplementsBreaker` goes further: with generations and
  late calls taken away, what is left is a breaker that could be explained in five
  lines, and nothing it does is owed to a call it no longer trusts.
  `EveryCallReturns` and `PermitsComeBack`: a provider that
  hangs holds no turn, and only threads hung inside it keep permits.
* ReAct turn. `AppliedOnce`: exact replay, across every re-execution of the node, of
  the calls that store a result; it is not claimed of the others (section 5).
  `OnlyWhenGranted`: a destructive call was answered yes while its own question
  was the live one. `LeftIsLeft`: after its pause expired or was put aside, no late
  answer, old button or redelivered message carries a call out.
  `ImplementsConfirmation`: every step of the turn is one of the abstract
  confirmation or is not seen by it, which adds to the three that no question is
  answered that is not open, and that a question can be put again but not moved.

## 4. The proofs

Run `tlapm MessageQueueProofs.tla` and likewise for the other seven. Every theorem
holds for all values of the constants that satisfy the module's named assumption
(`QueueAssumption`, `BarrierAssumption`, ...): any number of rows, workers, loops,
bots, crashes and faults, since the bounds of the instances are in the `MC`
modules and not part of `Spec`. The one bound inside a specification is
`MaxCrashes` of `TenantBarrier`, which is any natural number.

| module | theorems | inductive invariant, and why it is needed |
|---|---|---|
| `MessageQueueProofs` | `Typing`, `Fencing`, `Settlement` | `FenceInv`: types, `TokensAreUnique`, and that a dispatcher at work has a job and only then a heartbeat. Uniqueness is inductive once a claim is known to give a number above all tokens of its row. |
| | `ThreadExclusion` | `ClaimInv` adds that claims exclude one another from snapshot to end (`OneSelecting`), that a processing row has a lease, and one read as lapsed and not renewed since is still run out (`Leased`), and that a row of a candidate's thread which is being processed, though the snapshot did not see it so, was revived by a heartbeat (`Overtaken`). It holds for any number of enqueuers. |
| | `ThreadOrder` (one enqueuer) | `OrderInv` adds that timestamps come from the past and differ (`Stamped`), and that what is older than a candidate, and open, is itself a candidate or was revived (`OlderFirst`). |
| | `Refinement` | `FenceInv` again: because tokens are unique, a job has at most one dispatcher that may land its outcome. Each step of the queue is a step of `JobLifecycle` or a stutter: a claim is `Take` and, for the dispatcher it takes the row from, the end of ownership in the same step; a mark under the wrong token changes neither the row nor the owner, and a drain is `CloseAll`. |
| `TenantBarrierProofs` | `BarrierExcludes`, `DeletionIsFinal`, `SelfDeletionNeverLands` | `Inv`: a turn at work is for a tenant that is not deleted, and the turn of a self-deletion under way waits in its tool. The second half makes the deadlock of `barrier_self_delete` a theorem: such a deletion never gets in. |
| | `Refinement` | `Inv` again: an actor at work holds the advisory lock of its tenant, so whoever gets in finds nobody inside (`FreeIsEmpty`), and a recheck that passes sees a tenant that is not deleted. Getting the lock is `Enter` for a request and a stutter for a turn, whose `Enter` is its recheck. |
| `OutboxDeliveryProofs` | `Exclusive`, `AtLeastOnceExplained`, `StatusIsTrue`, `OutcomeStays` | `Inv`: tokens are fresh and distinct (`Tokens`), a worker on a row owns it under an active lease (`Owners`), and until its send succeeds all a row shows is accounted for (`Accounted`). |
| | `Refinement` | `Inv`, and `Unborn`: nobody is on a row that was not enqueued, and no acknowledgement shows it. `Alone` is the pivot: unless somebody was held up, what is owed about a row is the affair of its one worker, so that a step of a worker moves one row of `Delivery` (`Stays`, `Leaves`) or none (`Aside`). `EndsUnrecorded` covers the six ways a delivery ends without a record. |
| `RemindersProofs` | `Typing`, `RingsOnTime`, `DoneIsQuiet`, `PromisesKept` | `IInv`: every open transaction holds its row locked and unchanged since it was read, or only cancels, or only edits; a worker's transaction fires a pending row that was due at its clock; pending rows are armed. |
| | `FiredStaysOver` | `Over`: what every row shows, and what every open transaction will write, is spent once it is fired; a rule that has run out at one time has run out at any later one. |
| | `MissedIsSilent` | `Missed`: a trigger missed during a deletion has rung on no channel and has been passed by its row, or is still armed while the deletion lasts and every worker's scan is from before it; a worker advances its reminder past the clock of its tick. |
| `DeliveryPolicyProofs` | `Typing`, `HeldForQuietHours` (daily windows) | `HInv`: the tick's time is not after now, and all times from now to `scheduled_at` are quiet. It rests on `ActiveUntilExit`: a daily window that contains a time is not left before the exit computed for it. |
| | `QuietIsKept` | No invariant beyond the types, but a lemma on the clock (`FaceIsWindow`): the hours counted round the face from the start of a window are those `_in_window` accepts, over midnight and within a day. It needs no premise on the days. |
| `TelegramIngestProofs` | `Typing`, `DurableIngest`, `NoSecondAnswer`, `RoutesExclude` | `DInv`: everything below the committed offset, and the update in hand once past the persist, has a row or was dropped. `AInv`: a job has the number of its update and a row; a waiting task has an `ingested` row, is no job and stands in the list once; a row just written has no task yet, so a redelivery, which finds the row, adds none; a turn that has begun has moved its row on, and a row that is not processed was answered by nobody. `RoutesExclude` follows from the second. |
| | `OrderKept` | `OInv`: the tasks of a poller are in the order of their ids (`Ordered`), nothing beyond the committed offset has a row (`Ahead`), waiting tasks are behind it (`Behind`), and what follows a waiting task has not begun (`Pending`). The offset is what orders the rest: a batch given up after an exception is fetched again from it, and what it had done is recognised by its rows. |
| | `NothingStranded` (one bot or no queue; the poller goes on) | `SInv`: an `ingested` row is in the poller's hand, in a task, in a job, or was tried. |
| `LlmGuardProofs` | `Typing`, `ProbeAlwaysOwned`, `LateOutcomesAreIgnored`, `ThreadsAreBounded` | For the breaker, `BreakerInv`: a call between legs has nothing to report, a closed breaker has no probe out, a live probe is of the breaker's present generation. For the bulkhead, `SpareInv`: the thread a wrapper is about to start holds no permit yet, so that every submit adds one; with it the counter is the number of permits and of wrappers about to submit. |
| | `Refinement` | `RefineInv` adds `GenBound` to `BreakerInv`: no attempt is of a generation to come. Without it an attempt might become current by waiting, and a breaker that closes again would trust calls it never admitted. `Shape` reduces the step relation to what a breaker can notice (a report, an admission, a cooldown), and a report is `Probed`, `Ends`, `TimesOut` or, when it is late, nothing. |
| `ReactTurnProofs` | `Typing`, `ExactReplay`, `LeftForGood` | `ReplayInv`: a call that mutated is a call of some message, and one that stores its result did so once; the stored result, and nothing else, is what stops its re-execution. `LeftInv`: no run is about a message in `left`, and a checkpoint that still is has expired. |
| | `Confirmed` (nothing that asks follows a guarded call) | `PosInv`: a run has taken as many answers as there are asking calls before its place (`Rank`), which the early return of a guarded call would break if a question were still to come. `GrantInv`: a yes among the answers that a run, or the checkpoint, has still to hand out was given to the question of the call that will take it (`Covered`). |
| | `Refinement` (the same premise) | The three invariants together, and `OpenInv`: the open question is that of the pause, about a call that was requested, in a message that was not put aside. |

Premises. `ThreadOrder` needs one enqueuer, `HeldForQuietHours` windows of every
day, `Confirmed` and the refinement of `Confirmation` that in a message of the
model nothing that asks follows a guarded call (`GuardedLast`). `NothingStranded`
needs updates that share no key of the queue (`OneKey`: one bot, or no queue) and
a poller without faults (`CalmSpec`, the specification without `IterationError`
and `Crash`; the job runner may fail as it likes). Without them the statements
fail, as section 5 says, and the premise is written in the theorem. `PromisesKept`
and `FiredStaysOver` speak of reminders the chat has not edited, and
`NoSecondAnswer` of updates that did not become jobs: that is part of the
properties themselves, which the runs check in the same words.

Only model-checked: the liveness properties (`EveryJobSettles`, `RequestsServed`,
`TurnsEnd`, `EveryRowSettles`, `EveryReminderFires`, `EveryUpdateIngested`,
`EveryCallReturns`, `PermitsComeBack`), since fairness and `ENABLED` are outside
the prover's reach. Every safety property of a passing run is a theorem.

## 5. Where the code and its documents disagree

Four are runs that TLC refutes, listed under `findings`:

* `barrier_self_delete`: the confirmed `delete_my_account` waits for the advisory
  lock its own turn holds on another connection. The unit test runs on SQLite,
  where the lock does nothing.
* `reminder_lost_edit`: an edit that read the row before the worker fired it leaves
  a fired row with a trigger. The tool answered that it was updated; it never rings.
* `ingest_two_bots`: `message_jobs` is unique by channel and update id, without the
  bot. Of two bots' updates with one number, the second is taken for a duplicate.
* `react_chain`: "delete X and Y" in one message. The answers of earlier executions
  are handed to `interrupt()` by position, but `cancel_reminder`, `cancel_task` and
  `delete_task` return before `interrupt()` when their operation is committed
  (`sreda/runtime/react_loop.py:3254`, `:3391`) or their target is gone. On the
  second execution the deletion of X therefore takes no answer, and Y's question
  is answered with the yes that was given for X, whatever the user said to it. The
  tests of chains answer yes both times. The theorem `Confirmed` says that there is
  no other way: without such a pair in a message, no yes goes astray.

Others were met while modelling and bound what the passing runs may claim:

* `claim_next_job` says of a row that changed before it was locked that its "new
  state will exclude it from being claimed anyway" (`message_queue.py:206`). Of that
  row this is true. But a heartbeat that renews a lease which had run out
  (`extend_lease` does not look at it, `:319`) between the snapshot and the row lock
  makes the claim pass over it and take the next row of the thread, whose NOT EXISTS
  is not evaluated again: two jobs of a thread are active, and the younger one has
  overtaken, against the header of `sreda/db/models/message_jobs.py`. A lease revived
  after the next job of its thread was claimed gives the same pair. Hence `revived`.
* Two processes that enqueue for one thread can commit in another order than their
  `enqueued_at`. Hence one enqueuer.
* A failover claim does not compare `attempt` with `MAX_ATTEMPTS`
  (`message_queue.py:58`): a job that kills its worker is claimed for ever. Hence
  finitely many crashes.
* The admin's deletion waits synchronously on the web server's event loop
  (`sreda/admin/routes.py:1412`); if the turn it waits for runs on that loop, as a
  MAX turn does, neither goes on, although `tenant_lifecycle.py:313` says that
  the deletion waits for the turn. The instance of `barrier` has it; hence `Stuck`.
* The drain of a deletion does not stop a worker that has read the row: it sends,
  defers or mutes it and writes the outcome by primary key over the drained one
  (`sreda/workers/outbox_delivery.py:120`, `:347`, `:623`). Hence the exception of
  `Delivery` for rows that were dropped.
* A wrapped confirmation (`react_loop.py:655-673`) looks no operation up. When a
  later question of the same message makes the node run again, it gets its old yes
  and invokes the inner tool again: `clear_bought_shopping` and `clear_menu` act on
  what was added meanwhile. Plain writes of the tool families do the same without a
  question. Hence `Recorded` in `AppliedOnce`, and no promise of one mutation per
  yes in `Confirmation`.
* `_release_claim` writes by primary key (`sreda/workers/outbox_delivery.py:317`),
  without the token that line 154 insists on: a worker held up past its lease also
  overwrites the row of its successor. Hence the premise `~ stalled`.
* `snooze` takes no notice of the status (`housewife_reminders.py:761`), so the
  button of an old message revives a cancelled reminder. The model has it, and
  counts it as the user asking again.
* A window with weekdays that crosses midnight is judged by the weekday of the
  current hour (`delivery_policy.py:115-135`): its second half belongs to the next
  day's entry. Hence daily windows, the only ones `/quiet` sets.
* `/quiet off` does not touch rows that were deferred (`runtime/handlers.py:476`).
  `HeldOnlyWhileQuiet` therefore speaks of the windows a row was deferred by.
* Equal hours are accepted by the profile (`sreda/db/models/user_profile.py:71`)
  and never active (`delivery_policy.py:111`).
* An update whose row is committed and whose poller dies before the task begins is
  redelivered, found to be a duplicate and not run again
  (`telegram_inbound.py:1169`), while `_save_offset` calls that crash safe
  (`telegram_long_poll.py:263`). `NoneStranded` therefore is in no passing run; it
  holds while the poller has no fault, which `NothingStranded` proves.
* A turn that was skipped on purpose leaves `processing_started`, which the
  dispatcher reads as a crash (`message_dispatcher.py:373`) and retries to
  dead letter.
* A second confirmation of one message keeps the checkpoint written before the
  first, and so its age: the five minutes of `_PENDING_TTL_SECONDS` run from the
  first question (`react_loop.py:5284`). The model has it (`Pause`).
* A fault between the model's message and its question leaves a thread at the
  tools node without a question, and the next text, whatever it is, is handed to
  the first `interrupt()` (`react_loop.py:5331`). Hence `blind` in
  `OnlyWhenGranted`.
* The quota stored with a period for audit (`sreda/db/models/usage_ledger.py:12`)
  is the one enforced (`services/usage_ledger.py:204`).

## 6. What is not modelled

`components` in `PROJECT.json` gives the reason for each. In short: text, schemas,
prompts and validators are pure functions; HTTP clients are I/O, whose outcomes are
choices in the modules that call them; monitoring only reads; lists, menus and
recipes are single-row writes under the tenant's lock. Of the modelled parts the
following is abstracted: daylight saving time, the text of messages, what a turn
says, the Telegram send that `runtime/graph.py` makes right after it has written the
row (from line 427 on: a row it settles never reaches a worker, and one whose send
took effect but was reported as failed is sent again by the worker, a duplicate that
the model counts only for rows that edit an acknowledgement), a COMMIT that is
decided after the fallback's query, the ingest through webhooks, the development
mode without a messenger client, the encryption and history of checkpoints, and the
race of two claims of one operation id, which one thread of conversation does not
have.

The repository has 135,000 lines in 465 files, most of them schemas of tools,
prompts, formatting, HTTP routes and validators without state that two steps
share; the lines that `map` names are a few per cent of it and hold the protocols
of section 1.2. Parts with state of their own that are still left out are
`planner_recovery`, `usage_quotas`, `channel_linking`, `billing`,
`signup_and_onboarding` and the ingest of MAX; each has its reason or its place
in the plan under `components`.

Exposures that no property here covers, beside those under `hazards`: the order
between a queued job and the inline fallback of the next message
(`services/telegram_inbound.py:1352`, no document promises one); a welcome sent
and not yet marked when the process dies (`:1147`); a reply Telegram refused,
after which the inbound row still becomes processed (`:670`); a spawned task that
only the event loop refers to (`:1367`); a claimed skill job without a lease
(`workers/skill_platform_processor.py:79`, no skill with jobs is registered); and
an execution without a lease that the planner's scanner takes for dead
(`runtime/planner/recovery_scanner.py:110`, nothing calls the scanner yet).

## 7. The plan

Done: queue and dispatcher, barrier, outbox, reminders, policy, ingest, model
guard, ReAct turn, in this order, the most consequential first, each with its
proofs, and five abstract specifications with their refinements.

Next, in order:

1. `UsageLedger`: consume in all periods or in none, refunds across a change of
   period.
2. Channel linking: two tokens of two users for one MAX account
   (`services/channel_linking.py:370`).
3. `PlannerRecovery`: the step ledger and the scanner beside a slow executor.
4. MAX as a second channel of the ingest.

Compositions worth having once these exist: `Reminders` with `OutboxDelivery` (a
promise is kept up to the recipient's phone), and the jobs of `TelegramIngest` as
instances of `JobLifecycle`, which would tie the two modules by a theorem instead
of the assumption section 1.3 names.

Proofs to add: an abstract reminder for `Reminders` with its refinement. New modules
with theorems need room: the proofs of `DeliveryPolicy`, the smallest, could move
into its own module.
