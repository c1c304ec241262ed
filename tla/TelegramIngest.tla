---------------------------- MODULE TelegramIngest ----------------------------
(***************************************************************************)
(* From Telegram to a turn: the long-poll workers, one process per bot     *)
(* (workers/telegram_long_poll.py), the durable ingest of an update        *)
(* (services/telegram_inbound.py, services/inbound_messages.py) and what   *)
(* runs its turn: a task of the poller's process, or a job of the message  *)
(* queue.  One user writes to all the bots; his turns exclude one another  *)
(* (module TenantBarrier), and a job is worked on by one consumer at a     *)
(* time (module MessageQueue).                                             *)
(*                                                                         *)
(* A bot numbers its updates from 0.                                       *)
(***************************************************************************)
EXTENDS Naturals, Sequences

CONSTANTS Bots,
          Ids,            \* update ids
          QueueModes,     \* what is_queue_enabled_for may say of the user's tenant;
                          \* a restart with another allowlist changes it
          MAX_ATTEMPTS,
          Runner,         \* the job runner
          None

ASSUME IngestAssumption ==
    /\ Ids \subseteq Nat
    /\ QueueModes \subseteq BOOLEAN
    /\ MAX_ATTEMPTS \in Nat \ {0}
    /\ Runner \notin Bots
    /\ None \notin Bots \X Ids /\ None \notin (Bots \cup {Runner}) \X (Bots \X Ids)

Updates == Bots \X Ids

VARIABLES
    sent,       \* how many updates Telegram has of a bot
    confirmed,  \* the offset of the last getUpdates; Telegram forgets what is below
    offset,     \* poller_offsets.last_update_id + 1
    upto,       \* end of the batch the poller works on
    pc,         \* where the poller is in run_forever and handle_telegram_update
    fresh,      \* welcome_just_sent
    welcomed,   \* is_welcome_sent
    inbound,    \* inbound_messages.processing_status, "none": no row
    tasks,      \* the turns that wait in a poller's process
    turn,       \* the turn that has the tenant's lock: whose process, which update
    job,        \* message_jobs, by external_update_id: the update it carries, or None
    jobStatus,
    attempt,
    dropped,    \* updates of a deleted tenant, a blocked signup, an admin login
    tried,      \* updates whose task got its turn
    completed   \* how often the turn of an update came to its end

pollVars == <<offset, upto, pc, fresh>>
jobVars == <<job, jobStatus, attempt>>
vars == <<sent, confirmed, pollVars, welcomed, inbound, tasks, turn, jobVars, dropped, tried, completed>>

\* The update the poller of b has in hand.
Current(b) == <<b, offset[b]>>

\* The process, a poller's or the job runner, runs a turn.
Running(by) == \E x \in Updates : turn = <<by, x>>

\* The update never became a job: if it has a turn, it is a task's.
Jobless(x) == \A u \in Ids : job[u] # x

-----------------------------------------------------------------------------
Init ==
    /\ sent = [b \in Bots |-> 0]
    /\ confirmed = [b \in Bots |-> 0]
    /\ offset = [b \in Bots |-> 0]
    /\ upto = [b \in Bots |-> 0]
    /\ pc = [b \in Bots |-> "idle"]
    /\ fresh = [b \in Bots |-> FALSE]
    /\ welcomed \in BOOLEAN
    /\ inbound = [x \in Updates |-> "none"]
    /\ tasks = [b \in Bots |-> <<>>]
    /\ turn = None
    /\ job = [u \in Ids |-> None]
    /\ jobStatus = [u \in Ids |-> "none"]
    /\ attempt = [u \in Ids |-> 0]
    /\ dropped = {}
    /\ tried = {}
    /\ completed = [x \in Updates |-> 0]

UserWrites(b) ==
    /\ sent[b] \in Ids
    /\ sent' = [sent EXCEPT ![b] = @ + 1]
    /\ UNCHANGED <<confirmed, pollVars, welcomed, inbound, tasks, turn, jobVars, dropped, tried, completed>>

-----------------------------------------------------------------------------
(***************************************************************************)
(* The poller                                                              *)
(***************************************************************************)
Goto(b, l) == pc' = [pc EXCEPT ![b] = l]

\* getUpdates from the offset on, which confirms everything below it.
FetchUpdates(b) ==
    /\ pc[b] = "idle"
    /\ sent[b] > offset[b]
    /\ confirmed' = [confirmed EXCEPT ![b] = offset[b]]
    /\ upto' = [upto EXCEPT ![b] = sent[b]]
    /\ Goto(b, "batch")
    /\ UNCHANGED <<sent, offset, fresh, welcomed, inbound, tasks, turn, jobVars, dropped, tried, completed>>

\* handle_telegram_update returns None: nothing is persisted.
Drop(b) ==
    /\ pc[b] = "batch"
    /\ dropped' = dropped \cup {Current(b)}
    /\ Goto(b, "handled")
    /\ UNCHANGED <<sent, confirmed, offset, upto, fresh, welcomed, inbound, tasks, turn, jobVars, tried, completed>>

\* A user who has not been welcomed is sent the welcome; if that fails, the
\* next update tries again.
Greet(b, ok) ==
    /\ pc[b] = "batch"
    /\ fresh' = [fresh EXCEPT ![b] = ~ welcomed /\ ok]
    /\ welcomed' = (welcomed \/ ok)
    /\ Goto(b, "greeted")
    /\ UNCHANGED <<sent, confirmed, offset, upto, inbound, tasks, turn, jobVars, dropped, tried, completed>>

\* Mutant: a duplicate is not recognised.
PersistAgain(b) ==
    /\ pc[b] = "greeted"
    /\ inbound' = [inbound EXCEPT ![Current(b)] = "ingested"]
    /\ Goto(b, "persisted")
    /\ UNCHANGED <<sent, confirmed, offset, upto, fresh, welcomed, tasks, turn, jobVars, dropped, tried, completed>>

\* Mutant: a duplicate raises.
PersistOnce(b) ==
    /\ pc[b] = "greeted"
    /\ inbound[Current(b)] = "none"
    /\ inbound' = [inbound EXCEPT ![Current(b)] = "ingested"]
    /\ Goto(b, "persisted")
    /\ UNCHANGED <<sent, confirmed, offset, upto, fresh, welcomed, tasks, turn, jobVars, dropped, tried, completed>>

\* persist_telegram_inbound_event; a duplicate is a no-op.
Persist(b) ==
    /\ pc[b] = "greeted"
    /\ IF inbound[Current(b)] = "none"
       THEN /\ inbound' = [inbound EXCEPT ![Current(b)] = "ingested"]
            /\ Goto(b, "persisted")
       ELSE /\ UNCHANGED inbound
            /\ Goto(b, "handled")
    /\ UNCHANGED <<sent, confirmed, offset, upto, fresh, welcomed, tasks, turn, jobVars, dropped, tried, completed>>

\* The welcome was the answer, or the tenant is blocked or not approved.
Ignore(b) ==
    /\ pc[b] = "persisted"
    /\ inbound' = [inbound EXCEPT ![Current(b)] = "ignored"]
    /\ Goto(b, "handled")
    /\ UNCHANGED <<sent, confirmed, offset, upto, fresh, welcomed, tasks, turn, jobVars, dropped, tried, completed>>

\* Mutant: the last task comes first.
SpawnFirst(b) ==
    /\ tasks' = [tasks EXCEPT ![b] = <<Current(b)>> \o @]
    /\ UNCHANGED jobVars

Spawn(b) ==
    /\ tasks' = [tasks EXCEPT ![b] = Append(@, Current(b))]
    /\ UNCHANGED jobVars

\* The turn is a task of this process.
DispatchInline(b) ==
    /\ pc[b] = "persisted"
    /\ ~ fresh[b] /\ FALSE \in QueueModes
    /\ Spawn(b)
    /\ Goto(b, "handled")
    /\ UNCHANGED <<sent, confirmed, offset, upto, fresh, welcomed, inbound, turn, dropped, tried, completed>>

\* enqueue_message.  A job of the same key, whatever its bot, is a duplicate
\* and acknowledged.  The call may raise, with the insert committed or not.
EnqueueMessage(b, landed) ==
    /\ pc[b] = "persisted"
    /\ ~ fresh[b] /\ TRUE \in QueueModes
    /\ IF landed /\ job[offset[b]] = None
       THEN /\ job' = [job EXCEPT ![offset[b]] = Current(b)]
            /\ jobStatus' = [jobStatus EXCEPT ![offset[b]] = "pending"]
       ELSE UNCHANGED <<job, jobStatus>>
    /\ \E l \in (IF landed THEN {"handled", "raised"} ELSE {"raised"}) : Goto(b, l)
    /\ UNCHANGED <<sent, confirmed, offset, upto, fresh, welcomed, inbound, tasks, turn, attempt, dropped, tried, completed>>

\* Mutant: the row is not looked for before the turn is run inline.
FallBackUnchecked(b) ==
    /\ pc[b] = "raised"
    /\ Spawn(b)
    /\ Goto(b, "handled")
    /\ UNCHANGED <<sent, confirmed, offset, upto, fresh, welcomed, inbound, turn, dropped, tried, completed>>

\* After an exception a row of the key is taken for this update's; without
\* one the turn is run inline.  The failed transaction is over by then.
FallBack(b) ==
    /\ pc[b] = "raised"
    /\ IF job[offset[b]] = None THEN Spawn(b) ELSE UNCHANGED <<tasks, jobVars>>
    /\ Goto(b, "handled")
    /\ UNCHANGED <<sent, confirmed, offset, upto, fresh, welcomed, inbound, turn, dropped, tried, completed>>

\* Mutant: the offset is saved before the ingest has committed.
SaveOffsetEarly(b) ==
    /\ pc[b] \in {"batch", "greeted", "handled"}
    /\ offset' = [offset EXCEPT ![b] = @ + 1]
    /\ Goto(b, IF offset[b] + 1 < upto[b] THEN "batch" ELSE "idle")
    /\ UNCHANGED <<sent, confirmed, upto, fresh, welcomed, inbound, tasks, turn, jobVars, dropped, tried, completed>>

\* _save_offset, then the next update of the batch.
SaveOffset(b) ==
    /\ pc[b] = "handled"
    /\ offset' = [offset EXCEPT ![b] = @ + 1]
    /\ Goto(b, IF offset[b] + 1 < upto[b] THEN "batch" ELSE "idle")
    /\ UNCHANGED <<sent, confirmed, upto, fresh, welcomed, inbound, tasks, turn, jobVars, dropped, tried, completed>>

\* An exception anywhere: the batch is given up, to be fetched again.
IterationError(b) ==
    /\ pc[b] # "idle"
    /\ Goto(b, "idle")
    /\ UNCHANGED <<sent, confirmed, offset, upto, fresh, welcomed, inbound, tasks, turn, jobVars, dropped, tried, completed>>

\* The poller's process dies with the tasks it spawned, and is started again.
Crash(b) ==
    /\ pc[b] # "idle" \/ tasks[b] # <<>> \/ Running(b)
    /\ Goto(b, "idle")
    /\ tasks' = [tasks EXCEPT ![b] = <<>>]
    /\ turn' = IF Running(b) THEN None ELSE turn
    /\ UNCHANGED <<sent, confirmed, offset, upto, fresh, welcomed, inbound, jobVars, dropped, tried, completed>>

-----------------------------------------------------------------------------
(***************************************************************************)
(* The turn, _process_approved_turn, of a task or of a job, under the      *)
(* tenant's lock.  It catches every exception; its status tells the end.   *)
(***************************************************************************)
BeginTurn(x, by) ==
    /\ turn = None
    /\ turn' = <<by, x>>
    /\ inbound' = [inbound EXCEPT ![x] = "processing_started"]

\* Not begun: the database did not give the lock or failed under it, or the
\* tenant has been deleted.
RefuseTurn(x, by) ==
    /\ ~ Running(by)
    /\ \/ UNCHANGED inbound
       \/ turn = None /\ inbound' = [inbound EXCEPT ![x] = "ignored"]
    /\ UNCHANGED turn

\* Done, skipped on purpose (voice refused, quota), or left by an exception.
EndTurn(x, by, end) ==
    /\ turn = <<by, x>>
    /\ turn' = None
    /\ inbound' = [inbound EXCEPT ![x] = end]
    /\ completed' = [completed EXCEPT ![x] = IF end = "processed" THEN @ + 1 ELSE @]

\* The tasks of a process get the lock in the order they asked for it.
NextTask(b) ==
    /\ tasks[b] # <<>>
    /\ tasks' = [tasks EXCEPT ![b] = Tail(@)]
    /\ tried' = tried \cup {Head(tasks[b])}

StartTask(b) ==
    /\ NextTask(b)
    /\ BeginTurn(Head(tasks[b]), b)
    /\ UNCHANGED <<sent, confirmed, pollVars, welcomed, jobVars, dropped, completed>>

RefuseTask(b) ==
    /\ NextTask(b)
    /\ RefuseTurn(Head(tasks[b]), b)
    /\ UNCHANGED <<sent, confirmed, pollVars, welcomed, jobVars, dropped, completed>>

EndTask(b, x, end) ==
    /\ EndTurn(x, b, end)
    /\ UNCHANGED <<sent, confirmed, pollVars, welcomed, tasks, jobVars, dropped, tried>>

-----------------------------------------------------------------------------
(***************************************************************************)
(* The queue's consumer, in the job runner                                 *)
(***************************************************************************)
\* Mutant: only the first attempt is counted.
ClaimOnce(u, to) ==
    /\ jobStatus[u] = "pending"
    /\ jobStatus' = [jobStatus EXCEPT ![u] = to]
    /\ attempt' = [attempt EXCEPT ![u] = 1]

\* Claimed: the attempt is counted, whatever comes of it.
Claim(u, to) ==
    /\ jobStatus[u] = "pending"
    /\ jobStatus' = [jobStatus EXCEPT ![u] = to]
    /\ attempt' = [attempt EXCEPT ![u] = @ + 1]

StartJob(u) ==
    /\ Claim(u, "processing")
    /\ BeginTurn(job[u], Runner)
    /\ UNCHANGED <<sent, confirmed, pollVars, welcomed, tasks, job, dropped, tried, completed>>

RefuseJob(u) ==
    /\ Claim(u, "ended")
    /\ RefuseTurn(job[u], Runner)
    /\ UNCHANGED <<sent, confirmed, pollVars, welcomed, tasks, job, dropped, tried, completed>>

\* The job of a tenant that was deleted is closed without a turn.
CloseJob(u) ==
    /\ Claim(u, "done")
    /\ dropped' = dropped \cup {job[u]}
    /\ UNCHANGED <<sent, confirmed, pollVars, welcomed, inbound, tasks, turn, job, tried, completed>>

EndJobTurn(u, end) ==
    /\ jobStatus[u] = "processing"
    /\ EndTurn(job[u], Runner, end)
    /\ jobStatus' = [jobStatus EXCEPT ![u] = "ended"]
    /\ UNCHANGED <<sent, confirmed, pollVars, welcomed, tasks, job, attempt, dropped, tried>>

AfterFailure(n) == IF n >= MAX_ATTEMPTS THEN "dead_letter" ELSE "pending"

\* The dispatcher fails before it gets to the turn.
FailJob(u) ==
    /\ Claim(u, AfterFailure(attempt[u] + 1))
    /\ UNCHANGED <<sent, confirmed, pollVars, welcomed, inbound, tasks, turn, job, dropped, tried, completed>>

\* The dispatcher reads the status back; anything but "processed" is a
\* failure, to be tried again.
SettleJob(u) ==
    /\ jobStatus[u] = "ended"
    /\ jobStatus' = [jobStatus EXCEPT ![u] =
                        IF inbound[job[u]] = "processed" THEN "done" ELSE AfterFailure(attempt[u])]
    /\ UNCHANGED <<sent, confirmed, pollVars, welcomed, inbound, tasks, turn, job, attempt, dropped, tried, completed>>

\* mark_done raises: the attempt has failed, whatever the turn did.
MarkDoneFails(u) ==
    /\ jobStatus[u] = "ended" /\ inbound[job[u]] = "processed"
    /\ jobStatus' = [jobStatus EXCEPT ![u] = AfterFailure(attempt[u])]
    /\ UNCHANGED <<sent, confirmed, pollVars, welcomed, inbound, tasks, turn, job, attempt, dropped, tried, completed>>

\* The job runner dies; the lease runs out and another attempt follows.
JobCrash(u) ==
    /\ jobStatus[u] \in {"processing", "ended"}
    /\ jobStatus' = [jobStatus EXCEPT ![u] = "pending"]
    /\ turn' = IF turn = <<Runner, job[u]>> THEN None ELSE turn
    /\ UNCHANGED <<sent, confirmed, pollVars, welcomed, inbound, tasks, job, attempt, dropped, tried, completed>>

-----------------------------------------------------------------------------
Ends == {"processed", "ignored", "processing_started"}

Poll(b) ==
    \/ FetchUpdates(b) \/ Drop(b) \/ Persist(b) \/ Ignore(b) \/ DispatchInline(b)
    \/ FallBack(b) \/ SaveOffset(b)
    \/ \E ok \in BOOLEAN : Greet(b, ok)
    \/ \E landed \in BOOLEAN : EnqueueMessage(b, landed)

Work(b) ==
    \/ StartTask(b) \/ RefuseTask(b)
    \/ \E x \in Updates, end \in Ends : EndTask(b, x, end)

Consume(u) ==
    \/ StartJob(u) \/ RefuseJob(u) \/ CloseJob(u) \/ FailJob(u) \/ SettleJob(u)
    \/ \E end \in Ends : EndJobTurn(u, end)

Fail ==
    \/ \E b \in Bots : IterationError(b) \/ Crash(b)
    \/ \E u \in Ids : MarkDoneFails(u) \/ JobCrash(u)

Next ==
    \/ \E b \in Bots : UserWrites(b) \/ Poll(b) \/ Work(b)
    \/ \E u \in Ids : Consume(u)
    \/ Fail

Spec == Init /\ [][Next]_vars

-----------------------------------------------------------------------------
(***************************************************************************)
(* Properties                                                              *)
(***************************************************************************)
\* Type invariant.
TypeOK ==
    /\ sent \in [Bots -> Nat] /\ confirmed \in [Bots -> Nat]
    /\ offset \in [Bots -> Nat] /\ upto \in [Bots -> Nat]
    /\ pc \in [Bots -> {"idle", "batch", "greeted", "persisted", "raised", "handled"}]
    /\ fresh \in [Bots -> BOOLEAN] /\ welcomed \in BOOLEAN
    /\ inbound \in [Updates -> {"none", "ingested", "processing_started", "processed", "ignored"}]
    /\ tasks \in [Bots -> Seq(Updates)]
    /\ turn \in {None} \cup ((Bots \cup {Runner}) \X Updates)
    /\ job \in [Ids -> Updates \cup {None}]
    /\ jobStatus \in [Ids -> {"none", "pending", "processing", "ended", "done", "dead_letter"}]
    /\ attempt \in [Ids -> Nat]
    /\ dropped \subseteq Updates /\ tried \subseteq Updates
    /\ completed \in [Updates -> Nat]

\* Durable ingest before the offset: what Telegram was told to forget has
\* been persisted, or dropped on purpose, whatever failed in between.
ConfirmedIsDurable ==
    \A b \in Bots, u \in Ids :
        u < confirmed[b] => inbound[<<b, u>>] # "none" \/ <<b, u>> \in dropped

\* A redelivered update is not answered again: if it is not a job (jobs are
\* answered at least once) its turn comes to its end at most once.
AnsweredOnce == \A x \in Updates : Jobless(x) => completed[x] <= 1

\* A message takes one way: no update has both a job and a task of the
\* fallback, however the enqueue failed.  (Its insert has been committed or
\* rolled back by the time the fallback looks for the row; one that is decided
\* only after the look is left out, and would run the turn twice.)
OneRoute ==
    \A u \in Ids, b \in Bots : job[u] # None =>
        /\ \A i \in DOMAIN tasks[b] : tasks[b][i] # job[u]
        /\ turn # <<b, job[u]>>

\* The turns a poller's process runs for a user begin in the order of his
\* messages.
TurnsInOrder ==
    [][\A b \in Bots, u \in Ids, v \in Ids :
        u < v /\ turn' = <<b, <<b, u>>>> /\ turn' # turn /\ Jobless(<<b, v>>) =>
            inbound[<<b, v>>] \notin {"processing_started", "processed"}]_vars

\* A crash between the commit of the ingest and the commit of the offset is
\* safe (_save_offset): an update with a row has been dealt with, or is still
\* going to be.
NoneStranded ==
    \A x \in Updates :
        inbound[x] = "ingested" =>
            \/ pc[x[1]] \in {"persisted", "raised"} /\ Current(x[1]) = x
            \/ \E i \in DOMAIN tasks[x[1]] : tasks[x[1]][i] = x
            \/ \E u \in Ids : job[u] = x
            \/ x \in tried
=============================================================================
