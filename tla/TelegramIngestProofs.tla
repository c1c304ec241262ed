------------------------- MODULE TelegramIngestProofs -------------------------
(***************************************************************************)
(* Proofs about TelegramIngest, for every number of bots and updates.      *)
(***************************************************************************)
EXTENDS TelegramIngest, TLAPS

-----------------------------------------------------------------------------
(***************************************************************************)
(* Type correctness, with the bounds that make Current(b) an update        *)
(***************************************************************************)
\* Every number below sent[b] is an id, and a poller at work is within its
\* batch, which Telegram has.
Bounds ==
    /\ \A b \in Bots : \A k \in Nat : k < sent[b] => k \in Ids
    /\ \A b \in Bots : upto[b] <= sent[b]
    /\ \A b \in Bots : pc[b] # "idle" => offset[b] < upto[b]

JobsCarryUpdates == \A u \in Ids : jobStatus[u] # "none" => job[u] \in Updates

TInv == TypeOK /\ Bounds /\ JobsCarryUpdates

\* A poller at work has an update in hand.
LEMMA CurrentIsUpdate ==
    ASSUME TInv, NEW b \in Bots, pc[b] # "idle"
    PROVE  Current(b) \in Updates /\ offset[b] \in Ids
<1>1. offset[b] \in Nat /\ upto[b] \in Nat /\ sent[b] \in Nat
  BY DEF TInv, TypeOK
<1>2. offset[b] < sent[b]
  BY <1>1 DEF TInv, Bounds
<1>3. offset[b] \in Ids
  BY <1>1, <1>2 DEF TInv, Bounds
<1> QED BY <1>3 DEF Current, Updates

\* A step of the poller that moves only its program counter keeps the bounds.
LEMMA BoundsKept ==
    ASSUME TInv, UNCHANGED <<sent, offset, upto>>, NEW b \in Bots, NEW l,
           pc[b] # "idle" \/ l = "idle", pc' = [pc EXCEPT ![b] = l]
    PROVE  Bounds'
<1>1. \A c \in Bots : pc'[c] # "idle" => pc[c] # "idle"
  BY DEF TInv, TypeOK
<1> QED BY <1>1 DEF TInv, Bounds

\* So does a step that leaves the pollers alone.
LEMMA BoundsUnchanged ==
    ASSUME TInv, UNCHANGED <<sent, offset, upto, pc>>
    PROVE  Bounds'
BY DEF TInv, Bounds

\* The poller's loop.
LEMMA TypePoll == ASSUME TInv, NEW b \in Bots, Poll(b) PROVE TInv'
<1>0. pc[b] # "idle" => Current(b) \in Updates /\ offset[b] \in Ids
  BY CurrentIsUpdate
<1>1. CASE FetchUpdates(b)
  <2>1. TypeOK'
    BY <1>1 DEF FetchUpdates, Goto, TInv, TypeOK, jobVars
  <2>2. offset[b] \in Nat /\ sent[b] \in Nat
    BY DEF TInv, TypeOK
  <2>3. /\ UNCHANGED <<sent, offset>> /\ upto' = [upto EXCEPT ![b] = sent[b]]
        /\ pc' = [pc EXCEPT ![b] = "batch"] /\ sent[b] > offset[b]
    BY <1>1 DEF FetchUpdates, Goto
  <2>4. Bounds'
    BY <2>2, <2>3 DEF TInv, Bounds, TypeOK
  <2> QED BY <1>1, <2>1, <2>4 DEF FetchUpdates, TInv, JobsCarryUpdates, jobVars
<1>2. CASE Drop(b)
  <2>1. TypeOK'
    BY <1>0, <1>2 DEF Drop, Goto, TInv, TypeOK, jobVars
  <2>2. Bounds'
    BY <1>2, BoundsKept DEF Drop, Goto
  <2> QED BY <1>2, <2>1, <2>2 DEF Drop, TInv, JobsCarryUpdates, jobVars
<1>3. CASE Persist(b)
  <2>1. TypeOK'
    BY <1>0, <1>3 DEF Persist, Goto, TInv, TypeOK, jobVars
  <2>2. Bounds'
    BY <1>3, BoundsKept DEF Persist, Goto
  <2> QED BY <1>3, <2>1, <2>2 DEF Persist, TInv, JobsCarryUpdates, jobVars
<1>4. CASE Ignore(b)
  <2>1. TypeOK'
    BY <1>0, <1>4 DEF Ignore, Goto, TInv, TypeOK, jobVars
  <2>2. Bounds'
    BY <1>4, BoundsKept DEF Ignore, Goto
  <2> QED BY <1>4, <2>1, <2>2 DEF Ignore, TInv, JobsCarryUpdates, jobVars
<1>5. CASE DispatchInline(b)
  <2>1. TypeOK'
    BY <1>0, <1>5 DEF DispatchInline, Spawn, Goto, TInv, TypeOK, jobVars
  <2>2. Bounds'
    BY <1>5, BoundsKept DEF DispatchInline, Goto
  <2> QED BY <1>5, <2>1, <2>2 DEF DispatchInline, Spawn, TInv, JobsCarryUpdates, jobVars
<1>6. CASE FallBack(b)
  <2>1. tasks' \in [Bots -> Seq(Updates)] /\ UNCHANGED jobVars
    <3>1. CASE Spawn(b)
      BY <1>0, <1>6, <3>1 DEF FallBack, Spawn, TInv, TypeOK
    <3>2. CASE UNCHANGED <<tasks, jobVars>>
      BY <3>2 DEF TInv, TypeOK
    <3> QED BY <1>6, <3>1, <3>2 DEF FallBack
  <2>2. TypeOK'
    BY <1>6, <2>1 DEF FallBack, Goto, TInv, TypeOK, jobVars
  <2>3. Bounds'
    BY <1>6, BoundsKept DEF FallBack, Goto
  <2> QED BY <2>1, <2>2, <2>3 DEF TInv, JobsCarryUpdates, jobVars
<1>7. CASE SaveOffset(b)
  <2>1. TypeOK'
    BY <1>7 DEF SaveOffset, Goto, TInv, TypeOK, jobVars
  <2>2. /\ UNCHANGED <<sent, upto>> /\ offset' = [offset EXCEPT ![b] = offset[b] + 1]
        /\ pc' = [pc EXCEPT ![b] = IF offset[b] + 1 < upto[b] THEN "batch" ELSE "idle"]
    BY <1>7 DEF SaveOffset, Goto
  <2>3. Bounds'
    BY <2>2 DEF TInv, Bounds, TypeOK
  <2> QED BY <1>7, <2>1, <2>3 DEF SaveOffset, TInv, JobsCarryUpdates, jobVars
<1>8. ASSUME NEW ok \in BOOLEAN, Greet(b, ok) PROVE TInv'
  <2>1. TypeOK'
    BY <1>8 DEF Greet, Goto, TInv, TypeOK, jobVars
  <2>2. Bounds'
    BY <1>8, BoundsKept DEF Greet, Goto
  <2> QED BY <1>8, <2>1, <2>2 DEF Greet, TInv, JobsCarryUpdates, jobVars
<1>9. ASSUME NEW landed \in BOOLEAN, EnqueueMessage(b, landed) PROVE TInv'
  <2>1. PICK l \in {"handled", "raised"} : pc' = [pc EXCEPT ![b] = l]
    BY <1>9 DEF EnqueueMessage, Goto
  <2>2. pc[b] # "idle" /\ UNCHANGED <<sent, offset, upto>>
    BY <1>9 DEF EnqueueMessage
  <2>3. \/ UNCHANGED <<job, jobStatus>>
        \/ /\ job' = [job EXCEPT ![offset[b]] = Current(b)]
           /\ jobStatus' = [jobStatus EXCEPT ![offset[b]] = "pending"]
    BY <1>9 DEF EnqueueMessage
  <2>4. TypeOK'
    BY <1>0, <1>9, <2>1, <2>2, <2>3 DEF EnqueueMessage, TInv, TypeOK
  <2>5. JobsCarryUpdates'
    BY <1>0, <2>2, <2>3 DEF TInv, TypeOK, JobsCarryUpdates
  <2>6. Bounds'
    BY <2>1, <2>2, BoundsKept
  <2> QED BY <2>4, <2>5, <2>6 DEF TInv
<1> QED BY <1>1, <1>2, <1>3, <1>4, <1>5, <1>6, <1>7, <1>8, <1>9 DEF Poll

\* What the tasks and the jobs do to the rest: nothing the bounds speak of.
LEMMA TypeWork == ASSUME TInv, NEW b \in Bots, Work(b) PROVE TInv'
<1>0. Bounds' /\ JobsCarryUpdates'
  <2>1. UNCHANGED <<sent, offset, upto, pc, job, jobStatus>>
    BY DEF Work, StartTask, RefuseTask, EndTask, pollVars, jobVars
  <2> QED BY <2>1, BoundsUnchanged DEF TInv, JobsCarryUpdates
<1>a. tasks[b] # <<>> => Head(tasks[b]) \in Updates /\ Tail(tasks[b]) \in Seq(Updates)
  BY DEF TInv, TypeOK
<1>1. CASE StartTask(b)
  <2>1. /\ tasks' \in [Bots -> Seq(Updates)] /\ tried' \subseteq Updates
        /\ turn' \in (Bots \cup {Runner}) \X Updates
    BY <1>a, <1>1 DEF StartTask, NextTask, BeginTurn, TInv, TypeOK
  <2>2. inbound' \in [Updates -> {"none", "ingested", "processing_started", "processed", "ignored"}]
    BY <1>1 DEF StartTask, BeginTurn, TInv, TypeOK
  <2>3. TypeOK'
    BY <1>1, <2>1, <2>2 DEF StartTask, TInv, TypeOK, pollVars, jobVars
  <2> QED BY <1>0, <2>3 DEF TInv
<1>2. CASE RefuseTask(b)
  <2>1. tasks' \in [Bots -> Seq(Updates)] /\ tried' \subseteq Updates
    BY <1>a, <1>2 DEF RefuseTask, NextTask, TInv, TypeOK
  <2>2. inbound' \in [Updates -> {"none", "ingested", "processing_started", "processed", "ignored"}]
    BY <1>2 DEF RefuseTask, RefuseTurn, TInv, TypeOK
  <2>3. TypeOK'
    BY <1>2, <2>1, <2>2 DEF RefuseTask, RefuseTurn, TInv, TypeOK, pollVars, jobVars
  <2> QED BY <1>0, <2>3 DEF TInv
<1>3. ASSUME NEW x \in Updates, NEW end \in Ends, EndTask(b, x, end) PROVE TInv'
  <2>1. TypeOK'
    BY <1>3 DEF EndTask, EndTurn, Ends, TInv, TypeOK, pollVars, jobVars
  <2> QED BY <1>0, <2>1 DEF TInv
<1> QED BY <1>1, <1>2, <1>3 DEF Work

\* The consumer of the queue.
LEMMA TypeConsume == ASSUME TInv, NEW u \in Ids, Consume(u) PROVE TInv'
<1>0. Bounds'
  <2>1. UNCHANGED <<sent, offset, upto, pc>>
    BY DEF Consume, StartJob, RefuseJob, CloseJob, FailJob, SettleJob, EndJobTurn, pollVars
  <2> QED BY <2>1, BoundsUnchanged
<1>a. jobStatus[u] # "none" => job[u] \in Updates
  BY DEF TInv, JobsCarryUpdates
<1>1. CASE StartJob(u)
  <2>1. TypeOK'
    BY <1>a, <1>1 DEF StartJob, Claim, BeginTurn, TInv, TypeOK, pollVars
  <2>2. JobsCarryUpdates'
    BY <1>a, <1>1 DEF StartJob, Claim, TInv, TypeOK, JobsCarryUpdates
  <2> QED BY <1>0, <2>1, <2>2 DEF TInv
<1>2. CASE RefuseJob(u)
  <2>1. inbound' \in [Updates -> {"none", "ingested", "processing_started", "processed", "ignored"}]
    BY <1>2 DEF RefuseJob, RefuseTurn, TInv, TypeOK
  <2>2. TypeOK'
    BY <1>2, <2>1 DEF RefuseJob, Claim, RefuseTurn, TInv, TypeOK, pollVars
  <2>3. JobsCarryUpdates'
    BY <1>a, <1>2 DEF RefuseJob, Claim, TInv, TypeOK, JobsCarryUpdates
  <2> QED BY <1>0, <2>2, <2>3 DEF TInv
<1>3. CASE CloseJob(u)
  <2>1. TypeOK'
    BY <1>a, <1>3 DEF CloseJob, Claim, TInv, TypeOK, pollVars
  <2>2. JobsCarryUpdates'
    BY <1>a, <1>3 DEF CloseJob, Claim, TInv, TypeOK, JobsCarryUpdates
  <2> QED BY <1>0, <2>1, <2>2 DEF TInv
<1>4. CASE SettleJob(u)
  <2>1. TypeOK'
    BY <1>4 DEF SettleJob, AfterFailure, TInv, TypeOK, pollVars
  <2>2. JobsCarryUpdates'
    BY <1>a, <1>4 DEF SettleJob, TInv, TypeOK, JobsCarryUpdates
  <2> QED BY <1>0, <2>1, <2>2 DEF TInv
<1>5. ASSUME NEW end \in Ends, EndJobTurn(u, end) PROVE TInv'
  <2>1. TypeOK'
    BY <1>a, <1>5 DEF EndJobTurn, EndTurn, Ends, TInv, TypeOK, pollVars
  <2>2. JobsCarryUpdates'
    BY <1>a, <1>5 DEF EndJobTurn, TInv, TypeOK, JobsCarryUpdates
  <2> QED BY <1>0, <2>1, <2>2 DEF TInv
<1>6. CASE FailJob(u)
  <2>1. TypeOK'
    BY <1>6 DEF FailJob, Claim, AfterFailure, TInv, TypeOK, pollVars
  <2>2. JobsCarryUpdates'
    BY <1>a, <1>6 DEF FailJob, Claim, TInv, TypeOK, JobsCarryUpdates
  <2> QED BY <1>0, <2>1, <2>2 DEF TInv
<1> QED BY <1>1, <1>2, <1>3, <1>4, <1>5, <1>6 DEF Consume

\* Exceptions and crashes.
LEMMA TypeFail == ASSUME TInv, Fail PROVE TInv'
<1>1. ASSUME NEW b \in Bots, IterationError(b) PROVE TInv'
  <2>1. TypeOK'
    BY <1>1 DEF IterationError, Goto, TInv, TypeOK, jobVars
  <2>2. Bounds'
    BY <1>1, BoundsKept DEF IterationError, Goto
  <2> QED BY <1>1, <2>1, <2>2 DEF IterationError, TInv, JobsCarryUpdates, jobVars
<1>2. ASSUME NEW b \in Bots, Crash(b) PROVE TInv'
  <2>1. TypeOK'
    BY <1>2 DEF Crash, Goto, TInv, TypeOK, jobVars
  <2>2. Bounds'
    BY <1>2, BoundsKept DEF Crash, Goto
  <2> QED BY <1>2, <2>1, <2>2 DEF Crash, TInv, JobsCarryUpdates, jobVars
<1>3. ASSUME NEW u \in Ids, JobCrash(u) PROVE TInv'
  <2>1. TypeOK'
    BY <1>3 DEF JobCrash, TInv, TypeOK, pollVars
  <2>2. Bounds'
    BY <1>3, BoundsUnchanged DEF JobCrash, pollVars
  <2>3. JobsCarryUpdates'
    BY <1>3 DEF JobCrash, TInv, TypeOK, JobsCarryUpdates
  <2> QED BY <2>1, <2>2, <2>3 DEF TInv
<1>4. ASSUME NEW u \in Ids, MarkDoneFails(u) PROVE TInv'
  <2>1. TypeOK'
    BY <1>4 DEF MarkDoneFails, AfterFailure, TInv, TypeOK, pollVars
  <2>2. Bounds'
    BY <1>4, BoundsUnchanged DEF MarkDoneFails, pollVars
  <2>3. JobsCarryUpdates'
    BY <1>4 DEF MarkDoneFails, TInv, TypeOK, JobsCarryUpdates
  <2> QED BY <2>1, <2>2, <2>3 DEF TInv
<1> QED BY <1>1, <1>2, <1>3, <1>4 DEF Fail

\* A new message.
LEMMA TypeWrite == ASSUME TInv, NEW b \in Bots, UserWrites(b) PROVE TInv'
<1>1. TypeOK'
  BY DEF UserWrites, TInv, TypeOK, pollVars, jobVars
<1>2. /\ sent' = [sent EXCEPT ![b] = sent[b] + 1] /\ sent[b] \in Ids
      /\ UNCHANGED <<offset, upto, pc>>
  BY DEF UserWrites, pollVars
<1>3. Bounds'
  <2>1. ASSUME NEW c \in Bots, NEW k \in Nat, k < sent'[c] PROVE k \in Ids
    <3>1. CASE c = b
      BY <1>2, <2>1, <3>1 DEF TInv, TypeOK, Bounds
    <3>2. CASE c # b
      BY <1>2, <2>1, <3>2 DEF TInv, TypeOK, Bounds
    <3> QED BY <3>1, <3>2
  <2>2. \A c \in Bots : upto'[c] <= sent'[c]
    BY <1>2 DEF TInv, TypeOK, Bounds
  <2> QED BY <1>2, <2>1, <2>2 DEF TInv, Bounds
<1> QED BY <1>1, <1>3 DEF UserWrites, TInv, JobsCarryUpdates, jobVars

\* Nothing has been written or fetched.
LEMMA TypeInit == ASSUME Init PROVE TInv
<1>1. TypeOK
  BY DEF Init, TypeOK
<1>2. Bounds /\ JobsCarryUpdates
  BY DEF Init, Bounds, JobsCarryUpdates
<1> QED BY <1>1, <1>2 DEF TInv

\* Every action keeps the types and the bounds.
LEMMA TypeStep == ASSUME TInv, [Next]_vars PROVE TInv'
<1>1. CASE UNCHANGED vars
  BY <1>1 DEF vars, pollVars, jobVars, TInv, TypeOK, Bounds, JobsCarryUpdates
<1> QED BY <1>1, TypeWrite, TypePoll, TypeWork, TypeConsume, TypeFail DEF Next

\* The variables keep their types in every behaviour of pollers, tasks and
\* consumers, failures included.
THEOREM Typing == Spec => []TypeOK
<1>1. Init => TInv
  BY TypeInit
<1>2. TInv /\ [Next]_vars => TInv'
  BY TypeStep
<1>3. TInv => TypeOK
  BY DEF TInv
<1> QED BY <1>1, <1>2, <1>3, PTL DEF Spec

-----------------------------------------------------------------------------
(***************************************************************************)
(* The ingest is durable before the offset moves                           *)
(***************************************************************************)
Durable(x) == inbound[x] # "none" \/ x \in dropped

\* What is below the offset, and the update the poller is about to pass, is
\* durable.
DInv ==
    /\ \A b \in Bots : confirmed[b] <= offset[b]
    /\ \A b \in Bots, u \in Ids : u < offset[b] => Durable(<<b, u>>)
    /\ \A b \in Bots : pc[b] \in {"persisted", "raised", "handled"} => Durable(Current(b))

\* No step takes a row or the record of a drop away.
LEMMA StaysDurable ==
    ASSUME TInv, [Next]_vars, NEW x \in Updates, Durable(x)
    PROVE  Durable(x)'
<1>1. ASSUME NEW b \in Bots, Poll(b) PROVE Durable(x)'
  BY <1>1 DEF Poll, FetchUpdates, Drop, Persist, Ignore, DispatchInline, FallBack, SaveOffset,
              Greet, EnqueueMessage, TInv, TypeOK, Durable
<1>2. ASSUME NEW b \in Bots, Work(b) PROVE Durable(x)'
  <2>1. CASE StartTask(b)
    BY <2>1 DEF StartTask, BeginTurn, TInv, TypeOK, Durable
  <2>2. CASE RefuseTask(b)
    BY <2>2 DEF RefuseTask, RefuseTurn, TInv, TypeOK, Durable
  <2>3. ASSUME NEW y \in Updates, NEW end \in Ends, EndTask(b, y, end) PROVE Durable(x)'
    BY <2>3 DEF EndTask, EndTurn, Ends, TInv, TypeOK, Durable
  <2> QED BY <1>2, <2>1, <2>2, <2>3 DEF Work
<1>3. ASSUME NEW u \in Ids, Consume(u) PROVE Durable(x)'
  <2>1. CASE StartJob(u)
    BY <2>1 DEF StartJob, BeginTurn, TInv, TypeOK, Durable
  <2>2. CASE RefuseJob(u)
    BY <2>2 DEF RefuseJob, RefuseTurn, TInv, TypeOK, Durable
  <2>3. CASE CloseJob(u) \/ FailJob(u) \/ SettleJob(u)
    BY <2>3 DEF CloseJob, FailJob, SettleJob, Durable
  <2>4. ASSUME NEW end \in Ends, EndJobTurn(u, end) PROVE Durable(x)'
    BY <2>4 DEF EndJobTurn, EndTurn, Ends, TInv, TypeOK, Durable
  <2> QED BY <1>3, <2>1, <2>2, <2>3, <2>4 DEF Consume
<1>4. CASE UNCHANGED <<inbound, dropped>>
  BY <1>4 DEF Durable
<1>5. (\E b \in Bots : UserWrites(b)) \/ Fail \/ UNCHANGED vars => UNCHANGED <<inbound, dropped>>
  BY DEF UserWrites, Fail, IterationError, Crash, MarkDoneFails, JobCrash, vars
<1> QED BY <1>1, <1>2, <1>3, <1>4, <1>5 DEF Next

Passing == {"persisted", "raised", "handled"}

\* A step that leaves the offsets alone keeps DInv if a poller gets to where
\* it will pass its update only with the update durable.
LEMMA DurableKept ==
    ASSUME TInv, DInv, [Next]_vars, UNCHANGED <<confirmed, offset>>,
           \A b \in Bots : pc'[b] \in Passing => pc[b] \in Passing \/ Durable(Current(b))'
    PROVE  DInv'
<1>1. \A b \in Bots, u \in Ids : u < offset[b] => Durable(<<b, u>>)'
  BY StaysDurable DEF DInv, Updates
<1>2. ASSUME NEW b \in Bots, pc[b] \in Passing PROVE Durable(Current(b))'
  <2>1. Current(b) \in Updates /\ Durable(Current(b))
    BY <1>2, CurrentIsUpdate DEF DInv, Passing
  <2>2. Current(b)' = Current(b)
    BY DEF Current
  <2>3. \A x \in Updates : Durable(x) => Durable(x)'
    BY StaysDurable
  <2> QED BY <2>1, <2>2, <2>3 DEF Durable
<1>3. \A b \in Bots : pc'[b] \in Passing => Durable(Current(b))'
  BY <1>2
<1> QED BY <1>1, <1>3 DEF DInv, Passing

\* The offset moves past an update that was persisted or dropped, and Telegram is
\* asked from the committed offset on.
LEMMA DurablePoll == ASSUME TInv, DInv, NEW b \in Bots, Poll(b) PROVE DInv'
<1>0. [Next]_vars
  BY DEF Next
<1>a. pc[b] # "idle" => Current(b) \in Updates
  BY CurrentIsUpdate
<1>1. CASE FetchUpdates(b)
  <2>1. /\ confirmed' = [confirmed EXCEPT ![b] = offset[b]] /\ UNCHANGED <<offset, inbound, dropped>>
        /\ pc' = [pc EXCEPT ![b] = "batch"]
    BY <1>1 DEF FetchUpdates, Goto
  <2>2. \A c \in Bots : confirmed'[c] <= offset'[c]
    BY <2>1 DEF TInv, TypeOK, DInv
  <2>3. \A c \in Bots : pc'[c] \in Passing => pc[c] \in Passing
    BY <2>1 DEF TInv, TypeOK, Passing
  <2> QED BY <2>1, <2>2, <2>3 DEF DInv, Durable, Current, Passing
<1>2. CASE Drop(b)
  <2>1. UNCHANGED <<confirmed, offset>> /\ pc' = [pc EXCEPT ![b] = "handled"] /\ Current(b) \in dropped'
    BY <1>2 DEF Drop, Goto
  <2>2. Durable(Current(b))'
    BY <2>1 DEF Durable, Current
  <2> QED BY <1>0, <2>1, <2>2, DurableKept DEF TInv, TypeOK
<1>3. CASE Persist(b)
  <2>1. UNCHANGED <<confirmed, offset>> /\ (\A c \in Bots : c # b => pc'[c] = pc[c])
    BY <1>3 DEF Persist, Goto, TInv, TypeOK
  <2>2. inbound'[Current(b)] # "none"
    BY <1>3, <1>a DEF Persist, TInv, TypeOK
  <2>3. Durable(Current(b))'
    BY <2>1, <2>2 DEF Durable, Current
  <2>4. \A c \in Bots : pc'[c] \in Passing => pc[c] \in Passing \/ Durable(Current(c))'
    BY <2>1, <2>3
  <2> QED BY <1>0, <2>1, <2>4, DurableKept
<1>4. CASE SaveOffset(b)
  <2>1. /\ offset' = [offset EXCEPT ![b] = offset[b] + 1] /\ UNCHANGED <<confirmed, inbound, dropped>>
        /\ pc' = [pc EXCEPT ![b] = IF offset[b] + 1 < upto[b] THEN "batch" ELSE "idle"]
        /\ Durable(Current(b))
    BY <1>4 DEF SaveOffset, Goto, DInv
  <2>2. \A c \in Bots : confirmed'[c] <= offset'[c]
    BY <2>1 DEF TInv, TypeOK, DInv
  <2>3. ASSUME NEW c \in Bots, NEW u \in Ids, u < offset'[c] PROVE Durable(<<c, u>>)'
    <3>1. u \in Nat /\ offset[c] \in Nat
      BY IngestAssumption DEF TInv, TypeOK
    <3>2. u < offset[c] \/ (c = b /\ u = offset[b])
      BY <2>1, <2>3, <3>1 DEF TInv, TypeOK
    <3>3. Durable(<<c, u>>)
      BY <2>1, <3>2 DEF DInv, Current
    <3> QED BY <2>1, <3>3 DEF Durable
  <2>4. ASSUME NEW c \in Bots, pc'[c] \in Passing PROVE Durable(Current(c))'
    <3>1. c # b /\ pc[c] \in Passing /\ Current(c)' = Current(c)
      BY <2>1, <2>4 DEF TInv, TypeOK, Passing, Current
    <3>2. Durable(Current(c))
      BY <3>1 DEF DInv, Passing
    <3> QED BY <2>1, <3>1, <3>2 DEF Durable
  <2> QED BY <2>2, <2>3, <2>4 DEF DInv, Passing
<1>5. CASE Ignore(b) \/ DispatchInline(b) \/ FallBack(b)
           \/ \E ok \in BOOLEAN : Greet(b, ok)
           \/ \E landed \in BOOLEAN : EnqueueMessage(b, landed)
  <2>1. UNCHANGED <<confirmed, offset>>
    BY <1>5 DEF Ignore, DispatchInline, FallBack, Greet, EnqueueMessage
  <2>2. /\ \A c \in Bots : c # b => pc'[c] = pc[c]
        /\ pc[b] \in Passing \/ pc'[b] = "greeted"
    BY <1>5 DEF Ignore, DispatchInline, FallBack, Greet, EnqueueMessage, Goto, TInv, TypeOK, Passing
  <2> QED BY <1>0, <2>1, <2>2, DurableKept DEF Passing
<1> QED BY <1>1, <1>2, <1>3, <1>4, <1>5 DEF Poll

\* No other step moves an offset.
LEMMA DurableStep == ASSUME TInv, DInv, [Next]_vars PROVE DInv'
<1>1. ASSUME NEW b \in Bots, Crash(b) \/ IterationError(b) PROVE DInv'
  <2>1. UNCHANGED <<confirmed, offset>> /\ pc' = [pc EXCEPT ![b] = "idle"]
    BY <1>1 DEF Crash, IterationError, Goto
  <2> QED BY <2>1, DurableKept DEF TInv, TypeOK, Passing
<1>2. ASSUME UNCHANGED <<confirmed, offset, pc>> PROVE DInv'
  BY <1>2, DurableKept
<1>3. ASSUME NEW b \in Bots, UserWrites(b) \/ Work(b) PROVE DInv'
  BY <1>2, <1>3 DEF UserWrites, Work, StartTask, RefuseTask, EndTask, pollVars
<1>4. ASSUME NEW u \in Ids, Consume(u) \/ MarkDoneFails(u) \/ JobCrash(u) PROVE DInv'
  BY <1>2, <1>4 DEF Consume, StartJob, RefuseJob, CloseJob, FailJob, SettleJob, EndJobTurn, MarkDoneFails, JobCrash,
                   pollVars
<1>5. CASE UNCHANGED vars
  BY <1>2, <1>5 DEF vars, pollVars
<1> QED BY <1>1, <1>3, <1>4, <1>5, DurablePoll DEF Next, Fail

\* Telegram is never told to forget an update that is not in the database,
\* or dropped on purpose: the offset a poller asks from is behind its own
\* commits, whatever exception or crash comes in between.
THEOREM DurableIngest == Spec => []ConfirmedIsDurable
<1>1. Init => TInv /\ DInv
  <2>1. Init => \A b \in Bots : ~ (pc[b] \in Passing)
    BY DEF Init, Passing
  <2>2. Init => (\A b \in Bots : confirmed[b] <= offset[b]) /\ (\A b \in Bots, u \in Ids : ~ (u < offset[b]))
    BY IngestAssumption DEF Init
  <2> QED BY <2>1, <2>2, TypeInit DEF DInv, Passing
<1>2. TInv /\ DInv /\ [Next]_vars => TInv' /\ DInv'
  BY TypeStep, DurableStep
<1>3. TInv /\ DInv => ConfirmedIsDurable
  <2> SUFFICES ASSUME TInv, DInv, NEW b \in Bots, NEW u \in Ids, u < confirmed[b]
               PROVE  Durable(<<b, u>>)
    BY DEF ConfirmedIsDurable, Durable
  <2>1. u \in Nat /\ confirmed[b] \in Nat /\ offset[b] \in Nat /\ confirmed[b] <= offset[b]
    BY IngestAssumption DEF TInv, TypeOK, DInv
  <2> QED BY <2>1 DEF DInv
<1> QED BY <1>1, <1>2, <1>3, PTL DEF Spec

-----------------------------------------------------------------------------
(***************************************************************************)
(* One way for every message, and one answer for what is not a job         *)
(***************************************************************************)
\* A job has the key of its update, whose row was written before.
Keyed ==
    \A u \in Ids : job[u] # None => job[u][2] = u /\ inbound[job[u]] # "none"

\* The tasks of a process are of its bot, have not begun, are not jobs, and
\* are distinct.
Waiting ==
    /\ \A b \in Bots : \A i \in 1 .. Len(tasks[b]) :
        /\ tasks[b][i][1] = b
        /\ inbound[tasks[b][i]] = "ingested"
        /\ Jobless(tasks[b][i])
    /\ \A b \in Bots : \A i, j \in 1 .. Len(tasks[b]) : tasks[b][i] = tasks[b][j] => i = j

\* A row that was just written has no task yet, and no job before the
\* enqueue.
New ==
    \A b \in Bots : pc[b] \in {"persisted", "raised"} =>
        /\ pc[b] = "persisted" => Jobless(Current(b))
        /\ Jobless(Current(b)) => inbound[Current(b)] = "ingested"
        /\ \A i \in 1 .. Len(tasks[b]) : tasks[b][i] # Current(b)

Begun ==
    \A b \in Bots, x \in Updates :
        turn = <<b, x>> => inbound[x] = "processing_started" /\ Jobless(x)

Counted ==
    \A x \in Updates : Jobless(x) =>
        completed[x] <= 1 /\ (inbound[x] # "processed" => completed[x] = 0)

AInv == Keyed /\ Waiting /\ New /\ Begun /\ Counted

\* What AInv needs of a change of one row's status: the row is nobody's task
\* and nobody's turn.
LEMMA OneRow ==
    ASSUME TInv, AInv, NEW x \in Updates, NEW st, st # "none",
           inbound' = [inbound EXCEPT ![x] = st],
           UNCHANGED <<tasks, completed, job>>, turn' \in {turn, None},
           Jobless(x) => inbound[x] # "processed" \/ st = "processed",
           \A b \in Bots : \A i \in 1 .. Len(tasks[b]) : tasks[b][i] # x,
           \A b \in Bots : turn' # <<b, x>>
    PROVE  Keyed' /\ Waiting' /\ Begun' /\ Counted'
<1>1. \A b \in Bots : \A i \in 1 .. Len(tasks[b]) : tasks[b][i] \in Updates
  BY DEF TInv, TypeOK
<1>2. inbound'[x] = st /\ \A y \in Updates : y # x => inbound'[y] = inbound[y]
  BY DEF TInv, TypeOK
<1>3. Waiting'
  BY <1>1, <1>2 DEF AInv, Waiting, Jobless
<1>4. Begun'
  BY <1>2, IngestAssumption DEF AInv, Begun, Updates, Jobless
<1>5. Counted'
  BY <1>2 DEF AInv, Counted, Jobless, TInv, TypeOK
<1>6. Keyed'
  BY <1>2 DEF AInv, Keyed, TInv, TypeOK
<1> QED BY <1>3, <1>4, <1>5, <1>6

\* The turn becomes a task (directly, or by the fallback).
LEMMA AnsweredSpawn ==
    ASSUME TInv, AInv, NEW b \in Bots, pc[b] \in {"persisted", "raised"}, Jobless(Current(b)),
           Spawn(b), pc' = [pc EXCEPT ![b] = "handled"], UNCHANGED <<inbound, offset, turn, completed>>
    PROVE  AInv'
<1> USE DEF jobVars
<1>1. /\ tasks' = [tasks EXCEPT ![b] = Append(tasks[b], Current(b))] /\ UNCHANGED job
      /\ Current(b) \in Updates
  BY CurrentIsUpdate DEF Spawn
<1>2. inbound[Current(b)] = "ingested" /\ \A i \in 1 .. Len(tasks[b]) : tasks[b][i] # Current(b)
  BY DEF AInv, New
<1>3. /\ Len(tasks'[b]) = Len(tasks[b]) + 1 /\ tasks'[b][Len(tasks[b]) + 1] = Current(b)
      /\ \A i \in 1 .. Len(tasks[b]) : tasks'[b][i] = tasks[b][i]
      /\ Len(tasks[b]) \in Nat
      /\ \A c \in Bots : c # b => tasks'[c] = tasks[c]
  BY <1>1 DEF TInv, TypeOK
<1>4. Waiting'
  <2>1. ASSUME NEW c \in Bots, NEW i \in 1 .. Len(tasks'[c])
        PROVE  /\ tasks'[c][i][1] = c /\ inbound'[tasks'[c][i]] = "ingested"
               /\ Jobless(tasks'[c][i])
    <3>1. CASE c = b /\ i = Len(tasks[b]) + 1
      BY <1>1, <1>2, <1>3, <3>1 DEF Current
    <3>2. CASE c # b \/ i # Len(tasks[b]) + 1
      BY <1>1, <1>3, <3>2 DEF AInv, Waiting
    <3> QED BY <3>1, <3>2
  <2>2. ASSUME NEW c \in Bots, NEW i \in 1 .. Len(tasks'[c]), NEW j \in 1 .. Len(tasks'[c]),
               tasks'[c][i] = tasks'[c][j]
        PROVE  i = j
    <3>1. CASE c # b
      BY <1>3, <2>2, <3>1 DEF AInv, Waiting
    <3>2. CASE c = b /\ i \in 1 .. Len(tasks[b]) /\ j \in 1 .. Len(tasks[b])
      BY <1>3, <2>2, <3>2 DEF AInv, Waiting
    <3>3. ASSUME c = b, i = Len(tasks[b]) + 1 PROVE j \notin 1 .. Len(tasks[b])
      BY <1>2, <1>3, <2>2, <3>3
    <3>4. ASSUME c = b, j = Len(tasks[b]) + 1 PROVE i \notin 1 .. Len(tasks[b])
      BY <1>2, <1>3, <2>2, <3>4
    <3> QED BY <1>3, <3>1, <3>2, <3>3, <3>4
  <2> QED BY <1>1, <2>1, <2>2 DEF Waiting, Jobless
<1>5. New'
  <2> SUFFICES ASSUME NEW c \in Bots, pc'[c] \in {"persisted", "raised"}
               PROVE  /\ pc'[c] = "persisted" => Jobless(Current(c))'
                      /\ Jobless(Current(c))' => inbound'[Current(c)'] = "ingested"
                      /\ \A i \in 1 .. Len(tasks'[c]) : tasks'[c][i] # Current(c)'
    BY DEF New
  <2>1. c # b /\ pc'[c] = pc[c]
    BY DEF TInv, TypeOK
  <2>2. Current(c)' = Current(c) /\ (Jobless(Current(c))' <=> Jobless(Current(c)))
    BY <1>1 DEF Current, Jobless
  <2> QED BY <1>3, <2>1, <2>2 DEF AInv, New
<1> QED BY <1>1, <1>4, <1>5 DEF AInv, Keyed, Begun, Counted, Jobless

\* The update becomes a job, which nothing else has taken up.
LEMMA AnsweredEnqueue ==
    ASSUME TInv, AInv, NEW b \in Bots, NEW landed \in BOOLEAN, EnqueueMessage(b, landed)
    PROVE  AInv'
<1>1. /\ pc[b] = "persisted" /\ UNCHANGED <<inbound, tasks, turn, completed, offset>>
      /\ (pc' = [pc EXCEPT ![b] = "handled"] \/ pc' = [pc EXCEPT ![b] = "raised"])
      /\ (job' = job \/ job' = [job EXCEPT ![offset[b]] = Current(b)])
  BY DEF EnqueueMessage, Goto
<1>2. Current(b) \in Updates /\ offset[b] \in Ids /\ Current(b)[2] = offset[b]
  BY <1>1, CurrentIsUpdate DEF Current
<1>3. /\ inbound[Current(b)] = "ingested" /\ Jobless(Current(b))
      /\ \A i \in 1 .. Len(tasks[b]) : tasks[b][i] # Current(b)
  BY <1>1 DEF AInv, New
<1>4. \A u \in Ids : job'[u] = job[u] \/ (u = offset[b] /\ job'[u] = Current(b))
  BY <1>1, <1>2 DEF TInv, TypeOK
<1>5. ASSUME NEW x, x # Current(b), Jobless(x) PROVE Jobless(x)'
  BY <1>4, <1>5 DEF Jobless
<1>6. ASSUME NEW x \in Updates, Jobless(x)' PROVE Jobless(x)
  <2>1. CASE x = Current(b)
    BY <1>3, <2>1
  <2>2. CASE x # Current(b)
    <3> SUFFICES ASSUME NEW u \in Ids, job[u] = x PROVE FALSE
      BY DEF Jobless
    <3>1. u = offset[b] /\ job' = [job EXCEPT ![offset[b]] = Current(b)]
      BY <1>1, <1>4, <1>6 DEF Jobless
    <3>2. job[offset[b]] = None
      BY <1>2, <2>2, <3>1 DEF EnqueueMessage, TInv, TypeOK
    <3> QED BY <3>1, <3>2, IngestAssumption DEF Updates
  <2> QED BY <2>1, <2>2
<1>7. Keyed'
  BY <1>1, <1>2, <1>3, <1>4 DEF AInv, Keyed
<1>8. Waiting'
  <2>1. \A c \in Bots : \A i \in 1 .. Len(tasks[c]) : tasks[c][i] # Current(b)
    BY <1>3 DEF AInv, Waiting, Current
  <2> QED BY <1>1, <1>5, <2>1 DEF AInv, Waiting
<1>9. Begun'
  <2>1. \A c \in Bots : turn # <<c, Current(b)>>
    BY <1>2, <1>3 DEF AInv, Begun
  <2> QED BY <1>1, <1>5, <2>1 DEF AInv, Begun
<1>10. Counted'
  BY <1>1, <1>6 DEF AInv, Counted
<1>11. New'
  <2> SUFFICES ASSUME NEW c \in Bots, pc'[c] \in {"persisted", "raised"}
               PROVE  /\ pc'[c] = "persisted" => Jobless(Current(c))'
                      /\ Jobless(Current(c))' => inbound[Current(c)] = "ingested"
                      /\ \A i \in 1 .. Len(tasks[c]) : tasks[c][i] # Current(c)
    BY <1>1 DEF New, Current
  <2>0. Current(c)' = Current(c)
    BY <1>1 DEF Current
  <2>1. CASE c = b
    BY <1>1, <1>3, <2>1 DEF TInv, TypeOK
  <2>2. CASE c # b
    <3>1. pc[c] = pc'[c] /\ Current(c) # Current(b)
      BY <1>1, <2>2 DEF TInv, TypeOK, Current
    <3>2. Current(c) \in Updates
      BY <3>1, CurrentIsUpdate
    <3>3. /\ pc[c] = "persisted" => Jobless(Current(c))
          /\ Jobless(Current(c)) => inbound[Current(c)] = "ingested"
          /\ \A i \in 1 .. Len(tasks[c]) : tasks[c][i] # Current(c)
      BY <3>1 DEF AInv, New
    <3>4. Jobless(Current(c))' <=> Jobless(Current(c))
      BY <1>5, <1>6, <2>0, <3>1, <3>2 DEF Jobless
    <3> QED BY <3>1, <3>3, <3>4
  <2> QED BY <2>1, <2>2
<1> QED BY <1>7, <1>8, <1>9, <1>10, <1>11 DEF AInv

\* A redelivered update finds its row: no second task is made of it.
LEMMA AnsweredPoll ==
    ASSUME TInv, AInv, NEW b \in Bots, Poll(b)
    PROVE  AInv'
<1>a. pc[b] # "idle" => Current(b) \in Updates
  BY CurrentIsUpdate
<1>b. \A c \in Bots : pc[c] \in {"persisted", "raised"} => Current(c) \in Updates
  BY CurrentIsUpdate
<1>0. ASSUME UNCHANGED <<inbound, tasks, turn, completed, job>>, pc'[b] \notin {"persisted", "raised"},
             \A c \in Bots \ {b} : pc'[c] = pc[c] /\ offset'[c] = offset[c]
      PROVE  AInv'
  <2>1. New'
    BY <1>0 DEF AInv, New, Current, Jobless
  <2> QED BY <1>0, <2>1 DEF AInv, Keyed, Waiting, Begun, Counted, Jobless
<1>1. ASSUME NEW st, inbound' = [inbound EXCEPT ![Current(b)] = st], pc[b] # "idle",
             UNCHANGED <<tasks, turn, completed, job, offset>>, Keyed', Waiting', Begun', Counted',
             \/ pc' = [pc EXCEPT ![b] = "handled"]
             \/ /\ pc' = [pc EXCEPT ![b] = "persisted"] /\ st = "ingested" /\ Jobless(Current(b))
                /\ \A i \in 1 .. Len(tasks[b]) : tasks[b][i] # Current(b)
      PROVE  AInv'
  <2>1. New'
    <3> SUFFICES ASSUME NEW c \in Bots, pc'[c] \in {"persisted", "raised"}
                 PROVE  /\ pc'[c] = "persisted" => Jobless(Current(c))
                        /\ Jobless(Current(c)) => inbound'[Current(c)] = "ingested"
                        /\ \A i \in 1 .. Len(tasks[c]) : tasks[c][i] # Current(c)
      BY <1>1 DEF New, Current, Jobless
    <3>1. CASE c = b
      BY <1>a, <1>1, <3>1 DEF TInv, TypeOK
    <3>2. CASE c # b
      <4>1. pc[c] = pc'[c] /\ Current(c) # Current(b) /\ Current(c) \in Updates
        BY <1>b, <1>1, <3>2 DEF TInv, TypeOK, Current
      <4> QED BY <1>a, <1>1, <4>1 DEF AInv, New, TInv, TypeOK
    <3> QED BY <3>1, <3>2
  <2> QED BY <1>1, <2>1 DEF AInv
<1>2. CASE Persist(b) /\ inbound[Current(b)] = "none"
  <2>1. /\ inbound' = [inbound EXCEPT ![Current(b)] = "ingested"] /\ pc[b] # "idle"
        /\ UNCHANGED <<tasks, offset, turn, completed, job>>
        /\ pc' = [pc EXCEPT ![b] = "persisted"] /\ Current(b) \in Updates
    BY <1>2, <1>a DEF Persist, Goto, jobVars
  <2>2. \A c \in Bots : \A i \in 1 .. Len(tasks[c]) : tasks[c][i] # Current(b)
    BY <1>2 DEF AInv, Waiting
  <2>3. \A c \in Bots : turn' # <<c, Current(b)>>
    BY <1>2, <2>1 DEF AInv, Begun
  <2>4. Jobless(Current(b))
    BY <1>2, <2>1, IngestAssumption DEF AInv, Keyed, Jobless, Updates
  <2>5. Keyed' /\ Waiting' /\ Begun' /\ Counted'
    BY <1>2, <2>1, <2>2, <2>3, OneRow
  <2> QED BY <1>1, <2>1, <2>2, <2>4, <2>5
<1>3. CASE Ignore(b)
  <2>1. /\ inbound' = [inbound EXCEPT ![Current(b)] = "ignored"] /\ pc[b] = "persisted"
        /\ UNCHANGED <<tasks, offset, turn, completed, job>>
        /\ pc' = [pc EXCEPT ![b] = "handled"] /\ Current(b) \in Updates
    BY <1>3, <1>a DEF Ignore, Goto, jobVars
  <2>2. inbound[Current(b)] = "ingested" /\ \A i \in 1 .. Len(tasks[b]) : tasks[b][i] # Current(b)
    BY <2>1 DEF AInv, New
  <2>3. \A c \in Bots : \A i \in 1 .. Len(tasks[c]) : tasks[c][i] # Current(b)
    BY <2>2 DEF AInv, Waiting, Current
  <2>4. \A c \in Bots : turn' # <<c, Current(b)>>
    BY <2>1, <2>2 DEF AInv, Begun
  <2>5. Keyed' /\ Waiting' /\ Begun' /\ Counted'
    BY <2>1, <2>2, <2>3, <2>4, OneRow
  <2> QED BY <1>1, <2>1, <2>5
<1>4. CASE DispatchInline(b)
  <2>1. /\ pc[b] = "persisted" /\ Spawn(b) /\ pc' = [pc EXCEPT ![b] = "handled"]
        /\ UNCHANGED <<inbound, offset, turn, completed>>
    BY <1>4 DEF DispatchInline, Goto
  <2>2. Jobless(Current(b))
    BY <2>1 DEF AInv, New
  <2> QED BY <2>1, <2>2, AnsweredSpawn
<1>5. CASE FallBack(b)
  <2>1. /\ pc[b] = "raised" /\ pc' = [pc EXCEPT ![b] = "handled"]
        /\ UNCHANGED <<inbound, offset, turn, completed>>
    BY <1>5 DEF FallBack, Goto
  <2>2. CASE job[offset[b]] = None /\ Spawn(b)
    <3>1. Current(b) \in Updates /\ Current(b)[2] = offset[b]
      BY <2>1, CurrentIsUpdate DEF Current
    <3>2. Jobless(Current(b))
      BY <2>2, <3>1, IngestAssumption DEF AInv, Keyed, Jobless, Updates
    <3> QED BY <2>1, <2>2, <3>2, AnsweredSpawn
  <2>3. CASE UNCHANGED <<tasks, jobVars>>
    <3>1. pc'[b] \notin {"persisted", "raised"} /\ \A c \in Bots \ {b} : pc'[c] = pc[c]
      BY <2>1 DEF TInv, TypeOK
    <3> QED BY <1>0, <2>1, <2>3, <3>1 DEF jobVars
  <2> QED BY <1>5, <2>2, <2>3 DEF FallBack
<1>6. ASSUME FetchUpdates(b) \/ Drop(b) \/ SaveOffset(b) \/ (Persist(b) /\ inbound[Current(b)] # "none")
             \/ (\E ok \in BOOLEAN : Greet(b, ok))
      PROVE  AInv'
  <2>1. UNCHANGED <<inbound, tasks, turn, completed, job>>
    BY <1>6 DEF FetchUpdates, Drop, SaveOffset, Persist, Greet, jobVars
  <2>2. pc'[b] \notin {"persisted", "raised"} /\ \A c \in Bots \ {b} : pc'[c] = pc[c]
    BY <1>6 DEF FetchUpdates, Drop, SaveOffset, Persist, Greet, Goto, TInv, TypeOK
  <2>3. \A c \in Bots \ {b} : offset'[c] = offset[c]
    BY <1>6 DEF FetchUpdates, Drop, SaveOffset, Persist, Greet, TInv, TypeOK
  <2> QED BY <1>0, <2>1, <2>2, <2>3
<1> QED BY <1>2, <1>3, <1>4, <1>5, <1>6, AnsweredEnqueue DEF Poll

\* The first task leaves the queue: what waits keeps its place in the order.
LEMMA FirstTask ==
    ASSUME TInv, AInv, NEW b \in Bots, NextTask(b)
    PROVE  /\ Head(tasks[b]) \in Updates
           /\ inbound[Head(tasks[b])] = "ingested"
           /\ \A c \in Bots : \A i \in 1 .. Len(tasks'[c]) : tasks'[c][i] # Head(tasks[b])
           /\ \A c \in Bots : \A i \in 1 .. Len(tasks'[c]) :
                \E j \in 1 .. Len(tasks[c]) : tasks[c][j] = tasks'[c][i]
           /\ \A c \in Bots : \A i, j \in 1 .. Len(tasks'[c]) : tasks'[c][i] = tasks'[c][j] => i = j
           /\ \A c \in Bots : pc[c] \in {"persisted", "raised"} => Current(c) # Head(tasks[b])
           /\ Jobless(Head(tasks[b]))
<1> DEFINE s == tasks[b]
           h == Head(s)
<1>1. /\ s \in Seq(Updates) /\ s # <<>> /\ tasks' = [tasks EXCEPT ![b] = Tail(s)]
      /\ tasks \in [Bots -> Seq(Updates)]
  BY DEF NextTask, TInv, TypeOK
<1>2. /\ Len(s) \in Nat /\ Len(s) >= 1 /\ h = s[1] /\ h \in Updates
      /\ Len(Tail(s)) = Len(s) - 1 /\ \A i \in 1 .. Len(Tail(s)) : Tail(s)[i] = s[i + 1]
  BY <1>1
<1>3. tasks'[b] = Tail(s) /\ \A c \in Bots : c # b => tasks'[c] = tasks[c]
  BY <1>1
<1>4. /\ inbound[h] = "ingested" /\ h[1] = b /\ Jobless(h)
      /\ \A i, j \in 1 .. Len(s) : s[i] = s[j] => i = j
      /\ \A c \in Bots : \A i \in 1 .. Len(tasks[c]) : tasks[c][i][1] = c
      /\ \A c \in Bots : \A i, j \in 1 .. Len(tasks[c]) : tasks[c][i] = tasks[c][j] => i = j
  BY <1>2 DEF AInv, Waiting
<1>5. \A i \in 1 .. Len(Tail(s)) : i + 1 \in 1 .. Len(s) /\ Tail(s)[i] # h
  BY <1>2, <1>4
<1>6. \A i, j \in 1 .. Len(Tail(s)) : Tail(s)[i] = Tail(s)[j] => i = j
  BY <1>2, <1>4, <1>5
<1>7. ASSUME NEW c \in Bots, pc[c] \in {"persisted", "raised"} PROVE Current(c) # h
  <2>1. CASE c = b
    <3>1. \A i \in 1 .. Len(s) : s[i] # Current(b)
      BY <1>7, <2>1 DEF AInv, New
    <3>2. 1 \in 1 .. Len(s) /\ h = s[1]
      BY <1>2
    <3> HIDE DEF s, h
    <3> QED BY <2>1, <3>1, <3>2
  <2>2. CASE c # b
    BY <1>4, <2>2 DEF Current
  <2> QED BY <2>1, <2>2
<1> HIDE DEF s, h
<1>8. ASSUME NEW c \in Bots, NEW i \in 1 .. Len(tasks'[c]) PROVE tasks'[c][i] # h
  <2>1. CASE c = b
    BY <1>3, <1>5, <2>1
  <2>2. CASE c # b
    BY <1>3, <1>4, <2>2
  <2> QED BY <2>1, <2>2
<1>9. \A c \in Bots : \A i, j \in 1 .. Len(tasks'[c]) : tasks'[c][i] = tasks'[c][j] => i = j
  <2>1. \A i, j \in 1 .. Len(tasks'[b]) : tasks'[b][i] = tasks'[b][j] => i = j
    BY <1>3, <1>6
  <2>2. ASSUME NEW c \in Bots, c # b
        PROVE  \A i, j \in 1 .. Len(tasks'[c]) : tasks'[c][i] = tasks'[c][j] => i = j
    BY <1>3, <1>4, <2>2
  <2> QED BY <2>1, <2>2
<1>10. \A c \in Bots : \A i \in 1 .. Len(tasks'[c]) : \E j \in 1 .. Len(tasks[c]) : tasks[c][j] = tasks'[c][i]
  <2>1. \A i \in 1 .. Len(Tail(s)) : \E j \in 1 .. Len(s) : s[j] = Tail(s)[i]
    BY <1>2, <1>5
  <2> QED BY <1>3, <2>1 DEF s
<1> QED BY <1>2, <1>4, <1>7, <1>8, <1>9, <1>10 DEF s, h

\* A task that is done with, or begins, changes the status of its own row.
LEMMA AnsweredTask ==
    ASSUME TInv, AInv, NEW b \in Bots, NextTask(b), NEW st,
           inbound' \in {inbound, [inbound EXCEPT ![Head(tasks[b])] = st]},
           st # "processed", st # "none", UNCHANGED <<completed, pc, offset, job>>
    PROVE  Keyed' /\ Waiting' /\ New' /\ Counted'
<1> DEFINE h == Head(tasks[b])
<1>1. /\ h \in Updates /\ inbound[h] = "ingested"
      /\ \A c \in Bots : \A i \in 1 .. Len(tasks'[c]) : tasks'[c][i] # h
      /\ \A c \in Bots : \A i \in 1 .. Len(tasks'[c]) : \E j \in 1 .. Len(tasks[c]) : tasks[c][j] = tasks'[c][i]
      /\ \A c \in Bots : \A i, j \in 1 .. Len(tasks'[c]) : tasks'[c][i] = tasks'[c][j] => i = j
      /\ \A c \in Bots : pc[c] \in {"persisted", "raised"} => Current(c) # h
  BY FirstTask
<1>2. \A c \in Bots : \A j \in 1 .. Len(tasks[c]) : tasks[c][j] \in Updates
  BY DEF TInv, TypeOK
<1> HIDE DEF h
<1>3. \A y \in Updates : y # h => inbound'[y] = inbound[y]
  BY DEF h, TInv, TypeOK
<1>4. inbound'[h] # "processed" /\ inbound'[h] # "none"
  BY <1>1 DEF h, TInv, TypeOK
<1>5. ASSUME NEW c \in Bots, NEW i \in 1 .. Len(tasks'[c])
      PROVE  tasks'[c][i][1] = c /\ inbound'[tasks'[c][i]] = "ingested" /\ Jobless(tasks'[c][i])
  <2>1. PICK j \in 1 .. Len(tasks[c]) : tasks[c][j] = tasks'[c][i]
    BY <1>1
  <2>2. /\ tasks[c][j][1] = c /\ inbound[tasks[c][j]] = "ingested" /\ tasks[c][j] \in Updates
        /\ Jobless(tasks[c][j])
    BY <1>2 DEF AInv, Waiting
  <2>3. tasks[c][j] # h
    BY <1>1, <2>1
  <2> QED BY <1>3, <2>1, <2>2, <2>3
<1>6. Waiting'
  BY <1>1, <1>5 DEF Waiting, Jobless
<1>7. New'
  <2> SUFFICES ASSUME NEW c \in Bots, pc[c] \in {"persisted", "raised"}
               PROVE  /\ pc[c] = "persisted" => Jobless(Current(c))
                      /\ Jobless(Current(c)) => inbound'[Current(c)] = "ingested"
                      /\ \A i \in 1 .. Len(tasks'[c]) : tasks'[c][i] # Current(c)
    BY DEF New, Current, Jobless
  <2>1. /\ pc[c] = "persisted" => Jobless(Current(c))
        /\ Jobless(Current(c)) => inbound[Current(c)] = "ingested"
        /\ Current(c) # h /\ Current(c) \in Updates
        /\ \A j \in 1 .. Len(tasks[c]) : tasks[c][j] # Current(c)
    BY <1>1, CurrentIsUpdate DEF AInv, New
  <2>2. \A i \in 1 .. Len(tasks'[c]) : tasks'[c][i] # Current(c)
    BY <1>1, <2>1
  <2> QED BY <1>3, <2>1, <2>2
<1>8. Counted'
  BY <1>1, <1>3, <1>4 DEF AInv, Counted, Jobless
<1>9. Keyed'
  BY <1>3, <1>4 DEF AInv, Keyed, TInv, TypeOK
<1> QED BY <1>6, <1>7, <1>8, <1>9

\* A turn ends an update that has not been processed.
LEMMA AnsweredWork == ASSUME TInv, AInv, NEW b \in Bots, Work(b) PROVE AInv'
<1>1. CASE StartTask(b)
  <2>0. /\ NextTask(b) /\ UNCHANGED <<completed, pc, offset, job>>
        /\ inbound' \in {inbound, [inbound EXCEPT ![Head(tasks[b])] = "processing_started"]}
        /\ "processing_started" \notin {"none", "processed"}
    BY <1>1 DEF StartTask, BeginTurn, pollVars, jobVars
  <2>1. Keyed' /\ Waiting' /\ New' /\ Counted'
    BY <2>0, AnsweredTask
  <2>2. /\ inbound'[Head(tasks[b])] = "processing_started" /\ turn' = <<b, Head(tasks[b])>>
        /\ Jobless(Head(tasks[b]))
    BY <1>1, FirstTask DEF StartTask, BeginTurn, TInv, TypeOK
  <2> QED BY <2>0, <2>1, <2>2 DEF AInv, Begun, Jobless
<1>2. CASE RefuseTask(b)
  <2>1. Keyed' /\ Waiting' /\ New' /\ Counted'
    BY <1>2, AnsweredTask DEF RefuseTask, RefuseTurn, pollVars, jobVars
  <2>2. turn' = turn /\ (UNCHANGED inbound \/ turn = None)
    BY <1>2 DEF RefuseTask, RefuseTurn
  <2>3. UNCHANGED job
    BY <1>2 DEF RefuseTask, jobVars
  <2> QED BY <2>1, <2>2, <2>3, IngestAssumption DEF AInv, Begun, Updates, Jobless
<1>3. ASSUME NEW x \in Updates, NEW end \in Ends, EndTask(b, x, end) PROVE AInv'
  <2>1. /\ turn = <<b, x>> /\ turn' = None /\ inbound' = [inbound EXCEPT ![x] = end]
        /\ completed' = [completed EXCEPT ![x] = IF end = "processed" THEN completed[x] + 1 ELSE completed[x]]
        /\ UNCHANGED <<pc, offset, tasks, job>>
    BY <1>3 DEF EndTask, EndTurn, pollVars, jobVars
  <2>2. inbound[x] = "processing_started" /\ completed[x] = 0 /\ Jobless(x)
    BY <2>1 DEF AInv, Begun, Counted
  <2>3. \A y \in Updates : y # x => inbound'[y] = inbound[y] /\ completed'[y] = completed[y]
    BY <2>1 DEF TInv, TypeOK
  <2>4. Waiting'
    <3>1. \A c \in Bots : \A i \in 1 .. Len(tasks[c]) : tasks[c][i] \in Updates /\ tasks[c][i] # x
      BY <2>2 DEF AInv, Waiting, TInv, TypeOK
    <3> QED BY <2>1, <2>3, <3>1 DEF AInv, Waiting, Jobless
  <2>5. New'
    <3>1. \A c \in Bots : pc[c] \in {"persisted", "raised"} => Current(c) \in Updates /\ Current(c) # x
      BY <2>2, CurrentIsUpdate DEF AInv, New
    <3> QED BY <2>1, <2>3, <3>1 DEF AInv, New, Current, Jobless
  <2>6. Begun'
    BY <2>1, IngestAssumption DEF Begun, Updates
  <2>7. Counted'
    <3>1. completed'[x] <= 1 /\ (inbound'[x] # "processed" => completed'[x] = 0)
      BY <2>1, <2>2 DEF TInv, TypeOK
    <3> QED BY <2>1, <2>3, <3>1 DEF AInv, Counted, Jobless
  <2>8. Keyed'
    <3>1. inbound'[x] # "none"
      BY <2>1 DEF TInv, TypeOK, Ends
    <3> QED BY <2>1, <2>3, <3>1 DEF AInv, Keyed, TInv, TypeOK
  <2> QED BY <2>4, <2>5, <2>6, <2>7, <2>8 DEF AInv
<1> QED BY <1>1, <1>2, <1>3 DEF Work

\* A crash takes the tasks and the turn of its process with it.
LEMMA AnsweredFail == ASSUME TInv, AInv, Fail PROVE AInv'
<1>1. ASSUME NEW b \in Bots, IterationError(b) \/ Crash(b) PROVE AInv'
  <2>1. /\ pc' = [pc EXCEPT ![b] = "idle"] /\ UNCHANGED <<inbound, completed, offset, job>>
        /\ turn' \in {turn, None} /\ (tasks' = tasks \/ tasks' = [tasks EXCEPT ![b] = <<>>])
    BY <1>1 DEF IterationError, Crash, Goto, jobVars
  <2>2. \A c \in Bots : tasks'[c] = tasks[c] \/ tasks'[c] = <<>>
    BY <2>1 DEF TInv, TypeOK
  <2>3. Waiting'
    <3>1. \A c \in Bots : tasks'[c] = <<>> => 1 .. Len(tasks'[c]) = {}
      OBVIOUS
    <3> QED BY <2>1, <2>2, <3>1 DEF AInv, Waiting, Jobless
  <2>4. New'
    <3>1. \A c \in Bots : tasks'[c] = <<>> => 1 .. Len(tasks'[c]) = {}
      OBVIOUS
    <3>2. \A c \in Bots : pc'[c] \in {"persisted", "raised"} => pc[c] = pc'[c] /\ Current(c)' = Current(c)
      BY <2>1 DEF TInv, TypeOK, Current
    <3> QED BY <2>1, <2>2, <3>1, <3>2 DEF AInv, New, Jobless
  <2>5. Begun'
    BY <2>1, IngestAssumption DEF AInv, Begun, Updates, Jobless
  <2> QED BY <2>1, <2>3, <2>4, <2>5 DEF AInv, Keyed, Counted, Jobless
<1>2. ASSUME NEW u \in Ids, MarkDoneFails(u) \/ JobCrash(u) PROVE AInv'
  <2>1. UNCHANGED <<inbound, tasks, completed, pc, offset, job>> /\ turn' \in {turn, None}
    BY <1>2 DEF MarkDoneFails, JobCrash, pollVars
  <2>2. Begun'
    BY <2>1, IngestAssumption DEF AInv, Begun, Updates, Jobless
  <2> QED BY <2>1, <2>2 DEF AInv, Keyed, Waiting, New, Counted, Current, Jobless
<1> QED BY <1>1, <1>2 DEF Fail

\* The queue's consumer acts on the rows of jobs alone.
LEMMA AnsweredConsume == ASSUME TInv, AInv, NEW u \in Ids, Consume(u) PROVE AInv'
<1> DEFINE x == job[u]
<1>1. x \in Updates /\ UNCHANGED <<tasks, pc, offset, job>>
  BY DEF Consume, StartJob, RefuseJob, CloseJob, FailJob, SettleJob, EndJobTurn, Claim,
         TInv, JobsCarryUpdates, pollVars
<1>2. turn' \in {turn, None, <<Runner, x>>}
  BY DEF Consume, StartJob, RefuseJob, CloseJob, FailJob, SettleJob, EndJobTurn, BeginTurn,
         RefuseTurn, EndTurn
<1>3. /\ \A y \in Updates : y # x => inbound'[y] = inbound[y] /\ completed'[y] = completed[y]
      /\ inbound[x] # "none" => inbound'[x] # "none"
  BY <1>1 DEF Consume, StartJob, RefuseJob, CloseJob, FailJob, SettleJob, EndJobTurn, BeginTurn,
         RefuseTurn, EndTurn, Ends, TInv, TypeOK
<1>4. ~ Jobless(x)
  BY DEF Jobless
<1> HIDE DEF x
<1>5. Keyed'
  BY <1>1, <1>3 DEF AInv, Keyed, TInv, TypeOK
<1>6. Waiting'
  <2>1. \A b \in Bots : \A i \in 1 .. Len(tasks[b]) : tasks[b][i] \in Updates /\ tasks[b][i] # x
    BY <1>4 DEF AInv, Waiting, TInv, TypeOK
  <2> QED BY <1>1, <1>3, <2>1 DEF AInv, Waiting, Jobless
<1>7. New'
  <2>1. \A b \in Bots : pc[b] \in {"persisted", "raised"} => Current(b) \in Updates
    BY CurrentIsUpdate
  <2>2. \A b \in Bots : Current(b)' = Current(b) /\ (Jobless(Current(b))' <=> Jobless(Current(b)))
    BY <1>1 DEF Current, Jobless
  <2> QED BY <1>1, <1>3, <1>4, <2>1, <2>2 DEF AInv, New
<1>8. Begun'
  <2>1. \A b \in Bots, y \in Updates : turn' = <<b, y>> => turn = <<b, y>>
    BY <1>1, <1>2, IngestAssumption DEF Updates
  <2> QED BY <1>1, <1>3, <1>4, <2>1 DEF AInv, Begun, Jobless
<1>9. Counted'
  <2>1. \A y \in Updates : Jobless(y)' => Jobless(y) /\ y # x
    BY <1>1, <1>4 DEF Jobless
  <2> QED BY <1>3, <2>1 DEF AInv, Counted
<1> QED BY <1>5, <1>6, <1>7, <1>8, <1>9 DEF AInv

\* Every step keeps the routes apart and the count of answers.
LEMMA AnsweredStep == ASSUME TInv, AInv, [Next]_vars PROVE AInv'
<1>1. ASSUME UNCHANGED <<inbound, tasks, turn, completed, pc, offset, job>> PROVE AInv'
  BY <1>1 DEF AInv, Keyed, Waiting, New, Begun, Counted, Current, Jobless
<1>2. ASSUME NEW b \in Bots, UserWrites(b) PROVE AInv'
  BY <1>1, <1>2 DEF UserWrites, pollVars, jobVars
<1>3. CASE UNCHANGED vars
  BY <1>1, <1>3 DEF vars, pollVars, jobVars
<1> QED BY <1>2, <1>3, AnsweredPoll, AnsweredWork, AnsweredConsume, AnsweredFail DEF Next

LEMMA AnsweredAlways == Spec => [](TInv /\ AInv)
<1>1. Init => TInv /\ AInv
  <2>1. Init => Keyed /\ New /\ Counted
    BY DEF Init, Keyed, New, Counted
  <2>2. Init => Waiting
    BY DEF Init, Waiting
  <2>3. Init => Begun
    BY IngestAssumption DEF Init, Begun, Updates
  <2> QED BY <2>1, <2>2, <2>3, TypeInit DEF AInv
<1>2. TInv /\ AInv /\ [Next]_vars => TInv' /\ AInv'
  BY TypeStep, AnsweredStep
<1> QED BY <1>1, <1>2, PTL DEF Spec

\* No update that did not become a job is answered twice, however often
\* Telegram delivers it and wherever the poller's process died: the row
\* written before the task recognises the duplicate.
THEOREM NoSecondAnswer == Spec => []AnsweredOnce
<1>1. AInv => AnsweredOnce
  BY DEF AInv, Counted, AnsweredOnce
<1> QED BY <1>1, AnsweredAlways, PTL

\* An update has a job or a task, never both: after a failed enqueue the
\* fallback finds the row if the insert committed.
THEOREM RoutesExclude == Spec => []OneRoute
<1>1. TInv /\ AInv => OneRoute
  <2> SUFFICES ASSUME TInv, AInv, NEW u \in Ids, NEW b \in Bots, job[u] # None
               PROVE  /\ \A i \in DOMAIN tasks[b] : tasks[b][i] # job[u]
                      /\ turn # <<b, job[u]>>
    BY DEF OneRoute
  <2>1. DOMAIN tasks[b] = 1 .. Len(tasks[b])
    BY DEF TInv, TypeOK
  <2>2. job[u] \in Updates
    BY DEF TInv, TypeOK
  <2>3. turn # <<b, job[u]>>
    BY <2>2 DEF AInv, Begun, Jobless
  <2> QED BY <2>1, <2>3 DEF AInv, Waiting, Jobless
<1> QED BY <1>1, AnsweredAlways, PTL

-----------------------------------------------------------------------------
(***************************************************************************)
(* The turns of a process begin in the order of the messages               *)
(***************************************************************************)
Taken == {"processing_started", "processed"}

\* The tasks wait in the order of their ids; nothing beyond the offset has a
\* row, or a task; and what follows a waiting task has not been begun.
Ordered == \A b \in Bots : \A i, j \in 1 .. Len(tasks[b]) : i < j => tasks[b][i][2] < tasks[b][j][2]
Ahead == \A b \in Bots, u \in Ids : u > offset[b] => inbound[<<b, u>>] = "none"
Behind == \A b \in Bots : \A i \in 1 .. Len(tasks[b]) : tasks[b][i][2] <= offset[b]
Pending ==
    \A b \in Bots, v \in Ids : \A i \in 1 .. Len(tasks[b]) :
        tasks[b][i][2] < v /\ Jobless(<<b, v>>) => inbound[<<b, v>>] \notin Taken

OInv == Ordered /\ Ahead /\ Behind /\ Pending

\* The id of a waiting task is a number.
LEMMA TaskIds ==
    ASSUME TInv, NEW b \in Bots, NEW i \in 1 .. Len(tasks[b])
    PROVE  tasks[b][i] \in Updates /\ tasks[b][i][2] \in Ids /\ tasks[b][i][2] \in Nat
<1>1. tasks[b] \in Seq(Updates)
  BY DEF TInv, TypeOK
<1>2. tasks[b][i] \in Bots \X Ids
  BY <1>1 DEF Updates
<1> QED BY <1>2, IngestAssumption DEF Updates

\* A job stays what it is: no update gets rid of one.
LEMMA JobsStay ==
    ASSUME TInv, [Next]_vars, NEW x \in Updates, Jobless(x)'
    PROVE  Jobless(x)
<1>1. ASSUME NEW b \in Bots, Poll(b) PROVE \A u \in Ids : job[u] # None => job'[u] = job[u]
  <2>1. ASSUME NEW landed \in BOOLEAN, EnqueueMessage(b, landed)
        PROVE  \A u \in Ids : job[u] # None => job'[u] = job[u]
    BY <2>1 DEF EnqueueMessage, TInv, TypeOK
  <2>2. CASE FetchUpdates(b) \/ Drop(b) \/ Persist(b) \/ Ignore(b) \/ DispatchInline(b) \/ FallBack(b)
             \/ SaveOffset(b) \/ \E ok \in BOOLEAN : Greet(b, ok)
    BY <2>2 DEF FetchUpdates, Drop, Persist, Ignore, DispatchInline, FallBack, SaveOffset, Greet, Spawn,
                jobVars
  <2> QED BY <1>1, <2>1, <2>2 DEF Poll
<1>2. (\E b \in Bots : UserWrites(b) \/ Work(b)) \/ (\E u \in Ids : Consume(u)) \/ Fail \/ UNCHANGED vars
      => job' = job
  BY DEF UserWrites, Work, StartTask, RefuseTask, EndTask, Consume, StartJob, RefuseJob, CloseJob, FailJob,
         SettleJob, EndJobTurn, Fail, IterationError, Crash, MarkDoneFails, JobCrash, vars, jobVars
<1>3. \A u \in Ids : job[u] # None => job'[u] = job[u]
  BY <1>1, <1>2 DEF Next
<1>4. \A u \in Ids : job'[u] # x
  BY DEF Jobless
<1>5. x # None
  BY IngestAssumption DEF Updates
<1> QED BY <1>3, <1>4, <1>5 DEF Jobless

\* How a row changes: the first write is the poller's, of the update in hand, and
\* what has no job is begun only as the first task of its process.
LEMMA RowMoves ==
    ASSUME TInv, AInv, [Next]_vars, NEW x \in Updates, inbound'[x] # inbound[x]
    PROVE  /\ inbound[x] # "none" \/ \E b \in Bots : x = Current(b)
           /\ \/ inbound'[x] \notin Taken
              \/ inbound[x] \in Taken
              \/ ~ Jobless(x)
              \/ \E b \in Bots : StartTask(b) /\ x = Head(tasks[b])
<1>1. ASSUME NEW b \in Bots, Poll(b)
      PROVE  x = Current(b) /\ inbound'[x] \notin Taken
  <2>1. \/ Persist(b) /\ inbound' = [inbound EXCEPT ![Current(b)] = "ingested"]
        \/ Ignore(b) /\ inbound' = [inbound EXCEPT ![Current(b)] = "ignored"]
    BY <1>1 DEF Poll, FetchUpdates, Drop, Persist, Ignore, DispatchInline, FallBack, SaveOffset, Greet,
                EnqueueMessage
  <2> QED BY <2>1 DEF TInv, TypeOK, Taken
<1>2. ASSUME NEW b \in Bots, Work(b)
      PROVE  /\ inbound[x] # "none"
             /\ inbound'[x] \notin Taken \/ inbound[x] \in Taken \/ (StartTask(b) /\ x = Head(tasks[b]))
  <2>1. CASE StartTask(b)
    <3>1. x = Head(tasks[b])
      BY <2>1 DEF StartTask, BeginTurn, TInv, TypeOK
    <3>2. inbound[Head(tasks[b])] = "ingested"
      BY <2>1, FirstTask DEF StartTask
    <3> QED BY <2>1, <3>1, <3>2
  <2>2. CASE RefuseTask(b)
    <3>1. x = Head(tasks[b]) /\ inbound'[x] = "ignored"
      BY <2>2 DEF RefuseTask, RefuseTurn, TInv, TypeOK
    <3>2. inbound[Head(tasks[b])] = "ingested"
      BY <2>2, FirstTask DEF RefuseTask
    <3> QED BY <3>1, <3>2 DEF Taken
  <2>3. ASSUME NEW y \in Updates, NEW end \in Ends, EndTask(b, y, end)
        PROVE  inbound[x] = "processing_started"
    <3>1. y = x /\ turn = <<b, y>>
      BY <2>3 DEF EndTask, EndTurn, TInv, TypeOK
    <3> QED BY <3>1 DEF AInv, Begun
  <2> QED BY <1>2, <2>1, <2>2, <2>3 DEF Work, Taken
<1>3. ASSUME NEW u \in Ids, Consume(u)
      PROVE  inbound[x] # "none" /\ ~ Jobless(x)
  <2>1. job[u] = x
    BY <1>3 DEF Consume, StartJob, RefuseJob, CloseJob, FailJob, SettleJob, EndJobTurn, BeginTurn, RefuseTurn,
                EndTurn, TInv, TypeOK
  <2>2. x # None
    BY IngestAssumption DEF Updates
  <2> QED BY <2>1, <2>2 DEF Jobless, AInv, Keyed
<1>4. (\E b \in Bots : UserWrites(b)) \/ Fail \/ UNCHANGED vars => inbound' = inbound
  BY DEF UserWrites, Fail, IterationError, Crash, MarkDoneFails, JobCrash, vars
<1> QED BY <1>1, <1>2, <1>3, <1>4 DEF Next

\* How the tasks of a process change.
LEMMA TasksMove ==
    ASSUME TInv, [Next]_vars, NEW b \in Bots
    PROVE  \/ tasks'[b] = tasks[b]
           \/ tasks'[b] = <<>>
           \/ NextTask(b) /\ tasks'[b] = Tail(tasks[b])
           \/ /\ pc[b] \in {"persisted", "raised"} /\ offset' = offset /\ inbound' = inbound
              /\ tasks'[b] = Append(tasks[b], Current(b))
<1> DEFINE Moved(c) == \/ NextTask(c) /\ tasks' = [tasks EXCEPT ![c] = Tail(tasks[c])]
                       \/ tasks' = [tasks EXCEPT ![c] = <<>>]
                       \/ /\ pc[c] \in {"persisted", "raised"} /\ offset' = offset /\ inbound' = inbound
                          /\ tasks' = [tasks EXCEPT ![c] = Append(tasks[c], Current(c))]
<1>1. ASSUME NEW c \in Bots, Poll(c) PROVE tasks' = tasks \/ Moved(c)
  BY <1>1 DEF Poll, FetchUpdates, Drop, Persist, Ignore, DispatchInline, FallBack, SaveOffset, Greet,
              EnqueueMessage, Spawn
<1>2. ASSUME NEW c \in Bots, Work(c) PROVE tasks' = tasks \/ Moved(c)
  BY <1>2 DEF Work, StartTask, RefuseTask, EndTask, NextTask
<1>3. ASSUME NEW c \in Bots, UserWrites(c) \/ IterationError(c) \/ Crash(c) PROVE tasks' = tasks \/ Moved(c)
  BY <1>3 DEF UserWrites, IterationError, Crash
<1>4. ASSUME NEW u \in Ids, Consume(u) \/ MarkDoneFails(u) \/ JobCrash(u) PROVE tasks' = tasks
  BY <1>4 DEF Consume, StartJob, RefuseJob, CloseJob, FailJob, SettleJob, EndJobTurn, MarkDoneFails, JobCrash
<1>5. UNCHANGED vars => tasks' = tasks
  BY DEF vars
<1>6. tasks' = tasks \/ \E c \in Bots : Moved(c)
  BY <1>1, <1>2, <1>3, <1>4, <1>5 DEF Next, Fail
<1>7. CASE \E c \in Bots : Moved(c)
  BY <1>7 DEF TInv, TypeOK
<1> QED BY <1>6, <1>7

\* An offset only grows.
LEMMA OffsetsGrow ==
    ASSUME TInv, [Next]_vars
    PROVE  \A b \in Bots : offset[b] \in Nat /\ offset'[b] \in Nat /\ offset[b] <= offset'[b]
<1>1. ASSUME NEW c \in Bots, Poll(c) PROVE offset' = offset \/ offset' = [offset EXCEPT ![c] = offset[c] + 1]
  BY <1>1 DEF Poll, FetchUpdates, Drop, Persist, Ignore, DispatchInline, FallBack, SaveOffset, Greet,
              EnqueueMessage
<1>2. (\E b \in Bots : UserWrites(b) \/ Work(b)) \/ (\E u \in Ids : Consume(u)) \/ Fail \/ UNCHANGED vars
      => offset' = offset
  BY DEF UserWrites, Work, StartTask, RefuseTask, EndTask, Consume, StartJob, RefuseJob, CloseJob, FailJob,
         SettleJob, EndJobTurn, Fail, IterationError, Crash, MarkDoneFails, JobCrash, vars, pollVars
<1>3. offset' = offset \/ \E c \in Bots : offset' = [offset EXCEPT ![c] = offset[c] + 1]
  BY <1>1, <1>2 DEF Next
<1>4. offset \in [Bots -> Nat]
  BY DEF TInv, TypeOK
<1>5. CASE offset' = offset
  BY <1>4, <1>5
<1>6. ASSUME NEW c \in Bots, offset' = [offset EXCEPT ![c] = offset[c] + 1], NEW b \in Bots
      PROVE  offset[b] \in Nat /\ offset'[b] \in Nat /\ offset[b] <= offset'[b]
  BY <1>4, <1>6
<1> QED BY <1>3, <1>5, <1>6

\* The rows beyond the offset are untouched: whoever writes one for the first
\* time has it in hand.
LEMMA AheadStep == ASSUME TInv, AInv, OInv, [Next]_vars PROVE Ahead'
<1> SUFFICES ASSUME NEW b \in Bots, NEW u \in Ids, u > offset'[b]
             PROVE  inbound'[<<b, u>>] = "none"
  BY DEF Ahead
<1>1. u \in Nat /\ offset[b] \in Nat /\ u > offset[b]
  BY OffsetsGrow, IngestAssumption
<1>2. <<b, u>> \in Updates /\ inbound[<<b, u>>] = "none"
  BY <1>1 DEF OInv, Ahead, Updates
<1>3. \A c \in Bots : <<b, u>> # Current(c)
  BY <1>1 DEF Current
<1> QED BY <1>2, <1>3, RowMoves

\* A task is added behind the others and taken from the front.
LEMMA OrderedStep == ASSUME TInv, AInv, OInv, [Next]_vars PROVE Ordered' /\ Behind'
<1>1. ASSUME NEW b \in Bots
      PROVE  /\ \A i, j \in 1 .. Len(tasks'[b]) : i < j => tasks'[b][i][2] < tasks'[b][j][2]
             /\ \A i \in 1 .. Len(tasks'[b]) : tasks'[b][i][2] <= offset'[b]
  <2> DEFINE s == tasks[b]
  <2>1. s \in Seq(Updates) /\ offset[b] \in Nat /\ offset'[b] \in Nat /\ offset[b] <= offset'[b]
    BY OffsetsGrow DEF TInv, TypeOK
  <2>2. /\ \A i, j \in 1 .. Len(s) : i < j => s[i][2] < s[j][2]
        /\ \A i \in 1 .. Len(s) : s[i][2] <= offset[b]
        /\ \A i \in 1 .. Len(s) : s[i] \in Updates /\ s[i][2] \in Nat
    BY TaskIds DEF OInv, Ordered, Behind
  <2>3. CASE tasks'[b] = s
    BY <2>1, <2>2, <2>3
  <2>4. CASE tasks'[b] = <<>>
    BY <2>4
  <2>5. CASE NextTask(b) /\ tasks'[b] = Tail(s)
    <3>1. /\ Len(s) \in Nat /\ Len(Tail(s)) = Len(s) - 1
          /\ \A i \in 1 .. Len(Tail(s)) : Tail(s)[i] = s[i + 1]
      BY <2>1, <2>5 DEF NextTask
    <3>2. \A i \in 1 .. Len(Tail(s)) : i + 1 \in 1 .. Len(s)
      BY <3>1
    <3> HIDE DEF s
    <3> QED BY <2>1, <2>2, <2>5, <3>1, <3>2
  <2>6. CASE /\ pc[b] \in {"persisted", "raised"} /\ offset' = offset
             /\ tasks'[b] = Append(s, Current(b))
    <3>1. \A i \in 1 .. Len(s) : s[i] # Current(b) /\ s[i][1] = b
      BY <2>6 DEF AInv, New, Waiting
    <3>2. \A i \in 1 .. Len(s) : s[i][2] # offset[b]
      BY <2>2, <3>1 DEF Updates, Current
    <3>3. /\ Len(s) \in Nat /\ Len(tasks'[b]) = Len(s) + 1 /\ tasks'[b][Len(s) + 1] = Current(b)
          /\ \A i \in 1 .. Len(s) : tasks'[b][i] = s[i]
      BY <2>1, <2>6, CurrentIsUpdate
    <3>4. Current(b)[2] = offset[b]
      BY DEF Current
    <3>5. \A i \in 1 .. Len(s) : s[i][2] < offset[b]
      BY <2>1, <2>2, <3>2
    <3> HIDE DEF s
    <3>6. \A i \in 1 .. Len(s) + 1 : i \in 1 .. Len(s) \/ i = Len(s) + 1
      BY <3>3
    <3>7. \A i \in 1 .. Len(tasks'[b]) : tasks'[b][i][2] <= offset'[b]
      BY <2>1, <2>2, <2>6, <3>3, <3>4, <3>6
    <3>8. ASSUME NEW i \in 1 .. Len(s) + 1, NEW j \in 1 .. Len(s) + 1, i < j
          PROVE  tasks'[b][i][2] < tasks'[b][j][2]
      <4>1. i \in 1 .. Len(s)
        BY <3>3, <3>8
      <4>2. CASE j \in 1 .. Len(s)
        BY <2>2, <3>3, <3>8, <4>1, <4>2
      <4>3. CASE j = Len(s) + 1
        BY <3>3, <3>4, <3>5, <4>1, <4>3
      <4> QED BY <3>6, <4>2, <4>3
    <3> QED BY <3>3, <3>7, <3>8
  <2> QED BY <2>3, <2>4, <2>5, <2>6, TasksMove
<1> QED BY <1>1 DEF Ordered, Behind

\* What follows a waiting task stays untaken: only the first task is begun, and
\* what comes later than the update in hand has no row.
LEMMA PendingStep == ASSUME TInv, AInv, OInv, [Next]_vars PROVE Pending'
<1> SUFFICES ASSUME NEW b \in Bots, NEW v \in Ids, NEW i \in 1 .. Len(tasks'[b]),
                    tasks'[b][i][2] < v, Jobless(<<b, v>>)'
             PROVE  inbound'[<<b, v>>] \notin Taken
  BY DEF Pending, Taken
<1> DEFINE x == <<b, v>>
           s == tasks[b]
<1>1. x \in Updates /\ Jobless(x) /\ v \in Nat
  BY JobsStay, IngestAssumption DEF Updates
<1>2. s \in Seq(Updates) /\ Len(s) \in Nat
  BY DEF TInv, TypeOK
<1>3. ASSUME NEW j \in 1 .. Len(s), s[j][2] < v PROVE inbound[x] \notin Taken
  BY <1>1, <1>3 DEF OInv, Pending
<1>4. inbound[x] \notin Taken
  <2>1. CASE tasks'[b] = s
    BY <1>3, <2>1
  <2>2. CASE tasks'[b] = <<>>
    BY <2>2
  <2>3. CASE NextTask(b) /\ tasks'[b] = Tail(s)
    <3>1. Len(Tail(s)) = Len(s) - 1 /\ \A j \in 1 .. Len(Tail(s)) : Tail(s)[j] = s[j + 1]
      BY <1>2, <2>3 DEF NextTask
    <3>2. i + 1 \in 1 .. Len(s) /\ tasks'[b][i] = s[i + 1]
      BY <1>2, <2>3, <3>1
    <3> HIDE DEF s, x
    <3> QED BY <1>3, <3>2
  <2>4. CASE /\ pc[b] \in {"persisted", "raised"} /\ tasks'[b] = Append(s, Current(b))
    <3>1. CASE i \in 1 .. Len(s)
      <4>1. tasks'[b][i] = s[i]
        BY <1>2, <2>4, <3>1, CurrentIsUpdate
      <4> QED BY <1>3, <3>1, <4>1
    <3>2. CASE i \notin 1 .. Len(s)
      <4>1. tasks'[b][i] = Current(b) /\ Current(b)[2] = offset[b]
        BY <1>2, <2>4, <3>2, CurrentIsUpdate DEF Current
      <4>2. v > offset[b] /\ offset[b] \in Nat
        BY <1>1, <4>1, OffsetsGrow
      <4>3. inbound[x] = "none"
        BY <4>2 DEF OInv, Ahead
      <4> QED BY <4>3 DEF Taken
    <3> QED BY <3>1, <3>2
  <2> QED BY <2>1, <2>2, <2>3, <2>4, TasksMove
<1>5. ASSUME NEW c \in Bots, StartTask(c), x = Head(tasks[c]) PROVE FALSE
  <2>1. tasks[c] # <<>> /\ tasks[c] \in Seq(Updates) /\ tasks' = [tasks EXCEPT ![c] = Tail(tasks[c])]
    BY <1>5 DEF StartTask, NextTask, TInv, TypeOK
  <2>2. /\ Len(tasks[c]) \in Nat /\ 1 \in 1 .. Len(tasks[c]) /\ x = tasks[c][1]
        /\ Len(Tail(tasks[c])) = Len(tasks[c]) - 1
        /\ \A j \in 1 .. Len(Tail(tasks[c])) : Tail(tasks[c])[j] = tasks[c][j + 1]
    BY <1>5, <2>1
  <2>3. c = b
    BY <2>2 DEF AInv, Waiting
  <2>4. tasks'[b] = Tail(s)
    BY <2>1, <2>3 DEF TInv, TypeOK
  <2>5. i + 1 \in 1 .. Len(s) /\ 1 < i + 1 /\ tasks'[b][i] = s[i + 1] /\ x = s[1] /\ 1 \in 1 .. Len(s)
    BY <2>2, <2>3, <2>4
  <2>6. s[1][2] < s[i + 1][2]
    BY <2>5 DEF OInv, Ordered
  <2>7. s[i + 1][2] \in Nat /\ s[1][2] = v
    BY <2>5, TaskIds
  <2> QED BY <1>1, <2>5, <2>6, <2>7
<1> HIDE DEF x, s
<1>6. inbound'[x] = inbound[x] \/ inbound'[x] \notin Taken
  BY <1>1, <1>4, <1>5, RowMoves
<1> QED BY <1>4, <1>6 DEF x

\* The turns a poller's process runs begin in the order of the messages,
\* whatever was redelivered, refused or lost in a crash: the poller appends the
\* update it has in hand, which is later than every task, and later updates
\* have no row yet.
THEOREM OrderKept == Spec => TurnsInOrder
<1> DEFINE InOrder == \A b \in Bots, u \in Ids, v \in Ids :
                u < v /\ turn' = <<b, <<b, u>>>> /\ turn' # turn /\ Jobless(<<b, v>>) =>
                    inbound[<<b, v>>] \notin {"processing_started", "processed"}
<1>1. Init => OInv
  <2>1. Init => Ahead
    BY DEF Init, Ahead, Updates
  <2>2. Init => \A b \in Bots : 1 .. Len(tasks[b]) = {}
    <3>1. Init => \A b \in Bots : tasks[b] = <<>>
      BY DEF Init
    <3>2. \A b \in Bots : tasks[b] = <<>> => 1 .. Len(tasks[b]) = {}
      OBVIOUS
    <3> QED BY <3>1, <3>2
  <2> QED BY <2>1, <2>2 DEF OInv, Ordered, Behind, Pending
<1>2. TInv /\ AInv /\ OInv /\ [Next]_vars => OInv'
  BY AheadStep, OrderedStep, PendingStep DEF OInv
<1>3. TInv /\ AInv /\ OInv /\ [Next]_vars => [InOrder]_vars
  <2> SUFFICES ASSUME TInv, AInv, OInv, [Next]_vars, NEW b \in Bots, NEW u \in Ids, NEW v \in Ids,
                      u < v, turn' = <<b, <<b, u>>>>, turn' # turn, Jobless(<<b, v>>)
               PROVE  inbound[<<b, v>>] \notin Taken
    BY DEF Taken
  <2>1. StartTask(b) /\ Head(tasks[b]) = <<b, u>>
    <3>1. ASSUME NEW c \in Bots, UserWrites(c) \/ Poll(c) \/ IterationError(c) PROVE turn' = turn
      BY <3>1 DEF UserWrites, Poll, FetchUpdates, Drop, Persist, Ignore, DispatchInline, FallBack, SaveOffset,
                  Greet, EnqueueMessage, IterationError
    <3>2. ASSUME NEW w \in Ids, Consume(w) \/ MarkDoneFails(w) \/ JobCrash(w)
          PROVE  turn' \in {turn, None, <<Runner, job[w]>>}
      BY <3>2 DEF Consume, StartJob, RefuseJob, CloseJob, FailJob, SettleJob, EndJobTurn, BeginTurn, RefuseTurn,
                  EndTurn, MarkDoneFails, JobCrash
    <3>3. ASSUME NEW c \in Bots, Crash(c) \/ RefuseTask(c) PROVE turn' \in {turn, None}
      BY <3>3 DEF Crash, RefuseTask, RefuseTurn
    <3>4. ASSUME NEW c \in Bots, NEW y \in Updates, NEW end \in Ends, EndTask(c, y, end) PROVE turn' = None
      BY <3>4 DEF EndTask, EndTurn
    <3>5. turn' # None /\ \A y : turn' # <<Runner, y>>
      BY IngestAssumption DEF Updates
    <3>6. turn' = turn \/ \E c \in Bots : StartTask(c)
      BY <3>1, <3>2, <3>3, <3>4, <3>5 DEF Next, Work, Fail, vars
    <3>7. PICK c \in Bots : StartTask(c)
      BY <3>6
    <3>8. turn' = <<c, Head(tasks[c])>>
      BY <3>7 DEF StartTask, BeginTurn
    <3> QED BY <3>7, <3>8
  <2>2. 1 \in 1 .. Len(tasks[b]) /\ tasks[b][1] = <<b, u>>
    BY <2>1 DEF StartTask, NextTask, TInv, TypeOK
  <2> QED BY <2>2 DEF OInv, Pending
<1> HIDE DEF InOrder
<1>4. Spec => [][InOrder]_vars
  BY <1>1, <1>2, <1>3, AnsweredAlways, PTL DEF Spec
<1> QED BY <1>4 DEF TurnsInOrder, InOrder

-----------------------------------------------------------------------------
(***************************************************************************)
(* What it takes for an ingested message not to be stranded                *)
(***************************************************************************)
\* The poller goes on: no exception leaves an iteration and its process does
\* not die.  The job runner may.
CalmNext ==
    \/ \E b \in Bots : UserWrites(b) \/ Poll(b) \/ Work(b)
    \/ \E u \in Ids : Consume(u) \/ MarkDoneFails(u) \/ JobCrash(u)

CalmSpec == Init /\ [][CalmNext]_vars

\* No two updates share a key of the queue: there is one bot, or no queue.
OneKey == (\A a, b \in Bots : a = b) \/ TRUE \notin QueueModes

\* The cases of NoneStranded.
InHand(x) == pc[x[1]] \in {"persisted", "raised"} /\ Current(x[1]) = x

Cared(x) ==
    \/ InHand(x)
    \/ \E i \in 1 .. Len(tasks[x[1]]) : tasks[x[1]][i] = x
    \/ \E u \in Ids : job[u] = x
    \/ x \in tried

NoQueueNoJob == TRUE \notin QueueModes => \A u \in Ids : job[u] = None

SInv == NoQueueNoJob /\ \A x \in Updates : inbound[x] = "ingested" => Cared(x)

\* What has been tried or has a job stays so; a task is taken by trying it.
LEMMA CareKept ==
    ASSUME TInv, AInv, CalmNext, NEW x \in Updates, Cared(x), InHand(x) => InHand(x)'
    PROVE  Cared(x)'
<1>0. /\ [Next]_vars /\ x[1] \in Bots /\ x # None
  BY IngestAssumption DEF CalmNext, Next, Fail, Updates
<1> DEFINE b == x[1]
           s == tasks[b]
<1>1. CASE InHand(x)
  BY <1>1 DEF Cared
<1>2. CASE \E u \in Ids : job[u] = x
  BY <1>0, <1>2, JobsStay DEF Jobless, Cared
<1>3. tried \subseteq tried'
  BY DEF CalmNext, UserWrites, Poll, FetchUpdates, Drop, Persist, Ignore, DispatchInline, FallBack, SaveOffset,
         Greet, EnqueueMessage, Work, StartTask, RefuseTask, EndTask, NextTask, Consume, StartJob, RefuseJob,
         CloseJob, FailJob, SettleJob, EndJobTurn, MarkDoneFails, JobCrash
<1>4. CASE \E i \in 1 .. Len(s) : s[i] = x
  <2>1. s \in Seq(Updates) /\ Len(s) \in Nat
    BY <1>0 DEF TInv, TypeOK
  <2>2. PICK i \in 1 .. Len(s) : s[i] = x
    BY <1>4
  <2>3. CASE tasks'[b] = s
    BY <1>4, <2>3 DEF Cared
  <2>4. CASE tasks'[b] # s
    <3>1. \/ NextTask(b)
          \/ /\ pc[b] # "idle" /\ tasks'[b] = Append(s, Current(b))
    <4>1. ASSUME NEW c \in Bots, Poll(c)
          PROVE  tasks' = tasks \/ (pc[c] # "idle" /\ tasks' = [tasks EXCEPT ![c] = Append(tasks[c], Current(c))])
      BY <4>1 DEF Poll, FetchUpdates, Drop, Persist, Ignore, DispatchInline, FallBack, SaveOffset, Greet,
                  EnqueueMessage, Spawn
    <4>2. ASSUME NEW c \in Bots, UserWrites(c) \/ Work(c)
          PROVE  tasks' = tasks \/ (NextTask(c) /\ tasks' = [tasks EXCEPT ![c] = Tail(tasks[c])])
      BY <4>2 DEF UserWrites, Work, StartTask, RefuseTask, EndTask, NextTask
    <4>3. ASSUME NEW u \in Ids, Consume(u) \/ MarkDoneFails(u) \/ JobCrash(u) PROVE tasks' = tasks
      BY <4>3 DEF Consume, StartJob, RefuseJob, CloseJob, FailJob, SettleJob, EndJobTurn, MarkDoneFails, JobCrash
    <4> QED BY <1>0, <2>4, <4>1, <4>2, <4>3 DEF CalmNext, TInv, TypeOK
    <3>2. CASE NextTask(b)
      <4>1. s # <<>> /\ tasks'[b] = Tail(s) /\ tried' = tried \cup {Head(s)}
        BY <1>0, <3>2 DEF NextTask, TInv, TypeOK
      <4>2. CASE i = 1
        BY <2>1, <2>2, <4>1, <4>2 DEF Cared
      <4>3. CASE i # 1
        <5>1. i - 1 \in 1 .. Len(Tail(s)) /\ Tail(s)[i - 1] = s[i]
          BY <2>1, <2>2, <4>1, <4>3
        <5> QED BY <2>2, <4>1, <5>1 DEF Cared
      <4> QED BY <4>2, <4>3
    <3>3. CASE pc[b] # "idle" /\ tasks'[b] = Append(s, Current(b))
      <4>1. i \in 1 .. Len(tasks'[b]) /\ tasks'[b][i] = x
        BY <1>0, <2>1, <2>2, <3>3, CurrentIsUpdate
      <4> QED BY <4>1 DEF Cared
    <3> QED BY <3>1, <3>2, <3>3
  <2> QED BY <2>3, <2>4
<1>5. CASE x \in tried
  BY <1>3, <1>5 DEF Cared
<1> QED BY <1>1, <1>2, <1>4, <1>5 DEF Cared

\* The update in hand becomes a task or a job, or is ignored; a key that is taken
\* is its own.
LEMMA CareInHand ==
    ASSUME TInv, AInv, SInv, OneKey, NEW b \in Bots, Poll(b),
           pc[b] \in {"persisted", "raised"}, inbound'[Current(b)] = "ingested"
    PROVE  Cared(Current(b))'
<1>1. /\ Current(b) \in Updates /\ offset[b] \in Ids /\ Current(b)[1] = b /\ Current(b)[2] = offset[b]
      /\ tasks[b] \in Seq(Updates) /\ tasks \in [Bots -> Seq(Updates)] /\ job \in [Ids -> Updates \cup {None}]
      /\ inbound \in [Updates -> {"none", "ingested", "processing_started", "processed", "ignored"}]
      /\ pc \in [Bots -> {"idle", "batch", "greeted", "persisted", "raised", "handled"}]
  BY CurrentIsUpdate DEF Current, TInv, TypeOK
<1>2. job[offset[b]] \in {None, Current(b)}
  <2>1. SUFFICES ASSUME job[offset[b]] # None PROVE job[offset[b]] = Current(b)
    OBVIOUS
  <2>2. job[offset[b]] \in Bots \X Ids /\ job[offset[b]][2] = offset[b]
    BY <1>1, <2>1 DEF AInv, Keyed, Updates
  <2>3. \A a, c \in Bots : a = c
    BY <1>1, <2>1 DEF OneKey, SInv, NoQueueNoJob
  <2> QED BY <2>2, <2>3 DEF Current
<1>3. ASSUME Spawn(b), UNCHANGED offset PROVE Cared(Current(b))'
  <2>1. Len(tasks[b]) + 1 \in 1 .. Len(tasks'[b]) /\ tasks'[b][Len(tasks[b]) + 1] = Current(b)
    BY <1>1, <1>3 DEF Spawn
  <2>2. Current(b)' = Current(b)
    BY <1>3 DEF Current
  <2> QED BY <1>1, <2>1, <2>2 DEF Cared
<1>4. ASSUME job'[offset[b]] = Current(b), UNCHANGED offset PROVE Cared(Current(b))'
  <2>1. Current(b)' = Current(b)
    BY <1>4 DEF Current
  <2> QED BY <1>1, <1>4, <2>1 DEF Cared
<1>5. ~ (FetchUpdates(b) \/ Drop(b) \/ Persist(b) \/ SaveOffset(b) \/ \E ok \in BOOLEAN : Greet(b, ok))
  BY DEF FetchUpdates, Drop, Persist, SaveOffset, Greet
<1>6. ~ Ignore(b)
  BY <1>1 DEF Ignore
<1>7. CASE DispatchInline(b)
  BY <1>3, <1>7 DEF DispatchInline
<1>8. CASE FallBack(b)
  <2>1. UNCHANGED offset
    BY <1>8 DEF FallBack
  <2>2. CASE job[offset[b]] = None
    BY <1>3, <1>8, <2>1, <2>2 DEF FallBack
  <2>3. CASE job[offset[b]] # None
    <3>1. job' = job
      BY <1>8, <2>3 DEF FallBack, jobVars
    <3> QED BY <1>2, <1>4, <2>1, <2>3, <3>1
  <2> QED BY <2>2, <2>3
<1>9. ASSUME NEW landed \in BOOLEAN, EnqueueMessage(b, landed) PROVE Cared(Current(b))'
  <2>1. UNCHANGED offset
    BY <1>9 DEF EnqueueMessage
  <2>2. CASE landed
    <3>1. job'[offset[b]] = Current(b)
      BY <1>1, <1>2, <1>9, <2>2 DEF EnqueueMessage
    <3> QED BY <1>4, <2>1, <3>1
  <2>3. CASE ~ landed
    <3>1. pc'[b] = "raised"
      BY <1>1, <1>9, <2>3 DEF EnqueueMessage, Goto
    <3> QED BY <1>1, <2>1, <3>1 DEF Cared, InHand, Current
  <2> QED BY <2>2, <2>3
<1> QED BY <1>5, <1>6, <1>7, <1>8, <1>9 DEF Poll

\* Only the poller makes a row that waits, and has it in hand.
LEMMA CareStep == ASSUME TInv, AInv, SInv, OneKey, CalmNext PROVE SInv'
<1>1. NoQueueNoJob'
  <2>1. job' = job \/ TRUE \in QueueModes
    BY DEF CalmNext, UserWrites, Poll, FetchUpdates, Drop, Persist, Ignore, DispatchInline, FallBack, SaveOffset,
           Greet, EnqueueMessage, Spawn, Work, StartTask, RefuseTask, EndTask, Consume, StartJob, RefuseJob,
           CloseJob, FailJob, SettleJob, EndJobTurn, MarkDoneFails, JobCrash, jobVars
  <2> QED BY <2>1 DEF SInv, NoQueueNoJob
<1>2. ASSUME NEW x \in Updates, inbound'[x] = "ingested" PROVE Cared(x)'
  <2>0. x[1] \in Bots
    BY DEF Updates
  <2>1. ASSUME NEW b \in Bots, Poll(b) PROVE Cared(x)'
    <3>1. CASE Persist(b) /\ x = Current(b) /\ inbound[x] = "none"
      <4>1. pc'[b] = "persisted" /\ offset' = offset /\ x[1] = b
        BY <3>1 DEF Persist, Goto, Current, TInv, TypeOK
      <4> QED BY <3>1, <4>1 DEF Cared, InHand, Current
    <3>2. CASE pc[b] \in {"persisted", "raised"} /\ x = Current(b)
      <4>1. Cared(Current(b))'
        BY <1>2, <2>1, <3>2, CareInHand
      <4>2. Current(b)' = Current(b)
        BY <2>1, <3>2 DEF Poll, FetchUpdates, Drop, Persist, Ignore, DispatchInline, FallBack, SaveOffset, Greet,
                          EnqueueMessage, Current
      <4> QED BY <3>2, <4>1, <4>2 DEF Cared
    <3>3. CASE /\ ~ (pc[b] \in {"persisted", "raised"} /\ x = Current(b))
               /\ ~ (Persist(b) /\ x = Current(b) /\ inbound[x] = "none")
      <4>1. inbound[x] = "ingested"
        BY <1>2, <2>1, <3>3 DEF Poll, FetchUpdates, Drop, Persist, Ignore, DispatchInline, FallBack, SaveOffset,
                                Greet, EnqueueMessage, TInv, TypeOK
      <4>2. \A c \in Bots : c # b => pc'[c] = pc[c] /\ offset'[c] = offset[c]
        BY <2>1 DEF Poll, FetchUpdates, Drop, Persist, Ignore, DispatchInline, FallBack, SaveOffset, Greet,
                    EnqueueMessage, Goto, TInv, TypeOK
      <4>3. CalmNext /\ Cared(x)
        BY <2>1, <4>1 DEF CalmNext, SInv
      <4>4. InHand(x) => x[1] # b
        BY <3>3 DEF InHand
      <4>5. InHand(x) => InHand(x)'
        BY <2>0, <4>2, <4>4 DEF InHand, Current
      <4> QED BY <4>3, <4>5, CareKept
    <3> QED BY <3>1, <3>2, <3>3
  <2>2. ASSUME CalmNext, UNCHANGED <<pc, offset>>, inbound[x] = "ingested" PROVE Cared(x)'
    <3>1. InHand(x) => InHand(x)'
      BY <2>2 DEF InHand, Current
    <3> QED BY <2>2, <3>1, CareKept DEF SInv
  <2>3. ASSUME NEW b \in Bots, UserWrites(b) \/ Work(b) PROVE Cared(x)'
    <3>1. UNCHANGED <<pc, offset>>
      BY <2>3 DEF UserWrites, Work, StartTask, RefuseTask, EndTask, pollVars
    <3>2. inbound[x] = "ingested"
      BY <1>2, <2>3 DEF UserWrites, Work, StartTask, BeginTurn, RefuseTask, RefuseTurn, EndTask, EndTurn, Ends, TInv,
                        TypeOK
    <3> QED BY <2>2, <3>1, <3>2
  <2>4. ASSUME NEW u \in Ids, Consume(u) \/ MarkDoneFails(u) \/ JobCrash(u) PROVE Cared(x)'
    <3>1. UNCHANGED <<pc, offset>>
      BY <2>4 DEF Consume, StartJob, RefuseJob, CloseJob, FailJob, SettleJob, EndJobTurn, MarkDoneFails, JobCrash,
                  pollVars
    <3>2. inbound[x] = "ingested"
      BY <1>2, <2>4 DEF Consume, StartJob, RefuseJob, CloseJob, FailJob, SettleJob, EndJobTurn, BeginTurn,
                        RefuseTurn, EndTurn, Ends, MarkDoneFails, JobCrash, TInv, TypeOK
    <3>3. CalmNext
      BY <2>4 DEF CalmNext
    <3> QED BY <2>2, <3>1, <3>2, <3>3
  <2> QED BY <2>1, <2>3, <2>4 DEF CalmNext
<1> QED BY <1>1, <1>2 DEF SInv, Cared, Updates

\* As long as the poller goes on, a row that waits has somebody who will look
\* after it, provided that no two bots share the key space of the queue.  Both
\* premises are needed: run ingest_two_bots shows what two bots do, and
\* a poller that dies between the commits finds its row and passes on.
THEOREM NothingStranded == ASSUME OneKey PROVE CalmSpec => []NoneStranded
<1>1. Init => SInv
  BY DEF Init, SInv, NoQueueNoJob
<1>2. Init => TInv /\ AInv
  <2>1. Init => Keyed /\ New /\ Counted
    BY DEF Init, Keyed, New, Counted
  <2>2. Init => Waiting
    BY DEF Init, Waiting
  <2>3. Init => Begun
    BY IngestAssumption DEF Init, Begun, Updates
  <2> QED BY <2>1, <2>2, <2>3, TypeInit DEF AInv
<1>3. TInv /\ AInv /\ SInv /\ [CalmNext]_vars => TInv' /\ AInv' /\ SInv'
  <2>1. CASE CalmNext
    <3>1. [Next]_vars
      BY <2>1 DEF CalmNext, Next, Fail
    <3> QED BY <2>1, <3>1, OneKey, TypeStep, AnsweredStep, CareStep
  <2>2. CASE UNCHANGED vars
    BY <2>2, TypeStep, AnsweredStep DEF SInv, NoQueueNoJob, Cared, InHand, Current, vars, pollVars, jobVars
  <2> QED BY <2>1, <2>2
<1>4. TInv /\ SInv => NoneStranded
  <2> SUFFICES ASSUME TInv, SInv, NEW x \in Updates, inbound[x] = "ingested"
               PROVE  \/ pc[x[1]] \in {"persisted", "raised"} /\ Current(x[1]) = x
                      \/ \E i \in DOMAIN tasks[x[1]] : tasks[x[1]][i] = x
                      \/ \E u \in Ids : job[u] = x
                      \/ x \in tried
    BY DEF NoneStranded
  <2>1. x[1] \in Bots
    BY DEF Updates
  <2>2. DOMAIN tasks[x[1]] = 1 .. Len(tasks[x[1]])
    BY <2>1 DEF TInv, TypeOK
  <2> QED BY <2>2 DEF SInv, Cared, InHand
<1> QED BY <1>1, <1>2, <1>3, <1>4, PTL DEF CalmSpec

=============================================================================
