------------------------------ MODULE LlmGuard ------------------------------
(***************************************************************************)
(* The guard around every call of a chat model: the process-wide bulkhead  *)
(* and the per-provider circuit breaker (services/llm_bulkhead.py), the    *)
(* two wrappers that use them (services/llm.py) and the primary/fallback   *)
(* kernel above them (runtime/llm_caller.py, runtime/react_loop.py).       *)
(*                                                                         *)
(* A call tries the providers of its route in turn; a try is a leg.  Every *)
(* leg runs the provider on a thread of its own, which a wall-clock        *)
(* timeout frees the caller from but cannot stop: the thread goes on and   *)
(* keeps its permit.  Nothing is assumed about when, or whether, a         *)
(* provider answers.                                                       *)
(*                                                                         *)
(* Time is abstracted to what the code compares: a cooldown has passed or  *)
(* not, and a deadline may come at any moment of a wait.  The kill switch  *)
(* llm_reliability_guard_enabled is on, and every caller names its         *)
(* provider (without a name there is a bulkhead and no breaker).           *)
(***************************************************************************)
EXTENDS Naturals, FiniteSets, Sequences

CONSTANTS Calls,          \* calls of ainvoke_with_fallback or of a react node
          Providers,      \* provider names: a breaker each
          Route,          \* the providers a call tries, primary first
          Async,          \* the calls of LlmCaller, awaited by a task; react's block
          Streaming,      \* of these, the ones with a progress callback: they stream
          MAX_CONCURRENT, \* llm_bulkhead_max_concurrent
          OPEN_AFTER,     \* llm_breaker_open_after_timeouts
          BUFFER,         \* _STREAM_BUFFER_MAXSIZE
          MaxChunks,      \* bound: chunks a provider streams in one leg
          NoCall          \* no probe is outstanding

ASSUME GuardAssumption ==
    /\ IsFiniteSet(Calls)
    /\ Route \in [Calls -> Seq(Providers)]
    /\ \A c \in Calls : Len(Route[c]) >= 1
    /\ Streaming \subseteq Async
    /\ Async \subseteq Calls
    /\ MAX_CONCURRENT \in Nat
    /\ OPEN_AFTER \in Nat \ {0}
    /\ BUFFER \in Nat \ {0}
    /\ MaxChunks \in Nat
    /\ NoCall \notin Calls

Legs == UNION {{<<c, n>> : n \in 1 .. Len(Route[c])} : c \in Calls}
Kinds == {"invoke", "stream"}
Threads == Legs \X Kinds

VARIABLES
    opened,    \* _opened_at against the clock: closed, open, cooled
    streak,    \* _consecutive_timeouts
    gen,       \* _generation
    probe,     \* _probe_token: the call that holds it
    inFlight,  \* _Bulkhead._in_flight
    pc,        \* where a call is in its wrapper
    leg,       \* which provider of its route it is trying
    deleg,     \* the stream ended and the call is re-invoking
    awaited,   \* the task that awaits the call has not been cancelled
    attempt,   \* its unresolved _BreakerAttempt, or NoAttempt
    thread,    \* the worker thread of each leg
    permits,   \* the threads whose done-callback has not run yet
    buffered,  \* chunks in the leg's queue
    sent,      \* chunks the leg's worker has put there
    last,      \* what follows the chunks in the queue: none, done, error
    abandoned  \* the leg's consumer has left

breakerVars == <<opened, streak, gen, probe>>
streamVars == <<buffered, sent, last, abandoned>>
threadVars == <<inFlight, thread, permits>>
callVars == <<pc, leg, deleg, awaited, attempt>>
vars == <<breakerVars, threadVars, callVars, streamVars>>

NoAttempt == [probe |-> FALSE, gen |-> 0, live |-> FALSE]
Attempt(isProbe, g) == [probe |-> isProbe, gen |-> g, live |-> TRUE]

Provider(c) == Route[c][leg[c]]
LegOf(c) == <<c, leg[c]>>
Streams(c) == c \in Streaming /\ ~ deleg[c]
ThreadOf(c) == <<LegOf(c), IF Streams(c) THEN "stream" ELSE "invoke">>

Living == {"queued", "running", "putting", "exiting"}
Ended == {"ok", "error", "timeout"}

Init ==
    /\ opened = [p \in Providers |-> "closed"]
    /\ streak = [p \in Providers |-> 0]
    /\ gen = [p \in Providers |-> 0]
    /\ probe = [p \in Providers |-> NoCall]
    /\ inFlight = 0
    /\ pc = [c \in Calls |-> "start"]
    /\ leg = [c \in Calls |-> 1]
    /\ deleg = [c \in Calls |-> FALSE]
    /\ awaited = [c \in Calls |-> TRUE]
    /\ attempt = [c \in Calls |-> NoAttempt]
    /\ thread = [t \in Threads |-> "none"]
    /\ permits = {}
    /\ buffered = [l \in Legs |-> 0]
    /\ sent = [l \in Legs |-> 0]
    /\ last = [l \in Legs |-> "none"]
    /\ abandoned = [l \in Legs |-> FALSE]

-----------------------------------------------------------------------------
(***************************************************************************)
(* _CircuitBreaker: an outcome counts only for the call that the present   *)
(* generation admitted, and only the probe's owner moves an open breaker.  *)
(***************************************************************************)
OwnsProbe(c) == attempt[c].probe /\ probe[Provider(c)] = c

\* Mutant: a late outcome is taken whatever generation admitted its call.
AnyClosedGen(c) == ~ attempt[c].probe /\ opened[Provider(c)] = "closed"

IsCurrentClosedGen(c) ==
    /\ ~ attempt[c].probe
    /\ opened[Provider(c)] = "closed"
    /\ attempt[c].gen = gen[Provider(c)]

RecordSuccess(c) ==
    LET p == Provider(c) IN
    IF OwnsProbe(c)
      THEN /\ opened' = [opened EXCEPT ![p] = "closed"]
           /\ probe' = [probe EXCEPT ![p] = NoCall]
           /\ streak' = [streak EXCEPT ![p] = 0]
           /\ gen' = [gen EXCEPT ![p] = @ + 1]
      ELSE /\ streak' = [streak EXCEPT ![p] = IF IsCurrentClosedGen(c) THEN 0 ELSE @]
           /\ UNCHANGED <<opened, gen, probe>>

RecordTimeout(c) ==
    LET p == Provider(c)
        trips == IsCurrentClosedGen(c) /\ streak[p] + 1 >= OPEN_AFTER
    IN  IF OwnsProbe(c) \/ trips
          THEN /\ opened' = [opened EXCEPT ![p] = "open"]
               /\ probe' = [probe EXCEPT ![p] = NoCall]
               /\ streak' = [streak EXCEPT ![p] = @ + 1]
               /\ gen' = [gen EXCEPT ![p] = @ + 1]
          ELSE /\ streak' = [streak EXCEPT ![p] = IF IsCurrentClosedGen(c) THEN @ + 1 ELSE @]
               /\ UNCHANGED <<opened, gen, probe>>

RecordOtherError(c) ==
    /\ probe' = IF OwnsProbe(c) THEN [probe EXCEPT ![Provider(c)] = NoCall] ELSE probe
    /\ UNCHANGED <<opened, streak, gen>>

\* The cooldown of an open breaker runs out.
CoolDown(p) ==
    /\ opened[p] = "open"
    /\ opened' = [opened EXCEPT ![p] = "cooled"]
    /\ UNCHANGED <<streak, gen, probe, threadVars, callVars, streamVars>>

-----------------------------------------------------------------------------
(***************************************************************************)
(* How a leg ends.  An exception of the primary makes the kernel try the   *)
(* fallback; a call nobody awaits any more goes no further.                *)
(***************************************************************************)
Resolve(c, outcome) ==
    /\ IF ~ attempt[c].live THEN UNCHANGED breakerVars
       ELSE CASE outcome = "success" -> RecordSuccess(c)
              [] outcome = "timeout" -> RecordTimeout(c)
              [] OTHER -> RecordOtherError(c)
    /\ attempt' = [attempt EXCEPT ![c] = NoAttempt]

Returns(c) ==
    /\ pc' = [pc EXCEPT ![c] = "done"]
    /\ deleg' = [deleg EXCEPT ![c] = FALSE]
    /\ awaited' = [awaited EXCEPT ![c] = TRUE]
    /\ UNCHANGED leg

Raises(c) ==
    IF awaited[c] /\ leg[c] < Len(Route[c])
      THEN /\ pc' = [pc EXCEPT ![c] = "start"]
           /\ leg' = [leg EXCEPT ![c] = @ + 1]
           /\ deleg' = [deleg EXCEPT ![c] = FALSE]
           /\ UNCHANGED awaited
      ELSE Returns(c)

Outcome(c, outcome) ==
    /\ Resolve(c, outcome)
    /\ IF outcome = "success" THEN Returns(c) ELSE Raises(c)

Release == inFlight' = IF inFlight > 0 THEN inFlight - 1 ELSE inFlight

\* executor.shutdown(wait=False, cancel_futures=True): work that has not
\* started is cancelled, and its done-callback gives the permit back; a
\* thread that runs is left alone.
Shutdown(t) ==
    IF thread[t] = "queued"
      THEN /\ thread' = [thread EXCEPT ![t] = "none"]
           /\ permits' = permits \ {t}
           /\ Release
      ELSE UNCHANGED threadVars

-----------------------------------------------------------------------------
(***************************************************************************)
(* The entry of both wrappers: breaker, bulkhead, thread.                  *)
(***************************************************************************)
Admit(c) ==
    /\ pc[c] = "start"
    /\ opened[Provider(c)] = "closed"
    /\ attempt' = [attempt EXCEPT ![c] = Attempt(FALSE, gen[Provider(c)])]
    /\ pc' = [pc EXCEPT ![c] = "admitted"]
    /\ UNCHANGED <<breakerVars, threadVars, leg, deleg, awaited, streamVars>>

AdmitProbe(c) ==
    /\ pc[c] = "start"
    /\ opened[Provider(c)] = "cooled"
    /\ probe[Provider(c)] = NoCall
    /\ probe' = [probe EXCEPT ![Provider(c)] = c]
    /\ attempt' = [attempt EXCEPT ![c] = Attempt(TRUE, gen[Provider(c)])]
    /\ pc' = [pc EXCEPT ![c] = "admitted"]
    /\ UNCHANGED <<opened, streak, gen, threadVars, leg, deleg, awaited, streamVars>>

\* LLMCircuitOpen: no thread and no socket.
Refuse(c) ==
    /\ pc[c] = "start"
    /\ \/ opened[Provider(c)] = "open"
       \/ opened[Provider(c)] = "cooled" /\ probe[Provider(c)] # NoCall
    /\ Raises(c)
    /\ UNCHANGED <<breakerVars, threadVars, attempt, streamVars>>

Acquire(c) ==
    /\ pc[c] = "admitted"
    /\ inFlight < MAX_CONCURRENT
    /\ inFlight' = inFlight + 1
    /\ pc' = [pc EXCEPT ![c] = "holding"]
    /\ UNCHANGED <<breakerVars, thread, permits, leg, deleg, awaited, attempt, streamVars>>

\* LLMBulkheadFull, before a thread exists.
Full(c) ==
    /\ pc[c] = "admitted"
    /\ inFlight >= MAX_CONCURRENT
    /\ Outcome(c, "error")
    /\ UNCHANGED <<threadVars, streamVars>>

Submit(c) ==
    /\ pc[c] = "holding"
    /\ thread' = [thread EXCEPT ![ThreadOf(c)] = "queued"]
    /\ permits' = permits \cup {ThreadOf(c)}
    /\ pc' = [pc EXCEPT ![c] = IF Streams(c) THEN "streaming" ELSE "waiting"]
    /\ UNCHANGED <<breakerVars, inFlight, leg, deleg, awaited, attempt, streamVars>>

\* Mutant: a failed submit gives the permit back and forgets the breaker.
SubmitFailsSilently(c) ==
    /\ pc[c] = "holding"
    /\ Release
    /\ attempt' = [attempt EXCEPT ![c] = NoAttempt]
    /\ Raises(c)
    /\ UNCHANGED <<breakerVars, thread, permits, streamVars>>

\* ThreadPoolExecutor or submit raises: permit and attempt both go back.
SubmitFails(c) ==
    /\ pc[c] = "holding"
    /\ Release
    /\ Outcome(c, "error")
    /\ UNCHANGED <<thread, permits, streamVars>>

-----------------------------------------------------------------------------
(***************************************************************************)
(* invoke_with_per_call_timeout after the submit.  A TimeoutError raised   *)
(* by the provider's client is caught by the clause meant for the deadline *)
(* (concurrent.futures.TimeoutError is the builtin since Python 3.11).     *)
(***************************************************************************)
Result(c) ==
    /\ pc[c] = "waiting"
    /\ thread[ThreadOf(c)] \in Ended
    /\ Outcome(c, CASE thread[ThreadOf(c)] = "ok" -> "success"
                    [] thread[ThreadOf(c)] = "timeout" -> "timeout"
                    [] OTHER -> "error")
    /\ thread' = [thread EXCEPT ![ThreadOf(c)] = "none"]
    /\ UNCHANGED <<inFlight, permits, streamVars>>

\* Mutant: the permit goes back at the deadline, as if the thread had ended.
DeadlineFreesPermit(c) ==
    /\ pc[c] = "waiting"
    /\ thread[ThreadOf(c)] \in {"queued", "running"}
    /\ Outcome(c, "timeout")
    /\ Release
    /\ permits' = permits \ {ThreadOf(c)}
    /\ UNCHANGED <<thread, streamVars>>

Deadline(c) ==
    /\ pc[c] = "waiting"
    /\ thread[ThreadOf(c)] \in {"queued", "running"}
    /\ Shutdown(ThreadOf(c))
    /\ Outcome(c, "timeout")
    /\ UNCHANGED streamVars

-----------------------------------------------------------------------------
(***************************************************************************)
(* ainvoke_with_streaming_timeout: the consumer's loop and what follows.   *)
(* The whole wrapper is one breaker attempt.                               *)
(***************************************************************************)
Abandon(c) ==
    /\ abandoned' = [abandoned EXCEPT ![LegOf(c)] = TRUE]
    /\ Shutdown(ThreadOf(c))

\* The consumer returns: what it had read of the queue goes with its frame.
Forget(c) ==
    /\ sent' = [sent EXCEPT ![LegOf(c)] = 0]
    /\ last' = [last EXCEPT ![LegOf(c)] = "none"]

TakeChunk(c) ==
    /\ pc[c] = "streaming"
    /\ buffered[LegOf(c)] > 0
    /\ buffered' = [buffered EXCEPT ![LegOf(c)] = @ - 1]
    /\ UNCHANGED <<breakerVars, threadVars, callVars, sent, last, abandoned>>

TakeDone(c) ==
    /\ pc[c] = "streaming"
    /\ buffered[LegOf(c)] = 0
    /\ last[LegOf(c)] = "done"
    /\ Abandon(c)
    /\ pc' = [pc EXCEPT ![c] = "draining"]
    /\ UNCHANGED <<breakerVars, leg, deleg, awaited, attempt, buffered, sent, last>>

\* The worker's error, or an exception of on_text_update.
StreamFails(c) ==
    /\ pc[c] = "streaming"
    /\ buffered[LegOf(c)] > 0 \/ last[LegOf(c)] = "error"
    /\ Abandon(c)
    /\ Outcome(c, "error")
    /\ Forget(c)
    /\ UNCHANGED buffered

\* The awaiting task is cancelled: not an Exception, so there is no fallback.
StreamCancelled(c) ==
    /\ pc[c] = "streaming"
    /\ Abandon(c)
    /\ Resolve(c, "error")
    /\ Returns(c)
    /\ Forget(c)
    /\ UNCHANGED buffered

\* Mutant: the deadline is looked at between chunks, the read itself waits.
StreamDeadlineBetweenChunks(c) ==
    /\ pc[c] = "streaming"
    /\ buffered[LegOf(c)] > 0
    /\ Abandon(c)
    /\ Outcome(c, "timeout")
    /\ Forget(c)
    /\ UNCHANGED buffered

StreamDeadline(c) ==
    /\ pc[c] = "streaming"
    /\ Abandon(c)
    /\ Outcome(c, "timeout")
    /\ Forget(c)
    /\ UNCHANGED buffered

\* The worker's future is awaited, so that its permit is back before a
\* re-invoke takes one.
Drained(c) ==
    /\ pc[c] = "draining"
    /\ thread[ThreadOf(c)] \in Ended
    /\ thread' = [thread EXCEPT ![ThreadOf(c)] = "none"]
    /\ pc' = [pc EXCEPT ![c] = "finishing"]
    /\ UNCHANGED <<breakerVars, inFlight, permits, leg, deleg, awaited, attempt, streamVars>>

\* A cancellation that lands on that await is swallowed.
CancelSwallowed(c) ==
    /\ pc[c] = "draining"
    /\ pc' = [pc EXCEPT ![c] = "finishing"]
    /\ UNCHANGED <<breakerVars, threadVars, leg, deleg, awaited, attempt, streamVars>>

Answer(c) ==
    /\ pc[c] = "finishing"
    /\ sent[LegOf(c)] > 0
    /\ Outcome(c, "success")
    /\ Forget(c)
    /\ UNCHANGED <<threadVars, buffered, abandoned>>

\* Nothing was streamed, or tool calls without their reasoning: the call is
\* made again with _skip_breaker, under a permit of its own.
Delegate(c) ==
    /\ pc[c] = "finishing"
    /\ pc' = [pc EXCEPT ![c] = "admitted"]
    /\ deleg' = [deleg EXCEPT ![c] = TRUE]
    /\ Forget(c)
    /\ UNCHANGED <<breakerVars, threadVars, leg, awaited, attempt, buffered, abandoned>>

\* The awaiting task is cancelled while the blocking wrapper runs in its
\* to_thread worker: that worker goes on alone.  A stream wrapper resolves its
\* attempt on the way out, a blocking one leaves that to the worker.
Cancel(c) ==
    /\ c \in Async
    /\ awaited[c]
    /\ pc[c] \in {"admitted", "holding", "waiting"}
    /\ ~ Streams(c)
    /\ awaited' = [awaited EXCEPT ![c] = FALSE]
    /\ IF deleg[c] THEN Resolve(c, "error") ELSE UNCHANGED <<breakerVars, attempt>>
    /\ UNCHANGED <<threadVars, pc, leg, deleg, streamVars>>

-----------------------------------------------------------------------------
(***************************************************************************)
(* The threads.  What the provider does is not the caller's to decide.     *)
(***************************************************************************)
Goes(t, from, to) ==
    /\ thread[t] = from
    /\ thread' = [thread EXCEPT ![t] = to]
    /\ UNCHANGED <<breakerVars, inFlight, permits, callVars>>

\* Somebody still holds the thread's future and will read it.
Awaits(t) == \E c \in Calls : pc[c] \in {"waiting", "streaming", "draining"} /\ ThreadOf(c) = t

ThreadStarts(t) == Goes(t, "queued", "running") /\ UNCHANGED streamVars

InvokeEnds(t) ==
    /\ t[2] = "invoke"
    /\ \E outcome \in Ended : Goes(t, "running", IF Awaits(t) THEN outcome ELSE "none")
    /\ UNCHANGED streamVars

StreamChunk(t) ==
    /\ t[2] = "stream"
    /\ sent[t[1]] < MaxChunks
    /\ Goes(t, "running", "putting")
    /\ UNCHANGED streamVars

\* The chunk waits for a free slot of the buffer.
PutChunk(t) ==
    /\ ~ abandoned[t[1]]
    /\ buffered[t[1]] < BUFFER
    /\ Goes(t, "putting", "running")
    /\ buffered' = [buffered EXCEPT ![t[1]] = @ + 1]
    /\ sent' = [sent EXCEPT ![t[1]] = @ + 1]
    /\ UNCHANGED <<last, abandoned>>

\* Mutant: the wait for a slot does not look at `abandoned'.
BailOutWithSlot(t) ==
    /\ abandoned[t[1]]
    /\ buffered[t[1]] < BUFFER
    /\ Goes(t, "putting", "none")
    /\ UNCHANGED streamVars

BailOut(t) ==
    /\ abandoned[t[1]]
    /\ Goes(t, "putting", "none")
    /\ UNCHANGED streamVars

StreamEnds(t) ==
    /\ t[2] = "stream"
    /\ Goes(t, "running", "exiting")
    /\ \E end \in {"done", "error"} :
          last' = [last EXCEPT ![t[1]] = IF abandoned[t[1]] THEN @ ELSE end]
    /\ UNCHANGED <<buffered, sent, abandoned>>

WorkerReturns(t) ==
    /\ Goes(t, "exiting", IF Awaits(t) THEN "ok" ELSE "none")
    /\ UNCHANGED streamVars

\* The done-callback of the thread's future.
ReturnPermit(t) ==
    /\ thread[t] \notin Living
    /\ t \in permits
    /\ permits' = permits \ {t}
    /\ Release
    /\ UNCHANGED <<breakerVars, thread, callVars, streamVars>>

-----------------------------------------------------------------------------
CallStep(c) ==
    \/ Admit(c) \/ AdmitProbe(c) \/ Refuse(c)
    \/ Acquire(c) \/ Full(c)
    \/ Submit(c) \/ SubmitFails(c)
    \/ Result(c) \/ Deadline(c)
    \/ TakeChunk(c) \/ TakeDone(c) \/ StreamFails(c) \/ StreamDeadline(c)
    \/ Drained(c) \/ Answer(c) \/ Delegate(c)

Worker(t) == ThreadStarts(t) \/ PutChunk(t) \/ BailOut(t) \/ WorkerReturns(t) \/ ReturnPermit(t)

ProviderStep(t) == InvokeEnds(t) \/ StreamChunk(t) \/ StreamEnds(t)

Next ==
    \/ \E c \in Calls : CallStep(c) \/ StreamCancelled(c) \/ Cancel(c) \/ CancelSwallowed(c)
    \/ \E t \in Threads : Worker(t) \/ ProviderStep(t)
    \/ \E p \in Providers : CoolDown(p)

Spec == Init /\ [][Next]_vars

\* Runnable code runs: a wrapper goes on, a deadline comes, a started thread
\* executes.  A provider owes nothing: no fairness on ProviderStep.
FairSpec ==
    /\ Spec
    /\ WF_vars(\E c \in Calls : CallStep(c))
    /\ WF_vars(\E t \in Threads : Worker(t))

-----------------------------------------------------------------------------
(***************************************************************************)
(* Properties                                                              *)
(***************************************************************************)
PC == {"start", "admitted", "holding", "waiting", "streaming", "draining",
       "finishing", "done"}

\* Type invariant: the fields of the guard's objects and the wrappers' locals.
TypeOK ==
    /\ opened \in [Providers -> {"closed", "open", "cooled"}]
    /\ streak \in [Providers -> Nat]
    /\ gen \in [Providers -> Nat]
    /\ probe \in [Providers -> Calls \cup {NoCall}]
    /\ inFlight \in Nat
    /\ pc \in [Calls -> PC]
    /\ leg \in [Calls -> Nat]
    /\ \A c \in Calls : leg[c] \in 1 .. Len(Route[c])
    /\ deleg \in [Calls -> BOOLEAN]
    /\ awaited \in [Calls -> BOOLEAN]
    /\ attempt \in [Calls -> [probe : BOOLEAN, gen : Nat, live : BOOLEAN]]
    /\ thread \in [Threads -> {"none"} \cup Living \cup Ended]
    /\ permits \subseteq Threads
    /\ buffered \in [Legs -> Nat]
    /\ sent \in [Legs -> Nat]
    /\ last \in [Legs -> {"none", "done", "error"}]
    /\ abandoned \in [Legs -> BOOLEAN]

Alive == {t \in Threads : thread[t] \in Living}
Holding == {c \in Calls : pc[c] = "holding"}

\* The bulkhead's promise: threads that are alive, hung ones included, never
\* outnumber max_concurrent; and no permit leaks or is given back twice: the
\* counter is what the live threads, the done-callbacks still to run and the
\* wrappers about to submit hold between them.
ThreadsBounded ==
    /\ Alive \subseteq permits
    /\ inFlight = Cardinality(permits) + Cardinality(Holding)
    /\ inFlight <= MAX_CONCURRENT

\* A breaker is never stuck half-open: whoever holds the probe's slot is a
\* call that has yet to report to it, and nobody else thinks it is probing.
ProbeIsOwned ==
    \A p \in Providers, c \in Calls :
        probe[p] = c <=> attempt[c].live /\ attempt[c].probe /\ Provider(c) = p

Reports(c, p) == attempt[c].live /\ ~ attempt'[c].live /\ Provider(c) = p

\* A late outcome changes nothing: the breaker opens, re-opens or closes, and
\* its streak of timeouts moves, only on the report of a call that the present
\* generation admitted; an open breaker only on its probe's.
LateOutcomesIgnored ==
    [][\A p \in Providers :
          gen'[p] # gen[p] \/ streak'[p] # streak[p] =>
              \E c \in Calls : /\ Reports(c, p)
                               /\ attempt[c].gen = gen[p]
                               /\ opened[p] # "closed" => probe[p] = c]_vars

\* A provider that hangs holds no turn: every call comes back, by an answer,
\* an error or its deadline, whatever the threads do.
EveryCallReturns == <>[](\A c \in Calls : pc[c] = "done")

\* Only a thread hung inside its provider keeps a permit: in particular a
\* stream worker that waits for a slot of a buffer nobody drains any more
\* notices, ends and gives its permit back.
PermitsComeBack == <>[](\A t \in permits : thread[t] = "running")

-----------------------------------------------------------------------------
\* The outcome of a call that the present generation of a closed breaker
\* admitted counts, and no other but the probe's.
Counts(c, p) ==
    /\ attempt[c].live /\ ~ attempt[c].probe /\ Provider(c) = p
    /\ opened[p] = "closed" /\ attempt[c].gen = gen[p]

Trusted == [p \in Providers |-> {c \in Calls : Counts(c, p)}]

Probing == [p \in Providers |-> {c \in Calls : probe[p] = c}]

Breaker == INSTANCE CircuitBreaker WITH mode <- opened, trusted <- Trusted, probing <- Probing

\* The generation counter and the probe token do what the class says of itself:
\* late outcomes are no business of the breaker's, through fallback legs,
\* re-invokes, cancellations and failures before the thread exists.
ImplementsBreaker == Breaker!Spec
=============================================================================
