--------------------------- MODULE LlmGuardProofs ---------------------------
(***************************************************************************)
(* The bulkhead bounds the live threads, the breaker's probe always has an *)
(* owner, late outcomes change nothing, and each breaker implements the    *)
(* simple one of CircuitBreaker, for every set of calls, providers, routes *)
(* and limits.                                                             *)
(***************************************************************************)
EXTENDS LlmGuard, FiniteSetTheorems, TLAPS

AttemptSet == [probe : BOOLEAN, gen : Nat, live : BOOLEAN]

LEMMA AttemptTyped ==
    /\ NoAttempt \in AttemptSet
    /\ ~ NoAttempt.live
    /\ \A b \in BOOLEAN, g \in Nat : /\ Attempt(b, g) \in AttemptSet
                                     /\ Attempt(b, g).live
                                     /\ Attempt(b, g).probe = b
                                     /\ Attempt(b, g).gen = g
BY DEF NoAttempt, Attempt, AttemptSet

LEMMA LegTyped ==
    ASSUME NEW c \in Calls, NEW n \in 1 .. Len(Route[c])
    PROVE  <<c, n>> \in Legs
BY DEF Legs

LEMMA Places ==
    ASSUME TypeOK, NEW c \in Calls
    PROVE  /\ leg[c] \in Nat
           /\ leg[c] >= 1
           /\ leg[c] <= Len(Route[c])
           /\ Len(Route[c]) \in Nat
           /\ Provider(c) \in Providers
           /\ LegOf(c) \in Legs
           /\ ThreadOf(c) \in Threads
<1>1. Route[c] \in Seq(Providers)
  BY GuardAssumption
<1>2. leg[c] \in 1 .. Len(Route[c]) /\ Len(Route[c]) \in Nat /\ leg[c] \in Nat
  BY <1>1 DEF TypeOK
<1>3. Provider(c) \in Providers
  BY <1>1, <1>2 DEF Provider
<1>4. LegOf(c) \in Legs
  BY <1>2, LegTyped DEF LegOf
<1> QED
  BY <1>2, <1>3, <1>4 DEF ThreadOf, Threads, Kinds

(***************************************************************************)
(* Typing                                                                  *)
(***************************************************************************)
LEMMA ResolveTyped ==
    ASSUME TypeOK, NEW c \in Calls, NEW o, Resolve(c, o)
    PROVE  /\ opened' \in [Providers -> {"closed", "open", "cooled"}]
           /\ streak' \in [Providers -> Nat]
           /\ gen' \in [Providers -> Nat]
           /\ probe' \in [Providers -> Calls \cup {NoCall}]
           /\ attempt' \in [Calls -> AttemptSet]
           /\ attempt' = [attempt EXCEPT ![c] = NoAttempt]
<1> DEFINE p == Provider(c)
<1>0. p \in Providers
  BY Places
<1>1. attempt' \in [Calls -> AttemptSet] /\ attempt' = [attempt EXCEPT ![c] = NoAttempt]
  BY AttemptTyped DEF Resolve, AttemptSet, TypeOK
<1>2. /\ opened \in [Providers -> {"closed", "open", "cooled"}]
      /\ streak \in [Providers -> Nat]
      /\ gen \in [Providers -> Nat]
      /\ probe \in [Providers -> Calls \cup {NoCall}]
  BY DEF TypeOK
<1>3. /\ opened' = opened \/ \E v \in {"closed", "open"} : opened' = [opened EXCEPT ![p] = v]
      /\ streak' = streak \/ \E n \in {0, streak[p], streak[p] + 1} :
                                   streak' = [streak EXCEPT ![p] = n]
      /\ gen' = gen \/ gen' = [gen EXCEPT ![p] = gen[p] + 1]
      /\ probe' = probe \/ probe' = [probe EXCEPT ![p] = NoCall]
  BY DEF Resolve, RecordSuccess, RecordTimeout, RecordOtherError, breakerVars
<1>4. streak[p] \in Nat /\ gen[p] \in Nat
  BY <1>0, <1>2
<1>5. opened' \in [Providers -> {"closed", "open", "cooled"}]
  BY <1>0, <1>2, <1>3
<1>6. streak' \in [Providers -> Nat]
  BY <1>0, <1>2, <1>3, <1>4
<1>7. gen' \in [Providers -> Nat]
  BY <1>0, <1>2, <1>3, <1>4
<1>8. probe' \in [Providers -> Calls \cup {NoCall}]
  BY <1>0, <1>2, <1>3
<1> QED
  BY <1>1, <1>5, <1>6, <1>7, <1>8

LEMMA RaisesTyped ==
    ASSUME TypeOK, NEW c \in Calls, Raises(c) \/ Returns(c)
    PROVE  /\ pc' \in [Calls -> PC]
           /\ leg' \in [Calls -> Nat]
           /\ \A d \in Calls : leg'[d] \in 1 .. Len(Route[d])
           /\ deleg' \in [Calls -> BOOLEAN]
           /\ awaited' \in [Calls -> BOOLEAN]
           /\ \A d \in Calls \ {c} : /\ pc'[d] = pc[d]
                                     /\ leg'[d] = leg[d]
                                     /\ deleg'[d] = deleg[d]
                                     /\ awaited'[d] = awaited[d]
           /\ pc'[c] \in {"start", "done"}
           /\ deleg'[c] = FALSE
           /\ pc'[c] = "start" => leg'[c] = leg[c] + 1
           /\ pc'[c] = "done" => leg'[c] = leg[c]
           /\ leg'[c] >= leg[c]
<1>0. leg[c] \in Nat /\ leg[c] >= 1 /\ Len(Route[c]) \in Nat
  BY Places
<1>a. /\ pc \in [Calls -> PC] /\ leg \in [Calls -> Nat]
      /\ deleg \in [Calls -> BOOLEAN] /\ awaited \in [Calls -> BOOLEAN]
      /\ \A d \in Calls : leg[d] \in 1 .. Len(Route[d])
  BY DEF TypeOK
<1>1. CASE Returns(c)
  BY <1>0, <1>a, <1>1 DEF Returns, PC
<1>2. CASE Raises(c) /\ awaited[c] /\ leg[c] < Len(Route[c])
  <2>1. leg' = [leg EXCEPT ![c] = leg[c] + 1]
    BY <1>2 DEF Raises
  <2>2. leg' \in [Calls -> Nat] /\ \A d \in Calls : leg'[d] \in 1 .. Len(Route[d])
    BY <1>0, <1>a, <1>2, <2>1
  <2>3. pc' = [pc EXCEPT ![c] = "start"] /\ deleg' = [deleg EXCEPT ![c] = FALSE] /\ awaited' = awaited
    BY <1>2 DEF Raises
  <2>4. leg'[c] = leg[c] + 1 /\ \A d \in Calls \ {c} : leg'[d] = leg[d]
    BY <1>a, <2>1
  <2> QED
    BY <1>0, <1>a, <2>2, <2>3, <2>4 DEF PC
<1> QED
  BY <1>1, <1>2 DEF Raises

LEMMA OutcomeTyped ==
    ASSUME TypeOK, NEW c \in Calls, NEW o, Outcome(c, o)
    PROVE  Resolve(c, o) /\ (Raises(c) \/ Returns(c))
BY DEF Outcome

LEMMA ReleaseTyped ==
    ASSUME inFlight \in Nat, Release PROVE inFlight' \in Nat
BY DEF Release

LEMMA ShutdownTyped ==
    ASSUME TypeOK, NEW t \in Threads, Shutdown(t)
    PROVE  /\ inFlight' \in Nat
           /\ thread' \in [Threads -> {"none"} \cup Living \cup Ended]
           /\ permits' \subseteq Threads
<1>1. CASE thread[t] = "queued"
  <2>1. thread' \in [Threads -> {"none"} \cup Living \cup Ended]
    BY <1>1 DEF TypeOK, Shutdown
  <2>2. permits' \subseteq Threads
    BY <1>1 DEF TypeOK, Shutdown
  <2>3. inFlight' \in Nat
    BY <1>1, ReleaseTyped DEF TypeOK, Shutdown
  <2> QED
    BY <2>1, <2>2, <2>3
<1>2. CASE thread[t] # "queued"
  BY <1>2 DEF TypeOK, Shutdown, threadVars
<1> QED
  BY <1>1, <1>2

LEMMA TypingStep == TypeOK /\ [Next]_vars => TypeOK'
<1> SUFFICES ASSUME TypeOK, [Next]_vars PROVE TypeOK'
  OBVIOUS
<1> USE DEF callVars, breakerVars, threadVars, streamVars
<1>1. CASE UNCHANGED vars
  BY <1>1 DEF vars, TypeOK
<1>2. ASSUME NEW c \in Calls, CallStep(c) \/ StreamCancelled(c) \/ Cancel(c) \/ CancelSwallowed(c)
      PROVE  TypeOK'
  <2> USE Places
  <2>1. CASE Admit(c)
    BY <2>1, AttemptTyped DEF Admit, TypeOK, PC, AttemptSet
  <2>2. CASE AdmitProbe(c)
    BY <2>2, AttemptTyped DEF AdmitProbe, TypeOK, PC, AttemptSet
  <2>3. CASE Refuse(c)
    BY <2>3, RaisesTyped DEF Refuse, TypeOK
  <2>4. CASE Acquire(c)
    BY <2>4 DEF Acquire, TypeOK, PC
  <2>5. CASE Full(c)
    BY <2>5, RaisesTyped, ResolveTyped, OutcomeTyped DEF Full, TypeOK, AttemptSet
  <2>6. CASE Submit(c)
    BY <2>6 DEF Submit, TypeOK, PC, Living
  <2>7. CASE SubmitFails(c)
    <3>1. inFlight' \in Nat
      BY <2>7, ReleaseTyped DEF SubmitFails, TypeOK
    <3> QED
      BY <2>7, <3>1, RaisesTyped, ResolveTyped, OutcomeTyped DEF SubmitFails, TypeOK, AttemptSet
  <2>8. CASE Result(c)
    <3>1. PICK o : Outcome(c, o)
      BY <2>8 DEF Result
    <3> QED
      BY <2>8, <3>1, RaisesTyped, ResolveTyped, OutcomeTyped DEF Result, TypeOK, AttemptSet
  <2>9. CASE Deadline(c)
    BY <2>9, RaisesTyped, ResolveTyped, OutcomeTyped, ShutdownTyped DEF Deadline, TypeOK, AttemptSet
  <2>10. CASE TakeChunk(c)
    BY <2>10 DEF TakeChunk, TypeOK
  <2>11. CASE TakeDone(c)
    BY <2>11, ShutdownTyped DEF TakeDone, Abandon, TypeOK, PC
  <2>12. CASE StreamFails(c)
    BY <2>12, RaisesTyped, ResolveTyped, OutcomeTyped, ShutdownTyped
       DEF StreamFails, Abandon, Forget, TypeOK, AttemptSet
  <2>13. CASE StreamDeadline(c)
    BY <2>13, RaisesTyped, ResolveTyped, OutcomeTyped, ShutdownTyped
       DEF StreamDeadline, Abandon, Forget, TypeOK, AttemptSet
  <2>14. CASE Drained(c)
    BY <2>14 DEF Drained, TypeOK, PC
  <2>15. CASE Answer(c)
    BY <2>15, RaisesTyped, ResolveTyped, OutcomeTyped DEF Answer, Forget, TypeOK, AttemptSet
  <2>16. CASE Delegate(c)
    BY <2>16 DEF Delegate, Forget, TypeOK, PC
  <2>17. CASE StreamCancelled(c)
    BY <2>17, RaisesTyped, ResolveTyped, ShutdownTyped
       DEF StreamCancelled, Abandon, Forget, TypeOK, AttemptSet
  <2>18. CASE Cancel(c)
    BY <2>18, ResolveTyped DEF Cancel, TypeOK, AttemptSet
  <2>19. CASE CancelSwallowed(c)
    BY <2>19 DEF CancelSwallowed, TypeOK, PC
  <2> QED
    BY <1>2, <2>1, <2>2, <2>3, <2>4, <2>5, <2>6, <2>7, <2>8, <2>9, <2>10, <2>11, <2>12,
       <2>13, <2>14, <2>15, <2>16, <2>17, <2>18, <2>19 DEF CallStep
<1>3. ASSUME NEW t \in Threads, Worker(t) \/ ProviderStep(t)
      PROVE  TypeOK'
  <2>0. t[1] \in Legs
    BY DEF Threads
  <2> USE DEF TypeOK, Goes, Living, Ended
  <2>1. CASE ThreadStarts(t)
    BY <2>1 DEF ThreadStarts
  <2>2. CASE PutChunk(t)
    BY <2>0, <2>2 DEF PutChunk
  <2>3. CASE BailOut(t)
    BY <2>3 DEF BailOut
  <2>4. CASE WorkerReturns(t)
    BY <2>4 DEF WorkerReturns
  <2>5. CASE ReturnPermit(t)
    BY <2>5 DEF ReturnPermit, Release
  <2>6. CASE InvokeEnds(t)
    BY <2>6 DEF InvokeEnds
  <2>7. CASE StreamChunk(t)
    BY <2>7 DEF StreamChunk
  <2>8. CASE StreamEnds(t)
    BY <2>0, <2>8 DEF StreamEnds
  <2> QED
    BY <1>3, <2>1, <2>2, <2>3, <2>4, <2>5, <2>6, <2>7, <2>8 DEF Worker, ProviderStep
<1>4. ASSUME NEW p \in Providers, CoolDown(p)
      PROVE  TypeOK'
  BY <1>4 DEF CoolDown, TypeOK
<1> QED
  BY <1>1, <1>2, <1>3, <1>4 DEF Next

\* The fields of the bulkhead and of the breakers, and the wrappers' locals,
\* stay in their ranges; in particular a call never runs past its route.
THEOREM Typing == Spec => []TypeOK
<1>1. Init => TypeOK
  <2> SUFFICES ASSUME Init PROVE TypeOK
    OBVIOUS
  <2>1. \A c \in Calls : 1 \in 1 .. Len(Route[c])
    BY GuardAssumption
  <2> QED
    BY <2>1, AttemptTyped DEF Init, TypeOK, PC, AttemptSet
<1> QED
  BY <1>1, TypingStep, PTL DEF Spec
-----------------------------------------------------------------------------
(***************************************************************************)
(* The breaker.  A call between legs has nothing to report; a closed       *)
(* breaker has no probe out; and no transition passes under a probe.       *)
(***************************************************************************)
Unreported == \A c \in Calls : attempt[c].live => pc[c] \notin {"start", "done"}

ClosedHasNoProbe == \A p \in Providers : opened[p] = "closed" => probe[p] = NoCall

ProbeIsCurrent ==
    \A c \in Calls : attempt[c].live /\ attempt[c].probe => attempt[c].gen = gen[Provider(c)]

BreakerInv == Unreported /\ ProbeIsOwned /\ ClosedHasNoProbe /\ ProbeIsCurrent

\* A report is the only thing that moves a breaker, apart from its clock and
\* the admission of a probe.  Who may move it is settled here, once.
LEMMA ReportMoves ==
    ASSUME TypeOK, BreakerInv, NEW c \in Calls, NEW o, Resolve(c, o)
    PROVE  /\ \A p \in Providers \ {Provider(c)} :
                  /\ opened'[p] = opened[p] /\ probe'[p] = probe[p]
                  /\ gen'[p] = gen[p] /\ streak'[p] = streak[p]
           /\ gen'[Provider(c)] # gen[Provider(c)] \/ streak'[Provider(c)] # streak[Provider(c)]
                  => /\ attempt[c].live
                     /\ attempt[c].gen = gen[Provider(c)]
                     /\ opened[Provider(c)] # "closed" => probe[Provider(c)] = c
           /\ gen'[Provider(c)] # gen[Provider(c)] => probe[Provider(c)] \in {c, NoCall}
           /\ probe'[Provider(c)] = IF probe[Provider(c)] = c THEN NoCall ELSE probe[Provider(c)]
           /\ opened'[Provider(c)] = "closed" => probe'[Provider(c)] = NoCall
<1> DEFINE p == Provider(c)
<1>0. p \in Providers
  BY Places
<1>1. /\ opened \in [Providers -> {"closed", "open", "cooled"}]
      /\ streak \in [Providers -> Nat]
      /\ gen \in [Providers -> Nat]
      /\ probe \in [Providers -> Calls \cup {NoCall}]
      /\ attempt[c] \in AttemptSet
      /\ streak[p] \in Nat /\ gen[p] \in Nat
  BY <1>0 DEF TypeOK, AttemptSet
<1>2. /\ attempt[c].live /\ attempt[c].probe => probe[p] = c /\ attempt[c].gen = gen[p]
      /\ probe[p] = c => attempt[c].live /\ attempt[c].probe
      /\ opened[p] = "closed" => probe[p] = NoCall
      /\ NoCall # c
  BY <1>0, GuardAssumption DEF BreakerInv, ProbeIsOwned, ProbeIsCurrent, ClosedHasNoProbe
<1> HIDE DEF p
<1>3. CASE ~ attempt[c].live
  BY <1>0, <1>1, <1>2, <1>3 DEF Resolve, breakerVars, p
<1>4. CASE attempt[c].live /\ OwnsProbe(c)
  <2>1. attempt[c].gen = gen[p] /\ probe[p] = c
    BY <1>2, <1>4 DEF OwnsProbe, p
  <2>2. probe' = [probe EXCEPT ![p] = NoCall]
    BY <1>4 DEF Resolve, RecordSuccess, RecordTimeout, RecordOtherError, p
  <2>3. /\ opened' = opened \/ \E v \in {"closed", "open"} : opened' = [opened EXCEPT ![p] = v]
        /\ streak' = streak \/ \E n \in {0, streak[p], streak[p] + 1} :
                                     streak' = [streak EXCEPT ![p] = n]
        /\ gen' = gen \/ gen' = [gen EXCEPT ![p] = gen[p] + 1]
    BY <1>4 DEF Resolve, RecordSuccess, RecordTimeout, RecordOtherError, p
  <2>4. \A q \in Providers \ {p} : /\ opened'[q] = opened[q] /\ probe'[q] = probe[q]
                                   /\ gen'[q] = gen[q] /\ streak'[q] = streak[q]
    BY <1>0, <1>1, <2>2, <2>3
  <2>5. probe'[p] = NoCall
    BY <1>0, <1>1, <2>2
  <2> QED
    BY <1>4, <2>1, <2>4, <2>5 DEF p
<1>5. CASE attempt[c].live /\ ~ OwnsProbe(c) /\ IsCurrentClosedGen(c)
  <2>1. attempt[c].gen = gen[p] /\ opened[p] = "closed" /\ probe[p] = NoCall
    BY <1>2, <1>5 DEF IsCurrentClosedGen, p
  <2>2. probe' = probe \/ probe' = [probe EXCEPT ![p] = NoCall]
    BY <1>5 DEF Resolve, RecordSuccess, RecordTimeout, RecordOtherError, p
  <2>3. /\ opened' = opened \/ \E v \in {"closed", "open"} : opened' = [opened EXCEPT ![p] = v]
        /\ streak' = streak \/ \E n \in {0, streak[p], streak[p] + 1} :
                                     streak' = [streak EXCEPT ![p] = n]
        /\ gen' = gen \/ gen' = [gen EXCEPT ![p] = gen[p] + 1]
    BY <1>5 DEF Resolve, RecordSuccess, RecordTimeout, RecordOtherError, p
  <2>4. \A q \in Providers \ {p} : /\ opened'[q] = opened[q] /\ probe'[q] = probe[q]
                                   /\ gen'[q] = gen[q] /\ streak'[q] = streak[q]
    BY <1>0, <1>1, <2>2, <2>3
  <2>5. probe'[p] = NoCall
    BY <1>0, <1>1, <2>1, <2>2
  <2> QED
    BY <1>2, <1>5, <2>1, <2>4, <2>5 DEF p
<1>6. CASE attempt[c].live /\ ~ OwnsProbe(c) /\ ~ IsCurrentClosedGen(c)
  <2>1. UNCHANGED <<opened, probe, gen>>
    BY <1>6 DEF Resolve, RecordSuccess, RecordTimeout, RecordOtherError
  <2>2. streak' = streak \/ streak' = [streak EXCEPT ![p] = streak[p]]
    BY <1>6 DEF Resolve, RecordSuccess, RecordTimeout, RecordOtherError, p
  <2>3. streak' = streak
    BY <1>0, <1>1, <2>2
  <2>4. probe[p] # c
    BY <1>2, <1>6 DEF OwnsProbe, p
  <2> QED
    BY <1>2, <2>1, <2>3, <2>4 DEF p
<1> QED
  BY <1>3, <1>4, <1>5, <1>6

\* A report leaves the breaker's invariant as it was, wherever it leaves its
\* own call.
LEMMA ReportKeeps ==
    ASSUME TypeOK, BreakerInv, NEW c \in Calls, NEW o, Resolve(c, o),
           \A d \in Calls \ {c} : pc'[d] = pc[d] /\ leg'[d] = leg[d]
    PROVE  BreakerInv'
<1> DEFINE p == Provider(c)
<1>0. p \in Providers
  BY Places
<1>1. attempt' = [attempt EXCEPT ![c] = NoAttempt] /\ attempt \in [Calls -> AttemptSet]
  BY ResolveTyped DEF TypeOK, AttemptSet
<1>2. ~ attempt'[c].live /\ \A d \in Calls \ {c} : attempt'[d] = attempt[d]
  BY <1>1, AttemptTyped
<1>3. \A d \in Calls \ {c} : Provider(d)' = Provider(d) /\ Provider(d) \in Providers
  BY Places DEF Provider
<1>4. \A q \in Providers \ {p} : /\ opened'[q] = opened[q] /\ probe'[q] = probe[q]
                                 /\ gen'[q] = gen[q]
  BY ReportMoves
<1>5. /\ probe'[p] = IF probe[p] = c THEN NoCall ELSE probe[p]
      /\ gen'[p] # gen[p] => probe[p] \in {c, NoCall}
      /\ opened'[p] = "closed" => probe'[p] = NoCall
  BY ReportMoves
<1>6. NoCall \notin Calls
  BY GuardAssumption
<1> HIDE DEF p
<1>7. Unreported'
  BY <1>2 DEF BreakerInv, Unreported
<1>8. ClosedHasNoProbe'
  BY <1>4, <1>5 DEF BreakerInv, ClosedHasNoProbe
<1>9. ProbeIsOwned'
  <2> SUFFICES ASSUME NEW q \in Providers, NEW d \in Calls
               PROVE  probe'[q] = d <=> attempt'[d].live /\ attempt'[d].probe /\ Provider(d)' = q
    BY DEF ProbeIsOwned
  <2>1. probe[q] = d <=> attempt[d].live /\ attempt[d].probe /\ Provider(d) = q
    BY DEF BreakerInv, ProbeIsOwned
  <2>2. CASE d # c
    <3>1. probe'[q] = d <=> probe[q] = d
      BY <1>4, <1>5, <1>6, <2>2
    <3> QED
      BY <1>2, <1>3, <2>1, <2>2, <3>1
  <2>3. CASE d = c
    <3>1. probe'[q] # c
      <4>1. CASE q = p
        BY <1>5, <1>6, <4>1
      <4>2. CASE q # p
        BY <1>4, <2>1, <2>3, <4>2 DEF p
      <4> QED
        BY <4>1, <4>2
    <3> QED
      BY <1>2, <2>3, <3>1
  <2> QED
    BY <2>2, <2>3
<1>10. ProbeIsCurrent'
  <2> SUFFICES ASSUME NEW d \in Calls, attempt'[d].live, attempt'[d].probe
               PROVE  attempt'[d].gen = gen'[Provider(d)']
    BY DEF ProbeIsCurrent, Provider
  <2>1. d # c /\ attempt'[d] = attempt[d] /\ Provider(d)' = Provider(d) /\ Provider(d) \in Providers
    BY <1>2, <1>3
  <2>2. probe[Provider(d)] = d /\ attempt[d].gen = gen[Provider(d)]
    BY <2>1 DEF BreakerInv, ProbeIsOwned, ProbeIsCurrent
  <2>3. gen'[Provider(d)] = gen[Provider(d)]
    BY <1>4, <1>5, <1>6, <2>1, <2>2
  <2> QED
    BY <2>1, <2>2, <2>3
<1> QED
  BY <1>7, <1>8, <1>9, <1>10 DEF BreakerInv
\* A step that reports nothing, admits nothing and starts no leg.
LEMMA QuietKeeps ==
    ASSUME BreakerInv, UNCHANGED <<streak, gen, probe, attempt, leg>>,
           \A p \in Providers : opened'[p] = "closed" => opened[p] = "closed",
           \A c \in Calls : attempt[c].live => pc'[c] \notin {"start", "done"}
    PROVE  BreakerInv'
BY DEF BreakerInv, Unreported, ProbeIsOwned, ClosedHasNoProbe, ProbeIsCurrent, Provider

LEMMA MovesOn ==
    ASSUME TypeOK, BreakerInv, NEW c \in Calls, NEW l \in PC \ {"start", "done"},
           UNCHANGED <<breakerVars, attempt, leg>>, pc' = [pc EXCEPT ![c] = l]
    PROVE  BreakerInv'
<1>1. \A d \in Calls : pc'[d] \in {pc[d], l}
  BY DEF TypeOK
<1> QED
  BY <1>1, QuietKeeps DEF breakerVars, BreakerInv, Unreported

LEMMA BreakerStep == TypeOK /\ BreakerInv /\ [Next]_vars => BreakerInv'
<1> SUFFICES ASSUME TypeOK, BreakerInv, [Next]_vars PROVE BreakerInv'
  OBVIOUS
<1>1. CASE UNCHANGED vars
  BY <1>1, QuietKeeps DEF vars, breakerVars, callVars, BreakerInv, Unreported
<1>2. ASSUME NEW c \in Calls, CallStep(c) \/ StreamCancelled(c) \/ Cancel(c) \/ CancelSwallowed(c)
      PROVE  BreakerInv'
  <2>0. /\ pc[c] \in PC /\ Provider(c) \in Providers /\ gen[Provider(c)] \in Nat
        /\ attempt \in [Calls -> AttemptSet] /\ pc \in [Calls -> PC]
        /\ probe \in [Providers -> Calls \cup {NoCall}]
    BY Places DEF TypeOK, AttemptSet
  <2>a. ASSUME NEW o, Outcome(c, o) PROVE BreakerInv'
    BY <2>a, OutcomeTyped, RaisesTyped, ReportKeeps
  <2>1. CASE Admit(c)
    <3>1. ~ attempt[c].live
      BY <2>1 DEF Admit, BreakerInv, Unreported
    <3>2. /\ attempt' = [attempt EXCEPT ![c] = Attempt(FALSE, gen[Provider(c)])]
          /\ pc' = [pc EXCEPT ![c] = "admitted"]
          /\ UNCHANGED <<opened, streak, gen, probe, leg>>
      BY <2>1 DEF Admit, breakerVars
    <3>3. /\ ~ attempt'[c].probe
          /\ \A d \in Calls \ {c} : attempt'[d] = attempt[d] /\ pc'[d] = pc[d]
          /\ pc'[c] = "admitted"
      BY <2>0, <3>2, AttemptTyped
    <3>4. \A d \in Calls : Provider(d)' = Provider(d)
      BY <3>2 DEF Provider
    <3>5. Unreported'
      BY <3>3 DEF BreakerInv, Unreported
    <3>6. ProbeIsOwned'
      <4> SUFFICES ASSUME NEW q \in Providers, NEW d \in Calls
                   PROVE  probe'[q] = d <=> attempt'[d].live /\ attempt'[d].probe /\ Provider(d)' = q
        BY DEF ProbeIsOwned
      <4>1. probe[q] = d <=> attempt[d].live /\ attempt[d].probe /\ Provider(d) = q
        BY DEF BreakerInv, ProbeIsOwned
      <4> QED
        BY <3>1, <3>2, <3>3, <3>4, <4>1
    <3>7. ProbeIsCurrent'
      BY <3>1, <3>2, <3>3, <3>4 DEF BreakerInv, ProbeIsCurrent
    <3>8. ClosedHasNoProbe'
      BY <3>2 DEF BreakerInv, ClosedHasNoProbe
    <3> QED
      BY <3>5, <3>6, <3>7, <3>8 DEF BreakerInv
  <2>2. CASE AdmitProbe(c)
    <3> DEFINE p == Provider(c)
    <3>1. ~ attempt[c].live /\ probe[p] = NoCall /\ opened[p] = "cooled"
      BY <2>2 DEF AdmitProbe, BreakerInv, Unreported
    <3>2. /\ attempt' = [attempt EXCEPT ![c] = Attempt(TRUE, gen[p])]
          /\ probe' = [probe EXCEPT ![p] = c]
          /\ pc' = [pc EXCEPT ![c] = "admitted"]
          /\ UNCHANGED <<opened, streak, gen, leg>>
      BY <2>2 DEF AdmitProbe
    <3>3. /\ attempt'[c].probe /\ attempt'[c].live /\ attempt'[c].gen = gen[p]
          /\ \A d \in Calls \ {c} : attempt'[d] = attempt[d] /\ pc'[d] = pc[d]
          /\ pc'[c] = "admitted"
          /\ probe'[p] = c /\ \A q \in Providers \ {p} : probe'[q] = probe[q]
      BY <2>0, <3>2, AttemptTyped
    <3>4. \A d \in Calls : Provider(d)' = Provider(d)
      BY <3>2 DEF Provider
    <3>5. Unreported'
      BY <3>3 DEF BreakerInv, Unreported
    <3>6. ProbeIsOwned'
      <4> SUFFICES ASSUME NEW q \in Providers, NEW d \in Calls
                   PROVE  probe'[q] = d <=> attempt'[d].live /\ attempt'[d].probe /\ Provider(d)' = q
        BY DEF ProbeIsOwned
      <4>1. probe[q] = d <=> attempt[d].live /\ attempt[d].probe /\ Provider(d) = q
        BY DEF BreakerInv, ProbeIsOwned
      <4> QED
        BY <3>1, <3>3, <3>4, <4>1, GuardAssumption
    <3>7. ProbeIsCurrent'
      BY <3>1, <3>2, <3>3, <3>4 DEF BreakerInv, ProbeIsCurrent
    <3>8. ClosedHasNoProbe'
      BY <3>1, <3>2, <3>3 DEF BreakerInv, ClosedHasNoProbe
    <3> QED
      BY <3>5, <3>6, <3>7, <3>8 DEF BreakerInv
  <2>3. CASE Refuse(c)
    <3>1. ~ attempt[c].live /\ UNCHANGED <<opened, streak, gen, probe, attempt>>
      BY <2>3 DEF Refuse, breakerVars, BreakerInv, Unreported
    <3>2. \A d \in Calls \ {c} : pc'[d] = pc[d] /\ leg'[d] = leg[d]
      BY <2>3, RaisesTyped DEF Refuse
    <3>3. \A d \in Calls \ {c} : Provider(d)' = Provider(d)
      BY <3>2 DEF Provider
    <3>4. Unreported' /\ ClosedHasNoProbe'
      BY <3>1, <3>2 DEF BreakerInv, Unreported, ClosedHasNoProbe
    <3>5. ProbeIsOwned'
      BY <3>1, <3>3 DEF BreakerInv, ProbeIsOwned
    <3>6. ProbeIsCurrent'
      BY <3>1, <3>3 DEF BreakerInv, ProbeIsCurrent
    <3> QED
      BY <3>4, <3>5, <3>6 DEF BreakerInv
  <2>4. CASE Acquire(c)
    BY <2>4, MovesOn DEF Acquire, PC
  <2>5. CASE Full(c)
    BY <2>5, <2>a DEF Full
  <2>6. CASE Submit(c)
    <3>1. PICK l \in {"streaming", "waiting"} : pc' = [pc EXCEPT ![c] = l]
      BY <2>6 DEF Submit
    <3> QED
      BY <2>6, <3>1, MovesOn DEF Submit, PC
  <2>7. CASE SubmitFails(c)
    BY <2>7, <2>a DEF SubmitFails
  <2>8. CASE Result(c)
    BY <2>8, <2>a DEF Result
  <2>9. CASE Deadline(c)
    BY <2>9, <2>a DEF Deadline
  <2>10. CASE TakeChunk(c)
    BY <2>10, QuietKeeps DEF TakeChunk, breakerVars, callVars, BreakerInv, Unreported
  <2>11. CASE TakeDone(c)
    BY <2>11, MovesOn DEF TakeDone, PC
  <2>12. CASE StreamFails(c)
    BY <2>12, <2>a DEF StreamFails
  <2>13. CASE StreamDeadline(c)
    BY <2>13, <2>a DEF StreamDeadline
  <2>14. CASE Drained(c)
    BY <2>14, MovesOn DEF Drained, PC
  <2>15. CASE Answer(c)
    BY <2>15, <2>a DEF Answer
  <2>16. CASE Delegate(c)
    BY <2>16, MovesOn DEF Delegate, PC
  <2>17. CASE StreamCancelled(c)
    BY <2>17, RaisesTyped, ReportKeeps DEF StreamCancelled
  <2>18. CASE Cancel(c)
    <3>1. CASE deleg[c]
      BY <2>18, <3>1, ReportKeeps DEF Cancel
    <3>2. CASE ~ deleg[c]
      BY <2>18, <3>2, QuietKeeps DEF Cancel, breakerVars, BreakerInv, Unreported
    <3> QED
      BY <3>1, <3>2
  <2>19. CASE CancelSwallowed(c)
    BY <2>19, MovesOn DEF CancelSwallowed, PC
  <2> QED
    BY <1>2, <2>1, <2>2, <2>3, <2>4, <2>5, <2>6, <2>7, <2>8, <2>9, <2>10, <2>11, <2>12,
       <2>13, <2>14, <2>15, <2>16, <2>17, <2>18, <2>19 DEF CallStep
<1>3. ASSUME NEW t \in Threads, Worker(t) \/ ProviderStep(t)
      PROVE  BreakerInv'
  <2>1. UNCHANGED <<breakerVars, callVars>>
    BY <1>3 DEF Worker, ProviderStep, ThreadStarts, PutChunk, BailOut, WorkerReturns,
                ReturnPermit, InvokeEnds, StreamChunk, StreamEnds, Goes
  <2> QED
    BY <2>1, QuietKeeps DEF breakerVars, callVars, BreakerInv, Unreported
<1>4. ASSUME NEW p \in Providers, CoolDown(p)
      PROVE  BreakerInv'
  <2>1. \A q \in Providers : opened'[q] = "closed" => opened[q] = "closed"
    BY <1>4 DEF CoolDown, TypeOK
  <2> QED
    BY <1>4, <2>1, QuietKeeps DEF CoolDown, callVars, BreakerInv, Unreported
<1> QED
  BY <1>1, <1>2, <1>3, <1>4 DEF Next

LEMMA BreakerAlways == Spec => [](TypeOK /\ BreakerInv)
<1>1. Init => BreakerInv
  BY AttemptTyped, GuardAssumption
     DEF Init, BreakerInv, Unreported, ProbeIsOwned, ClosedHasNoProbe, ProbeIsCurrent
<1> QED
  BY <1>1, Typing, BreakerStep, PTL DEF Spec

\* The half-open slot of llm_bulkhead.py always belongs to a call that has yet
\* to report, for every number of calls and providers: no path through the
\* wrappers leaves a breaker half-open for good.
THEOREM ProbeAlwaysOwned == Spec => []ProbeIsOwned
BY BreakerAlways, PTL DEF BreakerInv

-----------------------------------------------------------------------------
(***************************************************************************)
(* Late outcomes                                                           *)
(***************************************************************************)
LateStep(p) ==
    gen'[p] # gen[p] \/ streak'[p] # streak[p] =>
        \E c \in Calls : /\ Reports(c, p)
                         /\ attempt[c].gen = gen[p]
                         /\ opened[p] # "closed" => probe[p] = c

LEMMA ReportIsOnTime ==
    ASSUME TypeOK, BreakerInv, NEW c \in Calls, NEW o, Resolve(c, o)
    PROVE  \A p \in Providers : LateStep(p)
<1>1. ~ attempt'[c].live
  BY ResolveTyped, AttemptTyped DEF TypeOK
<1> QED
  BY <1>1, ReportMoves DEF LateStep, Reports

\* Only the report of a call admitted by the present generation, the probe's
\* if the breaker is open, moves a breaker: a call that was admitted before it
\* opened, or before a probe closed it again, reports to nobody.
THEOREM LateOutcomesAreIgnored == Spec => LateOutcomesIgnored
<1>1. TypeOK /\ BreakerInv /\ [Next]_vars => [\A p \in Providers : LateStep(p)]_vars
  <2> SUFFICES ASSUME TypeOK, BreakerInv, Next
               PROVE  \A p \in Providers : LateStep(p)
    OBVIOUS
  <2>1. ASSUME NEW c \in Calls, NEW o, Resolve(c, o) \/ Outcome(c, o)
        PROVE  \A p \in Providers : LateStep(p)
    BY <2>1, ReportIsOnTime DEF Outcome
  <2>2. ASSUME UNCHANGED <<gen, streak>> PROVE \A p \in Providers : LateStep(p)
    BY <2>2 DEF LateStep
  <2>3. ASSUME NEW c \in Calls, CallStep(c) \/ StreamCancelled(c) \/ Cancel(c) \/ CancelSwallowed(c)
        PROVE  UNCHANGED <<gen, streak>> \/ \E o : Resolve(c, o) \/ Outcome(c, o)
    <3>1. CASE Full(c) \/ SubmitFails(c) \/ StreamFails(c) \/ StreamCancelled(c)
      BY <3>1 DEF Full, SubmitFails, StreamFails, StreamCancelled
    <3>2. CASE Deadline(c) \/ StreamDeadline(c) \/ Answer(c)
      BY <3>2 DEF Deadline, StreamDeadline, Answer
    <3>3. CASE Result(c)
      BY <3>3 DEF Result
    <3>4. CASE Cancel(c)
      <4>1. CASE deleg[c]
        BY <3>4, <4>1 DEF Cancel
      <4>2. CASE ~ deleg[c]
        BY <3>4, <4>2 DEF Cancel, breakerVars
      <4> QED
        BY <4>1, <4>2
    <3>5. CASE Admit(c) \/ AdmitProbe(c) \/ Refuse(c) \/ Acquire(c) \/ Submit(c)
      BY <3>5 DEF Admit, AdmitProbe, Refuse, Acquire, Submit, breakerVars
    <3>6. CASE TakeChunk(c) \/ TakeDone(c) \/ Drained(c) \/ Delegate(c) \/ CancelSwallowed(c)
      BY <3>6 DEF TakeChunk, TakeDone, Drained, Delegate, CancelSwallowed, breakerVars
    <3> QED
      BY <2>3, <3>1, <3>2, <3>3, <3>4, <3>5, <3>6 DEF CallStep
  <2>4. ASSUME NEW t \in Threads, Worker(t) \/ ProviderStep(t)
        PROVE  UNCHANGED <<gen, streak>>
    BY <2>4 DEF Worker, ProviderStep, ThreadStarts, PutChunk, BailOut, WorkerReturns,
                ReturnPermit, InvokeEnds, StreamChunk, StreamEnds, Goes, breakerVars
  <2>5. ASSUME NEW p \in Providers, CoolDown(p) PROVE UNCHANGED <<gen, streak>>
    BY <2>5 DEF CoolDown
  <2> QED
    BY <2>1, <2>2, <2>3, <2>4, <2>5 DEF Next
<1> QED
  BY <1>1, BreakerAlways, PTL DEF Spec, LateOutcomesIgnored, LateStep
-----------------------------------------------------------------------------
(***************************************************************************)
(* The bulkhead.  A leg submits at most one thread of each kind, so the    *)
(* thread a wrapper is about to start holds no permit yet.                 *)
(***************************************************************************)
Before == {"start", "admitted", "holding"}
InStream == {"streaming", "draining", "finishing"}

Spare(c) ==
    /\ \A n \in Nat, k \in Kinds : n > leg[c] => <<<<c, n>>, k>> \notin permits
    /\ pc[c] \in Before => ThreadOf(c) \notin permits
    /\ c \in Streaming /\ ~ deleg[c] /\ pc[c] # "done" => <<LegOf(c), "invoke">> \notin permits
    /\ pc[c] \in InStream => Streams(c)

SpareInv == \A c \in Calls : Spare(c)

CountInv ==
    /\ IsFiniteSet(permits)
    /\ ThreadsBounded

\* Spare speaks of one call's locals and of the permits it finds.
LEMMA SpareLocal ==
    ASSUME NEW c, Spare(c), permits' \subseteq permits, pc'[c] = pc[c], leg'[c] = leg[c],
           deleg'[c] = deleg[c]
    PROVE  Spare(c)'
BY DEF Spare, ThreadOf, LegOf, Streams

\* A call that ends a leg leaves the next one's threads unused.
LEMMA SpareAfter ==
    ASSUME TypeOK, SpareInv, NEW c \in Calls, Raises(c) \/ Returns(c), permits' \subseteq permits
    PROVE  SpareInv'
<1>0. /\ pc'[c] \in {"start", "done"} /\ deleg'[c] = FALSE
      /\ pc'[c] = "start" => leg'[c] = leg[c] + 1
      /\ leg'[c] >= leg[c] /\ leg[c] \in Nat /\ leg'[c] \in Nat
      /\ \A d \in Calls \ {c} : pc'[d] = pc[d] /\ leg'[d] = leg[d] /\ deleg'[d] = deleg[d]
  BY RaisesTyped, Places
<1>1. \A d \in Calls \ {c} : Spare(d)'
  BY <1>0, SpareLocal DEF SpareInv
<1>2. \A n \in Nat, k \in Kinds : n > leg[c] => <<<<c, n>>, k>> \notin permits'
  BY DEF SpareInv, Spare
<1>3. \A n \in Nat, k \in Kinds : n > leg'[c] => <<<<c, n>>, k>> \notin permits'
  BY <1>0, <1>2
<1>4. pc'[c] = "start" => \A k \in Kinds : <<<<c, leg'[c]>>, k>> \notin permits'
  BY <1>0, <1>2
<1>5. ThreadOf(c)' \in {<<<<c, leg'[c]>>, k>> : k \in Kinds} /\ LegOf(c)' = <<c, leg'[c]>>
  BY DEF ThreadOf, LegOf, Kinds
<1>6. pc'[c] \in Before => ThreadOf(c)' \notin permits'
  BY <1>0, <1>4, <1>5 DEF Before
<1>7. pc'[c] # "done" => <<LegOf(c)', "invoke">> \notin permits'
  BY <1>0, <1>4, <1>5 DEF Kinds
<1>8. pc'[c] \notin InStream
  BY <1>0 DEF InStream
<1>9. Spare(c)'
  BY <1>3, <1>6, <1>7, <1>8 DEF Spare
<1> QED
  BY <1>1, <1>9 DEF SpareInv

\* A call that moves on within its leg, to a place that is not before its
\* thread's start unless it was there already.
LEMMA SpareMoves ==
    ASSUME TypeOK, SpareInv, NEW c \in Calls, NEW l, pc' = [pc EXCEPT ![c] = l],
           UNCHANGED <<leg, deleg>>, permits' \subseteq permits, pc[c] # "done",
           l \in Before => pc[c] \in Before, l \in InStream => Streams(c)
    PROVE  SpareInv'
<1>0. pc'[c] = l /\ \A d \in Calls \ {c} : pc'[d] = pc[d]
  BY DEF TypeOK
<1>1. \A d \in Calls \ {c} : Spare(d)'
  BY <1>0, SpareLocal DEF SpareInv
<1>2. Spare(c)'
  BY <1>0 DEF SpareInv, Spare, ThreadOf, LegOf, Streams
<1> QED
  BY <1>1, <1>2 DEF SpareInv

LEMMA SpareQuiet ==
    ASSUME SpareInv, UNCHANGED <<pc, leg, deleg>>, permits' \subseteq permits
    PROVE  SpareInv'
BY SpareLocal DEF SpareInv

\* Shutting an executor down gives back a permit or nothing.
LEMMA ShutdownShrinks ==
    ASSUME NEW t, Shutdown(t) PROVE permits' \subseteq permits
BY DEF Shutdown, threadVars

LEMMA SpareStep == TypeOK /\ SpareInv /\ [Next]_vars => SpareInv'
<1> SUFFICES ASSUME TypeOK, SpareInv, [Next]_vars PROVE SpareInv'
  OBVIOUS
<1> USE DEF threadVars, callVars
<1>1. CASE UNCHANGED vars
  BY <1>1, SpareQuiet DEF vars
<1>2. ASSUME NEW c \in Calls, CallStep(c) \/ StreamCancelled(c) \/ Cancel(c) \/ CancelSwallowed(c)
      PROVE  SpareInv'
  <2>a. ASSUME NEW o, Outcome(c, o), permits' \subseteq permits PROVE SpareInv'
    BY <2>a, SpareAfter DEF Outcome
  <2>1. CASE Admit(c)
    BY <2>1, SpareMoves DEF Admit, Before, InStream
  <2>2. CASE AdmitProbe(c)
    BY <2>2, SpareMoves DEF AdmitProbe, Before, InStream
  <2>3. CASE Refuse(c)
    BY <2>3, SpareAfter DEF Refuse
  <2>4. CASE Acquire(c)
    BY <2>4, SpareMoves DEF Acquire, Before, InStream
  <2>5. CASE Full(c)
    BY <2>5, <2>a DEF Full
  <2>6. CASE Submit(c)
    <3>0. PICK l \in {"streaming", "waiting"} :
             /\ pc' = [pc EXCEPT ![c] = l]
             /\ l = "streaming" => Streams(c)
             /\ permits' = permits \cup {ThreadOf(c)}
             /\ UNCHANGED <<leg, deleg>>
      BY <2>6 DEF Submit
    <3>1. pc'[c] = l /\ \A d \in Calls \ {c} : pc'[d] = pc[d]
      BY <3>0 DEF TypeOK
    <3>2. \A d \in Calls \ {c} : \A n, k : <<<<d, n>>, k>> # ThreadOf(c)
      BY DEF ThreadOf, LegOf
    <3>3. \A d \in Calls : ThreadOf(d)' = ThreadOf(d) /\ LegOf(d)' = LegOf(d) /\ Streams(d)' = Streams(d)
      BY <3>0 DEF ThreadOf, LegOf, Streams
    <3>4. ASSUME NEW d \in Calls, d # c PROVE Spare(d)'
      <4>0. Spare(d) /\ pc'[d] = pc[d] /\ leg'[d] = leg[d] /\ deleg'[d] = deleg[d]
        BY <3>0, <3>1, <3>4 DEF SpareInv
      <4>1. \A n, k : <<<<d, n>>, k>> \in permits' <=> <<<<d, n>>, k>> \in permits
        BY <3>0, <3>2, <3>4
      <4>2. ThreadOf(d) \in permits' <=> ThreadOf(d) \in permits
        BY <4>1 DEF ThreadOf, LegOf
      <4>3. <<LegOf(d), "invoke">> \in permits' <=> <<LegOf(d), "invoke">> \in permits
        BY <4>1 DEF LegOf
      <4> QED
        BY <3>3, <4>0, <4>1, <4>2, <4>3 DEF Spare
    <3>5. leg[c] \in Nat
      BY Places
    <3>6. \A n \in Nat, k \in Kinds : n > leg'[c] => <<<<c, n>>, k>> \notin permits'
      <4> SUFFICES ASSUME NEW n \in Nat, NEW k \in Kinds, n > leg[c]
                   PROVE  <<<<c, n>>, k>> \notin permits'
        BY <3>0
      <4>1. <<<<c, n>>, k>> \notin permits
        BY DEF SpareInv, Spare
      <4>2. <<<<c, n>>, k>> # ThreadOf(c)
        BY <3>5 DEF ThreadOf, LegOf
      <4> QED
        BY <3>0, <4>1, <4>2
    <3>7. c \in Streaming /\ ~ deleg'[c] => <<LegOf(c)', "invoke">> \notin permits'
      <4> SUFFICES ASSUME c \in Streaming, ~ deleg[c]
                   PROVE  <<LegOf(c), "invoke">> \notin permits'
        BY <3>0, <3>3
      <4>1. ThreadOf(c) = <<LegOf(c), "stream">>
        BY DEF ThreadOf, Streams
      <4>2. <<LegOf(c), "invoke">> \notin permits
        BY <2>6 DEF SpareInv, Spare, Submit
      <4> QED
        BY <3>0, <4>1, <4>2
    <3>8. Spare(c)'
      BY <3>0, <3>1, <3>3, <3>6, <3>7 DEF Spare, Before, InStream
    <3> QED
      BY <3>4, <3>8 DEF SpareInv
  <2>7. CASE SubmitFails(c)
    BY <2>7, <2>a DEF SubmitFails
  <2>8. CASE Result(c)
    BY <2>8, <2>a DEF Result
  <2>9. CASE Deadline(c)
    BY <2>9, <2>a, ShutdownShrinks DEF Deadline
  <2>10. CASE TakeChunk(c)
    BY <2>10, SpareQuiet DEF TakeChunk
  <2>11. CASE TakeDone(c)
    <3>1. Streams(c) /\ permits' \subseteq permits
      BY <2>11, ShutdownShrinks DEF TakeDone, Abandon, SpareInv, Spare, InStream
    <3> QED
      BY <2>11, <3>1, SpareMoves DEF TakeDone, Before, InStream
  <2>12. CASE StreamFails(c)
    BY <2>12, <2>a, ShutdownShrinks DEF StreamFails, Abandon
  <2>13. CASE StreamDeadline(c)
    BY <2>13, <2>a, ShutdownShrinks DEF StreamDeadline, Abandon
  <2>14. CASE Drained(c) \/ CancelSwallowed(c)
    <3>1. Streams(c)
      BY <2>14 DEF Drained, CancelSwallowed, SpareInv, Spare, InStream
    <3> QED
      BY <2>14, <3>1, SpareMoves DEF Drained, CancelSwallowed, Before, InStream
  <2>15. CASE Answer(c)
    BY <2>15, <2>a DEF Answer
  <2>16. CASE Delegate(c)
    <3>0. /\ pc' = [pc EXCEPT ![c] = "admitted"] /\ deleg' = [deleg EXCEPT ![c] = TRUE]
          /\ UNCHANGED <<leg, permits>> /\ pc[c] = "finishing"
      BY <2>16 DEF Delegate
    <3>1. /\ pc'[c] = "admitted" /\ deleg'[c] = TRUE
          /\ \A d \in Calls \ {c} : pc'[d] = pc[d] /\ deleg'[d] = deleg[d]
      BY <3>0 DEF TypeOK
    <3>2. \A d \in Calls \ {c} : Spare(d)'
      BY <3>0, <3>1, SpareLocal DEF SpareInv
    <3>3. ThreadOf(c)' = <<LegOf(c), "invoke">>
      BY <3>0, <3>1 DEF ThreadOf, LegOf, Streams
    <3>4. <<LegOf(c), "invoke">> \notin permits
      BY <3>0 DEF SpareInv, Spare, InStream, Streams
    <3>5. Spare(c)'
      BY <3>0, <3>1, <3>3, <3>4 DEF SpareInv, Spare, InStream
    <3> QED
      BY <3>2, <3>5 DEF SpareInv
  <2>17. CASE StreamCancelled(c)
    BY <2>17, SpareAfter, ShutdownShrinks DEF StreamCancelled, Abandon
  <2>18. CASE Cancel(c)
    BY <2>18, SpareQuiet DEF Cancel
  <2> QED
    BY <1>2, <2>1, <2>2, <2>3, <2>4, <2>5, <2>6, <2>7, <2>8, <2>9, <2>10, <2>11, <2>12,
       <2>13, <2>14, <2>15, <2>16, <2>17, <2>18 DEF CallStep
<1>3. ASSUME NEW t \in Threads, Worker(t) \/ ProviderStep(t)
      PROVE  SpareInv'
  <2>1. UNCHANGED callVars /\ permits' \subseteq permits
    BY <1>3 DEF Worker, ProviderStep, ThreadStarts, PutChunk, BailOut, WorkerReturns,
                ReturnPermit, InvokeEnds, StreamChunk, StreamEnds, Goes
  <2> QED
    BY <2>1, SpareQuiet
<1>4. ASSUME NEW p \in Providers, CoolDown(p)
      PROVE  SpareInv'
  BY <1>4, SpareQuiet DEF CoolDown
<1> QED
  BY <1>1, <1>2, <1>3, <1>4 DEF Next
(***************************************************************************)
(* Counting the permits                                                    *)
(***************************************************************************)
LEMMA HoldingFinite == IsFiniteSet(Holding) /\ Cardinality(Holding) \in Nat
<1>1. Holding \subseteq Calls
  BY DEF Holding
<1> QED
  BY <1>1, GuardAssumption, FS_Subset, FS_CardinalityType

\* A thread that dies, or only changes, keeps the count.
LEMMA CountQuiet ==
    ASSUME CountInv, UNCHANGED <<inFlight, permits>>, Alive' \subseteq Alive, Holding' = Holding
    PROVE  CountInv'
BY DEF CountInv, ThreadsBounded

\* One permit goes back, and with it the thread that held it.
LEMMA CountReturn ==
    ASSUME TypeOK, CountInv, NEW t \in permits, permits' = permits \ {t}, Release,
           Alive' \subseteq Alive \ {t}, Holding' = Holding
    PROVE  CountInv'
<1>1. IsFiniteSet(permits) /\ Cardinality(permits) \in Nat
  BY FS_CardinalityType DEF CountInv
<1>2. /\ IsFiniteSet(permits \ {t})
      /\ Cardinality(permits \ {t}) = Cardinality(permits) - 1
  BY <1>1, FS_RemoveElement
<1>3. Cardinality(permits \ {t}) \in Nat /\ Cardinality(Holding) \in Nat
  BY <1>2, FS_CardinalityType, HoldingFinite
<1>4. inFlight = Cardinality(permits) + Cardinality(Holding) /\ inFlight <= MAX_CONCURRENT
  BY DEF CountInv, ThreadsBounded
<1>5. inFlight > 0 /\ inFlight \in Nat
  BY <1>1, <1>2, <1>3, <1>4
<1>6. inFlight' = inFlight - 1
  BY <1>5 DEF Release
<1>7. MAX_CONCURRENT \in Nat
  BY GuardAssumption
<1>8. Alive' \subseteq permits'
  BY DEF CountInv, ThreadsBounded
<1>9. inFlight' = Cardinality(permits') + Cardinality(Holding') /\ inFlight' <= MAX_CONCURRENT
  BY <1>1, <1>2, <1>3, <1>4, <1>5, <1>6, <1>7
<1> QED
  BY <1>2, <1>8, <1>9 DEF CountInv, ThreadsBounded

LEMMA CountShutdown ==
    ASSUME TypeOK, CountInv, NEW t \in Threads, Shutdown(t), Holding' = Holding
    PROVE  CountInv'
<1>1. CASE thread[t] = "queued"
  <2>1. t \in permits
    BY <1>1 DEF CountInv, ThreadsBounded, Alive, Living
  <2>2. thread' = [thread EXCEPT ![t] = "none"] /\ permits' = permits \ {t} /\ Release
    BY <1>1 DEF Shutdown
  <2>3. Alive' \subseteq Alive \ {t}
    BY <2>2 DEF Alive, Living, TypeOK
  <2> QED
    BY <2>1, <2>2, <2>3, CountReturn
<1>2. CASE thread[t] # "queued"
  <2>1. UNCHANGED <<inFlight, permits, thread>>
    BY <1>2 DEF Shutdown, threadVars
  <2>2. Alive' = Alive
    BY <2>1 DEF Alive
  <2> QED
    BY <2>1, <2>2, CountQuiet
<1> QED
  BY <1>1, <1>2

LEMMA SameHolding ==
    ASSUME TypeOK, NEW c \in Calls, \A d \in Calls \ {c} : pc'[d] = pc[d],
           pc[c] = "holding" <=> pc'[c] = "holding"
    PROVE  Holding' = Holding
BY DEF Holding

LEMMA MovesHolding ==
    ASSUME TypeOK, NEW c \in Calls, NEW l, pc' = [pc EXCEPT ![c] = l],
           pc[c] # "holding", l # "holding"
    PROVE  Holding' = Holding
BY SameHolding DEF TypeOK

LEMMA RaisesHolding ==
    ASSUME TypeOK, NEW c \in Calls, Raises(c) \/ Returns(c), pc[c] # "holding"
    PROVE  Holding' = Holding
BY RaisesTyped, SameHolding

LEMMA CountStep == TypeOK /\ SpareInv /\ CountInv /\ [Next]_vars => CountInv'
<1> SUFFICES ASSUME TypeOK, SpareInv, CountInv, [Next]_vars PROVE CountInv'
  OBVIOUS
<1>a. ASSUME UNCHANGED threadVars, Holding' = Holding PROVE CountInv'
  BY <1>a, CountQuiet DEF threadVars, Alive
<1>1. CASE UNCHANGED vars
  BY <1>1, <1>a DEF vars, callVars, Holding
<1>2. ASSUME NEW c \in Calls, CallStep(c) \/ StreamCancelled(c) \/ Cancel(c) \/ CancelSwallowed(c)
      PROVE  CountInv'
  <2>0. ThreadOf(c) \in Threads /\ thread \in [Threads -> {"none"} \cup Living \cup Ended]
    BY Places DEF TypeOK
  <2>1. CASE Admit(c) \/ AdmitProbe(c) \/ CancelSwallowed(c) \/ Delegate(c)
    <3>1. UNCHANGED threadVars
      BY <2>1 DEF Admit, AdmitProbe, CancelSwallowed, Delegate
    <3>2. Holding' = Holding
      BY <2>1, MovesHolding DEF Admit, AdmitProbe, CancelSwallowed, Delegate
    <3> QED
      BY <3>1, <3>2, <1>a
  <2>2. CASE Refuse(c) \/ Full(c) \/ Answer(c)
    <3>1. UNCHANGED threadVars
      BY <2>2 DEF Refuse, Full, Answer
    <3>2. Holding' = Holding
      BY <2>2, RaisesHolding DEF Refuse, Full, Answer, Outcome
    <3> QED
      BY <3>1, <3>2, <1>a
  <2>3. CASE TakeChunk(c) \/ Cancel(c)
    <3>1. UNCHANGED threadVars /\ UNCHANGED pc
      BY <2>3 DEF TakeChunk, Cancel, callVars
    <3> QED
      BY <3>1, <1>a DEF Holding
  <2>4. CASE Result(c) \/ Drained(c)
    <3>1. UNCHANGED <<inFlight, permits>> /\ thread' = [thread EXCEPT ![ThreadOf(c)] = "none"]
      BY <2>4 DEF Result, Drained
    <3>2. Alive' \subseteq Alive
      BY <2>0, <3>1 DEF Alive, Living
    <3>3. Holding' = Holding
      BY <2>4, RaisesHolding, MovesHolding DEF Result, Drained, Outcome
    <3> QED
      BY <3>1, <3>2, <3>3, CountQuiet
  <2>5. CASE Deadline(c) \/ StreamFails(c) \/ StreamDeadline(c) \/ StreamCancelled(c) \/ TakeDone(c)
    <3>1. Shutdown(ThreadOf(c))
      BY <2>5 DEF Deadline, StreamFails, StreamDeadline, StreamCancelled, TakeDone, Abandon
    <3>2. CASE TakeDone(c)
      BY <2>0, <3>1, <3>2, MovesHolding, CountShutdown DEF TakeDone
    <3>3. CASE Deadline(c) \/ StreamFails(c) \/ StreamDeadline(c) \/ StreamCancelled(c)
      <4>1. pc[c] # "holding" /\ (Raises(c) \/ Returns(c))
        BY <3>3 DEF Deadline, StreamFails, StreamDeadline, StreamCancelled, Outcome
      <4> QED
        BY <2>0, <3>1, <4>1, RaisesHolding, CountShutdown
    <3> QED
      BY <2>5, <3>2, <3>3
  <2>6. CASE Acquire(c)
    <3>0. /\ pc[c] = "admitted" /\ inFlight < MAX_CONCURRENT /\ inFlight' = inFlight + 1
          /\ pc' = [pc EXCEPT ![c] = "holding"] /\ UNCHANGED <<thread, permits>>
      BY <2>6 DEF Acquire
    <3>1. Holding' = Holding \cup {c} /\ c \notin Holding
      BY <3>0 DEF Holding, TypeOK
    <3>2. Cardinality(Holding') = Cardinality(Holding) + 1
      BY <3>1, HoldingFinite, FS_AddElement
    <3>3. Cardinality(permits) \in Nat /\ Cardinality(Holding) \in Nat /\ MAX_CONCURRENT \in Nat
      BY FS_CardinalityType, HoldingFinite, GuardAssumption DEF CountInv
    <3>4. inFlight' = Cardinality(permits) + Cardinality(Holding') /\ inFlight' <= MAX_CONCURRENT
      BY <3>0, <3>2, <3>3 DEF CountInv, ThreadsBounded
    <3>5. Alive' \subseteq permits'
      BY <3>0 DEF CountInv, ThreadsBounded, Alive
    <3> QED
      BY <3>0, <3>4, <3>5 DEF CountInv, ThreadsBounded
  <2>7. CASE Submit(c)
    <3>0. /\ pc[c] = "holding" /\ pc'[c] # "holding" /\ permits' = permits \cup {ThreadOf(c)}
          /\ thread' = [thread EXCEPT ![ThreadOf(c)] = "queued"] /\ UNCHANGED inFlight
          /\ \A d \in Calls \ {c} : pc'[d] = pc[d]
      BY <2>7 DEF Submit, TypeOK
    <3>1. Holding' = Holding \ {c} /\ c \in Holding
      BY <3>0 DEF Holding
    <3>2. Cardinality(Holding') = Cardinality(Holding) - 1
      BY <3>1, HoldingFinite, FS_RemoveElement
    <3>3. ThreadOf(c) \notin permits
      BY <3>0 DEF SpareInv, Spare, Before
    <3>4. IsFiniteSet(permits') /\ Cardinality(permits') = Cardinality(permits) + 1
      BY <3>0, <3>3, FS_AddElement DEF CountInv
    <3>5. Cardinality(permits) \in Nat /\ Cardinality(Holding) \in Nat
      BY FS_CardinalityType, HoldingFinite DEF CountInv
    <3>6. inFlight' = Cardinality(permits') + Cardinality(Holding') /\ inFlight' <= MAX_CONCURRENT
      BY <3>0, <3>2, <3>4, <3>5 DEF CountInv, ThreadsBounded
    <3>7. Alive' \subseteq Alive \cup {ThreadOf(c)}
      BY <2>0, <3>0 DEF Alive
    <3>8. Alive' \subseteq permits'
      BY <3>0, <3>7 DEF CountInv, ThreadsBounded
    <3> QED
      BY <3>4, <3>6, <3>8 DEF CountInv, ThreadsBounded
  <2>8. CASE SubmitFails(c)
    <3>0. pc[c] = "holding" /\ Release /\ UNCHANGED <<thread, permits>>
      BY <2>8 DEF SubmitFails
    <3>1. pc'[c] # "holding" /\ \A d \in Calls \ {c} : pc'[d] = pc[d]
      BY <2>8, RaisesTyped DEF SubmitFails, Outcome
    <3>2. Holding' = Holding \ {c} /\ c \in Holding
      BY <3>0, <3>1 DEF Holding
    <3>3. IsFiniteSet(Holding \ {c}) /\ Cardinality(Holding') = Cardinality(Holding) - 1
      BY <3>2, HoldingFinite, FS_RemoveElement
    <3>4. /\ Cardinality(permits) \in Nat /\ Cardinality(Holding) \in Nat
          /\ Cardinality(Holding') \in Nat /\ MAX_CONCURRENT \in Nat
      BY <3>2, <3>3, FS_CardinalityType, HoldingFinite, GuardAssumption DEF CountInv
    <3>5. inFlight = Cardinality(permits) + Cardinality(Holding) /\ inFlight <= MAX_CONCURRENT
      BY DEF CountInv, ThreadsBounded
    <3>6. inFlight' = inFlight - 1
      BY <3>0, <3>3, <3>4, <3>5 DEF Release
    <3>7. inFlight' = Cardinality(permits) + Cardinality(Holding') /\ inFlight' <= MAX_CONCURRENT
      BY <3>3, <3>4, <3>5, <3>6
    <3>8. Alive' \subseteq permits'
      BY <3>0 DEF CountInv, ThreadsBounded, Alive
    <3> QED
      BY <3>0, <3>7, <3>8 DEF CountInv, ThreadsBounded
  <2> QED
    BY <1>2, <2>1, <2>2, <2>3, <2>4, <2>5, <2>6, <2>7, <2>8 DEF CallStep
<1>3. ASSUME NEW t \in Threads, Worker(t) \/ ProviderStep(t)
      PROVE  CountInv'
  <2>1. CASE ReturnPermit(t)
    <3>1. /\ t \in permits /\ permits' = permits \ {t} /\ Release /\ UNCHANGED <<thread, pc>>
          /\ thread[t] \notin Living
      BY <2>1 DEF ReturnPermit, callVars
    <3>2. Alive' \subseteq Alive \ {t} /\ Holding' = Holding
      BY <3>1 DEF Alive, Holding
    <3> QED
      BY <3>1, <3>2, CountReturn
  <2>2. ASSUME NEW from \in Living, NEW to, Goes(t, from, to) PROVE CountInv'
    <3>1. /\ thread[t] = from /\ thread' = [thread EXCEPT ![t] = to]
          /\ UNCHANGED <<inFlight, permits, pc>>
      BY <2>2 DEF Goes, callVars
    <3>2. Alive' \subseteq Alive /\ Holding' = Holding
      BY <3>1 DEF Alive, Holding, TypeOK
    <3> QED
      BY <3>1, <3>2, CountQuiet
  <2>3. CASE ThreadStarts(t) \/ PutChunk(t) \/ BailOut(t) \/ WorkerReturns(t)
    BY <2>2, <2>3 DEF ThreadStarts, PutChunk, BailOut, WorkerReturns, Living
  <2>4. CASE ProviderStep(t)
    BY <2>2, <2>4 DEF ProviderStep, InvokeEnds, StreamChunk, StreamEnds, Living
  <2> QED
    BY <1>3, <2>1, <2>3, <2>4 DEF Worker
<1>4. ASSUME NEW p \in Providers, CoolDown(p)
      PROVE  CountInv'
  BY <1>4, <1>a DEF CoolDown, callVars, Holding
<1> QED
  BY <1>1, <1>2, <1>3, <1>4 DEF Next

\* At most max_concurrent provider threads are alive at any time, the hung ones
\* included, and the bulkhead's counter neither leaks a permit nor gives one
\* back twice: for every number of calls, every route and every limit.
THEOREM ThreadsAreBounded == Spec => []ThreadsBounded
<1>1. Init => SpareInv /\ CountInv
  <2> SUFFICES ASSUME Init PROVE SpareInv /\ CountInv
    OBVIOUS
  <2>1. SpareInv
    BY DEF Init, SpareInv, Spare, InStream
  <2>2. Holding = {} /\ Alive = {} /\ permits = {} /\ inFlight = 0
    BY DEF Init, Holding, Alive, Living
  <2>3. MAX_CONCURRENT \in Nat
    BY GuardAssumption
  <2> QED
    BY <2>1, <2>2, <2>3, FS_EmptySet DEF CountInv, ThreadsBounded
<1>2. Spec => [](TypeOK /\ SpareInv /\ CountInv)
  BY <1>1, Typing, SpareStep, CountStep, PTL DEF Spec
<1> QED
  BY <1>2, PTL DEF CountInv
-----------------------------------------------------------------------------
(***************************************************************************)
(* The refinement of CircuitBreaker                                        *)
(***************************************************************************)
GenBound == \A c \in Calls : attempt[c].live => attempt[c].gen <= gen[Provider(c)]

RefineInv == TypeOK /\ BreakerInv /\ GenBound

\* What a step does to the breakers: a call reports, is admitted or becomes a
\* probe, a cooldown runs out, or nothing happens that they would notice.
Steady(S) == \A d \in S : /\ attempt'[d] = attempt[d]
                          /\ attempt[d].live => Provider(d)' = Provider(d)

Reported(c, o) == Resolve(c, o) /\ Steady(Calls \ {c})

Unnoticed == UNCHANGED breakerVars /\ Steady(Calls)

Elapsed(p) == CoolDown(p) /\ Steady(Calls)

LEMMA Shape ==
    ASSUME TypeOK, BreakerInv, [Next]_vars
    PROVE  \/ Unnoticed
           \/ \E c \in Calls : \/ Admit(c) \/ AdmitProbe(c)
                               \/ \E o \in {"success", "timeout", "error"} : Reported(c, o)
           \/ \E p \in Providers : Elapsed(p)
<1>a. ASSUME UNCHANGED <<breakerVars, attempt, leg>> PROVE Unnoticed
  BY <1>a DEF Unnoticed, Steady, Provider
<1>b. ASSUME NEW c \in Calls, NEW o, Resolve(c, o),
             \A d \in Calls \ {c} : leg'[d] = leg[d]
      PROVE  Reported(c, o)
  <2>1. \A d \in Calls \ {c} : attempt'[d] = attempt[d]
    BY <1>b, ResolveTyped DEF TypeOK
  <2> QED
    BY <1>b, <2>1 DEF Reported, Steady, Provider
<1>c. ASSUME NEW c \in Calls, NEW o, Outcome(c, o) PROVE Reported(c, o)
  BY <1>c, <1>b, OutcomeTyped, RaisesTyped
<1>1. CASE UNCHANGED vars
  BY <1>1, <1>a DEF vars, callVars
<1>2. ASSUME NEW c \in Calls, CallStep(c) \/ StreamCancelled(c) \/ Cancel(c) \/ CancelSwallowed(c)
      PROVE  \/ Unnoticed
             \/ Admit(c) \/ AdmitProbe(c)
             \/ \E o \in {"success", "timeout", "error"} : Reported(c, o)
  <2>1. CASE Refuse(c)
    <3>1. ~ attempt[c].live /\ UNCHANGED <<breakerVars, attempt>>
      BY <2>1 DEF Refuse, BreakerInv, Unreported
    <3>2. \A d \in Calls \ {c} : leg'[d] = leg[d]
      BY <2>1, RaisesTyped DEF Refuse
    <3> QED
      BY <3>1, <3>2 DEF Unnoticed, Steady, Provider
  <2>2. CASE Acquire(c) \/ Submit(c) \/ TakeChunk(c) \/ TakeDone(c) \/ Drained(c)
             \/ Delegate(c) \/ CancelSwallowed(c)
    BY <2>2, <1>a DEF Acquire, Submit, TakeChunk, TakeDone, Drained, Delegate, CancelSwallowed,
                      callVars
  <2>3. CASE Full(c) \/ SubmitFails(c) \/ StreamFails(c)
    BY <2>3, <1>c DEF Full, SubmitFails, StreamFails
  <2>4. CASE Deadline(c) \/ StreamDeadline(c)
    BY <2>4, <1>c DEF Deadline, StreamDeadline
  <2>5. CASE Answer(c)
    BY <2>5, <1>c DEF Answer
  <2>6. CASE Result(c)
    <3>1. PICK o \in {"success", "timeout", "error"} : Outcome(c, o)
      BY <2>6 DEF Result
    <3> QED
      BY <3>1, <1>c
  <2>7. CASE StreamCancelled(c)
    BY <2>7, <1>b, RaisesTyped DEF StreamCancelled
  <2>8. CASE Cancel(c)
    BY <2>8, <1>a, <1>b DEF Cancel
  <2> QED
    BY <1>2, <2>1, <2>2, <2>3, <2>4, <2>5, <2>6, <2>7, <2>8 DEF CallStep
<1>3. ASSUME NEW t \in Threads, Worker(t) \/ ProviderStep(t) PROVE Unnoticed
  <2>1. UNCHANGED <<breakerVars, callVars>>
    BY <1>3 DEF Worker, ProviderStep, ThreadStarts, PutChunk, BailOut, WorkerReturns,
                ReturnPermit, InvokeEnds, StreamChunk, StreamEnds, Goes
  <2> QED
    BY <2>1, <1>a DEF callVars
<1>4. ASSUME NEW p \in Providers, CoolDown(p) PROVE Elapsed(p)
  BY <1>4 DEF CoolDown, Elapsed, Steady, callVars, Provider
<1> QED
  BY <1>1, <1>2, <1>3, <1>4 DEF Next

\* A report: what it may do to the generation of its breaker.
LEMMA GenerationMoves ==
    ASSUME TypeOK, NEW c \in Calls, NEW o, Resolve(c, o)
    PROVE  /\ \A q \in Providers : gen[q] \in Nat /\ gen'[q] \in {gen[q], gen[q] + 1}
           /\ \A q \in Providers : gen'[q] = gen[q] => opened'[q] = opened[q]
           /\ \A q \in Providers \ {Provider(c)} : gen'[q] = gen[q]
<1>1. /\ opened \in [Providers -> {"closed", "open", "cooled"}]
      /\ gen \in [Providers -> Nat] /\ Provider(c) \in Providers
  BY Places DEF TypeOK
<1>2. \/ UNCHANGED <<gen, opened>>
      \/ /\ gen' = [gen EXCEPT ![Provider(c)] = gen[Provider(c)] + 1]
         /\ \E v \in {"closed", "open"} : opened' = [opened EXCEPT ![Provider(c)] = v]
  BY DEF Resolve, RecordSuccess, RecordTimeout, RecordOtherError, breakerVars
<1> QED
  BY <1>1, <1>2

LEMMA GenBoundStep == RefineInv /\ [Next]_vars => GenBound'
<1> SUFFICES ASSUME RefineInv, [Next]_vars PROVE GenBound'
  OBVIOUS
<1>0. TypeOK /\ BreakerInv /\ GenBound
  BY DEF RefineInv
<1>a. \A d \in Calls : Provider(d) \in Providers /\ attempt[d].gen \in Nat
  BY <1>0, Places DEF TypeOK
<1>b. gen \in [Providers -> Nat] /\ attempt \in [Calls -> AttemptSet]
  BY <1>0 DEF TypeOK, AttemptSet
<1>1. CASE Unnoticed
  BY <1>0, <1>a, <1>1 DEF Unnoticed, Steady, GenBound, breakerVars
<1>2. ASSUME NEW c \in Calls, Admit(c) \/ AdmitProbe(c) PROVE GenBound'
  <2>1. /\ gen' = gen /\ leg' = leg
        /\ \E b \in BOOLEAN : attempt' = [attempt EXCEPT ![c] = Attempt(b, gen[Provider(c)])]
    BY <1>2 DEF Admit, AdmitProbe, breakerVars
  <2>2. attempt'[c].gen = gen[Provider(c)] /\ \A d \in Calls \ {c} : attempt'[d] = attempt[d]
    BY <1>a, <1>b, <2>1, AttemptTyped
  <2>3. \A d \in Calls : Provider(d)' = Provider(d)
    BY <2>1 DEF Provider
  <2>4. gen[Provider(c)] \in Nat
    BY <1>a, <1>b
  <2> QED
    BY <1>0, <2>1, <2>2, <2>3, <2>4 DEF GenBound
<1>3. ASSUME NEW c \in Calls, NEW o, Reported(c, o) PROVE GenBound'
  <2>1. \A q \in Providers : gen[q] \in Nat /\ gen'[q] \in {gen[q], gen[q] + 1}
    BY <1>0, <1>3, GenerationMoves DEF Reported
  <2>2. ~ attempt'[c].live
    BY <1>0, <1>3, <1>b, ResolveTyped, AttemptTyped DEF Reported
  <2> QED
    BY <1>0, <1>a, <1>3, <2>1, <2>2 DEF Reported, Steady, GenBound
<1>4. ASSUME NEW p \in Providers, Elapsed(p) PROVE GenBound'
  BY <1>0, <1>a, <1>4 DEF Elapsed, CoolDown, Steady, GenBound
<1> QED
  BY <1>0, <1>1, <1>2, <1>3, <1>4, Shape

LEMMA RefineAlways == Spec => []RefineInv
<1>1. Init => GenBound
  BY DEF Init, GenBound, NoAttempt
<1> QED
  BY <1>1, BreakerAlways, GenBoundStep, PTL DEF Spec, RefineInv

\* What counts is settled by the generation: a report ends the trust in its own
\* call, and a breaker that moves on to another generation trusts nobody.
LEMMA CountsAfter ==
    ASSUME RefineInv, NEW c \in Calls, NEW o, Reported(c, o), NEW d \in Calls, NEW q \in Providers
    PROVE  Counts(d, q)' <=> d # c /\ gen'[q] = gen[q] /\ Counts(d, q)
<1>0. TypeOK /\ BreakerInv /\ GenBound
  BY DEF RefineInv
<1>1. ~ attempt'[c].live
  BY <1>0, ResolveTyped, AttemptTyped DEF Reported, TypeOK
<1>2. CASE d = c
  BY <1>1, <1>2 DEF Counts
<1>3. CASE d # c
  <2>1. attempt'[d] = attempt[d] /\ (attempt[d].live => Provider(d)' = Provider(d))
    BY <1>3 DEF Reported, Steady
  <2>2. /\ gen[q] \in Nat /\ gen'[q] \in {gen[q], gen[q] + 1}
        /\ gen'[q] = gen[q] => opened'[q] = opened[q]
    BY <1>0, GenerationMoves DEF Reported
  <2>3. attempt[d].live => attempt[d].gen <= gen[Provider(d)]
    BY <1>0 DEF GenBound
  <2>4. attempt[d].gen \in Nat
    BY <1>0 DEF TypeOK
  <2>5. CASE gen'[q] = gen[q]
    BY <1>3, <2>1, <2>2, <2>5 DEF Counts
  <2>6. CASE gen'[q] = gen[q] + 1
    <3>1. ~ Counts(d, q)'
      <4> SUFFICES ASSUME Counts(d, q)' PROVE FALSE
        OBVIOUS
      <4>1. attempt'[d].live /\ Provider(d)' = q /\ attempt'[d].gen = gen'[q]
        BY DEF Counts
      <4>2. attempt[d].live /\ Provider(d) = q /\ attempt[d].gen = gen[q] + 1
        BY <2>1, <2>6, <4>1
      <4> QED
        BY <2>2, <2>3, <2>4, <4>2
    <3> QED
      BY <2>2, <2>6, <3>1
  <2> QED
    BY <2>2, <2>5, <2>6
<1> QED
  BY <1>2, <1>3

LEMMA TrustedAfter ==
    ASSUME RefineInv, NEW c \in Calls, NEW o, Reported(c, o)
    PROVE  Trusted' = [q \in Providers |-> IF gen'[q] = gen[q] THEN Trusted[q] \ {c} ELSE {}]
<1> SUFFICES ASSUME NEW q \in Providers
             PROVE  {d \in Calls : Counts(d, q)'}
                        = IF gen'[q] = gen[q] THEN Trusted[q] \ {c} ELSE {}
  BY DEF Trusted
<1>1. Trusted[q] = {d \in Calls : Counts(d, q)}
  BY DEF Trusted
<1> QED
  BY <1>1, CountsAfter

LEMMA ProbingAfter ==
    ASSUME NEW p \in Providers, NEW v, probe \in [Providers -> Calls \cup {NoCall}],
           probe' = [probe EXCEPT ![p] = v]
    PROVE  Probing' = [Probing EXCEPT ![p] = {d \in Calls : v = d}]
<1>1. \A q \in Providers : probe'[q] = IF q = p THEN v ELSE probe[q]
  OBVIOUS
<1>2. Probing' = [q \in Providers |-> {c \in Calls : probe'[q] = c}]
  BY DEF Probing
<1>3. Probing = [q \in Providers |-> {c \in Calls : probe[q] = c}]
  BY DEF Probing
<1>4. \A q \in Providers : {c \in Calls : probe'[q] = c}
                               = IF q = p THEN {d \in Calls : v = d} ELSE Probing[q]
  BY <1>1, <1>3
<1> QED
  BY <1>2, <1>3, <1>4

Mapped == <<opened, streak, Trusted, Probing>>

LEMMA ReportFacts ==
    ASSUME RefineInv, NEW c \in Calls
    PROVE  /\ Provider(c) \in Providers
           /\ opened \in [Providers -> {"closed", "open", "cooled"}]
           /\ streak \in [Providers -> Nat]
           /\ gen \in [Providers -> Nat]
           /\ probe \in [Providers -> Calls \cup {NoCall}]
           /\ attempt[c].live /\ attempt[c].probe <=> probe[Provider(c)] = c
           /\ \A q \in Providers : probe[q] = c => q = Provider(c)
           /\ opened[Provider(c)] = "closed" => probe[Provider(c)] = NoCall
           /\ NoCall \notin Calls
           /\ \A q \in Providers : c \in Trusted[q] <=> Counts(c, q)
           /\ \A q \in Providers : c \in Probing[q] <=> probe[q] = c
<1>1. TypeOK /\ BreakerInv /\ Provider(c) \in Providers
  BY Places DEF RefineInv
<1>2. \A q \in Providers : probe[q] = c <=> attempt[c].live /\ attempt[c].probe /\ Provider(c) = q
  BY <1>1 DEF BreakerInv, ProbeIsOwned
<1>3. opened[Provider(c)] = "closed" => probe[Provider(c)] = NoCall
  BY <1>1 DEF BreakerInv, ClosedHasNoProbe
<1>4. \A q \in Providers : c \in Trusted[q] <=> Counts(c, q)
  BY DEF Trusted
<1>5. \A q \in Providers : c \in Probing[q] <=> probe[q] = c
  BY DEF Probing
<1> QED
  BY <1>1, <1>2, <1>3, <1>4, <1>5, GuardAssumption DEF TypeOK

\* The probe reports: it alone closes the breaker or opens it again, and
\* nobody's trust is disturbed, for an open breaker trusts nobody.
LEMMA ProbeReports ==
    ASSUME RefineInv, NEW c \in Calls, NEW o \in {"success", "timeout", "error"},
           Reported(c, o), attempt[c].live, OwnsProbe(c)
    PROVE  Breaker!Probed(c, Provider(c))
<1> DEFINE p == Provider(c)
<1>1. /\ p \in Providers /\ probe[p] = c /\ opened[p] # "closed" /\ attempt[c].probe
      /\ streak \in [Providers -> Nat] /\ gen \in [Providers -> Nat]
      /\ probe \in [Providers -> Calls \cup {NoCall}] /\ NoCall \notin Calls
      /\ c \in Probing[p]
  BY ReportFacts DEF OwnsProbe
<1>2. /\ probe' = [probe EXCEPT ![p] = NoCall]
      /\ \/ /\ opened' = [opened EXCEPT ![p] = "closed"]
            /\ streak' = [streak EXCEPT ![p] = 0]
         \/ /\ opened' = [opened EXCEPT ![p] = "open"]
            /\ streak' = [streak EXCEPT ![p] = @ + 1]
         \/ UNCHANGED <<opened, streak>>
  BY DEF Reported, Resolve, RecordSuccess, RecordTimeout, RecordOtherError
<1>3. \A q \in Providers \ {p} : gen'[q] = gen[q]
  BY GenerationMoves DEF Reported, RefineInv
<1>4. Trusted[p] = {} /\ \A q \in Providers : c \notin Trusted[q]
  BY <1>1 DEF Trusted, Counts
<1>5. Trusted' = Trusted
  <2>1. \A q \in Providers : (IF gen'[q] = gen[q] THEN Trusted[q] \ {c} ELSE {}) = Trusted[q]
    BY <1>3, <1>4
  <2>2. Trusted' = [q \in Providers |-> Trusted[q]]
    BY <2>1, TrustedAfter
  <2> QED
    BY <2>2 DEF Trusted
<1>6. Probing' = [Probing EXCEPT ![p] = {}]
  <2>1. {d \in Calls : NoCall = d} = {}
    BY <1>1
  <2>2. probe' = [probe EXCEPT ![p] = NoCall] /\ p \in Providers
        /\ probe \in [Providers -> Calls \cup {NoCall}]
    BY <1>1, <1>2
  <2> HIDE DEF p
  <2>3. Probing' = [Probing EXCEPT ![p] = {d \in Calls : NoCall = d}]
    BY <2>2, ProbingAfter
  <2> QED
    BY <2>1, <2>3
<1> QED
  BY <1>1, <1>2, <1>5, <1>6 DEF Breaker!Probed

\* A call that the present generation admitted reports.
LEMMA TrustedReports ==
    ASSUME RefineInv, NEW c \in Calls, NEW o \in {"success", "timeout", "error"},
           Reported(c, o), attempt[c].live, IsCurrentClosedGen(c)
    PROVE  Breaker!Ends(c, Provider(c)) \/ Breaker!TimesOut(c, Provider(c))
<1> DEFINE p == Provider(c)
<1>1. /\ p \in Providers /\ probe[p] = NoCall /\ opened[p] = "closed"
      /\ ~ attempt[c].probe /\ ~ OwnsProbe(c)
      /\ streak \in [Providers -> Nat] /\ gen \in [Providers -> Nat]
      /\ probe \in [Providers -> Calls \cup {NoCall}]
      /\ c \in Trusted[p]
  BY ReportFacts DEF IsCurrentClosedGen, OwnsProbe, Counts
<1>2. \A q \in Providers \ {p} : gen'[q] = gen[q] /\ c \notin Trusted[q]
  BY GenerationMoves, ReportFacts DEF Reported, RefineInv, Counts
<1>3. Probing' = Probing
  <2>1. probe' = probe
    BY <1>1 DEF Reported, Resolve, RecordSuccess, RecordTimeout, RecordOtherError
  <2> QED
    BY <2>1 DEF Probing
<1>4. gen[p] \in Nat /\ streak[p] \in Nat
  BY <1>1
<1>5. Trusted = [q \in Providers |-> Trusted[q]]
  BY DEF Trusted
<1> HIDE DEF p
<1>6. ASSUME gen' = gen PROVE Trusted' = [Trusted EXCEPT ![p] = @ \ {c}]
  <2>1. \A q \in Providers : (IF gen'[q] = gen[q] THEN Trusted[q] \ {c} ELSE {})
                                 = IF q = p THEN Trusted[p] \ {c} ELSE Trusted[q]
    BY <1>2, <1>6
  <2> QED
    BY <1>5, <2>1, TrustedAfter
<1>7. ASSUME gen' = [gen EXCEPT ![p] = @ + 1] PROVE Trusted' = [Trusted EXCEPT ![p] = {}]
  <2>0. gen'[p] # gen[p]
    BY <1>1, <1>4, <1>7
  <2>1. \A q \in Providers : (IF gen'[q] = gen[q] THEN Trusted[q] \ {c} ELSE {})
                                 = IF q = p THEN {} ELSE Trusted[q]
    BY <1>2, <2>0
  <2> QED
    BY <1>5, <2>1, TrustedAfter
<1>8. CASE o = "success"
  <2>1. /\ streak' = [streak EXCEPT ![p] = 0] /\ UNCHANGED <<opened, gen>>
    BY <1>1, <1>8 DEF Reported, Resolve, RecordSuccess, p
  <2> QED
    BY <1>1, <1>3, <1>6, <2>1 DEF Breaker!Ends, p
<1>9. CASE o = "error"
  <2>1. UNCHANGED <<streak, opened, gen>>
    BY <1>9 DEF Reported, Resolve, RecordOtherError
  <2> QED
    BY <1>1, <1>3, <1>6, <2>1 DEF Breaker!Ends, p
<1>10. CASE o = "timeout" /\ streak[p] + 1 >= OPEN_AFTER
  <2>1. /\ opened' = [opened EXCEPT ![p] = "open"]
        /\ streak' = [streak EXCEPT ![p] = @ + 1]
        /\ gen' = [gen EXCEPT ![p] = @ + 1]
    BY <1>1, <1>10 DEF Reported, Resolve, RecordTimeout, p
  <2> QED
    BY <1>1, <1>3, <1>7, <1>10, <2>1 DEF Breaker!TimesOut, p
<1>11. CASE o = "timeout" /\ ~ (streak[p] + 1 >= OPEN_AFTER)
  <2>1. /\ streak' = [streak EXCEPT ![p] = @ + 1] /\ UNCHANGED <<opened, gen>>
    BY <1>1, <1>11 DEF Reported, Resolve, RecordTimeout, p
  <2> QED
    BY <1>1, <1>3, <1>6, <1>11, <2>1 DEF Breaker!TimesOut, p
<1> QED
  BY <1>8, <1>9, <1>10, <1>11

\* A late report, or none at all: the breaker does not notice.
LEMMA LateReports ==
    ASSUME RefineInv, NEW c \in Calls, NEW o, Reported(c, o),
           ~ (attempt[c].live /\ (OwnsProbe(c) \/ IsCurrentClosedGen(c)))
    PROVE  UNCHANGED Mapped
<1> DEFINE p == Provider(c)
<1>1. /\ p \in Providers /\ streak \in [Providers -> Nat]
      /\ \A q \in Providers : c \notin Trusted[q]
  BY ReportFacts DEF Counts, IsCurrentClosedGen
<1>2. UNCHANGED <<opened, gen, probe>>
  BY DEF Reported, Resolve, RecordSuccess, RecordTimeout, RecordOtherError, breakerVars
<1>3. streak' = streak \/ streak' = [streak EXCEPT ![p] = streak[p]]
  BY DEF Reported, Resolve, RecordSuccess, RecordTimeout, RecordOtherError, breakerVars
<1>4. streak' = streak
  BY <1>1, <1>3
<1>5. Trusted' = Trusted
  <2>1. \A q \in Providers : (IF gen'[q] = gen[q] THEN Trusted[q] \ {c} ELSE {}) = Trusted[q]
    BY <1>1, <1>2
  <2>2. Trusted' = [q \in Providers |-> Trusted[q]]
    BY <2>1, TrustedAfter
  <2> QED
    BY <2>2 DEF Trusted
<1> QED
  BY <1>2, <1>4, <1>5 DEF Mapped, Probing

LEMMA UnnoticedMaps ==
    ASSUME RefineInv, Unnoticed
    PROVE  UNCHANGED Mapped
<1>1. UNCHANGED <<opened, streak, gen, probe>>
  BY DEF Unnoticed, breakerVars
<1>2. \A d \in Calls, q \in Providers : Counts(d, q)' <=> Counts(d, q)
  BY <1>1 DEF Unnoticed, Steady, Counts
<1>3. Trusted' = Trusted
  BY <1>2 DEF Trusted
<1> QED
  BY <1>1, <1>3 DEF Mapped, Probing

LEMMA ElapsedMaps ==
    ASSUME RefineInv, NEW p \in Providers, Elapsed(p)
    PROVE  Breaker!CoolDown(p)
<1>1. /\ opened[p] = "open" /\ opened' = [opened EXCEPT ![p] = "cooled"]
      /\ UNCHANGED <<streak, gen, probe>>
  BY DEF Elapsed, CoolDown
<1>2. opened \in [Providers -> {"closed", "open", "cooled"}]
  BY DEF RefineInv, TypeOK
<1>3. \A q \in Providers : opened'[q] = "closed" <=> opened[q] = "closed"
  BY <1>1, <1>2
<1>4. \A d \in Calls, q \in Providers : Counts(d, q)' <=> Counts(d, q)
  BY <1>1, <1>3 DEF Elapsed, Steady, Counts
<1>5. Trusted' = Trusted
  BY <1>4 DEF Trusted
<1> QED
  BY <1>1, <1>5 DEF Breaker!CoolDown, Probing

\* Between legs a call has nothing to report, so that it may be admitted.
LEMMA FreeAtStart ==
    ASSUME RefineInv, NEW c \in Calls, pc[c] = "start"
    PROVE  ~ attempt[c].live /\ Breaker!Free(c)
<1>1. ~ attempt[c].live
  BY DEF RefineInv, BreakerInv, Unreported
<1>2. \A q \in Providers : probe[q] # c
  BY <1>1 DEF RefineInv, BreakerInv, ProbeIsOwned
<1> QED
  BY <1>1, <1>2 DEF Breaker!Free, Trusted, Probing, Counts

LEMMA AdmitMaps ==
    ASSUME RefineInv, NEW c \in Calls, Admit(c)
    PROVE  Breaker!Admit(c, Provider(c))
<1> DEFINE p == Provider(c)
<1>0. /\ p \in Providers /\ gen[p] \in Nat /\ opened[p] = "closed"
      /\ attempt \in [Calls -> AttemptSet]
  BY Places DEF RefineInv, TypeOK, AttemptSet, Admit
<1>1. /\ UNCHANGED <<opened, streak, gen, probe, leg>>
      /\ attempt' = [attempt EXCEPT ![c] = Attempt(FALSE, gen[p])]
  BY DEF Admit, breakerVars
<1>2. /\ attempt'[c].live /\ ~ attempt'[c].probe /\ attempt'[c].gen = gen[p]
      /\ \A d \in Calls \ {c} : attempt'[d] = attempt[d]
      /\ \A d \in Calls : Provider(d)' = Provider(d)
  BY <1>0, <1>1, AttemptTyped DEF Provider
<1>3. ~ attempt[c].live /\ Breaker!Free(c)
  BY FreeAtStart DEF Admit
<1>4. \A d \in Calls, q \in Providers : Counts(d, q)' <=> Counts(d, q) \/ (d = c /\ q = p)
  BY <1>0, <1>1, <1>2, <1>3 DEF Counts
<1> HIDE DEF p
<1>5. \A q \in Providers : {d \in Calls : Counts(d, q)'}
                               = IF q = p THEN {d \in Calls : Counts(d, q)} \cup {c}
                                 ELSE {d \in Calls : Counts(d, q)}
  BY <1>4
<1>6. Trusted' = [Trusted EXCEPT ![p] = @ \cup {c}]
  BY <1>0, <1>5 DEF Trusted
<1>7. Probing' = Probing
  BY <1>1 DEF Probing
<1> QED
  BY <1>0, <1>1, <1>3, <1>6, <1>7 DEF Breaker!Admit, p

LEMMA AdmitProbeMaps ==
    ASSUME RefineInv, NEW c \in Calls, AdmitProbe(c)
    PROVE  Breaker!AdmitProbe(c, Provider(c))
<1> DEFINE p == Provider(c)
<1>0. /\ p \in Providers /\ gen[p] \in Nat /\ opened[p] = "cooled" /\ probe[p] = NoCall
      /\ attempt \in [Calls -> AttemptSet] /\ NoCall \notin Calls
      /\ probe \in [Providers -> Calls \cup {NoCall}]
  BY Places, GuardAssumption DEF RefineInv, TypeOK, AttemptSet, AdmitProbe
<1>1. /\ UNCHANGED <<opened, streak, gen, leg>>
      /\ probe' = [probe EXCEPT ![p] = c]
      /\ attempt' = [attempt EXCEPT ![c] = Attempt(TRUE, gen[p])]
  BY DEF AdmitProbe
<1>2. /\ attempt'[c].probe
      /\ \A d \in Calls \ {c} : attempt'[d] = attempt[d]
      /\ \A d \in Calls : Provider(d)' = Provider(d)
  BY <1>0, <1>1, AttemptTyped DEF Provider
<1>3. ~ attempt[c].live /\ Breaker!Free(c)
  BY FreeAtStart DEF AdmitProbe
<1>4. \A d \in Calls, q \in Providers : Counts(d, q)' <=> Counts(d, q)
  BY <1>0, <1>1, <1>2, <1>3 DEF Counts
<1>5. Trusted' = Trusted
  BY <1>4 DEF Trusted
<1>6. Probing[p] = {}
  BY <1>0 DEF Probing
<1>7. {d \in Calls : c = d} = {c}
  OBVIOUS
<1> HIDE DEF p
<1>8. Probing' = [Probing EXCEPT ![p] = {d \in Calls : c = d}]
  <2>1. p \in Providers /\ probe' = [probe EXCEPT ![p] = c]
        /\ probe \in [Providers -> Calls \cup {NoCall}]
    BY <1>0, <1>1
  <2> QED
    BY ONLY <2>1, ProbingAfter
<1>9. Probing' = [Probing EXCEPT ![p] = {c}]
  BY <1>7, <1>8
<1> QED
  BY <1>0, <1>1, <1>3, <1>5, <1>6, <1>9 DEF Breaker!AdmitProbe, p

LEMMA RefineStep == RefineInv /\ [Next]_vars => [Breaker!Next]_Mapped
<1> SUFFICES ASSUME RefineInv, [Next]_vars PROVE Breaker!Next \/ UNCHANGED Mapped
  OBVIOUS
<1>0. \A c \in Calls : Provider(c) \in Providers
  BY ReportFacts
<1>1. CASE Unnoticed
  BY <1>1, UnnoticedMaps
<1>2. ASSUME NEW c \in Calls, Admit(c) PROVE Breaker!Next
  BY <1>0, <1>2, AdmitMaps DEF Breaker!Next
<1>3. ASSUME NEW c \in Calls, AdmitProbe(c) PROVE Breaker!Next
  BY <1>0, <1>3, AdmitProbeMaps DEF Breaker!Next
<1>4. ASSUME NEW c \in Calls, NEW o \in {"success", "timeout", "error"}, Reported(c, o)
      PROVE  Breaker!Next \/ UNCHANGED Mapped
  <2>1. CASE attempt[c].live /\ OwnsProbe(c)
    BY <1>0, <1>4, <2>1, ProbeReports DEF Breaker!Next
  <2>2. CASE attempt[c].live /\ IsCurrentClosedGen(c)
    BY <1>0, <1>4, <2>2, TrustedReports DEF Breaker!Next
  <2>3. CASE ~ (attempt[c].live /\ (OwnsProbe(c) \/ IsCurrentClosedGen(c)))
    BY <1>4, <2>3, LateReports
  <2> QED
    BY <2>1, <2>2, <2>3
<1>5. ASSUME NEW p \in Providers, Elapsed(p) PROVE Breaker!Next
  BY <1>5, ElapsedMaps DEF Breaker!Next
<1>6. TypeOK /\ BreakerInv
  BY DEF RefineInv
<1> QED
  BY <1>1, <1>2, <1>3, <1>4, <1>5, <1>6, Shape

\* Through the legs of a route, re-invokes, cancellations, deadlines and hung
\* threads the breaker of each provider is the simple one: what a call admitted
\* by an earlier generation reports is not heard.
THEOREM Refinement == Spec => ImplementsBreaker
<1>1. Init => Breaker!Init
  <2> SUFFICES ASSUME Init PROVE Breaker!Init
    OBVIOUS
  <2>1. \A c \in Calls, p \in Providers : ~ Counts(c, p)
    BY DEF Init, Counts, NoAttempt
  <2>2. \A c \in Calls, p \in Providers : probe[p] # c
    BY GuardAssumption DEF Init
  <2>3. Trusted = [p \in Providers |-> {}] /\ Probing = [p \in Providers |-> {}]
    BY <2>1, <2>2 DEF Trusted, Probing
  <2> QED
    BY <2>3 DEF Init, Breaker!Init
<1>2. RefineInv /\ [Next]_vars => [Breaker!Next]_<<opened, streak, Trusted, Probing>>
  BY RefineStep DEF Mapped
<1> QED
  BY <1>1, <1>2, RefineAlways, PTL DEF Spec, ImplementsBreaker, Breaker!Spec, Breaker!cbVars
=============================================================================
