------------------------- MODULE DeliveryPolicyProofs -------------------------
(***************************************************************************)
(* Proofs about DeliveryPolicy, for every length of day and week and every *)
(* set of windows.                                                         *)
(***************************************************************************)
EXTENDS DeliveryPolicy, TLAPS

\* Windows of every day, the only ones the command /quiet sets.
Daily == \A ws \in Settings \cup Commands : \A w \in ws : DaysOf(w) = Weekday

-----------------------------------------------------------------------------
\* The weekday of a day.
LEMMA WeekdayOfDay == ASSUME NEW d \in Nat PROVE d % WEEK \in Weekday
BY PolicyAssumption DEF Weekday

\* An exit is a time, and later than the time it is computed for.
LEMMA ExitIsLater ==
    ASSUME NEW t \in Time, NEW w \in Window
    PROVE  NextExit(t, w) \in Time /\ Before(t, NextExit(t, w))
<1>1. t.day \in Nat /\ t.hour \in Hour /\ w.to_hour \in Hour
  BY DEF Time, Window
<1>2. \A h \in Hour : h \in Int
  BY DEF Hour
<1>3. NextExit(t, w) \in Time
  BY <1>1 DEF NextExit, Time
<1>4. Before(t, NextExit(t, w))
  BY <1>1, <1>2 DEF NextExit, Before
<1> QED BY <1>3, <1>4

\* A daily window in which a time lies is not left before its exit.
LEMMA ActiveUntilExit ==
    ASSUME NEW s \in Time, NEW t \in Time, NEW w \in Window, DaysOf(w) = Weekday,
           InWindow(s, w), NotAfter(s, t), Before(t, NextExit(s, w))
    PROVE  InWindow(t, w)
<1> DEFINE a == w.from_hour
           b == w.to_hour
           i == s.hour
           j == t.hour
<1>1. /\ s.day \in Nat /\ t.day \in Nat
      /\ a \in 0 .. HOURS - 1 /\ b \in 0 .. HOURS - 1 /\ i \in 0 .. HOURS - 1 /\ j \in 0 .. HOURS - 1
      /\ HOURS \in Nat
  BY PolicyAssumption DEF Time, Window, Hour
<1>2. a # b /\ IF a < b THEN a <= i /\ i < b ELSE i >= a \/ i < b
  BY DEF InWindow
<1>3. s.day < t.day \/ (s.day = t.day /\ i <= j)
  BY <1>1 DEF NotAfter, Before
<1>4. LET e == IF b <= i THEN s.day + 1 ELSE s.day
      IN  t.day < e \/ (t.day = e /\ j < b)
  BY DEF NextExit, Before
<1>5. t.day % WEEK \in DaysOf(w)
  BY <1>1, WeekdayOfDay
<1> HIDE DEF a, b, i, j
<1>6. IF a < b THEN a <= j /\ j < b ELSE j >= a \/ j < b
  BY <1>1, <1>2, <1>3, <1>4
<1> QED BY <1>2, <1>5, <1>6 DEF InWindow, a, b, j

-----------------------------------------------------------------------------
\* Every decision, setting and hour keeps the types.
LEMMA TypeStep == TypeOK /\ [Next]_vars => TypeOK'
<1> SUFFICES ASSUME TypeOK, [Next]_vars PROVE TypeOK'
  OBVIOUS
<1>1. CASE Claim
  BY <1>1 DEF Claim, TypeOK
<1>2. CASE Mute
  BY <1>2 DEF Mute, TypeOK
<1>3. CASE Defer
  <2>1. PICK w \in windows : scheduled_at' = NextExit(tickAt, w)
    BY <1>3 DEF Defer, Active
  <2>2. w \in Window /\ tickAt \in Time
    BY <1>3, PolicyAssumption DEF Defer, TypeOK
  <2>3. scheduled_at' \in Time
    BY <2>1, <2>2, ExitIsLater
  <2> QED BY <1>3, <2>3 DEF Defer, TypeOK
<1>4. CASE Send
  BY <1>4 DEF Send, TypeOK
<1>5. CASE SetQuietHours
  BY <1>5 DEF SetQuietHours, TypeOK
<1>6. CASE SetPriority
  BY <1>6 DEF SetPriority, TypeOK
<1>7. CASE Hourly
  <2>1. now.day \in Nat /\ now.hour \in 0 .. HOURS - 1 /\ HOURS \in Nat
    BY PolicyAssumption DEF TypeOK, Time, Hour
  <2>2. 0 \in Hour /\ (now.hour + 1 # HOURS => now.hour + 1 \in Hour)
    BY <2>1, PolicyAssumption DEF Hour
  <2>3. now' \in Time
    BY <1>7, <2>1, <2>2 DEF Hourly, TypeOK, Time
  <2> QED BY <1>7, <2>3 DEF Hourly, TypeOK
<1>8. CASE UNCHANGED vars
  BY <1>8 DEF vars, TypeOK
<1> QED BY <1>1, <1>2, <1>3, <1>4, <1>5, <1>6, <1>7, <1>8 DEF Next

\* The settings a profile begins with are typed, and nothing is deferred.
LEMMA TypeInit == Init => TypeOK
<1>1. 0 \in Hour
  BY PolicyAssumption DEF Hour
<1> QED BY <1>1 DEF Init, TypeOK, Time

\* Type correctness of the delivery policy.
THEOREM Typing == Spec => []TypeOK
BY TypeInit, TypeStep, PTL DEF Spec

-----------------------------------------------------------------------------
(***************************************************************************)
(* No message is held past its quiet hours                                 *)
(***************************************************************************)
\* The inductive invariant: a tick began no later than now, and every hour a
\* deferred message still has to wait is quiet.
Held(from) ==
    \A t \in Time : NotAfter(from, t) /\ Before(t, scheduled_at) => \E w \in decided : InWindow(t, w)

HInv == /\ tickAt # None => NotAfter(tickAt, now)
        /\ scheduled_at # None => Held(now)

\* The order of times is transitive.
LEMMA Transitive ==
    ASSUME NEW t \in Time, NEW u \in Time, NEW v \in Time, NotAfter(t, u), NotAfter(u, v)
    PROVE  NotAfter(t, v)
<1>1. t.day \in Nat /\ u.day \in Nat /\ v.day \in Nat /\ t.hour \in Int /\ u.hour \in Int /\ v.hour \in Int
  BY PolicyAssumption DEF Time, Hour
<1> QED BY <1>1 DEF NotAfter, Before

\* The clock only goes forward.
LEMMA HourlyAdvances == ASSUME TypeOK, Hourly PROVE now' \in Time /\ NotAfter(now, now')
<1>1. now.day \in Nat /\ now.hour \in 0 .. HOURS - 1 /\ HOURS \in Nat
  BY PolicyAssumption DEF TypeOK, Time, Hour
<1>2. now' \in Time
  BY TypeStep DEF Next, TypeOK
<1>3. CASE now.hour + 1 = HOURS
  BY <1>1, <1>2, <1>3 DEF Hourly, NotAfter, Before
<1>4. CASE now.hour + 1 # HOURS
  <2>1. now'.day = now.day /\ now'.hour = now.hour + 1
    BY <1>1, <1>4 DEF Hourly, TypeOK, Time
  <2> QED BY <1>1, <1>2, <2>1 DEF NotAfter, Before
<1> QED BY <1>2, <1>3, <1>4

\* decide_delivery's latest exit: up to it, every hour is in the window it is the
\* exit of.
LEMMA DeferHolds ==
    ASSUME TypeOK, Daily, HInv, Defer
    PROVE  scheduled_at' # None /\ Held(now)'
<1>1. PICK w \in windows : scheduled_at' = NextExit(tickAt, w) /\ InWindow(tickAt, w)
  BY DEF Defer, Active
<1>2. /\ w \in Window /\ tickAt \in Time /\ now \in Time /\ DaysOf(w) = Weekday
      /\ NotAfter(tickAt, now) /\ now' = now /\ decided' = windows
  BY PolicyAssumption DEF Defer, TypeOK, Daily, HInv
<1>3. scheduled_at' # None
  BY <1>1, <1>2, ExitIsLater, PolicyAssumption
<1>4. ASSUME NEW t \in Time, NotAfter(now, t), Before(t, scheduled_at')
      PROVE  InWindow(t, w)
  <2>1. NotAfter(tickAt, t)
    BY <1>2, <1>4, Transitive
  <2> QED BY <1>1, <1>2, <1>4, <2>1, ActiveUntilExit
<1> QED BY <1>2, <1>3, <1>4 DEF Held

\* A deferral stays justified while time passes and settings change.
LEMMA HoldStep == ASSUME Daily PROVE TypeOK /\ HInv /\ [Next]_vars => HInv'
<1> SUFFICES ASSUME TypeOK, HInv, [Next]_vars PROVE HInv'
  OBVIOUS
<1>1. CASE Claim
  BY <1>1 DEF Claim, HInv, Held, NotAfter
<1>2. CASE Mute \/ Send
  BY <1>2 DEF Mute, Send, HInv, Held
<1>3. CASE Defer
  BY <1>3, DeferHolds DEF Defer, HInv
<1>4. CASE SetQuietHours \/ SetPriority
  BY <1>4 DEF SetQuietHours, SetPriority, HInv, Held
<1>5. CASE Hourly
  <2>1. now' \in Time /\ NotAfter(now, now') /\ now \in Time
        /\ UNCHANGED <<scheduled_at, tickAt, decided>>
    BY <1>5, HourlyAdvances DEF Hourly, TypeOK
  <2>2. tickAt' # None => NotAfter(tickAt', now')
    BY <2>1, Transitive DEF TypeOK, HInv
  <2>3. ASSUME scheduled_at' # None PROVE Held(now)'
    <3>1. ASSUME NEW t \in Time, NotAfter(now', t), Before(t, scheduled_at)
          PROVE  \E w \in decided : InWindow(t, w)
      <4>1. NotAfter(now, t)
        BY <2>1, <3>1, Transitive
      <4> QED BY <2>1, <2>3, <3>1, <4>1 DEF HInv, Held
    <3> QED BY <2>1, <3>1 DEF Held
  <2> QED BY <2>2, <2>3 DEF HInv
<1>6. CASE UNCHANGED vars
  BY <1>6 DEF vars, HInv, Held
<1> QED BY <1>1, <1>2, <1>3, <1>4, <1>5, <1>6 DEF Next

\* What is kept about a deferral is what the property says.
LEMMA HeldIsQuiet == TypeOK /\ HInv => HeldOnlyWhileQuiet
<1> SUFFICES ASSUME TypeOK, HInv, scheduled_at # None,
                    NEW d \in now.day .. scheduled_at.day, NEW h \in Hour
             PROVE  LET t == [day |-> d, hour |-> h]
                    IN  NotAfter(now, t) /\ Before(t, scheduled_at) => \E w \in decided : InWindow(t, w)
  BY DEF HeldOnlyWhileQuiet
<1>1. now.day \in Nat /\ scheduled_at.day \in Nat
  BY DEF TypeOK, Time
<1>2. d \in Nat
  BY <1>1
<1>3. [day |-> d, hour |-> h] \in Time
  BY <1>2 DEF Time
<1> QED BY <1>3 DEF HInv, Held

\* With windows of every day, however many, overlapping or crossing midnight,
\* a message is deferred over quiet hours only: whatever the day's length,
\* the batch's delay and the user's changes of settings.
THEOREM HeldForQuietHours ==
    ASSUME Daily
    PROVE  Spec => []HeldOnlyWhileQuiet
<1>1. Init => HInv
  BY DEF Init, HInv
<1>2. TypeOK /\ HInv /\ [Next]_vars => HInv'
  BY HoldStep
<1> QED BY <1>1, <1>2, HeldIsQuiet, Typing, PTL DEF Spec

-----------------------------------------------------------------------------
(***************************************************************************)
(* No message disturbs.  _in_window agrees with the face of the clock: the *)
(* hours counted from the start of a window are those it is active at.     *)
(***************************************************************************)
\* One turn of the clock, forward or back.
LEMMA OneTurn ==
    ASSUME NEW k \in Int
    PROVE  /\ k \in Hour => k % HOURS = k
           /\ k - HOURS \in Hour => k % HOURS = k - HOURS
           /\ k + HOURS \in Hour => k % HOURS = k + HOURS
  BY PolicyAssumption DEF Hour

\* An hour on the face of a window is one of the hours that lie between its
\* ends, in the window's own direction round the clock.
LEMMA FaceIsWindow ==
    ASSUME NEW w \in Window, NEW h \in Face(w)
    PROVE  /\ w.from_hour # w.to_hour
           /\ IF w.from_hour < w.to_hour
              THEN w.from_hour <= h /\ h < w.to_hour
              ELSE h >= w.from_hour \/ h < w.to_hour
<1> DEFINE a == w.from_hour
           b == w.to_hour
           n == (b - a) % HOURS
<1>1. HOURS \in Nat \ {0} /\ a \in 0 .. HOURS - 1 /\ b \in 0 .. HOURS - 1
  BY PolicyAssumption DEF Window, Hour
<1>2. PICK k \in 0 .. n - 1 : h = (a + k) % HOURS
  BY DEF Face
<1> HIDE DEF a, b
<1>3. n = IF a <= b THEN b - a ELSE b - a + HOURS
  <2>1. b - a \in Int /\ (a <= b => b - a \in Hour) /\ (~ (a <= b) => b - a + HOURS \in Hour)
    BY <1>1 DEF Hour
  <2> QED BY <2>1, OneTurn
<1> HIDE DEF n
<1>4. a # b
  BY <1>1, <1>2, <1>3
<1>5. h = IF a + k < HOURS THEN a + k ELSE a + k - HOURS
  <2>1. PICK x \in Int : x = a + k
    BY <1>1, <1>2, <1>3
  <2>2. IF x < HOURS THEN x \in Hour ELSE x - HOURS \in Hour
    BY <1>1, <1>2, <1>3, <2>1 DEF Hour
  <2>3. h = x % HOURS
    BY <1>2, <2>1
  <2>4. h = IF x < HOURS THEN x ELSE x - HOURS
    BY <2>2, <2>3, OneTurn
  <2> QED BY <1>1, <1>3, <2>1, <2>4
<1>6. IF a < b THEN a <= h /\ h < b ELSE h >= a \/ h < b
  BY <1>1, <1>2, <1>3, <1>5
<1> QED BY <1>4, <1>6 DEF a, b

\* What is sent although it may be silenced was sent outside all windows.
LEMMA SendIsLoud ==
    ASSUME TypeOK, [Next]_vars, status = "pending", status' = "sent", Silenceable, NEW w \in windows
    PROVE  ~ (tickAt.day % WEEK \in DaysOf(w) /\ tickAt.hour \in Face(w))
<1>1. Send
  BY DEF Next, Claim, Mute, Defer, Send, SetQuietHours, SetPriority, Hourly, vars
<1>2. tickAt \in Time /\ ~ InWindow(tickAt, w) /\ w \in Window
  BY <1>1, PolicyAssumption DEF Send, Active, TypeOK
<1> QED BY <1>2, FaceIsWindow DEF InWindow

\* However the windows lie, overlap or cross midnight, and whatever days they
\* are for, a message that may be silenced is not sent at an hour of a window.
THEOREM QuietIsKept == Spec => NotDisturbed
<1>1. TypeOK /\ [Next]_vars =>
        [status' = "sent" /\ status = "pending" /\ Silenceable =>
            \A w \in windows : ~ (tickAt.day % WEEK \in DaysOf(w) /\ tickAt.hour \in Face(w))]_vars
  BY SendIsLoud
<1> QED BY <1>1, Typing, PTL DEF Spec, NotDisturbed
=============================================================================
