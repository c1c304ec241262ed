------------------------------- MODULE Reminders -------------------------------
(***************************************************************************)
(* Family reminders of one tenant (services/housewife_reminders.py,        *)
(* workers/housewife_reminder_worker.py) and everyone who writes their     *)
(* rows: the reminder workers of the job runner, the chat turn with its    *)
(* tools and its buttons "done" and "snooze", the mini app, and the        *)
(* restore of a deleted tenant.                                            *)
(*                                                                         *)
(* Each writer reads a row, computes its new value and commits later.      *)
(* Workers and buttons read it FOR UPDATE; the chat tools and the mini app *)
(* do not, and their UPDATE sets the columns they changed and no other.    *)
(* The turns of a tenant exclude one another, and its deletion and restore *)
(* (module TenantBarrier); workers and mini app take no part in that.      *)
(*                                                                         *)
(* Time is a natural number.  A recurrence rule is Count occurrences,      *)
(* Period apart, from trigger_at on.                                       *)
(***************************************************************************)
EXTENDS Integers

CONSTANTS Reminders,
          Workers,
          Turn,           \* the turn that holds the tenant's barrier
          App,            \* a mini-app request
          Channels,       \* telegram, max
          Triggers,       \* the times a user may ask for
          Period, Count,
          ESCALATION_MAX_FIRES,
          ESCALATION_INTERVAL,
          SNOOZE_DEFAULT,
          LATE_FIRE_GRACE,
          Done,
          None

ASSUME ReminderAssumption ==
    /\ Triggers \subseteq Nat
    /\ Turn \notin Workers /\ App \notin Workers /\ Turn # App
    /\ None \notin Workers \cup {Turn, App, Done} \cup Nat
    /\ Done \notin Nat
    /\ Period \in Nat \ {0} /\ Count \in Nat
    /\ ESCALATION_MAX_FIRES \in Nat /\ ESCALATION_INTERVAL \in Nat \ {0}
    /\ SNOOZE_DEFAULT \in Nat \ {0} /\ LATE_FIRE_GRACE \in Nat

VARIABLES
    now,
    row,        \* family_reminders
    lock,       \* who holds a row FOR UPDATE
    deletedAt,  \* tenants.deleted_at
    tx,         \* the open transaction of an actor, or None
    todo,       \* a worker's due_ids
    clock,      \* the time its tick began
    outbox,     \* idempotency keys of the outbox rows: reminder, trigger, channel
    told,       \* when the user was last told a reminder would ring
    answered,   \* the triggers the worker rang or dropped as late
    missed,     \* the triggers that passed while the tenant was deleted
    edited      \* the reminders the chat has begun to edit

workVars == <<todo, clock>>
ghostVars == <<told, answered, missed, edited>>
vars == <<now, row, lock, deletedAt, tx, workVars, outbox, ghostVars>>

Actors == Workers \cup {Turn, App}

Row == [status : {"absent", "pending", "fired", "cancelled"},
        trigger_at : Nat,
        next_trigger_at : Nat \cup {None},
        recurring : BOOLEAN,
        escalation_count : Nat]

Tx == [rem : Reminders, seen : Row, new : Row, ring : BOOLEAN]

-----------------------------------------------------------------------------
(***************************************************************************)
(* What the service computes                                               *)
(***************************************************************************)
\* The occurrences strictly after a reference time.
Later(dtstart, reference) ==
    {dtstart + k * Period : k \in {j \in 0 .. Count - 1 : dtstart + j * Period > reference}}

ComputeNextOccurrenceAfter(dtstart, reference) ==
    LET L == Later(dtstart, reference)
    IN  IF L = {} THEN None ELSE CHOOSE t \in L : \A u \in L : t <= u

\* _initial_next_trigger_at, None where it raises.
InitialNextTriggerAt(trigger, recurring) ==
    IF recurring /\ trigger <= now
    THEN ComputeNextOccurrenceAfter(trigger, now)
    ELSE trigger

\* The end of a firing cycle, of mark_fired and acknowledge alike.
CloseCycle(x, at) ==
    LET next == IF x.recurring THEN ComputeNextOccurrenceAfter(x.trigger_at, at) ELSE None
    IN  [x EXCEPT !.escalation_count = 0,
                  !.next_trigger_at = next,
                  !.status = IF next = None THEN "fired" ELSE @]

\* Mutant: a one-shot reminder keeps its trigger.
MarkFiredAgain(x, at) == [x EXCEPT !.escalation_count = 0]

MarkFired(x, at) ==
    IF x.escalation_count + 1 < ESCALATION_MAX_FIRES
    THEN [x EXCEPT !.escalation_count = @ + 1,
                   !.next_trigger_at = at + ESCALATION_INTERVAL]
    ELSE CloseCycle(x, at)

\* The button "done".
Acknowledge(x) == CloseCycle(x, now)

\* Mutant: the status is left as it was.
SnoozeKeepingStatus(x) == [x EXCEPT !.next_trigger_at = now + SNOOZE_DEFAULT,
                                    !.escalation_count = 0]

Snooze(x) == [x EXCEPT !.next_trigger_at = now + SNOOZE_DEFAULT,
                       !.escalation_count = 0,
                       !.status = "pending"]

CancelRow(x) == [x EXCEPT !.status = "cancelled", !.next_trigger_at = None]

\* update(): with a new trigger, or a new rule for the old one, the next
\* trigger is computed anew; dropping the rule alone leaves it.
UpdateRow(x, trigger, recurring) ==
    LET start == IF trigger = None THEN x.trigger_at ELSE trigger
    IN  IF trigger = None /\ ~ recurring
        THEN [x EXCEPT !.recurring = FALSE]
        ELSE [x EXCEPT !.trigger_at = start,
                       !.recurring = recurring,
                       !.next_trigger_at = InitialNextTriggerAt(start, recurring),
                       !.escalation_count = 0]

\* An UPDATE by primary key sets the columns that differ from the loaded row.
Flush(current, loaded, new) ==
    LET Column(c) == IF new[c] = loaded[c] THEN current[c] ELSE new[c]
    IN  [status |-> Column("status"),
         trigger_at |-> Column("trigger_at"),
         next_trigger_at |-> Column("next_trigger_at"),
         recurring |-> Column("recurring"),
         escalation_count |-> Column("escalation_count")]

-----------------------------------------------------------------------------
Blank == [status |-> "absent", trigger_at |-> 0, next_trigger_at |-> None,
          recurring |-> FALSE, escalation_count |-> 0]

Init ==
    /\ now = 0
    /\ row = [r \in Reminders |-> Blank]
    /\ lock = [r \in Reminders |-> None]
    /\ deletedAt = None
    /\ tx = [a \in Actors |-> None]
    /\ todo = [w \in Workers |-> {}]
    /\ clock = [w \in Workers |-> 0]
    /\ outbox = {}
    /\ told = [r \in Reminders |-> None]
    /\ answered = {}
    /\ missed = {}
    /\ edited = {}

Open(a, r, new, ring) == tx' = [tx EXCEPT ![a] = [rem |-> r, seen |-> row[r], new |-> new, ring |-> ring]]

\* The end of a's transaction, by commit or rollback.
Close(a) ==
    /\ tx' = [tx EXCEPT ![a] = None]
    /\ lock' = [r \in Reminders |-> IF lock[r] = a THEN None ELSE lock[r]]

Write(a) ==
    /\ tx[a] # None
    /\ lock[tx[a].rem] \in {None, a}
    /\ row' = [row EXCEPT ![tx[a].rem] = Flush(@, tx[a].seen, tx[a].new)]
    /\ Close(a)

\* What the user is told from now on, which voids what was owed before.
Promise(r, new) ==
    /\ told' = [told EXCEPT ![r] = IF new.status = "pending" THEN new.next_trigger_at ELSE Done]
    /\ answered' = {p \in answered : p[1] # r}
    /\ missed' = {p \in missed : p[1] # r}

-----------------------------------------------------------------------------
(***************************************************************************)
(* The worker                                                              *)
(***************************************************************************)
Due(x, at) == x.status = "pending" /\ x.next_trigger_at # None /\ x.next_trigger_at <= at

\* due_now in a session of its own, FOR UPDATE SKIP LOCKED.
Scan(w) ==
    /\ todo[w] = {} /\ tx[w] = None
    /\ deletedAt = None
    /\ clock' = [clock EXCEPT ![w] = now]
    /\ todo' = [todo EXCEPT ![w] = {r \in Reminders : lock[r] = None /\ Due(row[r], now)}]
    /\ todo'[w] # {}
    /\ UNCHANGED <<now, row, lock, deletedAt, tx, outbox, ghostVars>>

Late(x, at) == x.next_trigger_at # None /\ at - x.next_trigger_at > LATE_FIRE_GRACE

\* Mutant: the state is not checked again after the scan.
FencedByNothing(x, at) == TRUE

\* The recheck of the row after the scan.
Fenced(x, at) ==
    /\ x.status = "pending"
    /\ x.next_trigger_at = None \/ x.next_trigger_at <= at

\* Mutant: the row is read without FOR UPDATE.
TakeUnlocked(w, r) ==
    /\ r \in todo[w] /\ tx[w] = None
    /\ todo' = [todo EXCEPT ![w] = @ \ {r}]
    /\ IF deletedAt = None /\ Fenced(row[r], clock[w])
         THEN Open(w, r, MarkFired(row[r], clock[w]), ~ Late(row[r], clock[w]))
         ELSE UNCHANGED tx
    /\ UNCHANGED <<now, row, lock, deletedAt, clock, outbox, ghostVars>>

\* The row is read FOR UPDATE; it is skipped if the tenant is gone or the
\* reminder is no longer due, and held otherwise.
Take(w, r) ==
    /\ r \in todo[w] /\ tx[w] = None
    /\ lock[r] = None
    /\ todo' = [todo EXCEPT ![w] = @ \ {r}]
    /\ IF deletedAt = None /\ Fenced(row[r], clock[w])
         THEN /\ lock' = [lock EXCEPT ![r] = w]
              /\ Open(w, r, MarkFired(row[r], clock[w]), ~ Late(row[r], clock[w]))
         ELSE UNCHANGED <<lock, tx>>
    /\ UNCHANGED <<now, row, deletedAt, clock, outbox, ghostVars>>

Fired(x) == IF x.next_trigger_at = None THEN x.trigger_at ELSE x.next_trigger_at

\* One outbox row per channel of the user (there may be none), mark_fired and
\* the commit.  A late reminder is advanced without being sent.
Fire(w, S) ==
    /\ Write(w)
    /\ LET r == tx[w].rem
           t == Fired(tx[w].seen)
       IN  /\ outbox' = IF tx[w].ring THEN outbox \cup {<<r, t, c>> : c \in S} ELSE outbox
           /\ answered' = answered \cup {<<r, t>>}
    /\ UNCHANGED <<now, deletedAt, workVars, told, missed, edited>>

\* An exception while firing: logged, rolled back, retried at a later tick.
FireFails(w) ==
    /\ tx[w] # None
    /\ Close(w)
    /\ UNCHANGED <<now, row, deletedAt, workVars, outbox, ghostVars>>

\* The job runner dies and is started again.
Crash(w) ==
    /\ todo[w] # {} \/ tx[w] # None
    /\ Close(w)
    /\ todo' = [todo EXCEPT ![w] = {}]
    /\ UNCHANGED <<now, row, deletedAt, clock, outbox, ghostVars>>

-----------------------------------------------------------------------------
(***************************************************************************)
(* The user                                                                *)
(***************************************************************************)
InTurn == deletedAt = None /\ tx[Turn] = None

Schedule(r, trigger, recurring) ==
    /\ InTurn
    /\ row[r].status = "absent"
    /\ LET next == InitialNextTriggerAt(trigger, recurring)
           new == [Blank EXCEPT !.status = "pending", !.trigger_at = trigger,
                                !.recurring = recurring, !.next_trigger_at = next]
       IN  /\ next # None
           /\ row' = [row EXCEPT ![r] = new]
           /\ Promise(r, new)
    /\ UNCHANGED <<now, lock, deletedAt, tx, workVars, outbox, edited>>

\* A button of a message of r, however old; read_reminder_for_callback.
Tap(r, new) ==
    /\ InTurn
    /\ \E key \in outbox : key[1] = r
    /\ lock[r] = None
    /\ lock' = [lock EXCEPT ![r] = Turn]
    /\ Open(Turn, r, new, FALSE)
    /\ UNCHANGED <<now, row, deletedAt, workVars, outbox, ghostVars>>

\* update_reminder: nothing but a pending reminder is changed.  The title is
\* embedded, a network call, between the read and the commit.
Edit(r, trigger, recurring) ==
    /\ InTurn
    /\ row[r].status = "pending"
    /\ LET new == UpdateRow(row[r], trigger, recurring)
       IN  /\ new.next_trigger_at # None
           /\ Open(Turn, r, new, FALSE)
    /\ edited' = edited \cup {r}
    /\ UNCHANGED <<now, row, lock, deletedAt, workVars, outbox, told, answered, missed>>

\* cancel_reminder of the chat, or of the mini app.
Cancel(a, r) ==
    /\ deletedAt = None /\ tx[a] = None
    /\ row[r].status \in {"pending", "fired"}
    /\ Open(a, r, CancelRow(row[r]), FALSE)
    /\ UNCHANGED <<now, row, lock, deletedAt, workVars, outbox, ghostVars>>

Commit(a) ==
    /\ Write(a)
    /\ Promise(tx[a].rem, tx[a].new)
    /\ UNCHANGED <<now, deletedAt, workVars, outbox, edited>>

\* The request fails, or its process dies.
Abort(a) ==
    /\ tx[a] # None
    /\ Close(a)
    /\ UNCHANGED <<now, row, deletedAt, workVars, outbox, ghostVars>>

-----------------------------------------------------------------------------
(***************************************************************************)
(* Time, deletion and restore                                              *)
(***************************************************************************)
Tick ==
    /\ now' = now + 1
    /\ missed' = IF deletedAt = None THEN missed
                 ELSE missed \cup {<<r, now'>> : r \in {q \in Reminders :
                            row[q].status = "pending" /\ row[q].next_trigger_at = now'}}
    /\ UNCHANGED <<row, lock, deletedAt, tx, workVars, outbox, told, answered, edited>>

Delete ==
    /\ InTurn
    /\ deletedAt' = now
    /\ UNCHANGED <<now, row, lock, tx, workVars, outbox, ghostVars>>

\* Mutant: the restore leaves the recurring reminders as they are.
DrainedOneShot(x) ==
    IF x.status = "pending" /\ x.next_trigger_at # None /\ ~ x.recurring
       /\ deletedAt <= x.next_trigger_at /\ x.next_trigger_at <= now
    THEN CancelRow(x) ELSE x

\* The reminders of the window [deleted_at, restored_at].
Drained(x) ==
    IF x.status = "pending" /\ x.next_trigger_at # None
       /\ deletedAt <= x.next_trigger_at /\ x.next_trigger_at <= now
    THEN IF x.recurring
         THEN LET next == ComputeNextOccurrenceAfter(x.trigger_at, now)
              IN  [x EXCEPT !.next_trigger_at = next,
                            !.status = IF next = None THEN "fired" ELSE @]
         ELSE CancelRow(x)
    ELSE x

Restore ==
    /\ deletedAt # None /\ tx[Turn] = None
    /\ \A r \in Reminders : Drained(row[r]) # row[r] => lock[r] = None
    /\ row' = [r \in Reminders |-> Drained(row[r])]
    /\ answered' = answered \cup {<<r, row[r].next_trigger_at>> :
                                    r \in {q \in Reminders : Drained(row[q]) # row[q]}}
    /\ deletedAt' = None
    /\ UNCHANGED <<now, lock, tx, workVars, outbox, told, missed, edited>>

-----------------------------------------------------------------------------
WorkerStep(w) ==
    \/ Scan(w)
    \/ \E r \in Reminders : Take(w, r)
    \/ \E S \in SUBSET Channels : Fire(w, S)

UserStep ==
    \/ \E r \in Reminders, t \in Triggers, b \in BOOLEAN : Schedule(r, t, b)
    \/ \E r \in Reminders, t \in Triggers \cup {None}, b \in BOOLEAN : Edit(r, t, b)
    \/ \E r \in Reminders : Tap(r, Acknowledge(row[r])) \/ Tap(r, Snooze(row[r]))
    \/ \E r \in Reminders, a \in {Turn, App} : Cancel(a, r)

Next ==
    \/ \E w \in Workers : WorkerStep(w) \/ FireFails(w) \/ Crash(w)
    \/ UserStep
    \/ \E a \in {Turn, App} : Commit(a) \/ Abort(a)
    \/ Tick
    \/ Delete
    \/ Restore

Spec == Init /\ [][Next]_vars

-----------------------------------------------------------------------------
(***************************************************************************)
(* Properties                                                              *)
(***************************************************************************)
\* Type invariant.
TypeOK ==
    /\ now \in Nat
    /\ row \in [Reminders -> Row]
    /\ lock \in [Reminders -> Actors \cup {None}]
    /\ deletedAt \in Nat \cup {None}
    /\ tx \in [Actors -> Tx \cup {None}]
    /\ todo \in [Workers -> SUBSET Reminders]
    /\ clock \in [Workers -> Nat]
    /\ outbox \subseteq Reminders \X Nat \X Channels
    /\ told \in [Reminders -> Nat \cup {None, Done}]
    /\ answered \subseteq Reminders \X Nat
    /\ missed \subseteq Reminders \X Nat
    /\ edited \subseteq Reminders

\* What the user was told holds: a reminder said to ring at t is armed for t
\* until the worker has dealt with t, and one said to be done or cancelled is
\* not armed.  No snooze or acknowledgement is lost to a worker that read the
\* row before it (#344 F5).  The chat's edits, which take no row lock, may
\* break the first half (see NoHiddenTrigger).
KeptPromise ==
    \A r \in Reminders :
        /\ told[r] \in Nat /\ r \notin edited =>
                \/ row[r].status = "pending" /\ row[r].next_trigger_at = told[r]
                \/ <<r, told[r]>> \in answered
        /\ told[r] = Done => row[r].status # "pending"

\* A reminder is sent for a trigger that has come, never for the next one.
RingsWhenDue == \A key \in outbox : key[2] <= now

\* The guard of update(): a fired reminder is never left armed, invisible to
\* the worker.
NoHiddenTrigger ==
    \A r \in Reminders : row[r].status = "fired" => row[r].next_trigger_at = None

\* No button, old or new, and no restore leaves a fired reminder armed.
FiredIsOver ==
    \A r \in Reminders \ edited : row[r].status = "fired" => row[r].next_trigger_at = None

\* After "done" or a cancellation the user hears no more of a reminder until
\* he asks for it again.
DoneStaysQuiet ==
    [][\A r \in Reminders : told[r] = Done /\ told'[r] = Done =>
            \A t \in {k[2] : k \in outbox'}, c \in Channels :
                <<r, t, c>> \in outbox' => <<r, t, c>> \in outbox]_vars

\* What came due while the tenant was deleted is not sent after the restore.
MissedStaysSilent ==
    \A p \in missed, c \in Channels : <<p[1], p[2], c>> \notin outbox
=============================================================================
