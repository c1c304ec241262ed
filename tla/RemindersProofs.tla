---------------------------- MODULE RemindersProofs ----------------------------
(***************************************************************************)
(* Proofs about Reminders, for every number of reminders and workers.      *)
(***************************************************************************)
EXTENDS Reminders, WellFoundedInduction, TLAPS

-----------------------------------------------------------------------------
(***************************************************************************)
(* What the service computes is a row                                      *)
(***************************************************************************)
\* A set of naturals that is not empty has a least element.
LEMMA LeastOfWellFounded ==
    ASSUME NEW R, IsWellFoundedOn(R, Nat),
           \A x, y \in Nat : x < y => <<x, y>> \in R,
           NEW L, L \subseteq Nat, L # {}
    PROVE  \E n \in L : \A m \in L : n <= m
<1>1. \E n \in L : \A m \in L : ~ (<<m, n>> \in R)
  BY ONLY WFMin, IsWellFoundedOn(R, Nat), L \subseteq Nat, L # {}, Zenon
<1>2. \A m, n \in L : ~ (m < n) => n <= m
  OBVIOUS
<1> QED BY <1>1, <1>2

\* The same for the order of the naturals.
LEMMA LeastNatural ==
    ASSUME NEW L, L \subseteq Nat, L # {}
    PROVE  \E n \in L : \A m \in L : n <= m
<1>1. \A x, y \in Nat : x < y => <<x, y>> \in OpToRel(<, Nat)
  BY DEF OpToRel
<1> QED BY <1>1, NatLessThanWellFounded, LeastOfWellFounded

\* A rule yields an occurrence after the reference time, or none
\* (compute_next_occurrence_after).
LEMMA OccurrenceType ==
    ASSUME NEW d \in Nat, NEW ref \in Nat
    PROVE  ComputeNextOccurrenceAfter(d, ref) \in Nat \cup {None}
<1> DEFINE L == Later(d, ref)
<1>1. L \subseteq Nat
  BY ReminderAssumption DEF Later
<1>2. CASE L = {}
  BY <1>2 DEF ComputeNextOccurrenceAfter
<1>3. CASE L # {}
  <2>1. \E n \in L : \A m \in L : n <= m
    BY <1>1, <1>3, LeastNatural
  <2>2. (CHOOSE t \in L : \A u \in L : t <= u) \in L
    BY <2>1
  <2> QED BY <1>1, <1>3, <2>2 DEF ComputeNextOccurrenceAfter
<1> QED BY <1>2, <1>3

\* Every computation of the service maps rows to rows.
LEMMA RowOperations ==
    ASSUME NEW x \in Row, NEW at \in Nat, now \in Nat
    PROVE  /\ CloseCycle(x, at) \in Row
           /\ MarkFired(x, at) \in Row
           /\ Acknowledge(x) \in Row
           /\ Snooze(x) \in Row
           /\ CancelRow(x) \in Row
           /\ Drained(x) \in Row
<1>1. /\ x.trigger_at \in Nat /\ x.recurring \in BOOLEAN /\ x.escalation_count \in Nat
      /\ ComputeNextOccurrenceAfter(x.trigger_at, at) \in Nat \cup {None}
      /\ ComputeNextOccurrenceAfter(x.trigger_at, now) \in Nat \cup {None}
  BY OccurrenceType DEF Row
<1>2. CloseCycle(x, at) \in Row /\ CloseCycle(x, now) \in Row
  BY <1>1 DEF CloseCycle, Row
<1>3. MarkFired(x, at) \in Row
  <2>1. at + ESCALATION_INTERVAL \in Nat /\ x.escalation_count + 1 \in Nat
    BY <1>1, ReminderAssumption
  <2>2. [x EXCEPT !.escalation_count = @ + 1,
                  !.next_trigger_at = at + ESCALATION_INTERVAL] \in Row
    BY <2>1 DEF Row
  <2> QED BY <1>2, <2>2 DEF MarkFired
<1>4. Snooze(x) \in Row
  <2>1. now + SNOOZE_DEFAULT \in Nat
    BY ReminderAssumption
  <2> QED BY <2>1 DEF Snooze, Row
<1>5. CancelRow(x) \in Row
  BY DEF CancelRow, Row
<1>6. Drained(x) \in Row
  BY <1>1, <1>5 DEF Drained, Row
<1> QED BY <1>2, <1>3, <1>4, <1>5, <1>6 DEF Acknowledge

\* _initial_next_trigger_at yields a time or none.
LEMMA InitialType ==
    ASSUME NEW t \in Nat, NEW b \in BOOLEAN, now \in Nat
    PROVE  InitialNextTriggerAt(t, b) \in Nat \cup {None}
BY OccurrenceType DEF InitialNextTriggerAt

\* update() yields a row.
LEMMA UpdateType ==
    ASSUME NEW x \in Row, NEW t \in Nat \cup {None}, NEW b \in BOOLEAN, now \in Nat
    PROVE  UpdateRow(x, t, b) \in Row
<1> DEFINE start == IF t = None THEN x.trigger_at ELSE t
<1>1. start \in Nat
  BY DEF Row
<1>2. InitialNextTriggerAt(start, b) \in Nat \cup {None}
  BY <1>1, InitialType
<1> HIDE DEF start
<1>3. [x EXCEPT !.trigger_at = start, !.recurring = b,
                !.next_trigger_at = InitialNextTriggerAt(start, b),
                !.escalation_count = 0] \in Row
  BY <1>1, <1>2 DEF Row
<1>4. [x EXCEPT !.recurring = FALSE] \in Row
  BY DEF Row
<1> QED BY <1>3, <1>4 DEF UpdateRow, start

\* A partial UPDATE leaves a row, is the new row when nothing changed in
\* between, and always sets a status that was changed.
LEMMA FlushFacts ==
    ASSUME NEW x \in Row, NEW y \in Row, NEW z \in Row
    PROVE  /\ Flush(x, y, z) \in Row
           /\ x = y => Flush(x, y, z) = z
           /\ y.status # z.status => Flush(x, y, z).status = z.status
<1>1. Flush(x, y, z) \in Row
  BY DEF Flush, Row
<1>2. x = y => Flush(x, y, z) = z
  BY DEF Flush, Row
<1>3. y.status # z.status => Flush(x, y, z).status = z.status
  BY DEF Flush, Row
<1> QED BY <1>1, <1>2, <1>3

-----------------------------------------------------------------------------
(***************************************************************************)
(* Type correctness                                                        *)
(***************************************************************************)
LEMMA OpenTyped ==
    ASSUME TypeOK, NEW a \in Actors, tx[a] # None
    PROVE  /\ tx[a] \in Tx
           /\ tx[a].rem \in Reminders /\ tx[a].seen \in Row /\ tx[a].new \in Row
           /\ tx[a].ring \in BOOLEAN
<1>1. tx[a] \in Tx
  BY DEF TypeOK
<1> QED BY <1>1 DEF Tx

\* Opening a transaction keeps tx typed, closing one keeps tx and lock typed.
LEMMA OpenType ==
    ASSUME TypeOK, NEW a \in Actors, NEW r \in Reminders, NEW n \in Row, NEW b \in BOOLEAN,
           Open(a, r, n, b)
    PROVE  tx' \in [Actors -> Tx \cup {None}]
<1>1. [rem |-> r, seen |-> row[r], new |-> n, ring |-> b] \in Tx
  BY DEF TypeOK, Tx
<1> QED BY <1>1 DEF TypeOK, Open

\* The end of a transaction frees its row.
LEMMA CloseType ==
    ASSUME TypeOK, NEW a \in Actors, Close(a)
    PROVE  /\ tx' \in [Actors -> Tx \cup {None}]
           /\ lock' \in [Reminders -> Actors \cup {None}]
BY DEF TypeOK, Close

\* A commit writes a row.
LEMMA WriteType ==
    ASSUME TypeOK, NEW a \in Actors, Write(a)
    PROVE  /\ row' \in [Reminders -> Row]
           /\ tx' \in [Actors -> Tx \cup {None}]
           /\ lock' \in [Reminders -> Actors \cup {None}]
<1>1. tx[a] # None /\ Close(a)
  BY DEF Write
<1>2. /\ tx[a].rem \in Reminders
      /\ Flush(row[tx[a].rem], tx[a].seen, tx[a].new) \in Row
  BY <1>1, OpenTyped, FlushFacts DEF TypeOK
<1>3. row' \in [Reminders -> Row]
  BY <1>2 DEF Write, TypeOK
<1> QED BY <1>1, <1>3, CloseType

\* What the user is told is a time, or that it is done.
LEMMA PromiseType ==
    ASSUME TypeOK, NEW r \in Reminders, NEW n \in Row, Promise(r, n)
    PROVE  /\ told' \in [Reminders -> Nat \cup {None, Done}]
           /\ answered' \subseteq Reminders \X Nat
           /\ missed' \subseteq Reminders \X Nat
<1>1. n.next_trigger_at \in Nat \cup {None}
  BY DEF Row
<1> QED BY <1>1 DEF TypeOK, Promise

\* Every action keeps the types.
LEMMA TypeStep == TypeOK /\ [Next]_vars => TypeOK'
<1> SUFFICES ASSUME TypeOK, [Next]_vars PROVE TypeOK'
  OBVIOUS
<1>a. Turn \in Actors /\ App \in Actors /\ Workers \subseteq Actors /\ now \in Nat
  BY DEF Actors, TypeOK
<1>1. ASSUME NEW w \in Workers, Scan(w) PROVE TypeOK'
  BY <1>1 DEF Scan, TypeOK, ghostVars
<1>2. ASSUME NEW w \in Workers, NEW r \in Reminders, Take(w, r) PROVE TypeOK'
  <2>1. row[r] \in Row /\ clock[w] \in Nat
    BY DEF TypeOK
  <2>2. MarkFired(row[r], clock[w]) \in Row
    BY <1>a, <2>1, RowOperations
  <2>3. tx' \in [Actors -> Tx \cup {None}] /\ lock' \in [Reminders -> Actors \cup {None}]
    <3>1. CASE Open(w, r, MarkFired(row[r], clock[w]), ~ Late(row[r], clock[w]))
               /\ lock' = [lock EXCEPT ![r] = w]
      BY <1>a, <2>2, <3>1, OpenType DEF TypeOK
    <3>2. CASE UNCHANGED <<lock, tx>>
      BY <3>2 DEF TypeOK
    <3> QED BY <1>2, <3>1, <3>2 DEF Take
  <2> QED BY <1>2, <2>3 DEF Take, TypeOK, ghostVars
<1>3. ASSUME NEW w \in Workers, NEW S \in SUBSET Channels, Fire(w, S) PROVE TypeOK'
  <2>1. Write(w) /\ tx[w] # None
    BY <1>3 DEF Fire, Write
  <2>2. tx[w].rem \in Reminders /\ tx[w].seen \in Row
    BY <1>a, <2>1, OpenTyped
  <2>3. Fired(tx[w].seen) \in Nat
    BY <2>2 DEF Fired, Row
  <2>4. outbox' \subseteq Reminders \X Nat \X Channels /\ answered' \subseteq Reminders \X Nat
    BY <1>3, <2>2, <2>3 DEF Fire, TypeOK
  <2> QED BY <1>a, <1>3, <2>1, <2>4, WriteType DEF Fire, TypeOK, workVars
<1>4. ASSUME NEW w \in Workers, FireFails(w) PROVE TypeOK'
  BY <1>a, <1>4, CloseType DEF FireFails, TypeOK, workVars, ghostVars
<1>5. ASSUME NEW w \in Workers, Crash(w) PROVE TypeOK'
  BY <1>a, <1>5, CloseType DEF Crash, TypeOK, ghostVars
<1>6. ASSUME NEW r \in Reminders, NEW t \in Triggers, NEW b \in BOOLEAN, Schedule(r, t, b)
      PROVE TypeOK'
  <2> DEFINE next == InitialNextTriggerAt(t, b)
             new == [Blank EXCEPT !.status = "pending", !.trigger_at = t,
                                  !.recurring = b, !.next_trigger_at = next]
  <2>1. t \in Nat /\ next \in Nat \cup {None}
    BY <1>a, InitialType, ReminderAssumption
  <2> HIDE DEF next
  <2>2. new \in Row
    BY <2>1 DEF Blank, Row
  <2> HIDE DEF new
  <2>3. row' = [row EXCEPT ![r] = new] /\ Promise(r, new)
    BY <1>6 DEF Schedule, new, next
  <2> QED BY <1>6, <2>2, <2>3, PromiseType DEF Schedule, TypeOK, workVars
<1>7. ASSUME NEW r \in Reminders, NEW n \in Row, Tap(r, n) PROVE TypeOK'
  BY <1>a, <1>7, OpenType DEF Tap, TypeOK, workVars, ghostVars
<1>8. ASSUME NEW r \in Reminders, NEW t \in Triggers \cup {None}, NEW b \in BOOLEAN, Edit(r, t, b)
      PROVE TypeOK'
  <2>1. t \in Nat \cup {None} /\ row[r] \in Row
    BY ReminderAssumption DEF TypeOK
  <2>2. UpdateRow(row[r], t, b) \in Row
    BY <1>a, <2>1, UpdateType
  <2>3. Open(Turn, r, UpdateRow(row[r], t, b), FALSE)
    BY <1>8 DEF Edit
  <2> QED BY <1>a, <1>8, <2>2, <2>3, OpenType DEF Edit, TypeOK, workVars, ghostVars
<1>9. ASSUME NEW r \in Reminders, NEW a \in {Turn, App}, Cancel(a, r) PROVE TypeOK'
  <2>1. CancelRow(row[r]) \in Row
    BY <1>a, RowOperations DEF TypeOK
  <2> QED BY <1>a, <1>9, <2>1, OpenType DEF Cancel, TypeOK, workVars, ghostVars
<1>10. ASSUME NEW a \in {Turn, App}, Commit(a) PROVE TypeOK'
  <2>1. Write(a) /\ tx[a] # None /\ Promise(tx[a].rem, tx[a].new)
    BY <1>10 DEF Commit, Write
  <2>2. tx[a].rem \in Reminders /\ tx[a].new \in Row
    BY <1>a, <2>1, OpenTyped
  <2> QED BY <1>a, <1>10, <2>1, <2>2, WriteType, PromiseType DEF Commit, TypeOK, workVars
<1>11. ASSUME NEW a \in {Turn, App}, Abort(a) PROVE TypeOK'
  BY <1>a, <1>11, CloseType DEF Abort, TypeOK, workVars, ghostVars
<1>12. ASSUME Tick PROVE TypeOK'
  <2>1. now' \in Nat
    BY <1>a, <1>12 DEF Tick
  <2>2. missed' \subseteq Reminders \X Nat
    BY <1>12, <2>1 DEF Tick, TypeOK
  <2> QED BY <1>12, <2>1, <2>2 DEF Tick, TypeOK, workVars
<1>13. ASSUME Delete PROVE TypeOK'
  BY <1>13 DEF Delete, TypeOK, workVars, ghostVars
<1>14. ASSUME Restore PROVE TypeOK'
  <2>1. \A r \in Reminders : Drained(row[r]) \in Row
    BY <1>a, RowOperations DEF TypeOK
  <2>2. \A r \in Reminders : Drained(row[r]) # row[r] => row[r].next_trigger_at \in Nat
    BY DEF Drained, TypeOK, Row
  <2>3. row' \in [Reminders -> Row]
    BY <1>14, <2>1 DEF Restore
  <2>4. answered' \subseteq Reminders \X Nat
    BY <1>14, <2>2 DEF Restore, TypeOK
  <2> QED BY <1>14, <2>3, <2>4 DEF Restore, TypeOK, workVars
<1>15. CASE UNCHANGED vars
  BY <1>15 DEF vars, TypeOK, workVars, ghostVars
<1>16. ASSUME NEW r \in Reminders PROVE Acknowledge(row[r]) \in Row /\ Snooze(row[r]) \in Row
  BY <1>a, RowOperations DEF TypeOK
<1> QED BY <1>1, <1>2, <1>3, <1>4, <1>5, <1>6, <1>7, <1>8, <1>9, <1>10, <1>11, <1>12, <1>13,
           <1>14, <1>15, <1>16 DEF Next, WorkerStep, UserStep

\* No reminder exists and no transaction is open.
LEMMA TypeInit == Init => TypeOK
<1> SUFFICES ASSUME Init PROVE TypeOK
  OBVIOUS
<1>1. Blank \in Row
  BY DEF Blank, Row
<1> QED BY <1>1 DEF Init, TypeOK

\* Type correctness of the reminders' specification.
THEOREM Typing == Spec => []TypeOK
BY TypeInit, TypeStep, PTL DEF Spec

-----------------------------------------------------------------------------
(***************************************************************************)
(* The inductive invariant.  An open transaction either holds the row it   *)
(* read (a worker, a button), or cancels, or is an edit of the chat.       *)
(***************************************************************************)
Holds(a) == a # App /\ lock[tx[a].rem] = a /\ row[tx[a].rem] = tx[a].seen

Cancels(a) == a \notin Workers /\ tx[a].new.status = "cancelled" /\ tx[a].seen.status # "cancelled"

Edits(a) == a = Turn /\ tx[a].rem \in edited
            /\ tx[a].seen.status = "pending" /\ tx[a].new.status = "pending"

FiresDue(w) == /\ tx[w].seen.status = "pending"
               /\ tx[w].seen.next_trigger_at \in Nat
               /\ tx[w].seen.next_trigger_at <= clock[w]

Armed(x) == x.status = "pending" => x.next_trigger_at # None

TxOK(a) ==
    tx[a] # None => /\ Holds(a) \/ Cancels(a) \/ Edits(a)
                    /\ a \in Workers => FiresDue(a)
                    /\ Armed(tx[a].new)

Transactions == \A a \in Actors : TxOK(a)
RowsArmed == \A r \in Reminders : Armed(row[r])
Clocks == \A w \in Workers : clock[w] <= now
DoneIsDone == \A r \in Reminders : told[r] = Done => row[r].status # "pending"

IInv == TypeOK /\ Transactions /\ RowsArmed /\ Clocks /\ DoneIsDone /\ RingsWhenDue

\* A transaction is not disturbed by a step that leaves the rows it holds
\* alone.
LEMMA Undisturbed ==
    ASSUME NEW a \in Actors, TxOK(a), tx'[a] = tx[a], edited \subseteq edited',
           a \in Workers => clock'[a] = clock[a],
           tx[a] # None /\ Holds(a)
              => lock'[tx[a].rem] = a /\ row'[tx[a].rem] = row[tx[a].rem]
    PROVE  TxOK(a)'
BY DEF TxOK, Holds, Cancels, Edits, FiresDue, Armed

\* The rest of a transaction's row is computed by the service.
LEMMA ComputedArmed ==
    ASSUME NEW x \in Row, NEW at \in Nat, now \in Nat
    PROVE  /\ Armed(CloseCycle(x, at)) /\ Armed(MarkFired(x, at)) /\ Armed(Acknowledge(x))
           /\ Armed(Snooze(x)) /\ Armed(CancelRow(x))
           /\ Armed(x) => Armed(Drained(x))
<1>1. Armed(CloseCycle(x, at)) /\ Armed(CloseCycle(x, now))
  BY DEF Armed, CloseCycle, Row
<1>2. now + SNOOZE_DEFAULT # None /\ at + ESCALATION_INTERVAL # None
  BY ReminderAssumption
<1>3. Armed(MarkFired(x, at))
  BY <1>1, <1>2 DEF Armed, MarkFired, Row
<1>4. Armed(Snooze(x))
  BY <1>2 DEF Armed, Snooze, Row
<1>5. Armed(CancelRow(x))
  BY DEF Armed, CancelRow, Row
<1>6. Armed(x) => Armed(Drained(x))
  BY <1>5 DEF Armed, Drained, Row
<1> QED BY <1>1, <1>3, <1>4, <1>5, <1>6 DEF Acknowledge

\* What a transaction that holds or cancels its row leaves in it.
LEMMA WriteFacts ==
    ASSUME IInv, NEW a \in Actors, Write(a)
    PROVE  /\ tx[a].rem \in Reminders /\ tx[a].new \in Row /\ tx[a].seen \in Row
           /\ row' = [row EXCEPT ![tx[a].rem] = Flush(row[tx[a].rem], tx[a].seen, tx[a].new)]
           /\ Holds(a) => row'[tx[a].rem] = tx[a].new
           /\ Cancels(a) => row'[tx[a].rem].status = "cancelled"
           /\ Edits(a) => row'[tx[a].rem].status = row[tx[a].rem].status
<1>1. tx[a] # None
  BY DEF Write
<1>2. tx[a].rem \in Reminders /\ tx[a].new \in Row /\ tx[a].seen \in Row
  BY <1>1, OpenTyped DEF IInv
<1>3. row' = [row EXCEPT ![tx[a].rem] = Flush(row[tx[a].rem], tx[a].seen, tx[a].new)]
  BY DEF Write
<1>4. row'[tx[a].rem] = Flush(row[tx[a].rem], tx[a].seen, tx[a].new) /\ row[tx[a].rem] \in Row
  BY <1>2, <1>3 DEF IInv, TypeOK
<1>5. Holds(a) => row'[tx[a].rem] = tx[a].new
  BY <1>2, <1>4, FlushFacts DEF Holds
<1>6. Cancels(a) => row'[tx[a].rem].status = "cancelled"
  BY <1>2, <1>4, FlushFacts DEF Cancels
<1>7. Edits(a) => row'[tx[a].rem].status = row[tx[a].rem].status
  BY <1>2, <1>4 DEF Edits, Flush, Row
<1> QED BY <1>2, <1>3, <1>5, <1>6, <1>7

\* Committing or dropping a transaction leaves the others as they were.
LEMMA OthersAfterClose ==
    ASSUME IInv, NEW a \in Actors, Close(a), UNCHANGED <<clock, edited>>,
           \A r \in Reminders : row'[r] # row[r] => lock[r] \in {None, a}
    PROVE  Transactions'
<1> SUFFICES ASSUME NEW b \in Actors PROVE TxOK(b)'
  BY DEF Transactions
<1>1. CASE b = a
  <2>1. tx'[b] = None
    BY <1>1 DEF Close, IInv, TypeOK
  <2> QED BY <2>1 DEF TxOK
<1>2. CASE b # a
  <2>1. tx'[b] = tx[b]
    BY <1>2 DEF Close, IInv, TypeOK
  <2>2. ASSUME tx[b] # None, Holds(b)
        PROVE  lock'[tx[b].rem] = b /\ row'[tx[b].rem] = row[tx[b].rem]
    <3>1. tx[b].rem \in Reminders
      BY <2>2, OpenTyped DEF IInv
    <3>2. b # None
      BY ReminderAssumption DEF Actors
    <3>3. lock'[tx[b].rem] = b
      BY <1>2, <2>2, <3>1 DEF Close, Holds
    <3> QED BY <1>2, <2>2, <3>1, <3>2, <3>3 DEF Holds
  <2>3. TxOK(b)
    BY DEF IInv, Transactions
  <2> QED BY <2>1, <2>2, <2>3, Undisturbed
<1> QED BY <1>1, <1>2

\* Opening one does, and the new one is as it should be.
LEMMA OthersAfterOpen ==
    ASSUME IInv, NEW a \in Actors, NEW r \in Reminders, NEW n \in Row, NEW b \in BOOLEAN,
           Open(a, r, n, b), UNCHANGED <<row, clock>>, TxOK(a)', edited \subseteq edited',
           \A q \in Reminders : lock'[q] # lock[q] => lock[q] = None
    PROVE  Transactions'
<1> SUFFICES ASSUME NEW c \in Actors, c # a PROVE TxOK(c)'
  BY DEF Transactions
<1>1. tx'[c] = tx[c]
  BY DEF Open, IInv, TypeOK
<1>2. ASSUME tx[c] # None, Holds(c)
      PROVE  lock'[tx[c].rem] = c
  <2>1. tx[c].rem \in Reminders /\ c # None
    BY <1>2, OpenTyped, ReminderAssumption DEF IInv, Actors
  <2> QED BY <1>2, <2>1 DEF Holds
<1>3. TxOK(c)
  BY DEF IInv, Transactions
<1> QED BY <1>1, <1>2, <1>3, Undisturbed

\* The parts of IInv but the type invariant.
Rest == Transactions /\ RowsArmed /\ Clocks /\ DoneIsDone /\ RingsWhenDue

\* A step that leaves rows, promises and outbox alone and moves no clock.
LEMMA QuietStep ==
    ASSUME IInv, Transactions', UNCHANGED <<now, row, clock, told, outbox>>
    PROVE  Rest'
BY DEF IInv, Rest, RowsArmed, Clocks, DoneIsDone, RingsWhenDue, Armed

\* The scan of due_now changes no row.
LEMMA ScanStep == ASSUME IInv, NEW w \in Workers, Scan(w) PROVE Rest'
<1>1. /\ tx[w] = None /\ tx' = tx /\ UNCHANGED <<now, row, lock, told, outbox, edited>>
      /\ clock' = [clock EXCEPT ![w] = now]
  BY DEF Scan, ghostVars
<1>2. Clocks'
  BY <1>1 DEF IInv, Clocks, TypeOK
<1>3. Transactions'
  <2> SUFFICES ASSUME NEW b \in Actors PROVE TxOK(b)'
    BY DEF Transactions
  <2>1. CASE b = w
    BY <1>1, <2>1 DEF TxOK
  <2>2. CASE b # w
    <3>1. b \in Workers => clock'[b] = clock[b]
      BY <1>1, <2>2 DEF IInv, TypeOK
    <3> QED BY <1>1, <3>1, Undisturbed DEF IInv, Transactions, Holds
  <2> QED BY <2>1, <2>2
<1> QED BY <1>1, <1>2, <1>3 DEF IInv, Rest, RowsArmed, DoneIsDone, RingsWhenDue, Armed

\* The worker locks a row that is due, late or no longer pending.
LEMMA TakeStep == ASSUME IInv, NEW w \in Workers, NEW r \in Reminders, Take(w, r) PROVE Rest'
<1> DEFINE n == MarkFired(row[r], clock[w])
           b == ~ Late(row[r], clock[w])
<1>0. w \in Actors /\ w # App /\ row[r] \in Row /\ clock[w] \in Nat /\ now \in Nat
  BY ReminderAssumption DEF Actors, IInv, TypeOK
<1>1. UNCHANGED <<now, row, clock, told, outbox, edited>>
  BY DEF Take, ghostVars
<1>2. n \in Row /\ Armed(n) /\ b \in BOOLEAN
  BY <1>0, RowOperations, ComputedArmed
<1> HIDE DEF n, b
<1>3. CASE lock' = [lock EXCEPT ![r] = w] /\ Open(w, r, n, b) /\ lock[r] = None
           /\ Fenced(row[r], clock[w])
  <2>1. tx'[w] = [rem |-> r, seen |-> row[r], new |-> n, ring |-> b] /\ lock'[r] = w
    BY <1>0, <1>3 DEF Open, IInv, TypeOK
  <2>2. row[r].next_trigger_at \in Nat /\ row[r].next_trigger_at <= clock[w]
        /\ row[r].status = "pending"
    BY <1>0, <1>3 DEF Fenced, IInv, RowsArmed, Armed, Row
  <2>3. Holds(w)'
    BY <1>0, <1>1, <2>1 DEF Holds
  <2>4. FiresDue(w)' /\ Armed(tx[w].new)'
    BY <1>1, <1>2, <2>1, <2>2 DEF FiresDue, Armed
  <2>5. TxOK(w)'
    BY <2>3, <2>4 DEF TxOK
  <2>6. \A q \in Reminders : lock'[q] # lock[q] => lock[q] = None
    BY <1>3 DEF IInv, TypeOK
  <2>7. Transactions'
    BY <1>0, <1>1, <1>2, <1>3, <2>5, <2>6, OthersAfterOpen
  <2> QED BY <1>1, <2>7, QuietStep
<1>4. CASE UNCHANGED <<lock, tx>>
  <2>1. \A a \in Actors : TxOK(a)'
    BY <1>1, <1>4, Undisturbed DEF IInv, Transactions, Holds
  <2>2. Transactions'
    BY <2>1 DEF Transactions
  <2> QED BY <1>1, <2>2, QuietStep
<1> QED BY <1>3, <1>4 DEF Take, n, b

\* The fire writes the message of a trigger that has come.
LEMMA FireStep == ASSUME IInv, NEW w \in Workers, NEW S \in SUBSET Channels, Fire(w, S) PROVE Rest'
<1> DEFINE r == tx[w].rem
           t == Fired(tx[w].seen)
<1>0. w \in Actors /\ w # App /\ w # Turn
  BY ReminderAssumption DEF Actors
<1>1. Write(w) /\ tx[w] # None /\ Close(w) /\ lock[r] \in {None, w}
      /\ UNCHANGED <<now, clock, told, edited>>
  BY DEF Fire, Write, workVars
<1>2. TxOK(w)
  BY <1>0 DEF IInv, Transactions
<1>3. Holds(w) /\ FiresDue(w) /\ Armed(tx[w].new)
  BY <1>0, <1>1, <1>2 DEF TxOK, Cancels, Edits
<1>4. r \in Reminders /\ row' = [row EXCEPT ![r] = Flush(row[r], tx[w].seen, tx[w].new)]
      /\ row'[r] = tx[w].new
  BY <1>0, <1>1, <1>3, WriteFacts
<1>5. \A q \in Reminders : q # r => row'[q] = row[q]
  BY <1>4 DEF IInv, TypeOK
<1>6. Transactions'
  BY <1>0, <1>1, <1>5, OthersAfterClose
<1>7. RowsArmed'
  BY <1>3, <1>4, <1>5 DEF IInv, RowsArmed, Armed
<1>8. DoneIsDone'
  <2>1. row[r].status = "pending"
    BY <1>3 DEF Holds, FiresDue
  <2> QED BY <1>1, <1>4, <1>5, <2>1 DEF IInv, DoneIsDone
<1>9. RingsWhenDue'
  <2>1. t = tx[w].seen.next_trigger_at /\ t \in Nat /\ t <= clock[w]
    BY <1>3, ReminderAssumption DEF Fired, FiresDue
  <2>2. clock[w] <= now /\ clock[w] \in Nat /\ now \in Nat
    BY DEF IInv, Clocks, TypeOK
  <2>3. t <= now
    BY <2>1, <2>2
  <2> HIDE DEF t, r
  <2>4. \A key \in outbox' : key \in outbox \/ \E c \in S : key = <<r, t, c>>
    BY DEF Fire, t, r
  <2> QED BY <1>1, <2>3, <2>4 DEF IInv, RingsWhenDue
<1>10. Clocks'
  BY <1>1 DEF IInv, Clocks
<1> QED BY <1>6, <1>7, <1>8, <1>9, <1>10 DEF Rest

\* Rollback, of a worker or a request.
LEMMA CloseStep ==
    ASSUME IInv, NEW a \in Actors, Close(a), UNCHANGED <<now, row, clock, told, outbox, edited>>
    PROVE  Rest'
<1>1. Transactions'
  BY OthersAfterClose
<1> QED BY <1>1, QuietStep

\* schedule() inserts a pending row.
LEMMA ScheduleStep ==
    ASSUME IInv, NEW r \in Reminders, NEW t \in Triggers, NEW b \in BOOLEAN, Schedule(r, t, b)
    PROVE  Rest'
<1>1. /\ tx[Turn] = None /\ row[r].status = "absent"
      /\ UNCHANGED <<now, lock, tx, clock, outbox, edited>>
  BY DEF Schedule, InTurn, workVars
<1>2. PICK new : /\ row' = [row EXCEPT ![r] = new] /\ Promise(r, new)
                 /\ new.status = "pending" /\ new.next_trigger_at # None
                 /\ new.next_trigger_at \in Nat \cup {None}
  <2> DEFINE next == InitialNextTriggerAt(t, b)
             new == [Blank EXCEPT !.status = "pending", !.trigger_at = t,
                                  !.recurring = b, !.next_trigger_at = next]
  <2>1. row' = [row EXCEPT ![r] = new] /\ Promise(r, new) /\ next # None
    BY DEF Schedule
  <2>2. next \in Nat \cup {None}
    BY InitialType, ReminderAssumption DEF IInv, TypeOK
  <2> HIDE DEF next
  <2>3. new.status = "pending" /\ new.next_trigger_at = next
    BY DEF Blank
  <2> QED BY <2>1, <2>2, <2>3
<1>3. /\ row'[r] = new /\ \A q \in Reminders : q # r => row'[q] = row[q]
      /\ told'[r] = new.next_trigger_at /\ \A q \in Reminders : q # r => told'[q] = told[q]
  BY <1>2 DEF IInv, TypeOK, Promise
<1>4. Transactions'
  <2> SUFFICES ASSUME NEW a \in Actors PROVE TxOK(a)'
    BY DEF Transactions
  <2>1. TxOK(a)
    BY DEF IInv, Transactions
  <2>2. ASSUME tx[a] # None, Holds(a) PROVE row'[tx[a].rem] = row[tx[a].rem]
    <3>1. tx[a].rem \in Reminders
      BY <2>2, OpenTyped DEF IInv
    <3>2. CASE a \in Workers
      <4>1. Holds(a) /\ FiresDue(a)
        BY <2>1, <2>2, <3>2, ReminderAssumption DEF TxOK, Cancels, Edits
      <4>2. tx[a].rem # r
        BY <1>1, <4>1 DEF Holds, FiresDue
      <4> QED BY <1>3, <3>1, <4>2
    <3>3. CASE a = Turn
      BY <1>1, <2>2, <3>3
    <3>4. CASE a = App
      BY <2>2, <3>4 DEF Holds
    <3> QED BY <3>2, <3>3, <3>4 DEF Actors
  <2> QED BY <1>1, <2>1, <2>2, Undisturbed DEF Holds
<1>5. RowsArmed'
  BY <1>2, <1>3 DEF IInv, RowsArmed, Armed
<1>6. DoneIsDone'
  <2>1. told'[r] # Done
    BY <1>2, <1>3, ReminderAssumption
  <2> QED BY <1>3, <2>1 DEF IInv, DoneIsDone
<1>7. Clocks' /\ RingsWhenDue'
  BY <1>1 DEF IInv, Clocks, RingsWhenDue
<1> QED BY <1>4, <1>5, <1>6, <1>7 DEF Rest

\* A button, a cancellation, an edit: the transaction is opened.
LEMMA TapStep == ASSUME IInv, NEW r \in Reminders, NEW n \in Row, Armed(n), Tap(r, n) PROVE Rest'
<1>0. Turn \in Actors /\ Turn # App /\ Turn \notin Workers
  BY ReminderAssumption DEF Actors
<1>1. /\ UNCHANGED <<now, row, clock, told, outbox, edited>> /\ Open(Turn, r, n, FALSE)
      /\ lock' = [lock EXCEPT ![r] = Turn] /\ lock[r] = None
  BY DEF Tap, ghostVars, workVars
<1>2. tx'[Turn] = [rem |-> r, seen |-> row[r], new |-> n, ring |-> FALSE] /\ lock'[r] = Turn
  BY <1>0, <1>1 DEF Open, IInv, TypeOK
<1>3. TxOK(Turn)'
  <2>1. Holds(Turn)'
    BY <1>0, <1>1, <1>2 DEF Holds
  <2>2. Armed(tx[Turn].new)'
    BY <1>2 DEF Armed
  <2> QED BY <1>0, <2>1, <2>2 DEF TxOK
<1>4. \A q \in Reminders : lock'[q] # lock[q] => lock[q] = None
  BY <1>1 DEF IInv, TypeOK
<1>5. Transactions'
  BY <1>0, <1>1, <1>3, <1>4, OthersAfterOpen
<1> QED BY <1>1, <1>5, QuietStep

\* cancel() opens a transaction that sets the status alone.
LEMMA CancelStep == ASSUME IInv, NEW r \in Reminders, NEW a \in {Turn, App}, Cancel(a, r) PROVE Rest'
<1> DEFINE n == CancelRow(row[r])
<1>0. a \in Actors /\ a \notin Workers
  BY ReminderAssumption DEF Actors
<1>1. /\ UNCHANGED <<now, row, clock, told, outbox, lock, edited>> /\ Open(a, r, n, FALSE)
      /\ row[r].status \in {"pending", "fired"} /\ row[r] \in Row
  BY DEF Cancel, ghostVars, workVars, IInv, TypeOK
<1>2. n \in Row /\ n.status = "cancelled" /\ Armed(n)
  BY <1>1, RowOperations, ComputedArmed DEF CancelRow, Row, IInv, TypeOK
<1> HIDE DEF n
<1>3. tx'[a] = [rem |-> r, seen |-> row[r], new |-> n, ring |-> FALSE]
  BY <1>0, <1>1 DEF Open, IInv, TypeOK
<1>4. TxOK(a)'
  <2>1. Cancels(a)'
    BY <1>0, <1>1, <1>2, <1>3 DEF Cancels
  <2>2. Armed(tx[a].new)'
    BY <1>2, <1>3 DEF Armed
  <2> QED BY <1>0, <2>1, <2>2 DEF TxOK
<1>5. Transactions'
  BY <1>0, <1>1, <1>2, <1>4, OthersAfterOpen
<1> QED BY <1>1, <1>5, QuietStep

\* update() opens a transaction that leaves the status alone.
LEMMA EditStep ==
    ASSUME IInv, NEW r \in Reminders, NEW t \in Triggers \cup {None}, NEW b \in BOOLEAN, Edit(r, t, b)
    PROVE  Rest'
<1> DEFINE n == UpdateRow(row[r], t, b)
<1>0. Turn \in Actors /\ Turn \notin Workers /\ now \in Nat /\ row[r] \in Row /\ t \in Nat \cup {None}
  BY ReminderAssumption DEF Actors, IInv, TypeOK
<1>1. /\ UNCHANGED <<now, row, clock, told, outbox, lock>> /\ Open(Turn, r, n, FALSE)
      /\ row[r].status = "pending" /\ n.next_trigger_at # None /\ r \in edited' /\ edited \subseteq edited'
  BY DEF Edit, ghostVars, workVars
<1>2. n \in Row
  BY <1>0, UpdateType
<1>3. n.status = "pending"
  BY <1>0, <1>1 DEF UpdateRow, Row
<1> HIDE DEF n
<1>4. tx'[Turn] = [rem |-> r, seen |-> row[r], new |-> n, ring |-> FALSE]
  BY <1>0, <1>1 DEF Open, IInv, TypeOK
<1>5. TxOK(Turn)'
  <2>1. Edits(Turn)'
    BY <1>1, <1>3, <1>4 DEF Edits
  <2>2. Armed(tx[Turn].new)'
    BY <1>1, <1>4 DEF Armed
  <2> QED BY <1>0, <2>1, <2>2 DEF TxOK
<1>6. Transactions'
  BY <1>0, <1>1, <1>2, <1>5, OthersAfterOpen
<1> QED BY <1>1, <1>6, QuietStep

\* The commit of a button, an edit or a cancellation.
LEMMA CommitStep == ASSUME IInv, NEW a \in {Turn, App}, Commit(a) PROVE Rest'
<1> DEFINE r == tx[a].rem
<1>0. a \in Actors
  BY DEF Actors
<1>1. Write(a) /\ tx[a] # None /\ Close(a) /\ lock[r] \in {None, a} /\ Promise(r, tx[a].new)
      /\ UNCHANGED <<now, clock, outbox, edited>>
  BY DEF Commit, Write, workVars
<1>2. TxOK(a)
  BY <1>0 DEF IInv, Transactions
<1>3. /\ r \in Reminders /\ tx[a].new \in Row /\ tx[a].seen \in Row
      /\ row' = [row EXCEPT ![r] = Flush(row[r], tx[a].seen, tx[a].new)]
      /\ Holds(a) => row'[r] = tx[a].new
      /\ Cancels(a) => row'[r].status = "cancelled"
      /\ Edits(a) => row'[r].status = row[r].status
  BY <1>0, <1>1, WriteFacts
<1>4. /\ \A q \in Reminders : q # r => row'[q] = row[q] /\ told'[q] = told[q]
      /\ told'[r] = IF tx[a].new.status = "pending" THEN tx[a].new.next_trigger_at ELSE Done
  BY <1>1, <1>3 DEF IInv, TypeOK, Promise
<1>5. Transactions'
  BY <1>0, <1>1, <1>4, OthersAfterClose
<1>6. Holds(a) \/ Cancels(a) \/ Edits(a)
  BY <1>1, <1>2 DEF TxOK
<1>7. Armed(tx[a].new) /\ tx[a].new.next_trigger_at \in Nat \cup {None}
  BY <1>1, <1>2, <1>3 DEF TxOK, Row
<1>8. Armed(row'[r])
  <2>1. CASE Holds(a) \/ Cancels(a)
    BY <1>3, <1>7, <2>1 DEF Armed
  <2>2. CASE Edits(a)
    <3>1. row'[r].next_trigger_at \in {row[r].next_trigger_at, tx[a].new.next_trigger_at}
      BY <1>3 DEF Flush, IInv, TypeOK
    <3> QED BY <1>3, <1>7, <2>2, <3>1 DEF Armed, Edits, IInv, RowsArmed
  <2> QED BY <1>6, <2>1, <2>2
<1>9. RowsArmed'
  BY <1>4, <1>8 DEF IInv, RowsArmed, Armed
<1>10. told'[r] = Done => row'[r].status # "pending"
  <2>1. CASE Edits(a)
    BY <1>4, <1>7, <2>1, ReminderAssumption DEF Edits, Armed
  <2>2. CASE Holds(a) \/ Cancels(a)
    <3>1. tx[a].new.status = "pending" => tx[a].new.next_trigger_at # Done
      BY <1>7, ReminderAssumption DEF Armed
    <3> QED BY <1>3, <1>4, <2>2, <3>1 DEF Cancels
  <2> QED BY <1>6, <2>1, <2>2
<1>11. DoneIsDone'
  BY <1>4, <1>10 DEF IInv, DoneIsDone
<1>12. Clocks' /\ RingsWhenDue'
  BY <1>1 DEF IInv, Clocks, RingsWhenDue
<1> QED BY <1>5, <1>9, <1>11, <1>12 DEF Rest

\* Time passes, or the tenant's flag is set.
LEMMA TimeStep == ASSUME IInv, Tick \/ Delete PROVE Rest'
<1>1. UNCHANGED <<row, lock, tx, clock, outbox, told, edited>> /\ now' \in {now, now + 1} /\ now \in Nat
  BY DEF Tick, Delete, workVars, ghostVars, IInv, TypeOK
<1>2. \A a \in Actors : TxOK(a)'
  BY <1>1, Undisturbed DEF IInv, Transactions, Holds
<1>3. Clocks'
  BY <1>1 DEF IInv, TypeOK, Clocks
<1>4. RingsWhenDue'
  <2>1. \A key \in outbox : key[2] \in Nat
    BY DEF IInv, TypeOK
  <2> QED BY <1>1, <2>1 DEF IInv, RingsWhenDue
<1> QED BY <1>1, <1>2, <1>3, <1>4 DEF Rest, IInv, Transactions, RowsArmed, DoneIsDone, Armed

\* The restore closes the cycles that were missed.
LEMMA RestoreStep == ASSUME IInv, Restore PROVE Rest'
<1>1. /\ UNCHANGED <<now, lock, tx, clock, outbox, told, edited>>
      /\ \A r \in Reminders : row'[r] = Drained(row[r])
      /\ \A r \in Reminders : Drained(row[r]) # row[r] => lock[r] = None
      /\ now \in Nat /\ row \in [Reminders -> Row]
  BY DEF Restore, workVars, IInv, TypeOK
<1>2. ASSUME NEW a \in Actors PROVE TxOK(a)'
  <2>1. ASSUME tx[a] # None, Holds(a) PROVE row'[tx[a].rem] = row[tx[a].rem]
    <3>1. tx[a].rem \in Reminders /\ a # None
      BY <2>1, OpenTyped, ReminderAssumption DEF IInv, Actors
    <3> QED BY <1>1, <2>1, <3>1 DEF Holds
  <2> QED BY <1>1, <2>1, Undisturbed DEF IInv, Transactions, Holds
<1>3. RowsArmed'
  <2>1. \A r \in Reminders : Armed(Drained(row[r]))
    BY <1>1, ComputedArmed DEF IInv, RowsArmed
  <2> QED BY <1>1, <2>1 DEF RowsArmed, Armed
<1>4. DoneIsDone'
  <2>1. \A r \in Reminders : row[r].status # "pending" => Drained(row[r]) = row[r]
    BY DEF Drained
  <2> QED BY <1>1, <2>1 DEF IInv, DoneIsDone
<1> QED BY <1>1, <1>2, <1>3, <1>4 DEF Rest, IInv, Transactions, Clocks, RingsWhenDue

\* Every step keeps the inductive invariant.
LEMMA InvStep == IInv /\ [Next]_vars => IInv'
<1> SUFFICES ASSUME IInv, [Next]_vars PROVE IInv'
  OBVIOUS
<1>0. Turn \in Actors /\ App \in Actors /\ Workers \subseteq Actors
  BY DEF Actors
<1>1. TypeOK'
  BY TypeStep DEF IInv
<1>2. ASSUME NEW w \in Workers, FireFails(w) \/ Crash(w) PROVE Rest'
  <2>1. Close(w) /\ UNCHANGED <<now, row, clock, told, outbox, edited>>
    BY <1>2 DEF FireFails, Crash, workVars, ghostVars
  <2> QED BY <1>0, <2>1, CloseStep
<1>3. ASSUME NEW a \in {Turn, App}, Abort(a) PROVE Rest'
  <2>1. Close(a) /\ UNCHANGED <<now, row, clock, told, outbox, edited>>
    BY <1>3 DEF Abort, workVars, ghostVars
  <2> QED BY <1>0, <2>1, CloseStep
<1>4. ASSUME NEW r \in Reminders, Tap(r, Acknowledge(row[r])) \/ Tap(r, Snooze(row[r])) PROVE Rest'
  <2>1. row[r] \in Row /\ now \in Nat
    BY DEF IInv, TypeOK
  <2>2. /\ Acknowledge(row[r]) \in Row /\ Armed(Acknowledge(row[r]))
        /\ Snooze(row[r]) \in Row /\ Armed(Snooze(row[r]))
    BY <2>1, RowOperations, ComputedArmed
  <2> QED BY <1>4, <2>2, TapStep
<1>5. ASSUME UNCHANGED vars PROVE Rest'
  <2>1. UNCHANGED <<now, row, clock, told, outbox, lock, tx, edited>>
    BY <1>5 DEF vars, workVars, ghostVars
  <2>2. \A a \in Actors : TxOK(a)'
    BY <2>1, Undisturbed DEF IInv, Transactions, Holds
  <2>3. Transactions'
    BY <2>2 DEF Transactions
  <2> QED BY <2>1, <2>3, QuietStep
<1>6. ASSUME NEW w \in Workers, WorkerStep(w) PROVE Rest'
  BY <1>6, ScanStep, TakeStep, FireStep DEF WorkerStep
<1>7. ASSUME UserStep PROVE Rest'
  <2>1. CASE \E r \in Reminders, t \in Triggers, b \in BOOLEAN : Schedule(r, t, b)
    BY <2>1, ScheduleStep
  <2>2. CASE \E r \in Reminders, t \in Triggers \cup {None}, b \in BOOLEAN : Edit(r, t, b)
    BY <2>2, EditStep
  <2>3. CASE \E r \in Reminders, a \in {Turn, App} : Cancel(a, r)
    BY <2>3, CancelStep
  <2> QED BY <1>4, <1>7, <2>1, <2>2, <2>3 DEF UserStep
<1>8. ASSUME \E a \in {Turn, App} : Commit(a) \/ Abort(a) PROVE Rest'
  BY <1>3, <1>8, CommitStep
<1>9. ASSUME Tick \/ Delete \/ Restore PROVE Rest'
  BY <1>9, TimeStep, RestoreStep
<1>10. Rest'
  BY <1>2, <1>5, <1>6, <1>7, <1>8, <1>9 DEF Next
<1> QED BY <1>1, <1>10 DEF IInv, Rest

\* Nothing is armed, told or sent.
LEMMA InvInit == Init => IInv
<1> SUFFICES ASSUME Init PROVE IInv
  OBVIOUS
<1>1. TypeOK
  BY TypeInit
<1>2. Transactions
  BY DEF Init, Transactions, TxOK
<1>3. RowsArmed /\ DoneIsDone
  BY DEF Init, RowsArmed, DoneIsDone, Armed, Blank
<1>4. Clocks /\ RingsWhenDue
  BY DEF Init, Clocks, RingsWhenDue
<1> QED BY <1>1, <1>2, <1>3, <1>4 DEF IInv

\* The inductive invariant holds throughout.
THEOREM Invariant == Spec => []IInv
BY InvInit, InvStep, PTL DEF Spec

-----------------------------------------------------------------------------
(***************************************************************************)
(* The promises                                                            *)
(***************************************************************************)
\* No outbox row is ever written for a trigger that has not come, however
\* long a worker keeps what its scan found.
THEOREM RingsOnTime == Spec => []RingsWhenDue
<1>1. IInv => RingsWhenDue
  BY DEF IInv
<1> QED BY <1>1, Invariant, PTL

\* A worker that holds a row found it pending.
LEMMA FireIsPending ==
    ASSUME IInv, NEW w \in Workers, NEW S, Fire(w, S)
    PROVE  /\ w \in Actors /\ Write(w) /\ tx[w] # None
           /\ Holds(w) /\ FiresDue(w)
           /\ tx[w].rem \in Reminders
           /\ row[tx[w].rem] = tx[w].seen
           /\ row[tx[w].rem].status = "pending"
           /\ Fired(tx[w].seen) = row[tx[w].rem].next_trigger_at
<1>1. w \in Actors /\ w # Turn /\ Write(w) /\ tx[w] # None
  BY ReminderAssumption DEF Actors, Fire, Write
<1>2. Holds(w) /\ FiresDue(w)
  BY <1>1 DEF IInv, Transactions, TxOK, Cancels, Edits
<1>3. tx[w].rem \in Reminders
  BY <1>1, OpenTyped DEF IInv
<1>4. tx[w].seen.next_trigger_at # None
  BY <1>2, ReminderAssumption DEF FiresDue
<1> QED BY <1>1, <1>2, <1>3, <1>4 DEF Holds, FiresDue, Fired

\* After done, no step adds a message of the reminder.
LEMMA QuietAfterDone ==
    ASSUME IInv, [Next]_vars, NEW r \in Reminders, told[r] = Done, NEW t, NEW c,
           <<r, t, c>> \in outbox'
    PROVE  <<r, t, c>> \in outbox
<1>1. ASSUME NEW w \in Workers, NEW S \in SUBSET Channels, Fire(w, S)
      PROVE  <<r, t, c>> \in outbox
  <2>1. tx[w].rem \in Reminders /\ row[tx[w].rem].status = "pending"
    BY <1>1, FireIsPending
  <2>2. tx[w].rem # r
    BY <2>1 DEF IInv, DoneIsDone
  <2> DEFINE q == tx[w].rem
             s == Fired(tx[w].seen)
  <2>3. outbox' \subseteq outbox \cup {<<q, s, d>> : d \in S}
    BY <1>1 DEF Fire
  <2> HIDE DEF q, s
  <2>4. <<r, t, c>> \notin {<<q, s, d>> : d \in S}
    BY <2>2 DEF q
  <2> QED BY <2>3, <2>4
<1>2. outbox' = outbox \/ \E w \in Workers : \E S \in SUBSET Channels : Fire(w, S)
  BY DEF Next, WorkerStep, UserStep, Scan, Take, FireFails, Crash, Schedule, Edit, Tap, Cancel,
         Commit, Abort, Tick, Delete, Restore, vars
<1> QED BY <1>1, <1>2

\* After "done" or a cancellation no worker adds a message of the reminder,
\* whatever it scanned or read before.
THEOREM DoneIsQuiet == Spec => DoneStaysQuiet
<1>1. IInv /\ [Next]_vars =>
        [\A r \in Reminders : told[r] = Done /\ told'[r] = Done =>
            \A t \in {k[2] : k \in outbox'}, c \in Channels :
                <<r, t, c>> \in outbox' => <<r, t, c>> \in outbox]_vars
  BY QuietAfterDone
<1> QED BY <1>1, Invariant, PTL DEF Spec, DoneStaysQuiet

\* What was told of r still stands, unless the chat has edited it.
Kept(r) == told[r] \in Nat /\ r \notin edited =>
               \/ row[r].status = "pending" /\ row[r].next_trigger_at = told[r]
               \/ <<r, told[r]>> \in answered

\* A promise is not disturbed by a step that leaves its row alone.
LEMMA PromiseUndisturbed ==
    ASSUME NEW r, Kept(r), row'[r] = row[r], told'[r] = told[r], edited \subseteq edited',
           <<r, told[r]>> \in answered => <<r, told[r]>> \in answered'
    PROVE  Kept(r)'
BY DEF Kept

\* A worker answers the trigger it advances.
LEMMA FireKeeps ==
    ASSUME IInv, NEW w \in Workers, NEW S, Fire(w, S), NEW r \in Reminders, Kept(r)
    PROVE  Kept(r)'
<1>1. /\ tx[w].rem \in Reminders /\ w \in Actors /\ Write(w)
      /\ Fired(tx[w].seen) = row[tx[w].rem].next_trigger_at
  BY FireIsPending
<1>2. /\ answered' = answered \cup {<<tx[w].rem, Fired(tx[w].seen)>>}
      /\ told' = told /\ edited' = edited
  BY DEF Fire
<1>3. CASE tx[w].rem = r
  BY <1>1, <1>2, <1>3 DEF Kept
<1>4. CASE tx[w].rem # r
  <2>1. row'[r] = row[r]
    BY <1>1, <1>4 DEF Write, IInv, TypeOK
  <2> QED BY <1>2, <2>1, PromiseUndisturbed
<1> QED BY <1>3, <1>4

\* A request that holds its row, or cancels, leaves in it what it tells.
LEMMA CommitKeeps ==
    ASSUME IInv, NEW a \in {Turn, App}, Commit(a), ~ Edits(a), NEW r \in Reminders, Kept(r)
    PROVE  Kept(r)'
<1>1. /\ a \in Actors /\ Write(a) /\ tx[a] # None /\ Promise(tx[a].rem, tx[a].new)
      /\ edited' = edited
  BY DEF Actors, Commit, Write
<1>2. Holds(a) \/ Cancels(a)
  BY <1>1 DEF IInv, Transactions, TxOK
<1>3. /\ tx[a].rem \in Reminders
      /\ Holds(a) => row'[tx[a].rem] = tx[a].new
  BY <1>1, WriteFacts
<1>4. CASE tx[a].rem = r
  <2>1. told'[r] = IF tx[a].new.status = "pending" THEN tx[a].new.next_trigger_at ELSE Done
    BY <1>1, <1>4 DEF Promise, IInv, TypeOK
  <2>2. CASE tx[a].new.status = "pending"
    <3>1. row'[r] = tx[a].new
      BY <1>2, <1>3, <1>4, <2>2 DEF Cancels
    <3> QED BY <2>1, <2>2, <3>1 DEF Kept
  <2>3. CASE tx[a].new.status # "pending"
    BY <2>1, <2>3, ReminderAssumption DEF Kept
  <2> QED BY <2>2, <2>3
<1>5. CASE tx[a].rem # r
  <2>1. row'[r] = row[r] /\ told'[r] = told[r]
    BY <1>1, <1>5 DEF Write, Promise, IInv, TypeOK
  <2>2. <<r, told[r]>> \in answered => <<r, told[r]>> \in answered'
    BY <1>1, <1>5 DEF Promise
  <2> QED BY <1>1, <2>1, <2>2, PromiseUndisturbed
<1> QED BY <1>4, <1>5

\* schedule() keeps its promise and touches no other reminder.
LEMMA ScheduleKeeps ==
    ASSUME IInv, NEW q \in Reminders, NEW t \in Triggers, NEW b \in BOOLEAN, Schedule(q, t, b),
           NEW r \in Reminders, Kept(r)
    PROVE  Kept(r)'
<1>1. PICK new : /\ row' = [row EXCEPT ![q] = new] /\ Promise(q, new) /\ new.status = "pending"
                 /\ edited' = edited
  <2> DEFINE next == InitialNextTriggerAt(t, b)
             new == [Blank EXCEPT !.status = "pending", !.trigger_at = t,
                                  !.recurring = b, !.next_trigger_at = next]
  <2>1. row' = [row EXCEPT ![q] = new] /\ Promise(q, new) /\ edited' = edited
    BY DEF Schedule
  <2> HIDE DEF next
  <2>2. new.status = "pending"
    BY DEF Blank
  <2> QED BY <2>1, <2>2
<1>2. CASE q = r
  BY <1>1, <1>2 DEF Promise, IInv, TypeOK, Kept
<1>3. CASE q # r
  <2>1. row'[r] = row[r] /\ told'[r] = told[r]
    BY <1>1, <1>3 DEF Promise, IInv, TypeOK
  <2>2. <<r, told[r]>> \in answered => <<r, told[r]>> \in answered'
    BY <1>1, <1>3 DEF Promise
  <2> QED BY <1>1, <2>1, <2>2, PromiseUndisturbed
<1> QED BY <1>2, <1>3

\* The restore answers what it drains.
LEMMA RestoreKeeps ==
    ASSUME IInv, Restore, NEW r \in Reminders, Kept(r)
    PROVE  Kept(r)'
<1>1. /\ row'[r] = Drained(row[r]) /\ told' = told /\ edited' = edited
      /\ answered \subseteq answered'
      /\ Drained(row[r]) # row[r] => <<r, row[r].next_trigger_at>> \in answered'
  BY DEF Restore
<1>2. CASE Drained(row[r]) = row[r]
  BY <1>1, <1>2, PromiseUndisturbed
<1>3. CASE Drained(row[r]) # row[r]
  BY <1>1, <1>3 DEF Kept
<1> QED BY <1>2, <1>3

\* An edit owes nothing.
LEMMA EditKeeps ==
    ASSUME IInv, NEW a \in {Turn, App}, Commit(a), Edits(a), NEW r \in Reminders, Kept(r)
    PROVE  Kept(r)'
<1>1. a \in Actors /\ Write(a) /\ tx[a] # None /\ Promise(tx[a].rem, tx[a].new) /\ edited' = edited
  BY DEF Actors, Commit, Write
<1>2. CASE tx[a].rem = r
  BY <1>1, <1>2 DEF Edits, Kept
<1>3. CASE tx[a].rem # r
  <2>1. row'[r] = row[r] /\ told'[r] = told[r]
    BY <1>1, <1>3 DEF Write, Promise, IInv, TypeOK
  <2>2. <<r, told[r]>> \in answered => <<r, told[r]>> \in answered'
    BY <1>1, <1>3 DEF Promise
  <2> QED BY <1>1, <2>1, <2>2, PromiseUndisturbed
<1> QED BY <1>2, <1>3

\* Every step keeps the promises.
LEMMA KeptStep ==
    ASSUME IInv, [Next]_vars, NEW r \in Reminders, Kept(r)
    PROVE  Kept(r)'
<1>1. ASSUME UNCHANGED <<row, told, answered>>, edited \subseteq edited' PROVE Kept(r)'
  BY <1>1 DEF Kept
<1>2. ASSUME NEW a \in {Turn, App}, Commit(a) PROVE Kept(r)'
  BY <1>2, CommitKeeps, EditKeeps
<1>3. \/ UNCHANGED <<row, told, answered>> /\ edited \subseteq edited'
      \/ \E w \in Workers, S \in SUBSET Channels : Fire(w, S)
      \/ \E a \in {Turn, App} : Commit(a)
      \/ \E q \in Reminders, t \in Triggers, b \in BOOLEAN : Schedule(q, t, b)
      \/ Restore
  BY DEF Next, WorkerStep, UserStep, Scan, Take, FireFails, Crash, Edit, Tap, Cancel,
         Abort, Tick, Delete, vars, ghostVars
<1>4. CASE \E w \in Workers, S \in SUBSET Channels : Fire(w, S)
  BY <1>4, FireKeeps
<1>5. CASE \E q \in Reminders, t \in Triggers, b \in BOOLEAN : Schedule(q, t, b)
  BY <1>5, ScheduleKeeps
<1> QED BY <1>1, <1>2, <1>3, <1>4, <1>5, RestoreKeeps

\* Of a reminder the chat does not edit (edits commit without the row lock) no
\* snooze, "done", cancellation or schedule is lost to a worker, a crash, a
\* rollback or a restore, and what is done is never armed again.
THEOREM PromisesKept == Spec => []KeptPromise
<1> DEFINE AllKept == \A r \in Reminders : Kept(r)
<1>1. Init => AllKept
  BY ReminderAssumption DEF Init, Kept
<1>2. IInv /\ AllKept /\ [Next]_vars => AllKept'
  BY KeptStep
<1>3. IInv /\ AllKept => KeptPromise
  BY DEF IInv, DoneIsDone, Kept, KeptPromise
<1> QED BY <1>1, <1>2, <1>3, Invariant, PTL DEF Spec

-----------------------------------------------------------------------------
(***************************************************************************)
(* A fired reminder is over                                                *)
(***************************************************************************)
\* The next occurrence is after the reference time; without one the rule has
\* run out, and it has then at any later time.
LEMMA OccurrenceFacts ==
    ASSUME NEW d \in Nat, NEW t \in Nat
    PROVE  /\ ComputeNextOccurrenceAfter(d, t) = None <=> Later(d, t) = {}
           /\ ComputeNextOccurrenceAfter(d, t) # None =>
                 ComputeNextOccurrenceAfter(d, t) \in Nat /\ ComputeNextOccurrenceAfter(d, t) > t
<1> DEFINE L == Later(d, t)
<1>1. L \subseteq Nat /\ \A n \in L : n > t
  BY ReminderAssumption DEF Later
<1>2. CASE L = {}
  BY <1>2 DEF ComputeNextOccurrenceAfter
<1>3. CASE L # {}
  <2>1. \E n \in L : \A m \in L : n <= m
    BY <1>1, <1>3, LeastNatural
  <2>2. (CHOOSE n \in L : \A m \in L : n <= m) \in L
    BY <2>1
  <2>3. ComputeNextOccurrenceAfter(d, t) \in L
    BY <1>3, <2>2 DEF ComputeNextOccurrenceAfter
  <2>4. None \notin L
    BY <1>1, ReminderAssumption
  <2> HIDE DEF L
  <2> QED BY <1>1, <1>3, <2>3, <2>4 DEF L
<1> QED BY <1>2, <1>3

LEMMA RunOut ==
    ASSUME NEW d \in Nat, NEW t \in Nat, NEW u \in Nat, t <= u, Later(d, t) = {}
    PROVE  Later(d, u) = {}
<1>1. \A j \in 0 .. Count - 1 : ~ (d + j * Period > t)
  BY DEF Later
<1>2. \A j \in 0 .. Count - 1 : ~ (d + j * Period > u)
  BY <1>1, ReminderAssumption
<1> QED BY <1>2 DEF Later

SpentAt(x, t) ==
    x.status = "fired" =>
        /\ x.next_trigger_at = None
        /\ x.recurring => Later(x.trigger_at, t) = {}

\* What the service computes for a pending or a spent row is spent if fired.
LEMMA SpentComputed ==
    ASSUME NEW x \in Row, NEW at \in Nat, now \in Nat, at <= now
    PROVE  /\ x.status = "pending" => SpentAt(MarkFired(x, at), now)
           /\ SpentAt(x, now) => SpentAt(Acknowledge(x), now)
           /\ SpentAt(Snooze(x), now) /\ SpentAt(CancelRow(x), now)
           /\ SpentAt(x, now) => SpentAt(Drained(x), now)
<1>1. x.trigger_at \in Nat /\ x.recurring \in BOOLEAN
  BY DEF Row
<1>2. ASSUME NEW t \in Nat, t <= now, ComputeNextOccurrenceAfter(x.trigger_at, t) = None
      PROVE  Later(x.trigger_at, now) = {}
  BY <1>1, <1>2, OccurrenceFacts, RunOut
<1>3. x.status = "pending" => SpentAt(CloseCycle(x, at), now)
  BY <1>1, <1>2 DEF SpentAt, CloseCycle, Row
<1>4. x.status = "pending" => SpentAt(MarkFired(x, at), now)
  BY <1>1, <1>3 DEF SpentAt, MarkFired, Row
<1>5. ASSUME SpentAt(x, now) PROVE SpentAt(CloseCycle(x, now), now)
  <2>1. x.status = "fired" /\ x.recurring => ComputeNextOccurrenceAfter(x.trigger_at, now) = None
    BY <1>1, <1>5, OccurrenceFacts DEF SpentAt
  <2>2. ComputeNextOccurrenceAfter(x.trigger_at, now) = None => Later(x.trigger_at, now) = {}
    BY <1>2
  <2> QED BY <1>1, <2>1, <2>2 DEF SpentAt, CloseCycle, Row
<1>6. SpentAt(Snooze(x), now) /\ SpentAt(CancelRow(x), now)
  BY DEF SpentAt, Snooze, CancelRow, Row
<1>7. ComputeNextOccurrenceAfter(x.trigger_at, now) = None => Later(x.trigger_at, now) = {}
  BY <1>2
<1>8. SpentAt(x, now) => SpentAt(Drained(x), now)
  BY <1>1, <1>6, <1>7 DEF SpentAt, Drained, Row
<1> QED BY <1>4, <1>5, <1>6, <1>8 DEF Acknowledge

Over ==
    /\ \A r \in Reminders \ edited : SpentAt(row[r], now)
    /\ \A a \in Actors : tx[a] # None /\ tx[a].rem \notin edited => SpentAt(tx[a].new, now)

\* Opening a transaction with a spent row.
LEMMA OverAfterOpen ==
    ASSUME IInv, Over, NEW a \in Actors, NEW r \in Reminders, NEW n, NEW b, Open(a, r, n, b),
           UNCHANGED <<now, row>>, edited \subseteq edited', r \in edited' \/ SpentAt(n, now)
    PROVE  Over'
<1>1. tx'[a].rem = r /\ tx'[a].new = n /\ \A c \in Actors : c # a => tx'[c] = tx[c]
  BY DEF Open, IInv, TypeOK
<1> QED BY <1>1 DEF Over, SpentAt

\* Committing one.
LEMMA OverAfterWrite ==
    ASSUME IInv, Over, NEW a \in Actors, Write(a), UNCHANGED <<now, edited>>
    PROVE  Over'
<1> DEFINE r == tx[a].rem
<1>1. tx[a] # None /\ Close(a)
  BY DEF Write
<1>2. Holds(a) \/ Cancels(a) \/ Edits(a)
  BY <1>1 DEF IInv, Transactions, TxOK
<1>3. /\ r \in Reminders
      /\ row' = [row EXCEPT ![r] = Flush(row[r], tx[a].seen, tx[a].new)]
      /\ Holds(a) => row'[r] = tx[a].new
      /\ Cancels(a) => row'[r].status = "cancelled"
  BY WriteFacts
<1>4. r \notin edited => SpentAt(row'[r], now)
  BY <1>1, <1>2, <1>3 DEF Over, SpentAt, Edits
<1>5. \A q \in Reminders : q # r => row'[q] = row[q]
  BY <1>3 DEF IInv, TypeOK
<1>6. \A c \in Actors : tx'[c] # None => tx'[c] = tx[c]
  BY <1>1 DEF Close, IInv, TypeOK
<1> QED BY <1>4, <1>5, <1>6 DEF Over, SpentAt

LEMMA OverStep == IInv /\ Over /\ [Next]_vars => Over'
<1> SUFFICES ASSUME IInv, Over, [Next]_vars PROVE Over'
  OBVIOUS
<1>0. Turn \in Actors /\ App \in Actors /\ Workers \subseteq Actors /\ now \in Nat
      /\ row \in [Reminders -> Row] /\ tx \in [Actors -> Tx \cup {None}]
  BY DEF Actors, IInv, TypeOK
<1>1. ASSUME NEW w \in Workers, NEW r \in Reminders, Take(w, r) PROVE Over'
  <2>1. UNCHANGED <<now, row, edited>> /\ clock[w] \in Nat /\ clock[w] <= now /\ row[r] \in Row
    BY <1>1 DEF Take, ghostVars, IInv, TypeOK, Clocks
  <2>2. CASE Fenced(row[r], clock[w])
               /\ Open(w, r, MarkFired(row[r], clock[w]), ~ Late(row[r], clock[w]))
    <3>1. SpentAt(MarkFired(row[r], clock[w]), now)
      BY <1>0, <2>1, <2>2, SpentComputed DEF Fenced
    <3> QED BY <1>0, <2>1, <2>2, <3>1, OverAfterOpen
  <2>3. CASE UNCHANGED tx
    BY <2>1, <2>3 DEF Over, SpentAt
  <2> QED BY <1>1, <2>2, <2>3 DEF Take
<1>2. ASSUME NEW w \in Workers, NEW S \in SUBSET Channels, Fire(w, S) PROVE Over'
  BY <1>0, <1>2, OverAfterWrite DEF Fire
<1>3. ASSUME NEW a \in {Turn, App}, Commit(a) PROVE Over'
  BY <1>0, <1>3, OverAfterWrite DEF Commit
<1>4. ASSUME NEW a \in Actors, Close(a), UNCHANGED <<now, row, edited>> PROVE Over'
  BY <1>0, <1>4 DEF Close, Over, SpentAt
<1>5. ASSUME NEW w \in Workers, FireFails(w) \/ Crash(w) PROVE Over'
  BY <1>0, <1>4, <1>5 DEF FireFails, Crash, ghostVars
<1>6. ASSUME NEW a \in {Turn, App}, Abort(a) PROVE Over'
  BY <1>0, <1>4, <1>6 DEF Abort, ghostVars
<1>7. ASSUME NEW r \in Reminders, NEW t \in Triggers, NEW b \in BOOLEAN, Schedule(r, t, b)
      PROVE  Over'
  <2>1. /\ UNCHANGED <<now, tx, edited>>
        /\ \A q \in Reminders : q # r => row'[q] = row[q]
        /\ row'[r].status = "pending"
    <3> DEFINE next == InitialNextTriggerAt(t, b)
    <3>1. row' = [row EXCEPT ![r] = [Blank EXCEPT !.status = "pending", !.trigger_at = t,
                                     !.recurring = b, !.next_trigger_at = next]]
          /\ UNCHANGED <<now, tx, edited>>
      BY <1>7 DEF Schedule
    <3> HIDE DEF next
    <3> QED BY <1>0, <3>1 DEF Blank
  <2> QED BY <2>1 DEF Over, SpentAt
<1>8. ASSUME NEW r \in Reminders, Tap(r, Acknowledge(row[r])) \/ Tap(r, Snooze(row[r])) PROVE Over'
  <2>1. SpentAt(Snooze(row[r]), now) /\ (r \notin edited => SpentAt(Acknowledge(row[r]), now))
    BY <1>0, SpentComputed DEF Over
  <2>2. UNCHANGED <<now, row, edited>>
        /\ (Open(Turn, r, Acknowledge(row[r]), FALSE) \/ Open(Turn, r, Snooze(row[r]), FALSE))
    BY <1>8 DEF Tap, ghostVars
  <2> QED BY <1>0, <2>1, <2>2, OverAfterOpen
<1>9. ASSUME NEW r \in Reminders, NEW a \in {Turn, App}, Cancel(a, r) PROVE Over'
  <2>1. SpentAt(CancelRow(row[r]), now)
    BY <1>0, SpentComputed
  <2> QED BY <1>0, <1>9, <2>1, OverAfterOpen DEF Cancel, ghostVars
<1>10. ASSUME NEW r \in Reminders, NEW t \in Triggers \cup {None}, NEW b \in BOOLEAN, Edit(r, t, b)
       PROVE  Over'
  <2>1. Open(Turn, r, UpdateRow(row[r], t, b), FALSE) /\ edited' = edited \cup {r}
        /\ UNCHANGED <<now, row>>
    BY <1>10 DEF Edit
  <2> QED BY <1>0, <2>1, OverAfterOpen
<1>11. ASSUME Tick PROVE Over'
  <2>1. UNCHANGED <<row, tx, edited>> /\ now' = now + 1
    BY <1>11 DEF Tick
  <2>2. ASSUME NEW x \in Row, SpentAt(x, now) PROVE SpentAt(x, now')
    BY <1>0, <2>1, <2>2, RunOut DEF SpentAt, Row
  <2>3. \A a \in Actors : tx[a] # None => tx[a].new \in Row
    BY OpenTyped DEF IInv
  <2> QED BY <1>0, <2>1, <2>2, <2>3 DEF Over
<1>12. ASSUME Restore PROVE Over'
  <2>1. UNCHANGED <<now, tx, edited>> /\ \A r \in Reminders : row'[r] = Drained(row[r])
    BY <1>12 DEF Restore
  <2>2. \A r \in Reminders \ edited : SpentAt(Drained(row[r]), now)
    BY <1>0, SpentComputed DEF Over
  <2> QED BY <2>1, <2>2 DEF Over, SpentAt
<1>13. ASSUME UNCHANGED <<now, row, tx, edited>> PROVE Over'
  BY <1>13 DEF Over, SpentAt
<1>14. ASSUME \/ \E w \in Workers : Scan(w)
              \/ Delete
              \/ UNCHANGED vars
       PROVE  Over'
  BY <1>13, <1>14 DEF Scan, Delete, vars, ghostVars
<1> QED BY <1>1, <1>2, <1>3, <1>5, <1>6, <1>7, <1>8, <1>9, <1>10, <1>11, <1>12, <1>14
        DEF Next, WorkerStep, UserStep

\* A fired reminder that the chat does not edit is never armed: an old button
\* acts on it only by snoozing it, and its rule has run out for good.
THEOREM FiredStaysOver == Spec => []FiredIsOver
<1>1. Init => Over
  BY DEF Init, Over, SpentAt, Blank
<1>2. Over => FiredIsOver
  BY DEF Over, SpentAt, FiredIsOver
<1> QED BY <1>1, <1>2, Invariant, OverStep, PTL DEF Spec

-----------------------------------------------------------------------------
(***************************************************************************)
(* What was missed stays silent.  While the tenant is deleted a missed     *)
(* trigger may still be armed, but every worker's clock is before it;      *)
(* afterwards the reminder is armed for a later time or not at all.        *)
(***************************************************************************)
Passed(r, t) ==
    row[r].status = "pending" =>
        \/ row[r].next_trigger_at > t
        \/ /\ row[r].next_trigger_at = t
           /\ deletedAt \in Nat /\ deletedAt <= t
           /\ \A w \in Workers : clock[w] < t

Silent(r, t) == t <= now /\ Passed(r, t) /\ \A c \in Channels : <<r, t, c>> \notin outbox

\* A worker advances its reminder past the clock of its tick.
Ahead(w) == tx[w] # None /\ tx[w].new.status = "pending" => tx[w].new.next_trigger_at > clock[w]

Missed ==
    /\ deletedAt # None => deletedAt <= now
    /\ \A w \in Workers : Ahead(w)
    /\ \A r \in Reminders, t \in Nat : <<r, t>> \in missed => Silent(r, t)

LEMMA AheadComputed ==
    ASSUME NEW x \in Row, NEW at \in Nat, MarkFired(x, at).status = "pending"
    PROVE  MarkFired(x, at).next_trigger_at > at
<1>1. x.trigger_at \in Nat /\ x.recurring \in BOOLEAN
  BY DEF Row
<1>2. at + ESCALATION_INTERVAL > at
  BY ReminderAssumption
<1>3. ComputeNextOccurrenceAfter(x.trigger_at, at) # None =>
        ComputeNextOccurrenceAfter(x.trigger_at, at) > at
  BY <1>1, OccurrenceFacts
<1>4. CASE x.escalation_count + 1 < ESCALATION_MAX_FIRES
  BY <1>2, <1>4 DEF MarkFired, Row
<1>5. CASE ~ (x.escalation_count + 1 < ESCALATION_MAX_FIRES)
  BY <1>1, <1>3, <1>5 DEF MarkFired, CloseCycle, Row
<1> QED BY <1>4, <1>5

\* A step that leaves the rows, the outbox and the clock alone.
LEMMA MissedUndisturbed ==
    ASSUME Missed, UNCHANGED <<now, row, deletedAt, clock, outbox>>, missed' \subseteq missed,
           \A w \in Workers : Ahead(w)'
    PROVE  Missed'
BY DEF Missed, Silent, Passed

LEMMA AheadAfterClose ==
    ASSUME IInv, Missed, NEW a \in Actors, Close(a), UNCHANGED clock
    PROVE  \A w \in Workers : Ahead(w)'
<1>1. \A w \in Workers : tx'[w] = None \/ tx'[w] = tx[w]
  BY DEF Close, Actors, IInv, TypeOK
<1> QED BY <1>1 DEF Missed, Ahead

\* A worker that fires a reminder of which a trigger was missed fires a later
\* one and arms a later one still.
LEMMA FireSilent ==
    ASSUME IInv, Missed, NEW w \in Workers, NEW S \in SUBSET Channels, Fire(w, S)
    PROVE  Missed'
<1>1. /\ w \in Actors /\ Write(w) /\ Close(w) /\ tx[w] # None /\ Holds(w) /\ FiresDue(w)
      /\ tx[w].rem \in Reminders /\ row[tx[w].rem] = tx[w].seen
      /\ Fired(tx[w].seen) = row[tx[w].rem].next_trigger_at
  BY FireIsPending DEF Write
<1>2. UNCHANGED <<now, deletedAt, clock, missed>>
  BY DEF Fire, workVars
<1>3. \A v \in Workers : Ahead(v)'
  BY <1>1, <1>2, AheadAfterClose
<1>4. ASSUME NEW r \in Reminders, NEW t \in Nat, <<r, t>> \in missed PROVE Silent(r, t)'
  <2>1. Silent(r, t)
    BY <1>4 DEF Missed
  <2>2. CASE tx[w].rem = r
    <3>1. row[r].status = "pending" /\ row[r].next_trigger_at \in Nat /\ clock[w] \in Nat
          /\ row[r].next_trigger_at <= clock[w] /\ Fired(tx[w].seen) = row[r].next_trigger_at
      BY <1>1, <2>2 DEF FiresDue, IInv, TypeOK
    <3>2. row[r].next_trigger_at > t
      BY <2>1, <3>1 DEF Silent, Passed
    <3>3. row'[r] = tx[w].new /\ tx[w].new \in Row
      BY <1>1, <2>2, WriteFacts
    <3>4. row'[r].status = "pending" => row'[r].next_trigger_at > clock[w]
      BY <1>1, <3>3 DEF Missed, Ahead
    <3>5. tx[w].new.status = "pending" => tx[w].new.next_trigger_at \in Nat
      BY <1>1, <3>3 DEF IInv, Transactions, TxOK, Armed, Row
    <3>6. Passed(r, t)'
      BY <3>1, <3>2, <3>3, <3>4, <3>5 DEF Passed
    <3> DEFINE f == Fired(tx[w].seen)
               q == tx[w].rem
    <3>7. \A key \in outbox' : key \in outbox \/ \E c \in S : key = <<q, f, c>>
      BY DEF Fire
    <3>8. f # t
      BY <3>1, <3>2
    <3> HIDE DEF f, q
    <3>9. \A c \in Channels : <<r, t, c>> \notin outbox'
      BY <2>1, <3>7, <3>8 DEF Silent
    <3> QED BY <1>2, <2>1, <3>6, <3>9 DEF Silent
  <2>3. CASE tx[w].rem # r
    <3>1. row'[r] = row[r]
      BY <1>1, <2>3 DEF Write, IInv, TypeOK
    <3> DEFINE f == Fired(tx[w].seen)
               q == tx[w].rem
    <3>2. \A key \in outbox' : key \in outbox \/ \E c \in S : key = <<q, f, c>>
      BY DEF Fire
    <3>3. q # r
      BY <2>3
    <3> HIDE DEF f, q
    <3>4. \A c \in Channels : <<r, t, c>> \notin outbox'
      BY <2>1, <3>2, <3>3 DEF Silent
    <3> QED BY <1>2, <2>1, <3>1, <3>4 DEF Silent, Passed
  <2> QED BY <2>2, <2>3
<1> QED BY <1>2, <1>3, <1>4 DEF Missed

\* A promise voids what was missed of its reminder.
LEMMA PromiseSilent ==
    ASSUME IInv, Missed, NEW r \in Reminders, NEW n, Promise(r, n),
           UNCHANGED <<now, deletedAt, clock, outbox>>,
           \A q \in Reminders : q # r => row'[q] = row[q],
           \A w \in Workers : Ahead(w)'
    PROVE  Missed'
<1>1. ASSUME NEW q \in Reminders, NEW t \in Nat, <<q, t>> \in missed' PROVE Silent(q, t)'
  <2>1. q # r /\ <<q, t>> \in missed
    BY <1>1 DEF Promise
  <2> QED BY <2>1 DEF Missed, Silent, Passed
<1> QED BY <1>1 DEF Missed

\* Time adds what comes due while the tenant is deleted.
LEMMA TickSilent == ASSUME IInv, Missed, Tick PROVE Missed'
<1>1. UNCHANGED <<row, deletedAt, tx, clock, outbox>> /\ now' = now + 1 /\ now \in Nat
      /\ deletedAt \in Nat \cup {None} /\ None \notin Nat
  BY ReminderAssumption DEF Tick, workVars, IInv, TypeOK
<1>2. \A w \in Workers : Ahead(w)'
  BY <1>1 DEF Missed, Ahead
<1>3. ASSUME NEW r \in Reminders, NEW t \in Nat, <<r, t>> \in missed' PROVE Silent(r, t)'
  <2>1. CASE <<r, t>> \in missed
    BY <1>1, <2>1 DEF Missed, Silent, Passed
  <2>2. CASE <<r, t>> \notin missed
    <3>1. t = now + 1 /\ row[r].next_trigger_at = now + 1 /\ deletedAt # None
      BY <1>1, <1>3, <2>2 DEF Tick
    <3>2. \A w \in Workers : clock[w] < t
      BY <1>1, <3>1 DEF IInv, TypeOK, Clocks
    <3>3. \A c \in Channels : <<r, t, c>> \notin outbox
      <4> SUFFICES ASSUME NEW c \in Channels, <<r, t, c>> \in outbox PROVE FALSE
        OBVIOUS
      <4>1. <<r, t, c>>[2] <= now
        BY DEF IInv, RingsWhenDue
      <4> QED BY <1>1, <3>1, <4>1
    <3>4. deletedAt <= t /\ deletedAt \in Nat
      BY <1>1, <3>1 DEF Missed
    <3>5. Passed(r, t)'
      BY <1>1, <3>1, <3>2, <3>4 DEF Passed
    <3> QED BY <1>1, <3>1, <3>3, <3>5 DEF Silent
  <2> QED BY <2>1, <2>2
<1>4. deletedAt' # None => deletedAt' <= now'
  BY <1>1 DEF Missed
<1> QED BY <1>2, <1>3, <1>4 DEF Missed

\* The restore arms what it drains for a later time, or not at all.
LEMMA RestoreSilent == ASSUME IInv, Missed, Restore PROVE Missed'
<1>1. /\ UNCHANGED <<now, tx, clock, outbox, missed>> /\ deletedAt' = None
      /\ \A r \in Reminders : row'[r] = Drained(row[r])
      /\ now \in Nat /\ deletedAt \in Nat /\ row \in [Reminders -> Row]
  BY ReminderAssumption DEF Restore, workVars, IInv, TypeOK
<1>2. \A w \in Workers : Ahead(w)'
  BY <1>1 DEF Missed, Ahead
<1>3. ASSUME NEW r \in Reminders, NEW t \in Nat, <<r, t>> \in missed PROVE Silent(r, t)'
  <2>1. Silent(r, t) /\ row[r] \in Row /\ row[r].trigger_at \in Nat
    BY <1>1, <1>3 DEF Missed, Row
  <2>2. ASSUME Drained(row[r]).status = "pending" PROVE Drained(row[r]).next_trigger_at > t
    <3>1. row[r].status = "pending"
      BY <2>1, <2>2 DEF Drained, CancelRow, Row
    <3>2. row[r].next_trigger_at \in Nat
      BY <2>1, <3>1 DEF IInv, RowsArmed, Armed, Row
    <3>3. CASE Drained(row[r]) = row[r]
      <4>1. ~ (deletedAt <= row[r].next_trigger_at /\ row[r].next_trigger_at <= now)
        <5> SUFFICES ASSUME deletedAt <= row[r].next_trigger_at, row[r].next_trigger_at <= now
                     PROVE  FALSE
          OBVIOUS
        <5>1. row[r].next_trigger_at # None
          BY <3>2, ReminderAssumption
        <5>2. ComputeNextOccurrenceAfter(row[r].trigger_at, now) # None =>
                ComputeNextOccurrenceAfter(row[r].trigger_at, now) > now
          BY <1>1, <2>1, OccurrenceFacts
        <5>3. CASE row[r].recurring
          <6> DEFINE next == ComputeNextOccurrenceAfter(row[r].trigger_at, now)
          <6>1. Drained(row[r]) = [row[r] EXCEPT !.next_trigger_at = next,
                                                 !.status = IF next = None THEN "fired" ELSE @]
            BY <3>1, <5>1, <5>3 DEF Drained
          <6> HIDE DEF next
          <6>2. row[r].next_trigger_at = next
            BY <2>1, <3>3, <6>1 DEF Row
          <6> QED BY <1>1, <3>2, <5>1, <5>2, <6>2 DEF next
        <5>4. CASE ~ row[r].recurring
          BY <2>1, <3>1, <3>3, <5>1, <5>4 DEF Drained, CancelRow, Row
        <5> QED BY <5>3, <5>4
      <4> QED BY <1>1, <2>1, <3>1, <3>2, <3>3, <4>1 DEF Silent, Passed
    <3>4. CASE Drained(row[r]) # row[r]
      <4>1. /\ row[r].recurring
            /\ Drained(row[r]).next_trigger_at = ComputeNextOccurrenceAfter(row[r].trigger_at, now)
            /\ ComputeNextOccurrenceAfter(row[r].trigger_at, now) # None
        BY <2>1, <2>2, <3>4 DEF Drained, CancelRow, Row
      <4>2. ComputeNextOccurrenceAfter(row[r].trigger_at, now) \in Nat
            /\ ComputeNextOccurrenceAfter(row[r].trigger_at, now) > now
        BY <1>1, <2>1, <4>1, OccurrenceFacts
      <4> QED BY <1>1, <2>1, <4>1, <4>2 DEF Silent
    <3> QED BY <3>3, <3>4
  <2>3. Passed(r, t)'
    BY <1>1, <2>2 DEF Passed
  <2> QED BY <1>1, <2>1, <2>3 DEF Silent
<1> QED BY <1>1, <1>2, <1>3 DEF Missed

LEMMA MissedStep == IInv /\ Missed /\ [Next]_vars => Missed'
<1> SUFFICES ASSUME IInv, Missed, [Next]_vars PROVE Missed'
  OBVIOUS
<1>0. Turn \in Actors /\ App \in Actors /\ Workers \subseteq Actors /\ Turn \notin Workers
      /\ App \notin Workers /\ now \in Nat /\ tx \in [Actors -> Tx \cup {None}] /\ None \notin Nat
  BY ReminderAssumption DEF Actors, IInv, TypeOK
<1>1. ASSUME NEW w \in Workers, Scan(w) PROVE Missed'
  <2>1. /\ deletedAt = None /\ tx[w] = None /\ UNCHANGED <<now, row, deletedAt, tx, outbox, missed>>
        /\ \A v \in Workers : v # w => clock'[v] = clock[v]
    BY <1>1 DEF Scan, ghostVars, IInv, TypeOK
  <2>2. \A v \in Workers : Ahead(v)'
    BY <2>1 DEF Missed, Ahead
  <2> QED BY <1>0, <2>1, <2>2 DEF Missed, Silent, Passed
<1>2. ASSUME NEW w \in Workers, NEW r \in Reminders, Take(w, r) PROVE Missed'
  <2>1. UNCHANGED <<now, row, deletedAt, clock, outbox, missed>> /\ row[r] \in Row /\ clock[w] \in Nat
    BY <1>2 DEF Take, ghostVars, IInv, TypeOK
  <2>2. \/ UNCHANGED tx
        \/ tx' = [tx EXCEPT ![w] = [rem |-> r, seen |-> row[r], new |-> MarkFired(row[r], clock[w]),
                                    ring |-> ~ Late(row[r], clock[w])]]
    BY <1>2 DEF Take, Open
  <2>3. \A v \in Workers : Ahead(v)'
    <3>1. MarkFired(row[r], clock[w]).status = "pending" =>
            MarkFired(row[r], clock[w]).next_trigger_at > clock[w]
      BY <2>1, AheadComputed
    <3>2. CASE UNCHANGED tx
      BY <2>1, <3>2 DEF Missed, Ahead
    <3>3. CASE ~ UNCHANGED tx
      BY <1>0, <2>1, <2>2, <3>1, <3>3 DEF Missed, Ahead
    <3> QED BY <3>2, <3>3
  <2> QED BY <2>1, <2>3, MissedUndisturbed
<1>3. ASSUME NEW a \in Actors, Close(a), UNCHANGED <<now, row, deletedAt, clock, outbox, missed>>
      PROVE  Missed'
  BY <1>3, AheadAfterClose, MissedUndisturbed
<1>4. ASSUME NEW w \in Workers, FireFails(w) \/ Crash(w) PROVE Missed'
  BY <1>0, <1>3, <1>4 DEF FireFails, Crash, workVars, ghostVars
<1>5. ASSUME NEW a \in {Turn, App}, Abort(a) PROVE Missed'
  BY <1>0, <1>3, <1>5 DEF Abort, workVars, ghostVars
<1>6. ASSUME NEW r \in Reminders, NEW t \in Triggers, NEW b \in BOOLEAN, Schedule(r, t, b)
      PROVE  Missed'
  <2>1. PICK n : row' = [row EXCEPT ![r] = n] /\ Promise(r, n)
    BY <1>6 DEF Schedule
  <2>2. UNCHANGED <<now, deletedAt, tx, clock, outbox>>
    BY <1>6 DEF Schedule, workVars
  <2>3. \A q \in Reminders : q # r => row'[q] = row[q]
    BY <2>1 DEF IInv, TypeOK
  <2>4. \A w \in Workers : Ahead(w)'
    BY <2>2 DEF Missed, Ahead
  <2> QED BY <2>1, <2>2, <2>3, <2>4, PromiseSilent
<1>7. ASSUME NEW a \in {Turn, App}, Commit(a) PROVE Missed'
  <2>1. Write(a) /\ Close(a) /\ tx[a] # None /\ Promise(tx[a].rem, tx[a].new)
        /\ UNCHANGED <<now, deletedAt, clock, outbox>> /\ a \in Actors
    BY <1>0, <1>7 DEF Commit, Write, workVars
  <2>2. tx[a].rem \in Reminders /\ \A q \in Reminders : q # tx[a].rem => row'[q] = row[q]
    BY <2>1, OpenTyped DEF Write, IInv, TypeOK
  <2> QED BY <2>1, <2>2, AheadAfterClose, PromiseSilent
<1>8. ASSUME NEW a \in {Turn, App}, NEW r \in Reminders, NEW n, Open(a, r, n, FALSE),
             UNCHANGED <<now, row, deletedAt, clock, outbox, missed>>
      PROVE  Missed'
  <2>1. \A w \in Workers : tx'[w] = tx[w]
    BY <1>0, <1>8 DEF Open
  <2> QED BY <1>8, <2>1, MissedUndisturbed DEF Missed, Ahead
<1>9. ASSUME NEW r \in Reminders, NEW n, Tap(r, n) PROVE Missed'
  BY <1>8, <1>9 DEF Tap, workVars, ghostVars
<1>10. ASSUME NEW r \in Reminders, NEW t \in Triggers \cup {None}, NEW b \in BOOLEAN, Edit(r, t, b)
       PROVE  Missed'
  BY <1>8, <1>10 DEF Edit, workVars
<1>11. ASSUME NEW r \in Reminders, NEW a \in {Turn, App}, Cancel(a, r) PROVE Missed'
  BY <1>8, <1>11 DEF Cancel, workVars, ghostVars
<1>12. ASSUME Delete PROVE Missed'
  BY <1>0, <1>12 DEF Delete, InTurn, workVars, ghostVars, Missed, Ahead, Silent, Passed
<1>13. ASSUME UNCHANGED vars PROVE Missed'
  BY <1>13 DEF vars, workVars, ghostVars, Missed, Ahead, Silent, Passed
<1> QED BY <1>1, <1>2, <1>4, <1>5, <1>6, <1>7, <1>9, <1>10, <1>11, <1>12, <1>13,
           FireSilent, TickSilent, RestoreSilent
        DEF Next, WorkerStep, UserStep

\* What came due while the tenant was deleted is never sent, whatever a worker
\* had scanned or read before the deletion (restore_tenant's window).
THEOREM MissedIsSilent == Spec => []MissedStaysSilent
<1>1. Init => Missed
  BY DEF Init, Missed, Ahead, Actors
<1>2. IInv /\ Missed => MissedStaysSilent
  <2> SUFFICES ASSUME IInv, Missed, NEW p \in missed, NEW c \in Channels
               PROVE  <<p[1], p[2], c>> \notin outbox
    BY DEF MissedStaysSilent
  <2>1. p \in Reminders \X Nat
    BY DEF IInv, TypeOK
  <2>2. p[1] \in Reminders /\ p[2] \in Nat /\ p = <<p[1], p[2]>>
    BY <2>1
  <2> QED BY <2>2 DEF Missed, Silent
<1> QED BY <1>1, <1>2, Invariant, MissedStep, PTL DEF Spec
=============================================================================
