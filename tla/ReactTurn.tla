------------------------------ MODULE ReactTurn ------------------------------
(***************************************************************************)
(* The confirmed, resumable turn of the ReAct loop (runtime/react_loop.py, *)
(* services/idempotent_ops.py, runtime/react_checkpoint_saver.py).         *)
(*                                                                         *)
(* A turn alternates between the model (node chat) and its tool calls      *)
(* (node tools).  A destructive tool asks the user with interrupt(): the   *)
(* node is left, the question is kept in the checkpoint of the thread, and *)
(* the next message or tap resumes it.  LangGraph then runs the whole node *)
(* again, from its first call, and hands the saved answers to interrupt()  *)
(* by position: the k-th call of interrupt() of an execution gets the k-th *)
(* answer.  What the earlier calls of the batch have done is kept from     *)
(* being done again by the operation results, where the tool stores one.   *)
(*                                                                         *)
(* The messages of one thread are handled one at a time (TenantBarrier).   *)
(* Any message may come at any time, so redelivered ones are among them.   *)
(***************************************************************************)
EXTENDS Naturals, Sequences

CONSTANTS Targets,      \* reminders, tasks and other entities
          Batches,      \* the tool calls the model may ask for in one message
          Durable,      \* _persist_enabled: the checkpoints are in the database
          Unified,      \* _unified_execute_for the tenant
          DURABLE_CRASH_LIMIT,
          MaxMessages,  \* bound on the messages of the model
          MaxCalls,     \* bound on the tool calls of one message
          MaxWrites,    \* bound on the mutations of a call that stores no result
          None

(***************************************************************************)
(* Kinds of tool calls:                                                    *)
(*   guarded  cancel_reminder, cancel_task, delete_task: return at once if *)
(*            the operation is committed or there is nothing to do, else   *)
(*            ask, then mutate under the operation id;                     *)
(*   wrapped  _confirm_wrap, _generic_confirm_wrap: ask, then run the      *)
(*            inner tool, which looks no operation up;                     *)
(*   keyed    update_reminder, update_task, schedule_reminder: mutate      *)
(*            under the operation id;                                      *)
(*   plain    complete_task, mark_shopping_bought, plan_week_menu and      *)
(*            other tools of the families: mutate whenever they are run;   *)
(*   ask      ask_human.                                                   *)
(***************************************************************************)
Kinds == {"guarded", "wrapped", "keyed", "plain", "ask"}
Confirming == {"guarded", "wrapped"}
Silent == {"keyed", "plain"}
Recorded == {"guarded", "keyed"}

\* A text is an exact `yes' or `no'; one that merely begins with `yes' ("да
\* нет, не надо"), which _is_yes accepts and classify_confirm_reply does not;
\* or anything else.
Texts == {"yes", "no", "yesish", "other"}

\* A run of the graph: the node, its message, the call it is at, the answers it
\* has taken, those it was given and the one it was resumed with.
Runs == [stage : {"chat", "tools"}, serial : 0 .. MaxMessages, pos : 1 .. MaxCalls + 1,
         idx : 0 .. MaxCalls, given : Seq(Texts), fed : Texts \cup {None}]

ASSUME TurnAssumption ==
    /\ Batches \subseteq Seq([kind : Kinds, target : Targets])
    /\ \A batch \in Batches : Len(batch) <= MaxCalls
    /\ Durable \in BOOLEAN /\ Unified \in BOOLEAN
    /\ DURABLE_CRASH_LIMIT \in Nat \ {0}
    /\ MaxMessages \in Nat /\ MaxCalls \in Nat /\ MaxWrites \in Nat
    /\ None \notin Texts /\ None \notin Runs

\* A call is known by its message and its place in it.
Calls == (1 .. MaxMessages) \X (1 .. MaxCalls)

VARIABLES
    issued,   \* the messages of the model with tool calls, in order
    ckpt,     \* the checkpoint of the thread: the node to run next, the
              \* message whose calls these are, the call that asked (0: none)
              \* and the answers its node was given before
    old,      \* the checkpoint is older than _PENDING_TTL_SECONDS
    run,      \* the run of the graph inside handle_turn, or None
    strikes,  \* _DURABLE_CRASH of the thread
    applied,  \* how often a call has mutated its target
    gone,     \* the targets that are deleted or no longer active
    buttons,  \* the questions with buttons in the chat
    granted,  \* history: the questions answered `yes' while they were live
    blind,    \* history: the messages resumed by a text without a question
    left      \* history: the messages whose pause expired or was put aside

history == <<granted, blind, left>>
vars == <<issued, ckpt, old, run, strikes, applied, gone, buttons, history>>

IsYes(text) == text \in {"yes", "yesish"}

Ended == [next |-> "end", serial |-> 0, asked |-> 0, resumes |-> <<>>]

\* A node that is run for the first time.
Start(stage, serial) ==
    [stage |-> stage, serial |-> serial, pos |-> 1, idx |-> 0, given |-> <<>>, fed |-> None]

-----------------------------------------------------------------------------
Init ==
    /\ issued = <<>>
    /\ ckpt = Ended
    /\ old = FALSE
    /\ run = None
    /\ strikes = 0
    /\ applied = [c \in Calls |-> 0]
    /\ gone = {}
    /\ buttons = {}
    /\ granted = {}
    /\ blind = {}
    /\ left = {}

-----------------------------------------------------------------------------
(***************************************************************************)
(* handle_turn, up to the call of the graph                                *)
(***************************************************************************)
HasPause == ckpt.next # "end"

\* Mutant: the age of the pause is not looked at.
LiveForEver == HasPause

Live == HasPause /\ ~ old

Question == <<ckpt.serial, ckpt.asked>>

ConfirmPause ==
    /\ ckpt.asked # 0
    /\ issued[ckpt.serial][ckpt.asked].kind \in Confirming

\* _should_redirect_on_pause: a new request puts the pause aside.
Redirects(text, new) ==
    /\ Live /\ Unified /\ new
    /\ ConfirmPause => text \in {"yesish", "other"}

\* ainvoke(Command(resume=answer)): the node of the checkpoint is run again.
Resume(answer) ==
    run' = [stage  |-> ckpt.next,
            serial |-> ckpt.serial,
            pos    |-> 1,
            idx    |-> 0,
            given  |-> ckpt.resumes,
            fed    |-> answer]

\* A text answers the live pause.  A confirmation is given `yes' only for an
\* exact `yes'; any other pause gets the text as it is.
TextResumes(text, new) ==
    /\ run = None
    /\ Live /\ ~ Redirects(text, new)
    /\ Resume(IF ConfirmPause /\ text # "yes" THEN "no" ELSE text)
    /\ granted' = IF ConfirmPause /\ text = "yes" THEN granted \cup {Question} ELSE granted
    /\ blind' = IF ckpt.asked = 0 THEN blind \cup {ckpt.serial} ELSE blind
    /\ UNCHANGED <<issued, ckpt, old, strikes, applied, gone, buttons, left>>

\* A fresh turn: there is no pause, or it is too old, or it is redirected.
\* An old one is cleared, by clear_pending or by a new generation.
FreshTurn(text, new) ==
    /\ run = None
    /\ ~ Live \/ Redirects(text, new)
    /\ ckpt' = [Ended EXCEPT !.next = "chat"]
    /\ old' = FALSE
    /\ run' = Start("chat", 0)
    /\ left' = left \cup {ckpt.serial}
    /\ UNCHANGED <<issued, strikes, applied, gone, buttons, granted, blind>>

\* Mutant: the token of the button is not compared with that of the pause.
AnyToken(token) == TRUE

\* expected_confirm_id is the token of the pause: the id of the interrupt,
\* the question and the target.
SameToken(token) == token = Question

\* A tap (resume_only); any other tap is a no-op.
Tap(token, answer) ==
    /\ run = None
    /\ Live /\ ConfirmPause /\ SameToken(token)
    /\ Resume(answer)
    /\ granted' = IF answer = "yes" THEN granted \cup {token} ELSE granted
    /\ UNCHANGED <<issued, ckpt, old, strikes, applied, gone, buttons, blind, left>>

-----------------------------------------------------------------------------
(***************************************************************************)
(* The graph                                                               *)
(***************************************************************************)
\* Node chat: the model asks for tool calls ...
ChatCalls(batch) ==
    /\ run # None /\ run.stage = "chat"
    /\ Len(issued) < MaxMessages
    /\ issued' = Append(issued, batch)
    /\ run' = Start("tools", Len(issued) + 1)
    /\ UNCHANGED <<ckpt, old, strikes, applied, gone, buttons, history>>

\* ... or answers the user, and the turn is over.
ChatEnds ==
    /\ run # None /\ run.stage = "chat"
    /\ ckpt' = Ended
    /\ old' = FALSE
    /\ run' = None
    /\ strikes' = 0
    /\ UNCHANGED <<issued, applied, gone, buttons, history>>

\* The checkpoint of a finished node is written while the next one runs.
Save ==
    /\ run # None
    /\ <<run.stage, run.serial>> # <<ckpt.next, ckpt.serial>>
    /\ ckpt' = [next |-> run.stage, serial |-> run.serial, asked |-> 0, resumes |-> <<>>]
    /\ old' = FALSE
    /\ UNCHANGED <<issued, run, strikes, applied, gone, buttons, history>>

-----------------------------------------------------------------------------
(***************************************************************************)
(* Node tools, one call after the other                                    *)
(***************************************************************************)
InTools == run # None /\ run.stage = "tools"

AtCall == InTools /\ run.pos <= Len(issued[run.serial])

This == <<run.serial, run.pos>>
Call == issued[run.serial][run.pos]

\* Mutant: the results of earlier executions of the node are not looked up.
NeverCommitted == FALSE

\* _replay_done, and the lookup of execute_idempotent_durable_op.
Committed == applied[This] > 0

\* The call returns before it asks and before it mutates.
Returns ==
    \/ Call.kind \in Recorded /\ Committed
    \/ Call.kind = "guarded" /\ Call.target \in gone

Asks == Call.kind \notin Silent /\ ~ Returns

\* interrupt(): the answers of earlier executions by position, then the one
\* this run was resumed with.
Known == run.idx < Len(run.given)
Answered == Known \/ run.fed # None
Answer == IF Known THEN run.given[run.idx + 1] ELSE run.fed

Advance == run' = [run EXCEPT !.pos = @ + 1]

TakeAnswer ==
    run' = [stage  |-> "tools",
            serial |-> run.serial,
            pos    |-> run.pos + 1,
            idx    |-> run.idx + 1,
            given  |-> IF Known THEN run.given ELSE Append(run.given, run.fed),
            fed    |-> IF Known THEN run.fed ELSE None]

\* The mutation finds something to change: a guarded one looks at the target
\* again after the answer, one that stores no result goes by the data of the
\* moment (clear_bought_shopping clears what is bought by then).
Effective ==
    /\ Call.kind = "guarded" => Call.target \notin gone
    /\ Call.kind \notin Recorded => applied[This] < MaxWrites

Mutate ==
    /\ applied' = [applied EXCEPT ![This] = @ + 1]
    /\ gone' = IF Call.kind \in Confirming THEN gone \cup {Call.target} ELSE gone

Skip ==
    /\ AtCall /\ Returns
    /\ Advance
    /\ UNCHANGED <<issued, ckpt, old, strikes, applied, gone, buttons, history>>

\* The claim, the mutation and the result are one savepoint and one commit;
\* an exception undoes all three and the batch goes on.  A call that stores no
\* result mutates in a commit of its own, in every execution of the node.
Write(ok) ==
    /\ AtCall /\ Call.kind \in Silent /\ ~ Returns
    /\ Advance
    /\ IF ok /\ Effective THEN Mutate ELSE UNCHANGED <<applied, gone>>
    /\ UNCHANGED <<issued, ckpt, old, strikes, buttons, history>>

\* The node is left with a question.  Its checkpoint, and so its age, stays
\* the one written before the node.
Pause ==
    /\ AtCall /\ Asks /\ ~ Answered
    /\ ckpt' = [next |-> "tools", serial |-> run.serial, asked |-> run.pos, resumes |-> run.given]
    /\ old' = (old /\ ckpt.next = "tools" /\ ckpt.serial = run.serial)
    /\ run' = None
    /\ strikes' = 0
    /\ buttons' = IF Call.kind \in Confirming THEN buttons \cup {This} ELSE buttons
    /\ UNCHANGED <<issued, applied, gone, history>>

Declines == Call.kind \in Confirming /\ ~ IsYes(Answer)

Decline ==
    /\ AtCall /\ Asks /\ Answered
    /\ Call.kind = "ask" \/ Declines
    /\ TakeAnswer
    /\ UNCHANGED <<issued, ckpt, old, strikes, applied, gone, buttons, history>>

\* A wrapped call runs its inner tool whenever it gets its `yes', and so again
\* in every later execution of the node, which hands it the same one.
Confirm(ok) ==
    /\ AtCall /\ Asks /\ Answered
    /\ Call.kind \in Confirming /\ ~ Declines
    /\ TakeAnswer
    /\ IF ok /\ Effective THEN Mutate ELSE UNCHANGED <<applied, gone>>
    /\ UNCHANGED <<issued, ckpt, old, strikes, buttons, history>>

\* The results go to the model.
ToolsEnd ==
    /\ InTools /\ run.pos > Len(issued[run.serial])
    /\ run' = Start("chat", run.serial)
    /\ UNCHANGED <<issued, ckpt, old, strikes, applied, gone, buttons, history>>

-----------------------------------------------------------------------------
(***************************************************************************)
(* Faults                                                                  *)
(***************************************************************************)
\* The thread is not read again: a new generation, delete_thread, or the
\* memory of a process that died.
LoseThread == ckpt' = Ended /\ old' = FALSE

\* clear_pending: the interrupt and the answers go, the checkpoint stays.
ClearPending == ckpt' = [ckpt EXCEPT !.asked = 0, !.resumes = <<>>] /\ UNCHANGED old

\* An exception, caught by handle_turn.  The second in a row that is not the
\* provider's or the network's removes the thread; else the pause is cleared,
\* unless that fails too.
Fails(transient) ==
    /\ run # None
    /\ run' = None
    /\ IF ~ Durable
         THEN LoseThread /\ UNCHANGED strikes
         ELSE IF transient
                THEN strikes' = 0 /\ (ClearPending \/ UNCHANGED <<ckpt, old>>)
                ELSE IF strikes + 1 >= DURABLE_CRASH_LIMIT
                       THEN \/ LoseThread /\ strikes' = 0
                            \/ UNCHANGED <<ckpt, old, strikes>>
                       ELSE /\ strikes' = strikes + 1
                            /\ ClearPending \/ UNCHANGED <<ckpt, old>>
    /\ UNCHANGED <<issued, applied, gone, buttons, history>>

\* The process dies; what is not committed or saved is lost.
Crash ==
    /\ run # None
    /\ run' = None
    /\ strikes' = 0
    /\ IF Durable THEN UNCHANGED <<ckpt, old>> ELSE LoseThread
    /\ UNCHANGED <<issued, applied, gone, buttons, history>>

-----------------------------------------------------------------------------
\* _PENDING_TTL_SECONDS go by.
Expire ==
    /\ run = None /\ HasPause /\ ~ old
    /\ old' = TRUE
    /\ left' = left \cup {ckpt.serial}
    /\ UNCHANGED <<issued, ckpt, run, strikes, applied, gone, buttons, granted, blind>>

\* The user removes the target in the Mini App.
Vanish(target) ==
    /\ target \notin gone
    /\ gone' = gone \cup {target}
    /\ UNCHANGED <<issued, ckpt, old, run, strikes, applied, buttons, history>>

Message ==
    \/ \E text \in Texts, new \in BOOLEAN : TextResumes(text, new) \/ FreshTurn(text, new)
    \/ \E token \in buttons, answer \in {"yes", "no"} : Tap(token, answer)

Graph ==
    \/ \E batch \in Batches : ChatCalls(batch)
    \/ ChatEnds \/ Save \/ Skip \/ Pause \/ Decline \/ ToolsEnd
    \/ \E ok \in BOOLEAN : Write(ok) \/ Confirm(ok)

Fault == Crash \/ \E transient \in BOOLEAN : Fails(transient)

Next ==
    \/ Message
    \/ Graph
    \/ Fault
    \/ Expire
    \/ \E target \in Targets : Vanish(target)

Spec == Init /\ [][Next]_vars

-----------------------------------------------------------------------------
(***************************************************************************)
(* Properties                                                              *)
(***************************************************************************)
\* Type invariant.
TypeOK ==
    /\ issued \in Seq(Batches) /\ Len(issued) <= MaxMessages
    /\ ckpt \in [next : {"end", "chat", "tools"}, serial : 0 .. MaxMessages,
                 asked : 0 .. MaxCalls, resumes : Seq(Texts)]
    /\ old \in BOOLEAN
    /\ run \in Runs \cup {None}
    /\ strikes \in 0 .. DURABLE_CRASH_LIMIT - 1
    /\ applied \in [Calls -> Nat]
    /\ gone \subseteq Targets
    /\ buttons \subseteq Calls /\ granted \subseteq Calls
    /\ blind \subseteq 0 .. MaxMessages /\ left \subseteq 0 .. MaxMessages

\* Exact replay: however often the node is run again, after an answer, an
\* exception or a crash, a call that stores its result mutates its target at
\* most once.  (A wrapped or a plain call may do so again.)
AppliedOnce ==
    \A c \in Calls : applied[c] > 1 => issued[c[1]][c[2]].kind \notin Recorded

\* cancel_reminder: "удаляет ТОЛЬКО при «да»".  A destructive call is carried
\* out only if the user said `yes' while its own question was the live one.
\* (A thread left by a fault between the model's message and the question
\* takes the next text for the answer: those messages are in `blind'.)
OnlyWhenGranted ==
    \A c \in Calls :
        applied[c] > 0 /\ issued[c[1]][c[2]].kind \in Confirming =>
            c \in granted \/ c[1] \in blind

\* The calls of these kinds that have been asked for.
Issued(kinds) ==
    {c \in Calls : c[1] <= Len(issued) /\ c[2] <= Len(issued[c[1]]) /\ issued[c[1]][c[2]].kind \in kinds}

Needing == Issued(Confirming)
Once == Issued(Recorded)

\* The question that a message or a tap can answer.
Answerable == IF run = None /\ Live /\ ConfirmPause THEN {Question} ELSE {}

Promise == INSTANCE Confirmation
    WITH Messages <- 0 .. MaxMessages, needs <- Needing, once <- Once, open <- Answerable, closed <- left, times <- applied

\* The turn with its checkpoints, replays by position, faults and redelivered
\* messages keeps the promise of the confirmation: a step is one of its steps
\* or none.
ImplementsConfirmation == Promise!Spec

\* A pause that expired, or that a new request has put aside, is over: no
\* late answer, tap or redelivered message carries out any of its calls.
LeftIsLeft ==
    [][\A c \in Calls : c[1] \in left => applied'[c] = applied[c]]_vars
=============================================================================
