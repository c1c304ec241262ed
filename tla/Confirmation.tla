---------------------------- MODULE Confirmation ----------------------------
(***************************************************************************)
(* What the confirmed turn promises, without checkpoints, replays,         *)
(* positions, buttons or faults: a destructive call is carried out only    *)
(* after a `yes' that was given while its own question was the open one,   *)
(* no call after its message has been put aside, and a call whose result   *)
(* is stored at most once.  That a `yes' is good for one time only is not  *)
(* promised of the others.                                                 *)
(* Module ReactTurn implements this specification.                         *)
(***************************************************************************)
EXTENDS Naturals

CONSTANTS Messages, Calls  \* a call is a pair: its message and its place in it

VARIABLES
    needs,    \* the calls that have been requested and need a `yes'
    once,     \* the calls that have been requested and store their result
    open,     \* the question that can be answered, if there is one
    granted,  \* the questions answered `yes'
    blind,    \* the messages that went on without a question being answered
    closed,   \* the messages that have been put aside
    times     \* how often a call was carried out

vars == <<needs, once, open, granted, blind, closed, times>>

Init ==
    /\ needs = {} /\ once = {} /\ open = {} /\ granted = {} /\ blind = {} /\ closed = {}
    /\ times = [c \in Calls |-> 0]

\* A message of the model: what it requests has not been carried out.
Request ==
    /\ UNCHANGED <<granted, blind, closed, times>>
    /\ open = {} /\ open' = {}
    /\ needs' \in SUBSET Calls /\ needs \subseteq needs'
    /\ once' \in SUBSET Calls /\ once \subseteq once'
    /\ \A c \in (needs' \ needs) \cup (once' \ once) : times[c] = 0

\* A question is put, or put again after a fault.
Ask(c) ==
    /\ c[1] \notin closed /\ open = {}
    /\ open' = {c} /\ c \in needs
    /\ UNCHANGED <<needs, once, granted, blind, closed, times>>

\* An answer takes the question; only a `yes' to it is a grant.
Answer(c) ==
    /\ c \in open
    /\ open' = {}
    /\ granted' \in {granted, granted \cup {c}}
    /\ UNCHANGED <<needs, once, blind, closed, times>>

\* The turn goes on with a text that answers no question.
GoOn(m) ==
    /\ open = {}
    /\ blind' = blind \cup {m}
    /\ UNCHANGED <<needs, once, open, granted, closed, times>>

\* A message is put aside, with its question.
Close(m) ==
    /\ closed' = closed \cup {m}
    /\ open' = {}
    /\ UNCHANGED <<needs, once, granted, blind, times>>

Perform(c) ==
    /\ open = {} /\ c[1] \notin closed
    /\ c \in needs => c \in granted \/ c[1] \in blind
    /\ c \in once => times[c] = 0
    /\ times' = [times EXCEPT ![c] = @ + 1]
    /\ UNCHANGED <<needs, once, open, granted, blind, closed>>

Next ==
    \/ Request
    \/ \E c \in Calls : Ask(c) \/ Answer(c) \/ Perform(c)
    \/ \E m \in Messages : GoOn(m) \/ Close(m)

Spec == Init /\ [][Next]_vars
=============================================================================
