---------------------------- MODULE MCReactTurn ----------------------------
(***************************************************************************)
(* Instances of ReactTurn: two targets, short batches.                     *)
(***************************************************************************)
EXTENDS ReactTurn

CONSTANTS x, y  \* targets

Guarded(t) == [kind |-> "guarded", target |-> t]
Wrapped(t) == [kind |-> "wrapped", target |-> t]
Keyed(t) == [kind |-> "keyed", target |-> t]
Plain(t) == [kind |-> "plain", target |-> t]
Ask == [kind |-> "ask", target |-> x]

\* Nothing that asks follows a guarded call of the same message.
MCBatches == {<<Wrapped(x), Guarded(y)>>, <<Keyed(y), Plain(y), Ask>>}

\* The bound on the messages: none is repeated.
MCDistinct == \A m, n \in 1 .. Len(issued) : m # n => issued[m] # issued[n]

\* "удали X и Y"
MCChain == {<<Guarded(x), Guarded(y)>>}
=============================================================================
