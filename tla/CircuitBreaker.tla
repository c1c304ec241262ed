--------------------------- MODULE CircuitBreaker ---------------------------
(***************************************************************************)
(* What the breaker of a provider promises, without generations, threads,  *)
(* legs or wrappers: a closed breaker counts the time-outs in a row of the *)
(* calls it admitted since it closed, and of no others; an open one lets   *)
(* one call probe after its cooldown, and that call alone decides whether  *)
(* it closes or opens again.  Module LlmGuard implements this              *)
(* specification.                                                          *)
(***************************************************************************)
EXTENDS Naturals

CONSTANTS Calls, Providers, OPEN_AFTER

VARIABLES
    mode,     \* closed, open or cooled
    streak,   \* time-outs in a row
    trusted,  \* the calls whose outcome a closed breaker will count
    probing   \* the call that probes, if there is one

cbVars == <<mode, streak, trusted, probing>>

Init ==
    /\ mode = [p \in Providers |-> "closed"]
    /\ streak = [p \in Providers |-> 0]
    /\ trusted = [p \in Providers |-> {}]
    /\ probing = [p \in Providers |-> {}]

\* A call reports to one breaker at a time.
Free(c) == \A p \in Providers : c \notin trusted[p] \cup probing[p]

Admit(c, p) ==
    /\ mode[p] = "closed" /\ Free(c)
    /\ trusted' = [trusted EXCEPT ![p] = @ \cup {c}]
    /\ UNCHANGED <<mode, streak, probing>>

AdmitProbe(c, p) ==
    /\ mode[p] = "cooled" /\ probing[p] = {} /\ Free(c)
    /\ probing' = [probing EXCEPT ![p] = {c}]
    /\ UNCHANGED <<mode, streak, trusted>>

CoolDown(p) ==
    /\ mode[p] = "open"
    /\ mode' = [mode EXCEPT ![p] = "cooled"]
    /\ UNCHANGED <<streak, trusted, probing>>

\* The call is answered, or fails otherwise than by a time-out.
Ends(c, p) ==
    /\ c \in trusted[p]
    /\ trusted' = [trusted EXCEPT ![p] = @ \ {c}]
    /\ streak' \in {streak, [streak EXCEPT ![p] = 0]}
    /\ UNCHANGED <<mode, probing>>

\* One time-out too many opens the breaker, and the calls still out are
\* heard no more.
TimesOut(c, p) ==
    /\ c \in trusted[p]
    /\ streak' = [streak EXCEPT ![p] = @ + 1]
    /\ IF streak[p] + 1 >= OPEN_AFTER
         THEN /\ mode' = [mode EXCEPT ![p] = "open"]
              /\ trusted' = [trusted EXCEPT ![p] = {}]
         ELSE /\ trusted' = [trusted EXCEPT ![p] = @ \ {c}]
              /\ UNCHANGED mode
    /\ UNCHANGED probing

\* The probe closes the breaker, opens it again, or makes room for another.
Probed(c, p) ==
    /\ c \in probing[p]
    /\ probing' = [probing EXCEPT ![p] = {}]
    /\ \/ /\ mode' = [mode EXCEPT ![p] = "closed"]
          /\ streak' = [streak EXCEPT ![p] = 0]
       \/ /\ mode' = [mode EXCEPT ![p] = "open"]
          /\ streak' = [streak EXCEPT ![p] = @ + 1]
       \/ UNCHANGED <<mode, streak>>
    /\ UNCHANGED trusted

Next ==
    \E p \in Providers :
        \/ CoolDown(p)
        \/ \E c \in Calls : \/ Admit(c, p) \/ AdmitProbe(c, p)
                            \/ Ends(c, p) \/ TimesOut(c, p) \/ Probed(c, p)

Spec == Init /\ [][Next]_cbVars
=============================================================================
