--------------------------- MODULE MCTenantBarrier ---------------------------
(***************************************************************************)
(* Instances of TenantBarrier.  The loops are the processes of the         *)
(* deployment: the job runner (Telegram turns, one at a time) and the web  *)
(* server, whose loop runs the MAX webhook's turns, concurrently, and the  *)
(* admin pages.                                                            *)
(***************************************************************************)
EXTENDS TenantBarrier

CONSTANTS n1, n2,                 \* tenants
          runner, web,            \* loops
          tg1, max1, max2,        \* turns
          del1, del2, res1        \* requests

\* A linked user writes on both channels; two deletions and a restore.
MCTenantOf == [a \in Actors |-> IF a = max2 THEN n2 ELSE n1]
MCLoopOf == [a \in Actors |-> CASE a \in {tg1, del2} -> runner
                                 [] OTHER -> web]

\* del2 is made by the turn tg1, the others by the admin.
MCSelfOf == [r \in Requests |-> IF r = del2 THEN tg1 ELSE Nobody]

OneRestore == {res1}
NoRestores == {}
=============================================================================
