----------------------------- MODULE MCLlmGuard -----------------------------
(***************************************************************************)
(* A finite instance of LlmGuard: a call that streams, one of LlmCaller    *)
(* with a fallback model of the same provider, and a blocking one.  Two    *)
(* timeouts open the breaker, so that one call can be late while another   *)
(* probes; two permits let a hung thread starve the rest.                  *)
(***************************************************************************)
EXTENDS LlmGuard, TLC

CONSTANTS c1, c2, c3, mimo

MCRoute == (c1 :> <<mimo>>) @@ (c2 :> <<mimo, mimo>>) @@ (c3 :> <<mimo>>)
=============================================================================
