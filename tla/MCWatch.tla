------------------------------- MODULE MCWatch ------------------------------
(* One watch of each transport. *)
EXTENDS Watch, TLC

CONSTANTS c, s, t

MCTransport == (c :> "certificate") @@ (s :> "sse") @@ (t :> "websocket")
=============================================================================
