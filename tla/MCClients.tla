------------------------------ MODULE MCClients -----------------------------
(* The clients that owe their callers an end, side by side: an initial state chooses  *)
(* the one that acts, and the others stay as they are.                                *)
EXTENDS WebTTYCommand, EngineHTTP, RTCTransfer

VARIABLE actor

clientsVars == <<allCommandVars, engineVars, rtcVars, actor>>

Rest(name) ==
  /\ name # "command" => UNCHANGED allCommandVars
  /\ name # "engine" => UNCHANGED engineVars
  /\ name # "transfer" => UNCHANGED rtcVars
  /\ UNCHANGED actor

ClientsInit ==
  /\ actor \in {"command", "engine", "transfer"}
  /\ CommandInit /\ (actor # "command" => command.input = "none")
  /\ EngineInit /\ (actor # "engine" => engine.mode = "direct")
  /\ RTCInit /\ (actor # "transfer" => fetch.method = "GET" /\ fetch.backend = "auto" /\ owner.size = 0 /\ owner.announced)

ClientsNext ==
  \/ actor = "command" /\ CommandNext /\ Rest("command")
  \/ actor = "engine" /\ EngineNext /\ Rest("engine")
  \/ actor = "transfer" /\ RTCNext /\ Rest("transfer")

\* The fairness of each: nothing it asks for is enabled before its actor begins.
ClientsFairness == CommandFairness /\ EngineFairness /\ RTCFairness

ClientsSpec == ClientsInit /\ [][ClientsNext]_clientsVars /\ ClientsFairness

\* Whoever waits under a deadline gets an answer, although the server, the engine and the owner of
\* the files may stay silent: after the output limit of a command, for a request with a lifetime,
\* in the discovery and in the setup of a transfer (outputLimit and terminate, requestLifetime,
\* AbortSignal.timeout and setupTimer).
ClientsSettle == LimitSettles /\ RequestsSettle /\ ResponseSettles
=============================================================================
