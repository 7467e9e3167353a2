------------------------------ MODULE MCWebTTY ------------------------------
(* Sessions of both transports that know the server's identity, one attached and one  *)
(* plain, with and without the hooks of payloadCrypto.                               *)
EXTENDS WebTTYSession

MCConfig(transport, opening, encrypts, decrypts) ==
  [transport |-> transport, opening |-> opening, encrypts |-> encrypts, decrypts |-> decrypts]
MCConfigs ==
  {MCConfig("websocket", "e2e", TRUE, {"stdout"}), MCConfig("webtransport", "e2e", TRUE, {"stdout"}),
   MCConfig("webtransport", "attach", FALSE, {"stdout"}), MCConfig("websocket", "plain", TRUE, {})}
=============================================================================
