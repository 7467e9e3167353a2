-------------------------------- MODULE MCData ------------------------------
(* Small instances of the components side by side. *)
EXTENDS Data, SequencesExt

CONSTANTS w1, w2, w3
MCTransport == (w1 :> "sse") @@ (w2 :> "websocket") @@ (w3 :> "certificate")
MCPurpose == ("c" :> "connect") @@ ("d" :> "dial")

MCContexts ==
  LET context(apiUrl, engine, auth) == [apiUrl |-> apiUrl, engine |-> engine, auth |-> auth]
      stored == {{}, {"token"}, {"certificate"}}
  IN {{NoContext}}
       \union {{context(apiUrl, engine, auth)} : apiUrl \in {None, "api1"}, engine \in {None, "e1"}, auth \in stored}
       \union {{context("api1", "e1", auth), context("api2", "e2", {"token"})} : auth \in stored}

MCSetups ==
  [options : {[auth |-> auth, noToken |-> noToken, requireToken |-> FALSE, readConfigFile |-> TRUE,
               region |-> FALSE, engine |-> engine, apiUrl |-> apiUrl] :
                auth \in {{}, {"token"}, {"credentials"}, {"client"}, {"certificate"}, {"token", "certificate"}},
                noToken \in {None, "yes", "no"}, engine \in {None, "e1", "e2"}, apiUrl \in {None, "api1", "api2"}}
             \union
             {[auth |-> auth, noToken |-> noToken, requireToken |-> TRUE, readConfigFile |-> readConfigFile,
               region |-> region, engine |-> engine, apiUrl |-> None] :
                auth \in {{}, {"token"}, {"client"}}, noToken \in {None, "yes"}, readConfigFile, region \in BOOLEAN, engine \in {None, "e1"}},
   env : {[auth |-> auth, engine |-> engine, apiUrl |-> None] : auth \in SUBSET {"token", "certificate"}, engine \in {None, "e2"}},
   contexts : MCContexts,
   environment : [apiUrl : {"api1"}, auth : {{}, {"token"}, {"certificate"}}]]

MCNoProxy == [given |-> FALSE, http |-> None, socks5 |-> FALSE, fromEnvironment |-> FALSE, credentials |-> None, tls |-> FALSE]
MCLayer == [mode |-> None, useQuic |-> None, proxy |-> MCNoProxy]
MCWiring == [option |-> None, env |-> None, legacy |-> None, context |-> MCLayer, environment |-> MCLayer,
             process |-> None, noProxy |-> FALSE]
MCModeNames == {None, "tls", "quic"}
MCModes ==
  {[MCWiring EXCEPT !.option = option, !.env = env, !.legacy = legacy,
                    !.context = [MCLayer EXCEPT !.mode = m1, !.useQuic = q1],
                    !.environment = [MCLayer EXCEPT !.mode = m2, !.useQuic = q2]] :
     option, env, legacy, m1, q1, m2, q2 \in MCModeNames}
MCProxies ==
  [given : {TRUE}, http : {None, "http", "https"}, socks5 : BOOLEAN, fromEnvironment : BOOLEAN,
   credentials : {None, "both", "half"}, tls : BOOLEAN]
MCRoutes ==
  {[MCWiring EXCEPT !.context = [MCLayer EXCEPT !.proxy = p], !.environment = [MCLayer EXCEPT !.proxy = q],
                    !.process = process, !.noProxy = noProxy] :
     p \in MCProxies \union {MCNoProxy},
     q \in {MCNoProxy} \union {[MCNoProxy EXCEPT !.given = TRUE, !.http = "https", !.fromEnvironment = TRUE]},
     process \in {None, "http", "https", "socks5"}, noProxy \in BOOLEAN}
MCWirings == MCModes \union MCRoutes

MCKeySuite == ("x1" :> "nominal") @@ ("x2" :> "nominal") @@ ("p1" :> "fips")
MCDigest == ("x1" :> "digest x1") @@ ("x2" :> "digest x2") @@ ("p1" :> "digest p1")
MCHolder(key) == [key |-> key, keyId |-> Unset, suite |-> Unset, kind |-> Unset, id |-> Unset]
MCStated(key, ids) == {[MCHolder(key) EXCEPT !.keyId = id] : id \in ids}
MCIdentities ==
  MCStated("x1", {Unset, "label", "digest x1"}) \union MCStated("x2", {Unset, "digest x2", "digest x1"})
    \union MCStated("p1", {Unset, "digest p1"})
    \union {[MCHolder(key) EXCEPT !.suite = "fips"] : key \in {"x1", "p1"}}
MCRecipients ==
  MCIdentities \union {[MCHolder("x1") EXCEPT !.kind = kind, !.id = id] : kind, id \in {Unset, "user"}}
MCGrants ==
  [suite : {Unset, "fips"}, payloadSuite : {Unset, "fips"}, recipients : BoundedSeq(MCRecipients, 2),
   context : {Unset, "given"}, payloadKeyId : {"k1"}, payloadKey : {"secret"}]
MCOthers ==
  [suite : {Unset}, payloadSuite : {Unset}, context : {Unset, "given"}, payloadKeyId : {"k1", "k2"},
   payloadKey : {"secret", "another"}, recipients : {<<MCHolder("x1")>>}]

MCCounter(upper, lower) == [upper |-> upper, lower |-> lower]
MCCounters == {MCCounter(0, 0), MCCounter(0, 6), MCCounter(7, 6), MCCounter(7, 7)}

MCTURNOptions ==
  [mode : Modes, credentials : {"none", "token", "pat", "restricted", "app"}, remaining : {0, 1}, ttl : {2},
   certificate : BOOLEAN, controlPlane : BOOLEAN, endpoint : BOOLEAN, target : BOOLEAN, engine : BOOLEAN]

MCPieces ==
  {Piece(op, 0, 0) : op \in {"x", "CR", "LF", "BS", "TAB", "A", "B", "s", "u", "enter", "leave", "cursor shown"}}
    \union {Piece("J", n, 0) : n \in 0..3} \union {Piece("K", n, 0) : n \in 0..2}
    \union {Piece("C", 2, 0), Piece("D", 2, 0), Piece("G", 2, 0), Piece("H", 0, 0), Piece("H", 2, 2)}
MCText(ops) == [i \in DOMAIN ops |-> Piece(ops[i], 0, 0)]
MCStarts == {MCText(<<"x", "y", "LF", "x">>), MCText(<<"x", "LF", "y", "s", "enter", "y">>)}
MCTexts == {start \o Append(rest, Piece("y", 0, 0)) : start \in MCStarts, rest \in BoundedSeq(MCPieces, 2)}
MCEvent(type, stream, form, text) == [type |-> type, stream |-> stream, form |-> form, text |-> text]
MCRecording ==
  [events |-> <<>>, hooks |-> StreamTypes, included |-> {"stdout", "stderr"}, modeMarkers |-> FALSE,
   resizeMarkers |-> FALSE, activeAlternate |-> TRUE]
\* A text in two chunks: cut between two pieces, or within one.
MCCut(text, i) ==
  [MCRecording EXCEPT !.events = <<MCEvent("data", "stdout", "plain", SubSeq(text, 1, i)), MCEvent("exit", None, "none", <<>>),
                                   MCEvent("data", "stderr", "sealed", SubSeq(text, i + 1, Len(text)))>>]
MCTail(piece, n) == [k \in 1..n |-> [piece EXCEPT !.cut = "tail"]]
MCCutWithin(text, i, n) ==
  [MCRecording EXCEPT !.events =
     <<MCEvent("data", "stdout", "plain", Append(SubSeq(text, 1, i - 1), [text[i] EXCEPT !.cut = "head"])),
       MCEvent("data", "stdout", "plain", MCTail(text[i], n) \o SubSeq(text, i + 1, Len(text)))>>]
MCEvents ==
  {MCEvent("resize", None, "none", <<>>), MCEvent("data", "stdout", "none", <<>>), MCEvent("data", "stderr", "sealed", <<>>),
   MCEvent("data", "stdin", "plain", MCText(<<"y">>)), MCEvent("data", "stdin", "sealed", MCText(<<"wide">>)),
   MCEvent("data", "other", "plain", MCText(<<"x">>)), MCEvent("data", "stdout", "both", MCText(<<"x", "enter", "y">>)),
   MCEvent("data", "stderr", "plain", MCText(<<"x", "leave">>)), MCEvent("data", "stdout", "sealed", MCText(<<"x", "LF">>))}
MCRecordings ==
  UNION {{MCCut(text, i) : i \in {1, Len(text) - 1}} : text \in MCTexts}
    \union {MCCutWithin(text, Len(text) - 1, n) :
              n \in {1, 2},
              text \in {t \in MCTexts : Len(t) > 1 /\ t[Len(t) - 1].op \notin {"CR", "LF", "BS", "TAB", "x", "y"}}}
    \union {MCCutWithin(MCText(<<"x", "wide", "y">>), 2, n) : n \in {1, 2}}
    \union {[MCRecording EXCEPT !.events = events, !.hooks = hooks, !.included = included, !.modeMarkers = markers,
                                !.resizeMarkers = markers, !.activeAlternate = ~markers] :
              events \in BoundedSeq(MCEvents, 3), hooks \in {{"stdout", "stderr"}, StreamTypes},
              included \in {{"stdout", "stderr"}, {"stdin", "stdout"}}, markers \in BOOLEAN}
=============================================================================
