---------------------------- MODULE ClientConfig ----------------------------
(* What the runtime client does with its options, environment variables and          *)
(* configuration file (runtime/src/config.ts), and with the transport they configure *)
(* (transport.ts): which credential it presents to which engine, and through what.   *)
(*                                                                                   *)
(* A credential is named by where it was found.  A configuration is chosen at the    *)
(* start; the operators say what the code makes of it.                               *)
EXTENDS Naturals, FiniteSets

CONSTANTS Setups,    \* the configurations of authentication to consider
          Wirings    \* those of the transport

VARIABLES
  asked,   \* options, environment, and what the file has under the selected name
  wiring   \* what the layers say of the transport

configVars == <<asked, wiring>>

None == "none"
FirstDefined(values) ==
  IF \A i \in DOMAIN values : values[i] = None THEN None
  ELSE values[CHOOSE i \in DOMAIN values : values[i] # None /\ \A j \in DOMAIN values : j < i => values[j] = None]
When(given, value) == IF given THEN value ELSE None

\* What the options, the variables of the process (readEnv) and the file (loadConfig,
\* normalizeConfig) say of authentication.  `contexts' are those of the selected name;
\* `environment' is the one entry under environments.  Of the credentials an option gives,
\* "credentials" are a token and "client" a client's id and secret; they are one or the other.
StoredAuth == SUBSET {"token", "certificate"}   \* authConfig
ClientOptions ==
  [auth : SUBSET {"token", "credentials", "client", "certificate"}, noToken : {None, "yes", "no"}, requireToken : BOOLEAN,
   readConfigFile : BOOLEAN, region : BOOLEAN, engine : STRING, apiUrl : STRING]
IsSetup(a) ==
  /\ a.options \in ClientOptions /\ ~({"credentials", "client"} \subseteq a.options.auth)
  /\ a.env \in [auth : StoredAuth, engine : STRING, apiUrl : STRING]
  /\ \A c \in a.contexts : c \in [apiUrl : STRING, engine : STRING, auth : StoredAuth]
  /\ a.environment \in [apiUrl : STRING, auth : StoredAuth]

\* What they say of the transport: transportConfig, of a context or an environment, and the
\* variables HTTPS_PROXY, ALL_PROXY and NO_PROXY.
TransportConfig ==
  [mode : STRING, useQuic : STRING,
   proxy : [given : BOOLEAN, http : {None, "http", "https"}, socks5 : BOOLEAN, fromEnvironment : BOOLEAN,
            credentials : {None, "both", "half"}, tls : BOOLEAN]]
IsWiring(w) ==
  /\ {w.option, w.env, w.legacy} \subseteq {None, "tls", "quic", "auto"}
  /\ {w.context, w.environment} \subseteq TransportConfig
  /\ w.process \in {None, "http", "https", "socks5"} /\ w.noProxy \in BOOLEAN

ASSUME ConfigAssumption == (\A a \in Setups : IsSetup(a)) /\ \A w \in Wirings : IsWiring(w)

ConfigInit == asked \in Setups /\ wiring \in Wirings
ConfigNext == UNCHANGED configVars
ConfigSpec == ConfigInit /\ [][ConfigNext]_configVars

-----------------------------------------------------------------------------
(* Authentication *)

Refused == [refused |-> TRUE]

ExplicitAPI(a) == FirstDefined(<<a.options.apiUrl, a.env.apiUrl>>)
ExplicitEngine(a) == FirstDefined(<<a.options.engine, a.env.engine>>)
ExplicitCertificate(a) == "certificate" \in a.options.auth \union a.env.auth

\* findContext(): with an API URL a context of that URL, or the only one if it has none;
\* without, the only one.  The empty set stands for the errors.
Candidates(a) ==
  LET api == ExplicitAPI(a)
      exact == {c \in a.contexts : c.apiUrl = api}
      unlinked == {c \in a.contexts : c.apiUrl = None}
  IN IF api # None /\ exact # {} THEN exact
     ELSE IF Cardinality(a.contexts) # 1 THEN {}
     ELSE IF api = None THEN a.contexts ELSE unlinked

APIURL(a, c) == FirstDefined(<<ExplicitAPI(a), c.apiUrl>>)
\* The environment's entry belongs to a context that names its API URL.
Linked(a, c) == c.apiUrl # None /\ APIURL(a, c) = a.environment.apiUrl

\* tokenFromAuth and resolveMTLSOptions: that of the context before that of the environment.
Stored(a, c, kind) ==
  FirstDefined(<<When(kind \in c.auth, "context"),
                 When(Linked(a, c) /\ kind \in a.environment.auth, "environment")>>)

\* credentialsToken(): a client's id and secret are no token.
ExplicitToken(a) ==
  FirstDefined(<<When("token" \in a.options.auth, "options"),
                 When("credentials" \in a.options.auth, "credentials"),
                 When("token" \in a.env.auth, "env")>>)
StoredToken(a, c) == When(a.options.noToken # "yes" /\ ~ExplicitCertificate(a), Stored(a, c, "token"))
\* config.tls: the file is not read, or the variables of the process come first.
LoadedCertificate(a, c) ==
  IF ~a.options.readConfigFile THEN None
  ELSE FirstDefined(<<When("certificate" \in a.env.auth, "env"), Stored(a, c, "certificate")>>)

OverrideIgnored(engine, c) == FALSE
\* engineOverrideUsesStoredToken
OverrideUsesStored(engine, c) == engine # None /\ c.engine # engine

\* resolveConfig() refuses what is stored for another engine.
StoredElsewhere(a, c) ==
  /\ a.options.readConfigFile
  /\ OverrideUsesStored(ExplicitEngine(a), c)
  /\ \/ StoredToken(a, c) # None /\ ExplicitToken(a) = None
     \/ LoadedCertificate(a, c) \notin {None, "env"} /\ "certificate" \notin a.options.auth

Token(a, c) ==
  When(a.options.noToken # "yes", FirstDefined(<<ExplicitToken(a), When(a.options.readConfigFile, StoredToken(a, c))>>))
PresentedCertificate(a, c) ==
  FirstDefined(<<When("certificate" \in a.options.auth, "options"), LoadedCertificate(a, c)>>)

\* Whether nothing is sent: asked for, or because nothing was found; a client's id and
\* secret do not count.
Anonymous(a, c) ==
  \/ a.options.noToken = "yes"
  \/ a.options.noToken = None /\ Token(a, c) = None /\ PresentedCertificate(a, c) = None

\* resolveToken(): a client's id and secret come before whatever token was found.
SentToken(a, c) ==
  When(~Anonymous(a, c), FirstDefined(<<When("client" \in a.options.auth, "client"), Token(a, c)>>))

\* resolveClientOptions(), then what connect() sends to the engine; the client of the engine's
\* API, which mints the token of a client, refuses credentials beside a certificate.
ResolvedWith(a, c) ==
  IF \/ StoredElsewhere(a, c)
     \/ Token(a, c) # None /\ PresentedCertificate(a, c) # None
     \/ SentToken(a, c) = "client" /\ PresentedCertificate(a, c) # None
     \/ a.options.requireToken /\ Token(a, c) = None /\ PresentedCertificate(a, c) = None
     \/ a.options.region /\ ExplicitEngine(a) # None
  THEN Refused
  ELSE [refused |-> FALSE, token |-> SentToken(a, c), certificate |-> PresentedCertificate(a, c), context |-> c,
        apiUrl |-> APIURL(a, c), engine |-> FirstDefined(<<ExplicitEngine(a), c.engine>>)]

NoContext == [apiUrl |-> None, engine |-> None, auth |-> {}]
Resolved(a) ==
  IF ~a.options.readConfigFile \/ a.contexts = {NoContext} THEN ResolvedWith(a, NoContext)
  ELSE IF Candidates(a) = {} THEN Refused
  ELSE ResolvedWith(a, CHOOSE c \in Candidates(a) : TRUE)

-----------------------------------------------------------------------------
(* Transport *)

\* resolveTunnelTransportMode() over what mergeTransportConfig makes of two layers.
MergedMode(w) ==
  [mode |-> IF w.context.mode = None /\ w.context.useQuic # None THEN None
            ELSE FirstDefined(<<w.context.mode, w.environment.mode>>),
   useQuic |-> IF w.context.mode # None THEN None
               ELSE FirstDefined(<<w.context.useQuic, w.environment.useQuic>>)]
Mode(w) ==
  LET merged == MergedMode(w)
  IN FirstDefined(<<w.option, w.env, w.legacy, merged.mode, merged.useQuic, "auto">>)

MergedProxy(w) ==
  LET c == w.context.proxy
      e == w.environment.proxy
  IN IF c.given /\ e.given
     THEN [c EXCEPT !.http = FirstDefined(<<c.http, e.http>>), !.credentials = FirstDefined(<<c.credentials, e.credentials>>)]
     ELSE IF c.given THEN c ELSE e
\* A proxy that the context configures replaces that of the environment as a whole: the
\* fields which it leaves out are there, undefined, when they are merged.
Proxy(w) == IF w.context.proxy.given THEN w.context.proxy ELSE w.environment.proxy

\* proxyFromConfig() and the validations of credentials and TLS.
Malformed(p) ==
  \/ p.socks5
  \/ p.credentials = "half"
  \/ p.tls /\ p.http = None /\ ~p.fromEnvironment

\* dial(): the proxy configured, that of the process unless NO_PROXY names the target, or
\* none; dialProxy() refuses settings of TLS for a proxy without it.
Direct == [refused |-> FALSE, via |-> "direct"]
Through(url, source, p) ==
  IF url = "http" /\ p.tls THEN Refused ELSE [refused |-> FALSE, via |-> source, credentials |-> p.credentials]
Routed(w, p) ==
  IF p.http # None THEN Through(p.http, "configured", p)
  ELSE IF ~p.fromEnvironment \/ w.noProxy \/ w.process = None THEN Direct
  ELSE IF w.process = "socks5" THEN Refused
  ELSE Through(w.process, "process", p)

\* transportFromConfig(), then dial().
Route(w) ==
  IF Mode(w) = "quic" \/ (Proxy(w).given /\ Malformed(Proxy(w))) THEN Refused
  ELSE IF ~Proxy(w).given THEN Direct ELSE Routed(w, Proxy(w))

-----------------------------------------------------------------------------
(* Properties *)

\* A stored credential goes to the engine of its own context, or to the one that the API
\* of its own context or environment names; and never past a credential that the caller
\* gave, with another one, or against noToken.  What the caller gave is used, but for a
\* client's id and secret where nothing else is found and noToken is not set: then the
\* connection is anonymous.  (resolveConfig, resolveClientOptions, Client.resolveToken)
CredentialsStayHome ==
  LET r == Resolved(asked)
      used == {r.token, r.certificate} \ {None}
      given == asked.options.auth
  IN ~r.refused =>
       /\ used \intersect {"context", "environment"} # {} =>
            /\ r.engine = r.context.engine
            /\ r.context.apiUrl # None => r.apiUrl = r.context.apiUrl
       /\ "environment" \in used => r.apiUrl = asked.environment.apiUrl
       /\ \A x, y \in used : x = y
       /\ asked.options.noToken = "yes" => r.token = None
       /\ given # {} /\ asked.options.noToken # "yes" =>
            /\ used \subseteq {"options", "credentials", "client"}
            /\ used = {} => given = {"client"} /\ asked.options.noToken = None

\* What is configured is done or refused: the tunnel transport is the one named by the most
\* specific layer that names one; and the proxy is that of the context, or else that of the
\* environment, whole, with its own credentials, and a connection goes past it only when
\* the configuration of the process says so.  (resolveTunnelTransportMode,
\* mergeTransportConfig, NodeTransport.dial)
Layers(w) == <<w.option, w.env, w.legacy, w.context.mode, w.context.useQuic, w.environment.mode, w.environment.useQuic>>
Honoured(w, p, route) ==
  /\ ~p.socks5
  /\ route.via = "direct" => p.http = None /\ (p.fromEnvironment => w.noProxy \/ w.process = None)
  /\ route.via = "process" => p.http = None /\ p.fromEnvironment /\ ~w.noProxy
  /\ route.via = "configured" => p.http # None
  /\ route.via # "direct" => route.credentials = p.credentials
TransportHonoured ==
  LET route == Route(wiring)
      context == wiring.context.proxy
      environment == wiring.environment.proxy
  IN /\ FirstDefined(Layers(wiring)) = "quic" <=> Mode(wiring) = "quic"
     /\ FirstDefined(Layers(wiring)) = "quic" => route.refused
     /\ ~route.refused =>
          /\ context.given => Honoured(wiring, context, route)
          /\ ~context.given /\ environment.given => Honoured(wiring, environment, route)
          /\ ~context.given /\ ~environment.given => route.via = "direct"
=============================================================================
