--------------------------- MODULE TURNCredentials --------------------------
(* TURN credentials (tunnels/src/turn.ts, turn-resource.ts, tunnels.ts): derived from *)
(* a personal access token or an application's key, issued by the control plane, or,  *)
(* when that cannot be reached, by the engine.  Calls share the resolution of the     *)
(* managed project, and each is bounded by a deadline and its caller's signal.        *)
EXTENDS Naturals

CONSTANTS TURNCalls,
          TURNOptions,  \* what a call may be made with
          MaxTTL        \* of the credentials asked for, in units of time

Modes == {"auto", "api", "engine", "app", "pat"}

\* CreateTURNCredentialsOptions, validated: a call that none of the validations refuses.  A
\* project is named by its endpoint.
CreateTURNCredentialsOptions ==
  [mode : Modes, ttl : 1..MaxTTL,
   credentials : {"none", "token", "pat", "restricted", "app"},  \* "restricted": a PAT that may not
                                                                 \* allocate relays
   remaining : 0..MaxTTL,   \* until the token expires
   certificate : BOOLEAN,   \* client.usesMTLS
   controlPlane : BOOLEAN,  \* controlPlaneCredentials
   endpoint : BOOLEAN,      \* projectEndpoint
   target : BOOLEAN,        \* domain and realm
   engine : BOOLEAN]        \* an engine is configured

ASSUME TURNAssumption == MaxTTL \in Nat \ {0} /\ TURNOptions \subseteq CreateTURNCredentialsOptions

VARIABLES
  turn,     \* the calls
  project   \* managedProject

turnVars == <<turn, project>>

IssuedBy == {"api", "engine", "app", "pat"}
Waiting == {"target", "keyring", "api", "engine"}

TURNRecords ==
  [options : TURNOptions, mode : Modes, stage : {"idle", "dispatch", "ended"} \union Waiting,
   outcome : {"pending", "resolved", "rejected"},
   aborted : BOOLEAN,                               \* the signal of the lifetime
   answer : {"none", "refused", "unavailable", "timeout"},  \* of the control plane
   asked : SUBSET {"api", "engine"},                \* what was contacted
   by : IssuedBy \union {"none"}, ttl : 0..MaxTTL]

TURNTypeOK ==
  /\ turn \in [TURNCalls -> TURNRecords]
  /\ project \in {"none", "pending", "resolved"}

NewTURNCall(o) ==
  [options |-> o, mode |-> o.mode, stage |-> "idle", outcome |-> "pending", aborted |-> FALSE,
   answer |-> "none", asked |-> {}, by |-> "none", ttl |-> 0]
TURNInit ==
  /\ turn \in [TURNCalls -> {NewTURNCall(o) : o \in TURNOptions}]
  /\ project = "none"

-----------------------------------------------------------------------------
(* Ending *)

TURNBecomes(c, t) == turn' = [turn EXCEPT ![c] = t]

\* The computation ends; its result counts unless the lifetime was over (waitWithSignal).
Failing(t) == [t EXCEPT !.stage = "ended", !.outcome = IF @ = "pending" THEN "rejected" ELSE @]
Issued(t, by, ttl) ==
  IF t.outcome # "pending" THEN [t EXCEPT !.stage = "ended"]
  ELSE [t EXCEPT !.stage = "ended", !.outcome = "resolved", !.by = by, !.ttl = ttl]

\* The deadline passes or the caller aborts.
TURNAbort(c) ==
  /\ turn[c].stage \in Waiting \union {"dispatch"} /\ turn[c].outcome = "pending"
  /\ TURNBecomes(c, [turn[c] EXCEPT !.outcome = "rejected", !.aborted = TRUE])
  /\ UNCHANGED project

-----------------------------------------------------------------------------
(* Dispatch *)

\* resolveMode(): only what has a target and a credential that may derive locally does so.
TURNMode(o) ==
  IF o.mode # "auto" THEN o.mode
  ELSE IF o.certificate THEN "engine"
  ELSE IF o.endpoint /\ o.target /\ o.credentials \in {"app", "pat"} THEN o.credentials
  ELSE "auto"

\* createCredentials(): an explicit local mode looks up the target of the project.
CreateCredentials(c) ==
  LET o == turn[c].options
      resolves == o.mode \in {"app", "pat"} /\ ~o.certificate /\ ~o.target
  IN /\ turn[c].stage = "idle"
     /\ IF ~resolves THEN TURNBecomes(c, [turn[c] EXCEPT !.stage = "dispatch"]) /\ UNCHANGED project
        ELSE IF ~o.endpoint THEN TURNBecomes(c, Failing(turn[c])) /\ UNCHANGED project
        ELSE /\ TURNBecomes(c, [turn[c] EXCEPT !.stage = "target"])
             /\ project' = IF project = "none" THEN "pending" ELSE project

\* The control plane answers getManagedProject(): a failure is not kept.
ProjectAnswers ==
  /\ project = "pending"
  /\ \/ project' = "resolved" /\ UNCHANGED turn
     \/ project' = "none" /\ turn' = [c \in TURNCalls |-> IF turn[c].stage = "target" THEN Failing(turn[c]) ELSE turn[c]]
TargetKnown(c) ==
  /\ turn[c].stage = "target" /\ project = "resolved"
  /\ TURNBecomes(c, [turn[c] EXCEPT !.stage = "dispatch"])
  /\ UNCHANGED project

\* parseTURNTokenClaims() and requirePATExpiration(): a personal access token, not expired.
UsablePAT(o) == o.credentials \in {"pat", "restricted"} /\ o.remaining > 0
\* createPATTURNCredentials(): the token caps the credential.
FromToken(t) ==
  LET o == t.options
  IN IF ~UsablePAT(o) \/ ~o.endpoint THEN Failing(t)
     ELSE Issued(t, "pat", IF o.remaining < o.ttl THEN o.remaining ELSE o.ttl)

\* createTURNCredentials() and createTURNCredentialsForLifetime() up to the first await.
Dispatched(t) ==
  LET o == t.options
      mode == TURNMode(o)
      api == o.controlPlane \/ o.credentials # "none"
      modal == [t EXCEPT !.mode = mode]
  IN IF t.aborted \/ (o.certificate /\ o.credentials # "none") THEN Failing(t)
     ELSE IF mode = "engine" THEN [modal EXCEPT !.stage = "engine"]
     ELSE IF o.certificate THEN Failing(modal)
     ELSE IF mode = "pat" THEN FromToken(modal)
     ELSE IF mode = "app"
     THEN IF o.credentials = "app" /\ o.endpoint THEN [modal EXCEPT !.stage = "keyring"] ELSE Failing(modal)
     ELSE IF api THEN IF o.endpoint THEN [modal EXCEPT !.stage = "api", !.asked = @ \union {"api"}] ELSE Failing(modal)
     ELSE IF mode = "auto" THEN [modal EXCEPT !.stage = "engine"]
     ELSE Failing(modal)
Dispatch(c) ==
  /\ turn[c].stage = "dispatch"
  /\ TURNBecomes(c, Dispatched(turn[c]))
  /\ UNCHANGED project

-----------------------------------------------------------------------------
(* Answers *)

\* What the keyring may answer: readBoundedTURNKeyring(), parseTURNServerPublicKeyHex() and
\* requireMatchingCurve() leave only a key.
KeyringAnswers == {"key", "redirect", "error", "no body", "too long", "malformed", "other curve"}
\* createAPPTURNCredentials(), which does not look at the expiry of anything.
FromKey(t, answer) == IF answer = "key" THEN Issued(t, "app", t.options.ttl) ELSE Failing(t)
\* loadTURNServerPublicKeyHex(), which an abort ends too.
LoadServerKey(c) ==
  /\ turn[c].stage = "keyring"
  /\ \E answer \in KeyringAnswers :
       /\ turn[c].aborted => answer # "key"
       /\ TURNBecomes(c, FromKey(turn[c], answer))
  /\ UNCHANGED project

\* turnEngineFallbackAllowed()
FallbackAfterRefusal(t, answer) == ~t.aborted
Fallback(t, answer) == ~t.aborted /\ answer \in {"unavailable", "timeout"}

\* The control plane refuses, cannot be reached, or takes too long.
APIFails(c, answer) ==
  /\ turn[c].stage = "api"
  /\ LET t == [turn[c] EXCEPT !.answer = answer]
     IN TURNBecomes(c, IF t.mode = "auto" /\ t.options.engine /\ Fallback(t, answer)
                       THEN [t EXCEPT !.stage = "engine"] ELSE Failing(t))
  /\ UNCHANGED project
APIIssues(c) ==
  /\ turn[c].stage = "api" /\ ~turn[c].aborted
  /\ \E ttl \in 1..turn[c].options.ttl : TURNBecomes(c, Issued(turn[c], "api", ttl))
  /\ UNCHANGED project

\* createEngineTURNCredentials(): the engine is resolved, has to be the project's, and is asked.
EngineIssues(c) ==
  /\ turn[c].stage = "engine"
  /\ \/ TURNBecomes(c, Failing(turn[c]))
     \/ /\ ~turn[c].aborted
        /\ LET t == [turn[c] EXCEPT !.asked = @ \union {"engine"}]
           IN \/ TURNBecomes(c, Failing(t))
              \/ \E ttl \in 1..t.options.ttl : TURNBecomes(c, Issued(t, "engine", ttl))
  /\ UNCHANGED project

TURNNext ==
  \/ ProjectAnswers
  \/ \E c \in TURNCalls :
       \/ CreateCredentials(c) \/ TargetKnown(c) \/ Dispatch(c) \/ LoadServerKey(c)
       \/ APIIssues(c) \/ EngineIssues(c) \/ TURNAbort(c)
       \/ \E answer \in {"refused", "unavailable", "timeout"} : APIFails(c, answer)

TURNSpec == TURNInit /\ [][TURNNext]_turnVars

-----------------------------------------------------------------------------
(* Properties *)

\* The engine stands in for the control plane only when that was unavailable or no credential
\* for it exists: no refusal, abort or explicit mode leads to it; a certificate reaches only the
\* engine; and a credential derived from a token does not outlive it.
\* (createTURNCredentialsForLifetime, turnEngineFallbackAllowed, createPATTURNCredentials)
NoBypass ==
  \A c \in TURNCalls :
    LET t == turn[c]
        o == t.options
    IN /\ "engine" \in t.asked => \/ o.mode = "engine"
                                  \/ o.mode = "auto" /\ o.certificate
                                  \/ o.mode = "auto" /\ t.asked = {"engine"} /\ ~o.controlPlane /\ o.credentials = "none"
                                  \/ o.mode = "auto" /\ t.answer \in {"unavailable", "timeout"} /\ o.engine
       /\ o.certificate => "api" \notin t.asked
       /\ t.outcome = "resolved" =>
            /\ t.ttl \in 1..o.ttl /\ (o.mode # "auto" => t.by = o.mode)
            /\ t.by = "pat" => t.ttl <= o.remaining
=============================================================================
