-------------------------------- MODULE Data --------------------------------
(* Components that share no state, side by side, and safety only: an initial state    *)
(* chooses the one that acts, and the others stay as they are.                        *)
EXTENDS Watch, Dial, ClientConfig, WebTTYKeys, ByteStreams, Uploads, TURNCredentials, Replay

VARIABLE actor

dataVars == <<vars, dialVars, configVars, keyVars, streamVars, uploadVars, turnVars, recording, actor>>

Actors == {"watch", "dial", "authentication", "transport", "keys", "frames", "download", "uploads", "turn", "replay"}

Rest(name) ==
  /\ name # "watch" => UNCHANGED vars
  /\ name # "dial" => UNCHANGED dialVars
  /\ name \notin {"frames", "download"} => UNCHANGED streamVars
  /\ name # "uploads" => UNCHANGED uploadVars
  /\ name # "turn" => UNCHANGED turnVars
  /\ UNCHANGED <<configVars, keyVars, recording, actor>>

-----------------------------------------------------------------------------
(* Who acts *)

\* What a component that rests is given.
AnyOf(S) == CHOOSE x \in S : TRUE
Resting ==
  [asked |-> AnyOf(Setups), wiring |-> AnyOf(Wirings), grant |-> AnyOf(Grants), identity |-> AnyOf(Identities),
   counter |-> AnyOf(Counters), recording |-> AnyOf(Recordings), options |-> AnyOf(TURNOptions)]

DataInit ==
  /\ actor \in Actors
  /\ Init
  /\ IF actor = "dial" THEN DialInit ELSE dial = [d \in Dials |-> NewDial(d, "direct", FALSE)]
  /\ asked \in IF actor = "authentication" THEN Setups ELSE {Resting.asked}
  /\ wiring \in IF actor = "transport" THEN Wirings ELSE {Resting.wiring}
  /\ IF actor = "keys" THEN KeysInit ELSE keys = [grant |-> Resting.grant, identity |-> Resting.identity]
  /\ IF actor = "frames" THEN FramesInit ELSE framed = NewStream(<<>>)
  /\ IF actor = "download" THEN DownloadInit ELSE download = NewDownload(0, Resting.counter, 0)
  /\ recording \in IF actor = "replay" THEN Recordings ELSE {Resting.recording}
  /\ NoCalls /\ file = [p \in Paths |-> Nothing]
  /\ IF actor = "turn" THEN TURNInit
     ELSE turn = [c \in TURNCalls |-> NewTURNCall(Resting.options)] /\ project = "none"

DataNext ==
  \/ actor = "watch" /\ Next /\ Rest("watch")
  \/ actor = "dial" /\ DialNext /\ Rest("dial")
  \/ actor = "frames" /\ FramesNext /\ Rest("frames")
  \/ actor = "download" /\ FileNext /\ Rest("download")
  \/ actor = "uploads" /\ UploadsNext /\ Rest("uploads")
  \/ actor = "turn" /\ TURNNext /\ Rest("turn")

DataSpec == DataInit /\ [][DataNext]_dataVars
DataTypeOK == TypeOK /\ DialTypeOK /\ UploadsTypeOK /\ TURNTypeOK
=============================================================================
