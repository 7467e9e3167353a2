------------------------------- MODULE Watch --------------------------------
(* Watch (tunnels/src/watch.ts): one object per connection to the event stream of the *)
(* engine, opened with a token (EventSource or WebSocket) or with a client           *)
(* certificate (an HTTP response that the object reads itself).                      *)
(*                                                                                   *)
(* An action is the code between two awaits of connect() or of the reader, or one    *)
(* event of the source.                                                              *)
EXTENDS Naturals

CONSTANTS Watches,
          Transport   \* of each watch

ASSUME WatchAssumption == Transport \in [Watches -> {"sse", "websocket", "certificate"}]

VARIABLES
  watch,   \* the objects
  call     \* the callback that the last step made

vars == <<watch, call>>

Awaits == {"auth", "engine", "stream"}
Live == {"opening", "open"}
Certificate(w) == Transport[w] = "certificate"

WatchObjects ==
  [state : {"preparing", "connecting", "connected", "closed"},
   aborted : BOOLEAN,
   connect : {"idle", "returned", "threw"} \union Awaits,  \* the await connect() is at
   source : {"none", "closed"} \union Live,                \* the connection, or the HTTP response
   arrived : BOOLEAN,     \* reader.read() has a chunk for readCertificateEvents
   hasty : BOOLEAN]       \* disconnect() was called at an await of connect()

NoCall == [name |-> "none"]
Call(w, name) == [name |-> name, of |-> w]
Calls == [name : {"onConnect", "onEvent", "onClose"}, of : Watches]

\* Types, and which transport may be at which await or have a chunk to read.
TypeOK ==
  /\ watch \in [Watches -> WatchObjects]
  /\ call \in Calls \union {NoCall}
  /\ \A w \in Watches :
       /\ watch[w].connect = "stream" \/ watch[w].arrived => Certificate(w)
       /\ watch[w].connect \in {"auth", "engine"} => ~Certificate(w)

NewWatch == [state |-> "preparing", aborted |-> FALSE, connect |-> "idle", source |-> "none",
             arrived |-> FALSE, hasty |-> FALSE]

Init ==
  /\ watch = [w \in Watches |-> NewWatch]
  /\ call = NoCall

-----------------------------------------------------------------------------
(* What the methods do to an object *)

\* connect() up to its first await.
ConnectingWithToken(r, w) == [r EXCEPT !.state = "connecting", !.connect = "auth"]
Connecting(r, w) ==
  [r EXCEPT !.state = "connecting", !.connect = IF Certificate(w) THEN "stream" ELSE "auth"]

\* The catch of connect().
Threw(r) ==
  [r EXCEPT !.connect = "threw",
            !.state = IF r.aborted THEN "closed" ELSE "preparing",
            !.source = IF @ \in Live THEN "closed" ELSE @]

\* disconnect(); it calls onClose unless the object is closed.
DisconnectedOnly(r) ==
  [r EXCEPT !.aborted = TRUE, !.state = "closed", !.hasty = @ \/ r.connect \in Awaits]
Disconnected(r) ==
  [r EXCEPT !.aborted = TRUE, !.state = "closed",
            !.source = IF @ \in Live THEN "closed" ELSE @,
            !.hasty = @ \/ r.connect \in Awaits]
CloseCall(w) == IF watch[w].state = "closed" THEN NoCall ELSE Call(w, "onClose")

Becomes(w, r) == watch' = [watch EXCEPT ![w] = r]
Disconnects(w, r) == Becomes(w, Disconnected(r)) /\ call' = CloseCall(w)

-----------------------------------------------------------------------------
(* connect() and disconnect() *)

\* Refused by the configuration, or started.
Connect(w) ==
  /\ watch[w].state = "preparing"
  /\ \/ Becomes(w, Threw(watch[w]))
     \/ Becomes(w, Connecting(watch[w], w))
  /\ call' = NoCall

Disconnect(w) == Disconnects(w, watch[w])

\* auth() and the checks of its token
AuthEnds(w) ==
  /\ watch[w].connect = "auth"
  /\ \/ Becomes(w, Threw(watch[w]))
     \/ Becomes(w, [watch[w] EXCEPT !.connect = "engine"])
  /\ call' = NoCall

\* resolveTunnelsEngine(); the connection is made whatever happened meanwhile.
EngineEnds(w) ==
  /\ watch[w].connect = "engine"
  /\ \/ Becomes(w, Threw(watch[w]))
     \/ Becomes(w, [watch[w] EXCEPT !.connect = "returned", !.source = "opening"])
  /\ call' = NoCall

\* openEventStream(): a stream that comes after disconnect() is closed.
StreamIgnoresAbort(w) ==
  /\ watch[w].connect = "stream"
  /\ \/ Becomes(w, Threw(watch[w])) /\ call' = NoCall
     \/ /\ Becomes(w, [watch[w] EXCEPT !.connect = "returned", !.source = "open", !.state = "connected"])
        /\ call' = Call(w, "onConnect")
StreamEnds(w) ==
  /\ watch[w].connect = "stream"
  /\ \/ Becomes(w, Threw(watch[w])) /\ call' = NoCall
     \/ /\ ~watch[w].aborted
        /\ Becomes(w, [watch[w] EXCEPT !.connect = "returned", !.source = "open", !.state = "connected"])
        /\ call' = Call(w, "onConnect")

-----------------------------------------------------------------------------
(* Events of the connection. disconnect() removes the handlers and closes it.      *)

Opens(w) ==
  /\ watch[w].source = "opening"
  /\ Becomes(w, [watch[w] EXCEPT !.source = "open", !.state = "connected"])
  /\ call' = Call(w, "onConnect")

\* handleMessage: an event, or something malformed
Message(w) ==
  /\ watch[w].source = "open" /\ ~Certificate(w)
  /\ \/ UNCHANGED watch /\ call' = Call(w, "onEvent")
     \/ Disconnects(w, watch[w])

\* onerror, and onclose of a WebSocket. An EventSource nobody closed connects again.
Breaks(w) ==
  /\ watch[w].source \in Live /\ ~Certificate(w)
  /\ \/ watch[w].state # "closed" /\ Disconnects(w, watch[w])
     \/ /\ watch[w].state = "closed"
        /\ \E s \in {"closed"} \union (IF Transport[w] = "sse" THEN {"opening"} ELSE {}) :
             Becomes(w, [watch[w] EXCEPT !.source = s])
        /\ call' = NoCall

\* readCertificateEvents: reader.read() has a chunk, which is handled in a later microtask ...
ChunkArrives(w) ==
  /\ watch[w].source = "open" /\ Certificate(w) /\ ~watch[w].arrived
  /\ Becomes(w, [watch[w] EXCEPT !.arrived = TRUE])
  /\ call' = NoCall

\* ... without another look at the signal.
HandleChunk(w) ==
  /\ watch[w].arrived
  /\ LET read == [watch[w] EXCEPT !.arrived = FALSE] IN
     \/ Becomes(w, read) /\ call' = Call(w, "onEvent")
     \/ Disconnects(w, read)

\* The stream ended or failed, or an event is too long.
StreamStops(w) ==
  /\ watch[w].source = "open" /\ Certificate(w) /\ ~watch[w].arrived
  /\ Disconnects(w, watch[w])

Next ==
  \E w \in Watches :
    \/ Connect(w) \/ Disconnect(w)
    \/ AuthEnds(w) \/ EngineEnds(w) \/ StreamEnds(w)
    \/ Opens(w) \/ Message(w) \/ Breaks(w)
    \/ ChunkArrives(w) \/ HandleChunk(w) \/ StreamStops(w)

Spec == Init /\ [][Next]_vars

-----------------------------------------------------------------------------
(* Properties. "Called when the connection is closed", says the documentation of        *)
(* onClose. That holds of a watch with a certificate, and of one with a token unless    *)
(* disconnect() was called while connect() was still looking for its token or engine.   *)

Orderly(w) == Certificate(w) \/ ~watch[w].hasty

\* A closed watch has let go of its connection, and what runs later does not open another.
ClosedIsReleased ==
  \A w \in Watches : Orderly(w) /\ watch[w].aborted =>
    watch[w].state = "closed" /\ watch[w].source \notin Live

\* After onClose nothing is called but onEvent, for the chunk that had been read before.
CloseIsLast ==
  [][\A w \in Watches : watch[w].aborted /\ Orderly(w) /\ call' # NoCall /\ call'.of = w =>
       call'.name = "onEvent" /\ watch[w].arrived]_vars

\* Without exception: after onClose there is no connection.
ClosedMeansClosed == \A w \in Watches : watch[w].aborted => watch[w].source \notin Live
=============================================================================
