-------------------------------- MODULE Dial --------------------------------
(* How the runtime client opens a connection (runtime/src/client.ts, transport.ts,   *)
(* protocol.ts): the control channel, a dialed stream or a proxy connection, through *)
(* a direct or proxied TCP connection, TLS, a request and the engine's response,     *)
(* which a FramedReader takes from the bytes that arrive.                            *)
(*                                                                                   *)
(* Bytes are half frames: the response of the engine is two, what follows it is any  *)
(* number of two-part frames for the control channel and payload for the others.     *)
EXTENDS Naturals, Sequences

CONSTANTS Dials,       \* concurrent calls
          Purpose,     \* of each call: "connect", "dial" or "proxy"
          MaxPayload   \* half frames that the engine sends after its response

ASSUME DialAssumption ==
  Purpose \in [Dials -> {"connect", "dial", "proxy"}] /\ MaxPayload \in Nat

VARIABLES dial
dialVars == <<dial>>

\* Await points of dial(), connect() and openProxyConnection().
Cancellable == {"tcp", "certificate", "proxyTLS", "connectResponse", "tls"}
DialAwaits == Cancellable \union {"connectRequest", "connected", "request", "response"}
Sockets == {"none", "open", "destroyed"}

\* What the engine sends.
Response == <<"r1", "r2">>
DialStream == Response \o [i \in 1..MaxPayload |-> "p"]

\* A call.
DialRecords ==
  [stage : {"idle", "returned", "threw"} \union DialAwaits,
   route : {"direct", "http", "https"},
   zeroRtt : BOOLEAN,
   raw : Sockets,          \* the TCP socket
   overProxy : Sockets,    \* the TLS socket to the proxy
   socket : Sockets,       \* the TLS socket to the engine
   aborted : BOOLEAN,      \* the signal
   late : BOOLEAN,         \* it was aborted just before TLS to the engine began
   arrived : 0..MaxPayload + 2,   \* bytes that have reached the TLS socket
   taken : 0..MaxPayload + 2,     \* of them, those the FramedReader has
   buffered : 0..MaxPayload + 2,  \* of them, those not yet decoded
   listening : BOOLEAN,    \* the FramedReader has its listeners
   answered : BOOLEAN,     \* the response was decoded
   rejected : BOOLEAN,     \* it was an error, or of another kind
   ahead : BOOLEAN,        \* bytes came with the response, or before the request was written
   lost : 0..MaxPayload + 2,      \* bytes taken for frames that nobody reads
   uncaught : BOOLEAN]     \* a listener threw, or an error had no listener: Node ends the process,
                           \* unless the program handles that

DialTypeOK == dial \in [Dials -> DialRecords]

NewDial(d, route, zeroRtt) ==
  [stage |-> "idle", route |-> route, zeroRtt |-> zeroRtt /\ Purpose[d] # "connect",
   raw |-> "none", overProxy |-> "none", socket |-> "none", aborted |-> FALSE,
   late |-> FALSE, arrived |-> 0, taken |-> 0, buffered |-> 0, listening |-> FALSE,
   answered |-> FALSE, rejected |-> FALSE, ahead |-> FALSE, lost |-> 0, uncaught |-> FALSE]

DialInit ==
  \E route \in [Dials -> {"direct", "http", "https"}], zeroRtt \in [Dials -> BOOLEAN] :
    dial = [d \in Dials |-> NewDial(d, route[d], zeroRtt[d])]

DialBecomes(d, q) == dial' = [dial EXCEPT ![d] = q]

\* Every catch on the way destroys the sockets below it, and what the reader had goes with it.
Gone(s) == IF s = "open" THEN "destroyed" ELSE s
DialThrewKeepingProxy(q) ==
  [q EXCEPT !.stage = "threw", !.raw = IF q.route = "https" THEN @ ELSE Gone(@), !.overProxy = Gone(@),
            !.socket = Gone(@), !.arrived = 0, !.taken = 0, !.buffered = 0, !.listening = FALSE,
            !.answered = FALSE, !.rejected = FALSE, !.ahead = FALSE, !.lost = 0]
DialThrew(q) ==
  [q EXCEPT !.stage = "threw", !.raw = Gone(@), !.overProxy = Gone(@), !.socket = Gone(@),
            !.arrived = 0, !.taken = 0, !.buffered = 0, !.listening = FALSE,
            !.answered = FALSE, !.rejected = FALSE, !.ahead = FALSE, !.lost = 0]

-----------------------------------------------------------------------------
(* transport.ts *)

\* connectTcp(), which an aborted signal rejects at once.
StartDial(d) ==
  /\ dial[d].stage = "idle"
  /\ DialBecomes(d, IF dial[d].aborted THEN DialThrew(dial[d])
                ELSE [dial[d] EXCEPT !.stage = "tcp", !.raw = "open"])

\* The TCP connection is there: dial() goes on with it, TLS to the proxy begins, or the
\* request to the proxy is written.
Connected(d) ==
  /\ dial[d].stage = "tcp"
  /\ DialBecomes(d,
       CASE dial[d].route = "direct" -> [dial[d] EXCEPT !.stage = "connected"]
         [] dial[d].route = "http" -> [dial[d] EXCEPT !.stage = "connectRequest"]
         [] dial[d].route = "https" -> [dial[d] EXCEPT !.stage = "certificate"])

\* startProxyTls() has read the certificate; the signal may have been aborted meanwhile.
CertificateRead(d) ==
  /\ dial[d].stage = "certificate"
  /\ DialBecomes(d, IF dial[d].aborted THEN DialThrew(dial[d])
                ELSE [dial[d] EXCEPT !.stage = "proxyTLS", !.overProxy = "open"])

ProxySecured(d) ==
  /\ dial[d].stage = "proxyTLS" /\ dial[d].raw = "open"
  /\ DialBecomes(d, [dial[d] EXCEPT !.stage = "connectRequest"])

\* writeConnectRequest() after the write, which the signal does not interrupt.
ConnectWritten(d) ==
  /\ dial[d].stage = "connectRequest"
  /\ DialBecomes(d, IF dial[d].aborted THEN DialThrew(dial[d]) ELSE [dial[d] EXCEPT !.stage = "connectResponse"])

\* The header of the proxy's response is complete.
ProxyAccepts(d) ==
  /\ dial[d].stage = "connectResponse"
  /\ DialBecomes(d, [dial[d] EXCEPT !.stage = "connected"])

\* startTls(): a signal aborted since the connection was there rejects without a catch that
\* would destroy it.
StartTls(d) ==
  /\ dial[d].stage = "connected"
  /\ DialBecomes(d, IF dial[d].aborted THEN [dial[d] EXCEPT !.stage = "threw", !.late = TRUE]
                ELSE [dial[d] EXCEPT !.stage = "tls", !.socket = "open"])

\* TLS to the engine is there: the request is written, and a FramedReader listens unless
\* the stream needs no answer.
Secured(d) ==
  /\ dial[d].stage = "tls"
  /\ DialBecomes(d, [dial[d] EXCEPT !.stage = "request", !.listening = ~dial[d].zeroRtt])

\* The signal is aborted; after TLS nobody listens to it.
Abort(d) ==
  /\ ~dial[d].aborted /\ dial[d].stage \notin {"returned", "threw"}
  /\ LET q == [dial[d] EXCEPT !.aborted = TRUE]
     IN DialBecomes(d, IF dial[d].stage \in Cancellable \ {"certificate"} THEN DialThrew(q) ELSE q)

\* A connection fails, a write or the reading of a certificate does, or the proxy refuses.  An
\* error of the socket that fails a write may have no listener.
Listened(q) == q.stage \in Cancellable \/ q.listening
SocketFails(d) ==
  /\ dial[d].stage \in DialAwaits \ {"response", "connected"}
  /\ \E uncaught \in {dial[d].uncaught} \union (IF Listened(dial[d]) THEN {} ELSE {TRUE}) :
       DialBecomes(d, DialThrew([dial[d] EXCEPT !.uncaught = uncaught]))

\* The connection to the proxy fails while the certificate is read, when nothing listens.
RawFails(d) ==
  /\ dial[d].stage = "certificate" /\ dial[d].raw = "open"
  /\ DialBecomes(d, [dial[d] EXCEPT !.raw = "destroyed", !.uncaught = TRUE])

-----------------------------------------------------------------------------
(* client.ts and FramedReader *)

\* A stream that needs no answer is returned once its request is written.
RequestWritten(d) ==
  /\ dial[d].stage = "request"
  /\ DialBecomes(d, [dial[d] EXCEPT !.stage = IF dial[d].zeroRtt THEN "returned" ELSE "response"])

\* release(): the bytes not yet decoded go back to the socket.
ReleasedKeeping(q, stage) == [q EXCEPT !.stage = stage, !.listening = FALSE]
ReleasedTo(q, stage) ==
  [q EXCEPT !.stage = stage, !.listening = FALSE, !.taken = @ - q.buffered, !.buffered = 0]

\* onData() and drain() with a chunk of n half frames: k of those it has are taken.  drain() ends
\* where a frame is incomplete, or too large, which ends the reader, or malformed: that one is
\* taken, and the exception leaves the listener, which stays.
Endings == {"incomplete", "too large", "malformed"}
Answers(q, k, end) == ~q.answered /\ k > (IF end = "malformed" THEN Len(Response) ELSE 0)
Drained(q, n, k, end, rejected) ==
  LET answers == Answers(q, k, end)
      has == q.buffered + n
  IN [q EXCEPT !.arrived = @ + n, !.taken = @ + n, !.buffered = has - k,
               !.lost = @ + k - (IF answers THEN Len(Response) ELSE 0),
               !.answered = @ \/ answers, !.rejected = rejected,
               !.ahead = @ \/ q.answered \/ (answers /\ has > Len(Response)),
               !.listening = end # "too large", !.uncaught = @ \/ end = "malformed"]

\* A chunk reaches the socket.  After the response a control channel has frames, and payload is
\* taken for frames of any length.
Chunk(d, n) ==
  /\ dial[d].stage = "request" \/ (dial[d].stage = "response" /\ ~dial[d].answered)
  /\ dial[d].listening
  /\ dial[d].arrived + n <= Len(DialStream)
  /\ LET q == dial[d]
         has == q.buffered + n
     IN \E k \in 0..has, end \in Endings, rejected \in BOOLEAN :
          /\ Purpose[d] = "connect" => k % 2 = 0
          /\ ~q.answered => k # 1
          /\ end = "incomplete" => (Purpose[d] = "connect" \/ (~q.answered /\ k = 0) => has - k < 2)
          /\ end = "too large" => k < has
          /\ end = "malformed" => k > 0
          /\ Answers(q, k, end) \/ rejected = q.rejected
          /\ DialBecomes(d, Drained(q, n, k, end, rejected))

\* The response was decoded before or after the write ended: it is examined, and the
\* reader released.
Responded(d) ==
  /\ dial[d].stage = "response" /\ dial[d].answered
  /\ DialBecomes(d, IF dial[d].rejected THEN DialThrew(dial[d]) ELSE ReleasedTo(dial[d], "returned"))

\* The engine closes or the connection fails before a response.
ResponseFails(d) ==
  /\ dial[d].stage = "response" /\ ~dial[d].answered
  /\ DialBecomes(d, DialThrew(dial[d]))

DialNext ==
  \E d \in Dials :
    \/ StartDial(d) \/ Connected(d) \/ CertificateRead(d) \/ ProxySecured(d) \/ ConnectWritten(d)
    \/ ProxyAccepts(d) \/ StartTls(d) \/ Secured(d) \/ Abort(d) \/ SocketFails(d) \/ RawFails(d)
    \/ RequestWritten(d) \/ Responded(d) \/ ResponseFails(d)
    \/ \E n \in 1..Len(DialStream) : Chunk(d, n)

DialSpec == DialInit /\ [][DialNext]_dialVars

-----------------------------------------------------------------------------
(* Properties *)

\* A dial that throws holds no socket, whichever step of which route failed or was aborted;
\* the exception is an abort in the instant between the connection and TLS (startTls).
NoSocketLeaked ==
  \A d \in Dials : dial[d].stage = "threw" /\ ~dial[d].late =>
    "open" \notin {dial[d].raw, dial[d].overProxy, dial[d].socket}

\* A returned connection gives its user every byte after the response, except what was taken for
\* frames that nobody reads; and that is nothing unless the engine sent on before the response
\* was examined, or a malformed frame (release, drain).
PayloadIntact ==
  \A d \in Dials : dial[d].stage = "returned" =>
    /\ dial[d].taken = IF dial[d].zeroRtt THEN 0 ELSE Len(Response) + dial[d].lost
    /\ dial[d].lost > 0 => dial[d].ahead \/ dial[d].uncaught
=============================================================================
