---------------------------- MODULE WebTTYSession ---------------------------
(* A WebTTY session (webtty/src/webtty.ts): the client object, its WebSocket or      *)
(* WebTransport connection, the promise chain that handles messages in order behind  *)
(* asynchronous decryption, and the writer of the connection.                        *)
(*                                                                                   *)
(* An action is the code between two awaits, one event of the connection, or one     *)
(* call by the application, which may also come from inside onConnect.  The server   *)
(* sends any message at any time.                                                    *)
EXTENDS Naturals, Sequences, FiniteSets

CONSTANTS Streams,      \* the output streams
          Configs,      \* the sessions to consider
          MaxMessages,  \* messages that the server sends
          MaxCalls,     \* calls of the application and heartbeats
          MaxQueue,     \* messages that may wait to be handled (1024 in the code)
          MaxWrites     \* frames that may wait to be written (1024 in the code)

ASSUME SessionAssumption ==
  /\ Configs \subseteq [transport : {"websocket", "webtransport"}, opening : {"plain", "e2e", "attach"},
                        encrypts : BOOLEAN, decrypts : SUBSET Streams]
  /\ {MaxMessages, MaxCalls, MaxQueue, MaxWrites} \subseteq Nat \ {0}

VARIABLES
  config,    \* transport, how the session opens ("e2e": the identity of the server is known), and
             \* the hooks of payloadCrypto
  session,   \* the WebTTY object
  queue,     \* receiveQueue: the messages whose handling is not finished
  busy,      \* the first of them is being decrypted or verified
  inbox,     \* messages of the server on their way
  link,      \* the connection
  writer,    \* what the connection has to write
  wire,      \* the frames that have been written
  pending,   \* encryptions of stdin, and client proofs being signed
  event,     \* the callback that the last step made
  seen       \* the application's and the server's past, for the properties

vars == <<config, session, queue, busy, inbox, link, writer, wire, pending, event, seen>>

-----------------------------------------------------------------------------
(* Data *)

NoEvent == [name |-> "none"]
Event(name) == [name |-> name]
Output(name, s) == [name |-> name, stream |-> s]

\* Messages of the server.  "failure" is any message that ends the session with an
\* error: error, protocolError, attach, an acknowledgement of another managed session,
\* data without exactly one payload or of another stream, and bytes that cannot be
\* decoded.  "lost" is the close of the WebSocket, which handleClose queues behind
\* the messages.
Plain == [type : {"ack", "hello", "close", "failure"}]
Outputs == [type : {"data", "sealed", "eos"}, stream : Streams]
Messages == Plain \union Outputs
Lost == [type |-> "lost"]

\* Frames of the client; a payload of stdin carries the number of the call, and "signal"
\* is a resize, a termination request or a heartbeat.
Frame(type) == [type |-> type, n |-> 0]
Stdin(n) == [type |-> "stdin", n |-> n]
FrameTypes == {"clientHello", "open", "attach", "stdin", "eof", "signal"}
Frames == [type : FrameTypes, n : 0..MaxCalls]
NoFrame == [type |-> "none"]

WebTransport == config.transport = "webtransport"
E2E == config.opening = "e2e"

Sessions ==
  [state : {"preparing", "connecting", "connected", "closed"},
   result : {"none", "complete", "error", "lost"},  \* what close() was called with
   inConnect : BOOLEAN,    \* onConnect is running
   timer : BOOLEAN,        \* heartbeatTimer
   ended : SUBSET Streams, \* stdoutClosed, stderrClosed
   stdinClosed : BOOLEAN,
   terminate : {"unsupported", "supported", "requested"}]

\* The stages of a connection; "ready" to "opened" are the awaits of
\* WebTransportMessageConnection.open and of its caller.
Links ==
  [stage : {"idle", "socket", "ready", "stream", "arrived", "opened", "open", "closed"},
   carrier : {"none", "up", "down", "ended", "closed"},  \* "down": closed by the peer,
                                                         \* "ended": and handleClose ran
   stream : {"none", "creating", "open", "released"}]    \* of WebTransport

NewWriter == [buffer |-> <<>>, inflight |-> NoFrame, writing |-> FALSE]

Past ==
  [calls : 0..MaxCalls,
   messages : 0..MaxMessages,
   closeSent : BOOLEAN,   \* the server sent a Close message
   overlap : BOOLEAN,     \* a write began while another was being encrypted
   hasty : BOOLEAN]       \* the session was closed inside onConnect

\* Types; a message is being handled only while one is queued.
SessionTypeOK ==
  /\ config \in Configs
  /\ session \in Sessions
  /\ \A i \in 1..Len(queue) : queue[i] \in Messages \union {Lost}
  /\ Len(queue) <= MaxQueue + 1
  /\ busy \in BOOLEAN /\ (busy => queue # <<>>)
  /\ \A i \in 1..Len(inbox) : inbox[i] \in Messages
  /\ link \in Links
  /\ \A frames \in {writer.buffer, wire} : \A i \in 1..Len(frames) : frames[i] \in Frames
  /\ writer.inflight \in Frames \union {NoFrame} /\ writer.writing \in BOOLEAN
  /\ pending.stdin \subseteq 1..MaxCalls /\ pending.proofs \in 0..MaxMessages + 1
  /\ seen \in Past

Init ==
  /\ config \in Configs
  /\ session = [state |-> "preparing", result |-> "none", inConnect |-> FALSE, timer |-> FALSE,
                ended |-> {}, stdinClosed |-> FALSE, terminate |-> "unsupported"]
  /\ queue = <<>> /\ busy = FALSE /\ inbox = <<>>
  /\ link = [stage |-> "idle", carrier |-> "none", stream |-> "none"]
  /\ writer = NewWriter /\ wire = <<>>
  /\ pending = [stdin |-> {}, proofs |-> 0]
  /\ event = NoEvent
  /\ seen = [calls |-> 0, messages |-> 0, closeSent |-> FALSE, overlap |-> FALSE, hasty |-> FALSE]

-----------------------------------------------------------------------------
(* close() *)

\* this.connection is set: from connect() on for a WebSocket, once open() has returned
\* for WebTransport.
Attached(l) == l.stage \in {"socket", "open"}

\* connection.close(), and what open() does after a cancelled wait.
ReleasedKeepingStream(l) == [l EXCEPT !.stage = "closed", !.carrier = "closed"]
Released(l) ==
  [l EXCEPT !.stage = "closed", !.carrier = "closed",
            !.stream = IF @ = "open" THEN "released" ELSE @]
Emptied(w) == IF WebTransport THEN [w EXCEPT !.buffer = <<>>] ELSE w

\* close(result) of session s while the connection has writer w.
CloseWith(s, w, result) ==
  IF s.state = "closed"
  THEN session' = s /\ writer' = w /\ event' = NoEvent /\ UNCHANGED link
  ELSE /\ session' = [s EXCEPT !.state = "closed", !.result = result, !.timer = FALSE]
       /\ event' = Event(IF result = "complete" THEN "onComplete" ELSE "onError")
       /\ link' = IF Attached(link) THEN Released(link) ELSE link
       /\ writer' = IF Attached(link) THEN Emptied(w) ELSE w
CloseOf(s, result) == CloseWith(s, writer, result)
Close(result) == CloseOf(session, result)

-----------------------------------------------------------------------------
(* Writing *)

\* The loop takes the next frame, or stops.
Taken(w) ==
  IF w.buffer = <<>> THEN NewWriter
  ELSE [buffer |-> Tail(w.buffer), inflight |-> Head(w.buffer), writing |-> TRUE]

\* connection.send(): a WebSocket buffers, WebTransport starts the loop unless it runs.
Pushed(w, f) ==
  LET queued == [w EXCEPT !.buffer = Append(@, f)]
  IN IF WebTransport /\ ~w.writing THEN Taken(queued) ELSE queued

Full == Len(writer.buffer) + (IF writer.writing THEN 1 ELSE 0) >= MaxWrites

\* The frame is given to the connection; a full buffer closes the session, by an
\* exception of the WebSocket or by handlers.error of WebTransport.
Transmit(s, f) ==
  IF Full THEN CloseOf(s, "error")
  ELSE session' = s /\ writer' = Pushed(writer, f) /\ event' = NoEvent /\ UNCHANGED link

\* send(message) of session s: nothing without a connection or in a closed session.
Send(s, f) ==
  IF Attached(link) /\ s.state \notin {"preparing", "closed"}
  THEN Transmit(s, f)
  ELSE session' = s /\ event' = NoEvent /\ UNCHANGED <<link, writer>>

\* A message of any size: one above maxMessageSize closes the session.
SendAny(s, f) == Send(s, f) \/ (Attached(link) /\ CloseOf(s, "error"))

\* writer.write() of the loop ends.
WriteSettles ==
  /\ writer.writing
  /\ \/ /\ wire' = Append(wire, writer.inflight)
        /\ writer' = IF link.stage = "open" THEN Taken(writer) ELSE NewWriter
        /\ event' = NoEvent
        /\ UNCHANGED <<session, link>>
     \/ CloseWith(session, [writer EXCEPT !.inflight = NoFrame, !.writing = FALSE], "error") /\ UNCHANGED wire
  /\ UNCHANGED <<config, queue, busy, inbox, pending, seen>>

\* The WebSocket sends from its buffer, also while it closes.
SocketDrains ==
  /\ ~WebTransport /\ writer.buffer # <<>> /\ link.carrier \in {"up", "closed"}
  /\ wire' = Append(wire, Head(writer.buffer))
  /\ writer' = [writer EXCEPT !.buffer = Tail(@)]
  /\ event' = NoEvent
  /\ UNCHANGED <<config, session, queue, busy, inbox, link, pending, seen>>

-----------------------------------------------------------------------------
(* Opening *)

\* handleOpen(), and sendAttach() up to the await of the client proof, with the connection l.
HandleOpen(l) ==
  /\ link' = l
  /\ event' = NoEvent /\ UNCHANGED session
  /\ CASE config.opening = "attach" -> pending' = [pending EXCEPT !.proofs = 1] /\ UNCHANGED writer
       [] config.opening = "plain" -> writer' = Pushed(writer, Frame("open")) /\ UNCHANGED pending
       [] E2E /\ WebTransport -> writer' = Pushed(writer, Frame("clientHello")) /\ UNCHANGED pending
       [] OTHER -> UNCHANGED <<writer, pending>>

\* Its message exceeds a limit, or connectWebTransport() catches an exception of sendOpen().
OpenRefused(l) ==
  /\ config.opening = "plain" \/ (E2E /\ WebTransport)
  /\ session' = [session EXCEPT !.state = "closed", !.result = "error"]
  /\ event' = Event("onError")
  /\ link' = Released(l)
  /\ UNCHANGED <<writer, pending>>

\* The message cannot be built; the exception leaves the listener of the WebSocket, or the
\* promise of sendAttach(), and the session waits on.
OpenThrows(l) ==
  /\ config.opening = "attach" \/ (config.opening = "plain" /\ ~WebTransport)
  /\ link' = l
  /\ event' = NoEvent
  /\ UNCHANGED <<session, writer, pending>>

Begins(l) == HandleOpen(l) \/ OpenRefused(l) \/ OpenThrows(l)

\* connect(): the constructor of the WebSocket may throw.
Connect ==
  /\ session.state = "preparing"
  /\ LET connecting == [session EXCEPT !.state = "connecting"]
     IN \/ /\ session' = connecting
           /\ link' = [stage |-> IF WebTransport THEN "ready" ELSE "socket", carrier |-> "up",
                       stream |-> "none"]
           /\ event' = NoEvent /\ UNCHANGED writer
        \/ ~WebTransport /\ CloseOf(connecting, "error")
  /\ UNCHANGED <<config, queue, busy, inbox, wire, pending, seen>>

\* The WebSocket opens.
SocketOpens ==
  /\ link.stage = "socket" /\ link.carrier = "up"
  /\ Begins([link EXCEPT !.stage = "open"])
  /\ UNCHANGED <<config, queue, busy, inbox, wire, seen>>

\* WebTransport is ready, and open() asks for the stream.
TransportReady ==
  /\ link.stage = "ready" /\ link.carrier = "up" /\ session.state # "closed"
  /\ link' = [link EXCEPT !.stage = "stream", !.stream = "creating"]
  /\ event' = NoEvent
  /\ UNCHANGED <<config, session, queue, busy, inbox, writer, wire, pending, seen>>

\* The stream is there; when the opening was cancelled it is disposed of.
StreamCreated ==
  /\ link.stream = "creating"
  /\ link' = IF session.state = "closed" THEN [link EXCEPT !.stream = "released"]
             ELSE [link EXCEPT !.stream = "open", !.stage = "arrived"]
  /\ event' = NoEvent
  /\ UNCHANGED <<config, session, queue, busy, inbox, writer, wire, pending, seen>>

\* open() goes on with the stream.
OpenReturns ==
  /\ link.stage = "arrived"
  /\ link' = IF session.state = "closed" THEN Released(link) ELSE [link EXCEPT !.stage = "opened"]
  /\ event' = NoEvent
  /\ UNCHANGED <<config, session, queue, busy, inbox, writer, wire, pending, seen>>

\* connectWebTransport() goes on with the connection.
AdoptLeaking ==
  /\ link.stage = "opened"
  /\ IF session.state = "connecting" THEN Begins([link EXCEPT !.stage = "open"])
     ELSE link' = [link EXCEPT !.stage = "closed"] /\ event' = NoEvent /\ UNCHANGED <<session, writer, pending>>
  /\ UNCHANGED <<config, queue, busy, inbox, wire, seen>>
Adopt ==
  /\ link.stage = "opened"
  /\ IF session.state = "connecting" THEN Begins([link EXCEPT !.stage = "open"])
     ELSE link' = Released(link) /\ event' = NoEvent /\ UNCHANGED <<session, writer, pending>>
  /\ UNCHANGED <<config, queue, busy, inbox, wire, seen>>

\* open() throws: the session was closed, or readiness or the stream was refused; a
\* stream that is still being created stays so only in the first case.
OpenFails ==
  /\ link.stage \in {"ready", "stream"}
  /\ \E stream \in {link.stream, "none"} :
       /\ session.state # "closed" => stream = "none"
       /\ link' = [stage |-> "closed", carrier |-> "closed", stream |-> stream]
  /\ IF session.state = "closed" THEN event' = NoEvent /\ UNCHANGED session
     ELSE /\ session' = [session EXCEPT !.state = "closed", !.result = "error"]
          /\ event' = Event("onError")
  /\ UNCHANGED <<config, queue, busy, inbox, writer, wire, pending, seen>>

\* A stream that nobody waits for is refused.
StreamRefused ==
  /\ link.stream = "creating" /\ link.stage = "closed"
  /\ link' = [link EXCEPT !.stream = "none"]
  /\ event' = NoEvent
  /\ UNCHANGED <<config, session, queue, busy, inbox, writer, wire, pending, seen>>

-----------------------------------------------------------------------------
(* Messages *)

\* The head of the queue is handled, `rest' waits.
Handled(rest) == queue' = rest /\ busy' = FALSE
Awaited(m, rest) == queue' = <<m>> \o rest /\ busy' = TRUE
NotYet == event' = NoEvent /\ UNCHANGED <<session, link, writer>>

\* processMessage() of an acknowledgement; onConnect begins.
ProcessAck ==
  IF session.state = "connected" THEN Close("error")
  ELSE /\ \E supported \in BOOLEAN :
            session' = [session EXCEPT !.state = "connected", !.inConnect = TRUE,
                                       !.terminate = IF supported THEN "supported" ELSE @]
       /\ event' = Event("onConnect")
       /\ UNCHANGED <<link, writer>>

\* processDataMessage() of a payload that is there, or decrypted at once.
ProcessOutput(m) ==
  IF session.state # "connected" \/ m.stream \in session.ended THEN Close("error")
  ELSE /\ session' = IF m.type = "eos" THEN [session EXCEPT !.ended = @ \union {m.stream}] ELSE session
       /\ event' = Output(IF m.type = "eos" THEN "onEos" ELSE "onOutput", m.stream)
       /\ UNCHANGED <<link, writer>>

\* The messages whose handling may await: an encrypted payload of a stream with a hook, which
\* may also decrypt at once; and a server hello when the identity of the server is known, always.
Readable(m) == m.type = "sealed" /\ m.stream \in config.decrypts
Greets(m) == m.type = "hello" /\ E2E /\ session.state = "connecting"
Awaits(m) == Greets(m) \/ (Readable(m) /\ session.state = "connected" /\ m.stream \notin session.ended)

\* processMessage() up to its first await, and the item of handleClose.
Process(m, rest) ==
  IF session.state = "closed" THEN Handled(rest) /\ NotYet
  ELSE \/ Awaits(m) /\ Awaited(m, rest) /\ NotYet
       \/ /\ ~Greets(m)
          /\ Handled(rest)
          /\ CASE m.type = "ack" -> ProcessAck
               [] m.type \in {"data", "eos"} -> ProcessOutput(m)
               [] Readable(m) -> ProcessOutput(m) \/ Close("error")
               [] m.type = "close" -> Close("complete")
               [] m.type = "lost" -> Close("lost")
               [] OTHER -> Close("error")

\* The server sends a message.
ServerSends(m) ==
  /\ link.stage = "open" /\ link.carrier = "up" /\ seen.messages < MaxMessages
  /\ inbox' = Append(inbox, m)
  /\ seen' = [seen EXCEPT !.messages = @ + 1, !.closeSent = @ \/ m.type = "close"]
  /\ event' = NoEvent
  /\ UNCHANGED <<config, session, queue, busy, link, writer, wire, pending>>

\* handleConnectionMessage(); the read loop of WebTransport waits for the handling of a
\* message before it takes the next.
Arrives ==
  /\ link.stage = "open" /\ inbox # <<>>
  /\ WebTransport => queue = <<>>
  /\ inbox' = Tail(inbox)
  /\ IF Len(queue) >= MaxQueue THEN Close("error") /\ UNCHANGED <<queue, busy>>
     ELSE IF queue # <<>> THEN queue' = Append(queue, Head(inbox)) /\ NotYet /\ UNCHANGED busy
     ELSE Process(Head(inbox), <<>>)
  /\ UNCHANGED <<config, wire, pending, seen>>

\* The next message of the chain, once the one before it is finished.
RunNext ==
  /\ queue # <<>> /\ ~busy
  /\ Process(Head(queue), Tail(queue))
  /\ UNCHANGED <<config, inbox, wire, pending, seen>>

\* A payload has been decrypted; a failure ends the session.
DecryptedAnyway ==
  /\ busy /\ Head(queue).type = "sealed"
  /\ Handled(Tail(queue))
  /\ event' = Output("onOutput", Head(queue).stream) /\ UNCHANGED <<session, link, writer>>
  /\ UNCHANGED <<config, inbox, wire, pending, seen>>
Decrypted ==
  /\ busy /\ Head(queue).type = "sealed"
  /\ Handled(Tail(queue))
  /\ \/ IF session.state = "closed" THEN NotYet
        ELSE event' = Output("onOutput", Head(queue).stream) /\ UNCHANGED <<session, link, writer>>
     \/ Close("error")
  /\ UNCHANGED <<config, inbox, wire, pending, seen>>

\* A server hello has been verified: sendOpen(), unless a client proof is needed first.
HelloVerified ==
  /\ busy /\ Head(queue).type = "hello"
  /\ Handled(Tail(queue))
  /\ \/ Close("error") /\ UNCHANGED pending
     \/ SendAny(session, Frame("open")) /\ UNCHANGED pending
     \/ pending' = [pending EXCEPT !.proofs = @ + 1] /\ NotYet
  /\ UNCHANGED <<config, inbox, wire, seen>>

\* The proof for an Open or Attach message is signed, or the signing fails.
ProofSettles ==
  /\ pending.proofs > 0
  /\ pending' = [pending EXCEPT !.proofs = @ - 1]
  /\ SendAny(session, Frame(IF E2E THEN "open" ELSE "attach")) \/ Close("error")
  /\ UNCHANGED <<config, queue, busy, inbox, wire, seen>>

-----------------------------------------------------------------------------
(* The end of the connection *)

\* The peer closes the connection.  WebTransport reports that at once while it is being
\* opened.
PeerCloses ==
  /\ link.carrier = "up"
  /\ IF link.stage \in {"ready", "stream", "arrived"} /\ session.state # "closed"
     THEN /\ session' = [session EXCEPT !.state = "closed", !.result = "error"]
          /\ event' = Event("onError")
     ELSE event' = NoEvent /\ UNCHANGED session
  /\ link' = [link EXCEPT !.carrier = "down"]
  /\ UNCHANGED <<config, queue, busy, inbox, writer, wire, pending, seen>>

\* handleClose(), after the last message: the close event of the WebSocket, and for WebTransport the
\* end of the stream in the read loop.
EndSeenAtOnce ==
  /\ ~WebTransport /\ link.stage \in {"socket", "open"} /\ link.carrier = "down"
  /\ inbox = <<>>
  /\ Close("lost")
  /\ UNCHANGED <<config, queue, busy, inbox, wire, pending, seen>>
EndSeen ==
  /\ \/ ~WebTransport /\ link.stage \in {"socket", "open"} /\ link.carrier = "down"
     \/ WebTransport /\ link.stage = "open" /\ link.carrier \in {"up", "down"} /\ queue = <<>>
  /\ inbox = <<>>
  /\ IF queue = <<>> THEN Close("lost") /\ UNCHANGED queue
     ELSE /\ queue' = Append(queue, Lost)
          /\ link' = [link EXCEPT !.carrier = "ended"]
          /\ event' = NoEvent /\ UNCHANGED <<session, writer>>
  /\ UNCHANGED <<config, busy, inbox, wire, pending, seen>>

\* handleError() and handleTransportError(): the connection fails, or reading does.
ConnectionFails ==
  /\ link.carrier \in {"up", "down"} /\ link.stage \notin {"closed", "idle"}
  /\ session.state # "closed"
  /\ Close("error")
  /\ UNCHANGED <<config, queue, busy, inbox, wire, pending, seen>>

-----------------------------------------------------------------------------
(* Calls of the application *)

Connected == session.state = "connected" /\ Attached(link)
CanWriteAfterEnd == Connected
CanWrite == Connected /\ ~session.stdinClosed
Counted == [seen EXCEPT !.calls = @ + 1]

\* onConnect returns, and the timer is armed.
ConnectReturns ==
  /\ session.inConnect
  /\ session' = [session EXCEPT !.inConnect = FALSE, !.timer = TRUE]
  /\ seen' = [seen EXCEPT !.hasty = session.state = "closed"]
  /\ event' = NoEvent
  /\ UNCHANGED <<config, queue, busy, inbox, link, writer, wire, pending>>

\* writeStdinAsync() with a hook; and without one, or writeStdin() with a hook that encrypts at
\* once or throws.
WriteStdin ==
  /\ CanWrite
  /\ LET n == seen.calls + 1
     IN /\ \/ config.encrypts /\ pending' = [pending EXCEPT !.stdin = @ \union {n}] /\ NotYet
           \/ config.encrypts /\ NotYet /\ UNCHANGED pending
           \/ SendAny(session, Stdin(n)) /\ UNCHANGED pending
        /\ seen' = [Counted EXCEPT !.overlap = @ \/ pending.stdin # {}]
  /\ UNCHANGED <<config, queue, busy, inbox, wire>>

\* A payload is encrypted: it is sent unless writing has become impossible; a failure
\* goes to the caller.
Encrypted(n) ==
  /\ n \in pending.stdin
  /\ pending' = [pending EXCEPT !.stdin = @ \ {n}]
  /\ NotYet \/ (CanWrite /\ SendAny(session, Stdin(n)))
  /\ UNCHANGED <<config, queue, busy, inbox, wire, seen>>

CloseStdin ==
  /\ CanWrite
  /\ Send([session EXCEPT !.stdinClosed = TRUE], Frame("eof"))
  /\ seen' = Counted
  /\ UNCHANGED <<config, queue, busy, inbox, wire, pending>>

Resize ==
  /\ Connected
  /\ Send(session, Frame("signal"))
  /\ seen' = Counted
  /\ UNCHANGED <<config, queue, busy, inbox, wire, pending>>

\* requestTermination(): the exception of a full WebSocket goes to the caller.
RequestTermination ==
  /\ Connected /\ session.terminate = "supported"
  /\ IF Full /\ ~WebTransport THEN NotYet
     ELSE Transmit([session EXCEPT !.terminate = "requested"], Frame("signal"))
  /\ seen' = Counted
  /\ UNCHANGED <<config, queue, busy, inbox, wire, pending>>

Disconnect ==
  /\ session.state # "closed"
  /\ Close("error")
  /\ UNCHANGED <<config, queue, busy, inbox, wire, pending, seen>>

\* sendHeartbeat() of the interval timer.
Heartbeat ==
  /\ session.timer
  /\ Send(session, Frame("signal"))
  /\ seen' = Counted
  /\ UNCHANGED <<config, queue, busy, inbox, wire, pending>>

Calls == seen.calls < MaxCalls /\ (WriteStdin \/ CloseStdin \/ Resize \/ RequestTermination)

ConnectionSteps ==
  \/ SocketOpens \/ TransportReady \/ StreamCreated \/ OpenReturns \/ Adopt \/ OpenFails
  \/ StreamRefused \/ WriteSettles \/ SocketDrains
  \/ PeerCloses \/ EndSeen \/ ConnectionFails
SessionSteps ==
  \/ Arrives \/ RunNext \/ Decrypted \/ HelloVerified \/ ProofSettles
  \/ \E n \in pending.stdin : Encrypted(n)
  \/ seen.calls < MaxCalls /\ Heartbeat

\* While onConnect runs nothing but the application does.
Next ==
  \/ Connect \/ Calls \/ Disconnect \/ ConnectReturns
  \/ ~session.inConnect /\ (ConnectionSteps \/ SessionSteps \/ \E m \in Messages : ServerSends(m))

\* What the platform owes: it ends cryptography and waits, and delivers what has arrived.
Progress == ConnectReturns \/ (~session.inConnect /\
  (Arrives \/ RunNext \/ Decrypted \/ HelloVerified \/ EndSeen
   \/ StreamCreated \/ OpenReturns \/ Adopt \/ OpenFails \/ StreamRefused))

Spec == Init /\ [][Next]_vars /\ WF_vars(Progress)

-----------------------------------------------------------------------------
(* Properties *)

\* The session keeps what it promises its callbacks, whatever the server sends and
\* whenever the application disconnects (close, processMessage, processDataMessage).
Promises == INSTANCE WebTTYEvents WITH phase <- session.state, ended <- session.ended
ImplementsEvents == Promises!EventsSpec

\* A result that the server sent before it closed the connection normally is not replaced
\* by the report that the connection was lost, neither while messages before it are being
\* decrypted nor while it waits in the stream (handleClose, the handlers of transport.closed).
ResultNotLost == session.result = "lost" => ~seen.closeSent

\* Stdin reaches the connection in the order of the calls, unless the application began a
\* write while another was being encrypted, and never after its end of stream.
Input(f) == f.type \in {"stdin", "eof"}
MayFollow(f, g) ==
  Input(f) /\ Input(g) =>
    /\ f.type = "stdin"
    /\ (g.type = "stdin" /\ ~seen.overlap) => f.n < g.n
InputInOrder == \A i, j \in 1..Len(wire) : i < j => MayFollow(wire[i], wire[j])

\* A closed session holds nothing once its opening has settled: no connection, no stream, and
\* no timer unless it was closed inside onConnect, which arms the timer afterwards.
HoldsNothing ==
  /\ SessionTypeOK
  /\ (session.state = "closed" /\ ~session.inConnect) =>
       /\ session.timer => seen.hasty
       /\ link.stage \in {"idle", "closed"} =>
            link.carrier \in {"none", "closed"} /\ link.stream # "open"
       /\ link.stage \notin {"socket", "open"}

\* When the peer ends the connection the session ends too, and a session that was closed
\* while it opened gives back its connection and its stream (handleClose, open,
\* connectWebTransport).
PeerGoneEnds == (link.carrier = "down") ~> (session.state = "closed")
OpeningSettles ==
  (session.state = "closed") ~>
    (link.stage \in {"idle", "closed"} /\ link.stream \in {"none", "released"})
Settles == PeerGoneEnds /\ OpeningSettles
=============================================================================
