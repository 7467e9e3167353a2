--------------------------- MODULE ControlChannel ---------------------------
(* The control channel of @rstreamlabs/runtime (control-channel.ts), with the    *)
(* tunnels it registers (tunnel.ts), their accept queues (queue.ts) and the     *)
(* proxy connections it opens (client.ts).                                      *)
(*                                                                              *)
(* JavaScript runs one callback at a time and every await is a point where      *)
(* another callback may run, so an action is the code between two awaits.       *)
(* Heartbeats are modelled in ControlLiveness; here the liveness timer may      *)
(* fire at any time.                                                            *)
EXTENDS Naturals, FiniteSets, Sequences

CONSTANTS Tunnels,         \* one createBytestreamTunnel call each, and the id the engine gives it
          Tasks,           \* application tasks, which call close() and accept()
          Streams,         \* stream ids the engine asks the client to serve
          TunnelOf,        \* the tunnel each stream is for
          maxActiveProxyConnections,
          maxQueuedProxyConnections,
          EngineOmitsId    \* whether the engine may answer with no tunnel id

ASSUME ChannelAssumption ==
  /\ IsFiniteSet(Streams)
  /\ TunnelOf \in [Streams -> Tunnels]
  /\ maxActiveProxyConnections \in Nat \ {0}
  /\ maxQueuedProxyConnections \in Nat
  /\ EngineOmitsId \in BOOLEAN

VARIABLES
  \* createBytestreamTunnel
  create,          \* where each call is
  created,         \* the promise it awaits last
  pendingTunnels,  \* calls the channel will settle
  \* tunnels, and closeTunnel
  tunnel,          \* the tunnel objects; the map `tunnels` holds the open ones
  closer,          \* where each task's call of tunnel.close() is
  pendingCloses,   \* tunnels with a PendingClose
  closeDone,       \* the promise of the latest PendingClose of a tunnel
  \* accept queues
  values,          \* sockets delivered and not yet accepted
  waiters,         \* accept() calls waiting, first come first
  accept,          \* where each task's call of accept() is
  \* the channel
  shutdown,        \* where each task's call of close() is
  closing, closed,
  up,              \* the TLS socket
  message,         \* read by readLoop and not yet handled
  writeChain,      \* frames to write: the first is on the socket
  received,        \* frames the engine received
  \* proxy connections
  handler,         \* where handleProxyConnReq is for each stream
  socket,          \* the payload socket of each stream
  proxyQueue,
  activeProxyConnections

createVars  == <<create, created, pendingTunnels>>
closeVars   == <<closer, pendingCloses, closeDone>>
acceptVars  == <<values, waiters, accept>>
proxyVars   == <<handler, socket, proxyQueue, activeProxyConnections>>
channelVars == <<shutdown, closing, closed, up>>
vars == <<createVars, tunnel, closeVars, acceptVars, channelVars, message,
          writeChain, received, proxyVars>>

Promises == {"none", "pending", "resolved", "rejected"}
Frame(op, id) == [op |-> op, id |-> id]
Frames ==
  [op : {"openTunnelReq", "closeTunnelReq"}, id : Tunnels]
    \union [op : {"closeControlChannelReq"}, id : Tasks]
    \union [op : {"proxyConnOk", "proxyConnClosed", "proxyConnError"}, id : Streams]

None == [kind |-> "none"]
Messages ==
  [kind : {"openTunnelRsp"}, id : Tunnels,
   result : {"ok", "error"} \union (IF EngineOmitsId THEN {"noId"} ELSE {})]
    \union [kind : {"closeTunnelRsp"}, id : Tunnels]
    \union [kind : {"proxyConnReq"}, id : Streams]
    \union [kind : {"closeControlChannelRsp"}]

TypeOK ==
  /\ create \in [Tunnels -> {"idle", "refused", "writing", "waiting", "threw"}]
  /\ created \in [Tunnels -> Promises]
  /\ pendingTunnels \subseteq Tunnels
  /\ tunnel \in [Tunnels -> {"none", "open", "closed"}]
  /\ closer \in [Tunnels \X Tasks -> {"idle", "writing", "waiting", "returned"}]
  /\ pendingCloses \subseteq Tunnels
  /\ closeDone \in [Tunnels -> Promises]
  /\ values \in [Tunnels -> Seq(Streams)]
  /\ waiters \in [Tunnels -> Seq(Tasks)]
  /\ accept \in [Tunnels \X Tasks -> {"idle", "waiting", "served", "rejected"}]
  /\ shutdown \in [Tasks -> {"idle", "writing", "waiting", "threw"}]
  /\ closing \in BOOLEAN
  /\ closed \in BOOLEAN
  /\ up \in BOOLEAN
  /\ message \in Messages \union {None}
  /\ writeChain \in Seq(Frames)
  /\ received \subseteq Frames
  /\ handler \in [Streams -> {"idle", "queued", "dropped", "dialling", "handshake",
                              "answering", "failed", "ending", "done"}]
  /\ socket \in [Streams -> {"none", "open", "queued", "accepted", "destroyed"}]
  /\ proxyQueue \in Seq(Streams)
  /\ activeProxyConnections \in Nat

Init ==
  /\ create = [t \in Tunnels |-> "idle"]
  /\ created = [t \in Tunnels |-> "none"]
  /\ pendingTunnels = {}
  /\ tunnel = [t \in Tunnels |-> "none"]
  /\ closer = [c \in Tunnels \X Tasks |-> "idle"]
  /\ pendingCloses = {}
  /\ closeDone = [t \in Tunnels |-> "none"]
  /\ values = [t \in Tunnels |-> <<>>]
  /\ waiters = [t \in Tunnels |-> <<>>]
  /\ accept = [c \in Tunnels \X Tasks |-> "idle"]
  /\ shutdown = [a \in Tasks |-> "idle"]
  /\ closing = FALSE
  /\ closed = FALSE
  /\ up = TRUE
  /\ message = None
  /\ writeChain = <<>>
  /\ received = {}
  /\ handler = [p \in Streams |-> "idle"]
  /\ socket = [p \in Streams |-> "none"]
  /\ proxyQueue = <<>>
  /\ activeProxyConnections = 0

-----------------------------------------------------------------------------
(* Shared steps *)

\* write(): with the channel closed it throws, so its callers guard it with ~closed.
Write(op, id) == writeChain' = Append(writeChain, Frame(op, id))

\* The engine may answer a frame that is on the socket before its callback runs.
Sent(op, id) ==
  \/ Frame(op, id) \in received
  \/ writeChain # <<>> /\ Head(writeChain) = Frame(op, id)

\* resolve and reject of the promises of ts; the calls of tunnel.close() awaiting one return.
Unsettled(promise, ts, outcome) == promise
Settle(promise, ts, outcome) ==
  [t \in Tunnels |-> IF t \in ts /\ promise[t] = "pending" THEN outcome ELSE promise[t]]
ReturnClosers(ts) ==
  [c \in Tunnels \X Tasks |->
     IF c[1] \in ts /\ closer[c] = "waiting" THEN "returned" ELSE closer[c]]

\* What dispose does to the sockets when the queues of ts are closed.
Undisposed(ts) == socket
DisposedAll(ts) ==
  [p \in Streams |->
     IF TunnelOf[p] \in ts /\ socket[p] \in {"queued", "accepted"} THEN "destroyed" ELSE socket[p]]
Disposed(ts) ==
  [p \in Streams |->
     IF TunnelOf[p] \in ts /\ socket[p] = "queued" THEN "destroyed" ELSE socket[p]]

\* BytestreamTunnelImpl.onClose with AsyncQueue.close, for each of the open tunnels ts.
CloseTunnels(ts) ==
  /\ tunnel' = [t \in Tunnels |-> IF t \in ts THEN "closed" ELSE tunnel[t]]
  /\ values' = [t \in Tunnels |-> IF t \in ts THEN <<>> ELSE values[t]]
  /\ waiters' = [t \in Tunnels |-> IF t \in ts THEN <<>> ELSE waiters[t]]
  /\ socket' = Disposed(ts)
  /\ accept' = [c \in Tunnels \X Tasks |->
                  IF c[1] \in ts /\ accept[c] = "waiting" THEN "rejected" ELSE accept[c]]

OpenTunnels == {t \in Tunnels : tunnel[t] = "open"}

\* finish(), given the handlers and the pending calls at that moment.
Finish(handlers, pending) ==
  /\ closed' = TRUE
  /\ up' = FALSE
  /\ proxyQueue' = <<>>
  /\ handler' = [p \in Streams |-> IF handlers[p] = "queued" THEN "dropped" ELSE handlers[p]]
  /\ created' = Settle(created, pending, "rejected")
  /\ pendingTunnels' = {}
  /\ closeDone' = Settle(closeDone, pendingCloses, "rejected")
  /\ closer' = ReturnClosers(pendingCloses)
  /\ pendingCloses' = {}
  /\ CloseTunnels(OpenTunnels)
  /\ UNCHANGED <<create, shutdown, closing, activeProxyConnections, writeChain, received>>

-----------------------------------------------------------------------------
(* Calls of the application *)

RefusingIfClosed == closed
Refusing == closed \/ closing
CreateTunnel(t) ==
  /\ create[t] = "idle"
  /\ \/ /\ Refusing
        /\ create' = [create EXCEPT ![t] = "refused"]
        /\ UNCHANGED <<created, pendingTunnels, writeChain>>
     \/ /\ ~Refusing
        /\ create' = [create EXCEPT ![t] = "writing"]
        /\ created' = [created EXCEPT ![t] = "pending"]
        /\ pendingTunnels' = pendingTunnels \union {t}
        /\ Write("openTunnelReq", t)
  /\ UNCHANGED <<tunnel, closeVars, acceptVars, channelVars, message, received, proxyVars>>

\* tunnel.close() and closeTunnel(); a task has the tunnel once its create call returned it.
NeverCloseUnderway(t) == FALSE
CloseUnderway(t) == t \in pendingCloses
CloseTunnel(t, a) ==
  /\ closer[<<t, a>>] = "idle" /\ tunnel[t] # "none" /\ create[t] = "waiting"
  /\ \/ /\ tunnel[t] = "closed"
        /\ closer' = [closer EXCEPT ![<<t, a>>] = "returned"]
        /\ UNCHANGED <<pendingCloses, closeDone, writeChain>>
     \/ /\ tunnel[t] = "open" /\ CloseUnderway(t)
        /\ closer' = [closer EXCEPT ![<<t, a>>] = "waiting"]
        /\ UNCHANGED <<pendingCloses, closeDone, writeChain>>
     \/ /\ tunnel[t] = "open" /\ ~CloseUnderway(t)
        /\ closer' = [closer EXCEPT ![<<t, a>>] = "writing"]
        /\ closeDone' = [closeDone EXCEPT ![t] = "pending"]
        /\ pendingCloses' = pendingCloses \union {t}
        /\ Write("closeTunnelReq", t)
  /\ UNCHANGED <<createVars, tunnel, acceptVars, channelVars, message, received, proxyVars>>

\* close(): the first call writes the request, the others await done().
Close(a) ==
  /\ shutdown[a] = "idle"
  /\ closing' = (closing \/ ~closed)
  /\ \/ /\ closed \/ closing
        /\ shutdown' = [shutdown EXCEPT ![a] = "waiting"]
        /\ UNCHANGED writeChain
     \/ /\ ~closed /\ ~closing
        /\ shutdown' = [shutdown EXCEPT ![a] = "writing"]
        /\ Write("closeControlChannelReq", a)
  /\ UNCHANGED <<createVars, tunnel, closeVars, acceptVars, closed, up, message, received, proxyVars>>

\* accept() and AsyncQueue.shift
Accept(t, a) ==
  /\ accept[<<t, a>>] = "idle" /\ tunnel[t] # "none" /\ create[t] = "waiting"
  /\ \/ /\ values[t] # <<>>
        /\ values' = [values EXCEPT ![t] = Tail(@)]
        /\ socket' = [socket EXCEPT ![Head(values[t])] = "accepted"]
        /\ accept' = [accept EXCEPT ![<<t, a>>] = "served"]
        /\ UNCHANGED waiters
     \/ /\ values[t] = <<>> /\ tunnel[t] = "closed"
        /\ accept' = [accept EXCEPT ![<<t, a>>] = "rejected"]
        /\ UNCHANGED <<values, waiters, socket>>
     \/ /\ values[t] = <<>> /\ tunnel[t] = "open"
        /\ accept' = [accept EXCEPT ![<<t, a>>] = "waiting"]
        /\ waiters' = [waiters EXCEPT ![t] = Append(@, a)]
        /\ UNCHANGED <<values, socket>>
  /\ UNCHANGED <<createVars, tunnel, closeVars, channelVars, message, writeChain, received,
                 handler, proxyQueue, activeProxyConnections>>

\* onAbort of AsyncQueue.shift
AbortAccept(t, a) ==
  /\ accept[<<t, a>>] = "waiting"
  /\ accept' = [accept EXCEPT ![<<t, a>>] = "rejected"]
  /\ \E i \in DOMAIN waiters[t] :
       /\ waiters[t][i] = a
       /\ waiters' = [waiters EXCEPT ![t] = SubSeq(@, 1, i - 1) \o SubSeq(@, i + 1, Len(@))]
  /\ UNCHANGED <<createVars, tunnel, closeVars, values, channelVars, message, writeChain,
                 received, proxyVars>>

-----------------------------------------------------------------------------
(* writeChain: the callback of the frame on the socket resumes its writer.       *)

\* The frame was written.
WriteCompletes ==
  /\ up /\ writeChain # <<>>
  /\ received' = received \union {Head(writeChain)}
  /\ writeChain' = Tail(writeChain)
  /\ LET op == Head(writeChain).op  id == Head(writeChain).id IN
     \/ /\ op = "openTunnelReq"
        /\ create' = [create EXCEPT ![id] = "waiting"]
        /\ UNCHANGED <<closer, shutdown, handler>>
     \/ /\ op = "closeTunnelReq"
        /\ closer' = [c \in Tunnels \X Tasks |->
                        IF c[1] = id /\ closer[c] = "writing"
                        THEN IF closeDone[id] = "pending" THEN "waiting" ELSE "returned"
                        ELSE closer[c]]
        /\ UNCHANGED <<create, shutdown, handler>>
     \/ /\ op = "closeControlChannelReq"
        /\ shutdown' = [shutdown EXCEPT ![id] = "waiting"]
        /\ UNCHANGED <<create, closer, handler>>
     \/ /\ op \in {"proxyConnOk", "proxyConnClosed", "proxyConnError"}
        /\ handler' = [handler EXCEPT ![id] = "ending"]
        /\ UNCHANGED <<create, closer, shutdown>>
  /\ UNCHANGED <<created, pendingTunnels, tunnel, pendingCloses, closeDone, acceptVars,
                 closing, closed, up, message, socket, proxyQueue, activeProxyConnections>>

\* encodeMessage refuses a frame before any of it is written, so the engine has not
\* answered it; only the properties of a tunnel can make a frame that large.
Oversized(frame) ==
  /\ frame.op = "openTunnelReq" /\ frame.id \in pendingTunnels
  /\ ~(message.kind = "openTunnelRsp" /\ message.id = frame.id)

\* Writing failed: the socket is gone or the frame exceeds maxFrameSize. The catch of
\* handleProxyConnReq answers once more, unless the channel is closed.
WriteFails ==
  /\ writeChain # <<>>
  /\ ~up \/ Oversized(Head(writeChain))
  /\ LET op == Head(writeChain).op  id == Head(writeChain).id IN
     \/ /\ op = "openTunnelReq"
        /\ create' = [create EXCEPT ![id] = "threw"]
        /\ pendingTunnels' = pendingTunnels \ {id}
        /\ writeChain' = Tail(writeChain)
        /\ UNCHANGED <<closeVars, shutdown, handler>>
     \/ /\ op = "closeTunnelReq"
        /\ pendingCloses' = pendingCloses \ {id}
        /\ closeDone' = Settle(closeDone, {id}, "rejected")
        /\ closer' = [c \in Tunnels \X Tasks |->
                        IF c[1] = id /\ closer[c] \in {"writing", "waiting"}
                        THEN "returned" ELSE closer[c]]
        /\ writeChain' = Tail(writeChain)
        /\ UNCHANGED <<create, pendingTunnels, shutdown, handler>>
     \/ /\ op = "closeControlChannelReq"
        /\ shutdown' = [shutdown EXCEPT ![id] = "threw"]
        /\ writeChain' = Tail(writeChain)
        /\ UNCHANGED <<create, pendingTunnels, closeVars, handler>>
     \/ /\ op \in {"proxyConnOk", "proxyConnClosed"}
        /\ IF closed
           THEN /\ handler' = [handler EXCEPT ![id] = "ending"]
                /\ writeChain' = Tail(writeChain)
           ELSE /\ writeChain' = Append(Tail(writeChain), Frame("proxyConnError", id))
                /\ UNCHANGED handler
        /\ UNCHANGED <<create, pendingTunnels, closeVars, shutdown>>
     \/ /\ op = "proxyConnError"
        /\ handler' = [handler EXCEPT ![id] = "failed"]
        /\ writeChain' = Tail(writeChain)
        /\ UNCHANGED <<create, pendingTunnels, closeVars, shutdown>>
  /\ UNCHANGED <<created, tunnel, acceptVars, closing, closed, up, message, received,
                 socket, proxyQueue, activeProxyConnections>>

-----------------------------------------------------------------------------
(* Messages of the engine *)

\* readLoop's read() returns a message; handleMessage runs in a later microtask.
EngineSends(m) ==
  /\ up /\ message = None
  /\ \/ m.kind = "openTunnelRsp" /\ Sent("openTunnelReq", m.id) /\ m.id \in pendingTunnels
     \/ m.kind = "closeTunnelRsp" /\ tunnel[m.id] = "open"
     \/ m.kind = "proxyConnReq" /\ handler[m.id] = "idle" /\ tunnel[TunnelOf[m.id]] # "none"
     \/ m.kind = "closeControlChannelRsp" /\ \E a \in Tasks : Sent("closeControlChannelReq", a)
  /\ message' = m
  /\ UNCHANGED <<createVars, tunnel, closeVars, acceptVars, channelVars, writeChain, received,
                 proxyVars>>

\* handleOpenTunnelRsp. A tunnel with no id makes the constructor of
\* BytestreamTunnelImpl throw, which the catch of readLoop turns into fail().
HandleOpenTunnelRsp ==
  /\ message.kind = "openTunnelRsp"
  /\ message' = None
  /\ LET t == message.id IN
     \/ /\ t \notin pendingTunnels
        /\ UNCHANGED <<createVars, tunnel, closeVars, acceptVars, channelVars, writeChain,
                       received, proxyVars>>
     \/ /\ t \in pendingTunnels /\ message.result = "noId"
        /\ Finish(handler, pendingTunnels \ {t})
     \/ /\ t \in pendingTunnels /\ message.result = "error"
        /\ pendingTunnels' = pendingTunnels \ {t}
        /\ created' = [created EXCEPT ![t] = "rejected"]
        /\ UNCHANGED <<create, tunnel, closeVars, acceptVars, channelVars, writeChain,
                       received, proxyVars>>
     \/ /\ t \in pendingTunnels /\ message.result = "ok"
        /\ pendingTunnels' = pendingTunnels \ {t}
        /\ created' = [created EXCEPT ![t] = "resolved"]
        /\ tunnel' = [tunnel EXCEPT ![t] = "open"]
        /\ UNCHANGED <<create, closeVars, acceptVars, channelVars, writeChain, received,
                       proxyVars>>

\* handleCloseTunnelRsp, solicited or not
HandleCloseTunnelRsp ==
  /\ message.kind = "closeTunnelRsp"
  /\ message' = None
  /\ CloseTunnels({message.id} \intersect OpenTunnels)
  /\ closeDone' = Settle(closeDone, {message.id} \intersect pendingCloses, "resolved")
  /\ closer' = ReturnClosers({message.id} \intersect pendingCloses)
  /\ pendingCloses' = pendingCloses \ {message.id}
  /\ UNCHANGED <<createVars, channelVars, writeChain, received, handler, proxyQueue,
                 activeProxyConnections>>

\* handleProxyConnReq up to its first await, given the handlers at that moment: the dial
\* for a tunnel that is open, the refusal for another one.
StartHandler(handlers, p) ==
  \/ /\ tunnel[TunnelOf[p]] = "open"
     /\ handler' = [handlers EXCEPT ![p] = "dialling"]
     /\ UNCHANGED writeChain
  \/ /\ tunnel[TunnelOf[p]] # "open" /\ ~closed
     /\ handler' = [handlers EXCEPT ![p] = "answering"]
     /\ Write("proxyConnError", p)
  \/ /\ tunnel[TunnelOf[p]] # "open" /\ closed
     /\ handler' = [handlers EXCEPT ![p] = "failed"]
     /\ UNCHANGED writeChain

\* dispatchProxyConnReq
BusyTooLate == activeProxyConnections > maxActiveProxyConnections
Busy == activeProxyConnections >= maxActiveProxyConnections
SlotTaken == activeProxyConnections + 1
HandleProxyConnReq ==
  /\ message.kind = "proxyConnReq"
  /\ message' = None
  /\ LET p == message.id
         full == Len(proxyQueue) >= maxQueuedProxyConnections
     IN
     \/ /\ ~Busy
        /\ activeProxyConnections' = SlotTaken
        /\ StartHandler(handler, p)
        /\ UNCHANGED <<createVars, tunnel, closeVars, acceptVars, channelVars, received,
                       socket, proxyQueue>>
     \/ /\ Busy /\ ~full
        /\ proxyQueue' = Append(proxyQueue, p)
        /\ handler' = [handler EXCEPT ![p] = "queued"]
        /\ UNCHANGED <<createVars, tunnel, closeVars, acceptVars, channelVars, writeChain,
                       received, socket, activeProxyConnections>>
     \/ /\ Busy /\ full /\ ~closed
        /\ Finish([handler EXCEPT ![p] = "dropped"], pendingTunnels)
     \/ /\ Busy /\ full /\ closed
        /\ handler' = [handler EXCEPT ![p] = "dropped"]
        /\ UNCHANGED <<createVars, tunnel, closeVars, acceptVars, channelVars, writeChain,
                       received, socket, proxyQueue, activeProxyConnections>>

\* handleMessage runs finish(), unless a callback closed the channel before.
HandleCloseControlChannelRsp ==
  /\ message.kind = "closeControlChannelRsp"
  /\ message' = None
  /\ \/ ~closed /\ Finish(handler, pendingTunnels)
     \/ closed /\ UNCHANGED <<createVars, tunnel, closeVars, acceptVars, channelVars,
                              writeChain, received, proxyVars>>

-----------------------------------------------------------------------------
(* Losing the channel *)

\* The TLS connection ends or fails; the reader has not seen it yet.
SocketBreaks ==
  /\ up
  /\ up' = FALSE
  /\ UNCHANGED <<createVars, tunnel, closeVars, acceptVars, shutdown, closing, closed,
                 message, writeChain, received, proxyVars>>

\* The catch of readLoop, once it handled every message read before the socket closed.
ReaderFails ==
  /\ ~up /\ ~closed /\ message = None
  /\ Finish(handler, pendingTunnels)
  /\ UNCHANGED message

\* fail() from the liveness timer, or from a heartbeat that cannot be sent or acknowledged
LivenessFails ==
  /\ ~closed
  /\ Finish(handler, pendingTunnels)
  /\ UNCHANGED message

-----------------------------------------------------------------------------
(* handleProxyConnReq after its first await, for stream p *)

\* What the catch does with a failed dial: nothing once closed, else it answers.
RefuseStream(p) ==
  \/ /\ closed
     /\ handler' = [handler EXCEPT ![p] = "ending"]
     /\ UNCHANGED writeChain
  \/ /\ ~closed
     /\ handler' = [handler EXCEPT ![p] = "answering"]
     /\ Write("proxyConnError", p)

\* dialEngine in openProxyConnection: the transport gives a TLS socket ...
DialConnects(p) ==
  /\ handler[p] = "dialling" /\ ~closed
  /\ handler' = [handler EXCEPT ![p] = "handshake"]
  /\ socket' = [socket EXCEPT ![p] = "open"]
  /\ UNCHANGED <<createVars, tunnel, closeVars, acceptVars, channelVars, message, writeChain,
                 received, proxyQueue, activeProxyConnections>>

\* ... or fails, as it must once finish() aborted the signal.
DialFails(p) ==
  /\ handler[p] = "dialling"
  /\ RefuseStream(p)
  /\ UNCHANGED <<createVars, tunnel, closeVars, acceptVars, channelVars, message, received,
                 socket, proxyQueue, activeProxyConnections>>

\* deliver() of an open tunnel, and AsyncQueue.push: the first waiter takes the socket.
Deliver(t, p) ==
  \/ /\ waiters[t] # <<>>
     /\ waiters' = [waiters EXCEPT ![t] = Tail(@)]
     /\ accept' = [accept EXCEPT ![<<t, Head(waiters[t])>>] = "served"]
     /\ socket' = [socket EXCEPT ![p] = "accepted"]
     /\ UNCHANGED values
  \/ /\ waiters[t] = <<>>
     /\ values' = [values EXCEPT ![t] = Append(@, p)]
     /\ socket' = [socket EXCEPT ![p] = "queued"]
     /\ UNCHANGED <<waiters, accept>>

\* The rest of openProxyConnection (ProxyReq, and ProxyRsp without 0-RTT) does not look at
\* the signal. On success the socket is delivered, unless the channel or tunnel closed.
ProxyOpens(p) ==
  /\ handler[p] = "handshake"
  /\ LET t == TunnelOf[p] IN
     \/ /\ closed
        /\ socket' = [socket EXCEPT ![p] = "destroyed"]
        /\ handler' = [handler EXCEPT ![p] = "ending"]
        /\ UNCHANGED <<acceptVars, writeChain>>
     \/ /\ ~closed /\ tunnel[t] = "closed"
        /\ socket' = [socket EXCEPT ![p] = "destroyed"]
        /\ handler' = [handler EXCEPT ![p] = "answering"]
        /\ Write("proxyConnClosed", p)
        /\ UNCHANGED acceptVars
     \/ /\ ~closed /\ tunnel[t] = "open"
        /\ Deliver(t, p)
        /\ handler' = [handler EXCEPT ![p] = "answering"]
        /\ Write("proxyConnOk", p)
  /\ UNCHANGED <<createVars, tunnel, closeVars, channelVars, message, received, proxyQueue,
                 activeProxyConnections>>

\* openProxyConnection fails after the dial and destroys its socket.
ProxyFailsLeaking(p) ==
  /\ handler[p] = "handshake"
  /\ RefuseStream(p)
  /\ UNCHANGED <<createVars, tunnel, closeVars, acceptVars, channelVars, message, received,
                 socket, proxyQueue, activeProxyConnections>>
ProxyFails(p) ==
  /\ handler[p] = "handshake"
  /\ socket' = [socket EXCEPT ![p] = "destroyed"]
  /\ RefuseStream(p)
  /\ UNCHANGED <<createVars, tunnel, closeVars, acceptVars, channelVars, message, received,
                 proxyQueue, activeProxyConnections>>

\* The catch of dispatchProxyConnReq: an answer that cannot be written fails the channel.
CatchHandler(p) ==
  /\ handler[p] = "failed"
  /\ \/ /\ ~closed
        /\ Finish([handler EXCEPT ![p] = "ending"], pendingTunnels)
     \/ /\ closed
        /\ handler' = [handler EXCEPT ![p] = "ending"]
        /\ UNCHANGED <<createVars, tunnel, closeVars, acceptVars, channelVars, writeChain,
                       received, socket, proxyQueue, activeProxyConnections>>
  /\ UNCHANGED message

\* The finally of dispatchProxyConnReq, with drainProxyQueue.
NeverDrains == FALSE
Drains == ~closed /\ proxyQueue # <<>>
EndHandler(p) ==
  /\ handler[p] = "ending"
  /\ LET handlers == [handler EXCEPT ![p] = "done"] IN
     \/ /\ ~Drains
        /\ activeProxyConnections' = activeProxyConnections - 1
        /\ handler' = handlers
        /\ UNCHANGED <<proxyQueue, writeChain>>
     \/ /\ Drains
        /\ proxyQueue' = Tail(proxyQueue)
        /\ StartHandler(handlers, Head(proxyQueue))
        /\ UNCHANGED activeProxyConnections
  /\ UNCHANGED <<createVars, tunnel, closeVars, acceptVars, channelVars, message, received, socket>>

-----------------------------------------------------------------------------
HandleMessage ==
  \/ HandleOpenTunnelRsp
  \/ HandleCloseTunnelRsp
  \/ HandleProxyConnReq
  \/ HandleCloseControlChannelRsp

Next ==
  \/ \E t \in Tunnels : CreateTunnel(t)
  \/ \E t \in Tunnels, a \in Tasks : CloseTunnel(t, a) \/ Accept(t, a) \/ AbortAccept(t, a)
  \/ \E a \in Tasks : Close(a)
  \/ WriteCompletes \/ WriteFails
  \/ \E m \in Messages : EngineSends(m)
  \/ HandleMessage
  \/ SocketBreaks \/ ReaderFails \/ LivenessFails
  \/ \E p \in Streams : \/ DialConnects(p) \/ DialFails(p)
                        \/ ProxyOpens(p) \/ ProxyFails(p)
                        \/ CatchHandler(p) \/ EndHandler(p)

Spec == Init /\ [][Next]_vars

-----------------------------------------------------------------------------
(* Fairness. The event loop runs every callback that is due; the engine and the proxy    *)
(* peers are assumed to answer what they were asked while their connection is up.        *)

EngineAnswersOpen(t) ==
  \E m \in Messages : m.kind = "openTunnelRsp" /\ m.id = t /\ EngineSends(m)
EngineAnswersClose(t) ==
  /\ Sent("closeTunnelReq", t)
  /\ \E m \in Messages : m.kind = "closeTunnelRsp" /\ m.id = t /\ EngineSends(m)
EngineAnswersShutdown ==
  \E m \in Messages : m.kind = "closeControlChannelRsp" /\ EngineSends(m)

Fairness ==
  /\ WF_vars(WriteCompletes \/ WriteFails)
  /\ WF_vars(HandleMessage)
  /\ WF_vars(ReaderFails)
  /\ \A p \in Streams : /\ WF_vars(DialConnects(p) \/ DialFails(p))
                        /\ WF_vars(ProxyOpens(p) \/ ProxyFails(p))
                        /\ WF_vars(CatchHandler(p))
                        /\ WF_vars(EndHandler(p))
  /\ \A t \in Tunnels : WF_vars(EngineAnswersOpen(t)) /\ WF_vars(EngineAnswersClose(t))
  /\ WF_vars(EngineAnswersShutdown)

FairSpec == Spec /\ Fairness

-----------------------------------------------------------------------------
(* Safety *)

Active == {p \in Streams : handler[p] \in {"dialling", "handshake", "answering", "failed", "ending"}}

\* The slots of the proxy pool: the counter counts the handlers in flight, never more than
\* the limit, and a request waits only while every slot is taken. A handler that ended in
\* any of its ways, also by throwing, has given its slot to the next request.
ProxySlots ==
  /\ activeProxyConnections = Cardinality(Active)
  /\ activeProxyConnections <= maxActiveProxyConnections
  /\ Len(proxyQueue) <= maxQueuedProxyConnections
  /\ ~closed /\ proxyQueue # <<>> => activeProxyConnections = maxActiveProxyConnections

\* No payload socket is without an owner: one that is open is in the hands of a handler
\* still in flight, one that waits for accept() waits in an open tunnel of an open channel.
SocketsOwned ==
  /\ \A p \in Streams : socket[p] = "open" <=> handler[p] = "handshake"
  /\ \A p \in Streams : socket[p] = "queued" =>
       /\ ~closed
       /\ tunnel[TunnelOf[p]] = "open"
       /\ \E i \in DOMAIN values[TunnelOf[p]] : values[TunnelOf[p]][i] = p
  /\ \A t \in Tunnels : \A i \in DOMAIN values[t] : socket[values[t][i]] = "queued"

\* A caller that waits for the channel is one the channel knows it must answer: no path of
\* the code forgets a createTunnel or close call, and finish() leaves none behind.
CallersAnswerable ==
  /\ \A t \in Tunnels : create[t] \in {"writing", "waiting"} /\ created[t] = "pending" =>
       t \in pendingTunnels /\ ~closed
  /\ \A c \in Tunnels \X Tasks : closer[c] = "waiting" => c[1] \in pendingCloses /\ ~closed
  /\ \A c \in Tunnels \X Tasks : accept[c] = "waiting" =>
       /\ tunnel[c[1]] = "open" /\ values[c[1]] = <<>>
       /\ \E i \in DOMAIN waiters[c[1]] : waiters[c[1]][i] = c[2]

\* Concurrent closes of one tunnel share one CloseTunnelReq.
ClosesCoalesced ==
  \A t \in Tunnels : \A i \in DOMAIN writeChain : writeChain[i] = Frame("closeTunnelReq", t) =>
    /\ Frame("closeTunnelReq", t) \notin received
    /\ \A j \in DOMAIN writeChain : writeChain[j] = writeChain[i] => i = j

\* What the engine is told of a stream is true: it is told success of a socket that was
\* delivered, failure of one that no application can hold, and never both.
Refusals(p) == {Frame("proxyConnClosed", p), Frame("proxyConnError", p)}
AnswersTruthful ==
  \A p \in Streams :
    /\ Frame("proxyConnOk", p) \in received =>
         /\ socket[p] \in {"queued", "accepted", "destroyed"}
         /\ Refusals(p) \intersect received = {}
    /\ Refusals(p) \intersect received # {} => socket[p] \in {"none", "destroyed"}

\* After the engine received CloseControlChannelReq it receives no OpenTunnelReq.
NoOpenAfterShutdown ==
  [][(\E a \in Tasks : Frame("closeControlChannelReq", a) \in received) =>
       \A t \in Tunnels : Frame("openTunnelReq", t) \in received' => Frame("openTunnelReq", t) \in received]_vars

\* A rejected promise has somebody awaiting it: Node ends the process on one that has not.
\* The creator of a tunnel awaits its promise only after its frame was written.
NoUnhandledRejection ==
  \A t \in Tunnels : created[t] = "rejected" => create[t] # "writing"

\* What became of a stream, as StreamAdmission sees it.
Outcome(s) ==
  CASE s \in {"none", "open"} -> "outside"
    [] s = "queued" -> "admitted"
    [] s = "accepted" -> "established"
    [] s = "destroyed" -> "ended"
Outcomes == [p \in Streams |-> Outcome(socket[p])]

\* The channel implements StreamAdmission: see there.
Admission == INSTANCE StreamAdmission WITH phase <- tunnel, line <- values, stream <- Outcomes
ImplementsAdmission == Admission!Spec

-----------------------------------------------------------------------------
(* Liveness *)

\* Every createTunnel call settles.
CreateSettles ==
  \A t \in Tunnels : create[t] = "writing" ~>
    \/ create[t] = "threw"
    \/ create[t] = "waiting" /\ created[t] # "pending"

\* Every tunnel.close() returns, and a close() of the channel is followed by its end.
ClosesReturn ==
  /\ \A c \in Tunnels \X Tasks : closer[c] \in {"writing", "waiting"} ~> closer[c] = "returned"
  /\ closing ~> closed

\* Whoever calls the channel gets an answer.
CallsSettle == CreateSettles /\ ClosesReturn

\* Once closed the channel lets go of everything: no handler keeps running and every socket
\* it opened was accepted or destroyed.
ShutdownDrains ==
  closed ~> /\ activeProxyConnections = 0 /\ writeChain = <<>>
            /\ \A p \in Streams : socket[p] \in {"none", "accepted", "destroyed"}

\* Every proxy request is answered, unless the channel closes first.
StreamsAnswered ==
  \A p \in Streams : handler[p] \in {"queued", "dialling"} ~> handler[p] = "done" \/ closed
=============================================================================
