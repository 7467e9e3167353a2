------------------------ MODULE ControlChannelProofs ------------------------
(* Proofs about the control channel, for any tunnels, tasks, streams and limits. *)
EXTENDS ControlChannel, TLAPS, FiniteSetTheorems, SequenceTheorems

HandlerStates == {"idle", "queued", "dropped", "dialling", "handshake", "answering",
                  "failed", "ending", "done"}
AnswerOps == {"proxyConnOk", "proxyConnClosed", "proxyConnError"}

-----------------------------------------------------------------------------
(* Type correctness *)

\* Frames: their fields, and what Write makes of the chain.
LEMMA FrameFields ==
  ASSUME NEW f \in Frames
  PROVE  /\ f = Frame(f.op, f.id)
         /\ f.op \in {"openTunnelReq", "closeTunnelReq", "closeControlChannelReq"} \union AnswerOps
         /\ f.op \in {"openTunnelReq", "closeTunnelReq"} => f.id \in Tunnels
         /\ f.op = "closeControlChannelReq" => f.id \in Tasks
         /\ f.op \in AnswerOps => f.id \in Streams
BY DEF Frames, Frame, AnswerOps

LEMMA HeadFrame ==
  ASSUME TypeOK, writeChain # <<>>
  PROVE  Head(writeChain) \in Frames /\ Tail(writeChain) \in Seq(Frames)
BY DEF TypeOK

LEMMA WriteType ==
  ASSUME TypeOK, NEW op, NEW id, Frame(op, id) \in Frames, Write(op, id)
  PROVE  writeChain' \in Seq(Frames)
BY DEF TypeOK, Write

LEMMA CloseTunnelsType ==
  ASSUME TypeOK, NEW ts \in SUBSET Tunnels, CloseTunnels(ts)
  PROVE  /\ tunnel' \in [Tunnels -> {"none", "open", "closed"}]
         /\ values' \in [Tunnels -> Seq(Streams)]
         /\ waiters' \in [Tunnels -> Seq(Tasks)]
         /\ socket' \in [Streams -> {"none", "open", "queued", "accepted", "destroyed"}]
         /\ accept' \in [Tunnels \X Tasks -> {"idle", "waiting", "served", "rejected"}]
<1>1. tunnel' \in [Tunnels -> {"none", "open", "closed"}]
  BY DEF CloseTunnels, TypeOK
<1>2. values' \in [Tunnels -> Seq(Streams)] /\ waiters' \in [Tunnels -> Seq(Tasks)]
  BY DEF CloseTunnels, TypeOK
<1>3. socket' \in [Streams -> {"none", "open", "queued", "accepted", "destroyed"}]
  BY DEF CloseTunnels, Disposed, TypeOK
<1>4. accept' \in [Tunnels \X Tasks -> {"idle", "waiting", "served", "rejected"}]
  BY DEF CloseTunnels, TypeOK
<1> QED
  BY <1>1, <1>2, <1>3, <1>4

LEMMA FinishType ==
  ASSUME TypeOK, NEW handlers \in [Streams -> HandlerStates], NEW pending \in SUBSET Tunnels,
         Finish(handlers, pending), message' \in Messages \union {None}
  PROVE  TypeOK'
<1>1. /\ tunnel' \in [Tunnels -> {"none", "open", "closed"}]
      /\ values' \in [Tunnels -> Seq(Streams)]
      /\ waiters' \in [Tunnels -> Seq(Tasks)]
      /\ socket' \in [Streams -> {"none", "open", "queued", "accepted", "destroyed"}]
      /\ accept' \in [Tunnels \X Tasks -> {"idle", "waiting", "served", "rejected"}]
  BY CloseTunnelsType DEF Finish, OpenTunnels
<1>2. handler' \in [Streams -> HandlerStates]
  BY DEF Finish, HandlerStates
<1>3. created' \in [Tunnels -> Promises] /\ closeDone' \in [Tunnels -> Promises]
  BY DEF Finish, Settle, TypeOK, Promises
<1>4. closer' \in [Tunnels \X Tasks -> {"idle", "writing", "waiting", "returned"}]
  BY DEF Finish, ReturnClosers, TypeOK
<1>5. closed' \in BOOLEAN /\ up' \in BOOLEAN /\ proxyQueue' \in Seq(Streams)
      /\ pendingTunnels' \subseteq Tunnels /\ pendingCloses' \subseteq Tunnels
  <2>1. <<>> \in Seq(Streams)
    OBVIOUS
  <2>2. closed' = TRUE /\ up' = FALSE /\ proxyQueue' = <<>> /\ pendingTunnels' = {} /\ pendingCloses' = {}
    BY DEF Finish
  <2> QED
    BY <2>1, <2>2
<1>6. UNCHANGED <<create, shutdown, closing, activeProxyConnections, writeChain, received>>
  BY DEF Finish
<1> QED
  BY <1>1, <1>2, <1>3, <1>4, <1>5, <1>6 DEF TypeOK, HandlerStates

LEMMA StartHandlerType ==
  ASSUME TypeOK, NEW handlers \in [Streams -> HandlerStates], NEW p \in Streams,
         StartHandler(handlers, p)
  PROVE  handler' \in [Streams -> HandlerStates] /\ writeChain' \in Seq(Frames)
<1>1. Frame("proxyConnError", p) \in Frames
  BY DEF Frame, Frames
<1>2. writeChain' \in Seq(Frames)
  BY <1>1, WriteType DEF StartHandler, TypeOK
<1>3. handler' \in [Streams -> HandlerStates]
  BY DEF StartHandler, HandlerStates
<1> QED
  BY <1>2, <1>3

LEMMA RefuseStreamType ==
  ASSUME TypeOK, NEW p \in Streams, RefuseStream(p)
  PROVE  handler' \in [Streams -> HandlerStates] /\ writeChain' \in Seq(Frames)
<1>1. Frame("proxyConnError", p) \in Frames
  BY DEF Frame, Frames
<1>2. writeChain' \in Seq(Frames)
  BY <1>1, WriteType DEF RefuseStream, TypeOK
<1>3. handler' \in [Streams -> HandlerStates]
  BY DEF RefuseStream, HandlerStates, TypeOK
<1> QED
  BY <1>2, <1>3

LEMMA InitTypeOK == Init => TypeOK
<1> SUFFICES ASSUME Init PROVE TypeOK
  OBVIOUS
<1>1. /\ create \in [Tunnels -> {"idle", "refused", "writing", "waiting", "threw"}]
      /\ created \in [Tunnels -> Promises] /\ closeDone \in [Tunnels -> Promises]
      /\ tunnel \in [Tunnels -> {"none", "open", "closed"}]
      /\ shutdown \in [Tasks -> {"idle", "writing", "waiting", "threw"}]
  BY DEF Init, Promises
<1>2. /\ closer \in [Tunnels \X Tasks -> {"idle", "writing", "waiting", "returned"}]
      /\ accept \in [Tunnels \X Tasks -> {"idle", "waiting", "served", "rejected"}]
  BY DEF Init
<1>3. /\ values \in [Tunnels -> Seq(Streams)] /\ waiters \in [Tunnels -> Seq(Tasks)]
      /\ writeChain \in Seq(Frames) /\ proxyQueue \in Seq(Streams)
  <2>1. <<>> \in Seq(Streams) /\ <<>> \in Seq(Tasks) /\ <<>> \in Seq(Frames)
    OBVIOUS
  <2> QED
    BY <2>1 DEF Init
<1>4. /\ handler \in [Streams -> HandlerStates]
      /\ socket \in [Streams -> {"none", "open", "queued", "accepted", "destroyed"}]
  BY DEF Init, HandlerStates
<1> QED
  BY <1>1, <1>2, <1>3, <1>4 DEF Init, TypeOK, HandlerStates

\* A counter of slots stays a natural number only because every handler that ends has one.
LEMMA StepTypeOK ==
  ASSUME TypeOK, \A p \in Streams : handler[p] = "ending" => activeProxyConnections > 0,
         [Next]_vars
  PROVE  TypeOK'
<1> USE ChannelAssumption
<1>1. ASSUME NEW t \in Tunnels, CreateTunnel(t) PROVE TypeOK'
  <2>1. Frame("openTunnelReq", t) \in Frames
    BY DEF Frame, Frames
  <2>2. writeChain' \in Seq(Frames)
    BY <1>1, <2>1, WriteType DEF CreateTunnel, TypeOK
  <2>3. create' \in [Tunnels -> {"idle", "refused", "writing", "waiting", "threw"}]
    <3>1. \E s \in {"refused", "writing"} : create' = [create EXCEPT ![t] = s]
      BY <1>1 DEF CreateTunnel
    <3> QED
      BY <3>1 DEF TypeOK
  <2>4. created' \in [Tunnels -> Promises] /\ pendingTunnels' \subseteq Tunnels
    <3>1. UNCHANGED created \/ created' = [created EXCEPT ![t] = "pending"]
      BY <1>1 DEF CreateTunnel
    <3>2. pendingTunnels' \in {pendingTunnels, pendingTunnels \union {t}}
      BY <1>1 DEF CreateTunnel
    <3>3. created \in [Tunnels -> Promises] /\ pendingTunnels \subseteq Tunnels
      BY DEF TypeOK
    <3>4. created' \in [Tunnels -> Promises]
      BY <3>1, <3>3 DEF Promises
    <3> QED
      BY <3>2, <3>3, <3>4
  <2>5. UNCHANGED <<tunnel, closeVars, acceptVars, channelVars, message, received, proxyVars>>
    BY <1>1 DEF CreateTunnel
  <2> QED
    BY <2>2, <2>3, <2>4, <2>5 DEF TypeOK, closeVars, acceptVars, channelVars, proxyVars
<1>2. ASSUME NEW t \in Tunnels, NEW a \in Tasks, CloseTunnel(t, a) PROVE TypeOK'
  <2>1. Frame("closeTunnelReq", t) \in Frames
    BY DEF Frame, Frames
  <2>2. writeChain' \in Seq(Frames)
    BY <1>2, <2>1, WriteType DEF CloseTunnel, TypeOK
  <2>3. closer' \in [Tunnels \X Tasks -> {"idle", "writing", "waiting", "returned"}]
    <3>1. \E s \in {"writing", "waiting", "returned"} : closer' = [closer EXCEPT ![<<t, a>>] = s]
      BY <1>2 DEF CloseTunnel
    <3> QED
      BY <3>1 DEF TypeOK
  <2>4. closeDone' \in [Tunnels -> Promises] /\ pendingCloses' \subseteq Tunnels
    BY <1>2 DEF CloseTunnel, TypeOK, Promises
  <2> QED
    BY <1>2, <2>2, <2>3, <2>4 DEF CloseTunnel, TypeOK, createVars, acceptVars, channelVars, proxyVars
<1>3. ASSUME NEW t \in Tunnels, NEW a \in Tasks, Accept(t, a) PROVE TypeOK'
  <2>0. values[t] \in Seq(Streams) /\ waiters[t] \in Seq(Tasks)
    BY DEF TypeOK
  <2>1. values' \in [Tunnels -> Seq(Streams)] /\ waiters' \in [Tunnels -> Seq(Tasks)]
    <3>1. Append(waiters[t], a) \in Seq(Tasks)
      BY <2>0
    <3>2. values[t] # <<>> => Tail(values[t]) \in Seq(Streams)
      BY <2>0
    <3>3. CASE values[t] # <<>>
      <4>1. values' = [values EXCEPT ![t] = Tail(values[t])] /\ UNCHANGED waiters
        BY <1>3, <3>3 DEF Accept
      <4> QED
        BY <3>2, <3>3, <4>1 DEF TypeOK
    <3>4. CASE values[t] = <<>>
      <4>1. \/ UNCHANGED waiters
            \/ waiters' = [waiters EXCEPT ![t] = Append(waiters[t], a)]
        BY <1>3, <3>4 DEF Accept
      <4>2. UNCHANGED values
        BY <1>3, <3>4 DEF Accept
      <4> QED
        BY <3>1, <4>1, <4>2 DEF TypeOK
    <3> QED
      BY <3>3, <3>4
  <2>2. accept' \in [Tunnels \X Tasks -> {"idle", "waiting", "served", "rejected"}]
    <3>1. \E s \in {"served", "waiting", "rejected"} : accept' = [accept EXCEPT ![<<t, a>>] = s]
      BY <1>3 DEF Accept
    <3> QED
      BY <3>1 DEF TypeOK
  <2>3. socket' \in [Streams -> {"none", "open", "queued", "accepted", "destroyed"}]
    <3>1. UNCHANGED socket \/ socket' = [socket EXCEPT ![Head(values[t])] = "accepted"]
      BY <1>3 DEF Accept
    <3> QED
      BY <3>1 DEF TypeOK
  <2> QED
    BY <1>3, <2>1, <2>2, <2>3 DEF Accept, TypeOK, createVars, closeVars, channelVars
<1>4. ASSUME NEW t \in Tunnels, NEW a \in Tasks, AbortAccept(t, a) PROVE TypeOK'
  <2>1. PICK i \in DOMAIN waiters[t] :
          waiters' = [waiters EXCEPT ![t] = SubSeq(@, 1, i - 1) \o SubSeq(@, i + 1, Len(@))]
    BY <1>4 DEF AbortAccept
  <2>2. waiters[t] \in Seq(Tasks) /\ i \in 1..Len(waiters[t])
    BY <2>1 DEF TypeOK
  <2>3. SubSeq(waiters[t], 1, i - 1) \in Seq(Tasks)
        /\ SubSeq(waiters[t], i + 1, Len(waiters[t])) \in Seq(Tasks)
    BY <2>2
  <2>4. waiters' \in [Tunnels -> Seq(Tasks)]
    BY <2>1, <2>3 DEF TypeOK
  <2> QED
    BY <1>4, <2>4 DEF AbortAccept, TypeOK, createVars, closeVars, channelVars, proxyVars
<1>5. ASSUME NEW a \in Tasks, Close(a) PROVE TypeOK'
  <2>1. Frame("closeControlChannelReq", a) \in Frames
    BY DEF Frame, Frames
  <2>2. writeChain' \in Seq(Frames)
    BY <1>5, <2>1, WriteType DEF Close, TypeOK
  <2> QED
    BY <1>5, <2>2 DEF Close, TypeOK, createVars, closeVars, acceptVars, proxyVars
<1>6. CASE WriteCompletes
  <2> DEFINE f == Head(writeChain)
  <2>1. f \in Frames /\ Tail(writeChain) \in Seq(Frames)
    BY <1>6, HeadFrame DEF WriteCompletes
  <2>2. /\ create' \in [Tunnels -> {"idle", "refused", "writing", "waiting", "threw"}]
        /\ shutdown' \in [Tasks -> {"idle", "writing", "waiting", "threw"}]
        /\ handler' \in [Streams -> HandlerStates]
    <3>1. UNCHANGED create \/ \E s \in {"waiting", "threw"} : create' = [create EXCEPT ![f.id] = s]
      BY <1>6 DEF WriteCompletes
    <3>2. UNCHANGED shutdown \/ \E s \in {"waiting", "threw"} : shutdown' = [shutdown EXCEPT ![f.id] = s]
      BY <1>6 DEF WriteCompletes
    <3>3. UNCHANGED handler \/ \E s \in {"ending", "failed"} : handler' = [handler EXCEPT ![f.id] = s]
      BY <1>6 DEF WriteCompletes
    <3>4. /\ create \in [Tunnels -> {"idle", "refused", "writing", "waiting", "threw"}]
          /\ shutdown \in [Tasks -> {"idle", "writing", "waiting", "threw"}]
          /\ handler \in [Streams -> HandlerStates]
      BY DEF TypeOK, HandlerStates
    <3>5. create' \in [Tunnels -> {"idle", "refused", "writing", "waiting", "threw"}]
      BY <3>1, <3>4
    <3>6. shutdown' \in [Tasks -> {"idle", "writing", "waiting", "threw"}]
      BY <3>2, <3>4
    <3>7. handler' \in [Streams -> HandlerStates]
      BY <3>3, <3>4 DEF HandlerStates
    <3> QED
      BY <3>5, <3>6, <3>7
  <2>3. closer' \in [Tunnels \X Tasks -> {"idle", "writing", "waiting", "returned"}]
    BY <1>6 DEF WriteCompletes, TypeOK
  <2>4. received' \subseteq Frames /\ writeChain' \in Seq(Frames)
    BY <1>6, <2>1 DEF WriteCompletes, TypeOK
  <2> QED
    BY <1>6, <2>2, <2>3, <2>4 DEF WriteCompletes, TypeOK, HandlerStates, acceptVars
<1>7. CASE WriteFails
  <2> DEFINE f == Head(writeChain)
  <2>1. f \in Frames /\ Tail(writeChain) \in Seq(Frames)
    BY <1>7, HeadFrame DEF WriteFails
  <2>2. /\ create' \in [Tunnels -> {"idle", "refused", "writing", "waiting", "threw"}]
        /\ shutdown' \in [Tasks -> {"idle", "writing", "waiting", "threw"}]
        /\ handler' \in [Streams -> HandlerStates]
    <3>1. UNCHANGED create \/ \E s \in {"waiting", "threw"} : create' = [create EXCEPT ![f.id] = s]
      BY <1>7 DEF WriteFails
    <3>2. UNCHANGED shutdown \/ \E s \in {"waiting", "threw"} : shutdown' = [shutdown EXCEPT ![f.id] = s]
      BY <1>7 DEF WriteFails
    <3>3. UNCHANGED handler \/ \E s \in {"ending", "failed"} : handler' = [handler EXCEPT ![f.id] = s]
      BY <1>7 DEF WriteFails
    <3>4. /\ create \in [Tunnels -> {"idle", "refused", "writing", "waiting", "threw"}]
          /\ shutdown \in [Tasks -> {"idle", "writing", "waiting", "threw"}]
          /\ handler \in [Streams -> HandlerStates]
      BY DEF TypeOK, HandlerStates
    <3>5. create' \in [Tunnels -> {"idle", "refused", "writing", "waiting", "threw"}]
      BY <3>1, <3>4
    <3>6. shutdown' \in [Tasks -> {"idle", "writing", "waiting", "threw"}]
      BY <3>2, <3>4
    <3>7. handler' \in [Streams -> HandlerStates]
      BY <3>3, <3>4 DEF HandlerStates
    <3> QED
      BY <3>5, <3>6, <3>7
  <2>3. closer' \in [Tunnels \X Tasks -> {"idle", "writing", "waiting", "returned"}]
    BY <1>7 DEF WriteFails, TypeOK, closeVars
  <2>4. writeChain' \in Seq(Frames)
    <3>1. f.op \in {"proxyConnOk", "proxyConnClosed"} => Frame("proxyConnError", f.id) \in Frames
      BY <2>1, FrameFields DEF Frame, Frames, AnswerOps
    <3> QED
      BY <1>7, <2>1, <3>1, SMTT(30) DEF WriteFails
  <2>5. closeDone' \in [Tunnels -> Promises]
    BY <1>7 DEF WriteFails, TypeOK, closeVars, Settle, Promises
  <2>6. pendingTunnels' \subseteq Tunnels /\ pendingCloses' \subseteq Tunnels
    BY <1>7 DEF WriteFails, TypeOK, closeVars
  <2> QED
    BY <1>7, <2>2, <2>3, <2>4, <2>5, <2>6 DEF WriteFails, TypeOK, HandlerStates, acceptVars
<1>8. ASSUME NEW m \in Messages, EngineSends(m) PROVE TypeOK'
  BY <1>8 DEF EngineSends, TypeOK, createVars, closeVars, acceptVars, channelVars, proxyVars
<1>9. CASE HandleOpenTunnelRsp
  <2>1. message.id \in Tunnels
    BY <1>9 DEF HandleOpenTunnelRsp, TypeOK, Messages, None
  <2>2. CASE UNCHANGED <<createVars, tunnel, closeVars, acceptVars, channelVars, writeChain,
                         received, proxyVars>>
    BY <1>9, <2>2 DEF HandleOpenTunnelRsp, TypeOK, createVars, closeVars, acceptVars,
         channelVars, proxyVars
  <2>3. CASE Finish(handler, pendingTunnels \ {message.id})
    BY <1>9, <2>3, FinishType DEF HandleOpenTunnelRsp, TypeOK, HandlerStates
  <2>4. CASE /\ \/ created' = [created EXCEPT ![message.id] = "rejected"] /\ UNCHANGED tunnel
                \/ /\ created' = [created EXCEPT ![message.id] = "resolved"]
                   /\ tunnel' = [tunnel EXCEPT ![message.id] = "open"]
             /\ pendingTunnels' = pendingTunnels \ {message.id}
             /\ UNCHANGED <<create, closeVars, acceptVars, channelVars, writeChain, received,
                            proxyVars>>
    <3>1. created' \in [Tunnels -> Promises] /\ tunnel' \in [Tunnels -> {"none", "open", "closed"}]
      <4>1. \E s \in {"rejected", "resolved"} : created' = [created EXCEPT ![message.id] = s]
        BY <2>4
      <4>2. UNCHANGED tunnel \/ tunnel' = [tunnel EXCEPT ![message.id] = "open"]
        BY <2>4
      <4>3. created \in [Tunnels -> Promises] /\ tunnel \in [Tunnels -> {"none", "open", "closed"}]
        BY DEF TypeOK
      <4>4. created' \in [Tunnels -> Promises]
        BY <4>1, <4>3 DEF Promises
      <4>5. tunnel' \in [Tunnels -> {"none", "open", "closed"}]
        BY <4>2, <4>3
      <4> QED
        BY <4>4, <4>5
    <3>2. message' = None
      BY <1>9 DEF HandleOpenTunnelRsp
    <3> QED
      BY <2>4, <3>1, <3>2 DEF TypeOK, closeVars, acceptVars, channelVars, proxyVars
  <2> QED
    BY <1>9, <2>2, <2>3, <2>4 DEF HandleOpenTunnelRsp
<1>10. CASE HandleCloseTunnelRsp
  <2> DEFINE ts == {message.id} \intersect OpenTunnels
  <2>1. /\ tunnel' \in [Tunnels -> {"none", "open", "closed"}]
        /\ values' \in [Tunnels -> Seq(Streams)]
        /\ waiters' \in [Tunnels -> Seq(Tasks)]
        /\ socket' \in [Streams -> {"none", "open", "queued", "accepted", "destroyed"}]
        /\ accept' \in [Tunnels \X Tasks -> {"idle", "waiting", "served", "rejected"}]
    <3>1. ts \in SUBSET Tunnels
      BY DEF OpenTunnels
    <3> QED
      BY <1>10, <3>1, CloseTunnelsType DEF HandleCloseTunnelRsp
  <2>2. closeDone' \in [Tunnels -> Promises]
    BY <1>10 DEF HandleCloseTunnelRsp, Settle, TypeOK, Promises
  <2>3. closer' \in [Tunnels \X Tasks -> {"idle", "writing", "waiting", "returned"}]
    BY <1>10 DEF HandleCloseTunnelRsp, ReturnClosers, TypeOK
  <2> QED
    BY <1>10, <2>1, <2>2, <2>3 DEF HandleCloseTunnelRsp, TypeOK, createVars, channelVars
<1>11. CASE HandleProxyConnReq
  <2> DEFINE p == message.id
  <2>1. p \in Streams
    BY <1>11 DEF HandleProxyConnReq, TypeOK, Messages, None
  <2>2. handler \in [Streams -> HandlerStates] /\ None \in Messages \union {None}
    BY DEF TypeOK, HandlerStates
  <2>3. CASE /\ activeProxyConnections' = SlotTaken /\ StartHandler(handler, p)
             /\ UNCHANGED <<createVars, tunnel, closeVars, acceptVars, channelVars, received,
                            socket, proxyQueue>>
    <3>1. handler' \in [Streams -> HandlerStates] /\ writeChain' \in Seq(Frames)
      BY <2>1, <2>2, <2>3, StartHandlerType
    <3> QED
      BY <1>11, <2>3, <3>1 DEF HandleProxyConnReq, SlotTaken, TypeOK, HandlerStates, createVars,
           closeVars, acceptVars, channelVars
  <2>4. CASE /\ handler' \in {[handler EXCEPT ![p] = "queued"], [handler EXCEPT ![p] = "dropped"]}
             /\ proxyQueue' \in {proxyQueue, Append(proxyQueue, p)}
             /\ UNCHANGED <<createVars, tunnel, closeVars, acceptVars, channelVars, writeChain,
                            received, socket, activeProxyConnections>>
    <3>1. handler' \in [Streams -> HandlerStates]
      BY <2>4 DEF TypeOK, HandlerStates
    <3>2. proxyQueue' \in Seq(Streams)
      <4>1. proxyQueue \in Seq(Streams)
        BY DEF TypeOK
      <4>2. Append(proxyQueue, p) \in Seq(Streams)
        BY <2>1, <4>1
      <4> HIDE DEF p
      <4> QED
        BY <2>4, <4>1, <4>2
    <3> QED
      BY <1>11, <2>4, <3>1, <3>2 DEF HandleProxyConnReq, TypeOK, HandlerStates, createVars, closeVars,
           acceptVars, channelVars
  <2>5. CASE Finish([handler EXCEPT ![p] = "dropped"], pendingTunnels)
    <3>1. [handler EXCEPT ![p] = "dropped"] \in [Streams -> HandlerStates]
      BY <2>2 DEF HandlerStates
    <3> QED
      BY <1>11, <2>5, <3>1, FinishType DEF HandleProxyConnReq, TypeOK
  <2> QED
    BY <1>11, <2>3, <2>4, <2>5 DEF HandleProxyConnReq
<1>12. CASE HandleCloseControlChannelRsp
  <2>1. CASE Finish(handler, pendingTunnels)
    BY <1>12, <2>1, FinishType DEF HandleCloseControlChannelRsp, TypeOK, HandlerStates
  <2>2. CASE UNCHANGED <<createVars, tunnel, closeVars, acceptVars, channelVars,
                         writeChain, received, proxyVars>>
    BY <1>12, <2>2 DEF HandleCloseControlChannelRsp, TypeOK, createVars, closeVars, acceptVars,
         channelVars, proxyVars
  <2> QED
    BY <1>12, <2>1, <2>2 DEF HandleCloseControlChannelRsp
<1>13. CASE SocketBreaks
  BY <1>13 DEF SocketBreaks, TypeOK, createVars, closeVars, acceptVars, proxyVars
<1>14. CASE ReaderFails \/ LivenessFails
  BY <1>14, FinishType DEF ReaderFails, LivenessFails, TypeOK, HandlerStates
<1>15. ASSUME NEW p \in Streams, DialConnects(p) PROVE TypeOK'
  BY <1>15 DEF DialConnects, TypeOK, createVars, closeVars, acceptVars, channelVars
<1>16. ASSUME NEW p \in Streams, DialFails(p) \/ ProxyFails(p) PROVE TypeOK'
  <2>1. handler' \in [Streams -> HandlerStates] /\ writeChain' \in Seq(Frames)
    BY <1>16, RefuseStreamType DEF DialFails, ProxyFails
  <2>2. socket' \in [Streams -> {"none", "open", "queued", "accepted", "destroyed"}]
    BY <1>16 DEF DialFails, ProxyFails, TypeOK
  <2> QED
    BY <1>16, <2>1, <2>2 DEF DialFails, ProxyFails, TypeOK, HandlerStates, createVars, closeVars,
         acceptVars, channelVars
<1>17. ASSUME NEW p \in Streams, ProxyOpens(p) PROVE TypeOK'
  <2> DEFINE t == TunnelOf[p]
  <2>1. t \in Tunnels
    OBVIOUS
  <2>2. writeChain' \in Seq(Frames)
    <3>1. Frame("proxyConnOk", p) \in Frames /\ Frame("proxyConnClosed", p) \in Frames
      BY DEF Frame, Frames
    <3> QED
      BY <1>17, <3>1, WriteType DEF ProxyOpens, TypeOK
  <2>3. handler' \in [Streams -> HandlerStates]
    <3>1. \E s \in {"ending", "answering"} : handler' = [handler EXCEPT ![p] = s]
      BY <1>17 DEF ProxyOpens
    <3> QED
      BY <3>1 DEF TypeOK, HandlerStates
  <2>4. socket' \in [Streams -> {"none", "open", "queued", "accepted", "destroyed"}]
    <3>1. \E s \in {"destroyed", "accepted", "queued"} : socket' = [socket EXCEPT ![p] = s]
      BY <1>17 DEF ProxyOpens, Deliver
    <3> QED
      BY <3>1 DEF TypeOK
  <2>5. /\ values' \in [Tunnels -> Seq(Streams)]
        /\ waiters' \in [Tunnels -> Seq(Tasks)]
        /\ accept' \in [Tunnels \X Tasks -> {"idle", "waiting", "served", "rejected"}]
    <3>1. CASE UNCHANGED acceptVars
      BY <3>1 DEF acceptVars, TypeOK
    <3>2. CASE Deliver(t, p)
      <4>1. values[t] \in Seq(Streams) /\ waiters[t] \in Seq(Tasks)
        BY <2>1 DEF TypeOK
      <4>2. Append(values[t], p) \in Seq(Streams)
        BY <4>1
      <4>3. waiters[t] # <<>> => Tail(waiters[t]) \in Seq(Tasks)
        BY <4>1
      <4>4. values' \in [Tunnels -> Seq(Streams)] /\ waiters' \in [Tunnels -> Seq(Tasks)]
        <5>1. UNCHANGED values \/ values' = [values EXCEPT ![t] = Append(values[t], p)]
          BY <3>2 DEF Deliver
        <5>2. \/ UNCHANGED waiters
              \/ waiters[t] # <<>> /\ waiters' = [waiters EXCEPT ![t] = Tail(waiters[t])]
          BY <3>2 DEF Deliver
        <5>3. values \in [Tunnels -> Seq(Streams)] /\ waiters \in [Tunnels -> Seq(Tasks)]
          BY DEF TypeOK
        <5>4. values' \in [Tunnels -> Seq(Streams)]
          BY <4>2, <5>1, <5>3
        <5>5. waiters' \in [Tunnels -> Seq(Tasks)]
          BY <4>3, <5>2, <5>3
        <5> QED
          BY <5>4, <5>5
      <4>5. UNCHANGED accept \/ accept' = [accept EXCEPT ![<<t, Head(waiters[t])>>] = "served"]
        BY <3>2 DEF Deliver
      <4>6. accept' \in [Tunnels \X Tasks -> {"idle", "waiting", "served", "rejected"}]
        BY <4>5 DEF TypeOK
      <4> QED
        BY <4>4, <4>6
    <3> QED
      BY <1>17, <3>1, <3>2 DEF ProxyOpens
  <2> QED
    BY <1>17, <2>2, <2>3, <2>4, <2>5 DEF ProxyOpens, TypeOK, HandlerStates, createVars, closeVars,
         channelVars
<1>18. ASSUME NEW p \in Streams, CatchHandler(p) PROVE TypeOK'
  <2>1. [handler EXCEPT ![p] = "ending"] \in [Streams -> HandlerStates]
    BY DEF TypeOK, HandlerStates
  <2>2. CASE Finish([handler EXCEPT ![p] = "ending"], pendingTunnels)
    BY <1>18, <2>1, <2>2, FinishType DEF CatchHandler, TypeOK
  <2>3. CASE /\ handler' = [handler EXCEPT ![p] = "ending"]
             /\ UNCHANGED <<createVars, tunnel, closeVars, acceptVars, channelVars, writeChain,
                            received, socket, proxyQueue, activeProxyConnections, message>>
    BY <2>1, <2>3 DEF TypeOK, HandlerStates, createVars, closeVars, acceptVars, channelVars
  <2> QED
    BY <1>18, <2>2, <2>3 DEF CatchHandler
<1>19. ASSUME NEW p \in Streams, EndHandler(p) PROVE TypeOK'
  <2> DEFINE handlers == [handler EXCEPT ![p] = "done"]
  <2>1. handlers \in [Streams -> HandlerStates]
    BY DEF TypeOK, HandlerStates
  <2>2. CASE /\ activeProxyConnections' = activeProxyConnections - 1 /\ handler' = handlers
             /\ UNCHANGED <<proxyQueue, writeChain>>
    <3>1. activeProxyConnections' \in Nat
      BY <1>19, <2>2 DEF EndHandler, TypeOK
    <3> QED
      BY <1>19, <2>1, <2>2, <3>1 DEF EndHandler, TypeOK, HandlerStates, createVars, closeVars,
           acceptVars, channelVars
  <2>3. CASE /\ proxyQueue # <<>> /\ proxyQueue' = Tail(proxyQueue)
             /\ StartHandler(handlers, Head(proxyQueue)) /\ UNCHANGED activeProxyConnections
    <3>1. Head(proxyQueue) \in Streams /\ Tail(proxyQueue) \in Seq(Streams)
      BY <2>3 DEF TypeOK
    <3>2. handler' \in [Streams -> HandlerStates] /\ writeChain' \in Seq(Frames)
      BY <2>1, <2>3, <3>1, StartHandlerType
    <3> QED
      BY <1>19, <2>3, <3>1, <3>2 DEF EndHandler, TypeOK, HandlerStates, createVars, closeVars,
           acceptVars, channelVars
  <2> QED
    BY <1>19, <2>2, <2>3 DEF EndHandler, Drains
<1>20. CASE UNCHANGED vars
  BY <1>20 DEF vars, TypeOK, createVars, closeVars, acceptVars, channelVars, proxyVars
<1> QED
  BY <1>1, <1>2, <1>3, <1>4, <1>5, <1>6, <1>7, <1>8, <1>9, <1>10, <1>11, <1>12, <1>13, <1>14,
     <1>15, <1>16, <1>17, <1>18, <1>19, <1>20 DEF Next, HandleMessage

-----------------------------------------------------------------------------
(* The slots of the proxy pool. The counter equals the number of handlers in flight      *)
(* because a frame that resumes a handler is in the chain once, while that handler waits *)
(* for it, because a queued request is queued once and not yet started, and because the  *)
(* engine's request names a stream that has no handler.                                  *)

AnswersInv ==
  \A i \in DOMAIN writeChain : writeChain[i].op \in AnswerOps =>
    /\ handler[writeChain[i].id] = "answering"
    /\ \A j \in DOMAIN writeChain :
         writeChain[j].op \in AnswerOps /\ writeChain[j].id = writeChain[i].id => i = j

QueueInv ==
  \A i \in DOMAIN proxyQueue :
    /\ handler[proxyQueue[i]] = "queued"
    /\ \A j \in DOMAIN proxyQueue : proxyQueue[i] = proxyQueue[j] => i = j

RequestInv == message.kind = "proxyConnReq" => handler[message.id] = "idle"

SlotsInv == TypeOK /\ AnswersInv /\ QueueInv /\ RequestInv /\ ProxySlots

ActiveStates == {"dialling", "handshake", "answering", "failed", "ending"}

LEMMA ActiveFinite == IsFiniteSet(Active) /\ Cardinality(Active) \in Nat
<1>1. IsFiniteSet(Active)
  BY ChannelAssumption, FS_Subset DEF Active
<1> QED
  BY <1>1, FS_CardinalityType

LEMMA EndingHasSlot ==
  ASSUME ProxySlots
  PROVE  \A p \in Streams : handler[p] = "ending" => activeProxyConnections > 0
<1> SUFFICES ASSUME NEW p \in Streams, handler[p] = "ending" PROVE activeProxyConnections > 0
  OBVIOUS
<1>1. p \in Active
  BY DEF Active
<1>2. Cardinality(Active) # 0
  BY <1>1, ActiveFinite, FS_EmptySet
<1> QED
  BY <1>2, ActiveFinite DEF ProxySlots

\* The handlers in flight stay the same, one more, one fewer.
LEMMA ActiveSame ==
  ASSUME \A p \in Streams : handler[p] \in ActiveStates <=> handler'[p] \in ActiveStates
  PROVE  Active' = Active
BY DEF Active, ActiveStates

LEMMA ActiveStarts ==
  ASSUME NEW p \in Streams, handler[p] \notin ActiveStates, handler'[p] \in ActiveStates,
         \A q \in Streams \ {p} : handler[q] \in ActiveStates <=> handler'[q] \in ActiveStates
  PROVE  Cardinality(Active') = Cardinality(Active) + 1
<1>1. Active' = Active \union {p} /\ p \notin Active
  BY DEF Active, ActiveStates
<1> QED
  BY <1>1, ActiveFinite, FS_AddElement

LEMMA ActiveEnds ==
  ASSUME NEW p \in Streams, handler[p] \in ActiveStates, handler'[p] \notin ActiveStates,
         \A q \in Streams \ {p} : handler[q] \in ActiveStates <=> handler'[q] \in ActiveStates
  PROVE  Cardinality(Active') = Cardinality(Active) - 1
<1>1. Active' = Active \ {p} /\ p \in Active
  BY DEF Active, ActiveStates
<1> QED
  BY <1>1, ActiveFinite, FS_RemoveElement

\* What the chain of frames needs when a frame is added or its first frame leaves it.
LEMMA OtherFrameWritten ==
  ASSUME TypeOK, AnswersInv, NEW op, NEW id, Write(op, id), op \notin AnswerOps, UNCHANGED handler
  PROVE  AnswersInv'
<1>1. writeChain \in Seq(Frames) /\ Frame(op, id).op = op
  BY DEF TypeOK, Frame
<1>2. /\ Len(writeChain') = Len(writeChain) + 1
      /\ \A i \in 1..Len(writeChain) : writeChain'[i] = writeChain[i]
      /\ writeChain'[Len(writeChain) + 1] = Frame(op, id)
      /\ DOMAIN writeChain' = 1..(Len(writeChain) + 1) /\ DOMAIN writeChain = 1..Len(writeChain)
  BY <1>1 DEF Write
<1>3. \A i \in DOMAIN writeChain' : writeChain'[i].op \in AnswerOps =>
        i \in DOMAIN writeChain /\ writeChain'[i] = writeChain[i]
  BY <1>1, <1>2
<1> QED
  BY <1>3 DEF AnswersInv

LEMMA AnswerWritten ==
  ASSUME TypeOK, AnswersInv, NEW op \in AnswerOps, NEW p \in Streams, Write(op, p),
         handler[p] # "answering", handler'[p] = "answering",
         \A q \in Streams : handler[q] = "answering" => handler'[q] = "answering"
  PROVE  AnswersInv'
<1>1. writeChain \in Seq(Frames) /\ Frame(op, p).op = op /\ Frame(op, p).id = p
  BY DEF TypeOK, Frame
<1>2. /\ \A i \in 1..Len(writeChain) : writeChain'[i] = writeChain[i]
      /\ writeChain'[Len(writeChain) + 1] = Frame(op, p)
      /\ DOMAIN writeChain' = 1..(Len(writeChain) + 1) /\ DOMAIN writeChain = 1..Len(writeChain)
      /\ Len(writeChain) \in Nat
  BY <1>1 DEF Write
<1>3. \A i \in DOMAIN writeChain : writeChain[i].op \in AnswerOps =>
        writeChain[i].id \in Streams /\ writeChain[i].id # p
  BY <1>1, FrameFields DEF AnswersInv
<1> QED
  BY <1>1, <1>2, <1>3 DEF AnswersInv

LEMMA FrameLeaves ==
  ASSUME TypeOK, AnswersInv, writeChain # <<>>, writeChain' = Tail(writeChain),
         \A q \in Streams : handler[q] = "answering" =>
           \/ handler'[q] = "answering"
           \/ Head(writeChain).op \in AnswerOps /\ Head(writeChain).id = q
  PROVE  AnswersInv'
<1>1. writeChain \in Seq(Frames)
  BY DEF TypeOK
<1>2. /\ Len(writeChain) \in Nat /\ Len(writeChain) >= 1 /\ Head(writeChain) = writeChain[1]
      /\ DOMAIN writeChain = 1..Len(writeChain) /\ DOMAIN writeChain' = 1..(Len(writeChain) - 1)
      /\ \A i \in 1..(Len(writeChain) - 1) : writeChain'[i] = writeChain[i + 1]
  BY <1>1
<1>3. \A i \in DOMAIN writeChain : writeChain[i].op \in AnswerOps => writeChain[i].id \in Streams
  BY <1>1, FrameFields
<1> SUFFICES ASSUME NEW i \in DOMAIN writeChain', writeChain'[i].op \in AnswerOps
             PROVE  /\ handler'[writeChain'[i].id] = "answering"
                    /\ \A j \in DOMAIN writeChain' :
                         writeChain'[j].op \in AnswerOps /\ writeChain'[j].id = writeChain'[i].id => i = j
  BY DEF AnswersInv
<1>4. i + 1 \in DOMAIN writeChain /\ 1 \in DOMAIN writeChain /\ i + 1 # 1
  BY <1>2
<1>5. handler[writeChain[i + 1].id] = "answering"
      /\ ~(writeChain[1].op \in AnswerOps /\ writeChain[1].id = writeChain[i + 1].id)
  BY <1>2, <1>4 DEF AnswersInv
<1>6. handler'[writeChain'[i].id] = "answering"
  BY <1>2, <1>3, <1>4, <1>5
<1>7. ASSUME NEW j \in DOMAIN writeChain', writeChain'[j].op \in AnswerOps,
             writeChain'[j].id = writeChain'[i].id
      PROVE  i = j
  <2>1. i + 1 = j + 1
    BY <1>2, <1>4, <1>7 DEF AnswersInv
  <2> QED
    BY <2>1, <1>2
<1> QED
  BY <1>6, <1>7

\* finish() empties the queue and drops its handlers; it ends no handler in flight.
LEMMA FinishSlots ==
  ASSUME SlotsInv, NEW handlers \in [Streams -> HandlerStates], NEW pending \in SUBSET Tunnels,
         Finish(handlers, pending), TypeOK',
         \/ message' = None
         \/ message' = message /\ \A q \in Streams : handler[q] = "idle" => handlers[q] = "idle",
         \A q \in Streams : handler[q] = "answering" => handlers[q] = "answering",
         \A q \in Streams : handler[q] \in ActiveStates <=> handlers[q] \in ActiveStates
  PROVE  SlotsInv'
<1>1. /\ handler' = [q \in Streams |-> IF handlers[q] = "queued" THEN "dropped" ELSE handlers[q]]
      /\ UNCHANGED <<writeChain, activeProxyConnections>>
      /\ proxyQueue' = <<>> /\ closed' = TRUE
  BY DEF Finish
<1>2. Active' = Active
  <2>1. \A q \in Streams : handlers[q] \in ActiveStates <=> handler'[q] \in ActiveStates
    BY <1>1 DEF ActiveStates
  <2> QED
    BY <2>1, ActiveSame
<1>3. AnswersInv'
  <2>1. \A i \in DOMAIN writeChain : writeChain[i].op \in AnswerOps => writeChain[i].id \in Streams
    BY FrameFields DEF SlotsInv, TypeOK
  <2> QED
    BY <1>1, <2>1 DEF SlotsInv, AnswersInv
<1>4. QueueInv'
  BY <1>1 DEF QueueInv
<1>5. RequestInv'
  <2>1. message \in Messages \union {None}
    BY DEF SlotsInv, TypeOK
  <2>2. message.kind = "proxyConnReq" => message.id \in Streams
    BY <2>1 DEF Messages, None
  <2> QED
    BY <1>1, <2>2 DEF SlotsInv, RequestInv, None
<1>6. ProxySlots'
  BY <1>1, <1>2, ChannelAssumption DEF SlotsInv, ProxySlots
<1> QED
  BY <1>3, <1>4, <1>5, <1>6 DEF SlotsInv

\* Nothing of the pool changes, or only frames that answer no stream are added.
LEMMA PoolUntouched ==
  ASSUME SlotsInv, TypeOK', UNCHANGED <<closed, proxyQueue, activeProxyConnections, handler>>,
         message' \in {message, None},
         UNCHANGED writeChain \/ \E op, id : op \notin AnswerOps /\ Write(op, id)
  PROVE  SlotsInv'
<1>1. AnswersInv'
  BY OtherFrameWritten DEF SlotsInv, AnswersInv
<1>2. RequestInv'
  BY DEF SlotsInv, RequestInv, None
<1>3. QueueInv' /\ ProxySlots'
  BY DEF SlotsInv, QueueInv, ProxySlots, Active
<1> QED
  BY <1>1, <1>2, <1>3 DEF SlotsInv

\* A handler in flight moves on and stays in flight.
LEMMA HandlerMoves ==
  ASSUME SlotsInv, TypeOK', AnswersInv', NEW p \in Streams, NEW s \in ActiveStates,
         handler[p] \in ActiveStates, handler' = [handler EXCEPT ![p] = s],
         UNCHANGED <<closed, proxyQueue, activeProxyConnections, message>>
  PROVE  SlotsInv'
<1>1. handler \in [Streams -> HandlerStates]
  BY DEF SlotsInv, TypeOK, HandlerStates
<1>2. Active' = Active
  BY <1>1, ActiveSame
<1>3. QueueInv'
  <2>1. \A i \in DOMAIN proxyQueue : proxyQueue[i] \in Streams
    BY DEF SlotsInv, TypeOK
  <2>2. \A q \in Streams : handler[q] = "queued" => handler'[q] = "queued"
    BY <1>1 DEF ActiveStates
  <2> QED
    BY <2>1, <2>2 DEF SlotsInv, QueueInv
<1>4. RequestInv'
  BY <1>1 DEF SlotsInv, RequestInv, ActiveStates
<1>5. ProxySlots'
  BY <1>2 DEF SlotsInv, ProxySlots
<1> QED
  BY <1>3, <1>4, <1>5 DEF SlotsInv

\* A handler starts for a stream that is queued or new, in a slot that is counted for it.
LEMMA HandlerStarts ==
  ASSUME SlotsInv, NEW p \in Streams, NEW handlers \in [Streams -> HandlerStates],
         handlers[p] \notin ActiveStates,
         \A q \in Streams : handler[q] = "answering" => handlers[q] = "answering",
         StartHandler(handlers, p)
  PROVE  /\ AnswersInv'
         /\ handler'[p] \in ActiveStates
         /\ \A q \in Streams \ {p} : handler'[q] = handlers[q]
<1>1. \E s \in {"dialling", "answering", "failed"} : handler' = [handlers EXCEPT ![p] = s]
  BY DEF StartHandler
<1>2. /\ handler'[p] \in ActiveStates
      /\ \A q \in Streams \ {p} : handler'[q] = handlers[q]
  BY <1>1 DEF ActiveStates
<1>3. handlers[p] # "answering" /\ handler[p] # "answering"
  BY DEF ActiveStates
<1>4. \A q \in Streams : handler[q] = "answering" => handler'[q] = "answering"
  BY <1>2, <1>3
<1>5. CASE UNCHANGED writeChain
  <2>1. \A i \in DOMAIN writeChain : writeChain[i].op \in AnswerOps => writeChain[i].id \in Streams
    BY FrameFields DEF SlotsInv, TypeOK
  <2> QED
    BY <1>2, <1>4, <1>5, <2>1 DEF SlotsInv, AnswersInv
<1>6. CASE Write("proxyConnError", p) /\ handler' = [handlers EXCEPT ![p] = "answering"]
  <2>1. handler'[p] = "answering" /\ "proxyConnError" \in AnswerOps
    BY <1>6 DEF AnswerOps
  <2>2. TypeOK /\ AnswersInv /\ Write("proxyConnError", p)
    BY <1>6 DEF SlotsInv
  <2> QED
    BY <1>2, <1>3, <1>4, <2>1, <2>2, AnswerWritten
<1>7. AnswersInv'
  BY <1>5, <1>6 DEF StartHandler
<1> QED
  BY <1>2, <1>7

LEMMA WriteSlots ==
  ASSUME SlotsInv, TypeOK', WriteCompletes \/ WriteFails
  PROVE  SlotsInv'
<1> DEFINE f == Head(writeChain)
<1>1. writeChain # <<>> /\ writeChain \in Seq(Frames)
  BY DEF WriteCompletes, WriteFails, SlotsInv, TypeOK
<1>2. f \in Frames /\ f = writeChain[1] /\ 1 \in DOMAIN writeChain
  BY <1>1
<1>3. f.op \in AnswerOps => f.id \in Streams /\ handler[f.id] = "answering"
  BY <1>2, FrameFields DEF SlotsInv, AnswersInv
<1>4. UNCHANGED <<closed, proxyQueue, activeProxyConnections, message>>
  BY DEF WriteCompletes, WriteFails
<1>5. CASE UNCHANGED handler /\ f.op \notin AnswerOps
  <2>1. writeChain' = Tail(writeChain)
    BY <1>5 DEF WriteCompletes, WriteFails, AnswerOps
  <2>2. AnswersInv'
    BY <1>1, <1>5, <2>1, FrameLeaves DEF SlotsInv
  <2> QED
    BY <1>4, <1>5, <2>2 DEF SlotsInv, QueueInv, RequestInv, ProxySlots, Active
<1>6. CASE /\ f.op \in AnswerOps /\ writeChain' = Tail(writeChain)
           /\ \E s \in {"ending", "failed"} : handler' = [handler EXCEPT ![f.id] = s]
  <2>1. handler \in [Streams -> HandlerStates]
    BY DEF SlotsInv, TypeOK, HandlerStates
  <2>2. \A q \in Streams : handler[q] = "answering" => handler'[q] = "answering" \/ f.id = q
    BY <1>3, <1>6, <2>1
  <2>3. AnswersInv'
    BY <1>1, <1>6, <2>2, FrameLeaves DEF SlotsInv
  <2>4. PICK s \in {"ending", "failed"} : handler' = [handler EXCEPT ![f.id] = s]
    BY <1>6
  <2>5. s \in ActiveStates /\ handler[f.id] \in ActiveStates /\ f.id \in Streams
    BY <1>3, <1>6 DEF ActiveStates
  <2> HIDE DEF f
  <2> QED
    BY <1>4, <2>3, <2>4, <2>5, HandlerMoves
<1>7. CASE /\ f.op \in AnswerOps /\ UNCHANGED handler
           /\ writeChain' = Append(Tail(writeChain), Frame("proxyConnError", f.id))
  <2>1. AnswersInv'
    <3> DEFINE n == Len(writeChain)
    <3>1. /\ n \in Nat /\ n >= 1 /\ DOMAIN writeChain = 1..n /\ DOMAIN writeChain' = 1..n
          /\ \A i \in 1..(n - 1) : writeChain'[i] = writeChain[i + 1]
          /\ writeChain'[n] = Frame("proxyConnError", f.id)
      BY <1>1, <1>7
    <3> HIDE DEF n, f
    <3>2. writeChain'[n].id = writeChain[1].id /\ writeChain[1].op \in AnswerOps
      BY <1>2, <1>7, <3>1 DEF Frame
    <3> DEFINE old(i) == IF i = n THEN 1 ELSE i + 1
    <3>3. \A i \in DOMAIN writeChain' : writeChain'[i].op \in AnswerOps =>
            /\ old(i) \in DOMAIN writeChain /\ writeChain[old(i)].op \in AnswerOps
            /\ writeChain'[i].id = writeChain[old(i)].id
      BY <3>1, <3>2
    <3>4. \A i, j \in 1..n : old(i) = old(j) => i = j
      <4>1. n \in Nat /\ n >= 1
        BY <3>1
      <4> QED
        BY <4>1
    <3> HIDE DEF old
    <3> QED
      BY <1>7, <3>1, <3>3, <3>4 DEF SlotsInv, AnswersInv
  <2> QED
    BY <1>4, <1>7, <2>1 DEF SlotsInv, QueueInv, RequestInv, ProxySlots, Active
<1>8. WriteCompletes => \/ UNCHANGED handler /\ f.op \notin AnswerOps
                        \/ /\ f.op \in AnswerOps /\ writeChain' = Tail(writeChain)
                           /\ handler' = [handler EXCEPT ![f.id] = "ending"]
  <2>1. ASSUME WriteCompletes, f.op \notin AnswerOps PROVE UNCHANGED handler
    BY <2>1 DEF WriteCompletes, AnswerOps
  <2>2. ASSUME WriteCompletes, f.op \in AnswerOps
        PROVE  handler' = [handler EXCEPT ![f.id] = "ending"]
    BY <2>2 DEF WriteCompletes, AnswerOps
  <2>3. WriteCompletes => writeChain' = Tail(writeChain)
    BY DEF WriteCompletes
  <2> QED
    BY <2>1, <2>2, <2>3
<1>9. WriteFails => \/ UNCHANGED handler /\ f.op \notin AnswerOps
                    \/ /\ f.op \in AnswerOps /\ writeChain' = Tail(writeChain)
                       /\ \E s \in {"ending", "failed"} : handler' = [handler EXCEPT ![f.id] = s]
                    \/ /\ f.op \in AnswerOps /\ UNCHANGED handler
                       /\ writeChain' = Append(Tail(writeChain), Frame("proxyConnError", f.id))
  BY DEF WriteFails, AnswerOps
<1> HIDE DEF f
<1> QED
  BY <1>5, <1>6, <1>7, <1>8, <1>9

\* A handler that must write its answer, or gives up because the channel is closed.
LEMMA RefuseSlots ==
  ASSUME SlotsInv, TypeOK', NEW p \in Streams, handler[p] \in {"dialling", "handshake"},
         RefuseStream(p), UNCHANGED <<closed, proxyQueue, activeProxyConnections, message>>
  PROVE  SlotsInv'
<1>1. AnswersInv'
  <2>1. CASE UNCHANGED writeChain /\ handler' = [handler EXCEPT ![p] = "ending"]
    <3>1. \A i \in DOMAIN writeChain : writeChain[i].op \in AnswerOps => writeChain[i].id \in Streams
      BY FrameFields DEF SlotsInv, TypeOK
    <3> QED
      BY <2>1, <3>1 DEF SlotsInv, AnswersInv, TypeOK
  <2>2. CASE Write("proxyConnError", p) /\ handler' = [handler EXCEPT ![p] = "answering"]
    <3>1. TypeOK /\ AnswersInv /\ "proxyConnError" \in AnswerOps
      BY DEF SlotsInv, AnswerOps
    <3>2. handler \in [Streams -> HandlerStates]
      BY DEF SlotsInv, TypeOK, HandlerStates
    <3>3. /\ handler[p] # "answering" /\ handler'[p] = "answering"
          /\ \A q \in Streams : handler[q] = "answering" => handler'[q] = "answering"
      BY <2>2, <3>2
    <3> QED
      BY <2>2, <3>1, <3>3, AnswerWritten
  <2> QED
    BY <2>1, <2>2 DEF RefuseStream
<1>2. \E s \in {"ending", "answering"} : handler' = [handler EXCEPT ![p] = s]
  BY DEF RefuseStream
<1>3. handler[p] \in ActiveStates /\ {"ending", "answering"} \subseteq ActiveStates
  BY DEF ActiveStates
<1> QED
  BY <1>1, <1>2, <1>3, HandlerMoves

\* The request starts a handler, waits in the queue, or overflows it.
LEMMA RequestSlots ==
  ASSUME SlotsInv, TypeOK', HandleProxyConnReq
  PROVE  SlotsInv'
<1> DEFINE p == message.id
<1> USE ChannelAssumption
<1>1. p \in Streams /\ handler[p] = "idle"
  BY DEF HandleProxyConnReq, SlotsInv, TypeOK, RequestInv, Messages, None
<1>2. handler \in [Streams -> HandlerStates] /\ message' = None
  BY DEF SlotsInv, TypeOK, HandlerStates, HandleProxyConnReq
<1>3. RequestInv'
  BY <1>2 DEF RequestInv, None
<1>4. \A i \in DOMAIN proxyQueue : proxyQueue[i] \in Streams /\ proxyQueue[i] # p
  BY <1>1, SMTT(30) DEF SlotsInv, TypeOK, QueueInv
<1> HIDE DEF p
<1>5. ASSUME ~Busy, activeProxyConnections' = SlotTaken, StartHandler(handler, p),
             UNCHANGED <<channelVars, proxyQueue>>
      PROVE  SlotsInv'
  <2>1. handler[p] \notin ActiveStates
    BY <1>1 DEF ActiveStates
  <2>2. /\ AnswersInv' /\ handler'[p] \in ActiveStates
        /\ \A q \in Streams \ {p} : handler'[q] = handler[q]
    BY <1>1, <1>2, <1>5, <2>1, HandlerStarts
  <2>3. QueueInv'
    BY <1>4, <1>5, <2>2 DEF SlotsInv, QueueInv
  <2>4. Cardinality(Active') = Cardinality(Active) + 1
    BY <1>1, <2>1, <2>2, ActiveStarts
  <2>5. ProxySlots'
    BY <1>5, <2>4 DEF SlotsInv, ProxySlots, TypeOK, Busy, SlotTaken, channelVars
  <2> QED
    BY <1>3, <2>2, <2>3, <2>5 DEF SlotsInv
<1>6. ASSUME handler' = [handler EXCEPT ![p] = "queued"] \/ handler' = [handler EXCEPT ![p] = "dropped"]
      PROVE  Active' = Active
  BY <1>1, <1>2, <1>6, ActiveSame DEF ActiveStates
<1>7. ASSUME handler' = [handler EXCEPT ![p] = "queued"] \/ handler' = [handler EXCEPT ![p] = "dropped"],
             UNCHANGED writeChain
      PROVE  AnswersInv'
  <2>1. \A i \in DOMAIN writeChain : writeChain[i].op \in AnswerOps => writeChain[i].id \in Streams
    BY FrameFields DEF SlotsInv, TypeOK
  <2> QED
    BY <1>1, <1>2, <1>7, <2>1 DEF SlotsInv, AnswersInv
<1>8. ASSUME Busy, Len(proxyQueue) < maxQueuedProxyConnections,
             proxyQueue' = Append(proxyQueue, p), handler' = [handler EXCEPT ![p] = "queued"],
             UNCHANGED <<channelVars, writeChain, activeProxyConnections>>
      PROVE  SlotsInv'
  <2>1. proxyQueue \in Seq(Streams)
    BY DEF SlotsInv, TypeOK
  <2>2. /\ Len(proxyQueue) \in Nat /\ DOMAIN proxyQueue = 1..Len(proxyQueue)
        /\ Len(proxyQueue') = Len(proxyQueue) + 1
        /\ DOMAIN proxyQueue' = 1..(Len(proxyQueue) + 1)
        /\ proxyQueue'[Len(proxyQueue) + 1] = p
        /\ \A i \in 1..Len(proxyQueue) : proxyQueue'[i] = proxyQueue[i]
    BY <1>1, <1>8, <2>1
  <2>3. QueueInv'
    BY <1>1, <1>2, <1>4, <1>8, <2>2 DEF SlotsInv, QueueInv
  <2>4. ProxySlots'
    BY <1>6, <1>8, <2>2 DEF SlotsInv, ProxySlots, Busy, channelVars, TypeOK
  <2> QED
    BY <1>3, <1>7, <1>8, <2>3, <2>4 DEF SlotsInv
<1>9. ASSUME handler' = [handler EXCEPT ![p] = "dropped"],
             UNCHANGED <<channelVars, writeChain, proxyQueue, activeProxyConnections>>
      PROVE  SlotsInv'
  <2>1. QueueInv'
    BY <1>2, <1>4, <1>9 DEF SlotsInv, QueueInv
  <2>2. ProxySlots'
    BY <1>6, <1>9 DEF SlotsInv, ProxySlots, channelVars
  <2> QED
    BY <1>3, <1>7, <1>9, <2>1, <2>2 DEF SlotsInv
<1>10. ASSUME Finish([handler EXCEPT ![p] = "dropped"], pendingTunnels)
       PROVE  SlotsInv'
  <2> DEFINE handlers == [handler EXCEPT ![p] = "dropped"]
  <2>1. /\ handlers \in [Streams -> HandlerStates]
        /\ \A q \in Streams : handler[q] = "answering" => handlers[q] = "answering"
        /\ \A q \in Streams : handler[q] \in ActiveStates <=> handlers[q] \in ActiveStates
    BY <1>1, <1>2 DEF ActiveStates, HandlerStates
  <2>2. pendingTunnels \in SUBSET Tunnels
    BY DEF SlotsInv, TypeOK
  <2> HIDE DEF handlers
  <2>3. Finish(handlers, pendingTunnels)
    BY <1>10 DEF handlers
  <2> QED
    BY <1>2, <2>1, <2>2, <2>3, FinishSlots
<1> QED
  <2>1. \/ /\ ~Busy /\ activeProxyConnections' = SlotTaken /\ StartHandler(handler, p)
           /\ UNCHANGED <<channelVars, proxyQueue>>
        \/ /\ Busy /\ ~(Len(proxyQueue) >= maxQueuedProxyConnections)
           /\ proxyQueue' = Append(proxyQueue, p) /\ handler' = [handler EXCEPT ![p] = "queued"]
           /\ UNCHANGED <<channelVars, writeChain, activeProxyConnections>>
        \/ /\ handler' = [handler EXCEPT ![p] = "dropped"]
           /\ UNCHANGED <<channelVars, writeChain, proxyQueue, activeProxyConnections>>
        \/ Finish([handler EXCEPT ![p] = "dropped"], pendingTunnels)
    BY DEF HandleProxyConnReq, p
  <2>2. Len(proxyQueue) \in Nat
    BY DEF SlotsInv, TypeOK
  <2> QED
    BY <1>5, <1>8, <1>9, <1>10, <2>1, <2>2

\* The slot of a handler that ends goes to the first request in the queue.
LEMMA EndSlots ==
  ASSUME SlotsInv, TypeOK', NEW p \in Streams, EndHandler(p)
  PROVE  SlotsInv'
<1> DEFINE handlers == [handler EXCEPT ![p] = "done"]
<1> USE ChannelAssumption
<1>1. handler \in [Streams -> HandlerStates] /\ handler[p] = "ending" /\ handler[p] \in ActiveStates
  BY DEF SlotsInv, TypeOK, HandlerStates, EndHandler, ActiveStates
<1>2. /\ handlers \in [Streams -> HandlerStates] /\ handlers[p] = "done"
      /\ \A q \in Streams \ {p} : handlers[q] = handler[q]
  BY <1>1 DEF HandlerStates
<1>3. UNCHANGED <<closed, message>>
  BY DEF EndHandler, channelVars
<1>4. \A i \in DOMAIN proxyQueue : proxyQueue[i] \in Streams /\ proxyQueue[i] # p
  BY <1>1 DEF SlotsInv, TypeOK, QueueInv
<1>5. message.kind = "proxyConnReq" => message.id \in Streams
  BY DEF SlotsInv, TypeOK, Messages, None
<1>6. \A i \in DOMAIN writeChain : writeChain[i].op \in AnswerOps => writeChain[i].id \in Streams
  BY FrameFields DEF SlotsInv, TypeOK
<1> HIDE DEF handlers
<1>7. ASSUME ~Drains, activeProxyConnections' = activeProxyConnections - 1, handler' = handlers,
             UNCHANGED <<proxyQueue, writeChain>>
      PROVE  SlotsInv'
  <2>1. AnswersInv'
    BY <1>1, <1>2, <1>6, <1>7 DEF SlotsInv, AnswersInv
  <2>2. QueueInv'
    BY <1>2, <1>4, <1>7 DEF SlotsInv, QueueInv
  <2>3. RequestInv'
    BY <1>1, <1>2, <1>3, <1>5, <1>7 DEF SlotsInv, RequestInv
  <2>4. Cardinality(Active') = Cardinality(Active) - 1
    <3>1. handler'[p] \notin ActiveStates
      BY <1>2, <1>7 DEF ActiveStates
    <3> QED
      BY <1>1, <1>2, <1>7, <3>1, ActiveEnds
  <2>5. ProxySlots'
    BY <1>3, <1>7, <2>4 DEF SlotsInv, ProxySlots, TypeOK, Drains
  <2> QED
    BY <2>1, <2>2, <2>3, <2>5 DEF SlotsInv
<1>8. ASSUME Drains, proxyQueue' = Tail(proxyQueue), StartHandler(handlers, Head(proxyQueue)),
             UNCHANGED activeProxyConnections
      PROVE  SlotsInv'
  <2> DEFINE h == Head(proxyQueue)
  <2>1. proxyQueue \in Seq(Streams) /\ proxyQueue # <<>>
    BY <1>8 DEF SlotsInv, TypeOK, Drains
  <2>2. /\ Len(proxyQueue) \in Nat /\ Len(proxyQueue) >= 1 /\ h = proxyQueue[1]
        /\ DOMAIN proxyQueue = 1..Len(proxyQueue)
        /\ Len(proxyQueue') = Len(proxyQueue) - 1
        /\ DOMAIN proxyQueue' = 1..(Len(proxyQueue) - 1)
        /\ \A i \in 1..(Len(proxyQueue) - 1) : proxyQueue'[i] = proxyQueue[i + 1]
    BY <1>8, <2>1
  <2>3. h \in Streams /\ h # p /\ handler[h] = "queued" /\ handlers[h] = "queued"
    BY <1>2, <1>4, <2>2 DEF SlotsInv, QueueInv
  <2> HIDE DEF h
  <2>4. /\ AnswersInv' /\ handler'[h] \in ActiveStates
        /\ \A q \in Streams \ {h} : handler'[q] = handlers[q]
    <3>1. handlers[h] \notin ActiveStates
      BY <2>3 DEF ActiveStates
    <3>2. \A q \in Streams : handler[q] = "answering" => handlers[q] = "answering"
      BY <1>1, <1>2
    <3>3. StartHandler(handlers, h)
      BY <1>8 DEF h
    <3> QED
      BY <1>2, <2>3, <3>1, <3>2, <3>3, HandlerStarts
  <2>5. QueueInv'
    <3>1. \A i \in 1..(Len(proxyQueue) - 1) : i + 1 \in DOMAIN proxyQueue /\ proxyQueue[i + 1] # h
      BY <2>2 DEF SlotsInv, QueueInv
    <3>2. \A i \in 1..(Len(proxyQueue) - 1) : handler'[proxyQueue[i + 1]] = "queued"
      <4>1. \A i \in DOMAIN proxyQueue : handler[proxyQueue[i]] = "queued"
        BY DEF SlotsInv, QueueInv
      <4> QED
        BY <1>2, <1>4, <2>4, <3>1, <4>1
    <3>3. \A i, j \in 1..(Len(proxyQueue) - 1) : proxyQueue[i + 1] = proxyQueue[j + 1] => i = j
      <4>1. \A i, j \in DOMAIN proxyQueue : proxyQueue[i] = proxyQueue[j] => i = j
        BY DEF SlotsInv, QueueInv
      <4> QED
        BY <2>2, <3>1, <4>1
    <3> QED
      BY <2>2, <3>2, <3>3 DEF QueueInv
  <2>6. RequestInv'
    BY <1>1, <1>2, <1>3, <1>5, <2>3, <2>4 DEF SlotsInv, RequestInv
  <2>7. Cardinality(Active') = Cardinality(Active)
    <3>1. Active' = (Active \ {p}) \union {h} /\ p \in Active /\ h \notin Active
      BY <1>1, <1>2, <2>3, <2>4 DEF Active, ActiveStates
    <3>2. Cardinality(Active \ {p}) = Cardinality(Active) - 1
      BY <3>1, ActiveFinite, FS_RemoveElement
    <3>3. IsFiniteSet(Active \ {p}) /\ h \notin Active \ {p}
      BY <3>1, ActiveFinite, FS_RemoveElement
    <3>4. Cardinality(Active') = Cardinality(Active \ {p}) + 1
      BY <3>1, <3>3, FS_AddElement
    <3> QED
      BY <3>2, <3>4, ActiveFinite
  <2>8. ProxySlots'
    <3>1. activeProxyConnections = maxActiveProxyConnections
      BY <1>8 DEF SlotsInv, ProxySlots, Drains
    <3> QED
      BY <1>8, <2>2, <2>7, <3>1 DEF SlotsInv, ProxySlots
  <2> QED
    BY <2>4, <2>5, <2>6, <2>8 DEF SlotsInv
<1> QED
  BY <1>7, <1>8 DEF EndHandler, handlers

LEMMA InitSlotsInv == Init => SlotsInv
<1> SUFFICES ASSUME Init PROVE SlotsInv
  OBVIOUS
<1>1. AnswersInv /\ QueueInv /\ RequestInv
  BY DEF Init, AnswersInv, QueueInv, RequestInv, None
<1>2. ProxySlots
  <2>1. Active = {}
    BY DEF Init, Active
  <2> QED
    BY <2>1, FS_EmptySet, ChannelAssumption DEF Init, ProxySlots
<1> QED
  BY <1>1, <1>2, InitTypeOK DEF SlotsInv

LEMMA StepSlotsInv == SlotsInv /\ [Next]_vars => SlotsInv'
<1> SUFFICES ASSUME SlotsInv, [Next]_vars PROVE SlotsInv'
  OBVIOUS
<1>0. TypeOK'
  BY StepTypeOK, EndingHasSlot DEF SlotsInv
<1>1. handler \in [Streams -> HandlerStates] /\ pendingTunnels \in SUBSET Tunnels
  BY DEF SlotsInv, TypeOK, HandlerStates
<1>2. ASSUME NEW t \in Tunnels, CreateTunnel(t) PROVE SlotsInv'
  <2>1. UNCHANGED writeChain \/ Write("openTunnelReq", t)
    BY <1>2 DEF CreateTunnel
  <2> QED
    BY <1>0, <1>2, <2>1, PoolUntouched DEF CreateTunnel, AnswerOps, channelVars, proxyVars
<1>3. ASSUME NEW t \in Tunnels, NEW a \in Tasks, CloseTunnel(t, a) PROVE SlotsInv'
  <2>1. UNCHANGED writeChain \/ Write("closeTunnelReq", t)
    BY <1>3 DEF CloseTunnel
  <2> QED
    BY <1>0, <1>3, <2>1, PoolUntouched DEF CloseTunnel, AnswerOps, channelVars, proxyVars
<1>4. ASSUME NEW t \in Tunnels, NEW a \in Tasks, Accept(t, a) \/ AbortAccept(t, a) PROVE SlotsInv'
  BY <1>0, <1>4, PoolUntouched DEF Accept, AbortAccept, channelVars, proxyVars
<1>5. ASSUME NEW a \in Tasks, Close(a) PROVE SlotsInv'
  <2>1. UNCHANGED writeChain \/ Write("closeControlChannelReq", a)
    BY <1>5 DEF Close
  <2> QED
    BY <1>0, <1>5, <2>1, PoolUntouched DEF Close, AnswerOps, proxyVars
<1>6. CASE WriteCompletes \/ WriteFails
  BY <1>0, <1>6, WriteSlots
<1>7. ASSUME NEW m \in Messages, EngineSends(m) PROVE SlotsInv'
  <2>1. /\ UNCHANGED <<closed, handler, writeChain, proxyQueue, activeProxyConnections>>
        /\ message' = m
        /\ m.kind = "proxyConnReq" => handler[m.id] = "idle"
    BY <1>7 DEF EngineSends, channelVars, proxyVars, Messages
  <2>2. RequestInv'
    BY <2>1 DEF RequestInv
  <2>3. AnswersInv' /\ QueueInv'
    BY <2>1 DEF SlotsInv, AnswersInv, QueueInv
  <2>4. ProxySlots'
    BY <2>1 DEF SlotsInv, ProxySlots, Active
  <2> QED
    BY <1>0, <2>2, <2>3, <2>4 DEF SlotsInv
<1>8. ASSUME NEW pending \in SUBSET Tunnels, Finish(handler, pending), message' \in {message, None}
      PROVE  SlotsInv'
  BY <1>0, <1>1, <1>8, FinishSlots
<1>9. CASE HandleOpenTunnelRsp
  <2>1. \/ Finish(handler, pendingTunnels \ {message.id})
        \/ UNCHANGED <<channelVars, writeChain, proxyVars>>
    BY <1>9 DEF HandleOpenTunnelRsp
  <2>2. message' = None
    BY <1>9 DEF HandleOpenTunnelRsp
  <2>3. pendingTunnels \ {message.id} \in SUBSET Tunnels
    BY <1>1
  <2> QED
    BY <1>0, <1>8, <2>1, <2>2, <2>3, PoolUntouched DEF channelVars, proxyVars
<1>10. CASE HandleCloseTunnelRsp
  BY <1>0, <1>10, PoolUntouched DEF HandleCloseTunnelRsp, channelVars
<1>11. CASE HandleProxyConnReq
  BY <1>0, <1>11, RequestSlots
<1>12. CASE HandleCloseControlChannelRsp
  <2>1. \/ Finish(handler, pendingTunnels)
        \/ UNCHANGED <<channelVars, writeChain, proxyVars>>
    BY <1>12 DEF HandleCloseControlChannelRsp
  <2>2. message' = None
    BY <1>12 DEF HandleCloseControlChannelRsp
  <2> QED
    BY <1>0, <1>1, <1>8, <2>1, <2>2, PoolUntouched DEF channelVars, proxyVars
<1>13. CASE SocketBreaks
  BY <1>0, <1>13, PoolUntouched DEF SocketBreaks, proxyVars
<1>14. CASE ReaderFails \/ LivenessFails
  BY <1>1, <1>8, <1>14 DEF ReaderFails, LivenessFails
<1>15. ASSUME NEW p \in Streams, DialConnects(p) PROVE SlotsInv'
  <2>1. AnswersInv'
    <3>1. \A i \in DOMAIN writeChain : writeChain[i].op \in AnswerOps => writeChain[i].id \in Streams
      BY FrameFields DEF SlotsInv, TypeOK
    <3> QED
      BY <1>1, <1>15, <3>1 DEF DialConnects, SlotsInv, AnswersInv
  <2>2. handler[p] \in ActiveStates /\ "handshake" \in ActiveStates
    BY <1>15 DEF DialConnects, ActiveStates
  <2> QED
    BY <1>0, <1>15, <2>1, <2>2, HandlerMoves DEF DialConnects, channelVars
<1>16. ASSUME NEW p \in Streams, DialFails(p) \/ ProxyFails(p) PROVE SlotsInv'
  BY <1>0, <1>16, RefuseSlots DEF DialFails, ProxyFails, channelVars
<1>17. ASSUME NEW p \in Streams, ProxyOpens(p) PROVE SlotsInv'
  <2>1. \/ UNCHANGED writeChain /\ handler' = [handler EXCEPT ![p] = "ending"]
        \/ /\ handler' = [handler EXCEPT ![p] = "answering"]
           /\ \E op \in AnswerOps : Write(op, p)
    BY <1>17 DEF ProxyOpens, AnswerOps
  <2>2. handler[p] = "handshake" /\ UNCHANGED <<closed, proxyQueue, activeProxyConnections, message>>
    BY <1>17 DEF ProxyOpens, channelVars
  <2>3. AnswersInv'
    <3>1. CASE UNCHANGED writeChain /\ handler' = [handler EXCEPT ![p] = "ending"]
      <4>1. \A i \in DOMAIN writeChain : writeChain[i].op \in AnswerOps => writeChain[i].id \in Streams
        BY FrameFields DEF SlotsInv, TypeOK
      <4> QED
        BY <1>1, <2>2, <3>1, <4>1 DEF SlotsInv, AnswersInv
    <3>2. CASE /\ handler' = [handler EXCEPT ![p] = "answering"]
               /\ \E op \in AnswerOps : Write(op, p)
      <4>1. /\ handler[p] # "answering" /\ handler'[p] = "answering"
            /\ \A q \in Streams : handler[q] = "answering" => handler'[q] = "answering"
        BY <1>1, <2>2, <3>2
      <4>2. TypeOK /\ AnswersInv
        BY DEF SlotsInv
      <4> QED
        BY <3>2, <4>1, <4>2, AnswerWritten
    <3> QED
      BY <2>1, <3>1, <3>2
  <2>4. \E s \in {"ending", "answering"} : handler' = [handler EXCEPT ![p] = s]
    BY <2>1
  <2>5. handler[p] \in ActiveStates /\ {"ending", "answering"} \subseteq ActiveStates
    BY <2>2 DEF ActiveStates
  <2> QED
    BY <1>0, <2>2, <2>3, <2>4, <2>5, HandlerMoves
<1>18. ASSUME NEW p \in Streams, CatchHandler(p) PROVE SlotsInv'
  <2> DEFINE handlers == [handler EXCEPT ![p] = "ending"]
  <2>1. handler[p] = "failed" /\ UNCHANGED message
    BY <1>18 DEF CatchHandler
  <2>2. /\ handlers \in [Streams -> HandlerStates] /\ handlers[p] = "ending"
        /\ \A q \in Streams \ {p} : handlers[q] = handler[q]
    BY <1>1 DEF HandlerStates
  <2> HIDE DEF handlers
  <2>3. CASE Finish(handlers, pendingTunnels)
    <3>1. /\ \A q \in Streams : handler[q] = "answering" => handlers[q] = "answering"
          /\ \A q \in Streams : handler[q] = "idle" => handlers[q] = "idle"
          /\ \A q \in Streams : handler[q] \in ActiveStates <=> handlers[q] \in ActiveStates
      BY <2>1, <2>2 DEF ActiveStates
    <3> QED
      BY <1>0, <1>1, <2>1, <2>2, <2>3, <3>1, FinishSlots
  <2>4. CASE /\ handler' = handlers
             /\ UNCHANGED <<channelVars, writeChain, proxyQueue, activeProxyConnections>>
    <3>1. AnswersInv'
      <4>1. \A i \in DOMAIN writeChain : writeChain[i].op \in AnswerOps => writeChain[i].id \in Streams
        BY FrameFields DEF SlotsInv, TypeOK
      <4> QED
        BY <2>1, <2>2, <2>4, <4>1 DEF SlotsInv, AnswersInv
    <3>2. handler[p] \in ActiveStates /\ "ending" \in ActiveStates
      BY <2>1 DEF ActiveStates
    <3> QED
      BY <1>0, <2>1, <2>4, <3>1, <3>2, HandlerMoves DEF handlers, channelVars
  <2> QED
    BY <1>18, <2>3, <2>4 DEF CatchHandler, handlers
<1>19. ASSUME NEW p \in Streams, EndHandler(p) PROVE SlotsInv'
  BY <1>0, <1>19, EndSlots
<1>20. CASE UNCHANGED vars
  BY <1>0, <1>20, PoolUntouched DEF vars, channelVars, proxyVars
<1> QED
  BY <1>2, <1>3, <1>4, <1>5, <1>6, <1>7, <1>9, <1>10, <1>11, <1>12, <1>13, <1>14, <1>15, <1>16,
     <1>17, <1>18, <1>19, <1>20 DEF Next, HandleMessage

LEMMA SpecSlotsInv == Spec => []SlotsInv
BY InitSlotsInv, StepSlotsInv, PTL DEF Spec

\* The variables of the channel keep their types; in particular the counter of proxy
\* connections never becomes negative.
THEOREM TypeCorrect == Spec => []TypeOK
BY SpecSlotsInv, PTL DEF SlotsInv

\* The counter of proxy connections counts the handlers in flight, stays within its limit
\* and leaves no request waiting beside a free slot, for every limit and number of streams.
THEOREM SlotsCounted == Spec => []ProxySlots
BY SpecSlotsInv, PTL DEF SlotsInv

-----------------------------------------------------------------------------
(* Payload sockets: each has an owner, and the channel implements StreamAdmission *)

Early == {"idle", "queued", "dropped", "dialling"}
SocketStates == {"none", "open", "queued", "accepted", "destroyed"}

\* A handler has an open socket during its handshake only, and none before the dial ended.
HandshakeInv ==
  \A p \in Streams : /\ socket[p] = "open" <=> handler[p] = "handshake"
                     /\ handler[p] \in Early => socket[p] = "none"

\* A queue holds queued sockets of its tunnel, each once, and only while the tunnel is open
\* and nobody waits.
LineInv ==
  \A t \in Tunnels :
    /\ values[t] # <<>> => tunnel[t] = "open" /\ waiters[t] = <<>>
    /\ \A i \in DOMAIN values[t] : TunnelOf[values[t][i]] = t /\ socket[values[t][i]] = "queued"
    /\ \A i, j \in DOMAIN values[t] : values[t][i] = values[t][j] => i = j

\* A queued socket is in the queue of its tunnel.
WaitInv ==
  \A p \in Streams : socket[p] = "queued" =>
    \E i \in DOMAIN values[TunnelOf[p]] : values[TunnelOf[p]][i] = p

\* A tunnel opens once, and never on a closed channel.
OpeningInv ==
  /\ \A t \in pendingTunnels : create[t] # "idle" /\ tunnel[t] = "none" /\ ~closed
  /\ \A t \in Tunnels : create[t] = "idle" => tunnel[t] = "none"
  /\ \A t \in Tunnels : closed => tunnel[t] # "open"

SocketsInv == SlotsInv /\ HandshakeInv /\ LineInv /\ WaitInv /\ OpeningInv

LEMMA OwnedFromInv == SocketsInv => SocketsOwned
<1> SUFFICES ASSUME SocketsInv PROVE SocketsOwned
  OBVIOUS
<1> USE ChannelAssumption
<1>1. \A p \in Streams : socket[p] = "open" <=> handler[p] = "handshake"
  BY DEF SocketsInv, HandshakeInv
<1>2. ASSUME NEW p \in Streams, socket[p] = "queued"
      PROVE  /\ ~closed /\ tunnel[TunnelOf[p]] = "open"
             /\ \E i \in DOMAIN values[TunnelOf[p]] : values[TunnelOf[p]][i] = p
  <2>1. TunnelOf[p] \in Tunnels
    OBVIOUS
  <2>2. PICK i \in DOMAIN values[TunnelOf[p]] : values[TunnelOf[p]][i] = p
    BY <1>2 DEF SocketsInv, WaitInv
  <2>3. values[TunnelOf[p]] # <<>>
    BY <2>2
  <2>4. tunnel[TunnelOf[p]] = "open"
    BY <2>1, <2>3 DEF SocketsInv, LineInv
  <2> QED
    BY <2>1, <2>2, <2>4 DEF SocketsInv, OpeningInv
<1>3. \A t \in Tunnels : \A i \in DOMAIN values[t] : socket[values[t][i]] = "queued"
  BY DEF SocketsInv, LineInv
<1> QED
  BY <1>1, <1>2, <1>3 DEF SocketsOwned

LEMMA InitSocketsInv == Init => SocketsInv
<1> SUFFICES ASSUME Init PROVE SocketsInv
  OBVIOUS
<1>1. HandshakeInv /\ WaitInv /\ OpeningInv
  BY DEF Init, HandshakeInv, WaitInv, OpeningInv
<1>2. LineInv
  BY DEF Init, LineInv
<1> QED
  BY <1>1, <1>2, InitSlotsInv DEF SocketsInv

-----------------------------------------------------------------------------
(* Steps that share their effect on sockets *)

\* The handlers move without starting or ending a handshake, and no socket changes.
LEMMA HandshakesStay ==
  ASSUME HandshakeInv, UNCHANGED socket,
         \A q \in Streams : handler'[q] = "handshake" <=> handler[q] = "handshake",
         \A q \in Streams : handler'[q] \in Early => handler[q] \in Early
  PROVE  HandshakeInv'
BY DEF HandshakeInv

\* No socket, queue or tunnel changes.
LEMMA LinesStay ==
  ASSUME LineInv, WaitInv, UNCHANGED <<socket, values, tunnel>>,
         \A t \in Tunnels : values[t] # <<>> => waiters'[t] = waiters[t]
  PROVE  LineInv' /\ WaitInv'
BY DEF LineInv, WaitInv

\* The tunnels ts close. The handlers may move as above.
LEMMA LinesClose ==
  ASSUME TypeOK, HandshakeInv, LineInv, WaitInv, NEW ts \in SUBSET Tunnels, CloseTunnels(ts),
         \A q \in Streams : handler'[q] = "handshake" <=> handler[q] = "handshake",
         \A q \in Streams : handler'[q] \in Early => handler[q] \in Early
  PROVE  HandshakeInv' /\ LineInv' /\ WaitInv'
<1> USE ChannelAssumption
<1>1. socket' = [p \in Streams |->
        IF TunnelOf[p] \in ts /\ socket[p] = "queued" THEN "destroyed" ELSE socket[p]]
  BY DEF CloseTunnels, Disposed
<1>2. \A t \in Tunnels : /\ values'[t] = IF t \in ts THEN <<>> ELSE values[t]
                         /\ waiters'[t] = IF t \in ts THEN <<>> ELSE waiters[t]
                         /\ tunnel'[t] = IF t \in ts THEN "closed" ELSE tunnel[t]
  BY DEF CloseTunnels
<1>3. HandshakeInv'
  BY <1>1 DEF HandshakeInv, Early
<1>4. LineInv'
  <2> SUFFICES ASSUME NEW t \in Tunnels
      PROVE  /\ values'[t] # <<>> => tunnel'[t] = "open" /\ waiters'[t] = <<>>
             /\ \A i \in DOMAIN values'[t] :
                  TunnelOf[values'[t][i]] = t /\ socket'[values'[t][i]] = "queued"
             /\ \A i, j \in DOMAIN values'[t] : values'[t][i] = values'[t][j] => i = j
    BY DEF LineInv
  <2>1. CASE t \in ts
    BY <1>2, <2>1
  <2>2. CASE t \notin ts
    <3>1. \A i \in DOMAIN values[t] : values[t][i] \in Streams
      BY DEF TypeOK
    <3> QED
      BY <1>1, <1>2, <2>2, <3>1 DEF LineInv
  <2> QED
    BY <2>1, <2>2
<1>5. WaitInv'
  <2> SUFFICES ASSUME NEW p \in Streams, socket'[p] = "queued"
      PROVE  \E i \in DOMAIN values'[TunnelOf[p]] : values'[TunnelOf[p]][i] = p
    BY DEF WaitInv
  <2>1. socket[p] = "queued" /\ TunnelOf[p] \notin ts /\ TunnelOf[p] \in Tunnels
    BY <1>1
  <2> QED
    BY <1>2, <2>1 DEF WaitInv
<1> QED
  BY <1>3, <1>4, <1>5

LEMMA FinishSockets ==
  ASSUME SocketsInv, NEW handlers \in [Streams -> HandlerStates], NEW pending,
         Finish(handlers, pending),
         \A q \in Streams : handlers[q] = "handshake" <=> handler[q] = "handshake",
         \A q \in Streams : handlers[q] \in Early => handler[q] \in Early
  PROVE  HandshakeInv' /\ LineInv' /\ WaitInv' /\ OpeningInv'
<1>1. handler' = [p \in Streams |-> IF handlers[p] = "queued" THEN "dropped" ELSE handlers[p]]
  BY DEF Finish
<1>2. /\ \A q \in Streams : handler'[q] = "handshake" <=> handler[q] = "handshake"
      /\ \A q \in Streams : handler'[q] \in Early => handler[q] \in Early
  BY <1>1 DEF Early
<1>3. CloseTunnels(OpenTunnels) /\ OpenTunnels \in SUBSET Tunnels /\ TypeOK
  BY DEF Finish, OpenTunnels, SocketsInv, SlotsInv
<1>4. HandshakeInv' /\ LineInv' /\ WaitInv'
  BY <1>2, <1>3, LinesClose DEF SocketsInv
<1>5. OpeningInv'
  <2>1. pendingTunnels' = {} /\ UNCHANGED create
    BY DEF Finish
  <2>2. \A t \in Tunnels : tunnel'[t] = IF tunnel[t] = "open" THEN "closed" ELSE tunnel[t]
    BY <1>3 DEF CloseTunnels, OpenTunnels
  <2> QED
    BY <2>1, <2>2 DEF SocketsInv, OpeningInv
<1> QED
  BY <1>4, <1>5

\* What the steps below need of a handler that starts: it had no socket yet.
LEMMA StartHandshakes ==
  ASSUME NEW p \in Streams, NEW handlers \in [Streams -> HandlerStates],
         handlers[p] \in Early, StartHandler(handlers, p)
  PROVE  \A q \in Streams : /\ handler'[q] = "handshake" <=> handlers[q] = "handshake"
                            /\ handler'[q] \in Early => handlers[q] \in Early
<1>1. \E s \in {"dialling", "answering", "failed"} : handler' = [handlers EXCEPT ![p] = s]
  BY DEF StartHandler
<1> QED
  BY <1>1 DEF Early

-----------------------------------------------------------------------------
(* Steps that move a socket *)

LEMMA AcceptSockets ==
  ASSUME SocketsInv, NEW t \in Tunnels, NEW a \in Tasks, Accept(t, a)
  PROVE  HandshakeInv' /\ LineInv' /\ WaitInv'
<1> USE ChannelAssumption
<1>1. UNCHANGED <<handler, tunnel>>
  BY DEF Accept
<1>2. values[t] \in Seq(Streams)
  BY DEF SocketsInv, SlotsInv, TypeOK
<1>3. CASE values[t] # <<>>
  <2> DEFINE h == Head(values[t])
             n == Len(values[t])
  <2>1. /\ n \in Nat /\ n >= 1 /\ h = values[t][1] /\ h \in Streams /\ DOMAIN values[t] = 1..n
        /\ values'[t] = Tail(values[t])
        /\ DOMAIN values'[t] = 1..(n - 1)
        /\ \A i \in 1..(n - 1) : values'[t][i] = values[t][i + 1]
    <3>1. values'[t] = Tail(values[t])
      BY <1>3 DEF Accept, SocketsInv, SlotsInv, TypeOK
    <3> QED
      BY <1>2, <1>3, <3>1
  <2>2. /\ \A u \in Tunnels \ {t} : values'[u] = values[u]
        /\ socket' = [socket EXCEPT ![h] = "accepted"]
        /\ UNCHANGED waiters
    BY <1>3 DEF Accept, SocketsInv, SlotsInv, TypeOK
  <2> HIDE DEF h, n
  <2>3. socket[h] = "queued" /\ TunnelOf[h] = t
    BY <2>1 DEF SocketsInv, LineInv
  <2>4. /\ socket'[h] = "accepted"
        /\ \A q \in Streams \ {h} : socket'[q] = socket[q]
    BY <2>1, <2>2 DEF SocketsInv, SlotsInv, TypeOK
  <2>5. HandshakeInv'
    BY <1>1, <2>1, <2>3, <2>4 DEF SocketsInv, HandshakeInv
  <2>6. LineInv'
    <3> SUFFICES ASSUME NEW u \in Tunnels
        PROVE  /\ values'[u] # <<>> => tunnel'[u] = "open" /\ waiters'[u] = <<>>
               /\ \A i \in DOMAIN values'[u] :
                    TunnelOf[values'[u][i]] = u /\ socket'[values'[u][i]] = "queued"
               /\ \A i, j \in DOMAIN values'[u] : values'[u][i] = values'[u][j] => i = j
      BY DEF LineInv
    <3>1. CASE u = t
      <4>1. tunnel'[t] = "open" /\ waiters'[t] = <<>>
        BY <1>1, <1>3, <2>2 DEF SocketsInv, LineInv
      <4>2. \A i \in 1..(n - 1) : i + 1 \in 1..n /\ values[t][i + 1] # h /\ values[t][i + 1] \in Streams
        BY <1>2, <2>1 DEF SocketsInv, LineInv
      <4>3. \A i \in 1..(n - 1) : TunnelOf[values[t][i + 1]] = t /\ socket[values[t][i + 1]] = "queued"
        BY <2>1, <4>2 DEF SocketsInv, LineInv
      <4>4. \A i, j \in 1..(n - 1) : values[t][i + 1] = values[t][j + 1] => i = j
        <5>1. \A i, j \in 1..n : values[t][i] = values[t][j] => i = j
          BY <2>1 DEF SocketsInv, LineInv
        <5> QED
          BY <2>1, <4>2, <5>1
      <4>5. \A i \in DOMAIN values'[t] : TunnelOf[values'[t][i]] = t /\ socket'[values'[t][i]] = "queued"
        <5> SUFFICES ASSUME NEW i \in 1..(n - 1)
            PROVE  TunnelOf[values'[t][i]] = t /\ socket'[values'[t][i]] = "queued"
          BY <2>1
        <5>1. values'[t][i] = values[t][i + 1]
          BY <2>1
        <5>2. values[t][i + 1] \in Streams \ {h}
          BY <4>2
        <5> QED
          BY <2>4, <4>3, <5>1, <5>2
      <4>6. \A i, j \in DOMAIN values'[t] : values'[t][i] = values'[t][j] => i = j
        BY <2>1, <4>4
      <4> QED
        BY <3>1, <4>1, <4>5, <4>6
    <3>2. CASE u # t
      <4>1. \A i \in DOMAIN values[u] : values[u][i] \in Streams /\ values[u][i] # h
        BY <2>3, <3>2 DEF SocketsInv, SlotsInv, TypeOK, LineInv
      <4> QED
        BY <1>1, <2>2, <2>4, <3>2, <4>1 DEF SocketsInv, LineInv
    <3> QED
      BY <3>1, <3>2
  <2>7. WaitInv'
    <3> SUFFICES ASSUME NEW p \in Streams, socket'[p] = "queued"
        PROVE  \E i \in DOMAIN values'[TunnelOf[p]] : values'[TunnelOf[p]][i] = p
      BY DEF WaitInv
    <3>1. p # h /\ socket[p] = "queued"
      BY <2>4
    <3>2. PICK i \in DOMAIN values[TunnelOf[p]] : values[TunnelOf[p]][i] = p
      BY <3>1 DEF SocketsInv, WaitInv
    <3>3. CASE TunnelOf[p] = t
      <4>1. i \in 1..n /\ i # 1
        BY <2>1, <3>1, <3>2, <3>3
      <4>2. i - 1 \in 1..(n - 1) /\ (i - 1) + 1 = i
        BY <2>1, <4>1
      <4> QED
        BY <2>1, <3>2, <3>3, <4>2
    <3>4. CASE TunnelOf[p] # t
      BY <2>2, <3>2, <3>4
    <3> QED
      BY <3>3, <3>4
  <2> QED
    BY <2>5, <2>6, <2>7
<1>4. CASE values[t] = <<>>
  <2>1. UNCHANGED <<values, socket>>
    BY <1>4 DEF Accept
  <2>2. \A u \in Tunnels : values[u] # <<>> => waiters'[u] = waiters[u]
    BY <1>4 DEF Accept, SocketsInv, SlotsInv, TypeOK
  <2>3. LineInv' /\ WaitInv'
    BY <1>1, <2>1, <2>2, LinesStay DEF SocketsInv
  <2>4. HandshakeInv'
    BY <1>1, <2>1 DEF SocketsInv, HandshakeInv
  <2> QED
    BY <2>3, <2>4
<1> QED
  BY <1>3, <1>4

LEMMA DeliverSockets ==
  ASSUME SocketsInv, NEW p \in Streams, handler[p] = "handshake", tunnel[TunnelOf[p]] = "open",
         Deliver(TunnelOf[p], p), UNCHANGED tunnel,
         handler' = [handler EXCEPT ![p] = "answering"]
  PROVE  HandshakeInv' /\ LineInv' /\ WaitInv'
<1> DEFINE t == TunnelOf[p]
<1> USE ChannelAssumption
<1>1. t \in Tunnels /\ socket[p] = "open" /\ values[t] \in Seq(Streams)
  BY DEF SocketsInv, SlotsInv, TypeOK, HandshakeInv
<1>2. /\ handler'[p] = "answering" /\ "answering" \notin Early
      /\ \A q \in Streams \ {p} : handler'[q] = handler[q]
  BY DEF SocketsInv, SlotsInv, TypeOK, Early
<1>3. \A u \in Tunnels : \A i \in DOMAIN values[u] : values[u][i] \in Streams /\ values[u][i] # p
  BY <1>1 DEF SocketsInv, SlotsInv, TypeOK, LineInv
<1> HIDE DEF t
<1>4. CASE /\ waiters[t] # <<>> /\ waiters' = [waiters EXCEPT ![t] = Tail(@)]
           /\ socket' = [socket EXCEPT ![p] = "accepted"] /\ UNCHANGED values
  <2>1. /\ socket'[p] = "accepted"
        /\ \A q \in Streams \ {p} : socket'[q] = socket[q]
    BY <1>4 DEF SocketsInv, SlotsInv, TypeOK
  <2>2. \A u \in Tunnels : values[u] # <<>> => waiters'[u] = waiters[u]
    BY <1>4 DEF SocketsInv, SlotsInv, TypeOK, LineInv
  <2>3. HandshakeInv'
    BY <1>2, <2>1 DEF SocketsInv, HandshakeInv
  <2>4. LineInv'
    BY <1>3, <1>4, <2>1, <2>2 DEF SocketsInv, LineInv
  <2>5. WaitInv'
    BY <1>4, <2>1 DEF SocketsInv, WaitInv
  <2> QED
    BY <2>3, <2>4, <2>5
<1>5. CASE /\ waiters[t] = <<>> /\ UNCHANGED waiters
           /\ values' = [values EXCEPT ![t] = Append(@, p)]
           /\ socket' = [socket EXCEPT ![p] = "queued"]
  <2> DEFINE n == Len(values[t])
  <2>1. /\ n \in Nat /\ DOMAIN values[t] = 1..n
        /\ DOMAIN values'[t] = 1..(n + 1)
        /\ values'[t][n + 1] = p
        /\ \A i \in 1..n : values'[t][i] = values[t][i]
    <3>1. values'[t] = Append(values[t], p)
      BY <1>1, <1>5 DEF SocketsInv, SlotsInv, TypeOK
    <3> QED
      BY <1>1, <3>1
  <2>2. \A u \in Tunnels \ {t} : values'[u] = values[u]
    BY <1>5 DEF SocketsInv, SlotsInv, TypeOK
  <2> HIDE DEF n
  <2>3. /\ socket'[p] = "queued"
        /\ \A q \in Streams \ {p} : socket'[q] = socket[q]
    BY <1>5 DEF SocketsInv, SlotsInv, TypeOK
  <2>4. HandshakeInv'
    BY <1>2, <2>3 DEF SocketsInv, HandshakeInv
  <2>5. LineInv'
    <3> SUFFICES ASSUME NEW u \in Tunnels
        PROVE  /\ values'[u] # <<>> => tunnel'[u] = "open" /\ waiters'[u] = <<>>
               /\ \A i \in DOMAIN values'[u] :
                    TunnelOf[values'[u][i]] = u /\ socket'[values'[u][i]] = "queued"
               /\ \A i, j \in DOMAIN values'[u] : values'[u][i] = values'[u][j] => i = j
      BY DEF LineInv
    <3>1. CASE u = t
      <4>1. tunnel'[t] = "open" /\ waiters'[t] = <<>>
        BY <1>5 DEF t
      <4>2. \A i \in 1..n : /\ values[t][i] \in Streams /\ values[t][i] # p
                            /\ TunnelOf[values[t][i]] = t /\ socket[values[t][i]] = "queued"
        BY <1>1, <1>3, <2>1 DEF SocketsInv, LineInv
      <4>3. \A i, j \in 1..n : values[t][i] = values[t][j] => i = j
        BY <1>1, <2>1 DEF SocketsInv, LineInv
      <4>4. TunnelOf[p] = t
        BY DEF t
      <4>5. \A i \in 1..(n + 1) : i \in 1..n \/ i = n + 1
        BY <2>1
      <4> QED
        BY <2>1, <2>3, <3>1, <4>1, <4>2, <4>3, <4>4, <4>5
    <3>2. CASE u # t
      BY <1>3, <1>5, <2>2, <2>3, <3>2 DEF SocketsInv, LineInv
    <3> QED
      BY <3>1, <3>2
  <2>6. WaitInv'
    <3> SUFFICES ASSUME NEW q \in Streams, socket'[q] = "queued"
        PROVE  \E i \in DOMAIN values'[TunnelOf[q]] : values'[TunnelOf[q]][i] = q
      BY DEF WaitInv
    <3>1. CASE q = p
      <4>1. n + 1 \in DOMAIN values'[t] /\ values'[t][n + 1] = p
        BY <2>1
      <4> QED
        BY <3>1, <4>1 DEF t
    <3>2. CASE q # p
      <4>1. PICK i \in DOMAIN values[TunnelOf[q]] : values[TunnelOf[q]][i] = q
        BY <2>3, <3>2 DEF SocketsInv, WaitInv
      <4>2. TunnelOf[q] = t => i \in 1..n /\ i \in 1..(n + 1)
        BY <2>1, <4>1
      <4> QED
        BY <2>1, <2>2, <4>1, <4>2
    <3> QED
      BY <3>1, <3>2
  <2> QED
    BY <2>4, <2>5, <2>6
<1> QED
  BY <1>4, <1>5 DEF Deliver, t

\* The handshake failed, or it ended after the channel or the tunnel closed.
LEMMA DestroySockets ==
  ASSUME SocketsInv, NEW p \in Streams, handler[p] = "handshake",
         socket' = [socket EXCEPT ![p] = "destroyed"], UNCHANGED <<values, waiters, tunnel>>,
         NEW s, s \notin Early \union {"handshake"}, handler' = [handler EXCEPT ![p] = s]
  PROVE  HandshakeInv' /\ LineInv' /\ WaitInv'
<1>1. socket[p] = "open"
  BY DEF SocketsInv, HandshakeInv
<1>2. /\ handler'[p] = s /\ socket'[p] = "destroyed"
      /\ \A q \in Streams \ {p} : handler'[q] = handler[q] /\ socket'[q] = socket[q]
  BY DEF SocketsInv, SlotsInv, TypeOK
<1>3. \A u \in Tunnels : \A i \in DOMAIN values[u] : values[u][i] \in Streams /\ values[u][i] # p
  BY <1>1 DEF SocketsInv, SlotsInv, TypeOK, LineInv
<1>4. HandshakeInv'
  BY <1>2 DEF SocketsInv, HandshakeInv
<1>5. LineInv'
  BY <1>2, <1>3 DEF SocketsInv, LineInv
<1>6. WaitInv'
  BY <1>2 DEF SocketsInv, WaitInv
<1> QED
  BY <1>4, <1>5, <1>6

LEMMA DialSockets ==
  ASSUME SocketsInv, NEW p \in Streams, DialConnects(p)
  PROVE  HandshakeInv' /\ LineInv' /\ WaitInv'
<1>1. socket[p] = "none" /\ UNCHANGED <<values, waiters, tunnel>>
  BY DEF DialConnects, SocketsInv, HandshakeInv, Early, acceptVars
<1>2. /\ handler'[p] = "handshake" /\ socket'[p] = "open"
      /\ \A q \in Streams \ {p} : handler'[q] = handler[q] /\ socket'[q] = socket[q]
  BY DEF DialConnects, SocketsInv, SlotsInv, TypeOK
<1>3. \A u \in Tunnels : \A i \in DOMAIN values[u] : values[u][i] \in Streams /\ values[u][i] # p
  BY <1>1 DEF SocketsInv, SlotsInv, TypeOK, LineInv
<1>4. HandshakeInv'
  BY <1>2 DEF SocketsInv, HandshakeInv, Early
<1>5. LineInv'
  BY <1>1, <1>2, <1>3 DEF SocketsInv, LineInv
<1>6. WaitInv'
  BY <1>1, <1>2 DEF SocketsInv, WaitInv
<1> QED
  BY <1>4, <1>5, <1>6

-----------------------------------------------------------------------------
(* Steps that move a handler or nothing *)

LEMMA HandlerSockets ==
  ASSUME SocketsInv, UNCHANGED <<socket, values, waiters, tunnel>>, NEW p \in Streams,
         NEW s \in HandlerStates, handler' = [handler EXCEPT ![p] = s],
         handler[p] # "handshake", s # "handshake", s \in Early => handler[p] \in Early
  PROVE  HandshakeInv' /\ LineInv' /\ WaitInv'
<1>1. /\ \A q \in Streams : handler'[q] = "handshake" <=> handler[q] = "handshake"
      /\ \A q \in Streams : handler'[q] \in Early => handler[q] \in Early
  BY DEF SocketsInv, SlotsInv, TypeOK
<1> QED
  BY <1>1, HandshakesStay, LinesStay DEF SocketsInv

LEMMA IdleSockets ==
  ASSUME SocketsInv, UNCHANGED <<socket, values, waiters, tunnel, handler>>
  PROVE  HandshakeInv' /\ LineInv' /\ WaitInv'
BY HandshakesStay, LinesStay DEF SocketsInv

LEMMA OpeningStays ==
  ASSUME OpeningInv, UNCHANGED <<closed, tunnel>>, pendingTunnels' \subseteq pendingTunnels,
         \A t \in Tunnels : create'[t] = "idle" => create[t] = "idle",
         pendingTunnels \subseteq Tunnels
  PROVE  OpeningInv'
BY DEF OpeningInv

LEMMA WriteSockets ==
  ASSUME SocketsInv, WriteCompletes \/ WriteFails
  PROVE  HandshakeInv' /\ LineInv' /\ WaitInv' /\ OpeningInv'
<1> DEFINE f == Head(writeChain)
<1>1. writeChain # <<>> /\ writeChain \in Seq(Frames)
  BY DEF WriteCompletes, WriteFails, SocketsInv, SlotsInv, TypeOK
<1>2. f \in Frames /\ f = writeChain[1] /\ 1 \in DOMAIN writeChain
  BY <1>1
<1>3. f.op \in AnswerOps => f.id \in Streams /\ handler[f.id] = "answering"
  BY <1>2, FrameFields DEF SocketsInv, SlotsInv, AnswersInv
<1>4. UNCHANGED <<socket, values, waiters, tunnel, closed>>
  BY DEF WriteCompletes, WriteFails, acceptVars
<1>5. \/ UNCHANGED handler
      \/ f.op \in AnswerOps /\ \E s \in {"ending", "failed"} : handler' = [handler EXCEPT ![f.id] = s]
  <2>1. CASE WriteCompletes
    BY <2>1 DEF WriteCompletes, AnswerOps
  <2>2. CASE WriteFails
    BY <2>2 DEF WriteFails, AnswerOps
  <2> QED
    BY <2>1, <2>2
<1>6. /\ \/ UNCHANGED create
         \/ \E s \in {"waiting", "threw"} : create' = [create EXCEPT ![f.id] = s] /\ f.op = "openTunnelReq"
      /\ pendingTunnels' \subseteq pendingTunnels
  <2>1. CASE WriteCompletes
    BY <2>1 DEF WriteCompletes
  <2>2. CASE WriteFails
    BY <2>2 DEF WriteFails
  <2> QED
    BY <2>1, <2>2
<1> HIDE DEF f
<1>7. HandshakeInv' /\ LineInv' /\ WaitInv'
  <2>1. CASE UNCHANGED handler
    BY <1>4, <2>1, IdleSockets
  <2>2. ASSUME f.op \in AnswerOps, NEW s \in {"ending", "failed"}, handler' = [handler EXCEPT ![f.id] = s]
        PROVE  HandshakeInv' /\ LineInv' /\ WaitInv'
    <3>1. /\ s \in HandlerStates /\ s # "handshake" /\ s \notin Early
          /\ f.id \in Streams /\ handler[f.id] # "handshake"
      BY <1>3, <2>2 DEF HandlerStates, Early
    <3> QED
      BY <1>4, <2>2, <3>1, HandlerSockets
  <2> QED
    BY <1>5, <2>1, <2>2
<1>8. OpeningInv'
  <2>1. \A t \in Tunnels : create'[t] = "idle" => create[t] = "idle"
    BY <1>6 DEF SocketsInv, SlotsInv, TypeOK
  <2>2. pendingTunnels \subseteq Tunnels
    BY DEF SocketsInv, SlotsInv, TypeOK
  <2> QED
    BY <1>4, <1>6, <2>1, <2>2, OpeningStays DEF SocketsInv
<1> QED
  BY <1>7, <1>8

LEMMA RequestSockets ==
  ASSUME SocketsInv, HandleProxyConnReq
  PROVE  HandshakeInv' /\ LineInv' /\ WaitInv' /\ OpeningInv'
<1> DEFINE p == message.id
<1>1. p \in Streams /\ handler[p] = "idle"
  BY DEF HandleProxyConnReq, SocketsInv, SlotsInv, TypeOK, RequestInv, Messages, None
<1>2. handler \in [Streams -> HandlerStates] /\ pendingTunnels \subseteq Tunnels
  BY DEF SocketsInv, SlotsInv, TypeOK, HandlerStates
<1> DEFINE same == UNCHANGED <<socket, values, waiters, tunnel, closed, create, pendingTunnels>>
           dropped == [handler EXCEPT ![p] = "dropped"]
<1>3. \/ StartHandler(handler, p) /\ same
      \/ handler' = [handler EXCEPT ![p] = "queued"] /\ same
      \/ handler' = dropped /\ same
      \/ Finish(dropped, pendingTunnels)
  BY DEF HandleProxyConnReq, createVars, acceptVars, channelVars
<1>4. same => OpeningInv'
  BY <1>2, OpeningStays DEF SocketsInv
<1>5. dropped \in [Streams -> HandlerStates]
  BY <1>2 DEF HandlerStates
<1>6. /\ \A q \in Streams : dropped[q] = "handshake" <=> handler[q] = "handshake"
      /\ \A q \in Streams : dropped[q] \in Early => handler[q] \in Early
  BY <1>1, <1>2 DEF Early
<1> HIDE DEF p
<1>7. ASSUME StartHandler(handler, p), same PROVE HandshakeInv' /\ LineInv' /\ WaitInv'
  <2>1. handler[p] \in Early
    BY <1>1 DEF Early
  <2>2. \A q \in Streams : /\ handler'[q] = "handshake" <=> handler[q] = "handshake"
                           /\ handler'[q] \in Early => handler[q] \in Early
    BY <1>1, <1>2, <1>7, <2>1, StartHandshakes
  <2> QED
    BY <1>7, <2>2, HandshakesStay, LinesStay DEF SocketsInv
<1>8. ASSUME NEW s \in {"queued", "dropped"}, handler' = [handler EXCEPT ![p] = s], same
      PROVE  HandshakeInv' /\ LineInv' /\ WaitInv'
  <2>1. s \in HandlerStates /\ s # "handshake" /\ handler[p] # "handshake" /\ handler[p] \in Early
    BY <1>1 DEF HandlerStates, Early
  <2> QED
    BY <1>1, <1>8, <2>1, HandlerSockets
<1> HIDE DEF dropped
<1>9. Finish(dropped, pendingTunnels) => HandshakeInv' /\ LineInv' /\ WaitInv' /\ OpeningInv'
  BY <1>5, <1>6, FinishSockets
<1> QED
  BY <1>3, <1>4, <1>7, <1>8, <1>9 DEF dropped

LEMMA EndSockets ==
  ASSUME SocketsInv, NEW p \in Streams, EndHandler(p)
  PROVE  HandshakeInv' /\ LineInv' /\ WaitInv'
<1> DEFINE handlers == [handler EXCEPT ![p] = "done"]
<1>1. handler \in [Streams -> HandlerStates] /\ handler[p] = "ending"
  BY DEF SocketsInv, SlotsInv, TypeOK, HandlerStates, EndHandler
<1>2. /\ handlers \in [Streams -> HandlerStates] /\ handlers[p] = "done"
      /\ \A q \in Streams \ {p} : handlers[q] = handler[q]
  BY <1>1 DEF HandlerStates
<1>3. UNCHANGED <<socket, values, waiters, tunnel>>
  BY DEF EndHandler, acceptVars
<1>4. \/ handler' = handlers
      \/ Drains /\ StartHandler(handlers, Head(proxyQueue))
  BY DEF EndHandler
<1> HIDE DEF handlers
<1>5. /\ \A q \in Streams : handlers[q] = "handshake" <=> handler[q] = "handshake"
      /\ \A q \in Streams : handlers[q] \in Early => handler[q] \in Early
  BY <1>1, <1>2 DEF Early
<1>6. CASE handler' = handlers
  BY <1>3, <1>5, <1>6, HandshakesStay, LinesStay DEF SocketsInv
<1>7. CASE Drains /\ StartHandler(handlers, Head(proxyQueue))
  <2> DEFINE h == Head(proxyQueue)
  <2>1. proxyQueue \in Seq(Streams) /\ proxyQueue # <<>>
    BY <1>7 DEF SocketsInv, SlotsInv, TypeOK, Drains
  <2>2. h = proxyQueue[1] /\ 1 \in DOMAIN proxyQueue /\ h \in Streams
    BY <2>1
  <2>3. handler[h] = "queued"
    BY <2>2 DEF SocketsInv, SlotsInv, QueueInv
  <2> HIDE DEF h
  <2>4. handlers[h] \in Early
    BY <1>1, <1>2, <2>2, <2>3 DEF Early
  <2>5. StartHandler(handlers, h)
    BY <1>7 DEF h
  <2>6. \A q \in Streams : /\ handler'[q] = "handshake" <=> handlers[q] = "handshake"
                           /\ handler'[q] \in Early => handlers[q] \in Early
    BY <1>2, <2>2, <2>4, <2>5, StartHandshakes
  <2> QED
    BY <1>3, <1>5, <2>6, HandshakesStay, LinesStay DEF SocketsInv
<1> QED
  BY <1>4, <1>6, <1>7

LEMMA RefuseSockets ==
  ASSUME SocketsInv, NEW p \in Streams, DialFails(p) \/ ProxyFails(p) \/ ProxyOpens(p)
  PROVE  HandshakeInv' /\ LineInv' /\ WaitInv'
<1>1. "ending" \in HandlerStates /\ "answering" \in HandlerStates
      /\ {"ending", "answering"} \intersect (Early \union {"handshake"}) = {}
  BY DEF HandlerStates, Early
<1>2. CASE DialFails(p)
  <2>1. handler[p] # "handshake" /\ UNCHANGED <<socket, values, waiters, tunnel>>
    BY <1>2 DEF DialFails, acceptVars
  <2>2. \E s \in {"ending", "answering"} : handler' = [handler EXCEPT ![p] = s]
    BY <1>2 DEF DialFails, RefuseStream
  <2> QED
    BY <1>1, <2>1, <2>2, HandlerSockets
<1>3. ASSUME handler[p] = "handshake", socket' = [socket EXCEPT ![p] = "destroyed"],
             NEW s \in {"ending", "answering"}, handler' = [handler EXCEPT ![p] = s],
             UNCHANGED <<values, waiters, tunnel>>
      PROVE  HandshakeInv' /\ LineInv' /\ WaitInv'
  BY <1>1, <1>3, DestroySockets
<1>4. CASE ProxyFails(p)
  BY <1>3, <1>4 DEF ProxyFails, RefuseStream, acceptVars
<1>5. CASE ProxyOpens(p)
  <2>1. \/ /\ socket' = [socket EXCEPT ![p] = "destroyed"] /\ UNCHANGED <<values, waiters, tunnel>>
           /\ \E s \in {"ending", "answering"} : handler' = [handler EXCEPT ![p] = s]
        \/ /\ tunnel[TunnelOf[p]] = "open" /\ Deliver(TunnelOf[p], p) /\ UNCHANGED tunnel
           /\ handler' = [handler EXCEPT ![p] = "answering"]
    BY <1>5 DEF ProxyOpens, acceptVars
  <2>2. handler[p] = "handshake"
    BY <1>5 DEF ProxyOpens
  <2> QED
    BY <1>3, <2>1, <2>2, DeliverSockets
<1> QED
  BY <1>2, <1>4, <1>5

LEMMA StepSocketsInv == SocketsInv /\ [Next]_vars => SocketsInv'
<1> SUFFICES ASSUME SocketsInv, [Next]_vars PROVE HandshakeInv' /\ LineInv' /\ WaitInv' /\ OpeningInv'
  BY StepSlotsInv DEF SocketsInv
<1> DEFINE Goal == HandshakeInv' /\ LineInv' /\ WaitInv' /\ OpeningInv'
<1> HIDE DEF Goal
<1>1. handler \in [Streams -> HandlerStates] /\ pendingTunnels \subseteq Tunnels
  BY DEF SocketsInv, SlotsInv, TypeOK, HandlerStates
\* The usual step: the tunnels and the calls of their creators stay as they are.
<1>2. ASSUME UNCHANGED <<closed, tunnel, create, pendingTunnels>>, HandshakeInv' /\ LineInv' /\ WaitInv'
      PROVE  Goal
  BY <1>1, <1>2, OpeningStays DEF SocketsInv, Goal
<1>3. ASSUME NEW t \in Tunnels, CreateTunnel(t) PROVE Goal
  <2>1. UNCHANGED <<socket, values, waiters, tunnel, handler, closed>>
    BY <1>3 DEF CreateTunnel, acceptVars, proxyVars, channelVars
  <2>2. HandshakeInv' /\ LineInv' /\ WaitInv'
    BY <2>1, IdleSockets
  <2>3. create[t] = "idle" /\ \E s \in {"refused", "writing"} : create' = [create EXCEPT ![t] = s]
    BY <1>3 DEF CreateTunnel
  <2>4. pendingTunnels' = pendingTunnels \/ (pendingTunnels' = pendingTunnels \union {t} /\ ~closed)
    BY <1>3 DEF CreateTunnel, Refusing
  <2>5. create \in [Tunnels -> {"idle", "refused", "writing", "waiting", "threw"}]
    BY DEF SocketsInv, SlotsInv, TypeOK
  <2>6. OpeningInv'
    BY <1>1, <2>1, <2>3, <2>4, <2>5 DEF SocketsInv, OpeningInv
  <2> QED
    BY <2>2, <2>6 DEF Goal
<1>4. ASSUME UNCHANGED <<socket, values, waiters, tunnel, handler, closed, create, pendingTunnels>>
      PROVE  Goal
  BY <1>2, <1>4, IdleSockets
<1>5. ASSUME NEW t \in Tunnels, NEW a \in Tasks, CloseTunnel(t, a) PROVE Goal
  BY <1>4, <1>5 DEF CloseTunnel, createVars, acceptVars, proxyVars, channelVars
<1>6. ASSUME NEW t \in Tunnels, NEW a \in Tasks, Accept(t, a) PROVE Goal
  <2>1. UNCHANGED <<closed, tunnel, create, pendingTunnels>>
    BY <1>6 DEF Accept, createVars, channelVars
  <2> QED
    BY <1>2, <1>6, <2>1, AcceptSockets
<1>7. ASSUME NEW t \in Tunnels, NEW a \in Tasks, AbortAccept(t, a) PROVE Goal
  <2>1. UNCHANGED <<closed, tunnel, create, pendingTunnels, socket, values, handler>>
    BY <1>7 DEF AbortAccept, createVars, channelVars, proxyVars
  <2>2. \A u \in Tunnels : values[u] # <<>> => waiters'[u] = waiters[u]
    <3>1. waiters[t] # <<>> /\ waiters \in [Tunnels -> Seq(Tasks)]
      BY <1>7 DEF AbortAccept, SocketsInv, SlotsInv, TypeOK
    <3>2. values[t] = <<>>
      BY <3>1 DEF SocketsInv, LineInv
    <3>3. \A u \in Tunnels \ {t} : waiters'[u] = waiters[u]
      BY <1>7, <3>1 DEF AbortAccept
    <3> QED
      BY <3>2, <3>3
  <2>3. HandshakeInv' /\ LineInv' /\ WaitInv'
    BY <2>1, <2>2, HandshakesStay, LinesStay DEF SocketsInv
  <2> QED
    BY <1>2, <2>1, <2>3
<1>8. ASSUME NEW a \in Tasks, Close(a) PROVE Goal
  BY <1>4, <1>8 DEF Close, createVars, acceptVars, proxyVars
<1>9. CASE WriteCompletes \/ WriteFails
  BY <1>9, WriteSockets DEF Goal
<1>10. ASSUME NEW m \in Messages, EngineSends(m) PROVE Goal
  BY <1>4, <1>10 DEF EngineSends, createVars, acceptVars, proxyVars, channelVars
<1>11. ASSUME NEW pending, Finish(handler, pending) PROVE Goal
  BY <1>1, <1>11, FinishSockets DEF Goal
<1>12. CASE HandleOpenTunnelRsp
  <2> DEFINE t == message.id
  <2>1. CASE /\ t \in pendingTunnels /\ tunnel' = [tunnel EXCEPT ![t] = "open"]
             /\ pendingTunnels' = pendingTunnels \ {t}
             /\ UNCHANGED <<socket, values, waiters, handler, closed, create>>
    <3>1. tunnel[t] = "none" /\ ~closed /\ create[t] # "idle" /\ t \in Tunnels
      BY <1>1, <2>1 DEF SocketsInv, OpeningInv
    <3>2. /\ tunnel'[t] = "open"
          /\ \A u \in Tunnels \ {t} : tunnel'[u] = tunnel[u]
      BY <2>1, <3>1 DEF SocketsInv, SlotsInv, TypeOK
    <3> HIDE DEF t
    <3>3. OpeningInv'
      BY <1>1, <2>1, <3>1, <3>2 DEF SocketsInv, OpeningInv
    <3>4. LineInv'
      BY <2>1, <3>1, <3>2 DEF SocketsInv, LineInv
    <3>5. HandshakeInv' /\ WaitInv'
      BY <2>1 DEF SocketsInv, HandshakeInv, WaitInv
    <3> QED
      BY <3>3, <3>4, <3>5 DEF Goal
  <2>2. CASE /\ pendingTunnels' \subseteq pendingTunnels
             /\ UNCHANGED <<socket, values, waiters, tunnel, handler, closed, create>>
    <3>1. OpeningInv'
      BY <1>1, <2>2, OpeningStays DEF SocketsInv
    <3> QED
      BY <2>2, <3>1, IdleSockets DEF Goal
  <2> QED
    BY <1>11, <1>12, <2>1, <2>2
    DEF HandleOpenTunnelRsp, createVars, acceptVars, channelVars, proxyVars, Goal
<1>13. CASE HandleCloseTunnelRsp
  <2>1. /\ UNCHANGED <<handler, closed, create, pendingTunnels>>
        /\ CloseTunnels({message.id} \intersect OpenTunnels)
    BY <1>13 DEF HandleCloseTunnelRsp, createVars, channelVars
  <2>2. {message.id} \intersect OpenTunnels \in SUBSET Tunnels
    BY DEF OpenTunnels
  <2>3. HandshakeInv' /\ LineInv' /\ WaitInv'
    BY <2>1, <2>2, LinesClose DEF SocketsInv, SlotsInv
  <2>4. \A u \in Tunnels : /\ tunnel[u] = "none" => tunnel'[u] = "none"
                           /\ tunnel'[u] = "open" => tunnel[u] = "open"
    BY <2>1 DEF CloseTunnels, OpenTunnels
  <2>5. OpeningInv'
    BY <1>1, <2>1, <2>4 DEF SocketsInv, OpeningInv
  <2> QED
    BY <2>3, <2>5 DEF Goal
<1>14. CASE HandleProxyConnReq
  BY <1>14, RequestSockets DEF Goal
<1>15. CASE HandleCloseControlChannelRsp
  BY <1>4, <1>11, <1>15
  DEF HandleCloseControlChannelRsp, createVars, acceptVars, channelVars, proxyVars, Goal
<1>16. CASE SocketBreaks
  BY <1>4, <1>16 DEF SocketBreaks, createVars, acceptVars, proxyVars, Goal
<1>17. CASE ReaderFails \/ LivenessFails
  BY <1>11, <1>17 DEF ReaderFails, LivenessFails, Goal
<1>18. ASSUME NEW p \in Streams, DialConnects(p) \/ DialFails(p) \/ ProxyOpens(p) \/ ProxyFails(p)
       PROVE  Goal
  <2>1. UNCHANGED <<closed, tunnel, create, pendingTunnels>>
    BY <1>18 DEF DialConnects, DialFails, ProxyOpens, ProxyFails, createVars, channelVars
  <2> QED
    BY <1>2, <1>18, <2>1, DialSockets, RefuseSockets
<1>19. ASSUME NEW p \in Streams, CatchHandler(p) PROVE Goal
  <2> DEFINE handlers == [handler EXCEPT ![p] = "ending"]
  <2>1. handler[p] = "failed"
    BY <1>19 DEF CatchHandler
  <2>2. /\ handlers \in [Streams -> HandlerStates]
        /\ \A q \in Streams : handlers[q] = "handshake" <=> handler[q] = "handshake"
        /\ \A q \in Streams : handlers[q] \in Early => handler[q] \in Early
    BY <1>1, <2>1 DEF HandlerStates, Early
  <2>3. \/ Finish(handlers, pendingTunnels)
        \/ /\ handler' = handlers
           /\ UNCHANGED <<socket, values, waiters, tunnel, closed, create, pendingTunnels>>
    BY <1>19 DEF CatchHandler, createVars, acceptVars, channelVars
  <2> HIDE DEF handlers
  <2>4. CASE Finish(handlers, pendingTunnels)
    BY <2>2, <2>4, FinishSockets DEF Goal
  <2>5. CASE /\ handler' = handlers
             /\ UNCHANGED <<socket, values, waiters, tunnel, closed, create, pendingTunnels>>
    BY <1>2, <2>2, <2>5, HandshakesStay, LinesStay DEF SocketsInv
  <2> QED
    BY <2>3, <2>4, <2>5
<1>20. ASSUME NEW p \in Streams, EndHandler(p) PROVE Goal
  <2>1. UNCHANGED <<closed, tunnel, create, pendingTunnels>>
    BY <1>20 DEF EndHandler, createVars, channelVars
  <2> QED
    BY <1>2, <1>20, <2>1, EndSockets
<1>21. CASE UNCHANGED vars
  BY <1>4, <1>21 DEF vars, createVars, acceptVars, channelVars, proxyVars, Goal
<1> QED
  BY <1>3, <1>5, <1>6, <1>7, <1>8, <1>9, <1>10, <1>12, <1>13, <1>14, <1>15, <1>16, <1>17, <1>18,
     <1>19, <1>20, <1>21 DEF Next, HandleMessage, Goal

LEMMA SpecSocketsInv == Spec => []SocketsInv
BY InitSocketsInv, StepSocketsInv, PTL DEF Spec

\* No payload socket is ever without an owner, and a closed channel or tunnel holds none
\* that waits, for every interleaving of dials, deliveries, accepts, closes and failures.
THEOREM SocketsAreOwned == Spec => []SocketsOwned
BY SpecSocketsInv, OwnedFromInv, PTL

-----------------------------------------------------------------------------
(* The channel implements StreamAdmission. *)

LEMMA OutcomesMove ==
  ASSUME TypeOK, NEW p \in Streams, NEW s \in SocketStates, socket' = [socket EXCEPT ![p] = s]
  PROVE  Outcomes' = [Outcomes EXCEPT ![p] = Outcome(s)] /\ Outcomes[p] = Outcome(socket[p])
<1>1. /\ socket'[p] = s
      /\ \A q \in Streams \ {p} : socket'[q] = socket[q]
  BY DEF TypeOK
<1>2. /\ Outcomes = [q \in Streams |-> Outcome(socket[q])]
      /\ Outcomes' = [q \in Streams |-> Outcome(socket'[q])]
  BY DEF Outcomes
<1>3. \A q \in Streams : Outcome(socket'[q]) = IF q = p THEN Outcome(s) ELSE Outcome(socket[q])
  BY <1>1
<1> QED
  BY <1>2, <1>3

LEMMA OutcomeValues ==
  /\ Outcome("none") = "outside" /\ Outcome("open") = "outside" /\ Outcome("queued") = "admitted"
  /\ Outcome("accepted") = "established" /\ Outcome("destroyed") = "ended"
BY DEF Outcome

\* The tunnels ts close.
LEMMA ClosingWithdraws ==
  ASSUME TypeOK, NEW ts \in SUBSET OpenTunnels, CloseTunnels(ts)
  PROVE  Admission!Next
<1>1. ts \in SUBSET Tunnels /\ \A t \in ts : tunnel[t] = "open"
  BY DEF OpenTunnels
<1>2. /\ tunnel' = [t \in Tunnels |-> IF t \in ts THEN "closed" ELSE tunnel[t]]
      /\ values' = [t \in Tunnels |-> IF t \in ts THEN <<>> ELSE values[t]]
      /\ socket' = [p \in Streams |->
           IF TunnelOf[p] \in ts /\ socket[p] = "queued" THEN "destroyed" ELSE socket[p]]
  BY DEF CloseTunnels, Disposed
<1>3. \A p \in Streams : socket[p] \in SocketStates
  BY DEF TypeOK, SocketStates
<1>4. \A x \in SocketStates : Outcome(x) = "admitted" <=> x = "queued"
  BY OutcomeValues DEF SocketStates
<1>5. \A p \in Streams : Outcome(socket'[p]) =
        IF TunnelOf[p] \in ts /\ Outcome(socket[p]) = "admitted" THEN "ended" ELSE Outcome(socket[p])
  BY <1>2, <1>3, <1>4, OutcomeValues
<1>6. Outcomes' = [p \in Streams |->
        IF TunnelOf[p] \in ts /\ Outcomes[p] = "admitted" THEN "ended" ELSE Outcomes[p]]
  BY <1>5 DEF Outcomes
<1>7. Admission!Withdraw(ts)
  BY <1>1, <1>2, <1>6 DEF Admission!Withdraw
<1> QED
  BY <1>1, <1>7 DEF Admission!Next

LEMMA FinishWithdraws ==
  ASSUME TypeOK, NEW handlers, NEW pending, Finish(handlers, pending)
  PROVE  Admission!Next
BY ClosingWithdraws DEF Finish

LEMMA AcceptEstablishes ==
  ASSUME SocketsInv, NEW t \in Tunnels, NEW a \in Tasks, Accept(t, a)
  PROVE  Admission!Next \/ UNCHANGED <<tunnel, values, socket>>
<1>1. UNCHANGED tunnel
  BY DEF Accept
<1>2. CASE values[t] # <<>>
  <2> DEFINE h == Head(values[t])
  <2>1. tunnel[t] = "open"
    BY <1>2 DEF SocketsInv, LineInv
  <2>2. values[t] \in Seq(Streams)
    BY DEF SocketsInv, SlotsInv, TypeOK
  <2>3. h \in Streams
    BY <1>2, <2>2
  <2>4. /\ values' = [values EXCEPT ![t] = Tail(@)]
        /\ socket' = [socket EXCEPT ![h] = "accepted"]
    BY <1>2 DEF Accept
  <2> HIDE DEF h
  <2>5. Outcomes' = [Outcomes EXCEPT ![h] = "established"]
    BY <2>3, <2>4, OutcomesMove, OutcomeValues DEF SocketsInv, SlotsInv, SocketStates
  <2>6. Admission!Establish(t)
    BY <1>1, <1>2, <2>1, <2>4, <2>5 DEF Admission!Establish, h
  <2> QED
    BY <2>6 DEF Admission!Next
<1>3. CASE values[t] = <<>>
  BY <1>1, <1>3 DEF Accept
<1> QED
  BY <1>2, <1>3

LEMMA ProxyAdmitsOrRefuses ==
  ASSUME SocketsInv, NEW p \in Streams, ProxyOpens(p) \/ ProxyFails(p)
  PROVE  Admission!Next
<1> DEFINE t == TunnelOf[p]
<1> USE ChannelAssumption
<1>1. TypeOK /\ Outcomes[p] = "outside" /\ t \in Tunnels
  <2>1. handler[p] = "handshake"
    BY DEF ProxyOpens, ProxyFails
  <2>2. socket[p] = "open"
    BY <2>1 DEF SocketsInv, HandshakeInv
  <2> QED
    BY <2>2, OutcomeValues DEF Outcomes, SocketsInv, SlotsInv
<1>2. UNCHANGED tunnel
  BY DEF ProxyOpens, ProxyFails
<1>3. \/ socket' = [socket EXCEPT ![p] = "destroyed"] /\ UNCHANGED values
      \/ tunnel[t] = "open" /\ Deliver(t, p)
  BY DEF ProxyOpens, ProxyFails, acceptVars
<1>4. CASE socket' = [socket EXCEPT ![p] = "destroyed"] /\ UNCHANGED values
  <2>1. Outcomes' = [Outcomes EXCEPT ![p] = "ended"]
    BY <1>1, <1>4, OutcomesMove, OutcomeValues DEF SocketStates
  <2>2. Admission!Refuse(p)
    BY <1>1, <1>2, <1>4, <2>1 DEF Admission!Refuse
  <2> QED
    BY <2>2 DEF Admission!Next
<1>5. CASE /\ tunnel[t] = "open" /\ waiters[t] # <<>>
           /\ socket' = [socket EXCEPT ![p] = "accepted"] /\ UNCHANGED values
  <2>1. Outcomes' = [Outcomes EXCEPT ![p] = "established"]
    BY <1>1, <1>5, OutcomesMove, OutcomeValues DEF SocketStates
  <2>2. values[t] = <<>>
    BY <1>1, <1>5 DEF SocketsInv, LineInv
  <2>3. Admission!AdmitAndEstablish(p)
    BY <1>1, <1>2, <1>5, <2>1, <2>2 DEF Admission!AdmitAndEstablish
  <2> QED
    BY <2>3 DEF Admission!Next
<1>6. CASE /\ tunnel[t] = "open" /\ values' = [values EXCEPT ![t] = Append(@, p)]
           /\ socket' = [socket EXCEPT ![p] = "queued"]
  <2>1. Outcomes' = [Outcomes EXCEPT ![p] = "admitted"]
    BY <1>1, <1>6, OutcomesMove, OutcomeValues DEF SocketStates
  <2>2. Admission!Admit(p)
    BY <1>1, <1>2, <1>6, <2>1 DEF Admission!Admit
  <2> QED
    BY <2>2 DEF Admission!Next
<1> HIDE DEF t
<1> QED
  BY <1>3, <1>4, <1>5, <1>6 DEF Deliver

LEMMA OpeningOpens ==
  ASSUME SocketsInv, HandleOpenTunnelRsp
  PROVE  Admission!Next \/ UNCHANGED <<tunnel, values, socket>>
<1> DEFINE t == message.id
<1>1. \/ UNCHANGED <<tunnel, values, socket>>
      \/ \E pending : Finish(handler, pending)
      \/ /\ t \in pendingTunnels /\ tunnel' = [tunnel EXCEPT ![t] = "open"]
         /\ UNCHANGED <<values, socket>>
  BY DEF HandleOpenTunnelRsp, acceptVars, proxyVars
<1> HIDE DEF t
<1>2. ASSUME t \in pendingTunnels, tunnel' = [tunnel EXCEPT ![t] = "open"],
             UNCHANGED <<values, socket>>
      PROVE  Admission!Next
  <2>1. tunnel[t] = "none" /\ t \in Tunnels
    BY <1>2 DEF SocketsInv, OpeningInv, SlotsInv, TypeOK
  <2>2. UNCHANGED Outcomes
    BY <1>2 DEF Outcomes
  <2>3. Admission!Open(t)
    BY <1>2, <2>1, <2>2 DEF Admission!Open
  <2> QED
    BY <2>1, <2>3 DEF Admission!Next
<1> QED
  BY <1>1, <1>2, FinishWithdraws DEF SocketsInv, SlotsInv

LEMMA AdmissionStep ==
  ASSUME SocketsInv, [Next]_vars
  PROVE  [Admission!Next]_(Admission!vars)
<1> DEFINE Goal == [Admission!Next]_(Admission!vars)
<1>1. Admission!Next => Goal
  OBVIOUS
<1>2. UNCHANGED <<tunnel, values, socket>> => Goal
  BY DEF Admission!vars, Outcomes
<1> HIDE DEF Goal
<1>3. TypeOK
  BY DEF SocketsInv, SlotsInv
<1>4. ASSUME NEW t \in Tunnels, CreateTunnel(t) PROVE Goal
  BY <1>2, <1>4 DEF CreateTunnel, acceptVars, proxyVars
<1>5. ASSUME NEW t \in Tunnels, NEW a \in Tasks, CloseTunnel(t, a) \/ AbortAccept(t, a) PROVE Goal
  BY <1>2, <1>5 DEF CloseTunnel, AbortAccept, acceptVars, proxyVars
<1>6. ASSUME NEW t \in Tunnels, NEW a \in Tasks, Accept(t, a) PROVE Goal
  BY <1>1, <1>2, <1>6, AcceptEstablishes
<1>7. ASSUME NEW a \in Tasks, Close(a) PROVE Goal
  BY <1>2, <1>7 DEF Close, acceptVars, proxyVars
<1>8. CASE WriteCompletes \/ WriteFails
  BY <1>2, <1>8 DEF WriteCompletes, WriteFails, acceptVars, Goal
<1>9. ASSUME NEW m \in Messages, EngineSends(m) PROVE Goal
  BY <1>2, <1>9 DEF EngineSends, acceptVars, proxyVars
<1>10. CASE HandleOpenTunnelRsp
  BY <1>1, <1>2, <1>10, OpeningOpens DEF Goal
<1>11. CASE HandleCloseTunnelRsp
  <2>1. CloseTunnels({message.id} \intersect OpenTunnels)
    BY <1>11 DEF HandleCloseTunnelRsp
  <2> QED
    BY <1>1, <1>3, <2>1, ClosingWithdraws DEF Goal
<1>12. CASE HandleProxyConnReq
  <2>1. \/ UNCHANGED <<tunnel, values, socket>>
        \/ \E handlers : Finish(handlers, pendingTunnels)
    BY <1>12 DEF HandleProxyConnReq, acceptVars
  <2> QED
    BY <1>1, <1>2, <1>3, <2>1, FinishWithdraws DEF Goal
<1>13. CASE HandleCloseControlChannelRsp
  BY <1>1, <1>2, <1>3, <1>13, FinishWithdraws
  DEF HandleCloseControlChannelRsp, acceptVars, proxyVars, Goal
<1>14. CASE SocketBreaks
  BY <1>2, <1>14 DEF SocketBreaks, acceptVars, proxyVars, Goal
<1>15. CASE ReaderFails \/ LivenessFails
  BY <1>1, <1>3, <1>15, FinishWithdraws DEF ReaderFails, LivenessFails, Goal
<1>16. ASSUME NEW p \in Streams, DialConnects(p) PROVE Goal
  <2>1. socket[p] = "none" /\ socket' = [socket EXCEPT ![p] = "open"]
    BY <1>16 DEF DialConnects, SocketsInv, HandshakeInv, Early
  <2>2. Outcomes' = [Outcomes EXCEPT ![p] = "outside"] /\ Outcomes[p] = "outside"
    BY <1>3, <2>1, OutcomesMove, OutcomeValues DEF SocketStates
  <2>3. UNCHANGED Outcomes
    BY <2>2 DEF Outcomes
  <2>4. UNCHANGED <<tunnel, values>>
    BY <1>16 DEF DialConnects, acceptVars
  <2> QED
    BY <2>3, <2>4 DEF Goal, Admission!vars
<1>17. ASSUME NEW p \in Streams, DialFails(p) PROVE Goal
  BY <1>2, <1>17 DEF DialFails, acceptVars
<1>18. ASSUME NEW p \in Streams, ProxyOpens(p) \/ ProxyFails(p) PROVE Goal
  BY <1>1, <1>18, ProxyAdmitsOrRefuses
<1>19. ASSUME NEW p \in Streams, CatchHandler(p) PROVE Goal
  <2>1. \/ UNCHANGED <<tunnel, values, socket>>
        \/ \E handlers : Finish(handlers, pendingTunnels)
    BY <1>19 DEF CatchHandler, acceptVars
  <2> QED
    BY <1>1, <1>2, <1>3, <2>1, FinishWithdraws
<1>20. ASSUME NEW p \in Streams, EndHandler(p) PROVE Goal
  BY <1>2, <1>20 DEF EndHandler, acceptVars
<1>21. CASE UNCHANGED vars
  BY <1>2, <1>21 DEF vars, acceptVars, proxyVars, Goal
<1> QED
  BY <1>4, <1>5, <1>6, <1>7, <1>8, <1>9, <1>10, <1>11, <1>12, <1>13, <1>14, <1>15, <1>16, <1>17,
     <1>18, <1>19, <1>20, <1>21 DEF Next, HandleMessage, Goal

\* Whatever the engine, the peers and the application do, what the channel does with its
\* streams is what StreamAdmission allows.
THEOREM AdmissionImplemented == Spec => ImplementsAdmission
<1>1. Init => Admission!Init
  <2>1. Init => Outcomes = [p \in Streams |-> "outside"]
    BY OutcomeValues DEF Init, Outcomes
  <2> QED
    BY <2>1 DEF Init, Admission!Init
<1>2. SocketsInv /\ [Next]_vars => [Admission!Next]_(Admission!vars)
  BY AdmissionStep
<1> QED
  BY <1>1, <1>2, SpecSocketsInv, PTL DEF Spec, ImplementsAdmission, Admission!Spec

-----------------------------------------------------------------------------
(* What the control channel answers: what it tells the engine of a stream is true of *)
(* the stream's socket, it asks for the close of a tunnel once and for its own last,  *)
(* and it forgets none of its callers.                                                *)

\* The frames that wait to be written, the one on the socket included.
Waiting == {writeChain[i] : i \in DOMAIN writeChain}

\* A stream whose handler goes no further.
Ended == {"ending", "done"}

Ok(p) == Frame("proxyConnOk", p)
Answers(p) == Refusals(p) \union {Ok(p)}

\* What the engine was told of a stream, and what it is about to be told while the socket of
\* the channel is up, is true; and its handler has ended once it was told.
StreamTruth(p) ==
  /\ Answers(p) \intersect received # {} => handler[p] \in Ended
  /\ Ok(p) \in Waiting \union received => socket[p] \in {"queued", "accepted", "destroyed"}
  /\ up /\ Refusals(p) \intersect Waiting # {} => socket[p] \in {"none", "destroyed"}
  /\ Refusals(p) \intersect received # {} => socket[p] \in {"none", "destroyed"}
  /\ Ok(p) \in received => Refusals(p) \intersect received = {}

TruthInv == \A p \in Streams : StreamTruth(p)

LEMMA TruthFromInv == TruthInv => AnswersTruthful
BY DEF TruthInv, StreamTruth, AnswersTruthful, Ok

-----------------------------------------------------------------------------
(* The chain as a set of frames *)

LEMMA ChainGrows ==
  ASSUME TypeOK, NEW f, writeChain' = Append(writeChain, f)
  PROVE  Waiting' = Waiting \union {f}
<1>1. writeChain \in Seq(Frames)
  BY DEF TypeOK
<1>2. /\ \A i \in 1..Len(writeChain) : writeChain'[i] = writeChain[i]
      /\ writeChain'[Len(writeChain) + 1] = f /\ Len(writeChain) \in Nat
      /\ DOMAIN writeChain' = 1..(Len(writeChain) + 1) /\ DOMAIN writeChain = 1..Len(writeChain)
  BY <1>1
<1> QED
  BY <1>2 DEF Waiting

LEMMA HeadWaits ==
  ASSUME TypeOK, writeChain # <<>>
  PROVE  Head(writeChain) \in Frames /\ Head(writeChain) \in Waiting
<1>1. writeChain \in Seq(Frames)
  BY DEF TypeOK
<1>2. Len(writeChain) \in Nat /\ Len(writeChain) >= 1 /\ Head(writeChain) = writeChain[1] /\ DOMAIN writeChain = 1..Len(writeChain)
  BY <1>1
<1> QED
  BY <1>1, <1>2 DEF Waiting

LEMMA ChainShrinks ==
  ASSUME TypeOK, writeChain # <<>>, writeChain' = Tail(writeChain)
  PROVE  Waiting' \subseteq Waiting
<1>1. writeChain \in Seq(Frames)
  BY DEF TypeOK
<1>2. /\ Len(writeChain) \in Nat /\ Len(writeChain) >= 1
      /\ DOMAIN writeChain = 1..Len(writeChain) /\ DOMAIN writeChain' = 1..(Len(writeChain) - 1)
      /\ \A i \in 1..(Len(writeChain) - 1) : writeChain'[i] = writeChain[i + 1]
  BY <1>1
<1> QED
  BY <1>2 DEF Waiting

\* A frame that waits and answers for a stream is one of its answers, and its handler awaits it.
LEMMA AnswerAwaited ==
  ASSUME TypeOK, AnswersInv, NEW p \in Streams, Answers(p) \intersect Waiting # {}
  PROVE  handler[p] = "answering"
<1>1. PICK i \in DOMAIN writeChain : writeChain[i] \in Answers(p)
  BY DEF Waiting
<1>2. writeChain[i].op \in AnswerOps /\ writeChain[i].id = p
  BY <1>1 DEF Answers, Refusals, Ok, Frame, AnswerOps
<1> QED
  BY <1>2 DEF AnswersInv

\* A frame that answers for one stream does not answer for another, and no other frame answers.
LEMMA AnswersDiffer ==
  ASSUME NEW op, NEW id, NEW p, Frame(op, id) \in Answers(p)
  PROVE  op \in AnswerOps /\ id = p
BY DEF Answers, Refusals, Ok, Frame, AnswerOps

-----------------------------------------------------------------------------
(* What a step does to one stream *)

\* The sockets that were delivered may be accepted and destroyed.
Delivered(p) ==
  \/ socket'[p] = socket[p]
  \/ socket[p] \in {"queued", "accepted"} /\ socket'[p] \in {"accepted", "destroyed"}

\* No answer of the stream is written or gone to the engine, and its handler does not start again.
LEMMA TruthKept ==
  ASSUME NEW p \in Streams, StreamTruth(p), UNCHANGED received, up' => up,
         Answers(p) \intersect Waiting' \subseteq Waiting,
         handler[p] \in Ended => handler'[p] \in Ended, Delivered(p)
  PROVE  StreamTruth(p)'
BY DEF StreamTruth, Delivered, Answers

\* The handler of the stream, which has answered nothing, writes an answer that is true.
LEMMA TruthWritten ==
  ASSUME TypeOK, AnswersInv, NEW p \in Streams, StreamTruth(p), UNCHANGED received,
         handler[p] \notin Ended \union {"answering"},
         Waiting' \subseteq Waiting \union Answers(p),
         Ok(p) \in Waiting' => socket'[p] \in {"queued", "accepted", "destroyed"},
         Refusals(p) \intersect Waiting' # {} => socket'[p] \in {"none", "destroyed"}
  PROVE  StreamTruth(p)'
<1>1. Answers(p) \intersect received = {}
  BY DEF StreamTruth
<1> QED
  BY <1>1 DEF StreamTruth, Answers

\* The steps that concern no stream.
LEMMA TruthUntouched ==
  ASSUME TypeOK, TruthInv, UNCHANGED <<received, handler, socket>>, up' => up,
         \/ UNCHANGED writeChain
         \/ \E op, id : Write(op, id) /\ op \notin AnswerOps
         \/ writeChain # <<>> /\ writeChain' = Tail(writeChain)
  PROVE  TruthInv'
<1> SUFFICES ASSUME NEW p \in Streams PROVE StreamTruth(p)'
  BY DEF TruthInv
<1>1. Answers(p) \intersect Waiting' \subseteq Waiting
  <2>1. CASE UNCHANGED writeChain
    BY <2>1 DEF Waiting
  <2>2. ASSUME NEW op, NEW id, Write(op, id), op \notin AnswerOps
        PROVE  Answers(p) \intersect Waiting' \subseteq Waiting
    BY <2>2, ChainGrows, AnswersDiffer DEF Write
  <2>3. CASE writeChain # <<>> /\ writeChain' = Tail(writeChain)
    BY <2>3, ChainShrinks
  <2> QED
    BY <2>1, <2>2, <2>3
<1> QED
  BY <1>1, TruthKept DEF TruthInv, Delivered

\* A stream that has answered nothing moves, and may write an answer that is true.
LEMMA OneStreamAnswers ==
  ASSUME SocketsInv, TruthInv, NEW p \in Streams, handler[p] \notin Ended \union {"answering"},
         UNCHANGED received, up' => up,
         \/ UNCHANGED writeChain
         \/ Write("proxyConnOk", p) /\ socket'[p] \in {"queued", "accepted", "destroyed"}
         \/ /\ Write("proxyConnClosed", p) \/ Write("proxyConnError", p)
            /\ socket'[p] \in {"none", "destroyed"},
         \A q \in Streams \ {p} : Delivered(q) /\ (handler[q] \in Ended => handler'[q] \in Ended)
  PROVE  TruthInv'
<1>1. TypeOK /\ AnswersInv /\ Answers(p) \intersect Waiting = {}
  BY AnswerAwaited DEF SocketsInv, SlotsInv
<1>2. ASSUME NEW q \in Streams \ {p} PROVE StreamTruth(q)'
  <2>1. Answers(q) \intersect Waiting' \subseteq Waiting
    <3>1. CASE UNCHANGED writeChain
      BY <3>1 DEF Waiting
    <3>2. ASSUME NEW op, Write(op, p) PROVE Answers(q) \intersect Waiting' \subseteq Waiting
      BY <1>1, <3>2, ChainGrows, AnswersDiffer DEF Write
    <3> QED
      BY <3>1, <3>2
  <2> QED
    BY <2>1, TruthKept DEF TruthInv
<1>3. StreamTruth(p)'
  <2>1. CASE UNCHANGED writeChain
    <3>1. Waiting' = Waiting
      BY <2>1 DEF Waiting
    <3> QED
      BY <1>1, <3>1, TruthWritten DEF TruthInv, Answers
  <2>2. CASE Write("proxyConnOk", p) /\ socket'[p] \in {"queued", "accepted", "destroyed"}
    <3>1. Waiting' = Waiting \union {Ok(p)}
      BY <1>1, <2>2, ChainGrows DEF Write, Ok
    <3>2. Ok(p) \notin Refusals(p)
      BY DEF Ok, Refusals, Frame
    <3> QED
      BY <1>1, <2>2, <3>1, <3>2, TruthWritten DEF TruthInv, Answers
  <2>3. ASSUME NEW op \in {"proxyConnClosed", "proxyConnError"}, Write(op, p), socket'[p] \in {"none", "destroyed"}
        PROVE  StreamTruth(p)'
    <3>1. Waiting' = Waiting \union {Frame(op, p)}
      BY <1>1, <2>3, ChainGrows DEF Write
    <3>2. Frame(op, p) \in Refusals(p) /\ Frame(op, p) # Ok(p)
      BY DEF Ok, Refusals, Frame
    <3> QED
      BY <1>1, <2>3, <3>1, <3>2, TruthWritten DEF TruthInv, Answers
  <2> QED
    BY <2>1, <2>2, <2>3
<1> QED
  BY <1>2, <1>3 DEF TruthInv

\* finish() destroys sockets that were delivered and ends no answer.
LEMMA FinishTruth ==
  ASSUME SocketsInv, TruthInv, NEW handlers \in [Streams -> HandlerStates], NEW pending,
         Finish(handlers, pending),
         \A q \in Streams : handler[q] \in Ended => handlers[q] \in Ended
  PROVE  TruthInv'
<1> SUFFICES ASSUME NEW p \in Streams PROVE StreamTruth(p)'
  BY DEF TruthInv
<1>1. handler'[p] = IF handlers[p] = "queued" THEN "dropped" ELSE handlers[p]
  BY DEF Finish
<1>2. UNCHANGED <<received, writeChain>> /\ ~up' /\ Delivered(p)
  BY DEF Finish, CloseTunnels, Disposed, Delivered
<1> QED
  BY <1>1, <1>2, TruthKept DEF TruthInv, Waiting, Ended

\* The frame on the socket is written: an answer is the only one its stream gets.
LEMMA WrittenTruth ==
  ASSUME SocketsInv, TruthInv, WriteCompletes
  PROVE  TruthInv'
<1> DEFINE f == Head(writeChain)
<1>1. /\ TypeOK /\ AnswersInv /\ writeChain # <<>> /\ up
      /\ received' = received \union {f} /\ writeChain' = Tail(writeChain) /\ UNCHANGED <<up, socket>>
  BY DEF WriteCompletes, SocketsInv, SlotsInv
<1>2. f \in Frames /\ f \in Waiting /\ Waiting' \subseteq Waiting
  BY <1>1, HeadWaits, ChainShrinks
<1>3. \/ f.op \notin AnswerOps /\ UNCHANGED handler
      \/ f.op \in AnswerOps /\ handler' = [handler EXCEPT ![f.id] = "ending"]
  BY DEF WriteCompletes, AnswerOps
<1> HIDE DEF f
<1> SUFFICES ASSUME NEW p \in Streams PROVE StreamTruth(p)'
  BY DEF TruthInv
<1>4. StreamTruth(p) /\ handler \in [Streams -> HandlerStates]
  BY <1>1 DEF TruthInv, TypeOK, HandlerStates
<1>5. CASE f \in Answers(p)
  <2>1. f.op \in AnswerOps /\ f.id = p
    BY <1>5 DEF Answers, Refusals, Ok, Frame, AnswerOps
  <2>2. handler[p] = "answering" /\ handler'[p] \in Ended
    BY <1>1, <1>2, <1>3, <1>4, <1>5, <2>1, AnswerAwaited DEF Ended
  <2>3. Answers(p) \intersect received = {}
    BY <1>4, <2>2 DEF StreamTruth, Ended
  <2>4. Ok(p) \notin Refusals(p)
    BY DEF Ok, Refusals, Frame
  <2> QED
    BY <1>1, <1>2, <1>4, <1>5, <2>2, <2>3, <2>4 DEF StreamTruth, Answers
<1>6. CASE f \notin Answers(p)
  <2>1. handler[p] \in Ended => handler'[p] \in Ended
    BY <1>3, <1>4 DEF Ended
  <2> QED
    BY <1>1, <1>2, <1>4, <1>6, <2>1 DEF StreamTruth, Answers
<1> QED
  BY <1>5, <1>6

\* A frame is not written: the second answer of a handler is written to a socket that is gone.
LEMMA UnwrittenTruth ==
  ASSUME SocketsInv, TruthInv, WriteFails
  PROVE  TruthInv'
<1> DEFINE f == Head(writeChain)
<1>1. /\ TypeOK /\ AnswersInv /\ writeChain # <<>>
      /\ UNCHANGED <<received, up, socket>>
  BY DEF WriteFails, SocketsInv, SlotsInv
<1>2. f \in Frames /\ f \in Waiting
  BY <1>1, HeadWaits
<1>3. \/ f.op \notin AnswerOps /\ UNCHANGED handler /\ writeChain' = Tail(writeChain)
      \/ /\ f.op \in AnswerOps /\ ~up /\ handler[f.id] = "answering" /\ f.id \in Streams
         /\ \E s \in HandlerStates : handler' = [handler EXCEPT ![f.id] = s]
  <2>1. f.op \in AnswerOps => ~up
    BY DEF WriteFails, Oversized, AnswerOps
  <2>2. f.op \in AnswerOps => handler[f.id] = "answering" /\ f.id \in Streams
    <3>1. 1 \in DOMAIN writeChain /\ f = writeChain[1]
      BY <1>1 DEF TypeOK
    <3> QED
      BY <1>1, <1>2, <3>1, FrameFields DEF AnswersInv
  <2>3. \/ f.op \in {"openTunnelReq", "closeTunnelReq", "closeControlChannelReq"} /\ UNCHANGED handler /\ writeChain' = Tail(writeChain)
        \/ f.op \in AnswerOps /\ \E s \in {"ending", "failed"} : handler' = [handler EXCEPT ![f.id] = s]
        \/ f.op \in AnswerOps /\ UNCHANGED handler
    BY DEF WriteFails, AnswerOps, closeVars
  <2>4. handler \in [Streams -> HandlerStates]
    BY <1>1 DEF TypeOK, HandlerStates
  <2>5. ASSUME f.op \in AnswerOps, UNCHANGED handler PROVE handler' = [handler EXCEPT ![f.id] = "answering"]
    BY <2>2, <2>4, <2>5
  <2> QED
    BY <2>1, <2>2, <2>3, <2>5 DEF AnswerOps, HandlerStates
<1> HIDE DEF f
<1>4. CASE f.op \notin AnswerOps /\ UNCHANGED handler /\ writeChain' = Tail(writeChain)
  BY <1>1, <1>4, TruthUntouched
<1>5. CASE /\ f.op \in AnswerOps /\ ~up /\ handler[f.id] = "answering" /\ f.id \in Streams
           /\ \E s \in HandlerStates : handler' = [handler EXCEPT ![f.id] = s]
  <2> SUFFICES ASSUME NEW p \in Streams PROVE StreamTruth(p)'
    BY DEF TruthInv
  <2>1. StreamTruth(p) /\ handler \in [Streams -> HandlerStates]
    BY <1>1 DEF TruthInv, TypeOK, HandlerStates
  <2>2. handler[p] \in Ended => handler'[p] \in Ended
    BY <1>5, <2>1 DEF Ended
  <2>3. Ok(p) \in Waiting' => Ok(p) \in Waiting
    <3> DEFINE rest == Tail(writeChain)
    <3>1. writeChain \in Seq(Frames) /\ rest \in Seq(Frames)
      BY <1>1 DEF TypeOK
    <3>2. \A i \in DOMAIN rest : rest[i] \in Waiting
      <4>1. /\ Len(writeChain) \in Nat /\ Len(writeChain) >= 1
            /\ DOMAIN writeChain = 1..Len(writeChain) /\ DOMAIN rest = 1..(Len(writeChain) - 1)
            /\ \A i \in 1..(Len(writeChain) - 1) : rest[i] = writeChain[i + 1]
        BY <1>1, <3>1
      <4> QED
        BY <4>1 DEF Waiting
    <3>3. writeChain' = rest \/ \E q : writeChain' = Append(rest, Frame("proxyConnError", q))
      BY DEF WriteFails
    <3>4. ASSUME NEW q, writeChain' = Append(rest, Frame("proxyConnError", q))
          PROVE  \A i \in DOMAIN writeChain' : writeChain'[i] \in Waiting \/ writeChain'[i] = Frame("proxyConnError", q)
      <4> HIDE DEF rest
      <4>1. /\ \A i \in 1..Len(rest) : writeChain'[i] = rest[i]
            /\ writeChain'[Len(rest) + 1] = Frame("proxyConnError", q) /\ Len(rest) \in Nat
            /\ DOMAIN writeChain' = 1..(Len(rest) + 1) /\ DOMAIN rest = 1..Len(rest)
        BY <3>1, <3>4
      <4> QED
        BY <3>2, <4>1
    <3>5. \A q : Ok(p) # Frame("proxyConnError", q)
      BY DEF Ok, Frame
    <3> HIDE DEF rest
    <3>6. CASE writeChain' = rest
      BY <3>2, <3>6 DEF Waiting
    <3>7. ASSUME NEW q, writeChain' = Append(rest, Frame("proxyConnError", q)), Ok(p) \in Waiting'
          PROVE  Ok(p) \in Waiting
      BY <3>4, <3>5, <3>7 DEF Waiting
    <3> QED
      BY <3>3, <3>6, <3>7
  <2> QED
    BY <1>1, <1>5, <2>1, <2>2, <2>3 DEF StreamTruth
<1> QED
  BY <1>3, <1>4, <1>5

\* A handler starts: it refuses a stream that has no socket.
LEMMA StartTruth ==
  ASSUME SocketsInv, TruthInv, NEW p \in Streams, handler[p] \in {"idle", "queued"},
         NEW handlers \in [Streams -> HandlerStates], StartHandler(handlers, p),
         UNCHANGED <<received, up, socket>>,
         \A q \in Streams : handler[q] \in Ended => handlers[q] \in Ended
  PROVE  TruthInv'
<1>1. handler[p] \notin Ended \union {"answering"} /\ socket[p] = "none"
  BY DEF SocketsInv, HandshakeInv, Early, Ended
<1>2. \A q \in Streams \ {p} : Delivered(q) /\ (handler[q] \in Ended => handler'[q] \in Ended)
  <2>1. \E s \in {"dialling", "answering", "failed"} : handler' = [handlers EXCEPT ![p] = s]
    BY DEF StartHandler
  <2> QED
    BY <2>1 DEF Delivered
<1>3. UNCHANGED writeChain \/ (Write("proxyConnError", p) /\ socket'[p] \in {"none", "destroyed"})
  BY <1>1 DEF StartHandler
<1> QED
  BY <1>1, <1>2, <1>3, OneStreamAnswers

LEMMA RequestTruth ==
  ASSUME SocketsInv, TruthInv, HandleProxyConnReq
  PROVE  TruthInv'
<1> DEFINE p == message.id
<1>1. /\ handler \in [Streams -> HandlerStates] /\ p \in Streams /\ handler[p] = "idle" /\ TypeOK
  <2>1. message.kind = "proxyConnReq" /\ message \in Messages \union {None} /\ TypeOK /\ RequestInv
    BY DEF HandleProxyConnReq, SocketsInv, SlotsInv, TypeOK
  <2>2. p \in Streams
    BY <2>1 DEF Messages, None
  <2> QED
    BY <2>1, <2>2 DEF TypeOK, HandlerStates, RequestInv
<1>2. \/ StartHandler(handler, p) /\ UNCHANGED <<received, up, socket>>
      \/ \E s \in {"queued", "dropped"} : handler' = [handler EXCEPT ![p] = s] /\ UNCHANGED <<received, up, socket, writeChain>>
      \/ Finish([handler EXCEPT ![p] = "dropped"], pendingTunnels)
  BY DEF HandleProxyConnReq, channelVars
<1> HIDE DEF p
<1>3. CASE StartHandler(handler, p) /\ UNCHANGED <<received, up, socket>>
  BY <1>1, <1>3, StartTruth
<1>4. CASE \E s \in {"queued", "dropped"} : handler' = [handler EXCEPT ![p] = s] /\ UNCHANGED <<received, up, socket, writeChain>>
  <2>1. \A q \in Streams \ {p} : Delivered(q) /\ (handler[q] \in Ended => handler'[q] \in Ended)
    BY <1>1, <1>4 DEF Delivered
  <2> QED
    BY <1>1, <1>4, <2>1, OneStreamAnswers DEF Ended
<1>5. CASE Finish([handler EXCEPT ![p] = "dropped"], pendingTunnels)
  <2> DEFINE handlers == [handler EXCEPT ![p] = "dropped"]
  <2>1. handlers \in [Streams -> HandlerStates]
        /\ \A q \in Streams : handler[q] \in Ended => handlers[q] \in Ended
    BY <1>1 DEF HandlerStates, Ended
  <2> HIDE DEF handlers
  <2>2. Finish(handlers, pendingTunnels)
    BY <1>5 DEF handlers
  <2> QED
    BY <2>1, <2>2, FinishTruth
<1> QED
  BY <1>2, <1>3, <1>4, <1>5

LEMMA EndTruth ==
  ASSUME SocketsInv, TruthInv, NEW p \in Streams, EndHandler(p)
  PROVE  TruthInv'
<1> DEFINE handlers == [handler EXCEPT ![p] = "done"]
<1>1. handler \in [Streams -> HandlerStates] /\ proxyQueue \in Seq(Streams) /\ TypeOK
  BY DEF SocketsInv, SlotsInv, TypeOK, HandlerStates
<1>2. /\ handlers \in [Streams -> HandlerStates]
      /\ \A q \in Streams : handler[q] \in Ended => handlers[q] \in Ended
  BY <1>1 DEF HandlerStates, Ended
<1>3. UNCHANGED <<received, up, socket>>
  BY DEF EndHandler, channelVars
<1>4. \/ handler' = handlers /\ UNCHANGED writeChain
      \/ proxyQueue # <<>> /\ StartHandler(handlers, Head(proxyQueue))
  BY DEF EndHandler, Drains
<1> HIDE DEF handlers
<1>5. CASE handler' = handlers /\ UNCHANGED writeChain
  <2> SUFFICES ASSUME NEW q \in Streams PROVE StreamTruth(q)'
    BY DEF TruthInv
  <2> QED
    BY <1>2, <1>3, <1>5, TruthKept DEF TruthInv, Delivered, Waiting
<1>6. CASE proxyQueue # <<>> /\ StartHandler(handlers, Head(proxyQueue))
  <2>1. /\ 1 \in DOMAIN proxyQueue /\ Head(proxyQueue) = proxyQueue[1] /\ Head(proxyQueue) \in Streams
    BY <1>1, <1>6
  <2>2. handler[Head(proxyQueue)] \in {"idle", "queued"}
    BY <2>1 DEF SocketsInv, SlotsInv, QueueInv
  <2> QED
    BY <1>2, <1>3, <1>6, <2>1, <2>2, StartTruth
<1> QED
  BY <1>4, <1>5, <1>6

\* A dial ends, or a handshake does: the socket is open no more, or was never there.
LEMMA DialTruth ==
  ASSUME SocketsInv, TruthInv, NEW p \in Streams,
         DialConnects(p) \/ DialFails(p) \/ ProxyOpens(p) \/ ProxyFails(p)
  PROVE  TruthInv'
<1>1. /\ handler \in [Streams -> HandlerStates] /\ socket \in [Streams -> SocketStates]
      /\ handler[p] \notin Ended \union {"answering"}
  BY DEF SocketsInv, SlotsInv, TypeOK, HandlerStates, SocketStates, Ended,
         DialConnects, DialFails, ProxyOpens, ProxyFails
<1>2. UNCHANGED <<received, up>>
  BY DEF DialConnects, DialFails, ProxyOpens, ProxyFails, channelVars
<1>3. \E s \in HandlerStates : handler' = [handler EXCEPT ![p] = s]
  BY DEF DialConnects, DialFails, ProxyOpens, ProxyFails, RefuseStream, HandlerStates
<1>4. socket' = socket \/ \E s \in SocketStates : socket' = [socket EXCEPT ![p] = s]
  BY DEF DialConnects, DialFails, ProxyOpens, ProxyFails, Deliver, SocketStates
<1>5. \A q \in Streams \ {p} : Delivered(q) /\ (handler[q] \in Ended => handler'[q] \in Ended)
  BY <1>1, <1>3, <1>4 DEF Delivered
<1>6. \/ UNCHANGED writeChain
      \/ Write("proxyConnOk", p) /\ socket'[p] \in {"queued", "accepted", "destroyed"}
      \/ /\ Write("proxyConnClosed", p) \/ Write("proxyConnError", p)
         /\ socket'[p] \in {"none", "destroyed"}
  <2>1. CASE DialConnects(p)
    BY <2>1 DEF DialConnects
  <2>2. CASE DialFails(p)
    <3>1. socket[p] = "none" /\ UNCHANGED socket
      BY <2>2 DEF DialFails, SocketsInv, HandshakeInv, Early
    <3> QED
      BY <2>2, <3>1 DEF DialFails, RefuseStream
  <2>3. CASE ProxyOpens(p)
    BY <1>1, <2>3 DEF ProxyOpens, Deliver
  <2>4. CASE ProxyFails(p)
    BY <1>1, <2>4 DEF ProxyFails, RefuseStream
  <2> QED
    BY <2>1, <2>2, <2>3, <2>4
<1> QED
  BY <1>1, <1>2, <1>5, <1>6, OneStreamAnswers

LEMMA StepTruthInv == SocketsInv /\ TruthInv /\ [Next]_vars => TruthInv'
<1> SUFFICES ASSUME SocketsInv, TruthInv, [Next]_vars PROVE TruthInv'
  OBVIOUS
<1>1. TypeOK /\ handler \in [Streams -> HandlerStates] /\ socket \in [Streams -> SocketStates]
  BY DEF SocketsInv, SlotsInv, TypeOK, HandlerStates, SocketStates
\* The usual steps: nothing but a call or the chain moves, or only sockets that were delivered.
<1>2. ASSUME UNCHANGED <<received, handler, socket>>, up' => up,
             UNCHANGED writeChain \/ \E op, id : Write(op, id) /\ op \notin AnswerOps
      PROVE  TruthInv'
  BY <1>1, <1>2, TruthUntouched
<1>3. ASSUME UNCHANGED <<received, handler, writeChain>>, up' => up, \A q \in Streams : Delivered(q)
      PROVE  TruthInv'
  <2> SUFFICES ASSUME NEW q \in Streams PROVE StreamTruth(q)'
    BY DEF TruthInv
  <2> QED
    BY <1>3, TruthKept DEF TruthInv, Waiting
<1>4. ASSUME NEW pending, Finish(handler, pending) PROVE TruthInv'
  BY <1>1, <1>4, FinishTruth
<1>5. ASSUME NEW t \in Tunnels, CreateTunnel(t) PROVE TruthInv'
  BY <1>2, <1>5 DEF CreateTunnel, proxyVars, channelVars, AnswerOps
<1>6. ASSUME NEW t \in Tunnels, NEW a \in Tasks, CloseTunnel(t, a) PROVE TruthInv'
  BY <1>2, <1>6 DEF CloseTunnel, proxyVars, channelVars, AnswerOps
<1>7. ASSUME NEW t \in Tunnels, NEW a \in Tasks, Accept(t, a) PROVE TruthInv'
  <2>1. UNCHANGED <<received, handler, writeChain, up>>
    BY <1>7 DEF Accept, channelVars
  <2>2. UNCHANGED socket \/ (values[t] # <<>> /\ socket' = [socket EXCEPT ![Head(values[t])] = "accepted"])
    BY <1>7 DEF Accept
  <2>3. CASE values[t] # <<>> /\ socket' = [socket EXCEPT ![Head(values[t])] = "accepted"]
    <3>1. 1 \in DOMAIN values[t] /\ Head(values[t]) = values[t][1]
      BY <1>1, <2>3 DEF TypeOK
    <3>2. socket[Head(values[t])] = "queued"
      BY <3>1 DEF SocketsInv, LineInv
    <3> QED
      BY <1>1, <1>3, <2>1, <2>3, <3>2 DEF Delivered
  <2> QED
    BY <1>3, <2>1, <2>2, <2>3 DEF Delivered
<1>8. ASSUME NEW t \in Tunnels, NEW a \in Tasks, AbortAccept(t, a) PROVE TruthInv'
  BY <1>2, <1>8 DEF AbortAccept, proxyVars, channelVars
<1>9. ASSUME NEW a \in Tasks, Close(a) PROVE TruthInv'
  BY <1>2, <1>9 DEF Close, proxyVars, AnswerOps
<1>10. CASE WriteCompletes
  BY <1>10, WrittenTruth
<1>11. CASE WriteFails
  BY <1>11, UnwrittenTruth
<1>12. ASSUME NEW m \in Messages, EngineSends(m) PROVE TruthInv'
  BY <1>2, <1>12 DEF EngineSends, proxyVars, channelVars
<1>13. CASE HandleOpenTunnelRsp
  BY <1>2, <1>4, <1>13 DEF HandleOpenTunnelRsp, proxyVars, channelVars
<1>14. CASE HandleCloseTunnelRsp
  <2>1. \A q \in Streams : Delivered(q)
    BY <1>14 DEF HandleCloseTunnelRsp, CloseTunnels, Disposed, Delivered
  <2> QED
    BY <1>3, <1>14, <2>1 DEF HandleCloseTunnelRsp, channelVars
<1>15. CASE HandleProxyConnReq
  BY <1>15, RequestTruth
<1>16. CASE HandleCloseControlChannelRsp
  BY <1>2, <1>4, <1>16 DEF HandleCloseControlChannelRsp, proxyVars, channelVars
<1>17. CASE SocketBreaks
  BY <1>2, <1>17 DEF SocketBreaks, proxyVars
<1>18. CASE ReaderFails \/ LivenessFails
  BY <1>4, <1>18 DEF ReaderFails, LivenessFails
<1>19. ASSUME NEW p \in Streams, DialConnects(p) \/ DialFails(p) \/ ProxyOpens(p) \/ ProxyFails(p) PROVE TruthInv'
  BY <1>19, DialTruth
<1>20. ASSUME NEW p \in Streams, CatchHandler(p) PROVE TruthInv'
  <2> DEFINE handlers == [handler EXCEPT ![p] = "ending"]
  <2>1. /\ handlers \in [Streams -> HandlerStates]
        /\ \A q \in Streams : handler[q] \in Ended => handlers[q] \in Ended
    BY <1>1 DEF HandlerStates, Ended
  <2>2. \/ Finish(handlers, pendingTunnels)
        \/ handler' = handlers /\ UNCHANGED <<received, up, socket, writeChain>>
    BY <1>20 DEF CatchHandler, channelVars
  <2> HIDE DEF handlers
  <2>3. CASE Finish(handlers, pendingTunnels)
    BY <2>1, <2>3, FinishTruth
  <2>4. CASE handler' = handlers /\ UNCHANGED <<received, up, socket, writeChain>>
    <3> SUFFICES ASSUME NEW q \in Streams PROVE StreamTruth(q)'
      BY DEF TruthInv
    <3> QED
      BY <2>1, <2>4, TruthKept DEF TruthInv, Delivered, Waiting
  <2> QED
    BY <2>2, <2>3, <2>4
<1>21. ASSUME NEW p \in Streams, EndHandler(p) PROVE TruthInv'
  BY <1>21, EndTruth
<1>22. CASE UNCHANGED vars
  BY <1>2, <1>22 DEF vars, proxyVars, channelVars
<1> QED
  BY <1>5, <1>6, <1>7, <1>8, <1>9, <1>10, <1>11, <1>12, <1>13, <1>14, <1>15, <1>16, <1>17, <1>18,
     <1>19, <1>20, <1>21, <1>22 DEF Next, HandleMessage

LEMMA InitTruthInv == Init => TruthInv
<1> SUFFICES ASSUME Init, NEW p \in Streams PROVE StreamTruth(p)
  BY DEF TruthInv
<1>1. Waiting = {} /\ received = {} /\ socket[p] = "none"
  BY DEF Init, Waiting
<1> QED
  BY <1>1 DEF StreamTruth

\* Whatever the handlers, the engine, the application and the writes interleave to, the engine
\* is told the truth of each stream: success of a socket that was delivered, failure of one
\* that no application can hold, and never both (handleProxyConnReq and its catch, write).
THEOREM EngineToldTheTruth == Spec => []AnswersTruthful
<1>1. Spec => []TruthInv
  BY InitTruthInv, StepTruthInv, SpecSocketsInv, PTL DEF Spec
<1> QED
  BY <1>1, TruthFromInv, PTL

-----------------------------------------------------------------------------
(* Closing a tunnel: its request is in the chain or gone to the engine once, because the  *)
(* call that wrote it left its mark, which only the end of the tunnel or the failure of   *)
(* that very write takes away.                                                            *)

CloseFrame(t) == Frame("closeTunnelReq", t)

\* A frame is in the chain at one place, and there only until the engine has it.
OnlyOnce(f) ==
  \A i \in DOMAIN writeChain : writeChain[i] = f =>
    /\ f \notin received
    /\ \A j \in DOMAIN writeChain : writeChain[j] = f => i = j

CloseMarked(t) ==
  /\ CloseFrame(t) \in Waiting \union received => t \in pendingCloses \/ tunnel[t] = "closed"
  /\ t \in pendingCloses => tunnel[t] # "none"

ClosesInv == \A t \in Tunnels : OnlyOnce(CloseFrame(t)) /\ CloseMarked(t)

LEMMA CoalescedFromInv == ClosesInv => ClosesCoalesced
<1> SUFFICES ASSUME ClosesInv, NEW t \in Tunnels PROVE OnlyOnce(CloseFrame(t))
  BY DEF ClosesCoalesced, OnlyOnce, CloseFrame
<1> QED
  BY DEF ClosesInv

LEMMA OnceStays ==
  ASSUME NEW f, OnlyOnce(f), UNCHANGED <<writeChain, received>>
  PROVE  OnlyOnce(f)' /\ Waiting' = Waiting
BY DEF OnlyOnce, Waiting

LEMMA OnceGrows ==
  ASSUME TypeOK, NEW f, OnlyOnce(f), NEW g, writeChain' = Append(writeChain, g),
         UNCHANGED received, g = f => f \notin Waiting \union received
  PROVE  OnlyOnce(f)'
<1>1. writeChain \in Seq(Frames)
  BY DEF TypeOK
<1>2. /\ \A i \in 1..Len(writeChain) : writeChain'[i] = writeChain[i]
      /\ writeChain'[Len(writeChain) + 1] = g /\ Len(writeChain) \in Nat
      /\ DOMAIN writeChain' = 1..(Len(writeChain) + 1) /\ DOMAIN writeChain = 1..Len(writeChain)
  BY <1>1
<1>3. \A i \in DOMAIN writeChain : writeChain[i] \in Waiting
  BY DEF Waiting
<1> QED
  BY <1>2, <1>3 DEF OnlyOnce

LEMMA OnceShrinks ==
  ASSUME TypeOK, NEW f, OnlyOnce(f), writeChain # <<>>, \A p : f # Frame("proxyConnError", p),
         \/ writeChain' = Tail(writeChain)
         \/ \E p : writeChain' = Append(Tail(writeChain), Frame("proxyConnError", p)),
         UNCHANGED received \/ received' = received \union {Head(writeChain)}
  PROVE  OnlyOnce(f)' /\ (f \in Waiting' => f \in Waiting /\ f # Head(writeChain))
<1> DEFINE rest == Tail(writeChain)
           n == Len(writeChain)
<1>1. writeChain \in Seq(Frames) /\ rest \in Seq(Frames)
  BY DEF TypeOK
<1>2. /\ n \in Nat /\ n >= 1 /\ Head(writeChain) = writeChain[1] /\ DOMAIN writeChain = 1..n
      /\ Len(rest) = n - 1 /\ DOMAIN rest = 1..(n - 1)
      /\ \A i \in 1..(n - 1) : rest[i] = writeChain[i + 1]
  BY <1>1
<1> HIDE DEF rest
<1>3. writeChain' = rest \/ \E g : g # f /\ writeChain' = Append(rest, g)
  BY DEF rest
<1>4. /\ n - 1 \in Nat
      /\ \A i \in 1..(n - 1) : writeChain'[i] = writeChain[i + 1] /\ i \in DOMAIN writeChain'
      /\ \A i \in DOMAIN writeChain' : writeChain'[i] = f => i \in 1..(n - 1)
  <2>1. CASE writeChain' = rest
    <3>1. DOMAIN writeChain' = 1..(n - 1)
      BY <1>2, <2>1
    <3> HIDE DEF n
    <3> QED
      BY <1>2, <2>1, <3>1
  <2>2. ASSUME NEW g, g # f, writeChain' = Append(rest, g)
        PROVE  /\ \A i \in 1..(n - 1) : writeChain'[i] = writeChain[i + 1] /\ i \in DOMAIN writeChain'
               /\ \A i \in DOMAIN writeChain' : writeChain'[i] = f => i \in 1..(n - 1)
    <3>1. /\ \A i \in 1..Len(rest) : writeChain'[i] = rest[i]
          /\ writeChain'[Len(rest) + 1] = g /\ DOMAIN writeChain' = 1..(Len(rest) + 1)
      BY <1>1, <2>2
    <3> HIDE DEF n
    <3> QED
      BY <1>2, <2>2, <3>1
  <2> QED
    BY <1>2, <1>3, <2>1, <2>2
<1>5. \A i \in 1..n : writeChain[i] = f =>
        f \notin received /\ \A j \in 1..n : writeChain[j] = f => i = j
  BY <1>2 DEF OnlyOnce
<1> HIDE DEF n
<1>6. \A i \in 1..(n - 1) : i + 1 \in 1..n /\ i + 1 # 1 /\ 1 \in 1..n
  BY <1>2
<1>7. ASSUME NEW i \in DOMAIN writeChain', writeChain'[i] = f
      PROVE  f \notin received' /\ f # Head(writeChain) /\ f \in Waiting
             /\ \A j \in DOMAIN writeChain' : writeChain'[j] = f => i = j
  <2>1. i \in 1..(n - 1) /\ writeChain[i + 1] = f
    BY <1>4, <1>7
  <2>2. f \notin received /\ f # writeChain[1] /\ f \in Waiting
    <3>1. writeChain[1] = f => i + 1 = 1
      BY <1>5, <1>6, <2>1
    <3> QED
      BY <1>2, <1>5, <1>6, <2>1, <3>1 DEF Waiting
  <2>3. ASSUME NEW j \in DOMAIN writeChain', writeChain'[j] = f PROVE i = j
    <3>1. j \in 1..(n - 1) /\ writeChain[j + 1] = f
      BY <1>4, <2>3
    <3>2. i + 1 = j + 1
      BY <1>5, <1>6, <2>1, <3>1
    <3> QED
      BY <2>1, <3>1, <3>2
  <2> QED
    BY <1>2, <2>2, <2>3
<1> QED
  BY <1>7 DEF OnlyOnce, Waiting

\* A step keeps the marks: one goes only with its tunnel, and a tunnel that is closed stays so.
MarksKept(t) ==
  /\ t \in pendingCloses' => t \in pendingCloses
  /\ t \in pendingCloses => t \in pendingCloses' \/ tunnel'[t] = "closed"
  /\ tunnel[t] = "closed" => tunnel'[t] = "closed"
  /\ tunnel[t] # "none" => tunnel'[t] # "none"

\* The steps that write no request to close.
LEMMA ClosesStay ==
  ASSUME TypeOK, ClosesInv, UNCHANGED received, \A t \in Tunnels : MarksKept(t),
         \/ UNCHANGED writeChain
         \/ \E op, id : Write(op, id) /\ op # "closeTunnelReq"
  PROVE  ClosesInv'
<1> SUFFICES ASSUME NEW t \in Tunnels PROVE OnlyOnce(CloseFrame(t))' /\ CloseMarked(t)'
  BY DEF ClosesInv
<1>1. OnlyOnce(CloseFrame(t))' /\ (CloseFrame(t) \in Waiting' => CloseFrame(t) \in Waiting)
  <2>1. CASE UNCHANGED writeChain
    BY <2>1, OnceStays DEF ClosesInv
  <2>2. ASSUME NEW op, NEW id, Write(op, id), op # "closeTunnelReq"
        PROVE  OnlyOnce(CloseFrame(t))' /\ (CloseFrame(t) \in Waiting' => CloseFrame(t) \in Waiting)
    <3>1. Frame(op, id) # CloseFrame(t)
      BY <2>2 DEF Frame, CloseFrame
    <3> QED
      BY <2>2, <3>1, OnceGrows, ChainGrows DEF Write, ClosesInv
  <2> QED
    BY <2>1, <2>2
<1>2. CloseMarked(t) /\ MarksKept(t)
  BY DEF ClosesInv
<1>3. CloseFrame(t)' = CloseFrame(t)
  BY DEF CloseFrame, Frame
<1> QED
  BY <1>1, <1>2, <1>3 DEF CloseMarked, MarksKept

\* finish() forgets every close and closes every tunnel.
LEMMA FinishCloses ==
  ASSUME TypeOK, ClosesInv, NEW handlers, NEW pending, Finish(handlers, pending)
  PROVE  ClosesInv'
<1>1. UNCHANGED <<received, writeChain>>
  BY DEF Finish
<1>2. ASSUME NEW t \in Tunnels PROVE MarksKept(t)
  <2>1. tunnel'[t] = IF tunnel[t] = "open" THEN "closed" ELSE tunnel[t]
    BY DEF Finish, CloseTunnels, OpenTunnels
  <2>2. tunnel[t] \in {"none", "open", "closed"} /\ pendingCloses' = {}
    BY DEF TypeOK, Finish
  <2> QED
    BY <2>1, <2>2 DEF MarksKept, ClosesInv, CloseMarked
<1> QED
  BY <1>1, <1>2, ClosesStay

\* tunnel.close() writes the request of a tunnel that has no mark, so none was written before.
LEMMA CloseCloses ==
  ASSUME TypeOK, ClosesInv, NEW u \in Tunnels, NEW a \in Tasks, CloseTunnel(u, a)
  PROVE  ClosesInv'
<1>1. UNCHANGED <<received, tunnel>>
  BY DEF CloseTunnel
<1>2. CASE UNCHANGED <<pendingCloses, writeChain>>
  BY <1>1, <1>2, ClosesStay DEF MarksKept
<1>3. CASE /\ tunnel[u] = "open" /\ u \notin pendingCloses /\ pendingCloses' = pendingCloses \union {u}
           /\ Write("closeTunnelReq", u)
  <2> SUFFICES ASSUME NEW t \in Tunnels PROVE OnlyOnce(CloseFrame(t))' /\ CloseMarked(t)'
    BY DEF ClosesInv
  <2>1. OnlyOnce(CloseFrame(t)) /\ CloseMarked(t) /\ CloseMarked(u)
    BY DEF ClosesInv
  <2>2. CloseFrame(u) \notin Waiting \union received
    BY <1>3, <2>1 DEF CloseMarked
  <2>3. Waiting' = Waiting \union {CloseFrame(u)}
    BY <1>3, ChainGrows DEF Write, CloseFrame
  <2>4. OnlyOnce(CloseFrame(t))'
    BY <1>1, <1>3, <2>1, <2>2, OnceGrows DEF Write, CloseFrame
  <2>5. CloseFrame(t) = CloseFrame(u) => t = u
    BY DEF CloseFrame, Frame
  <2>6. CloseFrame(t)' = CloseFrame(t)
    BY DEF CloseFrame, Frame
  <2> QED
    BY <1>1, <1>3, <2>1, <2>3, <2>4, <2>5, <2>6 DEF CloseMarked
<1> QED
  BY <1>2, <1>3 DEF CloseTunnel, CloseUnderway

\* The frame on the socket is written, or is not: its own mark goes with it only when it is not.
LEMMA WriteCloses ==
  ASSUME TypeOK, ClosesInv, WriteCompletes \/ WriteFails
  PROVE  ClosesInv'
<1> SUFFICES ASSUME NEW t \in Tunnels PROVE OnlyOnce(CloseFrame(t))' /\ CloseMarked(t)'
  BY DEF ClosesInv
<1> DEFINE f == Head(writeChain)
<1>1. /\ writeChain # <<>> /\ UNCHANGED tunnel
      /\ \/ writeChain' = Tail(writeChain)
         \/ \E p : writeChain' = Append(Tail(writeChain), Frame("proxyConnError", p))
      /\ \/ received' = received /\ (pendingCloses' = pendingCloses \/ (f.op = "closeTunnelReq" /\ pendingCloses' = pendingCloses \ {f.id}))
         \/ received' = received \union {f} /\ pendingCloses' = pendingCloses
  BY DEF WriteCompletes, WriteFails, closeVars
<1>2. f \in Frames /\ f \in Waiting
  BY <1>1, HeadWaits
<1>3. OnlyOnce(CloseFrame(t)) /\ CloseMarked(t)
  BY DEF ClosesInv
<1>4. OnlyOnce(CloseFrame(t))' /\ (CloseFrame(t) \in Waiting' => CloseFrame(t) \in Waiting /\ CloseFrame(t) # f)
  <2>1. \A p : CloseFrame(t) # Frame("proxyConnError", p)
    BY DEF CloseFrame, Frame
  <2> QED
    BY <1>1, <1>3, <2>1, OnceShrinks
<1>5. f = CloseFrame(t) => CloseFrame(t) \notin received
  BY <1>2, <1>3 DEF OnlyOnce, Waiting
<1>6. f.op = "closeTunnelReq" /\ f.id = t => f = CloseFrame(t)
  BY <1>2, FrameFields DEF CloseFrame
<1>7. CloseFrame(t)' = CloseFrame(t)
  BY DEF CloseFrame, Frame
<1> HIDE DEF f
<1> QED
  BY <1>1, <1>2, <1>3, <1>4, <1>5, <1>6, <1>7 DEF CloseMarked

LEMMA StepClosesInv == SocketsInv /\ ClosesInv /\ [Next]_vars => ClosesInv'
<1> SUFFICES ASSUME SocketsInv, ClosesInv, [Next]_vars PROVE ClosesInv'
  OBVIOUS
<1>1. TypeOK
  BY DEF SocketsInv, SlotsInv
\* The usual step: no tunnel closes, and no close is marked.
<1>2. ASSUME UNCHANGED <<received, pendingCloses, tunnel>>,
             UNCHANGED writeChain \/ \E op, id : Write(op, id) /\ op # "closeTunnelReq"
      PROVE  ClosesInv'
  BY <1>1, <1>2, ClosesStay DEF MarksKept
<1>3. ASSUME NEW handlers, NEW pending, Finish(handlers, pending) PROVE ClosesInv'
  BY <1>1, <1>3, FinishCloses
<1>4. ASSUME NEW t \in Tunnels, CreateTunnel(t) PROVE ClosesInv'
  BY <1>2, <1>4 DEF CreateTunnel, closeVars
<1>5. ASSUME NEW t \in Tunnels, NEW a \in Tasks, CloseTunnel(t, a) PROVE ClosesInv'
  BY <1>1, <1>5, CloseCloses
<1>6. ASSUME NEW t \in Tunnels, NEW a \in Tasks, Accept(t, a) \/ AbortAccept(t, a) PROVE ClosesInv'
  BY <1>2, <1>6 DEF Accept, AbortAccept, closeVars
<1>7. ASSUME NEW a \in Tasks, Close(a) PROVE ClosesInv'
  BY <1>2, <1>7 DEF Close, closeVars
<1>8. CASE WriteCompletes \/ WriteFails
  BY <1>1, <1>8, WriteCloses
<1>9. ASSUME NEW m \in Messages, EngineSends(m) PROVE ClosesInv'
  BY <1>2, <1>9 DEF EngineSends, closeVars
<1>10. CASE HandleOpenTunnelRsp
  <2>1. CASE /\ message.id \in pendingTunnels /\ tunnel' = [tunnel EXCEPT ![message.id] = "open"]
             /\ UNCHANGED <<received, writeChain, pendingCloses>>
    <3>1. ASSUME NEW t \in Tunnels PROVE MarksKept(t)
      <4>1. tunnel[message.id] = "none"
        BY <2>1 DEF SocketsInv, OpeningInv
      <4> QED
        BY <1>1, <2>1, <4>1 DEF MarksKept, TypeOK
    <3> QED
      BY <1>1, <2>1, <3>1, ClosesStay
  <2> QED
    BY <1>2, <1>3, <1>10, <2>1 DEF HandleOpenTunnelRsp, closeVars
<1>11. CASE HandleCloseTunnelRsp
  <2>1. /\ UNCHANGED <<received, writeChain>> /\ pendingCloses' = pendingCloses \ {message.id}
        /\ \A t \in Tunnels : tunnel'[t] = IF t = message.id /\ tunnel[t] = "open" THEN "closed" ELSE tunnel[t]
    BY <1>11 DEF HandleCloseTunnelRsp, CloseTunnels, OpenTunnels
  <2>2. ASSUME NEW t \in Tunnels PROVE MarksKept(t)
    <3>1. tunnel[t] \in {"none", "open", "closed"} /\ CloseMarked(t)
      BY <1>1 DEF TypeOK, ClosesInv
    <3> QED
      BY <2>1, <3>1 DEF MarksKept, CloseMarked
  <2> QED
    BY <1>1, <2>1, <2>2, ClosesStay
<1>12. ASSUME NEW handlers, NEW p, StartHandler(handlers, p), UNCHANGED <<received, pendingCloses, tunnel>> PROVE ClosesInv'
  BY <1>2, <1>12 DEF StartHandler
<1>13. CASE HandleProxyConnReq
  BY <1>2, <1>3, <1>12, <1>13 DEF HandleProxyConnReq, closeVars
<1>14. CASE HandleCloseControlChannelRsp
  BY <1>2, <1>3, <1>14 DEF HandleCloseControlChannelRsp, closeVars
<1>15. CASE SocketBreaks
  BY <1>2, <1>15 DEF SocketBreaks, closeVars
<1>16. CASE ReaderFails \/ LivenessFails
  BY <1>3, <1>16 DEF ReaderFails, LivenessFails
<1>17. ASSUME NEW p \in Streams, DialConnects(p) \/ DialFails(p) \/ ProxyOpens(p) \/ ProxyFails(p) PROVE ClosesInv'
  BY <1>2, <1>17 DEF DialConnects, DialFails, ProxyOpens, ProxyFails, RefuseStream, closeVars
<1>18. ASSUME NEW p \in Streams, CatchHandler(p) PROVE ClosesInv'
  BY <1>2, <1>3, <1>18 DEF CatchHandler, closeVars
<1>19. ASSUME NEW p \in Streams, EndHandler(p) PROVE ClosesInv'
  BY <1>2, <1>12, <1>19 DEF EndHandler, closeVars
<1>20. CASE UNCHANGED vars
  BY <1>2, <1>20 DEF vars, closeVars
<1> QED
  BY <1>4, <1>5, <1>6, <1>7, <1>8, <1>9, <1>10, <1>11, <1>13, <1>14, <1>15, <1>16, <1>17, <1>18,
     <1>19, <1>20 DEF Next, HandleMessage

LEMMA InitClosesInv == Init => ClosesInv
<1> SUFFICES ASSUME Init, NEW t \in Tunnels PROVE OnlyOnce(CloseFrame(t)) /\ CloseMarked(t)
  BY DEF ClosesInv
<1>1. Waiting = {} /\ received = {} /\ writeChain = <<>> /\ pendingCloses = {}
  BY DEF Init, Waiting
<1> QED
  BY <1>1 DEF OnlyOnce, CloseMarked

\* However many tasks close a tunnel, at whatever moments, the engine is asked to close it by
\* one frame, never by a second one behind it or after it (closeTunnel, finish, the two
\* ends of write).
THEOREM OneCloseOfATunnel == Spec => []ClosesCoalesced
<1>1. Spec => []ClosesInv
  BY InitClosesInv, StepClosesInv, SpecSocketsInv, PTL DEF Spec
<1> QED
  BY <1>1, CoalescedFromInv, PTL

-----------------------------------------------------------------------------
(* The callers: each that waits is one the channel will answer.                          *)

OpenFrame(t) == Frame("openTunnelReq", t)

\* createBytestreamTunnel: a call that awaits its promise is pending, and a frame in the chain
\* is awaited by its writer.
CreateAnswered(t) ==
  /\ create[t] \in {"writing", "waiting"} /\ created[t] = "pending" => t \in pendingTunnels /\ ~closed
  /\ OnlyOnce(OpenFrame(t))
  /\ OpenFrame(t) \in Waiting => create[t] = "writing"
  /\ OpenFrame(t) \in received => create[t] # "idle"

\* tunnel.close(): the promise of a close is pending while its mark is there.
CloseAnswered(t) ==
  /\ closeDone[t] = "pending" => t \in pendingCloses /\ ~closed
  /\ \A a \in Tasks : closer[<<t, a>>] = "waiting" => t \in pendingCloses /\ ~closed

\* accept(): who waits is in the line of a tunnel that is open and has no socket for it.
AcceptAnswered(t) ==
  \A a \in Tasks : accept[<<t, a>>] = "waiting" =>
    /\ tunnel[t] = "open"
    /\ \E i \in DOMAIN waiters[t] : waiters[t][i] = a

CallsInv == \A t \in Tunnels : CreateAnswered(t) /\ CloseAnswered(t) /\ AcceptAnswered(t)

LEMMA CallersFromInv == SocketsInv /\ CallsInv => CallersAnswerable
<1> SUFFICES ASSUME SocketsInv, CallsInv PROVE CallersAnswerable
  OBVIOUS
<1>1. ASSUME NEW c \in Tunnels \X Tasks, closer[c] = "waiting" PROVE c[1] \in pendingCloses /\ ~closed
  BY <1>1 DEF CallsInv, CloseAnswered
<1>2. ASSUME NEW c \in Tunnels \X Tasks, accept[c] = "waiting"
      PROVE  /\ tunnel[c[1]] = "open" /\ values[c[1]] = <<>>
             /\ \E i \in DOMAIN waiters[c[1]] : waiters[c[1]][i] = c[2]
  <2>1. PICK t \in Tunnels, a \in Tasks : c = <<t, a>>
    OBVIOUS
  <2>2. tunnel[t] = "open" /\ \E i \in DOMAIN waiters[t] : waiters[t][i] = a
    BY <1>2, <2>1 DEF CallsInv, AcceptAnswered
  <2>3. values[t] = <<>>
    BY <2>2 DEF SocketsInv, LineInv
  <2> QED
    BY <2>1, <2>2, <2>3
<1>3. \A t \in Tunnels : create[t] \in {"writing", "waiting"} /\ created[t] = "pending" =>
        t \in pendingTunnels /\ ~closed
  BY DEF CallsInv, CreateAnswered
<1> QED
  BY <1>1, <1>2, <1>3 DEF CallersAnswerable

\* Steps that leave the calls of a tunnel as they are.
LEMMA CreateStays ==
  ASSUME TypeOK, NEW t \in Tunnels, CreateAnswered(t), UNCHANGED <<create, created, received>>,
         closed' => closed, t \in pendingTunnels => t \in pendingTunnels',
         UNCHANGED writeChain \/ \E op, id : Write(op, id) /\ Frame(op, id) # OpenFrame(t)
  PROVE  CreateAnswered(t)'
<1>1. OnlyOnce(OpenFrame(t))' /\ (OpenFrame(t) \in Waiting' => OpenFrame(t) \in Waiting)
  <2>1. CASE UNCHANGED writeChain
    BY <2>1, OnceStays DEF CreateAnswered
  <2>2. ASSUME NEW op, NEW id, Write(op, id), Frame(op, id) # OpenFrame(t)
        PROVE  OnlyOnce(OpenFrame(t))' /\ (OpenFrame(t) \in Waiting' => OpenFrame(t) \in Waiting)
    BY <2>2, OnceGrows, ChainGrows DEF Write, CreateAnswered
  <2> QED
    BY <2>1, <2>2
<1>2. OpenFrame(t)' = OpenFrame(t)
  BY DEF OpenFrame, Frame
<1> QED
  BY <1>1, <1>2 DEF CreateAnswered

LEMMA CloseStays ==
  ASSUME NEW t \in Tunnels, CloseAnswered(t), UNCHANGED <<closer, closeDone, pendingCloses>>, closed' => closed
  PROVE  CloseAnswered(t)'
BY DEF CloseAnswered

LEMMA AcceptStays ==
  ASSUME NEW t \in Tunnels, AcceptAnswered(t), UNCHANGED <<accept, waiters>>, tunnel[t] = "open" => tunnel'[t] = "open"
  PROVE  AcceptAnswered(t)'
BY DEF AcceptAnswered

\* The tunnels ts close: nobody waits in them any more.
LEMMA LinesAnswered ==
  ASSUME NEW t \in Tunnels, AcceptAnswered(t), NEW ts \in SUBSET Tunnels, CloseTunnels(ts)
  PROVE  AcceptAnswered(t)'
<1>1. \A a \in Tasks : accept'[<<t, a>>] = IF t \in ts /\ accept[<<t, a>>] = "waiting" THEN "rejected" ELSE accept[<<t, a>>]
  BY DEF CloseTunnels
<1>2. /\ tunnel'[t] = IF t \in ts THEN "closed" ELSE tunnel[t]
      /\ waiters'[t] = IF t \in ts THEN <<>> ELSE waiters[t]
  BY DEF CloseTunnels
<1> QED
  BY <1>1, <1>2 DEF AcceptAnswered

\* finish() settles every call.
LEMMA FinishCalls ==
  ASSUME SocketsInv, CallsInv, NEW handlers, Finish(handlers, pendingTunnels)
  PROVE  CallsInv'
<1> SUFFICES ASSUME NEW t \in Tunnels PROVE CreateAnswered(t)' /\ CloseAnswered(t)' /\ AcceptAnswered(t)'
  BY DEF CallsInv
<1>1. CreateAnswered(t) /\ CloseAnswered(t) /\ AcceptAnswered(t)
  BY DEF CallsInv
<1>2. CreateAnswered(t)'
  <2>1. UNCHANGED <<create, writeChain, received>>
        /\ created'[t] = IF t \in pendingTunnels /\ created[t] = "pending" THEN "rejected" ELSE created[t]
    BY DEF Finish, Settle
  <2>2. OnlyOnce(OpenFrame(t))' /\ Waiting' = Waiting
    BY <1>1, <2>1, OnceStays DEF CreateAnswered
  <2>3. OpenFrame(t)' = OpenFrame(t)
    BY DEF OpenFrame, Frame
  <2> QED
    BY <1>1, <2>1, <2>2, <2>3 DEF CreateAnswered
<1>3. CloseAnswered(t)'
  <2>1. closeDone'[t] = IF t \in pendingCloses /\ closeDone[t] = "pending" THEN "rejected" ELSE closeDone[t]
    BY DEF Finish, Settle
  <2>2. \A a \in Tasks : closer'[<<t, a>>] =
          IF t \in pendingCloses /\ closer[<<t, a>>] = "waiting" THEN "returned" ELSE closer[<<t, a>>]
    BY DEF Finish, ReturnClosers
  <2> QED
    BY <1>1, <2>1, <2>2 DEF CloseAnswered
<1>4. AcceptAnswered(t)'
  BY <1>1, LinesAnswered DEF Finish, OpenTunnels
<1> QED
  BY <1>2, <1>3, <1>4

LEMMA CreateCalls ==
  ASSUME SocketsInv, CallsInv, NEW u \in Tunnels, CreateTunnel(u)
  PROVE  CallsInv'
<1> SUFFICES ASSUME NEW t \in Tunnels PROVE CreateAnswered(t)' /\ CloseAnswered(t)' /\ AcceptAnswered(t)'
  BY DEF CallsInv
<1>1. CreateAnswered(t) /\ CreateAnswered(u) /\ CloseAnswered(t) /\ AcceptAnswered(t) /\ TypeOK
  BY DEF CallsInv, SocketsInv, SlotsInv
<1>2. CloseAnswered(t)' /\ AcceptAnswered(t)'
  BY <1>1, CloseStays, AcceptStays DEF CreateTunnel, closeVars, acceptVars, channelVars
<1>3. CreateAnswered(t)'
  <2>1. OpenFrame(u) \notin Waiting \union received /\ create[u] = "idle"
    BY <1>1 DEF CreateTunnel, CreateAnswered
  <2>2. OpenFrame(t)' = OpenFrame(t) /\ (OpenFrame(t) = OpenFrame(u) => t = u)
    BY DEF OpenFrame, Frame
  <2>3. UNCHANGED <<closed, received>>
    BY DEF CreateTunnel, channelVars
  <2>4. CASE /\ create' = [create EXCEPT ![u] = "refused"] /\ UNCHANGED <<created, pendingTunnels, writeChain>>
    <3>1. OnlyOnce(OpenFrame(t))' /\ Waiting' = Waiting
      BY <1>1, <2>3, <2>4, OnceStays DEF CreateAnswered
    <3>2. create'[t] = IF t = u THEN "refused" ELSE create[t]
      BY <1>1, <2>4 DEF TypeOK
    <3> QED
      BY <1>1, <2>1, <2>2, <2>3, <2>4, <3>1, <3>2 DEF CreateAnswered
  <2>5. CASE /\ ~closed /\ create' = [create EXCEPT ![u] = "writing"] /\ created' = [created EXCEPT ![u] = "pending"]
             /\ pendingTunnels' = pendingTunnels \union {u} /\ Write("openTunnelReq", u)
    <3>1. OnlyOnce(OpenFrame(t))' /\ Waiting' = Waiting \union {OpenFrame(u)}
      BY <1>1, <2>1, <2>3, <2>5, OnceGrows, ChainGrows DEF CreateAnswered, Write, OpenFrame
    <3>2. create'[t] = (IF t = u THEN "writing" ELSE create[t]) /\ created'[t] = IF t = u THEN "pending" ELSE created[t]
      BY <1>1, <2>5 DEF TypeOK
    <3> QED
      BY <1>1, <2>1, <2>2, <2>3, <2>5, <3>1, <3>2 DEF CreateAnswered
  <2> QED
    BY <2>4, <2>5 DEF CreateTunnel, Refusing
<1> QED
  BY <1>2, <1>3

LEMMA CloseCalls ==
  ASSUME SocketsInv, CallsInv, NEW u \in Tunnels, NEW b \in Tasks, CloseTunnel(u, b)
  PROVE  CallsInv'
<1> SUFFICES ASSUME NEW t \in Tunnels PROVE CreateAnswered(t)' /\ CloseAnswered(t)' /\ AcceptAnswered(t)'
  BY DEF CallsInv
<1>1. CreateAnswered(t) /\ CloseAnswered(t) /\ AcceptAnswered(t) /\ TypeOK
  BY DEF CallsInv, SocketsInv, SlotsInv
<1>2. AcceptAnswered(t)'
  BY <1>1, AcceptStays DEF CloseTunnel, acceptVars
<1>3. CreateAnswered(t)'
  <2>1. Frame("closeTunnelReq", u) # OpenFrame(t)
    BY DEF OpenFrame, Frame
  <2> QED
    BY <1>1, <2>1, CreateStays DEF CloseTunnel, createVars, channelVars
<1>4. CloseAnswered(t)'
  <2>1. tunnel[u] = "open" => ~closed
    BY DEF SocketsInv, OpeningInv
  <2>2. UNCHANGED closed /\ closer \in [Tunnels \X Tasks -> {"idle", "writing", "waiting", "returned"}]
        /\ closeDone \in [Tunnels -> Promises]
    BY <1>1 DEF CloseTunnel, channelVars, TypeOK
  <2>3. \E s \in {"returned", "waiting", "writing"} :
          /\ closer' = [closer EXCEPT ![<<u, b>>] = s]
          /\ s = "waiting" => u \in pendingCloses /\ tunnel[u] = "open"
    BY DEF CloseTunnel, CloseUnderway
  <2>4. \/ UNCHANGED <<closeDone, pendingCloses>>
        \/ /\ tunnel[u] = "open" /\ closeDone' = [closeDone EXCEPT ![u] = "pending"]
           /\ pendingCloses' = pendingCloses \union {u}
    BY DEF CloseTunnel
  <2>5. pendingCloses \subseteq pendingCloses'
    BY <2>4
  <2>6. closeDone'[t] = "pending" => t \in pendingCloses' /\ ~closed'
    BY <1>1, <2>1, <2>2, <2>4 DEF CloseAnswered
  <2>7. ASSUME NEW a \in Tasks, closer'[<<t, a>>] = "waiting" PROVE t \in pendingCloses' /\ ~closed'
    <3>1. CASE <<t, a>> = <<u, b>>
      <4>1. t = u
        BY <3>1
      <4>2. u \in pendingCloses /\ tunnel[u] = "open"
        BY <2>2, <2>3, <2>7, <3>1
      <4> QED
        BY <2>1, <2>2, <2>5, <4>1, <4>2
    <3>2. CASE <<t, a>> # <<u, b>>
      <4>1. closer[<<t, a>>] = "waiting"
        BY <2>2, <2>3, <2>7, <3>2
      <4> QED
        BY <1>1, <2>2, <2>5, <4>1 DEF CloseAnswered
    <3> QED
      BY <3>1, <3>2
  <2> QED
    BY <2>6, <2>7 DEF CloseAnswered
<1> QED
  BY <1>2, <1>3, <1>4

\* The line of a tunnel: who waits joins it, leaves it when his signal is aborted, or is served.
LEMMA AcceptCalls ==
  ASSUME SocketsInv, CallsInv, NEW u \in Tunnels, NEW b \in Tasks, Accept(u, b)
  PROVE  CallsInv'
<1> SUFFICES ASSUME NEW t \in Tunnels PROVE CreateAnswered(t)' /\ CloseAnswered(t)' /\ AcceptAnswered(t)'
  BY DEF CallsInv
<1>1. CreateAnswered(t) /\ CloseAnswered(t) /\ AcceptAnswered(t) /\ TypeOK
  BY DEF CallsInv, SocketsInv, SlotsInv
<1>2. CreateAnswered(t)' /\ CloseAnswered(t)' /\ UNCHANGED tunnel
  BY <1>1, CreateStays, CloseStays DEF Accept, createVars, closeVars, channelVars
<1>3. AcceptAnswered(t)'
  <2> SUFFICES ASSUME NEW a \in Tasks, accept'[<<t, a>>] = "waiting"
               PROVE  tunnel'[t] = "open" /\ \E i \in DOMAIN waiters'[t] : waiters'[t][i] = a
    BY DEF AcceptAnswered
  <2>1. accept \in [Tunnels \X Tasks -> {"idle", "waiting", "served", "rejected"}] /\ waiters \in [Tunnels -> Seq(Tasks)]
    BY <1>1 DEF TypeOK
  <2>2. CASE accept[<<t, a>>] = "waiting"
    <3>1. tunnel[t] = "open"
      BY <1>1, <2>2 DEF AcceptAnswered
    <3>2. PICK i \in DOMAIN waiters[t] : waiters[t][i] = a
      BY <1>1, <2>2 DEF AcceptAnswered
    <3>3. UNCHANGED waiters \/ waiters' = [waiters EXCEPT ![u] = Append(@, b)]
      BY DEF Accept
    <3>4. waiters'[t] = waiters[t] \/ waiters'[t] = Append(waiters[t], b)
      BY <2>1, <3>3
    <3>5. i \in DOMAIN waiters'[t] /\ waiters'[t][i] = a
      <4>1. waiters[t] \in Seq(Tasks)
        BY <2>1
      <4> QED
        BY <3>2, <3>4, <4>1
    <3> QED
      BY <1>2, <3>1, <3>5
  <2>3. CASE accept[<<t, a>>] # "waiting"
    <3>1. /\ <<t, a>> = <<u, b>> /\ tunnel[u] = "open" /\ waiters' = [waiters EXCEPT ![u] = Append(@, b)]
      BY <2>1, <2>3 DEF Accept
    <3>2. t = u /\ a = b /\ waiters[t] \in Seq(Tasks) /\ waiters'[t] = Append(waiters[t], a)
      BY <2>1, <3>1
    <3>3. Len(waiters[t]) + 1 \in DOMAIN waiters'[t] /\ waiters'[t][Len(waiters[t]) + 1] = a
      BY <3>2
    <3> QED
      BY <1>2, <3>1, <3>2, <3>3
  <2> QED
    BY <2>2, <2>3
<1> QED
  BY <1>2, <1>3

LEMMA Places ==
  ASSUME NEW n \in Nat, NEW k \in 1..n
  PROVE  /\ k - 1 + (n - k) = n - 1
         /\ \A j \in 1..(k - 1) : j \in 1..(n - 1) /\ j <= k - 1
         /\ \A j \in 1..(n - k) : (k - 1) + j \in 1..(n - 1) /\ ~((k - 1) + j <= k - 1) /\ ((k - 1) + j) - (k - 1) = j
OBVIOUS

\* Taking the waiter at place k out of a line leaves the others in it.
Without(line, k) == SubSeq(line, 1, k - 1) \o SubSeq(line, k + 1, Len(line))

LEMMA OthersStay ==
  ASSUME NEW line \in Seq(Tasks), NEW k \in DOMAIN line, NEW i \in DOMAIN line, i # k
  PROVE  \E j \in DOMAIN Without(line, k) : Without(line, k)[j] = line[i]
<1> DEFINE n == Len(line)
           before == SubSeq(line, 1, k - 1)
           behind == SubSeq(line, k + 1, n)
<1>1. n \in Nat /\ k \in 1..n /\ i \in 1..n
  OBVIOUS
<1>2. /\ before \in Seq(Tasks) /\ Len(before) = k - 1
      /\ \A j \in 1..(k - 1) : before[j] = line[j]
  BY <1>1
<1>3. /\ behind \in Seq(Tasks) /\ Len(behind) = n - k
      /\ \A j \in 1..(n - k) : behind[j] = line[k + j]
  BY <1>1
<1>0. Without(line, k) = before \o behind
  BY DEF Without
<1> HIDE DEF before, behind
<1> DEFINE rest == before \o behind
<1>4. /\ DOMAIN rest = 1..(n - 1)
      /\ \A j \in 1..(k - 1) : rest[j] = before[j]
      /\ \A j \in 1..(n - k) : rest[(k - 1) + j] = behind[j]
  <2>1. /\ Len(rest) = Len(before) + Len(behind) /\ rest \in Seq(Tasks)
        /\ \A j \in 1..(Len(before) + Len(behind)) : rest[j] = IF j <= Len(before) THEN before[j] ELSE behind[j - Len(before)]
    BY <1>2, <1>3, ConcatProperties
  <2>2. DOMAIN rest = 1..Len(rest)
    BY <2>1
  <2> HIDE DEF rest, n
  <2>3. /\ k - 1 + (n - k) = n - 1
        /\ \A j \in 1..(k - 1) : j \in 1..(n - 1) /\ j <= k - 1
        /\ \A j \in 1..(n - k) : (k - 1) + j \in 1..(n - 1) /\ ~((k - 1) + j <= k - 1) /\ ((k - 1) + j) - (k - 1) = j
    BY <1>1, Places
  <2>4. Len(rest) = n - 1 /\ \A j \in 1..(n - 1) : rest[j] = IF j <= k - 1 THEN before[j] ELSE behind[j - (k - 1)]
    BY <1>2, <1>3, <2>1, <2>3
  <2> QED
    BY <2>2, <2>3, <2>4
<1> HIDE DEF rest, n
<1>5. CASE i < k
  <2>1. i \in 1..(k - 1) /\ i \in 1..(n - 1)
    BY <1>1, <1>5
  <2>2. rest[i] = line[i]
    BY <1>2, <1>4, <2>1
  <2> QED
    BY <1>0, <1>4, <2>1, <2>2 DEF rest
<1>6. CASE i > k
  <2>1. i - k \in 1..(n - k) /\ (k - 1) + (i - k) \in 1..(n - 1) /\ k + (i - k) = i
    BY <1>1, <1>6
  <2>2. rest[(k - 1) + (i - k)] = line[i]
    BY <1>3, <1>4, <2>1
  <2> QED
    BY <1>0, <1>4, <2>1, <2>2 DEF rest
<1>7. i < k \/ i > k
  BY <1>1
<1> QED
  BY <1>5, <1>6, <1>7

\* The first in line leaves it.
LEMMA LineAdvances ==
  ASSUME NEW line \in Seq(Tasks), line # <<>>, NEW others, others = Tail(line), NEW n, n = Len(line)
  PROVE  /\ n \in Nat /\ n >= 1 /\ Head(line) = line[1] /\ DOMAIN line = 1..n
         /\ DOMAIN others = 1..(n - 1) /\ \A i \in 1..(n - 1) : others[i] = line[i + 1]
OBVIOUS

LEMMA AbortCalls ==
  ASSUME SocketsInv, CallsInv, NEW u \in Tunnels, NEW b \in Tasks, AbortAccept(u, b)
  PROVE  CallsInv'
<1> SUFFICES ASSUME NEW t \in Tunnels PROVE CreateAnswered(t)' /\ CloseAnswered(t)' /\ AcceptAnswered(t)'
  BY DEF CallsInv
<1>1. CreateAnswered(t) /\ CloseAnswered(t) /\ AcceptAnswered(t) /\ TypeOK
  BY DEF CallsInv, SocketsInv, SlotsInv
<1>2. CreateAnswered(t)' /\ CloseAnswered(t)' /\ UNCHANGED tunnel
  BY <1>1, CreateStays, CloseStays DEF AbortAccept, createVars, closeVars, channelVars
<1>3. accept \in [Tunnels \X Tasks -> {"idle", "waiting", "served", "rejected"}] /\ waiters \in [Tunnels -> Seq(Tasks)]
  BY <1>1 DEF TypeOK
<1>4. PICK k \in DOMAIN waiters[u] :
        /\ waiters[u][k] = b
        /\ waiters' = [waiters EXCEPT ![u] = SubSeq(@, 1, k - 1) \o SubSeq(@, k + 1, Len(@))]
  BY DEF AbortAccept
<1>5. ASSUME NEW a \in Tasks, accept'[<<t, a>>] = "waiting"
      PROVE  tunnel'[t] = "open" /\ \E i \in DOMAIN waiters'[t] : waiters'[t][i] = a
  <2>1. accept[<<t, a>>] = "waiting" /\ <<t, a>> # <<u, b>>
    BY <1>3, <1>5 DEF AbortAccept
  <2>2. tunnel[t] = "open"
    BY <1>1, <2>1 DEF AcceptAnswered
  <2>3. PICK i \in DOMAIN waiters[t] : waiters[t][i] = a
    BY <1>1, <2>1 DEF AcceptAnswered
  <2>4. CASE t = u
    <3>1. i # k /\ waiters[u] \in Seq(Tasks)
      BY <1>3, <1>4, <2>1, <2>3, <2>4
    <3>2. waiters'[u] = SubSeq(waiters[u], 1, k - 1) \o SubSeq(waiters[u], k + 1, Len(waiters[u]))
      BY <1>3, <1>4
    <3>3. \E j \in DOMAIN waiters'[u] : waiters'[u][j] = waiters[u][i]
      <4>1. waiters'[u] = Without(waiters[u], k)
        BY <3>2 DEF Without
      <4> QED
        BY <2>3, <2>4, <3>1, <4>1, OthersStay
    <3> QED
      BY <1>2, <2>2, <2>3, <2>4, <3>3
  <2>5. CASE t # u
    <3>1. waiters'[t] = waiters[t]
      BY <1>3, <1>4, <2>5
    <3> QED
      BY <1>2, <2>2, <2>3, <3>1
  <2> QED
    BY <2>4, <2>5
<1> QED
  BY <1>2, <1>5 DEF AcceptAnswered

\* A socket goes to the first in line, or to the queue that nobody waits at.
LEMMA DeliverCalls ==
  ASSUME TypeOK, NEW t \in Tunnels, AcceptAnswered(t), NEW u \in Tunnels, NEW p \in Streams, Deliver(u, p),
         UNCHANGED tunnel
  PROVE  AcceptAnswered(t)'
<1>1. accept \in [Tunnels \X Tasks -> {"idle", "waiting", "served", "rejected"}] /\ waiters \in [Tunnels -> Seq(Tasks)]
  BY DEF TypeOK
<1>2. CASE UNCHANGED <<waiters, accept>>
  BY <1>2, AcceptStays
<1>3. CASE /\ waiters[u] # <<>> /\ waiters' = [waiters EXCEPT ![u] = Tail(@)]
           /\ accept' = [accept EXCEPT ![<<u, Head(waiters[u])>>] = "served"]
  <2> DEFINE n == Len(waiters[u])
  <2>1. /\ n \in Nat /\ n >= 1 /\ Head(waiters[u]) = waiters[u][1] /\ DOMAIN waiters[u] = 1..n
        /\ waiters'[u] = Tail(waiters[u]) /\ DOMAIN waiters'[u] = 1..(n - 1)
        /\ \A i \in 1..(n - 1) : waiters'[u][i] = waiters[u][i + 1]
    <3>1. waiters[u] \in Seq(Tasks) /\ waiters[u] # <<>> /\ waiters'[u] = Tail(waiters[u])
      BY <1>1, <1>3
    <3> QED
      BY <3>1, LineAdvances
  <2> HIDE DEF n
  <2>2. ASSUME NEW a \in Tasks, accept'[<<t, a>>] = "waiting"
        PROVE  tunnel'[t] = "open" /\ \E i \in DOMAIN waiters'[t] : waiters'[t][i] = a
    <3>1. accept[<<t, a>>] = "waiting" /\ <<t, a>> # <<u, Head(waiters[u])>>
      BY <1>1, <1>3, <2>2
    <3>2. tunnel[t] = "open"
      BY <3>1 DEF AcceptAnswered
    <3>3. PICK i \in DOMAIN waiters[t] : waiters[t][i] = a
      BY <3>1 DEF AcceptAnswered
    <3>4. CASE t = u
      <4>1. i # 1 /\ i \in 1..n
        BY <2>1, <3>1, <3>3, <3>4
      <4>2. i - 1 \in 1..(n - 1) /\ (i - 1) + 1 = i
        BY <2>1, <4>1
      <4> QED
        BY <2>1, <3>2, <3>3, <3>4, <4>2
    <3>5. CASE t # u
      <4>1. waiters'[t] = waiters[t]
        BY <1>1, <1>3, <3>5
      <4> QED
        BY <3>2, <3>3, <4>1
    <3> QED
      BY <3>4, <3>5
  <2> QED
    BY <2>2 DEF AcceptAnswered
<1> QED
  BY <1>2, <1>3 DEF Deliver

\* The frame on the socket is written: its writer goes on to wait for the answer.
LEMMA WrittenCalls ==
  ASSUME SocketsInv, CallsInv, WriteCompletes
  PROVE  CallsInv'
<1> SUFFICES ASSUME NEW t \in Tunnels PROVE CreateAnswered(t)' /\ CloseAnswered(t)' /\ AcceptAnswered(t)'
  BY DEF CallsInv
<1> DEFINE f == Head(writeChain)
<1>1. CreateAnswered(t) /\ CloseAnswered(t) /\ AcceptAnswered(t) /\ TypeOK
  BY DEF CallsInv, SocketsInv, SlotsInv
<1>2. /\ writeChain # <<>> /\ received' = received \union {f} /\ writeChain' = Tail(writeChain)
      /\ UNCHANGED <<created, pendingTunnels, tunnel, pendingCloses, closeDone, waiters, accept, closed>>
  BY DEF WriteCompletes, acceptVars
<1>3. f \in Frames /\ f \in Waiting
  BY <1>1, <1>2, HeadWaits
<1>4. AcceptAnswered(t)'
  BY <1>1, <1>2, AcceptStays
<1>5. CreateAnswered(t)'
  <2>1. \A p : OpenFrame(t) # Frame("proxyConnError", p)
    BY DEF OpenFrame, Frame
  <2>2. OnlyOnce(OpenFrame(t))' /\ (OpenFrame(t) \in Waiting' => OpenFrame(t) \in Waiting /\ OpenFrame(t) # f)
    BY <1>1, <1>2, <2>1, OnceShrinks DEF CreateAnswered
  <2>3. create'[t] = IF f = OpenFrame(t) THEN "waiting" ELSE create[t]
    <3>1. create' = create \/ (f.op = "openTunnelReq" /\ create' = [create EXCEPT ![f.id] = "waiting"])
      BY DEF WriteCompletes
    <3>2. f.op = "openTunnelReq" => create' = [create EXCEPT ![f.id] = "waiting"]
      BY DEF WriteCompletes
    <3>3. f = OpenFrame(t) <=> f.op = "openTunnelReq" /\ f.id = t
      BY <1>3, FrameFields DEF OpenFrame, Frame
    <3> QED
      BY <1>1, <3>1, <3>2, <3>3 DEF TypeOK
  <2>4. OpenFrame(t)' = OpenFrame(t)
    BY DEF OpenFrame, Frame
  <2> HIDE DEF f
  <2> QED
    BY <1>1, <1>2, <1>3, <2>2, <2>3, <2>4 DEF CreateAnswered
<1>6. CloseAnswered(t)'
  <2>1. ASSUME NEW a \in Tasks, closer'[<<t, a>>] = "waiting"
        PROVE  closer[<<t, a>>] = "waiting" \/ closeDone[t] = "pending"
    <3>1. closer' = closer \/ closer' = [c \in Tunnels \X Tasks |->
                        IF c[1] = f.id /\ closer[c] = "writing"
                        THEN IF closeDone[f.id] = "pending" THEN "waiting" ELSE "returned"
                        ELSE closer[c]]
      BY DEF WriteCompletes
    <3> HIDE DEF f
    <3> QED
      BY <2>1, <3>1
  <2> QED
    BY <1>1, <1>2, <2>1 DEF CloseAnswered
<1> QED
  BY <1>4, <1>5, <1>6

\* It is not written: the call that wrote it throws, or the close that wrote it is given up.
LEMMA UnwrittenCalls ==
  ASSUME SocketsInv, CallsInv, WriteFails
  PROVE  CallsInv'
<1> SUFFICES ASSUME NEW t \in Tunnels PROVE CreateAnswered(t)' /\ CloseAnswered(t)' /\ AcceptAnswered(t)'
  BY DEF CallsInv
<1> DEFINE f == Head(writeChain)
<1>1. CreateAnswered(t) /\ CloseAnswered(t) /\ AcceptAnswered(t) /\ TypeOK
  BY DEF CallsInv, SocketsInv, SlotsInv
<1>2. /\ writeChain # <<>> /\ UNCHANGED <<received, created, tunnel, waiters, accept, closed>>
      /\ \/ writeChain' = Tail(writeChain)
         \/ \E p : writeChain' = Append(Tail(writeChain), Frame("proxyConnError", p))
  BY DEF WriteFails, acceptVars
<1>3. f \in Frames
  BY <1>1, <1>2, HeadWaits
<1>4. AcceptAnswered(t)'
  BY <1>1, <1>2, AcceptStays
<1>5. CreateAnswered(t)'
  <2>1. \A p : OpenFrame(t) # Frame("proxyConnError", p)
    BY DEF OpenFrame, Frame
  <2>2. OnlyOnce(OpenFrame(t))' /\ (OpenFrame(t) \in Waiting' => OpenFrame(t) \in Waiting /\ OpenFrame(t) # f)
    BY <1>1, <1>2, <2>1, OnceShrinks DEF CreateAnswered
  <2>3. \/ create'[t] = create[t] /\ (t \in pendingTunnels => t \in pendingTunnels')
        \/ f = OpenFrame(t) /\ create'[t] = "threw"
    <3>1. \/ create' = create /\ pendingTunnels' = pendingTunnels
          \/ /\ f.op = "openTunnelReq" /\ create' = [create EXCEPT ![f.id] = "threw"]
             /\ pendingTunnels' = pendingTunnels \ {f.id}
      BY DEF WriteFails
    <3>2. f.op = "openTunnelReq" /\ f.id = t => f = OpenFrame(t)
      BY <1>3, FrameFields DEF OpenFrame
    <3> HIDE DEF f
    <3> QED
      BY <1>1, <3>1, <3>2 DEF TypeOK
  <2>4. OpenFrame(t)' = OpenFrame(t)
    BY DEF OpenFrame, Frame
  <2> HIDE DEF f
  <2> QED
    BY <1>1, <1>2, <2>2, <2>3, <2>4 DEF CreateAnswered
<1>6. CloseAnswered(t)'
  <2>1. \/ UNCHANGED closeVars
        \/ /\ pendingCloses' = pendingCloses \ {f.id}
           /\ closeDone' = Settle(closeDone, {f.id}, "rejected")
           /\ closer' = [c \in Tunnels \X Tasks |->
                           IF c[1] = f.id /\ closer[c] \in {"writing", "waiting"} THEN "returned" ELSE closer[c]]
    BY DEF WriteFails
  <2> HIDE DEF f
  <2>2. CASE UNCHANGED closeVars
    BY <1>1, <1>2, <2>2, CloseStays DEF closeVars
  <2>3. CASE /\ pendingCloses' = pendingCloses \ {f.id}
             /\ closeDone' = Settle(closeDone, {f.id}, "rejected")
             /\ closer' = [c \in Tunnels \X Tasks |->
                             IF c[1] = f.id /\ closer[c] \in {"writing", "waiting"} THEN "returned" ELSE closer[c]]
    <3>1. closeDone'[t] = IF t = f.id /\ closeDone[t] = "pending" THEN "rejected" ELSE closeDone[t]
      BY <2>3 DEF Settle
    <3>2. \A a \in Tasks : closer'[<<t, a>>] =
            IF t = f.id /\ closer[<<t, a>>] \in {"writing", "waiting"} THEN "returned" ELSE closer[<<t, a>>]
      BY <2>3
    <3> QED
      BY <1>1, <1>2, <2>3, <3>1, <3>2 DEF CloseAnswered
  <2> QED
    BY <2>1, <2>2, <2>3
<1> QED
  BY <1>4, <1>5, <1>6

\* The engine closes a tunnel: its closers return, and who waits in it is rejected.
LEMMA CloseResponseCalls ==
  ASSUME SocketsInv, CallsInv, HandleCloseTunnelRsp
  PROVE  CallsInv'
<1> SUFFICES ASSUME NEW t \in Tunnels PROVE CreateAnswered(t)' /\ CloseAnswered(t)' /\ AcceptAnswered(t)'
  BY DEF CallsInv
<1>1. CreateAnswered(t) /\ CloseAnswered(t) /\ AcceptAnswered(t) /\ TypeOK
  BY DEF CallsInv, SocketsInv, SlotsInv
<1>2. CreateAnswered(t)' /\ UNCHANGED closed
  BY <1>1, CreateStays DEF HandleCloseTunnelRsp, createVars, channelVars
<1>3. AcceptAnswered(t)'
  BY <1>1, LinesAnswered DEF HandleCloseTunnelRsp, OpenTunnels
<1>4. CloseAnswered(t)'
  <2> DEFINE ts == {message.id} \intersect pendingCloses
  <2>1. /\ pendingCloses' = pendingCloses \ {message.id}
        /\ closeDone' = Settle(closeDone, ts, "resolved") /\ closer' = ReturnClosers(ts)
    BY DEF HandleCloseTunnelRsp
  <2>2. t \in ts <=> t = message.id /\ t \in pendingCloses
    OBVIOUS
  <2> HIDE DEF ts
  <2>3. closeDone'[t] = IF t \in ts /\ closeDone[t] = "pending" THEN "resolved" ELSE closeDone[t]
    BY <2>1 DEF Settle
  <2>4. \A a \in Tasks : closer'[<<t, a>>] =
          IF t \in ts /\ closer[<<t, a>>] = "waiting" THEN "returned" ELSE closer[<<t, a>>]
    BY <2>1 DEF ReturnClosers
  <2> QED
    BY <1>1, <1>2, <2>1, <2>2, <2>3, <2>4 DEF CloseAnswered
<1> QED
  BY <1>2, <1>3, <1>4

\* The engine answers an open: the call is settled, so it waits no more.  An answer without an
\* id would settle all calls but that one.
LEMMA OpenResponseCalls ==
  ASSUME EngineOmitsId = FALSE, SocketsInv, CallsInv, HandleOpenTunnelRsp
  PROVE  CallsInv'
<1> DEFINE m == message.id
<1>1. message.result # "noId"
  BY DEF HandleOpenTunnelRsp, SocketsInv, SlotsInv, TypeOK, Messages, None
<1>2. TypeOK
  BY DEF SocketsInv, SlotsInv
<1>3. /\ UNCHANGED <<create, closeVars, acceptVars, closed, writeChain, received>>
      /\ \/ UNCHANGED <<created, pendingTunnels, tunnel>>
         \/ /\ m \in pendingTunnels /\ pendingTunnels' = pendingTunnels \ {m}
            /\ \E s \in {"rejected", "resolved"} : created' = [created EXCEPT ![m] = s]
            /\ tunnel' = tunnel \/ tunnel' = [tunnel EXCEPT ![m] = "open"]
  BY <1>1 DEF HandleOpenTunnelRsp, createVars, channelVars
<1> HIDE DEF m
<1> SUFFICES ASSUME NEW t \in Tunnels PROVE CreateAnswered(t)' /\ CloseAnswered(t)' /\ AcceptAnswered(t)'
  BY DEF CallsInv
<1>4. CreateAnswered(t) /\ CloseAnswered(t) /\ AcceptAnswered(t)
  BY DEF CallsInv
<1>5. CloseAnswered(t)'
  BY <1>3, <1>4, CloseStays DEF closeVars
<1>6. AcceptAnswered(t)'
  <2>1. tunnel[t] = "open" => tunnel'[t] = "open"
    BY <1>2, <1>3 DEF TypeOK
  <2> QED
    BY <1>3, <1>4, <2>1, AcceptStays DEF acceptVars
<1>7. CreateAnswered(t)'
  <2>1. CASE UNCHANGED <<created, pendingTunnels, tunnel>>
    BY <1>2, <1>3, <1>4, <2>1, CreateStays
  <2>2. ASSUME m \in pendingTunnels, pendingTunnels' = pendingTunnels \ {m}, NEW s \in {"rejected", "resolved"},
               created' = [created EXCEPT ![m] = s]
        PROVE  CreateAnswered(t)'
    <3>1. created'[t] = IF t = m THEN s ELSE created[t]
      BY <1>2, <2>2 DEF TypeOK
    <3>2. OnlyOnce(OpenFrame(t))' /\ Waiting' = Waiting
      BY <1>3, <1>4, OnceStays DEF CreateAnswered
    <3>3. OpenFrame(t)' = OpenFrame(t)
      BY DEF OpenFrame, Frame
    <3> QED
      BY <1>3, <1>4, <2>2, <3>1, <3>2, <3>3 DEF CreateAnswered
  <2> QED
    BY <1>3, <2>1, <2>2
<1> QED
  BY <1>5, <1>6, <1>7

LEMMA StepCallsInv == EngineOmitsId = FALSE /\ SocketsInv /\ CallsInv /\ [Next]_vars => CallsInv'
<1> SUFFICES ASSUME EngineOmitsId = FALSE, SocketsInv, CallsInv, [Next]_vars PROVE CallsInv'
  OBVIOUS
<1> USE ChannelAssumption
<1>1. TypeOK
  BY DEF SocketsInv, SlotsInv
\* The usual step: no call moves but, perhaps, the line of one tunnel.
<1>2. ASSUME UNCHANGED <<createVars, closeVars, closed, received>>,
             UNCHANGED writeChain \/ \E op, id : Write(op, id) /\ op # "openTunnelReq",
             \A t \in Tunnels : AcceptAnswered(t)'
      PROVE  CallsInv'
  <2>1. \A op, id, t : op # "openTunnelReq" => Frame(op, id) # OpenFrame(t)
    BY DEF Frame, OpenFrame
  <2>2. ASSUME NEW t \in Tunnels PROVE CreateAnswered(t)' /\ CloseAnswered(t)'
    BY <1>1, <1>2, <2>1, CreateStays, CloseStays DEF CallsInv, createVars, closeVars
  <2> QED
    BY <1>2, <2>2 DEF CallsInv
<1>3. ASSUME UNCHANGED <<createVars, closeVars, acceptVars, tunnel, closed, received>>,
             UNCHANGED writeChain \/ \E op, id : Write(op, id) /\ op # "openTunnelReq"
      PROVE  CallsInv'
  BY <1>2, <1>3, AcceptStays DEF CallsInv, acceptVars
<1>4. ASSUME NEW handlers, Finish(handlers, pendingTunnels) PROVE CallsInv'
  BY <1>4, FinishCalls
<1>5. ASSUME NEW t \in Tunnels, CreateTunnel(t) PROVE CallsInv'
  BY <1>5, CreateCalls
<1>6. ASSUME NEW t \in Tunnels, NEW a \in Tasks, CloseTunnel(t, a) \/ Accept(t, a) \/ AbortAccept(t, a) PROVE CallsInv'
  BY <1>6, CloseCalls, AcceptCalls, AbortCalls
<1>7. ASSUME NEW a \in Tasks, Close(a) PROVE CallsInv'
  BY <1>3, <1>7 DEF Close
<1>8. CASE WriteCompletes \/ WriteFails
  BY <1>8, WrittenCalls, UnwrittenCalls
<1>9. ASSUME NEW m \in Messages, EngineSends(m) PROVE CallsInv'
  BY <1>3, <1>9 DEF EngineSends, channelVars
<1>10. CASE HandleOpenTunnelRsp
  BY <1>10, OpenResponseCalls
<1>11. CASE HandleCloseTunnelRsp
  BY <1>11, CloseResponseCalls
<1>12. ASSUME NEW handlers, NEW p, StartHandler(handlers, p),
              UNCHANGED <<createVars, closeVars, acceptVars, tunnel, closed, received>> PROVE CallsInv'
  BY <1>3, <1>12 DEF StartHandler
<1>13. CASE HandleProxyConnReq
  BY <1>3, <1>4, <1>12, <1>13 DEF HandleProxyConnReq, channelVars
<1>14. CASE HandleCloseControlChannelRsp
  BY <1>3, <1>4, <1>14 DEF HandleCloseControlChannelRsp, channelVars
<1>15. CASE SocketBreaks
  BY <1>3, <1>15 DEF SocketBreaks
<1>16. CASE ReaderFails \/ LivenessFails
  BY <1>4, <1>16 DEF ReaderFails, LivenessFails
<1>17. ASSUME NEW p \in Streams, DialConnects(p) \/ DialFails(p) \/ ProxyFails(p) PROVE CallsInv'
  BY <1>3, <1>17 DEF DialConnects, DialFails, ProxyFails, RefuseStream, channelVars
<1>18. ASSUME NEW p \in Streams, ProxyOpens(p) PROVE CallsInv'
  <2>1. /\ UNCHANGED <<createVars, closeVars, tunnel, closed, received>>
        /\ UNCHANGED writeChain \/ \E op, id : Write(op, id) /\ op # "openTunnelReq"
        /\ UNCHANGED acceptVars \/ Deliver(TunnelOf[p], p)
    BY <1>18 DEF ProxyOpens, channelVars
  <2>2. ASSUME NEW t \in Tunnels PROVE AcceptAnswered(t)'
    <3>1. AcceptAnswered(t) /\ TunnelOf[p] \in Tunnels
      BY DEF CallsInv
    <3>2. CASE UNCHANGED acceptVars
      BY <2>1, <3>1, <3>2, AcceptStays DEF acceptVars
    <3>3. CASE Deliver(TunnelOf[p], p)
      BY <1>1, <2>1, <3>1, <3>3, DeliverCalls
    <3> QED
      BY <2>1, <3>2, <3>3
  <2> QED
    BY <1>2, <2>1, <2>2
<1>19. ASSUME NEW p \in Streams, CatchHandler(p) PROVE CallsInv'
  BY <1>3, <1>4, <1>19 DEF CatchHandler, channelVars
<1>20. ASSUME NEW p \in Streams, EndHandler(p) PROVE CallsInv'
  BY <1>3, <1>12, <1>20 DEF EndHandler, channelVars
<1>21. CASE UNCHANGED vars
  BY <1>3, <1>21 DEF vars, channelVars
<1> QED
  BY <1>5, <1>6, <1>7, <1>8, <1>9, <1>10, <1>11, <1>13, <1>14, <1>15, <1>16, <1>17, <1>18,
     <1>19, <1>20, <1>21 DEF Next, HandleMessage

LEMMA InitCallsInv == Init => CallsInv
<1> SUFFICES ASSUME Init, NEW t \in Tunnels PROVE CreateAnswered(t) /\ CloseAnswered(t) /\ AcceptAnswered(t)
  BY DEF CallsInv
<1>1. Waiting = {} /\ received = {} /\ writeChain = <<>>
  BY DEF Init, Waiting
<1> QED
  BY <1>1 DEF Init, CreateAnswered, CloseAnswered, AcceptAnswered, OnlyOnce

\* When the engine names every tunnel it opens, no path of the code forgets a caller: each
\* pending create, close or accept call is one that the channel, while it lives, knows it must
\* answer (createBytestreamTunnel, closeTunnel, AsyncQueue, finish).  Without an id, a create
\* call is forgotten: see the run that finds it.
THEOREM NoCallerForgotten == ASSUME EngineOmitsId = FALSE PROVE Spec => []CallersAnswerable
<1>1. EngineOmitsId = FALSE => (CallsInv /\ SocketsInv /\ [Next]_vars => CallsInv')
  BY StepCallsInv
<1>2. CallsInv /\ SocketsInv /\ [Next]_vars => CallsInv'
  BY <1>1
<1>3. Spec => []CallsInv
  BY <1>2, InitCallsInv, SpecSocketsInv, PTL DEF Spec
<1> QED
  BY <1>3, SpecSocketsInv, CallersFromInv, PTL

-----------------------------------------------------------------------------
(* The end of the channel: no request to open a tunnel is behind the request to close the  *)
(* channel, wherever that one is by then.                                                  *)

Shuts(f) == f.op = "closeControlChannelReq"
Opens(f) == f.op = "openTunnelReq"

ShutdownInv ==
  /\ \A f \in Waiting \union received : Shuts(f) => closing
  /\ \A i, j \in DOMAIN writeChain : Shuts(writeChain[i]) /\ Opens(writeChain[j]) => j < i
  /\ (\E f \in received : Shuts(f)) => \A f \in Waiting : ~Opens(f)

\* The steps that write no frame, or one that opens nothing, or open while nothing shuts.
LEMMA ShutdownStays ==
  ASSUME TypeOK, ShutdownInv, closing => closing', UNCHANGED received,
         \/ UNCHANGED writeChain
         \/ \E g : /\ writeChain' = Append(writeChain, g)
                   /\ Shuts(g) => closing' /\ ~Opens(g)
                   /\ Opens(g) => ~closing
  PROVE  ShutdownInv'
<1>1. CASE UNCHANGED writeChain
  BY <1>1 DEF ShutdownInv, Waiting, Shuts, Opens
<1>2. ASSUME NEW g, writeChain' = Append(writeChain, g), Shuts(g) => closing' /\ ~Opens(g), Opens(g) => ~closing
      PROVE  ShutdownInv'
  <2> DEFINE n == Len(writeChain)
  <2>1. /\ \A i \in 1..n : writeChain'[i] = writeChain[i]
        /\ writeChain'[n + 1] = g /\ n \in Nat
        /\ DOMAIN writeChain' = 1..(n + 1) /\ DOMAIN writeChain = 1..n
    <3>1. writeChain \in Seq(Frames)
      BY DEF TypeOK
    <3> QED
      BY <1>2, <3>1
  <2>2. Waiting' = Waiting \union {g} /\ \A i \in 1..n : writeChain[i] \in Waiting
    BY <1>2, <2>1, ChainGrows DEF Waiting
  <2> HIDE DEF n
  <2>3. \A f \in Waiting' \union received' : Shuts(f) => closing'
    BY <1>2, <2>2 DEF ShutdownInv
  <2>4. ASSUME NEW i \in DOMAIN writeChain', NEW j \in DOMAIN writeChain', Shuts(writeChain'[i]), Opens(writeChain'[j])
        PROVE  j < i
    <3>1. (i \in 1..n \/ i = n + 1) /\ (j \in 1..n \/ j = n + 1)
      BY <2>1
    <3>2. CASE i \in 1..n /\ j \in 1..n
      BY <2>1, <2>4, <3>2 DEF ShutdownInv
    <3>3. CASE i = n + 1 /\ j \in 1..n
      BY <2>1, <3>3
    <3>4. CASE i = n + 1 /\ j = n + 1
      BY <1>2, <2>1, <2>4, <3>4
    <3>5. CASE i \in 1..n /\ j = n + 1
      <4>1. Shuts(writeChain[i]) /\ Opens(g)
        BY <2>1, <2>4, <3>5
      <4> QED
        BY <1>2, <2>2, <3>5, <4>1 DEF ShutdownInv
    <3> QED
      BY <3>1, <3>2, <3>3, <3>4, <3>5
  <2>5. (\E f \in received' : Shuts(f)) => \A f \in Waiting' : ~Opens(f)
    BY <1>2, <2>2 DEF ShutdownInv
  <2> QED
    BY <2>3, <2>4, <2>5 DEF ShutdownInv, Shuts, Opens
<1> QED
  BY <1>1, <1>2

\* The chain loses its first frame, to the engine or for good.
LEMMA ShutdownWrites ==
  ASSUME TypeOK, ShutdownInv, WriteCompletes \/ WriteFails
  PROVE  ShutdownInv'
<1> DEFINE h == Head(writeChain)
           rest == Tail(writeChain)
           n == Len(writeChain)
<1>1. /\ writeChain # <<>> /\ UNCHANGED closing
      /\ writeChain' = rest \/ \E p : writeChain' = Append(rest, Frame("proxyConnError", p))
      /\ received' = received \/ received' = received \union {h}
  BY DEF WriteCompletes, WriteFails
<1>2. writeChain \in Seq(Frames) /\ rest \in Seq(Frames) /\ h \in Waiting
  BY <1>1, HeadWaits DEF TypeOK
<1>3. /\ n \in Nat /\ n >= 1 /\ h = writeChain[1] /\ DOMAIN writeChain = 1..n
      /\ Len(rest) = n - 1 /\ DOMAIN rest = 1..(n - 1)
      /\ \A i \in 1..(n - 1) : rest[i] = writeChain[i + 1]
  BY <1>1, <1>2
<1> HIDE DEF rest, h
\* A frame of the chain that shuts or opens was in the chain, one place further on.
<1>4. ASSUME NEW i \in DOMAIN writeChain', Shuts(writeChain'[i]) \/ Opens(writeChain'[i])
      PROVE  i \in 1..(n - 1) /\ writeChain'[i] = writeChain[i + 1]
  <2>1. CASE writeChain' = rest
    <3>1. i \in 1..(n - 1) /\ writeChain'[i] = rest[i]
      BY <1>3, <2>1
    <3> QED
      BY <1>3, <3>1
  <2>2. ASSUME NEW p, writeChain' = Append(rest, Frame("proxyConnError", p))
        PROVE  i \in 1..(n - 1) /\ writeChain'[i] = writeChain[i + 1]
    <3> DEFINE g == Frame("proxyConnError", p)
    <3>1. ~Shuts(g) /\ ~Opens(g)
      BY DEF Shuts, Opens, Frame
    <3> HIDE DEF g
    <3>2. writeChain' = Append(rest, g)
      BY <2>2 DEF g
    <3>3. /\ \A k \in 1..Len(rest) : writeChain'[k] = rest[k]
          /\ writeChain'[Len(rest) + 1] = g /\ DOMAIN writeChain' = 1..(Len(rest) + 1)
      BY <1>2, <3>2
    <3> HIDE DEF n
    <3>4. i \in 1..(n - 1) \/ i = Len(rest) + 1
      BY <1>3, <3>3
    <3>5. i # Len(rest) + 1
      BY <1>4, <3>1, <3>3
    <3> QED
      BY <1>3, <3>3, <3>4, <3>5
  <2> QED
    BY <1>1, <2>1, <2>2
<1>5. \A i \in 1..(n - 1) : i + 1 \in 1..n /\ 1 \in 1..n /\ ~(i + 1 < 1) /\ \A j \in 1..(n - 1) : j + 1 < i + 1 => j < i
  <2> HIDE DEF n
  <2> QED
    BY <1>3
<1> HIDE DEF n
<1>6. \A f \in Waiting' : Shuts(f) \/ Opens(f) => f \in Waiting
  <2> SUFFICES ASSUME NEW i \in DOMAIN writeChain', Shuts(writeChain'[i]) \/ Opens(writeChain'[i])
               PROVE  writeChain'[i] \in Waiting
    BY DEF Waiting
  <2> QED
    BY <1>3, <1>4, <1>5 DEF Waiting
<1>7. \A f \in Waiting' \union received' : Shuts(f) => closing'
  BY <1>1, <1>2, <1>6 DEF ShutdownInv
<1>8. ASSUME NEW i \in DOMAIN writeChain', NEW j \in DOMAIN writeChain', Shuts(writeChain'[i]), Opens(writeChain'[j])
      PROVE  j < i
  <2>1. /\ i \in 1..(n - 1) /\ writeChain'[i] = writeChain[i + 1]
        /\ j \in 1..(n - 1) /\ writeChain'[j] = writeChain[j + 1]
    BY <1>4, <1>8
  <2>2. j + 1 < i + 1
    BY <1>3, <1>5, <1>8, <2>1 DEF ShutdownInv
  <2> QED
    BY <1>5, <2>1, <2>2
<1>9. ASSUME NEW f \in received', Shuts(f), NEW g \in Waiting', Opens(g) PROVE FALSE
  <2>1. g \in Waiting
    BY <1>6, <1>9
  <2>2. f \notin received
    BY <1>9, <2>1 DEF ShutdownInv
  <2>3. f = writeChain[1]
    BY <1>1, <1>3, <1>9, <2>2
  <2>4. PICK j \in DOMAIN writeChain' : g = writeChain'[j]
    BY <1>9 DEF Waiting
  <2>5. j \in 1..(n - 1) /\ g = writeChain[j + 1]
    BY <1>4, <1>9, <2>4
  <2> QED
    BY <1>3, <1>5, <1>9, <2>3, <2>5 DEF ShutdownInv
<1> QED
  BY <1>7, <1>8, <1>9 DEF ShutdownInv, Shuts, Opens

LEMMA StepShutdownInv == TypeOK /\ ShutdownInv /\ [Next]_vars => ShutdownInv'
<1> SUFFICES ASSUME TypeOK, ShutdownInv, [Next]_vars PROVE ShutdownInv'
  OBVIOUS
<1>1. ASSUME UNCHANGED <<closing, received, writeChain>> PROVE ShutdownInv'
  BY <1>1, ShutdownStays
\* A frame that neither shuts nor opens.
<1>2. ASSUME UNCHANGED <<closing, received>>, NEW op, NEW id, Write(op, id),
             op \notin {"closeControlChannelReq", "openTunnelReq"}
      PROVE  ShutdownInv'
  <2>1. ~Shuts(Frame(op, id)) /\ ~Opens(Frame(op, id))
    BY <1>2 DEF Shuts, Opens, Frame
  <2> QED
    BY <1>2, <2>1, ShutdownStays DEF Write
<1>3. ASSUME NEW handlers, NEW pending, Finish(handlers, pending) PROVE ShutdownInv'
  BY <1>1, <1>3 DEF Finish
<1>4. ASSUME NEW t \in Tunnels, CreateTunnel(t) PROVE ShutdownInv'
  <2>1. UNCHANGED <<closing, received>>
    BY <1>4 DEF CreateTunnel, channelVars
  <2>2. CASE UNCHANGED writeChain
    BY <1>1, <2>1, <2>2
  <2>3. CASE ~closing /\ Write("openTunnelReq", t)
    <3>1. ~Shuts(Frame("openTunnelReq", t))
      BY DEF Shuts, Frame
    <3> QED
      BY <2>1, <2>3, <3>1, ShutdownStays DEF Write
  <2> QED
    BY <1>4, <2>2, <2>3 DEF CreateTunnel, Refusing
<1>5. ASSUME NEW t \in Tunnels, NEW a \in Tasks, CloseTunnel(t, a) PROVE ShutdownInv'
  BY <1>1, <1>2, <1>5 DEF CloseTunnel, channelVars
<1>6. ASSUME NEW t \in Tunnels, NEW a \in Tasks, Accept(t, a) \/ AbortAccept(t, a) PROVE ShutdownInv'
  BY <1>1, <1>6 DEF Accept, AbortAccept, channelVars
<1>7. ASSUME NEW a \in Tasks, Close(a) PROVE ShutdownInv'
  <2>1. UNCHANGED received /\ (closing => closing')
    BY <1>7 DEF Close
  <2>2. CASE UNCHANGED writeChain
    BY <2>1, <2>2, ShutdownStays
  <2>3. CASE closing' /\ Write("closeControlChannelReq", a)
    <3>1. ~Opens(Frame("closeControlChannelReq", a))
      BY DEF Opens, Frame
    <3> QED
      BY <2>1, <2>3, <3>1, ShutdownStays DEF Write
  <2> QED
    BY <1>7, <2>2, <2>3 DEF Close
<1>8. CASE WriteCompletes \/ WriteFails
  BY <1>8, ShutdownWrites
<1>9. ASSUME NEW m \in Messages, EngineSends(m) PROVE ShutdownInv'
  BY <1>1, <1>9 DEF EngineSends, channelVars
<1>10. CASE HandleOpenTunnelRsp
  BY <1>1, <1>3, <1>10 DEF HandleOpenTunnelRsp, channelVars
<1>11. CASE HandleCloseTunnelRsp
  BY <1>1, <1>11 DEF HandleCloseTunnelRsp, channelVars
<1>12. ASSUME NEW handlers, NEW p, StartHandler(handlers, p), UNCHANGED <<closing, received>> PROVE ShutdownInv'
  BY <1>1, <1>2, <1>12 DEF StartHandler
<1>13. CASE HandleProxyConnReq
  BY <1>1, <1>3, <1>12, <1>13 DEF HandleProxyConnReq, channelVars
<1>14. CASE HandleCloseControlChannelRsp
  BY <1>1, <1>3, <1>14 DEF HandleCloseControlChannelRsp, channelVars
<1>15. CASE SocketBreaks
  BY <1>1, <1>15 DEF SocketBreaks
<1>16. CASE ReaderFails \/ LivenessFails
  BY <1>3, <1>16 DEF ReaderFails, LivenessFails
<1>17. ASSUME NEW p \in Streams, DialConnects(p) \/ DialFails(p) \/ ProxyOpens(p) \/ ProxyFails(p) PROVE ShutdownInv'
  BY <1>1, <1>2, <1>17 DEF DialConnects, DialFails, ProxyOpens, ProxyFails, RefuseStream, channelVars
<1>18. ASSUME NEW p \in Streams, CatchHandler(p) PROVE ShutdownInv'
  BY <1>1, <1>3, <1>18 DEF CatchHandler, channelVars
<1>19. ASSUME NEW p \in Streams, EndHandler(p) PROVE ShutdownInv'
  BY <1>1, <1>12, <1>19 DEF EndHandler, channelVars
<1>20. CASE UNCHANGED vars
  BY <1>1, <1>20 DEF vars, channelVars
<1> QED
  BY <1>4, <1>5, <1>6, <1>7, <1>8, <1>9, <1>10, <1>11, <1>13, <1>14, <1>15, <1>16, <1>17, <1>18,
     <1>19, <1>20 DEF Next, HandleMessage

LEMMA InitShutdownInv == Init => ShutdownInv
<1> SUFFICES ASSUME Init PROVE ShutdownInv
  OBVIOUS
<1>1. Waiting = {} /\ received = {} /\ writeChain = <<>>
  BY DEF Init, Waiting
<1> QED
  BY <1>1 DEF ShutdownInv

\* The engine receives frames only from the front of the chain.
LEMMA ReceivedFromChain ==
  ASSUME [Next]_vars
  PROVE  received' = received \/ (writeChain # <<>> /\ received' = received \union {Head(writeChain)})
<1>1. CASE WriteCompletes
  BY <1>1 DEF WriteCompletes
<1>2. CASE HandleMessage
  BY <1>2 DEF HandleMessage, HandleOpenTunnelRsp, HandleCloseTunnelRsp, HandleProxyConnReq,
              HandleCloseControlChannelRsp, Finish
<1>3. CASE UNCHANGED vars
  BY <1>3 DEF vars
<1>4. ASSUME NEW t \in Tunnels, CreateTunnel(t) \/ \E a \in Tasks : CloseTunnel(t, a) \/ Accept(t, a) \/ AbortAccept(t, a)
      PROVE  received' = received
  BY <1>4 DEF CreateTunnel, CloseTunnel, Accept, AbortAccept
<1>5. ASSUME NEW p \in Streams,
             DialConnects(p) \/ DialFails(p) \/ ProxyOpens(p) \/ ProxyFails(p) \/ CatchHandler(p) \/ EndHandler(p)
      PROVE  received' = received
  BY <1>5 DEF DialConnects, DialFails, ProxyOpens, ProxyFails, CatchHandler, EndHandler, Finish
<1>6. ASSUME \/ \E a \in Tasks : Close(a)
             \/ \E m \in Messages : EngineSends(m)
             \/ WriteFails \/ SocketBreaks \/ ReaderFails \/ LivenessFails
      PROVE  received' = received
  BY <1>6 DEF Close, EngineSends, WriteFails, SocketBreaks, ReaderFails, LivenessFails, Finish
<1> QED
  BY <1>1, <1>2, <1>3, <1>4, <1>5, <1>6 DEF Next

\* After the engine received the request to close the channel it receives no request to open a
\* tunnel, whichever calls raced with close() (close, createBytestreamTunnel, write).
THEOREM ShutdownIsLast == Spec => NoOpenAfterShutdown
<1> DEFINE NoOpen == (\E a \in Tasks : Frame("closeControlChannelReq", a) \in received) =>
                       \A t \in Tunnels : Frame("openTunnelReq", t) \in received' => Frame("openTunnelReq", t) \in received
<1>1. Spec => []ShutdownInv
  BY InitShutdownInv, StepShutdownInv, TypeCorrect, PTL DEF Spec
<1>2. TypeOK /\ ShutdownInv /\ [Next]_vars => [NoOpen]_vars
  <2> SUFFICES ASSUME TypeOK, ShutdownInv, [Next]_vars, NEW a \in Tasks, NEW t \in Tunnels,
                      Frame("closeControlChannelReq", a) \in received,
                      Frame("openTunnelReq", t) \in received', Frame("openTunnelReq", t) \notin received
               PROVE  FALSE
    OBVIOUS
  <2>1. writeChain # <<>> /\ Frame("openTunnelReq", t) = Head(writeChain)
    BY ReceivedFromChain
  <2>2. Frame("openTunnelReq", t) \in Waiting
    BY <2>1, HeadWaits
  <2>3. Shuts(Frame("closeControlChannelReq", a)) /\ Opens(Frame("openTunnelReq", t))
    BY DEF Shuts, Opens, Frame
  <2> QED
    BY <2>2, <2>3 DEF ShutdownInv
<1>3. Spec => [][NoOpen]_vars
  BY <1>1, <1>2, TypeCorrect, PTL DEF Spec
<1> QED
  BY <1>3 DEF NoOpenAfterShutdown

=============================================================================
