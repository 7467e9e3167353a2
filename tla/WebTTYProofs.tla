----------------------------- MODULE WebTTYProofs ----------------------------
(* A WebTTY session keeps the result that the server sent, sends the input in order,   *)
(* holds nothing once it is closed, and implements WebTTYEvents.                       *)
(*                                                                                     *)
(* Each section proves conjuncts of the inductive invariant IInv, first of the shapes    *)
(* that a step may take and then of the steps: the types (Typed); the connection agrees *)
(* with the phase of the session (LinkSound, EndSound); what arrives and is decrypted   *)
(* (ArrivalsSound, BusySound); the report of a lost connection is last in the queue     *)
(* (LostSound); how much may wait (CountsSound); what follows the close frame           *)
(* (CloseSound); and the line in which payloads are encrypted and frames written        *)
(* (EncryptSound, LineSound).  The theorems follow from it.                             *)
EXTENDS WebTTYSession, SequenceTheorems, TLAPS

Queued == Messages \union {Lost}
Writers == [buffer : Seq(Frames), inflight : Frames \union {NoFrame}, writing : BOOLEAN]
SoundWriter(w) == w \in Writers /\ (w.writing => w.inflight \in Frames)

\* Types, with the sequences as the prover wants them; the bounds on the queue and the proofs
\* follow from what CountsSound says.
Typed ==
  /\ config \in Configs
  /\ session \in Sessions
  /\ queue \in Seq(Queued)
  /\ busy \in BOOLEAN /\ (busy => queue # <<>>)
  /\ inbox \in Seq(Messages)
  /\ link \in Links
  /\ SoundWriter(writer)
  /\ wire \in Seq(Frames)
  /\ pending \in [stdin : SUBSET (1..MaxCalls), proofs : Nat]
  /\ seen \in Past

LEMMA NextCases ==
  ASSUME Next
  PROVE  \/ Connect \/ Disconnect \/ ConnectReturns
         \/ seen.calls < MaxCalls /\ (WriteStdin \/ CloseStdin \/ Resize \/ RequestTermination \/ Heartbeat)
         \/ SocketOpens \/ TransportReady \/ StreamCreated \/ OpenReturns \/ Adopt \/ OpenFails
         \/ StreamRefused \/ WriteSettles \/ SocketDrains \/ PeerCloses \/ EndSeen \/ ConnectionFails
         \/ Arrives \/ RunNext \/ Decrypted \/ HelloVerified \/ ProofSettles
         \/ (\E n \in pending.stdin : Encrypted(n)) \/ (\E m \in Messages : ServerSends(m))
BY DEF Next, Calls, ConnectionSteps, SessionSteps

LEMMA Bounds ==
  /\ MaxMessages \in Nat \ {0} /\ MaxCalls \in Nat \ {0}
  /\ MaxQueue \in Nat \ {0} /\ MaxWrites \in Nat \ {0}
BY SessionAssumption

LEMMA FrameTyped ==
  /\ Frame("clientHello") \in Frames /\ Frame("open") \in Frames /\ Frame("attach") \in Frames
  /\ Frame("eof") \in Frames /\ Frame("signal") \in Frames
  /\ \A n \in 0..MaxCalls : Stdin(n) \in Frames
<1>1. 0 \in 0..MaxCalls  BY Bounds
<1> QED BY <1>1 DEF Frame, Stdin, Frames, FrameTypes

LEMMA CloseTyped ==
  ASSUME Typed, NEW s \in Sessions, NEW w, SoundWriter(w), NEW result \in {"complete", "error", "lost"},
         CloseWith(s, w, result)
  PROVE  session' \in Sessions /\ link' \in Links /\ SoundWriter(writer')
<1>1. session' \in Sessions
  BY DEF CloseWith, Sessions
<1>2. link' \in Links
  BY DEF CloseWith, Released, Links, Typed
<1>3. SoundWriter(Emptied(w))
  <2>1. <<>> \in Seq(Frames)  OBVIOUS
  <2> QED BY <2>1 DEF Emptied, SoundWriter, Writers
<1>4. writer' = w \/ writer' = Emptied(w)
  BY DEF CloseWith
<1> QED BY <1>1, <1>2, <1>3, <1>4

LEMMA PushedTyped ==
  ASSUME NEW w, SoundWriter(w), NEW f \in Frames
  PROVE  SoundWriter(Pushed(w, f))
BY DEF Pushed, Taken, SoundWriter, Writers, NewWriter, NoFrame

LEMMA SendTyped ==
  ASSUME Typed, NEW s \in Sessions, NEW f \in Frames, SendAny(s, f)
  PROVE  session' \in Sessions /\ link' \in Links /\ SoundWriter(writer')
BY CloseTyped, PushedTyped DEF SendAny, Send, Transmit, CloseOf, Typed

LEMMA QueueTyped ==
  ASSUME Typed
  PROVE  /\ queue # <<>> => Head(queue) \in Queued /\ Tail(queue) \in Seq(Queued)
         /\ inbox # <<>> => Head(inbox) \in Messages /\ Tail(inbox) \in Seq(Messages)
         /\ \A m \in Queued : Append(queue, m) \in Seq(Queued) /\ Append(queue, m) # <<>>
         /\ \A m \in Queued, rest \in Seq(Queued) : <<m>> \o rest \in Seq(Queued) /\ <<m>> \o rest # <<>>
BY DEF Typed

LEMMA ProcessTyped ==
  ASSUME Typed, NEW m \in Queued, NEW rest \in Seq(Queued), Process(m, rest)
  PROVE  /\ session' \in Sessions /\ link' \in Links /\ SoundWriter(writer')
         /\ queue' \in Seq(Queued) /\ busy' \in BOOLEAN /\ (busy' => queue' # <<>>)
<1>1. queue' \in Seq(Queued) /\ busy' \in BOOLEAN /\ (busy' => queue' # <<>>)
  BY QueueTyped DEF Process, Handled, Awaited
<1>2. UNCHANGED <<session, link, writer>> \/ ProcessAck \/ (m.type \in {"data", "eos", "sealed"} /\ ProcessOutput(m))
      \/ \E result \in {"complete", "error", "lost"} : Close(result)
  BY DEF Process, NotYet, Readable
<1>3. ASSUME NEW result \in {"complete", "error", "lost"}, Close(result)
      PROVE  session' \in Sessions /\ link' \in Links /\ SoundWriter(writer')
  BY <1>3, CloseTyped DEF Close, CloseOf, Typed
<1>4. CASE ProcessAck
  BY <1>1, <1>3, <1>4, ZenonT(60) DEF ProcessAck, Sessions, Typed
<1>5. CASE m.type \in {"data", "eos", "sealed"} /\ ProcessOutput(m)
  <2>1. m.stream \in Streams
    BY <1>5 DEF Queued, Messages, Plain, Outputs, Lost
  <2>2. CASE Close("error")
    BY <1>1, <1>3, <2>2
  <2>3. CASE /\ session' = IF m.type = "eos" THEN [session EXCEPT !.ended = @ \union {m.stream}] ELSE session
             /\ UNCHANGED <<link, writer>>
    <3>1. session.ended \union {m.stream} \in SUBSET Streams
      BY <2>1 DEF Typed, Sessions
    <3>2. session' \in Sessions
      BY <2>3, <3>1 DEF Typed, Sessions
    <3> QED BY <1>1, <2>3, <3>2 DEF Typed
  <2> QED BY <1>5, <2>2, <2>3 DEF ProcessOutput
<1> QED BY <1>1, <1>2, <1>3, <1>4, <1>5 DEF Typed

LEMMA InitTyped == Init => Typed
<1> SUFFICES ASSUME Init PROVE Typed
  OBVIOUS
<1>1. <<>> \in Seq(Queued) /\ <<>> \in Seq(Messages) /\ <<>> \in Seq(Frames)
  OBVIOUS
<1>2. SoundWriter(NewWriter)
  BY <1>1 DEF SoundWriter, Writers, NewWriter
<1>3. session \in Sessions /\ link \in Links
  BY DEF Init, Sessions, Links
<1>4. pending \in [stdin : SUBSET (1..MaxCalls), proofs : Nat] /\ seen \in Past
  BY Bounds DEF Init, Past
<1> QED BY <1>1, <1>2, <1>3, <1>4 DEF Init, Typed

\* Of every step: the object, the connection and the writer ...
Core == session \in Sessions /\ link \in Links /\ SoundWriter(writer)

LEMMA CoreTyped ==
  ASSUME Typed, Next
  PROVE  Core'
<1>0. session \in Sessions /\ link \in Links /\ SoundWriter(writer)
  BY DEF Typed
<1>1. ASSUME NEW result \in {"complete", "error", "lost"}, Close(result) PROVE Core'
  BY <1>0, <1>1, CloseTyped DEF Close, CloseOf, Core
<1>2. ASSUME NEW f \in Frames, SendAny(session, f) PROVE Core'
  BY <1>0, <1>2, SendTyped DEF Core
<1>3. ASSUME UNCHANGED <<session, link, writer>> PROVE Core'
  BY <1>0, <1>3 DEF Core
<1>4. ASSUME NEW l \in Links, Begins(l) PROVE Core'
  <2>1. CASE HandleOpen(l) \/ OpenThrows(l)
    BY <1>0, <2>1, PushedTyped, FrameTyped DEF HandleOpen, OpenThrows, Core
  <2>2. CASE OpenRefused(l)
    <3>1. Released(l) \in Links
      BY DEF Released, Links
    <3>2. session' \in Sessions
      BY <1>0, <2>2 DEF OpenRefused, Sessions
    <3> QED BY <1>0, <2>2, <3>1, <3>2 DEF OpenRefused, Core
  <2> QED BY <1>4, <2>1, <2>2 DEF Begins
<1>5. Released(link) \in Links
  BY <1>0 DEF Released, Links
<1>6. CASE Connect
  <2> DEFINE s == [session EXCEPT !.state = "connecting"]
  <2>1. s \in Sessions
    BY <1>0 DEF Sessions
  <2>2. CASE CloseOf(s, "error")
    BY <1>0, <2>1, <2>2, CloseTyped DEF CloseOf, Core
  <2>3. CASE session' = s /\ UNCHANGED writer
             /\ link' = [stage |-> IF WebTransport THEN "ready" ELSE "socket", carrier |-> "up", stream |-> "none"]
    <3>1. link' \in Links
      BY <2>3 DEF Links
    <3> QED BY <1>0, <2>1, <2>3, <3>1 DEF Core
  <2> QED BY <1>6, <2>2, <2>3 DEF Connect
<1>7. CASE Disconnect \/ ConnectionFails
  BY <1>1, <1>7 DEF Disconnect, ConnectionFails
<1>8. CASE ConnectReturns
  BY <1>0, <1>8 DEF ConnectReturns, Sessions, Core
<1>9. CASE seen.calls < MaxCalls /\ WriteStdin
  <2>1. Stdin(seen.calls + 1) \in Frames
    BY <1>9, FrameTyped, Bounds DEF Typed, Past
  <2> QED BY <1>2, <1>3, <1>9, <2>1 DEF WriteStdin, NotYet
<1>10. CASE CloseStdin
  <2> DEFINE s == [session EXCEPT !.stdinClosed = TRUE]
  <2>1. s \in Sessions
    BY <1>0 DEF Sessions
  <2> QED BY <2>1, <1>10, SendTyped, FrameTyped DEF CloseStdin, SendAny, Core
<1>11. CASE Resize \/ Heartbeat
  BY <1>2, <1>11, FrameTyped DEF Resize, Heartbeat, SendAny
<1>12. CASE RequestTermination
  <2> DEFINE s == [session EXCEPT !.terminate = "requested"]
  <2>1. s \in Sessions
    BY <1>0 DEF Sessions
  <2>2. CASE CloseOf(s, "error")
    BY <1>0, <2>1, <2>2, CloseTyped DEF CloseOf, Core
  <2>3. CASE session' = s /\ writer' = Pushed(writer, Frame("signal")) /\ UNCHANGED link
    BY <1>0, <2>1, <2>3, PushedTyped, FrameTyped DEF Core
  <2> QED BY <1>3, <1>12, <2>2, <2>3 DEF RequestTermination, Transmit, NotYet
<1>13. CASE SocketOpens \/ Adopt
  <2> DEFINE l == [link EXCEPT !.stage = "open"]
  <2>1. l \in Links
    BY <1>0 DEF Links
  <2>2. CASE Begins(l)
    <3> HIDE DEF l
    <3> QED BY <1>4, <2>1, <2>2
  <2>3. CASE link' = Released(link) /\ UNCHANGED <<session, writer>>
    BY <1>0, <1>5, <2>3 DEF Core
  <2> QED BY <1>13, <2>2, <2>3 DEF SocketOpens, Adopt
<1>14. CASE TransportReady \/ StreamCreated \/ OpenReturns \/ StreamRefused
  <2>1. link' \in Links
    BY <1>0, <1>5, <1>14 DEF TransportReady, StreamCreated, OpenReturns, StreamRefused, Links
  <2>2. UNCHANGED <<session, writer>>
    BY <1>14 DEF TransportReady, StreamCreated, OpenReturns, StreamRefused
  <2> QED BY <1>0, <2>1, <2>2 DEF Core
<1>15. CASE OpenFails
  <2>1. link' \in Links
    BY <1>0, <1>15 DEF OpenFails, Links
  <2>2. session' \in Sessions
    BY <1>0, <1>15 DEF OpenFails, Sessions
  <2> QED BY <1>0, <1>15, <2>1, <2>2 DEF OpenFails, Core
<1>16. CASE WriteSettles
  <2>1. SoundWriter(NewWriter)
    BY DEF NewWriter, SoundWriter, Writers
  <2>2. SoundWriter(Taken(writer))
    BY <1>0, <2>1 DEF Taken, SoundWriter, Writers
  <2> DEFINE w == [writer EXCEPT !.inflight = NoFrame, !.writing = FALSE]
  <2>3. SoundWriter(w)
    BY <1>0 DEF SoundWriter, Writers
  <2>4. CASE CloseWith(session, w, "error")
    BY <1>0, <2>3, <2>4, CloseTyped DEF Core
  <2> QED BY <1>0, <1>16, <2>1, <2>2, <2>4 DEF WriteSettles, Core
<1>17. CASE SocketDrains
  <2>1. writer.buffer \in Seq(Frames) /\ writer.buffer # <<>>
    BY <1>0, <1>17 DEF SocketDrains, SoundWriter, Writers
  <2>2. Tail(writer.buffer) \in Seq(Frames)
    BY <2>1
  <2>3. SoundWriter([writer EXCEPT !.buffer = Tail(@)])
    BY <1>0, <2>2 DEF SoundWriter, Writers
  <2> QED BY <1>0, <1>17, <2>3 DEF SocketDrains, Core
<1>18. CASE PeerCloses
  <2>1. link' \in Links /\ session' \in Sessions
    BY <1>0, <1>18 DEF PeerCloses, Links, Sessions
  <2> QED BY <1>0, <1>18, <2>1 DEF PeerCloses, Core
<1>19. CASE EndSeen
  <2>1. [link EXCEPT !.carrier = "ended"] \in Links
    BY <1>0 DEF Links
  <2> QED BY <1>0, <1>1, <1>19, <2>1 DEF EndSeen, Core
<1>20. CASE Arrives
  BY <1>1, <1>3, <1>20, ProcessTyped, QueueTyped DEF Arrives, NotYet, Queued, Core
<1>21. CASE RunNext
  BY <1>21, ProcessTyped, QueueTyped DEF RunNext, Core
<1>22. CASE Decrypted
  BY <1>1, <1>3, <1>22 DEF Decrypted, NotYet
<1>23. CASE HelloVerified
  BY <1>1, <1>2, <1>3, <1>23, FrameTyped DEF HelloVerified, NotYet
<1>24. CASE ProofSettles
  BY <1>1, <1>2, <1>24, FrameTyped DEF ProofSettles
<1>25. CASE \E n \in pending.stdin : Encrypted(n)
  <2>1. \A n \in pending.stdin : Stdin(n) \in Frames
    BY FrameTyped, Bounds DEF Typed
  <2> QED BY <1>2, <1>3, <1>25, <2>1 DEF Encrypted, NotYet
<1>26. CASE \E m \in Messages : ServerSends(m)
  BY <1>3, <1>26 DEF ServerSends
<1> QED BY <1>6, <1>7, <1>8, <1>9, <1>10, <1>11, <1>12, <1>13, <1>14, <1>15, <1>16, <1>17, <1>18, <1>19, <1>20, <1>21,
           <1>22, <1>23, <1>24, <1>25, <1>26, NextCases

\* ... the messages ...
LEMMA MessagesTyped ==
  ASSUME Typed, Next
  PROVE  /\ queue' \in Seq(Queued) /\ busy' \in BOOLEAN /\ (busy' => queue' # <<>>)
         /\ inbox' \in Seq(Messages)
<1>0. queue \in Seq(Queued) /\ busy \in BOOLEAN /\ (busy => queue # <<>>) /\ inbox \in Seq(Messages)
  BY DEF Typed
<1>1. CASE UNCHANGED <<queue, busy, inbox>>
  BY <1>0, <1>1
<1>2. CASE EndSeen
  BY <1>0, <1>2, QueueTyped DEF EndSeen, Queued
<1>3. CASE Arrives
  <2>1. CASE UNCHANGED <<queue, busy>>
    BY <1>0, <1>3, <2>1, QueueTyped DEF Arrives
  <2>2. CASE queue' = Append(queue, Head(inbox)) /\ UNCHANGED busy
    BY <1>0, <1>3, <2>2, QueueTyped DEF Arrives, Queued
  <2>3. CASE Process(Head(inbox), <<>>)
    <3>1. Head(inbox) \in Queued /\ <<>> \in Seq(Queued)
      BY <1>3, QueueTyped DEF Arrives, Queued
    <3> QED BY <1>3, <2>3, <3>1, ProcessTyped, QueueTyped DEF Arrives
  <2> QED BY <1>3, <2>1, <2>2, <2>3 DEF Arrives
<1>4. CASE RunNext
  BY <1>0, <1>4, ProcessTyped, QueueTyped DEF RunNext
<1>5. CASE Decrypted \/ HelloVerified
  BY <1>0, <1>5, QueueTyped DEF Decrypted, HelloVerified, Handled
<1>6. CASE \E m \in Messages : ServerSends(m)
  <2>1. PICK m \in Messages : ServerSends(m)
    BY <1>6
  <2> QED BY <1>0, <2>1 DEF ServerSends
<1> QED BY <1>1, <1>2, <1>3, <1>4, <1>5, <1>6, NextCases
        DEF Connect, Disconnect, ConnectReturns, WriteStdin, CloseStdin, Resize, RequestTermination, Heartbeat, SocketOpens,
            TransportReady, StreamCreated, OpenReturns, Adopt, OpenFails, StreamRefused, WriteSettles, SocketDrains,
            PeerCloses, ConnectionFails, ProofSettles, Encrypted

\* ... and what has been written, what is being encrypted and signed, and the past.
LEMMA PastTyped ==
  ASSUME Typed, Next
  PROVE  /\ config' = config /\ wire' \in Seq(Frames)
         /\ pending' \in [stdin : SUBSET (1..MaxCalls), proofs : Nat] /\ seen' \in Past
<1>0. /\ wire \in Seq(Frames) /\ pending \in [stdin : SUBSET (1..MaxCalls), proofs : Nat] /\ seen \in Past
      /\ SoundWriter(writer)
  BY DEF Typed
<1> USE Bounds
<1>1. CASE UNCHANGED <<config, wire, pending, seen>>
  BY <1>0, <1>1
<1>2. CASE WriteSettles
  <2>1. writer.inflight \in Frames
    BY <1>0, <1>2 DEF WriteSettles, SoundWriter
  <2> QED BY <1>0, <1>2, <2>1 DEF WriteSettles
<1>3. CASE SocketDrains
  <2>1. Head(writer.buffer) \in Frames
    BY <1>0, <1>3 DEF SocketDrains, SoundWriter, Writers
  <2> QED BY <1>0, <1>3, <2>1 DEF SocketDrains
<1>4. CASE SocketOpens \/ Adopt \/ HelloVerified \/ ProofSettles
  <2>1. UNCHANGED <<config, wire, seen>>
    BY <1>4 DEF SocketOpens, Adopt, HelloVerified, ProofSettles
  <2>2. CASE SocketOpens \/ Adopt
    <3>1. pending' = pending \/ pending' = [pending EXCEPT !.proofs = 1]
      BY <2>2 DEF SocketOpens, Adopt, Begins, HandleOpen, OpenRefused, OpenThrows
    <3> QED BY <1>0, <2>1, <3>1
  <2>3. CASE HelloVerified
    BY <1>0, <2>1, <2>3 DEF HelloVerified
  <2>4. CASE ProofSettles
    BY <1>0, <2>1, <2>4 DEF ProofSettles
  <2> QED BY <1>4, <2>2, <2>3, <2>4
<1>5. CASE \E n \in pending.stdin : Encrypted(n)
  BY <1>0, <1>5 DEF Encrypted
<1>6. CASE seen.calls < MaxCalls /\ WriteStdin
  <2>1. seen.calls + 1 \in 1..MaxCalls
    BY <1>0, <1>6 DEF Past
  <2>2. pending' \in [stdin : SUBSET (1..MaxCalls), proofs : Nat]
    BY <1>0, <1>6, <2>1 DEF WriteStdin
  <2>3. seen' \in Past
    <3>1. Counted \in Past
      BY <1>0, <2>1 DEF Counted, Past
    <3>2. seen' = Counted \/ \E b \in BOOLEAN : seen' = [Counted EXCEPT !.overlap = b]
      BY <1>6 DEF WriteStdin
    <3> QED BY <3>1, <3>2 DEF Past
  <2> QED BY <1>0, <1>6, <2>2, <2>3 DEF WriteStdin
<1>7. CASE seen.calls < MaxCalls /\ (CloseStdin \/ Resize \/ RequestTermination \/ Heartbeat)
  <2>1. seen' = Counted /\ UNCHANGED <<config, wire, pending>>
    BY <1>7 DEF CloseStdin, Resize, RequestTermination, Heartbeat
  <2> QED BY <1>0, <1>7, <2>1 DEF Counted, Past
<1>8. CASE ConnectReturns
  <2>1. \E b \in BOOLEAN : seen' = [seen EXCEPT !.hasty = b]
    BY <1>8 DEF ConnectReturns
  <2> QED BY <1>0, <1>8, <2>1 DEF ConnectReturns, Past
<1>9. CASE \E m \in Messages : ServerSends(m)
  <2>1. PICK b \in BOOLEAN : seen' = [seen EXCEPT !.messages = @ + 1, !.closeSent = b]
    BY <1>9 DEF ServerSends
  <2>2. seen.messages + 1 \in 0..MaxMessages
    BY <1>0, <1>9 DEF ServerSends, Past
  <2>3. seen' \in Past
    BY <1>0, <2>1, <2>2 DEF Past
  <2> QED BY <1>0, <1>9, <2>3 DEF ServerSends
<1> QED BY <1>1, <1>2, <1>3, <1>4, <1>5, <1>6, <1>7, <1>8, <1>9, NextCases
        DEF Connect, Disconnect, TransportReady, StreamCreated, OpenReturns, OpenFails, StreamRefused,
            PeerCloses, EndSeen, ConnectionFails, Arrives, RunNext, Decrypted

LEMMA StepTyped == Typed /\ [Next]_vars => Typed'
<1>1. Typed /\ Next => Typed'
  BY CoreTyped, MessagesTyped, PastTyped DEF Typed, Core
<1>2. Typed /\ UNCHANGED vars => Typed'
  BY DEF Typed, vars
<1> QED BY <1>1, <1>2

-----------------------------------------------------------------------------
(* What a step does to the object and its connection *)

SameObject(s) ==
  s.state = session.state /\ s.result = session.result /\ s.inConnect = session.inConnect
  /\ s.timer = session.timer /\ s.ended = session.ended
Silent == SameObject(session') /\ link' = link /\ event' = NoEvent
Closes ==
  /\ session.state # "closed" /\ session'.state = "closed" /\ session'.result # "none" /\ ~session'.timer
  /\ session'.inConnect = session.inConnect /\ session'.ended = session.ended
  /\ link' = IF Attached(link) THEN Released(link) ELSE link
  /\ event' \in {Event("onComplete"), Event("onError")}
Acknowledged ==
  /\ session.state \in {"preparing", "connecting"} /\ (queue # <<>> \/ inbox # <<>>) /\ ~busy
  /\ session'.state = "connected" /\ session'.result = session.result /\ session'.inConnect
  /\ session'.timer = session.timer /\ session'.ended = session.ended
  /\ link' = link /\ event' = Event("onConnect")
Outputs1(s) ==
  /\ session.state = "connected" /\ s \notin session.ended /\ ~busy
  /\ session'.state = session.state /\ session'.result = session.result /\ session'.inConnect = session.inConnect
  /\ session'.timer = session.timer /\ link' = link
  /\ \/ event' = Output("onOutput", s) /\ session'.ended = session.ended
     \/ event' = Output("onEos", s) /\ session'.ended = session.ended \union {s}

LEMMA CloseShape ==
  ASSUME NEW s \in Sessions, SameObject(s), NEW w, NEW result \in {"complete", "error", "lost"}, CloseWith(s, w, result)
  PROVE  Silent \/ Closes
<1>1. CASE s.state = "closed"
  BY <1>1 DEF CloseWith, Silent, SameObject
<1>2. CASE s.state # "closed"
  BY <1>2 DEF CloseWith, Closes, SameObject, Sessions
<1> QED BY <1>1, <1>2

LEMMA SendShape ==
  ASSUME NEW s \in Sessions, SameObject(s), NEW f, SendAny(s, f)
  PROVE  Silent \/ Closes
<1>1. CASE CloseOf(s, "error")
  BY <1>1, CloseShape DEF CloseOf
<1>2. CASE session' = s /\ event' = NoEvent /\ UNCHANGED link
  BY <1>2 DEF Silent
<1> QED BY <1>1, <1>2 DEF SendAny, Send, Transmit

LEMMA ProcessShape ==
  ASSUME Typed, NEW m \in Queued, NEW rest, queue # <<>> \/ inbox # <<>>, ~busy, Process(m, rest)
  PROVE  Silent \/ Closes \/ Acknowledged \/ \E s \in Streams : Outputs1(s)
<1>0. session \in Sessions /\ SameObject(session)
  BY DEF Typed, SameObject
<1>1. CASE NotYet
  BY <1>0, <1>1 DEF NotYet, Silent
<1>2. ASSUME NEW result \in {"complete", "error", "lost"}, Close(result) PROVE Silent \/ Closes
  BY <1>0, <1>2, CloseShape DEF Close, CloseOf
<1>3. CASE session.state # "closed" /\ ProcessAck
  BY <1>0, <1>2, <1>3 DEF ProcessAck, Acknowledged, Sessions
<1>4. CASE m.type \in {"data", "eos", "sealed"} /\ ProcessOutput(m)
  <2>1. m.stream \in Streams
    BY <1>4 DEF Queued, Messages, Plain, Outputs, Lost
  <2>2. CASE session.state = "connected" /\ m.stream \notin session.ended
    <3>1. Outputs1(m.stream)
      BY <1>0, <1>4, <2>2 DEF ProcessOutput, Outputs1, Sessions
    <3> QED BY <2>1, <3>1
  <2> QED BY <1>2, <1>4, <2>2 DEF ProcessOutput
<1> QED BY <1>1, <1>2, <1>3, <1>4 DEF Process, Readable

LEMMA Shapes ==
  ASSUME Typed, Next
  PROVE  \/ Silent \/ Closes \/ Acknowledged \/ (\E s \in Streams : Outputs1(s))
         \/ Connect \/ ConnectReturns \/ SocketOpens \/ TransportReady \/ StreamCreated \/ OpenReturns \/ Adopt
         \/ OpenFails \/ StreamRefused \/ PeerCloses \/ (EndSeen /\ queue # <<>>) \/ Decrypted
<1>0. session \in Sessions /\ SameObject(session)
  BY DEF Typed, SameObject
<1>1. ASSUME NEW result \in {"complete", "error", "lost"}, Close(result) PROVE Silent \/ Closes
  BY <1>0, <1>1, CloseShape DEF Close, CloseOf
<1>2. ASSUME NEW f, SendAny(session, f) PROVE Silent \/ Closes
  BY <1>0, <1>2, SendShape
<1>3. ASSUME NotYet PROVE Silent
  BY <1>0, <1>3 DEF NotYet, Silent
<1>4. CASE Disconnect \/ ConnectionFails
  BY <1>1, <1>4 DEF Disconnect, ConnectionFails
<1>5. CASE WriteStdin
  BY <1>2, <1>3, <1>5 DEF WriteStdin
<1>6. CASE CloseStdin
  <2> DEFINE s == [session EXCEPT !.stdinClosed = TRUE]
  <2>1. s \in Sessions /\ SameObject(s)
    BY <1>0 DEF Sessions, SameObject
  <2> QED BY <1>6, <2>1, SendShape DEF CloseStdin, SendAny
<1>7. CASE Resize \/ Heartbeat
  BY <1>2, <1>7 DEF Resize, Heartbeat, SendAny
<1>8. CASE RequestTermination
  <2> DEFINE s == [session EXCEPT !.terminate = "requested"]
  <2>1. s \in Sessions /\ SameObject(s)
    BY <1>0 DEF Sessions, SameObject
  <2>2. CASE CloseOf(s, "error")
    BY <2>1, <2>2, CloseShape DEF CloseOf
  <2>3. CASE session' = s /\ event' = NoEvent /\ UNCHANGED link
    BY <2>1, <2>3 DEF Silent
  <2> QED BY <1>3, <1>8, <2>2, <2>3 DEF RequestTermination, Transmit
<1>9. CASE WriteSettles
  <2>1. CASE event' = NoEvent /\ UNCHANGED <<session, link>>
    BY <1>0, <2>1 DEF Silent
  <2>2. CASE CloseWith(session, [writer EXCEPT !.inflight = NoFrame, !.writing = FALSE], "error")
    BY <1>0, <2>2, CloseShape
  <2> QED BY <1>9, <2>1, <2>2 DEF WriteSettles
<1>10. CASE SocketDrains \/ \E m \in Messages : ServerSends(m)
  BY <1>0, <1>10 DEF SocketDrains, ServerSends, Silent
<1>11. CASE EndSeen /\ queue = <<>>
  BY <1>1, <1>11 DEF EndSeen
<1>12. CASE Arrives
  <2>1. Head(inbox) \in Queued
    BY <1>12, QueueTyped DEF Arrives, Queued
  <2> QED BY <1>1, <1>3, <1>12, <2>1, ProcessShape DEF Arrives, Typed
<1>13. CASE RunNext
  <2>1. Head(queue) \in Queued
    BY <1>13, QueueTyped DEF RunNext
  <2> QED BY <1>13, <2>1, ProcessShape DEF RunNext
<1>14. CASE HelloVerified
  BY <1>1, <1>2, <1>3, <1>14 DEF HelloVerified
<1>15. CASE ProofSettles
  BY <1>1, <1>2, <1>15 DEF ProofSettles
<1>16. CASE \E n \in pending.stdin : Encrypted(n)
  BY <1>2, <1>3, <1>16 DEF Encrypted
<1> QED BY <1>4, <1>5, <1>6, <1>7, <1>8, <1>9, <1>10, <1>11, <1>12, <1>13, <1>14, <1>15, <1>16, NextCases

-----------------------------------------------------------------------------
(* Stages of the connection *)

Opening == {"ready", "stream", "arrived", "opened"}

\* What the stage says of the session, of the connection and of its stream.
LinkSound ==
  /\ session.state = "preparing" => link.stage = "idle"
  /\ session.state = "connected" => link.stage = "open"
  /\ session.state = "connecting" => link.stage \notin {"idle", "closed"}
  /\ session.state = "closed" => link.stage \notin {"socket", "open"}
  /\ link.stage = "idle" => link.carrier = "none"
  /\ link.stage = "closed" => link.carrier = "closed"
  /\ link.stage \in {"socket", "open"} \union Opening => link.carrier \in {"up", "down", "ended"}
  /\ link.carrier = "ended" => link.stage = "open" /\ ~WebTransport
  /\ link.stage \in {"idle", "socket", "ready"} => link.stream = "none"
  /\ link.stage = "stream" => link.stream = "creating" \/ (link.stream = "released" /\ session.state = "closed")
  /\ link.stage \in {"arrived", "opened"} => link.stream = "open"
  /\ link.stage = "open" => link.stream # "creating"
  /\ link.stage = "closed" => link.stream # "open" /\ (link.stream = "creating" => session.state = "closed")

\* The result and the timer of a session that is closed.
EndSound ==
  /\ session.result = "none" <=> session.state # "closed"
  /\ session.inConnect \/ session.timer => session.state \in {"connected", "closed"}
  /\ session.timer /\ session.state = "closed" => seen.hasty

\* Nothing arrives before the connection is open, and nothing after its end.
ArrivalsSound ==
  /\ link.stage \notin {"open", "closed"} => queue = <<>> /\ inbox = <<>>
  /\ link.carrier = "ended" => inbox = <<>>

LEMMA LinkStep ==
  ASSUME Typed, LinkSound, EndSound, ArrivalsSound, Next
  PROVE  LinkSound'
<1>0. session \in Sessions /\ link \in Links /\ WebTransport' = WebTransport
  BY PastTyped DEF Typed, WebTransport
<1> USE DEF Opening
<1>1. CASE Silent \/ \E s \in Streams : Outputs1(s)
  BY <1>0, <1>1 DEF Silent, SameObject, Outputs1, LinkSound
<1>2. CASE Closes
  BY <1>0, <1>2 DEF Closes, Attached, Released, LinkSound, Links
<1>3. CASE Acknowledged
  BY <1>0, <1>3 DEF Acknowledged, ArrivalsSound, LinkSound, Sessions
<1>4. CASE Connect
  <2>1. ASSUME CloseOf([session EXCEPT !.state = "connecting"], "error") PROVE LinkSound'
    BY <1>0, <1>4, <2>1 DEF Connect, CloseOf, CloseWith, Attached, LinkSound, Sessions
  <2> QED BY <1>0, <1>4, <2>1 DEF Connect, LinkSound, Sessions
<1>5. CASE ConnectReturns
  BY <1>0, <1>5 DEF ConnectReturns, LinkSound, Sessions
<1>6. CASE SocketOpens \/ Adopt
  <2> DEFINE l == [link EXCEPT !.stage = "open"]
  <2>0. /\ session.state \in {"preparing", "connecting", "connected", "closed"}
        /\ link.stage \in {"socket", "opened"}
        /\ link.stage = "socket" => session.state = "connecting"
    BY <1>0, <1>6 DEF SocketOpens, Adopt, LinkSound, Sessions
  <2>1. CASE link' = l /\ session' = session /\ session.state = "connecting"
    <3>1. link'.stage = "open" /\ link'.carrier = link.carrier /\ link'.stream = link.stream
      BY <1>0, <2>1 DEF Links
    <3> QED BY <1>0, <2>0, <2>1, <3>1 DEF LinkSound
  <2>2. CASE OpenRefused(l)
    <3>1. link'.stage = "closed" /\ link'.carrier = "closed" /\ link'.stream # "open" /\ session'.state = "closed"
      BY <1>0, <2>2 DEF OpenRefused, Released, Links, Sessions
    <3>2. link'.stream \in {link.stream, "released"}
      BY <1>0, <2>2 DEF OpenRefused, Released, Links
    <3> QED BY <1>0, <1>6, <3>1, <3>2 DEF SocketOpens, Adopt, LinkSound, Links
  <2>3. CASE link' = Released(link) /\ session' = session /\ link.stage = "opened" /\ session.state # "connecting"
    <3>1. link.stream = "open" /\ session.state = "closed"
      BY <2>0, <2>3 DEF LinkSound
    <3>2. link'.stage = "closed" /\ link'.carrier = "closed" /\ link'.stream = "released"
      BY <1>0, <2>3, <3>1 DEF Released, Links
    <3> QED BY <2>3, <3>1, <3>2 DEF LinkSound
  <2>4. CASE SocketOpens
    <3>1. link.stage = "socket" /\ Begins(l)
      BY <2>4 DEF SocketOpens
    <3> QED BY <2>0, <2>1, <2>2, <3>1 DEF Begins, HandleOpen, OpenThrows
  <2>5. CASE Adopt
    <3>1. CASE session.state = "connecting" /\ Begins(l)
      BY <2>1, <2>2, <3>1 DEF Begins, HandleOpen, OpenThrows
    <3>2. CASE session.state # "connecting" /\ link.stage = "opened" /\ link' = Released(link) /\ session' = session
      BY <2>3, <3>2
    <3> QED BY <2>5, <3>1, <3>2 DEF Adopt
  <2> QED BY <1>6, <2>4, <2>5
<1>8. CASE TransportReady \/ StreamCreated \/ OpenReturns \/ StreamRefused
  BY <1>0, <1>8 DEF TransportReady, StreamCreated, OpenReturns, StreamRefused, Released, LinkSound, Links
<1>9. CASE OpenFails
  <2>1. PICK stream \in {link.stream, "none"} :
          /\ session.state # "closed" => stream = "none"
          /\ link' = [stage |-> "closed", carrier |-> "closed", stream |-> stream]
    BY <1>9 DEF OpenFails
  <2>2. session'.state = "closed" /\ link.stream # "open"
    BY <1>0, <1>9 DEF OpenFails, LinkSound, Sessions
  <2> QED BY <1>0, <2>1, <2>2 DEF LinkSound
<1>12. CASE PeerCloses
  <2>1. link' = [link EXCEPT !.carrier = "down"] /\ link.carrier = "up"
    BY <1>12 DEF PeerCloses
  <2>2. session'.state = session.state \/ (session'.state = "closed" /\ link.stage \in {"ready", "stream", "arrived"})
    BY <1>0, <1>12 DEF PeerCloses, Sessions
  <2> QED BY <1>0, <2>1, <2>2 DEF LinkSound, Links
<1>10. CASE EndSeen /\ queue # <<>>
  BY <1>0, <1>10 DEF EndSeen, LinkSound, ArrivalsSound, Links
<1>11. CASE Decrypted
  <2>1. ASSUME Close("error") PROVE LinkSound'
    BY <1>0, <1>1, <1>2, <2>1, CloseShape DEF Close, CloseOf, SameObject
  <2> QED BY <1>0, <1>11, <2>1 DEF Decrypted, NotYet, LinkSound
<1> QED BY <1>1, <1>2, <1>3, <1>4, <1>5, <1>6, <1>8, <1>9, <1>10, <1>11, <1>12, Shapes

LEMMA EndStep ==
  ASSUME Typed, LinkSound, EndSound, ArrivalsSound, Next
  PROVE  EndSound'
<1>0. session \in Sessions /\ link \in Links
  BY DEF Typed
<1>h. CASE ConnectReturns
  BY <1>0, <1>h DEF ConnectReturns, EndSound, Sessions, Typed, Past
<1> SUFFICES ASSUME ~ConnectReturns PROVE EndSound'
  BY <1>h
<1>s. seen'.hasty = seen.hasty
  BY NextCases DEF Connect, Disconnect, WriteStdin, CloseStdin, Resize, RequestTermination, Heartbeat, SocketOpens,
     TransportReady, StreamCreated, OpenReturns, Adopt, OpenFails, StreamRefused, WriteSettles, SocketDrains, PeerCloses,
     EndSeen, ConnectionFails, Arrives, RunNext, Decrypted, HelloVerified, ProofSettles, Encrypted, ServerSends, Counted,
     Typed, Past
<1>1. CASE Silent \/ \E s \in Streams : Outputs1(s)
  BY <1>0, <1>1, <1>s DEF Silent, SameObject, Outputs1, EndSound
<1>2. CASE Closes
  BY <1>0, <1>2, <1>s DEF Closes, EndSound
<1>3. CASE Acknowledged
  BY <1>0, <1>3, <1>s DEF Acknowledged, EndSound
<1>4. CASE Connect
  <2>1. ASSUME CloseOf([session EXCEPT !.state = "connecting"], "error") PROVE EndSound'
    BY <1>0, <1>4, <1>s, <2>1 DEF Connect, CloseOf, CloseWith, EndSound, Sessions
  <2> QED BY <1>0, <1>4, <1>s, <2>1 DEF Connect, EndSound, Sessions
<1>5. CASE SocketOpens \/ Adopt \/ TransportReady \/ StreamCreated \/ OpenReturns \/ StreamRefused
  <2>1. CASE session' = session
    BY <1>0, <1>5, <1>s, <2>1 DEF EndSound
  <2>2. CASE OpenRefused([link EXCEPT !.stage = "open"]) /\ session.state = "connecting"
    BY <1>0, <1>s, <2>2 DEF OpenRefused, EndSound, Sessions
  <2>3. SocketOpens => session.state = "connecting"
    BY <1>0 DEF SocketOpens, LinkSound, Sessions
  <2> QED BY <1>5, <2>1, <2>2, <2>3
          DEF SocketOpens, Adopt, Begins, HandleOpen, OpenThrows, TransportReady, StreamCreated, OpenReturns, StreamRefused
<1>6. CASE OpenFails \/ PeerCloses
  BY <1>0, <1>6, <1>s DEF OpenFails, PeerCloses, LinkSound, EndSound, Sessions
<1>7. CASE EndSeen /\ queue # <<>>
  BY <1>0, <1>7, <1>s DEF EndSeen, EndSound
<1>8. CASE Decrypted
  <2>1. ASSUME Close("error") PROVE EndSound'
    BY <1>0, <1>1, <1>2, <2>1, CloseShape DEF Close, CloseOf, SameObject
  <2> QED BY <1>0, <1>8, <1>s, <2>1 DEF Decrypted, NotYet, EndSound
<1> QED BY <1>1, <1>2, <1>3, <1>4, <1>5, <1>6, <1>7, <1>8, Shapes

\* The connection never goes back, and only EndSeen ends it for the receiver.
LEMMA LinkMoves ==
  ASSUME Typed, LinkSound, Next
  PROVE  /\ link.stage \in {"open", "closed"} => link'.stage \in {"open", "closed"}
         /\ link'.carrier = "ended" => link.carrier = "ended" \/ (EndSeen /\ queue # <<>>)
<1>0. session \in Sessions /\ link \in Links
  BY DEF Typed
<1>1. CASE Silent \/ Closes \/ Acknowledged \/ \E s \in Streams : Outputs1(s)
  BY <1>0, <1>1 DEF Silent, Closes, Acknowledged, Outputs1, Released, Attached, Links
<1>2. CASE Connect
  BY <1>0, <1>2 DEF Connect, CloseOf, CloseWith, Released, Attached, LinkSound, Links
<1>3. CASE ConnectReturns \/ SocketOpens \/ Adopt
  BY <1>0, <1>3 DEF ConnectReturns, SocketOpens, Adopt, Begins, HandleOpen, OpenRefused, OpenThrows, Released, Links
<1>4. CASE TransportReady \/ StreamCreated \/ OpenReturns \/ StreamRefused \/ PeerCloses
  BY <1>0, <1>4 DEF TransportReady, StreamCreated, OpenReturns, StreamRefused, PeerCloses, Released, LinkSound, Links
<1>5. CASE OpenFails
  BY <1>0, <1>5 DEF OpenFails
<1>6. CASE EndSeen /\ queue # <<>>
  BY <1>0, <1>6 DEF EndSeen, Links
<1>7. CASE Decrypted
  BY <1>0, <1>7 DEF Decrypted, NotYet, Close, CloseOf, CloseWith, Released, Attached, Links
<1> QED BY <1>1, <1>2, <1>3, <1>4, <1>5, <1>6, <1>7, Shapes

LEMMA ArrivalsStep ==
  ASSUME Typed, LinkSound, ArrivalsSound, Next
  PROVE  ArrivalsSound'
<1>1. CASE UNCHANGED <<queue, inbox>>
  BY <1>1, LinkMoves DEF ArrivalsSound, EndSeen
<1>2. CASE EndSeen
  BY <1>2, LinkMoves DEF EndSeen, ArrivalsSound
<1>3. CASE Arrives
  BY <1>3, LinkMoves DEF Arrives, ArrivalsSound, EndSeen
<1>4. CASE RunNext
  BY <1>4, LinkMoves DEF RunNext, ArrivalsSound, EndSeen
<1>5. CASE Decrypted \/ HelloVerified
  <2>1. queue # <<>>
    BY <1>5 DEF Decrypted, HelloVerified, Typed
  <2> QED BY <1>5, <2>1, LinkMoves DEF Decrypted, HelloVerified, ArrivalsSound, EndSeen
<1>6. CASE \E m \in Messages : ServerSends(m)
  BY <1>6, LinkMoves DEF ServerSends, ArrivalsSound
<1> QED BY <1>1, <1>2, <1>3, <1>4, <1>5, <1>6, NextCases
        DEF Connect, Disconnect, ConnectReturns, WriteStdin, CloseStdin, Resize, RequestTermination, Heartbeat, SocketOpens,
            TransportReady, StreamCreated, OpenReturns, Adopt, OpenFails, StreamRefused, WriteSettles, SocketDrains,
            PeerCloses, ConnectionFails, ProofSettles, Encrypted

-----------------------------------------------------------------------------
(* The promises to the callbacks *)

\* What is being decrypted may still be handed over when that is done.
Promised(m) == m.type = "sealed" => session.state \in {"connected", "closed"} /\ m.stream \notin session.ended
BusySound ==
  busy => /\ Head(queue).type \in {"sealed", "hello"} /\ Promised(Head(queue))
          /\ Head(queue).type = "hello" => E2E

LEMMA BusyStep ==
  ASSUME Typed, LinkSound, BusySound, Next
  PROVE  BusySound'
<1>0. session \in Sessions /\ E2E' = E2E
  BY PastTyped DEF Typed, E2E
<1>1. CASE ~busy'
  BY <1>1 DEF BusySound
<1>2. CASE busy /\ busy' /\ Head(queue') = Head(queue)
  <2>1. CASE Silent \/ Closes \/ ConnectReturns \/ SocketOpens \/ TransportReady \/ StreamCreated \/ OpenReturns \/ Adopt
             \/ OpenFails \/ StreamRefused \/ PeerCloses \/ (EndSeen /\ queue # <<>>)
    <3>1. session'.ended = session.ended /\ session'.state \in {session.state, "closed"}
      BY <1>0, <2>1 DEF Silent, SameObject, Closes, ConnectReturns, SocketOpens, TransportReady, StreamCreated,
         OpenReturns, Adopt, Begins, HandleOpen, OpenRefused, OpenThrows, OpenFails, StreamRefused, PeerCloses, EndSeen, Sessions
    <3> QED BY <1>0, <1>2, <3>1 DEF BusySound, Promised
  <2>2. CASE Decrypted
    BY <1>2, <2>2 DEF Decrypted, Handled
  <2>3. CASE Connect
    BY <1>0, <1>2, <2>3 DEF Connect, CloseOf, CloseWith, BusySound, Promised, Sessions
  <2> QED BY <1>2, <2>1, <2>2, <2>3, Shapes DEF Acknowledged, Outputs1
<1>3. ASSUME NEW m \in Queued, NEW rest \in Seq(Queued), Process(m, rest), busy' PROVE BusySound'
  <2>1. Awaits(m) /\ queue' = <<m>> \o rest /\ UNCHANGED session
    BY <1>3 DEF Process, Handled, Awaited, NotYet
  <2>2. Head(queue') = m
    BY <1>3, <2>1
  <2> QED BY <1>0, <2>1, <2>2 DEF Awaits, Greets, Readable, BusySound, Promised
<1>4. CASE Arrives
  <2>1. CASE UNCHANGED <<queue, busy>>
    BY <1>1, <1>2, <2>1
  <2>2. CASE queue # <<>> /\ queue' = Append(queue, Head(inbox)) /\ UNCHANGED busy
    <3>1. Head(queue') = Head(queue)
      BY <2>2, HeadTailAppend DEF Typed
    <3> QED BY <1>1, <1>2, <2>2, <3>1
  <2>3. CASE Process(Head(inbox), <<>>)
    <3>1. Head(inbox) \in Queued /\ <<>> \in Seq(Queued)
      BY <1>4, QueueTyped DEF Arrives, Queued
    <3> QED BY <1>1, <1>3, <2>3, <3>1, ProcessTyped
  <2> QED BY <1>4, <2>1, <2>2, <2>3 DEF Arrives
<1>5. CASE RunNext
  BY <1>1, <1>3, <1>5, QueueTyped, ProcessTyped DEF RunNext
<1>6. CASE EndSeen /\ queue # <<>>
  <2>1. queue' = Append(queue, Lost) /\ busy' = busy
    BY <1>6 DEF EndSeen
  <2>2. Head(queue') = Head(queue)
    BY <1>6, <2>1, HeadTailAppend DEF Typed
  <2> QED BY <1>1, <1>2, <2>1, <2>2
<1>7. CASE UNCHANGED <<queue, busy>>
  BY <1>1, <1>2, <1>7
<1>8. CASE Decrypted \/ HelloVerified
  BY <1>1, <1>8 DEF Decrypted, HelloVerified, Handled
<1> QED BY <1>4, <1>5, <1>6, <1>7, <1>8, NextCases
        DEF Connect, Disconnect, ConnectReturns, WriteStdin, CloseStdin, Resize, RequestTermination, Heartbeat, SocketOpens,
            TransportReady, StreamCreated, OpenReturns, Adopt, OpenFails, StreamRefused, WriteSettles, SocketDrains,
            PeerCloses, EndSeen, ConnectionFails, ProofSettles, Encrypted, ServerSends

\* Every step is one that WebTTYEvents allows.
LEMMA StepPromised ==
  ASSUME Typed, LinkSound, EndSound, ArrivalsSound, BusySound, Next
  PROVE  Promises!EventsNext
<1>0. session \in Sessions /\ link \in Links
  BY DEF Typed
<1> USE DEF Promises!NoEvent, NoEvent, Promises!Event, Event, Promises!Output, Output
<1>1. CASE Silent
  BY <1>1 DEF Silent, SameObject, Promises!EventsNext, Promises!Quiet
<1>2. CASE Closes
  BY <1>2 DEF Closes, Promises!EventsNext, Promises!OnEnd
<1>3. CASE Acknowledged
  BY <1>3 DEF Acknowledged, LinkSound, ArrivalsSound, Promises!EventsNext, Promises!OnConnect
<1>4. ASSUME NEW s \in Streams, Outputs1(s) PROVE Promises!EventsNext
  BY <1>4 DEF Outputs1, Promises!EventsNext, Promises!OnOutput, Promises!OnEos
<1>5. CASE Connect
  BY <1>0, <1>5 DEF Connect, CloseOf, CloseWith, Sessions, Promises!EventsNext, Promises!Starts, Promises!OnEnd
<1>6. CASE ConnectReturns \/ SocketOpens \/ TransportReady \/ StreamCreated \/ OpenReturns \/ Adopt \/ StreamRefused
           \/ (EndSeen /\ queue # <<>>)
  <2>1. CASE session'.state = session.state /\ session'.ended = session.ended /\ event' = NoEvent
    BY <2>1 DEF Promises!EventsNext, Promises!Quiet
  <2>2. CASE OpenRefused([link EXCEPT !.stage = "open"]) /\ session.state = "connecting"
    BY <1>0, <2>2 DEF OpenRefused, Sessions, Promises!EventsNext, Promises!OnEnd
  <2>3. SocketOpens => session.state = "connecting"
    BY <1>0 DEF SocketOpens, LinkSound, Sessions
  <2> QED BY <1>0, <1>6, <2>1, <2>2, <2>3
          DEF ConnectReturns, SocketOpens, TransportReady, StreamCreated, OpenReturns, Adopt, StreamRefused, EndSeen,
              Begins, HandleOpen, OpenThrows, Sessions
<1>7. CASE OpenFails \/ PeerCloses
  BY <1>0, <1>7 DEF OpenFails, PeerCloses, Sessions, Promises!EventsNext, Promises!Quiet, Promises!OnEnd
<1>8. CASE Decrypted
  <2>1. ASSUME Close("error") PROVE Promises!EventsNext
    BY <1>0, <1>1, <1>2, <2>1, CloseShape DEF Close, CloseOf, SameObject
  <2>2. CASE NotYet
    BY <1>0, <1>1, <2>2 DEF NotYet, Silent, SameObject
  <2>3. CASE session.state # "closed" /\ event' = Output("onOutput", Head(queue).stream) /\ UNCHANGED session
    <3>1. Head(queue) \in Queued /\ Head(queue).type = "sealed"
      BY <1>8, QueueTyped DEF Decrypted, Typed
    <3>2. Head(queue).stream \in Streams
      BY <3>1 DEF Queued, Messages, Plain, Outputs, Lost
    <3>3. session.state = "connected" /\ Head(queue).stream \notin session.ended
      BY <1>8, <2>3, <3>1 DEF Decrypted, BusySound, Promised
    <3> QED BY <2>3, <3>2, <3>3 DEF Promises!EventsNext, Promises!OnOutput
  <2> QED BY <1>8, <2>1, <2>2, <2>3 DEF Decrypted
<1> QED BY <1>1, <1>2, <1>3, <1>4, <1>5, <1>6, <1>7, <1>8, Shapes

-----------------------------------------------------------------------------
(* The queue of messages *)

HasClose(line) == \E i \in 1..Len(line) : line[i].type = "close"

\* The report of the lost connection is the last in the queue, and comes once.
Ends == link.carrier \in {"ended", "closed"}
Extra == IF Ends THEN 1 ELSE 0
LastIsLost(line) == \A i \in 1..Len(line) : line[i] = Lost => i = Len(line)
LostSound == LastIsLost(queue) /\ (~Ends => \A i \in 1..Len(queue) : queue[i] # Lost)

\* Each message that waits, that is handled or that is answered by a proof was sent.
Load == pending.proofs + (Len(queue) + Len(inbox))
CountsSound ==
  /\ Len(queue) <= MaxQueue + Extra
  /\ E2E => Load <= seen.messages + Extra
  /\ ~E2E => pending.proofs <= 1

\* A Close message is on its way until it is handled.
CloseSound ==
  /\ seen.closeSent /\ session.state # "closed" => HasClose(queue) \/ HasClose(inbox)
  /\ ResultNotLost

LEMMA SequenceFacts ==
  ASSUME NEW S, NEW line \in Seq(S)
  PROVE  /\ \A m \in S : /\ Append(line, m) \in Seq(S) /\ Len(Append(line, m)) = Len(line) + 1
                        /\ \A i \in 1..Len(line) : Append(line, m)[i] = line[i]
                        /\ Append(line, m)[Len(line) + 1] = m
         /\ line # <<>> => /\ Len(line) >= 1 /\ Head(line) = line[1] /\ Tail(line) \in Seq(S)
                           /\ Len(Tail(line)) = Len(line) - 1
                           /\ \A i \in 1..Len(line) - 1 : Tail(line)[i] = line[i + 1]
         /\ line # <<>> => <<Head(line)>> \o Tail(line) = line
         /\ Len(line) \in Nat
OBVIOUS

LEMMA HasCloseFacts ==
  ASSUME NEW S, NEW line \in Seq(S)
  PROVE  /\ \A m \in S : HasClose(Append(line, m)) <=> HasClose(line) \/ m.type = "close"
         /\ line # <<>> => (HasClose(line) <=> Head(line).type = "close" \/ HasClose(Tail(line)))
         /\ ~HasClose(<<>>)
<1>1. ASSUME NEW m \in S PROVE HasClose(Append(line, m)) <=> HasClose(line) \/ m.type = "close"
  BY SequenceFacts DEF HasClose
<1>2. ASSUME line # <<>> PROVE HasClose(line) <=> Head(line).type = "close" \/ HasClose(Tail(line))
  <2>1. ASSUME HasClose(line) PROVE Head(line).type = "close" \/ HasClose(Tail(line))
    <3>1. PICK i \in 1..Len(line) : line[i].type = "close"
      BY <2>1 DEF HasClose
    <3>2. CASE i = 1
      BY <1>2, <3>1, <3>2, SequenceFacts
    <3>3. CASE i # 1
      <4>1. i - 1 \in 1..Len(Tail(line)) /\ Tail(line)[i - 1] = line[i]
        BY <1>2, <3>1, <3>3, SequenceFacts
      <4> QED BY <3>1, <4>1 DEF HasClose
    <3> QED BY <3>2, <3>3
  <2>2. ASSUME Head(line).type = "close" PROVE HasClose(line)
    BY <1>2, <2>2, SequenceFacts DEF HasClose
  <2>3. ASSUME HasClose(Tail(line)) PROVE HasClose(line)
    <3>1. PICK i \in 1..Len(Tail(line)) : Tail(line)[i].type = "close"
      BY <2>3 DEF HasClose
    <3>2. i + 1 \in 1..Len(line) /\ line[i + 1] = Tail(line)[i]
      BY <1>2, <3>1, SequenceFacts
    <3> QED BY <3>1, <3>2 DEF HasClose
  <2> QED BY <2>1, <2>2, <2>3
<1> QED BY <1>1, <1>2 DEF HasClose

\* How a step changes the queue and the messages on their way.
Drops == inbox # <<>> /\ inbox' = Tail(inbox) /\ queue' = queue /\ Close("error")
Waits ==
  /\ inbox # <<>> /\ inbox' = Tail(inbox) /\ link.carrier # "ended" /\ link.stage = "open"
  /\ Len(queue) < MaxQueue /\ queue' = Append(queue, Head(inbox)) /\ UNCHANGED session
Handles(m) ==
  session'.state = "closed" \/ m.type # "close"
Keeps(m, rest) == queue' = <<m>> \o rest /\ UNCHANGED session
LEMMA ProcessMoves ==
  ASSUME Typed, NEW m, NEW rest, Process(m, rest)
  PROVE  Keeps(m, rest) \/ (queue' = rest /\ Handles(m))
<1>1. CASE Awaited(m, rest) /\ NotYet
  BY <1>1, Zenon DEF NotYet, Awaited, Keeps
<1>2. CASE Handled(rest) /\ m.type = "close"
  <2>1. (session.state = "closed" /\ NotYet) \/ (session.state # "closed" /\ Close("complete")) \/ (Awaited(m, rest) /\ NotYet)
    BY <1>2 DEF Process
  <2> QED BY <1>1, <1>2, <2>1 DEF NotYet, Handled, Close, CloseOf, CloseWith, Handles, Typed, Sessions
<1>3. CASE Handled(rest) /\ m.type # "close"
  BY <1>3 DEF Handled, Handles
<1> QED BY <1>1, <1>2, <1>3 DEF Process

LEMMA QueueMoves ==
  ASSUME Typed, LinkSound, ArrivalsSound, Next
  PROVE  \/ UNCHANGED <<queue, inbox>>
         \/ Drops \/ Waits
         \/ inbox # <<>> /\ inbox' = Tail(inbox) /\ queue = <<>> /\ queue' = <<>> /\ Handles(Head(inbox))
         \/ queue # <<>> /\ queue' = Tail(queue) /\ inbox' = inbox /\ Handles(Head(queue))
         \/ EndSeen /\ queue # <<>>
         \/ \E m \in Messages : ServerSends(m)
<1>1. CASE Arrives
  <2>1. inbox # <<>> /\ inbox' = Tail(inbox) /\ link.stage = "open" /\ link.carrier # "ended"
    BY <1>1 DEF Arrives, ArrivalsSound
  <2>2. CASE Len(queue) >= MaxQueue
    BY <1>1, <2>1, <2>2 DEF Arrives, Drops
  <2>3. CASE Len(queue) < MaxQueue /\ queue # <<>>
    BY <1>1, <2>1, <2>3, Bounds DEF Arrives, Waits, NotYet, Typed
  <2>4. CASE Len(queue) < MaxQueue /\ queue = <<>>
    <3>1. Process(Head(inbox), <<>>)
      BY <1>1, <2>4, Bounds DEF Arrives
    <3>2. <<Head(inbox)>> \o <<>> = Append(queue, Head(inbox))
      BY <2>4
    <3> QED BY <2>1, <2>4, <3>1, <3>2, ProcessMoves DEF Waits, Keeps
  <2>5. Len(queue) \in Nat
    BY DEF Typed
  <2> QED BY <2>2, <2>3, <2>4, <2>5, Bounds
<1>2. CASE RunNext
  <2>1. <<Head(queue)>> \o Tail(queue) = queue
    BY <1>2, SequenceFacts DEF RunNext, Typed
  <2> QED BY <1>2, <2>1, ProcessMoves DEF RunNext, Keeps
<1>3. CASE Decrypted \/ HelloVerified
  BY <1>3 DEF Decrypted, HelloVerified, Handled, Handles, Typed
<1>4. CASE EndSeen /\ queue = <<>>
  BY <1>4 DEF EndSeen
<1> QED BY <1>1, <1>2, <1>3, <1>4, NextCases
        DEF Connect, Disconnect, ConnectReturns, WriteStdin, CloseStdin, Resize, RequestTermination, Heartbeat, SocketOpens,
            TransportReady, StreamCreated, OpenReturns, Adopt, OpenFails, StreamRefused, WriteSettles, SocketDrains,
            PeerCloses, ConnectionFails, ProofSettles, Encrypted

LEMMA EndsForEver ==
  ASSUME Typed, LinkSound, Next, Ends
  PROVE  Ends'
<1>0. session \in Sessions /\ link \in Links
  BY DEF Typed
<1>1. CASE Silent \/ Closes \/ Acknowledged \/ \E s \in Streams : Outputs1(s)
  BY <1>0, <1>1 DEF Silent, Closes, Acknowledged, Outputs1, Released, Attached, Ends, Links
<1>2. CASE Connect
  BY <1>0, <1>2 DEF Connect, CloseOf, CloseWith, Released, Attached, LinkSound, Ends, Links
<1>3. CASE ConnectReturns \/ SocketOpens \/ Adopt
  BY <1>0, <1>3 DEF ConnectReturns, SocketOpens, Adopt, Begins, HandleOpen, OpenRefused, OpenThrows, Released, Ends, Links
<1>4. CASE TransportReady \/ StreamCreated \/ OpenReturns \/ StreamRefused \/ PeerCloses
  BY <1>0, <1>4 DEF TransportReady, StreamCreated, OpenReturns, StreamRefused, PeerCloses, Released, Ends, Links
<1>5. CASE OpenFails
  BY <1>0, <1>5 DEF OpenFails, Ends
<1>6. CASE EndSeen /\ queue # <<>>
  BY <1>0, <1>6 DEF EndSeen, Ends, Links
<1>7. CASE Decrypted
  BY <1>0, <1>7 DEF Decrypted, NotYet, Close, CloseOf, CloseWith, Released, Attached, Ends, Links
<1> QED BY <1>1, <1>2, <1>3, <1>4, <1>5, <1>6, <1>7, Shapes

\* The proofs being signed, and the number of messages sent.
LEMMA CountsMove ==
  ASSUME Typed, BusySound, Next
  PROVE  /\ E2E => \/ pending'.proofs <= pending.proofs
                   \/ pending'.proofs = pending.proofs + 1 /\ queue # <<>> /\ queue' = Tail(queue) /\ inbox' = inbox
         /\ ~E2E => pending'.proofs \in {1, pending.proofs, pending.proofs - 1}
         /\ seen'.messages = seen.messages \/ \E m \in Messages : ServerSends(m)
<1>0. pending \in [stdin : SUBSET (1..MaxCalls), proofs : Nat] /\ seen \in Past
  BY DEF Typed
<1>1. CASE HelloVerified
  <2>1. E2E /\ queue # <<>> /\ queue' = Tail(queue) /\ inbox' = inbox /\ seen' = seen
    BY <1>1 DEF HelloVerified, Handled, BusySound, Typed
  <2>2. pending' = pending \/ pending' = [pending EXCEPT !.proofs = @ + 1]
    BY <1>1 DEF HelloVerified
  <2> QED BY <1>0, <2>1, <2>2
<1>2. CASE SocketOpens \/ Adopt
  <2>1. pending' = pending \/ (~E2E /\ pending' = [pending EXCEPT !.proofs = 1])
    BY <1>2 DEF SocketOpens, Adopt, Begins, HandleOpen, OpenRefused, OpenThrows, E2E
  <2>2. seen' = seen
    BY <1>2 DEF SocketOpens, Adopt
  <2> QED BY <1>0, <2>1, <2>2
<1>3. CASE ProofSettles
  BY <1>0, <1>3 DEF ProofSettles
<1>4. CASE pending'.proofs = pending.proofs /\ seen'.messages = seen.messages
  BY <1>0, <1>4
<1>5. CASE UNCHANGED <<pending, seen>>
  BY <1>4, <1>5
<1>6. CASE WriteStdin \/ CloseStdin \/ Resize \/ RequestTermination \/ Heartbeat
  <2>1. pending'.proofs = pending.proofs
    BY <1>0, <1>6 DEF WriteStdin, CloseStdin, Resize, RequestTermination, Heartbeat
  <2>2. seen'.messages = seen.messages
    BY <1>0, <1>6 DEF WriteStdin, CloseStdin, Resize, RequestTermination, Heartbeat, Counted, Past
  <2> QED BY <1>4, <2>1, <2>2
<1>7. CASE \E n \in pending.stdin : Encrypted(n)
  <2>1. pending'.proofs = pending.proofs /\ seen' = seen
    BY <1>0, <1>7 DEF Encrypted
  <2> QED BY <1>4, <2>1
<1>8. CASE ConnectReturns
  <2>1. pending' = pending /\ seen'.messages = seen.messages
    BY <1>0, <1>8 DEF ConnectReturns, Past
  <2> QED BY <1>4, <2>1
<1>9. CASE \E m \in Messages : ServerSends(m)
  <2>1. pending' = pending
    BY <1>9 DEF ServerSends
  <2> QED BY <1>0, <1>9, <2>1
<1> QED BY <1>1, <1>2, <1>3, <1>5, <1>6, <1>7, <1>8, <1>9, NextCases
        DEF Connect, Disconnect, TransportReady, StreamCreated, OpenReturns, OpenFails, StreamRefused,
            WriteSettles, SocketDrains, PeerCloses, EndSeen, ConnectionFails, Arrives, RunNext, Decrypted

LEMMA LostStep ==
  ASSUME Typed, LinkSound, ArrivalsSound, LostSound, Next
  PROVE  LostSound'
<1>0. queue \in Seq(Queued) /\ inbox \in Seq(Messages) /\ Len(queue) \in Nat
  BY DEF Typed
<1>1. Ends => Ends'
  BY EndsForEver
<1>2. \A m \in Messages : m # Lost /\ m \in Queued
  BY DEF Messages, Plain, Outputs, Lost, Queued
<1>3. CASE queue' = queue
  BY <1>1, <1>3 DEF LostSound, LastIsLost
<1>4. CASE Waits
  <2>1. ~Ends
    BY <1>4 DEF Waits, LinkSound, Ends
  <2>2. Head(inbox) \in Messages
    BY <1>0, <1>4, SequenceFacts DEF Waits
  <2>3. \A i \in 1..Len(queue') : queue'[i] # Lost
    BY <1>0, <1>2, <1>4, <2>1, <2>2, SequenceFacts DEF Waits, LostSound
  <2> QED BY <2>3 DEF LostSound, LastIsLost
<1>5. CASE queue # <<>> /\ queue' = Tail(queue)
  <2>1. Len(queue') = Len(queue) - 1 /\ \A i \in 1..Len(queue') : queue'[i] = queue[i + 1] /\ i + 1 \in 1..Len(queue)
    BY <1>0, <1>5, SequenceFacts
  <2> QED BY <1>0, <1>1, <2>1 DEF LostSound, LastIsLost
<1>6. CASE EndSeen /\ queue # <<>>
  <2>1. ~Ends
    BY <1>6 DEF EndSeen, LinkSound, Ends
  <2>2. link' = [link EXCEPT !.carrier = "ended"] /\ queue' = Append(queue, Lost)
    BY <1>6 DEF EndSeen
  <2>3. Ends'
    BY <2>2 DEF Ends, Typed, Links
  <2>4. Lost \in Queued
    BY DEF Queued
  <2>5. Len(queue') = Len(queue) + 1 /\ \A i \in 1..Len(queue) : queue'[i] = queue[i]
    BY <1>0, <2>2, <2>4, SequenceFacts
  <2>6. LastIsLost(queue')
    BY <1>0, <2>1, <2>5 DEF LostSound, LastIsLost
  <2> QED BY <2>3, <2>6 DEF LostSound, LastIsLost
<1>7. CASE queue = <<>> /\ queue' = <<>>
  BY <1>3, <1>7
<1> QED BY <1>3, <1>4, <1>5, <1>6, <1>7, QueueMoves DEF Drops, ServerSends

LEMMA CountsStep ==
  ASSUME Typed, LinkSound, ArrivalsSound, BusySound, CountsSound, Next
  PROVE  CountsSound'
<1>0. /\ queue \in Seq(Queued) /\ inbox \in Seq(Messages)
      /\ Len(queue) \in Nat /\ Len(inbox) \in Nat
      /\ pending.proofs \in Nat /\ pending'.proofs \in Nat /\ seen.messages \in Nat /\ MaxQueue \in Nat
  BY PastTyped, Bounds DEF Typed, Past
<1>1. Extra \in {0, 1} /\ Extra' \in {0, 1} /\ Extra <= Extra'
  BY EndsForEver DEF Extra
<1>2. E2E' = E2E
  BY PastTyped DEF E2E
<1>3. \A m \in Messages : m \in Queued
  BY DEF Queued
<1> SUFFICES /\ Len(queue') <= MaxQueue + Extra'
             /\ E2E => Load' <= seen'.messages + Extra'
             /\ ~E2E => pending'.proofs <= 1
  BY <1>2 DEF CountsSound
<1>4. ~E2E => pending'.proofs <= 1
  BY <1>0, CountsMove DEF CountsSound
<1> DEFINE Sum == Len(queue) + Len(inbox)
           Sent == \E m \in Messages : ServerSends(m)
<1>a. Sent => Len(inbox') = Len(inbox) + 1
  <2> SUFFICES ASSUME NEW m \in Messages, ServerSends(m) PROVE Len(inbox') = Len(inbox) + 1
    OBVIOUS
  <2>1. inbox' = Append(inbox, m)
    BY DEF ServerSends
  <2> QED BY <1>0, <2>1, SequenceFacts
<1>5. ASSUME ~Sent, Len(queue') \in Nat, Len(inbox') \in Nat, Len(queue') + Len(inbox') <= Sum,
             queue # <<>> /\ queue' = Tail(queue) => Len(queue') + Len(inbox') < Sum
      PROVE  E2E => Load' <= seen'.messages + Extra'
  <2> SUFFICES ASSUME E2E PROVE Load' <= seen'.messages + Extra'
    OBVIOUS
  <2>1. seen'.messages = seen.messages
    BY <1>5, CountsMove
  <2>2. \/ pending'.proofs <= pending.proofs
        \/ pending'.proofs = pending.proofs + 1 /\ Len(queue') + Len(inbox') < Sum
    BY <1>5, CountsMove
  <2>3. Load' <= Load
    BY <1>0, <1>5, <2>2, SMTT(30) DEF Load
  <2>4. Load \in Nat /\ Load' \in Nat
    BY <1>0, <1>5, SMTT(30) DEF Load
  <2> QED BY <1>0, <1>1, <2>1, <2>3, <2>4 DEF CountsSound
<1>6. CASE UNCHANGED <<queue, inbox>>
  <2>1. Len(queue') = Len(queue) /\ Len(inbox') = Len(inbox)
    BY <1>6
  <2>2. ~Sent
    BY <1>0, <1>a, <2>1
  <2>3. ~(queue # <<>> /\ queue' = Tail(queue))
    BY <1>0, <2>1, SequenceFacts
  <2>4. Len(queue') \in Nat /\ Len(inbox') \in Nat /\ Len(queue') + Len(inbox') <= Sum
    BY <1>0, <2>1
  <2>5. Len(queue') <= MaxQueue + Extra'
    BY <1>0, <1>1, <2>1 DEF CountsSound
  <2>6. E2E => Load' <= seen'.messages + Extra'
    BY <1>5, <2>2, <2>3, <2>4
  <2> QED BY <1>4, <2>5, <2>6
<1>7. CASE Drops \/ (inbox # <<>> /\ inbox' = Tail(inbox) /\ queue = <<>> /\ queue' = <<>>)
  <2>1. Len(inbox') = Len(inbox) - 1 /\ Len(queue') = Len(queue) /\ Len(inbox) >= 1
    BY <1>0, <1>7, SequenceFacts DEF Drops
  <2>2. ~Sent
    BY <1>0, <1>a, <2>1
  <2>3. Len(queue') \in Nat /\ Len(inbox') \in Nat /\ Len(queue') + Len(inbox') < Sum
    BY <1>0, <2>1
  <2>4. Len(queue') + Len(inbox') <= Sum
    BY <1>0, <2>1
  <2>5. Len(queue') <= MaxQueue + Extra'
    BY <1>0, <1>1, <2>1 DEF CountsSound
  <2>6. E2E => Load' <= seen'.messages + Extra'
    BY <1>5, <2>2, <2>3, <2>4
  <2> QED BY <1>4, <2>5, <2>6
<1>8. CASE queue # <<>> /\ queue' = Tail(queue) /\ inbox' = inbox
  <2>1. Len(inbox') = Len(inbox) /\ Len(queue') = Len(queue) - 1 /\ Len(queue) >= 1
    BY <1>0, <1>8, SequenceFacts
  <2>2. ~Sent
    BY <1>0, <1>a, <2>1
  <2>3. Len(queue') \in Nat /\ Len(inbox') \in Nat /\ Len(queue') + Len(inbox') < Sum
    BY <1>0, <2>1
  <2>4. Len(queue') + Len(inbox') <= Sum
    BY <1>0, <2>1
  <2>5. Len(queue') <= MaxQueue + Extra'
    BY <1>0, <1>1, <2>1 DEF CountsSound
  <2>6. E2E => Load' <= seen'.messages + Extra'
    BY <1>5, <2>2, <2>3, <2>4
  <2> QED BY <1>4, <2>5, <2>6
<1>9. CASE Waits
  <2>1. Len(inbox') = Len(inbox) - 1 /\ Len(queue') = Len(queue) + 1 /\ Len(queue) < MaxQueue /\ Len(inbox) >= 1
    BY <1>0, <1>3, <1>9, SequenceFacts DEF Waits
  <2>2. ~Sent
    BY <1>0, <1>a, <2>1
  <2>3. ~(queue # <<>> /\ queue' = Tail(queue))
    BY <1>0, <2>1, SequenceFacts
  <2>4. Len(queue') \in Nat /\ Len(inbox') \in Nat /\ Len(queue') + Len(inbox') <= Sum
    BY <1>0, <2>1
  <2>5. Len(queue') <= MaxQueue + Extra'
    BY <1>0, <1>1, <2>1
  <2>6. E2E => Load' <= seen'.messages + Extra'
    BY <1>5, <2>2, <2>3, <2>4
  <2> QED BY <1>4, <2>5, <2>6
<1>10. CASE EndSeen /\ queue # <<>>
  <2>1. link' = [link EXCEPT !.carrier = "ended"] /\ queue' = Append(queue, Lost) /\ inbox' = inbox /\ ~Ends
    BY <1>10 DEF EndSeen, LinkSound, Ends
  <2>2. Extra = 0 /\ Extra' = 1
    BY <2>1 DEF Ends, Extra, Typed, Links
  <2>3. Lost \in Queued
    BY DEF Queued
  <2>4. Len(queue') = Len(queue) + 1 /\ Len(inbox') = Len(inbox)
    BY <1>0, <2>1, <2>3, SequenceFacts
  <2>5. pending' = pending /\ seen' = seen
    BY <1>10 DEF EndSeen
  <2>6. Len(queue') <= MaxQueue + Extra'
    BY <1>0, <2>2, <2>4 DEF CountsSound
  <2>7. Load' = Load + 1 /\ Load \in Nat
    BY <1>0, <2>4, <2>5 DEF Load
  <2>8. E2E => Load' <= seen'.messages + Extra'
    BY <1>0, <2>2, <2>5, <2>7 DEF CountsSound
  <2> QED BY <1>4, <2>6, <2>8
<1>11. CASE Sent
  <2>1. Len(queue') = Len(queue) /\ Len(inbox') = Len(inbox) + 1 /\ pending' = pending
    BY <1>0, <1>11, SequenceFacts DEF ServerSends
  <2>2. seen'.messages = seen.messages + 1
    BY <1>11 DEF ServerSends, Typed, Past
  <2>3. Len(queue') <= MaxQueue + Extra'
    BY <1>0, <1>1, <2>1 DEF CountsSound
  <2>4. Load' = Load + 1 /\ Load \in Nat
    BY <1>0, <2>1 DEF Load
  <2>5. E2E => Load' <= seen'.messages + Extra'
    BY <1>0, <1>1, <2>2, <2>4 DEF CountsSound
  <2> QED BY <1>4, <2>3, <2>5
<1> QED BY <1>6, <1>7, <1>8, <1>9, <1>10, <1>11, QueueMoves

LEMMA StaysClosed ==
  ASSUME Typed, Next, session.state = "closed"
  PROVE  session'.state = "closed"
<1>0. session \in Sessions
  BY DEF Typed
<1>1. CASE Silent \/ Closes \/ Acknowledged \/ \E s \in Streams : Outputs1(s)
  BY <1>1 DEF Silent, SameObject, Closes, Acknowledged, Outputs1
<1>2. CASE Connect \/ ConnectReturns
  BY <1>0, <1>2 DEF Connect, ConnectReturns, Sessions
<1>3. CASE SocketOpens \/ TransportReady \/ StreamCreated \/ OpenReturns \/ Adopt \/ StreamRefused
  BY <1>0, <1>3 DEF SocketOpens, TransportReady, StreamCreated, OpenReturns, Adopt, StreamRefused,
     Begins, HandleOpen, OpenRefused, OpenThrows, Sessions
<1>4. CASE OpenFails \/ PeerCloses \/ (EndSeen /\ queue # <<>>) \/ Decrypted
  BY <1>0, <1>4 DEF OpenFails, PeerCloses, EndSeen, Decrypted, NotYet, Close, CloseOf, CloseWith
<1> QED BY <1>1, <1>2, <1>3, <1>4, Shapes

\* Only the report of a lost connection gives that result.
ReportsLoss ==
  /\ session.state # "closed"
  /\ (EndSeen /\ queue = <<>>) \/ (RunNext /\ Head(queue).type = "lost")

LEMMA CloseResult ==
  ASSUME NEW s \in Sessions, s.result = session.result, NEW w, NEW result, CloseWith(s, w, result)
  PROVE  session'.result \in {session.result, result}
BY DEF CloseWith, Sessions

LEMMA SendResult ==
  ASSUME NEW s \in Sessions, s.result = session.result, NEW f, SendAny(s, f)
  PROVE  session'.result \in {session.result, "error"}
<1>1. CASE CloseOf(s, "error")
  BY <1>1, CloseResult DEF CloseOf
<1>2. CASE session' = s
  BY <1>2
<1> QED BY <1>1, <1>2 DEF SendAny, Send, Transmit

LEMMA ProcessResult ==
  ASSUME Typed, NEW m, NEW rest, Process(m, rest)
  PROVE  /\ session'.result \in {session.result, "error", "complete", "lost"}
         /\ session'.result = "lost" => session.result = "lost" \/ (m.type = "lost" /\ session.state # "closed")
<1>0. session \in Sessions
  BY DEF Typed
<1>1. ASSUME NEW result, Close(result) PROVE session'.result \in {session.result, result}
  BY <1>0, <1>1, CloseResult DEF Close, CloseOf
<1>2. CASE NotYet
  BY <1>2 DEF NotYet
<1>3. CASE ProcessAck
  <2>1. session'.result = session.result \/ Close("error")
    BY <1>0, <1>3 DEF ProcessAck, Sessions
  <2> QED BY <1>1, <2>1
<1>4. CASE ProcessOutput(m)
  BY <1>0, <1>1, <1>4 DEF ProcessOutput, Sessions
<1> QED BY <1>1, <1>2, <1>3, <1>4 DEF Process

LEMMA ResultMoves ==
  ASSUME Typed, Next, session'.result = "lost"
  PROVE  session.result = "lost" \/ ReportsLoss
<1>0. session \in Sessions
  BY DEF Typed
<1>1. ASSUME Close("error") PROVE session'.result \in {session.result, "error"}
  BY <1>0, <1>1, CloseResult DEF Close, CloseOf
<1>2. ASSUME NEW f, SendAny(session, f) PROVE session'.result \in {session.result, "error"}
  BY <1>0, <1>2, SendResult
<1>3. CASE UNCHANGED session
  BY <1>3
<1>4. CASE Disconnect \/ ConnectionFails
  BY <1>1, <1>4 DEF Disconnect, ConnectionFails
<1>5. CASE WriteStdin \/ Resize \/ Heartbeat
  BY <1>2, <1>3, <1>5 DEF WriteStdin, NotYet, Resize, Heartbeat, SendAny
<1>6. CASE CloseStdin
  <2> DEFINE s == [session EXCEPT !.stdinClosed = TRUE]
  <2>1. s \in Sessions /\ s.result = session.result
    BY <1>0 DEF Sessions
  <2> QED BY <1>6, <2>1, SendResult DEF CloseStdin, SendAny
<1>7. CASE RequestTermination
  <2> DEFINE s == [session EXCEPT !.terminate = "requested"]
  <2>1. s \in Sessions /\ s.result = session.result
    BY <1>0 DEF Sessions
  <2>2. ASSUME CloseOf(s, "error") PROVE session'.result \in {session.result, "error"}
    <3> HIDE DEF s
    <3> QED BY <2>1, <2>2, CloseResult DEF CloseOf
  <2> QED BY <1>3, <1>7, <2>1, <2>2 DEF RequestTermination, Transmit, NotYet
<1>8. CASE WriteSettles
  BY <1>0, <1>8, CloseResult DEF WriteSettles
<1>9. CASE Connect
  <2> DEFINE s == [session EXCEPT !.state = "connecting"]
  <2>1. s \in Sessions /\ s.result = session.result
    BY <1>0 DEF Sessions
  <2>2. ASSUME CloseOf(s, "error") PROVE session'.result \in {session.result, "error"}
    <3> HIDE DEF s
    <3> QED BY <2>1, <2>2, CloseResult DEF CloseOf
  <2> QED BY <1>9, <2>1, <2>2 DEF Connect
<1>10. CASE ConnectReturns \/ OpenFails \/ PeerCloses
  BY <1>0, <1>10 DEF ConnectReturns, OpenFails, PeerCloses, Sessions
<1>11. CASE EndSeen
  <2>1. CASE queue = <<>> /\ Close("lost")
    BY <1>11, <2>1 DEF Close, CloseOf, CloseWith, ReportsLoss
  <2> QED BY <1>3, <1>11, <2>1 DEF EndSeen
<1>12. CASE Arrives
  <2>1. Head(inbox).type # "lost"
    BY <1>12, QueueTyped DEF Arrives, Messages, Plain, Outputs
  <2> QED BY <1>1, <1>3, <1>12, <2>1, ProcessResult DEF Arrives, NotYet
<1>13. CASE RunNext
  BY <1>13, ProcessResult DEF RunNext, ReportsLoss
<1>14. CASE Decrypted \/ HelloVerified \/ ProofSettles
  BY <1>1, <1>2, <1>3, <1>14 DEF Decrypted, HelloVerified, ProofSettles, NotYet
<1>15. CASE \E n \in pending.stdin : Encrypted(n)
  BY <1>2, <1>3, <1>15 DEF Encrypted, NotYet
<1>16. CASE SocketOpens \/ Adopt
  <2>1. session' = session \/ session'.result = "error"
    BY <1>0, <1>16 DEF SocketOpens, Adopt, Begins, HandleOpen, OpenRefused, OpenThrows, Sessions
  <2> QED BY <1>3, <2>1
<1> QED BY <1>3, <1>4, <1>5, <1>6, <1>7, <1>8, <1>9, <1>10, <1>11, <1>12, <1>13, <1>14, <1>15, <1>16, NextCases
        DEF TransportReady, StreamCreated, OpenReturns, StreamRefused, SocketDrains, ServerSends

LEMMA SentMoves ==
  ASSUME Typed, Next, ~\E m \in Messages : ServerSends(m)
  PROVE  seen'.closeSent = seen.closeSent
<1>1. CASE seen' = seen
  BY <1>1
<1>2. CASE WriteStdin \/ CloseStdin \/ Resize \/ RequestTermination \/ Heartbeat
  <2>1. seen' = Counted \/ \E b \in BOOLEAN : seen' = [Counted EXCEPT !.overlap = b]
    BY <1>1, <1>2 DEF WriteStdin, CloseStdin, Resize, RequestTermination, Heartbeat
  <2> QED BY <2>1 DEF Counted, Typed, Past
<1>3. CASE ConnectReturns
  BY <1>3 DEF ConnectReturns, Typed, Past
<1> QED BY <1>1, <1>2, <1>3, NextCases DEF Connect, Disconnect, SocketOpens, TransportReady, StreamCreated, OpenReturns, Adopt,
     OpenFails, StreamRefused, WriteSettles, SocketDrains, PeerCloses, EndSeen, ConnectionFails, Arrives, RunNext, Decrypted,
     HelloVerified, ProofSettles, Encrypted

LEMMA CloseStep ==
  ASSUME Typed, LinkSound, EndSound, ArrivalsSound, LostSound, CloseSound, Next
  PROVE  CloseSound'
<1>0. queue \in Seq(Queued) /\ inbox \in Seq(Messages) /\ session \in Sessions /\ link \in Links
  BY DEF Typed
<1>1. ASSUME NEW m \in Messages, ServerSends(m) PROVE CloseSound'
  <2>1. session' = session /\ queue' = queue /\ inbox' = Append(inbox, m) /\ session.state # "closed"
    BY <1>1 DEF ServerSends, LinkSound
  <2>2. session.result # "lost"
    BY <2>1 DEF EndSound
  <2>3. seen'.closeSent = (seen.closeSent \/ m.type = "close")
    BY <1>1 DEF ServerSends, Typed, Past
  <2>4. HasClose(inbox') <=> HasClose(inbox) \/ m.type = "close"
    BY <1>0, <2>1, HasCloseFacts
  <2> QED BY <2>1, <2>2, <2>3, <2>4 DEF CloseSound, ResultNotLost
<1> SUFFICES ASSUME ~\E m \in Messages : ServerSends(m) PROVE CloseSound'
  BY <1>1
<1>2. seen'.closeSent = seen.closeSent
  BY SentMoves
<1>3. ASSUME seen.closeSent, session'.state # "closed" PROVE HasClose(queue') \/ HasClose(inbox')
  <2>1. HasClose(queue) \/ HasClose(inbox)
    BY <1>3, StaysClosed DEF CloseSound
  <2>2. CASE UNCHANGED <<queue, inbox>>
    BY <2>1, <2>2
  <2>3. ~Drops
    BY <1>0, <1>3 DEF Drops, Close, CloseOf, CloseWith, Sessions
  <2>4. CASE Waits
    <3>1. Head(inbox) \in Queued
      BY <2>4, QueueTyped DEF Waits, Queued
    <3>2. HasClose(queue') <=> HasClose(queue) \/ Head(inbox).type = "close"
      BY <1>0, <2>4, <3>1, HasCloseFacts DEF Waits
    <3>3. HasClose(inbox) <=> Head(inbox).type = "close" \/ HasClose(inbox')
      BY <1>0, <2>4, HasCloseFacts DEF Waits
    <3> QED BY <2>1, <3>2, <3>3
  <2>5. CASE inbox # <<>> /\ inbox' = Tail(inbox) /\ queue = <<>> /\ queue' = <<>> /\ Handles(Head(inbox))
    <3>1. HasClose(inbox) <=> Head(inbox).type = "close" \/ HasClose(inbox')
      BY <1>0, <2>5, HasCloseFacts
    <3>2. ~HasClose(queue)
      BY <2>5 DEF HasClose
    <3>3. Head(inbox).type # "close"
      BY <1>3, <2>5 DEF Handles
    <3> QED BY <2>1, <3>1, <3>2, <3>3
  <2>6. CASE queue # <<>> /\ queue' = Tail(queue) /\ inbox' = inbox /\ Handles(Head(queue))
    <3>1. HasClose(queue) <=> Head(queue).type = "close" \/ HasClose(queue')
      BY <1>0, <2>6, HasCloseFacts
    <3>2. Head(queue).type # "close" /\ inbox' = inbox
      BY <1>3, <2>6 DEF Handles
    <3> QED BY <2>1, <3>1, <3>2
  <2>7. CASE EndSeen /\ queue # <<>>
    <3>1. queue' = Append(queue, Lost) /\ Lost \in Queued /\ inbox' = inbox
      BY <2>7 DEF EndSeen, Queued
    <3>2. HasClose(queue') <=> HasClose(queue) \/ Lost.type = "close"
      BY <1>0, <3>1, HasCloseFacts
    <3> QED BY <2>1, <3>1, <3>2
  <2> QED BY <2>2, <2>3, <2>4, <2>5, <2>6, <2>7, QueueMoves
<1>4. ASSUME session'.result = "lost" PROVE ~seen.closeSent
  <2>1. CASE session.result = "lost"
    BY <2>1 DEF CloseSound, ResultNotLost
  <2>2. CASE session.state # "closed" /\ EndSeen /\ queue = <<>>
    BY <2>2 DEF EndSeen, CloseSound, HasClose
  <2>3. CASE session.state # "closed" /\ RunNext /\ Head(queue).type = "lost"
    <3>1. queue # <<>> /\ Head(queue) \in Queued
      BY <2>3, QueueTyped DEF RunNext
    <3>2. Head(queue) = Lost
      BY <2>3, <3>1 DEF Queued, Messages, Plain, Outputs, Lost
    <3>3. 1 \in 1..Len(queue) /\ queue[1] = Lost
      BY <1>0, <3>1, <3>2, SequenceFacts
    <3>4. Len(queue) = 1 /\ Ends
      BY <1>0, <3>3 DEF LostSound, LastIsLost
    <3>5. ~HasClose(queue)
      BY <3>3, <3>4 DEF HasClose, Lost
    <3>6. link.carrier = "ended"
      BY <1>0, <2>3, <3>4 DEF Ends, LinkSound, Sessions, Links, Opening
    <3> QED BY <2>3, <3>5, <3>6 DEF ArrivalsSound, CloseSound, HasClose
  <2> QED BY <1>4, <2>1, <2>2, <2>3, ResultMoves DEF ReportsLoss
<1> QED BY <1>2, <1>3, <1>4 DEF CloseSound, ResultNotLost

-----------------------------------------------------------------------------
(* The frames on their way *)

In(f, line) == \E i \in 1..Len(line) : line[i] = f
Before(f, g, line) == \E i, j \in 1..Len(line) : i < j /\ line[i] = f /\ line[j] = g

\* Frame f is written, being written or waiting; and it is so before g.
InLine(f, done, w) == In(f, done) \/ In(f, w.buffer) \/ (w.writing /\ f = w.inflight)
Ahead(f, g, done, w) ==
  \/ Before(f, g, done) \/ Before(f, g, w.buffer) \/ (In(f, done) /\ In(g, w.buffer))
  \/ w.writing /\ ((In(f, done) /\ g = w.inflight) \/ (f = w.inflight /\ In(g, w.buffer)))

LEMMA InFacts ==
  ASSUME NEW S, NEW line \in Seq(S), NEW f
  PROVE  /\ \A m \in S : In(f, Append(line, m)) <=> In(f, line) \/ f = m
         /\ line # <<>> => (In(f, line) <=> f = Head(line) \/ In(f, Tail(line)))
         /\ ~In(f, <<>>)
<1>1. ASSUME NEW m \in S PROVE In(f, Append(line, m)) <=> In(f, line) \/ f = m
  BY SequenceFacts DEF In
<1>2. ASSUME line # <<>> PROVE In(f, line) <=> f = Head(line) \/ In(f, Tail(line))
  <2> DEFINE rest == Tail(line)
  <2>1. /\ Len(line) \in Nat /\ Len(line) >= 1 /\ Len(rest) = Len(line) - 1 /\ Head(line) = line[1]
        /\ \A i \in 1..Len(line) - 1 : rest[i] = line[i + 1]
    BY <1>2, SequenceFacts
  <2> HIDE DEF rest
  <2>2. \A i \in 1..Len(rest) : i + 1 \in 1..Len(line) /\ rest[i] = line[i + 1]
    BY <2>1
  <2>3. \A i \in 1..Len(line) : i # 1 => i - 1 \in 1..Len(rest) /\ rest[i - 1] = line[i]
    BY <2>1
  <2>4. In(f, line) <=> f = Head(line) \/ In(f, rest)
    BY <2>1, <2>2, <2>3 DEF In
  <2> QED BY <2>4 DEF rest
<1> QED BY <1>1, <1>2 DEF In

LEMMA BeforeFacts ==
  ASSUME NEW S, NEW line \in Seq(S), NEW f, NEW g
  PROVE  /\ \A m \in S : Before(f, g, Append(line, m)) <=> Before(f, g, line) \/ (In(f, line) /\ g = m)
         /\ line # <<>> => (Before(f, g, line) <=> Before(f, g, Tail(line)) \/ (f = Head(line) /\ In(g, Tail(line))))
         /\ ~Before(f, g, <<>>)
<1>1. ASSUME NEW m \in S PROVE Before(f, g, Append(line, m)) <=> Before(f, g, line) \/ (In(f, line) /\ g = m)
  <2> DEFINE more == Append(line, m)
  <2>1. /\ Len(line) \in Nat /\ Len(more) = Len(line) + 1 /\ more[Len(line) + 1] = m
        /\ \A i \in 1..Len(line) : more[i] = line[i]
    BY SequenceFacts
  <2> HIDE DEF more
  <2>2. ASSUME Before(f, g, more) PROVE Before(f, g, line) \/ (In(f, line) /\ g = m)
    <3>1. PICK i, j \in 1..Len(more) : i < j /\ more[i] = f /\ more[j] = g
      BY <2>2 DEF Before
    <3>2. i \in 1..Len(line) /\ line[i] = f
      BY <2>1, <3>1
    <3>3. CASE j \in 1..Len(line)
      BY <2>1, <3>1, <3>2, <3>3 DEF Before
    <3>4. CASE j = Len(line) + 1
      BY <2>1, <3>1, <3>2, <3>4 DEF In
    <3> QED BY <2>1, <3>1, <3>3, <3>4
  <2>3. ASSUME Before(f, g, line) PROVE Before(f, g, more)
    <3>1. PICK i, j \in 1..Len(line) : i < j /\ line[i] = f /\ line[j] = g
      BY <2>3 DEF Before
    <3> QED BY <2>1, <3>1 DEF Before
  <2>4. ASSUME In(f, line), g = m PROVE Before(f, g, more)
    <3>1. PICK i \in 1..Len(line) : line[i] = f
      BY <2>4 DEF In
    <3>2. i \in 1..Len(more) /\ Len(line) + 1 \in 1..Len(more) /\ i < Len(line) + 1
      BY <2>1, <3>1
    <3> QED BY <2>1, <2>4, <3>1, <3>2 DEF Before
  <2> QED BY <2>2, <2>3, <2>4 DEF more
<1>2. ASSUME line # <<>>
      PROVE  Before(f, g, line) <=> Before(f, g, Tail(line)) \/ (f = Head(line) /\ In(g, Tail(line)))
  <2> DEFINE rest == Tail(line)
  <2>1. /\ Len(line) \in Nat /\ Len(line) >= 1 /\ Len(rest) = Len(line) - 1 /\ Head(line) = line[1]
        /\ \A i \in 1..Len(line) - 1 : rest[i] = line[i + 1]
    BY <1>2, SequenceFacts
  <2> HIDE DEF rest
  <2>2. \A i \in 1..Len(rest) : i + 1 \in 1..Len(line) /\ rest[i] = line[i + 1]
    BY <2>1
  <2>3. \A i \in 1..Len(line) : i # 1 => i - 1 \in 1..Len(rest) /\ rest[i - 1] = line[i]
    BY <2>1
  <2>5. ASSUME Before(f, g, line) PROVE Before(f, g, rest) \/ (f = Head(line) /\ In(g, rest))
    <3>1. PICK i, j \in 1..Len(line) : i < j /\ line[i] = f /\ line[j] = g
      BY <2>5 DEF Before
    <3>2. j - 1 \in 1..Len(rest) /\ rest[j - 1] = g
      BY <2>3, <3>1
    <3>3. CASE i = 1
      BY <2>1, <3>1, <3>2, <3>3 DEF In
    <3>4. CASE i # 1
      <4>1. i - 1 \in 1..Len(rest) /\ rest[i - 1] = f /\ i - 1 < j - 1
        BY <2>3, <3>1, <3>4
      <4> QED BY <3>2, <4>1 DEF Before
    <3> QED BY <3>3, <3>4
  <2>6. ASSUME Before(f, g, rest) PROVE Before(f, g, line)
    <3>1. PICK i, j \in 1..Len(rest) : i < j /\ rest[i] = f /\ rest[j] = g
      BY <2>6 DEF Before
    <3>2. i + 1 \in 1..Len(line) /\ j + 1 \in 1..Len(line) /\ i + 1 < j + 1 /\ line[i + 1] = f /\ line[j + 1] = g
      BY <2>2, <3>1
    <3> QED BY <3>2 DEF Before
  <2>7. ASSUME f = Head(line), In(g, rest) PROVE Before(f, g, line)
    <3>1. PICK j \in 1..Len(rest) : rest[j] = g
      BY <2>7 DEF In
    <3>2. 1 \in 1..Len(line) /\ j + 1 \in 1..Len(line) /\ 1 < j + 1 /\ line[1] = f /\ line[j + 1] = g
      BY <2>1, <2>2, <2>7, <3>1
    <3> QED BY <3>2 DEF Before
  <2> QED BY <2>5, <2>6, <2>7 DEF rest
<1>3. ~Before(f, g, <<>>)
  BY DEF Before
<1> QED BY <1>1, <1>2, <1>3

LEMMA AppendFacts ==
  ASSUME NEW S, NEW line \in Seq(S), NEW m \in S, NEW more, more = Append(line, m)
  PROVE  /\ \A f : In(f, more) <=> In(f, line) \/ f = m
         /\ \A f, g : Before(f, g, more) <=> Before(f, g, line) \/ (In(f, line) /\ g = m)
BY InFacts, BeforeFacts

\* A writer that takes its next frame changes no order, when nothing is being written.
LEMMA TakenLine ==
  ASSUME NEW done \in Seq(Frames), NEW w, SoundWriter(w), NEW f, NEW g
  PROVE  /\ Ahead(f, g, done, Taken(w)) =>
              Before(f, g, done) \/ Before(f, g, w.buffer) \/ (In(f, done) /\ In(g, w.buffer))
         /\ InLine(f, done, Taken(w)) => In(f, done) \/ In(f, w.buffer)
<1>1. w.buffer \in Seq(Frames)
  BY DEF SoundWriter, Writers
<1>2. CASE w.buffer = <<>>
  BY <1>1, <1>2, InFacts, BeforeFacts DEF Taken, NewWriter, Ahead, InLine
<1>3. CASE w.buffer # <<>>
  <2> DEFINE t == Taken(w)
  <2>1. t.buffer = Tail(w.buffer) /\ t.inflight = Head(w.buffer) /\ t.writing
    BY <1>3 DEF Taken
  <2>2. /\ In(f, w.buffer) <=> f = Head(w.buffer) \/ In(f, Tail(w.buffer))
        /\ In(g, w.buffer) <=> g = Head(w.buffer) \/ In(g, Tail(w.buffer))
        /\ Before(f, g, w.buffer) <=> Before(f, g, Tail(w.buffer)) \/ (f = Head(w.buffer) /\ In(g, Tail(w.buffer)))
    BY <1>1, <1>3, InFacts, BeforeFacts
  <2> HIDE DEF t
  <2>3. /\ Ahead(f, g, done, t) =>
              Before(f, g, done) \/ Before(f, g, w.buffer) \/ (In(f, done) /\ In(g, w.buffer))
        /\ InLine(f, done, t) => In(f, done) \/ In(f, w.buffer)
    BY <2>1, <2>2 DEF Ahead, InLine
  <2> QED BY <2>3 DEF t
<1> QED BY <1>2, <1>3

LEMMA PushedLine ==
  ASSUME NEW done \in Seq(Frames), NEW w, SoundWriter(w), NEW h \in Frames, NEW f, NEW g
  PROVE  /\ Ahead(f, g, done, Pushed(w, h)) => Ahead(f, g, done, w) \/ (InLine(f, done, w) /\ g = h)
         /\ InLine(f, done, Pushed(w, h)) => InLine(f, done, w) \/ f = h
<1> DEFINE q == [w EXCEPT !.buffer = Append(@, h)]
<1>1. /\ w.buffer \in Seq(Frames) /\ q.buffer = Append(w.buffer, h) /\ q.inflight = w.inflight /\ q.writing = w.writing
      /\ SoundWriter(q)
  <2>1. w.buffer \in Seq(Frames) /\ Append(w.buffer, h) \in Seq(Frames)
    BY DEF SoundWriter, Writers
  <2>2. q.buffer = Append(w.buffer, h) /\ q.inflight = w.inflight /\ q.writing = w.writing
    BY DEF SoundWriter, Writers
  <2>3. SoundWriter(q)
    BY <2>1 DEF SoundWriter, Writers
  <2> QED BY <2>1, <2>2, <2>3
<1>2. Pushed(w, h) = IF WebTransport /\ ~w.writing THEN Taken(q) ELSE q
  BY DEF Pushed
<1> HIDE DEF q
<1>3. /\ In(f, q.buffer) <=> In(f, w.buffer) \/ f = h
      /\ In(g, q.buffer) <=> In(g, w.buffer) \/ g = h
      /\ Before(f, g, q.buffer) <=> Before(f, g, w.buffer) \/ (In(f, w.buffer) /\ g = h)
  <2>1. In(f, Append(w.buffer, h)) <=> In(f, w.buffer) \/ f = h
    BY <1>1, InFacts
  <2>2. In(g, Append(w.buffer, h)) <=> In(g, w.buffer) \/ g = h
    BY <1>1, InFacts
  <2>3. Before(f, g, Append(w.buffer, h)) <=> Before(f, g, w.buffer) \/ (In(f, w.buffer) /\ g = h)
    BY <1>1, BeforeFacts
  <2> QED BY <1>1, <2>1, <2>2, <2>3
<1>4. CASE WebTransport /\ ~w.writing
  <2>1. /\ Ahead(f, g, done, Taken(q)) =>
              Before(f, g, done) \/ Before(f, g, q.buffer) \/ (In(f, done) /\ In(g, q.buffer))
        /\ InLine(f, done, Taken(q)) => In(f, done) \/ In(f, q.buffer)
    BY <1>1, TakenLine
  <2> QED BY <1>2, <1>3, <1>4, <2>1 DEF Ahead, InLine
<1>5. CASE ~(WebTransport /\ ~w.writing)
  <2>1. Pushed(w, h) = q
    BY <1>2, <1>5
  <2> QED BY <1>1, <1>3, <2>1 DEF Ahead, InLine
<1> QED BY <1>4, <1>5

\* The writer loses frames, or gets one.
Shrunk ==
  /\ writer'.buffer \in {writer.buffer, <<>>}
  /\ writer'.writing => writer.writing /\ writer'.inflight = writer.inflight
Kept == session'.stdinClosed = session.stdinClosed

LEMMA CloseLine ==
  ASSUME Typed, NEW s \in Sessions, NEW w, NEW result, CloseWith(s, w, result), SoundWriter(w),
         w.buffer = writer.buffer, w.writing => writer.writing /\ w.inflight = writer.inflight
  PROVE  Shrunk /\ session'.stdinClosed = s.stdinClosed
<1>1. Emptied(w).buffer \in {writer.buffer, <<>>} /\ Emptied(w).writing = w.writing /\ Emptied(w).inflight = w.inflight
  BY DEF Emptied, SoundWriter, Writers
<1>2. writer' \in {w, Emptied(w)}
  BY DEF CloseWith
<1>3. session'.stdinClosed = s.stdinClosed
  BY DEF CloseWith, Sessions
<1> QED BY <1>1, <1>2, <1>3 DEF Shrunk

LEMMA SendLine ==
  ASSUME Typed, NEW s \in Sessions, NEW f, SendAny(s, f)
  PROVE  /\ Shrunk \/ writer' = Pushed(writer, f)
         /\ session'.stdinClosed = s.stdinClosed
<1>1. CASE CloseOf(s, "error")
  BY <1>1, CloseLine DEF CloseOf, Typed
<1>2. CASE session' = s /\ (writer' = writer \/ writer' = Pushed(writer, f))
  BY <1>2 DEF Shrunk
<1> QED BY <1>1, <1>2 DEF SendAny, Send, Transmit

LEMMA ProcessLine ==
  ASSUME Typed, NEW m, NEW rest, Process(m, rest)
  PROVE  Shrunk /\ Kept
<1>0. session \in Sessions
  BY DEF Typed
<1>1. ASSUME NEW result, Close(result) PROVE Shrunk /\ Kept
  BY <1>0, <1>1, CloseLine DEF Close, CloseOf, Kept, Typed
<1>2. CASE NotYet
  BY <1>2 DEF NotYet, Shrunk, Kept
<1>3. CASE ProcessAck
  <2>1. ASSUME NEW t, session' = [session EXCEPT !.state = "connected", !.inConnect = TRUE, !.terminate = t]
        PROVE  Kept
    BY <1>0, <2>1 DEF Sessions, Kept
  <2> QED BY <1>1, <1>3, <2>1 DEF ProcessAck, Shrunk
<1>4. CASE ProcessOutput(m)
  BY <1>0, <1>1, <1>4 DEF ProcessOutput, Shrunk, Kept, Sessions
<1> QED BY <1>1, <1>2, <1>3, <1>4 DEF Process

\* The frames that a step may add: input behind the end of stream or before what is being
\* encrypted is not among them.
NewInput(f) ==
  \/ ~Input(f)
  \/ f = Frame("eof") /\ ~session.stdinClosed /\ session'.stdinClosed
  \/ /\ f = Stdin(seen.calls + 1) /\ ~session.stdinClosed
     /\ pending'.stdin = pending.stdin /\ seen'.calls = seen.calls + 1
     /\ ~seen'.overlap => ~seen.overlap /\ pending.stdin = {}
  \/ \E n \in pending.stdin : f = Stdin(n) /\ ~session.stdinClosed /\ pending'.stdin = pending.stdin \ {n} /\ seen' = seen

Adds(f) == writer' = Pushed(writer, f) /\ NewInput(f)
Written == writer.writing /\ wire' = Append(wire, writer.inflight) /\ writer' \in {Taken(writer), NewWriter}
Drained ==
  /\ ~WebTransport /\ writer.buffer # <<>>
  /\ wire' = Append(wire, Head(writer.buffer)) /\ writer' = [writer EXCEPT !.buffer = Tail(@)]

LEMMA WireMoves ==
  ASSUME Typed, Next
  PROVE  /\ (wire' = wire /\ Shrunk) \/ (\E f \in Frames : wire' = wire /\ Adds(f)) \/ Written \/ Drained
         /\ session.stdinClosed => session'.stdinClosed
<1>0. session \in Sessions /\ SoundWriter(writer) /\ seen \in Past
  BY DEF Typed
<1>1. ASSUME NEW result, Close(result) PROVE Shrunk /\ Kept
  BY <1>0, <1>1, CloseLine DEF Close, CloseOf, Kept
<1>2. ASSUME NEW f \in Frames, ~Input(f), SendAny(session, f) PROVE (Shrunk \/ Adds(f)) /\ Kept
  BY <1>0, <1>2, SendLine DEF Adds, NewInput, Kept
<1>3. /\ ~Input(Frame("signal")) /\ ~Input(Frame("open")) /\ ~Input(Frame("attach")) /\ ~Input(Frame("clientHello"))
      /\ Frame("signal") \in Frames /\ Frame("open") \in Frames /\ Frame("attach") \in Frames
      /\ Frame("clientHello") \in Frames /\ Frame("eof") \in Frames
  BY FrameTyped DEF Input, Frame
<1>4. CASE UNCHANGED <<session, writer, wire>>
  BY <1>4 DEF Shrunk
<1>5. CASE Disconnect \/ ConnectionFails
  BY <1>1, <1>5 DEF Disconnect, ConnectionFails, Kept
<1>6. CASE Resize \/ Heartbeat
  BY <1>2, <1>3, <1>6 DEF Resize, Heartbeat, SendAny, Kept
<1>7. CASE seen.calls < MaxCalls /\ WriteStdin
  <2>1. CASE NotYet /\ wire' = wire
    BY <2>1 DEF NotYet, Shrunk
  <2>2. CASE /\ SendAny(session, Stdin(seen.calls + 1)) /\ pending' = pending
             /\ seen' = [Counted EXCEPT !.overlap = @ \/ pending.stdin # {}]
             /\ wire' = wire /\ ~session.stdinClosed
    <3>1. Stdin(seen.calls + 1) \in Frames
      BY <1>0, <1>7, FrameTyped, Bounds DEF Past
    <3>2. Shrunk \/ writer' = Pushed(writer, Stdin(seen.calls + 1))
      BY <1>0, <2>2, SendLine
    <3>3. NewInput(Stdin(seen.calls + 1))
      BY <1>0, <2>2 DEF NewInput, Counted, Past
    <3> QED BY <2>2, <3>1, <3>2, <3>3 DEF Adds
  <2> QED BY <1>7, <2>1, <2>2 DEF WriteStdin, CanWrite
<1>8. CASE CloseStdin
  <2> DEFINE s == [session EXCEPT !.stdinClosed = TRUE]
  <2>1. s \in Sessions /\ s.stdinClosed
    BY <1>0 DEF Sessions
  <2>2. ~session.stdinClosed /\ wire' = wire /\ SendAny(s, Frame("eof"))
    BY <1>8 DEF CloseStdin, CanWrite, SendAny
  <2>3. (Shrunk \/ writer' = Pushed(writer, Frame("eof"))) /\ session'.stdinClosed
    <3> HIDE DEF s
    <3> QED BY <2>1, <2>2, SendLine
  <2> QED BY <1>3, <2>2, <2>3 DEF Adds, NewInput
<1>9. CASE RequestTermination
  <2> DEFINE s == [session EXCEPT !.terminate = "requested"]
  <2>1. s \in Sessions /\ s.stdinClosed = session.stdinClosed
    BY <1>0 DEF Sessions
  <2>2. CASE NotYet
    BY <1>9, <2>2 DEF NotYet, RequestTermination, Shrunk
  <2>3. CASE Transmit(s, Frame("signal"))
    <3>1. CASE CloseOf(s, "error")
      <4>1. Shrunk /\ session'.stdinClosed = s.stdinClosed
        <5> HIDE DEF s
        <5> QED BY <1>0, <2>1, <3>1, CloseLine DEF CloseOf
      <4> QED BY <1>9, <2>1, <4>1 DEF RequestTermination
    <3>2. CASE session' = s /\ writer' = Pushed(writer, Frame("signal"))
      <4>1. wire' = wire
        BY <1>9 DEF RequestTermination
      <4> QED BY <1>3, <2>1, <3>2, <4>1 DEF Adds, NewInput
    <3> QED BY <2>3, <3>1, <3>2 DEF Transmit
  <2> QED BY <1>9, <2>2, <2>3 DEF RequestTermination
<1>10. CASE WriteSettles
  <2>2. CASE CloseWith(session, [writer EXCEPT !.inflight = NoFrame, !.writing = FALSE], "error") /\ UNCHANGED wire
    <3> DEFINE w == [writer EXCEPT !.inflight = NoFrame, !.writing = FALSE]
    <3>1. SoundWriter(w) /\ w.buffer = writer.buffer /\ ~w.writing
      BY <1>0 DEF SoundWriter, Writers
    <3>2. Shrunk /\ session'.stdinClosed = session.stdinClosed
      <4>1. CloseWith(session, w, "error")
        BY <2>2
      <4> HIDE DEF w
      <4> QED BY <1>0, <3>1, <4>1, CloseLine
    <3> QED BY <2>2, <3>2
  <2>3. CASE wire' = Append(wire, writer.inflight) /\ writer' \in {Taken(writer), NewWriter} /\ UNCHANGED session
    BY <1>10, <2>3 DEF WriteSettles, Written
  <2> QED BY <1>10, <2>2, <2>3 DEF WriteSettles
<1>11. CASE SocketDrains
  BY <1>11 DEF SocketDrains, Drained
<1>12. CASE SocketOpens \/ Adopt
  <2>1. session'.stdinClosed = session.stdinClosed /\ wire' = wire
    BY <1>0, <1>12 DEF SocketOpens, Adopt, Begins, HandleOpen, OpenRefused, OpenThrows, Sessions
  <2>2. writer' = writer \/ writer' = Pushed(writer, Frame("open")) \/ writer' = Pushed(writer, Frame("clientHello"))
    BY <1>12 DEF SocketOpens, Adopt, Begins, HandleOpen, OpenRefused, OpenThrows
  <2> QED BY <1>3, <2>1, <2>2 DEF Shrunk, Adds, NewInput
<1>13. CASE Connect
  <2> DEFINE s == [session EXCEPT !.state = "connecting"]
  <2>1. s \in Sessions /\ s.stdinClosed = session.stdinClosed
    BY <1>0 DEF Sessions
  <2>2. ASSUME CloseOf(s, "error") PROVE Shrunk /\ Kept
    <3> HIDE DEF s
    <3> QED BY <1>0, <2>1, <2>2, CloseLine DEF CloseOf, Kept
  <2>3. CASE session' = s /\ UNCHANGED writer
    BY <1>13, <2>1, <2>3 DEF Connect, Shrunk
  <2> QED BY <1>13, <2>2, <2>3 DEF Connect, Kept
<1>14. CASE ConnectReturns \/ OpenFails \/ PeerCloses
  BY <1>0, <1>14 DEF ConnectReturns, OpenFails, PeerCloses, Sessions, Shrunk
<1>15. CASE EndSeen \/ Decrypted
  BY <1>1, <1>4, <1>15 DEF EndSeen, Decrypted, NotYet, Kept
<1>16. CASE Arrives
  BY <1>1, <1>4, <1>16, ProcessLine DEF Arrives, NotYet, Kept
<1>17. CASE RunNext
  BY <1>17, ProcessLine DEF RunNext, Kept
<1>18. CASE HelloVerified \/ ProofSettles
  <2>1. wire' = wire
    BY <1>18 DEF HelloVerified, ProofSettles
  <2>2. NotYet \/ Close("error") \/ SendAny(session, Frame("open")) \/ SendAny(session, Frame("attach"))
    BY <1>18 DEF HelloVerified, ProofSettles
  <2> QED BY <1>1, <1>2, <1>3, <1>4, <2>1, <2>2 DEF NotYet, Kept
<1>19. ASSUME NEW n \in pending.stdin, Encrypted(n)
       PROVE  /\ (wire' = wire /\ Shrunk) \/ (\E f \in Frames : wire' = wire /\ Adds(f))
              /\ session.stdinClosed => session'.stdinClosed
  <2>1. wire' = wire /\ seen' = seen /\ pending'.stdin = pending.stdin \ {n}
    BY <1>19 DEF Encrypted, Typed
  <2>2. CASE NotYet
    BY <2>1, <2>2 DEF NotYet, Shrunk
  <2>3. CASE CanWrite /\ SendAny(session, Stdin(n))
    <3>1. Stdin(n) \in Frames
      BY FrameTyped, Bounds DEF Typed
    <3>2. (Shrunk \/ writer' = Pushed(writer, Stdin(n))) /\ session'.stdinClosed = session.stdinClosed
      BY <1>0, <2>3, SendLine
    <3>3. NewInput(Stdin(n))
      BY <2>1, <2>3 DEF NewInput, CanWrite
    <3> QED BY <2>1, <3>1, <3>2, <3>3 DEF Adds
  <2> QED BY <1>19, <2>2, <2>3 DEF Encrypted
<1> QED BY <1>4, <1>5, <1>6, <1>7, <1>8, <1>9, <1>10, <1>11, <1>12, <1>13, <1>14, <1>15, <1>16, <1>17, <1>18, <1>19, NextCases
        DEF TransportReady, StreamCreated, OpenReturns, StreamRefused, ServerSends

LEMMA LineMoves ==
  ASSUME Typed, writer.writing => WebTransport, Next
  PROVE  /\ \E h \in Frames :
              /\ NewInput(h)
              /\ \A f, g : Ahead(f, g, wire', writer') => Ahead(f, g, wire, writer) \/ (InLine(f, wire, writer) /\ g = h)
              /\ \A f : InLine(f, wire', writer') => InLine(f, wire, writer) \/ f = h
         /\ writer'.writing => WebTransport'
<1>0. wire \in Seq(Frames) /\ SoundWriter(writer) /\ writer.buffer \in Seq(Frames) /\ WebTransport' = WebTransport
  BY PastTyped DEF Typed, SoundWriter, Writers, WebTransport
<1>w. wire \in Seq(Frames)
  BY <1>0
<1>1. Frame("signal") \in Frames /\ NewInput(Frame("signal"))
  BY FrameTyped DEF NewInput, Input, Frame
<1>2. ASSUME \A f, g : Ahead(f, g, wire', writer') => Ahead(f, g, wire, writer),
             \A f : InLine(f, wire', writer') => InLine(f, wire, writer)
      PROVE  \E h \in Frames :
              /\ NewInput(h)
              /\ \A f, g : Ahead(f, g, wire', writer') => Ahead(f, g, wire, writer) \/ (InLine(f, wire, writer) /\ g = h)
              /\ \A f : InLine(f, wire', writer') => InLine(f, wire, writer) \/ f = h
  BY <1>1, <1>2
<1>3. CASE wire' = wire /\ Shrunk
  <2>1. \A f : In(f, writer'.buffer) => In(f, writer.buffer)
    BY <1>3 DEF Shrunk, In
  <2>2. \A f, g : Before(f, g, writer'.buffer) => Before(f, g, writer.buffer)
    BY <1>3 DEF Shrunk, Before
  <2>3. \A f, g : Ahead(f, g, wire', writer') => Ahead(f, g, wire, writer)
    BY <1>3, <2>1, <2>2 DEF Ahead, Shrunk
  <2>4. \A f : InLine(f, wire', writer') => InLine(f, wire, writer)
    BY <1>3, <2>1 DEF InLine, Shrunk
  <2> QED BY <1>0, <1>2, <1>3, <2>3, <2>4 DEF Shrunk
<1>4. CASE \E f \in Frames : wire' = wire /\ Adds(f)
  <2>1. PICK h \in Frames : wire' = wire /\ Adds(h)
    BY <1>4
  <2>2. \A f, g : Ahead(f, g, wire', writer') => Ahead(f, g, wire, writer) \/ (InLine(f, wire, writer) /\ g = h)
    BY <1>0, <2>1, PushedLine DEF Adds
  <2>3. \A f : InLine(f, wire', writer') => InLine(f, wire, writer) \/ f = h
    BY <1>0, <2>1, PushedLine DEF Adds
  <2>4. writer'.writing => WebTransport
    BY <1>0, <2>1 DEF Adds, Pushed, SoundWriter, Writers
  <2> QED BY <1>0, <2>1, <2>2, <2>3, <2>4 DEF Adds
<1>5. CASE Written
  <2>1. writer.inflight \in Frames /\ writer.writing /\ wire' \in Seq(Frames)
    BY <1>0, <1>5 DEF Written, SoundWriter
  <2>a. PICK last \in Frames : last = writer.inflight /\ wire' = Append(wire, last)
    BY <1>0, <1>5, <2>1 DEF Written
  <2>b. wire' = Append(wire, last)
    BY <2>a
  <2>2. ASSUME NEW f PROVE In(f, wire') <=> In(f, wire) \/ f = last
    BY <1>w, <2>b, AppendFacts
  <2>3. ASSUME NEW f, NEW g PROVE Before(f, g, wire') <=> Before(f, g, wire) \/ (In(f, wire) /\ g = last)
    BY <1>w, <2>b, AppendFacts
  <2>4. ASSUME NEW f, NEW g, Ahead(f, g, wire', writer')
        PROVE  Before(f, g, wire') \/ Before(f, g, writer.buffer) \/ (In(f, wire') /\ In(g, writer.buffer))
    <3>1. CASE writer' = Taken(writer)
      BY <1>0, <2>1, <2>4, <3>1, TakenLine
    <3>2. CASE writer' = NewWriter
      <4>1. ~In(g, <<>>) /\ ~Before(f, g, <<>>)
        BY DEF In, Before
      <4>2. writer'.buffer = <<>> /\ ~writer'.writing
        BY <3>2 DEF NewWriter
      <4> QED BY <2>4, <4>1, <4>2 DEF Ahead
    <3> QED BY <1>5, <3>1, <3>2 DEF Written
  <2>5. ASSUME NEW f, InLine(f, wire', writer') PROVE In(f, wire') \/ In(f, writer.buffer)
    <3>1. CASE writer' = Taken(writer)
      BY <1>0, <2>1, <2>5, <3>1, TakenLine
    <3>2. CASE writer' = NewWriter
      <4>1. ~In(f, <<>>)
        BY DEF In
      <4>2. writer'.buffer = <<>> /\ ~writer'.writing
        BY <3>2 DEF NewWriter
      <4> QED BY <2>5, <4>1, <4>2 DEF InLine
    <3> QED BY <1>5, <3>1, <3>2 DEF Written
  <2>6. \A f, g : Ahead(f, g, wire', writer') => Ahead(f, g, wire, writer)
    BY <2>1, <2>a, <2>2, <2>3, <2>4 DEF Ahead
  <2>7. \A f : InLine(f, wire', writer') => InLine(f, wire, writer)
    BY <2>1, <2>a, <2>2, <2>5 DEF InLine
  <2> QED BY <1>0, <1>2, <2>1, <2>6, <2>7
<1>6. CASE Drained
  <2>1. /\ Head(writer.buffer) \in Frames /\ ~writer.writing /\ writer.buffer # <<>>
        /\ writer'.buffer = Tail(writer.buffer) /\ ~writer'.writing
    BY <1>0, <1>6 DEF Drained, SoundWriter, Writers
  <2>a. PICK last \in Frames : last = Head(writer.buffer) /\ wire' = Append(wire, last)
    BY <1>0, <1>6, <2>1 DEF Drained
  <2>b. wire' = Append(wire, last)
    BY <2>a
  <2>2. ASSUME NEW f PROVE In(f, wire') <=> In(f, wire) \/ f = last
    BY <1>w, <2>b, AppendFacts
  <2>3. ASSUME NEW f, NEW g PROVE Before(f, g, wire') <=> Before(f, g, wire) \/ (In(f, wire) /\ g = last)
    BY <1>w, <2>b, AppendFacts
  <2>4. ASSUME NEW f PROVE In(f, writer.buffer) <=> f = Head(writer.buffer) \/ In(f, writer'.buffer)
    BY <1>0, <2>1, InFacts
  <2>5. ASSUME NEW f, NEW g
        PROVE  Before(f, g, writer.buffer) <=> Before(f, g, writer'.buffer) \/ (f = Head(writer.buffer) /\ In(g, writer'.buffer))
    BY <1>0, <2>1, BeforeFacts
  <2>6. \A f, g : Ahead(f, g, wire', writer') => Ahead(f, g, wire, writer)
    BY <2>1, <2>a, <2>2, <2>3, <2>4, <2>5 DEF Ahead
  <2>7. \A f : InLine(f, wire', writer') => InLine(f, wire, writer)
    BY <2>1, <2>a, <2>2, <2>4 DEF InLine
  <2> QED BY <1>0, <1>2, <2>1, <2>6, <2>7
<1> QED BY <1>3, <1>4, <1>5, <1>6, WireMoves

\* The calls that were made, and the payloads being encrypted.
LEMMA CallsMove ==
  ASSUME Typed, Next
  PROVE  /\ seen.calls <= seen'.calls
         /\ \/ pending'.stdin \subseteq pending.stdin /\ (seen.overlap => seen'.overlap)
            \/ /\ pending'.stdin = pending.stdin \union {seen.calls + 1} /\ seen'.calls = seen.calls + 1
               /\ ~seen'.overlap => ~seen.overlap /\ pending.stdin = {}
<1>0. pending \in [stdin : SUBSET (1..MaxCalls), proofs : Nat] /\ seen \in Past /\ seen.calls \in Nat
  BY Bounds DEF Typed, Past
<1>1. CASE UNCHANGED <<pending, seen>>
  BY <1>0, <1>1
<1>2. CASE CloseStdin \/ Resize \/ RequestTermination \/ Heartbeat
  <2>1. pending' = pending /\ seen' = Counted
    BY <1>2 DEF CloseStdin, Resize, RequestTermination, Heartbeat
  <2> QED BY <1>0, <2>1 DEF Counted, Past
<1>3. CASE WriteStdin
  <2>1. seen' = [Counted EXCEPT !.overlap = @ \/ pending.stdin # {}]
    BY <1>3 DEF WriteStdin
  <2>2. seen'.calls = seen.calls + 1 /\ (~seen'.overlap => ~seen.overlap /\ pending.stdin = {})
    BY <1>0, <2>1 DEF Counted, Past
  <2>3. pending' = pending \/ pending' = [pending EXCEPT !.stdin = @ \union {seen.calls + 1}]
    BY <1>3 DEF WriteStdin
  <2> QED BY <1>0, <2>2, <2>3
<1>4. CASE ConnectReturns
  BY <1>0, <1>4 DEF ConnectReturns, Past
<1>5. CASE \E n \in pending.stdin : Encrypted(n)
  BY <1>0, <1>5 DEF Encrypted
<1>6. CASE SocketOpens \/ Adopt \/ HelloVerified \/ ProofSettles
  BY <1>0, <1>6 DEF SocketOpens, Adopt, Begins, HandleOpen, OpenRefused, OpenThrows, HelloVerified, ProofSettles
<1>7. CASE \E m \in Messages : ServerSends(m)
  BY <1>0, <1>7 DEF ServerSends, Past
<1> QED BY <1>1, <1>2, <1>3, <1>4, <1>5, <1>6, <1>7, NextCases
        DEF Connect, Disconnect, TransportReady, StreamCreated, OpenReturns, OpenFails, StreamRefused,
            WriteSettles, SocketDrains, PeerCloses, EndSeen, ConnectionFails, Arrives, RunNext, Decrypted

\* What has been sent lies before what is being encrypted, which one call at a time has begun.
Known(f) ==
  /\ f.type = "eof" => session.stdinClosed
  /\ f.type = "stdin" => f.n <= seen.calls /\ (~seen.overlap => \A n \in pending.stdin : f.n < n)
LineSound ==
  /\ \A f, g \in Frames : Ahead(f, g, wire, writer) => MayFollow(f, g)
  /\ \A f \in Frames : InLine(f, wire, writer) => Known(f)
  /\ writer.writing => WebTransport
EncryptSound ==
  /\ \A n \in pending.stdin : n <= seen.calls
  /\ ~seen.overlap => \A m, n \in pending.stdin : m = n

LEMMA EncryptStep ==
  ASSUME Typed, EncryptSound, Next
  PROVE  EncryptSound'
<1>0. seen.calls \in Nat /\ pending.stdin \subseteq Nat /\ seen'.calls \in Nat
  BY PastTyped, Bounds DEF Typed, Past
<1>1. CASE pending'.stdin \subseteq pending.stdin /\ (seen.overlap => seen'.overlap)
  BY <1>0, <1>1, CallsMove DEF EncryptSound
<1>2. CASE /\ pending'.stdin = pending.stdin \union {seen.calls + 1} /\ seen'.calls = seen.calls + 1
           /\ ~seen'.overlap => ~seen.overlap /\ pending.stdin = {}
  BY <1>0, <1>2 DEF EncryptSound
<1> QED BY <1>1, <1>2, CallsMove

\* What was in order stays so: new payloads have the greatest number yet.
LEMMA KnownStays ==
  ASSUME Typed, EncryptSound, Next, NEW f \in Frames, Known(f)
  PROVE  Known(f)'
<1>0. /\ seen.calls \in Nat /\ pending.stdin \subseteq Nat /\ seen'.calls \in Nat /\ f.n \in Nat /\ seen.calls <= seen'.calls
      /\ session.stdinClosed => session'.stdinClosed
  BY PastTyped, Bounds, CallsMove, WireMoves DEF Typed, Past, Frames
<1>1. CASE pending'.stdin \subseteq pending.stdin /\ (seen.overlap => seen'.overlap)
  BY <1>0, <1>1 DEF Known
<1>2. CASE /\ pending'.stdin = pending.stdin \union {seen.calls + 1} /\ seen'.calls = seen.calls + 1
           /\ ~seen'.overlap => ~seen.overlap /\ pending.stdin = {}
  BY <1>0, <1>2 DEF Known
<1> QED BY <1>1, <1>2, CallsMove

LEMMA NewKnown ==
  ASSUME Typed, EncryptSound, Next, NEW h \in Frames, NewInput(h)
  PROVE  /\ Known(h)'
         /\ \A f \in Frames : Known(f) => MayFollow(f, h)
<1>0. seen.calls \in Nat /\ pending.stdin \subseteq Nat /\ seen \in Past
  BY PastTyped, Bounds DEF Typed, Past
<1>1. CASE ~Input(h)
  BY <1>1 DEF Input, Known, MayFollow
<1>2. CASE h = Frame("eof") /\ ~session.stdinClosed /\ session'.stdinClosed
  BY <1>2 DEF Frame, Input, Known, MayFollow
<1>3. CASE /\ h = Stdin(seen.calls + 1) /\ ~session.stdinClosed
           /\ pending'.stdin = pending.stdin /\ seen'.calls = seen.calls + 1
           /\ ~seen'.overlap => ~seen.overlap /\ pending.stdin = {}
  <2>1. h.type = "stdin" /\ h.n = seen.calls + 1
    BY <1>3 DEF Stdin
  <2>2. \A f \in Frames : f.n \in Nat
    BY Bounds DEF Frames
  <2> QED BY <1>0, <1>3, <2>1, <2>2 DEF Input, Known, MayFollow
<1>4. ASSUME NEW n \in pending.stdin, h = Stdin(n), ~session.stdinClosed, pending'.stdin = pending.stdin \ {n}, seen' = seen
      PROVE  Known(h)' /\ \A f \in Frames : Known(f) => MayFollow(f, h)
  <2>1. h.type = "stdin" /\ h.n = n
    BY <1>4 DEF Stdin
  <2>2. \A f \in Frames : f.n \in Nat
    BY Bounds DEF Frames
  <2> QED BY <1>0, <1>4, <2>1, <2>2 DEF Input, Known, MayFollow, EncryptSound
<1> QED BY <1>1, <1>2, <1>3, <1>4 DEF NewInput

LEMMA LineStep ==
  ASSUME Typed, EncryptSound, LineSound, Next
  PROVE  LineSound'
<1>1. PICK h \in Frames :
        /\ NewInput(h)
        /\ \A f, g : Ahead(f, g, wire', writer') => Ahead(f, g, wire, writer) \/ (InLine(f, wire, writer) /\ g = h)
        /\ \A f : InLine(f, wire', writer') => InLine(f, wire, writer) \/ f = h
  BY LineMoves DEF LineSound
<1>2. writer'.writing => WebTransport'
  BY LineMoves DEF LineSound
<1>3. seen.overlap => seen'.overlap
  BY CallsMove DEF Typed, Past
<1>4. ASSUME NEW f \in Frames, InLine(f, wire', writer') PROVE Known(f)'
  BY <1>1, <1>4, KnownStays, NewKnown DEF LineSound
<1>5. ASSUME NEW f \in Frames, NEW g \in Frames, Ahead(f, g, wire', writer') PROVE MayFollow(f, g)'
  <2>1. MayFollow(f, g)
    BY <1>1, <1>5, NewKnown DEF LineSound
  <2> QED BY <1>3, <2>1 DEF MayFollow
<1> QED BY <1>2, <1>4, <1>5 DEF LineSound

-----------------------------------------------------------------------------
(* The theorems *)

IInv ==
  /\ Typed /\ LinkSound /\ EndSound /\ ArrivalsSound /\ BusySound
  /\ LostSound /\ CountsSound /\ CloseSound /\ EncryptSound /\ LineSound

LEMMA InitSound == Init => IInv
<1> SUFFICES ASSUME Init PROVE IInv
  OBVIOUS
<1>1. Typed
  BY InitTyped
<1>2. LinkSound /\ EndSound /\ ArrivalsSound /\ BusySound
  BY DEF Init, LinkSound, EndSound, ArrivalsSound, BusySound, Opening
<1>3. LostSound /\ CountsSound
  <2>1. Len(queue) = 0 /\ Len(inbox) = 0 /\ pending.proofs = 0 /\ seen.messages = 0 /\ link.carrier = "none"
    BY DEF Init
  <2>2. Extra = 0
    BY <2>1 DEF Extra, Ends
  <2> QED BY <2>1, <2>2, Bounds DEF LostSound, LastIsLost, CountsSound, Load
<1>4. CloseSound
  BY DEF Init, CloseSound, ResultNotLost
<1>5. EncryptSound
  BY DEF Init, EncryptSound
<1>6. LineSound
  <2>1. /\ \A f : ~In(f, wire) /\ ~In(f, writer.buffer)
        /\ \A f, g : ~Before(f, g, wire) /\ ~Before(f, g, writer.buffer)
        /\ ~writer.writing
    BY DEF Init, NewWriter, In, Before
  <2> QED BY <2>1 DEF LineSound, Ahead, InLine
<1> QED BY <1>1, <1>2, <1>3, <1>4, <1>5, <1>6 DEF IInv

LEMMA StepSound == IInv /\ [Next]_vars => IInv'
<1>1. ASSUME IInv, Next PROVE IInv'
  BY <1>1, StepTyped, LinkStep, EndStep, ArrivalsStep, BusyStep, LostStep, CountsStep, CloseStep, EncryptStep, LineStep
     DEF IInv
<1>2. ASSUME IInv, UNCHANGED vars PROVE IInv'
  <2>1. Typed' /\ LinkSound' /\ EndSound' /\ ArrivalsSound' /\ BusySound'
    BY <1>2, StepTyped DEF IInv, vars, LinkSound, EndSound, ArrivalsSound, BusySound, Promised, WebTransport, E2E
  <2>2. LostSound' /\ CountsSound' /\ CloseSound'
    BY <1>2 DEF IInv, vars, LostSound, CountsSound, CloseSound, Load, Extra, Ends, E2E, ResultNotLost
  <2>3. EncryptSound' /\ LineSound'
    BY <1>2 DEF IInv, vars, EncryptSound, LineSound, MayFollow, Known, WebTransport
  <2> QED BY <2>1, <2>2, <2>3 DEF IInv
<1> QED BY <1>1, <1>2

\* The parts of the invariant hold of every state of every session: the stages of the connection
\* agree with the phase of the session, and the queue, the line of frames and the payloads being
\* encrypted are what the code takes them to be.
THEOREM SessionSound == Spec => []IInv
BY InitSound, StepSound, PTL DEF Spec

\* A result that the server sent is never replaced by the report that the connection was lost
\* (handleClose, processMessage).
THEOREM ResultKept == Spec => []ResultNotLost
<1>1. IInv => ResultNotLost
  BY DEF IInv, CloseSound
<1> QED BY <1>1, SessionSound, PTL

\* Stdin reaches the connection in the order of the calls and ends once (writeStdin, closeStdin,
\* the writer of webtransport-connection.ts), whatever the connection does to the frames behind.
THEOREM InputOrdered == Spec => []InputInOrder
<1>1. IInv => InputInOrder
  <2> SUFFICES ASSUME IInv, NEW i \in 1..Len(wire), NEW j \in 1..Len(wire), i < j PROVE MayFollow(wire[i], wire[j])
    BY DEF InputInOrder
  <2>1. wire[i] \in Frames /\ wire[j] \in Frames
    BY DEF IInv, Typed
  <2>2. Before(wire[i], wire[j], wire)
    BY DEF Before
  <2> QED BY <2>1, <2>2 DEF IInv, LineSound, Ahead
<1> QED BY <1>1, SessionSound, PTL

\* A closed session holds no connection, no stream and no timer once its opening has settled, and
\* its queue and the proofs it signs stay bounded (close, open, connectWebTransport).
THEOREM ClosedHoldsNothing == Spec => []HoldsNothing
<1>1. IInv => SessionTypeOK
  <2> SUFFICES ASSUME IInv PROVE SessionTypeOK
    OBVIOUS
  <2>0. Typed /\ CountsSound
    BY DEF IInv
  <2>1. /\ \A i \in 1..Len(queue) : queue[i] \in Messages \union {Lost}
        /\ \A i \in 1..Len(inbox) : inbox[i] \in Messages
    BY <2>0 DEF Typed, Queued
  <2>2. \A i \in 1..Len(wire) : wire[i] \in Frames
    BY <2>0 DEF Typed
  <2>3. writer.buffer \in Seq(Frames) /\ writer.inflight \in Frames \union {NoFrame} /\ writer.writing \in BOOLEAN
    BY <2>0 DEF Typed, SoundWriter, Writers
  <2>4. \A i \in 1..Len(writer.buffer) : writer.buffer[i] \in Frames
    BY <2>3
  <2>5. Extra \in {0, 1} /\ Len(queue) \in Nat /\ Len(inbox) \in Nat /\ pending.proofs \in Nat
        /\ seen.messages \in 0..MaxMessages
    BY <2>0 DEF Extra, Typed, Past
  <2>6. Len(queue) <= MaxQueue + 1
    BY <2>0, <2>5, Bounds DEF CountsSound
  <2>7. pending.proofs \in 0..MaxMessages + 1
    <3>1. pending.proofs <= Load /\ Load \in Nat
      BY <2>5 DEF Load
    <3>2. E2E => Load <= MaxMessages + 1
      BY <2>0, <2>5, <3>1, Bounds DEF CountsSound
    <3> QED BY <2>0, <2>5, <3>1, <3>2, Bounds DEF CountsSound
  <2> QED BY <2>0, <2>1, <2>2, <2>3, <2>4, <2>6, <2>7 DEF SessionTypeOK, Typed
<1>2. IInv => HoldsNothing
  BY <1>1 DEF IInv, HoldsNothing, LinkSound, EndSound
<1> QED BY <1>2, SessionSound, PTL

\* The session keeps what it promises its callbacks: every step of it is a step or a stutter of
\* WebTTYEvents under the mapping of Promises.
THEOREM EventsImplemented == Spec => ImplementsEvents
<1>1. Init => Promises!EventsInit
  BY DEF Init, Promises!EventsInit, NoEvent, Promises!NoEvent
<1>2. IInv /\ [Next]_vars => [Promises!EventsNext]_(Promises!eventVars)
  BY StepPromised DEF IInv, vars, Promises!eventVars
<1> QED BY <1>1, <1>2, SessionSound, PTL DEF Spec, ImplementsEvents, Promises!EventsSpec
=============================================================================
